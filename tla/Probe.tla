------------------------------- MODULE Probe -------------------------------
(***************************************************************************)
(* One streaming request, internal/probe/probe.go: the goroutine that runs *)
(* probe.Run, the idle-timer callbacks time.AfterFunc runs beside it, the  *)
(* request context that the total timeout, the parent or a callback may    *)
(* cancel, and the server.                                                 *)
(*                                                                         *)
(* Time is in ticks since Run stamped Dispatch.  The decoder's framing is  *)
(* module SSEDecoder; here the server sends whole events.                  *)
(***************************************************************************)
EXTENDS Integers, Sequences, SequencesExt

CONSTANTS
  Timeout,      \* request.timeout
  IdleTimeout,  \* request.stream_idle_timeout
  Kinds,        \* the kinds of event the server may send
  MaxEvents,    \* bound: events the server sends
  MaxTime       \* bound: the clock stops here

EventKinds == {"other", "content", "pair", "usage", "badUsage", "malformed", "done"}

ASSUME ProbeAssumption ==
  /\ Timeout \in Nat \ {0}
  /\ IdleTimeout \in Nat \ {0}
  /\ Kinds \subseteq EventKinds
  /\ MaxEvents \in Nat
  /\ MaxTime \in Nat /\ Timeout <= MaxTime   \* the total timeout is reached

VARIABLES
  now,         \* time since Dispatch
  parentDone,  \* whether the parent context is cancelled
  ctxErr,      \* ctx.Err() of the request context
  pc,          \* where Run is
  stream,      \* whether the response body is open, at its end, or broken
  wire,        \* events the server has sent and Run has not read
  sentEvents,  \* number of events the server has sent
  event,       \* the event Run has just read
  firstByte,   \* the firstByte channel
  timer,       \* when the idle timer fires, or Never
  fired,       \* callbacks that have not yet sent to idleExpired
  expiring,    \* callbacks that have, and have not yet called cancel
  idleExpired, \* the idleExpired channel, of capacity 1
  readErr,     \* the error decoder.Next returned
  previous,    \* previousContent
  result,      \* Result, and the error Run returns with it
  tokens       \* history: events with content that Run has processed

envVars   == <<now, parentDone, firstByte, stream, wire, sentEvents>>
timerVars == <<timer, fired, expiring, idleExpired>>
runVars   == <<pc, event, readErr, previous, result, tokens>>
vars == <<envVars, ctxErr, timerVars, runVars>>

Never == -1
Unset == -1   \* the zero time, and a duration that was never computed

Causes == {"none", "canceled", "deadline", "network", "netTimeout", "late", "EOF"}
Errors == {"none", "send", "status", "contentType", "idle", "ended", "read",
           "decode", "noContent"}

Init ==
  /\ now = 0 /\ parentDone = FALSE /\ ctxErr = "none"
  /\ pc = "waiting"
  /\ stream = "open" /\ wire = <<>> /\ sentEvents = 0 /\ event = "other"
  /\ firstByte = Unset
  /\ timer = Never /\ fired = 0 /\ expiring = 0 /\ idleExpired = FALSE
  /\ readErr = "none" /\ previous = Unset /\ tokens = 0
  /\ result = [StatusCode |-> 0, TTFB |-> Unset, TTFT |-> Unset, ChunkITL |-> <<>>,
               ContentEvents |-> 0, Usage |-> "none", Duration |-> Unset,
               err |-> "none", cause |-> "none"]

-----------------------------------------------------------------------------
(***************************************************************************)
(* The clock, the contexts and the idle timer.                             *)
(***************************************************************************)
Tick ==
  /\ now < MaxTime
  /\ now' = now + 1
  /\ UNCHANGED <<parentDone, firstByte, stream, wire, sentEvents, ctxErr, timerVars, runVars>>

\* The first cancellation of a context is the one it reports.
CancelContext(err) == ctxErr' = IF ctxErr = "none" THEN err ELSE ctxErr

CancelParent ==
  /\ ~parentDone
  /\ parentDone' = TRUE
  /\ CancelContext("canceled")
  /\ UNCHANGED <<now, firstByte, stream, wire, sentEvents, timerVars, runVars>>

TotalTimeout ==
  /\ now >= Timeout /\ ctxErr = "none"
  /\ CancelContext("deadline")
  /\ UNCHANGED <<envVars, timerVars, runVars>>

\* The timer fires: its callback is a goroutine of its own.
IdleFires ==
  /\ timer # Never /\ now >= timer
  /\ timer' = Never
  /\ fired' = fired + 1
  /\ UNCHANGED <<envVars, ctxErr, expiring, idleExpired, runVars>>

\* The callback sends without blocking, and only then cancels.
IdleSignals ==
  /\ fired > 0
  /\ fired' = fired - 1
  /\ expiring' = expiring + 1
  /\ idleExpired' = TRUE
  /\ UNCHANGED <<envVars, ctxErr, timer, runVars>>

IdleCancels ==
  /\ expiring > 0
  /\ expiring' = expiring - 1
  /\ CancelContext("canceled")
  /\ UNCHANGED <<envVars, timer, fired, idleExpired, runVars>>

Callback == IdleSignals \/ IdleCancels

-----------------------------------------------------------------------------
(***************************************************************************)
(* The server and the network.  The transport runs GotFirstResponseByte    *)
(* before it hands the response to Do.                                     *)
(***************************************************************************)
FirstByte ==
  /\ pc = "waiting" /\ firstByte = Unset
  /\ firstByte' = now
  /\ UNCHANGED <<now, parentDone, stream, wire, sentEvents, ctxErr, timerVars, runVars>>

SendEvent ==
  /\ stream = "open" /\ pc \in {"read", "process"} /\ sentEvents < MaxEvents
  /\ \E kind \in Kinds : wire' = Append(wire, kind)
  /\ sentEvents' = sentEvents + 1
  /\ UNCHANGED <<now, parentDone, firstByte, stream, ctxErr, timerVars, runVars>>

EndStream ==
  /\ stream = "open" /\ pc \in {"read", "process", "errorBody"}
  /\ stream' \in {"ended", "broken"}
  /\ UNCHANGED <<now, parentDone, firstByte, wire, sentEvents, ctxErr, timerVars, runVars>>

Server == FirstByte \/ SendEvent \/ EndStream

-----------------------------------------------------------------------------
(***************************************************************************)
(* Run.                                                                    *)
(***************************************************************************)

\* Run returns, and its deferred calls stop the idle timer and cancel.
Return(err, cause, outcome) ==
  /\ pc' = "done"
  /\ result' = [outcome EXCEPT !.err = err, !.cause = cause, !.Duration = now]
  /\ timer' = Never
  /\ CancelContext("canceled")
  /\ UNCHANGED <<fired, expiring>>

\* client.Do fails: the context is done, the transport refuses a request that
\* is dispatched too late, the response headers are late, or the network fails.
SendFails ==
  /\ pc = "waiting"
  /\ \E cause \in {"network", "netTimeout", "late"} \cup ({ctxErr} \ {"none"}) : Return("send", cause, result)
  /\ UNCHANGED <<envVars, idleExpired, event, readErr, previous, tokens>>

Answered(r, status) == [r EXCEPT !.StatusCode = status, !.TTFB = firstByte]

\* client.Do returns a response: its status, then its Content-Type.
Respond ==
  /\ pc = "waiting" /\ firstByte # Unset
  /\ \E status \in {200, 503}, eventStream \in BOOLEAN :
       LET answered == Answered(result, status)
       IN \/ /\ status # 200
             /\ pc' = "errorBody" /\ result' = answered
             /\ UNCHANGED <<ctxErr, timerVars>>
          \/ /\ status = 200 /\ ~eventStream
             /\ Return("contentType", "none", answered)
             /\ UNCHANGED idleExpired
          \/ /\ status = 200 /\ eventStream
             /\ pc' = "read" /\ result' = answered
             /\ timer' = now + IdleTimeout
             /\ UNCHANGED <<ctxErr, fired, expiring, idleExpired>>
  /\ UNCHANGED <<envVars, event, readErr, previous, tokens>>

\* Up to 4096 bytes of an error response's body have been read: it may be
\* longer, at its end, or out of reach.
ReadErrorBody ==
  /\ pc = "errorBody"
  /\ Return("status", "none", result)
  /\ UNCHANGED <<envVars, idleExpired, event, readErr, previous, tokens>>

\* decoder.Next returns an event: one that is buffered can be read even when
\* the context is already done.
ReadEvent ==
  /\ pc = "read" /\ wire # <<>>
  /\ event' = Head(wire) /\ wire' = Tail(wire)
  /\ pc' = "process"
  /\ UNCHANGED <<now, parentDone, firstByte, stream, sentEvents, ctxErr, timerVars,
                 readErr, previous, result, tokens>>

\* Mutant: the request was built without its context.
ReadFailsAtEnd ==
  /\ pc = "read"
  /\ \/ wire = <<>> /\ stream = "ended" /\ readErr' = "EOF"
     \/ wire = <<>> /\ stream = "broken" /\ readErr' = "network"
  /\ pc' = "failed"
  /\ UNCHANGED <<envVars, ctxErr, timerVars, event, previous, result, tokens>>

\* decoder.Next fails: the context is done, or the stream has ended.
ReadFails ==
  /\ pc = "read"
  /\ \/ ctxErr # "none" /\ readErr' = ctxErr
     \/ wire = <<>> /\ stream = "ended" /\ readErr' = "EOF"
     \/ wire = <<>> /\ stream = "broken" /\ readErr' = "network"
  /\ pc' = "failed"
  /\ UNCHANGED <<envVars, ctxErr, timerVars, event, previous, result, tokens>>

\* Mutant: the cause of the read error is looked at before the idle timer.
FailByCause ==
  /\ pc = "failed"
  /\ idleExpired' = FALSE
  /\ \/ readErr = "EOF" /\ Return("ended", "none", result)
     \/ readErr = "canceled" /\ Return("read", readErr, result)
     \/ readErr \notin {"EOF", "canceled"} /\ idleExpired /\ Return("idle", "none", result)
     \/ readErr \notin {"EOF", "canceled"} /\ ~idleExpired /\ Return("read", readErr, result)
  /\ UNCHANGED <<envVars, event, readErr, previous, tokens>>

\* Why it failed: the idle timer comes first, and its signal is received.
Fail ==
  /\ pc = "failed"
  /\ idleExpired' = FALSE
  /\ \/ idleExpired /\ Return("idle", "none", result)
     \/ ~idleExpired /\ readErr = "EOF" /\ Return("ended", "none", result)
     \/ ~idleExpired /\ readErr # "EOF" /\ Return("read", readErr, result)
  /\ UNCHANGED <<envVars, event, readErr, previous, tokens>>

\* Mutant: [DONE] is enough to succeed.
ProcessDoneAnyway ==
  /\ pc = "process" /\ event = "done"
  /\ Return("none", "none", result)
  /\ UNCHANGED <<envVars, idleExpired, event, readErr, previous, tokens>>

\* idleTimer.Reset, then [DONE].
ProcessDone ==
  /\ pc = "process" /\ event = "done"
  /\ Return(IF result.ContentEvents = 0 THEN "noContent" ELSE "none", "none", result)
  /\ UNCHANGED <<envVars, idleExpired, event, readErr, previous, tokens>>

ProcessMalformed ==
  /\ pc = "process" /\ event = "malformed"
  /\ Return("decode", "none", result)
  /\ UNCHANGED <<envVars, idleExpired, event, readErr, previous, tokens>>

\* Mutant: the interval is taken the wrong way round.
ContentBackwards(r, last) ==
  IF last = Unset THEN [r EXCEPT !.ContentEvents = @ + 1, !.TTFT = now]
                  ELSE [r EXCEPT !.ContentEvents = @ + 1, !.ChunkITL = Append(@, last - now)]

\* One non-empty content: the first starts TTFT, the others add an interval.
Content(r, last) ==
  IF last = Unset THEN [r EXCEPT !.ContentEvents = @ + 1, !.TTFT = now]
                  ELSE [r EXCEPT !.ContentEvents = @ + 1, !.ChunkITL = Append(@, now - last)]

\* The choices of a chunk, in order: "pair" has two with content.
Contents(kind) == CASE kind = "content" -> 1 [] kind = "pair" -> 2 [] OTHER -> 0
Chunk(r) ==
  CASE Contents(event) = 0 -> r
    [] Contents(event) = 1 -> Content(r, previous)
    [] OTHER              -> Content(Content(r, previous), now)

\* Mutant: previousContent stays at the first content.
ProcessChunkFirst ==
  /\ pc = "process" /\ event \notin {"done", "malformed"}
  /\ timer' = now + IdleTimeout
  /\ result' = Chunk([result EXCEPT !.Usage = CASE event = "usage" -> "valid"
                                               [] event = "badUsage" -> "invalid"
                                               [] OTHER -> @])
  /\ previous' = IF Contents(event) > 0 /\ previous = Unset THEN now ELSE previous
  /\ tokens' = tokens + (IF Contents(event) > 0 THEN 1 ELSE 0)
  /\ pc' = "read"
  /\ UNCHANGED <<envVars, ctxErr, fired, expiring, idleExpired, event, readErr>>

ProcessChunk ==
  /\ pc = "process" /\ event \notin {"done", "malformed"}
  /\ timer' = now + IdleTimeout
  /\ result' = Chunk([result EXCEPT !.Usage = CASE event = "usage" -> "valid"
                                               [] event = "badUsage" -> "invalid"
                                               [] OTHER -> @])
  /\ previous' = IF Contents(event) > 0 THEN now ELSE previous
  /\ tokens' = tokens + (IF Contents(event) > 0 THEN 1 ELSE 0)
  /\ pc' = "read"
  /\ UNCHANGED <<envVars, ctxErr, fired, expiring, idleExpired, event, readErr>>

Run ==
  \/ SendFails \/ Respond \/ ReadErrorBody \/ ReadEvent \/ ReadFails \/ Fail
  \/ ProcessDone \/ ProcessMalformed \/ ProcessChunk

Terminated == pc = "done" /\ fired = 0 /\ expiring = 0 /\ UNCHANGED vars

Next ==
  \/ Tick \/ CancelParent \/ TotalTimeout \/ IdleFires \/ Callback
  \/ Server \/ Run \/ Terminated

(***************************************************************************)
(* Fairness: the clock advances, a context whose deadline has passed is    *)
(* cancelled, and Run goes on when it is not blocked on the network.       *)
(* Nothing obliges the server, the timer or the network.                   *)
(***************************************************************************)
RunUnblocked == ((stream # "open" \/ ctxErr # "none") /\ ReadErrorBody) \/ ReadEvent \/ ReadFails \/ Fail \/ ProcessDone
                \/ ProcessMalformed \/ ProcessChunk \/ (ctxErr # "none" /\ SendFails)
Fairness == WF_vars(Tick) /\ WF_vars(TotalTimeout) /\ WF_vars(RunUnblocked)

Spec == Init /\ [][Next]_vars /\ Fairness

-----------------------------------------------------------------------------
Durations == Nat \cup {Unset}
Results == [StatusCode : {0, 200, 503}, TTFB : Durations, TTFT : Durations,
            ChunkITL : Seq(Nat), ContentEvents : Nat,
            Usage : {"none", "valid", "invalid"}, Duration : Durations,
            err : Errors, cause : Causes]

\* Every variable has its type.
TypeOK ==
  /\ now \in Nat
  /\ parentDone \in BOOLEAN
  /\ ctxErr \in {"none", "canceled", "deadline"}
  /\ pc \in {"waiting", "errorBody", "read", "failed", "process", "done"}
  /\ stream \in {"open", "ended", "broken"}
  /\ wire \in Seq(EventKinds)
  /\ sentEvents \in Nat
  /\ event \in EventKinds
  /\ firstByte \in Durations
  /\ timer \in Nat \cup {Never}
  /\ fired \in Nat
  /\ expiring \in Nat
  /\ idleExpired \in BOOLEAN
  /\ readErr \in Causes
  /\ previous \in Durations
  /\ result \in Results
  /\ tokens \in Nat

\* An idle timeout cancels the request's own context, and must not pass for a
\* cancellation by the user: whatever the order of callback and reads, Run
\* reports a cancelled context only if its parent was cancelled.
IdleIsNotCancellation ==
  pc = "done" /\ result.cause = "canceled" => parentDone

\* Partial success is not success (README): Run succeeds only on [DONE] after
\* content over a 200 event stream, with nothing malformed or broken before it.
SuccessIsComplete ==
  pc = "done" /\ result.err = "none" =>
    result.StatusCode = 200 /\ event = "done" /\ tokens > 0 /\ readErr = "none"

\* The measurements of a run fit together, however events, resets and expiry
\* interleave: the first byte comes before the first content, TTFT plus the
\* chunk intervals lead to the last content, and that comes within Duration.
MeasurementsAddUp ==
  /\ Len(result.ChunkITL) = (IF tokens = 0 THEN 0 ELSE result.ContentEvents - 1)
  /\ tokens > 0 => /\ result.TTFB <= result.TTFT
                   /\ result.TTFT + SumFunction(result.ChunkITL) = previous
                   /\ pc = "done" => previous <= result.Duration

\* MEASUREMENT.md: chunk ITL is the arrival interval between consecutive
\* non-empty content events, so there is one interval less than such events.
IntervalPerEvent == tokens > 0 => Len(result.ChunkITL) = tokens - 1

\* A request ends within its total timeout whatever the server does: stall
\* before the headers or in the body, send for ever, or never close.
Termination == <>(pc = "done")

=============================================================================
