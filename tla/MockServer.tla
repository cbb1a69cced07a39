----------------------------- MODULE MockServer -----------------------------
(***************************************************************************)
(* The mock command, internal/mockserver/server.go, with a probe of it:    *)
(* Probe's server is the handler here, which plays its script of delays,   *)
(* contents and at most one fault, while Serve waits for the signal that   *)
(* shuts it down.                                                          *)
(***************************************************************************)
EXTENDS Probe

CONSTANTS
  FirstTokenDelay, ChunkDelay,  \* the latency profile
  ChunkCount,
  FaultEvery,
  StallDurations,  \* the values of --stall-duration
  Grace            \* Shutdown's own timeout

Faults == {"none", "http-error", "malformed", "disconnect", "stall"}

ASSUME MockAssumption ==
  /\ FirstTokenDelay \in Nat /\ ChunkDelay \in Nat
  /\ ChunkCount \in Nat \ {0} /\ FaultEvery \in Nat \ {0}
  /\ StallDurations \subseteq Nat \ {0} /\ Grace \in Nat

VARIABLES
  fault, faultAfter, stallDuration,  \* the configuration
  requestNumber,  \* requests the handler has seen
  handler,        \* where handleChatCompletion is
  chunk,          \* its loop variable i
  wake,           \* when its sleep is over
  serverCtx,      \* whether the context of Serve is done
  serve,          \* where Serve is
  shutdownBy      \* when Shutdown gives up

configVars  == <<fault, faultAfter, stallDuration>>
handlerVars == <<requestNumber, handler, chunk, wake>>
serveVars   == <<serverCtx, serve, shutdownBy>>
mockVars    == <<configVars, handlerVars, serveVars>>

MockInit ==
  /\ Init
  /\ fault \in Faults
  /\ faultAfter \in IF fault \in {"none", "http-error"} THEN {0} ELSE 1..ChunkCount
  /\ stallDuration \in IF fault = "stall" THEN StallDurations ELSE {0}
  /\ requestNumber \in 0..FaultEvery - 1
  /\ handler = "idle" /\ chunk = 1 /\ wake = Never
  /\ serverCtx = FALSE /\ serve = "listening" /\ shutdownBy = Never

applyFault == requestNumber % FaultEvery = 0

-----------------------------------------------------------------------------
(***************************************************************************)
(* handleChatCompletion.  What it writes is flushed event by event; when   *)
(* it returns, net/http ends the response.                                 *)
(***************************************************************************)
Written(events) == wire' = wire \o events
Probing == <<now, parentDone, firstByte, sentEvents, ctxErr, timerVars, runVars>>

Respond200(events) ==
  Written(events) /\ UNCHANGED <<stream, Probing, configVars, serveVars>>
Finish(events) ==
  /\ Written(events) /\ stream' = "ended" /\ handler' = "returned"
  /\ UNCHANGED <<chunk, wake, Probing, configVars, serveVars>>

Sleep(at, duration) == handler' = at /\ wake' = now + duration

\* The request arrives; a method, body or writer that is refused is none that
\* probe or net/http has.
Accept ==
  /\ handler = "idle" /\ pc = "waiting" /\ serve = "listening"
  /\ requestNumber' = requestNumber + 1
  /\ \/ fault = "http-error" /\ applyFault' /\ Finish(<<>>)
     \/ ~(fault = "http-error" /\ applyFault') /\ Respond200(<<"other">>)
          /\ Sleep("first", FirstTokenDelay) /\ UNCHANGED chunk

\* Mutant: a sleep does not end with the server's context.
InterruptedByClient ==
  ctxErr # "none" /\ handler' = "returned" /\ UNCHANGED <<chunk, wake>> /\ Respond200(<<>>)

\* The request's context is done: the client has closed the connection, or the
\* server's own context is done.
Interrupted ==
  \/ serverCtx /\ Finish(<<>>)
  \/ ctxErr # "none" /\ handler' = "returned" /\ UNCHANGED <<chunk, wake>> /\ Respond200(<<>>)

\* sleep is interrupted, or over.
Wake ==
  /\ handler \in {"first", "gap", "stall"} /\ UNCHANGED requestNumber
  /\ \/ Interrupted
     \/ /\ now >= wake
        /\ IF handler = "stall"
             THEN IF chunk < ChunkCount THEN Sleep("gap", ChunkDelay) /\ UNCHANGED chunk
                                        ELSE handler' = "usage" /\ UNCHANGED <<chunk, wake>>
             ELSE handler' = "content" /\ UNCHANGED wake
                  /\ chunk' = IF handler = "gap" THEN chunk + 1 ELSE chunk
        /\ Respond200(<<>>)

Faulty(kind) == applyFault /\ fault = kind /\ chunk = faultAfter

\* Mutant: after the malformed event the stream goes on.
ContentOn ==
  /\ handler = "content" /\ UNCHANGED requestNumber
  /\ \/ Faulty("disconnect") /\ Finish(<<"content">>)
     \/ Faulty("stall") /\ Respond200(<<"content">>) /\ Sleep("stall", stallDuration) /\ UNCHANGED chunk
     \/ /\ ~\E kind \in {"disconnect", "stall"} : Faulty(kind)
        /\ Respond200(<<"content">>)
        /\ IF chunk < ChunkCount THEN Sleep("gap", ChunkDelay) /\ UNCHANGED chunk
                                 ELSE handler' = "usage" /\ UNCHANGED <<chunk, wake>>

\* Content i, and the fault that comes after it.
Content_i ==
  /\ handler = "content" /\ UNCHANGED requestNumber
  /\ \/ Faulty("malformed") /\ Finish(<<"content", "malformed">>)
     \/ Faulty("disconnect") /\ Finish(<<"content">>)
     \/ Faulty("stall") /\ Respond200(<<"content">>) /\ Sleep("stall", stallDuration) /\ UNCHANGED chunk
     \/ /\ ~\E kind \in {"malformed", "disconnect", "stall"} : Faulty(kind)
        /\ Respond200(<<"content">>)
        /\ IF chunk < ChunkCount THEN Sleep("gap", ChunkDelay) /\ UNCHANGED chunk
                                 ELSE handler' = "usage" /\ UNCHANGED <<chunk, wake>>

Usage ==
  /\ handler = "usage" /\ UNCHANGED requestNumber
  /\ Finish(<<"usage", "done">>)

Handle == Wake \/ Content_i \/ Usage

-----------------------------------------------------------------------------
(***************************************************************************)
(* Serve.                                                                  *)
(***************************************************************************)
SignalServer ==
  /\ ~serverCtx /\ serverCtx' = TRUE
  /\ UNCHANGED <<vars, configVars, handlerVars, serve, shutdownBy>>

\* The address cannot be listened on.
ListenFails ==
  /\ serve = "listening" /\ handler = "idle" /\ serve' = "failed"
  /\ UNCHANGED <<vars, configVars, handlerVars, serverCtx, shutdownBy>>

\* Shutdown closes the listener, and waits for the handlers.
Shutdown ==
  /\ serve = "listening" /\ serverCtx
  /\ serve' = "shutdown" /\ shutdownBy' = now + Grace
  /\ UNCHANGED <<vars, configVars, handlerVars, serverCtx>>

ShutdownReturns ==
  /\ serve = "shutdown"
  /\ \/ handler \in {"idle", "returned"} /\ serve' = "closed"
     \/ now >= shutdownBy /\ serve' = "expired"
  /\ UNCHANGED <<vars, configVars, handlerVars, serverCtx, shutdownBy>>

\* Serve gave up on a handler, which ends with the process, and its connection.
Exit ==
  /\ serve = "expired" /\ handler \notin {"idle", "returned"}
  /\ handler' = "returned" /\ stream' = "broken"
  /\ UNCHANGED <<wire, Probing, configVars, requestNumber, chunk, wake, serveVars>>

-----------------------------------------------------------------------------
(***************************************************************************)
(* The probe, with this server.  A signal for the probe is Probe's.        *)
(***************************************************************************)
ProbeStep ==
  /\ \/ Tick \/ TotalTimeout \/ IdleFires \/ Callback
     \/ handler # "idle" /\ FirstByte
     \/ SendFails /\ result'.cause \in {ctxErr} \cup (IF serve # "listening" /\ handler = "idle"
                                                        THEN {"network"} ELSE {})
     \/ Respond /\ IF fault = "http-error" /\ applyFault THEN result'.StatusCode = 503
                                                          ELSE pc' = "read"
     \/ ReadErrorBody \/ ReadEvent \/ ReadFails \/ Fail
     \/ ProcessDone \/ ProcessMalformed \/ ProcessChunk
  /\ UNCHANGED mockVars

MockDone == pc = "done" /\ serve \in {"closed", "expired", "failed"} /\ UNCHANGED <<vars, mockVars>>

MockNext ==
  ProbeStep \/ Accept \/ Handle \/ SignalServer \/ ListenFails \/ Shutdown \/ ShutdownReturns
  \/ Exit \/ MockDone

\* A handler that may go on does, and Shutdown notices when it has returned.
MockFairness ==
  /\ WF_<<vars, mockVars>>(Handle)
  /\ WF_<<vars, mockVars>>(Shutdown)
  /\ WF_<<vars, mockVars>>(ShutdownReturns /\ handler \in {"idle", "returned"})

MockSpec == MockInit /\ [][MockNext]_<<vars, mockVars>> /\ MockFairness

-----------------------------------------------------------------------------
\* The mock's faults arrive as what they are, at every timing of handler, probe,
\* timers and signals: an error of the protocol is the configured one, after
\* the configured number of contents, or a stream that the shutdown cut short;
\* success is the whole script, with no fault but a stall; and no faulted
\* request of the other kinds succeeds.
FaultsArrive ==
  pc = "done" =>
    LET is(kind) == applyFault /\ fault = kind
    IN /\ result.err = "status" => is("http-error")
       /\ result.err = "decode" => is("malformed") /\ result.ContentEvents = faultAfter
       /\ result.err = "ended" => (is("disconnect") /\ result.ContentEvents = faultAfter) \/ serverCtx
       /\ result.err = "none" => /\ \A kind \in Faults \ {"none", "stall"} : ~is(kind)
                                 /\ result.ContentEvents = ChunkCount /\ result.Usage = "valid"
       /\ result.err \in {"contentType", "noContent"} => FALSE

\* A signal stops the mock whatever its handler is doing: a stall ends with the
\* server's context, long before its duration, and Serve returns without
\* having to wait for the timeout of Shutdown.
ServeReturns == serverCtx ~> serve \in {"closed", "expired", "failed"}

=============================================================================
