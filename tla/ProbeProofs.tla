---------------------------- MODULE ProbeProofs ----------------------------
(***************************************************************************)
(* Proofs about Probe, for every timeout, every mix of events and every    *)
(* bound: its types, and what a finished run may report.  The second part  *)
(* is about SSEDecoder, which Probe reads its events from: for every text  *)
(* of every length, it has emitted exactly the events of the bytes read.   *)
(***************************************************************************)
EXTENDS Probe, SSEDecoder, SumTheorems

\* Measured times lie in the past.
ClockInv == previous <= now

\* An idle timer exists only once the stream is being read, and its signal
\* is there before its cancellation.
TimerInv ==
  /\ pc \in {"waiting", "errorBody"} =>
       timer = Never /\ fired = 0 /\ expiring = 0 /\ ~idleExpired
  /\ pc # "done" /\ expiring > 0 => idleExpired

\* Until Run returns, the request context is cancelled by the parent or by a
\* callback, and a read error says no more than the context did.
CancelInv ==
  /\ pc # "done" /\ ctxErr = "canceled" => parentDone \/ idleExpired
  /\ pc = "failed" /\ readErr = "canceled" => parentDone \/ idleExpired
  /\ IdleIsNotCancellation

\* What has been established by the time an event is processed.
ProgressInv ==
  /\ pc \in {"read", "process", "failed"} => result.StatusCode = 200
  /\ pc \in {"waiting", "errorBody", "read", "process"} => readErr = "none"
  /\ result.ContentEvents > 0 => tokens > 0
  /\ SuccessIsComplete

IInv == TypeOK /\ ClockInv /\ TimerInv /\ CancelInv /\ ProgressInv

-----------------------------------------------------------------------------
LEMMA InitInv == Init => IInv
  <1> SUFFICES ASSUME Init PROVE IInv
    OBVIOUS
  <1>1. result \in Results
    BY DEF Init, Results, Durations, Causes, Errors, Unset
  <1>2. TypeOK
    <2>1. wire \in Seq(EventKinds)
      BY DEF Init
    <2> QED
      BY <1>1, <2>1 DEF Init, TypeOK, Durations, EventKinds, Causes, Never, Unset
  <1>3. ClockInv /\ TimerInv
    BY DEF Init, ClockInv, TimerInv, Unset
  <1>4. CancelInv /\ ProgressInv
    BY DEF Init, CancelInv, ProgressInv, IdleIsNotCancellation, SuccessIsComplete
  <1> QED
    BY <1>2, <1>3, <1>4 DEF IInv

\* The context reports its first cancellation.
LEMMA ContextType ==
  ASSUME ctxErr \in {"none", "canceled", "deadline"}, NEW err \in {"canceled", "deadline"},
         CancelContext(err)
  PROVE  /\ ctxErr' \in {"none", "canceled", "deadline"}
         /\ ctxErr' = "canceled" => ctxErr = "canceled" \/ err = "canceled"
  BY DEF CancelContext

\* The result Return leaves.
LEMMA ReturnType ==
  ASSUME TypeOK, NEW err \in Errors, NEW cause \in Causes, NEW outcome \in Results,
         Return(err, cause, outcome)
  PROVE  /\ pc' = "done" /\ timer' = Never
         /\ result' \in Results
         /\ result'.err = err /\ result'.cause = cause
         /\ result'.StatusCode = outcome.StatusCode
         /\ result'.ContentEvents = outcome.ContentEvents
         /\ ctxErr' \in {"none", "canceled", "deadline"}
         /\ UNCHANGED <<fired, expiring>>
  <1>1. now \in Durations
    BY DEF TypeOK, Durations
  <1>2. CancelContext("canceled")
    BY DEF Return
  <1>3. ctxErr' \in {"none", "canceled", "deadline"}
    BY <1>2, ContextType DEF TypeOK
  <1>4. result' = [outcome EXCEPT !.err = err, !.cause = cause, !.Duration = now]
    BY DEF Return
  <1>5. result' \in Results
    <2>1. result' = [StatusCode |-> outcome.StatusCode, TTFB |-> outcome.TTFB,
                     TTFT |-> outcome.TTFT, ChunkITL |-> outcome.ChunkITL,
                     ContentEvents |-> outcome.ContentEvents, Usage |-> outcome.Usage,
                     Duration |-> now, err |-> err, cause |-> cause]
      BY <1>4 DEF Results
    <2> QED
      BY <1>1, <2>1 DEF Results
  <1>6. /\ result'.err = err /\ result'.cause = cause
        /\ result'.StatusCode = outcome.StatusCode
        /\ result'.ContentEvents = outcome.ContentEvents
    BY <1>4 DEF Results
  <1> QED
    BY <1>3, <1>5, <1>6 DEF Return

\* One content extends the measurements by a time that has passed.
LEMMA ContentType ==
  ASSUME now \in Nat, NEW r \in Results, NEW last \in Durations, last <= now
  PROVE  /\ Content(r, last) \in Results
         /\ Content(r, last).StatusCode = r.StatusCode
         /\ Content(r, last).err = r.err
         /\ Content(r, last).cause = r.cause
  <1>1. CASE last = Unset
    <2>1. now \in Durations
      BY DEF Durations
    <2>2. Content(r, last) =
            [StatusCode |-> r.StatusCode, TTFB |-> r.TTFB, TTFT |-> now,
             ChunkITL |-> r.ChunkITL, ContentEvents |-> r.ContentEvents + 1,
             Usage |-> r.Usage, Duration |-> r.Duration, err |-> r.err, cause |-> r.cause]
      BY <1>1 DEF Content, Results
    <2> QED
      BY <2>1, <2>2 DEF Results
  <1>2. CASE last # Unset
    <2>1. now - last \in Nat
      BY <1>2 DEF Durations, Unset
    <2>2. Append(r.ChunkITL, now - last) \in Seq(Nat)
      BY <2>1 DEF Results
    <2>3. Content(r, last) =
            [StatusCode |-> r.StatusCode, TTFB |-> r.TTFB, TTFT |-> r.TTFT,
             ChunkITL |-> Append(r.ChunkITL, now - last), ContentEvents |-> r.ContentEvents + 1,
             Usage |-> r.Usage, Duration |-> r.Duration, err |-> r.err, cause |-> r.cause]
      BY <1>2 DEF Content, Results
    <2> QED
      BY <2>2, <2>3 DEF Results
  <1> QED
    BY <1>1, <1>2

LEMMA ChunkType ==
  ASSUME now \in Nat, previous \in Durations, previous <= now, NEW r \in Results
  PROVE  /\ Chunk(r) \in Results
         /\ Chunk(r).StatusCode = r.StatusCode
         /\ Chunk(r).err = r.err /\ Chunk(r).cause = r.cause
         /\ Contents(event) = 0 => Chunk(r) = r
  <1>1. CASE Contents(event) = 0
    BY <1>1 DEF Chunk
  <1>2. CASE Contents(event) = 1
    BY <1>2, ContentType DEF Chunk
  <1>3. CASE Contents(event) = 2
    <2>1. now \in Durations
      BY DEF Durations
    <2>2. Content(r, previous) \in Results
      BY ContentType
    <2>3. /\ Content(Content(r, previous), now) \in Results
          /\ Content(Content(r, previous), now).StatusCode = Content(r, previous).StatusCode
          /\ Content(Content(r, previous), now).err = Content(r, previous).err
          /\ Content(Content(r, previous), now).cause = Content(r, previous).cause
      BY <2>1, <2>2, ContentType
    <2> QED
      BY <1>3, <2>3, ContentType DEF Chunk
  <1> QED
    BY <1>1, <1>2, <1>3 DEF Contents

-----------------------------------------------------------------------------
(***************************************************************************)
(* The environment's steps leave Run's variables alone.                    *)
(***************************************************************************)
LEMMA TickStep == ASSUME IInv, Tick PROVE IInv'
  BY DEF IInv, TypeOK, ClockInv, TimerInv, CancelInv, ProgressInv, IdleIsNotCancellation,
         SuccessIsComplete, Tick, timerVars, runVars, Durations, Unset

LEMMA CancelParentStep == ASSUME IInv, CancelParent PROVE IInv'
  <1>1. ctxErr' \in {"none", "canceled", "deadline"} /\ parentDone' = TRUE
    BY ContextType DEF CancelParent, IInv, TypeOK
  <1>2. TypeOK'
    BY <1>1 DEF IInv, TypeOK, CancelParent, timerVars, runVars
  <1>3. ClockInv' /\ TimerInv' /\ CancelInv' /\ ProgressInv'
    BY <1>1 DEF IInv, ClockInv, TimerInv, CancelInv, ProgressInv, IdleIsNotCancellation,
                SuccessIsComplete, CancelParent, timerVars, runVars
  <1> QED
    BY <1>2, <1>3 DEF IInv

LEMMA TotalTimeoutStep == ASSUME IInv, TotalTimeout PROVE IInv'
  <1>1. ctxErr' = "deadline"
    BY DEF TotalTimeout, CancelContext
  <1>2. TypeOK'
    BY <1>1 DEF IInv, TypeOK, TotalTimeout, envVars, timerVars, runVars
  <1>3. ClockInv' /\ TimerInv' /\ CancelInv' /\ ProgressInv'
    BY <1>1 DEF IInv, ClockInv, TimerInv, CancelInv, ProgressInv, IdleIsNotCancellation,
                SuccessIsComplete, TotalTimeout, envVars, timerVars, runVars
  <1> QED
    BY <1>2, <1>3 DEF IInv

LEMMA IdleFiresStep == ASSUME IInv, IdleFires PROVE IInv'
  <1>1. TypeOK'
    BY DEF IInv, TypeOK, IdleFires, envVars, runVars, Never
  <1>2. ClockInv' /\ TimerInv' /\ CancelInv' /\ ProgressInv'
    BY DEF IInv, ClockInv, TimerInv, CancelInv, ProgressInv, IdleIsNotCancellation,
           SuccessIsComplete, IdleFires, envVars, runVars, Never
  <1> QED
    BY <1>1, <1>2 DEF IInv

LEMMA IdleSignalsStep == ASSUME IInv, IdleSignals PROVE IInv'
  <1>1. TypeOK'
    BY DEF IInv, TypeOK, IdleSignals, envVars, runVars
  <1>2. ClockInv' /\ CancelInv' /\ ProgressInv'
    BY DEF IInv, ClockInv, CancelInv, ProgressInv, IdleIsNotCancellation,
           SuccessIsComplete, IdleSignals, envVars, runVars
  <1>3. TimerInv'
    BY DEF IInv, TypeOK, TimerInv, IdleSignals, runVars
  <1> QED
    BY <1>1, <1>2, <1>3 DEF IInv

\* The cancellation comes after the signal, so Run will see why.
LEMMA IdleCancelsStep == ASSUME IInv, IdleCancels PROVE IInv'
  <1>1. ctxErr' \in {"none", "canceled", "deadline"}
    BY ContextType DEF IdleCancels, IInv, TypeOK
  <1>2. TypeOK'
    BY <1>1 DEF IInv, TypeOK, IdleCancels, envVars, runVars
  <1>3. pc # "done" => idleExpired'
    BY DEF IInv, TypeOK, TimerInv, IdleCancels
  <1>4. TimerInv'
    BY DEF IInv, TypeOK, TimerInv, IdleCancels, runVars
  <1>5. ClockInv' /\ CancelInv' /\ ProgressInv'
    BY <1>3 DEF IInv, ClockInv, CancelInv, ProgressInv, IdleIsNotCancellation,
                SuccessIsComplete, IdleCancels, envVars, runVars
  <1> QED
    BY <1>2, <1>4, <1>5 DEF IInv

LEMMA ServerStep == ASSUME IInv, Server PROVE IInv'
  <1>1. TypeOK'
    <2>1. CASE FirstByte
      BY <2>1 DEF IInv, TypeOK, FirstByte, timerVars, runVars, Durations
    <2>2. CASE SendEvent
      <3>1. wire' \in Seq(EventKinds)
        BY <2>2, ProbeAssumption DEF IInv, TypeOK, SendEvent
      <3> QED
        BY <2>2, <3>1 DEF IInv, TypeOK, SendEvent, timerVars, runVars
    <2>3. CASE EndStream
      BY <2>3 DEF IInv, TypeOK, EndStream, timerVars, runVars
    <2> QED
      BY <2>1, <2>2, <2>3 DEF Server
  <1>2. ClockInv' /\ TimerInv' /\ CancelInv' /\ ProgressInv'
    <2>1. UNCHANGED <<now, parentDone, ctxErr, timerVars, runVars>>
      BY DEF Server, FirstByte, SendEvent, EndStream
    <2> QED
      BY <2>1 DEF IInv, ClockInv, TimerInv, CancelInv, ProgressInv, IdleIsNotCancellation,
                  SuccessIsComplete, timerVars, runVars
  <1> QED
    BY <1>1, <1>2 DEF IInv

-----------------------------------------------------------------------------
(***************************************************************************)
(* Run's own steps.                                                        *)
(***************************************************************************)

\* Run may return what it has found out.
LEMMA FinishStep ==
  ASSUME IInv, NEW err \in Errors, NEW cause \in Causes, NEW outcome \in Results,
         Return(err, cause, outcome), idleExpired' \in BOOLEAN,
         UNCHANGED <<envVars, event, readErr, previous, tokens>>,
         cause = "canceled" => parentDone,
         outcome.ContentEvents > 0 => tokens > 0,
         err = "none" => /\ outcome.StatusCode = 200 /\ event = "done"
                         /\ tokens > 0 /\ readErr = "none"
  PROVE  IInv'
  <1>1. TypeOK
    BY DEF IInv
  <1>2. /\ pc' = "done" /\ timer' = Never
        /\ result' \in Results
        /\ result'.err = err /\ result'.cause = cause
        /\ result'.StatusCode = outcome.StatusCode
        /\ result'.ContentEvents = outcome.ContentEvents
        /\ ctxErr' \in {"none", "canceled", "deadline"}
        /\ UNCHANGED <<fired, expiring>>
    BY <1>1, ReturnType
  <1>3. TypeOK'
    BY <1>1, <1>2 DEF TypeOK, envVars
  <1>4. ClockInv' /\ TimerInv'
    BY <1>2 DEF IInv, ClockInv, TimerInv, envVars
  <1>5. CancelInv'
    BY <1>2 DEF CancelInv, IdleIsNotCancellation, envVars
  <1>6. ProgressInv'
    BY <1>2 DEF ProgressInv, SuccessIsComplete
  <1> QED
    BY <1>3, <1>4, <1>5, <1>6 DEF IInv

LEMMA SendFailsStep == ASSUME IInv, SendFails PROVE IInv'
  <1>1. PICK cause \in {"network", "netTimeout", "late"} \cup ({ctxErr} \ {"none"}) :
          Return("send", cause, result)
    BY DEF SendFails
  <1>2. cause \in Causes
    BY DEF IInv, TypeOK, Causes
  <1>3. cause = "canceled" => parentDone
    BY DEF IInv, TimerInv, CancelInv, SendFails
  <1>4. /\ result \in Results /\ (result.ContentEvents > 0 => tokens > 0)
        /\ idleExpired' \in BOOLEAN
    BY DEF IInv, TypeOK, ProgressInv, SendFails
  <1>5. "send" \in Errors /\ "send" # "none"
    BY DEF Errors
  <1> QED
    BY <1>1, <1>2, <1>3, <1>4, <1>5, FinishStep DEF SendFails

\* The status and the first byte are noted.
LEMMA AnswerType ==
  ASSUME NEW r \in Results, NEW status \in {200, 503}, firstByte \in Durations,
         NEW answered, answered = Answered(r, status)
  PROVE  /\ answered \in Results
         /\ answered.StatusCode = status
         /\ answered.TTFB = firstByte
         /\ answered.ContentEvents = r.ContentEvents /\ answered.ChunkITL = r.ChunkITL
         /\ answered.cause = r.cause /\ answered.err = r.err
  <1>1. answered = [StatusCode |-> status, TTFB |-> firstByte,
                    TTFT |-> r.TTFT, ChunkITL |-> r.ChunkITL,
                    ContentEvents |-> r.ContentEvents, Usage |-> r.Usage,
                    Duration |-> r.Duration, err |-> r.err, cause |-> r.cause]
    BY DEF Answered, Results
  <1> QED
    BY <1>1 DEF Results

\* The three ways a response can be taken.
LEMMA RespondStep == ASSUME IInv, Respond PROVE IInv'
  <1>1. PICK status \in {200, 503}, eventStream \in BOOLEAN :
          LET answered == Answered(result, status)
          IN \/ /\ status # 200
                /\ pc' = "errorBody" /\ result' = answered
                /\ UNCHANGED <<ctxErr, timerVars>>
             \/ /\ status = 200 /\ ~eventStream
                /\ Return("contentType", "none", answered)
                /\ UNCHANGED idleExpired
             \/ /\ status = 200 /\ eventStream
                /\ pc' = "read" /\ result' = answered
                /\ timer' = now + IdleTimeout
                /\ UNCHANGED <<ctxErr, fired, expiring, idleExpired>>
    BY DEF Respond
  <1>0. PICK answered : answered = Answered(result, status)
    OBVIOUS
  <1>2. /\ answered \in Results
        /\ answered.StatusCode = status
        /\ answered.ContentEvents = result.ContentEvents
        /\ answered.cause = result.cause /\ answered.err = result.err
    <2>1. result \in Results /\ firstByte \in Durations
      BY DEF IInv, TypeOK
    <2> QED
      BY <1>0, <2>1, AnswerType
  <1>3. UNCHANGED <<envVars, event, readErr, previous, tokens>> /\ pc = "waiting"
    BY DEF Respond
  <1>4. CASE /\ status # 200
             /\ pc' = "errorBody" /\ result' = answered
             /\ UNCHANGED <<ctxErr, timerVars>>
    <2>1. TypeOK'
      BY <1>2, <1>3, <1>4 DEF IInv, TypeOK, envVars, timerVars
    <2> QED
      BY <1>2, <1>3, <1>4, <2>1
      DEF IInv, ClockInv, TimerInv, CancelInv, ProgressInv, IdleIsNotCancellation,
          SuccessIsComplete, envVars, timerVars
  <1>5. CASE /\ status = 200 /\ ~eventStream
             /\ Return("contentType", "none", answered)
             /\ UNCHANGED idleExpired
    <2>1. "contentType" \in Errors /\ "none" \in Causes /\ idleExpired' \in BOOLEAN
      BY <1>5 DEF Errors, Causes, IInv, TypeOK
    <2>2. answered.ContentEvents > 0 => tokens > 0
      BY <1>2 DEF IInv, ProgressInv
    <2> QED
      BY <1>2, <1>3, <1>5, <2>1, <2>2, FinishStep
  <1>6. CASE /\ status = 200 /\ eventStream
             /\ pc' = "read" /\ result' = answered
             /\ timer' = now + IdleTimeout
             /\ UNCHANGED <<ctxErr, fired, expiring, idleExpired>>
    <2>1. timer' \in Nat
      BY <1>6, ProbeAssumption DEF IInv, TypeOK
    <2>2. TypeOK'
      BY <1>2, <1>3, <1>6, <2>1 DEF IInv, TypeOK, envVars
    <2> QED
      BY <1>2, <1>3, <1>6, <2>2
      DEF IInv, ClockInv, TimerInv, CancelInv, ProgressInv, IdleIsNotCancellation,
          SuccessIsComplete, envVars
  <1> QED
    BY <1>0, <1>1, <1>4, <1>5, <1>6

LEMMA ReadErrorBodyStep == ASSUME IInv, ReadErrorBody PROVE IInv'
  <1>1. /\ "status" \in Errors /\ "none" \in Causes /\ result \in Results
        /\ idleExpired' \in BOOLEAN /\ (result.ContentEvents > 0 => tokens > 0)
    BY DEF Errors, Causes, IInv, TypeOK, ProgressInv, ReadErrorBody
  <1> QED
    BY <1>1, FinishStep DEF ReadErrorBody

LEMMA ReadEventStep == ASSUME IInv, ReadEvent PROVE IInv'
  <1>1. event' \in EventKinds /\ wire' \in Seq(EventKinds)
    BY DEF IInv, TypeOK, ReadEvent
  <1>2. TypeOK'
    BY <1>1 DEF IInv, TypeOK, ReadEvent, timerVars
  <1> QED
    BY <1>2 DEF IInv, ClockInv, TimerInv, CancelInv, ProgressInv, IdleIsNotCancellation,
                SuccessIsComplete, ReadEvent, timerVars

\* A read that fails on the context fails for the reason the context gives.
LEMMA ReadFailsStep == ASSUME IInv, ReadFails PROVE IInv'
  <1>1. readErr' \in Causes /\ (readErr' = "canceled" => ctxErr = "canceled")
    BY DEF IInv, TypeOK, ReadFails, Causes
  <1>2. TypeOK'
    BY <1>1 DEF IInv, TypeOK, ReadFails, envVars, timerVars
  <1> QED
    BY <1>1, <1>2 DEF IInv, ClockInv, TimerInv, CancelInv, ProgressInv,
                      IdleIsNotCancellation, SuccessIsComplete, ReadFails, envVars, timerVars

\* The idle timer's signal is looked at before the cause of the read error.
LEMMA FailStep == ASSUME IInv, Fail PROVE IInv'
  <1>1. /\ {"idle", "ended", "read"} \subseteq Errors /\ "none" \in Causes
        /\ readErr \in Causes /\ result \in Results
        /\ idleExpired' \in BOOLEAN /\ (result.ContentEvents > 0 => tokens > 0)
    BY DEF Errors, Causes, IInv, TypeOK, ProgressInv, Fail
  <1>2. UNCHANGED <<envVars, event, readErr, previous, tokens>>
    BY DEF Fail
  <1>3. CASE Return("idle", "none", result)
    BY <1>1, <1>2, <1>3, FinishStep
  <1>4. CASE Return("ended", "none", result)
    BY <1>1, <1>2, <1>4, FinishStep
  <1>5. CASE ~idleExpired /\ Return("read", readErr, result)
    <2>1. readErr = "canceled" => parentDone
      BY <1>5 DEF IInv, CancelInv, Fail
    <2> QED
      BY <1>1, <1>2, <1>5, <2>1, FinishStep
  <1> QED
    BY <1>3, <1>4, <1>5 DEF Fail

\* [DONE] ends a run successfully only after content.
LEMMA ProcessDoneStep == ASSUME IInv, ProcessDone PROVE IInv'
  <1>1. /\ {"none", "noContent"} \subseteq Errors /\ "none" \in Causes
        /\ result \in Results /\ idleExpired' \in BOOLEAN
        /\ (result.ContentEvents > 0 => tokens > 0)
        /\ result.StatusCode = 200 /\ readErr = "none" /\ event = "done"
    BY DEF Errors, Causes, IInv, TypeOK, ProgressInv, ProcessDone
  <1>2. UNCHANGED <<envVars, event, readErr, previous, tokens>>
    BY DEF ProcessDone
  <1>3. CASE result.ContentEvents = 0
    BY <1>1, <1>2, <1>3, FinishStep DEF ProcessDone
  <1>4. CASE result.ContentEvents # 0
    <2>1. tokens > 0
      BY <1>1, <1>4 DEF Results
    <2> QED
      BY <1>1, <1>2, <1>4, <2>1, FinishStep DEF ProcessDone
  <1> QED
    BY <1>3, <1>4

LEMMA ProcessMalformedStep == ASSUME IInv, ProcessMalformed PROVE IInv'
  <1>1. /\ "decode" \in Errors /\ "none" \in Causes /\ result \in Results
        /\ idleExpired' \in BOOLEAN /\ (result.ContentEvents > 0 => tokens > 0)
    BY DEF Errors, Causes, IInv, TypeOK, ProgressInv, ProcessMalformed
  <1> QED
    BY <1>1, FinishStep DEF ProcessMalformed

\* A chunk extends the measurements and sets the idle timer again.
LEMMA ProcessChunkStep == ASSUME IInv, ProcessChunk PROVE IInv'
  <1> DEFINE usage == CASE event = "usage" -> "valid"
                        [] event = "badUsage" -> "invalid"
                        [] OTHER -> result.Usage
  <1> DEFINE noted == [result EXCEPT !.Usage = usage]
  <1>1. /\ result \in Results /\ now \in Nat /\ previous \in Durations
        /\ previous <= now /\ tokens \in Nat /\ event \in EventKinds
        /\ pc = "process"
    BY DEF IInv, TypeOK, ClockInv, ProcessChunk
  <1>2. usage \in {"none", "valid", "invalid"}
    BY <1>1 DEF Results
  <1>3. /\ noted \in Results
        /\ noted.StatusCode = result.StatusCode
        /\ noted.ContentEvents = result.ContentEvents
    <2> HIDE DEF usage
    <2>1. noted = [StatusCode |-> result.StatusCode, TTFB |-> result.TTFB,
                   TTFT |-> result.TTFT, ChunkITL |-> result.ChunkITL,
                   ContentEvents |-> result.ContentEvents, Usage |-> usage,
                   Duration |-> result.Duration, err |-> result.err, cause |-> result.cause]
      BY <1>1 DEF Results
    <2> QED
      BY <1>1, <1>2, <2>1 DEF Results
  <1>4. result' = Chunk(noted)
    BY DEF ProcessChunk
  <1> HIDE DEF noted
  <1>5. /\ result' \in Results /\ result'.StatusCode = result.StatusCode
        /\ Contents(event) = 0 => result'.ContentEvents = result.ContentEvents
    BY <1>1, <1>3, <1>4, ChunkType
  <1>6. timer' \in Nat
    BY <1>1, ProbeAssumption DEF ProcessChunk
  <1>7. tokens' \in Nat /\ previous' \in Durations /\ previous' <= now'
    BY <1>1 DEF ProcessChunk, Durations, envVars
  <1>8. TypeOK'
    BY <1>5, <1>6, <1>7 DEF IInv, TypeOK, ProcessChunk, envVars
  <1>9. ClockInv' /\ TimerInv' /\ CancelInv'
    BY <1>7 DEF IInv, ClockInv, TimerInv, CancelInv, IdleIsNotCancellation, ProcessChunk, envVars
  <1>10. result'.ContentEvents > 0 => tokens' > 0
    <2>1. Contents(event) \in {0, 1, 2}
      BY DEF Contents
    <2>2. CASE Contents(event) = 0
      BY <1>1, <1>5, <2>2 DEF IInv, ProgressInv, ProcessChunk
    <2>3. CASE Contents(event) > 0
      BY <1>1, <2>3 DEF ProcessChunk
    <2> QED
      BY <2>1, <2>2, <2>3
  <1>11. ProgressInv'
    BY <1>5, <1>10 DEF IInv, ProgressInv, SuccessIsComplete, ProcessChunk
  <1> QED
    BY <1>8, <1>9, <1>11 DEF IInv

LEMMA StepInv == IInv /\ [Next]_vars => IInv'
  <1> SUFFICES ASSUME IInv, [Next]_vars PROVE IInv'
    OBVIOUS
  <1>1. CASE UNCHANGED vars
    BY <1>1 DEF IInv, TypeOK, ClockInv, TimerInv, CancelInv, ProgressInv,
                IdleIsNotCancellation, SuccessIsComplete, vars, envVars, timerVars, runVars
  <1>2. CASE Run
    BY <1>2, SendFailsStep, RespondStep, ReadErrorBodyStep, ReadEventStep, ReadFailsStep,
       FailStep, ProcessDoneStep, ProcessMalformedStep, ProcessChunkStep DEF Run
  <1>3. CASE Next /\ ~Run
    BY <1>1, <1>3, TickStep, CancelParentStep, TotalTimeoutStep, IdleFiresStep,
       IdleSignalsStep, IdleCancelsStep, ServerStep DEF Next, Callback, Terminated
  <1> QED
    BY <1>1, <1>2, <1>3

-----------------------------------------------------------------------------
(***************************************************************************)
(* The measurements.                                                       *)
(***************************************************************************)

\* Up to the content at last, if there was one, TTFT and the intervals add up.
Sound(r, last) ==
  IF last = Unset
    THEN r.ContentEvents = 0 /\ r.ChunkITL = <<>>
    ELSE /\ r.TTFT \in Nat /\ r.TTFB <= r.TTFT
         /\ r.ContentEvents = Len(r.ChunkITL) + 1
         /\ r.TTFT + SumFunction(r.ChunkITL) = last

MeasureInv ==
  /\ firstByte <= now /\ result.TTFB <= now
  /\ Sound(result, previous)
  /\ tokens = 0 <=> previous = Unset
  /\ pc = "waiting" => previous = Unset
  /\ pc = "done" => previous <= result.Duration

LEMMA MeasureInit == Init => MeasureInv
  BY DEF Init, MeasureInv, Sound, Unset

\* Nothing that is measured changes.
LEMMA SameMeasures ==
  ASSUME MeasureInv,
         UNCHANGED <<now, firstByte, previous, tokens>>,
         result'.TTFB = result.TTFB, result'.TTFT = result.TTFT,
         result'.ChunkITL = result.ChunkITL, result'.ContentEvents = result.ContentEvents,
         pc' # "waiting", pc' = "done" => previous <= result'.Duration
  PROVE  MeasureInv'
  <1>1. Sound(result, previous)'
    BY DEF MeasureInv, Sound
  <1> QED
    BY <1>1 DEF MeasureInv

LEMMA ReturnMeasures ==
  ASSUME TypeOK, ClockInv, MeasureInv, NEW err, NEW cause, Return(err, cause, result),
         UNCHANGED <<now, firstByte, previous, tokens>>
  PROVE  MeasureInv'
  <1>1. result \in Results
    BY DEF TypeOK
  <1>2. result' = [[[result EXCEPT !.err = err] EXCEPT !.cause = cause] EXCEPT !.Duration = now]
    BY DEF Return
  <1>3. /\ result'.TTFB = result.TTFB /\ result'.TTFT = result.TTFT
        /\ result'.ChunkITL = result.ChunkITL /\ result'.ContentEvents = result.ContentEvents
        /\ result'.Duration = now
    BY <1>1, <1>2 DEF Results
  <1> QED
    BY <1>3, SameMeasures DEF Return, ClockInv

\* A content is one more measurement.
LEMMA ContentMeasures ==
  ASSUME now \in Nat, NEW r \in Results, NEW last \in Durations, last <= now,
         r.TTFB <= now, Sound(r, last)
  PROVE  Sound(Content(r, last), now) /\ Content(r, last).TTFB = r.TTFB
  <1>1. now # Unset
    BY DEF Unset
  <1>2. CASE last = Unset
    <2>1. Content(r, last) =
            [StatusCode |-> r.StatusCode, TTFB |-> r.TTFB, TTFT |-> now,
             ChunkITL |-> r.ChunkITL, ContentEvents |-> r.ContentEvents + 1,
             Usage |-> r.Usage, Duration |-> r.Duration, err |-> r.err, cause |-> r.cause]
      BY <1>2 DEF Content, Results
    <2>2. r.ContentEvents = 0 /\ r.ChunkITL = <<>>
      BY <1>2 DEF Sound
    <2>3. SumFunction(<<>>) = 0 /\ Len(<<>>) = 0
      <3>1. <<>> \in Seq(Nat)
        OBVIOUS
      <3> QED
        BY <3>1, SumAppended
    <2> QED
      BY <1>1, <2>1, <2>2, <2>3 DEF Sound
  <1>3. CASE last # Unset
    <2>1. now - last \in Nat /\ last \in Nat
      BY <1>3 DEF Durations, Unset
    <2>2. r.ChunkITL \in Seq(Nat) /\ r.ContentEvents \in Nat
      BY DEF Results
    <2>3. Content(r, last) =
            [StatusCode |-> r.StatusCode, TTFB |-> r.TTFB, TTFT |-> r.TTFT,
             ChunkITL |-> Append(r.ChunkITL, now - last), ContentEvents |-> r.ContentEvents + 1,
             Usage |-> r.Usage, Duration |-> r.Duration, err |-> r.err, cause |-> r.cause]
      BY <1>3 DEF Content, Results
    <2>4. /\ r.TTFT \in Nat /\ r.TTFB <= r.TTFT
          /\ r.ContentEvents = Len(r.ChunkITL) + 1
          /\ r.TTFT + SumFunction(r.ChunkITL) = last
      BY <1>3 DEF Sound
    <2>5. /\ SumFunction(r.ChunkITL) \in Int
          /\ SumFunction(Append(r.ChunkITL, now - last)) = SumFunction(r.ChunkITL) + (now - last)
      BY <2>1, <2>2, SumAppended
    <2>6. r.TTFT + SumFunction(Append(r.ChunkITL, now - last)) = now
      BY <2>1, <2>4, <2>5
    <2>7. Len(Append(r.ChunkITL, now - last)) = Len(r.ChunkITL) + 1
      BY <2>1, <2>2
    <2> QED
      BY <1>1, <2>3, <2>4, <2>6, <2>7 DEF Sound
  <1> QED
    BY <1>2, <1>3

LEMMA ChunkMeasures ==
  ASSUME now \in Nat, previous \in Durations, previous <= now, NEW r \in Results,
         r.TTFB <= now, Sound(r, previous)
  PROVE  /\ Chunk(r).TTFB = r.TTFB
         /\ Sound(Chunk(r), IF Contents(event) > 0 THEN now ELSE previous)
  <1>1. CASE Contents(event) = 0
    BY <1>1 DEF Chunk
  <1>2. CASE Contents(event) = 1
    BY <1>2, ContentMeasures DEF Chunk
  <1>3. CASE Contents(event) = 2
    <2>1. now \in Durations
      BY DEF Durations
    <2>2. PICK once : once = Content(r, previous)
      OBVIOUS
    <2>3. once \in Results /\ Sound(once, now) /\ once.TTFB = r.TTFB
      BY <2>2, ContentType, ContentMeasures
    <2>4. Sound(Content(once, now), now) /\ Content(once, now).TTFB = r.TTFB
      BY <2>1, <2>3, ContentMeasures
    <2> QED
      BY <1>3, <2>2, <2>4 DEF Chunk
  <1> QED
    BY <1>1, <1>2, <1>3 DEF Contents

LEMMA RespondMeasures == ASSUME IInv, MeasureInv, Respond PROVE MeasureInv'
  <1>1. PICK status \in {200, 503} :
          \/ pc' \in {"errorBody", "read"} /\ result' = Answered(result, status)
          \/ Return("contentType", "none", Answered(result, status))
    BY DEF Respond
  <1>2. /\ result \in Results /\ firstByte \in Durations /\ previous = Unset /\ tokens = 0
        /\ result.ContentEvents = 0 /\ result.ChunkITL = <<>> /\ now \in Nat
        /\ UNCHANGED <<now, firstByte, previous, tokens>> /\ firstByte <= now
    BY DEF IInv, TypeOK, MeasureInv, Sound, Respond, envVars
  <1>3. PICK answered : answered = Answered(result, status)
    OBVIOUS
  <1>4. /\ answered.TTFB = firstByte /\ answered.ContentEvents = 0 /\ answered.ChunkITL = <<>>
        /\ answered \in Results
    BY <1>2, <1>3, AnswerType
  <1>5. CASE pc' \in {"errorBody", "read"} /\ result' = answered
    BY <1>2, <1>4, <1>5 DEF MeasureInv, Sound, Unset
  <1>6. CASE Return("contentType", "none", answered)
    <2>1. result' = [[[answered EXCEPT !.err = "contentType"] EXCEPT !.cause = "none"]
                       EXCEPT !.Duration = now]
      BY <1>6 DEF Return
    <2>2. /\ result'.TTFB = firstByte /\ result'.ContentEvents = 0 /\ result'.ChunkITL = <<>>
          /\ result'.Duration = now /\ pc' = "done"
      BY <1>4, <1>6, <2>1 DEF Results, Return
    <2> QED
      BY <1>2, <2>2 DEF MeasureInv, Sound, Unset
  <1> QED
    BY <1>1, <1>3, <1>5, <1>6

LEMMA ProcessMeasures == ASSUME IInv, MeasureInv, ProcessChunk PROVE MeasureInv'
  <1> DEFINE usage == CASE event = "usage" -> "valid"
                        [] event = "badUsage" -> "invalid"
                        [] OTHER -> result.Usage
  <1> DEFINE noted == [result EXCEPT !.Usage = usage]
  <1>1. /\ result \in Results /\ now \in Nat /\ previous \in Durations
        /\ previous <= now /\ tokens \in Nat /\ UNCHANGED <<now, firstByte>>
    BY DEF IInv, TypeOK, ClockInv, ProcessChunk, envVars
  <1>2. usage \in {"none", "valid", "invalid"}
    BY <1>1 DEF Results
  <1>3. /\ noted \in Results /\ noted.TTFB = result.TTFB /\ noted.TTFT = result.TTFT
        /\ noted.ChunkITL = result.ChunkITL /\ noted.ContentEvents = result.ContentEvents
    <2> HIDE DEF usage
    <2>1. noted = [StatusCode |-> result.StatusCode, TTFB |-> result.TTFB,
                   TTFT |-> result.TTFT, ChunkITL |-> result.ChunkITL,
                   ContentEvents |-> result.ContentEvents, Usage |-> usage,
                   Duration |-> result.Duration, err |-> result.err, cause |-> result.cause]
      BY <1>1 DEF Results
    <2> QED
      BY <1>1, <1>2, <2>1 DEF Results
  <1>4. result' = Chunk(noted)
    BY DEF ProcessChunk
  <1> HIDE DEF noted
  <1>5. Sound(noted, previous) /\ noted.TTFB <= now
    BY <1>3 DEF MeasureInv, Sound
  <1>6. previous' = IF Contents(event) > 0 THEN now ELSE previous
    BY DEF ProcessChunk
  <1>7. result'.TTFB <= now /\ Sound(result', previous')
    BY <1>1, <1>3, <1>4, <1>5, <1>6, ChunkMeasures
  <1>8. tokens' = 0 <=> previous' = Unset
    <2>1. Contents(event) \in {0, 1, 2}
      BY DEF Contents
    <2>2. CASE Contents(event) = 0
      BY <1>1, <1>6, <2>2 DEF MeasureInv, ProcessChunk
    <2>3. CASE Contents(event) > 0
      <3>1. tokens' = tokens + 1 /\ previous' = now
        BY <1>6, <2>3 DEF ProcessChunk
      <3> QED
        BY <1>1, <3>1 DEF Unset
    <2> QED
      BY <2>1, <2>2, <2>3
  <1>9. Sound(result, previous)'
    BY <1>7
  <1> QED
    BY <1>1, <1>7, <1>8, <1>9 DEF MeasureInv, ProcessChunk

LEMMA MeasureStep == IInv /\ MeasureInv /\ [Next]_vars => MeasureInv'
  <1> SUFFICES ASSUME IInv, MeasureInv, [Next]_vars PROVE MeasureInv'
    OBVIOUS
  <1>1. /\ TypeOK /\ ClockInv /\ now \in Nat /\ firstByte \in Durations
        /\ result \in Results /\ previous \in Durations
    BY DEF IInv, TypeOK
  <1>2. ASSUME UNCHANGED runVars, firstByte' <= now', now <= now', now' \in Nat
        PROVE MeasureInv'
    <2>1. UNCHANGED <<pc, previous, result, tokens>>
      BY <1>2 DEF runVars
    <2>2. Sound(result, previous)'
      BY <2>1 DEF MeasureInv, Sound
    <2>3. result.TTFB <= now'
      <3>1. result.TTFB \in Int /\ result.TTFB <= now
        BY <1>1 DEF Results, Durations, Unset, MeasureInv
      <3> QED
        BY <1>1, <1>2, <3>1
    <2> QED
      BY <1>2, <2>1, <2>2, <2>3 DEF MeasureInv
  <1>3. CASE Tick
    <2>1. UNCHANGED runVars /\ now' = now + 1 /\ firstByte' = firstByte
      BY <1>3 DEF Tick
    <2>2. firstByte' <= now'
      BY <1>1, <2>1 DEF MeasureInv, Durations, Unset
    <2> QED
      BY <1>1, <1>2, <2>1, <2>2
  <1>4. CASE FirstByte
    BY <1>1, <1>2, <1>4 DEF FirstByte
  <1>5. CASE UNCHANGED <<runVars, firstByte, now>>
    BY <1>1, <1>2, <1>5 DEF MeasureInv
  <1>6. CASE ReadEvent \/ ReadFails
    BY <1>6, SameMeasures DEF ReadEvent, ReadFails, envVars
  <1>7. ASSUME NEW err, NEW cause, Return(err, cause, result), UNCHANGED <<envVars, previous, tokens>>
        PROVE  MeasureInv'
    BY <1>1, <1>7, ReturnMeasures DEF envVars
  <1>8. CASE SendFails \/ ReadErrorBody \/ Fail \/ ProcessDone \/ ProcessMalformed
    <2>1. \E err, cause : Return(err, cause, result)
      BY <1>8 DEF SendFails, ReadErrorBody, Fail, ProcessDone, ProcessMalformed
    <2>2. UNCHANGED <<envVars, previous, tokens>>
      BY <1>8 DEF SendFails, ReadErrorBody, Fail, ProcessDone, ProcessMalformed
    <2> QED
      BY <1>7, <2>1, <2>2
  <1>9. CASE Run
    BY <1>6, <1>8, <1>9, RespondMeasures, ProcessMeasures DEF Run
  <1>10. CASE Next /\ ~Run
    BY <1>3, <1>4, <1>5, <1>10 DEF Next, CancelParent, TotalTimeout, IdleFires, Callback,
       IdleSignals, IdleCancels, Server, SendEvent, EndStream, Terminated, vars, envVars
  <1>11. CASE UNCHANGED vars
    BY <1>5, <1>11 DEF vars, envVars
  <1> QED
    BY <1>9, <1>10, <1>11

LEMMA MeasuresFromInv == IInv /\ MeasureInv => MeasurementsAddUp
  <1> SUFFICES ASSUME IInv, MeasureInv PROVE MeasurementsAddUp
    OBVIOUS
  <1>1. /\ tokens \in Nat /\ result \in Results /\ Sound(result, previous)
        /\ tokens = 0 <=> previous = Unset
        /\ pc = "done" => previous <= result.Duration
    BY DEF IInv, TypeOK, MeasureInv
  <1>2. result.ChunkITL \in Seq(Nat) /\ Len(<<>>) = 0
    BY <1>1 DEF Results
  <1>3. CASE tokens = 0
    BY <1>1, <1>2, <1>3 DEF Sound, MeasurementsAddUp
  <1>4. CASE tokens # 0
    <2>1. /\ result.TTFB <= result.TTFT
          /\ result.ContentEvents = Len(result.ChunkITL) + 1
          /\ result.TTFT + SumFunction(result.ChunkITL) = previous
      BY <1>1, <1>4 DEF Sound
    <2> QED
      BY <1>1, <1>2, <1>4, <2>1 DEF MeasurementsAddUp
  <1> QED
    BY <1>3, <1>4

-----------------------------------------------------------------------------
(***************************************************************************)
(* Theorems.                                                               *)
(***************************************************************************)

\* The inductive invariant holds throughout.
THEOREM ProbeInvariance == Spec => []IInv
  BY InitInv, StepInv, PTL DEF Spec

\* Every variable of a request keeps its type; no interval is negative.
THEOREM ProbeTypes == Spec => []TypeOK
  <1>1. IInv => TypeOK
    BY DEF IInv
  <1> QED
    BY ProbeInvariance, <1>1, PTL

\* The context that an idle timeout cancels is never reported as a
\* cancellation by the user, for any timeouts and any order of the callbacks.
THEOREM IdleReported == Spec => []IdleIsNotCancellation
  <1>1. IInv => IdleIsNotCancellation
    BY DEF IInv, CancelInv
  <1> QED
    BY ProbeInvariance, <1>1, PTL

\* Run succeeds only on [DONE] after content.
THEOREM SuccessEarned == Spec => []SuccessIsComplete
  <1>1. IInv => SuccessIsComplete
    BY DEF IInv, ProgressInv
  <1> QED
    BY ProbeInvariance, <1>1, PTL

\* TTFT and the chunk intervals lead to the last content, for any events and
\* any timing.
THEOREM MeasurementsSound == Spec => []MeasurementsAddUp
  <1>1. Spec => []MeasureInv
    <2>1. Init => MeasureInv
      BY MeasureInit
    <2>2. IInv /\ MeasureInv /\ [Next]_vars => MeasureInv'
      BY MeasureStep
    <2> QED
      BY <2>1, <2>2, ProbeInvariance, PTL DEF Spec
  <1>2. IInv /\ MeasureInv => MeasurementsAddUp
    BY MeasuresFromInv
  <1> QED
    BY ProbeInvariance, <1>1, <1>2, PTL

-----------------------------------------------------------------------------
(***************************************************************************)
(* The decoder against its reference.  The reference looks at a whole text;*)
(* these lemmas say what each part of it becomes when the text grows by a  *)
(* symbol: nothing before the symbol changes.                              *)
(***************************************************************************)

\* The greatest element comes last, and those before it keep their ranks.
LEMMA RankedGrows ==
  ASSUME NEW S \in SUBSET Int, IsFiniteSet(S), NEW m \in Int, \A x \in S : x < m
  PROVE  /\ Cardinality(S) \in Nat
         /\ Cardinality(S \cup {m}) = Cardinality(S) + 1
         /\ \A n \in 1..Cardinality(S) : Ranked(S \cup {m}, n) = Ranked(S, n)
         /\ Ranked(S \cup {m}, Cardinality(S) + 1) = {m}
<1> DEFINE U == S \cup {m}
           Upto(T, x) == {y \in T : y <= x}
<1>1. /\ Cardinality(S) \in Nat
      /\ Cardinality(U) = Cardinality(S) + 1
  BY FS_CardinalityType, FS_AddElement
<1>2. \A x \in S : Upto(U, x) = Upto(S, x)
  OBVIOUS
<1>3. \A x \in S : Cardinality(Upto(S, x)) <= Cardinality(S)
  <2> SUFFICES ASSUME NEW x \in S PROVE Cardinality(Upto(S, x)) <= Cardinality(S)
    OBVIOUS
  <2>1. Upto(S, x) \subseteq S
    OBVIOUS
  <2> HIDE DEF Upto
  <2> QED
    BY <2>1, FS_Subset
<1>4. Upto(U, m) = U
  <2>1. \A x \in U : x <= m
    OBVIOUS
  <2> QED
    BY <2>1
<1>5. \A n, x : /\ x \in Ranked(U, n) <=> x \in U /\ Cardinality(Upto(U, x)) = n
                /\ x \in Ranked(S, n) <=> x \in S /\ Cardinality(Upto(S, x)) = n
  BY DEF Ranked
<1>6. ASSUME NEW n \in 1..Cardinality(S) PROVE Ranked(U, n) = Ranked(S, n)
  <2>1. m \notin Ranked(U, n)
    <3> HIDE DEF Upto, U
    <3> QED
      BY <1>1, <1>4, <1>5
  <2> HIDE DEF Upto
  <2>2. m \notin S
    OBVIOUS
  <2>3. \A x : x \in Ranked(U, n) <=> x \in Ranked(S, n)
    BY <1>2, <1>5, <2>1, <2>2
  <2>4. Ranked(U, n) \subseteq U /\ Ranked(S, n) \subseteq S
    BY <1>5
  <2> QED
    BY <2>3
<1>7. Ranked(U, Cardinality(S) + 1) = {m}
  <2> HIDE DEF Upto
  <2>1. m \in Ranked(U, Cardinality(S) + 1)
    BY <1>1, <1>4, <1>5
  <2>2. \A x \in S : x \notin Ranked(U, Cardinality(S) + 1)
    <3> SUFFICES ASSUME NEW x \in S PROVE x \notin Ranked(U, Cardinality(S) + 1)
      OBVIOUS
    <3>1. Upto(S, x) \subseteq S
      BY DEF Upto
    <3>2. Cardinality(Upto(S, x)) \in Nat
      <4>1. IsFiniteSet(Upto(S, x))
        BY <3>1, FS_Subset
      <4> QED
        BY <4>1, FS_CardinalityType
    <3>3. Cardinality(Upto(U, x)) # Cardinality(S) + 1
      BY <1>1, <1>2, <1>3, <3>2
    <3> HIDE DEF U
    <3> QED
      BY <1>5, <3>3
  <2> QED
    BY <1>5, <2>1, <2>2
<1> QED
  BY <1>1, <1>6, <1>7

LEMMA InOrderEmpty == InOrder({}) = <<>>
  <1>1. Cardinality({}) = 0
    BY FS_EmptySet
  <1> QED
    BY <1>1 DEF InOrder

\* The sequence in order of a set ends with its greatest element.
LEMMA InOrderGrows ==
  ASSUME NEW S \in SUBSET Int, IsFiniteSet(S), NEW m \in Int, \A x \in S : x < m
  PROVE  /\ DOMAIN InOrder(S) = 1..Cardinality(S)
         /\ DOMAIN InOrder(S \cup {m}) = 1..Cardinality(S) + 1
         /\ \A n \in 1..Cardinality(S) : InOrder(S \cup {m})[n] = InOrder(S)[n]
         /\ InOrder(S \cup {m})[Cardinality(S) + 1] = m
<1> DEFINE U == S \cup {m}
<1>1. /\ Cardinality(S) \in Nat
      /\ Cardinality(U) = Cardinality(S) + 1
      /\ \A n \in 1..Cardinality(S) : Ranked(U, n) = Ranked(S, n)
      /\ Ranked(U, Cardinality(S) + 1) = {m}
  BY RankedGrows
<1>2. \A T : InOrder(T) = [n \in 1..Cardinality(T) |-> Pick(Ranked(T, n))]
  BY DEF InOrder, Pick
<1>3. Pick({m}) = m
  BY DEF Pick
<1> HIDE DEF U
<1>4. /\ DOMAIN InOrder(S) = 1..Cardinality(S)
      /\ DOMAIN InOrder(U) = 1..Cardinality(S) + 1
  BY <1>1, <1>2
<1>5. \A n \in 1..Cardinality(S) : InOrder(U)[n] = InOrder(S)[n]
  BY <1>1, <1>2
<1>6. InOrder(U)[Cardinality(S) + 1] = m
  <2>1. Cardinality(S) + 1 \in 1..Cardinality(U)
    BY <1>1
  <2>2. InOrder(U)[Cardinality(S) + 1] = Pick(Ranked(U, Cardinality(S) + 1))
    BY <1>2, <2>1
  <2> QED
    BY <1>1, <1>3, <2>2
<1> QED
  BY <1>4, <1>5, <1>6 DEF U

\* Every element of a set has a rank, so the sequence is of its elements.
LEMMA InOrderMembers ==
  ASSUME NEW k \in Nat, NEW S, S \subseteq 0..k
  PROVE  /\ IsFiniteSet(S) /\ Cardinality(S) \in Nat
         /\ DOMAIN InOrder(S) = 1..Cardinality(S)
         /\ \A n \in 1..Cardinality(S) : InOrder(S)[n] \in S
<1>1. IsFiniteSet(S) /\ Cardinality(S) \in Nat
  <2>1. IsFiniteSet(0..k)
    BY FS_Interval
  <2>2. IsFiniteSet(S)
    BY <2>1, FS_Subset
  <2> QED
    BY <2>2, FS_CardinalityType
<1>2. DOMAIN InOrder(S) = 1..Cardinality(S)
  BY DEF InOrder
<1> DEFINE Short(X) == \E n \in 1..Cardinality(X) : Ranked(X, n) = {}
           T == {X \in SUBSET S : Short(X)}
<1>3. T = {}
  <2> SUFFICES ASSUME T # {} PROVE FALSE
    OBVIOUS
  <2>1. PICK M \in T : \A X \in T : X \subseteq M => X = M
    <3>1. IsFiniteSet(S)
      BY <1>1
    <3>2. T \subseteq SUBSET S
      OBVIOUS
    <3> HIDE DEF T
    <3> QED
      BY ONLY <3>1, <3>2, T # {}, Smallest
  <2>2. IsFiniteSet(M) /\ M \in SUBSET (0..k)
    BY <1>1, <2>1, FS_Subset
  <2>3. M # {}
    BY <2>1, FS_EmptySet
  <2> DEFINE m == Max(M)
             R == M \ {m}
  <2>4. m \in M /\ \A x \in M : x <= m
    BY <2>2, <2>3, Greatest
  <2>5. R \in SUBSET S /\ R # M /\ R \subseteq M /\ IsFiniteSet(R) /\ R \cup {m} = M
    BY <2>1, <2>2, <2>4, FS_Subset
  <2>6. R \in SUBSET Int /\ m \in Int /\ \A x \in R : x < m
    <3>1. \A x \in M : x \in Int
      BY <2>2
    <3>2. m \in Int /\ \A x \in R : x \in Int /\ x <= m /\ x # m
      BY <2>4, <3>1
    <3> HIDE DEF m, R
    <3>3. R \subseteq Int
      BY <3>2
    <3>4. \A x \in R : x < m
      BY <3>2
    <3> QED
      BY <3>2, <3>3, <3>4
  <2>7. ~Short(R)
    BY <2>1, <2>5
  <2> HIDE DEF m, R, T
  <2>8. /\ Cardinality(R) \in Nat
        /\ Cardinality(M) = Cardinality(R) + 1
        /\ \A n \in 1..Cardinality(R) : Ranked(M, n) = Ranked(R, n)
        /\ Ranked(M, Cardinality(R) + 1) = {m}
    BY <2>5, <2>6, RankedGrows
  <2>9. ~Short(M)
    BY <2>7, <2>8
  <2> QED
    BY <2>1, <2>9 DEF T
<1>4. \A n \in 1..Cardinality(S) : Ranked(S, n) # {}
  BY <1>3
<1>5. \A n \in 1..Cardinality(S) : InOrder(S)[n] \in S
  BY <1>4 DEF InOrder, Ranked
<1> QED
  BY <1>1, <1>2, <1>5

\* Text q is text p, of n symbols, and symbol s.
Grown(p, s, q, n) ==
  /\ n \in Nat /\ p \in Seq(Symbols) /\ Len(p) = n /\ s \in Symbols
  /\ q \in Seq(Symbols) /\ Len(q) = n + 1
  /\ (\A i \in 1..n : q[i] = p[i]) /\ q[n + 1] = s

LEMMA BreaksGrow ==
  ASSUME NEW p, NEW s, NEW q, NEW n, Grown(p, s, q, n)
  PROVE  /\ Breaks(p) \subseteq 0..n /\ 0 \in Breaks(p)
         /\ Breaks(q) = Breaks(p) \cup (IF s \in {"CR", "LF"} THEN {n + 1} ELSE {})
<1> USE DEF Grown
<1>1. Breaks(p) \subseteq 0..n /\ 0 \in Breaks(p)
  BY DEF Breaks
<1>2. \A i : i \in Breaks(q) <=> i \in Breaks(p) \/ (i = n + 1 /\ s \in {"CR", "LF"})
  BY DEF Breaks
<1> QED
  BY <1>1, <1>2

\* A line starts where it did, and the growing one after the last break.
LEMMA StartsGrow ==
  ASSUME NEW p, NEW s, NEW q, NEW n, Grown(p, s, q, n)
  PROVE  /\ \A i \in 1..n + 1 : LineStart(q, i) = LineStart(p, i) /\ LineStart(p, i) \in 1..i
         /\ LineStart(q, n + 2) = IF s \in {"CR", "LF"} THEN n + 2 ELSE LineStart(p, n + 1)
<1> DEFINE Before(t, i) == {j \in Breaks(t) : j < i}
<1>0. n \in Nat
  BY DEF Grown
<1>1. /\ Breaks(p) \subseteq 0..n /\ 0 \in Breaks(p)
      /\ Breaks(q) = Breaks(p) \cup (IF s \in {"CR", "LF"} THEN {n + 1} ELSE {})
  BY BreaksGrow
<1>2. \A t, i : LineStart(t, i) = Max(Before(t, i)) + 1
  BY DEF LineStart
<1>3. ASSUME NEW i \in 1..n + 1 PROVE Before(q, i) = Before(p, i)
  BY <1>0, <1>1
<1>4. ASSUME NEW i \in 1..n + 1 PROVE LineStart(p, i) \in 1..i
  <2>1. Before(p, i) \in SUBSET (0..n) /\ 0 \in Before(p, i)
    BY <1>0, <1>1
  <2>2. Max(Before(p, i)) \in Before(p, i)
    <3> HIDE DEF Before
    <3> QED
      BY <1>0, <2>1, Greatest
  <2>3. Max(Before(p, i)) \in 0..i - 1
    <3> DEFINE m == Max(Before(p, i))
    <3>1. m \in Breaks(p) /\ m < i
      BY <2>2
    <3> HIDE DEF m
    <3>2. m \in 0..i - 1
      BY <1>0, <1>1, <3>1
    <3> QED
      BY <3>2 DEF m
  <2> HIDE DEF Before
  <2> QED
    BY <1>0, <1>2, <2>3
<1>5. CASE s \in {"CR", "LF"}
  <2>1. Before(q, n + 2) \in SUBSET Int /\ n + 1 \in Before(q, n + 2)
    BY <1>0, <1>1, <1>5
  <2>2. \A x \in Before(q, n + 2) : x <= n + 1
    BY <1>0, <1>1
  <2>3. Max(Before(q, n + 2)) = n + 1
    <3> HIDE DEF Before
    <3> QED
      BY <2>1, <2>2, GreatestIs
  <2>4. LineStart(q, n + 2) = n + 2
    <3> HIDE DEF Before
    <3> QED
      BY <1>0, <1>2, <2>3
  <2> HIDE DEF Before
  <2> QED
    BY <1>2, <1>3, <1>4, <1>5, <2>4
<1>6. CASE s \notin {"CR", "LF"}
  <2>1. Before(q, n + 2) = Before(p, n + 1)
    BY <1>0, <1>1, <1>6
  <2> HIDE DEF Before
  <2> QED
    BY <1>2, <1>3, <1>4, <1>6, <2>1
<1> QED
  BY <1>5, <1>6

\* No line before the new symbol changes, and the growing line gets it, unless
\* it is a break.
LEMMA LinesGrow ==
  ASSUME NEW p, NEW s, NEW q, NEW n, Grown(p, s, q, n)
  PROVE  /\ \A i \in 1..n + 1 : LineBefore(q, i) = LineBefore(p, i)
         /\ LineBefore(q, n + 2) =
              IF s \in {"CR", "LF"} THEN <<>> ELSE Append(LineBefore(p, n + 1), s)
<1>1. /\ \A i \in 1..n + 1 : LineStart(q, i) = LineStart(p, i) /\ LineStart(p, i) \in 1..i
      /\ LineStart(q, n + 2) = IF s \in {"CR", "LF"} THEN n + 2 ELSE LineStart(p, n + 1)
  BY StartsGrow
<1>2. ASSUME NEW i \in 1..n + 1 PROVE LineBefore(q, i) = LineBefore(p, i)
  <2> DEFINE a == LineStart(p, i)
  <2>1. a \in 1..i /\ LineBefore(q, i) = SubSeq(q, a, i - 1) /\ LineBefore(p, i) = SubSeq(p, a, i - 1)
    BY <1>1 DEF LineBefore
  <2> HIDE DEF a
  <2>2. SubSeq(q, a, i - 1) = SubSeq(p, a, i - 1)
    BY <2>1 DEF Grown
  <2> QED
    BY <2>1, <2>2
<1> DEFINE a == LineStart(p, n + 1)
<1>3. n \in Nat /\ a \in 1..n + 1
  BY <1>1 DEF Grown
<1>4. LineBefore(p, n + 1) = SubSeq(p, a, n)
  BY <1>3 DEF LineBefore
<1>6. CASE s \in {"CR", "LF"}
  <2>0. LineStart(q, n + 2) = n + 2 /\ (n + 2) - 1 = n + 1
    BY <1>1, <1>3, <1>6
  <2>1. LineBefore(q, n + 2) = SubSeq(q, n + 2, n + 1)
    BY <2>0 DEF LineBefore
  <2>2. SubSeq(q, n + 2, n + 1) = <<>>
    BY <1>3 DEF Grown
  <2> QED
    BY <1>2, <1>6, <2>1, <2>2
<1>7. CASE s \notin {"CR", "LF"}
  <2>0. LineStart(q, n + 2) = a /\ (n + 2) - 1 = n + 1
    BY <1>1, <1>3, <1>7
  <2>1. LineBefore(q, n + 2) = SubSeq(q, a, n + 1)
    <3> HIDE DEF a
    <3> QED
      BY <2>0 DEF LineBefore
  <2>2. SubSeq(q, a, n + 1) = Append(SubSeq(p, a, n), s)
    <3> HIDE DEF a
    <3> QED
      BY <1>3 DEF Grown
  <2> QED
    BY <1>2, <1>4, <1>7, <2>1, <2>2
<1> QED
  BY <1>6, <1>7

\* Whether symbol s ends the line that grows at the end of p, a blank line or
\* a line of data.
EndsLine(p, s, n) == s = "CR" \/ (s = "LF" /\ (n = 0 \/ p[n] # "CR"))
EndsBlank(p, s, n) == EndsLine(p, s, n) /\ LineBefore(p, n + 1) = <<>>
EndsData(p, s, n) == EndsLine(p, s, n) /\ IsData(LineBefore(p, n + 1))

LEMMA EndsGrow ==
  ASSUME NEW p, NEW s, NEW q, NEW n, Grown(p, s, q, n)
  PROVE  /\ BlankEnds(p) \subseteq 1..n /\ DataEnds(p) \subseteq 1..n
         /\ BlankEnds(q) = BlankEnds(p) \cup (IF EndsBlank(p, s, n) THEN {n + 1} ELSE {})
         /\ DataEnds(q) = DataEnds(p) \cup (IF EndsData(p, s, n) THEN {n + 1} ELSE {})
<1>1. n \in Nat
  BY DEF Grown
<1>2. LineEnds(p) \subseteq 1..n
  BY DEF LineEnds, Grown
<1>3. \A i : i \in LineEnds(q) <=> i \in LineEnds(p) \/ (i = n + 1 /\ EndsLine(p, s, n))
  <2>1. ASSUME NEW i \in 1..n PROVE i \in LineEnds(q) <=> i \in LineEnds(p)
    BY <1>1 DEF LineEnds, Grown
  <2>2. n + 1 \in LineEnds(q) <=> EndsLine(p, s, n)
    BY <1>1 DEF LineEnds, Grown, EndsLine
  <2>3. LineEnds(q) \subseteq 1..n + 1
    BY DEF LineEnds, Grown
  <2> QED
    BY <1>1, <1>2, <2>1, <2>2, <2>3
<1>4. \A i \in 1..n + 1 : LineBefore(q, i) = LineBefore(p, i)
  BY LinesGrow
<1>5. \A i : i \in BlankEnds(q) <=> i \in BlankEnds(p) \/ (i = n + 1 /\ EndsBlank(p, s, n))
  BY <1>1, <1>2, <1>3, <1>4 DEF BlankEnds, EndsBlank
<1>6. \A i : i \in DataEnds(q) <=> i \in DataEnds(p) \/ (i = n + 1 /\ EndsData(p, s, n))
  BY <1>1, <1>2, <1>3, <1>4 DEF DataEnds, EndsData
<1>7. BlankEnds(p) \subseteq 1..n /\ DataEnds(p) \subseteq 1..n
  BY <1>2 DEF BlankEnds, DataEnds
<1>8. BlankEnds(q) = BlankEnds(p) \cup (IF EndsBlank(p, s, n) THEN {n + 1} ELSE {})
  BY <1>5
<1>9. DataEnds(q) = DataEnds(p) \cup (IF EndsData(p, s, n) THEN {n + 1} ELSE {})
  BY <1>6
<1> QED
  BY <1>7, <1>8, <1>9

\* The data lines since the last blank line: a blank line leaves none, a line
\* of data is one more.
DataAfter(p, s, n) ==
  IF EndsBlank(p, s, n) THEN {}
  ELSE DataBefore(p, n + 1) \cup (IF EndsData(p, s, n) THEN {n + 1} ELSE {})

LEMMA DataGrows ==
  ASSUME NEW p, NEW s, NEW q, NEW n, Grown(p, s, q, n)
  PROVE  /\ \A i \in 1..n + 1 : DataBefore(q, i) = DataBefore(p, i) /\ DataBefore(p, i) \subseteq 1..n
         /\ DataBefore(q, n + 2) = DataAfter(p, s, n)
<1>1. /\ n \in Nat
      /\ BlankEnds(p) \subseteq 1..n /\ DataEnds(p) \subseteq 1..n
      /\ BlankEnds(q) = BlankEnds(p) \cup (IF EndsBlank(p, s, n) THEN {n + 1} ELSE {})
      /\ DataEnds(q) = DataEnds(p) \cup (IF EndsData(p, s, n) THEN {n + 1} ELSE {})
  <2>1. n \in Nat
    BY DEF Grown
  <2> QED
    BY <2>1, EndsGrow, Zenon
<1>2. \A t, i, j : j \in DataBefore(t, i) <=>
        j \in DataEnds(t) /\ j < i /\ \A b \in BlankEnds(t) : b < j \/ b >= i
  BY DEF DataBefore
<1>3. ASSUME NEW i \in 1..n + 1
      PROVE  DataBefore(q, i) = DataBefore(p, i) /\ DataBefore(p, i) \subseteq 1..n
  <2>1. \A j : j \in DataBefore(q, i) <=> j \in DataBefore(p, i)
    BY <1>1, <1>2
  <2>2. DataBefore(p, i) \subseteq DataEnds(p)
    BY <1>2
  <2>3. \A t : DataBefore(t, i) \subseteq DataEnds(t)
    BY <1>2
  <2>4. DataBefore(q, i) = DataBefore(p, i)
    BY <2>1, <2>3
  <2> QED
    BY <1>1, <2>2, <2>4
<1>4. CASE EndsBlank(p, s, n)
  <2>1. \A j : j \notin DataBefore(q, n + 2)
    BY <1>1, <1>2, <1>4
  <2> QED
    BY <1>3, <1>4, <2>1 DEF DataAfter
<1>5. CASE ~EndsBlank(p, s, n)
  <2>1. \A j : j \in DataBefore(q, n + 2) <=>
               j \in DataBefore(p, n + 1) \/ (j = n + 1 /\ EndsData(p, s, n))
    BY <1>1, <1>2, <1>5
  <2>2. DataBefore(q, n + 2) = DataBefore(p, n + 1) \cup (IF EndsData(p, s, n) THEN {n + 1} ELSE {})
    BY <2>1
  <2> QED
    BY <1>3, <1>5, <2>2 DEF DataAfter
<1> QED
  BY <1>4, <1>5

\* The values before an end are those of its data lines, in order.
LEMMA ValuesAre ==
  ASSUME NEW k \in Nat, NEW t, NEW i, DataBefore(t, i) \subseteq 0..k
  PROVE  /\ Cardinality(DataBefore(t, i)) \in Nat
         /\ Values(t, i) = [m \in 1..Cardinality(DataBefore(t, i)) |->
                             ValueOf(LineBefore(t, InOrder(DataBefore(t, i))[m]))]
         /\ Len(Values(t, i)) = Cardinality(DataBefore(t, i))
         /\ Values(t, i) = <<>> <=> DataBefore(t, i) = {}
<1> DEFINE S == DataBefore(t, i)
           c == Cardinality(S)
<1>1. IsFiniteSet(S) /\ c \in Nat /\ DOMAIN InOrder(S) = 1..c
  <2> HIDE DEF S
  <2>1. S \subseteq 0..k
    BY DEF S
  <2> QED
    BY ONLY k \in Nat, <2>1, InOrderMembers
<1>2. Values(t, i) = [m \in 1..c |-> ValueOf(LineBefore(t, InOrder(S)[m]))]
  BY <1>1 DEF Values
<1>3. c = 0 <=> S = {}
  <2> HIDE DEF S
  <2> QED
    BY <1>1, FS_EmptySet
<1> HIDE DEF S, c
<1>4. Len(Values(t, i)) = c
  BY <1>1, <1>2
<1>5. Values(t, i) = <<>> <=> c = 0
  BY <1>1, <1>2, <1>4
<1> QED
  BY <1>1, <1>2, <1>3, <1>4, <1>5 DEF S, c

LEMMA ValuesGrow ==
  ASSUME NEW p, NEW s, NEW q, NEW n, Grown(p, s, q, n)
  PROVE  /\ \A i \in 1..n + 1 : Values(q, i) = Values(p, i)
         /\ Values(p, n + 1) = <<>> <=> DataBefore(p, n + 1) = {}
         /\ Values(q, n + 2) =
              IF EndsBlank(p, s, n) THEN <<>>
              ELSE IF EndsData(p, s, n) THEN Append(Values(p, n + 1), ValueOf(LineBefore(p, n + 1)))
              ELSE Values(p, n + 1)
<1>0. n \in Nat
  BY DEF Grown
<1>1. /\ \A i \in 1..n + 1 : DataBefore(q, i) = DataBefore(p, i) /\ DataBefore(p, i) \subseteq 1..n
      /\ DataBefore(q, n + 2) = DataAfter(p, s, n)
  BY DataGrows
<1>2. \A i \in 1..n + 1 : LineBefore(q, i) = LineBefore(p, i)
  BY LinesGrow
<1>3. ASSUME NEW i, NEW j \in 1..n + 1, DataBefore(q, i) = DataBefore(p, j)
      PROVE  Values(q, i) = Values(p, j)
  <2> DEFINE S == DataBefore(p, j)
             c == Cardinality(S)
  <2>1. S \subseteq 1..n /\ S \subseteq 0..n
    BY <1>0, <1>1
  <2>2. /\ Values(p, j) = [m \in 1..c |-> ValueOf(LineBefore(p, InOrder(S)[m]))]
        /\ Values(q, i) = [m \in 1..c |-> ValueOf(LineBefore(q, InOrder(S)[m]))]
    BY <1>0, <1>3, <2>1, ValuesAre
  <2>3. \A m \in 1..c : InOrder(S)[m] \in S
    <3>1. S \subseteq 0..n
      BY <2>1
    <3> HIDE DEF S
    <3>2. \A m \in 1..Cardinality(S) : InOrder(S)[m] \in S
      BY ONLY <1>0, <3>1, InOrderMembers
    <3> QED
      BY <3>2
  <2>4. \A m \in 1..c : LineBefore(q, InOrder(S)[m]) = LineBefore(p, InOrder(S)[m])
    <3> SUFFICES ASSUME NEW m \in 1..c
                 PROVE  LineBefore(q, InOrder(S)[m]) = LineBefore(p, InOrder(S)[m])
      OBVIOUS
    <3> DEFINE e == InOrder(S)[m]
    <3>1. e \in 1..n
      BY <2>1, <2>3
    <3> HIDE DEF e
    <3>2. LineBefore(q, e) = LineBefore(p, e)
      BY <1>0, <1>2, <3>1
    <3> QED
      BY <3>2 DEF e
  <2> HIDE DEF S, c
  <2> QED
    BY <2>2, <2>4
<1>4. \A i \in 1..n + 1 : Values(q, i) = Values(p, i)
  BY <1>1, <1>3
<1> DEFINE S == DataBefore(p, n + 1)
           c == Cardinality(S)
<1>5. /\ S \subseteq 0..n
      /\ c \in Nat
      /\ Values(p, n + 1) = [m \in 1..c |-> ValueOf(LineBefore(p, InOrder(S)[m]))]
      /\ Len(Values(p, n + 1)) = c
      /\ Values(p, n + 1) = <<>> <=> S = {}
  <2>1. S \subseteq 0..n
    BY <1>0, <1>1
  <2> QED
    BY <1>0, <2>1, ValuesAre
<1>6. CASE EndsBlank(p, s, n)
  <2>1. DataBefore(q, n + 2) = {}
    BY <1>1, <1>6 DEF DataAfter
  <2>2. Values(q, n + 2) = <<>>
    BY <1>0, <2>1, ValuesAre
  <2> QED
    BY <1>4, <1>5, <1>6, <2>2
<1>7. CASE ~EndsBlank(p, s, n) /\ EndsData(p, s, n)
  <2> DEFINE T == S \cup {n + 1}
             value == ValueOf(LineBefore(p, n + 1))
  <2>1. DataBefore(q, n + 2) = T
    BY <1>1, <1>7 DEF DataAfter
  <2>2. T \subseteq 0..n + 1
    BY <1>0, <1>5
  <2>3. S \subseteq 1..n /\ S \in SUBSET Int /\ IsFiniteSet(S) /\ \A x \in S : x < n + 1
    <3>1. S \subseteq 1..n
      BY <1>0, <1>1
    <3> HIDE DEF S
    <3>2. IsFiniteSet(S)
      BY ONLY <1>0, <1>5, InOrderMembers
    <3> QED
      BY <1>0, <3>1, <3>2
  <2>4. /\ DOMAIN InOrder(T) = 1..c + 1 /\ Cardinality(T) = c + 1
        /\ \A m \in 1..c : InOrder(T)[m] = InOrder(S)[m]
        /\ InOrder(T)[c + 1] = n + 1
    <3> HIDE DEF S
    <3>1. n + 1 \in Int
      BY <1>0
    <3>2. Cardinality(T) = c + 1
      BY ONLY <2>3, <3>1, RankedGrows
    <3>3. /\ DOMAIN InOrder(T) = 1..c + 1
          /\ \A m \in 1..c : InOrder(T)[m] = InOrder(S)[m]
          /\ InOrder(T)[c + 1] = n + 1
      BY ONLY <2>3, <3>1, InOrderGrows
    <3> QED
      BY <3>2, <3>3
  <2>5. \A m \in 1..c : InOrder(S)[m] \in S
    <3>1. S \subseteq 0..n
      BY <1>5
    <3> HIDE DEF S
    <3>2. \A m \in 1..Cardinality(S) : InOrder(S)[m] \in S
      BY ONLY <1>0, <3>1, InOrderMembers
    <3> QED
      BY <3>2
  <2>6. Values(q, n + 2) = [m \in 1..c + 1 |-> ValueOf(LineBefore(q, InOrder(T)[m]))]
    <3>1. n + 1 \in Nat /\ DataBefore(q, n + 2) \subseteq 0..n + 1
      BY <1>0, <2>1, <2>2
    <3>2. Values(q, n + 2) = [m \in 1..Cardinality(DataBefore(q, n + 2)) |->
                               ValueOf(LineBefore(q, InOrder(DataBefore(q, n + 2))[m]))]
      BY ONLY <3>1, ValuesAre
    <3> QED
      BY <2>1, <2>4, <3>2
  <2>7. \A m \in 1..c : LineBefore(q, InOrder(T)[m]) = LineBefore(p, InOrder(S)[m])
    <3> SUFFICES ASSUME NEW m \in 1..c
                 PROVE  LineBefore(q, InOrder(T)[m]) = LineBefore(p, InOrder(S)[m])
      OBVIOUS
    <3> DEFINE e == InOrder(S)[m]
    <3>1. InOrder(T)[m] = e
      BY <2>4
    <3>2. e \in 1..n
      BY <2>3, <2>5
    <3> HIDE DEF e
    <3>3. LineBefore(q, e) = LineBefore(p, e)
      BY <1>0, <1>2, <3>2
    <3> QED
      BY <3>1, <3>3 DEF e
  <2>8. LineBefore(q, InOrder(T)[c + 1]) = LineBefore(p, n + 1)
    <3> HIDE DEF S, c, T
    <3> QED
      BY <1>0, <1>2, <2>4
  <2>9. Values(q, n + 2) = Append(Values(p, n + 1), value)
    <3> HIDE DEF S, c, T, value
    <3>1. \A m \in 1..c : ValueOf(LineBefore(q, InOrder(T)[m])) = ValueOf(LineBefore(p, InOrder(S)[m]))
      BY <2>7
    <3>2. ValueOf(LineBefore(q, InOrder(T)[c + 1])) = value
      BY <2>8 DEF value
    <3> QED
      BY <1>5, <2>6, <3>1, <3>2
  <2> HIDE DEF S, c, T
  <2> QED
    BY <1>4, <1>5, <1>7, <2>9 DEF S
<1>8. CASE ~EndsBlank(p, s, n) /\ ~EndsData(p, s, n)
  <2>1. DataBefore(q, n + 2) = DataBefore(p, n + 1)
    BY <1>1, <1>8 DEF DataAfter
  <2>2. Values(q, n + 2) = Values(p, n + 1)
    BY <1>0, <1>3, <2>1
  <2> QED
    BY <1>4, <1>5, <1>8, <2>2
<1> QED
  BY <1>6, <1>7, <1>8

\* A blank line after data is one more event, and the last.
LEMMA EventsGrow ==
  ASSUME NEW p, NEW s, NEW q, NEW n, Grown(p, s, q, n)
  PROVE  Events(q) = IF EndsBlank(p, s, n) /\ Values(p, n + 1) # <<>>
                       THEN Append(Events(p), Values(p, n + 1)) ELSE Events(p)
<1> DEFINE S == EventEnds(p)
           T == EventEnds(q)
           c == Cardinality(S)
           blank == EndsBlank(p, s, n) /\ Values(p, n + 1) # <<>>
<1>0. n \in Nat
  BY DEF Grown
<1>1. \A i \in 1..n + 1 : DataBefore(q, i) = DataBefore(p, i)
  BY DataGrows
<1>2. /\ \A i \in 1..n + 1 : Values(q, i) = Values(p, i)
      /\ Values(p, n + 1) = <<>> <=> DataBefore(p, n + 1) = {}
  BY ValuesGrow
<1>3. /\ BlankEnds(p) \subseteq 1..n
      /\ BlankEnds(q) = BlankEnds(p) \cup (IF EndsBlank(p, s, n) THEN {n + 1} ELSE {})
  BY EndsGrow
<1>4. S \subseteq 1..n /\ S \subseteq 0..n
  BY <1>0, <1>3 DEF EventEnds
<1>5. \A i : i \in T <=> i \in S \/ (i = n + 1 /\ blank)
  BY <1>0, <1>1, <1>2, <1>3 DEF EventEnds
<1>6. IsFiniteSet(S) /\ c \in Nat /\ DOMAIN InOrder(S) = 1..c /\ \A m \in 1..c : InOrder(S)[m] \in S
  <2>1. S \subseteq 0..n
    BY <1>4
  <2> HIDE DEF S
  <2>2. IsFiniteSet(S) /\ Cardinality(S) \in Nat /\ DOMAIN InOrder(S) = 1..Cardinality(S)
    BY ONLY <1>0, <2>1, InOrderMembers
  <2>3. \A m \in 1..Cardinality(S) : InOrder(S)[m] \in S
    BY ONLY <1>0, <2>1, InOrderMembers
  <2> QED
    BY <2>2, <2>3
<1>7. Events(p) = [m \in 1..c |-> Values(p, InOrder(S)[m])]
  BY <1>6 DEF Events
<1>8. \A m \in 1..c : Values(q, InOrder(S)[m]) = Values(p, InOrder(S)[m])
  <2> SUFFICES ASSUME NEW m \in 1..c PROVE Values(q, InOrder(S)[m]) = Values(p, InOrder(S)[m])
    OBVIOUS
  <2> DEFINE e == InOrder(S)[m]
  <2>1. e \in 1..n
    BY <1>4, <1>6
  <2> HIDE DEF e
  <2>2. Values(q, e) = Values(p, e)
    BY <1>0, <1>2, <2>1
  <2> QED
    BY <2>2 DEF e
<1>9. CASE blank
  <2>1. T = S \cup {n + 1}
    <3> HIDE DEF S, T
    <3> QED
      BY <1>5, <1>9
  <2>2. S \in SUBSET Int /\ \A x \in S : x < n + 1
    <3> HIDE DEF S
    <3> QED
      BY <1>0, <1>4
  <2> HIDE DEF S, T
  <2>3. /\ DOMAIN InOrder(T) = 1..c + 1
        /\ \A m \in 1..c : InOrder(T)[m] = InOrder(S)[m]
        /\ InOrder(T)[c + 1] = n + 1
    <3>1. n + 1 \in Int /\ IsFiniteSet(S)
      BY <1>0, <1>6
    <3> QED
      BY ONLY <2>1, <2>2, <3>1, InOrderGrows
  <2>4. Events(q) = [m \in 1..c + 1 |-> Values(q, InOrder(T)[m])]
    BY <2>3 DEF Events, T
  <2>5. \A m \in 1..c : Values(q, InOrder(T)[m]) = Values(p, InOrder(S)[m])
    BY <1>8, <2>3
  <2>6. Values(q, InOrder(T)[c + 1]) = Values(p, n + 1)
    BY <1>0, <1>2, <2>3
  <2>7. Events(q) = Append(Events(p), Values(p, n + 1))
    <3> HIDE DEF c
    <3> QED
      BY <1>6, <1>7, <2>4, <2>5, <2>6
  <2> QED
    BY <1>9, <2>7
<1>10. CASE ~blank
  <2>1. T = S
    <3> HIDE DEF S, T
    <3> QED
      BY <1>5, <1>10
  <2>2. Events(q) = [m \in 1..c |-> Values(q, InOrder(S)[m])]
    BY <1>6, <2>1 DEF Events
  <2> HIDE DEF S, T
  <2>3. Events(q) = Events(p)
    BY <1>7, <1>8, <2>2
  <2> QED
    BY <1>10, <2>3
<1> QED
  BY <1>9, <1>10

-----------------------------------------------------------------------------
(***************************************************************************)
(* The decoder's state is what the reference makes of the symbols read.    *)
(***************************************************************************)
Prefix == SubSeq(received, 1, position)

DecoderInv ==
  /\ received \in Seq(Symbols) /\ position \in 0..Len(received)
  /\ line = LineBefore(Prefix, position + 1)
  /\ skipNextLF \in BOOLEAN /\ (skipNextLF <=> position > 0 /\ Prefix[position] = "CR")
  /\ skipNextLF => line = <<>>
  /\ data = Values(Prefix, position + 1)
  /\ DecodesPrefix

\* One more symbol read is one more symbol of the prefix.
LEMMA PrefixGrows ==
  ASSUME DecoderInv, position < Len(received), position' = position + 1, UNCHANGED received
  PROVE  Grown(Prefix, received[position + 1], Prefix', position)
  <1>1. /\ received \in Seq(Symbols) /\ position \in Nat /\ position + 1 <= Len(received)
        /\ Prefix = SubSeq(received, 1, position) /\ Prefix' = SubSeq(received, 1, position + 1)
    BY DEF DecoderInv, Prefix
  <1>2. \A k \in 0..Len(received) :
          /\ SubSeq(received, 1, k) \in Seq(Symbols) /\ Len(SubSeq(received, 1, k)) = k
          /\ \A i \in 1..k : SubSeq(received, 1, k)[i] = received[i]
    BY <1>1
  <1> QED
    BY <1>1, <1>2 DEF Grown

LEMMA DecoderInitInv == DecoderInit => DecoderInv
  <1> SUFFICES ASSUME DecoderInit PROVE DecoderInv
    OBVIOUS
  <1>1. received = <<>> /\ position = 0 /\ line = <<>> /\ skipNextLF = FALSE
        /\ data = <<>> /\ decoded = <<>>
    BY DEF DecoderInit
  <1>2. Prefix = <<>>
    BY <1>1 DEF Prefix
  <1>3. LineBefore(<<>>, 1) = <<>>
    <2>1. LineStart(<<>>, 1) = 1
      <3>1. {j \in Breaks(<<>>) : j < 1} = {0}
        BY DEF Breaks
      <3>2. Max({0}) = 0
        BY GreatestIs
      <3>3. LineStart(<<>>, 1) = Max({0}) + 1
        BY <3>1 DEF LineStart
      <3> QED
        BY <3>2, <3>3
    <2> QED
      BY <2>1 DEF LineBefore
  <1>4. LineEnds(<<>>) = {}
    BY DEF LineEnds
  <1>5. DataBefore(<<>>, 1) = {} /\ EventEnds(<<>>) = {}
    BY <1>4 DEF DataBefore, DataEnds, EventEnds, BlankEnds
  <1>6. Values(<<>>, 1) = <<>> /\ Events(<<>>) = <<>>
    BY <1>5, InOrderEmpty DEF Values, Events
  <1>7. position + 1 = 1 /\ ~(position > 0) /\ received \in Seq(Symbols) /\ position \in 0..Len(received)
    BY <1>1
  <1> QED
    BY <1>1, <1>2, <1>3, <1>6, <1>7 DEF DecoderInv, DecodesPrefix, Prefix

LEMMA ArriveInv == ASSUME DecoderInv, Arrive PROVE DecoderInv'
  <1>1. PICK symbol \in Symbols : received' = Append(received, symbol)
    BY DEF Arrive
  <1>2. received \in Seq(Symbols) /\ position \in 0..Len(received) /\ UNCHANGED decoderState
    BY DEF DecoderInv, Arrive
  <1>3. received' \in Seq(Symbols) /\ position' \in 0..Len(received')
    BY <1>1, <1>2 DEF decoderState
  <1>4. Prefix' = Prefix
    BY <1>1, <1>2 DEF Prefix, decoderState
  <1> QED
    BY <1>2, <1>3, <1>4 DEF DecoderInv, DecodesPrefix, Prefix, decoderState

LEMMA ReadByteInv == ASSUME DecoderInv, ReadByte PROVE DecoderInv'
<1> DEFINE n == position
           p == Prefix
           s == received[position + 1]
           q == Prefix'
<1>1. /\ n \in Nat /\ n < Len(received) /\ position' = n + 1
      /\ received' = received /\ received \in Seq(Symbols)
  BY DEF ReadByte, DecoderInv
<1>2. Grown(p, s, q, n)
  BY <1>1, PrefixGrows
<1>3. received' \in Seq(Symbols) /\ position' \in 0..Len(received')
  BY <1>1
<1>4. /\ line = LineBefore(p, n + 1) /\ data = Values(p, n + 1) /\ decoded = Events(p)
      /\ skipNextLF \in BOOLEAN /\ (skipNextLF <=> n > 0 /\ p[n] = "CR")
      /\ skipNextLF => line = <<>>
  BY DEF DecoderInv, DecodesPrefix, Prefix
<1>5. DecoderInv' <=>
        /\ received' \in Seq(Symbols) /\ position' \in 0..Len(received')
        /\ line' = LineBefore(q, n + 2) /\ data' = Values(q, n + 2) /\ decoded' = Events(q)
        /\ skipNextLF' \in BOOLEAN /\ (skipNextLF' <=> q[n + 1] = "CR")
        /\ skipNextLF' => line' = <<>>
  <2>1. position' + 1 = n + 2 /\ position' > 0
    BY <1>1
  <2> QED
    BY <1>1, <2>1 DEF DecoderInv, DecodesPrefix, Prefix
<1> HIDE DEF n, p, s, q
<1>6. s \in Symbols /\ q[n + 1] = s
  BY <1>2 DEF Grown
<1>7. /\ LineBefore(q, n + 2) = IF s \in {"CR", "LF"} THEN <<>> ELSE Append(LineBefore(p, n + 1), s)
      /\ Values(q, n + 2) =
           IF EndsBlank(p, s, n) THEN <<>>
           ELSE IF EndsData(p, s, n) THEN Append(Values(p, n + 1), ValueOf(LineBefore(p, n + 1)))
           ELSE Values(p, n + 1)
      /\ Events(q) = IF EndsBlank(p, s, n) /\ Values(p, n + 1) # <<>>
                       THEN Append(Events(p), Values(p, n + 1)) ELSE Events(p)
  BY <1>2, LinesGrow, ValuesGrow, EventsGrow
<1>8. \/ skipNextLF /\ s = "LF" /\ skipNextLF' = FALSE /\ UNCHANGED <<line, data, decoded>>
      \/ ~skipNextLF /\ s = "LF" /\ skipNextLF' = FALSE /\ EndLine
      \/ s = "CR" /\ skipNextLF' = TRUE /\ EndLine
      \/ s \notin {"CR", "LF"} /\ line' = Append(line, s) /\ skipNextLF' = FALSE /\ UNCHANGED <<data, decoded>>
  BY DEF ReadByte, s
<1> DEFINE L == LineBefore(p, n + 1)
           V == Values(p, n + 1)
<1>9. CASE skipNextLF /\ s = "LF" /\ skipNextLF' = FALSE /\ UNCHANGED <<line, data, decoded>>
  <2>1. ~EndsLine(p, s, n)
    BY <1>4, <1>9 DEF EndsLine
  <2>2. ~EndsBlank(p, s, n) /\ ~EndsData(p, s, n)
    BY <2>1 DEF EndsBlank, EndsData
  <2>3. L = <<>>
    BY <1>4, <1>9
  <2> QED
    BY <1>3, <1>4, <1>5, <1>6, <1>7, <1>9, <2>2, <2>3
<1>10. CASE s \in {"CR", "LF"} /\ EndLine /\ EndsLine(p, s, n) /\ (skipNextLF' <=> s = "CR") /\ skipNextLF' \in BOOLEAN
  <2>1. /\ EndsBlank(p, s, n) <=> L = <<>>
        /\ EndsData(p, s, n) <=> L # <<>> /\ Head(L) # ":" /\ FieldOf(L) = <<"data">>
    BY <1>10 DEF EndsBlank, EndsData, IsData
  <2>2. line = L /\ data = V /\ decoded = Events(p)
    BY <1>4
  <2>3. /\ line' = <<>>
        /\ L = <<>> => /\ data' = <<>>
                        /\ decoded' = IF V # <<>> THEN Append(Events(p), V) ELSE Events(p)
        /\ L # <<>> => /\ decoded' = Events(p)
                        /\ data' = IF Head(L) # ":" /\ FieldOf(L) = <<"data">> THEN Append(V, ValueOf(L)) ELSE V
    BY <1>10, <2>2 DEF EndLine
  <2> HIDE DEF L, V
  <2>4. line' = LineBefore(q, n + 2)
    BY <1>7, <1>10, <2>3
  <2>5. data' = Values(q, n + 2)
    <3>1. CASE L = <<>>
      BY <1>7, <2>1, <2>3, <3>1
    <3>2. CASE L # <<>> /\ EndsData(p, s, n)
      BY <1>7, <2>1, <2>3, <3>2 DEF L, V
    <3>3. CASE L # <<>> /\ ~EndsData(p, s, n)
      BY <1>7, <2>1, <2>3, <3>3 DEF V
    <3> QED
      BY <3>1, <3>2, <3>3
  <2>6. decoded' = Events(q)
    BY <1>7, <2>1, <2>3 DEF V
  <2>7. skipNextLF' \in BOOLEAN /\ (skipNextLF' <=> q[n + 1] = "CR")
    BY <1>6, <1>10
  <2> QED
    BY <1>3, <1>5, <2>3, <2>4, <2>5, <2>6, <2>7
<1>11. CASE s \notin {"CR", "LF"} /\ line' = Append(line, s) /\ skipNextLF' = FALSE /\ UNCHANGED <<data, decoded>>
  <2>1. ~EndsBlank(p, s, n) /\ ~EndsData(p, s, n)
    BY <1>11 DEF EndsBlank, EndsData, EndsLine
  <2> QED
    BY <1>3, <1>4, <1>5, <1>6, <1>7, <1>11, <2>1
<1>12. ~skipNextLF /\ s = "LF" => EndsLine(p, s, n)
  BY <1>4, <1>1 DEF EndsLine
<1>13. s = "CR" => EndsLine(p, s, n)
  BY DEF EndsLine
<1> QED
  BY <1>8, <1>9, <1>10, <1>11, <1>12, <1>13

LEMMA DecoderNextInv == DecoderInv /\ [DecoderNext]_decoderVars => DecoderInv'
<1> SUFFICES ASSUME DecoderInv, [DecoderNext]_decoderVars PROVE DecoderInv'
  OBVIOUS
<1>1. CASE Arrive
  BY <1>1, ArriveInv
<1>2. CASE ReadByte
  BY <1>2, ReadByteInv
<1>3. CASE UNCHANGED decoderVars
  BY <1>3 DEF decoderVars, decoderState, DecoderInv, DecodesPrefix, Prefix
<1> QED
  BY <1>1, <1>2, <1>3 DEF DecoderNext, Blocked

\* What the decoder holds of a line, of an event and of a CR to be followed is
\* what the symbols read so far leave unfinished.
THEOREM DecoderInvariance == DecoderSpec => []DecoderInv
  BY DecoderInitInv, DecoderNextInv, PTL DEF DecoderSpec

\* For streams of any length, however they are cut into reads, and every mixture
\* of CR, LF and CRLF: the events of eventDecoder.Next are those of the text read.
THEOREM DecoderIsExact == DecoderSpec => []DecodesPrefix
  <1>1. DecoderInv => DecodesPrefix
    BY DEF DecoderInv
  <1> QED
    BY <1>1, DecoderInvariance, PTL

=============================================================================
