-------------------------- MODULE CompositionProofs --------------------------
(***************************************************************************)
(* Proofs about the two compositions of Probe, for every timeout and every *)
(* bound.  Outcomes: the class of the load generator, the class the        *)
(* summary counts and the JSONL record agree about a request, whatever the *)
(* parent context does between them.  MockServer: the faults it is         *)
(* configured with are what the probe reports.                             *)
(***************************************************************************)
EXTENDS Outcomes, MockServer, ProbeProofs

\* What the worker does to a request is a stutter of the request, so a
\* request that is classified behaves like any other.
THEOREM ClassifiedIsARequest == OutcomesSpec => Spec
  <1>1. OutcomesInit => Init
    BY DEF OutcomesInit
  <1>2. [OutcomesNext]_<<vars, outcomeVars>> => [Next]_vars
    BY DEF OutcomesNext, Classify, Process
  <1> QED
    BY <1>1, <1>2, PTL DEF OutcomesSpec, Spec

-----------------------------------------------------------------------------
(***************************************************************************)
(* What a finished request looks like.                                     *)
(***************************************************************************)

\* The status that has been seen, before Run returns.
StatusInv ==
  /\ pc # "done" => result.err = "none" /\ result.cause = "none"
  /\ pc = "waiting" => result.StatusCode = 0
  /\ pc = "errorBody" => result.StatusCode = 503
  /\ pc = "failed" => readErr \in {"canceled", "deadline", "network", "EOF"}

\* The error that Run returns tells which status there was and what may lie
\* under it: only sending and reading have a cause.
Finished(r) ==
  \/ r.err = "send" /\ r.StatusCode = 0
       /\ r.cause \in {"network", "netTimeout", "late", "canceled", "deadline"}
  \/ r.err = "status" /\ r.StatusCode = 503 /\ r.cause = "none"
  \/ r.err = "read" /\ r.StatusCode = 200 /\ r.cause \in {"canceled", "deadline", "network"}
  \/ r.err \in {"none", "contentType", "idle", "ended", "decode", "noContent"}
       /\ r.StatusCode = 200 /\ r.cause = "none"

FinishInv == StatusInv /\ (pc = "done" => Finished(result))

LEMMA FinishInit == Init => FinishInv
  BY DEF Init, FinishInv, StatusInv

\* Returning establishes it.
LEMMA ReturnFinishes ==
  ASSUME TypeOK, NEW err \in Errors, NEW cause \in Causes, NEW outcm \in Results,
         Return(err, cause, outcm),
         \/ err = "send" /\ outcm.StatusCode = 0
              /\ cause \in {"network", "netTimeout", "late", "canceled", "deadline"}
         \/ err = "status" /\ outcm.StatusCode = 503 /\ cause = "none"
         \/ err = "read" /\ outcm.StatusCode = 200
              /\ cause \in {"canceled", "deadline", "network"}
         \/ err \in {"none", "contentType", "idle", "ended", "decode", "noContent"}
              /\ outcm.StatusCode = 200 /\ cause = "none"
  PROVE  FinishInv'
  <1>1. /\ pc' = "done" /\ result'.err = err /\ result'.cause = cause
        /\ result'.StatusCode = outcm.StatusCode
    BY ReturnType
  <1>2. Finished(result)'
    BY <1>1 DEF Finished
  <1> QED
    BY <1>1, <1>2 DEF FinishInv, StatusInv

LEMMA FinishSendFails == ASSUME IInv, FinishInv, SendFails PROVE FinishInv'
  <1>1. PICK cause \in {"network", "netTimeout", "late"} \cup ({ctxErr} \ {"none"}) :
          Return("send", cause, result)
    BY DEF SendFails
  <1>2. cause \in {"network", "netTimeout", "late", "canceled", "deadline"}
    BY DEF IInv, TypeOK
  <1>3. cause \in Causes /\ "send" \in Errors
    BY <1>2 DEF Causes, Errors
  <1>4. TypeOK /\ result \in Results /\ result.StatusCode = 0
    BY DEF IInv, TypeOK, FinishInv, StatusInv, SendFails
  <1> QED
    BY <1>1, <1>2, <1>3, <1>4, ReturnFinishes

LEMMA FinishRespond == ASSUME IInv, FinishInv, Respond PROVE FinishInv'
  <1>1. PICK status \in {200, 503}, eventStream \in BOOLEAN :
          LET answered == Answered(result, status)
          IN \/ /\ status # 200
                /\ pc' = "errorBody" /\ result' = answered
                /\ UNCHANGED <<ctxErr, timerVars>>
             \/ /\ status = 200 /\ ~eventStream
                /\ Return("contentType", "none", answered)
                /\ UNCHANGED idleExpired
             \/ /\ status = 200 /\ eventStream
                /\ pc' = "read" /\ result' = answered
                /\ timer' = now + IdleTimeout
                /\ UNCHANGED <<ctxErr, fired, expiring, idleExpired>>
    BY DEF Respond
  <1>2. PICK answered : answered = Answered(result, status)
    OBVIOUS
  <1>3. /\ answered \in Results
        /\ answered.StatusCode = status
        /\ answered.cause = result.cause /\ answered.err = result.err
    <2>1. result \in Results /\ firstByte \in Durations
      BY DEF IInv, TypeOK
    <2> QED
      BY <1>2, <2>1, AnswerType
  <1>4. result.err = "none" /\ result.cause = "none"
    BY DEF FinishInv, StatusInv, Respond
  <1>5. CASE status = 200 /\ Return("contentType", "none", answered)
    <2>1. "contentType" \in Errors /\ "none" \in Causes /\ TypeOK
      BY DEF Errors, Causes, IInv
    <2> QED
      BY <1>3, <1>5, <2>1, ReturnFinishes
  <1>6. CASE status # 200 /\ pc' = "errorBody" /\ result' = answered
    BY <1>3, <1>4, <1>6 DEF FinishInv, StatusInv
  <1>7. CASE pc' = "read" /\ result' = answered
    BY <1>3, <1>4, <1>7 DEF FinishInv, StatusInv
  <1> QED
    BY <1>1, <1>2, <1>5, <1>6, <1>7

LEMMA FinishReadErrorBody == ASSUME IInv, FinishInv, ReadErrorBody PROVE FinishInv'
  <1>1. /\ TypeOK /\ result \in Results /\ result.StatusCode = 503
        /\ "status" \in Errors /\ "none" \in Causes
    BY DEF IInv, TypeOK, FinishInv, StatusInv, ReadErrorBody, Errors, Causes
  <1> QED
    BY <1>1, ReturnFinishes DEF ReadErrorBody

\* A stream that ended is an error of its own; only then has the error no cause.
LEMMA FinishFail == ASSUME IInv, FinishInv, Fail PROVE FinishInv'
  <1>1. /\ TypeOK /\ result \in Results /\ result.StatusCode = 200
        /\ readErr \in {"canceled", "deadline", "network", "EOF"}
    BY DEF IInv, TypeOK, ProgressInv, FinishInv, StatusInv, Fail
  <1>2. {"idle", "ended", "read"} \subseteq Errors /\ "none" \in Causes /\ readErr \in Causes
    BY <1>1 DEF Errors, Causes
  <1>3. CASE Return("idle", "none", result)
    BY <1>1, <1>2, <1>3, ReturnFinishes
  <1>4. CASE Return("ended", "none", result)
    BY <1>1, <1>2, <1>4, ReturnFinishes
  <1>5. CASE readErr # "EOF" /\ Return("read", readErr, result)
    BY <1>1, <1>2, <1>5, ReturnFinishes
  <1> QED
    BY <1>3, <1>4, <1>5 DEF Fail

LEMMA FinishProcess ==
  ASSUME IInv, FinishInv, ProcessDone \/ ProcessMalformed PROVE FinishInv'
  <1>1. /\ TypeOK /\ result \in Results /\ result.StatusCode = 200
        /\ {"none", "noContent", "decode"} \subseteq Errors /\ "none" \in Causes
    BY DEF IInv, TypeOK, ProgressInv, ProcessDone, ProcessMalformed, Errors, Causes
  <1>2. PICK err \in {"none", "noContent", "decode"} : Return(err, "none", result)
    BY DEF ProcessDone, ProcessMalformed
  <1> QED
    BY <1>1, <1>2, ReturnFinishes

\* A chunk changes neither the status nor the error.
LEMMA FinishChunk == ASSUME IInv, FinishInv, ProcessChunk PROVE FinishInv'
  <1> DEFINE usage == CASE event = "usage" -> "valid"
                        [] event = "badUsage" -> "invalid"
                        [] OTHER -> result.Usage
  <1> DEFINE noted == [result EXCEPT !.Usage = usage]
  <1>1. /\ result \in Results /\ now \in Nat /\ previous \in Durations
        /\ previous <= now
        /\ result.err = "none" /\ result.cause = "none" /\ result.StatusCode = 200
    BY DEF IInv, TypeOK, ClockInv, ProgressInv, FinishInv, StatusInv, ProcessChunk
  <1>2. usage \in {"none", "valid", "invalid"}
    BY <1>1 DEF Results
  <1>3. noted \in Results /\ noted.err = "none" /\ noted.cause = "none"
    <2> HIDE DEF usage
    <2>1. noted = [StatusCode |-> result.StatusCode, TTFB |-> result.TTFB,
                   TTFT |-> result.TTFT, ChunkITL |-> result.ChunkITL,
                   ContentEvents |-> result.ContentEvents, Usage |-> usage,
                   Duration |-> result.Duration, err |-> result.err, cause |-> result.cause]
      BY <1>1 DEF Results
    <2> QED
      BY <1>1, <1>2, <2>1 DEF Results
  <1>4. result' = Chunk(noted)
    BY DEF ProcessChunk
  <1> HIDE DEF noted
  <1>5. Chunk(noted).err = noted.err /\ Chunk(noted).cause = noted.cause
    BY <1>1, <1>3, ChunkType
  <1> QED
    BY <1>3, <1>4, <1>5 DEF FinishInv, StatusInv, ProcessChunk

LEMMA FinishStepInv == IInv /\ FinishInv /\ [Next]_vars => FinishInv'
  <1> SUFFICES ASSUME IInv, FinishInv, [Next]_vars PROVE FinishInv'
    OBVIOUS
  <1>1. CASE UNCHANGED vars
    BY <1>1 DEF FinishInv, StatusInv, Finished, vars, runVars
  <1>2. CASE UNCHANGED runVars
    BY <1>2 DEF FinishInv, StatusInv, Finished, runVars
  <1>3. CASE ReadEvent
    BY <1>3 DEF FinishInv, StatusInv, ReadEvent
  <1>4. CASE ReadFails
    BY <1>4 DEF FinishInv, StatusInv, ReadFails, IInv, TypeOK
  <1>5. CASE Run
    BY <1>3, <1>4, <1>5, FinishSendFails, FinishRespond, FinishReadErrorBody, FinishFail,
       FinishProcess, FinishChunk DEF Run
  <1>6. CASE Next /\ ~Run
    BY <1>1, <1>2, <1>6 DEF Next, Tick, CancelParent, TotalTimeout, IdleFires, Callback,
       IdleSignals, IdleCancels, Server, FirstByte, SendEvent, EndStream, Terminated
  <1> QED
    BY <1>1, <1>5, <1>6

\* A finished request stays as it is; only its contexts go on.
LEMMA DoneStays ==
  ASSUME pc = "done", [Next]_vars
  PROVE  /\ pc' = "done" /\ result' = result /\ tokens' = tokens
         /\ parentDone => parentDone'
  BY DEF Next, Tick, CancelParent, TotalTimeout, IdleFires, Callback, IdleSignals,
     IdleCancels, Server, FirstByte, SendEvent, EndStream, Terminated, Run, SendFails, Respond,
     ReadErrorBody, ReadEvent, ReadFails, Fail, ProcessDone, ProcessMalformed, ProcessChunk,
     vars, envVars, timerVars, runVars

-----------------------------------------------------------------------------
(***************************************************************************)
(* What the worker and the command remember of it.                         *)
(***************************************************************************)
OutcomeClasses == {"none", "usage", "cancelled", "timeout", "http", "stream"}

\* The class of a finished request, if the worker saw the parent done or not.
ClassFor(r, cancelled) ==
  CASE r.cause = "late" -> "none"
    [] r.cause # "late" /\ r.err # "none" ->
         (CASE cancelled -> "cancelled"
            [] ~cancelled /\ (r.cause \in {"deadline", "netTimeout"} \/ r.err = "idle") -> "timeout"
            [] ~cancelled /\ r.cause \notin {"deadline", "netTimeout"} /\ r.err # "idle"
                 -> IF r.err = "status" \/ r.StatusCode \notin {0, 200} THEN "http" ELSE "stream")
    [] r.err = "none" -> IF r.Usage = "invalid" THEN "usage" ELSE "none"

\* Only a context can cancel, and a deadline only once the parent was done.
Classified ==
  /\ pc = "done"
  /\ outcome \in [Dropped : BOOLEAN, Cancelled : BOOLEAN, ErrorClass : OutcomeClasses]
  /\ outcome.ErrorClass = ClassFor(result, outcome.Cancelled)
  /\ result.cause = "late" => outcome.Dropped
  /\ outcome.Cancelled => result.cause \in {"canceled", "deadline"} /\ parentDone
  /\ result.cause = "canceled" => outcome.Cancelled

\* The summary counts the class of the rebuilt error, unless it refuses a
\* success; the record, if there is one, has the class too.
Recorded ==
  LET class == ClassifyOutcome(requestError)
  IN /\ counted \in {class} \cup (IF class = "success" THEN {"refused"} ELSE {})
     /\ counted = "success" => result.Usage # "invalid"
     /\ \/ record = NoRecord
        \/ record = [Outcome |-> class, StatusCode |-> result.StatusCode, Usage |-> result.Usage]

OutcomeInv ==
  /\ outcome # NoOutcome => Classified
  /\ counted = "pending" => record = NoRecord
  /\ counted # "pending" => /\ outcome # NoOutcome
                            /\ IF outcome.Dropped THEN counted = "dropped" /\ record = NoRecord
                                                  ELSE Recorded

OInv == IInv /\ FinishInv /\ OutcomeInv

LEMMA OutcomesInitInv == OutcomesInit => OInv
  <1>1. OutcomesInit => IInv /\ FinishInv
    BY InitInv, FinishInit DEF OutcomesInit
  <1>2. OutcomesInit => OutcomeInv
    BY DEF OutcomesInit, OutcomeInv
  <1> QED
    BY <1>1, <1>2 DEF OInv

\* The worker classifies a finished request, and once.
LEMMA ClassifyStep == ASSUME OInv, Classify PROVE OutcomeInv'
  <1>1. /\ pc = "done" /\ outcome = NoOutcome /\ Finished(result) /\ result \in Results
        /\ parentDone \in BOOLEAN /\ (result.cause = "canceled" => parentDone)
    BY DEF OInv, IInv, TypeOK, CancelInv, IdleIsNotCancellation, FinishInv, Classify
  <1>2. UNCHANGED <<vars, counted, record>>
    BY DEF Classify
  <1>3. counted = "pending" /\ record = NoRecord
    BY <1>1 DEF OInv, OutcomeInv
  <1>4. PICK lateStamp \in {FALSE, LateStamp} :
          outcome' = [Dropped    |-> lateStamp \/ result.cause = "late",
                      Cancelled  |-> result.cause # "late" /\ result.err # "none" /\ IsCancelled,
                      ErrorClass |-> ErrorClass]
    BY DEF Classify
  <1> DEFINE dropped == lateStamp \/ result.cause = "late"
  <1> DEFINE cancelled == result.cause # "late" /\ result.err # "none" /\ IsCancelled
  <1> DEFINE class == ErrorClass
  <1>5. dropped \in BOOLEAN /\ cancelled \in BOOLEAN
    BY DEF LateStamp, IsCancelled
  <1>6. result.cause = "late" => dropped
    OBVIOUS
  <1>7. cancelled => result.cause \in {"canceled", "deadline"} /\ parentDone
    BY <1>1 DEF IsCancelled
  <1>8. result.cause = "canceled" => cancelled
    BY <1>1 DEF IsCancelled, Finished
  <1>9. class = ClassFor(result, cancelled) /\ class \in OutcomeClasses
    <2>1. CASE result.cause = "late"
      BY <2>1 DEF ErrorClass, ClassFor, OutcomeClasses
    <2>2. CASE result.cause # "late" /\ result.err # "none"
      <3>1. class = classifyError(IsCancelled) /\ (cancelled <=> IsCancelled)
        BY <2>2 DEF ErrorClass
      <3>2. CASE IsCancelled
        BY <2>2, <3>1, <3>2 DEF classifyError, ClassFor, OutcomeClasses
      <3>3. CASE ~IsCancelled
        BY <2>2, <3>1, <3>3 DEF classifyError, ClassFor, OutcomeClasses
      <3> QED
        BY <3>2, <3>3
    <2>3. CASE result.cause # "late" /\ result.err = "none"
      BY <2>3 DEF ErrorClass, ClassFor, OutcomeClasses
    <2> QED
      BY <2>1, <2>2, <2>3
  <1>10. outcome' = [Dropped |-> dropped, Cancelled |-> cancelled, ErrorClass |-> class]
    BY <1>4
  <1> HIDE DEF dropped, cancelled, class
  <1>11. /\ outcome' \in [Dropped : BOOLEAN, Cancelled : BOOLEAN, ErrorClass : OutcomeClasses]
         /\ outcome'.Dropped = dropped /\ outcome'.Cancelled = cancelled
         /\ outcome'.ErrorClass = class
    BY <1>5, <1>9, <1>10
  <1>12. pc' = "done" /\ result' = result /\ parentDone' = parentDone
    BY <1>1, <1>2 DEF vars, envVars, runVars
  <1>13. Classified'
    <2>1. outcome'.ErrorClass = ClassFor(result, outcome'.Cancelled)
      BY <1>9, <1>11
    <2>2. (outcome.ErrorClass = ClassFor(result, outcome.Cancelled))'
      BY <1>12, <2>1 DEF ClassFor
    <2>3. /\ (result.cause = "late" => outcome.Dropped)'
          /\ (outcome.Cancelled => result.cause \in {"canceled", "deadline"} /\ parentDone)'
          /\ (result.cause = "canceled" => outcome.Cancelled)'
      BY <1>6, <1>7, <1>8, <1>11, <1>12
    <2> QED
      BY <1>11, <1>12, <2>2, <2>3 DEF Classified
  <1> QED
    BY <1>2, <1>3, <1>13 DEF OutcomeInv, NoRecord

\* The command counts and records a classified request, and once.
LEMMA ProcessStep == ASSUME OInv, Process PROVE OutcomeInv'
  <1>1. /\ outcome # NoOutcome /\ counted = "pending" /\ UNCHANGED <<vars, outcome>>
        /\ Classified
    BY DEF Process, OInv, OutcomeInv
  <1>2. pc' = pc /\ result' = result /\ parentDone' = parentDone
    BY <1>1 DEF vars, envVars, runVars
  <1>3. Classified'
    BY <1>1, <1>2 DEF Classified, ClassFor
  <1>4. (outcome # NoOutcome)'
    BY <1>1 DEF NoOutcome
  <1>5. CASE outcome.Dropped
    <2>1. counted' = "dropped" /\ record' = NoRecord
      BY <1>5 DEF Process
    <2> QED
      BY <1>1, <1>3, <1>4, <1>5, <2>1 DEF OutcomeInv, NoRecord
  <1>6. CASE ~outcome.Dropped
    <2> DEFINE class == ClassifyOutcome(requestError)
    <2> DEFINE acceptable == class # "success" \/ (DurationsInRange /\ result.Usage # "invalid")
    <2> DEFINE outOfRange == class = "success" /\ result.Usage = "valid"
    <2>1. counted' \in (IF acceptable THEN {class} ELSE {"refused"})
                       \cup (IF outOfRange THEN {"refused"} ELSE {})
      BY <1>6 DEF Process, Record
    <2>2. record' = IF DurationsInRange
                      THEN [Outcome |-> class, StatusCode |-> result.StatusCode,
                            Usage |-> result.Usage]
                      ELSE NoRecord
      BY <1>6 DEF Process, WriteResult
    <2>3. ClassifyOutcome(requestError)' = class
      BY <1>1, <1>2 DEF ClassifyOutcome, requestError
    <2>4. class \in {"success", "http_error", "timeout", "canceled", "stream_error"}
      BY DEF ClassifyOutcome
    <2> HIDE DEF class
    <2>5. counted' \in {class} \cup (IF class = "success" THEN {"refused"} ELSE {})
      BY <2>1
    <2>6. counted' = "success" => result.Usage # "invalid"
      BY <2>1, <2>4
    <2>7. Recorded'
      BY <1>2, <2>2, <2>3, <2>5, <2>6 DEF Recorded, NoRecord
    <2>8. counted' # "pending"
      BY <2>4, <2>5
    <2>9. ~outcome'.Dropped
      BY <1>1, <1>6
    <2> QED
      BY <1>3, <1>4, <2>7, <2>8, <2>9 DEF OutcomeInv
  <1> QED
    BY <1>5, <1>6

\* The parent may be cancelled after the worker has looked.
LEMMA RequestStep == ASSUME OInv, [Next]_vars, UNCHANGED outcomeVars PROVE OutcomeInv'
  <1>1. UNCHANGED <<outcome, counted, record>>
    BY DEF outcomeVars
  <1>2. CASE outcome = NoOutcome
    <2>1. counted = "pending" /\ record = NoRecord
      BY <1>2 DEF OInv, OutcomeInv
    <2>2. outcome' = NoOutcome /\ NoOutcome' = NoOutcome /\ NoRecord' = NoRecord
      BY <1>1, <1>2 DEF NoOutcome, NoRecord
    <2> QED
      BY <1>1, <2>1, <2>2 DEF OutcomeInv
  <1>3. CASE outcome # NoOutcome
    <2>1. Classified
      BY <1>3 DEF OInv, OutcomeInv
    <2>2. pc' = "done" /\ result' = result /\ (parentDone => parentDone')
      BY <2>1, DoneStays DEF Classified
    <2>3. Classified'
      BY <1>1, <2>1, <2>2 DEF Classified, ClassFor
    <2>4. ClassifyOutcome(requestError)' = ClassifyOutcome(requestError)
      BY <1>1, <2>2 DEF ClassifyOutcome, requestError
    <2>5. Recorded => Recorded'
      BY <1>1, <2>2, <2>4 DEF Recorded, NoRecord
    <2>6. NoOutcome' = NoOutcome /\ NoRecord' = NoRecord
      BY DEF NoOutcome, NoRecord
    <2> QED
      BY <1>1, <1>3, <2>3, <2>5, <2>6 DEF OInv, OutcomeInv
  <1> QED
    BY <1>2, <1>3

LEMMA OutcomesStepInv == OInv /\ [OutcomesNext]_<<vars, outcomeVars>> => OInv'
  <1> SUFFICES ASSUME OInv, [OutcomesNext]_<<vars, outcomeVars>> PROVE OInv'
    OBVIOUS
  <1>1. [Next]_vars
    BY DEF OutcomesNext, Classify, Process
  <1>2. IInv' /\ FinishInv'
    BY <1>1, StepInv, FinishStepInv DEF OInv
  <1>3. OutcomeInv'
    BY <1>1, ClassifyStep, ProcessStep, RequestStep DEF OutcomesNext
  <1> QED
    BY <1>2, <1>3 DEF OInv

-----------------------------------------------------------------------------
(***************************************************************************)
(* Theorems.                                                               *)
(***************************************************************************)

\* The invariant holds throughout.
THEOREM OutcomesInvariance == OutcomesSpec => []OInv
  BY OutcomesInitInv, OutcomesStepInv, PTL DEF OutcomesSpec

\* What is known of a request that was counted, and neither dropped nor refused.
LEMMA Counted ==
  ASSUME OInv, counted \notin {"pending", "dropped", "refused"}
  PROVE  /\ Classified /\ ~outcome.Dropped /\ Recorded
         /\ Finished(result) /\ result.cause # "late"
         /\ counted = ClassifyOutcome(requestError)
  <1>1. outcome # NoOutcome /\ Classified /\ ~outcome.Dropped /\ Recorded
    BY DEF OInv, OutcomeInv
  <1>2. Finished(result)
    BY <1>1 DEF OInv, FinishInv, Classified
  <1>3. counted = ClassifyOutcome(requestError)
    BY <1>1 DEF Recorded
  <1> QED
    BY <1>1, <1>2, <1>3 DEF Classified

\* The summary's class of a request follows from the load generator's, and
\* back: the rebuilt error and the status lose nothing.
LEMMA ClassFollows ==
  ASSUME Classified, Finished(result), ~outcome.Dropped
  PROVE  ClassifyOutcome(requestError) =
           CASE outcome.ErrorClass = "none" -> "success"
             [] outcome.ErrorClass = "cancelled" -> "canceled"
             [] outcome.ErrorClass = "timeout" -> "timeout"
             [] outcome.ErrorClass = "http" -> "http_error"
             [] OTHER -> "stream_error"
  <1>1. result.cause # "late"
    BY DEF Classified
  <1>2. CASE outcome.Cancelled
    <2>1. result.err \in {"send", "read"} /\ result.StatusCode \in {0, 200}
      BY <1>2 DEF Classified, Finished
    <2>2. outcome.ErrorClass = "cancelled"
      BY <1>1, <1>2, <2>1 DEF Classified, ClassFor
    <2>3. requestError = "canceled"
      BY <1>2 DEF requestError
    <2> QED
      BY <2>1, <2>2, <2>3 DEF ClassifyOutcome
  <1>3. CASE ~outcome.Cancelled
    <2>1. result.cause # "canceled"
      BY <1>3 DEF Classified
    <2>2. outcome.ErrorClass =
            IF result.err = "none" THEN IF result.Usage = "invalid" THEN "usage" ELSE "none"
            ELSE IF result.cause \in {"deadline", "netTimeout"} \/ result.err = "idle" THEN "timeout"
            ELSE IF result.err = "status" \/ result.StatusCode \notin {0, 200} THEN "http"
            ELSE "stream"
      BY <1>1, <1>3 DEF Classified, ClassFor
    <2>3. requestError = CASE outcome.ErrorClass = "none" -> "none"
                           [] outcome.ErrorClass = "timeout" -> "deadline"
                           [] outcome.ErrorClass = "http" -> "status"
                           [] OTHER -> "other"
      BY <1>3 DEF requestError
    <2>4. CASE result.err = "none"
      BY <2>2, <2>3, <2>4 DEF Finished, ClassifyOutcome
    <2>5. CASE result.err = "send"
      BY <2>2, <2>3, <2>5 DEF Finished, ClassifyOutcome
    <2>6. CASE result.err = "status"
      BY <2>2, <2>3, <2>6 DEF Finished, ClassifyOutcome
    <2>7. CASE result.err = "read"
      BY <2>2, <2>3, <2>7 DEF Finished, ClassifyOutcome
    <2>8. CASE result.err \in {"contentType", "idle", "ended", "decode", "noContent"}
      BY <2>2, <2>3, <2>8 DEF Finished, ClassifyOutcome
    <2> QED
      BY <2>4, <2>5, <2>6, <2>7, <2>8 DEF Finished
  <1> QED
    BY <1>2, <1>3

\* The load generator and the summary agree about every request that is
\* counted, for any timeouts, any stream and any histogram, whenever the run
\* is interrupted.
THEOREM OneClass == OutcomesSpec => []ClassesAgree
  <1>1. OInv => ClassesAgree
    <2> SUFFICES ASSUME OInv, Processed, counted \notin {"dropped", "refused"}
                 PROVE  /\ counted = CASE outcome.ErrorClass = "none" -> "success"
                                       [] outcome.ErrorClass = "cancelled" -> "canceled"
                                       [] outcome.ErrorClass = "timeout" -> "timeout"
                                       [] outcome.ErrorClass = "http" -> "http_error"
                                       [] OTHER -> "stream_error"
                        /\ counted = "success" =>
                             result.err = "none" /\ tokens > 0 /\ result.Usage # "invalid"
      BY DEF ClassesAgree
    <2>1. /\ Classified /\ ~outcome.Dropped /\ Recorded
          /\ Finished(result) /\ result.cause # "late"
          /\ counted = ClassifyOutcome(requestError)
      BY Counted DEF Processed
    <2>2. counted = CASE outcome.ErrorClass = "none" -> "success"
                      [] outcome.ErrorClass = "cancelled" -> "canceled"
                      [] outcome.ErrorClass = "timeout" -> "timeout"
                      [] outcome.ErrorClass = "http" -> "http_error"
                      [] OTHER -> "stream_error"
      BY <2>1, ClassFollows
    <2>3. ASSUME counted = "success"
          PROVE  result.err = "none" /\ tokens > 0 /\ result.Usage # "invalid"
      <3>1. outcome.ErrorClass = "none"
        BY <2>2, <2>3
      <3>2. result.err = "none"
        BY <2>1, <3>1 DEF Classified, ClassFor
      <3>3. tokens > 0
        BY <2>1, <3>2 DEF OInv, IInv, ProgressInv, SuccessIsComplete, Classified
      <3> QED
        BY <2>1, <2>3, <3>2, <3>3 DEF Recorded
    <2> QED
      BY <2>2, <2>3
  <1> QED
    BY OutcomesInvariance, <1>1, PTL

\* A stall and a deadline are charged to the target, and only an interrupted
\* run has cancelled requests.
THEOREM FaultsCharged == OutcomesSpec => []FaultsAttributed
  <1>1. OInv => FaultsAttributed
    <2> SUFFICES ASSUME OInv, Processed, counted # "dropped"
                 PROVE  /\ result.err = "idle" => counted = "timeout"
                        /\ result.cause = "deadline" /\ ~parentDone => counted = "timeout"
                        /\ counted = "canceled" => parentDone
      BY DEF FaultsAttributed
    <2>1. outcome # NoOutcome /\ Classified /\ ~outcome.Dropped /\ Recorded
      BY DEF OInv, OutcomeInv, Processed
    <2>2. Finished(result) /\ result.cause # "late"
      BY <2>1 DEF OInv, FinishInv, Classified
    <2> DEFINE class == ClassifyOutcome(requestError)
    <2>3. class = CASE outcome.ErrorClass = "none" -> "success"
                    [] outcome.ErrorClass = "cancelled" -> "canceled"
                    [] outcome.ErrorClass = "timeout" -> "timeout"
                    [] outcome.ErrorClass = "http" -> "http_error"
                    [] OTHER -> "stream_error"
      BY <2>1, <2>2, ClassFollows
    <2>4. class # "success" => counted = class
      BY <2>1 DEF Recorded
    <2>5. counted \in {class, "refused"}
      BY <2>1 DEF Recorded
    <2> HIDE DEF class
    <2>6. result.err = "idle" => counted = "timeout"
      <3>1. result.err = "idle" => outcome.ErrorClass = "timeout"
        BY <2>1, <2>2 DEF Classified, ClassFor, Finished
      <3> QED
        BY <2>3, <2>4, <3>1
    <2>7. result.cause = "deadline" /\ ~parentDone => counted = "timeout"
      <3>1. result.cause = "deadline" /\ ~parentDone => outcome.ErrorClass = "timeout"
        BY <2>1, <2>2 DEF Classified, ClassFor, Finished
      <3> QED
        BY <2>3, <2>4, <3>1
    <2>8. counted = "canceled" => parentDone
      <3>1. counted = "canceled" => outcome.ErrorClass = "cancelled"
        BY <2>3, <2>5
      <3>2. outcome.ErrorClass = "cancelled" => outcome.Cancelled
        BY <2>1 DEF Classified, ClassFor
      <3> QED
        BY <2>1, <3>1, <3>2 DEF Classified
    <2> QED
      BY <2>6, <2>7, <2>8
  <1> QED
    BY OutcomesInvariance, <1>1, PTL

\* report reads every record that ramp has written, but one with the negative
\* usage of a server.
THEOREM RecordsAccepted == OutcomesSpec => []RecordsReadable
  <1>1. OInv => RecordsReadable
    <2> SUFFICES ASSUME OInv, record # NoRecord, result.Usage # "invalid"
                 PROVE  validateRequestRecord(record)
      BY DEF RecordsReadable
    <2>1. /\ Classified /\ ~outcome.Dropped /\ Recorded
      BY DEF OInv, OutcomeInv
    <2>2. Finished(result)
      BY <2>1 DEF OInv, FinishInv, Classified
    <2> DEFINE class == ClassifyOutcome(requestError)
    <2>3. record = [Outcome |-> class, StatusCode |-> result.StatusCode, Usage |-> result.Usage]
      BY <2>1 DEF Recorded
    <2>4. /\ class \in {"success", "http_error", "timeout", "canceled", "stream_error"}
          /\ class = "success" => result.StatusCode = 200
          /\ class = "http_error" => result.StatusCode \notin {0, 200}
          /\ class \in {"canceled", "timeout", "stream_error"} => result.StatusCode \in {0, 200}
      BY DEF ClassifyOutcome
    <2> HIDE DEF class
    <2> QED
      BY <2>3, <2>4 DEF validateRequestRecord, validateUsage
  <1> QED
    BY OutcomesInvariance, <1>1, PTL

-----------------------------------------------------------------------------
(***************************************************************************)
(* The mock server: its script, and how far Run is with what it wrote.     *)
(***************************************************************************)
\* The fault is the configured one, and this request has it.
Strikes(kind) == applyFault /\ fault = kind

\* Types of the configuration and the handler.
ScriptTypes ==
  /\ fault \in Faults
  /\ faultAfter \in IF fault \in {"none", "http-error"} THEN {0} ELSE 1..ChunkCount
  /\ requestNumber \in Nat
  /\ handler \in {"idle", "first", "gap", "stall", "content", "usage", "returned"}
  /\ chunk \in 1..ChunkCount
  /\ serverCtx \in BOOLEAN

\* How far the handler is in its script: a fault that cuts it short lies ahead.
ScriptInv ==
  /\ handler \notin {"idle", "returned"} => ~Strikes("http-error")
  /\ handler = "first" => chunk = 1
  /\ handler \in {"first", "content"} /\ (Strikes("malformed") \/ Strikes("disconnect")) => chunk <= faultAfter
  /\ handler = "gap" => chunk < ChunkCount
  /\ handler = "gap" /\ (Strikes("malformed") \/ Strikes("disconnect")) => chunk < faultAfter
  /\ handler = "stall" => fault = "stall"
  /\ handler = "usage" => chunk = ChunkCount /\ ~Strikes("malformed") /\ ~Strikes("disconnect")
  /\ serve \in {"shutdown", "closed", "expired"} => serverCtx

\* How far Run is with the response.
AnswerInv ==
  /\ handler = "idle" => /\ pc \in {"waiting", "done"} /\ firstByte = Unset
                         /\ wire = <<>> /\ chunk = 1 /\ stream = "open"
  /\ pc = "waiting" => result.ContentEvents = 0
  /\ pc = "errorBody" => Strikes("http-error")
  /\ pc \in {"read", "process", "failed"} => ~Strikes("http-error")
  /\ pc = "failed" /\ readErr = "EOF" =>
       serverCtx \/ (Strikes("disconnect") /\ result.ContentEvents = faultAfter)

\* The events that Run has still to process, the one in its hands included.
Ahead == IF pc = "process" THEN <<event>> \o wire ELSE wire

Tails == {<<>>, <<"malformed">>, <<"usage", "done">>, <<"done">>}

\* The comment, k contents, and what ends the script.
Arranged(s, o, k, tail) ==
  /\ Len(s) = o + k + Len(tail)
  /\ \A i \in 1..o : s[i] = "other"
  /\ \A i \in o+1..o+k : s[i] = "content"
  /\ \A i \in 1..Len(tail) : s[o + k + i] = tail[i]

\* The contents a running handler has written.
Sent == CASE handler \in {"idle", "first"} -> 0
          [] handler = "content" -> chunk - 1
          [] OTHER -> chunk

\* With k contents and this tail ahead of Run: the handler is still writing;
\* or it has refused, come to the end of its script, written the malformed
\* event, disconnected, or been interrupted.
Reached(k, tail) ==
  \/ handler # "returned" /\ tail = <<>> /\ result.ContentEvents + k = Sent /\ stream = "open"
  \/ handler = "returned" /\ Strikes("http-error")
  \/ /\ handler = "returned" /\ tail \in {<<"usage", "done">>, <<"done">>}
     /\ tail = <<"done">> => result.Usage = "valid"
     /\ result.ContentEvents + k = ChunkCount
     /\ ~Strikes("malformed") /\ ~Strikes("disconnect")
  \/ /\ handler = "returned" /\ tail = <<"malformed">> /\ Strikes("malformed")
     /\ result.ContentEvents + k = faultAfter
  \/ /\ handler = "returned" /\ tail = <<>> /\ Strikes("disconnect")
     /\ result.ContentEvents + k = faultAfter
  \/ handler = "returned" /\ tail = <<>> /\ (serverCtx \/ stream # "ended")

\* Until Run returns, what is ahead of it and what it has counted make up what
\* the handler has written.
FlowInv ==
  pc # "done" => \E o \in 0..1, k \in Nat, tail \in Tails : Arranged(Ahead, o, k, tail) /\ Reached(k, tail)

-----------------------------------------------------------------------------
\* What the handler appends to what lies ahead.
LEMMA ArrangedGrows ==
  ASSUME NEW s \in Seq(EventKinds), NEW o \in 0..1, NEW k \in Nat, Arranged(s, o, k, <<>>)
  PROVE  /\ Arranged(s \o <<>>, o, k, <<>>)
         /\ Arranged(s \o <<"content">>, o, k + 1, <<>>)
         /\ Arranged(s \o <<"content", "malformed">>, o, k + 1, <<"malformed">>)
         /\ Arranged(s \o <<"usage", "done">>, o, k, <<"usage", "done">>)
<1>1. Len(s) = o + k /\ (\A i \in 1..o : s[i] = "other") /\ (\A i \in o+1..o+k : s[i] = "content")
  BY DEF Arranged
<1>2. ASSUME NEW e, NEW f PROVE
         /\ Len(s \o <<>>) = Len(s) /\ \A i \in 1..Len(s) : (s \o <<>>)[i] = s[i]
         /\ Len(s \o <<e>>) = Len(s) + 1 /\ (s \o <<e>>)[Len(s) + 1] = e
         /\ \A i \in 1..Len(s) : (s \o <<e>>)[i] = s[i]
         /\ Len(s \o <<e, f>>) = Len(s) + 2 /\ (s \o <<e, f>>)[Len(s) + 1] = e
         /\ (s \o <<e, f>>)[Len(s) + 2] = f
         /\ \A i \in 1..Len(s) : (s \o <<e, f>>)[i] = s[i]
  OBVIOUS
<1>3. Arranged(s \o <<>>, o, k, <<>>)
  BY <1>1, <1>2 DEF Arranged
<1>4. Arranged(s \o <<"content">>, o, k + 1, <<>>)
  <2> DEFINE t == s \o <<"content">>
  <2>1. Len(t) = o + k + 1 /\ t[o + k + 1] = "content" /\ \A i \in 1..o + k : t[i] = s[i]
    BY <1>1, <1>2
  <2> HIDE DEF t
  <2> QED
    BY <1>1, <2>1 DEF Arranged
<1>5. Arranged(s \o <<"content", "malformed">>, o, k + 1, <<"malformed">>)
  <2> DEFINE t == s \o <<"content", "malformed">>
  <2>1. /\ Len(t) = o + k + 2 /\ t[o + k + 1] = "content" /\ t[o + k + 2] = "malformed"
        /\ \A i \in 1..o + k : t[i] = s[i]
    BY <1>1, <1>2
  <2> HIDE DEF t
  <2> QED
    BY <1>1, <2>1 DEF Arranged
<1>6. Arranged(s \o <<"usage", "done">>, o, k, <<"usage", "done">>)
  <2> DEFINE t == s \o <<"usage", "done">>
  <2>1. /\ Len(t) = o + k + 2 /\ t[o + k + 1] = "usage" /\ t[o + k + 2] = "done"
        /\ \A i \in 1..o + k : t[i] = s[i]
    BY <1>1, <1>2
  <2> HIDE DEF t
  <2> QED
    BY <1>1, <2>1 DEF Arranged
<1> QED
  BY <1>3, <1>4, <1>5, <1>6

\* What Run takes from it.
LEMMA ArrangedHead ==
  ASSUME NEW e, NEW s \in Seq(EventKinds), NEW o \in 0..1, NEW k \in Nat, NEW tail \in Tails,
         Arranged(<<e>> \o s, o, k, tail)
  PROVE  \/ o = 1 /\ e = "other" /\ Arranged(s, 0, k, tail)
         \/ o = 0 /\ k > 0 /\ e = "content" /\ Arranged(s, 0, k - 1, tail)
         \/ o = 0 /\ k = 0 /\ tail = <<"malformed">> /\ e = "malformed"
         \/ o = 0 /\ k = 0 /\ tail = <<"usage", "done">> /\ e = "usage" /\ Arranged(s, 0, 0, <<"done">>)
         \/ o = 0 /\ k = 0 /\ tail = <<"done">> /\ e = "done"
<1> DEFINE t == <<e>> \o s
<1>1. Len(t) = Len(s) + 1 /\ t[1] = e /\ Len(s) \in Nat /\ \A i \in 1..Len(s) : t[i + 1] = s[i]
  OBVIOUS
<1>2. /\ Len(t) = o + k + Len(tail)
      /\ \A i \in 1..o : t[i] = "other"
      /\ \A i \in o+1..o+k : t[i] = "content"
      /\ \A i \in 1..Len(tail) : t[o + k + i] = tail[i]
  BY DEF Arranged
<1> HIDE DEF t
<1>3. Len(tail) \in Nat
  BY DEF Tails
<1>4. Len(s) \in Nat /\ Len(tail) \in Nat /\ Len(s) + 1 = o + k + Len(tail) /\ o \in Int /\ k \in Int
  BY <1>1, <1>2, <1>3
<1>5. CASE o = 1
  <2>1. Len(s) = k + Len(tail) /\ e = "other"
    BY <1>1, <1>2, <1>3, <1>5
  <2>2. \A i \in 1..k : s[i] = "content"
    <3> TAKE i \in 1..k
    <3>1. i \in 1..Len(s) /\ i + 1 \in o+1..o+k
      BY <1>3, <1>5, <2>1
    <3> QED
      BY <1>1, <1>2, <3>1
  <2>3. \A i \in 1..Len(tail) : s[k + i] = tail[i]
    <3> TAKE i \in 1..Len(tail)
    <3>1. k + i \in 1..Len(s) /\ (k + i) + 1 = o + k + i
      BY <1>3, <1>5, <2>1
    <3>2. t[(k + i) + 1] = s[k + i]
      BY <1>1, <3>1
    <3> QED
      BY <1>2, <3>1, <3>2
  <2> QED
    BY <1>5, <2>1, <2>2, <2>3 DEF Arranged
<1>6. CASE o = 0 /\ k > 0
  <2>1. Len(s) = (k - 1) + Len(tail)
    BY ONLY <1>4, <1>6
  <2>2. e = "content"
    <3>1. 1 \in o+1..o+k
      BY <1>6
    <3> QED
      BY <1>1, <1>2, <3>1
  <2>3. \A i \in 1..k - 1 : s[i] = "content"
    <3> TAKE i \in 1..k - 1
    <3>1. i \in 1..Len(s) /\ i + 1 \in o+1..o+k
      BY <1>3, <1>6, <2>1
    <3> QED
      BY <1>1, <1>2, <3>1
  <2>4. \A i \in 1..Len(tail) : s[(k - 1) + i] = tail[i]
    <3> TAKE i \in 1..Len(tail)
    <3>1. (k - 1) + i \in 1..Len(s) /\ ((k - 1) + i) + 1 = o + k + i
      BY <1>3, <1>6, <2>1
    <3>2. t[((k - 1) + i) + 1] = s[(k - 1) + i]
      BY <1>1, <3>1
    <3> QED
      BY <1>2, <3>1, <3>2
  <2> QED
    BY <1>6, <2>1, <2>2, <2>3, <2>4 DEF Arranged
<1>7. CASE o = 0 /\ k = 0
  <2>1. Len(t) = Len(tail) /\ \A i \in 1..Len(tail) : t[i] = tail[i]
    BY <1>2, <1>3, <1>7
  <2>2. tail # <<>>
    BY <1>1, <2>1
  <2>3. CASE tail = <<"malformed">>
    BY <1>1, <1>7, <2>1, <2>3
  <2>4. CASE tail = <<"done">>
    BY <1>1, <1>7, <2>1, <2>4
  <2>5. CASE tail = <<"usage", "done">>
    <3>1. Len(t) = 2 /\ t[1] = "usage" /\ t[2] = "done"
      BY <2>1, <2>5
    <3>2. Len(s) = 1 /\ t[1 + 1] = s[1]
      <4>1. Len(s) = 1
        <5>1. PICK n \in Nat : n = Len(s)
          BY <1>1
        <5>2. n + 1 = 2
          BY <1>1, <3>1, <5>1
        <5> QED
          BY <5>1, <5>2
      <4>2. 1 \in 1..Len(s)
        BY <4>1
      <4> QED
        BY <1>1, <4>1, <4>2
    <3>3. s[1] = "done" /\ e = "usage"
      BY <1>1, <3>1, <3>2
    <3>4. Arranged(s, 0, 0, <<"done">>)
      BY <3>2, <3>3 DEF Arranged
    <3> QED
      BY <1>7, <2>5, <3>3, <3>4
  <2> QED
    BY <2>2, <2>3, <2>4, <2>5 DEF Tails
<1> QED
  BY <1>5, <1>6, <1>7

-----------------------------------------------------------------------------
(***************************************************************************)
(* What a step leaves alone.                                               *)
(***************************************************************************)
Script == ScriptTypes /\ ScriptInv
Response == AnswerInv /\ FlowInv /\ FaultsArrive

\* The request and its fault stay the same.
SameFault == UNCHANGED <<fault, faultAfter, requestNumber>>

LEMMA StrikesSame == ASSUME SameFault, NEW kind PROVE Strikes(kind)' <=> Strikes(kind)
  BY DEF SameFault, Strikes, applyFault

LEMMA ScriptSame == ASSUME Script, UNCHANGED mockVars PROVE Script'
  <1>1. SameFault
    BY DEF SameFault, mockVars, configVars, handlerVars
  <1>2. ScriptTypes'
    BY DEF Script, ScriptTypes, mockVars, configVars, handlerVars, serveVars
  <1>3. ScriptInv'
    BY <1>1, StrikesSame DEF Script, ScriptInv, mockVars, configVars, handlerVars, serveVars
  <1> QED
    BY <1>2, <1>3 DEF Script

LEMMA ReachedSame ==
  ASSUME SameFault, UNCHANGED <<handler, chunk, stream>>, serverCtx => serverCtx', NEW k, NEW tail,
         NEW l, result'.ContentEvents + l = result.ContentEvents + k,
         result.Usage = "valid" => result'.Usage = "valid", Reached(k, tail)
  PROVE  Reached(l, tail)'
  BY StrikesSame DEF Reached, SameFault, Sent

\* A finished request stays what it is.
LEMMA FaultsStay ==
  ASSUME FaultsArrive, SameFault, UNCHANGED <<pc, result>>, serverCtx => serverCtx'
  PROVE  FaultsArrive'
  BY DEF FaultsArrive, SameFault, applyFault

\* The probe's timers, its context and what it knows of the first byte.
LEMMA QuietResponse ==
  ASSUME Response, SameFault, UNCHANGED <<handler, chunk, stream, wire, pc, event, readErr, result>>,
         serverCtx => serverCtx', handler = "idle" => firstByte' = firstByte
  PROVE  Response'
  <1>1. AnswerInv'
    BY StrikesSame DEF Response, AnswerInv, SameFault
  <1>2. FlowInv'
    <2> SUFFICES ASSUME pc # "done" PROVE FlowInv'
      BY DEF FlowInv
    <2>1. PICK o \in 0..1, k \in Nat, tail \in Tails : Arranged(Ahead, o, k, tail) /\ Reached(k, tail)
      BY DEF Response, FlowInv
    <2>2. Ahead' = Ahead
      BY DEF Ahead
    <2>3. Reached(k, tail)'
      BY <2>1, ReachedSame
    <2>4. Arranged(Ahead', o, k, tail)
      BY <2>1, <2>2
    <2> QED
      BY <2>3, <2>4 DEF FlowInv
  <1>3. FaultsArrive'
    BY FaultsStay DEF Response
  <1> QED
    BY <1>1, <1>2, <1>3 DEF Response

-----------------------------------------------------------------------------
(***************************************************************************)
(* Run takes what was written.                                             *)
(***************************************************************************)

\* What Run's return leaves of the result.
LEMMA Ends ==
  ASSUME IInv, NEW err, NEW cause, Return(err, cause, result)
  PROVE  /\ pc' = "done" /\ result'.err = err
         /\ result'.ContentEvents = result.ContentEvents /\ result'.Usage = result.Usage
  BY DEF Return, IInv, TypeOK, Results

\* What is first in line when an event is processed.
LEMMA NextInLine ==
  ASSUME IInv, Response, pc = "process"
  PROVE  \E o \in 0..1, k \in Nat, tail \in Tails :
           /\ Reached(k, tail) /\ ~Strikes("http-error")
           /\ \/ o = 1 /\ event = "other" /\ Arranged(wire, 0, k, tail)
              \/ o = 0 /\ k > 0 /\ event = "content" /\ Arranged(wire, 0, k - 1, tail)
              \/ o = 0 /\ k = 0 /\ tail = <<"malformed">> /\ event = "malformed"
              \/ o = 0 /\ k = 0 /\ tail = <<"usage", "done">> /\ event = "usage" /\ Arranged(wire, 0, 0, <<"done">>)
              \/ o = 0 /\ k = 0 /\ tail = <<"done">> /\ event = "done"
  <1>1. PICK o \in 0..1, k \in Nat, tail \in Tails : Arranged(<<event>> \o wire, o, k, tail) /\ Reached(k, tail)
    BY DEF Response, FlowInv, Ahead
  <1>2. ~Strikes("http-error") /\ wire \in Seq(EventKinds)
    BY DEF Response, AnswerInv, IInv, TypeOK
  <1> QED
    BY <1>1, <1>2, ArrangedHead

LEMMA ReadEventResponse == ASSUME IInv, Response, UNCHANGED mockVars, ReadEvent PROVE Response'
  <1> USE DEF ReadEvent, mockVars, configVars, handlerVars, serveVars, timerVars
  <1>1. SameFault
    BY DEF SameFault
  <1>2. AnswerInv'
    BY <1>1, StrikesSame DEF Response, AnswerInv
  <1>3. FlowInv'
    <2>1. PICK o \in 0..1, k \in Nat, tail \in Tails : Arranged(Ahead, o, k, tail) /\ Reached(k, tail)
      BY DEF Response, FlowInv
    <2>2. Ahead' = Ahead
      <3>1. wire \in Seq(EventKinds) /\ wire # <<>>
        BY DEF IInv, TypeOK
      <3>2. <<Head(wire)>> \o Tail(wire) = wire
        BY ONLY <3>1
      <3> QED
        BY <3>2 DEF Ahead
    <2>3. Reached(k, tail)'
      BY <1>1, <2>1, ReachedSame
    <2>4. Arranged(Ahead', o, k, tail)
      BY <2>1, <2>2
    <2> QED
      BY <2>3, <2>4 DEF FlowInv
  <1>4. FaultsArrive'
    BY DEF FaultsArrive
  <1> QED
    BY <1>2, <1>3, <1>4 DEF Response

LEMMA ProcessChunkResponse == ASSUME IInv, Response, UNCHANGED mockVars, ProcessChunk PROVE Response'
  <1> USE DEF ProcessChunk, mockVars, configVars, handlerVars, serveVars, envVars
  <1>1. SameFault
    BY DEF SameFault
  <1>2. AnswerInv'
    BY <1>1, StrikesSame DEF Response, AnswerInv
  <1>3. FlowInv'
    <2>1. PICK o \in 0..1, k \in Nat, tail \in Tails :
            /\ Reached(k, tail)
            /\ \/ o = 1 /\ event = "other" /\ Arranged(wire, 0, k, tail)
               \/ o = 0 /\ k > 0 /\ event = "content" /\ Arranged(wire, 0, k - 1, tail)
               \/ o = 0 /\ k = 0 /\ tail = <<"usage", "done">> /\ event = "usage" /\ Arranged(wire, 0, 0, <<"done">>)
      BY NextInLine
    <2>2. Ahead' = wire
      BY DEF Ahead
    <2>3. result \in Results
      BY DEF IInv, TypeOK
    <2>4. CASE o = 1 /\ event = "other" /\ Arranged(wire, 0, k, tail)
      <3>1. result' = result
        BY <2>3, <2>4 DEF Chunk, Contents, Results
      <3>2. Reached(k, tail)'
        BY <1>1, <2>1, <3>1, ReachedSame
      <3> QED
        BY <2>2, <2>4, <3>2 DEF FlowInv
    <2>5. CASE o = 0 /\ k > 0 /\ event = "content" /\ Arranged(wire, 0, k - 1, tail)
      <3>1. result'.ContentEvents = result.ContentEvents + 1 /\ result'.Usage = result.Usage
        BY <2>3, <2>5 DEF Chunk, Contents, Content, Results
      <3>2. result'.ContentEvents + (k - 1) = result.ContentEvents + k
        BY <2>3, <3>1 DEF Results
      <3>3. Reached(k - 1, tail)'
        BY <1>1, <2>1, <3>1, <3>2, ReachedSame
      <3> QED
        BY <2>2, <2>5, <3>3 DEF FlowInv
    <2>6. CASE o = 0 /\ k = 0 /\ tail = <<"usage", "done">> /\ event = "usage" /\ Arranged(wire, 0, 0, <<"done">>)
      <3>1. result'.ContentEvents = result.ContentEvents /\ result'.Usage = "valid"
        BY <2>3, <2>6 DEF Chunk, Contents, Results
      <3>2. Reached(0, <<"done">>)'
        BY <1>1, <2>1, <2>6, <3>1, StrikesSame DEF Reached
      <3> QED
        BY <2>2, <2>6, <3>2 DEF FlowInv, Tails
    <2> QED
      BY <2>1, <2>4, <2>5, <2>6
  <1>4. FaultsArrive'
    BY DEF FaultsArrive
  <1> QED
    BY <1>2, <1>3, <1>4 DEF Response

LEMMA ReadFailsResponse == ASSUME IInv, Response, UNCHANGED mockVars, ReadFails PROVE Response'
  <1> USE DEF ReadFails, mockVars, configVars, handlerVars, serveVars, envVars, timerVars
  <1>1. SameFault
    BY DEF SameFault
  <1>2. FlowInv'
    <2>1. PICK o \in 0..1, k \in Nat, tail \in Tails : Arranged(Ahead, o, k, tail) /\ Reached(k, tail)
      BY DEF Response, FlowInv
    <2>2. Ahead' = Ahead
      BY DEF Ahead
    <2>3. Reached(k, tail)'
      BY <1>1, <2>1, ReachedSame
    <2>4. Arranged(Ahead', o, k, tail)
      BY <2>1, <2>2
    <2> QED
      BY <2>3, <2>4 DEF FlowInv
  <1>3. AnswerInv'
    <2>1. handler # "idle" /\ ~Strikes("http-error")
      BY DEF Response, AnswerInv
    <2>2. CASE readErr' = "EOF"
      <3>1. wire = <<>> /\ stream = "ended"
        BY <2>2 DEF IInv, TypeOK
      <3>2. PICK o \in 0..1, k \in Nat, tail \in Tails : Arranged(<<>>, o, k, tail) /\ Reached(k, tail)
        BY <3>1 DEF Response, FlowInv, Ahead
      <3>3. k = 0 /\ tail = <<>>
        BY <3>2 DEF Arranged, Tails
      <3>4. serverCtx \/ (Strikes("disconnect") /\ result.ContentEvents + 0 = faultAfter)
        BY <2>1, <3>1, <3>2, <3>3 DEF Reached
      <3>5. result.ContentEvents \in Nat
        BY DEF IInv, TypeOK, Results
      <3> QED
        BY <1>1, <2>1, <3>4, <3>5, StrikesSame DEF AnswerInv
    <2>3. CASE readErr' # "EOF"
      BY <1>1, <2>1, <2>3, StrikesSame DEF AnswerInv
    <2> QED
      BY <2>2, <2>3
  <1>4. FaultsArrive'
    BY DEF FaultsArrive
  <1> QED
    BY <1>2, <1>3, <1>4 DEF Response

\* When Run returns, what is left to show is what its error says.
LEMMA EndsResponse ==
  ASSUME IInv, Response, SameFault, UNCHANGED <<wire, chunk, stream, handler, firstByte>>,
         pc' = "done", FaultsArrive'
  PROVE  Response'
  <1>1. AnswerInv'
    BY StrikesSame DEF Response, AnswerInv
  <1>2. FlowInv'
    BY DEF FlowInv
  <1> QED
    BY <1>1, <1>2 DEF Response

LEMMA FailResponse == ASSUME IInv, Response, UNCHANGED mockVars, Fail PROVE Response'
  <1> USE DEF Fail, mockVars, configVars, handlerVars, serveVars, envVars
  <1>1. SameFault
    BY DEF SameFault
  <1>2. PICK err \in {"idle", "ended", "read"}, cause \in {"none", readErr} :
          Return(err, cause, result) /\ (err = "ended" => readErr = "EOF")
    OBVIOUS
  <1>3. /\ pc' = "done" /\ result'.err = err /\ result'.ContentEvents = result.ContentEvents
    BY <1>2, Ends
  <1>4. err = "ended" => serverCtx \/ (Strikes("disconnect") /\ result.ContentEvents = faultAfter)
    BY <1>2 DEF Response, AnswerInv
  <1>5. FaultsArrive'
    BY <1>3, <1>4 DEF FaultsArrive, Strikes, applyFault
  <1> QED
    BY <1>1, <1>3, <1>5, EndsResponse

LEMMA ReadErrorBodyResponse == ASSUME IInv, Response, UNCHANGED mockVars, ReadErrorBody PROVE Response'
  <1> USE DEF ReadErrorBody, mockVars, configVars, handlerVars, serveVars, envVars
  <1>1. SameFault
    BY DEF SameFault
  <1>2. pc' = "done" /\ result'.err = "status"
    BY Ends
  <1>3. Strikes("http-error")
    BY DEF Response, AnswerInv
  <1>4. FaultsArrive'
    BY <1>2, <1>3 DEF FaultsArrive, Strikes, applyFault
  <1> QED
    BY <1>1, <1>2, <1>4, EndsResponse

LEMMA SendFailsResponse == ASSUME IInv, Response, UNCHANGED mockVars, SendFails PROVE Response'
  <1> USE DEF SendFails, mockVars, configVars, handlerVars, serveVars, envVars
  <1>1. SameFault
    BY DEF SameFault
  <1>2. pc' = "done" /\ result'.err = "send"
    BY Ends
  <1>3. FaultsArrive'
    BY <1>2 DEF FaultsArrive
  <1> QED
    BY <1>1, <1>2, <1>3, EndsResponse

LEMMA ProcessMalformedResponse ==
  ASSUME IInv, Response, UNCHANGED mockVars, ProcessMalformed PROVE Response'
  <1> USE DEF ProcessMalformed, mockVars, configVars, handlerVars, serveVars, envVars
  <1>1. SameFault
    BY DEF SameFault
  <1>2. pc' = "done" /\ result'.err = "decode" /\ result'.ContentEvents = result.ContentEvents
    BY Ends
  <1>3. PICK k \in Nat, tail \in Tails :
          k = 0 /\ tail = <<"malformed">> /\ Reached(k, tail) /\ ~Strikes("http-error")
    BY NextInLine
  <1>4. Strikes("malformed") /\ result.ContentEvents + 0 = faultAfter
    BY <1>3 DEF Reached
  <1>5. result.ContentEvents \in Nat
    BY DEF IInv, TypeOK, Results
  <1>6. FaultsArrive'
    BY <1>2, <1>4, <1>5 DEF FaultsArrive, Strikes, applyFault
  <1> QED
    BY <1>1, <1>2, <1>6, EndsResponse

LEMMA ProcessDoneResponse ==
  ASSUME IInv, Script, Response, UNCHANGED mockVars, ProcessDone PROVE Response'
  <1> USE DEF ProcessDone, mockVars, configVars, handlerVars, serveVars, envVars
  <1>1. SameFault
    BY DEF SameFault
  <1>2. PICK k \in Nat, tail \in Tails :
          k = 0 /\ tail = <<"done">> /\ Reached(k, tail) /\ ~Strikes("http-error")
    BY NextInLine
  <1>3. /\ result.Usage = "valid" /\ result.ContentEvents + 0 = ChunkCount
        /\ ~Strikes("malformed") /\ ~Strikes("disconnect") /\ ~Strikes("http-error")
    BY <1>2 DEF Reached
  <1>4. result.ContentEvents = ChunkCount /\ ChunkCount # 0
    <2>1. result.ContentEvents \in Nat /\ ChunkCount \in Nat \ {0}
      BY MockAssumption DEF IInv, TypeOK, Results
    <2> QED
      BY <1>3, <2>1
  <1>5. Return("none", "none", result)
    BY <1>4
  <1>6. /\ pc' = "done" /\ result'.err = "none" /\ result'.ContentEvents = ChunkCount
        /\ result'.Usage = "valid"
    BY <1>3, <1>4, <1>5, Ends
  <1>7. \A kind \in Faults \ {"none", "stall"} : ~Strikes(kind)
    BY <1>3 DEF Faults
  <1>8. FaultsArrive'
    BY <1>6, <1>7 DEF FaultsArrive, Strikes, applyFault
  <1> QED
    BY <1>1, <1>6, <1>8, EndsResponse

LEMMA RespondResponse ==
  ASSUME IInv, Response, UNCHANGED mockVars, Respond,
         IF fault = "http-error" /\ applyFault THEN result'.StatusCode = 503 ELSE pc' = "read"
  PROVE  Response'
  <1> USE DEF mockVars, configVars, handlerVars, serveVars, envVars
  <1>1. SameFault
    BY DEF SameFault
  <1>2. pc = "waiting" /\ firstByte # Unset /\ UNCHANGED <<wire, stream, firstByte, event, readErr>>
    BY DEF Respond
  <1>3. handler # "idle"
    BY <1>2 DEF Response, AnswerInv
  <1>4. /\ IF Strikes("http-error") THEN pc' = "errorBody" ELSE pc' = "read"
        /\ result'.ContentEvents = result.ContentEvents /\ result'.Usage = result.Usage
    <2>1. result \in Results
      BY DEF IInv, TypeOK
    <2>2. PICK status \in {200, 503}, eventStream \in BOOLEAN :
            LET answered == Answered(result, status)
            IN \/ status # 200 /\ pc' = "errorBody" /\ result' = answered
               \/ status = 200 /\ ~eventStream /\ Return("contentType", "none", answered)
               \/ status = 200 /\ eventStream /\ pc' = "read" /\ result' = answered
      BY DEF Respond
    <2>3. /\ Answered(result, status).StatusCode = status
          /\ Answered(result, status).ContentEvents = result.ContentEvents
          /\ Answered(result, status).Usage = result.Usage
      BY <2>1 DEF Answered, Results
    <2>4. ASSUME Return("contentType", "none", Answered(result, status))
          PROVE  pc' = "done" /\ result'.StatusCode = status
      BY <2>1, <2>4 DEF Return, Answered, Results
    <2> QED
      BY <2>2, <2>3, <2>4 DEF Strikes
  <1>5. AnswerInv'
    BY <1>1, <1>2, <1>3, <1>4, StrikesSame DEF Response, AnswerInv
  <1>6. FlowInv'
    <2>1. PICK o \in 0..1, k \in Nat, tail \in Tails : Arranged(wire, o, k, tail) /\ Reached(k, tail)
      BY <1>2 DEF Response, FlowInv, Ahead
    <2>2. Ahead' = wire
      BY <1>2, <1>4 DEF Ahead
    <2>3. Reached(k, tail)'
      BY <1>1, <1>2, <1>4, <2>1, ReachedSame
    <2> QED
      BY <2>1, <2>2, <2>3 DEF FlowInv
  <1>7. FaultsArrive'
    BY <1>4 DEF FaultsArrive
  <1> QED
    BY <1>5, <1>6, <1>7 DEF Response

\* A step of the probe.
LEMMA ProbeStepKeeps ==
  ASSUME IInv, Script, Response, ProbeStep PROVE IInv' /\ Script' /\ Response'
  <1>1. UNCHANGED mockVars
    BY DEF ProbeStep
  <1>2. Script'
    BY <1>1, ScriptSame
  <1>3. IInv'
    BY StepInv DEF ProbeStep, Next, Server, Run, SendFails, Respond
  <1>4. SameFault /\ UNCHANGED <<handler, chunk, serverCtx>>
    BY <1>1 DEF SameFault, mockVars, configVars, handlerVars, serveVars
  <1> SUFFICES Response'
    BY <1>2, <1>3
  <1>5. CASE Tick \/ TotalTimeout \/ IdleFires \/ Callback
    <2>1. UNCHANGED <<stream, wire, pc, event, readErr, result, firstByte>>
      BY <1>5 DEF Tick, TotalTimeout, IdleFires, Callback, IdleSignals, IdleCancels, envVars, runVars
    <2> QED
      BY <1>4, <2>1, QuietResponse
  <1>6. CASE handler # "idle" /\ FirstByte
    <2>1. UNCHANGED <<stream, wire, pc, event, readErr, result>>
      BY <1>6 DEF FirstByte, runVars
    <2> QED
      BY <1>4, <1>6, <2>1, QuietResponse
  <1>7. CASE SendFails
    BY <1>1, <1>7, SendFailsResponse
  <1>8. CASE Respond /\ IF fault = "http-error" /\ applyFault THEN result'.StatusCode = 503 ELSE pc' = "read"
    BY <1>1, <1>8, RespondResponse
  <1>9. CASE ReadErrorBody \/ ReadEvent \/ ReadFails \/ Fail
    BY <1>1, <1>9, ReadErrorBodyResponse, ReadEventResponse, ReadFailsResponse, FailResponse
  <1>10. CASE ProcessDone \/ ProcessMalformed \/ ProcessChunk
    BY <1>1, <1>10, ProcessDoneResponse, ProcessMalformedResponse, ProcessChunkResponse
  <1> QED
    BY <1>5, <1>6, <1>7, <1>8, <1>9, <1>10 DEF ProbeStep

-----------------------------------------------------------------------------
(***************************************************************************)
(* The handler writes.                                                     *)
(***************************************************************************)

\* Nothing else changes for the probe.
LEMMA WrittenInv ==
  ASSUME IInv, UNCHANGED Probing, wire' \in Seq(EventKinds), stream' \in {"open", "ended", "broken"}
  PROVE  IInv'
  <1> USE DEF Probing, timerVars, runVars
  <1>1. TypeOK'
    BY DEF IInv, TypeOK
  <1>2. ClockInv' /\ TimerInv' /\ CancelInv' /\ ProgressInv'
    BY DEF IInv, ClockInv, TimerInv, CancelInv, ProgressInv, IdleIsNotCancellation, SuccessIsComplete
  <1> QED
    BY <1>1, <1>2 DEF IInv

\* What one step of the handler writes.
Burst == {<<>>, <<"content">>, <<"content", "malformed">>, <<"usage", "done">>}

LEMMA BurstKinds == ASSUME NEW events \in Burst \cup {<<"other">>} PROVE events \in Seq(EventKinds)
  <1>1. {"other", "content", "malformed", "usage", "done"} \subseteq EventKinds
    BY DEF EventKinds
  <1> HIDE DEF EventKinds
  <1>2. ASSUME NEW e \in EventKinds, NEW f \in EventKinds
        PROVE  <<>> \in Seq(EventKinds) /\ <<e>> \in Seq(EventKinds) /\ <<e, f>> \in Seq(EventKinds)
    OBVIOUS
  <1>3. CASE events \in {<<>>, <<"other">>, <<"content">>}
    BY <1>1, <1>2, <1>3
  <1>4. CASE events = <<"content", "malformed">>
    BY <1>1, <1>2, <1>4
  <1>5. CASE events = <<"usage", "done">>
    BY <1>1, <1>2, <1>5
  <1> QED
    BY <1>3, <1>4, <1>5 DEF Burst

LEMMA BurstTypes ==
  ASSUME IInv, NEW events \in Burst \cup {<<"other">>}, Written(events) PROVE wire' \in Seq(EventKinds)
  <1>1. wire \in Seq(EventKinds)
    BY DEF IInv, TypeOK
  <1>2. events \in Seq(EventKinds)
    BY BurstKinds
  <1> QED
    BY ONLY <1>1, <1>2, wire' = wire \o events DEF Written

\* It comes after what lies ahead already.
LEMMA WrittenAhead ==
  ASSUME IInv, NEW events \in Burst, Written(events), UNCHANGED <<pc, event>>
  PROVE  Ahead' = Ahead \o events
  <1>1. wire \in Seq(EventKinds) /\ <<event>> \in Seq(EventKinds)
    BY DEF IInv, TypeOK
  <1>2. events \in Seq(EventKinds)
    BY BurstKinds
  <1>3. <<event>> \o (wire \o events) = (<<event>> \o wire) \o events
    BY ONLY <1>1, <1>2
  <1> QED
    BY <1>3 DEF Ahead, Written

\* The events a Burst adds to the contents, and the end it may have.
Adds(events) == IF events \in {<<"content">>, <<"content", "malformed">>} THEN 1 ELSE 0
Ending(events) == CASE events = <<"content", "malformed">> -> <<"malformed">>
                    [] events = <<"usage", "done">> -> <<"usage", "done">>
                    [] OTHER -> <<>>

\* What the handler writes keeps the response, if it takes the script on.
LEMMA WrittenResponse ==
  ASSUME IInv, Response, SameFault, UNCHANGED Probing, NEW events \in Burst, Written(events),
         handler \notin {"idle", "returned"}, handler' # "idle", serverCtx' = serverCtx,
         \A k \in Nat : Reached(k, <<>>) => Reached(k + Adds(events), Ending(events))'
  PROVE  Response'
  <1> USE DEF Probing, timerVars, runVars
  <1>1. AnswerInv'
    BY StrikesSame DEF Response, AnswerInv, SameFault
  <1>2. FaultsArrive'
    BY FaultsStay DEF Response
  <1>3. FlowInv'
    <2> SUFFICES ASSUME pc # "done" PROVE FlowInv'
      BY DEF FlowInv
    <2>1. PICK o \in 0..1, k \in Nat, tail \in Tails : Arranged(Ahead, o, k, tail) /\ Reached(k, tail)
      BY DEF Response, FlowInv
    <2>2. tail = <<>>
      BY <2>1 DEF Reached
    <2>3. Ahead \in Seq(EventKinds)
      <3>1. wire \in Seq(EventKinds) /\ <<event>> \in Seq(EventKinds)
        BY DEF IInv, TypeOK
      <3>2. <<event>> \o wire \in Seq(EventKinds)
        BY ONLY <3>1
      <3> QED
        BY <3>1, <3>2 DEF Ahead
    <2>4. Arranged(Ahead \o events, o, k + Adds(events), Ending(events))
      <3>1. /\ Arranged(Ahead \o <<>>, o, k, <<>>)
            /\ Arranged(Ahead \o <<"content">>, o, k + 1, <<>>)
            /\ Arranged(Ahead \o <<"content", "malformed">>, o, k + 1, <<"malformed">>)
            /\ Arranged(Ahead \o <<"usage", "done">>, o, k, <<"usage", "done">>)
        BY <2>1, <2>2, <2>3, ArrangedGrows
      <3>2. CASE events = <<>>
        <4>1. Adds(events) = 0 /\ Ending(events) = <<>>
          BY <3>2 DEF Adds, Ending
        <4> QED
          BY <3>1, <3>2, <4>1
      <3>3. CASE events = <<"content">>
        <4>1. Adds(events) = 1 /\ Ending(events) = <<>>
          BY <3>3 DEF Adds, Ending
        <4> QED
          BY <3>1, <3>3, <4>1
      <3>4. CASE events = <<"content", "malformed">>
        <4>1. Adds(events) = 1 /\ Ending(events) = <<"malformed">>
          BY <3>4 DEF Adds, Ending
        <4> QED
          BY <3>1, <3>4, <4>1
      <3>5. CASE events = <<"usage", "done">>
        <4>1. Adds(events) = 0 /\ Ending(events) = <<"usage", "done">>
          BY <3>5 DEF Adds, Ending
        <4> QED
          BY <3>1, <3>5, <4>1
      <3> QED
        BY <3>2, <3>3, <3>4, <3>5 DEF Burst
    <2>5. Ahead' = Ahead \o events
      BY WrittenAhead
    <2>6. Reached(k + Adds(events), Ending(events))'
      BY <2>1, <2>2
    <2>7. Adds(events) \in {0, 1} /\ Ending(events) \in Tails
      BY DEF Adds, Ending, Tails
    <2> QED
      BY <2>4, <2>5, <2>6, <2>7 DEF FlowInv
  <1> QED
    BY <1>1, <1>2, <1>3 DEF Response

\* While the handler runs, what lies ahead is what it has come to.
LEMMA Underway ==
  ASSUME handler # "returned", NEW k, Reached(k, <<>>)
  PROVE  result.ContentEvents + k = Sent /\ stream = "open"
  BY DEF Reached

LEMMA Numbers ==
  ASSUME IInv, Script
  PROVE  /\ chunk \in Nat /\ 1 <= chunk /\ chunk <= ChunkCount /\ ChunkCount \in Nat /\ faultAfter \in Nat
         /\ Strikes("malformed") \/ Strikes("disconnect") => 1 <= faultAfter /\ faultAfter <= ChunkCount
         /\ result.ContentEvents \in Nat
  BY MockAssumption DEF IInv, TypeOK, Results, Script, ScriptTypes, Strikes

LEMMA AcceptKeeps == ASSUME IInv, Script, Response, Accept PROVE IInv' /\ Script' /\ Response'
  <1> USE DEF Probing, timerVars, runVars, configVars, serveVars
  <1>1. /\ handler = "idle" /\ pc = "waiting" /\ serve = "listening" /\ UNCHANGED Probing
        /\ UNCHANGED <<fault, faultAfter, serverCtx, serve, chunk>>
        /\ \/ Strikes("http-error")' /\ Written(<<>>) /\ handler' = "returned" /\ stream' = "ended"
           \/ ~Strikes("http-error")' /\ Written(<<"other">>) /\ handler' = "first" /\ stream' = stream
    BY DEF Accept, Finish, Respond200, Sleep, Strikes
  <1>2. wire = <<>> /\ chunk = 1 /\ stream = "open" /\ result.ContentEvents = 0
    BY <1>1 DEF Response, AnswerInv
  <1>3. IInv'
    <2>1. wire' \in Seq(EventKinds)
      BY <1>1, BurstTypes DEF Burst
    <2>2. stream' \in {"open", "ended", "broken"}
      BY <1>1, <1>2
    <2> QED
      BY <1>1, <2>1, <2>2, WrittenInv
  <1>4. Script'
    <2>1. ScriptTypes'
      BY <1>1 DEF Script, ScriptTypes, Accept
    <2>2. 1 <= faultAfter \/ fault \notin {"malformed", "disconnect"}
      BY MockAssumption DEF Script, ScriptTypes
    <2>3. \A kind \in {"malformed", "disconnect"} : Strikes(kind)' => fault = kind
      BY <1>1 DEF Strikes
    <2>4. ScriptInv'
      BY <1>1, <1>2, <2>2, <2>3 DEF ScriptInv
    <2> QED
      BY <2>1, <2>4 DEF Script
  <1>5. Response'
    <2>1. AnswerInv'
      BY <1>1, <1>2 DEF AnswerInv
    <2>2. FlowInv'
      <3>1. CASE Strikes("http-error")' /\ Written(<<>>) /\ handler' = "returned"
        <4>1. wire' = <<>>
          BY <1>2, <3>1 DEF Written
        <4>2. Arranged(<<>>, 0, 0, <<>>)
          BY DEF Arranged
        <4>3. Ahead' = <<>>
          BY <1>1, <4>1 DEF Ahead
        <4>4. Reached(0, <<>>)'
          BY <3>1 DEF Reached
        <4> QED
          BY <4>2, <4>3, <4>4 DEF FlowInv, Tails
      <3>2. CASE ~Strikes("http-error")' /\ Written(<<"other">>) /\ handler' = "first" /\ stream' = stream
        <4>1. wire' = <<"other">>
          BY <1>2, <3>2 DEF Written
        <4>2. Arranged(<<"other">>, 1, 0, <<>>)
          BY DEF Arranged
        <4>3. Ahead' = <<"other">>
          BY <1>1, <4>1 DEF Ahead
        <4>4. Reached(0, <<>>)'
          BY <1>1, <1>2, <3>2 DEF Reached, Sent
        <4> QED
          BY <4>2, <4>3, <4>4 DEF FlowInv, Tails
      <3> QED
        BY <1>1, <3>1, <3>2
    <2>3. FaultsArrive'
      BY <1>1 DEF FaultsArrive
    <2> QED
      BY <2>1, <2>2, <2>3 DEF Response
  <1> QED
    BY <1>3, <1>4, <1>5

\* The handler's step, apart from what it does to its own script.
LEMMA HandlerKeeps ==
  ASSUME IInv, Response, SameFault, UNCHANGED Probing, NEW events \in Burst, Written(events),
         handler \notin {"idle", "returned"}, handler' # "idle", serverCtx' = serverCtx,
         stream' \in {"open", "ended", "broken"},
         \A k \in Nat : Reached(k, <<>>) => Reached(k + Adds(events), Ending(events))'
  PROVE  IInv' /\ Response'
  <1>1. wire' \in Seq(EventKinds)
    BY BurstTypes
  <1>2. IInv'
    BY <1>1, WrittenInv
  <1>3. Response'
    BY WrittenResponse
  <1> QED
    BY <1>2, <1>3

LEMMA NothingAdded == <<>> \in Burst /\ Adds(<<>>) = 0 /\ Ending(<<>>) = <<>>
  BY DEF Burst, Adds, Ending

\* A handler that gives up has nothing more to say, and leaves the stream
\* open unless its server is stopping.
LEMMA GivesUp ==
  ASSUME IInv, Script, Response, SameFault, UNCHANGED Probing, Written(<<>>),
         handler \notin {"idle", "returned"}, handler' = "returned",
         UNCHANGED <<serverCtx, chunk, serve>>,
         stream' = stream \/ (serverCtx /\ stream' \in {"ended", "broken"})
  PROVE  IInv' /\ Script' /\ Response'
  <1>1. stream' \in {"open", "ended", "broken"}
    BY DEF IInv, TypeOK
  <1>2. \A k \in Nat : Reached(k, <<>>) => Reached(k + 0, <<>>)'
    <2> SUFFICES ASSUME NEW k \in Nat, Reached(k, <<>>) PROVE Reached(k + 0, <<>>)'
      OBVIOUS
    <2>1. stream = "open"
      BY Underway
    <2> QED
      BY <2>1 DEF Reached
  <1>3. IInv' /\ Response'
    BY <1>1, <1>2, NothingAdded, HandlerKeeps
  <1>4. Script'
    BY DEF Script, ScriptTypes, ScriptInv, SameFault
  <1> QED
    BY <1>3, <1>4

LEMMA WakeKeeps == ASSUME IInv, Script, Response, Wake PROVE IInv' /\ Script' /\ Response'
  <1> USE DEF configVars, serveVars
  <1>1. /\ handler \in {"first", "gap", "stall"} /\ SameFault /\ UNCHANGED <<serverCtx, serve>>
        /\ UNCHANGED Probing /\ Written(<<>>)
    BY DEF Wake, Interrupted, Finish, Respond200, SameFault
  <1>2. CASE Interrupted
    <2>1. handler' = "returned" /\ chunk' = chunk
          /\ (stream' = stream \/ (serverCtx /\ stream' = "ended"))
      BY <1>2 DEF Interrupted, Finish, Respond200
    <2> QED
      BY <1>1, <2>1, GivesUp
  <1>3. CASE /\ IF handler = "stall"
                  THEN IF chunk < ChunkCount THEN Sleep("gap", ChunkDelay) /\ UNCHANGED chunk
                                             ELSE handler' = "usage" /\ UNCHANGED <<chunk, wake>>
                  ELSE handler' = "content" /\ UNCHANGED wake
                       /\ chunk' = IF handler = "gap" THEN chunk + 1 ELSE chunk
             /\ Respond200(<<>>)
    <2>1. /\ stream' = stream
          /\ \/ handler = "stall" /\ chunk < ChunkCount /\ handler' = "gap" /\ chunk' = chunk
             \/ handler = "stall" /\ ~(chunk < ChunkCount) /\ handler' = "usage" /\ chunk' = chunk
             \/ handler = "first" /\ handler' = "content" /\ chunk' = chunk
             \/ handler = "gap" /\ handler' = "content" /\ chunk' = chunk + 1
      BY <1>1, <1>3 DEF Respond200, Sleep
    <2>2. /\ handler = "stall" => ~Strikes("malformed") /\ ~Strikes("disconnect")
          /\ ~Strikes("http-error")
          /\ handler = "first" => chunk = 1
          /\ handler = "gap" => chunk < ChunkCount
          /\ Strikes("malformed") \/ Strikes("disconnect") =>
               (handler = "first" => chunk <= faultAfter) /\ (handler = "gap" => chunk < faultAfter)
          /\ serve \in {"shutdown", "closed", "expired"} => serverCtx
      BY <1>1 DEF Script, ScriptInv, Strikes
    <2>3. Script'
      <3>1. ScriptTypes'
        BY <1>1, <2>1, <2>2, Numbers DEF Script, ScriptTypes, SameFault
      <3>2. faultAfter' = faultAfter
        BY <1>1 DEF SameFault
      <3>3. ScriptInv'
        BY <1>1, <2>1, <2>2, <3>2, StrikesSame, Numbers DEF ScriptInv
      <3> QED
        BY <3>1, <3>3 DEF Script
    <2>4. Sent' = Sent
      BY <2>1, <2>2, Numbers DEF Sent
    <2>5. \A k \in Nat : Reached(k, <<>>) => Reached(k + 0, <<>>)'
      <3> SUFFICES ASSUME NEW k \in Nat, Reached(k, <<>>) PROVE Reached(k + 0, <<>>)'
        OBVIOUS
      <3>1. result.ContentEvents + k = Sent /\ stream = "open"
        BY <1>1, Underway
      <3>2. result' = result /\ handler' # "returned"
        BY <1>1, <2>1 DEF Probing, runVars
      <3> QED
        BY <2>1, <2>4, <3>1, <3>2 DEF Reached
    <2>6. stream' \in {"open", "ended", "broken"}
      BY <2>1 DEF IInv, TypeOK
    <2>7. IInv' /\ Response'
      BY <1>1, <2>1, <2>5, <2>6, NothingAdded, HandlerKeeps
    <2> QED
      BY <2>3, <2>7
  <1> QED
    BY <1>2, <1>3 DEF Wake

LEMMA ContentKeeps == ASSUME IInv, Script, Response, Content_i PROVE IInv' /\ Script' /\ Response'
  <1> USE DEF configVars, serveVars
  <1>1. /\ handler = "content" /\ SameFault /\ UNCHANGED <<serverCtx, serve, chunk>> /\ UNCHANGED Probing
        /\ \/ /\ Strikes("malformed") /\ chunk = faultAfter /\ Written(<<"content", "malformed">>)
              /\ handler' = "returned" /\ stream' = "ended"
           \/ /\ Strikes("disconnect") /\ chunk = faultAfter /\ Written(<<"content">>)
              /\ handler' = "returned" /\ stream' = "ended"
           \/ /\ fault = "stall" /\ Written(<<"content">>) /\ handler' = "stall" /\ stream' = stream
           \/ /\ ~(Strikes("malformed") /\ chunk = faultAfter) /\ ~(Strikes("disconnect") /\ chunk = faultAfter)
              /\ Written(<<"content">>) /\ stream' = stream
              /\ IF chunk < ChunkCount THEN handler' = "gap" ELSE handler' = "usage"
    BY DEF Content_i, Faulty, Finish, Respond200, Sleep, SameFault, Strikes
  <1>2. /\ ~Strikes("http-error")
        /\ Strikes("malformed") \/ Strikes("disconnect") => chunk <= faultAfter
        /\ serve \in {"shutdown", "closed", "expired"} => serverCtx
    BY <1>1 DEF Script, ScriptInv
  <1>3. faultAfter' = faultAfter /\ fault' = fault /\ requestNumber' = requestNumber /\ result' = result
    BY <1>1 DEF SameFault, Probing, runVars
  <1>4. Script'
    <2>1. ScriptTypes'
      BY <1>1, <1>3 DEF Script, ScriptTypes
    <2>2. fault = "stall" => ~Strikes("malformed") /\ ~Strikes("disconnect")
      BY DEF Strikes
    <2>3. ScriptInv'
      <3>1. CASE handler' = "returned"
        BY <1>1, <1>2, <3>1 DEF ScriptInv
      <3>2. CASE handler' = "stall"
        BY <1>1, <1>2, <1>3, <3>2, StrikesSame DEF ScriptInv
      <3>3. CASE handler' \in {"gap", "usage"}
        <4>1. /\ ~(Strikes("malformed") /\ chunk = faultAfter) /\ ~(Strikes("disconnect") /\ chunk = faultAfter)
              /\ IF chunk < ChunkCount THEN handler' = "gap" ELSE handler' = "usage"
          BY <1>1, <3>3
        <4>2. Strikes("malformed") \/ Strikes("disconnect") => chunk < faultAfter /\ chunk < ChunkCount
          BY <1>2, <4>1, Numbers
        <4>3. handler' = "usage" => chunk = ChunkCount
          BY <4>1, Numbers
        <4> QED
          BY <1>1, <1>2, <1>3, <3>3, <4>1, <4>2, <4>3, StrikesSame DEF ScriptInv
      <3> QED
        BY <1>1, <3>1, <3>2, <3>3
    <2> QED
      BY <2>1, <2>3 DEF Script
  <1>5. stream' \in {"open", "ended", "broken"}
    BY <1>1 DEF IInv, TypeOK
  <1>6. /\ <<"content">> \in Burst /\ Adds(<<"content">>) = 1 /\ Ending(<<"content">>) = <<>>
        /\ <<"content", "malformed">> \in Burst /\ Adds(<<"content", "malformed">>) = 1
        /\ Ending(<<"content", "malformed">>) = <<"malformed">>
    BY DEF Burst, Adds, Ending
  <1>7. ASSUME NEW k \in Nat, Reached(k, <<>>)
        PROVE  result'.ContentEvents + (k + 1) = chunk /\ stream = "open"
    <2>1. result.ContentEvents + k = chunk - 1 /\ stream = "open"
      BY <1>1, <1>7, Underway DEF Sent
    <2> QED
      BY <1>3, <2>1, Numbers
  <1>8. CASE Strikes("malformed") /\ chunk = faultAfter /\ Written(<<"content", "malformed">>)
             /\ handler' = "returned" /\ stream' = "ended"
    <2>1. \A k \in Nat : Reached(k, <<>>) => Reached(k + 1, <<"malformed">>)'
      BY <1>1, <1>3, <1>7, <1>8, StrikesSame DEF Reached
    <2> QED
      BY <1>1, <1>4, <1>5, <1>6, <1>8, <2>1, HandlerKeeps
  <1>9. CASE Strikes("disconnect") /\ chunk = faultAfter /\ Written(<<"content">>)
             /\ handler' = "returned" /\ stream' = "ended"
    <2>1. \A k \in Nat : Reached(k, <<>>) => Reached(k + 1, <<>>)'
      BY <1>1, <1>3, <1>7, <1>9, StrikesSame DEF Reached
    <2> QED
      BY <1>1, <1>4, <1>5, <1>6, <1>9, <2>1, HandlerKeeps
  <1>10. CASE Written(<<"content">>) /\ stream' = stream /\ handler' \in {"stall", "gap", "usage"}
    <2>1. Sent' = chunk
      BY <1>1, <1>10 DEF Sent
    <2>2. \A k \in Nat : Reached(k, <<>>) => Reached(k + 1, <<>>)'
      BY <1>7, <1>10, <2>1 DEF Reached
    <2> QED
      BY <1>1, <1>4, <1>5, <1>6, <1>10, <2>2, HandlerKeeps
  <1> QED
    BY <1>1, <1>8, <1>9, <1>10

LEMMA UsageKeeps == ASSUME IInv, Script, Response, Usage PROVE IInv' /\ Script' /\ Response'
  <1> USE DEF configVars, serveVars
  <1>1. /\ handler = "usage" /\ SameFault /\ UNCHANGED <<serverCtx, serve, chunk>> /\ UNCHANGED Probing
        /\ Written(<<"usage", "done">>) /\ handler' = "returned" /\ stream' = "ended"
    BY DEF Usage, Finish, SameFault
  <1>2. /\ chunk = ChunkCount /\ ~Strikes("malformed") /\ ~Strikes("disconnect")
        /\ serve \in {"shutdown", "closed", "expired"} => serverCtx
    BY <1>1 DEF Script, ScriptInv
  <1>3. result' = result
    BY <1>1 DEF Probing, runVars
  <1>4. Script'
    BY <1>1, <1>2 DEF Script, ScriptTypes, ScriptInv, SameFault
  <1>5. <<"usage", "done">> \in Burst /\ Adds(<<"usage", "done">>) = 0
        /\ Ending(<<"usage", "done">>) = <<"usage", "done">>
    BY DEF Burst, Adds, Ending
  <1>6. \A k \in Nat : Reached(k, <<>>) => Reached(k + 0, <<"usage", "done">>)'
    <2> SUFFICES ASSUME NEW k \in Nat, Reached(k, <<>>) PROVE Reached(k + 0, <<"usage", "done">>)'
      OBVIOUS
    <2>1. result.ContentEvents + k = ChunkCount
      BY <1>1, <1>2, Underway DEF Sent
    <2>2. result'.ContentEvents + (k + 0) = ChunkCount
      BY <1>3, <2>1
    <2>3. <<"usage", "done">> # <<"done">>
      OBVIOUS
    <2> QED
      BY <1>1, <1>2, <2>2, <2>3, StrikesSame DEF Reached
  <1> QED
    BY <1>1, <1>4, <1>5, <1>6, HandlerKeeps

-----------------------------------------------------------------------------
(***************************************************************************)
(* Serve, and the theorem.                                                 *)
(***************************************************************************)
LEMMA ExitKeeps == ASSUME IInv, Script, Response, Exit PROVE IInv' /\ Script' /\ Response'
  <1> USE DEF configVars, serveVars
  <1>1. /\ SameFault /\ UNCHANGED Probing /\ UNCHANGED <<serverCtx, serve, chunk>>
        /\ handler \notin {"idle", "returned"} /\ handler' = "returned" /\ stream' = "broken"
    BY DEF Exit, SameFault
  <1>2. serverCtx
    BY DEF Exit, Script, ScriptInv
  <1>3. Written(<<>>)
    <2>1. wire \in Seq(EventKinds) /\ wire' = wire
      BY DEF Exit, IInv, TypeOK
    <2>2. wire \o <<>> = wire
      BY ONLY <2>1
    <2> QED
      BY <2>1, <2>2 DEF Written
  <1> QED
    BY <1>1, <1>2, <1>3, GivesUp

LEMMA ServeKeeps ==
  ASSUME IInv, Script, Response,
         SignalServer \/ ListenFails \/ Shutdown \/ ShutdownReturns \/ UNCHANGED <<vars, mockVars>>
  PROVE  IInv' /\ Script' /\ Response'
  <1>1. /\ UNCHANGED vars /\ UNCHANGED configVars /\ UNCHANGED handlerVars
        /\ serverCtx' = serverCtx \/ serverCtx' = TRUE
        /\ serve' = serve \/ serve' = "failed" \/ (serverCtx /\ serve' = "shutdown")
             \/ (serve = "shutdown" /\ serve' \in {"closed", "expired"})
    BY DEF SignalServer, ListenFails, Shutdown, ShutdownReturns, mockVars, serveVars
  <1>2. (serverCtx => serverCtx') /\ serverCtx' \in BOOLEAN
    <2>1. serverCtx \in BOOLEAN
      BY DEF Script, ScriptTypes
    <2>2. CASE serverCtx' = serverCtx
      BY ONLY <2>1, <2>2
    <2>3. CASE serverCtx' = TRUE
      BY ONLY <2>1, <2>3
    <2> QED
      BY <1>1, <2>2, <2>3
  <1>3. IInv'
    BY <1>1, StepInv
  <1>4. SameFault /\ UNCHANGED <<handler, chunk>>
    BY <1>1 DEF SameFault, configVars, handlerVars
  <1>5. Script'
    <2>1. ScriptTypes'
      BY <1>2, <1>4 DEF Script, ScriptTypes, SameFault
    <2>2. (serve \in {"shutdown", "closed", "expired"} => serverCtx)'
      BY <1>1, <1>2 DEF Script, ScriptInv
    <2>3. ScriptInv'
      BY <1>4, <2>2, StrikesSame DEF Script, ScriptInv, SameFault
    <2> QED
      BY <2>1, <2>3 DEF Script
  <1>6. Response'
    <2>1. UNCHANGED <<handler, chunk, stream, wire, pc, event, readErr, result, firstByte>>
      BY <1>1, <1>4 DEF vars, envVars, runVars
    <2> QED
      BY <1>2, <1>4, <2>1, QuietResponse
  <1> QED
    BY <1>3, <1>5, <1>6

\* The invariant of the composition.
MockInv == IInv /\ Script /\ Response

LEMMA MockInitInv == MockInit => MockInv
  <1> SUFFICES ASSUME MockInit PROVE MockInv
    OBVIOUS
  <1>1. IInv
    BY InitInv DEF MockInit
  <1>2. Script
    <2>1. FaultEvery \in Nat \ {0} /\ ChunkCount \in Nat \ {0}
      BY MockAssumption
    <2>2. requestNumber \in Nat /\ 1 \in 1..ChunkCount
      BY <2>1 DEF MockInit
    <2> QED
      BY <2>2 DEF MockInit, Script, ScriptTypes, ScriptInv
  <1>3. Response
    <2>1. Arranged(<<>>, 0, 0, <<>>) /\ Ahead = <<>>
      BY DEF MockInit, Init, Arranged, Ahead
    <2>2. Reached(0, <<>>)
      BY DEF MockInit, Init, Reached, Sent
    <2>3. FlowInv
      BY <2>1, <2>2 DEF FlowInv, Tails
    <2>4. AnswerInv /\ FaultsArrive
      BY DEF MockInit, Init, AnswerInv, FaultsArrive
    <2> QED
      BY <2>3, <2>4 DEF Response
  <1> QED
    BY <1>1, <1>2, <1>3 DEF MockInv

LEMMA MockStepInv == MockInv /\ [MockNext]_<<vars, mockVars>> => MockInv'
  <1> SUFFICES ASSUME MockInv, [MockNext]_<<vars, mockVars>> PROVE MockInv'
    OBVIOUS
  <1>1. IInv /\ Script /\ Response
    BY DEF MockInv
  <1>2. CASE ProbeStep
    BY <1>1, <1>2, ProbeStepKeeps DEF MockInv
  <1>3. CASE Accept
    BY <1>1, <1>3, AcceptKeeps DEF MockInv
  <1>4. CASE Handle
    BY <1>1, <1>4, WakeKeeps, ContentKeeps, UsageKeeps DEF Handle, MockInv
  <1>5. CASE SignalServer \/ ListenFails \/ Shutdown \/ ShutdownReturns \/ MockDone \/ UNCHANGED <<vars, mockVars>>
    BY <1>1, <1>5, ServeKeeps DEF MockInv, MockDone
  <1>6. CASE Exit
    BY <1>1, <1>6, ExitKeeps DEF MockInv
  <1> QED
    BY <1>2, <1>3, <1>4, <1>5, <1>6 DEF MockNext

\* The invariant holds throughout.
THEOREM MockInvariance == MockSpec => []MockInv
  BY MockInitInv, MockStepInv, PTL DEF MockSpec

\* A fault of the mock arrives as what it is, for every latency profile, every
\* number of contents, every place and rate of the fault, and at every timing
\* of handler, probe, timers and signals.
THEOREM FaultsAsConfigured == MockSpec => []FaultsArrive
  <1>1. MockInv => FaultsArrive
    BY DEF MockInv, Response
  <1> QED
    BY <1>1, MockInvariance, PTL

=============================================================================
