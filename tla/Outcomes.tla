----------------------------- MODULE Outcomes ------------------------------
(***************************************************************************)
(* What becomes of one request after probe.Run has returned: the worker of *)
(* internal/loadgen classifies it while the parent context may still be    *)
(* cancelled, cmd/llm-slo-bench turns the class back into an error, and    *)
(* internal/metrics classifies that error again, for the summary and for   *)
(* the JSONL record that internal/report reads.  Three vocabularies for    *)
(* one request, which have to agree.                                       *)
(***************************************************************************)
EXTENDS Probe

CONSTANT HistogramMax  \* the largest duration a histogram tracks

ASSUME OutcomesAssumption == HistogramMax \in Nat \ {0}

VARIABLES
  outcome,  \* loadgen.Outcome of the request, or NoOutcome
  counted,  \* how the aggregator counted it, "refused", or "pending"
  record    \* the JSONL record written for it, or NoRecord

NoOutcome == [Dropped |-> FALSE, Cancelled |-> FALSE, ErrorClass |-> "pending"]
NoRecord == [Outcome |-> "none", StatusCode |-> 0, Usage |-> "none"]
outcomeVars == <<outcome, counted, record>>

OutcomesInit == Init /\ outcome = NoOutcome /\ counted = "pending" /\ record = NoRecord

-----------------------------------------------------------------------------
(***************************************************************************)
(* internal/loadgen: the worker.                                           *)
(***************************************************************************)

\* errors.Is(runErr, context.Canceled), or a deadline when the parent is done.
IsCancelled == \/ result.cause = "canceled"
               \/ result.cause = "deadline" /\ parentDone

\* Mutant: the idle timeout's sentinel is forgotten.
classifyErrorNoIdle(cancelled) ==
  CASE cancelled -> "cancelled"
    [] ~cancelled /\ result.cause \in {"deadline", "netTimeout"} -> "timeout"
    [] ~cancelled /\ result.cause \notin {"deadline", "netTimeout"}
         -> IF result.err = "status" \/ result.StatusCode \notin {0, 200} THEN "http" ELSE "stream"

classifyError(cancelled) ==
  CASE cancelled -> "cancelled"
    [] ~cancelled /\ (result.cause \in {"deadline", "netTimeout"} \/ result.err = "idle")
         -> "timeout"
    [] ~cancelled /\ result.cause \notin {"deadline", "netTimeout"} /\ result.err # "idle"
         -> IF result.err = "status" \/ result.StatusCode \notin {0, 200} THEN "http" ELSE "stream"

ErrorClass ==
  CASE result.cause = "late" -> "none"
    [] result.cause # "late" /\ result.err # "none" -> classifyError(IsCancelled)
    [] result.err = "none" -> IF result.Usage = "invalid" THEN "usage" ELSE "none"

\* The dispatch stamp may be late only if RoundTrip, which looks at the clock
\* after it, has refused the request.
LateStamp == result.err = "send" /\ result.cause \in {"late", "canceled", "deadline"}

Classify ==
  /\ pc = "done" /\ outcome = NoOutcome
  /\ \E lateStamp \in {FALSE, LateStamp} :
       outcome' = [Dropped    |-> lateStamp \/ result.cause = "late",
                   Cancelled  |-> result.cause # "late" /\ result.err # "none" /\ IsCancelled,
                   ErrorClass |-> ErrorClass]
  /\ UNCHANGED <<vars, counted, record>>

-----------------------------------------------------------------------------
(***************************************************************************)
(* cmd/llm-slo-bench and internal/metrics.                                 *)
(***************************************************************************)
\* Mutant: the class of a cancelled request is not one of the switch's.
requestErrorByClass ==
  CASE outcome.ErrorClass = "none" -> "none"
    [] outcome.ErrorClass = "timeout" -> "deadline"
    [] outcome.ErrorClass = "http" -> "status"
    [] OTHER -> "other"

requestError ==
  CASE outcome.Cancelled -> "canceled"
    [] ~outcome.Cancelled ->
         CASE outcome.ErrorClass = "none" -> "none"
           [] outcome.ErrorClass = "timeout" -> "deadline"
           [] outcome.ErrorClass = "http" -> "status"
           [] OTHER -> "other"

\* Mutant: a request that got no response counts as an HTTP error.
ClassifyOutcomeNo200(requestErr) ==
  CASE requestErr = "none" /\ result.StatusCode = 200 -> "success"
    [] result.StatusCode # 200 -> "http_error"
    [] result.StatusCode = 200 /\ requestErr # "none" ->
         CASE requestErr = "deadline" -> "timeout"
           [] requestErr = "canceled" -> "canceled"
           [] OTHER -> "stream_error"

ClassifyOutcome(requestErr) ==
  CASE requestErr = "none" /\ result.StatusCode = 200 -> "success"
    [] result.StatusCode \notin {0, 200} -> "http_error"
    [] result.StatusCode \in {0, 200} /\ ~(requestErr = "none" /\ result.StatusCode = 200) ->
         CASE requestErr = "deadline" -> "timeout"
           [] requestErr = "canceled" -> "canceled"
           [] OTHER -> "stream_error"

\* Two contents in one event are no time apart: durationMicros refuses a
\* duration that is not positive, and one above the histogram's maximum.
GapsInRange == result.ContentEvents <= tokens
DurationsInRange ==
  /\ \A d \in {result.TTFB, result.TTFT, result.Duration} : d <= HistogramMax
  /\ GapsInRange

\* valuesFor.  Whether a throughput is in range depends on token counts and
\* fractions of a tick: it may or may not be.
Record ==
  LET class == ClassifyOutcome(requestError)
      acceptable == class # "success" \/ (DurationsInRange /\ result.Usage # "invalid")
      outOfRange == class = "success" /\ result.Usage = "valid"
  IN counted' \in (IF acceptable THEN {class} ELSE {"refused"})
                  \cup (IF outOfRange THEN {"refused"} ELSE {})

\* WriteResult: a record of any class, if its durations are in range.
WriteResult ==
  record' = IF DurationsInRange
              THEN [Outcome |-> ClassifyOutcome(requestError), StatusCode |-> result.StatusCode,
                    Usage |-> result.Usage]
              ELSE NoRecord

\* The loop body of runRamp: a dropped arrival has no record.
Process ==
  /\ outcome # NoOutcome /\ counted = "pending"
  /\ IF outcome.Dropped
       THEN counted' = "dropped" /\ record' = NoRecord
       ELSE Record /\ WriteResult
  /\ UNCHANGED <<vars, outcome>>

OutcomesNext == (Next /\ UNCHANGED outcomeVars) \/ Classify \/ Process

OutcomesSpec == OutcomesInit /\ [][OutcomesNext]_<<vars, outcomeVars>> /\ Fairness

-----------------------------------------------------------------------------
(***************************************************************************)
(* internal/report: validateRequestRecord.                                 *)
(***************************************************************************)
validateUsage(usage) == usage # "invalid"

validateRequestRecord(r) ==
  /\ r.Outcome = "success" => r.StatusCode = 200
  /\ r.Outcome = "http_error" => r.StatusCode \notin {0, 200}
  /\ r.Outcome = "dropped" => r.StatusCode = 0
  /\ r.Outcome \in {"canceled", "timeout", "stream_error"} => r.StatusCode \in {0, 200}
  /\ validateUsage(r.Usage)

-----------------------------------------------------------------------------
Processed == counted # "pending"

\* The class the load generator gives a request and the outcome the summary
\* counts it under name the same thing, although the second is derived from a
\* rebuilt error and a status code and the first from probe's error; and a
\* partial success is a success to neither (README).
ClassesAgree ==
  Processed /\ counted \notin {"dropped", "refused"} =>
    /\ counted = CASE outcome.ErrorClass = "none" -> "success"
                  [] outcome.ErrorClass = "cancelled" -> "canceled"
                  [] outcome.ErrorClass = "timeout" -> "timeout"
                  [] outcome.ErrorClass = "http" -> "http_error"
                  [] OTHER -> "stream_error"
    /\ counted = "success" => result.err = "none" /\ tokens > 0 /\ result.Usage # "invalid"

\* A request that a stalled server or its own deadline ended is charged to the
\* error rate as a timeout: a cancellation of the run that races with it can
\* excuse the deadline, and never the stall; and only an interrupted run has
\* cancelled requests, although an idle timer too cancels a context.
FaultsAttributed ==
  Processed /\ counted # "dropped" =>
    /\ result.err = "idle" => counted = "timeout"
    /\ result.cause = "deadline" /\ ~parentDone => counted = "timeout"
    /\ counted = "canceled" => parentDone

\* Every record that ramp appends is one that report accepts, unless the
\* server reported negative usage; so a status and an outcome never disagree.
RecordsReadable ==
  record # NoRecord /\ result.Usage # "invalid" => validateRequestRecord(record)

=============================================================================
