------------------------------ MODULE LoadGen ------------------------------
(***************************************************************************)
(* The open-loop load generator, internal/loadgen/loadgen.go: Run's        *)
(* scheduler goroutine, one worker goroutine per admitted arrival, the     *)
(* semaphore and completions channels between them, and the transport      *)
(* that refuses a request dispatched too late.                             *)
(*                                                                         *)
(* A step is the code between two accesses to state another goroutine can  *)
(* change (clock, context, channel); purely local code is merged into it.  *)
(* Time is a number of ticks since Run's start; money is a natural number  *)
(* of some unit (float64 rounding is not modelled).  What the probe does   *)
(* on the wire is the choice of Exchange; module Probe details it.         *)
(***************************************************************************)
EXTENDS Integers, FiniteSets

CONSTANTS
  N,              \* arrivals the ramp schedule yields
  Offset,         \* Offset[i]: intended arrival of i, in ticks from the start
  ScheduleFails,  \* whether schedule.next may fail, or only end, after N
  MaxInFlight,    \* load.max_in_flight
  MaxRequests,    \* safety.max_requests
  MaxDuration,    \* safety.max_duration
  MaxCostUSD,     \* safety.max_cost_usd
  Reserve,        \* safety.reserve_cost_per_request_usd
  MaxScheduleLag, \* lateness beyond which an arrival is dropped
  Costs,          \* what a server-reported usage may come to
  MaxTime         \* bound: the clock stops here

Arrivals == 1..N
Positive == Nat \ {0}

ASSUME LoadGenAssumption ==
  /\ N \in Nat
  /\ Offset \in [Arrivals -> Int]
  /\ ScheduleFails \in BOOLEAN
  /\ MaxInFlight \in Positive
  /\ MaxRequests \in Positive
  /\ MaxDuration \in Positive
  /\ MaxCostUSD \in Positive
  /\ Reserve \in Positive
  /\ MaxScheduleLag \in Positive
  /\ Costs \subseteq Nat
  /\ MaxTime \in Nat
  /\ \A i \in Arrivals : Offset[i] <= MaxTime   \* every arrival is reached

VARIABLES
  now,         \* the clock both goroutines read
  ctxDone,     \* whether the parent context is cancelled
  pc,          \* where the scheduler is
  sequence,    \* the arrival it is handling
  slots,       \* len(semaphore)
  completions, \* the completions channel: arrivals whose item is in it
  inFlight,    \* started and not yet collected
  heldCost,    \* reservations plus reconciled costs
  knownCost,   \* Result.KnownCostUSD
  counts,      \* Result.Counts
  stopReason,  \* Result.StopReason
  outcomes,    \* Result.Outcomes, by sequence number (Run sorts it so)
  retErr,      \* the error Run returned
  worker,      \* where each arrival's goroutine is
  stamp,       \* each worker's dispatch time
  item,        \* the outcome each worker hands over
  sent         \* history: arrivals whose request reached the base transport

schedulerVars == <<pc, sequence, retErr>>
resultVars    == <<heldCost, knownCost, counts, stopReason, outcomes>>
channelVars   == <<slots, completions, inFlight>>
workerVars    == <<worker, stamp, item, sent>>
vars == <<now, ctxDone, schedulerVars, resultVars, channelVars, workerVars>>

Breach == "cost_reservation_breach"
StopReasons == {"none", "request_limit", "duration_limit", "cost_limit", Breach}
Drops == {"late", "saturated"}
Finishes == {"succeeded", "failed", "cancelled"}

Draining == {"drain", "drainFull", "drainHeld"}
SchedulerPCs == Draining \cup {"next", "wait", "lag", "acquire", "retry",
                               "ready", "rejecting", "collect", "returned"}

\* Worker states before the scheduler's decision, and while it counts as in flight.
Undecided == {"spawned", "offered", "refused"}
Running   == {"accepted", "probing", "dialing", "onwire", "reporting"}
WorkerPCs == {"none", "gone"} \cup Undecided \cup Running

Unknown == -1     \* no valid usage, so no cost
Items == [dropped : BOOLEAN, verdict : Finishes, cost : Costs \cup {Unknown}]

-----------------------------------------------------------------------------
Init ==
  /\ now = 0
  /\ ctxDone = FALSE
  /\ pc = "next" /\ sequence = 0 /\ retErr = "none"
  /\ slots = 0 /\ completions = {} /\ inFlight = 0
  /\ heldCost = 0 /\ knownCost = 0 /\ stopReason = "none"
  /\ counts = [Scheduled |-> 0, Started |-> 0, Completed |-> 0, Succeeded |-> 0,
               Failed |-> 0, Cancelled |-> 0, Dropped |-> 0]
  /\ outcomes = [i \in Arrivals |-> "none"]
  /\ worker = [i \in Arrivals |-> "none"]
  /\ stamp = [i \in Arrivals |-> 0]
  /\ item = [i \in Arrivals |->
               [dropped |-> FALSE, verdict |-> "succeeded", cost |-> Unknown]]
  /\ sent = {}

(***************************************************************************)
(* The environment: time passes, and SIGINT or SIGTERM cancels the         *)
(* context at any moment.                                                  *)
(***************************************************************************)
Tick ==
  /\ now < MaxTime
  /\ now' = now + 1
  /\ UNCHANGED <<ctxDone, schedulerVars, resultVars, channelVars, workerVars>>

Cancel ==
  /\ ~ctxDone
  /\ ctxDone' = TRUE
  /\ UNCHANGED <<now, schedulerVars, resultVars, channelVars, workerVars>>

-----------------------------------------------------------------------------
(***************************************************************************)
(* The scheduler loop.                                                     *)
(***************************************************************************)
Late(i, t) == t - Offset[i] > MaxScheduleLag
\* Mutant: the reservations already held are forgotten.
AdmissibleByKnownCost == knownCost + Reserve <= MaxCostUSD
Admissible == heldCost + Reserve <= MaxCostUSD
Breached == stopReason = Breach

\* break: leave the loop and wait for what is in flight.
Break == pc' = "collect" /\ UNCHANGED stopReason
Stop(reason) == pc' = "collect" /\ stopReason' = reason

\* The slot the scheduler took for the current arrival.
TakeSlot == slots' = slots + 1
FreeSlot == slots' = slots - 1

\* schedule.next has no more arrivals: the loop ends.
ScheduleEnds ==
  /\ pc = "next" /\ sequence = N
  /\ Break
  /\ UNCHANGED <<now, ctxDone, sequence, retErr, heldCost, knownCost, counts,
                 outcomes, channelVars, workerVars>>

\* schedule.next fails: Run returns at once, whatever is still in flight.
ScheduleError ==
  /\ pc = "next" /\ sequence = N /\ ScheduleFails
  /\ pc' = "returned" /\ retErr' = "schedule"
  /\ UNCHANGED <<now, ctxDone, sequence, resultVars, channelVars, workerVars>>

\* Mutant: the request limit counts completed requests.
TakeArrivalByCompleted ==
  /\ pc = "next" /\ sequence < N
  /\ sequence' = sequence + 1
  /\ \/ counts.Completed >= MaxRequests /\ Stop("request_limit")
     \/ counts.Completed < MaxRequests /\ pc' = "wait" /\ UNCHANGED stopReason
  /\ UNCHANGED <<now, ctxDone, retErr, heldCost, knownCost, counts, outcomes,
                 channelVars, workerVars>>

\* schedule.next yields the next arrival; the request and duration limits.
TakeArrival ==
  /\ pc = "next" /\ sequence < N
  /\ sequence' = sequence + 1
  /\ \/ /\ counts.Started >= MaxRequests
        /\ Stop("request_limit")
     \/ /\ counts.Started < MaxRequests
        /\ Offset[sequence + 1] > MaxDuration
        /\ Stop("duration_limit")
     \/ /\ counts.Started < MaxRequests
        /\ Offset[sequence + 1] <= MaxDuration
        /\ pc' = "wait" /\ UNCHANGED stopReason
  /\ UNCHANGED <<now, ctxDone, retErr, heldCost, knownCost, counts, outcomes,
                 channelVars, workerVars>>

\* WaitUntil: the select may take either ready case.
WaitUntil ==
  /\ pc = "wait"
  /\ \/ now >= Offset[sequence] /\ pc' = "drain"
     \/ ctxDone /\ pc' = "collect"
  /\ UNCHANGED <<now, ctxDone, sequence, retErr, resultVars, channelVars, workerVars>>

\* collect: take i's item off the channel, free its slot and account for it.
ReleaseReservation(i) == heldCost' = heldCost - Reserve

\* Mutants: a late drop that stays started, or keeps its reservation.
CollectDroppedStarted(i) ==
  /\ item[i].dropped
  /\ ReleaseReservation(i)
  /\ counts' = [counts EXCEPT !.Dropped = @ + 1]
  /\ outcomes' = [outcomes EXCEPT ![i] = "late"]
  /\ UNCHANGED <<knownCost, stopReason>>
CollectDroppedHeld(i) ==
  /\ item[i].dropped
  /\ counts' = [counts EXCEPT !.Started = @ - 1, !.Dropped = @ + 1]
  /\ outcomes' = [outcomes EXCEPT ![i] = "late"]
  /\ UNCHANGED <<heldCost, knownCost, stopReason>>

CollectDropped(i) ==
  /\ item[i].dropped
  /\ ReleaseReservation(i)
  /\ counts' = [counts EXCEPT !.Started = @ - 1, !.Dropped = @ + 1]
  /\ outcomes' = [outcomes EXCEPT ![i] = "late"]
  /\ UNCHANGED <<knownCost, stopReason>>

Tally(c, verdict) ==
  [c EXCEPT !.Completed = @ + 1,
            !.Succeeded = IF verdict = "succeeded" THEN @ + 1 ELSE @,
            !.Failed    = IF verdict = "failed" THEN @ + 1 ELSE @,
            !.Cancelled = IF verdict = "cancelled" THEN @ + 1 ELSE @]

\* A known cost replaces the reservation; an unknown one leaves it held.
Reconcile(cost) ==
  IF cost = Unknown
  THEN UNCHANGED <<heldCost, knownCost, stopReason>>
  ELSE /\ knownCost' = knownCost + cost
       /\ heldCost' = heldCost + cost - Reserve
       /\ stopReason' = IF cost > Reserve THEN Breach ELSE stopReason

CollectFinished(i) ==
  /\ ~item[i].dropped
  /\ counts' = Tally(counts, item[i].verdict)
  /\ Reconcile(item[i].cost)
  /\ outcomes' = [outcomes EXCEPT ![i] = item[i].verdict]

Collect(i) ==
  /\ i \in completions
  /\ completions' = completions \ {i}
  /\ inFlight' = inFlight - 1
  /\ FreeSlot
  /\ CollectDropped(i) \/ CollectFinished(i)
  /\ UNCHANGED <<now, ctxDone, schedulerVars, workerVars>>

\* drain, and the final loop that collects until nothing is in flight.
Drain == pc \in Draining /\ \E i \in completions : Collect(i)
FinalCollect == pc = "collect" /\ inFlight > 0 /\ \E i \in completions : Collect(i)

\* Mutant: the limits are checked before the breach.
GateBreachLast ==
  /\ pc = "drain" /\ completions = {}
  /\ \/ now > MaxDuration /\ Stop("duration_limit") /\ UNCHANGED counts
     \/ /\ now <= MaxDuration /\ ~Admissible
        /\ Stop("cost_limit") /\ UNCHANGED counts
     \/ /\ now <= MaxDuration /\ Admissible
        /\ Breached \/ ctxDone
        /\ Break /\ UNCHANGED counts
     \/ /\ now <= MaxDuration /\ Admissible
        /\ ~Breached /\ ~ctxDone
        /\ counts' = [counts EXCEPT !.Scheduled = @ + 1]
        /\ pc' = "lag" /\ UNCHANGED stopReason
  /\ UNCHANGED <<now, ctxDone, sequence, retErr, heldCost, knownCost, outcomes,
                 channelVars, workerVars>>

\* The first drain is over: breach, cancellation, duration and cost limits.
Gate ==
  /\ pc = "drain" /\ completions = {}
  /\ \/ (Breached \/ ctxDone) /\ Break /\ UNCHANGED counts
     \/ /\ ~Breached /\ ~ctxDone
        /\ now > MaxDuration
        /\ Stop("duration_limit") /\ UNCHANGED counts
     \/ /\ ~Breached /\ ~ctxDone
        /\ now <= MaxDuration /\ ~Admissible
        /\ Stop("cost_limit") /\ UNCHANGED counts
     \/ /\ ~Breached /\ ~ctxDone
        /\ now <= MaxDuration /\ Admissible
        /\ counts' = [counts EXCEPT !.Scheduled = @ + 1]
        /\ pc' = "lag" /\ UNCHANGED stopReason
  /\ UNCHANGED <<now, ctxDone, sequence, retErr, heldCost, knownCost, outcomes,
                 channelVars, workerVars>>

\* droppedOutcome for the current arrival, then continue.
Drop(reason) ==
  /\ counts' = [counts EXCEPT !.Dropped = @ + 1]
  /\ outcomes' = [outcomes EXCEPT ![sequence] = reason]
  /\ pc' = "next"
  /\ UNCHANGED <<now, ctxDone, sequence, retErr, knownCost, stopReason>>

CheckLag ==
  /\ pc = "lag"
  /\ \/ /\ Late(sequence, now)
        /\ Drop("late")
     \/ /\ ~Late(sequence, now)
        /\ pc' = IF ctxDone THEN "collect" ELSE "acquire"
        /\ UNCHANGED <<now, ctxDone, sequence, retErr, knownCost, counts,
                       stopReason, outcomes>>
  /\ UNCHANGED <<heldCost, channelVars, workerVars>>

\* Mutant: a semaphore with room for one more.
AcquireOneMore ==
  /\ pc = "acquire"
  /\ \/ slots <= MaxInFlight /\ TakeSlot /\ pc' = "drainHeld"
     \/ slots > MaxInFlight /\ UNCHANGED slots /\ pc' = "drainFull"
  /\ UNCHANGED <<now, ctxDone, sequence, retErr, completions, inFlight,
                 resultVars, workerVars>>

\* The two non-blocking sends on the semaphore, with a drain between them.
Acquire ==
  /\ pc = "acquire"
  /\ \/ slots < MaxInFlight /\ TakeSlot /\ pc' = "drainHeld"
     \/ slots = MaxInFlight /\ UNCHANGED slots /\ pc' = "drainFull"
  /\ UNCHANGED <<now, ctxDone, sequence, retErr, completions, inFlight,
                 resultVars, workerVars>>

Saturated ==
  /\ pc = "drainFull" /\ completions = {}
  /\ pc' = IF Breached \/ ctxDone THEN "collect" ELSE "retry"
  /\ UNCHANGED <<now, ctxDone, sequence, retErr, resultVars, channelVars, workerVars>>

\* Mutant: the second send on the semaphore blocks, so nobody collects.
RetryBlocking ==
  /\ pc = "retry"
  /\ \/ /\ slots < MaxInFlight /\ TakeSlot
        /\ pc' = "drainHeld"
     \/ slots = MaxInFlight /\ UNCHANGED <<pc, slots>>
  /\ UNCHANGED <<now, ctxDone, sequence, retErr, resultVars, completions, inFlight,
                 workerVars>>

Retry ==
  /\ pc = "retry"
  /\ \/ /\ slots < MaxInFlight /\ TakeSlot
        /\ pc' = "drainHeld"
        /\ UNCHANGED <<now, ctxDone, sequence, retErr, knownCost, counts,
                       stopReason, outcomes>>
     \/ /\ slots = MaxInFlight /\ UNCHANGED slots
        /\ Drop("saturated")
  /\ UNCHANGED <<heldCost, completions, inFlight, workerVars>>

\* Mutants: a break that keeps the slot; what the last drain found is ignored.
SpawnLeak ==
  /\ pc = "drainHeld" /\ completions = {}
  /\ \/ /\ Breached \/ ctxDone
        /\ Break
        /\ UNCHANGED <<heldCost, worker>>
     \/ /\ ~Breached /\ ~ctxDone
        /\ heldCost' = heldCost + Reserve
        /\ worker' = [worker EXCEPT ![sequence] = "spawned"]
        /\ pc' = "ready"
        /\ UNCHANGED stopReason
  /\ UNCHANGED <<now, ctxDone, sequence, retErr, knownCost, counts, outcomes,
                 slots, completions, inFlight, stamp, item, sent>>
SpawnAnyway ==
  /\ pc = "drainHeld" /\ completions = {}
  /\ heldCost' = heldCost + Reserve
  /\ worker' = [worker EXCEPT ![sequence] = "spawned"]
  /\ pc' = "ready"
  /\ UNCHANGED <<now, ctxDone, sequence, retErr, knownCost, counts, stopReason,
                 outcomes, channelVars, stamp, item, sent>>

\* The slot is held: reserve the cost and start the goroutine, unless it is over.
Spawn ==
  /\ pc = "drainHeld" /\ completions = {}
  /\ \/ /\ Breached \/ ctxDone
        /\ FreeSlot /\ Break
        /\ UNCHANGED <<heldCost, worker>>
     \/ /\ ~Breached /\ ~ctxDone
        /\ heldCost' = heldCost + Reserve
        /\ worker' = [worker EXCEPT ![sequence] = "spawned"]
        /\ pc' = "ready"
        /\ UNCHANGED <<slots, stopReason>>
  /\ UNCHANGED <<now, ctxDone, sequence, retErr, knownCost, counts, outcomes,
                 completions, inFlight, stamp, item, sent>>

\* <-workerReady, then proceed <- false or proceed <- true.
Refuse ==
  /\ pc = "ready" /\ worker[sequence] = "offered"
  /\ Late(sequence, stamp[sequence]) \/ ctxDone
  /\ worker' = [worker EXCEPT ![sequence] = "refused"]
  /\ pc' = "rejecting"
  /\ UNCHANGED <<now, ctxDone, sequence, retErr, resultVars, channelVars,
                 stamp, item, sent>>

Start ==
  /\ pc = "ready" /\ worker[sequence] = "offered"
  /\ ~Late(sequence, stamp[sequence]) /\ ~ctxDone
  /\ counts' = [counts EXCEPT !.Started = @ + 1]
  /\ inFlight' = inFlight + 1
  /\ worker' = [worker EXCEPT ![sequence] = "accepted"]
  /\ pc' = "next"
  /\ UNCHANGED <<now, ctxDone, sequence, retErr, heldCost, knownCost, stopReason,
                 outcomes, slots, completions, stamp, item, sent>>

\* Mutant: the scheduler frees the slot of the refused worker once more.
RejectedFreesSlot ==
  /\ pc = "rejecting" /\ worker[sequence] = "gone"
  /\ ReleaseReservation(sequence)
  /\ FreeSlot
  /\ \/ /\ ctxDone /\ Break
        /\ UNCHANGED <<now, ctxDone, sequence, retErr, knownCost, counts, outcomes>>
     \/ ~ctxDone /\ Drop("late")
  /\ UNCHANGED <<completions, inFlight, workerVars>>

\* <-rejected: the worker has freed the slot itself.
Rejected ==
  /\ pc = "rejecting" /\ worker[sequence] = "gone"
  /\ ReleaseReservation(sequence)
  /\ \/ /\ ctxDone /\ Break
        /\ UNCHANGED <<now, ctxDone, sequence, retErr, knownCost, counts, outcomes>>
     \/ ~ctxDone /\ Drop("late")
  /\ UNCHANGED <<channelVars, workerVars>>

\* Mutant: cancellation does not wait for what is in flight.
ReturnAtOnce ==
  /\ pc = "collect" /\ (inFlight = 0 \/ ctxDone)
  /\ pc' = "returned"
  /\ retErr' = IF ctxDone THEN "cancelled" ELSE "none"
  /\ UNCHANGED <<now, ctxDone, sequence, resultVars, channelVars, workerVars>>

\* Nothing is in flight any more: Run returns.
Return ==
  /\ pc = "collect" /\ inFlight = 0
  /\ pc' = "returned"
  /\ retErr' = IF ctxDone THEN "cancelled" ELSE "none"
  /\ UNCHANGED <<now, ctxDone, sequence, resultVars, channelVars, workerVars>>

Scheduler ==
  \/ ScheduleEnds \/ ScheduleError \/ TakeArrival \/ WaitUntil
  \/ Drain \/ Gate \/ CheckLag \/ Acquire \/ Saturated \/ Retry
  \/ Spawn \/ Refuse \/ Start \/ Rejected \/ FinalCollect \/ Return

-----------------------------------------------------------------------------
(***************************************************************************)
(* A worker goroutine, and the part of probe.Run that decides whether and  *)
(* when the request reaches the network.                                   *)
(***************************************************************************)
Goto(i, from, to) == worker[i] = from /\ worker' = [worker EXCEPT ![i] = to]

\* dispatch := clk.Now(); workerReady <- dispatch
Offer(i) ==
  /\ Goto(i, "spawned", "offered")
  /\ stamp' = [stamp EXCEPT ![i] = now]
  /\ UNCHANGED <<now, ctxDone, schedulerVars, resultVars, channelVars, item, sent>>

\* proceed delivered false: free the slot and close(rejected).
Withdraw(i) ==
  /\ Goto(i, "refused", "gone")
  /\ FreeSlot
  /\ UNCHANGED <<now, ctxDone, schedulerVars, resultVars, completions, inFlight,
                 stamp, item, sent>>

(***************************************************************************)
(* The outcome of a request that ended with err ("none", "canceled",       *)
(* "deadline", "late" for errDispatchLate, or "request" for any other) and *)
(* the cost of its usage, if it reported a valid one.  probed: whether     *)
(* probe.Run stamped Result.Dispatch.                                      *)
(***************************************************************************)
Dropped(i, probed, err) == (probed /\ Late(i, stamp[i])) \/ err = "late"
Verdict(err, badUsage) ==
  CASE err = "canceled" \/ (err = "deadline" /\ ctxDone) -> "cancelled"
    [] err \in {"none", "late"} /\ ~badUsage           -> "succeeded"
    [] OTHER                                           -> "failed"
Finish(i, from, probed, err, badUsage, cost) ==
  /\ Goto(i, from, "reporting")
  /\ item' = [item EXCEPT ![i] = [dropped |-> Dropped(i, probed, err),
                                  verdict |-> Verdict(err, badUsage),
                                  cost    |-> cost]]
  /\ UNCHANGED <<now, ctxDone, schedulerVars, resultVars, channelVars, stamp, sent>>

\* proceed delivered true: ctx.Err() before the probe runs.
CheckContext(i) ==
  \/ /\ ctxDone
     /\ Finish(i, "accepted", FALSE, "canceled", FALSE, Unknown)
  \/ /\ ~ctxDone
     /\ Goto(i, "accepted", "probing")
     /\ UNCHANGED <<now, ctxDone, schedulerVars, resultVars, channelVars,
                    stamp, item, sent>>

\* probe.Run fails to build the request, or stamps Dispatch and calls Do.
BeginProbe(i) ==
  \/ Finish(i, "probing", FALSE, "request", FALSE, Unknown)
  \/ /\ Goto(i, "probing", "dialing")
     /\ stamp' = [stamp EXCEPT ![i] = now]
     /\ UNCHANGED <<now, ctxDone, schedulerVars, resultVars, channelVars, item, sent>>

\* Mutant: one tick of grace.
DispatchDeadlineGrace(i) == Offset[i] + MaxScheduleLag + 1

\* dispatchDeadlineTransport.RoundTrip, first call: request context, deadline, base.
DispatchDeadline(i) == Offset[i] + MaxScheduleLag
RoundTrip(i) ==
  \/ /\ ctxDone
     /\ Finish(i, "dialing", TRUE, "canceled", FALSE, Unknown)
  \/ Finish(i, "dialing", TRUE, "deadline", FALSE, Unknown)
  \/ /\ ~ctxDone /\ now > DispatchDeadline(i)
     /\ Finish(i, "dialing", TRUE, "late", FALSE, Unknown)
  \/ /\ ~ctxDone /\ now <= DispatchDeadline(i)
     /\ Goto(i, "dialing", "onwire")
     /\ sent' = sent \cup {i}
     /\ UNCHANGED <<now, ctxDone, schedulerVars, resultVars, channelVars, stamp, item>>

\* probe.Run returns, with an error or not, with valid, invalid or no usage.
Exchange(i) ==
  \E err \in {"none", "canceled", "deadline", "request"},
     badUsage \in BOOLEAN, cost \in Costs \cup {Unknown} :
    /\ err = "canceled" => ctxDone
    /\ badUsage => cost = Unknown
    /\ Finish(i, "onwire", TRUE, err, badUsage, cost)

\* completions <- item: blocks while the channel is full.
Report(i) ==
  /\ Cardinality(completions) < MaxInFlight
  /\ Goto(i, "reporting", "gone")
  /\ completions' = completions \cup {i}
  /\ UNCHANGED <<now, ctxDone, schedulerVars, resultVars, slots, inFlight,
                 stamp, item, sent>>

Worker(i) ==
  \/ Offer(i) \/ Withdraw(i) \/ CheckContext(i) \/ BeginProbe(i)
  \/ RoundTrip(i) \/ Exchange(i) \/ Report(i)

\* Run has returned and every goroutine it started has ended.
Terminated ==
  /\ pc = "returned" /\ \A i \in Arrivals : worker[i] \in {"none", "gone"}
  /\ UNCHANGED vars

Next == Tick \/ Cancel \/ Scheduler \/ (\E i \in Arrivals : Worker(i)) \/ Terminated

(***************************************************************************)
(* Fairness: the clock advances, the Go runtime runs every goroutine that  *)
(* is not blocked, and an exchange ends because probe.Run bounds it with   *)
(* request.timeout.  Nobody has to cancel.                                 *)
(***************************************************************************)
Fairness == WF_vars(Tick) /\ WF_vars(Scheduler) /\ \A i \in Arrivals : WF_vars(Worker(i))

Spec == Init /\ [][Next]_vars /\ Fairness

-----------------------------------------------------------------------------
(***************************************************************************)
(* Correctness.  First the bookkeeping: which arrivals account for the     *)
(* semaphore, the in-flight count, the started count and the held budget.  *)
(***************************************************************************)

\* Every variable has its type.  The counters stay natural although collect
\* and Rejected decrement them, and the semaphore never overflows.
TypeOK ==
  /\ now \in Nat
  /\ ctxDone \in BOOLEAN
  /\ pc \in SchedulerPCs
  /\ sequence \in 0..N
  /\ slots \in 0..MaxInFlight
  /\ completions \in SUBSET Arrivals
  /\ inFlight \in Nat
  /\ heldCost \in Nat
  /\ knownCost \in Nat
  /\ counts \in [Scheduled : Nat, Started : Nat, Completed : Nat, Succeeded : Nat,
                 Failed : Nat, Cancelled : Nat, Dropped : Nat]
  /\ stopReason \in StopReasons
  /\ outcomes \in [Arrivals -> {"none"} \cup Drops \cup Finishes]
  /\ retErr \in {"none", "schedule", "cancelled"}
  /\ worker \in [Arrivals -> WorkerPCs]
  /\ stamp \in [Arrivals -> Nat]
  /\ item \in [Arrivals -> Items]
  /\ sent \in SUBSET Arrivals

InFlight == {i \in Arrivals : worker[i] \in Running} \cup completions
SlotHolders == InFlight \cup {i \in Arrivals : worker[i] \in Undecided}
Finished == {i \in Arrivals : outcomes[i] \in Finishes}
DroppedArrivals == {i \in Arrivals : outcomes[i] \in Drops}
CostKept == {i \in Finished : item[i].cost = Unknown}
Unsettled == IF pc = "rejecting" THEN {sequence} ELSE {}
Holding == SlotHolders \cup CostKept \cup Unsettled

\* The semaphore counts exactly the arrivals being started or in flight, and
\* the slot the scheduler has taken but not used yet: neither the worker that
\* frees the slot of a refused start nor a break out of the loop leaks or
\* frees one twice.
SlotsAccounted ==
  slots = Cardinality(SlotHolders) + (IF pc = "drainHeld" THEN 1 ELSE 0)

\* README: max_in_flight is a hard ceiling on concurrent requests.  Requests on
\* the wire, and goroutines that may still send one, never exceed it.
InFlightCeiling ==
  Cardinality({i \in Arrivals : worker[i] \in Running}) <= MaxInFlight

\* A worker never waits to hand its completion over, although the scheduler may
\* sleep until the next arrival: the channel has room for whoever reports.
SendNeverBlocks ==
  \A i \in Arrivals : worker[i] = "reporting" => Cardinality(completions) < MaxInFlight

\* Counts agree with the outcomes and with what is in flight at every moment,
\* although Started is incremented at admission and taken back when the
\* transport refuses a request that was dispatched too late.
CountsAgree ==
  /\ inFlight = Cardinality(InFlight)
  /\ counts.Completed = Cardinality(Finished)
  /\ counts.Completed = counts.Succeeded + counts.Failed + counts.Cancelled
  /\ counts.Started = counts.Completed + inFlight
  /\ counts.Dropped = Cardinality(DroppedArrivals)

\* heldCost is the known cost plus one reservation for each arrival that may
\* still cost something or whose cost was never reported.
ReservationsAccounted ==
  heldCost = knownCost + Reserve * Cardinality(Holding)

\* README: cost admission is reservation based.  As long as no request has cost
\* more than its reservation, known costs and reservations stay in the budget.
\* Once one has, only requests already in flight can overshoot: at most
\* MaxInFlight of them, each by what the dearest request exceeds Reserve by.
WithinBudget == ~Breached => heldCost <= MaxCostUSD
OvershootBounded ==
  Breached => \E c \in Costs : /\ c > Reserve
                               /\ heldCost <= MaxCostUSD + MaxInFlight * (c - Reserve)
BudgetHeld == WithinBudget /\ OvershootBounded

\* Dropped arrivals do not enter the error budget because no request was made
\* (metrics/aggregate.go): an arrival recorded as dropped, before its goroutine
\* started or after its transport was called, never reached the network.
DroppedNeverSent == DroppedArrivals \cap sent = {}

\* safety.max_requests bounds the requests that reach the network, although a
\* late drop gives its place back to a later arrival.
RequestCap == Cardinality(sent) <= MaxRequests

\* What Run returns is complete: nothing is held or running, every started
\* request is counted once, and of the arrivals scheduled only the last one, on
\* cancellation or breach, may have neither started nor been dropped.
ReturnReconciled ==
  (pc = "returned" /\ retErr # "schedule") =>
    /\ slots = 0 /\ SlotHolders = {}
    /\ counts.Started = counts.Completed
    /\ counts.Scheduled - (counts.Started + counts.Dropped)
         \in {0} \cup (IF ctxDone \/ Breached THEN {1} ELSE {})

\* The flag --raw-jsonl (cmd/llm-slo-bench/main.go) appends one record per
\* started request, taken from the outcomes Run returns: every request that was
\* started has one.
StartedRecorded ==
  pc = "returned" => \A i \in sent : outcomes[i] # "none"

\* A cost that breaches its reservation stops admission for good: the reason is
\* never replaced, and from the collect that finds it nothing new is started.
BreachStops ==
  [][Breached => stopReason' = Breach /\ inFlight' <= inFlight]_vars

\* Run returns: no order of completions, drops, cancellation and limits leaves
\* the scheduler waiting for a completion or a handshake that never comes.
Termination == <>(pc = "returned")

-----------------------------------------------------------------------------
(***************************************************************************)
(* The generator implements Admission: a request is decided about when the *)
(* scheduler answers its goroutine, and settled when its completion is     *)
(* collected.  The reservation of an arrival whose goroutine has not been  *)
(* answered yet is not part of the abstract budget.                        *)
(***************************************************************************)
RequestState(i) ==
  IF outcomes[i] \in Drops THEN "dropped"
  ELSE IF outcomes[i] \in Finishes THEN "finished"
  ELSE IF i \in sent THEN "sent"
  ELSE IF i \in InFlight THEN "admitted"
  ELSE "pending"

Tentative == IF pc \in {"ready", "rejecting"} THEN Reserve ELSE 0

A == INSTANCE Admission WITH request  <- [i \in Arrivals |-> RequestState(i)],
                             held     <- heldCost - Tentative,
                             breached <- Breached

\* Whatever the interleaving of scheduler and workers, the run is one Admission
\* allows, in which every admitted request is settled.
ImplementsAdmission == A!Spec

=============================================================================
