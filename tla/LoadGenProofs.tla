--------------------------- MODULE LoadGenProofs ---------------------------
(***************************************************************************)
(* Proofs about LoadGen, in layers.  Structure, which says where an        *)
(* arrival can be while the scheduler is at each point, is inductive by    *)
(* itself.  The counting facts are inductive on top of it, because each    *)
(* action moves one arrival between the counted sets.  The budget and the  *)
(* request limit follow from those, and what Run returns from the balance  *)
(* of scheduled against started and dropped arrivals.  The refinement of   *)
(* Admission follows.                                                      *)
(*                                                                         *)
(* The last part is about Schedule, the offsets the scheduler waits for:   *)
(* each is the instant at which the configured rates have offered as many  *)
(* requests as are due by then, whatever the stages.                       *)
(***************************************************************************)
EXTENDS LoadGen, Schedule, SumTheorems

CountsType == [Scheduled : Int, Started : Int, Completed : Int, Succeeded : Int,
               Failed : Int, Cancelled : Int, Dropped : Int]

\* TypeOK without what needs counting: integers where TypeOK has naturals.
Shape ==
  /\ now \in Nat
  /\ ctxDone \in BOOLEAN
  /\ pc \in SchedulerPCs
  /\ sequence \in 0..N
  /\ slots \in Int
  /\ completions \in SUBSET Arrivals
  /\ inFlight \in Int
  /\ heldCost \in Int
  /\ knownCost \in Nat
  /\ counts \in CountsType
  /\ stopReason \in StopReasons
  /\ outcomes \in [Arrivals -> {"none"} \cup Drops \cup Finishes]
  /\ retErr \in {"none", "schedule", "cancelled"}
  /\ worker \in [Arrivals -> WorkerPCs]
  /\ stamp \in [Arrivals -> Nat]
  /\ item \in [Arrivals -> Items]
  /\ sent \in SUBSET Arrivals

\* The scheduler is deciding about the current arrival, not yet spawned.
Deciding == {"wait", "drain", "lag", "acquire", "drainFull", "retry", "drainHeld"}

\* Arrivals the scheduler has not come to, or is deciding about, are untouched.
Untouched(i) == worker[i] = "none" /\ outcomes[i] = "none" /\ i \notin sent
FutureUntouched ==
  /\ \A i \in Arrivals : i > sequence => Untouched(i)
  /\ pc \in Deciding => sequence \in Arrivals /\ Untouched(sequence)

\* The handshake between the scheduler and the goroutine of the current arrival.
Handshake ==
  /\ pc = "ready" => sequence \in Arrivals /\ worker[sequence] \in {"spawned", "offered"}
  /\ pc = "rejecting" => sequence \in Arrivals /\ worker[sequence] \in {"refused", "gone"}
  /\ pc \in {"ready", "rejecting"} =>
       outcomes[sequence] = "none" /\ sequence \notin sent \cup completions
  /\ \A i \in Arrivals :
       /\ worker[i] \in {"spawned", "offered"} => pc = "ready" /\ i = sequence
       /\ worker[i] = "refused" => pc = "rejecting" /\ i = sequence

\* An arrival has an outcome only when it is in no other hands.
Exclusive ==
  \A i \in Arrivals :
    /\ i \in completions => worker[i] = "gone" /\ outcomes[i] = "none"
    /\ worker[i] \in Undecided \cup Running => outcomes[i] = "none"

\* An item is marked as dropped only if its request was not sent, and has a cost
\* only if it was.
SentInTime ==
  \A i \in Arrivals :
    /\ stamp[i] <= now
    /\ i \in sent => worker[i] \in {"onwire", "reporting", "gone"}
    /\ i \in sent /\ worker[i] = "gone" => i \in completions \/ outcomes[i] # "none"
    /\ i \in sent /\ worker[i] = "onwire" => ~Late(i, stamp[i])
    /\ i \in sent /\ worker[i] \in {"reporting", "gone"} => ~item[i].dropped
    /\ outcomes[i] \in Drops => i \notin sent
    /\ worker[i] = "onwire" => i \in sent
    /\ item[i].cost # Unknown => i \in sent

Structure == Shape /\ FutureUntouched /\ Handshake /\ Exclusive /\ SentInTime

USE DEF SchedulerPCs, Draining, WorkerPCs, Undecided, Running, Deciding

LEMMA StructureInit == Init => Structure
<1> SUFFICES ASSUME Init PROVE Structure
  OBVIOUS
<1> USE DEF Init
<1>1. Shape
  <2>1. item \in [Arrivals -> Items]
    BY DEF Items, Finishes
  <2>2. sequence \in 0..N
    BY LoadGenAssumption
  <2>3. outcomes \in [Arrivals -> {"none"} \cup Drops \cup Finishes] /\ worker \in [Arrivals -> WorkerPCs] /\ stamp \in [Arrivals -> Nat]
    OBVIOUS
  <2>4. counts \in CountsType
    BY DEF CountsType
  <2>5. pc \in SchedulerPCs /\ stopReason \in StopReasons
    BY DEF StopReasons
  <2> QED
  BY <2>1, <2>2, <2>3, <2>4, <2>5
  DEF Shape, StopReasons, CountsType
<1>2. FutureUntouched
  BY DEF FutureUntouched, Untouched
<1>3. Handshake
  BY DEF Handshake
<1>4. Exclusive
  BY DEF Exclusive
<1>5. SentInTime
  BY DEF SentInTime, Drops
<1> QED
  BY <1>1, <1>2, <1>3, <1>4, <1>5 DEF Structure

LEMMA TallyType ==
  ASSUME NEW c \in CountsType, NEW v \in Finishes
  PROVE  Tally(c, v) \in CountsType
<1> DEFINE succeeded == IF v = "succeeded" THEN c.Succeeded + 1 ELSE c.Succeeded
           failed    == IF v = "failed" THEN c.Failed + 1 ELSE c.Failed
           cancelled == IF v = "cancelled" THEN c.Cancelled + 1 ELSE c.Cancelled
<1>1. succeeded \in Int /\ failed \in Int /\ cancelled \in Int /\ c.Completed + 1 \in Int
  BY DEF CountsType
<1>2. Tally(c, v) = [c EXCEPT !.Completed = c.Completed + 1, !.Succeeded = succeeded,
                              !.Failed = failed, !.Cancelled = cancelled]
  BY DEF Tally
<1> HIDE DEF succeeded, failed, cancelled
<1> QED
  BY <1>1, <1>2 DEF CountsType

LEMMA TallyCounts ==
  ASSUME NEW c \in CountsType, NEW v \in Finishes
  PROVE  /\ Tally(c, v).Completed = c.Completed + 1
         /\ Tally(c, v).Succeeded + Tally(c, v).Failed + Tally(c, v).Cancelled
              = c.Succeeded + c.Failed + c.Cancelled + 1
         /\ Tally(c, v).Succeeded >= c.Succeeded /\ Tally(c, v).Failed >= c.Failed
         /\ Tally(c, v).Cancelled >= c.Cancelled /\ Tally(c, v).Scheduled = c.Scheduled
         /\ Tally(c, v).Started = c.Started /\ Tally(c, v).Dropped = c.Dropped
  BY DEF Tally, CountsType, Finishes

\* A step that touches no arrival, and neither enters nor leaves the handshake.
LEMMA QuietStructure ==
  ASSUME Structure, Shape',
         UNCHANGED <<sequence, completions, outcomes, worker, stamp, item, sent>>,
         now' >= now,
         pc' \in Deciding => pc \in Deciding,
         {pc, pc'} \cap {"ready", "rejecting"} # {} => pc' = pc
  PROVE  Structure'
<1> USE DEF Structure
<1>2. FutureUntouched'
  BY DEF FutureUntouched, Untouched, Shape
<1>3. Handshake'
  BY DEF Handshake, Shape
<1>4. Exclusive'
  BY DEF Exclusive, Shape
<1>5. SentInTime'
  BY DEF SentInTime, Late, Shape
<1> QED
  BY <1>2, <1>3, <1>4, <1>5

LEMMA TickStructure == Structure /\ Tick => Structure'
<1> SUFFICES ASSUME Structure, Tick PROVE Structure'
  OBVIOUS
<1> USE DEF Tick, schedulerVars, resultVars, channelVars, workerVars
<1>1. Shape'
  BY DEF Structure, Shape
<1> QED
  BY <1>1, QuietStructure DEF Structure, Shape

LEMMA CancelStructure == Structure /\ Cancel => Structure'
<1> SUFFICES ASSUME Structure, Cancel PROVE Structure'
  OBVIOUS
<1> USE DEF Cancel, schedulerVars, resultVars, channelVars, workerVars
<1>1. Shape'
  BY DEF Structure, Shape
<1> QED
  BY <1>1, QuietStructure DEF Structure, Shape

LEMMA ScheduleEndsStructure == Structure /\ ScheduleEnds => Structure'
<1> SUFFICES ASSUME Structure, ScheduleEnds PROVE Structure'
  OBVIOUS
<1> USE DEF ScheduleEnds, schedulerVars, resultVars, channelVars, workerVars, Break
<1>1. Shape'
  BY DEF Structure, Shape
<1> QED
  BY <1>1, QuietStructure DEF Structure, Shape

LEMMA ScheduleErrorStructure == Structure /\ ScheduleError => Structure'
<1> SUFFICES ASSUME Structure, ScheduleError PROVE Structure'
  OBVIOUS
<1> USE DEF ScheduleError, schedulerVars, resultVars, channelVars, workerVars
<1>1. Shape'
  BY DEF Structure, Shape
<1> QED
  BY <1>1, QuietStructure DEF Structure, Shape

LEMMA WaitUntilStructure == Structure /\ WaitUntil => Structure'
<1> SUFFICES ASSUME Structure, WaitUntil PROVE Structure'
  OBVIOUS
<1> USE DEF WaitUntil, schedulerVars, resultVars, channelVars, workerVars
<1>1. Shape'
  BY DEF Structure, Shape
<1> QED
  BY <1>1, QuietStructure DEF Structure, Shape

LEMMA GateStructure == Structure /\ Gate => Structure'
<1> SUFFICES ASSUME Structure, Gate PROVE Structure'
  OBVIOUS
<1> USE DEF Gate, schedulerVars, resultVars, channelVars, workerVars, Break, Stop
<1>1. Shape'
  BY DEF Structure, Shape, StopReasons, Breach, CountsType
<1> QED
  BY <1>1, QuietStructure DEF Structure, Shape

LEMMA AcquireStructure == Structure /\ Acquire => Structure'
<1> SUFFICES ASSUME Structure, Acquire PROVE Structure'
  OBVIOUS
<1> USE DEF Acquire, schedulerVars, resultVars, channelVars, workerVars, TakeSlot
<1>1. Shape'
  BY DEF Structure, Shape
<1> QED
  BY <1>1, QuietStructure DEF Structure, Shape

LEMMA SaturatedStructure == Structure /\ Saturated => Structure'
<1> SUFFICES ASSUME Structure, Saturated PROVE Structure'
  OBVIOUS
<1> USE DEF Saturated, schedulerVars, resultVars, channelVars, workerVars
<1>1. Shape'
  BY DEF Structure, Shape
<1> QED
  BY <1>1, QuietStructure DEF Structure, Shape

LEMMA ReturnStructure == Structure /\ Return => Structure'
<1> SUFFICES ASSUME Structure, Return PROVE Structure'
  OBVIOUS
<1> USE DEF Return, schedulerVars, resultVars, channelVars, workerVars
<1>1. Shape'
  BY DEF Structure, Shape
<1> QED
  BY <1>1, QuietStructure DEF Structure, Shape

LEMMA TakeArrivalStructure == Structure /\ TakeArrival => Structure'
<1> SUFFICES ASSUME Structure, TakeArrival PROVE Structure'
  OBVIOUS
<1> USE DEF Structure, TakeArrival, schedulerVars, resultVars, channelVars, workerVars, Stop
<1>1. Shape'
  BY LoadGenAssumption, SMTT(30) DEF Shape, StopReasons, Arrivals
<1>2. FutureUntouched'
  BY LoadGenAssumption, SMTT(30) DEF FutureUntouched, Untouched, Shape, Arrivals
<1>3. Handshake'
  BY DEF Handshake, Shape
<1>4. Exclusive'
  BY DEF Exclusive, Shape
<1>5. SentInTime'
  BY DEF SentInTime, Late, Shape
<1> QED
  BY <1>1, <1>2, <1>3, <1>4, <1>5

LEMMA CheckLagStructure == Structure /\ CheckLag => Structure'
<1> SUFFICES ASSUME Structure, CheckLag PROVE Structure'
  OBVIOUS
<1> USE DEF Structure, CheckLag, schedulerVars, resultVars, channelVars, workerVars, Drop
<1>1. Shape'
  BY DEF Shape, CountsType, Drops, FutureUntouched
<1>2. FutureUntouched'
  BY DEF FutureUntouched, Untouched, Shape
<1>3. Handshake'
  BY DEF Handshake, Shape
<1>4. Exclusive'
  BY DEF Exclusive, Shape, FutureUntouched, Untouched
<1>5. SentInTime'
  BY DEF SentInTime, Late, Shape, FutureUntouched, Untouched, Drops
<1> QED
  BY <1>1, <1>2, <1>3, <1>4, <1>5

LEMMA RetryStructure == Structure /\ Retry => Structure'
<1> SUFFICES ASSUME Structure, Retry PROVE Structure'
  OBVIOUS
<1> USE DEF Structure, Retry, schedulerVars, resultVars, channelVars, workerVars, Drop, TakeSlot
<1>1. Shape'
  BY DEF Shape, CountsType, Drops, FutureUntouched
<1>2. FutureUntouched'
  BY DEF FutureUntouched, Untouched, Shape
<1>3. Handshake'
  BY DEF Handshake, Shape
<1>4. Exclusive'
  BY DEF Exclusive, Shape, FutureUntouched, Untouched
<1>5. SentInTime'
  BY DEF SentInTime, Late, Shape, FutureUntouched, Untouched, Drops
<1> QED
  BY <1>1, <1>2, <1>3, <1>4, <1>5

LEMMA SpawnStructure == Structure /\ Spawn => Structure'
<1> SUFFICES ASSUME Structure, Spawn PROVE Structure'
  OBVIOUS
<1> USE DEF Structure, Spawn, schedulerVars, resultVars, channelVars, workerVars, Break, FreeSlot
<1>1. Shape'
  <2>1. worker' \in [Arrivals -> WorkerPCs]
    BY DEF Shape
  <2>2. heldCost' \in Int
    BY LoadGenAssumption DEF Shape, Positive
  <2> QED
    BY <2>1, <2>2 DEF Shape
<1>2. FutureUntouched'
  BY DEF FutureUntouched, Untouched, Shape
<1>3. Handshake'
  BY DEF Handshake, Shape, FutureUntouched, Untouched, Exclusive
<1>4. Exclusive'
  BY DEF Exclusive, Shape, FutureUntouched, Untouched
<1>5. SentInTime'
  BY DEF SentInTime, Late, Shape, FutureUntouched, Untouched
<1> QED
  BY <1>1, <1>2, <1>3, <1>4, <1>5

LEMMA RefuseStructure == Structure /\ Refuse => Structure'
<1> SUFFICES ASSUME Structure, Refuse PROVE Structure'
  OBVIOUS
<1> USE DEF Structure, Refuse, schedulerVars, resultVars, channelVars, workerVars
<1>1. Shape'
  BY DEF Shape
<1>2. FutureUntouched'
  BY DEF FutureUntouched, Untouched, Shape
<1>3. Handshake'
  BY DEF Handshake, Shape
<1>4. Exclusive'
  BY DEF Exclusive, Shape, Handshake
<1>5. SentInTime'
  BY DEF SentInTime, Late, Shape, Handshake
<1> QED
  BY <1>1, <1>2, <1>3, <1>4, <1>5

LEMMA StartStructure == Structure /\ Start => Structure'
<1> SUFFICES ASSUME Structure, Start PROVE Structure'
  OBVIOUS
<1> USE DEF Structure, Start, schedulerVars, resultVars, channelVars, workerVars
<1>1. Shape'
  <2>1. counts' \in CountsType
    BY DEF Shape, CountsType
  <2>2. worker' \in [Arrivals -> WorkerPCs]
    BY DEF Shape
  <2> QED
    BY <2>1, <2>2 DEF Shape
<1>2. FutureUntouched'
  BY DEF FutureUntouched, Untouched, Shape, Handshake
<1>3. Handshake'
  BY DEF Handshake, Shape
<1>4. Exclusive'
  BY DEF Exclusive, Shape, Handshake
<1>5. SentInTime'
  BY DEF SentInTime, Late, Shape, Handshake
<1> QED
  BY <1>1, <1>2, <1>3, <1>4, <1>5

LEMMA RejectedStructure == Structure /\ Rejected => Structure'
<1> SUFFICES ASSUME Structure, Rejected PROVE Structure'
  OBVIOUS
<1> USE DEF Structure, Rejected, schedulerVars, resultVars, channelVars, workerVars, Break, Drop, ReleaseReservation
<1>1. Shape'
  <2>1. counts' \in CountsType /\ heldCost' \in Int
    BY LoadGenAssumption DEF Shape, CountsType, Positive
  <2>2. outcomes' \in [Arrivals -> {"none"} \cup Drops \cup Finishes]
    BY DEF Shape, Drops
  <2> QED
    BY <2>1, <2>2 DEF Shape
<1>2. FutureUntouched'
  BY DEF FutureUntouched, Untouched, Shape, Handshake
<1>3. Handshake'
  BY DEF Handshake, Shape
<1>4. Exclusive'
  BY DEF Exclusive, Shape, Handshake
<1>5. SentInTime'
  BY DEF SentInTime, Late, Shape, Handshake, Drops
<1> QED
  BY <1>1, <1>2, <1>3, <1>4, <1>5

LEMMA CollectStructure ==
  ASSUME NEW i, Structure, Collect(i)
  PROVE  Structure'
<1> USE DEF Structure, Collect, schedulerVars, resultVars, channelVars, workerVars
<1>1. Shape'
  <2>1. i \in Arrivals /\ item[i] \in Items /\ Reserve \in Nat /\ Costs \subseteq Nat
    BY LoadGenAssumption DEF Shape, Positive
  <2>2. CASE CollectDropped(i)
    <3>1. counts' \in CountsType
      <4>1. counts.Started - 1 \in Int /\ counts.Dropped + 1 \in Int
        BY DEF Shape, CountsType
      <4>2. \A s, d \in Int : [counts EXCEPT !.Started = s, !.Dropped = d] \in CountsType
        BY DEF Shape, CountsType
      <4> QED
        BY <2>2, <4>1, <4>2 DEF CollectDropped
    <3>2. heldCost' \in Int
      BY <2>1, <2>2 DEF CollectDropped, ReleaseReservation, Shape
    <3>3. outcomes' \in [Arrivals -> {"none"} \cup Drops \cup Finishes]
      BY <2>1, <2>2 DEF CollectDropped, Shape, Drops
    <3> QED
      BY <2>2, <3>1, <3>2, <3>3 DEF CollectDropped, FreeSlot, Shape
  <2>3. CASE CollectFinished(i)
    <3>1. item[i].verdict \in Finishes /\ item[i].cost \in Costs \cup {Unknown}
      BY <2>1 DEF Items
    <3>2. counts' \in CountsType
      BY <2>3, <3>1, TallyType DEF CollectFinished, Shape
    <3>3. heldCost' \in Int /\ knownCost' \in Nat /\ stopReason' \in StopReasons
      <4>1. CASE item[i].cost = Unknown
        BY <2>3, <4>1 DEF CollectFinished, Reconcile, Shape
      <4>2. CASE item[i].cost \in Costs /\ item[i].cost # Unknown
        <5>1. item[i].cost \in Nat
          BY <2>1, <4>2
        <5>2. knownCost' = knownCost + item[i].cost /\ heldCost' = heldCost + item[i].cost - Reserve
          BY <2>3, <4>2 DEF CollectFinished, Reconcile
        <5>3. stopReason' \in {Breach, stopReason}
          BY <2>3, <4>2 DEF CollectFinished, Reconcile
        <5> QED
          BY <2>1, <5>1, <5>2, <5>3 DEF Shape, StopReasons
      <4> QED
        BY <3>1, <4>1, <4>2
    <3>4. outcomes' \in [Arrivals -> {"none"} \cup Drops \cup Finishes]
      BY <2>3, <3>1 DEF CollectFinished, Shape
    <3> QED
      BY <3>2, <3>3, <3>4 DEF FreeSlot, Shape
  <2> QED
    BY <2>2, <2>3
<1>2. FutureUntouched'
  BY DEF FutureUntouched, Untouched, Shape, CollectDropped, CollectFinished, Exclusive
<1>3. Handshake'
  BY DEF Handshake, Shape, CollectDropped, CollectFinished
<1>4. Exclusive'
  BY DEF Exclusive, Shape, CollectDropped, CollectFinished
<1>5. SentInTime'
  BY DEF SentInTime, Late, Shape, CollectDropped, CollectFinished, Items, Drops, Finishes, Exclusive
<1> QED
  BY <1>1, <1>2, <1>3, <1>4, <1>5

LEMMA FinishStructure ==
  ASSUME Structure, NEW i \in Arrivals,
         NEW from \in {"accepted", "probing", "dialing", "onwire"},
         NEW probed \in BOOLEAN, NEW err, NEW badUsage, NEW cost \in Costs \cup {Unknown},
         from = "onwire" => probed /\ err # "late",
         from # "onwire" => cost = Unknown,
         Finish(i, from, probed, err, badUsage, cost)
  PROVE  Structure'
<1> USE DEF Structure, Finish, Goto, schedulerVars, resultVars, channelVars, workerVars
<1>1. Shape'
  BY DEF Shape, Items, Dropped, Verdict, Finishes
<1>2. FutureUntouched'
  BY DEF FutureUntouched, Untouched, Shape
<1>3. Handshake'
  BY DEF Handshake, Shape
<1>4. Exclusive'
  BY DEF Exclusive, Shape
<1>5. SentInTime'
  BY DEF SentInTime, Late, Shape, Dropped
<1> QED
  BY <1>1, <1>2, <1>3, <1>4, <1>5

LEMMA OfferStructure ==
  ASSUME Structure, NEW i \in Arrivals, Offer(i)
  PROVE  Structure'
<1> USE DEF Structure, Offer, Goto, schedulerVars, resultVars, channelVars, workerVars
<1>1. Shape'
  BY DEF Shape
<1>2. FutureUntouched'
  BY DEF FutureUntouched, Untouched, Shape
<1>3. Handshake'
  BY DEF Handshake, Shape
<1>4. Exclusive'
  BY DEF Exclusive, Shape
<1>5. SentInTime'
  BY DEF SentInTime, Late, Shape
<1> QED
  BY <1>1, <1>2, <1>3, <1>4, <1>5

LEMMA WithdrawStructure ==
  ASSUME Structure, NEW i \in Arrivals, Withdraw(i)
  PROVE  Structure'
<1> USE DEF Structure, Withdraw, Goto, schedulerVars, resultVars, channelVars, workerVars, FreeSlot
<1>1. Shape'
  BY DEF Shape
<1>2. FutureUntouched'
  BY DEF FutureUntouched, Untouched, Shape
<1>3. Handshake'
  BY DEF Handshake, Shape
<1>4. Exclusive'
  BY DEF Exclusive, Shape
<1>5. SentInTime'
  BY DEF SentInTime, Late, Shape
<1> QED
  BY <1>1, <1>2, <1>3, <1>4, <1>5

LEMMA CheckContextStructure ==
  ASSUME Structure, NEW i \in Arrivals, CheckContext(i)
  PROVE  Structure'
<1> DEFINE Moves == /\ Goto(i, "accepted", "probing")
                    /\ UNCHANGED <<now, ctxDone, schedulerVars, resultVars, channelVars,
                                 stamp, item, sent>>
<1>1. CASE ~Moves
  BY <1>1, FinishStructure DEF CheckContext, Unknown
<1>2. CASE Moves
  <2> USE <1>2 DEF Structure, Goto, schedulerVars, resultVars, channelVars, workerVars
  <2>1. Shape'
    BY DEF Shape
  <2>2. FutureUntouched'
    BY DEF FutureUntouched, Untouched, Shape
  <2>3. Handshake'
    BY DEF Handshake, Shape
  <2>4. Exclusive'
    BY DEF Exclusive, Shape
  <2>5. SentInTime'
    BY DEF SentInTime, Late, Shape
  <2> QED
    BY <2>1, <2>2, <2>3, <2>4, <2>5
<1> QED
  BY <1>1, <1>2

LEMMA BeginProbeStructure ==
  ASSUME Structure, NEW i \in Arrivals, BeginProbe(i)
  PROVE  Structure'
<1> DEFINE Moves == /\ Goto(i, "probing", "dialing")
                    /\ stamp' = [stamp EXCEPT ![i] = now]
                    /\ UNCHANGED <<now, ctxDone, schedulerVars, resultVars, channelVars,
                                 item, sent>>
<1>1. CASE ~Moves
  BY <1>1, FinishStructure DEF BeginProbe, Unknown
<1>2. CASE Moves
  <2> USE <1>2 DEF Structure, Goto, schedulerVars, resultVars, channelVars, workerVars
  <2>1. Shape'
    BY DEF Shape
  <2>2. FutureUntouched'
    BY DEF FutureUntouched, Untouched, Shape
  <2>3. Handshake'
    BY DEF Handshake, Shape
  <2>4. Exclusive'
    BY DEF Exclusive, Shape
  <2>5. SentInTime'
    BY DEF SentInTime, Late, Shape
  <2> QED
    BY <2>1, <2>2, <2>3, <2>4, <2>5
<1> QED
  BY <1>1, <1>2

LEMMA RoundTripStructure ==
  ASSUME Structure, NEW i \in Arrivals, RoundTrip(i)
  PROVE  Structure'
<1> DEFINE Moves == /\ now <= DispatchDeadline(i)
                    /\ Goto(i, "dialing", "onwire")
                    /\ sent' = sent \cup {i}
                    /\ UNCHANGED <<now, ctxDone, schedulerVars, resultVars, channelVars,
                                 stamp, item>>
<1>1. CASE ~Moves
  BY <1>1, FinishStructure DEF RoundTrip, Unknown
<1>2. CASE Moves
  <2> USE <1>2 DEF Structure, Goto, schedulerVars, resultVars, channelVars, workerVars
  <2>1. Shape'
    BY DEF Shape
  <2>2. FutureUntouched'
    BY DEF FutureUntouched, Untouched, Shape
  <2>3. Handshake'
    BY DEF Handshake, Shape
  <2>4. Exclusive'
    BY DEF Exclusive, Shape
  <2>5. SentInTime'
    <3>1. Offset[i] \in Int /\ MaxScheduleLag \in Nat /\ stamp[i] \in Nat /\ now \in Nat
      BY LoadGenAssumption DEF Shape, Positive
    <3>2. stamp[i] - Offset[i] <= MaxScheduleLag
      BY <3>1 DEF SentInTime, DispatchDeadline
    <3>3. ~Late(i, stamp[i])
      BY <3>1, <3>2 DEF Late
    <3>4. ASSUME NEW j \in Arrivals
          PROVE  /\ stamp'[j] <= now'
                 /\ j \in sent' => worker'[j] \in {"onwire", "reporting", "gone"}
                 /\ j \in sent' /\ worker'[j] = "gone" => j \in completions' \/ outcomes'[j] # "none"
                 /\ j \in sent' /\ worker'[j] = "onwire" => ~Late(j, stamp'[j])
                 /\ j \in sent' /\ worker'[j] \in {"reporting", "gone"} => ~item'[j].dropped
                 /\ outcomes'[j] \in Drops => j \notin sent'
                 /\ worker'[j] = "onwire" => j \in sent'
                 /\ item'[j].cost # Unknown => j \in sent'
      <4>1. CASE j = i
        BY <3>3, <4>1 DEF SentInTime, Shape, Exclusive, Drops
      <4>2. CASE j # i
        BY <4>2 DEF SentInTime, Shape
      <4> QED
        BY <4>1, <4>2
    <3> QED
      BY <3>4 DEF SentInTime, Late
  <2> QED
    BY <2>1, <2>2, <2>3, <2>4, <2>5
<1> QED
  BY <1>1, <1>2

LEMMA ExchangeStructure ==
  ASSUME Structure, NEW i \in Arrivals, Exchange(i)
  PROVE  Structure'
BY FinishStructure DEF Exchange

LEMMA ReportStructure ==
  ASSUME Structure, NEW i \in Arrivals, Report(i)
  PROVE  Structure'
<1> USE DEF Structure, Report, Goto, schedulerVars, resultVars, channelVars, workerVars
<1>1. Shape'
  BY DEF Shape
<1>2. FutureUntouched'
  BY DEF FutureUntouched, Untouched, Shape
<1>3. Handshake'
  BY DEF Handshake, Shape, Exclusive
<1>4. Exclusive'
  BY DEF Exclusive, Shape
<1>5. SentInTime'
  BY DEF SentInTime, Late, Shape
<1> QED
  BY <1>1, <1>2, <1>3, <1>4, <1>5

LEMMA StutterStructure == Structure /\ UNCHANGED vars => Structure'
<1> SUFFICES ASSUME Structure, UNCHANGED vars PROVE Structure'
  OBVIOUS
<1>1. Shape'
  BY DEF Structure, Shape, vars, schedulerVars, resultVars, channelVars, workerVars
<1> QED
  BY <1>1, QuietStructure DEF Structure, Shape, vars, schedulerVars, resultVars, channelVars,
     workerVars

\* The first layer: no step breaks Structure.
LEMMA NextStructure == Structure /\ [Next]_vars => Structure'
BY TickStructure, CancelStructure, ScheduleEndsStructure, ScheduleErrorStructure,
   TakeArrivalStructure, WaitUntilStructure, CollectStructure, GateStructure,
   CheckLagStructure, AcquireStructure, SaturatedStructure, RetryStructure,
   SpawnStructure, RefuseStructure, StartStructure, RejectedStructure, ReturnStructure,
   OfferStructure, WithdrawStructure, CheckContextStructure, BeginProbeStructure,
   RoundTripStructure, ExchangeStructure, ReportStructure, StutterStructure
DEF Next, Scheduler, Worker, Terminated, Drain, FinalCollect


-----------------------------------------------------------------------------
(***************************************************************************)
(* The second layer: what is counted.                                      *)
(***************************************************************************)
Counting == SlotsAccounted /\ CountsAgree /\ ReservationsAccounted

LEMMA ArrivalsFinite == IsFiniteSet(Arrivals) /\ \A S \in SUBSET Arrivals : IsFiniteSet(S)
<1>1. IsFiniteSet(Arrivals)
  BY LoadGenAssumption, FS_Interval DEF Arrivals
<1> QED
  BY <1>1, FS_Subset

LEMMA CardinalityNat == \A S \in SUBSET Arrivals : Cardinality(S) \in Nat
  BY ArrivalsFinite, FS_CardinalityType

LEMMA AddOne ==
  ASSUME NEW S \in SUBSET Arrivals, NEW x \in Arrivals, x \notin S
  PROVE  Cardinality(S \cup {x}) = Cardinality(S) + 1
  BY ArrivalsFinite, FS_AddElement

LEMMA RemoveOne ==
  ASSUME NEW S \in SUBSET Arrivals, NEW x \in S
  PROVE  Cardinality(S \ {x}) = Cardinality(S) - 1
  BY ArrivalsFinite, FS_RemoveElement

LEMMA OneMore == \A a, b \in Int : a * (b + 1) = a * b + a /\ a * (b - 1) = a * b - a
  OBVIOUS

\* Everything counted is a set of arrivals.
LEMMA CountedSets ==
  ASSUME Structure
  PROVE  /\ InFlight \in SUBSET Arrivals /\ SlotHolders \in SUBSET Arrivals
         /\ Finished \in SUBSET Arrivals /\ DroppedArrivals \in SUBSET Arrivals
         /\ Holding \in SUBSET Arrivals
<1>1. completions \in SUBSET Arrivals /\ (pc = "rejecting" => sequence \in Arrivals)
  BY DEF Structure, Shape, Handshake
<1> QED
  BY <1>1 DEF InFlight, SlotHolders, Finished, DroppedArrivals, Holding, CostKept, Unsettled

\* A step that changes nothing that is counted.
SameCounts ==
  /\ counts'.Started = counts.Started
  /\ counts'.Completed = counts.Completed
  /\ counts'.Succeeded = counts.Succeeded
  /\ counts'.Failed = counts.Failed
  /\ counts'.Cancelled = counts.Cancelled
  /\ counts'.Dropped = counts.Dropped

LEMMA SameCountsAgree ==
  ASSUME CountsAgree, InFlight' = InFlight, Finished' = Finished,
         DroppedArrivals' = DroppedArrivals, UNCHANGED inFlight, SameCounts
  PROVE  CountsAgree'
  BY DEF CountsAgree, SameCounts

LEMMA CountsAgreeStep ==
  ASSUME Structure, CountsAgree, NEW a \in Int, NEW b \in Int, NEW d \in Int,
         Cardinality(InFlight') = Cardinality(InFlight) + a,
         Cardinality(Finished') = Cardinality(Finished) + b,
         Cardinality(DroppedArrivals') = Cardinality(DroppedArrivals) + d,
         inFlight' = inFlight + a,
         counts'.Completed = counts.Completed + b,
         counts'.Started = counts.Started + a + b,
         counts'.Dropped = counts.Dropped + d,
         counts'.Completed = counts'.Succeeded + counts'.Failed + counts'.Cancelled
  PROVE  CountsAgree'
<1>1. inFlight \in Int /\ counts.Completed \in Int /\ counts.Started \in Int
  BY DEF Structure, Shape, CountsType
<1>2. inFlight' = Cardinality(InFlight') /\ counts'.Completed = Cardinality(Finished')
  BY <1>1 DEF CountsAgree
<1>3. counts'.Dropped = Cardinality(DroppedArrivals')
  BY DEF CountsAgree
<1>4. counts'.Started = counts'.Completed + inFlight'
  <2>1. counts.Started = counts.Completed + inFlight
    BY DEF CountsAgree
  <2> QED
    BY <1>1, <2>1
<1> QED
  BY <1>2, <1>3, <1>4 DEF CountsAgree

LEMMA SameReservations ==
  ASSUME ReservationsAccounted, Holding' = Holding, UNCHANGED <<heldCost, knownCost>>
  PROVE  ReservationsAccounted'
  BY DEF ReservationsAccounted

LEMMA SameCounting ==
  ASSUME Counting,
         InFlight' = InFlight, SlotHolders' = SlotHolders, Holding' = Holding,
         Finished' = Finished, DroppedArrivals' = DroppedArrivals,
         UNCHANGED <<slots, inFlight, heldCost, knownCost>>, SameCounts,
         pc' = "drainHeld" <=> pc = "drainHeld"
  PROVE  Counting'
  BY DEF Counting, SlotsAccounted, CountsAgree, ReservationsAccounted, SameCounts

\* A step that touches no arrival.
LEMMA QuietCounting ==
  ASSUME Counting,
         UNCHANGED <<worker, outcomes, completions, item, slots, inFlight, heldCost, knownCost>>,
         SameCounts, "drainHeld" \notin {pc, pc'}, "rejecting" \notin {pc, pc'}
  PROVE  Counting'
<1>1. InFlight' = InFlight /\ SlotHolders' = SlotHolders /\ Holding' = Holding
  BY DEF InFlight, SlotHolders, Holding, CostKept, Finished, Unsettled
<1>2. Finished' = Finished /\ DroppedArrivals' = DroppedArrivals
  BY DEF Finished, DroppedArrivals
<1> QED
  BY <1>1, <1>2, SameCounting

LEMMA ScheduleEndsCounting == Counting /\ ScheduleEnds => Counting'
  BY QuietCounting DEF SameCounts, ScheduleEnds, schedulerVars, resultVars, channelVars, workerVars, Break

LEMMA ScheduleErrorCounting == Counting /\ ScheduleError => Counting'
  BY QuietCounting DEF SameCounts, ScheduleError, schedulerVars, resultVars, channelVars, workerVars

LEMMA TakeArrivalCounting == Counting /\ TakeArrival => Counting'
  BY QuietCounting DEF SameCounts, TakeArrival, schedulerVars, resultVars, channelVars, workerVars, Stop

LEMMA WaitUntilCounting == Counting /\ WaitUntil => Counting'
  BY QuietCounting DEF SameCounts, WaitUntil, schedulerVars, resultVars, channelVars, workerVars

LEMMA SaturatedCounting == Counting /\ Saturated => Counting'
  BY QuietCounting DEF SameCounts, Saturated, schedulerVars, resultVars, channelVars, workerVars

LEMMA ReturnCounting == Counting /\ Return => Counting'
  BY QuietCounting DEF SameCounts, Return, schedulerVars, resultVars, channelVars, workerVars

LEMMA GateCounting == Structure /\ Counting /\ Gate => Counting'
<1> SUFFICES ASSUME Structure, Counting, Gate PROVE Counting'
  OBVIOUS
<1>1. SameCounts
  BY DEF Gate, Structure, Shape, CountsType, SameCounts
<1> QED
  BY <1>1, QuietCounting DEF Gate, Break, Stop, schedulerVars, resultVars, channelVars, workerVars

LEMMA ClockCounting == Counting /\ (Tick \/ Cancel) => Counting'
  BY DEF Counting, SlotsAccounted, CountsAgree, ReservationsAccounted, Tick, Cancel,
     InFlight, SlotHolders, Holding, CostKept, Finished, DroppedArrivals, Unsettled,
     schedulerVars, resultVars, channelVars, workerVars


\* The worker's own moves: it stays where it counts, or hands itself over to the
\* completions channel.
LEMMA WorkerCounting ==
  ASSUME Structure, Counting, NEW i \in Arrivals,
         \/ worker[i] \in Undecided /\ worker'[i] \in Undecided /\ completions' = completions
         \/ worker[i] \in Running /\ worker'[i] \in Running /\ completions' = completions
         \/ worker[i] \in Running /\ worker'[i] = "gone" /\ completions' = completions \cup {i},
         \A j \in Arrivals \ {i} : worker'[j] = worker[j],
         \A j \in Finished : item'[j] = item[j],
         UNCHANGED <<pc, sequence, outcomes, slots, inFlight, heldCost, knownCost, counts>>
  PROVE  Counting'
<1>1. InFlight' = InFlight /\ SlotHolders' = SlotHolders
  BY DEF InFlight, SlotHolders, Structure, Shape
<1>2. Finished' = Finished /\ DroppedArrivals' = DroppedArrivals
  BY DEF Finished, DroppedArrivals
<1>3. CostKept' = CostKept /\ Unsettled' = Unsettled
  BY <1>2 DEF CostKept, Unsettled
<1>4. Holding' = Holding
  BY <1>1, <1>3 DEF Holding
<1> QED
  BY <1>1, <1>2, <1>4, SameCounting DEF SameCounts

LEMMA OfferCounting ==
  ASSUME Structure, Counting, NEW i \in Arrivals, Offer(i)
  PROVE  Counting'
  BY WorkerCounting DEF Offer, Goto, Structure, Shape, schedulerVars, resultVars, channelVars

LEMMA FinishCounting ==
  ASSUME Structure, Counting, NEW i \in Arrivals,
         NEW from \in {"accepted", "probing", "dialing", "onwire"},
         NEW probed, NEW err, NEW badUsage, NEW cost,
         Finish(i, from, probed, err, badUsage, cost)
  PROVE  Counting'
<1>1. \A j \in Finished : j # i
  BY DEF Structure, Exclusive, Finished, Finish, Goto, Finishes
<1> QED
  BY <1>1, WorkerCounting
  DEF Finish, Goto, Structure, Shape, Finished, schedulerVars, resultVars, channelVars

LEMMA CheckContextCounting ==
  ASSUME Structure, Counting, NEW i \in Arrivals, CheckContext(i)
  PROVE  Counting'
<1>1. CASE Goto(i, "accepted", "probing") /\ UNCHANGED <<schedulerVars, resultVars, channelVars, item>>
  BY <1>1, WorkerCounting DEF Goto, Structure, Shape, schedulerVars, resultVars, channelVars
<1> QED
  BY <1>1, FinishCounting DEF CheckContext

LEMMA BeginProbeCounting ==
  ASSUME Structure, Counting, NEW i \in Arrivals, BeginProbe(i)
  PROVE  Counting'
<1>1. CASE Goto(i, "probing", "dialing") /\ UNCHANGED <<schedulerVars, resultVars, channelVars, item>>
  BY <1>1, WorkerCounting DEF Goto, Structure, Shape, schedulerVars, resultVars, channelVars
<1> QED
  BY <1>1, FinishCounting DEF BeginProbe

LEMMA RoundTripCounting ==
  ASSUME Structure, Counting, NEW i \in Arrivals, RoundTrip(i)
  PROVE  Counting'
<1>1. CASE Goto(i, "dialing", "onwire") /\ UNCHANGED <<schedulerVars, resultVars, channelVars, item>>
  BY <1>1, WorkerCounting DEF Goto, Structure, Shape, schedulerVars, resultVars, channelVars
<1> QED
  BY <1>1, FinishCounting DEF RoundTrip

LEMMA ExchangeCounting ==
  ASSUME Structure, Counting, NEW i \in Arrivals, Exchange(i)
  PROVE  Counting'
  BY FinishCounting DEF Exchange

LEMMA ReportCounting ==
  ASSUME Structure, Counting, NEW i \in Arrivals, Report(i)
  PROVE  Counting'
  BY WorkerCounting DEF Report, Goto, Structure, Shape, schedulerVars, resultVars

\* Withdraw frees the slot; the reservation stays held until Rejected.
LEMMA WithdrawCounting ==
  ASSUME Structure, Counting, NEW i \in Arrivals, Withdraw(i)
  PROVE  Counting'
<1> USE DEF Withdraw, Goto, FreeSlot, schedulerVars, resultVars
<1>1. i \in SlotHolders /\ i \notin InFlight /\ pc = "rejecting" /\ i = sequence
  BY DEF SlotHolders, InFlight, Structure, Handshake, Exclusive
<1>2. InFlight' = InFlight /\ SlotHolders' = SlotHolders \ {i}
  BY <1>1 DEF InFlight, SlotHolders, Structure, Shape
<1>3. Finished' = Finished /\ DroppedArrivals' = DroppedArrivals
  BY DEF Finished, DroppedArrivals
<1>4. Holding' = Holding
  BY <1>1, <1>2, <1>3 DEF Holding, CostKept, Unsettled
<1>5. Cardinality(SlotHolders') = Cardinality(SlotHolders) - 1
  BY <1>1, <1>2, CountedSets, RemoveOne
<1>6. Cardinality(SlotHolders) \in Nat
  BY CountedSets, CardinalityNat
<1>7. SlotsAccounted'
  BY <1>1, <1>5, <1>6 DEF Counting, SlotsAccounted
<1> QED
  BY <1>2, <1>3, <1>4, <1>7, SameCountsAgree, SameReservations DEF Counting, SameCounts

LEMMA AcquireCounting == Structure /\ Counting /\ Acquire => Counting'
<1> SUFFICES ASSUME Structure, Counting, Acquire PROVE Counting'
  OBVIOUS
<1> USE DEF Acquire, TakeSlot, resultVars, workerVars
<1>1. InFlight' = InFlight /\ SlotHolders' = SlotHolders /\ Holding' = Holding
  BY DEF InFlight, SlotHolders, Holding, CostKept, Finished, Unsettled
<1>2. Finished' = Finished /\ DroppedArrivals' = DroppedArrivals
  BY DEF Finished, DroppedArrivals
<1>3. Cardinality(SlotHolders) \in Nat
  BY CountedSets, CardinalityNat
<1>4. SlotsAccounted'
  BY <1>1, <1>3 DEF Counting, SlotsAccounted
<1> QED
  BY <1>1, <1>2, <1>4, SameCountsAgree, SameReservations DEF Counting, SameCounts

\* An arrival dropped before it was spawned.
LEMMA DropCounting ==
  ASSUME Structure, Counting, NEW reason \in Drops, Drop(reason),
         sequence \in Arrivals, outcomes[sequence] = "none",
         pc \in {"lag", "retry"},
         UNCHANGED <<worker, item, completions, slots, inFlight, heldCost>>
  PROVE  Counting'
<1> USE DEF Drop
<1>1. DroppedArrivals' = DroppedArrivals \cup {sequence} /\ sequence \notin DroppedArrivals
  BY DEF DroppedArrivals, Drops, Structure, Shape
<1>2. Finished' = Finished
  BY DEF Finished, Finishes, Drops, Structure, Shape
<1>3. InFlight' = InFlight /\ SlotHolders' = SlotHolders /\ Holding' = Holding
  BY <1>2 DEF InFlight, SlotHolders, Holding, CostKept, Unsettled
<1>4. Cardinality(DroppedArrivals') = Cardinality(DroppedArrivals) + 1
  BY <1>1, CountedSets, AddOne
<1> QED
  BY <1>2, <1>3, <1>4
  DEF Counting, SlotsAccounted, CountsAgree, ReservationsAccounted, Structure, Shape, CountsType

LEMMA CheckLagCounting == Structure /\ Counting /\ CheckLag => Counting'
<1> SUFFICES ASSUME Structure, Counting, CheckLag PROVE Counting'
  OBVIOUS
<1> USE DEF CheckLag, schedulerVars, resultVars, channelVars, workerVars
<1>1. CASE Drop("late")
  BY <1>1, DropCounting DEF Structure, FutureUntouched, Untouched, Drops
<1>2. CASE ~Drop("late")
  BY <1>2, QuietCounting DEF SameCounts
<1> QED
  BY <1>1, <1>2

LEMMA RetryCounting == Structure /\ Counting /\ Retry => Counting'
<1> SUFFICES ASSUME Structure, Counting, Retry PROVE Counting'
  OBVIOUS
<1> USE DEF Retry, TakeSlot, workerVars
<1>1. CASE Drop("saturated")
  <2>1. sequence \in Arrivals /\ outcomes[sequence] = "none"
    BY DEF Structure, FutureUntouched, Untouched
  <2> QED
    <3>1. pc = "retry" /\ UNCHANGED <<worker, item, completions, slots, inFlight, heldCost>>
      BY <1>1 DEF Drop
    <3> QED
      BY <1>1, <2>1, <3>1, DropCounting DEF Drops
<1>2. CASE ~Drop("saturated")
  <2>1. InFlight' = InFlight /\ SlotHolders' = SlotHolders /\ Holding' = Holding
    BY <1>2 DEF InFlight, SlotHolders, Holding, CostKept, Finished, Unsettled
  <2>2. Finished' = Finished /\ DroppedArrivals' = DroppedArrivals
    BY <1>2 DEF Finished, DroppedArrivals
  <2>3. Cardinality(SlotHolders) \in Nat
    BY CountedSets, CardinalityNat
  <2>4. SlotsAccounted'
    BY <1>2, <2>1, <2>3 DEF Counting, SlotsAccounted
  <2> QED
    BY <1>2, <2>1, <2>2, <2>4, SameCountsAgree, SameReservations DEF Counting, SameCounts
<1> QED
  BY <1>1, <1>2


\* Spawn holds the slot that was taken for the current arrival.
LEMMA SpawnCounting == Structure /\ Counting /\ Spawn => Counting'
<1> SUFFICES ASSUME Structure, Counting, Spawn PROVE Counting'
  OBVIOUS
<1> USE DEF Spawn
<1>1. sequence \in Arrivals /\ sequence \notin SlotHolders /\ outcomes[sequence] = "none"
  BY DEF SlotHolders, InFlight, Structure, FutureUntouched, Untouched, Exclusive
<1>2. Finished' = Finished /\ DroppedArrivals' = DroppedArrivals /\ CostKept' = CostKept
  BY DEF Finished, DroppedArrivals, CostKept, Break
<1>3. Unsettled = {} /\ Unsettled' = {}
  BY DEF Unsettled, Break
<1>4. sequence \notin Holding
  BY <1>1, <1>3 DEF Holding, CostKept, Finished, Finishes
<1>5. Cardinality(SlotHolders) \in Nat /\ Cardinality(Holding) \in Nat /\ Reserve \in Nat
  BY CountedSets, CardinalityNat, LoadGenAssumption DEF Positive
<1>6. CASE Breached \/ ctxDone
  <2>1. InFlight' = InFlight /\ SlotHolders' = SlotHolders
    BY <1>6 DEF InFlight, SlotHolders
  <2>2. Holding' = Holding
    BY <2>1, <1>2, <1>3 DEF Holding
  <2>3. SlotsAccounted'
    BY <1>5, <1>6, <2>1 DEF Counting, SlotsAccounted, Break, FreeSlot
  <2> QED
    BY <1>2, <1>6, <2>1, <2>2, <2>3, SameCountsAgree, SameReservations
    DEF Counting, SameCounts
<1>7. CASE ~Breached /\ ~ctxDone
  <2>1. InFlight' = InFlight /\ SlotHolders' = SlotHolders \cup {sequence}
    <3>1. worker' = [worker EXCEPT ![sequence] = "spawned"] /\ worker[sequence] = "none"
          /\ completions' = completions /\ worker \in [Arrivals -> WorkerPCs]
      BY <1>7 DEF Structure, Shape, FutureUntouched, Untouched
    <3> QED
      BY <1>1, <3>1 DEF InFlight, SlotHolders
  <2>2. Holding' = Holding \cup {sequence}
    BY <2>1, <1>2, <1>3 DEF Holding
  <2>3. /\ Cardinality(SlotHolders') = Cardinality(SlotHolders) + 1
        /\ Cardinality(Holding') = Cardinality(Holding) + 1
    BY <1>1, <1>4, <2>1, <2>2, CountedSets, AddOne
  <2>4. Reserve * (Cardinality(Holding) + 1) = Reserve * Cardinality(Holding) + Reserve
    BY <1>5, OneMore
  <2>5. SlotsAccounted' /\ CountsAgree'
    <3>1. SlotsAccounted'
      BY <1>5, <1>7, <2>3 DEF Counting, SlotsAccounted
    <3> QED
      BY <1>2, <1>7, <2>1, <3>1, SameCountsAgree DEF Counting, SameCounts
  <2>6. ReservationsAccounted'
    <3>1. heldCost' = heldCost + Reserve /\ knownCost' = knownCost
      BY <1>7
    <3>2. heldCost = knownCost + Reserve * Cardinality(Holding)
      BY DEF Counting, ReservationsAccounted
    <3> DEFINE held == Reserve * Cardinality(Holding)
    <3>3. held \in Int /\ knownCost \in Int
      BY <1>5 DEF Structure, Shape
    <3>4. heldCost' = knownCost' + (held + Reserve)
      BY <1>5, <3>1, <3>2, <3>3
    <3> QED
      BY <2>3, <2>4, <3>4 DEF ReservationsAccounted
  <2> QED
    BY <2>5, <2>6 DEF Counting
<1> QED
  BY <1>6, <1>7

LEMMA RefuseCounting == Structure /\ Counting /\ Refuse => Counting'
<1> SUFFICES ASSUME Structure, Counting, Refuse PROVE Counting'
  OBVIOUS
<1> USE DEF Refuse, resultVars, channelVars
<1>1. sequence \in Arrivals /\ sequence \in SlotHolders
  BY DEF Structure, Handshake, SlotHolders
<1>2. InFlight' = InFlight /\ SlotHolders' = SlotHolders
  BY <1>1 DEF InFlight, SlotHolders, Structure, Shape
<1>3. Finished' = Finished /\ DroppedArrivals' = DroppedArrivals
  BY DEF Finished, DroppedArrivals
<1>4. Holding' = Holding
  BY <1>1, <1>2, <1>3 DEF Holding, CostKept, Unsettled
<1> QED
  BY <1>2, <1>3, <1>4, SameCounting DEF SameCounts

\* Start moves the current arrival in flight; its slot and reservation are held.
LEMMA StartCounting == Structure /\ Counting /\ Start => Counting'
<1> SUFFICES ASSUME Structure, Counting, Start PROVE Counting'
  OBVIOUS
<1> USE DEF Start
<1>1. sequence \in Arrivals /\ sequence \in SlotHolders /\ sequence \notin InFlight
  BY DEF Structure, Handshake, SlotHolders, InFlight
<1>2. InFlight' = InFlight \cup {sequence} /\ SlotHolders' = SlotHolders
  BY <1>1 DEF InFlight, SlotHolders, Structure, Shape
<1>3. Finished' = Finished /\ DroppedArrivals' = DroppedArrivals
  BY DEF Finished, DroppedArrivals
<1>4. Holding' = Holding
  BY <1>2, <1>3 DEF Holding, CostKept, Unsettled
<1>5. Cardinality(InFlight') = Cardinality(InFlight) + 1
  BY <1>1, <1>2, CountedSets, AddOne
<1>6. SlotsAccounted'
  BY <1>2 DEF Counting, SlotsAccounted
<1>7. CountsAgree'
  <2>1. /\ counts \in CountsType /\ inFlight \in Int /\ inFlight' = inFlight + 1
        /\ counts' = [counts EXCEPT !.Started = counts.Started + 1]
    BY DEF Structure, Shape
  <2>2. Cardinality(InFlight) \in Nat
    BY CountedSets, CardinalityNat
  <2>3. /\ counts'.Completed = counts.Completed + 0
        /\ counts'.Started = counts.Started + 1 + 0
        /\ counts'.Dropped = counts.Dropped + 0
        /\ counts'.Completed = counts'.Succeeded + counts'.Failed + counts'.Cancelled
    BY <2>1 DEF Counting, CountsAgree, CountsType
  <2>4. /\ Cardinality(Finished') = Cardinality(Finished) + 0
        /\ Cardinality(DroppedArrivals') = Cardinality(DroppedArrivals) + 0
    BY <1>3, CountedSets, CardinalityNat
  <2> QED
    BY <1>5, <2>1, <2>3, <2>4, CountsAgreeStep DEF Counting
<1> QED
  BY <1>4, <1>6, <1>7, SameReservations DEF Counting


\* Rejected releases the reservation of the arrival it could not start.
LEMMA RejectedCounting == Structure /\ Counting /\ Rejected => Counting'
<1> SUFFICES ASSUME Structure, Counting, Rejected PROVE Counting'
  OBVIOUS
<1> USE DEF Rejected, channelVars, workerVars, ReleaseReservation
<1>1. /\ sequence \in Arrivals /\ sequence \notin SlotHolders
      /\ outcomes[sequence] = "none" /\ Unsettled = {sequence} /\ Unsettled' = {}
  BY DEF SlotHolders, InFlight, Structure, Handshake, Unsettled, Break, Drop
<1>2. InFlight' = InFlight /\ SlotHolders' = SlotHolders
  BY DEF InFlight, SlotHolders
<1>3. Finished' = Finished
  BY <1>1 DEF Finished, Finishes, Drop, Structure, Shape
<1>4. CostKept' = CostKept /\ sequence \notin CostKept
  BY <1>1, <1>3 DEF CostKept, Finished, Finishes
<1>5. Holding' = Holding \ {sequence} /\ sequence \in Holding
  BY <1>1, <1>2, <1>4 DEF Holding
<1>6. Cardinality(Holding') = Cardinality(Holding) - 1
  BY <1>5, CountedSets, RemoveOne
<1>7. Cardinality(Holding) \in Nat /\ Reserve \in Nat /\ Cardinality(SlotHolders) \in Nat
  BY CountedSets, CardinalityNat, LoadGenAssumption DEF Positive
<1>8. ReservationsAccounted'
  <2> DEFINE held == Reserve * Cardinality(Holding)
  <2>1. held \in Int /\ knownCost \in Int /\ knownCost' = knownCost
    BY <1>7 DEF Structure, Shape, Drop
  <2>2. heldCost' = knownCost' + (held - Reserve)
    BY <1>7, <2>1 DEF Counting, ReservationsAccounted
  <2>3. Reserve * (Cardinality(Holding) - 1) = held - Reserve
    BY <1>7, OneMore
  <2> QED
    BY <1>6, <2>2, <2>3 DEF ReservationsAccounted
<1>9. SlotsAccounted'
  BY <1>2, <1>7 DEF Counting, SlotsAccounted, Break, Drop
<1>10. CountsAgree'
  <2>1. CASE ctxDone
    BY <1>1, <1>2, <1>3, <2>1 DEF Counting, CountsAgree, DroppedArrivals
  <2>2. CASE ~ctxDone
    <3>1. DroppedArrivals' = DroppedArrivals \cup {sequence} /\ sequence \notin DroppedArrivals
      BY <1>1, <2>2 DEF DroppedArrivals, Drops, Drop, Structure, Shape
    <3>2. Cardinality(DroppedArrivals') = Cardinality(DroppedArrivals) + 1
      BY <1>1, <3>1, CountedSets, AddOne
    <3> QED
      BY <1>2, <1>3, <2>2, <3>2
      DEF Counting, CountsAgree, Drop, Structure, Shape, CountsType
  <2> QED
    BY <2>1, <2>2
<1> QED
  BY <1>8, <1>9, <1>10 DEF Counting

\* Collect takes the arrival out of flight and settles its reservation.
LEMMA CollectCounting ==
  ASSUME Structure, Counting, NEW i, Collect(i), pc \in Draining \cup {"collect"}
  PROVE  Counting'
<1> USE DEF Collect, FreeSlot, schedulerVars, workerVars
<1>1. i \in Arrivals /\ i \in InFlight /\ worker[i] = "gone" /\ outcomes[i] = "none"
  BY DEF InFlight, Structure, Shape, Exclusive
<1>2. InFlight' = InFlight \ {i} /\ SlotHolders' = SlotHolders \ {i} /\ i \in SlotHolders
  BY <1>1 DEF InFlight, SlotHolders
<1>3. Unsettled = {} /\ Unsettled' = {}
  BY DEF Unsettled
<1>4. i \notin CostKept /\ i \in Holding
  BY <1>1, <1>2 DEF CostKept, Finished, Finishes, Holding
<1>5. /\ Cardinality(InFlight') = Cardinality(InFlight) - 1
      /\ Cardinality(SlotHolders') = Cardinality(SlotHolders) - 1
  BY <1>1, <1>2, CountedSets, RemoveOne
<1>6. /\ Cardinality(Holding) \in Nat /\ Reserve \in Nat /\ Cardinality(SlotHolders) \in Nat
      /\ Costs \subseteq Nat
  BY CountedSets, CardinalityNat, LoadGenAssumption DEF Positive
<1>7. SlotsAccounted'
  BY <1>5, <1>6 DEF Counting, SlotsAccounted, Structure, Shape
<1> DEFINE held == Reserve * Cardinality(Holding)
<1>8. /\ held \in Int /\ knownCost \in Int /\ heldCost = knownCost + held
      /\ Reserve * (Cardinality(Holding) - 1) = held - Reserve
  BY <1>6, OneMore DEF Counting, ReservationsAccounted, Structure, Shape
<1>9. Cardinality(Holding \ {i}) = Cardinality(Holding) - 1
  BY <1>4, CountedSets, RemoveOne
<1>10. CASE CollectDropped(i)
  <2> USE <1>10 DEF CollectDropped, ReleaseReservation
  <2>1. Finished' = Finished
    BY <1>1 DEF Finished, Finishes, Structure, Shape
  <2>2. Holding' = Holding \ {i}
    BY <1>2, <1>3, <1>4, <2>1 DEF Holding, CostKept
  <2>3. ReservationsAccounted'
    BY <1>6, <1>8, <1>9, <2>2 DEF ReservationsAccounted
  <2>4. DroppedArrivals' = DroppedArrivals \cup {i} /\ i \notin DroppedArrivals
    BY <1>1 DEF DroppedArrivals, Drops, Structure, Shape
  <2>5. Cardinality(DroppedArrivals') = Cardinality(DroppedArrivals) + 1
    BY <1>1, <2>4, CountedSets, AddOne
  <2>6. CountsAgree'
    <3>1. /\ counts \in CountsType /\ inFlight \in Int /\ inFlight' = inFlight - 1
          /\ counts' = [counts EXCEPT !.Started = counts.Started - 1,
                                      !.Dropped = counts.Dropped + 1]
      BY DEF Structure, Shape
    <3>2. Cardinality(InFlight) \in Nat /\ Cardinality(DroppedArrivals) \in Nat
      BY CountedSets, CardinalityNat
    <3>3. /\ counts'.Completed = counts.Completed + 0
          /\ counts'.Started = counts.Started + (-1) + 0
          /\ counts'.Dropped = counts.Dropped + 1
          /\ counts'.Completed = counts'.Succeeded + counts'.Failed + counts'.Cancelled
      BY <3>1 DEF Counting, CountsAgree, CountsType
    <3>4. /\ Cardinality(Finished') = Cardinality(Finished) + 0
          /\ Cardinality(InFlight') = Cardinality(InFlight) + (-1)
          /\ inFlight' = inFlight + (-1)
      BY <1>5, <2>1, <3>1, <3>2, CountedSets, CardinalityNat
    <3> QED
      BY <2>5, <3>3, <3>4, CountsAgreeStep DEF Counting
  <2> QED
    BY <1>7, <2>3, <2>6 DEF Counting
<1>11. CASE CollectFinished(i)
  <2> USE <1>11 DEF CollectFinished
  <2>1. item[i].verdict \in Finishes /\ item[i].cost \in Costs \cup {Unknown}
    BY <1>1 DEF Structure, Shape, Items
  <2>2. Finished' = Finished \cup {i} /\ i \notin Finished
    BY <1>1, <2>1 DEF Finished, Finishes, Structure, Shape
  <2>3. DroppedArrivals' = DroppedArrivals
    BY <1>1, <2>1 DEF DroppedArrivals, Drops, Finishes, Structure, Shape
  <2>4. Cardinality(Finished') = Cardinality(Finished) + 1
    BY <1>1, <2>2, CountedSets, AddOne
  <2>5. CountsAgree'
    <3>1. /\ counts \in CountsType /\ inFlight \in Int /\ inFlight' = inFlight - 1
          /\ counts' = Tally(counts, item[i].verdict)
      BY DEF Structure, Shape
    <3>2. Cardinality(InFlight) \in Nat /\ Cardinality(Finished) \in Nat
      BY CountedSets, CardinalityNat
    <3>3. /\ counts'.Completed = counts.Completed + 1 /\ counts'.Started = counts.Started
          /\ counts'.Dropped = counts.Dropped
          /\ counts'.Succeeded + counts'.Failed + counts'.Cancelled
               = counts.Succeeded + counts.Failed + counts.Cancelled + 1
      BY <2>1, <3>1, TallyCounts
    <3>4. counts'.Completed = counts'.Succeeded + counts'.Failed + counts'.Cancelled
      BY <3>1, <3>3 DEF Counting, CountsAgree, CountsType
    <3>5. /\ Cardinality(DroppedArrivals') = Cardinality(DroppedArrivals) + 0
          /\ Cardinality(InFlight') = Cardinality(InFlight) + (-1)
          /\ inFlight' = inFlight + (-1) /\ counts'.Dropped = counts.Dropped + 0
          /\ counts'.Started = counts.Started + (-1) + 1
      BY <1>5, <2>3, <3>1, <3>2, <3>3, CountedSets, CardinalityNat DEF CountsType
    <3> QED
      BY <2>4, <3>3, <3>4, <3>5, CountsAgreeStep DEF Counting
  <2>6. CASE item[i].cost = Unknown
    <3>1. CostKept' = CostKept \cup {i}
      BY <2>2, <2>6 DEF CostKept
    <3>2. Holding' = Holding
      BY <1>2, <1>3, <1>4, <3>1 DEF Holding
    <3>3. ReservationsAccounted'
      BY <1>8, <2>6, <3>2 DEF Reconcile, ReservationsAccounted
    <3> QED
      BY <1>7, <2>5, <3>3 DEF Counting
  <2>7. CASE item[i].cost # Unknown
    <3>1. CostKept' = CostKept
      BY <2>2, <2>7, <1>4 DEF CostKept
    <3>2. Holding' = Holding \ {i}
      BY <1>2, <1>3, <1>4, <3>1 DEF Holding
    <3>3. /\ heldCost' = heldCost + item[i].cost - Reserve
          /\ knownCost' = knownCost + item[i].cost /\ item[i].cost \in Nat
      BY <1>6, <2>1, <2>7 DEF Reconcile
    <3>4. ReservationsAccounted'
      BY <1>6, <1>8, <1>9, <3>2, <3>3 DEF ReservationsAccounted
    <3> QED
      BY <1>7, <2>5, <3>4 DEF Counting
  <2> QED
    BY <2>6, <2>7
<1> QED
  BY <1>10, <1>11

\* The second layer: on top of Structure, no step breaks Counting.
LEMMA NextCounting == Structure /\ Counting /\ [Next]_vars => Counting'
<1> SUFFICES ASSUME Structure, Counting, [Next]_vars PROVE Counting'
  OBVIOUS
<1>1. CASE Scheduler
  BY <1>1, ScheduleEndsCounting, ScheduleErrorCounting, TakeArrivalCounting,
     WaitUntilCounting, CollectCounting, GateCounting, CheckLagCounting, AcquireCounting,
     SaturatedCounting, RetryCounting, SpawnCounting, RefuseCounting, StartCounting,
     RejectedCounting, ReturnCounting DEF Scheduler, Drain, FinalCollect
<1>2. CASE \E i \in Arrivals : Worker(i)
  BY <1>2, OfferCounting, WithdrawCounting, CheckContextCounting, BeginProbeCounting,
     RoundTripCounting, ExchangeCounting, ReportCounting DEF Worker
<1>3. CASE Tick \/ Cancel
  BY <1>3, ClockCounting
<1>4. CASE UNCHANGED vars
  BY <1>4 DEF Counting, SlotsAccounted, CountsAgree, ReservationsAccounted, InFlight,
     SlotHolders, Holding, CostKept, Finished, DroppedArrivals, Unsettled, vars,
     schedulerVars, resultVars, channelVars, workerVars
<1> QED
  BY <1>1, <1>2, <1>3, <1>4 DEF Next, Terminated

LEMMA CountingInit == Init => Counting
<1> SUFFICES ASSUME Init PROVE Counting
  OBVIOUS
<1>1. /\ InFlight = {} /\ SlotHolders = {} /\ Finished = {} /\ DroppedArrivals = {}
      /\ Holding = {}
  BY DEF Init, InFlight, SlotHolders, Finished, DroppedArrivals, Holding, CostKept,
     Unsettled, Finishes, Drops
<1>2. Reserve * 0 = 0
  BY LoadGenAssumption DEF Positive
<1> QED
  BY <1>1, <1>2, FS_EmptySet
  DEF Init, Counting, SlotsAccounted, CountsAgree, ReservationsAccounted

-----------------------------------------------------------------------------
(***************************************************************************)
(* The third layer: the limits the scheduler checks, each of which must    *)
(* still hold when it is relied upon, some steps later.                    *)
(***************************************************************************)

\* Gate has found room for one more reservation, and drains only make more.
Covered ==
  pc \in {"lag", "acquire", "drainFull", "retry", "drainHeld"} =>
    Breached \/ heldCost + Reserve <= MaxCostUSD

\* TakeArrival has found room for one more request.
RequestsBounded ==
  /\ counts.Started <= MaxRequests
  /\ pc \in Deciding \cup {"ready"} => counts.Started < MaxRequests

\* A breach is only ever found where the scheduler looks for one next.
BreachSeen ==
  pc \in {"next", "wait", "lag", "acquire", "retry", "ready", "rejecting"} => ~Breached

Tallies ==
  counts.Scheduled >= 0 /\ counts.Succeeded >= 0 /\ counts.Failed >= 0 /\ counts.Cancelled >= 0

\* What the requests still in flight may add, if each costs as much as the
\* dearest one so far, stays within the bound on the overshoot.
OvershootInv ==
  Breached => \E c \in Costs :
    /\ c > Reserve
    /\ heldCost + inFlight * (c - Reserve) <= MaxCostUSD + MaxInFlight * (c - Reserve)

Limits ==
  /\ slots <= MaxInFlight
  /\ WithinBudget /\ Covered /\ RequestsBounded /\ BreachSeen /\ Tallies

LEMMA ConstantTypes ==
  /\ MaxInFlight \in Nat /\ MaxInFlight > 0 /\ MaxRequests \in Nat /\ MaxRequests > 0
  /\ MaxCostUSD \in Nat /\ Reserve \in Nat /\ Reserve > 0 /\ Costs \subseteq Nat
  BY LoadGenAssumption DEF Positive

LEMMA LimitsInit == Init => Limits
  BY ConstantTypes
  DEF Init, Limits, WithinBudget, Covered, RequestsBounded, BreachSeen, Tallies, Breached, Breach

\* A step that leaves everything the limits are about alone.
LEMMA SameLimits ==
  ASSUME Limits, UNCHANGED <<pc, slots, heldCost, counts, stopReason>>
  PROVE  Limits'
  BY DEF Limits, WithinBudget, Covered, RequestsBounded, BreachSeen, Tallies, Breached

LEMMA WorkerLimits ==
  ASSUME Structure, Limits, NEW i \in Arrivals, Worker(i)
  PROVE  Limits'
<1>1. CASE Withdraw(i)
  <2>1. slots' <= slots /\ slots \in Int
    BY <1>1 DEF Withdraw, FreeSlot, Structure, Shape
  <2>2. slots' <= MaxInFlight
    BY <1>1, <2>1, ConstantTypes DEF Limits, Withdraw, FreeSlot, Structure, Shape
  <2> QED
    BY <1>1, <2>2
    DEF Withdraw, Limits, WithinBudget, Covered, RequestsBounded, BreachSeen, Tallies,
        Breached, schedulerVars, resultVars
<1>2. CASE ~Withdraw(i)
  <2>1. UNCHANGED <<pc, slots, heldCost, counts, stopReason>>
    BY <1>2 DEF Worker, Offer, CheckContext, BeginProbe, RoundTrip, Exchange, Report, Finish,
       schedulerVars, resultVars, channelVars
  <2> QED
    BY <2>1, SameLimits
<1> QED
  BY <1>1, <1>2

\* The steps of the scheduler, the simple ones first.
LEMMA QuietLimits ==
  ASSUME Limits,
         \/ Tick \/ Cancel \/ ScheduleEnds \/ ScheduleError \/ WaitUntil \/ Saturated \/ Return
  PROVE  Limits'
  BY DEF Tick, Cancel, ScheduleEnds, ScheduleError, WaitUntil, Saturated, Return, Break,
     Limits, WithinBudget, Covered, RequestsBounded, BreachSeen, Tallies, Breached, Breach,
     schedulerVars, resultVars, channelVars

LEMMA TakeArrivalLimits ==
  ASSUME Structure, Limits, TakeArrival
  PROVE  Limits'
  BY DEF TakeArrival, Stop, Limits, WithinBudget, Covered, RequestsBounded, BreachSeen, Tallies,
     Breached, Breach, channelVars

LEMMA GateLimits ==
  ASSUME Structure, Limits, Gate
  PROVE  Limits'
<1> USE DEF Gate, Stop, Break, channelVars
<1>1. /\ counts \in CountsType
      /\ counts' = counts \/ counts' = [counts EXCEPT !.Scheduled = counts.Scheduled + 1]
  BY DEF Structure, Shape
<1>2. counts'.Started = counts.Started /\ Tallies'
  BY <1>1 DEF CountsType, Limits, Tallies
<1>3. RequestsBounded'
  BY <1>2 DEF Limits, RequestsBounded
<1>4. WithinBudget' /\ Covered' /\ BreachSeen'
  BY DEF Limits, WithinBudget, Covered, BreachSeen, Breached, Breach, Admissible
<1> QED
  BY <1>2, <1>3, <1>4 DEF Limits

LEMMA DropLimits ==
  ASSUME Structure, Limits, NEW reason, Drop(reason), slots' <= MaxInFlight,
         heldCost' <= heldCost, heldCost' \in Int,
         pc \in {"lag", "retry", "rejecting"}
  PROVE  Limits'
<1> USE DEF Drop
<1>1. /\ counts \in CountsType /\ heldCost \in Int
      /\ counts' = [counts EXCEPT !.Dropped = counts.Dropped + 1]
  BY DEF Structure, Shape
<1>2. counts'.Started = counts.Started /\ Tallies'
  BY <1>1 DEF CountsType, Limits, Tallies
<1>3. WithinBudget'
  BY <1>1, ConstantTypes DEF Limits, WithinBudget, Breached
<1> QED
  BY <1>2, <1>3 DEF Limits, Covered, RequestsBounded, BreachSeen, Breached

LEMMA CheckLagLimits ==
  ASSUME Structure, Limits, CheckLag
  PROVE  Limits'
<1> USE DEF CheckLag, channelVars
<1>1. CASE Drop("late")
  BY <1>1, DropLimits DEF Limits, Structure, Shape
<1>2. CASE ~Drop("late")
  BY <1>2 DEF Limits, WithinBudget, Covered, RequestsBounded, BreachSeen, Tallies, Breached
<1> QED
  BY <1>1, <1>2

LEMMA AcquireLimits ==
  ASSUME Structure, Limits, Acquire
  PROVE  Limits'
<1>1. slots' <= MaxInFlight
  BY ConstantTypes DEF Acquire, TakeSlot, Limits, Structure, Shape
<1> QED
  BY <1>1
  DEF Acquire, resultVars, Limits, WithinBudget, Covered, RequestsBounded, BreachSeen, Tallies,
      Breached

LEMMA RetryLimits ==
  ASSUME Structure, Limits, Retry
  PROVE  Limits'
<1>1. slots' <= MaxInFlight
  BY ConstantTypes DEF Retry, TakeSlot, Limits, Structure, Shape
<1>2. CASE Drop("saturated")
  BY <1>1, <1>2, DropLimits DEF Retry, Structure, Shape
<1>3. CASE ~Drop("saturated")
  BY <1>1, <1>3
  DEF Retry, Limits, WithinBudget, Covered, RequestsBounded, BreachSeen, Tallies, Breached
<1> QED
  BY <1>2, <1>3

LEMMA SpawnLimits ==
  ASSUME Structure, Limits, Spawn
  PROVE  Limits'
<1>1. slots' <= MaxInFlight
  BY ConstantTypes DEF Spawn, FreeSlot, Limits, Structure, Shape
<1>2. WithinBudget'
  BY DEF Spawn, Break, Limits, WithinBudget, Covered, Breached
<1> QED
  BY <1>1, <1>2
  DEF Spawn, Break, Limits, Covered, RequestsBounded, BreachSeen, Tallies, Breached

LEMMA RefuseLimits ==
  ASSUME Structure, Limits, Refuse
  PROVE  Limits'
  BY DEF Refuse, resultVars, channelVars, Limits, WithinBudget, Covered, RequestsBounded,
     BreachSeen, Tallies, Breached

LEMMA StartLimits ==
  ASSUME Structure, Limits, Start
  PROVE  Limits'
<1>1. counts \in CountsType /\ counts' = [counts EXCEPT !.Started = counts.Started + 1]
  BY DEF Start, Structure, Shape
<1>2. counts'.Started = counts.Started + 1 /\ Tallies' /\ counts.Started \in Int
  BY <1>1 DEF CountsType, Limits, Tallies
<1>3. RequestsBounded'
  BY <1>2, ConstantTypes DEF Start, Limits, RequestsBounded
<1> QED
  BY <1>2, <1>3 DEF Start, Limits, WithinBudget, Covered, BreachSeen, Breached

LEMMA RejectedLimits ==
  ASSUME Structure, Limits, Rejected
  PROVE  Limits'
<1>1. heldCost' \in Int /\ heldCost' <= heldCost /\ heldCost \in Int
  BY ConstantTypes DEF Rejected, ReleaseReservation, Structure, Shape
<1>2. slots' = slots
  BY DEF Rejected, channelVars
<1>3. CASE Drop("late")
  BY <1>1, <1>2, <1>3, DropLimits DEF Rejected, Limits
<1>4. CASE ctxDone
  <2>1. WithinBudget'
    BY <1>1, <1>4, ConstantTypes DEF Rejected, Break, Limits, WithinBudget, Breached
  <2> QED
    BY <1>2, <1>4, <2>1
    DEF Rejected, Break, Limits, Covered, RequestsBounded, BreachSeen, Tallies, Breached
<1> QED
  BY <1>3, <1>4 DEF Rejected

LEMMA CollectLimits ==
  ASSUME Structure, Limits, NEW i, Collect(i), pc \in Draining \cup {"collect"}
  PROVE  Limits'
<1>1. i \in Arrivals /\ item[i] \in Items /\ heldCost \in Int /\ counts \in CountsType
  BY DEF Collect, Structure, Shape
<1>2. slots' <= MaxInFlight
  BY ConstantTypes DEF Collect, FreeSlot, Limits, Structure, Shape
<1>3. pc' = pc
  BY DEF Collect, schedulerVars
<1>4. BreachSeen'
  BY <1>3 DEF BreachSeen
<1>5. CASE CollectDropped(i)
  <2>1. counts' = [counts EXCEPT !.Started = counts.Started - 1, !.Dropped = counts.Dropped + 1]
    BY <1>5 DEF CollectDropped
  <2>2. counts'.Started = counts.Started - 1 /\ counts.Started \in Int /\ Tallies'
    BY <1>1, <2>1 DEF CountsType, Limits, Tallies
  <2>3. RequestsBounded'
    BY <1>3, <2>2, ConstantTypes DEF Limits, RequestsBounded
  <2>4. WithinBudget' /\ Covered'
    BY <1>1, <1>3, <1>5, ConstantTypes
    DEF CollectDropped, ReleaseReservation, Limits, WithinBudget, Covered, Breached
  <2> QED
    BY <1>2, <1>4, <2>2, <2>3, <2>4 DEF Limits
<1>6. CASE CollectFinished(i)
  <2>1. item[i].verdict \in Finishes /\ item[i].cost \in Costs \cup {Unknown}
    BY <1>1 DEF Items
  <2>2. counts' = Tally(counts, item[i].verdict)
    BY <1>6 DEF CollectFinished
  <2>3. counts'.Started = counts.Started /\ Tallies'
    <3>1. /\ counts'.Scheduled = counts.Scheduled /\ counts'.Succeeded >= counts.Succeeded
          /\ counts'.Failed >= counts.Failed /\ counts'.Cancelled >= counts.Cancelled
          /\ counts'.Started = counts.Started
      BY <1>1, <2>1, <2>2, TallyCounts
    <3>2. counts' \in CountsType
      BY <1>1, <2>1, <2>2, TallyType
    <3> QED
      BY <1>1, <3>1, <3>2 DEF CountsType, Limits, Tallies
  <2>4. RequestsBounded'
    BY <1>3, <2>3 DEF Limits, RequestsBounded
  <2>5. WithinBudget' /\ Covered'
    <3>1. CASE item[i].cost = Unknown
      BY <1>3, <1>6, <3>1
      DEF CollectFinished, Reconcile, Limits, WithinBudget, Covered, Breached
    <3>2. CASE item[i].cost # Unknown
      <4>1. item[i].cost \in Nat
        BY <2>1, <3>2, ConstantTypes
      <4>2. heldCost' = heldCost + item[i].cost - Reserve
        BY <1>6, <3>2 DEF CollectFinished, Reconcile
      <4>3. Breached' <=> Breached \/ item[i].cost > Reserve
        BY <1>6, <3>2 DEF CollectFinished, Reconcile, Breached
      <4>4. ~Breached' => ~Breached /\ heldCost' <= heldCost
        BY <1>1, <4>1, <4>2, <4>3, ConstantTypes
      <4> QED
        BY <1>1, <1>3, <4>1, <4>2, <4>4, ConstantTypes DEF Limits, WithinBudget, Covered
    <3> QED
      BY <3>1, <3>2
  <2> QED
    BY <1>2, <1>4, <2>3, <2>4, <2>5 DEF Limits
<1> QED
  BY <1>5, <1>6 DEF Collect

\* The third layer: on top of Structure, no step breaks Limits.
LEMMA NextLimits == Structure /\ Limits /\ [Next]_vars => Limits'
<1> SUFFICES ASSUME Structure, Limits, [Next]_vars PROVE Limits'
  OBVIOUS
<1>1. CASE Scheduler
  BY <1>1, QuietLimits, TakeArrivalLimits, GateLimits, CheckLagLimits, AcquireLimits,
     RetryLimits, SpawnLimits, RefuseLimits, StartLimits, RejectedLimits, CollectLimits
  DEF Scheduler, Drain, FinalCollect
<1>2. CASE \E i \in Arrivals : Worker(i)
  BY <1>2, WorkerLimits
<1>3. CASE Tick \/ Cancel
  BY <1>3, QuietLimits
<1>4. CASE UNCHANGED vars
  BY <1>4, SameLimits DEF vars, schedulerVars, resultVars, channelVars
<1> QED
  BY <1>1, <1>2, <1>3, <1>4 DEF Next, Terminated

-----------------------------------------------------------------------------
(***************************************************************************)
(* The arrivals scheduled against those started and dropped.               *)
(***************************************************************************)

\* The arrival the scheduler is deciding about has been counted as scheduled,
\* and is not yet started or dropped; a break leaves it so only for a reason.
Open == counts.Scheduled - (counts.Started + counts.Dropped)
MayStayOpen == ctxDone \/ Breached
Over == pc = "collect" \/ (pc = "returned" /\ retErr # "schedule")
Balance ==
  /\ pc \in {"next", "wait", "drain"} => Open = 0
  /\ pc \in {"lag", "acquire", "drainFull", "retry", "drainHeld", "ready", "rejecting"} => Open = 1
  /\ Over => Open = 0 \/ (Open = 1 /\ MayStayOpen)
  /\ pc = "returned" /\ retErr # "schedule" => inFlight = 0

LEMMA BalanceInit == Init => Balance
  BY DEF Init, Balance, Open, Over

\* A step that leaves the counts and the scheduler where they are.
LEMMA SameBalance ==
  ASSUME Balance, UNCHANGED <<pc, retErr, counts, inFlight, stopReason>>, ctxDone => ctxDone'
  PROVE  Balance'
  BY DEF Balance, Open, Over, MayStayOpen, Breached

LEMMA QuietBalance ==
  ASSUME Structure, Balance,
         \/ ScheduleEnds \/ ScheduleError \/ TakeArrival \/ WaitUntil \/ Acquire
         \/ Saturated \/ Spawn \/ Refuse \/ Return
  PROVE  Balance'
<1>1. Open' = Open /\ UNCHANGED <<inFlight, ctxDone>>
  BY DEF ScheduleEnds, ScheduleError, TakeArrival, WaitUntil, Acquire, Saturated, Spawn,
     Refuse, Return, Open, resultVars, channelVars
<1>2. CASE ScheduleEnds \/ TakeArrival \/ WaitUntil
  BY <1>1, <1>2 DEF ScheduleEnds, TakeArrival, WaitUntil, Break, Stop, Balance, Over
<1>3. CASE Acquire \/ Refuse
  BY <1>1, <1>3 DEF Acquire, Refuse, Balance, Over
<1>4. CASE ScheduleError
  BY <1>4 DEF ScheduleError, Balance, Over
<1>5. CASE Saturated \/ Spawn
  BY <1>1, <1>5 DEF Saturated, Spawn, Break, Balance, Over, MayStayOpen, Breached, resultVars
<1>6. CASE Return
  BY <1>1, <1>6 DEF Return, Balance, Over, MayStayOpen, Breached, resultVars
<1> QED
  BY <1>2, <1>3, <1>4, <1>5, <1>6

\* An arrival becomes open when Gate schedules it.
LEMMA GateBalance == ASSUME Structure, Balance, Gate PROVE Balance'
<1>1. counts \in CountsType /\ pc = "drain" /\ Open = 0
  BY DEF Gate, Structure, Shape, Balance
<1>2. CASE counts' = counts /\ pc' = "collect"
  BY <1>1, <1>2 DEF Balance, Open, Over
<1>3. CASE counts' = [counts EXCEPT !.Scheduled = counts.Scheduled + 1] /\ pc' = "lag"
  <2>1. Open' = 1
    BY <1>1, <1>3 DEF CountsType, Open
  <2> QED
    BY <1>3, <2>1 DEF Balance, Over
<1> QED
  BY <1>2, <1>3 DEF Gate, Stop, Break

\* It is settled by a drop before its goroutine, or by its start.
LEMMA DropBalance ==
  ASSUME Structure, Balance, NEW reason, Drop(reason), pc \in {"lag", "retry", "rejecting"}
  PROVE  Balance'
<1>1. counts \in CountsType /\ Open = 1
  BY DEF Structure, Shape, Balance
<1>2. counts' = [counts EXCEPT !.Dropped = counts.Dropped + 1] /\ pc' = "next"
  BY DEF Drop
<1>3. Open' = 0
  BY <1>1, <1>2 DEF CountsType, Open
<1> QED
  BY <1>2, <1>3 DEF Balance, Over

LEMMA StartBalance == ASSUME Structure, Balance, Start PROVE Balance'
<1>1. counts \in CountsType /\ Open = 1
  BY DEF Structure, Shape, Balance, Start
<1>2. counts' = [counts EXCEPT !.Started = counts.Started + 1] /\ pc' = "next"
  BY DEF Start
<1>3. Open' = 0
  BY <1>1, <1>2 DEF CountsType, Open
<1> QED
  BY <1>2, <1>3 DEF Balance, Over

LEMMA DecideBalance ==
  ASSUME Structure, Balance, CheckLag \/ Retry \/ Rejected
  PROVE  Balance'
<1>1. CASE \E reason \in Drops : Drop(reason)
  BY <1>1, DropBalance DEF CheckLag, Retry, Rejected
<1>2. CASE /\ UNCHANGED <<counts, stopReason, inFlight, ctxDone>>
           /\ (pc' = "collect" /\ ctxDone) \/ pc' \in {"acquire", "drainHeld"}
  BY <1>2 DEF CheckLag, Retry, Rejected, Balance, Open, Over, MayStayOpen
<1> QED
  BY <1>1, <1>2 DEF CheckLag, Retry, Rejected, Break, Drops, channelVars

\* A completion that was dropped late gives back its start for the drop.
LEMMA CollectBalance ==
  ASSUME Structure, Balance, NEW i, Collect(i), pc \in Draining \cup {"collect"}
  PROVE  Balance'
<1>1. i \in Arrivals /\ item[i] \in Items /\ counts \in CountsType
  BY DEF Collect, Structure, Shape
<1>2. pc' = pc /\ retErr' = retErr /\ ctxDone' = ctxDone
  BY DEF Collect, schedulerVars
<1>3. Breached => Breached'
  BY DEF Collect, CollectDropped, CollectFinished, Reconcile, Breached
<1>4. Open' = Open
  <2>1. CASE CollectDropped(i)
    <3>1. counts' = [counts EXCEPT !.Started = counts.Started - 1, !.Dropped = counts.Dropped + 1]
      BY <2>1 DEF CollectDropped
    <3> QED
      BY <1>1, <3>1 DEF CountsType, Open
  <2>2. CASE CollectFinished(i)
    <3>1. counts' = Tally(counts, item[i].verdict)
      BY <2>2 DEF CollectFinished
    <3>2. counts'.Scheduled = counts.Scheduled /\ counts'.Started = counts.Started
          /\ counts'.Dropped = counts.Dropped
      BY <1>1, <3>1 DEF Tally, CountsType
    <3> QED
      BY <3>2 DEF Open
  <2> QED
    BY <2>1, <2>2 DEF Collect
<1> QED
  BY <1>2, <1>3, <1>4 DEF Balance, Over, MayStayOpen

\* The fourth layer: on top of Structure, no step breaks Balance.
LEMMA NextBalance == Structure /\ Balance /\ [Next]_vars => Balance'
<1> SUFFICES ASSUME Structure, Balance, [Next]_vars PROVE Balance'
  OBVIOUS
<1>1. CASE Scheduler
  BY <1>1, QuietBalance, GateBalance, StartBalance, DecideBalance, CollectBalance
  DEF Scheduler, Drain, FinalCollect
<1>2. CASE \E i \in Arrivals : Worker(i)
  <2>1. UNCHANGED <<pc, retErr, counts, inFlight, stopReason, ctxDone>>
    BY <1>2 DEF Worker, Offer, Withdraw, CheckContext, BeginProbe, RoundTrip, Exchange,
       Report, Finish, schedulerVars, resultVars, channelVars
  <2> QED
    BY <2>1, SameBalance
<1>3. CASE Tick \/ Cancel \/ UNCHANGED vars
  BY <1>3, SameBalance DEF Tick, Cancel, vars, schedulerVars, resultVars, channelVars
<1> QED
  BY <1>1, <1>2, <1>3 DEF Next, Terminated

-----------------------------------------------------------------------------
(***************************************************************************)
(* The overshoot after a breach.                                           *)
(***************************************************************************)
LEMMA Monotone ==
  \A a, b, d \in Int : a <= b /\ d >= 0 => a * d <= b * d
  OBVIOUS

LEMMA Distribute ==
  \A a, b, d \in Int : a * (b + d) = a * b + a * d /\ (a - 1) * d = a * d - d
  OBVIOUS

LEMMA InFlightBounded ==
  ASSUME Structure, Counting, Limits
  PROVE  inFlight \in Nat /\ inFlight <= MaxInFlight
<1>1. Cardinality(InFlight) <= Cardinality(SlotHolders)
  BY CountedSets, ArrivalsFinite, FS_Subset DEF SlotHolders
<1>2. Cardinality(InFlight) \in Nat /\ Cardinality(SlotHolders) \in Nat
  BY CountedSets, CardinalityNat
<1>3. inFlight = Cardinality(InFlight)
  BY DEF Counting, CountsAgree
<1>4. Cardinality(SlotHolders) <= slots
  BY <1>2 DEF Counting, SlotsAccounted
<1> QED
  BY <1>1, <1>2, <1>3, <1>4, ConstantTypes DEF Limits, Structure, Shape

LEMMA CollectOvershoot ==
  ASSUME Structure, Counting, Limits, OvershootInv, NEW i, Collect(i)
  PROVE  OvershootInv'
<1>1. i \in Arrivals /\ item[i] \in Items /\ heldCost \in Int /\ inFlight' = inFlight - 1
  BY DEF Collect, Structure, Shape
<1>2. inFlight \in Nat /\ inFlight <= MaxInFlight
  BY InFlightBounded
<1>3. CASE CollectDropped(i)
  <2> SUFFICES ASSUME Breached PROVE OvershootInv'
    BY <1>3 DEF CollectDropped, Breached, OvershootInv
  <2>1. PICK c \in Costs :
          /\ c > Reserve
          /\ heldCost + inFlight * (c - Reserve) <= MaxCostUSD + MaxInFlight * (c - Reserve)
    BY DEF OvershootInv
  <2> DEFINE d == c - Reserve
  <2>2. d \in Nat /\ c \in Int
    BY <2>1, ConstantTypes
  <2>3. heldCost' = heldCost - Reserve
    BY <1>3 DEF CollectDropped, ReleaseReservation
  <2>4. (inFlight - 1) * d = inFlight * d - d
    BY <1>2, <2>2, Distribute
  <2>5. heldCost' + inFlight' * d <= heldCost + inFlight * d
    <3>1. inFlight * d \in Int
      BY <1>2, <2>2
    <3> HIDE DEF d
    <3> QED
      BY <1>1, <2>2, <2>3, <2>4, <3>1, ConstantTypes
  <2>6. heldCost' + inFlight' * d <= MaxCostUSD + MaxInFlight * d
    <3>1. inFlight * d \in Int /\ inFlight' * d \in Int /\ MaxInFlight * d \in Int /\ heldCost' \in Int
      BY <1>1, <1>2, <2>2, <2>3, ConstantTypes
    <3> QED
      BY <1>1, <2>1, <2>5, <3>1, ConstantTypes
  <2> QED
    BY <2>1, <2>6 DEF OvershootInv
<1>4. CASE CollectFinished(i) /\ item[i].cost = Unknown
  <2> SUFFICES ASSUME Breached PROVE OvershootInv'
    BY <1>4 DEF CollectFinished, Reconcile, Breached, OvershootInv
  <2>1. PICK c \in Costs :
          /\ c > Reserve
          /\ heldCost + inFlight * (c - Reserve) <= MaxCostUSD + MaxInFlight * (c - Reserve)
    BY DEF OvershootInv
  <2> DEFINE d == c - Reserve
  <2>2. d \in Nat /\ heldCost' = heldCost
    BY <1>4, <2>1, ConstantTypes DEF CollectFinished, Reconcile
  <2>3. (inFlight - 1) * d = inFlight * d - d /\ inFlight * d \in Int /\ MaxInFlight * d \in Int
    BY <1>2, <2>2, Distribute, ConstantTypes
  <2>4. heldCost' + inFlight' * d <= MaxCostUSD + MaxInFlight * d
    BY <1>1, <2>1, <2>2, <2>3, ConstantTypes
  <2> QED
    BY <2>1, <2>4 DEF OvershootInv
<1>5. CASE CollectFinished(i) /\ item[i].cost # Unknown
  <2> DEFINE k == item[i].cost
  <2>1. k \in Costs /\ k \in Nat
    BY <1>1, <1>5, ConstantTypes DEF Items
  <2>2. heldCost' = heldCost + k - Reserve /\ (Breached' <=> Breached \/ k > Reserve)
    BY <1>5 DEF CollectFinished, Reconcile, Breached
  <2> HIDE DEF k
  <2>3. CASE ~Breached /\ k > Reserve
    <3> DEFINE e == k - Reserve
    <3>1. e \in Nat /\ heldCost <= MaxCostUSD
      BY <2>1, <2>3, ConstantTypes DEF Limits, WithinBudget
    <3>2. /\ (inFlight - 1) * e = inFlight * e - e /\ inFlight * e <= MaxInFlight * e
          /\ inFlight * e \in Int /\ MaxInFlight * e \in Int
      BY <1>2, <3>1, Distribute, Monotone, ConstantTypes
    <3>3. heldCost' + inFlight' * e <= MaxCostUSD + MaxInFlight * e
      BY <1>1, <2>1, <2>2, <3>1, <3>2, ConstantTypes
    <3> QED
      BY <2>1, <2>3, <3>3 DEF OvershootInv
  <2>4. CASE Breached
    <3>1. PICK c \in Costs :
            /\ c > Reserve
            /\ heldCost + inFlight * (c - Reserve) <= MaxCostUSD + MaxInFlight * (c - Reserve)
      BY <2>4 DEF OvershootInv
    <3> DEFINE d == c - Reserve
               e == k - Reserve
    <3>2. d \in Nat /\ e \in Int /\ c \in Nat
      BY <2>1, <3>1, ConstantTypes
    <3>3. CASE k <= c
      <4>1. e <= d
        BY <2>1, <3>2, <3>3, ConstantTypes
      <4>2. /\ (inFlight - 1) * d = inFlight * d - d
            /\ inFlight * d \in Int /\ MaxInFlight * d \in Int
        BY <1>2, <3>2, Distribute, ConstantTypes
      <4>3. heldCost' = heldCost + e
        BY <1>1, <2>1, <2>2, ConstantTypes
      <4>4. heldCost + inFlight * d <= MaxCostUSD + MaxInFlight * d
        BY <3>1
      <4> HIDE DEF d, e
      <4>5. heldCost' + inFlight' * d <= MaxCostUSD + MaxInFlight * d
        BY <1>1, <3>2, <4>1, <4>2, <4>3, <4>4, ConstantTypes
      <4> QED
        BY <3>1, <4>5 DEF OvershootInv, d
    <3>4. CASE k > c
      <4> DEFINE g == k - c
      <4>1. g \in Nat /\ e = d + g /\ e \in Nat
        BY <2>1, <3>2, <3>4, ConstantTypes
      <4>2. heldCost' = heldCost + e
        BY <1>1, <2>1, <2>2, ConstantTypes
      <4>3. heldCost + inFlight * d <= MaxCostUSD + MaxInFlight * d
        BY <3>1
      <4> HIDE DEF d, e, g
      <4>4. /\ inFlight * e = inFlight * d + inFlight * g
            /\ MaxInFlight * e = MaxInFlight * d + MaxInFlight * g
            /\ inFlight * g <= MaxInFlight * g
            /\ (inFlight - 1) * e = inFlight * e - e
        BY <1>2, <3>2, <4>1, Distribute, Monotone, ConstantTypes
      <4>5. /\ inFlight * d \in Int /\ inFlight * g \in Int /\ inFlight * e \in Int
            /\ MaxInFlight * d \in Int /\ MaxInFlight * g \in Int /\ MaxInFlight * e \in Int
        BY <1>2, <3>2, <4>1, ConstantTypes
      <4>6. heldCost' + inFlight' * e = heldCost + inFlight * e
        BY <1>1, <4>1, <4>2, <4>4, <4>5
      <4>7. heldCost + inFlight * e <= MaxCostUSD + MaxInFlight * e
        BY <1>1, <4>3, <4>4, <4>5, ConstantTypes
      <4>8. heldCost' + inFlight' * e <= MaxCostUSD + MaxInFlight * e
        BY <4>6, <4>7
      <4> QED
        <5>1. k > Reserve
          BY <2>1, <3>1, <3>2, <3>4, ConstantTypes
        <5> QED
          BY <2>1, <4>8, <5>1 DEF OvershootInv, e
    <3> QED
      BY <2>1, <3>2, <3>3, <3>4
  <2>5. CASE ~Breached /\ ~(k > Reserve)
    BY <2>2, <2>5 DEF OvershootInv
  <2> QED
    BY <2>3, <2>4, <2>5
<1> QED
  BY <1>3, <1>4, <1>5 DEF Collect

\* Only Collect can make the overshoot worse: after a breach nothing is started.
LEMMA NextOvershoot ==
  Structure /\ Counting /\ Limits /\ OvershootInv /\ [Next]_vars => OvershootInv'
<1> SUFFICES ASSUME Structure, Counting, Limits, OvershootInv, [Next]_vars PROVE OvershootInv'
  OBVIOUS
<1>1. CASE Drain \/ FinalCollect
  BY <1>1, CollectOvershoot DEF Drain, FinalCollect
<1>2. CASE UNCHANGED <<heldCost, inFlight, stopReason>>
  BY <1>2 DEF OvershootInv, Breached
<1>3. CASE Spawn \/ Start \/ Rejected \/ Gate \/ TakeArrival
  <2>1. CASE Breached
    <3>1. UNCHANGED <<heldCost, inFlight, stopReason>>
      BY <1>3, <2>1
      DEF Spawn, Start, Rejected, Gate, TakeArrival, Limits, BreachSeen, Break, channelVars
    <3> QED
      BY <1>2, <3>1
  <2>2. CASE ~Breached
    <3>1. ~Breached'
      BY <1>3, <2>2 DEF Spawn, Start, Rejected, Gate, TakeArrival, Drop, Break, Stop,
         Breached, Breach
    <3> QED
      BY <3>1 DEF OvershootInv
  <2> QED
    BY <2>1, <2>2
<1>4. CASE \/ Tick \/ Cancel \/ ScheduleEnds \/ ScheduleError \/ WaitUntil \/ Saturated
           \/ Return \/ CheckLag \/ Acquire \/ Retry \/ Refuse \/ Terminated
  BY <1>2, <1>4 DEF Tick, Cancel, ScheduleEnds, ScheduleError, WaitUntil, Saturated, Return,
     CheckLag, Acquire, Retry, Refuse, Terminated, Drop, Break, vars,
     schedulerVars, resultVars, channelVars
<1>5. CASE \E i \in Arrivals : Worker(i)
  BY <1>2, <1>5 DEF Worker, Offer, Withdraw, CheckContext, BeginProbe, RoundTrip, Exchange,
     Report, Finish, schedulerVars, resultVars, channelVars
<1>6. CASE UNCHANGED vars
  BY <1>2, <1>6 DEF vars, schedulerVars, resultVars, channelVars
<1> QED
  BY <1>1, <1>3, <1>4, <1>5, <1>6 DEF Next, Scheduler

-----------------------------------------------------------------------------
(***************************************************************************)
(* The theorems.                                                           *)
(***************************************************************************)
IInv == Structure /\ Counting /\ Limits /\ OvershootInv /\ Balance

LEMMA InitIInv == Init => IInv
  BY StructureInit, CountingInit, LimitsInit, BalanceInit DEF IInv, OvershootInv, Breached, Breach, Init

LEMMA NextIInv == IInv /\ [Next]_vars => IInv'
  BY NextStructure, NextCounting, NextLimits, NextOvershoot, NextBalance DEF IInv

\* The inductive invariant of the load generator holds in every reachable state.
THEOREM Invariance == Spec => []IInv
<1>1. Init => IInv
  BY InitIInv
<1>2. IInv /\ [Next]_vars => IInv'
  BY NextIInv
<1> QED
  BY <1>1, <1>2, PTL DEF Spec

LEMMA TypeFromIInv == IInv => TypeOK
<1> SUFFICES ASSUME IInv PROVE TypeOK
  OBVIOUS
<1> USE DEF IInv
<1>1. slots \in 0..MaxInFlight
  BY CountedSets, CardinalityNat, ConstantTypes
  DEF Counting, SlotsAccounted, Limits, Structure, Shape
<1>2. inFlight \in Nat
  BY InFlightBounded
<1>3. heldCost \in Nat
  <2>1. Cardinality(Holding) \in Nat
    BY CountedSets, CardinalityNat
  <2>2. Reserve * Cardinality(Holding) \in Nat
    BY <2>1, ConstantTypes
  <2>3. knownCost \in Nat
    BY DEF Structure, Shape
  <2> QED
    BY <2>2, <2>3 DEF Counting, ReservationsAccounted
<1>4. counts \in [Scheduled : Nat, Started : Nat, Completed : Nat, Succeeded : Nat,
                  Failed : Nat, Cancelled : Nat, Dropped : Nat]
  <2>1. counts \in CountsType
    BY DEF Structure, Shape
  <2>2. /\ counts.Completed \in Nat /\ counts.Started \in Nat /\ counts.Dropped \in Nat
    <3>1. counts.Completed \in Nat /\ counts.Dropped \in Nat
      BY CountedSets, CardinalityNat DEF Counting, CountsAgree
    <3>2. counts.Started = counts.Completed + inFlight
      BY DEF Counting, CountsAgree
    <3> QED
      BY <1>2, <3>1, <3>2
  <2>3. /\ counts.Scheduled \in Nat /\ counts.Succeeded \in Nat /\ counts.Failed \in Nat
        /\ counts.Cancelled \in Nat
    BY <2>1 DEF Limits, Tallies, CountsType
  <2> QED
    BY <2>1, <2>2, <2>3 DEF CountsType
<1> QED
  BY <1>1, <1>2, <1>3, <1>4 DEF TypeOK, Structure, Shape

LEMMA CeilingFromIInv == IInv => InFlightCeiling /\ SendNeverBlocks
<1> SUFFICES ASSUME IInv PROVE InFlightCeiling /\ SendNeverBlocks
  OBVIOUS
<1> USE DEF IInv
<1>1. /\ Cardinality(SlotHolders) \in Nat /\ Cardinality(SlotHolders) <= MaxInFlight
      /\ IsFiniteSet(SlotHolders)
  BY CountedSets, CardinalityNat, ArrivalsFinite, ConstantTypes
  DEF Counting, SlotsAccounted, Limits, Structure, Shape
<1>2. InFlightCeiling
  <2> DEFINE R == {i \in Arrivals : worker[i] \in Running}
  <2>1. R \in SUBSET SlotHolders /\ Cardinality(R) \in Nat
    BY CardinalityNat DEF SlotHolders, InFlight
  <2>2. Cardinality(R) <= Cardinality(SlotHolders)
    BY <1>1, <2>1, FS_Subset
  <2> QED
    BY <1>1, <2>1, <2>2, ConstantTypes DEF InFlightCeiling
<1>3. SendNeverBlocks
  <2> SUFFICES ASSUME NEW i \in Arrivals, worker[i] = "reporting"
               PROVE  Cardinality(completions) < MaxInFlight
    BY DEF SendNeverBlocks
  <2>1. i \notin completions /\ completions \in SUBSET Arrivals
    BY DEF Structure, Shape, Exclusive
  <2>2. completions \cup {i} \in SUBSET SlotHolders
    BY <2>1 DEF SlotHolders, InFlight
  <2>3. Cardinality(completions \cup {i}) <= Cardinality(SlotHolders)
    BY <1>1, <2>2, FS_Subset
  <2>4. Cardinality(completions \cup {i}) = Cardinality(completions) + 1
    BY <2>1, AddOne
  <2>5. Cardinality(completions) \in Nat
    BY <2>1, CardinalityNat
  <2> QED
    BY <1>1, <2>3, <2>4, <2>5, ConstantTypes
<1> QED
  BY <1>2, <1>3

LEMMA CapFromIInv == IInv => RequestCap
<1> SUFFICES ASSUME IInv PROVE RequestCap
  OBVIOUS
<1> USE DEF IInv
<1>1. sent \in SUBSET (InFlight \cup Finished)
  <2> SUFFICES ASSUME NEW i \in sent PROVE i \in InFlight \cup Finished
    OBVIOUS
  <2>1. i \in Arrivals /\ outcomes[i] \in {"none"} \cup Drops \cup Finishes
    BY DEF Structure, Shape
  <2>2. /\ worker[i] \in {"onwire", "reporting", "gone"} /\ outcomes[i] \notin Drops
        /\ worker[i] = "gone" => i \in completions \/ outcomes[i] # "none"
    BY <2>1 DEF Structure, SentInTime
  <2> QED
    BY <2>1, <2>2 DEF InFlight, Finished
<1>2. InFlight \cap Finished = {}
  BY DEF InFlight, Finished, Finishes, Structure, Exclusive
<1>3. IsFiniteSet(InFlight) /\ IsFiniteSet(Finished)
  BY CountedSets, ArrivalsFinite
<1>4. /\ IsFiniteSet(InFlight \cup Finished)
      /\ Cardinality(InFlight \cup Finished)
           = Cardinality(InFlight) + Cardinality(Finished) - Cardinality(InFlight \cap Finished)
  BY <1>3, FS_Union
<1>5. Cardinality(InFlight \cap Finished) = 0
  BY <1>2, FS_EmptySet
<1>6. Cardinality(sent) <= Cardinality(InFlight \cup Finished)
  BY <1>1, <1>4, FS_Subset
<1>7. /\ Cardinality(InFlight) \in Nat /\ Cardinality(Finished) \in Nat
      /\ Cardinality(sent) \in Nat
  BY CountedSets, CardinalityNat DEF Structure, Shape
<1>8. Cardinality(InFlight) + Cardinality(Finished) = counts.Started /\ counts.Started <= MaxRequests
  BY <1>7 DEF Counting, CountsAgree, Limits, RequestsBounded
<1> QED
  BY <1>4, <1>5, <1>6, <1>7, <1>8, ConstantTypes DEF RequestCap

\* After a breach only requests in flight can still overshoot.
LEMMA OvershootFromIInv == IInv => OvershootBounded
<1> SUFFICES ASSUME IInv, Breached PROVE OvershootBounded
  BY DEF OvershootBounded
<1>1. PICK c \in Costs :
        /\ c > Reserve
        /\ heldCost + inFlight * (c - Reserve) <= MaxCostUSD + MaxInFlight * (c - Reserve)
  BY DEF IInv, OvershootInv
<1>2. c - Reserve \in Nat /\ inFlight \in Nat /\ heldCost \in Int
  BY <1>1, ConstantTypes, InFlightBounded DEF IInv, Structure, Shape
<1>3. inFlight * (c - Reserve) >= 0 /\ inFlight * (c - Reserve) \in Int
      /\ MaxInFlight * (c - Reserve) \in Int
  BY <1>2, ConstantTypes
<1>4. heldCost <= MaxCostUSD + MaxInFlight * (c - Reserve)
  BY <1>1, <1>2, <1>3, ConstantTypes
<1> QED
  BY <1>1, <1>4 DEF OvershootBounded

\* Nothing is held when Run returns: the scheduler waits for what is in flight,
\* and an undecided goroutine exists only while it is at the handshake.
LEMMA ReturnFromIInv == IInv => ReturnReconciled
<1> SUFFICES ASSUME IInv, pc = "returned", retErr # "schedule"
             PROVE  /\ slots = 0 /\ SlotHolders = {}
                    /\ counts.Started = counts.Completed
                    /\ counts.Scheduled - (counts.Started + counts.Dropped)
                         \in {0} \cup (IF ctxDone \/ Breached THEN {1} ELSE {})
  BY DEF ReturnReconciled
<1> USE DEF IInv
<1>1. inFlight = 0
  BY DEF Balance
<1>2. InFlight = {}
  <2>1. Cardinality(InFlight) = 0 /\ IsFiniteSet(InFlight)
    BY <1>1, CountedSets, ArrivalsFinite DEF Counting, CountsAgree
  <2> QED
    BY <2>1, FS_EmptySet
<1>3. SlotHolders = {}
  <2>1. \A i \in Arrivals : worker[i] \notin Undecided
    BY DEF Structure, Handshake
  <2> QED
    BY <1>2, <2>1 DEF SlotHolders
<1>4. slots = 0
  <2>1. Cardinality(SlotHolders) = 0
    BY <1>3, FS_EmptySet
  <2> QED
    BY <2>1 DEF Counting, SlotsAccounted
<1>5. counts.Started = counts.Completed
  BY <1>1 DEF Counting, CountsAgree, Structure, Shape, CountsType
<1>6. Open = 0 \/ (Open = 1 /\ MayStayOpen)
  BY DEF Balance, Over
<1> QED
  BY <1>3, <1>4, <1>5, <1>6 DEF Open, MayStayOpen

\* Type correctness of Run's state, natural counters included.
THEOREM TypeCorrectness == Spec => []TypeOK
  BY Invariance, TypeFromIInv, PTL

\* The semaphore counts exactly what is being started or in flight.
THEOREM Accounting == Spec => []SlotsAccounted
<1>1. IInv => SlotsAccounted
  BY DEF IInv, Counting
<1> QED
  BY <1>1, Invariance, PTL

\* The counts agree with the outcomes and with what is in flight.
THEOREM CountsBalance == Spec => []CountsAgree
<1>1. IInv => CountsAgree
  BY DEF IInv, Counting
<1> QED
  BY <1>1, Invariance, PTL

\* The cost held is what is known to be spent and a reservation for each
\* request that may still cost something.
THEOREM ReservationsBalance == Spec => []ReservationsAccounted
<1>1. IInv => ReservationsAccounted
  BY DEF IInv, Counting
<1> QED
  BY <1>1, Invariance, PTL

\* What Run returns is complete.
THEOREM NothingLeft == Spec => []ReturnReconciled
  BY Invariance, ReturnFromIInv, PTL

\* max_in_flight is a ceiling on requests, and the completions channel never full
\* when a worker sends on it.
THEOREM Ceiling == Spec => [](InFlightCeiling /\ SendNeverBlocks)
  BY Invariance, CeilingFromIInv, PTL

\* Known costs and reservations stay in the safety budget up to the first breach,
\* and within the stated overshoot after it.
THEOREM Budget == Spec => []BudgetHeld
<1>1. IInv => BudgetHeld
  BY OvershootFromIInv DEF IInv, Limits, BudgetHeld
<1> QED
  BY <1>1, Invariance, PTL

\* No more than max_requests requests reach the network.
THEOREM Cap == Spec => []RequestCap
  BY Invariance, CapFromIInv, PTL

\* An arrival recorded as dropped made no request.
THEOREM DropsNeverSent == Spec => []DroppedNeverSent
<1>1. IInv => DroppedNeverSent
  BY DEF IInv, Structure, SentInTime, DroppedNeverSent, DroppedArrivals
<1> QED
  BY <1>1, Invariance, PTL

LEMMA BreachStep == IInv /\ [Next]_vars => (Breached => stopReason' = Breach /\ inFlight' <= inFlight)
<1> SUFFICES ASSUME IInv, [Next]_vars, Breached PROVE stopReason' = Breach /\ inFlight' <= inFlight
  OBVIOUS
<1> USE DEF IInv
<1>1. inFlight \in Int /\ stopReason = Breach
  BY DEF Structure, Shape, Breached
<1>2. CASE UNCHANGED <<inFlight, stopReason>>
  BY <1>1, <1>2
<1>3. ASSUME NEW i, Collect(i) PROVE stopReason' = Breach /\ inFlight' <= inFlight
  BY <1>1, <1>3 DEF Collect, CollectDropped, CollectFinished, Reconcile
<1>4. CASE Drain \/ FinalCollect
  BY <1>3, <1>4 DEF Drain, FinalCollect
<1>5. CASE Spawn \/ Start \/ Rejected \/ Gate \/ TakeArrival
  BY <1>2, <1>5 DEF Spawn, Start, Rejected, Gate, TakeArrival, Limits, BreachSeen, Break,
     channelVars
<1>6. CASE \/ Tick \/ Cancel \/ ScheduleEnds \/ ScheduleError \/ WaitUntil \/ Saturated
           \/ Return \/ CheckLag \/ Acquire \/ Retry \/ Refuse \/ Terminated
  BY <1>2, <1>6 DEF Tick, Cancel, ScheduleEnds, ScheduleError, WaitUntil, Saturated, Return,
     CheckLag, Acquire, Retry, Refuse, Terminated, Drop, Break, vars,
     schedulerVars, resultVars, channelVars
<1>7. CASE \E i \in Arrivals : Worker(i)
  BY <1>2, <1>7 DEF Worker, Offer, Withdraw, CheckContext, BeginProbe, RoundTrip, Exchange,
     Report, Finish, schedulerVars, resultVars, channelVars
<1>8. CASE UNCHANGED vars
  BY <1>2, <1>8 DEF vars, schedulerVars, resultVars, channelVars
<1> QED
  BY <1>4, <1>5, <1>6, <1>7, <1>8 DEF Next, Scheduler

\* After a breach the stop reason stays, and nothing new comes in flight.
THEOREM BreachIsFinal == Spec => BreachStops
<1>1. IInv /\ [Next]_vars => [Breached => stopReason' = Breach /\ inFlight' <= inFlight]_vars
  BY BreachStep
<1> QED
  BY <1>1, Invariance, PTL DEF Spec, BreachStops

-----------------------------------------------------------------------------
(***************************************************************************)
(* The load generator implements Admission: every step of it is a step of  *)
(* Admission, or changes nothing there.  Fairness is left to TLC.          *)
(***************************************************************************)
Request == [i \in Arrivals |-> RequestState(i)]

USE DEF SchedulerPCs, Draining, WorkerPCs, Undecided, Running, Deciding
USE DEF A!Arrivals, A!Unknown

LEMMA SameRequest ==
  ASSUME UNCHANGED <<outcomes, sent>>, InFlight' = InFlight
  PROVE  Request' = Request
  BY DEF Request, RequestState

LEMMA Stutter ==
  ASSUME UNCHANGED <<outcomes, sent>>, InFlight' = InFlight, Breached' = Breached,
         heldCost' - Tentative' = heldCost - Tentative
  PROVE  UNCHANGED A!vars
  BY SameRequest DEF A!vars, Request

\* A worker's move inside its own reach: nothing is decided, sent or settled.
LEMMA WorkerStutter ==
  ASSUME Structure, NEW i \in Arrivals,
         \/ worker[i] \in Undecided /\ worker'[i] \in Undecided \cup {"gone"} /\ completions' = completions
         \/ worker[i] \in Running /\ worker'[i] \in Running /\ completions' = completions
         \/ worker[i] \in Running /\ worker'[i] = "gone" /\ completions' = completions \cup {i},
         \A j \in Arrivals \ {i} : worker'[j] = worker[j],
         UNCHANGED <<pc, outcomes, sent, stopReason, heldCost>>
  PROVE  UNCHANGED A!vars
<1>1. InFlight' = InFlight
  BY DEF InFlight, Structure, Shape
<1> QED
  BY <1>1, Stutter DEF Tentative, Breached

\* The decision about the current arrival is taken in turn.
LEMMA InTurn ==
  ASSUME Structure, sequence \in Arrivals, outcomes[sequence] = "none",
         sequence \notin sent, sequence \notin InFlight
  PROVE  \A j \in Arrivals : j >= sequence => Request[j] = "pending"
<1> SUFFICES ASSUME NEW j \in Arrivals, j >= sequence PROVE Request[j] = "pending"
  OBVIOUS
<1>1. CASE j = sequence
  BY <1>1 DEF Request, RequestState, Drops, Finishes
<1>2. CASE j # sequence
  <2>1. Untouched(j)
    BY <1>2 DEF Structure, FutureUntouched, Arrivals
  <2>2. j \notin InFlight
    BY <2>1 DEF Untouched, InFlight, Structure, Exclusive
  <2> QED
    BY <2>1, <2>2 DEF Untouched, Request, RequestState, Drops, Finishes
<1> QED
  BY <1>1, <1>2

LEMMA RefuseStep ==
  ASSUME Structure, sequence \in Arrivals, outcomes[sequence] = "none",
         sequence \notin sent, sequence \notin InFlight,
         NEW reason \in Drops, outcomes' = [outcomes EXCEPT ![sequence] = reason],
         UNCHANGED sent, InFlight' = InFlight, Breached' = Breached,
         heldCost' - Tentative' = heldCost - Tentative
  PROVE  A!Refuse(sequence)
<1>1. Request' = [Request EXCEPT ![sequence] = "dropped"]
  BY DEF Request, RequestState, Drops, Structure, Shape
<1> QED
  BY <1>1, InTurn DEF A!Refuse, A!Turn, Request, Arrivals

\* Admission's Cardinality, seen through the instance, is the library's.
LEMMA SameCardinality == ASSUME NEW S PROVE A!Cardinality(S) = Cardinality(S)
  BY DEF A!Cardinality, Cardinality

LEMMA AdmitStep ==
  ASSUME IInv, Start
  PROVE  A!Admit(sequence)
<1> USE DEF IInv, Start
<1>1. /\ sequence \in Arrivals /\ sequence \in SlotHolders /\ sequence \notin InFlight
      /\ outcomes[sequence] = "none" /\ sequence \notin sent
  BY DEF Structure, Handshake, SlotHolders, InFlight
<1>2. InFlight' = InFlight \cup {sequence}
  BY <1>1 DEF InFlight, Structure, Shape
<1>3. Request' = [Request EXCEPT ![sequence] = "admitted"]
  BY <1>1, <1>2 DEF Request, RequestState, Drops, Finishes, Structure, Shape
<1>4. A!Active = InFlight
  <2>1. ASSUME NEW j \in Arrivals PROVE Request[j] \in {"admitted", "sent"} <=> j \in InFlight
    BY DEF Request, RequestState, InFlight, Structure, Shape, Exclusive, SentInTime, Drops, Finishes
  <2>2. InFlight \subseteq Arrivals
    BY CountedSets
  <2> QED
    BY <2>1, <2>2 DEF A!Active, A!In, Request, Arrivals
<1>5. A!Counted = InFlight \cup Finished
  <2>1. ASSUME NEW j \in Arrivals
        PROVE  Request[j] \in {"admitted", "sent", "finished"} <=> j \in InFlight \cup Finished
    BY DEF Request, RequestState, InFlight, Finished, Structure, Shape, Exclusive, SentInTime,
       Drops, Finishes
  <2>2. InFlight \cup Finished \subseteq Arrivals
    BY CountedSets
  <2> QED
    BY <2>1, <2>2 DEF A!Counted, A!In, Request, Arrivals
<1>6. Cardinality(InFlight) < MaxInFlight
  <2>1. InFlight \cup {sequence} \in SUBSET SlotHolders
    BY <1>1 DEF SlotHolders
  <2>2. /\ Cardinality(InFlight \cup {sequence}) = Cardinality(InFlight) + 1
        /\ Cardinality(InFlight \cup {sequence}) <= Cardinality(SlotHolders)
    BY <1>1, <2>1, CountedSets, AddOne, ArrivalsFinite, FS_Subset
  <2>3. Cardinality(InFlight) \in Nat /\ Cardinality(SlotHolders) \in Nat
    BY CountedSets, CardinalityNat
  <2>4. Cardinality(SlotHolders) <= MaxInFlight
    BY <2>3, ConstantTypes DEF Counting, SlotsAccounted, Limits, Structure, Shape
  <2> QED
    BY <2>2, <2>3, <2>4, ConstantTypes
<1>7. Cardinality(InFlight \cup Finished) < MaxRequests
  <2>1. InFlight \cap Finished = {}
    BY DEF InFlight, Finished, Finishes, Structure, Exclusive
  <2>2. Cardinality(InFlight \cup Finished) = Cardinality(InFlight) + Cardinality(Finished) - 0
    BY <2>1, CountedSets, ArrivalsFinite, FS_Union, FS_EmptySet
  <2>3. Cardinality(InFlight) \in Nat /\ Cardinality(Finished) \in Nat
    BY CountedSets, CardinalityNat
  <2>4. counts.Started = Cardinality(Finished) + Cardinality(InFlight)
    BY DEF Counting, CountsAgree
  <2>5. counts.Started < MaxRequests
    BY DEF Limits, RequestsBounded
  <2> QED
    BY <2>2, <2>3, <2>4, <2>5
<1>8. /\ heldCost - Tentative + Reserve <= MaxCostUSD
      /\ heldCost' - Tentative' = heldCost - Tentative + Reserve
      /\ ~Breached /\ UNCHANGED Breached
  BY ConstantTypes
  DEF Tentative, Limits, WithinBudget, BreachSeen, Breached, Structure, Shape
<1>9. \A j \in Arrivals : j >= sequence => Request[j] = "pending"
  BY <1>1, InTurn
<1>10. A!Turn(sequence)
  BY <1>9 DEF A!Turn, Request, Arrivals
<1>11. A!Cardinality(A!Active) < MaxInFlight /\ A!Cardinality(A!Counted) < MaxRequests
  BY <1>4, <1>5, <1>6, <1>7, SameCardinality
<1>12. /\ [i \in Arrivals |-> RequestState(i)]'
            = [[i \in Arrivals |-> RequestState(i)] EXCEPT ![sequence] = "admitted"]
       /\ (heldCost - Tentative)' = heldCost - Tentative + Reserve
       /\ heldCost - Tentative + Reserve <= MaxCostUSD
       /\ ~Breached /\ UNCHANGED Breached
  BY <1>3, <1>8 DEF Request
<1> QED
  BY <1>10, <1>11, <1>12 DEF A!Admit

\* The base transport is called: the request is sent.
LEMMA SendStep ==
  ASSUME IInv, NEW i \in Arrivals, worker[i] = "dialing",
         worker' = [worker EXCEPT ![i] = "onwire"], sent' = sent \cup {i},
         UNCHANGED <<pc, outcomes, completions, heldCost, stopReason>>
  PROVE  A!Send(i)
<1> USE DEF IInv
<1>1. InFlight' = InFlight /\ i \in InFlight /\ i \notin sent /\ outcomes[i] = "none"
  BY DEF InFlight, Structure, Shape, SentInTime, Exclusive
<1>2. Request[i] = "admitted"
  BY <1>1 DEF Request, RequestState, Drops, Finishes
<1>3. Request' = [Request EXCEPT ![i] = "sent"]
  BY <1>1 DEF Request, RequestState, Drops, Finishes
<1>4. UNCHANGED <<heldCost - Tentative, Breached>>
  BY DEF Tentative, Breached
<1> QED
  BY <1>2, <1>3, <1>4 DEF A!Send, Request

\* collect settles a request, once.
LEMMA SettleStep ==
  ASSUME IInv, NEW i, Collect(i), pc \in Draining \cup {"collect"}
  PROVE  A!Settle(i)
<1> USE DEF IInv
<1>1. /\ i \in Arrivals /\ i \in completions /\ worker[i] = "gone" /\ outcomes[i] = "none"
      /\ i \in InFlight /\ UNCHANGED <<pc, worker, sent>>
      /\ item[i] \in Items /\ heldCost \in Int
  BY DEF Collect, Structure, Shape, Exclusive, InFlight, schedulerVars, workerVars
<1>2. InFlight' = InFlight \ {i}
  BY <1>1 DEF Collect, InFlight
<1>3. Tentative = 0 /\ Tentative' = 0
  BY <1>1 DEF Tentative
<1>4. Request[i] = IF i \in sent THEN "sent" ELSE "admitted"
  BY <1>1 DEF Request, RequestState, Drops, Finishes
<1>5. CASE CollectDropped(i)
  <2>1. i \notin sent
    BY <1>1, <1>5 DEF CollectDropped, Structure, SentInTime
  <2>2. Request' = [Request EXCEPT ![i] = "dropped"]
    BY <1>1, <1>2, <1>5 DEF CollectDropped, Request, RequestState, Drops, Structure, Shape
  <2>3. /\ heldCost' - Tentative' = heldCost - Tentative - Reserve
        /\ Breached' = Breached
    BY <1>1, <1>3, <1>5, ConstantTypes
    DEF CollectDropped, ReleaseReservation, Breached
  <2> QED
    BY <1>1, <1>4, <2>1, <2>2, <2>3 DEF A!Settle, A!GiveBack, Request
<1>6. CASE CollectFinished(i)
  <2>1. item[i].verdict \in Finishes /\ item[i].cost \in Costs \cup {Unknown}
    BY <1>1 DEF Items
  <2>2. Request' = [Request EXCEPT ![i] = "finished"]
    BY <1>1, <1>2, <1>6, <2>1
    DEF CollectFinished, Request, RequestState, Drops, Finishes, Structure, Shape
  <2>3. CASE item[i].cost = Unknown
    <3>1. UNCHANGED <<heldCost - Tentative, Breached>>
      BY <1>3, <1>6, <2>3 DEF CollectFinished, Reconcile, Breached
    <3> QED
      BY <1>4, <2>2, <3>1 DEF A!Settle, A!Finish, Request
  <2>4. CASE item[i].cost # Unknown
    <3>1. item[i].cost \in Costs /\ item[i].cost \in Nat /\ i \in sent
      BY <1>1, <2>1, <2>4, ConstantTypes DEF Structure, SentInTime
    <3>2. heldCost' - Tentative' = heldCost - Tentative + item[i].cost - Reserve
      BY <1>1, <1>3, <1>6, <2>4, <3>1, ConstantTypes DEF CollectFinished, Reconcile
    <3>3. Breached' = (Breached \/ item[i].cost > Reserve)
      BY <1>6, <2>4 DEF CollectFinished, Reconcile, Breached
    <3> QED
      BY <1>4, <2>2, <3>1, <3>2, <3>3 DEF A!Settle, A!Finish, Request
  <2> QED
    BY <2>3, <2>4
<1> QED
  BY <1>5, <1>6 DEF Collect

\* The arrivals a step of the scheduler drops are the current ones, in turn.
LEMMA DropStep ==
  ASSUME IInv, CheckLag \/ Retry \/ Rejected
  PROVE  A!Refuse(sequence) \/ UNCHANGED A!vars
<1> USE DEF IInv
<1>1. /\ sequence \in Arrivals /\ outcomes[sequence] = "none"
      /\ sequence \notin sent /\ sequence \notin InFlight
  BY DEF CheckLag, Retry, Rejected, InFlight, Structure, FutureUntouched, Untouched,
     Handshake, Exclusive
<1>2. UNCHANGED <<worker, completions, sent, stopReason>>
  BY DEF CheckLag, Retry, Rejected, Drop, Break, channelVars, workerVars
<1>3. InFlight' = InFlight /\ Breached' = Breached
  BY <1>2 DEF InFlight, Breached
<1>4. heldCost' - Tentative' = heldCost - Tentative
  BY ConstantTypes
  DEF CheckLag, Retry, Rejected, Drop, Break, ReleaseReservation, Tentative, Structure, Shape
<1>5. CASE outcomes' = outcomes
  BY <1>2, <1>3, <1>4, <1>5, Stutter
<1>6. ASSUME NEW reason \in Drops, outcomes' = [outcomes EXCEPT ![sequence] = reason]
      PROVE  A!Refuse(sequence)
  BY <1>1, <1>2, <1>3, <1>4, <1>6, RefuseStep
<1>7. \/ outcomes' = outcomes
      \/ \E reason \in Drops : outcomes' = [outcomes EXCEPT ![sequence] = reason]
  BY DEF CheckLag, Retry, Rejected, Drop, Drops
<1> QED
  BY <1>5, <1>6, <1>7

\* Spawn and Refuse move the tentative reservation in and out; the other steps
\* of the scheduler change nothing an arrival's state depends on.
LEMMA SchedulerStutter ==
  ASSUME IInv,
         \/ ScheduleEnds \/ ScheduleError \/ TakeArrival \/ WaitUntil \/ Gate \/ Acquire
         \/ Saturated \/ Spawn \/ Refuse \/ Return
  PROVE  UNCHANGED A!vars
<1> USE DEF IInv
<1>1. UNCHANGED <<completions, outcomes, sent>>
  BY DEF ScheduleEnds, ScheduleError, TakeArrival, WaitUntil, Gate, Acquire, Saturated, Spawn,
     Refuse, Return, resultVars, channelVars, workerVars
<1>2. InFlight' = InFlight
  <2>1. CASE UNCHANGED worker
    BY <1>1, <2>1 DEF InFlight
  <2>2. CASE Spawn \/ Refuse
    <3>1. /\ sequence \in Arrivals
          /\ worker[sequence] \notin Running
          /\ \/ worker' = worker
             \/ \E state \in Undecided : worker' = [worker EXCEPT ![sequence] = state]
      BY <2>2 DEF Spawn, Refuse, Break, Structure, FutureUntouched, Untouched, Handshake
    <3> QED
      BY <1>1, <3>1 DEF InFlight, Structure, Shape
  <2> QED
    BY <2>1, <2>2
    DEF ScheduleEnds, ScheduleError, TakeArrival, WaitUntil, Gate, Acquire, Saturated,
        Return, workerVars
<1>3. Breached' = Breached
  BY DEF ScheduleEnds, ScheduleError, TakeArrival, WaitUntil, Gate, Acquire, Saturated, Spawn,
     Refuse, Return, Break, Stop, resultVars, Limits, BreachSeen, Breached, Breach
<1>4. heldCost' - Tentative' = heldCost - Tentative
  BY ConstantTypes
  DEF ScheduleEnds, ScheduleError, TakeArrival, WaitUntil, Gate, Acquire, Saturated, Spawn,
      Refuse, Return, Break, Stop, resultVars, Tentative, Structure, Shape
<1> QED
  BY <1>1, <1>2, <1>3, <1>4, Stutter

\* A worker sends its request, or does nothing Admission sees.
LEMMA WorkerStep ==
  ASSUME IInv, NEW i \in Arrivals, Worker(i)
  PROVE  A!Send(i) \/ UNCHANGED A!vars
<1> USE DEF IInv, schedulerVars, resultVars, channelVars
<1>1. CASE sent' = sent
  BY <1>1, WorkerStutter
  DEF Worker, Offer, Withdraw, CheckContext, BeginProbe, RoundTrip, Exchange, Report,
      Finish, Goto, Structure, Shape
<1>2. CASE sent' # sent
  <2>1. /\ worker[i] = "dialing" /\ worker' = [worker EXCEPT ![i] = "onwire"]
        /\ sent' = sent \cup {i}
        /\ UNCHANGED <<pc, outcomes, completions, heldCost, stopReason>>
    BY <1>2
    DEF Worker, Offer, Withdraw, CheckContext, BeginProbe, RoundTrip, Exchange, Report,
        Finish, Goto
  <2> QED
    BY <2>1, SendStep
<1> QED
  BY <1>1, <1>2

\* Every step of the generator is a step of Admission or a stutter.
LEMMA StepSimulation == IInv /\ [Next]_vars => [A!Next]_(A!vars)
<1> SUFFICES ASSUME IInv, [Next]_vars PROVE A!Next \/ UNCHANGED A!vars
  OBVIOUS
<1>1. CASE Drain \/ FinalCollect
  <2>1. PICK i \in completions : Collect(i) /\ pc \in Draining \cup {"collect"}
    BY <1>1 DEF Drain, FinalCollect
  <2>2. i \in Arrivals
    BY DEF IInv, Structure, Shape
  <2> QED
    BY <2>1, <2>2, SettleStep DEF A!Next, Arrivals
<1>2. CASE Start
  <2>1. sequence \in Arrivals
    BY <1>2 DEF Start, IInv, Structure, Handshake
  <2> QED
    BY <1>2, <2>1, AdmitStep DEF A!Next, Arrivals
<1>3. CASE CheckLag \/ Retry \/ Rejected
  <2>1. sequence \in Arrivals
    BY <1>3 DEF CheckLag, Retry, Rejected, IInv, Structure, FutureUntouched, Handshake
  <2> QED
    BY <1>3, <2>1, DropStep DEF A!Next, Arrivals
<1>4. CASE \/ ScheduleEnds \/ ScheduleError \/ TakeArrival \/ WaitUntil \/ Gate \/ Acquire
           \/ Saturated \/ Spawn \/ Refuse \/ Return
  BY <1>4, SchedulerStutter
<1>5. CASE \E i \in Arrivals : Worker(i)
  BY <1>5, WorkerStep DEF A!Next, Arrivals
<1>6. CASE Tick \/ Cancel \/ UNCHANGED vars
  <2>1. UNCHANGED <<pc, worker, completions, outcomes, sent, heldCost, stopReason>>
    BY <1>6 DEF Tick, Cancel, vars, schedulerVars, resultVars, channelVars, workerVars
  <2> QED
    BY <2>1, Stutter DEF InFlight, Breached, Tentative
<1> QED
  BY <1>1, <1>2, <1>3, <1>4, <1>5, <1>6 DEF Next, Scheduler, Terminated

LEMMA InitSimulation == Init => A!Init
<1> SUFFICES ASSUME Init PROVE A!Init
  OBVIOUS
<1>1. InFlight = {}
  BY DEF Init, InFlight
<1>2. Request = [i \in Arrivals |-> "pending"]
  BY <1>1 DEF Init, Request, RequestState, Drops, Finishes
<1>3. heldCost - Tentative = 0 /\ Breached = FALSE
  BY DEF Init, Tentative, Breached, Breach
<1> QED
  BY <1>2, <1>3 DEF A!Init, Request, Arrivals

\* The load generator implements the safety part of Admission.
THEOREM Simulation == Spec => A!SafeSpec
<1> QED
  BY InitSimulation, StepSimulation, Invariance, PTL DEF Spec, A!SafeSpec

-----------------------------------------------------------------------------
(***************************************************************************)
(* The ramp schedule.  First its sums: over one tick more, and in closed   *)
(* form over the ticks of a stage.                                         *)
(***************************************************************************)

\* A sum over one number more.
LEMMA SumNext ==
  ASSUME NEW n \in Nat, NEW k \in 0..n, NEW f, \A x \in k..n : f[x] \in Int
  PROVE  Sum(f, k..n) = Sum(f, k..n - 1) + f[n]
<1> DEFINE S == k..n
<1>1. IsFiniteSet(S) /\ n \in S /\ (\A x \in S : f[x] \in Int) /\ S \ {n} = k..n - 1
  BY FS_Interval
<1> HIDE DEF S
<1>2. Sum(f, S) = Sum(f, S \ {n}) + f[n]
  BY <1>1, SumTake
<1> QED
  BY <1>1, <1>2 DEF S

\* What a rate that changes by 2b a tick offers in d ticks.
OddSteps(f, D, a, b) == \A k \in 0..D - 1 : f[k] = a + b * (2 * k + 1)

LEMMA SumOdd ==
  ASSUME NEW D \in Nat, NEW a \in Int, NEW b \in Int, NEW f, OddSteps(f, D, a, b)
  PROVE  \A d \in 0..D : Sum(f, 0..d - 1) = a * d + b * d * d
<1> DEFINE T == {d \in 0..D : Sum(f, 0..d - 1) # a * d + b * d * d}
<1>1. SUFFICES ASSUME T # {} PROVE FALSE
  OBVIOUS
<1>2. PICK m \in T : \A d \in T : m <= d
  <2>1. T \in SUBSET Nat
    OBVIOUS
  <2> HIDE DEF T
  <2> QED
    BY <1>1, <2>1, Least
<1>3. m # 0
  <2>1. 0..-1 = {} /\ a * 0 + b * 0 * 0 = 0
    OBVIOUS
  <2> QED
    BY <1>2, <2>1, SumEmpty
<1>4. PICK k \in 0..D - 1 : m = k + 1
  BY <1>2, <1>3
<1>5. Sum(f, 0..k - 1) = a * k + b * k * k
  BY <1>2, <1>4
<1>6. \A x \in 0..k : f[x] = a + b * (2 * x + 1) /\ f[x] \in Int
  BY <1>4 DEF OddSteps
<1>7. Sum(f, 0..k) = Sum(f, 0..k - 1) + f[k]
  BY <1>4, <1>6, SumNext
<1>8. a * m + b * m * m = a * k + b * k * k + (a + b * (2 * k + 1))
  BY <1>4
<1>9. m - 1 = k /\ f[k] = a + b * (2 * k + 1)
  BY <1>4, <1>6
<1> QED
  BY <1>2, <1>5, <1>7, <1>8, <1>9

\* Division of a multiple.
LEMMA ExactDiv == ASSUME NEW x \in Int, NEW y \in Nat \ {0} PROVE (x * y) \div y = x
  <1> DEFINE q == (x * y) \div y
  <1>1. q \in Int /\ y * q <= x * y /\ x * y < y * (q + 1)
    OBVIOUS
  <1> HIDE DEF q
  <1>2. ~(q < x)
    <2> SUFFICES ASSUME q + 1 <= x PROVE FALSE
      BY <1>1
    <2>1. y * (q + 1) <= y * x
      BY <1>1
    <2> QED
      BY <1>1, <2>1
  <1>3. ~(x < q)
    <2> SUFFICES ASSUME x + 1 <= q PROVE FALSE
      BY <1>1
    <2>1. y * (x + 1) <= y * q
      BY <1>1
    <2> QED
      BY <1>1, <2>1
  <1> QED
    BY <1>1, <1>2, <1>3 DEF q

\* The load, as newSchedule and Validate accept it.
LoadAccepted ==
  /\ stages \in Seq(Stages) /\ Len(stages) \in Nat \ {0} /\ DOMAIN stages = 1..Len(stages)
  /\ maxDuration \in Int /\ Validate

LEMMA StageTypes ==
  ASSUME LoadAccepted, NEW i \in 1..Len(stages)
  PROVE  /\ stages[i].duration \in Nat \ {0} /\ stages[i].target \in Nat \ {0}
         /\ RateBefore(i) \in Nat /\ RateBefore(i + 1) = stages[i].target
<1>1. \A j \in 1..Len(stages) : stages[j] \in Stages
  BY DEF LoadAccepted
<1>2. \A s \in Stages : s.duration \in Nat \ {0} /\ s.target \in Nat \ {0}
  BY ScheduleAssumption
<1>3. CASE i = 1
  BY <1>1, <1>2, <1>3 DEF RateBefore
<1>4. CASE i # 1
  <2>1. i - 1 \in 1..Len(stages) /\ i + 1 # 1 /\ (i + 1) - 1 = i
    BY <1>4 DEF LoadAccepted
  <2> QED
    BY <1>1, <1>2, <1>4, <2>1 DEF RateBefore
<1> QED
  BY <1>3, <1>4

\* What a stage offers in its first d ticks, and in all.
LEMMA InStageIs ==
  ASSUME LoadAccepted, NEW i \in 1..Len(stages), NEW d \in Nat
  PROVE  InStage(i, d) = 2 * RateBefore(i) * stages[i].duration * d
                         + (stages[i].target - RateBefore(i)) * d * d
<1> DEFINE a == 2 * RateBefore(i) * stages[i].duration
           b == stages[i].target - RateBefore(i)
           f == [k \in 0..d - 1 |-> InTick(i, k)]
<1>1. a \in Int /\ b \in Int
  BY StageTypes
<1>2. OddSteps(f, d, a, b)
  BY DEF OddSteps, InTick
<1>3. InStage(i, d) = Sum(f, 0..d - 1)
  BY SumIs DEF InStage
<1>4. d \in 0..d
  OBVIOUS
<1> HIDE DEF a, b, f
<1>5. Sum(f, 0..d - 1) = a * d + b * d * d
  <2>1. \A e \in 0..d : Sum(f, 0..e - 1) = a * e + b * e * e
    BY <1>1, <1>2, SumOdd
  <2> QED
    BY <1>4, <2>1, Zenon
<1> QED
  BY <1>3, <1>5, Zenon DEF a, b

StageVolume(i) == (RateBefore(i) + stages[i].target) * stages[i].duration

LEMMA StageVolumesAre ==
  ASSUME LoadAccepted, NEW i \in 1..Len(stages)
  PROVE  StageVolumes[i] = StageVolume(i) /\ StageVolume(i) \in Nat
<1> DEFINE r == RateBefore(i)
           t == stages[i].target
           D == stages[i].duration
<1>1. r \in Nat /\ t \in Nat /\ D \in Nat \ {0}
  BY StageTypes
<1>2. InStage(i, D) = 2 * r * D * D + (t - r) * D * D
  BY <1>1, InStageIs
<1>3. StageVolumes[i] = InStage(i, D) \div D
  BY DEF StageVolumes, LoadAccepted
<1>4. StageVolume(i) = (r + t) * D
  BY DEF StageVolume
<1> HIDE DEF r, t, D
<1>5. (r + t) * D \in Nat
  BY <1>1
<1>6. 2 * r * D * D + (t - r) * D * D = ((r + t) * D) * D
  BY <1>1
<1> QED
  BY <1>1, <1>2, <1>3, <1>4, <1>5, <1>6, ExactDiv

\* A stage starts where the one before ends, and the load ends in time.
LEMMA StartsAdd ==
  ASSUME LoadAccepted
  PROVE  /\ StartOf(1) = 0 /\ BeforeStage(1) = 0
         /\ \A i \in 1..Len(stages) :
              /\ StartOf(i + 1) = StartOf(i) + stages[i].duration
              /\ BeforeStage(i + 1) = BeforeStage(i) + StageVolume(i)
         /\ \A i \in 1..Len(stages) + 1 : StartOf(i) \in Nat /\ StartOf(i) <= maxDuration
                                          /\ BeforeStage(i) \in Nat
<1> DEFINE count == Len(stages)
<1>1. count \in Nat /\ DOMAIN Durations = 1..count /\ DOMAIN StageVolumes = 1..count /\ DOMAIN stages = 1..count
  BY DEF LoadAccepted, Durations, StageVolumes
<1>2. \A i \in 1..count : Durations[i] = stages[i].duration /\ Durations[i] \in Nat
  BY <1>1, StageTypes DEF Durations
<1>3. \A i \in 1..count : StageVolumes[i] = StageVolume(i) /\ StageVolumes[i] \in Nat
  BY StageVolumesAre
<1>4. \A i : StartOf(i) = Sum(Durations, 1..i - 1) /\ BeforeStage(i) = Sum(StageVolumes, 1..i - 1)
  BY SumIs DEF StartOf, BeforeStage
<1>5. Sum(Durations, 1..count) <= maxDuration
  BY <1>1, SumIs DEF LoadAccepted, Validate, TotalDuration
<1> HIDE DEF count
<1>6. StartOf(1) = 0 /\ BeforeStage(1) = 0
  <2>1. 1..1 - 1 = {}
    OBVIOUS
  <2> QED
    BY <1>4, <2>1, SumEmpty
<1>7. ASSUME NEW i \in 1..count
      PROVE  /\ StartOf(i + 1) = StartOf(i) + stages[i].duration
             /\ BeforeStage(i + 1) = BeforeStage(i) + StageVolume(i)
  <2>1. i \in Nat /\ 1 \in 0..i /\ (i + 1) - 1 = i /\ \A x \in 1..i : x \in 1..count
    BY <1>1
  <2>2. Sum(Durations, 1..i) = Sum(Durations, 1..i - 1) + Durations[i]
    BY <1>2, <2>1, SumNext
  <2>3. Sum(StageVolumes, 1..i) = Sum(StageVolumes, 1..i - 1) + StageVolumes[i]
    BY <1>3, <2>1, SumNext
  <2> QED
    BY <1>2, <1>3, <1>4, <2>1, <2>2, <2>3
<1>8. ASSUME NEW i \in 1..count + 1
      PROVE  StartOf(i) \in Nat /\ StartOf(i) <= maxDuration /\ BeforeStage(i) \in Nat
  <2> DEFINE S == 1..count
             P == 1..i - 1
  <2>1. P \in SUBSET S /\ IsFiniteSet(S) /\ IsFiniteSet(P)
    <3>1. i - 1 \in Int /\ P \in SUBSET S
      BY <1>1
    <3>2. IsFiniteSet(1..count) /\ IsFiniteSet(1..i - 1)
      BY <1>1, <3>1, FS_Interval, SMTT(20)
    <3> QED
      BY <3>1, <3>2
  <2> HIDE DEF P
  <2>2. Sum(Durations, P) \in Nat /\ Sum(StageVolumes, P) \in Nat
    BY <1>2, <1>3, <2>1, SumNat
  <2>3. Sum(Durations, P) <= Sum(Durations, S)
    <3> HIDE DEF S
    <3>1. \A x \in S : Durations[x] \in Nat
      BY <1>2 DEF S
    <3> QED
      BY <2>1, <3>1, SumPart
  <2>4. Sum(Durations, S) \in Nat
    BY <1>2, <2>1, SumNat
  <2> QED
    BY <1>4, <1>5, <2>2, <2>3, <2>4 DEF P, LoadAccepted
<1> QED
  BY <1>6, <1>7, <1>8 DEF count

-----------------------------------------------------------------------------
(***************************************************************************)
(* The invariant: the position is the stage's, the arrivals so far are     *)
(* where the reference has them, and the next one is due after the last.   *)
(***************************************************************************)
Located ==
  /\ stage \in 1..Len(stages) + 1
  /\ previousRate = RateBefore(stage) /\ stageStart = StartOf(stage)
  /\ cumulative = BeforeStage(stage)

\* No stage but the current one could still have taken the next arrival.
NextDue ==
  /\ offsets \in Seq(Int) /\ nextArrival = Len(offsets) + 1
  /\ nextArrival * Arrival > cumulative
  /\ stage > 1 => nextArrival * Arrival > cumulative + Tolerance

\* The last arrival came before the stage, or early enough in it.
LastBefore ==
  GentleLoad =>
    \/ offsets = <<>>
    \/ offsets[Len(offsets)] <= stageStart
    \/ /\ stage <= Len(stages)
       /\ \E x \in 0..Current.duration :
            offsets[Len(offsets)] = stageStart + x /\ Volume(x) <= WithinStage

ScheduleInv ==
  /\ LoadAccepted /\ erred \in BOOLEAN
  /\ Located /\ NextDue /\ LastBefore
  /\ OffsetsFollowRate /\ FailsOnlyAtTolerance

LEMMA Units == /\ Arrival \in Nat \ {0} /\ Tolerance \in Nat \ {0}
               /\ Tolerance = 2 * RateUnit /\ RateUnit \in Nat \ {0}
  <1>1. RateUnit \in Nat \ {0} /\ Second \in Nat \ {0}
    BY ScheduleAssumption
  <1>2. (2 * RateUnit) * Second \in Nat \ {0} /\ 2 * RateUnit \in Nat \ {0}
    BY <1>1
  <1>3. ((2 * RateUnit) * Second) \div Second = 2 * RateUnit
    BY <1>1, <1>2, ExactDiv
  <1> QED
    BY <1>1, <1>2, <1>3 DEF Arrival, Tolerance

\* The names of next for the current stage, in terms of the reference.
LEMMA CurrentStage ==
  ASSUME LoadAccepted, Located, stage <= Len(stages)
  PROVE  /\ previousRate \in Nat /\ cumulative \in Nat /\ stageStart \in Nat
         /\ Current.target \in Nat \ {0} /\ Current.duration \in Nat \ {0}
         /\ stageEndVolume = cumulative + (previousRate + Current.target) * Current.duration
         /\ BeforeStage(stage + 1) = stageEndVolume
         /\ RateBefore(stage + 1) = Current.target
         /\ StartOf(stage + 1) = stageStart + Current.duration
         /\ stageStart + Current.duration <= maxDuration
         /\ slope \in {0, Current.target - previousRate}
         /\ Flat(previousRate, Current) => slope = 0
         /\ SlopingLoad \/ ~Flat(previousRate, Current) => slope = Current.target - previousRate
         /\ \A d \in Nat : Volume(d) \in Int
         /\ slope = Current.target - previousRate =>
              \A d \in Nat : Offered(stage, d) = cumulative * Current.duration + Volume(d)
<1>1. stage \in 1..Len(stages) /\ stage + 1 \in 1..Len(stages) + 1
  BY DEF Located, LoadAccepted
<1>2. /\ previousRate = RateBefore(stage) /\ cumulative = BeforeStage(stage)
      /\ stageStart = StartOf(stage) /\ Current = stages[stage]
  BY DEF Located, Current
<1>3. /\ previousRate \in Nat /\ Current.target \in Nat \ {0} /\ Current.duration \in Nat \ {0}
      /\ RateBefore(stage + 1) = Current.target
  BY <1>1, <1>2, StageTypes
<1>4. stageEndVolume = cumulative + (previousRate + Current.target) * Current.duration
  BY DEF stageEndVolume
<1>5. /\ StartOf(stage + 1) = stageStart + Current.duration
      /\ BeforeStage(stage + 1) = cumulative + StageVolume(stage)
      /\ stageStart \in Nat /\ cumulative \in Nat /\ StartOf(stage + 1) <= maxDuration
  BY <1>1, <1>2, StartsAdd
<1>6. StageVolume(stage) = (previousRate + Current.target) * Current.duration
  BY <1>2 DEF StageVolume
<1>7. /\ slope \in {0, Current.target - previousRate}
      /\ Flat(previousRate, Current) => slope = 0
      /\ ~Flat(previousRate, Current) => slope = Current.target - previousRate
  BY DEF slope
<1>8. SlopingLoad => slope = Current.target - previousRate
  <2>1. SlopingLoad => Current.target = previousRate \/ ~Flat(previousRate, Current)
    BY <1>1, <1>2 DEF SlopingLoad, Sloping
  <2>2. Current.target = previousRate => Current.target - previousRate = 0
    BY <1>3
  <2> QED
    BY <1>7, <2>1, <2>2
<1>9. ASSUME NEW d \in Nat
      PROVE  /\ Volume(d) \in Int
             /\ slope = Current.target - previousRate =>
                  Offered(stage, d) = cumulative * Current.duration + Volume(d)
  <2>1. slope = Current.target - previousRate => InStage(stage, d) = Volume(d)
    BY <1>1, <1>2, InStageIs DEF Volume
  <2>2. slope \in Int
    BY <1>3, <1>7
  <2>3. Volume(d) \in Int
    BY <1>3, <2>2 DEF Volume
  <2> QED
    BY <1>2, <2>1, <2>3 DEF Offered
<1> QED
  BY <1>3, <1>4, <1>5, <1>6, <1>7, <1>8, <1>9

\* The arrival's place in its stage, when the loop finds the stage it is due in.
LEMMA PlaceInStage ==
  ASSUME LoadAccepted, Located, NextDue, Remaining
  PROVE  /\ arrivalTime \in 0..Current.duration /\ Volume(arrivalTime) <= WithinStage
         /\ \A x \in 0..Current.duration : Volume(x) <= WithinStage => x <= arrivalTime
<1> DEFINE S == {x \in 0..Current.duration : Volume(x) <= WithinStage}
           D == Current.duration
<1>0. stage <= Len(stages) /\ nextArrival \in Nat /\ nextArrival * Arrival > cumulative
  BY DEF Remaining, NextDue
<1>1. D \in Nat /\ cumulative \in Nat /\ previousRate \in Nat /\ slope \in Int
  <2>1. /\ D \in Nat /\ cumulative \in Nat /\ previousRate \in Nat /\ Current.target \in Nat
        /\ slope \in {0, Current.target - previousRate}
    BY <1>0, CurrentStage
  <2> QED
    BY <2>1
<1>2. Volume(0) = 0
  <2>1. 2 * previousRate * D * 0 = 0 /\ slope * 0 * 0 = 0
    BY <1>1
  <2> QED
    BY <2>1 DEF Volume
<1>3. WithinStage >= 0
  <2> DEFINE w == nextArrival * Arrival - cumulative
  <2>1. w \in Nat
    BY <1>0, <1>1, Units
  <2>2. WithinStage = w * D
    BY DEF WithinStage
  <2> HIDE DEF w, D
  <2> QED
    BY <1>1, <2>1, <2>2
<1>4. S \in SUBSET (0..D) /\ 0 \in S
  BY <1>1, <1>2, <1>3
<1>5. arrivalTime = Max(S)
  BY DEF arrivalTime
<1> HIDE DEF S, D
<1>6. arrivalTime \in S /\ \A x \in S : x <= arrivalTime
  BY <1>1, <1>4, <1>5, Greatest
<1> QED
  BY <1>6 DEF S, D

\* An offset that next returns is within the load.
LEMMA EmittedInTime ==
  ASSUME LoadAccepted, Located, NextDue, Remaining
  PROVE  stageStart + arrivalTime \in Nat /\ stageStart + arrivalTime <= maxDuration
<1>1. Current.duration \in Nat /\ stageStart \in Nat /\ stageStart + Current.duration <= maxDuration
  BY CurrentStage DEF Remaining
<1>2. arrivalTime \in 0..Current.duration
  BY PlaceInStage
<1> QED
  BY <1>1, <1>2 DEF LoadAccepted

\* It is the tick its arrival is due, where slopes count.
LEMMA EmittedDue ==
  ASSUME LoadAccepted, Located, NextDue, Remaining, SlopingLoad,
         nextArrival * Arrival <= stageEndVolume + Tolerance
  PROVE  DueAt(nextArrival, stageStart + arrivalTime)
<1> DEFINE D == Current.duration
           C == cumulative * D
           x == arrivalTime
           a == nextArrival * Arrival
           v == (previousRate + Current.target) * D
<1>1. /\ D \in Nat \ {0} /\ cumulative \in Nat /\ stageStart \in Nat /\ previousRate \in Nat
      /\ Current.target \in Nat /\ stageStart + D <= maxDuration /\ stageEndVolume = cumulative + v
      /\ slope = Current.target - previousRate
      /\ \A d \in Nat : Volume(d) \in Int /\ Offered(stage, d) = C + Volume(d)
  BY CurrentStage DEF Remaining
<1>2. /\ x \in 0..D /\ Volume(x) <= WithinStage
      /\ \A y \in 0..D : Volume(y) <= WithinStage => y <= x
  BY PlaceInStage
<1>3. stage \in 1..Len(stages) /\ stages[stage] = Current /\ stageStart = StartOf(stage)
  BY DEF Located, LoadAccepted, Remaining, Current
<1>4. a \in Int /\ C \in Int /\ v \in Int /\ Tolerance \in Nat
  <2>1. nextArrival \in Nat
    BY DEF NextDue
  <2>2. a \in Int
    BY <2>1, Units
  <2> QED
    BY <1>1, <2>2, Units
<1>5. WithinStage = a * D - C
  <2>1. WithinStage = (a - cumulative) * D
    BY DEF WithinStage
  <2> HIDE DEF a
  <2> QED
    BY <1>1, <1>4, <2>1
<1>6. Volume(D) = v * D
  BY <1>1 DEF Volume
<1>7. Offered(stage, x) <= a * D
  <2> HIDE DEF x, a, C, D
  <2>1. a * D \in Int /\ x \in Nat
    BY <1>1, <1>2, <1>4
  <2> QED
    BY <1>1, <1>2, <1>4, <1>5, <2>1
<1>8. ASSUME x < D PROVE Offered(stage, x + 1) > a * D
  <2> HIDE DEF x, a, C, D
  <2>1. a * D \in Int /\ x + 1 \in Nat /\ x + 1 \in 0..D
    BY <1>1, <1>2, <1>4, <1>8
  <2> QED
    BY <1>1, <1>2, <1>4, <1>5, <2>1
<1>9. Offered(stage, D) >= (a - Tolerance) * D
  <2>1. a - Tolerance <= cumulative + v
    BY <1>1, <1>4
  <2>2. Offered(stage, D) = (cumulative + v) * D
    <3> HIDE DEF v
    <3> QED
      BY <1>1, <1>4, <1>6
  <2> HIDE DEF a, v, D
  <2>3. (a - Tolerance) * D <= (cumulative + v) * D
    BY <1>1, <1>4, <2>1
  <2> QED
    BY <2>2, <2>3
<1>10. x \in 0..maxDuration /\ x <= stages[stage].duration /\ (x = D \/ x < D)
  <2>1. stages[stage].duration = D /\ maxDuration \in Int
    BY <1>3 DEF LoadAccepted
  <2> HIDE DEF x, D
  <2>2. x \in Nat /\ x <= D /\ D <= maxDuration
    BY <1>1, <1>2, <2>1
  <2> QED
    BY <1>1, <2>1, <2>2
<1>11. DueAt(nextArrival, stageStart + x)
  <2> HIDE DEF x
  <2>1. CASE x < D
    BY <1>2, <1>3, <1>7, <1>8, <1>10, <2>1 DEF DueAt
  <2>2. CASE x = D
    BY <1>2, <1>3, <1>7, <1>9, <1>10, <2>2 DEF DueAt
  <2> QED
    BY <1>10, <2>1, <2>2
<1> QED
  BY <1>11

-----------------------------------------------------------------------------
(***************************************************************************)
(* The invariant is inductive.  Its clauses about the load and about past  *)
(* offsets speak of the stages, which never change.                        *)
(***************************************************************************)
LEMMA SameLoad ==
  ASSUME UNCHANGED <<stages, maxDuration>>
  PROVE  /\ \A i : StartOf(i)' = StartOf(i) /\ BeforeStage(i)' = BeforeStage(i)
                /\ RateBefore(i)' = RateBefore(i)
         /\ \A n, offset : DueAt(n, offset)' = DueAt(n, offset)
         /\ LoadAccepted' = LoadAccepted /\ GentleLoad' = GentleLoad
         /\ SlopingLoad' = SlopingLoad
         /\ \A n, i : /\ MissesTheEnd(n, i)' = MissesTheEnd(n, i)
                      /\ RisesUnseen(n, i)' = RisesUnseen(n, i)
  BY DEF GentleLoad, Gentle, SlopingLoad, Sloping, Flat, MissesTheEnd, RisesUnseen, StartOf, BeforeStage, RateBefore,
         Durations, StageVolumes, InStage, InTick, Offered, DueAt, Arrival, Tolerance,
         LoadAccepted, Validate, TotalDuration

LEMMA ScheduleInitInv == ScheduleInit => ScheduleInv
  <1> SUFFICES ASSUME ScheduleInit PROVE ScheduleInv
    OBVIOUS
  <1>1. PICK n \in 1..MaxStages : stages \in [1..n -> Stages]
    BY DEF ScheduleInit
  <1>2. n \in Nat \ {0} /\ Len(stages) = n /\ stages \in Seq(Stages) /\ DOMAIN stages = 1..n
    BY <1>1, ScheduleAssumption
  <1>3. \A i \in 1..n : Durations[i] \in Int
    BY <1>1, <1>2, ScheduleAssumption DEF Durations
  <1>4. TotalDuration \in Int
    <2>1. DOMAIN Durations = 1..n /\ IsFiniteSet(1..n)
      BY <1>2, FS_Interval DEF Durations
    <2>2. TotalDuration = Sum(Durations, 1..n)
      BY <2>1, SumIs DEF TotalDuration
    <2> QED
      BY <1>3, <2>1, <2>2, SumInt
  <1>5. LoadAccepted
    BY <1>2, <1>4 DEF LoadAccepted, ScheduleInit
  <1>6. /\ stage = 1 /\ stageStart = 0 /\ previousRate = 0 /\ cumulative = 0 /\ nextArrival = 1
        /\ offsets = <<>> /\ erred = FALSE
    BY DEF ScheduleInit
  <1>7. StartOf(1) = 0 /\ BeforeStage(1) = 0 /\ RateBefore(1) = 0
    BY <1>5, StartsAdd DEF RateBefore
  <1>8. Located
    BY <1>2, <1>6, <1>7 DEF Located
  <1>9. NextDue
    BY <1>6, Units DEF NextDue
  <1>10. LastBefore /\ FailsOnlyAtTolerance
    BY <1>6 DEF LastBefore, FailsOnlyAtTolerance
  <1>11. OffsetsFollowRate
    BY <1>2, <1>6 DEF OffsetsFollowRate
  <1> QED
    BY <1>5, <1>6, <1>8, <1>9, <1>10, <1>11 DEF ScheduleInv

\* The stage's volume a tick past its end.
LEMMA PastTheEnd ==
  ASSUME NEW r \in Nat, NEW t \in Nat, NEW D \in Nat
  PROVE  2 * r * D * (D + 1) + (t - r) * (D + 1) * (D + 1) = ((r + t) * D) * D + (2 * t * D + t - r)
<1>1. 2 * r * D * (D + 1) = 2 * (r * D * D) + 2 * (r * D)
  OBVIOUS
<1>2. (t - r) * (D + 1) * (D + 1) = t * D * D + 2 * (t * D) + t - r * D * D - 2 * (r * D) - r
  OBVIOUS
<1>3. ((r + t) * D) * D = r * D * D + t * D * D
  OBVIOUS
<1> QED
  BY <1>1, <1>2, <1>3

\* An arrival that no time up to a tick past the end reaches is due after it.
LEMMA OutsideIsShort ==
  ASSUME NEW r \in Nat, NEW t \in Nat \ {0}, NEW D \in Nat \ {0}, NEW short \in Int,
         2 * t * D + t - r < short * D,
         r * D < short * D + t * D * D
  PROVE  0 < short
<1> SUFFICES ASSUME short <= 0 PROVE FALSE
  OBVIOUS
<1>1. short * D <= 0 /\ t * D \in Nat /\ 2 * t * D = 2 * (t * D)
  OBVIOUS
<1>2. r < t * D
  <2> SUFFICES ASSUME t * D <= r PROVE FALSE
    BY <1>1
  <2>1. (t * D) * D <= r * D
    BY <1>1
  <2> QED
    BY <1>1, <2>1
<1> QED
  BY <1>1, <1>2

\* The discriminant is not negative where the equation is solved, on a stage
\* that is gentle: R is the rate unit, w the volume of the arrival.
LEMMA GentleSolvable ==
  ASSUME NEW r \in Nat, NEW t \in Nat, NEW D \in Nat, NEW R \in Nat, NEW w \in Nat,
         w <= (r + t) * D + 2 * R, 2 * R * (r - t) <= t * t * D
  PROVE  (r * D) * (r * D) + (t - r) * (w * D) >= 0
<1>1. CASE r <= t
  <2>1. (r * D) * (r * D) \in Nat /\ w * D \in Nat /\ t - r \in Nat
    BY <1>1
  <2>2. (t - r) * (w * D) \in Nat
    BY <2>1
  <2> QED
    BY <2>1, <2>2
<1>2. CASE t < r
  <2> DEFINE g == r - t
  <2>1. g \in Nat /\ (t - r) * (w * D) = -(g * w) * D
    BY <1>2
  <2>2. g * w <= g * ((r + t) * D + 2 * R)
    BY <1>2
  <2>3. g * ((r + t) * D + 2 * R) = r * r * D - t * t * D + 2 * R * g
    OBVIOUS
  <2>4. g * w <= r * r * D
    <3>1. 2 * R * g <= t * t * D
      OBVIOUS
    <3> HIDE DEF g
    <3>2. g * w \in Int /\ r * r * D \in Int /\ t * t * D \in Int /\ 2 * R * g \in Int
      BY <2>1
    <3> QED
      BY <2>2, <2>3, <3>1, <3>2
  <2> HIDE DEF g
  <2>5. (g * w) * D <= (r * r * D) * D
    BY <2>1, <2>4
  <2>6. (r * r * D) * D = (r * D) * (r * D)
    OBVIOUS
  <2> QED
    BY <2>1, <2>5, <2>6
<1> QED
  BY <1>1, <1>2

\* A positive factor on both sides.
LEMMA Cancels ==
  ASSUME NEW x \in Int, NEW y \in Int, NEW d \in Nat \ {0}, x * d < y * d
  PROVE  x < y
<1> SUFFICES ASSUME y <= x PROVE FALSE
  OBVIOUS
<1>1. y * d <= x * d
  OBVIOUS
<1> QED
  BY <1>1

\* Where an arrival fails, the tolerances meet or the slope is taken for none.
LEMMA OutsideAtTolerance ==
  ASSUME LoadAccepted, Located, NextDue, Remaining, Outside,
         nextArrival * Arrival <= stageEndVolume + Tolerance
  PROVE  MissesTheEnd(Len(offsets), stage) \/ RisesUnseen(Len(offsets), stage)
<1> DEFINE r == previousRate
           t == Current.target
           D == Current.duration
           v == (r + t) * D
           a == nextArrival * Arrival
           short == a - stageEndVolume
<1>1. /\ stage <= Len(stages) /\ nextArrival \in Nat /\ a \in Int /\ nextArrival = Len(offsets) + 1
      /\ Current = stages[stage] /\ r = RateBefore(stage) /\ cumulative = BeforeStage(stage)
  <2>1. stage <= Len(stages) /\ nextArrival \in Nat /\ nextArrival = Len(offsets) + 1
    BY DEF Remaining, NextDue
  <2> QED
    BY <2>1, Units DEF Located, Current
<1>2. /\ r \in Nat /\ cumulative \in Nat /\ t \in Nat \ {0} /\ D \in Nat \ {0}
      /\ stageEndVolume = cumulative + v /\ BeforeStage(stage + 1) = stageEndVolume
      /\ Flat(r, Current) => slope = 0
      /\ ~Flat(r, Current) => slope = t - r
  BY <1>1, CurrentStage
<1>3. v \in Int /\ short \in Int /\ short <= Tolerance
  <2>1. v \in Int
    BY <1>2
  <2>2. stageEndVolume \in Int /\ Tolerance \in Int /\ a <= stageEndVolume + Tolerance
    <3> HIDE DEF v
    <3> QED
      BY <1>2, <2>1, Units
  <2> HIDE DEF v, a
  <2> QED
    BY <1>1, <2>1, <2>2
<1>u. CASE Flat(r, Current) /\ r < t
  <2>1. 2 * r * D * (D + 1) < (a - cumulative) * D
    BY <1>2, <1>u DEF Outside, Volume, WithinStage
  <2>2. (2 * r * (D + 1)) * D = 2 * r * D * (D + 1) /\ 2 * r * (D + 1) \in Int
    BY <1>2
  <2>3. a - cumulative \in Int
    <3> HIDE DEF a
    <3> QED
      BY <1>1, <1>2
  <2>4. 2 * r * (D + 1) < a - cumulative
    <3> DEFINE p == 2 * r * (D + 1)
               q == a - cumulative
    <3>1. p \in Int /\ q \in Int /\ p * D < q * D /\ D \in Nat \ {0}
      BY <1>2, <2>1, <2>2, <2>3
    <3> HIDE DEF p, q, D
    <3>2. p < q
      BY <3>1, Cancels
    <3> QED
      BY <3>2 DEF p, q
  <2>5. cumulative + 2 * r * (D + 1) < a
    <3> DEFINE p == 2 * r * (D + 1)
    <3>1. p \in Int /\ a \in Int /\ cumulative \in Int /\ p < a - cumulative
      BY <1>1, <1>2, <2>2, <2>4
    <3> HIDE DEF p, a
    <3>2. cumulative + p < a
      BY <3>1
    <3> QED
      BY <3>2 DEF p
  <2> QED
    BY <1>1, <1>u, <2>5 DEF RisesUnseen
<1>c. SUFFICES ASSUME Flat(r, Current) => t <= r PROVE MissesTheEnd(Len(offsets), stage)
  BY <1>2, <1>u
<1>4. Volume(D + 1) >= v * D + (2 * t * D + t - r)
  <2>1. 2 * r * D * (D + 1) + (t - r) * (D + 1) * (D + 1) = v * D + (2 * t * D + t - r)
    BY <1>2, PastTheEnd
  <2>2. (t - r) * (D + 1) * (D + 1) <= slope * (D + 1) * (D + 1)
    <3> HIDE DEF r, t, D
    <3>1. CASE slope = t - r
      BY <1>2, <3>1
    <3>2. CASE slope = 0 /\ t <= r
      <4>1. (t - r) * (D + 1) <= 0 /\ (t - r) * (D + 1) \in Int
        BY <1>2, <3>2
      <4>2. (t - r) * (D + 1) * (D + 1) <= 0
        BY <1>2, <4>1
      <4> QED
        BY <1>2, <3>2, <4>2
    <3> QED
      BY <1>2, <1>c, <3>1, <3>2
  <2>3. Volume(D + 1) = 2 * r * D * (D + 1) + slope * (D + 1) * (D + 1)
    BY DEF Volume
  <2>4. slope \in Int
    BY <1>2
  <2> DEFINE p == 2 * r * D * (D + 1)
             q == (t - r) * (D + 1) * (D + 1)
             s == slope * (D + 1) * (D + 1)
             m == v * D + (2 * t * D + t - r)
  <2>5. p \in Int /\ q \in Int /\ s \in Int
    BY <1>2, <2>4
  <2>6. p + q = m /\ q <= s /\ Volume(D + 1) = p + s
    BY <2>1, <2>2, <2>3
  <2>7. Volume(D + 1) >= m
    <3> HIDE DEF p, q, s, m
    <3> QED
      BY <2>5, <2>6
  <2> QED
    BY <2>7
<1>5. WithinStage = short * D + v * D
  <2>1. WithinStage = (a - cumulative) * D
    BY DEF WithinStage
  <2>2. a - cumulative = short + v
    <3> HIDE DEF a, v
    <3> QED
      BY <1>1, <1>2, <1>3
  <2> HIDE DEF a, v, short, D
  <2> QED
    BY <1>2, <1>3, <2>1, <2>2
<1>v. Volume(D + 1) \in Int
  <2>1. D + 1 \in Nat
    BY <1>2
  <2> HIDE DEF D
  <2> QED
    BY <1>1, <2>1, CurrentStage
<1>6. Volume(D + 1) < WithinStage /\ r * D * (D + 1) < WithinStage
  BY DEF Outside
<1>7. 2 * t * D + t - r < short * D
  <2> HIDE DEF v, short, r, t, D
  <2>1. v * D \in Int /\ short * D \in Int /\ 2 * t * D + t - r \in Int /\ Volume(D + 1) \in Int
    BY <1>2, <1>3, <1>v
  <2> QED
    BY <1>4, <1>5, <1>6, <2>1
<1>8. 0 < short
  <2>1. v * D = r * D * D + t * D * D /\ r * D * (D + 1) = r * D * D + r * D
    <3> HIDE DEF r, t, D
    <3> QED
      BY <1>2
  <2> HIDE DEF v, short, r, t, D
  <2>2. r * D < short * D + t * D * D
    <3>1. r * D * D \in Int /\ t * D * D \in Int /\ r * D \in Int /\ short * D \in Int
      BY <1>2, <1>3
    <3> QED
      BY <1>5, <1>6, <2>1, <3>1
  <2> QED
    BY <1>2, <1>3, <1>7, <2>2, OutsideIsShort
<1>9. InTick(stage, D) < Tolerance * D
  <2>1. InTick(stage, D) = 2 * r * D + (t - r) * (2 * D + 1)
    BY DEF InTick, Located, Current
  <2> HIDE DEF short, r, t, D
  <2>2. InTick(stage, D) = 2 * t * D + t - r
    BY <1>2, <2>1
  <2>3. short * D <= Tolerance * D /\ short * D \in Int /\ Tolerance * D \in Int
    BY <1>2, <1>3, Units
  <2>4. 2 * t * D + t - r \in Int
    BY <1>2
  <2> QED
    BY <1>7, <2>2, <2>3, <2>4
<1> QED
  BY <1>1, <1>2, <1>3, <1>8, <1>9 DEF MissesTheEnd

\* On a gentle load the closed form of arrivalTime always has a value.
LEMMA Solvable ==
  ASSUME LoadAccepted, Located, NextDue, Remaining, GentleLoad,
         nextArrival * Arrival <= stageEndVolume + Tolerance
  PROVE  ~Unsolvable
<1> DEFINE r == previousRate
           t == Current.target
           D == Current.duration
           w == nextArrival * Arrival - cumulative
<1>1. /\ stage \in 1..Len(stages) /\ stage <= Len(stages) /\ Current = stages[stage]
      /\ r = RateBefore(stage) /\ nextArrival \in Nat /\ nextArrival * Arrival > cumulative
  BY DEF Located, LoadAccepted, Remaining, Current, NextDue
<1>2. /\ r \in Nat /\ t \in Nat /\ D \in Nat \ {0} /\ cumulative \in Nat
      /\ stageEndVolume = cumulative + (r + t) * D /\ slope \in {0, t - r}
  BY <1>1, CurrentStage
<1>3. RateUnit \in Nat \ {0} /\ Tolerance = 2 * RateUnit /\ Second \in Nat \ {0}
  BY Units, ScheduleAssumption
<1>4. w \in Nat /\ w <= (r + t) * D + 2 * RateUnit
  <2>1. nextArrival * Arrival \in Int
    BY <1>1, Units
  <2>2. (r + t) * D \in Int
    BY <1>2
  <2>3. nextArrival * Arrival <= cumulative + (r + t) * D + 2 * RateUnit
    BY <1>2, <1>3
  <2> DEFINE a == nextArrival * Arrival
             v == (r + t) * D
             u == 2 * RateUnit
  <2>4. a \in Int /\ v \in Int /\ u \in Int /\ cumulative \in Int /\ a > cumulative
        /\ a <= cumulative + v + u
    BY <1>1, <1>2, <1>3, <2>1, <2>2, <2>3
  <2> HIDE DEF a, v, u
  <2>5. a - cumulative \in Nat /\ a - cumulative <= v + u
    BY <2>4
  <2> QED
    BY <2>5 DEF a, v, u
<1>5. 2 * RateUnit * (r - t) <= t * t * D
  BY <1>1 DEF GentleLoad, Gentle
<1>6. discriminant = (r * D) * (r * D) + slope * (w * D)
  BY DEF discriminant, WithinStage
<1> HIDE DEF r, t, D, w
<1>7. (r * D) * (r * D) + (t - r) * (w * D) >= 0
  BY <1>2, <1>3, <1>4, <1>5, GentleSolvable
<1>8. discriminant \in Nat
  <2>1. (r * D) * (r * D) \in Nat /\ (t - r) * (w * D) \in Int /\ w * D \in Nat
    BY <1>2, <1>4
  <2>2. CASE slope = 0
    BY <1>6, <2>1, <2>2
  <2>3. CASE slope = t - r
    BY <1>6, <1>7, <2>1, <2>3
  <2> QED
    BY <1>2, <2>2, <2>3
<1>9. discriminant * Second \in Nat
  BY <1>3, <1>8
<1>10. RateUnit * D \in Nat \ {0}
  BY <1>2, <1>3
<1>11. (RateUnit * D) * (RateUnit * D) \in Nat \ {0}
  BY <1>10
<1> QED
  BY <1>9, <1>11 DEF Unsolvable, D

LEMMA EmitInv == ASSUME ScheduleInv, Emit PROVE ScheduleInv'
<1>1. /\ LoadAccepted /\ Located /\ NextDue /\ LastBefore /\ OffsetsFollowRate /\ FailsOnlyAtTolerance
      /\ erred \in BOOLEAN
  BY DEF ScheduleInv
<1>2. /\ Remaining /\ nextArrival * Arrival <= stageEndVolume + Tolerance
      /\ UNCHANGED <<stages, maxDuration>> /\ UNCHANGED position
      /\ stage' = stage /\ stageStart' = stageStart /\ previousRate' = previousRate /\ cumulative' = cumulative
  BY DEF Emit, position
<1>3. LoadAccepted' /\ Located' /\ stages' = stages /\ maxDuration' = maxDuration
  BY <1>1, <1>2, SameLoad DEF Located
<1>4. CASE Outside /\ erred' = TRUE /\ UNCHANGED <<nextArrival, offsets>>
  <2>1. erred' = TRUE /\ nextArrival' = nextArrival /\ offsets' = offsets
    BY <1>4
  <2>2. FailsOnlyAtTolerance'
    <3>1. MissesTheEnd(Len(offsets), stage) \/ RisesUnseen(Len(offsets), stage)
      BY <1>1, <1>2, <1>4, OutsideAtTolerance
    <3>2. \A m, i : MissesTheEnd(m, i)' = MissesTheEnd(m, i) /\ RisesUnseen(m, i)' = RisesUnseen(m, i)
      BY <1>2, SameLoad
    <3>3. MissesTheEnd(Len(offsets), stage)' \/ RisesUnseen(Len(offsets), stage)'
      BY <1>2, <2>1, <3>1, <3>2
    <3> QED
      BY <3>3 DEF FailsOnlyAtTolerance
  <2>3. NextDue' /\ LastBefore'
    <3>1. GentleLoad' = GentleLoad
      BY <1>2, SameLoad
    <3> QED
      BY <1>1, <1>2, <2>1, <3>1 DEF NextDue, LastBefore, Current, Volume, slope, Flat, WithinStage
  <2>4. OffsetsFollowRate'
    <3>1. /\ BeforeStage(stage)' = BeforeStage(stage) /\ GentleLoad' = GentleLoad
          /\ SlopingLoad' = SlopingLoad
          /\ \A n, offset : DueAt(n, offset)' = DueAt(n, offset)
      BY <1>2, SameLoad
    <3> QED
      BY <1>1, <1>2, <2>1, <3>1 DEF OffsetsFollowRate
  <2> QED
    BY <1>3, <2>1, <2>2, <2>3, <2>4 DEF ScheduleInv
<1>5. ASSUME NEW x \in Int, AppendOffset(x), GentleLoad => x = arrivalTime PROVE ScheduleInv'
  <2>0. PICK n, e : n = Len(offsets) /\ e = stageStart + x
    OBVIOUS
  <2>1. /\ offsets' = Append(offsets, e) /\ nextArrival' = nextArrival + 1 /\ erred' = FALSE
        /\ erred = FALSE
    BY <1>1, <1>2, <1>5, <2>0 DEF AppendOffset, Remaining
  <2>2. /\ offsets \in Seq(Int) /\ n \in Nat /\ nextArrival = n + 1 /\ stage <= Len(stages)
        /\ nextArrival * Arrival > cumulative
    BY <1>1, <1>2, <2>0 DEF NextDue, Remaining
  <2>3. GentleLoad => e <= maxDuration /\ (SlopingLoad => DueAt(n + 1, e))
    BY <1>1, <1>2, <1>5, <2>0, <2>2, EmittedDue, EmittedInTime
  <2>4. GentleLoad => /\ x \in 0..Current.duration /\ Volume(x) <= WithinStage
                      /\ \A y \in 0..Current.duration : Volume(y) <= WithinStage => y <= x
    BY <1>1, <1>2, <1>5, PlaceInStage
  <2>5. /\ cumulative \in Nat /\ stageStart \in Nat /\ Current.duration \in Nat
        /\ \A d \in Nat : Volume(d) \in Int
    BY <1>1, <2>2, CurrentStage
  <2>6. /\ offsets' \in Seq(Int) /\ Len(offsets') = n + 1 /\ offsets'[n + 1] = e
        /\ \A m \in 1..n : offsets'[m] = offsets[m]
    <3>1. e \in Int
      BY <2>0, <2>5
    <3> QED
      BY <2>0, <2>1, <2>2, <3>1
  <2>7. /\ nextArrival' * Arrival = nextArrival * Arrival + Arrival
        /\ Arrival \in Nat /\ nextArrival * Arrival \in Int
    BY <2>1, <2>2, Units
  <2>8. NextDue'
    <3>1. nextArrival' = Len(offsets') + 1
      BY <2>1, <2>2, <2>6
    <3>2. nextArrival' * Arrival > cumulative'
      BY <1>2, <2>2, <2>5, <2>7
    <3>3. stage' > 1 => nextArrival' * Arrival > cumulative' + Tolerance
      BY <1>1, <1>2, <2>5, <2>7, Units DEF NextDue
    <3> QED
      BY <2>6, <3>1, <3>2, <3>3 DEF NextDue, Arrival, Tolerance
  <2>9. LastBefore'
    <3> SUFFICES ASSUME GentleLoad PROVE LastBefore'
      BY <1>2, SameLoad DEF LastBefore
    <3>1. Current' = Current /\ Volume(x)' = Volume(x)
      BY <1>2 DEF Current, Volume, slope, Flat
    <3>2. WithinStage <= WithinStage'
      <4> DEFINE D == Current.duration
                 w == nextArrival * Arrival - cumulative
      <4>1. WithinStage = w * D /\ WithinStage' = (w + Arrival) * D
        <5>1. WithinStage' = (nextArrival' * Arrival - cumulative) * D
          BY <1>2, <3>1 DEF WithinStage, Arrival
        <5>2. nextArrival' * Arrival - cumulative = w + Arrival
          <6> HIDE DEF w
          <6> QED
            BY <2>5, <2>7 DEF w
        <5> QED
          BY <5>1, <5>2 DEF WithinStage
      <4>2. w \in Int /\ D \in Nat
        BY <2>5, <2>7
      <4> HIDE DEF w, D
      <4> QED
        BY <2>7, <4>1, <4>2
    <3>3. Volume(x) \in Int /\ WithinStage \in Int /\ WithinStage' \in Int
      <4>1. WithinStage \in Int
        BY <2>5, <2>7 DEF WithinStage
      <4>2. WithinStage' \in Int
        <5>1. WithinStage' = (nextArrival' * Arrival - cumulative) * Current.duration
          BY <1>2, <3>1 DEF WithinStage, Arrival
        <5>2. nextArrival' * Arrival \in Int
          BY <2>7
        <5> QED
          BY <2>5, <5>1, <5>2
      <4> QED
        BY <2>4, <2>5, <4>1, <4>2
    <3>4. Volume(x)' <= WithinStage'
      BY <2>4, <3>1, <3>2, <3>3
    <3>5. offsets'[Len(offsets')] = stageStart' + x /\ x \in 0..Current'.duration /\ stage' <= Len(stages')
      BY <1>2, <1>3, <2>0, <2>2, <2>4, <2>6, <3>1
    <3> QED
      BY <3>4, <3>5 DEF LastBefore
  <2>10. OffsetsFollowRate'
    <3>1. /\ GentleLoad' = GentleLoad /\ SlopingLoad' = SlopingLoad
          /\ \A m, offset : DueAt(m, offset)' = DueAt(m, offset)
      BY <1>2, SameLoad
    <3>2. ASSUME GentleLoad, NEW m \in 1..n + 1, NEW offset, offset = offsets'[m]
          PROVE  offset <= maxDuration' /\ (SlopingLoad => DueAt(m, offset)')
      <4>1. CASE m # n + 1
        <5>1. m \in 1..Len(offsets) /\ offset = offsets[m]
          BY <2>0, <2>2, <2>6, <3>2, <4>1
        <5> QED
          BY <1>1, <1>3, <3>1, <3>2, <5>1 DEF OffsetsFollowRate
      <4>2. CASE m = n + 1
        BY <1>3, <2>3, <2>6, <3>1, <3>2, <4>2
      <4> QED
        BY <4>1, <4>2
    <3>3. ASSUME GentleLoad, NEW m \in 2..n + 1 PROVE offsets'[m - 1] <= offsets'[m]
      <4>1. CASE m # n + 1
        <5>1. m \in 2..Len(offsets) /\ m - 1 \in 1..n /\ m \in 1..n
          BY <2>0, <2>2, <4>1
        <5> QED
          BY <1>1, <2>6, <3>3, <5>1 DEF OffsetsFollowRate
      <4>2. CASE m = n + 1
        <5>1. offsets'[m - 1] = offsets[n] /\ offsets[n] \in Int /\ offsets # <<>>
          BY <2>0, <2>2, <2>6, <4>2
        <5>2. offsets[n] <= e
          <6>1. x \in Nat /\ stageStart \in Nat /\ e = stageStart + x
            BY <2>0, <2>4, <2>5, <3>3
          <6>2. CASE offsets[n] <= stageStart
            BY <5>1, <6>1, <6>2
          <6>3. CASE \E y \in 0..Current.duration :
                       offsets[n] = stageStart + y /\ Volume(y) <= WithinStage
            <7>1. PICK y \in 0..Current.duration :
                         offsets[n] = stageStart + y /\ Volume(y) <= WithinStage
              BY <6>3
            <7>2. y <= x /\ y \in Int
              BY <2>4, <3>3, <7>1
            <7> QED
              BY <6>1, <7>1, <7>2
          <6> QED
            BY <1>1, <2>0, <3>3, <5>1, <6>2, <6>3 DEF LastBefore
        <5> QED
          BY <2>6, <4>2, <5>1, <5>2
      <4> QED
        BY <4>1, <4>2
    <3>4. ~(stage' > Len(stages'))
      BY <1>1, <1>2, <1>3, <2>2 DEF Located, LoadAccepted
    <3> QED
      BY <2>6, <3>1, <3>2, <3>3, <3>4 DEF OffsetsFollowRate
  <2>11. FailsOnlyAtTolerance'
    BY <2>1 DEF FailsOnlyAtTolerance
  <2> QED
    BY <1>3, <2>1, <2>8, <2>9, <2>10, <2>11 DEF ScheduleInv
<1>6. CASE Unsolvable /\ \E time \in FromNaN : AppendOffset(time)
  <2>1. PICK time \in FromNaN : AppendOffset(time)
    BY <1>6
  <2>2. time \in Int
    BY <2>1, ScheduleAssumption DEF FromNaN
  <2>3. ~GentleLoad
    BY <1>1, <1>2, <1>6, Solvable
  <2> QED
    BY <1>5, <2>1, <2>2, <2>3
<1>7. CASE AppendOffset(arrivalTime)
  <2>1. arrivalTime \in Int
    BY <1>1, <1>2, PlaceInStage, CurrentStage DEF Remaining
  <2> QED
    BY <1>5, <1>7, <2>1
<1> QED
  BY <1>4, <1>6, <1>7 DEF Emit

LEMMA AdvanceInv == ASSUME ScheduleInv, Advance PROVE ScheduleInv'
<1>1. /\ LoadAccepted /\ Located /\ NextDue /\ LastBefore /\ OffsetsFollowRate /\ FailsOnlyAtTolerance
      /\ erred \in BOOLEAN
  BY DEF ScheduleInv
<1>2. /\ Remaining /\ nextArrival * Arrival > stageEndVolume + Tolerance
      /\ cumulative' = stageEndVolume /\ stageStart' = stageStart + Current.duration
      /\ previousRate' = Current.target /\ stage' = stage + 1
      /\ stages' = stages /\ maxDuration' = maxDuration /\ nextArrival' = nextArrival
      /\ offsets' = offsets /\ erred' = erred
  BY DEF Advance
<1>3. UNCHANGED <<stages, maxDuration>> /\ erred = FALSE /\ stage <= Len(stages) /\ stage \in 1..Len(stages)
  BY <1>1, <1>2 DEF Remaining, Located, LoadAccepted
<1>4. /\ cumulative \in Nat /\ stageStart \in Nat /\ Current.duration \in Nat
      /\ BeforeStage(stage + 1) = stageEndVolume /\ RateBefore(stage + 1) = Current.target
      /\ StartOf(stage + 1) = stageStart + Current.duration
  BY <1>1, <1>3, CurrentStage
<1>5. /\ BeforeStage(stage)' = BeforeStage(stage + 1) /\ RateBefore(stage)' = RateBefore(stage + 1)
      /\ StartOf(stage)' = StartOf(stage + 1) /\ LoadAccepted' /\ GentleLoad' = GentleLoad
      /\ SlopingLoad' = SlopingLoad
      /\ \A m, offset : DueAt(m, offset)' = DueAt(m, offset)
  BY <1>1, <1>2, <1>3, SameLoad
<1>6. Located'
  <2>1. stage' \in 1..Len(stages') + 1
    BY <1>1, <1>2, <1>3 DEF LoadAccepted
  <2> QED
    BY <1>2, <1>4, <1>5, <2>1 DEF Located
<1>7. nextArrival * Arrival > stageEndVolume /\ stageEndVolume \in Int
  <2>1. BeforeStage(stage + 1) \in Nat
    <3>1. stage + 1 \in 1..Len(stages) + 1
      BY <1>1, <1>3 DEF LoadAccepted
    <3> QED
      BY <1>1, <3>1, StartsAdd
  <2>2. nextArrival * Arrival \in Int
    BY <1>1, Units DEF NextDue
  <2> QED
    BY <1>2, <1>4, <2>1, <2>2, Units
<1>8. NextDue'
  BY <1>1, <1>2, <1>7 DEF NextDue, Arrival, Tolerance
<1>9. LastBefore'
  <2>1. offsets # <<>> => offsets[Len(offsets)] \in Int
    BY <1>1 DEF NextDue
  <2>2. GentleLoad /\ offsets # <<>> => offsets[Len(offsets)] <= stageStart + Current.duration
    BY <1>1, <1>4, <2>1 DEF LastBefore
  <2> QED
    BY <1>2, <1>5, <2>2 DEF LastBefore
<1>10. OffsetsFollowRate'
  <2>1. stage' > Len(stages') =>
          BeforeStage(stage)' + Tolerance < (Len(offsets') + 1) * Arrival
    BY <1>1, <1>2, <1>4, <1>5 DEF NextDue
  <2> QED
    BY <1>1, <1>2, <1>5, <2>1 DEF OffsetsFollowRate, Arrival, Tolerance
<1>11. FailsOnlyAtTolerance'
  BY <1>2, <1>3 DEF FailsOnlyAtTolerance
<1> QED
  BY <1>1, <1>2, <1>5, <1>6, <1>8, <1>9, <1>10, <1>11 DEF ScheduleInv

LEMMA ScheduleNextInv == ScheduleInv /\ [ScheduleNext]_scheduleVars => ScheduleInv'
<1> SUFFICES ASSUME ScheduleInv, [ScheduleNext]_scheduleVars PROVE ScheduleInv'
  OBVIOUS
<1>1. CASE Emit
  BY <1>1, EmitInv
<1>2. CASE Advance
  BY <1>2, AdvanceInv
<1>3. CASE UNCHANGED scheduleVars
  <2>1. /\ stages' = stages /\ maxDuration' = maxDuration /\ stage' = stage /\ stageStart' = stageStart
        /\ previousRate' = previousRate /\ cumulative' = cumulative
        /\ nextArrival' = nextArrival /\ offsets' = offsets /\ erred' = erred
    BY <1>3 DEF scheduleVars, position
  <2>2. /\ BeforeStage(stage)' = BeforeStage(stage) /\ RateBefore(stage)' = RateBefore(stage)
        /\ StartOf(stage)' = StartOf(stage) /\ LoadAccepted' = LoadAccepted
        /\ GentleLoad' = GentleLoad /\ SlopingLoad' = SlopingLoad /\ Current' = Current
        /\ \A m, i : MissesTheEnd(m, i)' = MissesTheEnd(m, i) /\ RisesUnseen(m, i)' = RisesUnseen(m, i)
        /\ \A m, offset : DueAt(m, offset)' = DueAt(m, offset)
    BY <2>1, SameLoad DEF Current
  <2>3. Located' /\ NextDue' /\ LastBefore'
    BY <2>1, <2>2 DEF ScheduleInv, Located, NextDue, LastBefore, Current, Volume, slope, Flat,
              WithinStage, Arrival, Tolerance
  <2>4. OffsetsFollowRate' /\ FailsOnlyAtTolerance'
    BY <2>1, <2>2 DEF ScheduleInv, OffsetsFollowRate, FailsOnlyAtTolerance, Arrival, Tolerance
  <2> QED
    BY <2>1, <2>2, <2>3, <2>4 DEF ScheduleInv
<1> QED
  BY <1>1, <1>2, <1>3 DEF ScheduleNext, Done

\* Between two calls of next, the position and the offsets agree with the load's
\* stages, however many and whatever their rates.
THEOREM ScheduleInvariance == ScheduleSpec => []ScheduleInv
  BY ScheduleInitInv, ScheduleNextInv, PTL DEF ScheduleSpec

\* For every accepted load none of the arrivals is left out at the end; if no
\* stage falls too steeply, those that the schedule returns are in order and
\* before max_duration, and if no change of rate is too slow to count, each is on
\* its tick.
THEOREM OffsetsAreDue == ScheduleSpec => []OffsetsFollowRate
  <1>1. ScheduleInv => OffsetsFollowRate
    BY DEF ScheduleInv
  <1> QED
    BY <1>1, ScheduleInvariance, PTL

\* For every accepted load, the schedule fails only where the tolerances meet or
\* a stage rises by a slope that is taken for none.
THEOREM FailureAtTolerance == ScheduleSpec => []FailsOnlyAtTolerance
  <1>1. ScheduleInv => FailsOnlyAtTolerance
    BY DEF ScheduleInv
  <1> QED
    BY <1>1, ScheduleInvariance, PTL

=============================================================================
