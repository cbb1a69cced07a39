-------------------------- MODULE AggregatorProofs --------------------------
(***************************************************************************)
(* Proofs about Aggregator, for any clients and any number of calls: its   *)
(* types, that nobody talks to an owner that has exited, that every        *)
(* summary adds up, and that it implements Ledger.                         *)
(*                                                                         *)
(* The argument is the lock.  A client between the check of the closed     *)
(* flag and its reply holds the lock; the owner exits under the write      *)
(* lock, whose holder is alone, and sets the flag before it lets go.       *)
(***************************************************************************)
EXTENDS Aggregator, SumTheorems

\* Where a client holds the lock, or has announced that it wants it alone.
Inside == {"locked", "send", "wait", "store", "unlock"}

\* A call before it has taken effect.
Pending == {"rlock", "parked", "lock", "draining", "locked", "send", "wait"}

\* The operation fits the place of the call.
CallsFit ==
  \A c \in Clients :
    /\ pc[c] # "idle" => op[c] \in Ops
    /\ pc[c] \in {"rlock", "parked"} => op[c] # "close"
    /\ pc[c] \in {"lock", "draining", "store"} => op[c] = "close"
    /\ pc[c] \in Pending => seen[c] = Zero

\* Readers share the lock, the writer has it to itself once they have left.
LockHeld ==
  /\ readers = {c \in Clients : op[c] # "close" /\ pc[c] \in Inside}
  /\ \A c \in Clients : writer = c <=> op[c] = "close" /\ pc[c] \in Inside \cup {"draining"}
  /\ \A c \in Clients : op[c] = "close" /\ pc[c] \in Inside => readers = {}

\* The owner serves the one client that waits.
OneServed ==
  /\ owner = "serving" => command \in Clients /\ pc[command] = "wait"
  /\ \A c \in Clients : pc[c] = "wait" => owner = "serving" /\ command = c

\* The owner exits for a Close that has yet to publish the flag.
ClosedInTime ==
  /\ closed => owner = "exited" /\ final = counts
  /\ \A c \in Clients : pc[c] \in {"send", "wait"} => ~closed
  /\ \A c \in Clients : pc[c] = "store" => owner = "exited" /\ seen[c] = counts
  /\ owner = "exited" /\ ~closed => \E c \in Clients : pc[c] = "store"

Protocol == TypeOK /\ CallsFit /\ LockHeld /\ OneServed /\ ClosedInTime

-----------------------------------------------------------------------------
LEMMA ZeroType == Zero \in Summaries
  BY DEF Zero, Summaries

LEMMA ProtocolInit == Init => Protocol
<1> SUFFICES ASSUME Init PROVE Protocol
  OBVIOUS
<1>2. TypeOK
  BY ZeroType, AggregatorAssumption DEF Init, TypeOK, Ops
<1>3. CallsFit /\ LockHeld /\ OneServed /\ ClosedInTime
  BY NobodyAssumption DEF Init, CallsFit, LockHeld, OneServed, ClosedInTime, Pending, Inside
<1> QED
  BY <1>2, <1>3 DEF Protocol

\* The holder of the lock for writing is alone.
LEMMA WriterAlone ==
  ASSUME LockHeld, NEW c \in Clients, NEW d \in Clients, op[c] = "close", pc[c] \in Inside,
         pc[d] \in Inside
  PROVE  d = c
  BY DEF LockHeld

\* Nobody has sent, or is about to, when the owner has exited.
LEMMA NoSend == Protocol => NoSendAfterExit
<1> SUFFICES ASSUME Protocol, NEW c \in Clients, pc[c] \in {"send", "wait"}, owner = "exited"
             PROVE  FALSE
  BY DEF NoSendAfterExit
<1>1. PICK d \in Clients : pc[d] = "store"
  BY DEF Protocol, ClosedInTime
<1>2. op[d] = "close"
  BY <1>1 DEF Protocol, CallsFit
<1> QED
  BY <1>1, <1>2, WriterAlone DEF Protocol, Inside

\* A client calls: nothing is held yet.
LEMMA CallProtocol == ASSUME Protocol, NEW c \in Clients, Call(c) PROVE Protocol'
<1> USE DEF Call, Goto, callVars, lockVars, ownerVars
<1>1. TypeOK'
  <2>1. PICK o \in Ops : /\ calls' = calls + (IF o \in Entries THEN 1 ELSE 0)
                         /\ op' = [op EXCEPT ![c] = o]
                         /\ pc' = [pc EXCEPT ![c] = IF o = "close" THEN "lock" ELSE "rlock"]
    OBVIOUS
  <2>2. op' \in [Clients -> Ops \cup {"none"}] /\ calls' \in Nat
    BY <2>1 DEF Protocol, TypeOK
  <2> QED
    BY <2>1, <2>2, ZeroType DEF Protocol, TypeOK
<1>2. CallsFit'
  BY DEF Protocol, TypeOK, CallsFit, Pending
<1>3. LockHeld'
  BY NobodyAssumption DEF Protocol, TypeOK, CallsFit, LockHeld, Inside
<1>4. OneServed'
  BY DEF Protocol, TypeOK, OneServed
<1>5. ClosedInTime'
  BY WriterAlone DEF Protocol, TypeOK, CallsFit, LockHeld, ClosedInTime, Inside
<1> QED
  BY <1>1, <1>2, <1>3, <1>4, <1>5 DEF Protocol

\* A reader gets in, or parks behind a writer.
LEMMA RLockProtocol == ASSUME Protocol, NEW c \in Clients, RLock(c) PROVE Protocol'
<1> USE DEF RLock, Goto, callVars, lockVars, ownerVars
<1>1. TypeOK'
  BY DEF Protocol, TypeOK
<1>2. CallsFit'
  BY DEF Protocol, TypeOK, CallsFit, Pending
<1>3. LockHeld'
  BY NobodyAssumption DEF Protocol, TypeOK, CallsFit, LockHeld, Inside
<1>4. OneServed'
  BY DEF Protocol, TypeOK, OneServed
<1>5. ClosedInTime'
  BY WriterAlone DEF Protocol, TypeOK, CallsFit, LockHeld, ClosedInTime, Inside
<1> QED
  BY <1>1, <1>2, <1>3, <1>4, <1>5 DEF Protocol

\* A writer announces itself.
LEMMA LockProtocol == ASSUME Protocol, NEW c \in Clients, Lock(c) PROVE Protocol'
<1> USE DEF Lock, Goto, callVars, lockVars, ownerVars
<1>1. TypeOK'
  BY DEF Protocol, TypeOK
<1>2. CallsFit'
  BY DEF Protocol, TypeOK, CallsFit, Pending
<1>3. LockHeld'
  BY NobodyAssumption DEF Protocol, TypeOK, CallsFit, LockHeld, Inside
<1>4. OneServed'
  BY DEF Protocol, TypeOK, OneServed
<1>5. ClosedInTime'
  BY WriterAlone DEF Protocol, TypeOK, CallsFit, LockHeld, ClosedInTime, Inside
<1> QED
  BY <1>1, <1>2, <1>3, <1>4, <1>5 DEF Protocol

\* The last reader has left: the writer is alone.
LEMMA DrainedProtocol == ASSUME Protocol, NEW c \in Clients, Drained(c) PROVE Protocol'
<1> USE DEF Drained, Goto, callVars, lockVars, ownerVars
<1>1. TypeOK'
  BY DEF Protocol, TypeOK
<1>2. CallsFit'
  BY DEF Protocol, TypeOK, CallsFit, Pending
<1>3. LockHeld'
  BY NobodyAssumption DEF Protocol, TypeOK, CallsFit, LockHeld, Inside
<1>4. OneServed'
  BY DEF Protocol, TypeOK, OneServed
<1>5. ClosedInTime'
  BY WriterAlone DEF Protocol, TypeOK, CallsFit, LockHeld, ClosedInTime, Inside
<1> QED
  BY <1>1, <1>2, <1>3, <1>4, <1>5 DEF Protocol

\* The flag is looked at under the lock.
LEMMA CheckClosedProtocol == ASSUME Protocol, NEW c \in Clients, CheckClosed(c) PROVE Protocol'
<1> USE DEF CheckClosed, Goto, callVars, lockVars, ownerVars
<1>1. TypeOK'
  <2>1. seen' \in [Clients -> Summaries] /\ ok' \in [Clients -> BOOLEAN]
    <3>1. CASE closed
      <4>1. (IF op[c] \in Entries THEN Zero ELSE final) \in Summaries
        BY ZeroType DEF Protocol, TypeOK
      <4>2. seen' = [seen EXCEPT ![c] = IF op[c] \in Entries THEN Zero ELSE final]
        BY <3>1
      <4>3. ok' = [ok EXCEPT ![c] = op[c] \notin Entries]
        BY <3>1
      <4>4. (op[c] \notin Entries) \in BOOLEAN
        OBVIOUS
      <4>5. ok \in [Clients -> BOOLEAN] /\ seen \in [Clients -> Summaries]
        BY DEF Protocol, TypeOK
      <4> QED
        BY ONLY <4>1, <4>2, <4>3, <4>4, <4>5
    <3>2. CASE ~closed
      BY <3>2 DEF Protocol, TypeOK
    <3> QED
      BY <3>1, <3>2
  <2>2. /\ pc' \in [Clients -> {"idle", "rlock", "parked", "lock", "draining", "locked", "send",
                              "wait", "store", "unlock"}]
        /\ UNCHANGED <<op, readers, writer, closed, final, owner, command, counts, calls>>
    BY DEF Protocol, TypeOK
  <2> QED
    BY ONLY Protocol, <2>1, <2>2 DEF Protocol, TypeOK
<1>2. CallsFit'
  BY DEF Protocol, TypeOK, CallsFit, Pending
<1>3. LockHeld'
  BY NobodyAssumption DEF Protocol, TypeOK, CallsFit, LockHeld, Inside
<1>4. OneServed'
  BY DEF Protocol, TypeOK, OneServed
<1>5. ClosedInTime'
  BY WriterAlone DEF Protocol, TypeOK, CallsFit, LockHeld, ClosedInTime, Inside
<1> QED
  BY <1>1, <1>2, <1>3, <1>4, <1>5 DEF Protocol

\* The client meets an owner that receives.
LEMMA SendProtocol == ASSUME Protocol, NEW c \in Clients, Send(c) PROVE Protocol'
<1> USE DEF Send, Goto, callVars, lockVars, ownerVars
<1>1. TypeOK'
  BY DEF Protocol, TypeOK
<1>2. CallsFit'
  BY DEF Protocol, TypeOK, CallsFit, Pending
<1>3. LockHeld'
  BY NobodyAssumption DEF Protocol, TypeOK, CallsFit, LockHeld, Inside
<1>4. OneServed'
  BY DEF Protocol, TypeOK, OneServed
<1>5. ClosedInTime'
  BY WriterAlone DEF Protocol, TypeOK, CallsFit, LockHeld, ClosedInTime, Inside
<1> QED
  BY <1>1, <1>2, <1>3, <1>4, <1>5 DEF Protocol

\* The flag is published under the write lock.
LEMMA StoreFinalProtocol == ASSUME Protocol, NEW c \in Clients, StoreFinal(c) PROVE Protocol'
<1> USE DEF StoreFinal, Goto, callVars, lockVars, ownerVars
<1>1. TypeOK'
  BY DEF Protocol, TypeOK
<1>2. CallsFit'
  BY DEF Protocol, TypeOK, CallsFit, Pending
<1>3. LockHeld'
  BY NobodyAssumption DEF Protocol, TypeOK, CallsFit, LockHeld, Inside
<1>4. OneServed'
  BY DEF Protocol, TypeOK, OneServed
<1>5. ClosedInTime'
  BY WriterAlone DEF Protocol, TypeOK, CallsFit, LockHeld, ClosedInTime, Inside
<1> QED
  BY <1>1, <1>2, <1>3, <1>4, <1>5 DEF Protocol

\* A reader leaves.
LEMMA RUnlockProtocol == ASSUME Protocol, NEW c \in Clients, RUnlock(c) PROVE Protocol'
<1> USE DEF RUnlock, Goto, callVars, lockVars, ownerVars
<1>1. TypeOK'
  BY DEF Protocol, TypeOK
<1>2. CallsFit'
  BY DEF Protocol, TypeOK, CallsFit, Pending
<1>3. LockHeld'
  BY NobodyAssumption DEF Protocol, TypeOK, CallsFit, LockHeld, Inside
<1>4. OneServed'
  BY DEF Protocol, TypeOK, OneServed
<1>5. ClosedInTime'
  BY WriterAlone DEF Protocol, TypeOK, CallsFit, LockHeld, ClosedInTime, Inside
<1> QED
  BY <1>1, <1>2, <1>3, <1>4, <1>5 DEF Protocol

\* The writer leaves, and lets in the readers that have parked.
LEMMA UnlockProtocol == ASSUME Protocol, NEW c \in Clients, Unlock(c) PROVE Protocol'
<1> USE DEF Unlock, callVars, lockVars, ownerVars
<1>0. ASSUME NEW d \in Clients
      PROVE  pc'[d] = IF d = c THEN "idle" ELSE IF pc[d] = "parked" THEN "locked" ELSE pc[d]
  BY DEF Parked
<1>1. TypeOK'
  <2>1. Parked \subseteq Clients
    BY DEF Parked
  <2>2. pc' \in [Clients -> {"idle", "rlock", "parked", "lock", "draining", "locked", "send",
                             "wait", "store", "unlock"}]
    BY <1>0 DEF Protocol, TypeOK
  <2> QED
    BY <2>1, <2>2 DEF Protocol, TypeOK
<1>2. CallsFit'
  BY <1>0 DEF Protocol, TypeOK, CallsFit, Pending
<1>3. LockHeld'
  <2>1. readers = {} /\ \A d \in Clients : pc[d] \in Inside => d = c
    BY WriterAlone DEF Protocol, LockHeld, Inside
  <2>2. readers' = {d \in Clients : op'[d] # "close" /\ pc'[d] \in Inside}
    BY <1>0, <2>1 DEF Protocol, CallsFit, Inside, Parked
  <2>3. \A d \in Clients : op'[d] = "close" => pc'[d] \notin Inside \cup {"draining"}
    BY <1>0, <2>1 DEF Protocol, CallsFit, LockHeld, Inside
  <2> QED
    BY <2>2, <2>3, NobodyAssumption DEF LockHeld
<1>4. OneServed'
  BY <1>0 DEF Protocol, TypeOK, OneServed
<1>5. ClosedInTime'
  BY <1>0, WriterAlone DEF Protocol, TypeOK, CallsFit, LockHeld, ClosedInTime, Inside
<1> QED
  BY <1>1, <1>2, <1>3, <1>4, <1>5 DEF Protocol

-----------------------------------------------------------------------------
(***************************************************************************)
(* The owner.                                                              *)
(***************************************************************************)
LEMMA AddType == ASSUME TypeOK, NEW e \in Entries PROVE Add(e) \in Summaries
<1> DEFINE started == counts.Started + (IF e = "dropped" THEN 0 ELSE 1)
           by == [counts.by EXCEPT ![e] = @ + 1]
<1>1. counts \in Summaries
  BY DEF TypeOK
<1>2. started \in Nat /\ by \in [Entries -> Nat] /\ counts.Scheduled + 1 \in Nat
  BY <1>1 DEF Summaries
<1>3. Add(e) = [counts EXCEPT !.Scheduled = counts.Scheduled + 1, !.Started = started, !.by = by]
  BY DEF Add
<1> HIDE DEF started, by
<1> QED
  BY <1>1, <1>2, <1>3 DEF Summaries

\* Whoever is served waits, inside the lock, for an owner that is there.
LEMMA Served ==
  ASSUME Protocol, owner = "serving"
  PROVE  /\ command \in Clients /\ pc[command] = "wait" /\ op[command] \in Ops
         /\ ~closed /\ \A d \in Clients : pc[d] = "wait" => d = command
         /\ \A d \in Clients : pc[d] # "store"
  BY DEF Protocol, TypeOK, OneServed, CallsFit, ClosedInTime

LEMMA ServeEntryProtocol == ASSUME Protocol, ServeEntry PROVE Protocol'
<1> USE DEF ServeEntry, Goto, lockVars
<1>0. /\ command \in Clients /\ pc[command] = "wait" /\ op[command] \in Ops
      /\ ~closed /\ \A d \in Clients : pc[d] = "wait" => d = command
      /\ \A d \in Clients : pc[d] # "store"
  BY Served
<1>1. TypeOK'
  BY <1>0, AddType DEF Protocol, TypeOK
<1>2. CallsFit'
  BY <1>0 DEF Protocol, TypeOK, CallsFit, Pending
<1>3. LockHeld'
  BY <1>0 DEF Protocol, TypeOK, CallsFit, LockHeld, Inside
<1>4. OneServed'
  BY <1>0 DEF Protocol, TypeOK, OneServed
<1>5. ClosedInTime'
  BY <1>0 DEF Protocol, TypeOK, ClosedInTime
<1> QED
  BY <1>1, <1>2, <1>3, <1>4, <1>5 DEF Protocol

LEMMA ServeSummaryProtocol == ASSUME Protocol, ServeSummary PROVE Protocol'
<1> USE DEF ServeSummary, Goto, lockVars
<1>0. /\ command \in Clients /\ pc[command] = "wait" /\ op[command] \in Ops
      /\ ~closed /\ \A d \in Clients : pc[d] = "wait" => d = command
      /\ \A d \in Clients : pc[d] # "store"
  BY Served
<1>1. TypeOK'
  BY <1>0, AddType DEF Protocol, TypeOK
<1>2. CallsFit'
  BY <1>0 DEF Protocol, TypeOK, CallsFit, Pending
<1>3. LockHeld'
  BY <1>0 DEF Protocol, TypeOK, CallsFit, LockHeld, Inside
<1>4. OneServed'
  BY <1>0 DEF Protocol, TypeOK, OneServed
<1>5. ClosedInTime'
  BY <1>0 DEF Protocol, TypeOK, ClosedInTime
<1> QED
  BY <1>1, <1>2, <1>3, <1>4, <1>5 DEF Protocol

LEMMA ServeCloseProtocol == ASSUME Protocol, ServeClose PROVE Protocol'
<1> USE DEF ServeClose, Goto, lockVars
<1>0. /\ command \in Clients /\ pc[command] = "wait" /\ op[command] \in Ops
      /\ ~closed /\ \A d \in Clients : pc[d] = "wait" => d = command
      /\ \A d \in Clients : pc[d] # "store"
  BY Served
<1>1. TypeOK'
  BY <1>0, AddType DEF Protocol, TypeOK
<1>2. CallsFit'
  BY <1>0 DEF Protocol, TypeOK, CallsFit, Pending
<1>3. LockHeld'
  BY <1>0 DEF Protocol, TypeOK, CallsFit, LockHeld, Inside
<1>4. OneServed'
  BY <1>0 DEF Protocol, TypeOK, OneServed
<1>5. ClosedInTime'
  BY <1>0 DEF Protocol, TypeOK, ClosedInTime
<1> QED
  BY <1>1, <1>2, <1>3, <1>4, <1>5 DEF Protocol

LEMMA ProtocolStep == Protocol /\ [Next]_vars => Protocol'
<1> SUFFICES ASSUME Protocol, [Next]_vars PROVE Protocol'
  OBVIOUS
<1>1. CASE Owner
  BY <1>1, ServeEntryProtocol, ServeSummaryProtocol, ServeCloseProtocol DEF Owner
<1>2. CASE \E c \in Clients : Call(c) \/ Progress(c)
  BY <1>2, CallProtocol, RLockProtocol, LockProtocol, DrainedProtocol, CheckClosedProtocol,
     SendProtocol, StoreFinalProtocol, RUnlockProtocol, UnlockProtocol DEF Progress
<1>3. CASE UNCHANGED vars
  BY <1>3 DEF vars, callVars, lockVars, ownerVars, Protocol, TypeOK, CallsFit, LockHeld, OneServed,
              ClosedInTime
<1> QED
  BY <1>1, <1>2, <1>3 DEF Next

-----------------------------------------------------------------------------
(***************************************************************************)
(* Summaries add up: an entry changes one count, and the sum by one.       *)
(***************************************************************************)
Balanced(s) ==
  /\ s.Scheduled = s.Started + s.by["dropped"]
  /\ s.Started = MapThenSumSet(LAMBDA e : s.by[e], Outcomes)

AllBalanced == Balanced(counts) /\ Balanced(final) /\ \A c \in Clients : Balanced(seen[c])

LEMMA BalancedSum ==
  ASSUME NEW s
  PROVE  Balanced(s) <=> /\ s.Scheduled = s.Started + s.by["dropped"]
                         /\ s.Started = Sum(s.by, Outcomes)
  BY DEF Balanced, MapThenSumSet, MapThenFoldSet, Sum, SumOf, IsSum, Pick

LEMMA BalancedZero == Balanced(Zero)
<1>1. \A x \in Outcomes : Zero.by[x] = 0
  BY DEF Zero, Entries
<1>2. Sum(Zero.by, Outcomes) = 0
  BY <1>1, AggregatorAssumption, SumZero
<1> QED
  BY <1>2, BalancedSum DEF Zero, Entries

LEMMA BalancedAdd ==
  ASSUME TypeOK, Balanced(counts), NEW e \in Entries PROVE Balanced(Add(e))
<1> DEFINE started == counts.Started + (IF e = "dropped" THEN 0 ELSE 1)
           by == [counts.by EXCEPT ![e] = @ + 1]
<1>1. counts \in Summaries /\ IsFiniteSet(Outcomes) /\ "dropped" \notin Outcomes
  BY AggregatorAssumption DEF TypeOK
<1>2. Add(e) = [counts EXCEPT !.Scheduled = counts.Scheduled + 1, !.Started = started, !.by = by]
  BY DEF Add
<1>3. \A x \in Outcomes : counts.by[x] \in Int /\ by[x] = counts.by[x] + (IF x = e THEN 1 ELSE 0)
  BY <1>1 DEF Summaries, Entries
<1>4. by["dropped"] = counts.by["dropped"] + (IF e = "dropped" THEN 1 ELSE 0)
  BY <1>1 DEF Summaries, Entries
<1> HIDE DEF by
<1>5. Sum(by, Outcomes) = Sum(counts.by, Outcomes) + (IF e \in Outcomes THEN 1 ELSE 0)
  <2> DEFINE old == counts.by
  <2>1. \A x \in Outcomes : old[x] \in Int
    BY <1>3
  <2>2. \A x \in Outcomes : by[x] = old[x] + (IF x = e THEN 1 ELSE 0)
    BY <1>3
  <2>3. 1 \in Int
    OBVIOUS
  <2> HIDE DEF old
  <2>4. Sum(by, Outcomes) = Sum(old, Outcomes) + (IF e \in Outcomes THEN 1 ELSE 0)
    BY <1>1, <2>1, <2>2, <2>3, SumChange
  <2> QED
    BY <2>4 DEF old
<1>6. e \in Outcomes <=> e # "dropped"
  BY <1>1 DEF Entries
<1>7. Add(e).Scheduled = counts.Scheduled + 1 /\ Add(e).Started = started /\ Add(e).by = by
  BY <1>1, <1>2 DEF Summaries
<1>8. counts.Scheduled = counts.Started + counts.by["dropped"] /\ counts.Started = Sum(counts.by, Outcomes)
  BY BalancedSum
<1>9. counts.Scheduled \in Nat /\ counts.Started \in Nat /\ counts.by["dropped"] \in Nat
  BY <1>1 DEF Summaries, Entries
<1>10. started = Sum(by, Outcomes) /\ counts.Scheduled + 1 = started + by["dropped"]
  BY <1>4, <1>5, <1>6, <1>8, <1>9
<1> QED
  BY <1>7, <1>10, BalancedSum

LEMMA BalancedInit == Init => AllBalanced
  BY BalancedZero DEF Init, AllBalanced

\* Only the owner counts; everything else passes summaries on.
LEMMA BalancedStep == Protocol /\ AllBalanced /\ [Next]_vars => AllBalanced'
<1> SUFFICES ASSUME Protocol, AllBalanced, [Next]_vars PROVE AllBalanced'
  OBVIOUS
<1> USE DEF AllBalanced
<1>1. CASE ServeEntry
  <2>1. Balanced(counts')
    BY <1>1, BalancedAdd DEF ServeEntry, Protocol
  <2> QED
    BY <1>1, <2>1 DEF ServeEntry
<1>2. CASE ServeSummary \/ ServeClose
  BY <1>2, Served DEF ServeSummary, ServeClose, Protocol, TypeOK
<1>3. ASSUME NEW c \in Clients, Call(c) \/ CheckClosed(c) PROVE AllBalanced'
  BY <1>3, BalancedZero DEF Call, CheckClosed, ownerVars, Protocol, TypeOK
<1>4. ASSUME NEW c \in Clients, StoreFinal(c) PROVE AllBalanced'
  BY <1>4 DEF StoreFinal, callVars, ownerVars
<1>5. ASSUME NEW c \in Clients,
             RLock(c) \/ Lock(c) \/ Drained(c) \/ Send(c) \/ RUnlock(c) \/ Unlock(c)
      PROVE  AllBalanced'
  BY <1>5 DEF RLock, Lock, Drained, Send, RUnlock, Unlock, callVars, ownerVars
<1>6. CASE UNCHANGED vars
  BY <1>6 DEF vars, callVars, ownerVars
<1> QED
  BY <1>1, <1>2, <1>3, <1>4, <1>5, <1>6 DEF Next, Owner, Progress

-----------------------------------------------------------------------------
(***************************************************************************)
(* The simulation of Ledger.  Only a call, its effect and its return are   *)
(* visible there; what happens in between does not change a client's call. *)
(***************************************************************************)
\* The client's call, as the ledger sees it.
CallSeen(c) ==
  /\ pc[c] = "idle" => ledgerCall[c] = L!Idle
  /\ pc[c] \in Pending => ledgerCall[c] = [op |-> op[c], phase |-> "invoked",
                                          ok |-> FALSE, seen |-> L!Empty]
  /\ pc[c] \in {"store", "unlock"} => ledgerCall[c] = [op |-> op[c], phase |-> "replied",
                                                      ok |-> ok[c], seen |-> seen[c].by]

CallsSeen == \A c \in Clients : CallSeen(c)

LEMMA CallOf == TypeOK => CallsSeen
<1> SUFFICES ASSUME TypeOK, NEW c \in Clients PROVE CallSeen(c)
  BY DEF CallsSeen
<1> USE DEF CallSeen
<1>1. Zero.by = L!Empty
  BY DEF Zero, Entries, L!Entries, L!Empty
<1>2. ok[c] \in BOOLEAN
  BY DEF TypeOK
<1>3. ledgerCall[c] = [op    |-> IF pc[c] = "idle" THEN "none" ELSE op[c],
                       phase |-> Phase(c),
                       ok    |-> Phase(c) = "replied" /\ ok[c],
                       seen  |-> IF Phase(c) = "replied" THEN seen[c].by ELSE Zero.by]
  BY DEF ledgerCall
<1>4. CASE pc[c] = "idle"
  <2>1. Phase(c) = "idle"
    BY <1>4 DEF Phase
  <2> QED
    BY <1>1, <1>3, <1>4, <2>1 DEF Pending, L!Idle
<1>5. CASE pc[c] \in Pending
  <2>1. Phase(c) = "invoked"
    BY <1>5 DEF Phase, Pending
  <2> QED
    BY <1>1, <1>3, <1>5, <2>1 DEF Pending
<1>6. CASE pc[c] \in {"store", "unlock"}
  <2>1. Phase(c) = "replied"
    BY <1>6 DEF Phase
  <2>2. (Phase(c) = "replied" /\ ok[c]) = ok[c]
    BY <1>2, <2>1
  <2> QED
    BY <1>3, <1>6, <2>1, <2>2 DEF Pending
<1> QED
  BY <1>4, <1>5, <1>6

LEMMA CallOfNext == TypeOK' => CallsSeen'
  BY CallOf, PTL

\* A client that has not moved in the eyes of the ledger.
LEMMA SameCall ==
  ASSUME TypeOK, TypeOK', NEW d \in Clients, op'[d] = op[d],
         \/ pc[d] \in Pending /\ pc'[d] \in Pending
         \/ pc[d] = "idle" /\ pc'[d] = "idle"
         \/ /\ pc[d] \in {"store", "unlock"} /\ pc'[d] \in {"store", "unlock"}
            /\ ok'[d] = ok[d] /\ seen'[d] = seen[d]
  PROVE  ledgerCall'[d] = ledgerCall[d]
  BY CallOf, CallOfNext DEF Pending, CallsSeen, CallSeen

LEMMA ReplyIs ==
  ASSUME TypeOK, TypeOK', NEW c \in Clients, pc[c] \in Pending, pc'[c] \in {"store", "unlock"},
         op'[c] = op[c],
         \A d \in Clients \ {c} : ledgerCall'[d] = ledgerCall[d]
  PROVE  L!Reply(c, ok'[c], seen'[c].by)
<1>1. ledgerCall[c] = [op |-> op[c], phase |-> "invoked", ok |-> FALSE, seen |-> L!Empty]
  BY CallOf DEF CallsSeen, CallSeen
<1>2. ledgerCall'[c] = [op |-> op[c], phase |-> "replied", ok |-> ok'[c], seen |-> seen'[c].by]
  BY CallOfNext DEF CallsSeen, CallSeen
<1>3. ledgerCall'[c] = [[[ledgerCall[c] EXCEPT !.phase = "replied"] EXCEPT !.ok = ok'[c]]
                          EXCEPT !.seen = seen'[c].by]
  <2> DEFINE r == ledgerCall[c]  o == op[c]  b == FALSE  e == L!Empty  k == ok'[c]  s == seen'[c].by
             r1 == [r EXCEPT !.phase = "replied"]  r2 == [r1 EXCEPT !.ok = k]
  <2>1. r = [op |-> o, phase |-> "invoked", ok |-> b, seen |-> e]
    BY <1>1
  <2>2. ledgerCall'[c] = [op |-> o, phase |-> "replied", ok |-> k, seen |-> s]
    BY <1>2
  <2> HIDE DEF r, o, b, e, k, s
  <2>3. r1 = [op |-> o, phase |-> "replied", ok |-> b, seen |-> e]
    BY <2>1
  <2> HIDE DEF r1
  <2>4. r2 = [op |-> o, phase |-> "replied", ok |-> k, seen |-> e]
    BY <2>3
  <2> HIDE DEF r2
  <2>5. ledgerCall'[c] = [r2 EXCEPT !.seen = s]
    BY <2>2, <2>4
  <2> QED
    BY <2>5 DEF r, r1, r2, k, s
<1>4. ledgerCall = [d \in Clients |-> ledgerCall[d]] /\ ledgerCall' = [d \in Clients |-> ledgerCall'[d]]
  BY DEF ledgerCall
<1> QED
  BY <1>3, <1>4 DEF L!Reply

\* A call takes effect: the ledger's reply, and nobody else's call changes.
LEMMA Effect ==
  ASSUME Protocol, Protocol', NEW c \in Clients, pc[c] \in Pending, pc'[c] \in {"store", "unlock"},
         op' = op, \A d \in Clients \ {c} : pc'[d] = pc[d] /\ ok'[d] = ok[d] /\ seen'[d] = seen[d]
  PROVE  /\ ledgerCall[c].phase = "invoked" /\ ledgerCall[c].op = op[c]
         /\ L!Reply(c, ok'[c], seen'[c].by)
<1>1. TypeOK /\ TypeOK'
  BY DEF Protocol
<1>2. ASSUME NEW d \in Clients \ {c} PROVE ledgerCall'[d] = ledgerCall[d]
  <2>1. pc[d] = "idle" \/ pc[d] \in Pending \/ pc[d] \in {"store", "unlock"}
    BY <1>1 DEF TypeOK, Pending
  <2> QED
    BY <1>1, <2>1, SameCall
<1>3. L!Reply(c, ok'[c], seen'[c].by)
  BY <1>1, <1>2, ReplyIs
<1>4. ledgerCall[c] = [op |-> op[c], phase |-> "invoked", ok |-> FALSE, seen |-> L!Empty]
  BY <1>1, CallOf DEF CallsSeen, CallSeen
<1> QED
  BY <1>3, <1>4

LEMMA ZeroBy == Zero.by = L!Empty
  BY DEF Zero, Entries, L!Entries, L!Empty

LEMMA LedgerInit == Init => L!Init
<1> SUFFICES ASSUME Init PROVE L!Init
  OBVIOUS
<1>1. TypeOK
  BY ProtocolInit DEF Protocol
<1>2. \A c \in Clients : ledgerCall[c] = L!Idle
  BY <1>1, CallOf DEF Init, CallsSeen, CallSeen
<1>3. ledgerCall = [c \in Clients |-> ledgerCall[c]]
  BY DEF ledgerCall
<1> QED
  BY <1>2, <1>3, ZeroBy DEF Init, L!Init

\* Between its effects a call is not seen to move.
LEMMA Unseen ==
  ASSUME Protocol, Protocol', op' = op,
         \A d \in Clients : \/ pc[d] \in Pending /\ pc'[d] \in Pending
                            \/ pc'[d] = pc[d] /\ ok'[d] = ok[d] /\ seen'[d] = seen[d]
                            \/ /\ pc[d] \in {"store", "unlock"} /\ pc'[d] \in {"store", "unlock"}
                               /\ ok'[d] = ok[d] /\ seen'[d] = seen[d]
  PROVE  ledgerCall' = ledgerCall
<1>1. ASSUME NEW d \in Clients PROVE ledgerCall'[d] = ledgerCall[d]
  <2>1. pc[d] = "idle" \/ pc[d] \in Pending \/ pc[d] \in {"store", "unlock"}
    BY DEF Protocol, TypeOK, Pending
  <2> QED
    BY <2>1, SameCall DEF Protocol
<1>2. ledgerCall = [d \in Clients |-> ledgerCall[d]] /\ ledgerCall' = [d \in Clients |-> ledgerCall'[d]]
  BY DEF ledgerCall
<1> QED
  BY <1>1, <1>2

LEMMA CallInvokes ==
  ASSUME Protocol, Protocol', NEW c \in Clients, Call(c)
  PROVE  \E o \in L!Ops : L!Invoke(c, o)
<1>1. PICK o \in Ops : /\ op' = [op EXCEPT ![c] = o]
                       /\ pc' = [pc EXCEPT ![c] = IF o = "close" THEN "lock" ELSE "rlock"]
  BY DEF Call, Goto
<1>2. TypeOK /\ TypeOK' /\ pc[c] = "idle"
  BY DEF Protocol, Call
<1>3. ok' = [ok EXCEPT ![c] = FALSE] /\ seen' = [seen EXCEPT ![c] = Zero]
  BY DEF Call
<1>4. pc'[c] \in Pending /\ op'[c] = o
  BY <1>1, <1>2 DEF TypeOK, Pending
<1>5. ledgerCall[c] = L!Idle
  BY <1>2, CallOf DEF CallsSeen, CallSeen
<1>6. ledgerCall'[c] = [L!Idle EXCEPT !.op = o, !.phase = "invoked"]
  <2>1. ledgerCall'[c] = [op |-> o, phase |-> "invoked", ok |-> FALSE, seen |-> L!Empty]
    BY <1>2, <1>4, CallOfNext DEF CallsSeen, CallSeen
  <2> DEFINE b == FALSE  e == L!Empty
             r == [op |-> "none", phase |-> "idle", ok |-> b, seen |-> e]
             r1 == [r EXCEPT !.op = o]
  <2>2. L!Idle = r
    BY DEF L!Idle
  <2>3. ledgerCall'[c] = [op |-> o, phase |-> "invoked", ok |-> b, seen |-> e]
    BY <2>1
  <2> HIDE DEF b, e
  <2>4. r1 = [op |-> o, phase |-> "idle", ok |-> b, seen |-> e]
    OBVIOUS
  <2> HIDE DEF r1
  <2>5. ledgerCall'[c] = [r1 EXCEPT !.phase = "invoked"]
    BY <2>3, <2>4
  <2> HIDE DEF r
  <2> QED
    BY <2>2, <2>5 DEF r1
<1>7. ASSUME NEW d \in Clients \ {c} PROVE ledgerCall'[d] = ledgerCall[d]
  <2>1. pc'[d] = pc[d] /\ op'[d] = op[d] /\ ok'[d] = ok[d] /\ seen'[d] = seen[d]
    BY <1>1, <1>2, <1>3 DEF TypeOK
  <2>2. pc[d] = "idle" \/ pc[d] \in Pending \/ pc[d] \in {"store", "unlock"}
    BY <1>2 DEF TypeOK, Pending
  <2> QED
    BY <1>2, <2>1, <2>2, SameCall
<1>8. ledgerCall = [d \in Clients |-> ledgerCall[d]] /\ ledgerCall' = [d \in Clients |-> ledgerCall'[d]]
  BY DEF ledgerCall
<1>9. ledgerCall[c].phase = "idle"
  BY <1>5 DEF L!Idle
<1>10. o \in L!Ops
  BY DEF Ops, Entries, L!Ops, L!Entries
<1>11. UNCHANGED <<counts.by, owner = "exited">>
  BY DEF Call, ownerVars
<1> QED
  BY <1>6, <1>7, <1>8, <1>9, <1>10, <1>11 DEF L!Invoke

\* A client leaves: its call is over, and readers let in are still invoked.
LEMMA UnlockReturns ==
  ASSUME Protocol, Protocol', NEW c \in Clients, RUnlock(c) \/ Unlock(c)
  PROVE  L!Return(c)
<1>1. TypeOK /\ TypeOK' /\ pc[c] = "unlock" /\ op' = op /\ ok' = ok /\ seen' = seen
  BY DEF Protocol, RUnlock, Unlock, callVars
<1>2. /\ pc'[c] = "idle"
      /\ \A d \in Clients \ {c} : \/ pc'[d] = pc[d]
                                  \/ pc[d] = "parked" /\ pc'[d] = "locked"
  BY <1>1 DEF TypeOK, RUnlock, Unlock, Goto, Parked
<1>3. ledgerCall'[c] = L!Idle
  BY <1>1, <1>2, CallOfNext DEF CallsSeen, CallSeen
<1>4. ledgerCall[c].phase = "replied"
  <2>1. ledgerCall[c] = [op |-> op[c], phase |-> "replied", ok |-> ok[c], seen |-> seen[c].by]
    BY <1>1, CallOf DEF CallsSeen, CallSeen
  <2> QED
    BY <2>1
<1>5. ASSUME NEW d \in Clients \ {c} PROVE ledgerCall'[d] = ledgerCall[d]
  <2>1. pc[d] = "idle" \/ pc[d] \in Pending \/ pc[d] \in {"store", "unlock"}
    BY <1>1 DEF TypeOK, Pending
  <2>2. \/ pc'[d] = pc[d]
        \/ pc[d] \in Pending /\ pc'[d] \in Pending
    BY <1>2 DEF Pending
  <2> QED
    BY <1>1, <2>1, <2>2, SameCall
<1>6. ledgerCall = [d \in Clients |-> ledgerCall[d]] /\ ledgerCall' = [d \in Clients |-> ledgerCall'[d]]
  BY DEF ledgerCall
<1>7. UNCHANGED <<counts.by, owner = "exited">>
  BY DEF RUnlock, Unlock, ownerVars
<1> QED
  BY <1>3, <1>4, <1>5, <1>6, <1>7 DEF L!Return

\* An entry takes effect when the owner counts it.
LEMMA ServeEntryEnters == ASSUME Protocol, Protocol', ServeEntry PROVE \E c \in Clients : L!Enter(c)
<1> DEFINE c == command  e == op[command]
<1>1. /\ c \in Clients /\ pc[c] = "wait" /\ e \in Entries /\ pc' = [pc EXCEPT ![c] = "unlock"]
      /\ op' = op /\ seen' = seen /\ ok' = [ok EXCEPT ![c] = TRUE]
      /\ owner = "serving" /\ owner' = "receiving"
  BY Served DEF ServeEntry, Goto
<1>2. TypeOK /\ pc'[c] = "unlock" /\ ok'[c] = TRUE /\ seen'[c] = Zero
  BY <1>1 DEF Protocol, TypeOK, CallsFit, Pending
<1>3. \A d \in Clients \ {c} : pc'[d] = pc[d] /\ ok'[d] = ok[d] /\ seen'[d] = seen[d]
  BY <1>1, <1>2 DEF TypeOK
<1>4. ledgerCall[c].phase = "invoked" /\ ledgerCall[c].op = e /\ L!Reply(c, ok'[c], seen'[c].by)
  BY <1>1, <1>2, <1>3, Effect DEF Pending
<1>5. counts'.by = [counts.by EXCEPT ![e] = @ + 1]
  <2> DEFINE started == counts.Started + (IF e = "dropped" THEN 0 ELSE 1)
             by == [counts.by EXCEPT ![e] = @ + 1]
  <2>1. counts' = [counts EXCEPT !.Scheduled = counts.Scheduled + 1, !.Started = started, !.by = by]
    BY DEF ServeEntry, Add
  <2> HIDE DEF started, by
  <2>2. counts'.by = by
    BY <1>2, <2>1 DEF TypeOK, Summaries
  <2> QED
    BY <2>2 DEF by
<1>6. e \in L!Entries
  BY <1>1 DEF Entries, L!Entries
<1>7. L!Reply(c, ~(owner = "exited"), L!Empty)
  BY <1>1, <1>2, <1>4, ZeroBy
<1> HIDE DEF c, e
<1>8. UNCHANGED (owner = "exited") /\ owner # "exited"
  BY <1>1
<1> QED
  BY <1>1, <1>4, <1>5, <1>6, <1>7, <1>8 DEF L!Enter

\* A summary, or the first close, shows the counters.
LEMMA ServeShows ==
  ASSUME Protocol, Protocol', ServeSummary \/ ServeClose PROVE \E c \in Clients : L!Show(c)
<1> DEFINE c == command
<1>1. /\ c \in Clients /\ pc[c] = "wait" /\ op[c] \in {"summary", "close"}
      /\ pc' = [pc EXCEPT ![c] = IF op[c] = "close" THEN "store" ELSE "unlock"]
      /\ op' = op /\ seen' = [seen EXCEPT ![c] = counts] /\ ok' = [ok EXCEPT ![c] = TRUE]
      /\ owner = "serving" /\ counts' = counts
      /\ owner' = IF op[c] = "close" THEN "exited" ELSE "receiving"
  BY Served DEF ServeSummary, ServeClose, Goto
<1>2. TypeOK /\ pc'[c] \in {"store", "unlock"} /\ ok'[c] = TRUE /\ seen'[c] = counts
  BY <1>1 DEF Protocol, TypeOK
<1>3. \A d \in Clients \ {c} : pc'[d] = pc[d] /\ ok'[d] = ok[d] /\ seen'[d] = seen[d]
  BY <1>1, <1>2 DEF TypeOK
<1>4. ledgerCall[c].phase = "invoked" /\ ledgerCall[c].op = op[c] /\ L!Reply(c, ok'[c], seen'[c].by)
  BY <1>1, <1>2, <1>3, Effect DEF Pending
<1>5. L!Reply(c, TRUE, counts.by)
  BY <1>2, <1>4
<1>6. (owner = "exited")' = (owner = "exited" \/ ledgerCall[c].op = "close")
  BY <1>1, <1>4
<1> HIDE DEF c
<1> QED
  BY <1>1, <1>4, <1>5, <1>6 DEF L!Show

\* Of a closed aggregator, an entry is refused and the final summary shown.
LEMMA CheckClosedReplies ==
  ASSUME Protocol, Protocol', NEW c \in Clients, CheckClosed(c), closed
  PROVE  L!Enter(c) \/ L!Show(c)
<1>1. /\ pc[c] = "locked" /\ op' = op /\ pc' = [pc EXCEPT ![c] = "unlock"]
      /\ ok' = [ok EXCEPT ![c] = op[c] \notin Entries]
      /\ seen' = [seen EXCEPT ![c] = IF op[c] \in Entries THEN Zero ELSE final]
      /\ owner' = owner /\ counts' = counts
  BY DEF CheckClosed, Goto, ownerVars
<1>2. /\ TypeOK /\ owner = "exited" /\ final = counts /\ op[c] \in Ops
      /\ pc'[c] = "unlock" /\ ok'[c] = (op[c] \notin Entries)
  BY <1>1 DEF Protocol, TypeOK, CallsFit, ClosedInTime
<1>3. seen'[c] = IF op[c] \in Entries THEN Zero ELSE counts
  BY <1>1, <1>2 DEF TypeOK
<1>4. \A d \in Clients \ {c} : pc'[d] = pc[d] /\ ok'[d] = ok[d] /\ seen'[d] = seen[d]
  BY <1>1, <1>2 DEF TypeOK
<1>5. ledgerCall[c].phase = "invoked" /\ ledgerCall[c].op = op[c] /\ L!Reply(c, ok'[c], seen'[c].by)
  BY <1>1, <1>2, <1>4, Effect DEF Pending
<1>6. UNCHANGED <<counts.by, owner = "exited">>
  BY <1>1
<1>7. CASE op[c] \in Entries
  <2>1. L!Reply(c, ~(owner = "exited"), L!Empty)
    BY <1>2, <1>3, <1>5, <1>7, ZeroBy
  <2> QED
    BY <1>2, <1>5, <1>6, <1>7, <2>1 DEF L!Enter, Entries, L!Entries
<1>8. CASE op[c] \notin Entries
  <2>1. L!Reply(c, TRUE, counts.by)
    BY <1>2, <1>3, <1>5, <1>8
  <2> QED
    BY <1>2, <1>5, <1>6, <1>8, <2>1 DEF L!Show, Ops
<1> QED
  BY <1>7, <1>8

\* What does not change a call in the eyes of the ledger.
LEMMA OtherUnseen ==
  ASSUME Protocol, Protocol', NEW c \in Clients,
         \/ RLock(c) \/ Lock(c) \/ Drained(c) \/ Send(c) \/ StoreFinal(c)
         \/ CheckClosed(c) /\ ~closed
  PROVE  UNCHANGED L!ledgerVars
<1>1. /\ op' = op /\ ok' = ok /\ seen' = seen /\ counts' = counts
      /\ (owner' = "exited") = (owner = "exited")
  BY DEF RLock, Lock, Drained, Send, StoreFinal, CheckClosed, callVars, ownerVars
<1>2. /\ \A d \in Clients \ {c} : pc'[d] = pc[d]
      /\ \/ pc[c] \in Pending /\ pc'[c] \in Pending
         \/ pc[c] = "store" /\ pc'[c] = "unlock"
  BY DEF RLock, Lock, Drained, Send, StoreFinal, CheckClosed, Goto, Pending, Protocol, TypeOK
<1>3. ledgerCall' = ledgerCall
  BY <1>1, <1>2, Unseen
<1> QED
  BY <1>1, <1>3 DEF L!ledgerVars

LEMMA LedgerStep == Protocol /\ Protocol' /\ [Next]_vars => [L!Next]_(L!ledgerVars)
<1> SUFFICES ASSUME Protocol, Protocol', [Next]_vars PROVE L!Next \/ UNCHANGED L!ledgerVars
  OBVIOUS
<1>1. CASE Owner
  BY <1>1, ServeEntryEnters, ServeShows DEF Owner, L!Next
<1>2. ASSUME NEW c \in Clients, Call(c) PROVE L!Next
  BY <1>2, CallInvokes DEF L!Next
<1>3. ASSUME NEW c \in Clients, RUnlock(c) \/ Unlock(c) PROVE L!Next
  BY <1>3, UnlockReturns DEF L!Next
<1>4. ASSUME NEW c \in Clients, CheckClosed(c), closed PROVE L!Next
  BY <1>4, CheckClosedReplies DEF L!Next
<1>5. ASSUME NEW c \in Clients, \/ RLock(c) \/ Lock(c) \/ Drained(c) \/ Send(c) \/ StoreFinal(c)
                                \/ CheckClosed(c) /\ ~closed
      PROVE  UNCHANGED L!ledgerVars
  BY <1>5, OtherUnseen
<1>6. CASE UNCHANGED vars
  <2>1. op' = op /\ pc' = pc /\ ok' = ok /\ seen' = seen /\ counts' = counts /\ owner' = owner
    BY <1>6 DEF vars, callVars, ownerVars
  <2>2. ledgerCall' = ledgerCall
    BY <2>1, Unseen
  <2> QED
    BY <2>1, <2>2 DEF L!ledgerVars
<1> QED
  BY <1>1, <1>2, <1>3, <1>4, <1>5, <1>6 DEF Next, Progress

-----------------------------------------------------------------------------
\* The inductive invariant holds throughout.
THEOREM ProtocolInvariance == Spec => []Protocol
  BY ProtocolInit, ProtocolStep, PTL DEF Spec

\* Every client, the owner and the lock keep their types.
THEOREM AggregatorTypes == Spec => []TypeOK
  BY ProtocolInvariance, PTL DEF Protocol

\* However calls and closes interleave, nobody sends to an owner that has
\* exited, and nobody waits for it.
THEOREM OwnerIsThere == Spec => []NoSendAfterExit
  BY ProtocolInvariance, NoSend, PTL

\* No summary the aggregator holds or hands out shows half an entry.
THEOREM SummariesBalance == Spec => []SummariesAddUp
<1>1. AllBalanced => SummariesAddUp
  <2>1. ASSUME NEW s, Balanced(s)
        PROVE  /\ s.Scheduled = s.Started + s.by["dropped"]
               /\ s.Started = MapThenSumSet(LAMBDA e : s.by[e], Outcomes)
    BY <2>1 DEF Balanced
  <2>2. AllBalanced => \A s \in {counts, final} \cup {seen[c] : c \in Clients} : Balanced(s)
    BY DEF AllBalanced
  <2> QED
    BY <2>1, <2>2 DEF SummariesAddUp
<1> QED
  BY <1>1, ProtocolInvariance, BalancedInit, BalancedStep, PTL DEF Spec

\* The lock, the channel and the owner together make every call take effect
\* at one moment, in the order of a ledger that the first close freezes.
THEOREM AggregatorIsALedger == Spec => ImplementsLedger
<1>1. Spec => L!Init
  BY LedgerInit, PTL DEF Spec
<1>2. Spec => [][L!Next]_(L!ledgerVars)
  BY ProtocolInvariance, LedgerStep, PTL DEF Spec
<1> QED
  BY <1>1, <1>2, PTL DEF ImplementsLedger, L!Spec

=============================================================================
