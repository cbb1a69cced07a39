----------------------------- MODULE Aggregator -----------------------------
(***************************************************************************)
(* internal/metrics.Aggregator: an owner goroutine that alone mutates the  *)
(* counters, an unbuffered channel of commands, and a read-write mutex     *)
(* around the closed flag.  Record, RecordDropped and Summary hold the     *)
(* read lock while they talk to the owner; Close holds the write lock and  *)
(* stops the owner.                                                        *)
(*                                                                         *)
(* The mutex is Go's: a writer that waits for the readers to leave stops   *)
(* new ones, and lets in the readers it has stopped when it unlocks.       *)
(***************************************************************************)
EXTENDS Integers, FiniteSetsExt

CONSTANTS
  Clients,   \* goroutines that call the aggregator
  Outcomes,  \* outcomes a started request may be recorded with
  MaxCalls   \* bound: requests and drops recorded in all

ASSUME AggregatorAssumption ==
  /\ Outcomes \cap {"dropped", "summary", "close", "none"} = {} /\ IsFiniteSet(Outcomes)
  /\ MaxCalls \in Nat

Entries == Outcomes \cup {"dropped"}
Ops == Entries \cup {"summary", "close"}
Nobody == "nobody"
ASSUME NobodyAssumption == Nobody \notin Clients

VARIABLES
  pc,       \* where each client's call is
  op,       \* the operation it calls
  ok,       \* whether the call succeeds
  seen,     \* the summary it returns
  readers,  \* lifecycle: the holders of the read lock
  writer,   \* lifecycle: the writer that has announced itself, or Nobody
  closed,   \* a.closed
  final,    \* a.final
  owner,    \* the owner goroutine: "receiving", "serving" or "exited"
  command,  \* the client whose command it serves
  counts,   \* its counters
  calls     \* number of entries asked for: bounds the model

callVars == <<op, ok, seen>>
lockVars == <<readers, writer>>
ownerVars == <<owner, command, counts>>
vars == <<pc, callVars, lockVars, closed, final, ownerVars, calls>>

Zero == [Scheduled |-> 0, Started |-> 0, by |-> [e \in Entries |-> 0]]

Init ==
  /\ pc = [c \in Clients |-> "idle"]
  /\ op = [c \in Clients |-> "none"]
  /\ ok = [c \in Clients |-> FALSE]
  /\ seen = [c \in Clients |-> Zero]
  /\ readers = {} /\ writer = Nobody
  /\ closed = FALSE /\ final = Zero
  /\ owner = "receiving" /\ command = Nobody /\ counts = Zero
  /\ calls = 0

Goto(c, next) == pc' = [pc EXCEPT ![c] = next]

-----------------------------------------------------------------------------
(***************************************************************************)
(* The clients.                                                            *)
(***************************************************************************)
Call(c) ==
  /\ pc[c] = "idle"
  /\ \E o \in Ops :
       /\ o \in Entries => calls < MaxCalls
       /\ calls' = calls + (IF o \in Entries THEN 1 ELSE 0)
       /\ op' = [op EXCEPT ![c] = o]
       /\ Goto(c, IF o = "close" THEN "lock" ELSE "rlock")
  /\ ok' = [ok EXCEPT ![c] = FALSE] /\ seen' = [seen EXCEPT ![c] = Zero]
  /\ UNCHANGED <<lockVars, closed, final, ownerVars>>

\* Mutant: readers do not wait for a waiting writer.
RLockFirst(c) ==
  /\ pc[c] = "rlock"
  /\ writer # Nobody => pc[writer] = "draining"
  /\ readers' = readers \cup {c} /\ Goto(c, "locked")
  /\ UNCHANGED <<callVars, writer, closed, final, ownerVars, calls>>

RLock(c) ==
  /\ pc[c] = "rlock"
  /\ \/ /\ writer = Nobody
        /\ readers' = readers \cup {c} /\ Goto(c, "locked")
     \/ /\ writer # Nobody
        /\ Goto(c, "parked") /\ UNCHANGED readers
  /\ UNCHANGED <<callVars, writer, closed, final, ownerVars, calls>>

Lock(c) ==
  /\ pc[c] = "lock" /\ writer = Nobody
  /\ writer' = c /\ Goto(c, "draining")
  /\ UNCHANGED <<callVars, readers, closed, final, ownerVars, calls>>

Drained(c) ==
  /\ pc[c] = "draining" /\ readers = {}
  /\ Goto(c, "locked")
  /\ UNCHANGED <<callVars, lockVars, closed, final, ownerVars, calls>>

\* Mutant: Record and Summary do not look at the closed flag.
CheckClosedNever(c) ==
  /\ pc[c] = "locked"
  /\ IF op[c] = "close" /\ closed
       THEN /\ Goto(c, "unlock")
            /\ ok' = [ok EXCEPT ![c] = TRUE] /\ seen' = [seen EXCEPT ![c] = final]
       ELSE Goto(c, "send") /\ UNCHANGED <<ok, seen>>
  /\ UNCHANGED <<op, lockVars, closed, final, ownerVars, calls>>

\* Under the lock: a closed aggregator refuses entries and shows its final
\* summary, an open one sends a command.
CheckClosed(c) ==
  /\ pc[c] = "locked"
  /\ IF closed
       THEN /\ Goto(c, "unlock")
            /\ ok' = [ok EXCEPT ![c] = op[c] \notin Entries]
            /\ seen' = [seen EXCEPT ![c] = IF op[c] \in Entries THEN Zero ELSE final]
       ELSE Goto(c, "send") /\ UNCHANGED <<ok, seen>>
  /\ UNCHANGED <<op, lockVars, closed, final, ownerVars, calls>>

\* The channel is unbuffered: the client and the owner meet.
Send(c) ==
  /\ pc[c] = "send" /\ owner = "receiving"
  /\ Goto(c, "wait")
  /\ owner' = "serving" /\ command' = c
  /\ UNCHANGED <<callVars, lockVars, closed, final, counts, calls>>

\* Mutant: Close publishes the flag and forgets the summary.
StoreFinalFlag(c) ==
  /\ pc[c] = "store"
  /\ closed' = TRUE /\ final' = final
  /\ Goto(c, "unlock")
  /\ UNCHANGED <<callVars, lockVars, ownerVars, calls>>

\* Close has its result.
StoreFinal(c) ==
  /\ pc[c] = "store"
  /\ final' = seen[c] /\ closed' = TRUE
  /\ Goto(c, "unlock")
  /\ UNCHANGED <<callVars, lockVars, ownerVars, calls>>

\* The deferred unlock, and the return.
RUnlock(c) ==
  /\ pc[c] = "unlock" /\ op[c] # "close"
  /\ readers' = readers \ {c} /\ Goto(c, "idle")
  /\ UNCHANGED <<callVars, writer, closed, final, ownerVars, calls>>

Parked == {c \in Clients : pc[c] = "parked"}

Unlock(c) ==
  /\ pc[c] = "unlock" /\ op[c] = "close"
  /\ writer' = Nobody /\ readers' = Parked
  /\ pc' = [d \in Clients |-> IF d = c THEN "idle" ELSE IF d \in Parked THEN "locked" ELSE pc[d]]
  /\ UNCHANGED <<callVars, closed, final, ownerVars, calls>>

-----------------------------------------------------------------------------
(***************************************************************************)
(* The owner goroutine.  A done channel is closed, a result is handed over *)
(* to the client that waits for it.                                        *)
(***************************************************************************)
\* Mutants: a drop counts as a start, or takes a start back.
AddDropStarted(entry) == [counts EXCEPT !.Scheduled = @ + 1, !.Started = @ + 1, !.by[entry] = @ + 1]
AddDropUnstarted(entry) == [counts EXCEPT !.Scheduled = @ + 1,
                                          !.Started = @ + (IF entry = "dropped" THEN -1 ELSE 1),
                                          !.by[entry] = @ + 1]

Add(entry) == [counts EXCEPT !.Scheduled = @ + 1,
                             !.Started = @ + (IF entry = "dropped" THEN 0 ELSE 1),
                             !.by[entry] = @ + 1]

\* record, or the two increments of a drop.
ServeEntry ==
  /\ owner = "serving" /\ op[command] \in Entries
  /\ counts' = Add(op[command])
  /\ Goto(command, "unlock") /\ ok' = [ok EXCEPT ![command] = TRUE]
  /\ owner' = "receiving" /\ command' = Nobody
  /\ UNCHANGED <<op, seen, lockVars, closed, final, calls>>

ServeSummary ==
  /\ owner = "serving" /\ op[command] = "summary"
  /\ seen' = [seen EXCEPT ![command] = counts] /\ ok' = [ok EXCEPT ![command] = TRUE]
  /\ Goto(command, "unlock")
  /\ owner' = "receiving" /\ command' = Nobody
  /\ UNCHANGED <<op, lockVars, closed, final, counts, calls>>

ServeClose ==
  /\ owner = "serving" /\ op[command] = "close"
  /\ seen' = [seen EXCEPT ![command] = counts] /\ ok' = [ok EXCEPT ![command] = TRUE]
  /\ Goto(command, "store")
  /\ owner' = "exited" /\ command' = Nobody
  /\ UNCHANGED <<op, lockVars, closed, final, counts, calls>>

Owner == ServeEntry \/ ServeSummary \/ ServeClose

Progress(c) == \/ RLock(c) \/ Lock(c) \/ Drained(c) \/ CheckClosed(c) \/ Send(c)
               \/ StoreFinal(c) \/ RUnlock(c) \/ Unlock(c)

Next == Owner \/ \E c \in Clients : Call(c) \/ Progress(c)

(***************************************************************************)
(* Fairness: a goroutine that can go on does.  The command channel and the *)
(* writers' mutex serve their waiters in turn, so one that can go on again *)
(* and again does; nobody is obliged to call.                              *)
(***************************************************************************)
Fairness == /\ WF_vars(Owner)
            /\ \A c \in Clients : WF_vars(Progress(c)) /\ SF_vars(Lock(c)) /\ SF_vars(Send(c))

Spec == Init /\ [][Next]_vars /\ Fairness

-----------------------------------------------------------------------------
Summaries == [Scheduled : Nat, Started : Nat, by : [Entries -> Nat]]

\* Every variable has its type.
TypeOK ==
  /\ pc \in [Clients -> {"idle", "rlock", "parked", "lock", "draining", "locked", "send",
                         "wait", "store", "unlock"}]
  /\ op \in [Clients -> Ops \cup {"none"}]
  /\ ok \in [Clients -> BOOLEAN]
  /\ seen \in [Clients -> Summaries]
  /\ readers \in SUBSET Clients
  /\ writer \in Clients \cup {Nobody}
  /\ closed \in BOOLEAN
  /\ final \in Summaries
  /\ owner \in {"receiving", "serving", "exited"}
  /\ command \in Clients \cup {Nobody}
  /\ counts \in Summaries
  /\ calls \in Nat

\* Nobody sends to an owner that has exited: every call that is past the
\* check finds the owner there, however calls and closes interleave.
NoSendAfterExit == \A c \in Clients : pc[c] \in {"send", "wait"} => owner # "exited"

\* A summary never shows half an entry, and adds up: what was scheduled was
\* dropped or started, and what was started ended in one outcome.
SummariesAddUp ==
  \A s \in {counts, final} \cup {seen[c] : c \in Clients} :
    /\ s.Scheduled = s.Started + s.by["dropped"]
    /\ s.Started = MapThenSumSet(LAMBDA e : s.by[e], Outcomes)

\* Every call returns, although other clients never stop calling.
CallsReturn == \A c \in Clients : pc[c] # "idle" ~> pc[c] = "idle"

-----------------------------------------------------------------------------
(***************************************************************************)
(* Refinement of Ledger.  A call takes effect when the owner serves it, or *)
(* when it finds the aggregator closed.                                    *)
(***************************************************************************)
Phase(c) == CASE pc[c] = "idle" -> "idle"
              [] pc[c] \in {"store", "unlock"} -> "replied"
              [] OTHER -> "invoked"

ledgerCall ==
  [c \in Clients |->
    [op    |-> IF pc[c] = "idle" THEN "none" ELSE op[c],
     phase |-> Phase(c),
     ok    |-> Phase(c) = "replied" /\ ok[c],
     seen  |-> IF Phase(c) = "replied" THEN seen[c].by ELSE Zero.by]]

L == INSTANCE Ledger WITH ledger <- counts.by, closed <- (owner = "exited"), call <- ledgerCall

\* The aggregator behaves like a ledger whose calls take effect one at a time.
ImplementsLedger == L!Spec

=============================================================================
