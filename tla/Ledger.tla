------------------------------- MODULE Ledger -------------------------------
(***************************************************************************)
(* What internal/metrics.Aggregator promises its callers: each call takes  *)
(* effect at one moment between its invocation and its return.  A request  *)
(* or a drop is entered in the ledger or refused, a summary shows every    *)
(* entry made so far, and the first close freezes the ledger for good.     *)
(***************************************************************************)
EXTENDS Integers, FiniteSetsExt

CONSTANTS
  Clients,  \* callers of the aggregator
  Outcomes  \* outcomes a started request may be recorded with

Entries == Outcomes \cup {"dropped"}
Ops == Entries \cup {"summary", "close"}

VARIABLES
  ledger,  \* for each kind of entry, how many there are
  closed,  \* whether the ledger is frozen
  call     \* what each client is doing: its operation, phase and reply

ledgerVars == <<ledger, closed, call>>

Empty == [e \in Entries |-> 0]
Idle == [op |-> "none", phase |-> "idle", ok |-> FALSE, seen |-> Empty]

Init == /\ ledger = Empty
        /\ closed = FALSE
        /\ call = [c \in Clients |-> Idle]

Invoke(c, op) ==
  /\ call[c].phase = "idle"
  /\ call' = [call EXCEPT ![c] = [Idle EXCEPT !.op = op, !.phase = "invoked"]]
  /\ UNCHANGED <<ledger, closed>>

Reply(c, ok, seen) ==
  call' = [call EXCEPT ![c].phase = "replied", ![c].ok = ok, ![c].seen = seen]

Enter(c) ==
  /\ call[c].phase = "invoked" /\ call[c].op \in Entries
  /\ IF closed THEN ledger' = ledger
               ELSE ledger' = [ledger EXCEPT ![call[c].op] = @ + 1]
  /\ Reply(c, ~closed, Empty)
  /\ UNCHANGED closed

Show(c) ==
  /\ call[c].phase = "invoked" /\ call[c].op \in {"summary", "close"}
  /\ Reply(c, TRUE, ledger)
  /\ closed' = (closed \/ call[c].op = "close")
  /\ UNCHANGED ledger

Return(c) ==
  /\ call[c].phase = "replied"
  /\ call' = [call EXCEPT ![c] = Idle]
  /\ UNCHANGED <<ledger, closed>>

Next == \E c \in Clients : \/ \E op \in Ops : Invoke(c, op)
                           \/ Enter(c) \/ Show(c) \/ Return(c)

Spec == Init /\ [][Next]_ledgerVars

=============================================================================
