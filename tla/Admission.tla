----------------------------- MODULE Admission -----------------------------
(***************************************************************************)
(* What internal/loadgen promises, whatever goroutines and channels it is  *)
(* made of: an open-loop generator decides about each scheduled arrival in *)
(* turn, without queueing it, and never exceeds its limits on concurrency, *)
(* requests and reserved cost.                                             *)
(***************************************************************************)
EXTENDS Integers, FiniteSets

CONSTANTS
  N,            \* arrivals of the schedule
  MaxInFlight,  \* admitted and unsettled requests at any moment
  MaxRequests,  \* admitted requests that are not given back as dropped
  MaxCostUSD,   \* budget for known costs and reservations
  Reserve,      \* what an admitted request reserves
  Costs         \* what a request may turn out to cost

Arrivals == 1..N
Unknown == -1

VARIABLES
  request,   \* what has been decided about each arrival, and what became of it
  held,      \* reservations and known costs
  breached   \* whether a request has cost more than its reservation

vars == <<request, held, breached>>

In(states) == {i \in Arrivals : request[i] \in states}
Active == In({"admitted", "sent"})
Counted == In({"admitted", "sent", "finished"})

Init ==
  /\ request = [i \in Arrivals |-> "pending"]
  /\ held = 0
  /\ breached = FALSE

\* The decision about i is taken when those about all later arrivals are open.
Turn(i) == \A j \in Arrivals : j >= i => request[j] = "pending"

Admit(i) ==
  /\ Turn(i)
  /\ ~breached
  /\ Cardinality(Active) < MaxInFlight
  /\ Cardinality(Counted) < MaxRequests
  /\ held + Reserve <= MaxCostUSD
  /\ request' = [request EXCEPT ![i] = "admitted"]
  /\ held' = held + Reserve
  /\ UNCHANGED breached

Refuse(i) ==
  /\ Turn(i)
  /\ request' = [request EXCEPT ![i] = "dropped"]
  /\ UNCHANGED <<held, breached>>

\* The request reaches the network.
Send(i) ==
  /\ request[i] = "admitted"
  /\ request' = [request EXCEPT ![i] = "sent"]
  /\ UNCHANGED <<held, breached>>

\* An admitted request that has missed its time gives everything back, if it
\* has not been sent.
GiveBack(i) ==
  /\ request[i] = "admitted"
  /\ request' = [request EXCEPT ![i] = "dropped"]
  /\ held' = held - Reserve
  /\ UNCHANGED breached

\* Any other admitted request ends.  Only one that was sent has a known cost.
Finish(i) ==
  /\ request[i] \in {"admitted", "sent"}
  /\ request' = [request EXCEPT ![i] = "finished"]
  /\ \/ UNCHANGED <<held, breached>>
     \/ /\ request[i] = "sent"
        /\ \E cost \in Costs : /\ held' = held + cost - Reserve
                               /\ breached' = (breached \/ cost > Reserve)

Settle(i) == GiveBack(i) \/ Finish(i)
Next == \E i \in Arrivals : Admit(i) \/ Refuse(i) \/ Send(i) \/ Settle(i)

\* Every admitted request is settled, whether or not there is another arrival.
Fairness == \A i \in Arrivals : WF_vars(Settle(i))

SafeSpec == Init /\ [][Next]_vars
Spec == SafeSpec /\ Fairness
=============================================================================
