----------------------------- MODULE MCLoadGen -----------------------------
(***************************************************************************)
(* Small instances of LoadGen for TLC.                                     *)
(***************************************************************************)
EXTENDS LoadGen

\* Arrivals at 0, 1, 1, 2: two of them at once, as at a high rate.
BurstOffset == [i \in Arrivals |-> CASE i = 1 -> 0 [] i \in {2, 3} -> 1 [] OTHER -> 2]

\* A request within its reservation and one that breaches it.
MixedCosts == {1, 4}

\* Any cost reported is a breach.
BreachCosts == {4}

=============================================================================
