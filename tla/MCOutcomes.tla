---------------------------- MODULE MCOutcomes -----------------------------
(***************************************************************************)
(* A small instance of Outcomes for TLC: every kind of event, up to three  *)
(* of them, and a total timeout beyond the histogram's maximum.            *)
(***************************************************************************)
EXTENDS Outcomes

AnyKind == EventKinds
=============================================================================
