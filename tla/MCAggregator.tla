---------------------------- MODULE MCAggregator ----------------------------
(***************************************************************************)
(* Small instance of Aggregator for TLC.                                   *)
(***************************************************************************)
EXTENDS Aggregator

CONSTANTS c1, c2, c3
ThreeClients == {c1, c2, c3}
OneOutcome == {"success"}
=============================================================================
