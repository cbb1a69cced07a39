------------------------------ MODULE MCProbe ------------------------------
(***************************************************************************)
(* Small instances of Probe for TLC.                                       *)
(***************************************************************************)
EXTENDS Probe

AnyKind == EventKinds
=============================================================================
