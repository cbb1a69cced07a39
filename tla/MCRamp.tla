------------------------------- MODULE MCRamp -------------------------------
(***************************************************************************)
(* A small instance of Ramp for TLC.                                       *)
(***************************************************************************)
EXTENDS Ramp
=============================================================================
