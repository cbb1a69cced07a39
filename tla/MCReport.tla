------------------------------ MODULE MCReport ------------------------------
(***************************************************************************)
(* A small instance of Report for TLC: the strip is thinned out twice.     *)
(***************************************************************************)
EXTENDS Report
=============================================================================
