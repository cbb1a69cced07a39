---------------------------- MODULE MCSSEDecoder ----------------------------
(***************************************************************************)
(* A small instance of SSEDecoder for TLC.                                 *)
(***************************************************************************)
EXTENDS SSEDecoder
=============================================================================
