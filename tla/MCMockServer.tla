---------------------------- MODULE MCMockServer ----------------------------
(***************************************************************************)
(* A small instance of MockServer for TLC: two contents, every second      *)
(* request with a fault, a stall as long as the idle timeout.              *)
(***************************************************************************)
EXTENDS MockServer

ScriptKinds == {"other", "content", "usage", "malformed", "done"}
=============================================================================
