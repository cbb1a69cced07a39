----------------------------- MODULE MCVerdict ------------------------------
(***************************************************************************)
(* A small instance of Verdict for TLC.  A failed, canceled or dropped     *)
(* request carries samples that must not be counted; bins are two wide;    *)
(* with three samples a percentile of 60 differs from the maximum.         *)
(***************************************************************************)
EXTENDS Verdict

SomeObservations ==
  [class : {"success"}, ttft : {1, 4}, itl : {Unknown, 4}, cost : {Unknown, 1}]
  \cup [class : {"timeout", "http_error", "canceled", "dropped", "refused"}, ttft : {4},
        itl : {4}, cost : {2}]

SomeSettings ==
  {[g \in Gates |->
      CASE g = "p99_ttft_ms" -> t [] g = "p99_chunk_itl_ms" -> c [] g = "max_error_rate" -> e
        [] g = "max_dropped_rate" -> d [] g = "max_cost_usd" -> u] :
   t \in {Unset, 3, 4}, c \in {Unset, Inf, 5}, e \in {Unset, NaN, 1, 3}, d \in {Unset, 0, 1},
   u \in {Unset, 1}}

SomePrices == {1, NaN, Inf}
=============================================================================
