------------------------------ MODULE Verdict -------------------------------
(***************************************************************************)
(* From the outcomes of a load run to the exit code: the checks on prices  *)
(* and SLOs in internal/config and internal/loadgen, the totals of         *)
(* internal/metrics, the gates of internal/slo, and the end of runRamp.    *)
(* Signals, errors of the load run and I/O are in Ramp.                    *)
(*                                                                         *)
(* A floating-point number of the configuration is an integer, NaN or Inf. *)
(***************************************************************************)
EXTENDS Integers, FiniteSets, Functions, FiniteSetsExt

CONSTANTS
  Observations,  \* what may become of a request
  Settings,      \* the slo sections a configuration may have
  Prices,        \* the prices it may have
  MaxOutcomes,   \* bound: outcomes of the load run
  Whole,         \* rate gates are in units of 1/Whole
  Bin,           \* width of a histogram's bin
  Percentile     \* 99

NaN == -1000
Inf == 1000
Unset == -2000
Unknown == -1  \* no usage reported, no chunk interval

Gates == {"p99_ttft_ms", "p99_chunk_itl_ms", "max_error_rate", "max_dropped_rate", "max_cost_usd"}
Failures == {"timeout", "stream_error", "http_error"}
Classes == {"success", "canceled", "dropped", "refused"} \cup Failures

ASSUME VerdictAssumption ==
  /\ Observations \subseteq [class : Classes, ttft : Nat, itl : Nat \cup {Unknown},
                             cost : Nat \cup {Unknown}]
  /\ IsFiniteSet(Observations)
  /\ Settings \subseteq [Gates -> Int] /\ Prices \subseteq Int
  /\ MaxOutcomes \in Nat /\ Whole \in Nat \ {0} /\ Bin \in Nat \ {0}
  /\ Percentile \in 50..99  \* one sample is its own percentile

VARIABLES
  slo, price,     \* the configuration
  pc,             \* where runRamp is
  counts,         \* the aggregator's counts
  ttft, chunkITL, \* its histograms: how many samples in which bin
  usageSamples, costUSD,
  processingErr,  \* whether Record has refused an outcome
  results, sloErr, \* what Evaluate returns
  code,           \* the exit code
  happened        \* history: how many outcomes of each kind there were

config == <<slo, price>>
totals == <<counts, ttft, chunkITL, usageSamples, costUSD, processingErr>>
verdict == <<results, sloErr, code>>
vars == <<config, pc, totals, verdict, happened>>

Less(x, y) == NaN \notin {x, y} /\ x < y
Proper(x) == ~(x = NaN \/ x = Inf \/ x < 0)   \* validPrice, finiteNonNegative

\* The end of the bin of a value: what the histogram reports for it.
Highest(v) == (v \div Bin) * Bin + Bin - 1
Bins == {Highest(v) : v \in {o.ttft : o \in Observations} \cup ({o.itl : o \in Observations} \ {Unknown})}

Init ==
  /\ slo \in Settings /\ price \in Prices
  /\ pc = "config"
  /\ counts = [class \in Classes \cup {"scheduled"} |-> 0]
  /\ ttft = [b \in Bins |-> 0] /\ chunkITL = [b \in Bins |-> 0]
  /\ usageSamples = 0 /\ costUSD = 0 /\ processingErr = FALSE
  /\ results = {} /\ sloErr = FALSE /\ code = 0
  /\ happened = [o \in Observations |-> 0]

Exit(exit) == code' = exit /\ pc' = "done"

-----------------------------------------------------------------------------
\* Mutant: a negative price is all that is refused.
PriceUnfit == Less(price, 0)

\* internal/loadgen: validate, before anything runs.
PriceRefused == ~Proper(price)

\* config.Validate compares, and NaN is not less than anything.
Validate ==
  /\ ~Less(price, 0)
  /\ \A g \in DOMAIN slo : slo[g] # Unset =>
       /\ ~Less(slo[g], 0)
       /\ g \in {"max_error_rate", "max_dropped_rate"} => ~Less(Whole, slo[g])

Configure ==
  /\ pc = "config"
  /\ IF Validate /\ ~PriceRefused
       THEN pc' = "aggregator" /\ UNCHANGED code
       ELSE Exit(2)
  /\ UNCHANGED <<config, totals, results, sloErr, happened>>

NewAggregator ==
  /\ pc = "aggregator"
  /\ IF Proper(price) THEN pc' = "outcomes" /\ UNCHANGED code ELSE Exit(3)
  /\ UNCHANGED <<config, totals, results, sloErr, happened>>

-----------------------------------------------------------------------------
Plus(histogram, value) ==
  IF value = Unknown THEN histogram ELSE [histogram EXCEPT ![Highest(value)] = @ + 1]

\* Mutant: a failed request's samples count.
RecordAlways(o) ==
  /\ counts' = [counts EXCEPT !["scheduled"] = @ + 1, ![o.class] = @ + 1]
  /\ ttft' = Plus(ttft, o.ttft)
  /\ chunkITL' = Plus(chunkITL, o.itl)
  /\ usageSamples' = usageSamples + (IF o.cost = Unknown THEN 0 ELSE 1)
  /\ costUSD' = costUSD + (IF o.cost = Unknown THEN 0 ELSE o.cost)

\* record, and RecordDropped: only a success has samples.
record(o) ==
  /\ counts' = [counts EXCEPT !["scheduled"] = @ + 1, ![o.class] = @ + 1]
  /\ IF o.class # "success"
       THEN UNCHANGED <<ttft, chunkITL, usageSamples, costUSD>>
       ELSE /\ ttft' = Plus(ttft, o.ttft)
            /\ chunkITL' = Plus(chunkITL, o.itl)
            /\ usageSamples' = usageSamples + (IF o.cost = Unknown THEN 0 ELSE 1)
            /\ costUSD' = costUSD + (IF o.cost = Unknown THEN 0 ELSE o.cost)

\* The loop over the outcomes; valuesFor refuses a success out of range.
Process ==
  /\ pc = "outcomes" /\ SumFunction(happened) < MaxOutcomes
  /\ \E o \in Observations :
       /\ happened' = [happened EXCEPT ![o] = @ + 1]
       /\ IF o.class = "refused"
            THEN processingErr' = TRUE
                 /\ UNCHANGED <<counts, ttft, chunkITL, usageSamples, costUSD>>
            ELSE record(o) /\ UNCHANGED processingErr
  /\ UNCHANGED <<config, pc, verdict>>

-----------------------------------------------------------------------------
Failed == SumFunctionOnSet(counts, Failures)
Complete == counts["success"] > 0 /\ usageSamples = counts["success"]

\* hdrhistogram: the bin up to which that part of the samples lies, rounded.
AtPercentile(histogram) ==
  Min({b \in Bins : SumFunctionOnSet(histogram, {c \in Bins : c <= b})
                      >= (Percentile * SumFunction(histogram) + 50) \div 100})

\* summary and sloSummary: a gate's observation num/den, and its samples.
Observed(g) ==
  CASE g = "p99_ttft_ms" -> [samples |-> SumFunction(ttft), den |-> 1,
                             num |-> IF SumFunction(ttft) = 0 THEN 0 ELSE AtPercentile(ttft)]
    [] g = "p99_chunk_itl_ms" -> [samples |-> SumFunction(chunkITL), den |-> 1,
                             num |-> IF SumFunction(chunkITL) = 0 THEN 0 ELSE AtPercentile(chunkITL)]
    [] g = "max_error_rate" -> [samples |-> counts["scheduled"], den |-> counts["scheduled"],
                             num |-> Failed * Whole]
    [] g = "max_dropped_rate" -> [samples |-> counts["scheduled"], den |-> counts["scheduled"],
                             num |-> counts["dropped"] * Whole]
    [] g = "max_cost_usd" -> [samples |-> usageSamples, den |-> 1, num |-> costUSD]

\* What makes Evaluate give up: no observation, incomplete usage, or a
\* threshold that ComparePercentile refuses.
Unevaluable(g) ==
  Observed(g).samples = 0 \/ (g = "max_cost_usd" /\ ~Complete) \/ ~Proper(slo[g])

Compare(g) == [metric |-> g, pass |-> Observed(g).num <= slo[g] * Observed(g).den]
Configured == {g \in Gates : slo[g] # Unset}

Evaluate ==
  /\ pc = "outcomes"
  /\ sloErr' = \E g \in Configured : Unevaluable(g)
  /\ results' = IF sloErr' THEN {} ELSE {Compare(g) : g \in Configured}
  /\ pc' = "verdict"
  /\ UNCHANGED <<config, totals, code, happened>>

\* The stub of an evaluator returns one empty result per gate.
evaluatorPending ==
  /\ ~sloErr /\ results # {} /\ Cardinality(results) = Cardinality(Configured)
  /\ \A r \in results : r.metric = ""

\* The end of runRamp, in its order.
RampExit ==
  CASE processingErr \/ sloErr \/ SumFunction(ttft) = 0 -> 3
    [] ~(processingErr \/ sloErr \/ SumFunction(ttft) = 0) ->
         IF ~evaluatorPending /\ \E r \in results : ~r.pass THEN 1 ELSE 0

Finish ==
  /\ pc = "verdict"
  /\ Exit(RampExit)
  /\ UNCHANGED <<config, totals, results, sloErr, happened>>

Done == pc = "done" /\ UNCHANGED vars

Next == Configure \/ NewAggregator \/ Process \/ Evaluate \/ Finish \/ Done

Spec == Init /\ [][Next]_vars

-----------------------------------------------------------------------------
(***************************************************************************)
(* The reference: what happened, in terms of the requests themselves.      *)
(***************************************************************************)
Times(S) == SumFunctionOnSet(happened, S)
Successes == {o \in Observations : o.class = "success"}
Charged == {o \in Observations : o.class \in Failures}
Drops == {o \in Observations : o.class = "dropped"}
Intervals == {o \in Successes : o.itl # Unknown}
NoUsage == {o \in Successes : o.cost = Unknown}
Cost == SumFunctionOnSet([o \in Observations |-> o.cost * happened[o]], Successes \ NoUsage)

\* Beyond the threshold is at most one sample in a hundred, rounded.
Few(beyond, all) == 100 * Times(beyond) < (100 - Percentile) * Times(all) + 50

\* The gate holds of the requests, each latency longer by up to slack.
Holds(g, slack) ==
  CASE g = "p99_ttft_ms" -> Few({o \in Successes : o.ttft + slack > slo[g]}, Successes)
    [] g = "p99_chunk_itl_ms" -> Few({o \in Intervals : o.itl + slack > slo[g]}, Intervals)
    [] g = "max_error_rate" -> Times(Charged) * Whole <= slo[g] * Times(Observations)
    [] g = "max_dropped_rate" -> Times(Drops) * Whole <= slo[g] * Times(Observations)
    [] g = "max_cost_usd" -> Times(NoUsage) = 0 /\ Cost <= slo[g]

\* Exit 0 means that every configured SLO passed, 1 that at least one failed
\* (README; whether a limit stopped the run is not looked at), measured on the
\* requests themselves: failures and drops over scheduled arrivals, samples of
\* successes only, a cost only with complete usage, a threshold that is a number.
\* A latency gate may fail on one within a bin of the histogram below its
\* threshold, and never passes.
VerdictEarned ==
  pc = "done" /\ code \in {0, 1} =>
    /\ Times(Successes) > 0 /\ Times({o \in Observations : o.class = "refused"}) = 0
    /\ \A g \in Configured : Proper(slo[g])
    /\ "max_cost_usd" \in Configured => Times(NoUsage) = 0
    /\ {r.metric : r \in results} = Configured
    /\ code = 0 => \A g \in Configured : Holds(g, 0)
    /\ code = 1 => \E g \in Configured : ~Holds(g, Bin - 1)

\* A run is called broken only if it is (README): with a success, nothing out
\* of range, numbers for thresholds, and an observation for every gate, there
\* is a verdict; and a configuration whose prices cost accounting refuses is
\* found before the load run, not when its outcomes are already there.
MeasuredIsJudged ==
  pc = "done" /\ code = 3 =>
    /\ Proper(price)
    /\ \/ Times(Successes) = 0
       \/ Times({o \in Observations : o.class = "refused"}) > 0
       \/ \E g \in Configured : ~Proper(slo[g])
       \/ "p99_chunk_itl_ms" \in Configured /\ Times(Intervals) = 0
       \/ "max_cost_usd" \in Configured /\ Times(NoUsage) > 0

=============================================================================
