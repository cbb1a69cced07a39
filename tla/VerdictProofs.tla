---------------------------- MODULE VerdictProofs ----------------------------
(***************************************************************************)
(* Proofs about Verdict.  The totals of the aggregator are sums over what  *)
(* happened, which each outcome changes at one place.  What is left is     *)
(* what a percentile of binned samples says of the samples themselves.     *)
(***************************************************************************)
EXTENDS Verdict, SumTheorems

\* The end of a value's bin is in the bin.
LEMMA HighestBounds ==
  ASSUME NEW v \in Nat
  PROVE  Highest(v) \in Nat /\ v <= Highest(v) /\ Highest(v) <= v + Bin - 1
<1> DEFINE q == v \div Bin
<1>1. Bin \in Nat \ {0}
  BY VerdictAssumption
<1>2. v = Bin * q + (v % Bin) /\ q \in Int /\ v % Bin \in 0..Bin - 1
  BY <1>1
<1>3. Highest(v) = Bin * q + Bin - 1
  BY <1>1, <1>2 DEF Highest
<1> HIDE DEF q
<1>4. PICK r \in Int : r = Bin * q
  BY <1>1, <1>2
<1> QED
  BY <1>1, <1>2, <1>3, <1>4

LEMMA ObservationsOK ==
  /\ IsFiniteSet(Observations)
  /\ \A o \in Observations :
       /\ o.class \in Classes /\ o.ttft \in Nat
       /\ o.itl \in Nat \cup {Unknown} /\ o.cost \in Nat \cup {Unknown}
  /\ \A S \in SUBSET Observations : IsFiniteSet(S)
BY VerdictAssumption, FS_Subset

LEMMA ImageFinite ==
  ASSUME NEW S, IsFiniteSet(S), NEW f, f = [x \in S |-> f[x]]
  PROVE  IsFiniteSet({f[x] : x \in S})
<1> DEFINE T == {f[x] : x \in S}
<1>1. f \in Surjection(S, T)
  BY DEF Surjection
<1> QED
  BY <1>1, FS_Surjection

LEMMA BinsOK ==
  /\ IsFiniteSet(Bins) /\ Bins \subseteq Nat
  /\ \A o \in Observations : Highest(o.ttft) \in Bins
  /\ \A o \in Observations : o.itl # Unknown => Highest(o.itl) \in Bins
<1> DEFINE values == {o.ttft : o \in Observations} \cup ({o.itl : o \in Observations} \ {Unknown})
<1>1. values \subseteq Nat
  BY ObservationsOK
<1>2. IsFiniteSet({o.ttft : o \in Observations})
  <2> DEFINE f == [o \in Observations |-> o.ttft]
  <2>1. /\ {f[o] : o \in Observations} = {o.ttft : o \in Observations}
        /\ f = [o \in Observations |-> f[o]]
    OBVIOUS
  <2> HIDE DEF f
  <2> QED
    BY <2>1, ImageFinite, ObservationsOK
<1>3. IsFiniteSet({o.itl : o \in Observations})
  <2> DEFINE f == [o \in Observations |-> o.itl]
  <2>1. /\ {f[o] : o \in Observations} = {o.itl : o \in Observations}
        /\ f = [o \in Observations |-> f[o]]
    OBVIOUS
  <2> HIDE DEF f
  <2> QED
    BY <2>1, ImageFinite, ObservationsOK
<1>4. IsFiniteSet(values)
  BY <1>2, <1>3, FS_Union, FS_Subset
<1>5. Bins = {Highest(v) : v \in values}
  BY DEF Bins
<1> DEFINE f == [v \in values |-> Highest(v)]
<1>6. {f[v] : v \in values} = {Highest(v) : v \in values} /\ f = [v \in values |-> f[v]]
  OBVIOUS
<1>7. IsFiniteSet(Bins)
  <2> HIDE DEF f, values
  <2> QED
    BY <1>4, <1>5, <1>6, ImageFinite
<1>8. Bins \subseteq Nat
  BY <1>1, <1>5, HighestBounds
<1>9. \A o \in Observations : o.ttft \in values /\ (o.itl # Unknown => o.itl \in values)
  OBVIOUS
<1> HIDE DEF values
<1> QED
  BY <1>5, <1>7, <1>8, <1>9

\* In a finite set, an order leads somewhere.
LEMMA Maximal ==
  ASSUME NEW S, IsFiniteSet(S), S # {}, NEW R,
         \A x \in S : <<x, x>> \notin R,
         \A x, y, z \in S : <<x, y>> \in R /\ <<y, z>> \in R => <<x, z>> \in R
  PROVE  \E x \in S : \A y \in S : <<x, y>> \notin R
<1> PICK T : T = {{y \in S : <<x, y>> \in R} : x \in S}
  OBVIOUS
<1>0. T # {}
  <2> PICK x : x \in S
    OBVIOUS
  <2>1. {y \in S : <<x, y>> \in R} \in T
    OBVIOUS
  <2> QED
    BY <2>1
<1>1. T \subseteq SUBSET S
  <2> SUFFICES ASSUME NEW X \in T PROVE X \subseteq S
    OBVIOUS
  <2>1. PICK x \in S : X = {y \in S : <<x, y>> \in R}
    OBVIOUS
  <2> QED
    BY <2>1
<1>2. PICK M \in T : \A X \in T : X \subseteq M => X = M
  BY ONLY IsFiniteSet(S), <1>0, <1>1, Smallest
<1>3. PICK x \in S : M = {y \in S : <<x, y>> \in R}
  OBVIOUS
<1>4. ASSUME NEW y \in S, <<x, y>> \in R PROVE FALSE
  <2> DEFINE X == {z \in S : <<y, z>> \in R}
  <2>1. X \in T
    OBVIOUS
  <2>2. X \subseteq M
    <3>1. \A z \in S : <<y, z>> \in R => <<x, z>> \in R
      BY <1>4
    <3> QED
      BY <1>3, <3>1
  <2>3. y \in M /\ y \notin X
    BY <1>3, <1>4
  <2> HIDE DEF X
  <2> QED
    BY <1>2, <2>1, <2>2, <2>3
<1> QED
  BY <1>4

\* A finite set of numbers has a smallest and a largest.
LEMMA Extremes ==
  ASSUME NEW S, S \subseteq Int, IsFiniteSet(S), S # {}
  PROVE  /\ \E x \in S : \A y \in S : x <= y
         /\ \E x \in S : \A y \in S : y <= x
<1>1. \E x \in S : \A y \in S : y <= x
  <2> DEFINE R == {p \in S \X S : p[1] < p[2]}
  <2>1. \A x, y \in S : <<x, y>> \in R <=> x < y
    OBVIOUS
  <2>2. \A x \in S : <<x, x>> \notin R
    BY <2>1
  <2>3. \A x, y, z \in S : <<x, y>> \in R /\ <<y, z>> \in R => <<x, z>> \in R
    BY <2>1
  <2> HIDE DEF R
  <2>4. PICK x \in S : \A y \in S : <<x, y>> \notin R
    BY ONLY IsFiniteSet(S), S # {}, <2>2, <2>3, Maximal
  <2>5. \A y \in S : ~(x < y)
    BY <2>1, <2>4
  <2>6. \A y \in S : y \in Int /\ x \in Int
    OBVIOUS
  <2> HIDE DEF R
  <2> QED
    BY ONLY <2>5, <2>6, x \in S
<1>2. \E x \in S : \A y \in S : x <= y
  <2> DEFINE R == {p \in S \X S : p[2] < p[1]}
  <2>1. \A x, y \in S : <<x, y>> \in R <=> y < x
    OBVIOUS
  <2>2. \A x \in S : <<x, x>> \notin R
    BY <2>1
  <2>3. \A x, y, z \in S : <<x, y>> \in R /\ <<y, z>> \in R => <<x, z>> \in R
    BY <2>1
  <2> HIDE DEF R
  <2>4. PICK x \in S : \A y \in S : <<x, y>> \notin R
    BY ONLY IsFiniteSet(S), S # {}, <2>2, <2>3, Maximal
  <2>5. \A y \in S : ~(y < x)
    BY <2>1, <2>4
  <2>6. \A y \in S : y \in Int /\ x \in Int
    OBVIOUS
  <2> HIDE DEF R
  <2> QED
    BY ONLY <2>5, <2>6, x \in S
<1> QED
  BY <1>1, <1>2

\* Rounding: what the percentile asks for, out of n samples.
LEMMA Rounding ==
  ASSUME NEW n \in Nat \ {0}
  PROVE  LET q == (Percentile * n + 50) \div 100 IN
         /\ q \in 1..n
         /\ 100 * (n - q) < (100 - Percentile) * n + 50
         /\ 100 * (n - q + 1) >= (100 - Percentile) * n + 50
<1>1. Percentile \in 50..99
  BY VerdictAssumption
<1>2. PICK m \in Int : m = Percentile * n
  BY <1>1
<1>3. 50 * n <= m /\ m <= 99 * n
  BY <1>1, <1>2
<1>4. (100 - Percentile) * n = 100 * n - m
  BY <1>1, <1>2
<1> DEFINE q == (m + 50) \div 100
<1>5. q \in Int /\ 100 * q <= m + 50 /\ m + 50 < 100 * q + 100
  OBVIOUS
<1> HIDE DEF q
<1>6. /\ q \in 1..n
      /\ 100 * (n - q) < 100 * n - m + 50
      /\ 100 * (n - q + 1) >= 100 * n - m + 50
  BY <1>3, <1>5
<1> QED
  BY <1>2, <1>4, <1>6 DEF q

\* The histogram h holds the values v of the samples w.
Matches(h, w, all, v) ==
  /\ \A b \in Bins : Sum(h, {c \in Bins : c <= b}) = Sum(w, {o \in all : Highest(v[o]) <= b})
  /\ Sum(h, Bins) = Sum(w, all)

\* They are w[o] samples of each o, and what they and the bins hold are numbers.
Samples(h, w, all, v) ==
  /\ all \subseteq Observations
  /\ \A o \in all : w[o] \in Nat /\ v[o] \in Nat /\ Highest(v[o]) \in Bins
  /\ h \in [Bins -> Nat]

Beyond(all, v, x) == {o \in all : v[o] > x}

\* What the percentile of a histogram says of samples v[o], w[o] of each: if it
\* is at most x then few of them are beyond x, and if it is more then not few
\* are, give or take a bin.
LEMMA PercentileSays ==
  ASSUME NEW h, NEW w, NEW all, NEW v, Samples(h, w, all, v), Matches(h, w, all, v),
         Sum(w, all) # 0, NEW x, x \in Int
  PROVE  /\ AtPercentile(h) \in Int
         /\ AtPercentile(h) <= x =>
              100 * Sum(w, Beyond(all, v, x)) < (100 - Percentile) * Sum(w, all) + 50
         /\ AtPercentile(h) > x =>
              100 * Sum(w, Beyond(all, v, x - (Bin - 1))) >= (100 - Percentile) * Sum(w, all) + 50
<1> PICK n : n = Sum(w, all)
  OBVIOUS
<1>0. /\ all \in SUBSET Observations
      /\ \A o \in all : w[o] \in Nat /\ v[o] \in Nat /\ Highest(v[o]) \in Bins
      /\ h \in [Bins -> Nat]
      /\ \A b \in Bins : Sum(h, {c \in Bins : c <= b}) = Sum(w, {o \in all : Highest(v[o]) <= b})
      /\ Sum(h, Bins) = Sum(w, all)
  BY DEF Samples, Matches
<1> USE <1>0
<1> DEFINE q == (Percentile * n + 50) \div 100
           Upto(b) == {o \in all : Highest(v[o]) <= b}
           Over(b) == {o \in all : ~(Highest(v[o]) <= b)}
           enough == {b \in Bins : Sum(h, {c \in Bins : c <= b}) >= q}
<1>1. IsFiniteSet(all) /\ \A S \in SUBSET all : IsFiniteSet(S) /\ Sum(w, S) \in Nat
  <2>1. \A S \in SUBSET all : IsFiniteSet(S)
    BY ObservationsOK
  <2> QED
    BY <2>1, SumNat
<1>2. n \in Nat \ {0}
  BY <1>1
<1>3. /\ q \in 1..n
      /\ 100 * (n - q) < (100 - Percentile) * n + 50
      /\ 100 * (n - q + 1) >= (100 - Percentile) * n + 50
  BY <1>2, Rounding
<1>4. all # {}
  BY <1>2, SumEmpty
<1>5. Bins \subseteq Int /\ IsFiniteSet(Bins) /\ Bins # {}
  BY <1>4, BinsOK
<1>6. \A b \in Int : n = Sum(w, Upto(b)) + Sum(w, Over(b))
  <2> TAKE b \in Int
  <2>1. IsFiniteSet(all) /\ \A o \in all : w[o] \in Int
    BY <1>1
  <2> PICK P : P = Upto(b)
    OBVIOUS
  <2>2. all \cap P = Upto(b) /\ all \ P = Over(b)
    OBVIOUS
  <2>3. Sum(w, all) = Sum(w, all \cap P) + Sum(w, all \ P)
    BY ONLY <2>1, SumSplit
  <2> QED
    BY <2>2, <2>3
<1>7. enough # {}
  <2>1. PICK b \in Bins : \A c \in Bins : c <= b
    BY <1>5, Extremes
  <2>2. {c \in Bins : c <= b} = Bins
    BY <2>1
  <2>3. Sum(h, {c \in Bins : c <= b}) = n
    BY <2>2
  <2> QED
    BY <1>2, <1>3, <2>3
<1> PICK at : at = AtPercentile(h)
  OBVIOUS
<1>8. at \in enough /\ \A b \in enough : at <= b
  <2>1. enough \subseteq Int /\ IsFiniteSet(enough)
    BY <1>5, FS_Subset
  <2>2. \E b \in enough : \A c \in enough : b <= c
    <3> HIDE DEF enough
    <3> QED
      BY <1>7, <2>1, Extremes
  <2>3. at = Min(enough)
    <3>1. SumFunction(h) = n
      BY SumIs
    <3>2. \A b \in Bins : SumFunctionOnSet(h, {c \in Bins : c <= b}) = Sum(h, {c \in Bins : c <= b})
      BY SumIs
    <3> QED
      BY <3>1, <3>2 DEF AtPercentile
  <2> HIDE DEF enough
  <2>4. Min(enough) \in enough /\ \A b \in enough : Min(enough) <= b
    BY ONLY <2>2, Zenon DEF Min
  <2> QED
    BY ONLY <2>3, <2>4
<1>9. at \in Bins /\ at \in Int /\ Sum(w, Upto(at)) >= q
  BY <1>5, <1>8
<1>10. \A o \in all : v[o] \in Nat /\ Highest(v[o]) \in Nat /\ v[o] <= Highest(v[o]) /\ Highest(v[o]) <= v[o] + (Bin - 1)
  BY HighestBounds, VerdictAssumption
<1>11. ASSUME at <= x PROVE 100 * Sum(w, Beyond(all, v, x)) < (100 - Percentile) * n + 50
  <2> DEFINE beyond == Beyond(all, v, x)
  <2>1. beyond \subseteq Over(at)
    BY <1>9, <1>10, <1>11 DEF Beyond
  <2>2. Sum(w, beyond) <= Sum(w, Over(at))
    BY <1>1, <2>1, SumPart DEF Beyond
  <2>3. n = Sum(w, Upto(at)) + Sum(w, Over(at))
    BY <1>6, <1>9
  <2>4. Sum(w, beyond) \in Nat /\ Sum(w, Over(at)) \in Nat /\ Sum(w, Upto(at)) \in Nat
    BY <1>1 DEF Beyond
  <2>5. (100 - Percentile) * n + 50 \in Int /\ q \in Int
    BY <1>2, <1>3, VerdictAssumption
  <2> HIDE DEF beyond, Upto, Over, q
  <2> PICK z : z = (100 - Percentile) * n + 50
    OBVIOUS
  <2>6. z \in Int /\ 100 * (n - q) < z
    BY <1>3, <2>5
  <2>7. 100 * Sum(w, beyond) < z
    BY <1>2, <1>9, <2>2, <2>3, <2>4, <2>5, <2>6
  <2> QED
    BY <2>7 DEF beyond
<1>12. ASSUME at > x
       PROVE  100 * Sum(w, Beyond(all, v, x - (Bin - 1))) >= (100 - Percentile) * n + 50
  <2> DEFINE beyond == Beyond(all, v, x - (Bin - 1))
  <2>1. Over(x) \subseteq beyond
    BY <1>10, VerdictAssumption DEF Beyond
  <2>2. Sum(w, Over(x)) <= Sum(w, beyond)
    BY <1>1, <2>1, SumPart DEF Beyond
  <2>3. n = Sum(w, Upto(x)) + Sum(w, Over(x))
    BY <1>6
  <2>4. Sum(w, beyond) \in Nat /\ Sum(w, Over(x)) \in Nat /\ Sum(w, Upto(x)) \in Nat
    BY <1>1 DEF Beyond
  <2>5. (100 - Percentile) * n + 50 \in Int /\ q \in Int
    BY <1>2, <1>3, VerdictAssumption
  <2>6. Sum(w, Upto(x)) < q
    <3>1. CASE {b \in Bins : b <= x} = {}
      <4>1. Upto(x) = {}
        BY <1>10, <3>1
      <4>2. Sum(w, Upto(x)) = 0
        BY ONLY <4>1, SumEmpty
      <4> QED
        BY <1>3, <4>2
    <3>2. CASE {b \in Bins : b <= x} # {}
      <4> PICK low : low = {b \in Bins : b <= x}
        OBVIOUS
      <4>1. low \subseteq Int /\ IsFiniteSet(low) /\ low # {}
        BY <1>5, <3>2, FS_Subset
      <4>2. PICK b \in low : \A c \in low : c <= b
        BY <4>1, Extremes
      <4>3. b \in Bins /\ b \in Int /\ b <= x
        BY <4>1, <4>2
      <4>4. b \notin enough
        BY <1>8, <1>9, <1>12, <4>3
      <4>5. Sum(w, Upto(b)) < q
        <5>1. Sum(h, {c \in Bins : c <= b}) = Sum(w, Upto(b)) /\ Sum(w, Upto(b)) \in Nat
          BY <1>1, <4>3
        <5> QED
          BY <1>3, <4>3, <4>4, <5>1
      <4>6. Upto(x) = Upto(b)
        <5>1. \A o \in all : Highest(v[o]) \in Bins /\ Highest(v[o]) \in Int
          BY <1>10
        <5>2. \A o \in all : Highest(v[o]) <= x <=> Highest(v[o]) <= b
          BY <4>2, <4>3, <5>1
        <5> QED
          BY <5>2
      <4> QED
        BY <4>5, <4>6
    <3> QED
      BY <3>1, <3>2
  <2> HIDE DEF beyond, Upto, Over, q
  <2> PICK z : z = (100 - Percentile) * n + 50
    OBVIOUS
  <2>7. z \in Int /\ 100 * (n - q + 1) >= z
    BY <1>3, <2>5
  <2>8. 100 * Sum(w, beyond) >= z
    BY <1>2, <2>2, <2>3, <2>4, <2>5, <2>6, <2>7
  <2> QED
    BY <2>8 DEF beyond
<1> QED
  BY <1>9, <1>11, <1>12

-----------------------------------------------------------------------------
(***************************************************************************)
(* The totals are sums over what happened.                                 *)
(***************************************************************************)
Accepted == {o \in Observations : o.class # "refused"}
Refused == {o \in Observations : o.class = "refused"}
TTFTOf == [o \in Observations |-> o.ttft]
ITLOf == [o \in Observations |-> o.itl]
CostOf(w) == [o \in Observations |-> o.cost * w[o]]
Bills == Successes \ NoUsage

CountsMatch ==
  /\ counts["success"] = Sum(happened, Successes)
  /\ counts["dropped"] = Sum(happened, Drops)
  /\ counts["scheduled"] = Sum(happened, Accepted)
  /\ Sum(counts, Failures) = Sum(happened, Charged)

Shapes ==
  /\ happened \in [Observations -> Nat]
  /\ counts \in [Classes \cup {"scheduled"} -> Nat]
  /\ ttft \in [Bins -> Nat] /\ chunkITL \in [Bins -> Nat]

TotalsInv ==
  /\ Shapes
  /\ CountsMatch
  /\ Matches(ttft, happened, Successes, TTFTOf)
  /\ Matches(chunkITL, happened, Intervals, ITLOf)
  /\ usageSamples = Sum(happened, Bills)
  /\ costUSD = Sum(CostOf(happened), Bills)
  /\ processingErr = (Sum(happened, Refused) # 0)

\* From f to g one more has been counted at e.
OneMore(f, g, S, e) ==
  \A x \in S : f[x] \in Nat /\ g[x] = f[x] + (IF x = e THEN 1 ELSE 0)

LEMMA Increment ==
  ASSUME NEW S, IsFiniteSet(S), NEW f, NEW g, NEW e, OneMore(f, g, S, e)
  PROVE  \A P \in SUBSET S :
           Sum(f, P) \in Nat /\ Sum(g, P) = Sum(f, P) + (IF e \in P THEN 1 ELSE 0)
<1> TAKE P \in SUBSET S
<1>1. IsFiniteSet(P)
  BY FS_Subset
<1>2. Sum(f, P) \in Nat
  <2>1. \A x \in P : f[x] \in Nat
    BY DEF OneMore
  <2> QED
    BY ONLY <1>1, <2>1, SumNat
<1>3. Sum(g, P) = Sum(f, P) + (IF e \in P THEN 1 ELSE 0)
  <2>1. \A x \in P : f[x] \in Int
    BY DEF OneMore
  <2>2. \A x \in P : g[x] = f[x] + (IF x = e THEN 1 ELSE 0)
    BY DEF OneMore
  <2>3. 1 \in Int
    OBVIOUS
  <2> QED
    BY ONLY <1>1, <2>1, <2>2, <2>3, SumChange
<1> QED
  BY <1>2, <1>3

LEMMA SampleAdded ==
  ASSUME NEW w, NEW o, NEW w2, OneMore(w, w2, Observations, o),
         NEW all, all \subseteq Observations, NEW v, \A p \in all : Highest(v[p]) \in Bins,
         NEW h, \A b \in Bins : h[b] \in Nat, Matches(h, w, all, v), NEW h2,
         \A b \in Bins : h2[b] = h[b] + (IF o \in all /\ b = Highest(v[o]) THEN 1 ELSE 0)
  PROVE  Matches(h2, w2, all, v)
<1> PICK e : e = Highest(v[o])
  OBVIOUS
<1>1. \A P \in SUBSET Observations :
        Sum(w, P) \in Nat /\ Sum(w2, P) = Sum(w, P) + (IF o \in P THEN 1 ELSE 0)
  <2>1. OneMore(w, w2, Observations, o)
    OBVIOUS
  <2>2. IsFiniteSet(Observations)
    BY ObservationsOK
  <2> QED
    BY ONLY <2>1, <2>2, Increment
<1>2. \A P \in SUBSET Bins : Sum(h2, P) = Sum(h, P) + (IF o \in all /\ e \in P THEN 1 ELSE 0)
  <2>1. IsFiniteSet(Bins)
    BY BinsOK
  <2>2. \A b \in Bins : h[b] \in Nat
    OBVIOUS
  <2>3. CASE o \in all
    <3>1. OneMore(h, h2, Bins, e)
      BY <2>2, <2>3 DEF OneMore
    <3>2. \A P \in SUBSET Bins : Sum(h2, P) = Sum(h, P) + (IF e \in P THEN 1 ELSE 0)
      BY ONLY <2>1, <3>1, Increment
    <3> QED
      BY ONLY <2>3, <3>2
  <2>4. CASE o \notin all
    <3> TAKE P \in SUBSET Bins
    <3>1. IsFiniteSet(P)
      BY <2>1, FS_Subset
    <3>2. \A b \in P : h[b] \in Int /\ h2[b] = h[b]
      BY <2>2, <2>4
    <3>3. Sum(h2, P) = Sum(h, P) /\ Sum(h, P) \in Int
      <4>1. \A b \in P : h[b] \in Int
        BY <3>2
      <4> QED
        BY ONLY <3>1, <3>2, <4>1, SumSame, SumInt
    <3> QED
      BY ONLY <2>4, <3>3
  <2> QED
    BY <2>3, <2>4
<1>3. ASSUME NEW b \in Bins
      PROVE  Sum(h2, {c \in Bins : c <= b}) = Sum(w2, {p \in all : Highest(v[p]) <= b})
  <2> PICK P, Q : P = {c \in Bins : c <= b} /\ Q = {p \in all : Highest(v[p]) <= b}
    OBVIOUS
  <2>1. P \in SUBSET Bins /\ Q \in SUBSET Observations
    OBVIOUS
  <2>2. (o \in all /\ e \in P) <=> o \in Q
    OBVIOUS
  <2>3. Sum(h, P) = Sum(w, Q)
    BY DEF Matches
  <2>4. Sum(h2, P) = Sum(h, P) + (IF o \in all /\ e \in P THEN 1 ELSE 0)
    BY ONLY <1>2, <2>1
  <2>5. Sum(w2, Q) = Sum(w, Q) + (IF o \in Q THEN 1 ELSE 0)
    BY ONLY <1>1, <2>1
  <2>6. Sum(h2, P) = Sum(w2, Q)
    BY ONLY <2>2, <2>3, <2>4, <2>5
  <2> QED
    BY <2>6
<1>4. Sum(h2, Bins) = Sum(w2, all)
  <2>1. (o \in all /\ e \in Bins) <=> o \in all
    OBVIOUS
  <2>2. Sum(h, Bins) = Sum(w, all)
    BY DEF Matches
  <2>3. all \in SUBSET Observations /\ Bins \in SUBSET Bins
    OBVIOUS
  <2> QED
    BY ONLY <1>1, <1>2, <2>1, <2>2, <2>3
<1> QED
  BY <1>3, <1>4 DEF Matches

LEMMA FailuresFinite == IsFiniteSet(Failures)
<1>1. Failures = ({"timeout"} \cup {"stream_error"}) \cup {"http_error"}
  BY DEF Failures
<1> QED
  BY <1>1, FS_Singleton, FS_Union

LEMMA PartsOfWhatHappened ==
  ASSUME Shapes, NEW o \in Observations, happened' = [happened EXCEPT ![o] = @ + 1]
  PROVE  /\ happened' \in [Observations -> Nat]
         /\ \A P \in SUBSET Observations :
              Sum(happened', P) = Sum(happened, P) + (IF o \in P THEN 1 ELSE 0)
         /\ \A P \in SUBSET Observations : Sum(happened, P) \in Nat
<1>1. IsFiniteSet(Observations)
  BY ObservationsOK
<1>2. happened \in [Observations -> Nat]
  BY DEF Shapes
<1> PICK w, w2 : w = happened /\ w2 = happened'
  OBVIOUS
<1>3. OneMore(w, w2, Observations, o)
  BY <1>2 DEF OneMore
<1>5. \A P \in SUBSET Observations :
        Sum(w, P) \in Nat /\ Sum(w2, P) = Sum(w, P) + (IF o \in P THEN 1 ELSE 0)
  BY ONLY <1>1, <1>3, Increment
<1>6. happened' \in [Observations -> Nat]
  BY <1>2
<1>7. /\ \A P \in SUBSET Observations :
           Sum(happened', P) = Sum(happened, P) + (IF o \in P THEN 1 ELSE 0)
      /\ \A P \in SUBSET Observations : Sum(happened, P) \in Nat
  BY ONLY <1>5, w = happened, w2 = happened'
<1> QED
  BY ONLY <1>6, <1>7

LEMMA CountsStep ==
  ASSUME Shapes, CountsMatch, NEW o \in Observations, o.class # "refused",
         happened' = [happened EXCEPT ![o] = @ + 1],
         counts' = [counts EXCEPT !["scheduled"] = @ + 1, ![o.class] = @ + 1]
  PROVE  counts' \in [Classes \cup {"scheduled"} -> Nat] /\ CountsMatch'
<1> PICK k : k = o.class
  OBVIOUS
<1>1. k \in Classes /\ k # "refused" /\ k # "scheduled"
  BY ObservationsOK DEF Classes, Failures
<1>2. \A P \in SUBSET Observations :
        Sum(happened', P) = Sum(happened, P) + (IF o \in P THEN 1 ELSE 0)
  BY PartsOfWhatHappened
<1>3. counts \in [Classes \cup {"scheduled"} -> Nat]
  BY DEF Shapes
<1>4. counts' = [counts EXCEPT !["scheduled"] = @ + 1, ![k] = @ + 1]
  OBVIOUS
<1>5. counts' \in [Classes \cup {"scheduled"} -> Nat]
  BY <1>1, <1>3, <1>4
<1>6. /\ counts'["scheduled"] = counts["scheduled"] + 1
      /\ \A c \in Classes : counts'[c] = counts[c] + (IF c = k THEN 1 ELSE 0)
  BY <1>1, <1>3, <1>4 DEF Classes, Failures
<1>7. /\ "success" \in Classes /\ "dropped" \in Classes /\ Failures \subseteq Classes
      /\ o \in Successes <=> k = "success"
      /\ o \in Drops <=> k = "dropped"
      /\ o \in Charged <=> k \in Failures
      /\ o \in Accepted
  BY <1>1 DEF Classes, Successes, Drops, Charged, Accepted
<1>8. Sum(counts', Failures) = Sum(counts, Failures) + (IF k \in Failures THEN 1 ELSE 0)
  <2> PICK f, g : f = counts /\ g = counts'
    OBVIOUS
  <2>1. OneMore(f, g, Failures, k)
    BY <1>3, <1>6, <1>7 DEF OneMore
  <2>2. \A P \in SUBSET Failures :
          Sum(f, P) \in Nat /\ Sum(g, P) = Sum(f, P) + (IF k \in P THEN 1 ELSE 0)
    BY ONLY <2>1, FailuresFinite, Increment
  <2> QED
    BY <2>2
<1>9. /\ Sum(happened', Successes) = Sum(happened, Successes) + (IF k = "success" THEN 1 ELSE 0)
      /\ Sum(happened', Drops) = Sum(happened, Drops) + (IF k = "dropped" THEN 1 ELSE 0)
      /\ Sum(happened', Charged) = Sum(happened, Charged) + (IF k \in Failures THEN 1 ELSE 0)
      /\ Sum(happened', Accepted) = Sum(happened, Accepted) + 1
  <2>1. /\ Successes \in SUBSET Observations /\ Drops \in SUBSET Observations
        /\ Charged \in SUBSET Observations /\ Accepted \in SUBSET Observations
    BY DEF Successes, Drops, Charged, Accepted
  <2> QED
    BY <1>2, <1>7, <2>1
<1> QED
  BY <1>5, <1>6, <1>7, <1>8, <1>9 DEF CountsMatch

LEMMA CostStep ==
  ASSUME Shapes, NEW o \in Observations, happened' = [happened EXCEPT ![o] = @ + 1]
  PROVE  Sum(CostOf(happened'), Bills)
           = Sum(CostOf(happened), Bills) + (IF o \in Bills THEN o.cost ELSE 0)
<1> PICK f, g, d : f = CostOf(happened) /\ g = CostOf(happened') /\ d = o.cost
  OBVIOUS
<1>1. IsFiniteSet(Bills) /\ Bills \subseteq Observations
  <2>1. Bills \subseteq Observations
    BY DEF Bills, Successes
  <2> QED
    BY <2>1, ObservationsOK
<1>2. \A x \in Bills : x.cost \in Nat /\ happened[x] \in Nat
  BY <1>1, ObservationsOK DEF Bills, NoUsage, Shapes
<1>3. d \in Int
  BY ObservationsOK DEF Unknown
<1>4. \A x \in Bills : f[x] = x.cost * happened[x] /\ g[x] = x.cost * happened'[x]
  BY <1>1 DEF CostOf
<1>5. \A x \in Bills : f[x] \in Int
  BY <1>2, <1>4
<1>6. \A x \in Bills : g[x] = f[x] + (IF x = o THEN d ELSE 0)
  <2> TAKE x \in Bills
  <2>1. happened'[x] = happened[x] + (IF x = o THEN 1 ELSE 0)
    BY <1>1, <1>2 DEF Shapes
  <2> PICK a, c : a = x.cost /\ c = happened[x]
    OBVIOUS
  <2>2. a \in Nat /\ c \in Nat
    BY <1>2
  <2>3. a * (c + 1) = a * c + a /\ a * c \in Int
    BY <2>2
  <2>4. x = o => d = a
    OBVIOUS
  <2>5. f[x] = a * c /\ g[x] = a * (c + (IF x = o THEN 1 ELSE 0))
    BY <1>4, <2>1
  <2>6. CASE x = o
    BY <2>3, <2>4, <2>5, <2>6
  <2>7. CASE x # o
    BY <2>2, <2>3, <2>5, <2>7
  <2> QED
    BY <2>6, <2>7
<1>7. Sum(g, Bills) = Sum(f, Bills) + (IF o \in Bills THEN d ELSE 0)
  BY ONLY <1>1, <1>3, <1>5, <1>6, SumChange
<1> QED
  BY <1>7

LEMMA ProcessTotals == ASSUME TotalsInv, Process PROVE TotalsInv'
<1> PICK o \in Observations :
      /\ happened' = [happened EXCEPT ![o] = @ + 1]
      /\ IF o.class = "refused"
           THEN processingErr' = TRUE
                /\ UNCHANGED <<counts, ttft, chunkITL, usageSamples, costUSD>>
           ELSE record(o) /\ UNCHANGED processingErr
  BY DEF Process
<1>1. Shapes /\ CountsMatch
  BY DEF TotalsInv
<1>2. /\ happened' \in [Observations -> Nat]
      /\ \A P \in SUBSET Observations :
           Sum(happened', P) = Sum(happened, P) + (IF o \in P THEN 1 ELSE 0)
      /\ \A P \in SUBSET Observations : Sum(happened, P) \in Nat
  BY <1>1, PartsOfWhatHappened
<1>3. /\ Successes \in SUBSET Observations /\ Intervals \in SUBSET Observations
      /\ Bills \in SUBSET Observations /\ Refused \in SUBSET Observations
  BY DEF Successes, Intervals, Bills, Refused
<1>4. counts' \in [Classes \cup {"scheduled"} -> Nat] /\ CountsMatch'
  <2>1. CASE o.class = "refused"
    <3>1. counts' = counts
      BY <2>1
    <3>2. /\ Successes \in SUBSET Observations /\ Drops \in SUBSET Observations
          /\ Charged \in SUBSET Observations /\ Accepted \in SUBSET Observations
      BY DEF Successes, Drops, Charged, Accepted
    <3>3. o \notin Successes /\ o \notin Drops /\ o \notin Charged /\ o \notin Accepted
      BY <2>1 DEF Successes, Drops, Charged, Accepted, Failures
    <3>4. /\ Sum(happened', Successes) = Sum(happened, Successes)
          /\ Sum(happened', Drops) = Sum(happened, Drops)
          /\ Sum(happened', Charged) = Sum(happened, Charged)
          /\ Sum(happened', Accepted) = Sum(happened, Accepted)
      BY ONLY <1>2, <3>2, <3>3
    <3> QED
      BY <1>1, <3>1, <3>4 DEF CountsMatch, Shapes
  <2>2. CASE o.class # "refused"
    BY <1>1, <2>2, CountsStep DEF record
  <2> QED
    BY <2>1, <2>2
<1>5. ttft' \in [Bins -> Nat] /\ Matches(ttft', happened', Successes, TTFTOf)
  <2>1. ttft' = IF o \in Successes THEN [ttft EXCEPT ![Highest(TTFTOf[o])] = @ + 1] ELSE ttft
    <3>1. o.ttft # Unknown /\ TTFTOf[o] = o.ttft
      BY ObservationsOK DEF Unknown, TTFTOf
    <3>2. o \in Successes <=> o.class = "success"
      BY DEF Successes
    <3> QED
      BY <3>1, <3>2 DEF record, Plus
  <2>2. \A p \in Successes : Highest(TTFTOf[p]) \in Bins
    BY BinsOK DEF Successes, TTFTOf
  <2>3. ttft \in [Bins -> Nat] /\ happened \in [Observations -> Nat]
    BY <1>1 DEF Shapes
  <2>4. Matches(ttft, happened, Successes, TTFTOf)
    BY DEF TotalsInv
  <2>5. ttft' \in [Bins -> Nat]
    BY <2>1, <2>2, <2>3
  <2>6. OneMore(happened, happened', Observations, o) /\ \A b \in Bins : ttft[b] \in Nat
    BY <2>3 DEF OneMore
  <2>7. \A b \in Bins : ttft'[b] = ttft[b] + (IF o \in Successes /\ b = Highest(TTFTOf[o]) THEN 1 ELSE 0)
    BY <2>1, <2>2, <2>3
  <2>8. Matches(ttft', happened', Successes, TTFTOf)
    BY ONLY <1>3, <2>2, <2>4, <2>6, <2>7, SampleAdded
  <2> QED
    BY <2>5, <2>8
<1>6. chunkITL' \in [Bins -> Nat] /\ Matches(chunkITL', happened', Intervals, ITLOf)
  <2>1. chunkITL' = IF o \in Intervals THEN [chunkITL EXCEPT ![Highest(ITLOf[o])] = @ + 1] ELSE chunkITL
    <3>1. ITLOf[o] = o.itl
      BY DEF ITLOf
    <3>2. o \in Intervals <=> o.class = "success" /\ o.itl # Unknown
      BY DEF Successes, Intervals
    <3> QED
      BY <3>1, <3>2 DEF record, Plus
  <2>2. \A p \in Intervals : Highest(ITLOf[p]) \in Bins
    BY BinsOK DEF Successes, Intervals, ITLOf
  <2>3. chunkITL \in [Bins -> Nat] /\ happened \in [Observations -> Nat]
    BY <1>1 DEF Shapes
  <2>4. Matches(chunkITL, happened, Intervals, ITLOf)
    BY DEF TotalsInv
  <2>5. chunkITL' \in [Bins -> Nat]
    BY <2>1, <2>2, <2>3
  <2>6. OneMore(happened, happened', Observations, o) /\ \A b \in Bins : chunkITL[b] \in Nat
    BY <2>3 DEF OneMore
  <2>7. \A b \in Bins : chunkITL'[b] = chunkITL[b] + (IF o \in Intervals /\ b = Highest(ITLOf[o]) THEN 1 ELSE 0)
    BY <2>1, <2>2, <2>3
  <2>8. Matches(chunkITL', happened', Intervals, ITLOf)
    BY ONLY <1>3, <2>2, <2>4, <2>6, <2>7, SampleAdded
  <2> QED
    BY <2>5, <2>8
<1>7. o \in Bills <=> o.class = "success" /\ o.cost # Unknown
  BY DEF Bills, NoUsage, Successes
<1>8. usageSamples' = Sum(happened', Bills)
  <2>1. usageSamples = Sum(happened, Bills)
    BY DEF TotalsInv
  <2>2. usageSamples' = usageSamples + (IF o \in Bills THEN 1 ELSE 0)
    <3>1. usageSamples \in Nat
      BY <1>2, <1>3, <2>1
    <3> QED
      BY <1>7, <3>1 DEF record
  <2> QED
    BY <1>2, <1>3, <2>1, <2>2
<1>9. costUSD' = Sum(CostOf(happened'), Bills)
  <2>1. costUSD = Sum(CostOf(happened), Bills)
    BY DEF TotalsInv
  <2>2. costUSD' = costUSD + (IF o \in Bills THEN o.cost ELSE 0)
    <3>1. costUSD \in Int
      <4>1. IsFiniteSet(Bills)
        BY <1>3, ObservationsOK
      <4>2. \A x \in Bills : CostOf(happened)[x] \in Int
        <5> TAKE x \in Bills
        <5>1. x.cost \in Nat /\ happened[x] \in Nat /\ x \in Observations
          BY <1>1, <1>3, ObservationsOK DEF Shapes, Bills, NoUsage
        <5> QED
          BY <5>1 DEF CostOf
      <4> PICK f : f = CostOf(happened)
        OBVIOUS
      <4>3. \A x \in Bills : f[x] \in Int
        BY <4>2
      <4>4. Sum(f, Bills) \in Int
        BY ONLY <4>1, <4>3, SumInt
      <4> QED
        BY <2>1, <4>4
    <3> QED
      BY <1>7, <3>1 DEF record
  <2> QED
    BY <1>1, <2>1, <2>2, CostStep
<1>10. processingErr' = (Sum(happened', Refused) # 0)
  <2>1. processingErr = (Sum(happened, Refused) # 0)
    BY DEF TotalsInv
  <2>2. o \in Refused <=> o.class = "refused"
    BY DEF Refused
  <2>3. CASE o \in Refused
    <3>1. Sum(happened', Refused) # 0
      BY ONLY <1>2, <1>3, <2>3
    <3>2. processingErr' = TRUE
      BY <2>2, <2>3
    <3> QED
      BY ONLY <3>1, <3>2
  <2>4. CASE o \notin Refused
    <3>1. Sum(happened', Refused) = Sum(happened, Refused)
      BY ONLY <1>2, <1>3, <2>4
    <3>2. processingErr' = processingErr
      BY <2>2, <2>4
    <3> QED
      BY ONLY <2>1, <3>1, <3>2
  <2> QED
    BY <2>3, <2>4
<1>11. Shapes'
  BY <1>2, <1>4, <1>5, <1>6 DEF Shapes
<1> QED
  BY <1>4, <1>5, <1>6, <1>8, <1>9, <1>10, <1>11 DEF TotalsInv

LEMMA InitTotals == Init => TotalsInv
<1> SUFFICES ASSUME Init PROVE TotalsInv
  OBVIOUS
<1>1. Shapes
  BY DEF Init, Shapes
<1>2. \A P \in SUBSET Observations : Sum(happened, P) = 0
  <2> TAKE P \in SUBSET Observations
  <2> PICK w : w = happened
    OBVIOUS
  <2>1. IsFiniteSet(P) /\ \A x \in P : w[x] = 0
    BY ObservationsOK DEF Init
  <2>2. Sum(w, P) = 0
    BY ONLY <2>1, SumZero
  <2> QED
    BY <2>2
<1>3. \A P \in SUBSET Bins : Sum(ttft, P) = 0 /\ Sum(chunkITL, P) = 0
  <2> TAKE P \in SUBSET Bins
  <2> PICK f, g : f = ttft /\ g = chunkITL
    OBVIOUS
  <2>1. IsFiniteSet(P)
    BY BinsOK, FS_Subset
  <2>2. (\A x \in P : f[x] = 0) /\ (\A x \in P : g[x] = 0)
    BY DEF Init
  <2>3. Sum(f, P) = 0 /\ Sum(g, P) = 0
    BY ONLY <2>1, <2>2, SumZero
  <2> QED
    BY <2>3
<1>4. CountsMatch
  <2>1. \A c \in Classes \cup {"scheduled"} : counts[c] = 0
    BY DEF Init
  <2>2. {"success", "dropped"} \cup Failures \subseteq Classes
    BY DEF Classes
  <2>3. Sum(counts, Failures) = 0
    <3> PICK f : f = counts
      OBVIOUS
    <3>1. \A c \in Failures : f[c] = 0
      BY <2>1, <2>2
    <3>2. Sum(f, Failures) = 0
      BY ONLY <3>1, FailuresFinite, SumZero
    <3> QED
      BY <3>2
  <2>4. /\ Sum(happened, Successes) = 0 /\ Sum(happened, Drops) = 0
        /\ Sum(happened, Charged) = 0 /\ Sum(happened, Accepted) = 0
    BY <1>2 DEF Successes, Drops, Charged, Accepted
  <2> QED
    BY <2>1, <2>2, <2>3, <2>4 DEF CountsMatch
<1>5. Matches(ttft, happened, Successes, TTFTOf)
  <2>1. \A b \in Bins : Sum(ttft, {c \in Bins : c <= b}) = 0
    BY <1>3
  <2>2. \A b \in Bins : Sum(happened, {o \in Successes : Highest(TTFTOf[o]) <= b}) = 0
    BY <1>2 DEF Successes
  <2>3. Sum(ttft, Bins) = 0 /\ Sum(happened, Successes) = 0
    BY <1>2, <1>3 DEF Successes
  <2> QED
    BY <2>1, <2>2, <2>3 DEF Matches
<1>6. Matches(chunkITL, happened, Intervals, ITLOf)
  <2>1. \A b \in Bins : Sum(chunkITL, {c \in Bins : c <= b}) = 0
    BY <1>3
  <2>2. \A b \in Bins : Sum(happened, {o \in Intervals : Highest(ITLOf[o]) <= b}) = 0
    BY <1>2 DEF Successes, Intervals
  <2>3. Sum(chunkITL, Bins) = 0 /\ Sum(happened, Intervals) = 0
    BY <1>2, <1>3 DEF Successes, Intervals
  <2> QED
    BY <2>1, <2>2, <2>3 DEF Matches
<1>7. Bills \in SUBSET Observations /\ Refused \in SUBSET Observations
  BY DEF Bills, Refused, Successes
<1>8. usageSamples = Sum(happened, Bills)
  BY <1>2, <1>7 DEF Init
<1>9. costUSD = Sum(CostOf(happened), Bills)
  <2> PICK f : f = CostOf(happened)
    OBVIOUS
  <2>1. IsFiniteSet(Bills)
    BY <1>7, ObservationsOK
  <2>2. \A x \in Bills : f[x] = 0
    <3> TAKE x \in Bills
    <3>1. x.cost \in Nat /\ happened[x] = 0 /\ x \in Observations
      BY <1>7, ObservationsOK DEF Bills, NoUsage, Init
    <3> QED
      BY <3>1 DEF CostOf
  <2>3. Sum(f, Bills) = 0
    BY ONLY <2>1, <2>2, SumZero
  <2> QED
    BY <2>3 DEF Init
<1>10. processingErr = (Sum(happened, Refused) # 0)
  <2>1. Sum(happened, Refused) = 0
    BY <1>2, <1>7
  <2>2. processingErr = FALSE
    BY DEF Init
  <2> QED
    BY ONLY <2>1, <2>2
<1> QED
  BY <1>1, <1>4, <1>5, <1>6, <1>8, <1>9, <1>10 DEF TotalsInv

-----------------------------------------------------------------------------
(***************************************************************************)
(* The stages of runRamp: what has been established at each of them.       *)
(***************************************************************************)
Evaluated ==
  /\ sloErr = \E g \in Configured : Unevaluable(g)
  /\ results = IF sloErr THEN {} ELSE {Compare(g) : g \in Configured}

StageInv ==
  /\ slo \in [Gates -> Int]
  /\ pc \in {"config", "aggregator", "outcomes", "verdict", "done"}
  /\ pc \in {"aggregator", "outcomes", "verdict"} => Proper(price)
  /\ pc = "verdict" => Evaluated
  /\ pc = "done" => code = 2 \/ (Proper(price) /\ Evaluated /\ code = RampExit)

VerdictInv == TotalsInv /\ StageInv

LEMMA TotalsUnchanged ==
  ASSUME TotalsInv, UNCHANGED totals, happened' = happened PROVE TotalsInv'
BY DEF TotalsInv, totals, Shapes, CountsMatch

LEMMA ObservedUnchanged ==
  ASSUME UNCHANGED <<config, totals>>
  PROVE  /\ Configured' = Configured
         /\ \A g \in Gates : Compare(g)' = Compare(g) /\ (Unevaluable(g)' <=> Unevaluable(g))
<1>1. /\ slo' = slo /\ counts' = counts /\ ttft' = ttft /\ chunkITL' = chunkITL
      /\ usageSamples' = usageSamples /\ costUSD' = costUSD
  BY DEF config, totals
<1>2. Configured' = Configured
  BY <1>1 DEF Configured
<1>3. Failed' = Failed /\ (Complete' <=> Complete)
  BY <1>1 DEF Failed, Complete
<1>4. \A g \in Gates : Observed(g)' = Observed(g)
  BY <1>1, <1>3 DEF Observed
<1>5. \A g \in Gates : Compare(g)' = Compare(g)
  BY <1>1, <1>4 DEF Compare
<1>6. \A g \in Gates : Unevaluable(g)' <=> Unevaluable(g)
  BY <1>1, <1>3, <1>4 DEF Unevaluable
<1> QED
  BY <1>2, <1>5, <1>6

LEMMA EvaluatedUnchanged ==
  ASSUME Evaluated, UNCHANGED <<config, totals, results, sloErr>>
  PROVE  Evaluated' /\ RampExit' = RampExit
<1>1. /\ Configured' = Configured /\ Configured \subseteq Gates
      /\ \A g \in Gates : Compare(g)' = Compare(g) /\ (Unevaluable(g)' <=> Unevaluable(g))
  BY ObservedUnchanged DEF Configured
<1>2. {Compare(g) : g \in Configured}' = {Compare(g) : g \in Configured}
  BY <1>1
<1>3. (\E g \in Configured : Unevaluable(g))' <=> (\E g \in Configured : Unevaluable(g))
  BY <1>1
<1>4. sloErr' = sloErr /\ results' = results /\ processingErr' = processingErr /\ ttft' = ttft
  BY DEF totals
<1>5. Evaluated'
  BY <1>2, <1>3, <1>4 DEF Evaluated
<1>6. RampExit' = RampExit
  BY <1>1, <1>4 DEF RampExit, evaluatorPending
<1> QED
  BY <1>5, <1>6

LEMMA VerdictInit == Init => VerdictInv
<1>1. ASSUME Init PROVE StageInv
  BY <1>1, VerdictAssumption DEF Init, StageInv
<1> QED
  BY <1>1, InitTotals DEF VerdictInv

LEMMA VerdictStep == VerdictInv /\ [Next]_vars => VerdictInv'
<1> SUFFICES ASSUME VerdictInv, [Next]_vars PROVE VerdictInv'
  OBVIOUS
<1>1. TotalsInv /\ StageInv
  BY DEF VerdictInv
<1>2. CASE Configure
  <2>1. TotalsInv'
    BY <1>1, <1>2, TotalsUnchanged DEF Configure
  <2>2. StageInv'
    BY <1>1, <1>2 DEF Configure, StageInv, PriceRefused, Exit, config, Proper
  <2> QED
    BY <2>1, <2>2 DEF VerdictInv
<1>3. CASE NewAggregator
  <2>1. TotalsInv'
    BY <1>1, <1>3, TotalsUnchanged DEF NewAggregator
  <2>2. StageInv'
    BY <1>1, <1>3 DEF NewAggregator, StageInv, Exit, config, Proper
  <2> QED
    BY <2>1, <2>2 DEF VerdictInv
<1>4. CASE Process
  <2>1. TotalsInv'
    BY <1>1, <1>4, ProcessTotals
  <2>2. StageInv'
    BY <1>1, <1>4 DEF Process, StageInv, config, Proper
  <2> QED
    BY <2>1, <2>2 DEF VerdictInv
<1>5. CASE Evaluate
  <2>1. TotalsInv'
    BY <1>1, <1>5, TotalsUnchanged DEF Evaluate
  <2>2. Evaluated'
    <3>1. /\ Configured' = Configured /\ Configured \subseteq Gates
          /\ \A g \in Gates : Compare(g)' = Compare(g) /\ (Unevaluable(g)' <=> Unevaluable(g))
      BY <1>5, ObservedUnchanged DEF Evaluate, Configured
    <3>2. {Compare(g) : g \in Configured}' = {Compare(g) : g \in Configured}
      BY <3>1
    <3>3. (\E g \in Configured : Unevaluable(g))' <=> (\E g \in Configured : Unevaluable(g))
      BY <3>1
    <3> QED
      BY <1>5, <3>2, <3>3 DEF Evaluate, Evaluated
  <2>3. StageInv'
    BY <1>1, <1>5, <2>2 DEF Evaluate, StageInv, config, Proper
  <2> QED
    BY <2>1, <2>3 DEF VerdictInv
<1>6. CASE Finish
  <2>1. TotalsInv'
    BY <1>1, <1>6, TotalsUnchanged DEF Finish
  <2>2. Evaluated' /\ RampExit' = RampExit
    BY <1>1, <1>6, EvaluatedUnchanged DEF Finish, StageInv
  <2>3. StageInv'
    BY <1>1, <1>6, <2>2 DEF Finish, StageInv, Exit, config, Proper
  <2> QED
    BY <2>1, <2>3 DEF VerdictInv
<1>7. CASE UNCHANGED vars
  <2>1. TotalsInv'
    BY <1>1, <1>7, TotalsUnchanged DEF vars
  <2>2. Evaluated => Evaluated' /\ RampExit' = RampExit
    BY <1>7, EvaluatedUnchanged DEF vars, verdict
  <2>3. StageInv'
    BY <1>1, <1>7, <2>2 DEF vars, verdict, StageInv, config, Proper
  <2> QED
    BY <2>1, <2>3 DEF VerdictInv
<1> QED
  BY <1>2, <1>3, <1>4, <1>5, <1>6, <1>7 DEF Next, Done

\* The inductive invariant of the path from the outcomes to the exit code.
THEOREM VerdictInvariance == Spec => []VerdictInv
BY VerdictInit, VerdictStep, PTL DEF Spec

-----------------------------------------------------------------------------
(***************************************************************************)
(* What the gates see is what happened.                                    *)
(***************************************************************************)
LEMMA SeenIsTrue ==
  ASSUME TotalsInv
  PROVE  /\ \A S \in SUBSET Observations : Times(S) = Sum(happened, S) /\ Times(S) \in Nat
         /\ SumFunction(ttft) = Times(Successes) /\ SumFunction(chunkITL) = Times(Intervals)
         /\ counts["success"] = Times(Successes) /\ counts["dropped"] = Times(Drops)
         /\ Failed = Times(Charged)
         /\ Times(Observations) = counts["scheduled"] + Times(Refused)
         /\ Times(Successes) <= counts["scheduled"]
         /\ usageSamples \in Nat /\ Times(Successes) = usageSamples + Times(NoUsage)
         /\ costUSD = Cost
         /\ processingErr = (Times(Refused) # 0)
<1>1. Shapes /\ CountsMatch
  BY DEF TotalsInv
<1>2. \A S \in SUBSET Observations :
        /\ IsFiniteSet(S) /\ Times(S) = Sum(happened, S) /\ Times(S) \in Nat
        /\ \A o \in S : happened[o] \in Nat /\ happened[o] \in Int
  <2> TAKE S \in SUBSET Observations
  <2>1. IsFiniteSet(S)
    BY ObservationsOK
  <2>2. \A o \in S : happened[o] \in Nat
    BY <1>1 DEF Shapes
  <2>3. Sum(happened, S) \in Nat
    BY ONLY <2>1, <2>2, SumNat
  <2> QED
    BY <2>1, <2>2, <2>3, SumIs DEF Times
<1>3. /\ Successes \subseteq Observations /\ Intervals \subseteq Observations
      /\ Drops \subseteq Observations /\ Charged \subseteq Observations
      /\ NoUsage \subseteq Observations /\ Bills \subseteq Observations
      /\ Accepted \subseteq Observations /\ Refused \subseteq Observations
  BY DEF Successes, Intervals, Drops, Charged, NoUsage, Bills, Accepted, Refused
<1>4. /\ SumFunction(ttft) = Sum(ttft, Bins) /\ SumFunction(chunkITL) = Sum(chunkITL, Bins)
  <2>1. DOMAIN ttft = Bins /\ DOMAIN chunkITL = Bins
    BY <1>1 DEF Shapes
  <2> QED
    BY <2>1, SumIs
<1>5. SumFunction(ttft) = Times(Successes) /\ SumFunction(chunkITL) = Times(Intervals)
  <2>1. Sum(ttft, Bins) = Sum(happened, Successes) /\ Sum(chunkITL, Bins) = Sum(happened, Intervals)
    BY DEF TotalsInv, Matches
  <2> QED
    BY <1>2, <1>3, <1>4, <2>1
<1>6. /\ counts["success"] = Times(Successes) /\ counts["dropped"] = Times(Drops)
      /\ counts["scheduled"] = Times(Accepted)
  BY <1>1, <1>2, <1>3 DEF CountsMatch
<1>7. Failed = Times(Charged)
  <2>1. Failed = Sum(counts, Failures)
    BY SumIs DEF Failed
  <2> QED
    BY <1>1, <1>2, <1>3, <2>1 DEF CountsMatch
<1>8. Times(Observations) = counts["scheduled"] + Times(Refused)
  <2>1. Observations \cap Accepted = Accepted /\ Observations \ Accepted = Refused
    BY DEF Accepted, Refused
  <2>2. IsFiniteSet(Observations) /\ \A o \in Observations : happened[o] \in Int
    BY <1>2
  <2>3. Sum(happened, Observations)
          = Sum(happened, Observations \cap Accepted) + Sum(happened, Observations \ Accepted)
    BY ONLY <2>2, SumSplit
  <2>4. Sum(happened, Observations) = Sum(happened, Accepted) + Sum(happened, Refused)
    BY ONLY <2>1, <2>3
  <2>5. /\ Times(Observations) = Sum(happened, Observations)
        /\ counts["scheduled"] = Sum(happened, Accepted) /\ Times(Refused) = Sum(happened, Refused)
    BY <1>2, <1>3, <1>6
  <2> QED
    BY ONLY <2>4, <2>5
<1>9. Times(Successes) <= counts["scheduled"]
  <2>1. Successes \in SUBSET Accepted
    BY DEF Successes, Accepted
  <2>2. IsFiniteSet(Accepted) /\ \A o \in Accepted : happened[o] \in Nat
    BY <1>2, <1>3
  <2>3. Sum(happened, Successes) <= Sum(happened, Accepted)
    BY ONLY <2>1, <2>2, SumPart
  <2>4. /\ Times(Successes) = Sum(happened, Successes)
        /\ counts["scheduled"] = Sum(happened, Accepted)
    BY <1>2, <1>3, <1>6
  <2> QED
    BY ONLY <2>3, <2>4
<1>10. usageSamples = Times(Bills) /\ Times(Successes) = Times(Bills) + Times(NoUsage)
  <2>1. Successes \cap Bills = Bills /\ Successes \ Bills = NoUsage
    BY DEF Bills, NoUsage
  <2>2. IsFiniteSet(Successes) /\ \A o \in Successes : happened[o] \in Int
    BY <1>2, <1>3
  <2>3. Sum(happened, Successes) = Sum(happened, Successes \cap Bills) + Sum(happened, Successes \ Bills)
    BY ONLY <2>2, SumSplit
  <2>4. usageSamples = Sum(happened, Bills)
    BY DEF TotalsInv
  <2>5. Sum(happened, Successes) = Sum(happened, Bills) + Sum(happened, NoUsage)
    BY ONLY <2>1, <2>3
  <2>6. /\ Times(Successes) = Sum(happened, Successes) /\ Times(Bills) = Sum(happened, Bills)
        /\ Times(NoUsage) = Sum(happened, NoUsage)
    BY <1>2, <1>3
  <2> QED
    BY ONLY <2>4, <2>5, <2>6
<1>11. costUSD = Cost
  <2>1. Cost = Sum(CostOf(happened), Bills)
    BY SumIs DEF Cost, CostOf, Bills
  <2>2. costUSD = Sum(CostOf(happened), Bills)
    BY DEF TotalsInv
  <2> QED
    BY <2>1, <2>2
<1>12. processingErr = (Times(Refused) # 0)
  <2>1. processingErr = (Sum(happened, Refused) # 0)
    BY DEF TotalsInv
  <2>2. Times(Refused) = Sum(happened, Refused)
    BY <1>2, <1>3
  <2> QED
    BY ONLY <2>1, <2>2
<1>13. usageSamples \in Nat
  BY <1>2, <1>3, <1>10
<1> QED
  BY <1>2, <1>5, <1>6, <1>7, <1>8, <1>9, <1>10, <1>11, <1>12, <1>13

\* A latency gate: of a histogram that holds these samples.
LEMMA LatencyGate ==
  ASSUME TotalsInv, NEW h, h \in [Bins -> Nat], NEW all \in SUBSET Successes, NEW v,
         \A o \in all : v[o] \in Nat /\ Highest(v[o]) \in Bins,
         Matches(h, happened, all, v), Times(all) # 0, NEW x \in Int
  PROVE  /\ AtPercentile(h) \in Int
         /\ AtPercentile(h) <= x => Few(Beyond(all, v, x), all)
         /\ AtPercentile(h) > x => ~Few(Beyond(all, v, x - (Bin - 1)), all)
<1>1. Shapes
  BY DEF TotalsInv
<1> PICK w : w = happened
  OBVIOUS
<1>2. all \subseteq Observations
  BY DEF Successes
<1>3. \A S \in SUBSET all : Times(S) = Sum(w, S) /\ Times(S) \in Nat
  BY <1>2, SeenIsTrue
<1>4. Sum(w, all) # 0
  BY <1>3
<1>5. Samples(h, w, all, v) /\ Matches(h, w, all, v)
  BY <1>1, <1>2 DEF Shapes, Samples
<1>6. x \in Int
  OBVIOUS
<1>7. /\ AtPercentile(h) \in Int
      /\ AtPercentile(h) <= x =>
           100 * Sum(w, Beyond(all, v, x)) < (100 - Percentile) * Sum(w, all) + 50
      /\ AtPercentile(h) > x =>
           100 * Sum(w, Beyond(all, v, x - (Bin - 1))) >= (100 - Percentile) * Sum(w, all) + 50
  BY ONLY <1>4, <1>5, <1>6, PercentileSays
<1>8. /\ Times(Beyond(all, v, x)) = Sum(w, Beyond(all, v, x))
      /\ Times(Beyond(all, v, x - (Bin - 1))) = Sum(w, Beyond(all, v, x - (Bin - 1)))
      /\ Times(Beyond(all, v, x - (Bin - 1))) \in Nat
      /\ Times(all) = Sum(w, all) /\ Times(all) \in Nat
  BY <1>3 DEF Beyond
<1>9. (100 - Percentile) * Times(all) + 50 \in Int
  BY <1>8, VerdictAssumption
<1>10. ASSUME AtPercentile(h) <= x PROVE Few(Beyond(all, v, x), all)
  BY <1>7, <1>8, <1>10 DEF Few
<1>11. ASSUME AtPercentile(h) > x PROVE ~Few(Beyond(all, v, x - (Bin - 1)), all)
  <2> PICK y, z : /\ y = 100 * Times(Beyond(all, v, x - (Bin - 1)))
                  /\ z = (100 - Percentile) * Times(all) + 50
    OBVIOUS
  <2>1. y >= z
    BY <1>7, <1>8, <1>11
  <2>2. y \in Int /\ z \in Int
    BY <1>8, <1>9
  <2>3. ~(y < z)
    BY ONLY <2>1, <2>2
  <2> QED
    BY <2>3 DEF Few
<1> QED
  BY <1>7, <1>10, <1>11

\* Each gate passes and fails for what happened to the requests.
LEMMA GateEarned ==
  ASSUME TotalsInv, StageInv, Times(Refused) = 0, NEW g \in Configured, ~Unevaluable(g)
  PROVE  /\ Compare(g).pass => Holds(g, 0)
         /\ ~Compare(g).pass => ~Holds(g, Bin - 1)
<1> PICK x : x = slo[g]
  OBVIOUS
<1>1. g \in Gates /\ x \in Int /\ Proper(slo[g])
  BY DEF StageInv, Configured, Unevaluable
<1>2. Observed(g).samples # 0
  BY DEF Unevaluable
<1>3. Shapes
  BY DEF TotalsInv
<1>4. Compare(g).pass = (Observed(g).num <= x * Observed(g).den)
  BY DEF Compare
<1>5. CASE g = "p99_ttft_ms"
  <2>1. /\ Observed(g).samples = SumFunction(ttft) /\ Observed(g).den = 1
        /\ Observed(g).num = IF SumFunction(ttft) = 0 THEN 0 ELSE AtPercentile(ttft)
    BY <1>5 DEF Observed
  <2>2. Times(Successes) # 0 /\ Observed(g).num = AtPercentile(ttft)
    BY <1>2, <2>1, SeenIsTrue
  <2>3. ttft \in [Bins -> Nat] /\ Matches(ttft, happened, Successes, TTFTOf)
    BY <1>3 DEF Shapes, TotalsInv
  <2>4. \A o \in Successes : TTFTOf[o] = o.ttft /\ TTFTOf[o] \in Nat /\ Highest(TTFTOf[o]) \in Bins
    BY ObservationsOK, BinsOK DEF TTFTOf, Successes
  <2>5. /\ AtPercentile(ttft) \in Int
        /\ AtPercentile(ttft) <= x => Few(Beyond(Successes, TTFTOf, x), Successes)
        /\ AtPercentile(ttft) > x => ~Few(Beyond(Successes, TTFTOf, x - (Bin - 1)), Successes)
    BY <1>1, <2>2, <2>3, <2>4, LatencyGate
  <2>6. /\ Beyond(Successes, TTFTOf, x) = {o \in Successes : o.ttft + 0 > slo[g]}
        /\ Beyond(Successes, TTFTOf, x - (Bin - 1)) = {o \in Successes : o.ttft + (Bin - 1) > slo[g]}
    BY <1>1, <2>4, VerdictAssumption DEF Beyond
  <2>7. /\ Holds(g, 0) <=> Few(Beyond(Successes, TTFTOf, x), Successes)
        /\ Holds(g, Bin - 1) <=> Few(Beyond(Successes, TTFTOf, x - (Bin - 1)), Successes)
    BY <1>5, <2>6 DEF Holds
  <2>8. Compare(g).pass = (AtPercentile(ttft) <= x)
    <3>1. x * 1 = x
      BY <1>1
    <3>2. x * Observed(g).den = x
      BY ONLY <2>1, <3>1
    <3> QED
      BY ONLY <1>4, <2>2, <3>2
  <2>9. ~(AtPercentile(ttft) <= x) <=> AtPercentile(ttft) > x
    BY <1>1, <2>5
  <2> QED
    BY ONLY <2>5, <2>7, <2>8, <2>9
<1>6. CASE g = "p99_chunk_itl_ms"
  <2>1. /\ Observed(g).samples = SumFunction(chunkITL) /\ Observed(g).den = 1
        /\ Observed(g).num = IF SumFunction(chunkITL) = 0 THEN 0 ELSE AtPercentile(chunkITL)
    BY <1>6 DEF Observed
  <2>2. Times(Intervals) # 0 /\ Observed(g).num = AtPercentile(chunkITL)
    BY <1>2, <2>1, SeenIsTrue
  <2>3. chunkITL \in [Bins -> Nat] /\ Matches(chunkITL, happened, Intervals, ITLOf)
    BY <1>3 DEF Shapes, TotalsInv
  <2>4. \A o \in Intervals : ITLOf[o] = o.itl /\ ITLOf[o] \in Nat /\ Highest(ITLOf[o]) \in Bins
    BY ObservationsOK, BinsOK DEF ITLOf, Intervals, Successes
  <2>5. /\ AtPercentile(chunkITL) \in Int
        /\ AtPercentile(chunkITL) <= x => Few(Beyond(Intervals, ITLOf, x), Intervals)
        /\ AtPercentile(chunkITL) > x => ~Few(Beyond(Intervals, ITLOf, x - (Bin - 1)), Intervals)
    <3>1. Intervals \in SUBSET Successes
      BY DEF Intervals
    <3> QED
      BY <1>1, <2>2, <2>3, <2>4, <3>1, LatencyGate
  <2>6. /\ Beyond(Intervals, ITLOf, x) = {o \in Intervals : o.itl + 0 > slo[g]}
        /\ Beyond(Intervals, ITLOf, x - (Bin - 1)) = {o \in Intervals : o.itl + (Bin - 1) > slo[g]}
    BY <1>1, <2>4, VerdictAssumption DEF Beyond
  <2>7. /\ Holds(g, 0) <=> Few(Beyond(Intervals, ITLOf, x), Intervals)
        /\ Holds(g, Bin - 1) <=> Few(Beyond(Intervals, ITLOf, x - (Bin - 1)), Intervals)
    BY <1>6, <2>6 DEF Holds
  <2>8. Compare(g).pass = (AtPercentile(chunkITL) <= x)
    <3>1. x * 1 = x
      BY <1>1
    <3>2. x * Observed(g).den = x
      BY ONLY <2>1, <3>1
    <3> QED
      BY ONLY <1>4, <2>2, <3>2
  <2>9. ~(AtPercentile(chunkITL) <= x) <=> AtPercentile(chunkITL) > x
    BY <1>1, <2>5
  <2> QED
    BY ONLY <2>5, <2>7, <2>8, <2>9
<1>7. CASE g = "max_error_rate"
  <2>1. Observed(g).num = Failed * Whole /\ Observed(g).den = counts["scheduled"]
    BY <1>7 DEF Observed
  <2>2. Failed = Times(Charged) /\ counts["scheduled"] = Times(Observations)
    <3>1. counts["scheduled"] \in Nat
      BY <1>3 DEF Shapes
    <3> QED
      BY <3>1, SeenIsTrue
  <2>3. \A slack : Holds(g, slack) <=> Times(Charged) * Whole <= slo[g] * Times(Observations)
    BY <1>7 DEF Holds
  <2> QED
    BY <1>4, <2>1, <2>2, <2>3
<1>8. CASE g = "max_dropped_rate"
  <2>1. Observed(g).num = counts["dropped"] * Whole /\ Observed(g).den = counts["scheduled"]
    BY <1>8 DEF Observed
  <2>2. counts["dropped"] = Times(Drops) /\ counts["scheduled"] = Times(Observations)
    <3>1. counts["scheduled"] \in Nat
      BY <1>3 DEF Shapes
    <3> QED
      BY <3>1, SeenIsTrue
  <2>3. \A slack : Holds(g, slack) <=> Times(Drops) * Whole <= slo[g] * Times(Observations)
    BY <1>8 DEF Holds
  <2> QED
    BY <1>4, <2>1, <2>2, <2>3
<1>9. CASE g = "max_cost_usd"
  <2>1. Observed(g).num = costUSD /\ Observed(g).den = 1
    BY <1>9 DEF Observed
  <2>2. Complete
    BY <1>9 DEF Unevaluable
  <2>3. Times(NoUsage) = 0
    <3>1. NoUsage \in SUBSET Observations
      BY DEF NoUsage, Successes
    <3> QED
      BY <2>2, <3>1, SeenIsTrue DEF Complete
  <2>4. costUSD = Cost /\ x * 1 = x
    BY <1>1, SeenIsTrue
  <2>5. \A slack : Holds(g, slack) <=> Cost <= slo[g]
    BY <1>9, <2>3 DEF Holds
  <2> QED
    BY <1>4, <2>1, <2>4, <2>5
<1> QED
  BY <1>1, <1>5, <1>6, <1>7, <1>8, <1>9 DEF Gates

LEMMA EarnedFromInv == VerdictInv => VerdictEarned
<1> SUFFICES ASSUME VerdictInv, pc = "done", code \in {0, 1}
             PROVE  /\ Times(Successes) > 0 /\ Times({o \in Observations : o.class = "refused"}) = 0
                    /\ \A g \in Configured : Proper(slo[g])
                    /\ "max_cost_usd" \in Configured => Times(NoUsage) = 0
                    /\ {r.metric : r \in results} = Configured
                    /\ code = 0 => \A g \in Configured : Holds(g, 0)
                    /\ code = 1 => \E g \in Configured : ~Holds(g, Bin - 1)
  BY DEF VerdictEarned
<1>1. TotalsInv /\ StageInv /\ Evaluated /\ code = RampExit
  BY DEF VerdictInv, StageInv
<1>2. ~processingErr /\ ~sloErr /\ SumFunction(ttft) # 0
  BY <1>1 DEF RampExit
<1>3. Successes \in SUBSET Observations /\ NoUsage \in SUBSET Observations
  BY DEF NoUsage, Successes
<1>4. Times(Successes) > 0 /\ Times(Refused) = 0
  <2>1. Times(Successes) \in Nat /\ Times(Successes) # 0
    BY <1>1, <1>2, <1>3, SeenIsTrue
  <2>2. processingErr = (Times(Refused) # 0)
    BY <1>1, SeenIsTrue
  <2>3. Times(Refused) = 0
    BY ONLY <1>2, <2>2
  <2> QED
    BY <2>1, <2>3
<1>5. Times({o \in Observations : o.class = "refused"}) = 0
  BY <1>4 DEF Refused
<1>6. \A g \in Configured : ~Unevaluable(g)
  BY <1>1, <1>2 DEF Evaluated
<1>7. \A g \in Configured : Proper(slo[g])
  BY <1>6 DEF Unevaluable
<1>8. "max_cost_usd" \in Configured => Times(NoUsage) = 0
  <2>1. "max_cost_usd" \in Configured => Complete
    BY <1>6 DEF Unevaluable
  <2> QED
    BY <1>1, <1>3, <2>1, SeenIsTrue DEF Complete
<1>9. results = {Compare(g) : g \in Configured} /\ \A g \in Configured : Compare(g).metric = g
  BY <1>1, <1>2 DEF Evaluated, Compare
<1>10. {r.metric : r \in results} = Configured
  BY <1>9
<1>11. ~evaluatorPending
  <2> SUFFICES ASSUME results # {} PROVE \E r \in results : r.metric # ""
    BY DEF evaluatorPending
  <2>1. PICK g \in Configured : Compare(g) \in results
    BY <1>9
  <2>2. g # ""
    BY DEF Configured, Gates
  <2> QED
    BY <1>9, <2>1, <2>2
<1>12. code = IF \E g \in Configured : ~Compare(g).pass THEN 1 ELSE 0
  <2>1. code = IF \E r \in results : ~r.pass THEN 1 ELSE 0
    BY <1>1, <1>2, <1>11 DEF RampExit
  <2>2. (\E r \in results : ~r.pass) <=> \E g \in Configured : ~Compare(g).pass
    BY <1>9
  <2> QED
    BY <2>1, <2>2
<1>13. \A g \in Configured : /\ Compare(g).pass => Holds(g, 0)
                             /\ ~Compare(g).pass => ~Holds(g, Bin - 1)
  BY <1>1, <1>4, <1>6, GateEarned
<1> QED
  BY <1>4, <1>5, <1>7, <1>8, <1>10, <1>12, <1>13

LEMMA JudgedFromInv == VerdictInv => MeasuredIsJudged
<1> DEFINE cannot ==
      \/ Times(Successes) = 0
      \/ Times({o \in Observations : o.class = "refused"}) > 0
      \/ \E g \in Configured : ~Proper(slo[g])
      \/ "p99_chunk_itl_ms" \in Configured /\ Times(Intervals) = 0
      \/ "max_cost_usd" \in Configured /\ Times(NoUsage) > 0
<1> SUFFICES ASSUME VerdictInv, pc = "done", code = 3
             PROVE  Proper(price) /\ cannot
  BY DEF MeasuredIsJudged
<1>1. TotalsInv /\ StageInv /\ Proper(price) /\ Evaluated /\ code = RampExit
  BY DEF VerdictInv, StageInv
<1>2. processingErr \/ sloErr \/ SumFunction(ttft) = 0
  <2>1. (IF ~evaluatorPending /\ \E r \in results : ~r.pass THEN 1 ELSE 0) # 3
    OBVIOUS
  <2> QED
    BY <1>1, <2>1 DEF RampExit
<1>3. /\ Successes \in SUBSET Observations /\ NoUsage \in SUBSET Observations
      /\ Refused \in SUBSET Observations
  BY DEF NoUsage, Successes, Refused
<1>4. Times(Successes) \in Nat /\ Times(NoUsage) \in Nat /\ Times(Refused) \in Nat
  BY <1>1, <1>3, SeenIsTrue
<1>5. CASE processingErr
  <2>1. Times(Refused) # 0
    BY <1>1, <1>5, SeenIsTrue
  <2> QED
    BY <1>1, <1>4, <2>1 DEF Refused
<1>6. CASE SumFunction(ttft) = 0
  BY <1>1, <1>6, SeenIsTrue
<1>7. CASE sloErr
  <2>1. PICK g \in Configured : Unevaluable(g)
    BY <1>1, <1>7 DEF Evaluated
  <2>2. g \in Gates
    BY DEF Configured
  <2>3. CASE ~Proper(slo[g])
    BY <1>1, <2>1, <2>3
  <2>4. CASE g = "max_cost_usd" /\ ~Complete
    BY <1>1, <1>4, <2>4, SeenIsTrue DEF Complete
  <2>5. CASE Observed(g).samples = 0
    <3>1. CASE g = "p99_ttft_ms"
      BY <1>1, <2>5, <3>1, SeenIsTrue DEF Observed
    <3>2. CASE g = "p99_chunk_itl_ms"
      BY <1>1, <2>1, <2>5, <3>2, SeenIsTrue DEF Observed
    <3>3. CASE g \in {"max_error_rate", "max_dropped_rate"}
      <4>1. counts["scheduled"] = 0
        BY <2>5, <3>3 DEF Observed
      <4> QED
        BY <1>1, <1>4, <4>1, SeenIsTrue
    <3>4. CASE g = "max_cost_usd"
      <4>1. usageSamples = 0
        BY <2>5, <3>4 DEF Observed
      <4>2. Times(Successes) = Times(NoUsage)
        BY <1>1, <1>4, <4>1, SeenIsTrue
      <4> QED
        BY <1>1, <1>4, <2>1, <3>4, <4>2
    <3> QED
      BY <2>2, <3>1, <3>2, <3>3, <3>4 DEF Gates
  <2> QED
    BY <2>1, <2>3, <2>4, <2>5 DEF Unevaluable
<1> QED
  BY <1>2, <1>5, <1>6, <1>7

\* Exit codes 0 and 1 are earned by the requests: whatever they were and however
\* many, whatever the thresholds and the width of a bin, 0 means that every
\* configured gate holds of them and 1 that one fails, give or take a bin.
THEOREM VerdictIsEarned == Spec => []VerdictEarned
BY VerdictInvariance, EarnedFromInv, PTL

\* Exit code 3 after a load run means that there was nothing to judge it by.
THEOREM BrokenOnlyIfSo == Spec => []MeasuredIsJudged
BY VerdictInvariance, JudgedFromInv, PTL

=============================================================================
