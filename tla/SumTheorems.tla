----------------------------- MODULE SumTheorems -----------------------------
(***************************************************************************)
(* Sums over a finite set, for the proofs about counters: SumFunction of   *)
(* Functions is a fold, which picks the elements one by one.  The fold is  *)
(* unfolded here once, by looking at a smallest set that would violate     *)
(* what is claimed of all.                                                 *)
(***************************************************************************)
EXTENDS Integers, Sequences, Functions, FiniteSetsExt, FiniteSetTheorems, WellFoundedInduction, TLAPS

Pick(s) == CHOOSE x \in s : TRUE
IsSum(g, f, S) == g = [s \in SUBSET S |-> IF s = {} THEN 0 ELSE f[Pick(s)] + g[s \ {Pick(s)}]]
SumOf(f, S) == CHOOSE g : IsSum(g, f, S)
Sum(f, S) == SumOf(f, S)[S]

\* A nonempty set of subsets of a finite set has one that contains no other.
LEMMA Smallest ==
  ASSUME NEW S, IsFiniteSet(S), NEW T, T \subseteq SUBSET S, T # {}
  PROVE  \E M \in T : \A X \in T : X \subseteq M => X = M
<1>1. IsWellFoundedOn(StrictSubsetOrdering(S), SUBSET S)
  BY FS_StrictSubsetOrderingWellFounded, FS_FiniteSubsetsOfFinite
<1>2. PICK M \in T : \A X \in T : ~(<<X, M>> \in StrictSubsetOrdering(S))
  BY <1>1, WFMin
<1>3. ASSUME NEW X \in T, X \subseteq M, X # M PROVE FALSE
  <2>1. <<X, M>> \in (SUBSET S) \X (SUBSET S)
    OBVIOUS
  <2> QED
    BY <1>2, <1>3, <2>1 DEF StrictSubsetOrdering
<1> QED
  BY <1>3

LEMMA Picked == ASSUME NEW s, s # {} PROVE Pick(s) \in s
  BY DEF Pick

\* Two recursive sums agree on the sets they are both defined on.
LEMMA SumUnique ==
  ASSUME NEW f, NEW g, NEW h, NEW U, NEW V, IsFiniteSet(U), IsSum(g, f, U), IsSum(h, f, V),
         NEW W, W \subseteq U, W \subseteq V
  PROVE  g[W] = h[W]
<1> DEFINE T == {X \in SUBSET W : g[X] # h[X]}
<1>1. SUFFICES T = {}
  OBVIOUS
<1>2. SUFFICES ASSUME T # {} PROVE FALSE
  OBVIOUS
<1>3. IsFiniteSet(W)
  BY FS_Subset
<1>4. PICK M \in T : \A X \in T : X \subseteq M => X = M
  <2> HIDE DEF T
  <2>1. T \subseteq SUBSET W
    BY DEF T
  <2> QED
    BY <1>2, <1>3, <2>1, Smallest
<1>5. \A s \in SUBSET W : /\ g[s] = IF s = {} THEN 0 ELSE f[Pick(s)] + g[s \ {Pick(s)}]
                          /\ h[s] = IF s = {} THEN 0 ELSE f[Pick(s)] + h[s \ {Pick(s)}]
  BY DEF IsSum
<1>6. M # {}
  BY <1>4, <1>5
<1>7. M \ {Pick(M)} \notin T
  BY <1>4, <1>6, Picked
<1> QED
  BY <1>4, <1>5, <1>6, <1>7

\* The recursion has a solution: a smallest set without one would have one, put
\* together from those of its subsets.
LEMMA SumExists ==
  ASSUME NEW f, NEW S, IsFiniteSet(S) PROVE IsSum(SumOf(f, S), f, S)
<1> DEFINE T == {X \in SUBSET S : ~\E g : IsSum(g, f, X)}
<1>1. SUFFICES ASSUME T # {} PROVE FALSE
  <2>1. T = {} => \E g : IsSum(g, f, S)
    OBVIOUS
  <2> QED
    BY <1>1, <2>1 DEF SumOf
<1>2. PICK M \in T : \A X \in T : X \subseteq M => X = M
  <2> HIDE DEF T
  <2>1. T \subseteq SUBSET S
    BY DEF T
  <2> QED
    BY <1>1, <2>1, Smallest
<1> DEFINE rest(s) == s \ {Pick(s)}
<1> DEFINE h == [s \in SUBSET M |-> IF s = {} THEN 0 ELSE f[Pick(s)] + Sum(f, rest(s))]
<1>3. ASSUME NEW s \in SUBSET M, s # {}
      PROVE  IsSum(SumOf(f, rest(s)), f, rest(s)) /\ IsFiniteSet(rest(s))
  <2>1. rest(s) \in SUBSET S /\ rest(s) \subseteq M /\ rest(s) # M
    BY <1>2, <1>3, Picked
  <2>2. \E g : IsSum(g, f, rest(s))
    BY <1>2, <2>1
  <2> QED
    BY <2>1, <2>2, FS_Subset DEF SumOf
<1>4. ASSUME NEW s \in SUBSET M, s # {} PROVE h[rest(s)] = Sum(f, rest(s))
  <2> DEFINE r == rest(s)
  <2>0. r \in SUBSET M /\ rest(r) \subseteq r
    OBVIOUS
  <2>1. /\ IsSum(SumOf(f, r), f, r) /\ IsFiniteSet(r)
    BY <1>3, <1>4
  <2>2. SumOf(f, r)[r] = IF r = {} THEN 0 ELSE f[Pick(r)] + SumOf(f, r)[rest(r)]
    <3> HIDE DEF r
    <3> QED
      BY <2>1 DEF IsSum
  <2>3. CASE r = {}
    BY <2>0, <2>2, <2>3 DEF Sum
  <2>4. CASE r # {}
    <3>1. IsSum(SumOf(f, rest(r)), f, rest(r))
      BY <1>3, <2>0, <2>4
    <3>2. SumOf(f, r)[rest(r)] = SumOf(f, rest(r))[rest(r)]
      <4> DEFINE q == rest(r)
      <4>1. q \subseteq r /\ IsSum(SumOf(f, q), f, q)
        BY <2>0, <3>1
      <4> HIDE DEF r, q
      <4>2. SumOf(f, r)[q] = SumOf(f, q)[q]
        BY <2>1, <4>1, SumUnique
      <4> QED
        BY <4>2 DEF q
    <3> QED
      BY <2>0, <2>2, <2>4, <3>2 DEF Sum
  <2> QED
    BY <2>3, <2>4
<1>5. IsSum(h, f, M)
  BY <1>4 DEF IsSum
<1> QED
  BY <1>2, <1>5

-----------------------------------------------------------------------------
(***************************************************************************)
(* What users of a sum need to know.                                       *)
(***************************************************************************)
LEMMA SumEmpty == ASSUME NEW f PROVE Sum(f, {}) = 0
  <1>1. IsSum(SumOf(f, {}), f, {})
    BY SumExists, FS_EmptySet
  <1> QED
    BY <1>1 DEF IsSum, Sum

LEMMA SumStep ==
  ASSUME NEW f, NEW S, IsFiniteSet(S), S # {}
  PROVE  Sum(f, S) = f[Pick(S)] + Sum(f, S \ {Pick(S)})
<1> DEFINE R == S \ {Pick(S)}
<1>1. IsFiniteSet(R) /\ R \subseteq S
  BY FS_Subset
<1>2. IsSum(SumOf(f, S), f, S) /\ IsSum(SumOf(f, R), f, R)
  BY <1>1, SumExists
<1>3. SumOf(f, S)[R] = SumOf(f, R)[R]
  BY <1>1, <1>2, SumUnique
<1>4. SumOf(f, S)[S] = f[Pick(S)] + SumOf(f, S)[R]
  BY <1>2 DEF IsSum
<1> QED
  BY <1>3, <1>4 DEF Sum

LEMMA SumInt ==
  ASSUME NEW S, IsFiniteSet(S), NEW f, \A x \in S : f[x] \in Int
  PROVE  Sum(f, S) \in Int
<1> DEFINE T == {X \in SUBSET S : Sum(f, X) \notin Int}
<1>1. SUFFICES ASSUME T # {} PROVE FALSE
  OBVIOUS
<1>2. PICK M \in T : \A X \in T : X \subseteq M => X = M
  <2> HIDE DEF T
  <2>1. T \subseteq SUBSET S
    BY DEF T
  <2> QED
    BY <1>1, <2>1, Smallest
<1>3. M # {} /\ IsFiniteSet(M)
  <2>1. Sum(f, {}) \in Int
    BY SumEmpty
  <2> QED
    BY <1>2, <2>1, FS_Subset
<1>4. Pick(M) \in M
  BY <1>3, Picked
<1>5. M \ {Pick(M)} \notin T
  BY <1>2, <1>4
<1>6. Sum(f, M \ {Pick(M)}) \in Int /\ f[Pick(M)] \in Int
  BY <1>2, <1>4, <1>5
<1>7. Sum(f, M) = f[Pick(M)] + Sum(f, M \ {Pick(M)})
  BY <1>3, SumStep
<1> QED
  BY <1>2, <1>6, <1>7

\* Zeros add up to zero.
LEMMA SumZero ==
  ASSUME NEW S, IsFiniteSet(S), NEW f, \A x \in S : f[x] = 0
  PROVE  Sum(f, S) = 0
<1> DEFINE T == {X \in SUBSET S : Sum(f, X) # 0}
<1>1. SUFFICES ASSUME T # {} PROVE FALSE
  OBVIOUS
<1>2. PICK M \in T : \A X \in T : X \subseteq M => X = M
  <2> HIDE DEF T
  <2>1. T \subseteq SUBSET S
    BY DEF T
  <2> QED
    BY <1>1, <2>1, Smallest
<1>3. M # {} /\ IsFiniteSet(M)
  <2>1. {} \notin T
    BY SumEmpty
  <2> QED
    BY <1>2, <2>1, FS_Subset
<1>4. Pick(M) \in M
  BY <1>3, Picked
<1>5. Sum(f, M \ {Pick(M)}) = 0 /\ f[Pick(M)] = 0
  BY <1>2, <1>4
<1>6. Sum(f, M) = f[Pick(M)] + Sum(f, M \ {Pick(M)})
  BY <1>3, SumStep
<1> QED
  BY <1>2, <1>5, <1>6

\* One value has changed by d.
LEMMA SumChange ==
  ASSUME NEW S, IsFiniteSet(S), NEW f, NEW g, NEW e, NEW d \in Int,
         \A x \in S : f[x] \in Int,
         \A x \in S : g[x] = f[x] + (IF x = e THEN d ELSE 0)
  PROVE  Sum(g, S) = Sum(f, S) + (IF e \in S THEN d ELSE 0)
<1> DEFINE T == {X \in SUBSET S : Sum(g, X) # Sum(f, X) + (IF e \in X THEN d ELSE 0)}
<1>1. SUFFICES ASSUME T # {} PROVE FALSE
  OBVIOUS
<1>2. PICK M \in T : \A X \in T : X \subseteq M => X = M
  <2> HIDE DEF T
  <2>1. T \subseteq SUBSET S
    BY DEF T
  <2> QED
    BY <1>1, <2>1, Smallest
<1>3. M # {} /\ IsFiniteSet(M)
  <2>1. Sum(f, {}) = 0 /\ Sum(g, {}) = 0
    BY SumEmpty
  <2>2. Sum(g, {}) = Sum(f, {}) + (IF e \in {} THEN d ELSE 0)
    BY <2>1
  <2>3. {} \notin T
    BY <2>2
  <2> QED
    BY <1>2, <2>3, FS_Subset
<1>4. Pick(M) \in M
  BY <1>3, Picked
<1> DEFINE R == M \ {Pick(M)}
<1>5. R \in SUBSET S /\ R \notin T /\ IsFiniteSet(R)
  BY <1>2, <1>3, <1>4, FS_Subset
<1>6. Sum(g, R) = Sum(f, R) + (IF e \in R THEN d ELSE 0)
  BY <1>5
<1>7. /\ Sum(f, M) = f[Pick(M)] + Sum(f, R)
      /\ Sum(g, M) = g[Pick(M)] + Sum(g, R)
  BY <1>3, SumStep
<1>8. Sum(f, R) \in Int /\ f[Pick(M)] \in Int
  BY <1>2, <1>4, <1>5, SumInt
<1>9. g[Pick(M)] = f[Pick(M)] + (IF Pick(M) = e THEN d ELSE 0)
  BY <1>2, <1>4
<1>10. e \in M <=> e \in R \/ e = Pick(M)
  BY <1>4
<1>11. ~(e \in R /\ e = Pick(M))
  OBVIOUS
<1>12. Sum(g, M) = Sum(f, M) + (IF e \in M THEN d ELSE 0)
  <2> HIDE DEF R
  <2> QED
    BY <1>6, <1>7, <1>8, <1>9, <1>10, <1>11
<1> QED
  BY <1>2, <1>12

\* Any element may be taken out first.
LEMMA SumTake ==
  ASSUME NEW S, IsFiniteSet(S), NEW f, \A x \in S : f[x] \in Int, NEW e \in S
  PROVE  Sum(f, S) = Sum(f, S \ {e}) + f[e]
<1> DEFINE T == {X \in SUBSET S : \E y \in X : Sum(f, X) # Sum(f, X \ {y}) + f[y]}
<1>1. SUFFICES ASSUME T # {} PROVE FALSE
  OBVIOUS
<1>2. PICK M \in T : \A X \in T : X \subseteq M => X = M
  <2> HIDE DEF T
  <2>1. T \subseteq SUBSET S
    BY DEF T
  <2> QED
    BY <1>1, <2>1, Smallest
<1>3. PICK y \in M : Sum(f, M) # Sum(f, M \ {y}) + f[y]
  BY <1>2
<1>4. M # {} /\ IsFiniteSet(M) /\ Pick(M) \in M /\ M \subseteq S
  BY <1>2, FS_Subset, Picked
<1>5. PICK p : p = Pick(M)
  OBVIOUS
<1>6. /\ p \in M /\ f[p] \in Int /\ f[y] \in Int
      /\ Sum(f, M) = f[p] + Sum(f, M \ {p})
  BY <1>3, <1>4, <1>5, SumStep
<1>7. Sum(f, M \ {p}) \in Int
  <2>1. IsFiniteSet(M \ {p})
    BY <1>4, FS_Subset
  <2> QED
    BY <1>4, <2>1, SumInt
<1>8. p # y
  <2> HIDE DEF T
  <2> SUFFICES ASSUME p = y PROVE FALSE
    OBVIOUS
  <2>1. M \ {p} = M \ {y}
    OBVIOUS
  <2>2. f[p] = f[y]
    OBVIOUS
  <2>3. Sum(f, M) = Sum(f, M \ {p}) + f[p]
    BY <1>6, <1>7
  <2> QED
    BY <1>3, <2>1, <2>2, <2>3
<1>9. M \ {p} \in SUBSET S /\ M \ {p} \notin T /\ M \ {y} \in SUBSET S /\ M \ {y} \notin T
  <2>1. M \ {p} # M /\ M \ {y} # M
    BY <1>3, <1>6
  <2> QED
    BY <1>2, <1>4, <2>1
<1>10. /\ Sum(f, M \ {p}) = Sum(f, (M \ {p}) \ {y}) + f[y]
       /\ Sum(f, M \ {y}) = Sum(f, (M \ {y}) \ {p}) + f[p]
  BY <1>3, <1>6, <1>8, <1>9
<1>11. (M \ {p}) \ {y} = (M \ {y}) \ {p}
  OBVIOUS
<1>12. Sum(f, (M \ {p}) \ {y}) \in Int
  <2>1. IsFiniteSet((M \ {p}) \ {y}) /\ (M \ {p}) \ {y} \subseteq S
    BY <1>4, FS_Subset
  <2> QED
    BY <2>1, SumInt
<1>13. Sum(f, M) = Sum(f, M \ {y}) + f[y]
  <2> HIDE DEF T
  <2>1. PICK rest \in Int : rest = Sum(f, (M \ {p}) \ {y}) /\ rest = Sum(f, (M \ {y}) \ {p})
    BY <1>11, <1>12
  <2>2. PICK fp \in Int, fy \in Int : fp = f[p] /\ fy = f[y]
    BY <1>6
  <2>3. Sum(f, M \ {p}) = rest + fy /\ Sum(f, M \ {y}) = rest + fp
    BY <1>10, <2>1, <2>2
  <2>4. Sum(f, M) = fp + (rest + fy)
    BY <1>6, <2>2, <2>3
  <2>5. fp + (rest + fy) = (rest + fp) + fy
    OBVIOUS
  <2> QED
    BY <2>2, <2>3, <2>4, <2>5
<1> QED
  BY <1>3, <1>13

\* Functions that agree on a set have the same sum over it.
LEMMA SumSame ==
  ASSUME NEW S, IsFiniteSet(S), NEW f, NEW g, \A x \in S : f[x] \in Int /\ g[x] = f[x]
  PROVE  Sum(g, S) = Sum(f, S)
<1>1. \A x \in S : g[x] = f[x] + (IF x = 0 THEN 0 ELSE 0)
  OBVIOUS
<1>2. Sum(g, S) = Sum(f, S) + (IF 0 \in S THEN 0 ELSE 0)
  BY <1>1, SumChange
<1>3. Sum(f, S) \in Int
  BY SumInt
<1> QED
  BY <1>2, <1>3

\* Naturals add up to a natural.
LEMMA SumNat ==
  ASSUME NEW S, IsFiniteSet(S), NEW f, \A x \in S : f[x] \in Nat
  PROVE  Sum(f, S) \in Nat
<1> DEFINE T == {X \in SUBSET S : Sum(f, X) \notin Nat}
<1>1. SUFFICES ASSUME T # {} PROVE FALSE
  OBVIOUS
<1>2. PICK M \in T : \A X \in T : X \subseteq M => X = M
  <2> HIDE DEF T
  <2>1. T \subseteq SUBSET S
    BY DEF T
  <2> QED
    BY <1>1, <2>1, Smallest
<1>3. M # {} /\ IsFiniteSet(M)
  <2>1. {} \notin T
    BY SumEmpty
  <2> QED
    BY <1>2, <2>1, FS_Subset
<1>4. Pick(M) \in M
  BY <1>3, Picked
<1>5. M \ {Pick(M)} \in SUBSET S /\ M \ {Pick(M)} \notin T
  BY <1>2, <1>4
<1>6. Sum(f, M) = f[Pick(M)] + Sum(f, M \ {Pick(M)})
  BY <1>3, SumStep
<1>7. Sum(f, M \ {Pick(M)}) \in Nat /\ f[Pick(M)] \in Nat
  BY <1>2, <1>4, <1>5
<1>8. Sum(f, M) \in Nat
  <2> HIDE DEF T
  <2> QED
    BY <1>6, <1>7
<1> QED
  BY <1>2, <1>8

\* A sum is that of two parts.
LEMMA SumSplit ==
  ASSUME NEW S, IsFiniteSet(S), NEW f, \A x \in S : f[x] \in Int, NEW P
  PROVE  Sum(f, S) = Sum(f, S \cap P) + Sum(f, S \ P)
<1> DEFINE T == {X \in SUBSET S : Sum(f, X) # Sum(f, X \cap P) + Sum(f, X \ P)}
<1>1. SUFFICES ASSUME T # {} PROVE FALSE
  OBVIOUS
<1>2. PICK M \in T : \A X \in T : X \subseteq M => X = M
  <2> HIDE DEF T
  <2>1. T \subseteq SUBSET S
    BY DEF T
  <2> QED
    BY <1>1, <2>1, Smallest
<1>3. M # {}
  <2>1. {} \cap P = {} /\ {} \ P = {}
    OBVIOUS
  <2>2. {} \notin T
    BY <2>1, SumEmpty
  <2> QED
    BY <1>2, <2>2
<1>4. PICK p : p \in M
  BY <1>3
<1>5. /\ M \subseteq S /\ IsFiniteSet(M) /\ IsFiniteSet(M \cap P) /\ IsFiniteSet(M \ P)
      /\ f[p] \in Int
  BY <1>2, <1>4, FS_Subset
<1> DEFINE R == M \ {p}
<1>6. R \in SUBSET S /\ R \notin T /\ R # M
  BY <1>2, <1>4
<1>7. Sum(f, R) = Sum(f, R \cap P) + Sum(f, R \ P)
  BY <1>6
<1>8. Sum(f, M) = Sum(f, R) + f[p]
  <2>1. \A x \in M : f[x] \in Int
    BY <1>5
  <2> QED
    BY <1>4, <1>5, <2>1, SumTake
<1>9. Sum(f, R \cap P) \in Int /\ Sum(f, R \ P) \in Int
  <2>1. IsFiniteSet(R \cap P) /\ IsFiniteSet(R \ P)
    BY <1>5, FS_Subset
  <2>2. \A x \in R : f[x] \in Int
    BY <1>6
  <2> QED
    BY <2>1, <2>2, SumInt
<1>10. Sum(f, M) = Sum(f, M \cap P) + Sum(f, M \ P)
  <2>1. CASE p \in P
    <3>1. (M \cap P) \ {p} = R \cap P /\ M \ P = R \ P
      BY <2>1
    <3>2. Sum(f, M \cap P) = Sum(f, R \cap P) + f[p]
      <4>1. \A x \in M \cap P : f[x] \in Int
        BY <1>5
      <4>2. p \in M \cap P
        BY <1>4, <2>1
      <4> QED
        BY <1>5, <3>1, <4>1, <4>2, SumTake
    <3>3. Sum(f, M \ P) = Sum(f, R \ P)
      BY <3>1
    <3> HIDE DEF R, T
    <3> QED
      BY <1>5, <1>7, <1>8, <1>9, <3>2, <3>3
  <2>2. CASE p \notin P
    <3>1. (M \ P) \ {p} = R \ P /\ M \cap P = R \cap P
      BY <2>2
    <3>2. Sum(f, M \ P) = Sum(f, R \ P) + f[p]
      <4>1. \A x \in M \ P : f[x] \in Int
        BY <1>5
      <4>2. p \in M \ P
        BY <1>4, <2>2
      <4> QED
        BY <1>5, <3>1, <4>1, <4>2, SumTake
    <3>3. Sum(f, M \cap P) = Sum(f, R \cap P)
      BY <3>1
    <3> HIDE DEF R, T
    <3> QED
      BY <1>5, <1>7, <1>8, <1>9, <3>2, <3>3
  <2> QED
    BY <2>1, <2>2
<1> QED
  BY <1>2, <1>10

\* A part of naturals adds up to no more than the whole.
LEMMA SumPart ==
  ASSUME NEW S, IsFiniteSet(S), NEW f, \A x \in S : f[x] \in Nat, NEW P \in SUBSET S
  PROVE  Sum(f, P) <= Sum(f, S)
<1>1. \A x \in S : f[x] \in Int
  OBVIOUS
<1>2. Sum(f, S) = Sum(f, S \cap P) + Sum(f, S \ P)
  BY <1>1, SumSplit
<1>3. S \cap P = P /\ IsFiniteSet(P) /\ IsFiniteSet(S \ P)
  BY FS_Subset
<1>4. Sum(f, P) \in Nat /\ Sum(f, S \ P) \in Nat
  BY <1>3, SumNat
<1> QED
  BY <1>2, <1>3, <1>4

\* The sums of the community modules are these.
LEMMA SumIs ==
  ASSUME NEW f
  PROVE  /\ \A S : SumFunctionOnSet(f, S) = Sum(f, S)
         /\ SumFunction(f) = Sum(f, DOMAIN f)
BY DEF SumFunction, SumFunctionOnSet, FoldFunctionOnSet, MapThenFoldSet, Sum, SumOf, IsSum, Pick

\* The sum of a sequence grows with what is appended.
LEMMA SumAppended ==
  ASSUME NEW s \in Seq(Nat), NEW x \in Nat
  PROVE  /\ SumFunction(<<>>) = 0
         /\ SumFunction(s) \in Int
         /\ SumFunction(Append(s, x)) = SumFunction(s) + x
<1>1. \A f : SumFunction(f) = Sum(f, DOMAIN f)
  BY SumIs
<1>2. DOMAIN <<>> = {}
  OBVIOUS
<1>3. PICK n \in Nat : n = Len(s)
  OBVIOUS
<1>4. DOMAIN s = 1..n /\ IsFiniteSet(1..n) /\ IsFiniteSet(1..n + 1)
  BY <1>3, FS_Interval
<1>5. Sum(s, 1..n) \in Int
  <2>1. \A i \in 1..n : s[i] \in Int
    BY <1>3
  <2> QED
    BY <1>4, <2>1, SumInt
<1>6. PICK t : t = Append(s, x)
  OBVIOUS
<1>7. DOMAIN t = 1..n + 1 /\ t[n + 1] = x /\ \A i \in 1..n : s[i] \in Int /\ t[i] = s[i]
  BY <1>3, <1>6
<1>8. Sum(t, 1..n + 1) = Sum(t, (1..n + 1) \ {n + 1}) + t[n + 1]
  <2>1. \A i \in 1..n + 1 : t[i] \in Int
    BY <1>7
  <2>2. n + 1 \in 1..n + 1
    OBVIOUS
  <2> QED
    BY <1>4, <2>1, <2>2, SumTake
<1>9. (1..n + 1) \ {n + 1} = 1..n
  OBVIOUS
<1>10. Sum(t, 1..n) = Sum(s, 1..n)
  BY <1>4, <1>7, SumSame
<1>11. SumFunction(<<>>) = 0
  BY <1>1, <1>2, SumEmpty
<1>12. SumFunction(s) = Sum(s, 1..n)
  BY <1>1, <1>4
<1>13. SumFunction(t) = Sum(s, 1..n) + x
  BY <1>1, <1>7, <1>8, <1>9, <1>10
<1> QED
  BY <1>5, <1>6, <1>11, <1>12, <1>13

-----------------------------------------------------------------------------
(***************************************************************************)
(* Least and greatest numbers of a set.                                    *)
(***************************************************************************)

\* A nonempty set of natural numbers has a least element.
LEMMA Least ==
  ASSUME NEW T \in SUBSET Nat, T # {} PROVE \E m \in T : \A k \in T : m <= k
<1>1. PICK t \in T : TRUE
  OBVIOUS
<1> DEFINE S == 0..t
           U == {0..k : k \in {j \in T : j <= t}}
<1>2. U \subseteq SUBSET S /\ U # {}
  BY <1>1
<1>3. IsFiniteSet(S)
  BY <1>1, FS_Interval
<1>4. PICK M \in U : \A X \in U : X \subseteq M => X = M
  <2> HIDE DEF U, S
  <2> QED
    BY <1>2, <1>3, Smallest
<1>5. PICK m \in T : m <= t /\ M = 0..m
  BY <1>4
<1>6. ASSUME NEW k \in T, k < m PROVE FALSE
  <2>1. 0..k \in U /\ 0..k \subseteq M
    BY <1>1, <1>5, <1>6
  <2>2. 0..k = 0..m
    BY <1>4, <1>5, <2>1
  <2>3. m \in 0..m /\ m \notin 0..k
    BY <1>6
  <2> QED
    BY <2>2, <2>3
<1> QED
  BY <1>5, <1>6

\* A bounded, nonempty set of natural numbers has a greatest element.
LEMMA Greatest ==
  ASSUME NEW n \in Nat, NEW S \in SUBSET (0..n), S # {}
  PROVE  Max(S) \in S /\ \A x \in S : x <= Max(S)
<1> DEFINE T == {k \in Nat : \A x \in S : x <= k}
<1>1. T \in SUBSET Nat /\ n \in T
  OBVIOUS
<1>2. PICK m \in T : \A k \in T : m <= k
  <2> HIDE DEF T
  <2> QED
    BY <1>1, Least
<1>3. m \in S
  <2> SUFFICES ASSUME m \notin S PROVE FALSE
    OBVIOUS
  <2>1. PICK x \in S : TRUE
    OBVIOUS
  <2>2. \A y \in S : y \in Int /\ y <= m - 1
    BY <1>2
  <2>3. m - 1 \in T
    BY <1>2, <2>1, <2>2
  <2> QED
    BY <1>2, <2>3
<1>4. \A x \in S : m >= x
  BY <1>2
<1> QED
  BY <1>3, <1>4 DEF Max

\* An element no other exceeds is the greatest.
LEMMA GreatestIs ==
  ASSUME NEW S \in SUBSET Int, NEW m \in S, \A x \in S : x <= m
  PROVE  Max(S) = m
<1>1. \A x \in S : m >= x
  OBVIOUS
<1>2. Max(S) \in S /\ \A x \in S : Max(S) >= x
  BY <1>1 DEF Max
<1>3. Max(S) \in Int /\ Max(S) >= m /\ Max(S) <= m /\ m \in Int
  BY <1>2
<1> QED
  BY <1>3

=============================================================================
