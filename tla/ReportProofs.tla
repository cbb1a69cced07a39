---------------------------- MODULE ReportProofs ----------------------------
(***************************************************************************)
(* Proofs about Report, for any file, any cap and any interleaving with    *)
(* the process that appends: what the report shows, that its spool goes,   *)
(* and that its strip is an even selection of the samples.                 *)
(***************************************************************************)
EXTENDS Report, FiniteSetTheorems, TLAPS

Lines == Micros \cup {NoTTFT, Invalid}
Stages == {"open", "copy", "header", "rows", "done"}

\* Every variable has its type.
Types ==
  /\ source \in Seq(Lines) /\ half \in BOOLEAN
  /\ pc \in Stages
  /\ spool \in Seq(Lines \ {Invalid}) /\ spooled \in BOOLEAN
  /\ header \in Nat \cup {None} /\ rows \in Seq(Lines) /\ footer \in BOOLEAN
  /\ returnErr \in BOOLEAN /\ lostSpool \in BOOLEAN
  /\ seen \in Nat \cup {None}

\* The spool is the file as far as it has been read, the rows the spool as
\* far as it has been written; an append changes neither.
Prefixes ==
  /\ Len(spool) <= Len(source) /\ \A i \in 1..Len(spool) : spool[i] = source[i]
  /\ Len(rows) <= Len(spool) /\ \A i \in 1..Len(rows) : rows[i] = spool[i]

\* What has been established at each stage.
StageReached ==
  /\ pc \in {"open", "copy"} => header = None /\ seen = None /\ rows = <<>> /\ ~footer
  /\ pc \in {"header", "rows"} => seen = Len(spool)
  /\ pc = "header" => header = None
  /\ pc = "rows" => header # None
  /\ header # None => header = Len(spool) /\ seen = Len(spool)
  /\ pc = "done" /\ ~returnErr => header # None /\ rows = spool /\ footer

\* The spool is there between its creation and its removal.
SpoolThere ==
  /\ pc = "open" => ~spooled
  /\ pc \in {"copy", "header", "rows"} => spooled
  /\ pc # "done" => ~returnErr /\ ~lostSpool
  /\ pc = "done" => (spooled <=> lostSpool) /\ (lostSpool => returnErr)

Shown == Types /\ Prefixes /\ StageReached /\ SpoolThere

-----------------------------------------------------------------------------
LEMMA SameSequence ==
  ASSUME NEW S, NEW s \in Seq(S), NEW t \in Seq(S), Len(s) = Len(t), \A i \in 1..Len(s) : s[i] = t[i]
  PROVE  s = t
  OBVIOUS

LEMMA Lengths == Types => Len(source) \in Nat /\ Len(spool) \in Nat /\ Len(rows) \in Nat
  BY DEF Types

\* An error removes the spool, or fails to; going on leaves it.
LEMMA FailRemoves ==
  ASSUME Types, Fail
  PROVE  /\ pc' = "done" /\ returnErr' = TRUE
         /\ spooled' \in BOOLEAN /\ lostSpool' \in BOOLEAN
         /\ SpoolThere'
<1> USE DEF Fail, Goto
<1>1. PICK fails \in {FALSE, spooled} : spooled' = fails /\ lostSpool' = fails
  OBVIOUS
<1>2. fails \in BOOLEAN
  BY DEF Types
<1>3. pc' = "done" /\ returnErr' = TRUE
  OBVIOUS
<1> QED
  BY <1>1, <1>2, <1>3 DEF SpoolThere

LEMMA GoingKeeps ==
  ASSUME Types, SpoolThere, pc \notin {"open", "done"}, NEW next, next \notin {"open", "done"}, Going(next)
  PROVE  /\ pc' = next /\ returnErr' = returnErr
         /\ spooled' \in BOOLEAN /\ lostSpool' \in BOOLEAN
         /\ SpoolThere'
<1>1. pc' = next /\ spooled' = spooled /\ returnErr' = returnErr /\ lostSpool' = lostSpool
  BY DEF Going, Goto
<1> QED
  BY <1>1 DEF Types, Stages, SpoolThere

LEMMA ShownInit == Init => Shown
<1> SUFFICES ASSUME Init PROVE Shown
  OBVIOUS
<1> USE DEF Init, None
<1>1. Types
  <2>1. <<>> \in Seq(Lines) /\ <<>> \in Seq(Lines \ {Invalid})
    OBVIOUS
  <2> QED
    BY <2>1 DEF Types, Stages
<1>2. Prefixes /\ StageReached /\ SpoolThere
  BY DEF Prefixes, StageReached, SpoolThere
<1> QED
  BY <1>1, <1>2 DEF Shown

\* The other process has begun a line.
LEMMA AppendHalfShown == ASSUME Shown, AppendHalf PROVE Shown'
<1> USE DEF Shown, AppendHalf, Goto, file, samples, output
<1>1. Types'
  BY DEF Types
<1>2. Prefixes' /\ StageReached'
  BY DEF Prefixes, StageReached
<1>3. SpoolThere'
  BY DEF SpoolThere
<1> QED
  BY <1>1, <1>2, <1>3

\* A line more does not change those that are copied.
LEMMA AppendRestShown == ASSUME Shown, AppendRest PROVE Shown'
<1> USE DEF Shown, AppendRest, Goto, file, samples, output
<1>1. PICK line \in Lines : source' = Append(source, line)
  BY DEF Lines
<1>2. source' \in Seq(Lines) /\ Len(source') = Len(source) + 1 /\ \A i \in 1..Len(source) : source'[i] = source[i]
  BY <1>1 DEF Types
<1>3. Types'
  BY <1>2 DEF Types
<1>4. Prefixes' /\ StageReached'
  BY <1>2, Lengths DEF Prefixes, StageReached
<1>5. SpoolThere'
  BY DEF SpoolThere
<1> QED
  BY <1>3, <1>4, <1>5

\* The spool is created.
LEMMA OpenShown == ASSUME Shown, Open PROVE Shown'
<1> USE DEF Shown, Open, Goto, file, samples, output
<1>1. CASE Fail
  <2>1. Types' /\ SpoolThere'
    BY <1>1, FailRemoves DEF Types, Stages
  <2>2. Prefixes' /\ StageReached'
    BY <1>1, FailRemoves DEF Prefixes, StageReached
  <2> QED
    BY <2>1, <2>2
<1>2. CASE pc' = "copy" /\ spooled' = TRUE /\ UNCHANGED <<returnErr, lostSpool>>
  <2>1. Types'
    BY <1>2 DEF Types, Stages
  <2>2. SpoolThere'
    BY <1>2 DEF SpoolThere
  <2>3. Prefixes' /\ StageReached'
    BY <1>2 DEF Prefixes, StageReached
  <2> QED
    BY <2>1, <2>2, <2>3
<1> QED
  BY <1>1, <1>2

\* A line that is valid is copied.
LEMMA CopyShown == ASSUME Shown, Copy PROVE Shown'
<1> USE DEF Shown, Copy, Goto, file, samples, output
<1>1. CASE Fail /\ spool' = spool
  <2>1. Types' /\ SpoolThere'
    BY <1>1, FailRemoves DEF Types, Stages
  <2>2. Prefixes' /\ StageReached'
    BY <1>1, FailRemoves DEF Prefixes, StageReached
  <2> QED
    BY <2>1, <2>2
<1>2. CASE /\ source[Len(spool) + 1] # Invalid /\ spool' = Append(spool, source[Len(spool) + 1])
           /\ Going("copy")
  <2>1. Len(spool) + 1 \in 1..Len(source)
    BY Lengths
  <2>2. source[Len(spool) + 1] \in Lines \ {Invalid}
    BY <1>2, <2>1 DEF Types
  <2>3. /\ spool' \in Seq(Lines \ {Invalid}) /\ Len(spool') = Len(spool) + 1
        /\ spool'[Len(spool) + 1] = source[Len(spool) + 1]
        /\ \A i \in 1..Len(spool) : spool'[i] = spool[i]
    BY <1>2, <2>2 DEF Types
  <2>4. Types' /\ SpoolThere'
    BY <1>2, <2>3, GoingKeeps DEF Types, Stages
  <2>5. Prefixes' /\ StageReached'
    BY <1>2, <2>1, <2>3, Lengths, GoingKeeps DEF Prefixes, StageReached
  <2> QED
    BY <2>4, <2>5
<1> QED
  BY <1>1, <1>2 DEF samples

\* The end of the file, seen between two lines.
LEMMA CopyEndShown == ASSUME Shown, CopyEnd PROVE Shown'
<1> USE DEF Shown, CopyEnd, Goto, file, samples, output
<1>1. seen' \in Nat /\ (~half => seen' = Len(spool))
  BY Lengths
<1>2. CASE Fail
  <2>1. Types' /\ SpoolThere'
    BY <1>1, <1>2, FailRemoves DEF Types, Stages
  <2>2. Prefixes' /\ StageReached'
    BY <1>2, FailRemoves DEF Prefixes, StageReached
  <2> QED
    BY <2>1, <2>2
<1>3. CASE ~half /\ Going("header")
  <2>1. Types' /\ SpoolThere'
    BY <1>1, <1>3, GoingKeeps DEF Types, Stages
  <2>2. Prefixes' /\ StageReached'
    BY <1>1, <1>3, GoingKeeps DEF Prefixes, StageReached
  <2> QED
    BY <2>1, <2>2
<1> QED
  BY <1>2, <1>3

\* The header counts the lines of the spool.
LEMMA HeaderShown == ASSUME Shown, Header PROVE Shown'
<1> USE DEF Shown, Header, Goto, file, samples, output
<1>1. header' \in Nat /\ header' # None
  BY Lengths DEF None
<1>2. CASE Fail
  <2>1. Types' /\ SpoolThere'
    BY <1>1, <1>2, FailRemoves DEF Types, Stages
  <2>2. Prefixes' /\ StageReached'
    BY <1>2, FailRemoves DEF Prefixes, StageReached
  <2> QED
    BY <2>1, <2>2
<1>3. CASE Going("rows")
  <2>1. Types' /\ SpoolThere'
    BY <1>1, <1>3, GoingKeeps DEF Types, Stages
  <2>2. Prefixes' /\ StageReached'
    BY <1>1, <1>3, GoingKeeps DEF Prefixes, StageReached
  <2> QED
    BY <2>1, <2>2
<1> QED
  BY <1>2, <1>3

\* A row shows a line of the spool.
LEMMA RowShown == ASSUME Shown, Row PROVE Shown'
<1> USE DEF Shown, Row, Goto, file, samples, output
<1>1. CASE Fail /\ rows' = rows
  <2>1. Types' /\ SpoolThere'
    BY <1>1, FailRemoves DEF Types, Stages
  <2>2. Prefixes' /\ StageReached'
    BY <1>1, FailRemoves DEF Prefixes, StageReached
  <2> QED
    BY <2>1, <2>2
<1>2. CASE rows' = Append(rows, spool[Len(rows) + 1]) /\ Going("rows")
  <2>1. Len(rows) + 1 \in 1..Len(spool)
    BY Lengths
  <2>2. spool[Len(rows) + 1] \in Lines
    BY <2>1 DEF Types
  <2>3. /\ rows' \in Seq(Lines) /\ Len(rows') = Len(rows) + 1
        /\ rows'[Len(rows) + 1] = spool[Len(rows) + 1]
        /\ \A i \in 1..Len(rows) : rows'[i] = rows[i]
    BY <1>2, <2>2 DEF Types
  <2>4. Types' /\ SpoolThere'
    BY <1>2, <2>3, GoingKeeps DEF Types, Stages
  <2>5. Prefixes' /\ StageReached'
    BY <1>2, <2>1, <2>3, Lengths, GoingKeeps DEF Prefixes, StageReached
  <2> QED
    BY <2>4, <2>5
<1> QED
  BY <1>1, <1>2

\* The report is complete, or an error says that it is not.
LEMMA FooterShown == ASSUME Shown, Footer PROVE Shown'
<1> USE DEF Shown, Footer, Goto, file, samples, output
<1>1. rows = spool
  <2>1. spool \in Seq(Lines)
    BY DEF Types
  <2> QED
    BY <2>1, SameSequence DEF Types, Prefixes
<1>2. footer' \in BOOLEAN
  OBVIOUS
<1>3. CASE Fail
  <2>1. Types' /\ SpoolThere'
    BY <1>2, <1>3, FailRemoves DEF Types, Stages
  <2>2. Prefixes' /\ StageReached'
    BY <1>3, FailRemoves DEF Prefixes, StageReached
  <2> QED
    BY <2>1, <2>2
<1>4. CASE footer' = TRUE /\ pc' = "done" /\ spooled' = FALSE /\ UNCHANGED <<returnErr, lostSpool>>
  <2>1. Types'
    BY <1>4 DEF Types, Stages
  <2>2. SpoolThere'
    BY <1>4 DEF SpoolThere
  <2>3. Prefixes' /\ StageReached'
    BY <1>1, <1>4 DEF Prefixes, StageReached
  <2> QED
    BY <2>1, <2>2, <2>3
<1>5. CASE footer' = TRUE /\ returnErr' = TRUE /\ lostSpool' = TRUE /\ pc' = "done" /\ UNCHANGED spooled
  <2>1. spooled
    BY DEF SpoolThere
  <2>2. Types' /\ SpoolThere'
    BY <1>5, <2>1 DEF Types, Stages, SpoolThere
  <2>3. Prefixes' /\ StageReached'
    BY <1>5 DEF Prefixes, StageReached
  <2> QED
    BY <2>2, <2>3
<1> QED
  BY <1>3, <1>4, <1>5

LEMMA ShownStep == Shown /\ [Next]_vars => Shown'
<1> SUFFICES ASSUME Shown, [Next]_vars PROVE Shown'
  OBVIOUS
<1>1. CASE UNCHANGED vars
  BY <1>1 DEF vars, file, output, Shown, Types, Prefixes, StageReached, SpoolThere
<1> QED
  BY <1>1, AppendHalfShown, AppendRestShown, OpenShown, CopyShown, CopyEndShown, HeaderShown, RowShown,
     FooterShown DEF Next, Done

-----------------------------------------------------------------------------
\* The inductive invariant holds throughout.
THEOREM ReportInvariance == Spec => []Shown
  BY ShownInit, ShownStep, PTL DEF Spec

\* A report that is returned without an error shows the records that the file
\* had when its end was reached, all of them and each valid and complete,
\* whatever another process appends in the meantime.
THEOREM ReportIsASnapshot == Spec => []SnapshotShown
<1>1. Shown => SnapshotShown
  <2> SUFFICES ASSUME Shown PROVE SnapshotShown
    OBVIOUS
  <2>1. ASSUME header # None PROVE spool = SubSeq(source, 1, seen) /\ \A i \in 1..seen : source[i] # Invalid
    <3>1. seen = Len(spool) /\ seen \in Nat /\ seen <= Len(source) /\ Len(source) \in Nat
      BY <2>1, Lengths DEF Shown, StageReached, Prefixes
    <3>2. \A i \in 1..seen : spool[i] = source[i] /\ source[i] # Invalid
      BY <3>1 DEF Shown, Types, Prefixes
    <3>3. spool \in Seq(Lines) /\ source \in Seq(Lines)
      BY DEF Shown, Types
    <3>4. /\ SubSeq(source, 1, seen) \in Seq(Lines) /\ Len(SubSeq(source, 1, seen)) = seen
          /\ \A i \in 1..seen : SubSeq(source, 1, seen)[i] = source[i]
      BY <3>1, <3>3
    <3> QED
      BY <3>1, <3>2, <3>3, <3>4, SameSequence
  <2> QED
    BY <2>1 DEF Shown, StageReached, SnapshotShown
<1> QED
  BY <1>1, ReportInvariance, PTL

\* However WriteHTML ends, the spool is gone, or the error says that it is not.
THEOREM SpoolGone == Spec => []SpoolRemoved
<1>1. Shown => SpoolRemoved
  BY DEF Shown, SpoolThere, SpoolRemoved
<1> QED
  BY <1>1, ReportInvariance, PTL

-----------------------------------------------------------------------------
(***************************************************************************)
(* The strip.  A sample's rank is the number of samples before it; the     *)
(* points are the samples whose rank is a multiple of the stride, and they *)
(* stay so when every other point goes and the stride doubles.             *)
(***************************************************************************)
\* The multiples of the step that are below the number of samples.
Chosen(count, step, observed) == (count - 1) * step < observed /\ observed <= count * step

\* These points are the first sample and each step-th after it.
PointsAt(points, step) ==
  /\ points \in Seq([request : Nat, micros : Micros])
  /\ \A k \in 1..Len(points) :
       /\ points[k].request \in Numbered /\ RankOf(points[k].request) = (k - 1) * step
       /\ points[k].micros = spool[points[k].request]

Strip ==
  /\ Observed = Cardinality(Numbered) /\ stride \in Nat /\ Len(Points) <= Cap
  /\ PointsAt(Points, stride)
  /\ IF Observed = 0 THEN stride = 0 /\ Points = <<>>
                     ELSE stride > 0 /\ Chosen(Len(Points), stride, Observed)
  /\ stride > 1 => \E s \in Nat \ {0} : stride = s * 2 /\ Cap * s <= Observed - 1

\* Its range is that of the samples.
StripRange ==
  Numbered # {} => /\ \A i \in Numbered : Min <= spool[i] /\ spool[i] <= Max
                   /\ {Min, Max} \subseteq {spool[i] : i \in Numbered}

LEMMA NumberedIs ==
  ASSUME Types
  PROVE  /\ IsFiniteSet(Numbered) /\ Cardinality(Numbered) \in Nat
         /\ Numbered \subseteq 1..Len(spool)
         /\ \A i \in Numbered : spool[i] \in Micros
<1>1. Len(spool) \in Nat /\ \A i \in 1..Len(spool) : spool[i] \in Lines \ {Invalid}
  BY DEF Types
<1>2. IsFiniteSet(1..Len(spool)) /\ Numbered \in SUBSET (1..Len(spool))
  BY <1>1, FS_Interval DEF Numbered
<1>3. IsFiniteSet(Numbered)
  BY <1>2, FS_Subset
<1>4. \A i \in Numbered : spool[i] \in Micros
  BY <1>1 DEF Numbered, Lines
<1> QED
  BY <1>2, <1>3, <1>4, FS_CardinalityType

LEMMA RankIs ==
  ASSUME Types, NEW i \in Numbered
  PROVE  RankOf(i) \in Nat /\ RankOf(i) < Cardinality(Numbered)
<1> DEFINE below == {j \in Numbered : j < i}
<1>1. below \in SUBSET Numbered /\ i \notin below
  BY NumberedIs
<1>2. IsFiniteSet(below) /\ Cardinality(below) <= Cardinality(Numbered) /\ Cardinality(below) # Cardinality(Numbered)
  BY <1>1, NumberedIs, FS_Subset
<1>3. Cardinality(below) \in Nat
  BY <1>2, FS_CardinalityType
<1> QED
  BY <1>2, <1>3, NumberedIs DEF RankOf

LEMMA RankIncreases ==
  ASSUME Types, NEW i \in Numbered, NEW j \in Numbered, i < j
  PROVE  RankOf(i) < RankOf(j)
<1> DEFINE belowI == {k \in Numbered : k < i}
           belowJ == {k \in Numbered : k < j}
<1>1. \A k \in Numbered : k \in Nat
  BY NumberedIs, Lengths
<1>2. belowI \in SUBSET belowJ /\ i \in belowJ /\ i \notin belowI
  BY <1>1
<1>3. IsFiniteSet(belowJ)
  BY NumberedIs, FS_Subset
<1>4. Cardinality(belowI) <= Cardinality(belowJ) /\ Cardinality(belowI) # Cardinality(belowJ)
  BY <1>2, <1>3, FS_Subset
<1>5. RankOf(i) \in Nat /\ RankOf(j) \in Nat
  BY RankIs
<1> QED
  BY <1>4, <1>5 DEF RankOf

LEMMA SameRank ==
  ASSUME Types, NEW i \in Numbered, NEW j \in Numbered, RankOf(i) = RankOf(j)
  PROVE  i = j
<1>1. \A k \in Numbered : k \in Nat /\ RankOf(k) \in Nat
  BY NumberedIs, Lengths, RankIs
<1>2. ~(i < j) /\ ~(j < i)
  BY <1>1, RankIncreases
<1> QED
  BY <1>1, <1>2

\* A record without a TTFT changes no rank.
LEMMA NotNumbered ==
  ASSUME Types, spool' = Append(spool, NoTTFT)
  PROVE  /\ Numbered' = Numbered
         /\ \A i \in Numbered : RankOf(i)' = RankOf(i) /\ spool'[i] = spool[i]
<1>1. /\ Len(spool) \in Nat /\ Len(spool') = Len(spool) + 1 /\ spool'[Len(spool) + 1] = NoTTFT
      /\ \A i \in 1..Len(spool) : spool'[i] = spool[i]
  BY DEF Types
<1>2. Numbered' = Numbered
  BY <1>1 DEF Numbered
<1>3. \A i \in Numbered : RankOf(i)' = RankOf(i)
  BY <1>2 DEF RankOf
<1> QED
  BY <1>1, <1>2, <1>3, NumberedIs

\* A sample comes after all others.
LEMMA NextNumbered ==
  ASSUME Types, NEW micros, micros # NoTTFT, spool' = Append(spool, micros),
         NEW last, last = Len(spool) + 1
  PROVE  /\ Numbered' = Numbered \cup {last} /\ last \notin Numbered
         /\ Cardinality(Numbered') = Cardinality(Numbered) + 1
         /\ RankOf(last)' = Cardinality(Numbered) /\ spool'[last] = micros
         /\ \A i \in Numbered : RankOf(i)' = RankOf(i) /\ spool'[i] = spool[i]
<1> DEFINE n == Len(spool)
<1>1. /\ n \in Nat /\ Len(spool') = n + 1 /\ spool'[n + 1] = micros
      /\ \A i \in 1..n : spool'[i] = spool[i]
  BY DEF Types
<1>2. \A i : i \in 1..(n + 1) <=> i \in 1..n \/ i = n + 1
  BY <1>1
<1>3. Numbered' = Numbered \cup {last} /\ last \notin Numbered
  BY <1>1, <1>2 DEF Numbered
<1>4. \A i \in Numbered : i \in 1..n
  BY NumberedIs
<1>5. Cardinality(Numbered') = Cardinality(Numbered) + 1
  BY <1>3, NumberedIs, FS_AddElement
<1>6. ASSUME NEW i \in Numbered PROVE RankOf(i)' = RankOf(i)
  <2>1. {j \in Numbered' : j < i} = {j \in Numbered : j < i}
    BY <1>1, <1>3, <1>4
  <2> QED
    BY <2>1 DEF RankOf
<1>7. RankOf(last)' = Cardinality(Numbered)
  <2>1. {j \in Numbered' : j < last} = Numbered
    BY <1>1, <1>3, <1>4
  <2> QED
    BY <2>1 DEF RankOf
<1> QED
  BY <1>1, <1>3, <1>4, <1>5, <1>6, <1>7

(***************************************************************************)
(* What add does to the points, in four cases.                             *)
(***************************************************************************)
LEMMA Remainder ==
  ASSUME NEW m \in Nat, NEW step \in Nat \ {0}, NEW r \in 0..(step - 1)
  PROVE  (m * step + r) % step = r
  OBVIOUS

LEMMA NotDue ==
  ASSUME NEW count \in Nat, NEW step \in Nat \ {0}, NEW observed \in Nat,
         Chosen(count, step, observed), observed % step # 0
  PROVE  Chosen(count, step, observed + 1)
<1>1. (count * step) % step = 0
  OBVIOUS
<1>2. observed # count * step
  BY <1>1
<1> QED
  BY <1>2 DEF Chosen

LEMMA Due ==
  ASSUME NEW count \in Nat, NEW step \in Nat \ {0}, NEW observed \in Nat,
         Chosen(count, step, observed), observed % step = 0
  PROVE  observed = count * step /\ Chosen(count + 1, step, observed + 1)
<1>1. PICK q \in Nat : observed = q * step
  OBVIOUS
<1>2. count - 1 < q
  <2>1. (count - 1) * step < q * step /\ count - 1 \in Int
    BY <1>1 DEF Chosen
  <2> QED
    BY <2>1
<1>3. q <= count
  <2>1. q * step < (count + 1) * step
    <3>1. (count + 1) * step = count * step + step
      OBVIOUS
    <3> QED
      BY <1>1, <3>1 DEF Chosen
  <2> QED
    BY <2>1
<1>4. q = count
  BY <1>2, <1>3
<1>5. (count + 1 - 1) * step = count * step /\ (count + 1) * step = count * step + step
  OBVIOUS
<1> QED
  BY <1>1, <1>4, <1>5 DEF Chosen

\* At an even cap the stride doubles and the sample is a point, ...
LEMMA ThinnedEven ==
  ASSUME NEW m \in Nat, NEW step \in Nat \ {0}, NEW observed \in Nat, observed = (2 * m) * step
  PROVE  /\ (2 * m + 1) \div 2 = m /\ observed % (step * 2) = 0 /\ observed = m * (step * 2)
         /\ Chosen(m + 1, step * 2, observed + 1)
<1> DEFINE double == step * 2
<1>1. observed = m * double /\ double \in Nat \ {0} /\ (2 * m + 1) \div 2 = m
  OBVIOUS
<1> HIDE DEF double
<1>2. (m * double) % double = 0
  <2>1. double \in Nat \ {0}
    BY <1>1
  <2> QED
    BY <2>1
<1>3. (m + 1 - 1) * double = m * double /\ (m + 1) * double = m * double + double
  BY <1>1
<1> QED
  BY <1>1, <1>2, <1>3 DEF Chosen, double

\* ... at an odd one it doubles and skips it.
LEMMA ThinnedOdd ==
  ASSUME NEW m \in Nat, NEW step \in Nat \ {0}, NEW observed \in Nat, observed = (2 * m + 1) * step
  PROVE  /\ (2 * m + 1 + 1) \div 2 = m + 1 /\ observed % (step * 2) # 0
         /\ Chosen(m + 1, step * 2, observed + 1)
<1> DEFINE double == step * 2
<1>1. observed = m * double + step /\ double \in Nat \ {0} /\ step \in 0..(double - 1)
      /\ (2 * m + 1 + 1) \div 2 = m + 1
  OBVIOUS
<1> HIDE DEF double
<1>2. (m * double + step) % double = step
  <2>1. double \in Nat \ {0} /\ step \in 0..(double - 1)
    BY <1>1
  <2> QED
    BY <2>1, Remainder
<1>3. (m + 1 - 1) * double = m * double /\ (m + 1) * double = m * double + double
  BY <1>1
<1> QED
  BY <1>1, <1>2, <1>3 DEF Chosen, double

\* The points are where they were, ...
LEMMA PointsStay ==
  ASSUME Types, NEW micros, spool' = Append(spool, micros), NEW points, NEW step, PointsAt(points, step)
  PROVE  PointsAt(points, step)'
<1>1. \A i \in Numbered : i \in Numbered' /\ RankOf(i)' = RankOf(i) /\ spool'[i] = spool[i]
  BY NotNumbered, NextNumbered
<1> QED
  BY <1>1 DEF PointsAt

\* ... the sample becomes the next one, ...
LEMMA PointAppended ==
  ASSUME NEW points, NEW step \in Nat, PointsAt(points, step)', NEW last \in Nat, NEW micros \in Micros,
         last \in Numbered', spool'[last] = micros, RankOf(last)' = Len(points) * step
  PROVE  PointsAt(Append(points, [request |-> last, micros |-> micros]), step)'
<1> DEFINE Samples == [request : Nat, micros : Micros]
           new == [request |-> last, micros |-> micros]
           more == Append(points, new)
<1>1. points \in Seq(Samples) /\ new \in Samples /\ new.request = last /\ new.micros = micros
  BY DEF PointsAt
<1>2. /\ more \in Seq(Samples) /\ Len(points) \in Nat /\ Len(more) = Len(points) + 1
      /\ more[Len(points) + 1] = new /\ \A k \in 1..Len(points) : more[k] = points[k]
  BY <1>1
<1>3. ASSUME NEW k \in 1..Len(more)
      PROVE  /\ more[k].request \in Numbered' /\ RankOf(more[k].request)' = (k - 1) * step
             /\ more[k].micros = spool'[more[k].request]
  <2>1. CASE k \in 1..Len(points)
    BY <1>2, <2>1 DEF PointsAt
  <2>2. CASE k = Len(points) + 1
    <3>1. k - 1 = Len(points) /\ more[k] = new
      BY <1>2, <2>2
    <3> QED
      BY <1>1, <3>1
  <2> QED
    BY <1>2, <2>1, <2>2
<1> QED
  BY <1>2, <1>3 DEF PointsAt

\* ... and every other point stays, twice as far apart.
LEMMA PointsThinned ==
  ASSUME NEW points, NEW step \in Nat, PointsAt(points, step), NEW count \in Nat,
         (Len(points) + 1) \div 2 = count
  PROVE  PointsAt(Compacted(points), step * 2) /\ Len(Compacted(points)) = count
<1> DEFINE Samples == [request : Nat, micros : Micros]
           kept == Compacted(points)
<1>1. points \in Seq(Samples) /\ Len(points) \in Nat
  BY DEF PointsAt
<1>2. kept = [k \in 1..count |-> points[2 * k - 1]]
  BY DEF Compacted
<1>3. \A k \in 1..count : 2 * k - 1 \in 1..Len(points)
  BY <1>1
<1> HIDE DEF Samples
<1>4. \A k \in 1..count : points[2 * k - 1] \in Samples
  <2>1. \A i \in 1..Len(points) : points[i] \in Samples
    BY <1>1
  <2> QED
    BY <1>3, <2>1
<1>5. kept \in Seq(Samples) /\ Len(kept) = count
  BY <1>2, <1>4
<1>6. ASSUME NEW k \in 1..count
      PROVE  /\ kept[k].request \in Numbered /\ RankOf(kept[k].request) = (k - 1) * (step * 2)
             /\ kept[k].micros = spool[kept[k].request]
  <2>1. kept[k] = points[2 * k - 1] /\ 2 * k - 1 \in 1..Len(points)
    BY <1>2, <1>3
  <2>2. (2 * k - 1 - 1) * step = (k - 1) * (step * 2)
    OBVIOUS
  <2> HIDE DEF kept
  <2> QED
    BY <2>1, <2>2 DEF PointsAt
<1> QED
  BY <1>5, <1>6 DEF PointsAt, Samples

LEMMA StripFrom ==
  ASSUME NEW points, points = Points', NEW step \in Nat \ {0}, step = stride', Observed \in Nat,
         Observed' = Observed + 1, Observed' = Cardinality(Numbered'), Len(points) <= Cap,
         PointsAt(points, step)', Chosen(Len(points), step, Observed + 1),
         step > 1 => \E s \in Nat \ {0} : step = s * 2 /\ Cap * s <= Observed
  PROVE  Strip'
<1>1. PointsAt(Points, stride)'
  BY DEF PointsAt
<1>2. Observed' # 0 /\ Observed' - 1 = Observed
  OBVIOUS
<1> QED
  BY <1>1, <1>2 DEF Strip

\* A sample more: the strip is even again.
LEMMA AddStrip ==
  ASSUME Types, Strip, NEW last, last = Len(spool) + 1, NEW micros \in Micros,
         spool' = Append(spool, micros), add(last, micros)
  PROVE  Strip'
<1>1. PICK points, step, observed : /\ points = Points /\ observed = Observed
                                    /\ step = IF stride = 0 THEN 1 ELSE stride
  OBVIOUS
<1> DEFINE due == observed % step = 0
           full == due /\ Len(points) = Cap
           kept == IF full THEN Compacted(points) ELSE points
           new == [request |-> last, micros |-> micros]
<1>2. /\ Observed' = observed + 1
      /\ stride' = step * (IF full THEN 2 ELSE 1)
      /\ Points' = IF ~due \/ observed % stride' # 0 THEN kept ELSE Append(kept, new)
  BY <1>1 DEF add
<1>3. /\ observed \in Nat /\ step \in Nat \ {0} /\ Len(points) \in Nat /\ Len(points) <= Cap
      /\ Cap \in Nat \ {0} /\ last \in Nat
  BY <1>1, NumberedIs, Lengths, ReportAssumption DEF Strip, PointsAt
<1>4. PointsAt(points, step) /\ Chosen(Len(points), step, observed)
  <2>1. CASE Observed = 0
    BY <1>1, <2>1 DEF Strip, PointsAt, Chosen
  <2>2. CASE Observed # 0
    BY <1>1, <2>2 DEF Strip
  <2> QED
    BY <2>1, <2>2
<1>5. /\ Observed' = Cardinality(Numbered')
      /\ last \in Numbered' /\ spool'[last] = micros /\ RankOf(last)' = observed
  <2>1. micros # NoTTFT
    BY ReportAssumption DEF NoTTFT
  <2> QED
    BY <1>1, <1>2, <2>1, NextNumbered DEF Strip
<1>6. step > 1 => \E s \in Nat \ {0} : step = s * 2 /\ Cap * s <= observed
  <2>1. ASSUME NEW s \in Nat \ {0}, Cap * s <= observed - 1 PROVE Cap * s <= observed
    BY <1>3, <2>1
  <2> QED
    BY <1>1, <2>1 DEF Strip
<1>7. CASE ~due
  <2>1. stride' = step /\ Points' = points
    BY <1>2, <1>3, <1>7
  <2>2. PointsAt(points, step)'
    BY <1>4, PointsStay
  <2>3. Chosen(Len(points), step, observed + 1)
    BY <1>3, <1>4, <1>7, NotDue
  <2> QED
    BY <1>1, <1>2, <1>3, <1>5, <1>6, <2>1, <2>2, <2>3, StripFrom
<1>8. CASE due /\ Len(points) # Cap
  <2> DEFINE more == Append(points, new)
  <2>1. stride' = step /\ Points' = more
    BY <1>2, <1>3, <1>8
  <2>2. observed = Len(points) * step /\ Chosen(Len(points) + 1, step, observed + 1)
    BY <1>3, <1>4, <1>8, Due
  <2>3. PointsAt(points, step)'
    BY <1>4, PointsStay
  <2>4. PointsAt(more, step)'
    BY <1>3, <1>5, <2>2, <2>3, PointAppended
  <2>5. Len(more) = Len(points) + 1
    BY <1>4 DEF PointsAt
  <2> HIDE DEF more
  <2>6. Len(more) <= Cap /\ Chosen(Len(more), step, observed + 1)
    BY <1>3, <1>8, <2>2, <2>5
  <2> QED
    BY <1>1, <1>2, <1>3, <1>5, <1>6, <2>1, <2>4, <2>6, StripFrom
<1>9. CASE full
  <2> DEFINE thin == Compacted(points)
             more == Append(thin, new)
             double == step * 2
  <2>1. observed = Cap * step
    BY <1>3, <1>4, <1>9, Due
  <2>2. stride' = double /\ Points' = IF observed % double # 0 THEN thin ELSE more
    BY <1>2, <1>3, <1>9
  <2>3. double \in Nat \ {0} /\ \E s \in Nat \ {0} : double = s * 2 /\ Cap * s <= observed
    BY <1>3, <2>1
  <2>4. PICK m \in Nat : Cap = 2 * m \/ Cap = 2 * m + 1
    <3>1. Cap \div 2 \in Nat /\ (Cap = 2 * (Cap \div 2) \/ Cap = 2 * (Cap \div 2) + 1)
      BY ReportAssumption
    <3> QED
      BY <3>1
  <2> HIDE DEF double
  <2>5. CASE Cap = 2 * m
    <3>1. /\ (Cap + 1) \div 2 = m /\ observed % double = 0 /\ observed = m * double
          /\ Chosen(m + 1, double, observed + 1)
      BY <1>3, <2>1, <2>5, ThinnedEven DEF double
    <3>2. PointsAt(thin, double) /\ Len(thin) = m
      BY <1>3, <1>4, <1>9, <3>1, PointsThinned DEF double
    <3> HIDE DEF thin
    <3>3. PointsAt(thin, double)'
      BY <3>2, PointsStay
    <3>4. PointsAt(more, double)'
      BY <1>3, <1>5, <2>3, <3>1, <3>2, <3>3, PointAppended
    <3>5. Len(more) = m + 1
      BY <3>2 DEF PointsAt
    <3> HIDE DEF more
    <3>6. Points' = more /\ Len(more) <= Cap /\ Chosen(Len(more), double, observed + 1)
      BY <1>3, <2>2, <2>5, <3>1, <3>5
    <3> QED
      BY <1>1, <1>2, <1>3, <1>5, <2>2, <2>3, <3>4, <3>6, StripFrom
  <2>6. CASE Cap = 2 * m + 1
    <3>1. (Cap + 1) \div 2 = m + 1 /\ observed % double # 0 /\ Chosen(m + 1, double, observed + 1)
      BY <1>3, <2>1, <2>6, ThinnedOdd DEF double
    <3>2. PointsAt(thin, double) /\ Len(thin) = m + 1
      BY <1>3, <1>4, <1>9, <3>1, PointsThinned DEF double
    <3> HIDE DEF thin
    <3>3. PointsAt(thin, double)'
      BY <3>2, PointsStay
    <3>4. Points' = thin /\ Len(thin) <= Cap /\ Chosen(Len(thin), double, observed + 1)
      BY <2>2, <2>6, <3>1, <3>2
    <3> QED
      BY <1>1, <1>2, <1>3, <1>5, <2>2, <2>3, <3>3, <3>4, StripFrom
  <2> QED
    BY <2>4, <2>5, <2>6
<1> QED
  BY <1>7, <1>8, <1>9

LEMMA AddRange ==
  ASSUME Types, Strip, StripRange, NEW last, last = Len(spool) + 1, NEW micros \in Micros,
         spool' = Append(spool, micros), add(last, micros)
  PROVE  StripRange'
<1>1. /\ Min' = IF Observed = 0 \/ micros < Min THEN micros ELSE Min
      /\ Max' = IF Observed = 0 \/ micros > Max THEN micros ELSE Max
  BY DEF add
<1>2. /\ Numbered' = Numbered \cup {last} /\ spool'[last] = micros
      /\ \A i \in Numbered : spool'[i] = spool[i]
  <2>1. micros # NoTTFT
    BY ReportAssumption DEF NoTTFT
  <2> QED
    BY <2>1, NextNumbered
<1>3. micros \in Nat /\ \A i \in Numbered : spool[i] \in Nat
  BY NumberedIs, ReportAssumption
<1>4. Observed = 0 <=> Numbered = {}
  BY NumberedIs, FS_EmptySet DEF Strip
<1>5. CASE Numbered = {}
  BY <1>1, <1>2, <1>3, <1>4, <1>5 DEF StripRange
<1>6. CASE Numbered # {}
  <2>1. /\ \A i \in Numbered : Min <= spool[i] /\ spool[i] <= Max
        /\ \E i \in Numbered : Min = spool[i]
        /\ \E i \in Numbered : Max = spool[i]
    BY <1>6 DEF StripRange
  <2>2. Min \in Nat /\ Max \in Nat
    BY <1>3, <2>1
  <2>3. \A i \in Numbered' : Min' <= spool'[i] /\ spool'[i] <= Max'
    <3> SUFFICES ASSUME NEW i \in Numbered' PROVE Min' <= spool'[i] /\ spool'[i] <= Max'
      OBVIOUS
    <3>1. /\ Min' <= Min /\ Min' <= micros /\ Max <= Max' /\ micros <= Max'
          /\ Min' \in Nat /\ Max' \in Nat
      BY <1>1, <1>3, <1>4, <1>6, <2>2
    <3>2. CASE i = last
      BY <1>2, <3>1, <3>2
    <3>3. CASE i \in Numbered
      <4>1. spool'[i] = spool[i] /\ spool[i] \in Nat /\ Min <= spool[i] /\ spool[i] <= Max
        BY <1>2, <1>3, <2>1, <3>3
      <4> QED
        BY <2>2, <3>1, <4>1
    <3> QED
      BY <1>2, <3>2, <3>3
  <2>4. (\E i \in Numbered' : Min' = spool'[i]) /\ \E i \in Numbered' : Max' = spool'[i]
    BY <1>1, <1>2, <1>4, <1>6, <2>1
  <2> QED
    BY <2>3, <2>4 DEF StripRange
<1> QED
  BY <1>5, <1>6

LEMMA StripInit == Init => Strip /\ StripRange
<1> SUFFICES ASSUME Init PROVE Strip /\ StripRange
  OBVIOUS
<1>1. Numbered = {}
  BY DEF Init, Numbered
<1>2. Cardinality(Numbered) = 0
  BY <1>1, FS_EmptySet
<1> QED
  BY <1>1, <1>2, ReportAssumption DEF Init, Strip, StripRange, PointsAt

LEMMA SameStrip ==
  ASSUME Strip, StripRange, UNCHANGED <<spool, samples>> PROVE Strip' /\ StripRange'
<1>1. Numbered' = Numbered
  BY DEF Numbered
<1>2. \A i : RankOf(i)' = RankOf(i)
  BY <1>1 DEF RankOf
<1> QED
  BY <1>1, <1>2 DEF Strip, StripRange, PointsAt, samples

LEMMA CopyStrip == ASSUME Types, Strip, StripRange, Copy PROVE Strip' /\ StripRange'
<1> DEFINE number == Len(spool) + 1
           line == source[number]
<1>1. number \in 1..Len(source)
  BY Lengths DEF Copy
<1>2. CASE UNCHANGED <<spool, samples>>
  BY <1>2, SameStrip
<1>3. CASE /\ line # Invalid /\ spool' = Append(spool, line)
           /\ IF line = NoTTFT THEN UNCHANGED samples ELSE add(number, line)
  <2>1. line \in Micros \cup {NoTTFT}
    BY <1>1, <1>3 DEF Types, Lines
  <2>2. CASE line = NoTTFT
    <3>1. spool' = Append(spool, NoTTFT) /\ UNCHANGED samples
      BY <1>3, <2>2
    <3>2. Numbered' = Numbered /\ \A i \in Numbered : RankOf(i)' = RankOf(i) /\ spool'[i] = spool[i]
      BY <3>1, NotNumbered
    <3>3. Strip'
      BY <3>1, <3>2 DEF Strip, PointsAt, samples
    <3>4. {spool'[i] : i \in Numbered'} = {spool[i] : i \in Numbered}
      BY <3>2
    <3>5. StripRange'
      BY <3>1, <3>2, <3>4 DEF StripRange, samples
    <3> QED
      BY <3>3, <3>5
  <2>3. CASE line # NoTTFT
    <3>1. PICK last, micros : last = number /\ micros = line
      OBVIOUS
    <3> HIDE DEF number, line
    <3>2. /\ micros \in Micros /\ spool' = Append(spool, micros) /\ add(last, micros)
      BY <1>3, <2>1, <2>3, <3>1
    <3>3. last = Len(spool) + 1
      BY <3>1 DEF number
    <3> QED
      BY <3>2, <3>3, AddStrip, AddRange
  <2> QED
    BY <2>2, <2>3
<1> QED
  BY <1>2, <1>3 DEF Copy

LEMMA StripStep == Types /\ Strip /\ StripRange /\ [Next]_vars => Strip' /\ StripRange'
<1> SUFFICES ASSUME Types, Strip, StripRange, [Next]_vars PROVE Strip' /\ StripRange'
  OBVIOUS
<1>1. CASE Copy
  BY <1>1, CopyStrip
<1>2. CASE \/ AppendHalf \/ AppendRest \/ Open \/ CopyEnd \/ Header \/ Row \/ Footer \/ Done
           \/ UNCHANGED vars
  <2>1. UNCHANGED <<spool, samples>>
    BY <1>2 DEF AppendHalf, AppendRest, Open, CopyEnd, Header, Row, Footer, Done, vars
  <2> QED
    BY <2>1, SameStrip
<1> QED
  BY <1>1, <1>2 DEF Next

\* The points are the samples whose rank is a multiple of the stride.
LEMMA SelectionEven == Types /\ Strip /\ StripRange => StripEven
<1> SUFFICES ASSUME Types, Strip, StripRange, Numbered # {} PROVE StripEven
  BY DEF StripEven
<1> DEFINE count == Len(Points)
           chosen == {i \in Numbered : RankOf(i) % stride = 0}
           f == [k \in 1..count |-> Points[k].request]
<1>1. Observed = Cardinality(Numbered) /\ Observed # 0
  BY NumberedIs, FS_EmptySet DEF Strip
<1>2. /\ stride \in Nat \ {0} /\ count \in Nat /\ count <= Cap /\ Observed \in Nat
      /\ Observed <= count * stride
  BY <1>1, NumberedIs DEF Strip, PointsAt, Chosen
<1>3. \A k \in 1..count : /\ Points[k].request \in Numbered
                          /\ RankOf(Points[k].request) = (k - 1) * stride
                          /\ Points[k].micros = spool[Points[k].request]
  BY DEF Strip, PointsAt
<1>4. \A i \in Numbered : RankOf(i) \in Nat /\ RankOf(i) < Observed
  BY <1>1, RankIs
<1> HIDE DEF count
<1>5. \A k \in 1..count : f[k] \in chosen
  <2> SUFFICES ASSUME NEW k \in 1..count PROVE f[k] \in chosen
    OBVIOUS
  <2>1. k - 1 \in Nat
    BY <1>2
  <2>2. ((k - 1) * stride) % stride = 0
    BY <1>2, <2>1
  <2> QED
    BY <1>3, <2>2
<1>6. ASSUME NEW i \in chosen PROVE \E k \in 1..count : f[k] = i
  <2>1. PICK q \in Nat : RankOf(i) = q * stride
    BY <1>2, <1>4
  <2>2. q < count
    <3>1. q * stride < count * stride
      BY <1>2, <1>4, <2>1
    <3> QED
      BY <1>2, <3>1
  <2>3. q + 1 \in 1..count /\ (q + 1) - 1 = q
    BY <1>2, <2>2
  <2>4. RankOf(Points[q + 1].request) = RankOf(i) /\ Points[q + 1].request \in Numbered
    BY <1>3, <2>1, <2>3
  <2>5. Points[q + 1].request = i
    BY <2>4, SameRank
  <2> QED
    BY <2>3, <2>5
<1>7. ASSUME NEW k \in 1..count, NEW l \in 1..count, k < l PROVE f[k] < f[l]
  <2>1. (k - 1) * stride < (l - 1) * stride
    <3>1. k - 1 \in Int /\ l - 1 \in Int /\ k - 1 < l - 1
      BY <1>2, <1>7
    <3> QED
      BY <1>2, <3>1
  <2>2. f[k] \in Numbered /\ f[l] \in Numbered /\ RankOf(f[k]) < RankOf(f[l])
    BY <1>3, <2>1
  <2>3. f[k] \in Nat /\ f[l] \in Nat /\ RankOf(f[k]) \in Nat /\ RankOf(f[l]) \in Nat
    BY <1>4, <2>2, NumberedIs, Lengths, SMTT(30)
  <2>4. ~(f[l] < f[k]) /\ f[l] # f[k]
    BY <2>2, <2>3, RankIncreases, SMTT(30)
  <2> QED
    BY <2>3, <2>4
<1>8. \A k \in 1..count : f[k] \in Nat
  BY <1>5, NumberedIs, Lengths
<1>9. count = Cardinality(chosen)
  <2>1. \A k, l \in 1..count : f[k] = f[l] => k = l
    <3> SUFFICES ASSUME NEW k \in 1..count, NEW l \in 1..count, f[k] = f[l] PROVE k = l
      OBVIOUS
    <3>1. ~(k < l) /\ ~(l < k)
      BY <1>7, <1>8
    <3> QED
      BY <1>2, <3>1
  <2>2. f \in [1..count -> chosen]
    BY <1>5
  <2> HIDE DEF f, chosen
  <2>3. f \in Bijection(1..count, chosen)
    BY <1>6, <2>1, <2>2 DEF Bijection, Injection, Surjection, IsInjective
  <2> QED
    BY <1>2, <2>3, FS_CountingElements DEF ExistsBijection
<1>10. stride > 1 => (Observed - 1) \div (stride \div 2) >= Cap
  <2> SUFFICES ASSUME stride > 1 PROVE (Observed - 1) \div (stride \div 2) >= Cap
    OBVIOUS
  <2>1. PICK s \in Nat \ {0} : stride = s * 2 /\ Cap * s <= Observed - 1
    BY DEF Strip
  <2>2. stride \div 2 = s /\ Observed - 1 \in Nat
    BY <1>1, <1>2, <2>1
  <2>3. (Observed - 1) \div s >= Cap
    BY <2>1, <2>2, ReportAssumption
  <2> QED
    BY <2>2, <2>3
<1>11. {Points[k].request : k \in 1..count} = chosen
  BY <1>5, <1>6
<1>12. ASSUME NEW k \in 1..count, k > 1 PROVE Points[k - 1].request < Points[k].request
  <2>1. k - 1 \in 1..count /\ k - 1 < k
    BY <1>2, <1>12
  <2> QED
    BY <1>7, <2>1
<1> QED
  BY <1>1, <1>2, <1>3, <1>9, <1>10, <1>11, <1>12 DEF StripEven, StripRange, count

\* The strip is an even selection of the samples, the first and each stride-th
\* after it, however many there are and whatever the cap: no more than the cap,
\* with a stride no larger than the cap asks for, and the range of all samples.
THEOREM StripIsEven == Spec => []StripEven
<1>1. Spec => [](Strip /\ StripRange)
  <2>1. Shown => Types
    BY DEF Shown
  <2> QED
    BY <2>1, ReportInvariance, StripInit, StripStep, PTL DEF Spec
<1>2. Shown => Types
  BY DEF Shown
<1> QED
  BY <1>1, <1>2, ReportInvariance, SelectionEven, PTL

=============================================================================
