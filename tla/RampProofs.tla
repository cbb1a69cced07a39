----------------------------- MODULE RampProofs -----------------------------
(***************************************************************************)
(* Proofs about Ramp, for any number of commands and outcomes: its types,  *)
(* that documents are whole and only a kill leaves a temporary file, that  *)
(* an incomplete record stays the last one, that a report of ramp shows    *)
(* its own records, and what the exit code says of the files.              *)
(*                                                                         *)
(* The argument follows one command through its stages: nothing of it is   *)
(* on the disk before the load run, what it has written since agrees with  *)
(* what it has processed unless it knows of a failure, and everything      *)
(* older belongs to an earlier command.                                    *)
(***************************************************************************)
EXTENDS Ramp, FiniteSetTheorems, TLAPS

Before == {"parse", "inspect", "config", "open", "load", "readSummary"}
OutStages == {"createOut", "writeOut", "renameOut"}
HtmlStages == {"createHtml", "writeHtml", "renameHtml"}
Writing == {"writeOut", "renameOut", "writeHtml", "renameHtml"}
Stages == Before \cup {"process", "summary", "html", "exit"} \cup OutStages \cup HtmlStages

\* Which command is where.
StageFits ==
  /\ pc \in Stages \cup {"idle"}
  /\ pc # "idle" => run # 0
  /\ pc \in {"inspect", "config", "open", "load", "process", "summary"} \cup OutStages => command = "ramp"
  /\ pc = "readSummary" => command = "report"
  /\ pc \in OutStages => flags.out
  /\ pc \in HtmlStages => flags.html
  /\ pc \notin {"exit", "idle"} => early = 0

\* Nothing on the disk comes from a later command.
PastOnly ==
  /\ out.run <= run /\ html.run <= run /\ source.run <= run
  /\ \A i \in 1..Len(raw) : raw[i].run <= run

\* A command that has not come to its load run, or has given up before it,
\* has left nothing behind.
Untouched ==
  /\ started = 0 /\ samples = 0 /\ ~stuck /\ ~failed
  /\ out.run # run /\ html.run # run
  /\ \A i \in 1..Len(raw) : raw[i].run # run

NotBegun == pc \in Before \/ (pc = "exit" /\ early # 0) => Untouched

\* A JSONL that the encoder still writes to ends with a whole record.
JsonlWhole ==
  /\ PartialOnlyLast
  /\ pc \in {"load", "process"} /\ flags.raw /\ ~stuck => ~Incomplete

\* The JSONL of a report is that of its run.
OwnRecords ==
  /\ OwnRecordsOnly
  /\ (command = "ramp" /\ flags.html /\ flags.raw /\ pc \notin {"idle", "parse", "inspect"} /\ early = 0) =>
       \A i \in 1..Len(raw) : raw[i].run = run
  /\ source.by = "ramp" /\ pc \in HtmlStages => source.records \subseteq {source.run}

\* Without a failure, what is recorded and what is still to do make up the run.
Counting ==
  /\ Len(todo) + samples <= MaxOutcomes
  /\ pc \notin {"process", "idle"} => todo = <<>>
  /\ pc # "idle" /\ command = "ramp" /\ flags.raw /\ ~failed => RecordsOf(run) + Started(todo) = started

\* A document is renamed when it is whole, and stands unless something failed.
DocumentsWritten ==
  /\ out.whole /\ html.whole
  /\ pc \in {"renameOut", "renameHtml"} => source.whole
  /\ pc \in OutStages \cup HtmlStages /\ command = "ramp" => source.run = run /\ source.by = "ramp"
  /\ (pc \in {"html", "exit"} \cup HtmlStages /\ command = "ramp" /\ early = 0 /\ ~failed /\ flags.out) =>
       out.run = run
  /\ (pc = "exit" /\ command = "ramp" /\ early = 0 /\ ~failed /\ flags.html) =>
       html.run = run /\ html.by = "ramp"

\* One temporary file at a time, which only a kill or its failed removal leaves
\* behind.
TempsCounted ==
  /\ temps <= kills + lostTemps + (IF pc \in Writing THEN 1 ELSE 0)
  /\ pc \in Writing => temps > 0

Inductive == /\ TypeOK /\ StageFits /\ PastOnly /\ NotBegun /\ JsonlWhole /\ OwnRecords /\ Counting
             /\ DocumentsWritten /\ TempsCounted /\ ExitCodeMeans

-----------------------------------------------------------------------------
(***************************************************************************)
(* What the counts over sequences come to.                                 *)
(***************************************************************************)
LEMMA StartedNone == Started(<<>>) = 0
<1>1. {i \in 1..Len(<<>>) : <<>>[i] # "dropped"} = {}
  OBVIOUS
<1> QED
  BY <1>1, FS_EmptySet DEF Started

LEMMA StartedBound ==
  ASSUME NEW s \in Seq(OutcomeKinds)
  PROVE  Started(s) \in Nat /\ Started(s) <= Len(s)
<1> DEFINE S == {i \in 1..Len(s) : s[i] # "dropped"}
<1>1. Len(s) \in Nat
  OBVIOUS
<1>2. IsFiniteSet(1..Len(s)) /\ Cardinality(1..Len(s)) = Len(s)
  BY <1>1, FS_Interval
<1>3. S \in SUBSET (1..Len(s))
  OBVIOUS
<1>4. IsFiniteSet(S) /\ Cardinality(S) <= Len(s)
  BY <1>2, <1>3, FS_Subset
<1>5. Cardinality(S) \in Nat
  BY <1>4, FS_CardinalityType
<1> QED
  BY <1>4, <1>5 DEF Started

\* The first outcome is started or not, and the others are as many.
LEMMA StartedTail ==
  ASSUME NEW s \in Seq(OutcomeKinds), s # <<>>
  PROVE  Started(s) = Started(Tail(s)) + (IF Head(s) = "dropped" THEN 0 ELSE 1)
<1> DEFINE S == {i \in 1..Len(s) : s[i] # "dropped"}
           T == {i \in 1..Len(Tail(s)) : Tail(s)[i] # "dropped"}
           U == S \ {1}
           f == [i \in T |-> i + 1]
<1>1. Len(s) \in Nat \ {0} /\ Len(Tail(s)) = Len(s) - 1
  OBVIOUS
<1>2. \A i \in 1..Len(Tail(s)) : Tail(s)[i] = s[i + 1]
  OBVIOUS
<1>3. T = {i \in 1..(Len(s) - 1) : s[i + 1] # "dropped"}
  BY <1>1, <1>2
<1>4. IsFiniteSet(1..Len(s)) /\ IsFiniteSet(1..(Len(s) - 1))
  BY <1>1, FS_Interval
<1>5. S \in SUBSET (1..Len(s)) /\ T \in SUBSET (1..(Len(s) - 1))
  BY <1>3
<1>6. IsFiniteSet(S) /\ IsFiniteSet(T)
  BY <1>4, <1>5, FS_Subset
<1>7. Cardinality(U) = Cardinality(T)
  <2> DEFINE n == Len(s)
  <2>0. n \in Nat
    BY <1>1
  <2> HIDE DEF n
  <2>1. T = {i \in 1..(n - 1) : s[i + 1] # "dropped"} /\ U = {i \in 1..n : s[i] # "dropped"} \ {1}
    BY <1>3 DEF n
  <2>2. f \in [T -> U]
    BY <2>0, <2>1
  <2>3. \A i, j \in T : f[i] = f[j] => i = j
    BY <2>0, <2>1
  <2>4. \A u \in U : \E i \in T : f[i] = u
    <3> SUFFICES ASSUME NEW u \in U PROVE \E i \in T : f[i] = u
      OBVIOUS
    <3>1. u \in 1..n /\ u # 1 /\ s[u] # "dropped"
      BY <2>1
    <3>2. u - 1 \in 1..(n - 1) /\ (u - 1) + 1 = u
      BY <2>0, <3>1
    <3>3. u - 1 \in T
      BY <2>1, <3>1, <3>2
    <3> QED
      BY <3>2, <3>3
  <2>5. f \in Bijection(T, U)
    BY <2>2, <2>3, <2>4 DEF Bijection, Injection, Surjection, IsInjective
  <2> QED
    BY <1>6, <2>5, FS_Bijection DEF ExistsBijection
<1>8. Cardinality(U) = IF 1 \in S THEN Cardinality(S) - 1 ELSE Cardinality(S)
  BY <1>6, FS_RemoveElement
<1>9. 1 \in S <=> Head(s) # "dropped"
  BY <1>1
<1>10. Cardinality(S) \in Nat /\ Cardinality(T) \in Nat
  BY <1>6, FS_CardinalityType
<1> HIDE DEF S, T, U
<1>11. Cardinality(S) = Cardinality(T) + (IF Head(s) = "dropped" THEN 0 ELSE 1)
  BY <1>7, <1>8, <1>9, <1>10
<1> QED
  BY <1>11 DEF Started, S, T

LEMMA RecordsNat == ASSUME TypeOK, NEW r PROVE RecordsOf(r) \in Nat
<1> DEFINE S == {i \in 1..Len(raw) : raw[i].run = r /\ raw[i].kind # "partial"}
<1>1. Len(raw) \in Nat
  BY DEF TypeOK
<1>2. IsFiniteSet(1..Len(raw)) /\ S \in SUBSET (1..Len(raw))
  BY <1>1, FS_Interval
<1>3. IsFiniteSet(S)
  BY <1>2, FS_Subset
<1> QED
  BY <1>3, FS_CardinalityType DEF RecordsOf

LEMMA RecordsNone ==
  ASSUME NEW r, \A i \in 1..Len(raw) : raw[i].run # r PROVE RecordsOf(r) = 0
<1>1. {i \in 1..Len(raw) : raw[i].run = r /\ raw[i].kind # "partial"} = {}
  OBVIOUS
<1> QED
  BY <1>1, FS_EmptySet DEF RecordsOf

LEMMA RecordsAppended ==
  ASSUME TypeOK, NEW record, record.run = run, record.kind # "partial",
         raw' = Append(raw, record), run' = run
  PROVE  RecordsOf(run)' = RecordsOf(run) + 1
<1> DEFINE S == {i \in 1..Len(raw) : raw[i].run = run /\ raw[i].kind # "partial"}
           T == {i \in 1..Len(raw') : raw'[i].run = run /\ raw'[i].kind # "partial"}
           n == Len(raw)
<1>1. n \in Nat /\ Len(raw') = n + 1 /\ raw'[n + 1] = record /\ \A i \in 1..n : raw'[i] = raw[i]
  BY DEF TypeOK
<1>2. n + 1 \in 1..(n + 1) /\ \A i : i \in 1..(n + 1) <=> i \in 1..n \/ i = n + 1
  BY <1>1
<1>3. T = S \cup {n + 1} /\ n + 1 \notin S
  BY <1>1, <1>2
<1>4. IsFiniteSet(1..n) /\ S \in SUBSET (1..n)
  BY <1>1, FS_Interval
<1>5. IsFiniteSet(S)
  BY <1>4, FS_Subset
<1>6. Cardinality(T) = Cardinality(S) + 1
  BY <1>3, <1>5, FS_AddElement
<1> QED
  BY <1>6 DEF RecordsOf

-----------------------------------------------------------------------------
(***************************************************************************)
(* Every step keeps the invariant.                                         *)
(***************************************************************************)
LEMMA Numbers ==
  ASSUME TypeOK
  PROVE  /\ MaxRuns \in Nat /\ run \in Nat /\ out.run \in Nat /\ html.run \in Nat /\ source.run \in Nat
         /\ samples \in Nat /\ Len(raw) \in Nat
         /\ raw # <<>> => Len(raw) > 0
         /\ \A i \in 1..Len(raw) : raw[i].run \in 1..MaxRuns
<1>1. out.run \in 0..MaxRuns /\ html.run \in 0..MaxRuns /\ source.run \in 0..MaxRuns
  BY DEF TypeOK, Documents
<1>2. \A i \in 1..Len(raw) : raw[i].run \in 1..MaxRuns
  <2> DEFINE Records == [run : 1..MaxRuns, kind : {"whole", "unreadable", "partial"}]
  <2>1. raw \in Seq(Records) /\ \A record \in Records : record.run \in 1..MaxRuns
    BY DEF TypeOK
  <2> HIDE DEF Records
  <2>2. \A i \in 1..Len(raw) : raw[i] \in Records
    BY <2>1
  <2> QED
    BY <2>1, <2>2
<1>3. run \in 0..MaxRuns /\ samples \in 0..MaxOutcomes
  BY DEF TypeOK
<1>4. Len(raw) \in Nat /\ (raw # <<>> => Len(raw) > 0)
  BY DEF TypeOK
<1> QED
  BY <1>1, <1>2, <1>3, <1>4, RampAssumption

\* Writing a record leaves the file, or appends one of this run.
LEMMA WrittenAppends ==
  ASSUME TypeOK, run # 0, NEW kind, NEW write
  PROVE  /\ Written(kind, write) \in Seq([run : 1..MaxRuns, kind : {"whole", "unreadable", "partial"}])
         /\ \/ Written(kind, write) = raw
            \/ \E record : Written(kind, write) = Append(raw, record) /\ record.run = run
<1> DEFINE Records == [run : 1..MaxRuns, kind : {"whole", "unreadable", "partial"}]
           whole == [run |-> run, kind |-> IF kind = "unreadable" THEN kind ELSE "whole"]
           partial == [run |-> run, kind |-> "partial"]
<1>1. whole \in Records /\ partial \in Records /\ whole.run = run /\ partial.run = run /\ raw \in Seq(Records)
  BY RampAssumption DEF TypeOK
<1>2. Written(kind, write) \in {Append(raw, whole), Append(raw, partial), raw}
  BY DEF Written
<1> HIDE DEF Records, whole, partial
<1>3. Written(kind, write) \in Seq(Records)
  BY <1>1, <1>2
<1> QED
  BY <1>1, <1>2, <1>3 DEF Records

\* A command begins: everything on the disk is older.
LEMMA BeginInductive == ASSUME Inductive, Begin PROVE Inductive'
<1> USE DEF Inductive, Begin, NoFlags, Goto, files, loadVars, procVars, procRest
<1>0. run' = run + 1 /\ run \in Nat /\ run < MaxRuns /\ source' = None /\ todo' = <<>> /\ raw' = raw
  BY Numbers
<1>1. TypeOK'
  <2>1. source' \in Documents /\ run' \in 0..MaxRuns /\ todo' \in Seq(OutcomeKinds)
    BY <1>0, RampAssumption DEF None, Documents
  <2>2. started' \in 0..MaxOutcomes /\ samples' \in 0..MaxOutcomes
    BY RampAssumption
  <2>3. command' \in {"ramp", "report"} /\ flags' \in [out : BOOLEAN, html : BOOLEAN, raw : BOOLEAN]
    OBVIOUS
  <2> QED
    BY <2>1, <2>2, <2>3 DEF TypeOK
<1>2. StageFits'
  BY DEF TypeOK, StageFits, Stages, Before, OutStages, HtmlStages
<1>3. PastOnly'
  BY <1>0, Numbers DEF PastOnly, None
<1>4. NotBegun'
  BY <1>0, Numbers DEF PastOnly, NotBegun, Untouched
<1>5. JsonlWhole'
  BY DEF TypeOK, JsonlWhole, PartialOnlyLast, Incomplete
<1>6. OwnRecords'
  BY DEF TypeOK, Documents, OwnRecords, OwnRecordsOnly, DocumentsWritten, HtmlStages, StageFits
<1>7. RecordsOf(run)' = 0
  <2>1. \A i \in 1..Len(raw) : raw[i].run # run'
    BY <1>0, Numbers DEF PastOnly
  <2>2. RecordsOf(run') = 0
    BY <2>1, RecordsNone
  <2> QED
    BY <1>0, <2>2 DEF RecordsOf
<1>8. Counting'
  <2>1. Started(todo)' = 0 /\ Len(todo') = 0
    BY <1>0, StartedNone
  <2> QED
    BY <1>7, <2>1, RampAssumption DEF Counting
<1>9. DocumentsWritten'
  BY DEF TypeOK, Documents, StageFits, DocumentsWritten, OutStages, HtmlStages, Before
<1>10. TempsCounted'
  BY DEF TypeOK, TempsCounted, Writing
<1>11. ExitCodeMeans'
  BY <1>7 DEF TypeOK, ExitCodeMeans, VerdictMeansComplete, NothingRan, InterruptKeepsRecords
<1> QED
  BY <1>1, <1>2, <1>3, <1>4, <1>5, <1>6, <1>8, <1>9, <1>10, <1>11

\* The command looks at its flags.
LEMMA ParseInductive == ASSUME Inductive, Parse PROVE Inductive'
<1> USE DEF Inductive, Parse, Abort, Goto, files, loadVars, procVars, procRest
<1>1. TypeOK'
  BY DEF TypeOK, Documents, StageFits, Stages, Before, OutStages, HtmlStages, Counting, TempsCounted, Writing
<1>2. StageFits'
  BY DEF TypeOK, StageFits, Stages, Before, OutStages, HtmlStages
<1>3. PastOnly'
  BY DEF TypeOK, Documents, PastOnly
<1>4. NotBegun'
  BY DEF TypeOK, Documents, PastOnly, NotBegun, Untouched, Before, StageFits, Help
<1>5. JsonlWhole'
  BY DEF TypeOK, JsonlWhole, PartialOnlyLast, Incomplete
<1>6. OwnRecords'
  BY DEF OwnRecords, OwnRecordsOnly, HtmlStages, StageFits, Help
<1>7. RecordsOf(run)' = RecordsOf(run)
  BY DEF RecordsOf
<1>8. Counting'
  BY <1>7, StartedBound, StartedNone DEF TypeOK, Counting, StageFits
<1>9. DocumentsWritten'
  BY DEF TypeOK, Documents, StageFits, DocumentsWritten, OutStages, HtmlStages, Before, Help
<1>10. TempsCounted'
  BY DEF TypeOK, TempsCounted, Writing
<1>11. ExitCodeMeans'
  BY <1>7 DEF TypeOK, ExitCodeMeans, VerdictMeansComplete, NothingRan, InterruptKeepsRecords
<1> QED
  BY <1>1, <1>2, <1>3, <1>4, <1>5, <1>6, <1>8, <1>9, <1>10, <1>11

\* With a report to write, the JSONL must be empty.
LEMMA InspectInductive == ASSUME Inductive, Inspect PROVE Inductive'
<1> USE DEF Inductive, Inspect, Abort, Goto, files, loadVars, procVars, procRest
<1>1. TypeOK'
  BY DEF TypeOK, Documents, StageFits, Stages, Before, OutStages, HtmlStages, Counting, TempsCounted, Writing
<1>2. StageFits'
  BY DEF TypeOK, StageFits, Stages, Before, OutStages, HtmlStages
<1>3. PastOnly'
  BY DEF TypeOK, Documents, PastOnly
<1>4. NotBegun'
  BY DEF TypeOK, Documents, PastOnly, NotBegun, Untouched, Before, StageFits
<1>5. JsonlWhole'
  BY DEF TypeOK, JsonlWhole, PartialOnlyLast, Incomplete
<1>6. OwnRecords'
  BY DEF OwnRecords, OwnRecordsOnly, HtmlStages, StageFits
<1>7. RecordsOf(run)' = RecordsOf(run)
  BY DEF RecordsOf
<1>8. Counting'
  BY <1>7, StartedBound, StartedNone DEF TypeOK, Counting, StageFits
<1>9. DocumentsWritten'
  BY DEF TypeOK, Documents, StageFits, DocumentsWritten, OutStages, HtmlStages, Before
<1>10. TempsCounted'
  BY DEF TypeOK, TempsCounted, Writing
<1>11. ExitCodeMeans'
  BY <1>7 DEF TypeOK, ExitCodeMeans, VerdictMeansComplete, NothingRan, InterruptKeepsRecords
<1> QED
  BY <1>1, <1>2, <1>3, <1>4, <1>5, <1>6, <1>8, <1>9, <1>10, <1>11

\* The configuration is read.
LEMMA LoadConfigInductive == ASSUME Inductive, LoadConfig PROVE Inductive'
<1> USE DEF Inductive, LoadConfig, Abort, Goto, files, loadVars, procVars, procRest
<1>1. TypeOK'
  BY DEF TypeOK, Documents, StageFits, Stages, Before, OutStages, HtmlStages, Counting, TempsCounted, Writing
<1>2. StageFits'
  BY DEF TypeOK, StageFits, Stages, Before, OutStages, HtmlStages
<1>3. PastOnly'
  BY DEF TypeOK, Documents, PastOnly
<1>4. NotBegun'
  BY DEF TypeOK, Documents, PastOnly, NotBegun, Untouched, Before, StageFits
<1>5. JsonlWhole'
  BY DEF TypeOK, JsonlWhole, PartialOnlyLast, Incomplete
<1>6. OwnRecords'
  BY DEF TypeOK, Documents, OwnRecords, OwnRecordsOnly, DocumentsWritten, HtmlStages, StageFits
<1>7. RecordsOf(run)' = RecordsOf(run)
  BY DEF RecordsOf
<1>8. Counting'
  BY <1>7, StartedBound, StartedNone DEF TypeOK, Counting, StageFits
<1>9. DocumentsWritten'
  BY DEF TypeOK, Documents, StageFits, DocumentsWritten, OutStages, HtmlStages, Before
<1>10. TempsCounted'
  BY DEF TypeOK, TempsCounted, Writing
<1>11. ExitCodeMeans'
  BY <1>7 DEF TypeOK, ExitCodeMeans, VerdictMeansComplete, NothingRan, InterruptKeepsRecords
<1> QED
  BY <1>1, <1>2, <1>3, <1>4, <1>5, <1>6, <1>8, <1>9, <1>10, <1>11

\* A JSONL whose last record is incomplete is refused.
LEMMA OpenJSONLInductive == ASSUME Inductive, OpenJSONL PROVE Inductive'
<1> USE DEF Inductive, OpenJSONL, Abort, Goto, files, loadVars, procVars, procRest
<1>1. TypeOK'
  BY DEF TypeOK, Documents, StageFits, Stages, Before, OutStages, HtmlStages, Counting, TempsCounted, Writing
<1>2. StageFits'
  BY DEF TypeOK, StageFits, Stages, Before, OutStages, HtmlStages
<1>3. PastOnly'
  BY DEF TypeOK, Documents, PastOnly
<1>4. NotBegun'
  BY DEF TypeOK, Documents, PastOnly, NotBegun, Untouched, Before, StageFits
<1>5. JsonlWhole'
  BY DEF TypeOK, JsonlWhole, PartialOnlyLast, Incomplete
<1>6. OwnRecords'
  BY DEF TypeOK, Documents, OwnRecords, OwnRecordsOnly, DocumentsWritten, HtmlStages, StageFits
<1>7. RecordsOf(run)' = RecordsOf(run)
  BY DEF RecordsOf
<1>8. Counting'
  BY <1>7, StartedBound, StartedNone DEF TypeOK, Counting, StageFits
<1>9. DocumentsWritten'
  BY DEF TypeOK, Documents, StageFits, DocumentsWritten, OutStages, HtmlStages, Before
<1>10. TempsCounted'
  BY DEF TypeOK, TempsCounted, Writing
<1>11. ExitCodeMeans'
  BY <1>7 DEF TypeOK, ExitCodeMeans, VerdictMeansComplete, NothingRan, InterruptKeepsRecords
<1> QED
  BY <1>1, <1>2, <1>3, <1>4, <1>5, <1>6, <1>8, <1>9, <1>10, <1>11

\* The outcomes of the load run, all still to be processed.
LEMMA LoadInductive == ASSUME Inductive, Load PROVE Inductive'
<1> USE DEF Inductive, Load, Abort, Goto, files, loadVars, procVars, procRest
<1>0. \/ todo' = todo /\ started' = started
      \/ /\ todo' \in UNION {[1..n -> OutcomeKinds] : n \in 0..MaxOutcomes}
         /\ started' = Started(todo') /\ pc' = "process"
  OBVIOUS
<1>a. ASSUME todo' \in UNION {[1..n -> OutcomeKinds] : n \in 0..MaxOutcomes}
      PROVE  todo' \in Seq(OutcomeKinds) /\ Len(todo') \in 0..MaxOutcomes
  <2>1. PICK n \in 0..MaxOutcomes : todo' \in [1..n -> OutcomeKinds]
    BY <1>a
  <2> QED
    BY <2>1, RampAssumption
<1>1. TypeOK'
  <2>1. todo' \in Seq(OutcomeKinds) /\ started' \in 0..MaxOutcomes
    <3>1. CASE todo' = todo /\ started' = started
      BY <3>1 DEF TypeOK
    <3>2. CASE todo' \in UNION {[1..n -> OutcomeKinds] : n \in 0..MaxOutcomes} /\ started' = Started(todo')
      BY <1>a, <3>2, StartedBound, RampAssumption
    <3> QED
      BY <1>0, <3>1, <3>2
  <2>2. runErr' \in {"none", "invalid", "schedule", "canceled"} /\ early' \in {0, 2, 3, Help}
    BY DEF TypeOK
  <2> QED
    BY <2>1, <2>2 DEF TypeOK
<1>2. StageFits'
  BY DEF TypeOK, StageFits, Stages, Before, OutStages, HtmlStages
<1>3. PastOnly'
  BY DEF TypeOK, Documents, PastOnly
<1>4. NotBegun'
  BY DEF TypeOK, Documents, PastOnly, NotBegun, Untouched, Before, StageFits
<1>5. JsonlWhole'
  BY DEF TypeOK, JsonlWhole, PartialOnlyLast, Incomplete
<1>6. OwnRecords'
  BY DEF TypeOK, Documents, OwnRecords, OwnRecordsOnly, DocumentsWritten, HtmlStages, StageFits
<1>7. RecordsOf(run)' = RecordsOf(run)
  BY DEF RecordsOf
<1>8. Counting'
  <2>1. samples = 0 /\ todo = <<>> /\ ~failed /\ RecordsOf(run)' = 0
    <3>1. Untouched /\ todo = <<>>
      BY DEF NotBegun, Before, Counting
    <3> QED
      BY <1>7, <3>1, RecordsNone DEF Untouched
  <2>2. CASE todo' = todo /\ started' = started
    BY <1>7, <2>1, <2>2 DEF Counting, StageFits
  <2>3. CASE todo' \in UNION {[1..n -> OutcomeKinds] : n \in 0..MaxOutcomes}
             /\ started' = Started(todo') /\ pc' = "process"
    <3>1. todo' \in Seq(OutcomeKinds) /\ Len(todo') \in 0..MaxOutcomes
      BY <1>a, <2>3
    <3>2. Started(todo') \in Nat
      BY <3>1, StartedBound
    <3> QED
      BY <2>1, <2>3, <3>1, <3>2, RampAssumption DEF Counting
  <2> QED
    BY <1>0, <2>2, <2>3
<1>9. DocumentsWritten'
  BY DEF TypeOK, Documents, StageFits, DocumentsWritten, OutStages, HtmlStages, Before
<1>10. TempsCounted'
  BY DEF TypeOK, TempsCounted, Writing
<1>11. ExitCodeMeans'
  BY <1>7 DEF TypeOK, ExitCodeMeans, VerdictMeansComplete, NothingRan, InterruptKeepsRecords
<1> QED
  BY <1>1, <1>2, <1>3, <1>4, <1>5, <1>6, <1>8, <1>9, <1>10, <1>11

\* One outcome: a record is written whole, or the failure is known.
LEMMA ProcessInductive == ASSUME Inductive, Process PROVE Inductive'
<1> USE DEF Inductive, Process, Goto, files, loadVars, procVars, procRest
<1> DEFINE kind == Head(todo)
<1>a. todo \in Seq(OutcomeKinds) /\ todo # <<>> /\ todo' = Tail(todo) /\ todo' \in Seq(OutcomeKinds)
  BY DEF Process, TypeOK
<1>b. Started(todo) = Started(todo') + (IF kind = "dropped" THEN 0 ELSE 1) /\ Len(todo') = Len(todo) - 1
  BY <1>a, StartedTail
<1>c. kind # "dropped" =>
        /\ samples' = samples + (IF kind = "success" THEN 1 ELSE 0)
        /\ \E write \in Writes(kind) :
             /\ raw' = Written(kind, write)
             /\ stuck' = (stuck \/ write \in {"partial", "error"})
             /\ failed' = (failed \/ kind = "refused" \/ write \in {"partial", "error", "range"})
  BY DEF Process, Count
<1>0. /\ raw' \in Seq([run : 1..MaxRuns, kind : {"whole", "unreadable", "partial"}])
      /\ \/ raw' = raw
         \/ \E record : raw' = Append(raw, record) /\ record.run = run
  <2>1. CASE kind = "dropped"
    BY <2>1 DEF TypeOK
  <2>2. CASE kind # "dropped"
    BY <1>c, <2>2, WrittenAppends DEF StageFits
  <2> QED
    BY <2>1, <2>2
<1>d. \A i \in 1..Len(raw') : raw'[i].run = run \/ (i \in 1..Len(raw) /\ raw'[i] = raw[i])
  <2>1. CASE raw' = raw
    BY <2>1
  <2>2. ASSUME NEW record, raw' = Append(raw, record), record.run = run
        PROVE  \A i \in 1..Len(raw') : raw'[i].run = run \/ (i \in 1..Len(raw) /\ raw'[i] = raw[i])
    BY <2>2 DEF TypeOK
  <2> QED
    BY <1>0, <2>1, <2>2
<1>1. TypeOK'
  <2>1. samples' \in 0..MaxOutcomes
    <3>1. Len(todo) \in Nat \ {0} /\ samples \in Nat /\ Len(todo) + samples <= MaxOutcomes
      BY <1>a DEF TypeOK, Counting
    <3> QED
      BY <1>c, <3>1, RampAssumption DEF TypeOK, Process
  <2>2. failed' \in BOOLEAN /\ stuck' \in BOOLEAN
    BY <1>c DEF TypeOK, Process
  <2> QED
    BY <1>0, <1>a, <2>1, <2>2 DEF TypeOK
<1>2. StageFits'
  BY DEF TypeOK, StageFits, Stages, Before, OutStages, HtmlStages
<1>3. PastOnly'
  BY <1>d, Numbers DEF PastOnly
<1>4. NotBegun'
  BY DEF NotBegun, Before
<1>5. JsonlWhole'
  <2>1. CASE kind = "dropped"
    BY <2>1 DEF JsonlWhole, PartialOnlyLast, Incomplete
  <2>2. CASE kind # "dropped"
    <3>1. ASSUME flags.raw, ~stuck PROVE \A i \in 1..Len(raw) : raw[i].kind # "partial"
      BY <3>1, Numbers DEF JsonlWhole, PartialOnlyLast, Incomplete, Last
    <3>2. PICK write \in Writes(kind) : /\ raw' = Written(kind, write)
                                        /\ stuck' = (stuck \/ write \in {"partial", "error"})
      BY <1>c, <2>2
    <3>3. CASE write \notin {"ok", "partial"}
      BY <3>2, <3>3 DEF Written, JsonlWhole, PartialOnlyLast, Incomplete
    <3>4. CASE write \in {"ok", "partial"}
      <4>1. flags.raw /\ ~stuck
        BY <3>4 DEF Writes
      <4>2. PICK record : /\ raw' = Append(raw, record)
                          /\ write = "ok" => record.kind # "partial"
        BY <3>2, <3>4 DEF Written
      <4>3. /\ Len(raw') = Len(raw) + 1 /\ raw'[Len(raw')] = record /\ Len(raw) \in Nat
            /\ \A i \in 1..Len(raw) : raw'[i] = raw[i]
        BY <4>2 DEF TypeOK
      <4>4. PartialOnlyLast'
        BY <3>1, <4>1, <4>3 DEF PartialOnlyLast
      <4>5. ~stuck' => ~Incomplete'
        BY <3>2, <3>4, <4>2, <4>3 DEF Incomplete, Last
      <4> QED
        BY <4>4, <4>5 DEF JsonlWhole
    <3> QED
      BY <3>3, <3>4
  <2> QED
    BY <2>1, <2>2
<1>6. OwnRecords'
  <2>1. (\A i \in 1..Len(raw) : raw[i].run = run) => \A i \in 1..Len(raw') : raw'[i].run = run
    BY <1>d
  <2> QED
    BY <2>1 DEF OwnRecords, OwnRecordsOnly, HtmlStages, StageFits
<1>7. flags.raw /\ ~failed' => RecordsOf(run)' = RecordsOf(run) + (IF kind = "dropped" THEN 0 ELSE 1)
  <2>1. CASE kind = "dropped"
    <3>1. RecordsOf(run)' = RecordsOf(run)
      BY <2>1 DEF RecordsOf
    <3> QED
      BY <2>1, <3>1, RecordsNat
  <2>2. ASSUME kind # "dropped", flags.raw, ~failed' PROVE RecordsOf(run)' = RecordsOf(run) + 1
    <3>1. raw' = Written(kind, "ok")
      BY <1>c, <2>2 DEF Writes
    <3> DEFINE record == [run |-> run, kind |-> IF kind = "unreadable" THEN kind ELSE "whole"]
    <3>2. raw' = Append(raw, record) /\ record.run = run /\ record.kind # "partial"
      BY <3>1 DEF Written
    <3> HIDE DEF record
    <3> QED
      BY <3>2, RecordsAppended
  <2> QED
    BY <2>1, <2>2
<1>8. Counting'
  <2>1. Started(todo') \in Nat /\ RecordsOf(run) \in Nat
    BY <1>a, StartedBound, RecordsNat
  <2>2. ~failed' => ~failed
    BY <1>c
  <2>3. flags.raw /\ ~failed' => RecordsOf(run)' + Started(todo') = started
    BY <1>b, <1>7, <2>1, <2>2 DEF Counting, StageFits
  <2>4. Len(todo') + samples' <= MaxOutcomes
    <3>1. samples' = samples \/ samples' = samples + 1
      BY <1>c, Numbers
    <3>2. samples \in Nat /\ Len(todo) \in Nat
      BY DEF TypeOK
    <3> QED
      BY <1>b, <3>1, <3>2, RampAssumption DEF Counting
  <2> QED
    BY <2>3, <2>4 DEF Counting
<1>9. DocumentsWritten'
  BY DEF DocumentsWritten, OutStages, HtmlStages
<1>10. TempsCounted'
  BY DEF TypeOK, TempsCounted, Writing
<1>11. ExitCodeMeans'
  BY DEF ExitCodeMeans, VerdictMeansComplete, NothingRan, InterruptKeepsRecords
<1> QED
  BY <1>1, <1>2, <1>3, <1>4, <1>5, <1>6, <1>8, <1>9, <1>10, <1>11

\* Everything is processed.
LEMMA EvaluateInductive == ASSUME Inductive, Evaluate PROVE Inductive'
<1> USE DEF Inductive, Evaluate, Goto, files, loadVars, procVars, procRest
<1>1. TypeOK'
  BY DEF TypeOK, Documents, StageFits, Stages, Before, OutStages, HtmlStages, Counting, TempsCounted, Writing
<1>2. StageFits'
  BY DEF TypeOK, StageFits, Stages, Before, OutStages, HtmlStages
<1>3. PastOnly'
  BY DEF TypeOK, Documents, PastOnly
<1>4. NotBegun'
  BY DEF TypeOK, Documents, PastOnly, NotBegun, Untouched, Before, StageFits
<1>5. JsonlWhole'
  BY DEF TypeOK, JsonlWhole, PartialOnlyLast, Incomplete
<1>6. OwnRecords'
  BY DEF TypeOK, Documents, OwnRecords, OwnRecordsOnly, DocumentsWritten, HtmlStages, StageFits
<1>7. RecordsOf(run)' = RecordsOf(run)
  BY DEF RecordsOf
<1>8. Counting'
  BY <1>7, StartedBound, StartedNone DEF TypeOK, Counting, StageFits
<1>9. DocumentsWritten'
  BY DEF TypeOK, Documents, StageFits, DocumentsWritten, OutStages, HtmlStages, Before
<1>10. TempsCounted'
  BY DEF TypeOK, TempsCounted, Writing
<1>11. ExitCodeMeans'
  BY <1>7 DEF TypeOK, ExitCodeMeans, VerdictMeansComplete, NothingRan, InterruptKeepsRecords
<1> QED
  BY <1>1, <1>2, <1>3, <1>4, <1>5, <1>6, <1>8, <1>9, <1>10, <1>11

\* The summary, of this run.
LEMMA SummaryInductive == ASSUME Inductive, Summary PROVE Inductive'
<1> USE DEF Inductive, Summary, Goto, files, loadVars, procVars, procRest
<1>0. source' \in Documents /\ source'.run <= run /\ failed' \in BOOLEAN
      /\ (flags.out => source'.run = run /\ source'.by = "ramp")
  <2> DEFINE summary == [run |-> run, records |-> {}, by |-> "ramp", whole |-> FALSE]
  <2>1. summary \in Documents /\ summary.run = run /\ summary.by = "ramp"
    BY DEF TypeOK, Documents
  <2>2. IF flags.out THEN source' = summary ELSE source' = source
    BY DEF StageFits
  <2>3. failed' \in BOOLEAN
    BY DEF TypeOK
  <2> HIDE DEF summary
  <2> QED
    BY <2>1, <2>2, <2>3, Numbers DEF TypeOK, PastOnly
<1>1. TypeOK'
  BY <1>0 DEF TypeOK
<1>2. StageFits'
  BY DEF TypeOK, StageFits, Stages, Before, OutStages, HtmlStages
<1>3. PastOnly'
  BY <1>0 DEF PastOnly
<1>4. NotBegun'
  BY DEF TypeOK, Documents, PastOnly, NotBegun, Untouched, Before, StageFits
<1>5. JsonlWhole'
  BY DEF TypeOK, JsonlWhole, PartialOnlyLast, Incomplete
<1>6. OwnRecords'
  BY DEF TypeOK, Documents, OwnRecords, OwnRecordsOnly, DocumentsWritten, HtmlStages, StageFits
<1>7. RecordsOf(run)' = RecordsOf(run)
  BY DEF RecordsOf
<1>8. Counting'
  BY <1>7, StartedBound, StartedNone DEF TypeOK, Counting, StageFits
<1>9. DocumentsWritten'
  BY <1>0 DEF DocumentsWritten, OutStages, HtmlStages
<1>10. TempsCounted'
  BY DEF TypeOK, TempsCounted, Writing
<1>11. ExitCodeMeans'
  BY <1>7 DEF TypeOK, ExitCodeMeans, VerdictMeansComplete, NothingRan, InterruptKeepsRecords
<1> QED
  BY <1>1, <1>2, <1>3, <1>4, <1>5, <1>6, <1>8, <1>9, <1>10, <1>11

\* The summary of an earlier run.
LEMMA ReadSummaryInductive == ASSUME Inductive, ReadSummary PROVE Inductive'
<1> USE DEF Inductive, ReadSummary, Abort, None, Goto, files, loadVars, procVars, procRest
<1>1. TypeOK'
  BY DEF TypeOK, Documents, StageFits, Stages, Before, OutStages, HtmlStages, Counting, TempsCounted, Writing
<1>2. StageFits'
  BY DEF TypeOK, StageFits, Stages, Before, OutStages, HtmlStages
<1>3. PastOnly'
  BY DEF TypeOK, Documents, PastOnly
<1>4. NotBegun'
  BY DEF TypeOK, Documents, PastOnly, NotBegun, Untouched, Before, StageFits
<1>5. JsonlWhole'
  BY DEF TypeOK, JsonlWhole, PartialOnlyLast, Incomplete
<1>6. OwnRecords'
  BY DEF TypeOK, Documents, OwnRecords, OwnRecordsOnly, DocumentsWritten, HtmlStages, StageFits
<1>7. RecordsOf(run)' = RecordsOf(run)
  BY DEF RecordsOf
<1>8. Counting'
  BY <1>7, StartedBound, StartedNone DEF TypeOK, Counting, StageFits
<1>9. DocumentsWritten'
  <2>1. \/ pc' = "exit" /\ early' # 0 /\ UNCHANGED <<out, html, source>>
        \/ pc' = "html" /\ UNCHANGED <<out, html, command>>
    OBVIOUS
  <2>2. pc' = "html" => command = "report"
    <3>1. command = "report"
      BY DEF StageFits
    <3> QED
      BY <3>1
  <2> QED
    BY <2>1, <2>2 DEF DocumentsWritten, OutStages, HtmlStages
<1>10. TempsCounted'
  BY DEF TypeOK, TempsCounted, Writing
<1>11. ExitCodeMeans'
  BY <1>7 DEF TypeOK, ExitCodeMeans, VerdictMeansComplete, NothingRan, InterruptKeepsRecords
<1> QED
  BY <1>1, <1>2, <1>3, <1>4, <1>5, <1>6, <1>8, <1>9, <1>10, <1>11

\* The report shows the run and the records that its flags give it.
LEMMA HtmlInductive == ASSUME Inductive, Html PROVE Inductive'
<1> USE DEF Inductive, Html, Recorded, Goto, files, loadVars, procVars, procRest
<1>0. source' \in Documents
  <2>1. Recorded \in SUBSET (1..MaxRuns)
    BY Numbers
  <2>2. run \in 0..MaxRuns /\ source.run \in 0..MaxRuns /\ command \in {"ramp", "report"} /\ source \in Documents
    BY DEF TypeOK, Documents
  <2>3. \/ source' = source
        \/ source' = [run |-> IF command = "ramp" THEN run ELSE source.run,
                      records |-> Recorded, by |-> command, whole |-> FALSE]
    OBVIOUS
  <2> HIDE DEF Recorded
  <2>4. [run |-> IF command = "ramp" THEN run ELSE source.run,
         records |-> Recorded, by |-> command, whole |-> FALSE] \in Documents
    BY <2>1, <2>2 DEF Documents
  <2> QED
    BY <2>2, <2>3, <2>4
<1>1. TypeOK'
  BY <1>0 DEF TypeOK
<1>2. StageFits'
  BY DEF TypeOK, StageFits, Stages, Before, OutStages, HtmlStages
<1>3. PastOnly'
  BY DEF TypeOK, Documents, PastOnly
<1>4. NotBegun'
  BY DEF TypeOK, Documents, PastOnly, NotBegun, Untouched, Before, StageFits
<1>5. JsonlWhole'
  BY DEF TypeOK, JsonlWhole, PartialOnlyLast, Incomplete
<1>6. OwnRecords'
  BY SMTT(30) DEF TypeOK, Documents, OwnRecords, OwnRecordsOnly, DocumentsWritten, HtmlStages, StageFits
<1>7. RecordsOf(run)' = RecordsOf(run)
  BY DEF RecordsOf
<1>8. Counting'
  BY <1>7, StartedBound, StartedNone DEF TypeOK, Counting, StageFits
<1>9. DocumentsWritten'
  BY DEF TypeOK, Documents, StageFits, DocumentsWritten, OutStages, HtmlStages, Before
<1>10. TempsCounted'
  BY DEF TypeOK, TempsCounted, Writing
<1>11. ExitCodeMeans'
  BY <1>7 DEF TypeOK, ExitCodeMeans, VerdictMeansComplete, NothingRan, InterruptKeepsRecords
<1> QED
  BY <1>1, <1>2, <1>3, <1>4, <1>5, <1>6, <1>8, <1>9, <1>10, <1>11

\* A temporary file, or a failure that is known.
LEMMA CreateInductive == ASSUME Inductive, Create PROVE Inductive'
<1> USE DEF Inductive, Create, Goto, files, loadVars, procVars, procRest
<1>1. TypeOK'
  <2>1. failed' \in BOOLEAN
    BY DEF TypeOK
  <2>2. temps' \in Nat /\ lostTemps' \in Nat
    BY DEF TypeOK, TempsCounted, Writing
  <2> QED
    BY <2>1, <2>2 DEF TypeOK
<1>2. StageFits'
  BY DEF TypeOK, StageFits, Stages, Before, OutStages, HtmlStages
<1>3. PastOnly'
  BY DEF TypeOK, Documents, PastOnly
<1>4. NotBegun'
  BY DEF TypeOK, Documents, PastOnly, NotBegun, Untouched, Before, StageFits
<1>5. JsonlWhole'
  BY DEF TypeOK, JsonlWhole, PartialOnlyLast, Incomplete
<1>6. OwnRecords'
  BY DEF TypeOK, Documents, OwnRecords, OwnRecordsOnly, DocumentsWritten, HtmlStages, StageFits
<1>7. RecordsOf(run)' = RecordsOf(run)
  BY DEF RecordsOf
<1>8. Counting'
  BY <1>7, StartedBound, StartedNone DEF TypeOK, Counting, StageFits
<1>9. DocumentsWritten'
  BY DEF TypeOK, Documents, StageFits, DocumentsWritten, OutStages, HtmlStages, Before
<1>10. TempsCounted'
  BY DEF TypeOK, TempsCounted, Writing
<1>11. ExitCodeMeans'
  BY <1>7 DEF TypeOK, ExitCodeMeans, VerdictMeansComplete, NothingRan, InterruptKeepsRecords
<1> QED
  BY <1>1, <1>2, <1>3, <1>4, <1>5, <1>6, <1>8, <1>9, <1>10, <1>11

\* The document is whole, or the temporary file is gone and the failure known.
LEMMA WriteTempInductive == ASSUME Inductive, WriteTemp PROVE Inductive'
<1> USE DEF Inductive, WriteTemp, RemoveTemp, Done, Goto, files, loadVars, procVars, procRest
<1>1. TypeOK'
  <2>1. failed' \in BOOLEAN
    BY DEF TypeOK
  <2>2. temps' \in Nat /\ lostTemps' \in Nat
    BY DEF TypeOK, TempsCounted, Writing
  <2>3. source' \in Documents
    BY DEF TypeOK, Documents
  <2> QED
    BY <2>1, <2>2, <2>3 DEF TypeOK
<1>2. StageFits'
  BY DEF TypeOK, StageFits, Stages, Before, OutStages, HtmlStages
<1>3. PastOnly'
  BY DEF TypeOK, Documents, PastOnly
<1>4. NotBegun'
  BY DEF TypeOK, Documents, PastOnly, NotBegun, Untouched, Before, StageFits
<1>5. JsonlWhole'
  BY DEF TypeOK, JsonlWhole, PartialOnlyLast, Incomplete
<1>6. OwnRecords'
  BY DEF TypeOK, Documents, OwnRecords, OwnRecordsOnly, DocumentsWritten, HtmlStages, StageFits
<1>7. RecordsOf(run)' = RecordsOf(run)
  BY DEF RecordsOf
<1>8. Counting'
  BY <1>7, StartedBound, StartedNone DEF TypeOK, Counting, StageFits
<1>9. DocumentsWritten'
  BY DEF TypeOK, Documents, StageFits, DocumentsWritten, OutStages, HtmlStages, Before
<1>10. TempsCounted'
  BY DEF TypeOK, TempsCounted, Writing
<1>11. ExitCodeMeans'
  BY <1>7 DEF TypeOK, ExitCodeMeans, VerdictMeansComplete, NothingRan, InterruptKeepsRecords
<1> QED
  BY <1>1, <1>2, <1>3, <1>4, <1>5, <1>6, <1>8, <1>9, <1>10, <1>11

\* The document stands, or the failure is known.
LEMMA RenameInductive == ASSUME Inductive, Rename PROVE Inductive'
<1> USE DEF Inductive, Rename, RemoveTemp, Done, Goto, files, loadVars, procVars, procRest
<1>1. TypeOK'
  <2>1. failed' \in BOOLEAN
    BY DEF TypeOK
  <2>2. temps' \in Nat /\ lostTemps' \in Nat
    BY DEF TypeOK, TempsCounted, Writing
  <2>3. out' \in Documents /\ html' \in Documents
    BY DEF TypeOK
  <2> QED
    BY <2>1, <2>2, <2>3 DEF TypeOK
<1>2. StageFits'
  BY DEF TypeOK, StageFits, Stages, Before, OutStages, HtmlStages
<1>3. PastOnly'
  BY DEF TypeOK, Documents, PastOnly
<1>4. NotBegun'
  BY DEF TypeOK, Documents, PastOnly, NotBegun, Untouched, Before, StageFits
<1>5. JsonlWhole'
  BY DEF TypeOK, JsonlWhole, PartialOnlyLast, Incomplete
<1>6. OwnRecords'
  BY DEF TypeOK, Documents, OwnRecords, OwnRecordsOnly, DocumentsWritten, HtmlStages, StageFits
<1>7. RecordsOf(run)' = RecordsOf(run)
  BY DEF RecordsOf
<1>8. Counting'
  BY <1>7, StartedBound, StartedNone DEF TypeOK, Counting, StageFits
<1>9. DocumentsWritten'
  BY DEF TypeOK, Documents, StageFits, DocumentsWritten, OutStages, HtmlStages, Before
<1>10. TempsCounted'
  BY DEF TypeOK, TempsCounted, Writing
<1>11. ExitCodeMeans'
  BY <1>7 DEF TypeOK, ExitCodeMeans, VerdictMeansComplete, NothingRan, InterruptKeepsRecords
<1> QED
  BY <1>1, <1>2, <1>3, <1>4, <1>5, <1>6, <1>8, <1>9, <1>10, <1>11

\* The exit code says what has been reached.
LEMMA ExitInductive == ASSUME Inductive, Exit PROVE Inductive'
<1> USE DEF Inductive, Exit, exitCode, RampCode, ReportCode, Help, Goto, files, loadVars, procVars, procRest
<1>1. TypeOK'
  BY DEF TypeOK, Documents, StageFits, Stages, Before, OutStages, HtmlStages, Counting, TempsCounted, Writing
<1>2. StageFits'
  BY DEF TypeOK, StageFits, Stages, Before, OutStages, HtmlStages
<1>3. PastOnly'
  BY DEF TypeOK, Documents, PastOnly
<1>4. NotBegun'
  BY DEF TypeOK, Documents, PastOnly, NotBegun, Untouched, Before, StageFits
<1>5. JsonlWhole'
  BY DEF TypeOK, JsonlWhole, PartialOnlyLast, Incomplete
<1>6. OwnRecords'
  BY DEF TypeOK, Documents, OwnRecords, OwnRecordsOnly, DocumentsWritten, HtmlStages, StageFits
<1>7. RecordsOf(run)' = RecordsOf(run)
  BY DEF RecordsOf
<1>8. Counting'
  BY <1>7, StartedBound, StartedNone DEF TypeOK, Counting, StageFits
<1>9. DocumentsWritten'
  BY DEF TypeOK, Documents, StageFits, DocumentsWritten, OutStages, HtmlStages, Before
<1>10. TempsCounted'
  BY DEF TypeOK, TempsCounted, Writing
<1>11. ExitCodeMeans'
  <2>1. VerdictMeansComplete'
    <3> SUFFICES ASSUME command = "ramp", code' \in {0, 1}, early # Help PROVE VerdictMeansComplete'
      BY DEF VerdictMeansComplete
    <3>1. early = 0 /\ ~failed /\ samples # 0 /\ ~interrupted
      BY DEF TypeOK
    <3> QED
      BY <1>7, <3>1, StartedNone, RecordsNat DEF VerdictMeansComplete, DocumentsWritten, Counting, TypeOK
  <2>2. NothingRan'
    <3> SUFFICES ASSUME command = "ramp", code' = 2 \/ early = Help PROVE NothingRan'
      BY DEF NothingRan
    <3>1. early # 0
      BY DEF TypeOK
    <3> QED
      BY <1>7, <3>1, RecordsNone DEF NothingRan, NotBegun, Untouched
  <2>3. InterruptKeepsRecords'
    BY <1>7, StartedNone, RecordsNat DEF InterruptKeepsRecords, Counting, TypeOK
  <2> QED
    BY <2>1, <2>2, <2>3 DEF ExitCodeMeans
<1> QED
  BY <1>1, <1>2, <1>3, <1>4, <1>5, <1>6, <1>8, <1>9, <1>10, <1>11

\* A signal changes only the exit code.
LEMMA SignalInductive == ASSUME Inductive, Signal PROVE Inductive'
<1> USE DEF Inductive, Signal, Goto, files, loadVars, procVars, procRest
<1>1. TypeOK'
  BY DEF TypeOK, Documents, StageFits, Stages, Before, OutStages, HtmlStages, Counting, TempsCounted, Writing
<1>2. StageFits'
  BY DEF TypeOK, StageFits, Stages, Before, OutStages, HtmlStages
<1>3. PastOnly'
  BY DEF TypeOK, Documents, PastOnly
<1>4. NotBegun'
  BY DEF TypeOK, Documents, PastOnly, NotBegun, Untouched, Before, StageFits
<1>5. JsonlWhole'
  BY DEF TypeOK, JsonlWhole, PartialOnlyLast, Incomplete
<1>6. OwnRecords'
  BY DEF TypeOK, Documents, OwnRecords, OwnRecordsOnly, DocumentsWritten, HtmlStages, StageFits
<1>7. RecordsOf(run)' = RecordsOf(run)
  BY DEF RecordsOf
<1>8. Counting'
  BY <1>7, StartedBound, StartedNone DEF TypeOK, Counting, StageFits
<1>9. DocumentsWritten'
  BY DEF TypeOK, Documents, StageFits, DocumentsWritten, OutStages, HtmlStages, Before
<1>10. TempsCounted'
  BY DEF TypeOK, TempsCounted, Writing
<1>11. ExitCodeMeans'
  BY <1>7 DEF TypeOK, ExitCodeMeans, VerdictMeansComplete, NothingRan, InterruptKeepsRecords
<1> QED
  BY <1>1, <1>2, <1>3, <1>4, <1>5, <1>6, <1>8, <1>9, <1>10, <1>11

\* A kill leaves what is there, with the record it has cut off the last one.
LEMMA KillInductive == ASSUME Inductive, Kill PROVE Inductive'
<1> USE DEF Inductive, Kill, Goto, files, loadVars, procVars, procRest
<1>0. /\ raw' \in Seq([run : 1..MaxRuns, kind : {"whole", "unreadable", "partial"}])
      /\ \/ raw' = raw
         \/ \E record : raw' = Append(raw, record) /\ record.run = run
  <2>1. CASE UNCHANGED raw
    BY <2>1 DEF TypeOK
  <2>2. CASE pc = "process" /\ raw' = Written(Head(todo), "partial")
    <3>1. TypeOK /\ run # 0
      BY <2>2 DEF StageFits
    <3> QED
      BY ONLY <3>1, <2>2, WrittenAppends
  <2> QED
    BY <2>1, <2>2
<1>d. \A i \in 1..Len(raw') : raw'[i].run = run \/ (i \in 1..Len(raw) /\ raw'[i] = raw[i])
  <2>1. CASE raw' = raw
    BY <2>1
  <2>2. ASSUME NEW record, raw' = Append(raw, record), record.run = run
        PROVE  \A i \in 1..Len(raw') : raw'[i].run = run \/ (i \in 1..Len(raw) /\ raw'[i] = raw[i])
    BY <2>2 DEF TypeOK
  <2> QED
    BY <1>0, <2>1, <2>2
<1>1. TypeOK'
  BY <1>0 DEF TypeOK
<1>2. StageFits'
  BY DEF TypeOK, StageFits, Stages, Before, OutStages, HtmlStages
<1>3. PastOnly'
  BY <1>d, Numbers DEF PastOnly
<1>4. NotBegun'
  BY DEF TypeOK, Documents, PastOnly, NotBegun, Untouched, Before, StageFits
<1>5. JsonlWhole'
  <2>1. CASE raw' = raw
    BY <2>1 DEF JsonlWhole, PartialOnlyLast
  <2>2. CASE pc = "process" /\ flags.raw /\ ~stuck /\ raw' = Written(Head(todo), "partial")
    <3>1. \A i \in 1..Len(raw) : raw[i].kind # "partial"
      BY <2>2, Numbers DEF JsonlWhole, PartialOnlyLast, Incomplete, Last
    <3>2. PICK record : raw' = Append(raw, record)
      BY <2>2 DEF Written
    <3>3. Len(raw') = Len(raw) + 1 /\ Len(raw) \in Nat /\ \A i \in 1..Len(raw) : raw'[i] = raw[i]
      BY <3>2 DEF TypeOK
    <3> QED
      BY <3>1, <3>3 DEF JsonlWhole, PartialOnlyLast
  <2> QED
    BY <2>1, <2>2
<1>6. OwnRecords'
  BY DEF OwnRecords, OwnRecordsOnly, HtmlStages
<1>8. Counting'
  BY DEF Counting
<1>9. DocumentsWritten'
  BY DEF TypeOK, Documents, StageFits, DocumentsWritten, OutStages, HtmlStages, Before
<1>10. TempsCounted'
  BY DEF TypeOK, TempsCounted, Writing
<1>11. ExitCodeMeans'
  <2>1. NothingRan'
    <3> SUFFICES ASSUME early = Help PROVE NothingRan'
      BY DEF NothingRan, Killed
    <3>1. pc = "exit"
      BY DEF StageFits, Help
    <3>2. Untouched /\ UNCHANGED raw
      BY <3>1 DEF NotBegun, Help
    <3>3. RecordsOf(run) = 0
      BY <3>2, RecordsNone DEF Untouched
    <3> QED
      BY <3>2, <3>3 DEF NothingRan, Untouched, RecordsOf
  <2> QED
    BY <2>1 DEF ExitCodeMeans, VerdictMeansComplete, InterruptKeepsRecords, Killed
<1> QED
  BY <1>1, <1>2, <1>3, <1>4, <1>5, <1>6, <1>8, <1>9, <1>10, <1>11

LEMMA InductiveInit == Init => Inductive
<1> SUFFICES ASSUME Init PROVE Inductive
  OBVIOUS
<1> USE DEF Init, None, NoFlags
<1>1. TypeOK
  <2>1. None \in Documents
    BY RampAssumption DEF Documents
  <2>2. raw \in Seq([run : 1..MaxRuns, kind : {"whole", "unreadable", "partial"}]) /\ todo \in Seq(OutcomeKinds)
    OBVIOUS
  <2>3. NoFlags \in [out : BOOLEAN, html : BOOLEAN, raw : BOOLEAN]
    OBVIOUS
  <2>4. 0 \in 0..MaxRuns /\ 0 \in 0..MaxOutcomes
    BY RampAssumption
  <2> HIDE DEF None, NoFlags
  <2> QED
    BY <2>1, <2>2, <2>3, <2>4 DEF TypeOK
<1>2. StageFits /\ PastOnly /\ NotBegun /\ TempsCounted /\ OwnRecords
  BY DEF StageFits, Stages, Before, OutStages, HtmlStages, Writing, PastOnly, NotBegun, TempsCounted,
         OwnRecords, OwnRecordsOnly
<1>3. JsonlWhole /\ Counting /\ DocumentsWritten
  BY RampAssumption DEF JsonlWhole, PartialOnlyLast, Counting, DocumentsWritten, OutStages, HtmlStages
<1>4. ExitCodeMeans
  <2>1. RecordsOf(run) = 0
    BY RecordsNone
  <2> QED
    BY <2>1 DEF ExitCodeMeans, VerdictMeansComplete, NothingRan, InterruptKeepsRecords, Help
<1> QED
  BY <1>1, <1>2, <1>3, <1>4 DEF Inductive

LEMMA InductiveStep == Inductive /\ [Next]_vars => Inductive'
<1> SUFFICES ASSUME Inductive, [Next]_vars PROVE Inductive'
  OBVIOUS
<1>1. CASE UNCHANGED vars
  <2> USE <1>1 DEF vars, files, loadVars, procVars
  <2>1. UNCHANGED RecordsOf(run)
    BY DEF RecordsOf
  <2>2. UNCHANGED Started(todo)
    BY DEF Started
  <2>3. TypeOK' /\ StageFits' /\ PastOnly' /\ NotBegun'
    BY DEF Inductive, TypeOK, StageFits, PastOnly, NotBegun, Untouched
  <2>4. JsonlWhole' /\ OwnRecords' /\ DocumentsWritten' /\ TempsCounted'
    BY DEF Inductive, JsonlWhole, PartialOnlyLast, Incomplete, OwnRecords, OwnRecordsOnly,
           DocumentsWritten, TempsCounted
  <2>5. Counting'
    BY <2>1, <2>2 DEF Inductive, Counting
  <2>6. ExitCodeMeans'
    BY <2>1 DEF Inductive, ExitCodeMeans, VerdictMeansComplete, NothingRan, InterruptKeepsRecords
  <2> QED
    BY <2>3, <2>4, <2>5, <2>6 DEF Inductive
<1>2. CASE Next
  BY <1>1, <1>2, BeginInductive, ParseInductive, InspectInductive, LoadConfigInductive,
     OpenJSONLInductive, LoadInductive, ProcessInductive, EvaluateInductive, SummaryInductive,
     ReadSummaryInductive, HtmlInductive, CreateInductive, WriteTempInductive, RenameInductive,
     ExitInductive, SignalInductive, KillInductive DEF Next, Finished
<1> QED
  BY <1>1, <1>2

-----------------------------------------------------------------------------
\* The inductive invariant holds throughout.
THEOREM RampInvariance == Spec => []Inductive
  BY InductiveInit, InductiveStep, PTL DEF Spec

\* Every variable keeps its type, and every exit code is a documented one or
\* that of a kill.
THEOREM RampTypes == Spec => []TypeOK
  BY RampInvariance, PTL DEF Inductive

\* Whatever fails, is interrupted or killed, a document's name never stands
\* for half a document, and a temporary file stays only after a kill or where
\* its own removal failed.
THEOREM DocumentsWhole == Spec => []FilesIntact
<1>1. Inductive => FilesIntact
  <2>1. Inductive => temps \in Nat /\ lostTemps \in Nat /\ kills \in Nat
    BY DEF Inductive, TypeOK
  <2> QED
    BY <2>1 DEF Inductive, DocumentsWritten, TempsCounted, FilesIntact, Writing
<1> QED
  BY <1>1, RampInvariance, PTL

\* However many commands append to one JSONL, an incomplete record stays last.
THEOREM PartialStaysLast == Spec => []PartialOnlyLast
<1>1. Inductive => PartialOnlyLast
  BY DEF Inductive, JsonlWhole
<1> QED
  BY <1>1, RampInvariance, PTL

\* A report written by ramp never shows the records of another run.
THEOREM ReportsOwnRun == Spec => []OwnRecordsOnly
<1>1. Inductive => OwnRecordsOnly
  BY DEF Inductive, OwnRecords
<1> QED
  BY <1>1, RampInvariance, PTL

\* A verdict stands for a run that was measured and reported in full, exit 2
\* or a request for help for one that left nothing, and an interrupt loses no
\* record that was processed: after any sequence of commands, failures, signals and kills.
THEOREM ExitCodeTells == Spec => []ExitCodeMeans
  BY RampInvariance, PTL DEF Inductive

=============================================================================
