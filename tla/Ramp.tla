-------------------------------- MODULE Ramp --------------------------------
(***************************************************************************)
(* The ramp and report commands, cmd/llm-slo-bench/main.go, one process    *)
(* after the other over the same files: a load run, its records appended   *)
(* to the request JSONL, its summary and its HTML report each written to a *)
(* temporary file and renamed.  A signal may come at any time, any I/O may *)
(* fail, and the process may be killed between two steps.                  *)
(*                                                                         *)
(* What happens inside loadgen.Run and the aggregator is in LoadGen and    *)
(* Aggregator: here a run yields the outcomes it hands over.               *)
(***************************************************************************)
EXTENDS Integers, Sequences, FiniteSets, SequencesExt

CONSTANTS
  MaxRuns,      \* bound: commands run one after the other
  MaxOutcomes   \* bound: outcomes of one load run

ASSUME RampAssumption == MaxRuns \in Nat /\ MaxOutcomes \in Nat

\* "refused" is a success the histograms cannot hold, "unreadable" a failure
\* whose usage is negative.
OutcomeKinds == {"dropped", "success", "failed", "refused", "unreadable"}

VARIABLES
  out, html,    \* the documents at --out and --html
  raw,          \* the records in the request JSONL
  temps,        \* temporary files in the directory
  lostTemps,    \* history: temporary files that could not be removed
  run,          \* number of commands so far
  pc,           \* where the process is, "idle" when there is none
  command,      \* "ramp" or "report"
  flags,        \* which of --out, --html and --raw-jsonl are given
  interrupted,  \* whether the signal context is done
  early,        \* the code of an error that ends the command early, Help, or 0
  runErr,       \* the error loadgen.Run returns
  todo,         \* outcomes not yet processed
  started,      \* history: number of started requests among the outcomes
  samples,      \* TTFT samples of the summary
  stuck,        \* the JSON encoder's sticky error
  failed,       \* processingErr
  verdict,      \* what the evaluator says
  source,       \* what the document being written will hold
  code,         \* exit code of the last command, or Killed
  kills         \* history: number of kills

files == <<out, html, raw, temps, lostTemps>>
loadVars == <<runErr, todo, started, samples, stuck, verdict>>
procVars == <<command, flags, interrupted, early, loadVars, failed, source>>
vars == <<files, run, pc, procVars, code, kills>>

Killed == 137

\* flag.ErrHelp, which is no error to run.
Help == -1

None == [run |-> 0, records |-> {}, by |-> "none", whole |-> TRUE]
NoFlags == [out |-> FALSE, html |-> FALSE, raw |-> FALSE]

Init ==
  /\ out = None /\ html = None /\ raw = <<>> /\ temps = 0 /\ lostTemps = 0
  /\ run = 0 /\ pc = "idle" /\ command = "ramp" /\ flags = NoFlags
  /\ interrupted = FALSE /\ early = 0
  /\ runErr = "none" /\ todo = <<>> /\ started = 0 /\ samples = 0
  /\ stuck = FALSE /\ verdict = "pass" /\ failed = FALSE /\ source = None
  /\ code = 0 /\ kills = 0

Goto(next) == pc' = next

\* runRamp or runReport returns an error of this code.
Abort(exit) == early' = exit /\ pc' = "exit"

-----------------------------------------------------------------------------
(***************************************************************************)
(* Before the load run.                                                    *)
(***************************************************************************)
Begin ==
  /\ pc = "idle" /\ run < MaxRuns
  /\ run' = run + 1
  /\ \/ command' = "ramp" /\ flags' \in [out : BOOLEAN, html : BOOLEAN, raw : BOOLEAN]
     \/ command' = "report" /\ flags' \in [out : {FALSE}, html : {TRUE}, raw : BOOLEAN]
  /\ interrupted' = FALSE /\ early' = 0 /\ runErr' = "none" /\ todo' = <<>>
  /\ started' = 0 /\ samples' = 0 /\ stuck' = FALSE /\ failed' = FALSE
  /\ verdict' = "pass" /\ source' = None
  /\ Goto("parse")
  /\ UNCHANGED <<files, code, kills>>

\* Flags, among which -h may be, and requireDistinctPaths.
Parse ==
  /\ pc = "parse"
  /\ \/ Abort(Help)
     \/ Abort(2)
     \/ Goto(IF command = "ramp" THEN "inspect" ELSE "readSummary") /\ UNCHANGED early
  /\ UNCHANGED <<files, run, command, flags, interrupted, loadVars, failed, source, code, kills>>

\* Mutant: an existing JSONL is taken over into the report.
InspectAnyway ==
  /\ pc = "inspect"
  /\ Goto("config") /\ UNCHANGED early
  /\ UNCHANGED <<files, run, command, flags, interrupted, loadVars, failed, source, code, kills>>

\* With --html, the JSONL must be new or empty.
Inspect ==
  /\ pc = "inspect"
  /\ \/ flags.html /\ flags.raw /\ Abort(3)
     \/ flags.html /\ flags.raw /\ raw # <<>> /\ Abort(2)
     \/ (flags.html /\ flags.raw => raw = <<>>) /\ Goto("config") /\ UNCHANGED early
  /\ UNCHANGED <<files, run, command, flags, interrupted, loadVars, failed, source, code, kills>>

\* loadConfig, and the API key from the environment.
LoadConfig ==
  /\ pc = "config"
  /\ \/ Abort(2)
     \/ Goto(IF flags.raw THEN "open" ELSE "load") /\ UNCHANGED early
  /\ UNCHANGED <<files, run, command, flags, interrupted, loadVars, failed, source, code, kills>>

Incomplete == raw # <<>> /\ Last(raw).kind = "partial"

\* Mutant: the last record is not looked at.
OpenAnyway ==
  /\ pc = "open"
  /\ \/ Abort(3)
     \/ Goto("load") /\ UNCHANGED early
  /\ UNCHANGED <<files, run, command, flags, interrupted, loadVars, failed, source, code, kills>>

\* OpenJSONL refuses a file that ends with an incomplete record.
OpenJSONL ==
  /\ pc = "open"
  /\ \/ Abort(3)
     \/ ~Incomplete /\ Goto("load") /\ UNCHANGED early
  /\ UNCHANGED <<files, run, command, flags, interrupted, loadVars, failed, source, code, kills>>

-----------------------------------------------------------------------------
(***************************************************************************)
(* The load run and its outcomes.                                          *)
(***************************************************************************)
Started(outcomes) == Cardinality({i \in 1..Len(outcomes) : outcomes[i] # "dropped"})

\* loadgen.Run refuses its configuration, or it runs and returns the outcomes
\* it has: after a signal with the context's error, after a schedule error
\* with that one.
Load ==
  /\ pc = "load"
  /\ \/ runErr' = "invalid" /\ Abort(2) /\ UNCHANGED <<todo, started>>
     \/ /\ runErr' \in {"schedule", IF interrupted THEN "canceled" ELSE "none"}
        /\ todo' \in UNION {[1..n -> OutcomeKinds] : n \in 0..MaxOutcomes}
        /\ started' = Started(todo')
        /\ Goto("process") /\ UNCHANGED early
  /\ UNCHANGED <<files, run, command, flags, interrupted, samples, stuck, verdict, failed, source,
                 code, kills>>

\* How writing a record may go.  A failed write may leave part of it, and the
\* encoder writes nothing after it; a duration out of range is found before.
Writes(kind) ==
  IF ~flags.raw THEN {"none"}
  ELSE (IF stuck THEN {"error"} ELSE {"ok", "partial", "error"})
       \cup (IF kind = "refused" THEN {"range"} ELSE {})

Written(kind, write) ==
  CASE write = "ok" -> Append(raw, [run |-> run, kind |-> IF kind = "unreadable" THEN kind ELSE "whole"])
    [] write = "partial" -> Append(raw, [run |-> run, kind |-> "partial"])
    [] OTHER -> raw

\* Record and, with --raw-jsonl, WriteResult.
Count(kind) ==
  /\ samples' = samples + (IF kind = "success" THEN 1 ELSE 0)
  /\ \E write \in Writes(kind) :
       /\ raw' = Written(kind, write)
       /\ stuck' = (stuck \/ write \in {"partial", "error"})
       /\ failed' = (failed \/ kind = "refused" \/ write \in {"partial", "error", "range"})

Process ==
  /\ pc = "process" /\ todo # <<>>
  /\ todo' = Tail(todo)
  /\ IF Head(todo) = "dropped"
       THEN UNCHANGED <<raw, samples, stuck, failed>>
       ELSE Count(Head(todo))
  /\ UNCHANGED <<out, html, temps, lostTemps, run, pc, command, flags, interrupted, early, runErr,
                 started, verdict, source, code, kills>>

\* The JSONL is closed, the aggregator too, and the evaluator is asked: it may
\* find no observation for a gate.
Evaluate ==
  /\ pc = "process" /\ todo = <<>>
  /\ \E closeFails \in {FALSE, flags.raw} : failed' = (failed \/ closeFails)
  /\ verdict' \in {"pass", "fail", "error"}
  /\ Goto("summary")
  /\ UNCHANGED <<files, run, command, flags, interrupted, early, runErr, todo, started, samples,
                 stuck, source, code, kills>>

-----------------------------------------------------------------------------
(***************************************************************************)
(* The documents.                                                          *)
(***************************************************************************)
procRest == <<run, command, flags, interrupted, early, loadVars, code, kills>>

\* The summary goes to standard output, or to a temporary file.
Summary ==
  /\ pc = "summary"
  /\ IF flags.out
       THEN source' = [run |-> run, records |-> {}, by |-> command, whole |-> FALSE]
            /\ Goto("createOut") /\ UNCHANGED failed
       ELSE Goto("html") /\ UNCHANGED source /\ failed' \in {failed, TRUE}
  /\ UNCHANGED <<files, procRest>>

\* readSummary: the summary at --input, which report must be able to read.
ReadSummary ==
  /\ pc = "readSummary"
  /\ \/ Abort(2) /\ UNCHANGED source
     \/ out # None /\ source' = out /\ Goto("html") /\ UNCHANGED early
  /\ UNCHANGED <<files, run, command, flags, interrupted, loadVars, failed, code, kills>>

Readable == \A i \in 1..Len(raw) : raw[i].kind = "whole"
Recorded == IF flags.raw THEN {raw[i].run : i \in 1..Len(raw)} ELSE {}

\* What WriteHTML renders; the records are checked before anything is written.
Html ==
  /\ pc = "html"
  /\ IF flags.html
       THEN /\ source' = [run |-> IF command = "ramp" THEN run ELSE source.run,
                          records |-> Recorded, by |-> command, whole |-> FALSE]
            /\ Goto("createHtml")
       ELSE Goto("exit") /\ UNCHANGED source
  /\ UNCHANGED <<files, failed, procRest>>

\* writeFileAtomically, for the document that pc names.
Create ==
  /\ pc \in {"createOut", "createHtml"}
  /\ \/ failed' = TRUE /\ Goto(IF pc = "createOut" THEN "html" ELSE "exit") /\ UNCHANGED temps
     \/ temps' = temps + 1 /\ Goto(IF pc = "createOut" THEN "writeOut" ELSE "writeHtml")
        /\ UNCHANGED failed
  /\ UNCHANGED <<out, html, raw, lostTemps, source, procRest>>

\* The deferred os.Remove, whose error is dropped.
RemoveTemp ==
  \/ temps' = temps - 1 /\ UNCHANGED lostTemps
  \/ lostTemps' = lostTemps + 1 /\ UNCHANGED temps

Done == Goto(IF pc \in {"writeOut", "renameOut"} THEN "html" ELSE "exit")

\* Mutant: an error of the write is not looked at.
WriteTempUnchecked ==
  /\ pc \in {"writeOut", "writeHtml"}
  /\ source' \in {source, [source EXCEPT !.whole = TRUE]}
  /\ Goto(IF pc = "writeOut" THEN "renameOut" ELSE "renameHtml")
  /\ UNCHANGED <<files, failed, procRest>>

\* Permissions, contents, sync and close, any of which may fail.
WriteTemp ==
  /\ pc \in {"writeOut", "writeHtml"}
  /\ \/ failed' = TRUE /\ RemoveTemp /\ Done /\ UNCHANGED source
     \/ /\ pc = "writeHtml" /\ flags.raw => Readable
        /\ source' = [source EXCEPT !.whole = TRUE]
        /\ Goto(IF pc = "writeOut" THEN "renameOut" ELSE "renameHtml")
        /\ UNCHANGED <<failed, temps, lostTemps>>
  /\ UNCHANGED <<out, html, raw, procRest>>

Rename ==
  /\ pc \in {"renameOut", "renameHtml"}
  /\ Done
  /\ \/ failed' = TRUE /\ RemoveTemp /\ UNCHANGED <<out, html>>
     \/ /\ temps' = temps - 1 /\ UNCHANGED lostTemps
        /\ IF pc = "renameOut" THEN out' = source /\ UNCHANGED html
                               ELSE html' = source /\ UNCHANGED out
        /\ UNCHANGED failed
  /\ UNCHANGED <<raw, source, procRest>>

-----------------------------------------------------------------------------
(***************************************************************************)
(* The end of the command.                                                 *)
(***************************************************************************)
\* Mutant: a verdict is given although processing failed.
RampCodeVerdictFirst ==
  IF early # 0 THEN early
  ELSE IF runErr # "none" \/ verdict = "error" THEN 3
  ELSE IF verdict = "fail" THEN 1
  ELSE IF failed \/ samples = 0 THEN 3 ELSE 0

\* The code of the error runRamp returns, 0 for none.
RampCode ==
  IF early # 0 THEN early
  ELSE IF runErr # "none" \/ failed \/ verdict = "error" \/ samples = 0 THEN 3
  ELSE IF verdict = "fail" THEN 1 ELSE 0

ReportCode == IF early # 0 THEN early ELSE IF failed THEN 3 ELSE 0

\* Mutant: the code of a signal's default action.
ExitCodeOfSignal ==
  IF early = Help THEN 0
  ELSE IF interrupted THEN 143 ELSE IF command = "ramp" THEN RampCode ELSE ReportCode

\* run takes help for a success, and then looks at the signal context.
exitCode ==
  IF early = Help THEN 0
  ELSE IF interrupted THEN 130 ELSE IF command = "ramp" THEN RampCode ELSE ReportCode

Exit ==
  /\ pc = "exit"
  /\ code' = exitCode
  /\ Goto("idle")
  /\ UNCHANGED <<files, run, procVars, kills>>

Signal ==
  /\ pc # "idle" /\ ~interrupted
  /\ interrupted' = TRUE
  /\ UNCHANGED <<files, run, pc, command, flags, early, loadVars, failed, source, code, kills>>

\* Nothing deferred runs; a record that is being written may be cut off.
Kill ==
  /\ pc # "idle"
  /\ \/ UNCHANGED raw
     \/ pc = "process" /\ todo # <<>> /\ flags.raw /\ ~stuck /\ raw' = Written(Head(todo), "partial")
  /\ code' = Killed /\ kills' = kills + 1
  /\ Goto("idle")
  /\ UNCHANGED <<out, html, temps, lostTemps, run, procVars>>

Finished == pc = "idle" /\ run = MaxRuns /\ UNCHANGED vars

Next ==
  \/ Begin \/ Parse \/ Inspect \/ LoadConfig \/ OpenJSONL \/ Load \/ Process \/ Evaluate
  \/ Summary \/ ReadSummary \/ Html \/ Create \/ WriteTemp \/ Rename \/ Exit
  \/ Signal \/ Kill \/ Finished

Spec == Init /\ [][Next]_vars

-----------------------------------------------------------------------------
Documents == [run : 0..MaxRuns, records : SUBSET (1..MaxRuns), by : {"none", "ramp", "report"},
              whole : BOOLEAN]

\* Every variable has its type; the exit codes are the documented ones.
TypeOK ==
  /\ out \in Documents /\ html \in Documents /\ source \in Documents
  /\ raw \in Seq([run : 1..MaxRuns, kind : {"whole", "unreadable", "partial"}])
  /\ temps \in Nat /\ lostTemps \in Nat /\ kills \in Nat
  /\ run \in 0..MaxRuns
  /\ command \in {"ramp", "report"}
  /\ flags \in [out : BOOLEAN, html : BOOLEAN, raw : BOOLEAN]
  /\ interrupted \in BOOLEAN /\ stuck \in BOOLEAN /\ failed \in BOOLEAN
  /\ early \in {0, 2, 3, Help}
  /\ runErr \in {"none", "invalid", "schedule", "canceled"}
  /\ todo \in Seq(OutcomeKinds)
  /\ started \in 0..MaxOutcomes /\ samples \in 0..MaxOutcomes
  /\ verdict \in {"pass", "fail", "error"}
  /\ code \in {0, 1, 2, 3, 130, Killed}

\* A killed run never leaves a half-written report (README): at any moment,
\* and so after a kill at that moment, what has a document's name was written
\* to its end; and a temporary file stays behind only after a kill or where its
\* own removal failed, whatever else fails before or after.
FilesIntact == /\ out.whole /\ html.whole
               /\ pc = "idle" => temps <= kills + lostTemps

\* An incomplete record is the last one for ever: no later write of this run
\* and no later run appends to it, or it would merge two records into one.
PartialOnlyLast == \A i \in 1..Len(raw) : raw[i].kind = "partial" => i = Len(raw)

\* A report that ramp writes shows the records of its own run and no other's.
OwnRecordsOnly == html.by = "ramp" => html.records \subseteq {html.run}

RecordsOf(r) == Cardinality({i \in 1..Len(raw) : raw[i].run = r /\ raw[i].kind # "partial"})

\* A verdict is given only on a run that was measured and reported in full:
\* 0 or 1 after a ramp means that there are samples, that every document
\* asked for is this run's, and that every started request has its record,
\* unless the command was asked for its help.
VerdictMeansComplete ==
  pc = "idle" /\ run > 0 /\ command = "ramp" /\ code \in {0, 1} /\ early # Help =>
    /\ samples > 0
    /\ flags.out => out.run = run
    /\ flags.html => html.run = run /\ html.by = "ramp"
    /\ flags.raw => RecordsOf(run) = started

\* Exit 2 says that nothing ran (README), and so does the 0 of a request for
\* help, after a signal too: no document and no record is this run's, wherever
\* the command gave up.
NothingRan ==
  pc = "idle" /\ command = "ramp" /\ (code = 2 \/ early = Help) =>
    started = 0 /\ out.run # run /\ html.run # run /\ RecordsOf(run) = 0

\* Records survive an interrupted run (README): when processing succeeded, the
\* requests that a signal found finished have their records.
InterruptKeepsRecords ==
  pc = "idle" /\ code = 130 /\ command = "ramp" /\ flags.raw /\ ~failed => RecordsOf(run) = started

\* The exit code a caller gates on says what the files hold, whichever of the
\* interrupt, load error, processing error and verdict came together.
ExitCodeMeans == VerdictMeansComplete /\ NothingRan /\ InterruptKeepsRecords

=============================================================================
