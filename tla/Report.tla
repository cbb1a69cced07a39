------------------------------- MODULE Report -------------------------------
(***************************************************************************)
(* The HTML report of a request JSONL, internal/report/html.go: the file   *)
(* is validated and copied to a spool, line by line, the strip of TTFT     *)
(* samples is thinned out on the way, and header, one row per record and   *)
(* footer are written from the spool.  The file may be that of a ramp      *)
(* which is still appending; any call on a file may fail.                  *)
(***************************************************************************)
EXTENDS Integers, Sequences, FiniteSets

CONSTANTS
  Micros,      \* TTFTs a record may have
  MaxRecords,  \* bound: lines of the file
  Cap          \* ttftStripPointCap

NoTTFT == -1   \* a record without
Invalid == -2  \* a line that is not a valid record

ASSUME ReportAssumption ==
  Micros \subseteq Nat /\ MaxRecords \in Nat /\ Cap \in Nat \ {0}

VARIABLES
  source,    \* the lines of the JSONL
  half,      \* whether the beginning of another line follows them
  pc,        \* where WriteHTML is
  spool,     \* the lines of the temporary copy
  spooled,   \* whether it is on the disk
  Observed, Min, Max, stride, Points,  \* ttftSamples
  header,    \* the number of requests the header gives, or None
  rows,      \* the records written
  footer,    \* whether the footer is written
  returnErr, \* whether WriteHTML returns an error
  lostSpool, \* history: whether removing the spool has failed
  seen       \* history: lines of the file when its end was reached, or None

None == -1
file == <<source, half>>
samples == <<Observed, Min, Max, stride, Points>>
output == <<header, rows, footer>>
vars == <<file, pc, spool, spooled, samples, output, returnErr, lostSpool, seen>>

Init ==
  /\ source = <<>> /\ half = FALSE
  /\ pc = "open" /\ spool = <<>> /\ spooled = FALSE
  /\ Observed = 0 /\ Min = 0 /\ Max = 0 /\ stride = 0 /\ Points = <<>>
  /\ header = None /\ rows = <<>> /\ footer = FALSE
  /\ returnErr = FALSE /\ lostSpool = FALSE /\ seen = None

-----------------------------------------------------------------------------
(***************************************************************************)
(* The other process: an append may be seen in two parts.                  *)
(***************************************************************************)
AppendHalf ==
  /\ ~half /\ Len(source) < MaxRecords
  /\ half' = TRUE
  /\ UNCHANGED <<source, pc, spool, spooled, samples, output, returnErr, lostSpool, seen>>

AppendRest ==
  /\ half /\ half' = FALSE
  /\ \E line \in Micros \cup {NoTTFT, Invalid} : source' = Append(source, line)
  /\ UNCHANGED <<pc, spool, spooled, samples, output, returnErr, lostSpool, seen>>

-----------------------------------------------------------------------------
(***************************************************************************)
(* ttftSamples.                                                            *)
(***************************************************************************)
\* Mutant: the odd indices are kept.
CompactedOdd(points) == [k \in 1..Len(points) \div 2 |-> points[2 * k]]

\* The points with an even index, counted from 0.
Compacted(points) == [k \in 1..(Len(points) + 1) \div 2 |-> points[2 * k - 1]]

\* Every stride-th sample; at the cap every other point goes and the stride
\* doubles, which, if the cap is odd, skips the sample at hand.
add(request, micros) ==
  LET due == Observed % (IF stride = 0 THEN 1 ELSE stride) = 0
      full == due /\ Len(Points) = Cap
  IN /\ Observed' = Observed + 1
     /\ Min' = IF Observed = 0 \/ micros < Min THEN micros ELSE Min
     /\ Max' = IF Observed = 0 \/ micros > Max THEN micros ELSE Max
     /\ stride' = (IF stride = 0 THEN 1 ELSE stride) * (IF full THEN 2 ELSE 1)
     /\ LET kept == IF full THEN Compacted(Points) ELSE Points
        IN Points' = IF ~due \/ Observed % stride' # 0 THEN kept
                     ELSE Append(kept, [request |-> request, micros |-> micros])

-----------------------------------------------------------------------------
(***************************************************************************)
(* WriteHTML.                                                              *)
(***************************************************************************)
Goto(next) == pc' = next

\* Mutant: the early returns of the snapshot leave the spool.
FailLeaving ==
  /\ returnErr' = TRUE /\ Goto("done")
  /\ UNCHANGED <<spooled, lostSpool>>

\* An error, whatever is deferred: the spool is closed and removed.
Fail ==
  /\ returnErr' = TRUE /\ Goto("done")
  /\ \E fails \in {FALSE, spooled} : spooled' = fails /\ lostSpool' = fails

Going(next) == Goto(next) /\ UNCHANGED <<spooled, returnErr, lostSpool>>

Open ==
  /\ pc = "open"
  /\ \/ Fail
     \/ Goto("copy") /\ spooled' = TRUE /\ UNCHANGED <<returnErr, lostSpool>>
  /\ UNCHANGED <<file, spool, samples, output, seen>>

\* One line, as far as it is there: read, decoded, written to the spool.
Copy ==
  /\ pc = "copy" /\ Len(spool) < Len(source)
  /\ LET number == Len(spool) + 1
         line == source[number]
     IN \/ Fail /\ UNCHANGED <<spool, samples>>
        \/ /\ line # Invalid
           /\ spool' = Append(spool, line)
           /\ IF line = NoTTFT THEN UNCHANGED samples ELSE add(number, line)
           /\ Going("copy")
  /\ UNCHANGED <<file, output, seen>>

\* Mutant: what follows the last newline is left out.
CopyEndAnyway ==
  /\ pc = "copy" /\ Len(spool) = Len(source)
  /\ seen' = IF half THEN Len(source) + 1 ELSE Len(source)
  /\ Fail \/ Going("header")
  /\ UNCHANGED <<file, spool, samples, output>>

\* The end of the file: between two lines, or an error.  The source is closed
\* and the spool rewound.
CopyEnd ==
  /\ pc = "copy" /\ Len(spool) = Len(source)
  /\ seen' = IF half THEN Len(source) + 1 ELSE Len(source)
  /\ Fail \/ (~half /\ Going("header"))
  /\ UNCHANGED <<file, spool, samples, output>>

Header ==
  /\ pc = "header"
  /\ header' = Len(spool)
  /\ Fail \/ Going("rows")
  /\ UNCHANGED <<file, spool, samples, rows, footer, seen>>

Row ==
  /\ pc = "rows" /\ Len(rows) < Len(spool)
  /\ \/ Fail /\ UNCHANGED rows
     \/ rows' = Append(rows, spool[Len(rows) + 1]) /\ Going("rows")
  /\ UNCHANGED <<file, spool, samples, header, footer, seen>>

\* After the last row the footer; then the spool is removed.
Footer ==
  /\ pc = "rows" /\ Len(rows) = Len(spool)
  /\ \/ Fail /\ footer' = FALSE
     \/ /\ footer' = TRUE /\ Goto("done")
        /\ spooled' = FALSE /\ UNCHANGED <<returnErr, lostSpool>>
     \/ footer' = TRUE /\ returnErr' = TRUE /\ lostSpool' = TRUE /\ Goto("done") /\ UNCHANGED spooled
  /\ UNCHANGED <<file, spool, samples, header, rows, seen>>

Done == pc = "done" /\ ~half /\ UNCHANGED vars

Next ==
  \/ AppendHalf \/ AppendRest
  \/ Open \/ Copy \/ CopyEnd \/ Header \/ Row \/ Footer \/ Done

Spec == Init /\ [][Next]_vars

-----------------------------------------------------------------------------
\* Records are validated and copied before any destination byte is written
\* (WriteHTML's comment), beside a process that appends: what is written is
\* based on every line, valid and complete, that the file had when its end was
\* reached; the header's count and the rows agree when the report is complete;
\* and no report without an error is incomplete.
SnapshotShown ==
  /\ header # None =>
       /\ header = seen /\ spool = SubSeq(source, 1, seen)
       /\ \A i \in 1..seen : source[i] # Invalid
  /\ pc = "done" /\ ~returnErr => header # None /\ rows = spool /\ footer

\* However WriteHTML ends, no spool with request data stays behind, unless
\* removing it failed, which an otherwise complete report does not hide.
SpoolRemoved == pc = "done" => (spooled <=> lostSpool) /\ (lostSpool => returnErr)

\* The samples of the spool, by number of request, in order.
Numbered == {i \in 1..Len(spool) : spool[i] # NoTTFT}
RankOf(i) == Cardinality({j \in Numbered : j < i})

\* The strip is an even selection of the samples, for any number of them:
\* there is a stride, a power of two and no larger than the cap asks for, such
\* that the points are the first sample and each stride-th after it, and its
\* range is that of all samples.
StripEven ==
  Numbered # {} =>
    /\ Observed = Cardinality(Numbered) /\ Len(Points) <= Cap
    /\ LET chosen == {i \in Numbered : RankOf(i) % stride = 0}
       IN /\ {Points[k].request : k \in 1..Len(Points)} = chosen
          /\ Len(Points) = Cardinality(chosen)
    /\ \A k \in 1..Len(Points) :
         /\ Points[k].micros = spool[Points[k].request]
         /\ k > 1 => Points[k - 1].request < Points[k].request
    /\ stride > 1 => (Observed - 1) \div (stride \div 2) >= Cap
    /\ \A i \in Numbered : Min <= spool[i] /\ spool[i] <= Max
    /\ {Min, Max} \subseteq {spool[i] : i \in Numbered}

=============================================================================
