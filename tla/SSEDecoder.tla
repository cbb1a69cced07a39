----------------------------- MODULE SSEDecoder -----------------------------
(***************************************************************************)
(* The server-sent-event decoder of internal/probe/probe.go: readLine ends *)
(* a line at LF, CR or CRLF without waiting for the LF of a CRLF, and Next *)
(* joins the data lines up to a blank line into an event.                  *)
(*                                                                         *)
(* The stream is a sequence of symbols: the word data, a colon, a space,   *)
(* any other text, CR and LF.  An event is the sequence of its data values,*)
(* which the code joins with newlines.                                     *)
(***************************************************************************)
EXTENDS Integers, Sequences, FiniteSetsExt, SequencesExt

CONSTANT MaxLength  \* bound: symbols the server sends

ASSUME DecoderAssumption == MaxLength \in Nat

Symbols == {"data", ":", " ", "x", "CR", "LF"}

VARIABLES
  received,    \* the symbols sent so far
  position,    \* how many of them the decoder has read
  line,        \* readLine's line
  skipNextLF,  \* d.skipNextLF
  data,        \* Next's data values
  decoded      \* the events Next has returned

decoderState == <<position, line, skipNextLF, data, decoded>>
decoderVars == <<received, decoderState>>

DecoderInit ==
  /\ received = <<>> /\ position = 0
  /\ line = <<>> /\ skipNextLF = FALSE /\ data = <<>> /\ decoded = <<>>

\* The server sends one more symbol; reads follow no boundary of its writes.
Arrive ==
  /\ Len(received) < MaxLength
  /\ \E symbol \in Symbols : received' = Append(received, symbol)
  /\ UNCHANGED decoderState

-----------------------------------------------------------------------------
(***************************************************************************)
(* Lines.                                                                  *)
(***************************************************************************)

\* strings.Cut at the first colon: field and value, less one leading space.
FieldOf(text) == LET cut == SelectInSeq(text, LAMBDA symbol : symbol = ":")
                 IN IF cut = 0 THEN text ELSE SubSeq(text, 1, cut - 1)

ValueOf(text) ==
  LET cut == SelectInSeq(text, LAMBDA symbol : symbol = ":")
      rest == SubSeq(text, cut + 1, Len(text))
  IN IF cut = 0 THEN <<>>
     ELSE IF rest # <<>> /\ Head(rest) = " " THEN Tail(rest) ELSE rest

\* Next takes a complete line: a blank one returns the event, if it has data,
\* a comment or another field is skipped.
EndLine ==
  /\ line' = <<>>
  /\ \/ /\ line = <<>> /\ data # <<>>
        /\ decoded' = Append(decoded, data) /\ data' = <<>>
     \/ /\ line = <<>> /\ data = <<>>
        /\ UNCHANGED <<decoded, data>>
     \/ /\ line # <<>>
        /\ IF Head(line) # ":" /\ FieldOf(line) = <<"data">>
             THEN data' = Append(data, ValueOf(line))
             ELSE UNCHANGED data
        /\ UNCHANGED decoded

\* Mutant: the flag is cleared by the LF it skips only, so after a bare CR it
\* swallows a later LF.
ReadByteSticky ==
  /\ position < Len(received)
  /\ position' = position + 1
  /\ LET symbol == received[position + 1] IN
       \/ skipNextLF /\ symbol = "LF" /\ skipNextLF' = FALSE /\ UNCHANGED <<line, data, decoded>>
       \/ ~skipNextLF /\ symbol = "LF" /\ EndLine /\ UNCHANGED skipNextLF
       \/ symbol = "CR" /\ skipNextLF' = TRUE /\ EndLine
       \/ /\ symbol \notin {"CR", "LF"}
          /\ line' = Append(line, symbol) /\ UNCHANGED <<skipNextLF, data, decoded>>
  /\ UNCHANGED received

\* One ReadByte of readLine.
ReadByte ==
  /\ position < Len(received)
  /\ position' = position + 1
  /\ LET symbol == received[position + 1] IN
       \/ skipNextLF /\ symbol = "LF" /\ skipNextLF' = FALSE /\ UNCHANGED <<line, data, decoded>>
       \/ ~skipNextLF /\ symbol = "LF" /\ skipNextLF' = FALSE /\ EndLine
       \/ symbol = "CR" /\ skipNextLF' = TRUE /\ EndLine
       \/ /\ symbol \notin {"CR", "LF"}
          /\ line' = Append(line, symbol) /\ skipNextLF' = FALSE /\ UNCHANGED <<data, decoded>>
  /\ UNCHANGED received

Blocked == position = Len(received) /\ Len(received) = MaxLength /\ UNCHANGED decoderVars

DecoderNext == Arrive \/ ReadByte \/ Blocked

DecoderSpec == DecoderInit /\ [][DecoderNext]_decoderVars

-----------------------------------------------------------------------------
(***************************************************************************)
(* Reference: the lines of a whole text, the data lines before each blank  *)
(* line, and the events these make.                                        *)
(***************************************************************************)

\* The elements of a finite set of integers in increasing order.
Ranked(S, n) == {x \in S : Cardinality({y \in S : y <= x}) = n}
InOrder(S) == [n \in 1..Cardinality(S) |-> CHOOSE x \in Ranked(S, n) : TRUE]

\* A line ends at a CR, and at an LF that does not follow a CR.
LineEnds(text) ==
  {i \in 1..Len(text) : text[i] = "CR" \/ (text[i] = "LF" /\ (i = 1 \/ text[i - 1] # "CR"))}

\* It starts after the last CR or LF before.
Breaks(text) == {0} \cup {i \in 1..Len(text) : text[i] \in {"CR", "LF"}}
LineStart(text, i) == Max({j \in Breaks(text) : j < i}) + 1
LineBefore(text, i) == SubSeq(text, LineStart(text, i), i - 1)

IsData(text) == text # <<>> /\ Head(text) # ":" /\ FieldOf(text) = <<"data">>
BlankEnds(text) == {i \in LineEnds(text) : LineBefore(text, i) = <<>>}
DataEnds(text) == {i \in LineEnds(text) : IsData(LineBefore(text, i))}

\* The values of the data lines between the last blank line before i and i.
DataBefore(text, i) ==
  {j \in DataEnds(text) : j < i /\ \A b \in BlankEnds(text) : b < j \/ b >= i}
Values(text, i) ==
  LET ends == InOrder(DataBefore(text, i))
  IN [n \in DOMAIN ends |-> ValueOf(LineBefore(text, ends[n]))]

\* A blank line with data lines before it makes an event of their values.
EventEnds(text) == {i \in BlankEnds(text) : DataBefore(text, i) # {}}
Events(text) ==
  LET ends == InOrder(EventEnds(text)) IN [n \in DOMAIN ends |-> Values(text, ends[n])]

\* Whatever mixture of line ends the server uses and however its bytes arrive,
\* the events returned so far are exactly those of the bytes read so far: an
\* event is returned at its blank line's CR already, the LF of a CRLF is no
\* second blank line, comments and other fields vanish, data lines are joined.
DecodesPrefix == decoded = Events(SubSeq(received, 1, position))

=============================================================================
