--------------------------- MODULE ControlResponse ---------------------------
(***************************************************************************)
(* How the text of the control connection becomes replies:                 *)
(* parseControlResponse (src/parseControlResponse.ts) and the handling of  *)
(* its remainder in FTPContext._onControlSocketData.                       *)
(*                                                                         *)
(* A text is a sequence of characters.  Codes have two digits instead of   *)
(* three, "x" stands for any other text, and a line ends with LF alone: CR *)
(* is dropped by the parser where it matters.                              *)
(***************************************************************************)
EXTENDS Naturals, Sequences, SequencesExt

CONSTANTS
    Replies,        \* texts of single replies, each a sequence of characters
    MaxReplies,     \* bound on the replies of one run
    MaxLength       \* maxControlResponseLength

ASSUME MaxRepliesAssumption == MaxReplies \in Nat
ASSUME MaxLengthAssumption == MaxLength \in Nat

LF == "lf"
Digits == {"2", "5"}
Chars == Digits \cup {" ", "-", "x", LF}

-----------------------------------------------------------------------------
(* The parser *)

isNotBlank(line) == \E i \in 1 .. Len(line) : line[i] # " "

Kept(lines, line) == IF isNotBlank(line) THEN Append(lines, line) ELSE lines

\* One character, read after the lines that are complete.
ReadChar(read, c) ==
    IF c = LF THEN [lines |-> Kept(read.lines, read.line), line |-> <<>>]
    ELSE [lines |-> read.lines, line |-> Append(read.line, c)]

\* split(/\r?\n/) without the blank lines.
Lines(text) ==
    LET read == FoldLeft(ReadChar, [lines |-> <<>>, line |-> <<>>], text)
    IN  Kept(read.lines, read.line)

HasCode(line) == Len(line) >= 2 /\ line[1] \in Digits /\ line[2] \in Digits
CodeOf(line) == SubSeq(line, 1, 2)

isSingleLine(line) == HasCode(line) /\ (Len(line) = 2 \/ line[3] = " ")
isMultiline(line) == HasCode(line) /\ Len(line) > 2 /\ line[3] = "-"

\* The closing token of a group: its code, followed by a blank or nothing.
Closes(group, line) == isSingleLine(line) /\ CodeOf(line) = CodeOf(group[1])

\* Variant: a line of a group keeps its break.
ParseLineWithBreak(state, line) ==
    IF state.group = <<>>
    THEN [messages |-> IF isSingleLine(line)
                       THEN Append(state.messages, <<line>>) ELSE state.messages,
          group    |-> IF isMultiline(line) THEN <<line>> ELSE <<>>]
    ELSE [messages |-> IF Closes(state.group, line)
                       THEN Append(state.messages, Append(state.group, line))
                       ELSE state.messages,
          group    |-> IF Closes(state.group, line)
                       THEN <<>> ELSE Append(state.group, Append(line, LF))]

\* One line, read while `group' holds the lines of the group that is open.
ParseLine(state, line) ==
    IF state.group = <<>>
    THEN [messages |-> IF isSingleLine(line)
                       THEN Append(state.messages, <<line>>) ELSE state.messages,
          group    |-> IF isMultiline(line) THEN <<line>> ELSE <<>>]
    ELSE [messages |-> IF Closes(state.group, line)
                       THEN Append(state.messages, Append(state.group, line))
                       ELSE state.messages,
          group    |-> IF Closes(state.group, line)
                       THEN <<>> ELSE Append(state.group, line)]

\* Variant: only the last line is remembered.
RestIsLastLine(group) == IF group = <<>> THEN <<>> ELSE Append(Last(group), LF)

AddLine(text, line) == text \o Append(line, LF)

\* The lines of an open group, each with its LF.
Rest(group) == FoldLeft(AddLine, <<>>, group)

parseControlResponse(text) ==
    LET parsed == FoldLeft(ParseLine, [messages |-> <<>>, group |-> <<>>], Lines(text))
    IN  [messages |-> parsed.messages, rest |-> Rest(parsed.group)]

-----------------------------------------------------------------------------
(* The server *)

\* A reply has one line, or several from the first, with a dash after its
\* code, to the first that repeats the code followed by a blank or nothing.
IsReply(lines) ==
    \/ Len(lines) = 1 /\ isSingleLine(lines[1])
    \/ /\ Len(lines) > 1 /\ isMultiline(lines[1])
       /\ \A i \in 2 .. Len(lines) : Closes(lines, lines[i]) <=> i = Len(lines)

ASSUME RepliesAssumption ==
    \A reply \in Replies : /\ reply \in Seq(Chars) /\ reply # <<>> /\ Last(reply) = LF
                           /\ IsReply(Lines(reply))

AddText(text, reply) == text \o reply

-----------------------------------------------------------------------------
(* The control socket *)

VARIABLES
    sent,       \* the replies the server sends, fixed at the start
    coming,     \* the text still to arrive
    partial,    \* _partialResponse
    passed,     \* the messages passed along so far
    tooLong,    \* was the context closed for the size of a response?
    whole       \* history: have all chunks so far ended after a line?

responseVars == <<sent, coming, partial, passed, tooLong, whole>>

ResponseTypeOK ==
    /\ sent \in Seq(Replies)
    /\ coming \in Seq(Chars)
    /\ partial \in Seq(Chars)
    /\ passed \in Seq(Seq(Seq(Chars \ {LF})))
    /\ tooLong \in BOOLEAN
    /\ whole \in BOOLEAN

ResponseInit ==
    /\ sent \in UNION {[1 .. n -> Replies] : n \in 0 .. MaxReplies}
    /\ coming = FoldLeft(AddText, <<>>, sent)
    /\ partial = <<>>
    /\ passed = <<>>
    /\ tooLong = FALSE
    /\ whole = TRUE

\* Where the text may be cut: anywhere.
Chunks == 1 .. Len(coming)

\* Variant: a chunk is checked without what is remembered before it.
ChunkCheckedAlone ==
    /\ ~tooLong
    /\ \E n \in Chunks :
          LET parsed == parseControlResponse(partial \o SubSeq(coming, 1, n))
          IN  /\ n <= MaxLength
              /\ coming' = SubSeq(coming, n + 1, Len(coming))
              /\ partial' = parsed.rest
              /\ passed' = passed \o parsed.messages
              /\ whole' = (whole /\ coming[n] = LF)
    /\ UNCHANGED <<sent, tooLong>>

ReceiveText ==
    /\ ~tooLong
    /\ \E n \in Chunks :
          LET parsed == parseControlResponse(partial \o SubSeq(coming, 1, n))
          IN  /\ Len(partial) + n <= MaxLength
              /\ coming' = SubSeq(coming, n + 1, Len(coming))
              /\ partial' = parsed.rest
              /\ passed' = passed \o parsed.messages
              /\ whole' = (whole /\ coming[n] = LF)
    /\ UNCHANGED <<sent, tooLong>>

ReceiveTooLong ==
    /\ ~tooLong
    /\ \E n \in Chunks : Len(partial) + n > MaxLength
    /\ tooLong' = TRUE
    /\ UNCHANGED <<sent, coming, partial, passed, whole>>

ResponseNext == ReceiveText \/ ReceiveTooLong

ResponseSpec == ResponseInit /\ [][ResponseNext]_responseVars

-----------------------------------------------------------------------------
(* Properties *)

RepliesArrive ==
    passed \o parseControlResponse(partial \o coming).messages
        = [i \in 1 .. Len(sent) |-> Lines(sent[i])]

\* What was passed along, with what the rest of the text still yields, is the
\* replies the server sent, one message each, in their order, with all their
\* lines but the blank ones: how the text is cut into chunks of whole lines
\* makes no difference (parseControlResponse and its remainder).
EachReplyIsOneMessage == whole => RepliesArrive

\* The remembered partial response never exceeds the maximum size by more than
\* one character, whatever the server sends and wherever it is cut.  The size
\* is checked before the text is parsed (FTPContext._onControlSocketData), and
\* the parser ends a line that was only cut with a break of its own, so that
\* the remainder can be one longer than the text it remains of.
PartialIsBounded == Len(partial) <= MaxLength + 1

\* "A response can also be incomplete and be completed on the next incoming
\* data chunk" (parseControlResponse): the same with chunks that end anywhere.
IncompleteIsCompleted == RepliesArrive
=============================================================================
