------------------------ MODULE ControlResponseProofs ------------------------
(***************************************************************************)
(* What is proved of ControlResponse, for any replies of the form a server *)
(* gives them, any number of them and any maximum size.                    *)
(*                                                                         *)
(* The parser is two folds, of characters into lines and of lines into     *)
(* messages.  A chunk that ends after a line leaves no line begun, and the *)
(* lines of an open group, read again, open that group again: so parsing   *)
(* the remainder with what comes next goes on where the parser stopped.    *)
(***************************************************************************)
EXTENDS ControlResponse, SequenceTheorems, TLAPS

Line == Seq(Chars \ {LF})
NonBlank == {line \in Line : isNotBlank(line)}

Message == Seq(NonBlank)

Reads == [lines : Seq(NonBlank), line : Line]
States == [messages : Seq(Message), group : Seq(NonBlank)]

NothingRead == [lines |-> <<>>, line |-> <<>>]
NothingParsed == [messages |-> <<>>, group |-> <<>>]

Reading == INSTANCE SequenceLemmas WITH Op <- ReadChar, A <- Reads, B <- Chars
Parsing == INSTANCE SequenceLemmas WITH Op <- ParseLine, A <- States, B <- NonBlank
Resting == INSTANCE SequenceLemmas WITH Op <- AddLine, A <- Seq(Chars), B <- NonBlank
Joining == INSTANCE SequenceLemmas WITH Op <- AddText, A <- Seq(Chars), B <- Replies

ReadFrom(read, text) == Reading!Fold(read, text)
ParseFrom(state, lines) == Parsing!Fold(state, lines)
Joined(replies) == Joining!Fold(<<>>, replies)

-----------------------------------------------------------------------------
(* The folds, one element and one part at a time *)

LEMMA KeptIs ==
    ASSUME NEW lines \in Seq(NonBlank), NEW line \in Line
    PROVE  /\ Kept(lines, line) \in Seq(NonBlank)
           /\ line = <<>> => Kept(lines, line) = lines
           /\ isNotBlank(line) => Kept(lines, line) = Append(lines, line)
  <1>1. CASE isNotBlank(line)
    <2>1. line \in NonBlank
      BY <1>1 DEF NonBlank
    <2>2. line # <<>>
      <3>1. 1 .. Len(<<>>) = {}
        OBVIOUS
      <3> QED
        BY <1>1, <3>1 DEF isNotBlank
    <2>3. Append(lines, line) \in Seq(NonBlank)
      BY <2>1
    <2> QED
      BY <1>1, <2>2, <2>3 DEF Kept
  <1>2. CASE ~isNotBlank(line)
    BY <1>2 DEF Kept
  <1> QED
    BY <1>1, <1>2

LEMMA KeptAfter ==
    ASSUME NEW before \in Seq(NonBlank), NEW lines \in Seq(NonBlank), NEW line \in Line
    PROVE  Kept(before \o lines, line) = before \o Kept(lines, line)
  <1>1. CASE isNotBlank(line)
    <2>1. line \in NonBlank
      BY <1>1 DEF NonBlank
    <2>2. Append(before \o lines, line) = before \o Append(lines, line)
      BY <2>1
    <2> QED
      BY <1>1, <2>2 DEF Kept
  <1>2. CASE ~isNotBlank(line)
    BY <1>2 DEF Kept
  <1> QED
    BY <1>1, <1>2

LEMMA LineIsText ==
    ASSUME NEW line \in Line
    PROVE  line \in Seq(Chars) /\ Append(line, LF) \in Seq(Chars)
  <1>1. LF \in Chars
    BY DEF Chars
  <1>2. Len(line) \in Nat /\ line \in [1 .. Len(line) -> Chars \ {LF}]
    BY DEF Line
  <1>3. line \in [1 .. Len(line) -> Chars]
    BY <1>2
  <1>4. line \in Seq(Chars)
    BY <1>2, <1>3
  <1> QED
    BY <1>1, <1>4

LEMMA ReadingIsClosed == Reading!Closed
  <1> SUFFICES ASSUME NEW read \in Reads, NEW c \in Chars
               PROVE  ReadChar(read, c) \in Reads
    BY Zenon DEF Reading!Closed, Reading!ClosedOn
  <1>1. read.lines \in Seq(NonBlank) /\ read.line \in Line
    BY DEF Reads
  <1>2. CASE c = LF
    <2>1. Kept(read.lines, read.line) \in Seq(NonBlank) /\ <<>> \in Line
      BY <1>1, KeptIs DEF Line
    <2> QED
      BY <1>2, <2>1 DEF ReadChar, Reads
  <1>3. CASE c # LF
    <2>1. Append(read.line, c) \in Line
      BY <1>1, <1>3 DEF Line
    <2> QED
      BY <1>3, <2>1 DEF ReadChar, Reads
  <1> QED
    BY <1>2, <1>3

LEMMA ReadStep ==
    ASSUME NEW read \in Reads, NEW text \in Seq(Chars)
    PROVE  /\ ReadFrom(read, <<>>) = read
           /\ ReadFrom(read, text) \in Reads
           /\ \A c \in Chars : ReadFrom(read, Append(text, c)) = ReadChar(ReadFrom(read, text), c)
           /\ \A more \in Seq(Chars) :
                 ReadFrom(read, text \o more) = ReadFrom(ReadFrom(read, text), more)
  BY Zenon, ReadingIsClosed, Reading!FoldEmpty, Reading!FoldType, Reading!FoldAppend,
     Reading!FoldConcat DEF ReadFrom

LEMMA LinesAre ==
    ASSUME NEW text
    PROVE  Lines(text) = Kept(ReadFrom(NothingRead, text).lines, ReadFrom(NothingRead, text).line)
  <1>1. FoldLeft(ReadChar, NothingRead, text) = ReadFrom(NothingRead, text)
    BY Zenon DEF FoldLeft, MapThenFoldSet, Max, Reading!Fold, Reading!Greatest, ReadFrom
  <1> QED
    BY Zenon, <1>1 DEF Lines, NothingRead

LEMMA ParsingIsClosed == Parsing!Closed
  <1> SUFFICES ASSUME NEW state \in States, NEW line \in NonBlank
               PROVE  ParseLine(state, line) \in States
    BY Zenon DEF Parsing!Closed, Parsing!ClosedOn
  <1>1. state.messages \in Seq(Message) /\ state.group \in Seq(NonBlank)
    BY DEF States
  <1>2. /\ <<>> \in Seq(NonBlank) /\ <<line>> \in Seq(NonBlank)
        /\ Append(state.group, line) \in Seq(NonBlank)
        /\ <<line>> \in Message /\ Append(state.group, line) \in Message
    BY <1>1 DEF Message
  <1>3. /\ Append(state.messages, <<line>>) \in Seq(Message)
        /\ Append(state.messages, Append(state.group, line)) \in Seq(Message)
    BY <1>1, <1>2
  <1> QED
    BY <1>1, <1>2, <1>3 DEF ParseLine, States

LEMMA ParseStep ==
    ASSUME NEW state \in States, NEW lines \in Seq(NonBlank)
    PROVE  /\ ParseFrom(state, <<>>) = state
           /\ ParseFrom(state, lines) \in States
           /\ \A line \in NonBlank :
                 ParseFrom(state, Append(lines, line)) = ParseLine(ParseFrom(state, lines), line)
           /\ \A more \in Seq(NonBlank) :
                 ParseFrom(state, lines \o more) = ParseFrom(ParseFrom(state, lines), more)
  BY Zenon, ParsingIsClosed, Parsing!FoldEmpty, Parsing!FoldType, Parsing!FoldAppend,
     Parsing!FoldConcat DEF ParseFrom

LEMMA RestingIsClosed == Resting!Closed
  <1> SUFFICES ASSUME NEW text \in Seq(Chars), NEW line \in NonBlank
               PROVE  AddLine(text, line) \in Seq(Chars)
    BY Zenon DEF Resting!Closed, Resting!ClosedOn
  <1>1. Append(line, LF) \in Seq(Chars)
    BY LineIsText DEF NonBlank
  <1> QED
    BY <1>1 DEF AddLine

LEMMA RestIs == \A group : Rest(group) = Resting!Fold(<<>>, group)
  BY Zenon DEF Rest, FoldLeft, MapThenFoldSet, Max, Resting!Fold, Resting!Greatest

LEMMA RestStep ==
    ASSUME NEW group \in Seq(NonBlank)
    PROVE  /\ Rest(<<>>) = <<>>
           /\ Rest(group) \in Seq(Chars)
           /\ \A line \in NonBlank :
                 Rest(Append(group, line)) = Rest(group) \o Append(line, LF)
  <1>1. <<>> \in Seq(Chars)
    OBVIOUS
  <1> QED
    BY Zenon, <1>1, RestIs, RestingIsClosed, Resting!FoldEmpty, Resting!FoldType,
       Resting!FoldAppend DEF AddLine

LEMMA JoiningIsClosed == Joining!Closed
  <1> SUFFICES ASSUME NEW text \in Seq(Chars), NEW reply \in Replies
               PROVE  AddText(text, reply) \in Seq(Chars)
    BY Zenon DEF Joining!Closed, Joining!ClosedOn
  <1>1. reply \in Seq(Chars)
    BY RepliesAssumption
  <1> QED
    BY <1>1 DEF AddText

LEMMA JoinedIs == \A replies : FoldLeft(AddText, <<>>, replies) = Joined(replies)
  BY Zenon DEF FoldLeft, MapThenFoldSet, Max, Joining!Fold, Joining!Greatest, Joined

LEMMA JoinStep ==
    ASSUME NEW replies \in Seq(Replies)
    PROVE  /\ Joined(<<>>) = <<>>
           /\ Joined(replies) \in Seq(Chars)
           /\ \A reply \in Replies : Joined(Append(replies, reply)) = Joined(replies) \o reply
  <1>1. <<>> \in Seq(Chars)
    OBVIOUS
  <1> QED
    BY Zenon, <1>1, JoiningIsClosed, Joining!FoldEmpty, Joining!FoldType, Joining!FoldAppend
       DEF AddText, Joined

-----------------------------------------------------------------------------
(* Texts that end after a line *)

EndsLine(text) == text = <<>> \/ text[Len(text)] = LF

\* After the end of a line none is begun.
LEMMA NoneBegun ==
    ASSUME NEW text \in Seq(Chars), EndsLine(text)
    PROVE  ReadFrom(NothingRead, text) = [lines |-> Lines(text), line |-> <<>>]
  <1>1. NothingRead \in Reads
    BY DEF NothingRead, Reads, Line
  <1>2. PICK read \in Reads : read = ReadFrom(NothingRead, text)
    BY <1>1, ReadStep
  <1>3. read.lines \in Seq(NonBlank) /\ read.line \in Line
        /\ read = [lines |-> read.lines, line |-> read.line]
    BY DEF Reads
  <1>4. read.line = <<>>
    <2>1. CASE text = <<>>
      <3>1. read = NothingRead
        BY <1>1, <1>2, <2>1, ReadStep
      <3> QED
        BY <3>1 DEF NothingRead
    <2>2. CASE text # <<>>
      <3>1. PICK begun \in Seq(Chars) : text = Append(begun, LF)
        <4>1. text[Len(text)] = LF /\ Len(text) \in Nat \ {0}
          BY <2>2 DEF EndsLine
        <4>2. text = Append(SubSeq(text, 1, Len(text) - 1), LF)
          BY <4>1
        <4>3. SubSeq(text, 1, Len(text) - 1) \in Seq(Chars)
          OBVIOUS
        <4> QED
          BY <4>2, <4>3
      <3>2. LF \in Chars
        BY DEF Chars
      <3>3. read = ReadChar(ReadFrom(NothingRead, begun), LF)
        BY <1>1, <1>2, <3>1, <3>2, ReadStep
      <3> QED
        BY <3>3 DEF ReadChar
    <2> QED
      BY <2>1, <2>2
  <1>5. Lines(text) = Kept(read.lines, read.line)
    BY <1>2, LinesAre
  <1> QED
    BY <1>2, <1>3, <1>4, <1>5, KeptIs

LEMMA LinesType ==
    ASSUME NEW text \in Seq(Chars)
    PROVE  Lines(text) \in Seq(NonBlank)
  <1>1. NothingRead \in Reads
    BY DEF NothingRead, Reads, Line
  <1>2. PICK read \in Reads : read = ReadFrom(NothingRead, text)
    BY <1>1, ReadStep
  <1> QED
    BY <1>2, LinesAre, KeptIs DEF Reads

\* What was read before does not change how a text is read.
LEMMA ReadAfter ==
    ASSUME NEW before \in Seq(NonBlank), NEW text \in Seq(Chars)
    PROVE  /\ ReadFrom([lines |-> before, line |-> <<>>], text).lines
                = before \o ReadFrom(NothingRead, text).lines
           /\ ReadFrom([lines |-> before, line |-> <<>>], text).line
                = ReadFrom(NothingRead, text).line
  <1> DEFINE a == [lines |-> before, line |-> <<>>]
             R == {pair \in Reads \X Reads : /\ pair[1].lines = before \o pair[2].lines
                                            /\ pair[1].line = pair[2].line}
  <1>1. a \in Reads /\ NothingRead \in Reads
    BY DEF NothingRead, Reads, Line
  <1>2. <<a, NothingRead>> \in R
    BY <1>1 DEF NothingRead
  <1>3. ASSUME NEW c \in Reads, NEW d \in Reads, NEW x \in Chars, <<c, d>> \in R
        PROVE  <<ReadChar(c, x), ReadChar(d, x)>> \in R
    <2>1. ReadChar(c, x) \in Reads /\ ReadChar(d, x) \in Reads
      BY ReadingIsClosed DEF Reading!Closed, Reading!ClosedOn
    <2>2. /\ c.lines = before \o d.lines /\ c.line = d.line
          /\ d.lines \in Seq(NonBlank) /\ d.line \in Line
      BY <1>3 DEF Reads
    <2>3. Kept(c.lines, c.line) = before \o Kept(d.lines, d.line)
      BY <2>2, KeptAfter
    <2>4. /\ ReadChar(c, x).lines = before \o ReadChar(d, x).lines
          /\ ReadChar(c, x).line = ReadChar(d, x).line
      <3>1. CASE x = LF
        BY <2>3, <3>1 DEF ReadChar
      <3>2. CASE x # LF
        BY <2>2, <3>2 DEF ReadChar
      <3> QED
        BY <3>1, <3>2
    <2> QED
      BY <2>1, <2>4
  <1>4. <<ReadFrom(a, text), ReadFrom(NothingRead, text)>> \in R
    <2> HIDE DEF a, R
    <2> QED
      BY Zenon, <1>1, <1>2, <1>3, ReadingIsClosed, Reading!FoldRelates DEF ReadFrom
  <1> QED
    BY <1>4

\* A text's lines are those of its parts, if the first ends after a line.
LEMMA LinesOfParts ==
    ASSUME NEW text \in Seq(Chars), EndsLine(text), NEW more \in Seq(Chars)
    PROVE  Lines(text \o more) = Lines(text) \o Lines(more)
  <1>1. NothingRead \in Reads
    BY DEF NothingRead, Reads, Line
  <1>2. PICK lines \in Seq(NonBlank) : lines = Lines(text)
    BY LinesType
  <1>3. ReadFrom(NothingRead, text \o more) = ReadFrom([lines |-> lines, line |-> <<>>], more)
    BY <1>1, <1>2, ReadStep, NoneBegun
  <1>4. PICK read \in Reads : read = ReadFrom(NothingRead, more)
    BY <1>1, ReadStep
  <1>5. read.lines \in Seq(NonBlank) /\ read.line \in Line
    BY DEF Reads
  <1>6. /\ ReadFrom(NothingRead, text \o more).lines = lines \o read.lines
        /\ ReadFrom(NothingRead, text \o more).line = read.line
    BY <1>3, <1>4, ReadAfter
  <1>7. Lines(text \o more) = Kept(lines \o read.lines, read.line)
    BY <1>6, LinesAre
  <1>8. Lines(more) = Kept(read.lines, read.line)
    BY <1>4, LinesAre
  <1> QED
    BY <1>2, <1>5, <1>7, <1>8, KeptAfter

-----------------------------------------------------------------------------
(* The lines of a group, read again *)

\* A line with its break is read as that line.
LEMMA LineIsRead ==
    ASSUME NEW line \in NonBlank
    PROVE  Lines(Append(line, LF)) = <<line>>
  <1> DEFINE S == {s \in Line : ReadFrom(NothingRead, s) = [lines |-> <<>>, line |-> s]}
  <1>1. NothingRead \in Reads
    BY DEF NothingRead, Reads, Line
  <1>2. <<>> \in S
    <2>1. <<>> \in Seq(Chars) /\ <<>> \in Line
      BY DEF Line
    <2>2. ReadFrom(NothingRead, <<>>) = NothingRead
      BY <1>1, <2>1, ReadStep
    <2> QED
      BY <2>1, <2>2 DEF NothingRead
  <1>3. ASSUME NEW s \in Seq(Chars \ {LF}), NEW c \in Chars \ {LF}, s \in S
        PROVE  Append(s, c) \in S
    <2>1. s \in Seq(Chars) /\ Append(s, c) \in Line
      BY <1>3, LineIsText DEF Line
    <2>2. ReadFrom(NothingRead, Append(s, c)) = ReadChar(ReadFrom(NothingRead, s), c)
      BY <1>1, <2>1, ReadStep
    <2>3. ReadFrom(NothingRead, s) = [lines |-> <<>>, line |-> s]
      BY <1>3
    <2> QED
      BY <2>1, <2>2, <2>3 DEF ReadChar
  <1>4. Line \subseteq S
    <2> HIDE DEF S
    <2> QED
      BY Zenon, <1>2, <1>3, Reading!SeqInduction DEF Line
  <1>5. line \in Line /\ isNotBlank(line) /\ line \in Seq(Chars)
    BY LineIsText DEF NonBlank
  <1>6. ReadFrom(NothingRead, line) = [lines |-> <<>>, line |-> line]
    BY <1>4, <1>5
  <1>7. LF \in Chars
    BY DEF Chars
  <1>8. ReadFrom(NothingRead, Append(line, LF)) = [lines |-> <<line>>, line |-> <<>>]
    <2>1. Kept(<<>>, line) = <<line>>
      BY <1>5 DEF Kept
    <2>2. ReadFrom(NothingRead, Append(line, LF)) = ReadChar([lines |-> <<>>, line |-> line], LF)
      BY <1>1, <1>5, <1>6, <1>7, ReadStep
    <2> QED
      BY <2>1, <2>2 DEF ReadChar
  <1>9. Kept(<<line>>, <<>>) = <<line>>
    <2>1. <<line>> \in Seq(NonBlank) /\ <<>> \in Line
      BY DEF Line
    <2> QED
      BY <2>1, KeptIs
  <1> QED
    BY <1>8, <1>9, LinesAre

\* The remainder is read as the lines of its group.
LEMMA RestIsRead ==
    ASSUME NEW group \in Seq(NonBlank)
    PROVE  EndsLine(Rest(group)) /\ Lines(Rest(group)) = group
  <1> DEFINE S == {g \in Seq(NonBlank) : EndsLine(Rest(g)) /\ Lines(Rest(g)) = g}
  <1>1. <<>> \in S
    <2>1. <<>> \in Seq(NonBlank) /\ <<>> \in Seq(Chars) /\ EndsLine(<<>>)
      BY DEF EndsLine
    <2>2. NothingRead \in Reads
      BY DEF NothingRead, Reads, Line
    <2>3. ReadFrom(NothingRead, <<>>) = NothingRead
      BY <2>1, <2>2, ReadStep
    <2>4. Lines(<<>>) = <<>>
      <3>1. Kept(<<>>, <<>>) = <<>>
        <4>1. <<>> \in Line
          BY DEF Line
        <4> QED
          BY <2>1, <4>1, KeptIs
      <3> QED
        BY <2>3, <3>1, LinesAre DEF NothingRead
    <2>5. Rest(<<>>) = <<>>
      BY <2>1, RestStep
    <2> QED
      BY <2>1, <2>4, <2>5
  <1>2. ASSUME NEW g \in Seq(NonBlank), NEW line \in NonBlank, g \in S
        PROVE  Append(g, line) \in S
    <2>1. Rest(Append(g, line)) = Rest(g) \o Append(line, LF)
      BY RestStep
    <2>2. PICK rest \in Seq(Chars) : rest = Rest(g)
      BY RestStep
    <2>3. PICK ended \in Seq(Chars) : ended = Append(line, LF)
      BY LineIsText DEF NonBlank
    <2>4. Lines(ended) = <<line>>
      BY <2>3, LineIsRead
    <2>5. Lines(rest \o ended) = g \o <<line>>
      BY <1>2, <2>2, <2>4, LinesOfParts
    <2>6. EndsLine(rest \o ended)
      <3>1. Len(ended) \in Nat \ {0} /\ ended[Len(ended)] = LF
        BY <2>3, LineIsText DEF NonBlank, Line
      <3>2. (rest \o ended)[Len(rest \o ended)] = LF
        BY <3>1
      <3> QED
        BY <3>2 DEF EndsLine
    <2>7. g \o <<line>> = Append(g, line) /\ Append(g, line) \in Seq(NonBlank)
      OBVIOUS
    <2> QED
      BY <2>1, <2>2, <2>3, <2>5, <2>6, <2>7
  <1>3. Seq(NonBlank) \subseteq S
    <2> HIDE DEF S
    <2> QED
      BY Zenon, <1>1, <1>2, Parsing!SeqInduction
  <1> QED
    BY <1>3

\* The lines of an open group, parsed again, open that group again.
Reopens(group) == ParseFrom(NothingParsed, group) = [messages |-> <<>>, group |-> group]

LEMMA GroupReopens ==
    ASSUME NEW lines \in Seq(NonBlank)
    PROVE  Reopens(ParseFrom(NothingParsed, lines).group)
  <1> DEFINE S == {s \in Seq(NonBlank) : Reopens(ParseFrom(NothingParsed, s).group)}
  <1>1. NothingParsed \in States /\ NothingParsed.group = <<>>
    BY DEF NothingParsed, States
  <1>2. <<>> \in Seq(NonBlank) /\ ParseFrom(NothingParsed, <<>>) = NothingParsed
    BY <1>1, ParseStep
  <1>3. Reopens(<<>>)
    BY <1>2 DEF Reopens, NothingParsed
  <1>4. <<>> \in S
    BY <1>1, <1>2, <1>3
  <1>5. ASSUME NEW s \in Seq(NonBlank), NEW line \in NonBlank, s \in S
        PROVE  Append(s, line) \in S
    <2> SUFFICES Reopens(ParseFrom(NothingParsed, Append(s, line)).group)
      OBVIOUS
    <2>1. PICK state \in States : state = ParseFrom(NothingParsed, s)
      BY <1>1, ParseStep
    <2>2. ParseFrom(NothingParsed, Append(s, line)) = ParseLine(state, line)
      BY <1>1, <2>1, ParseStep
    <2>3. state.group \in Seq(NonBlank) /\ state.messages \in Seq(Message)
      BY DEF States
    <2>4. ParseFrom(NothingParsed, state.group) = [messages |-> <<>>, group |-> state.group]
      BY <1>5, <2>1 DEF Reopens
    <2>5. ParseFrom(NothingParsed, Append(state.group, line))
            = ParseLine([messages |-> <<>>, group |-> state.group], line)
      BY <1>1, <2>3, <2>4, ParseStep
    <2>6. CASE state.group = <<>>
      <3>1. Append(state.group, line) = <<line>>
        BY <2>6
      <3>2. CASE isMultiline(line)
        <4>1. ~isSingleLine(line)
          <5>1. "-" # " "
            OBVIOUS
          <5> QED
            BY <3>2, <5>1 DEF isSingleLine, isMultiline
        <4>2. ParseLine(state, line).group = <<line>>
          BY <2>6, <3>2 DEF ParseLine
        <4>3. ParseLine([messages |-> <<>>, group |-> <<>>], line)
                = [messages |-> <<>>, group |-> <<line>>]
          BY <3>2, <4>1 DEF ParseLine
        <4> QED
          BY <2>2, <2>5, <2>6, <3>1, <4>2, <4>3 DEF Reopens
      <3>3. CASE ~isMultiline(line)
        <4>1. ParseLine(state, line).group = <<>>
          BY <2>6, <3>3 DEF ParseLine
        <4> QED
          BY <1>3, <2>2, <4>1
      <3> QED
        BY <3>2, <3>3
    <2>7. CASE state.group # <<>>
      <3>1. CASE Closes(state.group, line)
        <4>1. ParseLine(state, line).group = <<>>
          BY <2>7, <3>1 DEF ParseLine
        <4> QED
          BY <1>3, <2>2, <4>1
      <3>2. CASE ~Closes(state.group, line)
        <4>1. ParseLine(state, line).group = Append(state.group, line)
          BY <2>7, <3>2 DEF ParseLine
        <4>2. ParseLine([messages |-> <<>>, group |-> state.group], line)
                = [messages |-> <<>>, group |-> Append(state.group, line)]
          BY <2>7, <3>2 DEF ParseLine
        <4>3. Reopens(Append(state.group, line))
          BY <2>5, <4>2 DEF Reopens
        <4> QED
          BY Zenon, <2>2, <4>1, <4>3
      <3> QED
        BY <3>1, <3>2
    <2> QED
      BY <2>6, <2>7
  <1>6. Seq(NonBlank) \subseteq S
    <2> HIDE DEF S
    <2> QED
      BY Zenon, <1>4, <1>5, Parsing!SeqInduction
  <1> QED
    BY <1>6

After(before, new, m) == Append(before \o new, m) = before \o Append(new, m)

LEMMA AddedAfter ==
    ASSUME NEW before \in Seq(Message), NEW new \in Seq(Message), NEW m \in Message
    PROVE  After(before, new, m)
  BY DEF After

\* What was parsed before does not change how lines are parsed, apart from
\* the group that is open.
LEMMA ParseAfter ==
    ASSUME NEW messages \in Seq(Message), NEW group \in Seq(NonBlank),
           NEW lines \in Seq(NonBlank)
    PROVE  /\ ParseFrom([messages |-> messages, group |-> group], lines).messages
                = messages \o ParseFrom([messages |-> <<>>, group |-> group], lines).messages
           /\ ParseFrom([messages |-> messages, group |-> group], lines).group
                = ParseFrom([messages |-> <<>>, group |-> group], lines).group
  <1> DEFINE a == [messages |-> messages, group |-> group]
             b == [messages |-> <<>>, group |-> group]
             R == {pair \in States \X States : /\ pair[1].messages = messages \o pair[2].messages
                                              /\ pair[1].group = pair[2].group}
  <1>1. a \in States /\ b \in States
    BY DEF States
  <1>2. <<a, b>> \in R
    BY <1>1
  <1>3. ASSUME NEW c \in States, NEW d \in States, NEW x \in NonBlank, <<c, d>> \in R
        PROVE  <<ParseLine(c, x), ParseLine(d, x)>> \in R
    <2>1. ParseLine(c, x) \in States /\ ParseLine(d, x) \in States
      BY ParsingIsClosed DEF Parsing!Closed, Parsing!ClosedOn
    <2>2. /\ c.messages = messages \o d.messages /\ c.group = d.group
          /\ d.messages \in Seq(Message) /\ d.group \in Seq(NonBlank)
      BY <1>3 DEF States
    <2>3. \A m \in Message :
             Append(messages \o d.messages, m) = messages \o Append(d.messages, m)
      <3>1. PICK new \in Seq(Message) : new = d.messages
        BY <2>2
      <3>2. \A m \in Message : After(messages, new, m)
        BY AddedAfter
      <3> QED
        BY Zenon, <3>1, <3>2 DEF After
    <2>4. <<x>> \in Message /\ Append(d.group, x) \in Message
      BY <2>2 DEF Message
    <2>5. /\ Append(c.messages, <<x>>) = messages \o Append(d.messages, <<x>>)
          /\ Append(c.messages, Append(c.group, x))
                = messages \o Append(d.messages, Append(d.group, x))
      BY <2>2, <2>3, <2>4
    <2>6. /\ ParseLine(c, x).messages = messages \o ParseLine(d, x).messages
          /\ ParseLine(c, x).group = ParseLine(d, x).group
      <3>1. CASE d.group = <<>>
        BY <2>2, <2>5, <3>1 DEF ParseLine
      <3>2. CASE d.group # <<>>
        BY <2>2, <2>5, <3>2 DEF ParseLine
      <3> QED
        BY <3>1, <3>2
    <2> QED
      BY <2>1, <2>6
  <1>4. <<ParseFrom(a, lines), ParseFrom(b, lines)>> \in R
    <2> HIDE DEF a, b, R
    <2> QED
      BY Zenon, <1>1, <1>2, <1>3, ParsingIsClosed, Parsing!FoldRelates DEF ParseFrom
  <1> QED
    BY <1>4

Messages(text) == ParseFrom(NothingParsed, Lines(text)).messages
Group(text) == ParseFrom(NothingParsed, Lines(text)).group

LEMMA ParsedIs ==
    ASSUME NEW text
    PROVE  /\ parseControlResponse(text).messages = Messages(text)
           /\ parseControlResponse(text).rest = Rest(Group(text))
  <1>1. PICK lines : lines = Lines(text)
    OBVIOUS
  <1>2. FoldLeft(ParseLine, NothingParsed, lines) = ParseFrom(NothingParsed, lines)
    BY Zenon DEF FoldLeft, MapThenFoldSet, Max, Parsing!Fold, Parsing!Greatest, ParseFrom
  <1>3. parseControlResponse(text)
          = [messages |-> ParseFrom(NothingParsed, lines).messages,
             rest |-> Rest(ParseFrom(NothingParsed, lines).group)]
    BY Zenon, <1>1, <1>2 DEF parseControlResponse, NothingParsed
  <1> QED
    BY <1>1, <1>3 DEF Messages, Group

LEMMA NothingParsedType == NothingParsed \in States
  BY DEF NothingParsed, States

LEMMA ParsedType ==
    ASSUME NEW text \in Seq(Chars)
    PROVE  /\ Messages(text) \in Seq(Message) /\ Group(text) \in Seq(NonBlank)
           /\ ParseFrom(NothingParsed, Lines(text))
                 = [messages |-> Messages(text), group |-> Group(text)]
  <1>1. PICK state \in States : state = ParseFrom(NothingParsed, Lines(text))
    BY NothingParsedType, LinesType, ParseStep
  <1> QED
    BY <1>1 DEF States, Messages, Group

\* The parser goes on where it stopped, after a text that ends with a line.
LEMMA ParseGoesOn ==
    ASSUME NEW text \in Seq(Chars), EndsLine(text), NEW more \in Seq(Chars)
    PROVE  /\ Messages(text \o more) = Messages(text) \o Messages(Rest(Group(text)) \o more)
           /\ Group(text \o more) = Group(Rest(Group(text)) \o more)
  <1>1. PICK group \in Seq(NonBlank), messages \in Seq(Message) :
           group = Group(text) /\ messages = Messages(text)
    BY ParsedType
  <1>2. PICK lines \in Seq(NonBlank) : lines = Lines(more)
    BY LinesType
  <1>3. PICK first \in Seq(NonBlank) : first = Lines(text)
    BY LinesType
  <1>4. ParseFrom(NothingParsed, first) = [messages |-> messages, group |-> group]
    BY <1>1, <1>3, ParsedType
  <1>5. Lines(text \o more) = first \o lines
    BY <1>2, <1>3, LinesOfParts
  <1>6. ParseFrom(NothingParsed, first \o lines)
          = ParseFrom([messages |-> messages, group |-> group], lines)
    BY <1>4, NothingParsedType, ParseStep
  <1>7. PICK rest \in Seq(Chars) : rest = Rest(group)
    BY RestStep
  <1>8. Lines(rest \o more) = group \o lines
    <2>1. EndsLine(rest) /\ Lines(rest) = group
      BY <1>7, RestIsRead
    <2> QED
      BY <1>2, <2>1, LinesOfParts
  <1>9. ParseFrom(NothingParsed, group) = [messages |-> <<>>, group |-> group]
    BY <1>1, <1>3, GroupReopens DEF Reopens, Group
  <1>10. ParseFrom(NothingParsed, group \o lines)
           = ParseFrom([messages |-> <<>>, group |-> group], lines)
    BY <1>9, NothingParsedType, ParseStep
  <1>11. /\ ParseFrom(NothingParsed, first \o lines).messages
               = messages \o ParseFrom(NothingParsed, group \o lines).messages
         /\ ParseFrom(NothingParsed, first \o lines).group
               = ParseFrom(NothingParsed, group \o lines).group
    <2>1. /\ ParseFrom([messages |-> messages, group |-> group], lines).messages
                = messages \o ParseFrom([messages |-> <<>>, group |-> group], lines).messages
          /\ ParseFrom([messages |-> messages, group |-> group], lines).group
                = ParseFrom([messages |-> <<>>, group |-> group], lines).group
      BY Zenon, ParseAfter
    <2> QED
      BY Zenon, <1>6, <1>10, <2>1
  <1> QED
    BY <1>1, <1>5, <1>7, <1>8, <1>11 DEF Messages, Group

-----------------------------------------------------------------------------
(* Replies *)

IsOpen(lines) ==
    /\ lines # <<>> /\ isMultiline(lines[1])
    /\ \A i \in 2 .. Len(lines) : ~Closes(lines, lines[i])

\* Closes looks at the first line of a group only.
LEMMA ClosesByFirst ==
    ASSUME NEW one, NEW other, NEW line, one[1] = other[1]
    PROVE  Closes(one, line) <=> Closes(other, line)
  BY DEF Closes

\* A multiline reply is an open group until its last line.
LEMMA OpenIsGroup ==
    ASSUME NEW lines \in Seq(NonBlank), IsOpen(lines)
    PROVE  ParseFrom(NothingParsed, lines) = [messages |-> <<>>, group |-> lines]
  <1> DEFINE S == {s \in Seq(NonBlank) :
                     IsOpen(s) => ParseFrom(NothingParsed, s) = [messages |-> <<>>, group |-> s]}
  <1>1. <<>> \in S
    BY DEF IsOpen
  <1>2. ASSUME NEW s \in Seq(NonBlank), NEW line \in NonBlank, s \in S
        PROVE  Append(s, line) \in S
    <2> SUFFICES ASSUME IsOpen(Append(s, line))
                 PROVE  ParseFrom(NothingParsed, Append(s, line))
                          = [messages |-> <<>>, group |-> Append(s, line)]
      OBVIOUS
    <2>1. ParseFrom(NothingParsed, Append(s, line))
            = ParseLine(ParseFrom(NothingParsed, s), line)
      BY NothingParsedType, ParseStep
    <2>2. CASE s = <<>>
      <3>1. ParseFrom(NothingParsed, s) = NothingParsed
        BY <2>2, NothingParsedType, ParseStep
      <3>2. Append(s, line) = <<line>> /\ isMultiline(line)
        BY <2>2 DEF IsOpen
      <3>3. ~isSingleLine(line)
        <4>1. "-" # " "
          OBVIOUS
        <4> QED
          BY <3>2, <4>1 DEF isSingleLine, isMultiline
      <3>4. ParseLine(NothingParsed, line) = [messages |-> <<>>, group |-> <<line>>]
        BY <3>2, <3>3 DEF ParseLine, NothingParsed
      <3> QED
        BY <2>1, <3>1, <3>2, <3>4
    <2>3. CASE s # <<>>
      <3>1. PICK all \in Seq(NonBlank) : all = Append(s, line)
        <4>1. Append(s, line) \in Seq(NonBlank)
          BY <1>2
        <4> QED
          BY <4>1
      <3>2. /\ Len(all) = Len(s) + 1 /\ Len(s) \in Nat \ {0} /\ all[Len(all)] = line
            /\ \A i \in 1 .. Len(s) : all[i] = s[i]
        BY <2>3, <3>1
      <3>3. all[1] = s[1] /\ Len(all) \in 2 .. Len(all)
        BY <3>2
      <3>4. isMultiline(s[1]) /\ \A i \in 2 .. Len(all) : ~Closes(all, all[i])
        BY <3>1, <3>3 DEF IsOpen
      <3>5. ~Closes(s, line) /\ \A i \in 2 .. Len(s) : ~Closes(s, s[i])
        BY <3>2, <3>3, <3>4, ClosesByFirst
      <3>6. ParseFrom(NothingParsed, s) = [messages |-> <<>>, group |-> s]
        BY <1>2, <2>3, <3>4, <3>5 DEF IsOpen
      <3>7. ParseLine([messages |-> <<>>, group |-> s], line)
              = [messages |-> <<>>, group |-> Append(s, line)]
        BY <2>3, <3>5 DEF ParseLine
      <3> QED
        BY <2>1, <3>6, <3>7
    <2> QED
      BY <2>2, <2>3
  <1>3. Seq(NonBlank) \subseteq S
    <2> HIDE DEF S
    <2> QED
      BY Zenon, <1>1, <1>2, Parsing!SeqInduction
  <1> QED
    BY <1>3

\* The lines of a reply are one message.
LEMMA ReplyIsMessage ==
    ASSUME NEW lines \in Seq(NonBlank), IsReply(lines)
    PROVE  ParseFrom(NothingParsed, lines) = [messages |-> <<lines>>, group |-> <<>>]
  <1>1. CASE Len(lines) = 1 /\ isSingleLine(lines[1])
    <2>1. PICK line \in NonBlank : line = lines[1]
      BY <1>1
    <2>2. lines = Append(<<>>, line) /\ <<line>> = lines /\ <<>> \in Seq(NonBlank)
      BY <1>1, <2>1
    <2>3. ParseFrom(NothingParsed, lines) = ParseLine(NothingParsed, line)
      <3>1. ParseFrom(NothingParsed, <<>>) = NothingParsed
        BY <2>2, NothingParsedType, ParseStep
      <3>2. PICK none \in Seq(NonBlank) : none = <<>>
        BY <2>2
      <3>3. ParseFrom(NothingParsed, Append(none, line))
              = ParseLine(ParseFrom(NothingParsed, none), line)
        BY NothingParsedType, ParseStep
      <3> QED
        BY Zenon, <2>2, <3>1, <3>2, <3>3
    <2>4. ~isMultiline(line)
      <3>1. "-" # " "
        OBVIOUS
      <3>2. CASE Len(line) = 2
        BY <3>2 DEF isMultiline
      <3>3. CASE line[3] = " "
        BY <3>1, <3>3 DEF isMultiline
      <3> QED
        BY <1>1, <2>1, <3>2, <3>3 DEF isSingleLine
    <2>5. ParseLine(NothingParsed, line) = [messages |-> <<<<line>>>>, group |-> <<>>]
      BY <1>1, <2>1, <2>4 DEF ParseLine, NothingParsed
    <2> QED
      BY <2>2, <2>3, <2>5
  <1>2. CASE /\ Len(lines) > 1 /\ isMultiline(lines[1])
             /\ \A i \in 2 .. Len(lines) : Closes(lines, lines[i]) <=> i = Len(lines)
    <2>1. PICK n \in Nat \ {0} : Len(lines) = n + 1
      <3>1. Len(lines) - 1 \in Nat \ {0} /\ Len(lines) = (Len(lines) - 1) + 1
        BY <1>2
      <3> QED
        BY <3>1
    <2>2. PICK front, line : front = SubSeq(lines, 1, n) /\ line = lines[n + 1]
      OBVIOUS
    <2>3. /\ front \in Seq(NonBlank) /\ line \in NonBlank /\ Len(front) = n
          /\ \A i \in 1 .. n : front[i] = lines[i]
          /\ lines = Append(front, line)
      BY <2>1, <2>2
    <2>4. front[1] = lines[1] /\ front # <<>>
      BY <2>3
    <2>5. Closes(front, line)
      <3>1. n + 1 \in 2 .. Len(lines)
        BY <2>1
      <3>2. Closes(lines, lines[n + 1])
        BY <1>2, <2>1, <3>1
      <3> QED
        BY <2>2, <2>4, <3>2, ClosesByFirst
    <2>6. IsOpen(front)
      <3>1. ASSUME NEW i \in 2 .. Len(front)
            PROVE  ~Closes(front, front[i])
        <4>1. i \in 2 .. Len(lines) /\ i # Len(lines) /\ i \in 1 .. n
          BY <2>1, <2>3
        <4>2. ~Closes(lines, lines[i])
          BY <1>2, <4>1
        <4> QED
          BY <2>3, <2>4, <4>1, <4>2, ClosesByFirst
      <3> QED
        BY <1>2, <2>4, <3>1 DEF IsOpen
    <2>7. ParseFrom(NothingParsed, front) = [messages |-> <<>>, group |-> front]
      BY <2>3, <2>6, OpenIsGroup
    <2>8. ParseFrom(NothingParsed, lines) = ParseLine([messages |-> <<>>, group |-> front], line)
      BY <2>3, <2>7, NothingParsedType, ParseStep
    <2>9. ParseLine([messages |-> <<>>, group |-> front], line)
            = [messages |-> <<Append(front, line)>>, group |-> <<>>]
      BY <2>4, <2>5 DEF ParseLine
    <2> QED
      BY <2>3, <2>8, <2>9
  <1> QED
    BY <1>1, <1>2 DEF IsReply

\* The replies, one after the other, are parsed into one message each.
IsParsed(replies) ==
    /\ EndsLine(Joined(replies))
    /\ Messages(Joined(replies)) = [i \in 1 .. Len(replies) |-> Lines(replies[i])]
    /\ Group(Joined(replies)) = <<>>

LEMMA NothingIsParsed == IsParsed(<<>>)
  <1>1. <<>> \in Seq(Replies) /\ <<>> \in Seq(NonBlank) /\ <<>> \in Seq(Chars)
    OBVIOUS
  <1>2. Joined(<<>>) = <<>>
    BY <1>1, JoinStep
  <1>3. Lines(<<>>) = <<>>
    BY <1>1, RestStep, RestIsRead
  <1>4. Messages(<<>>) = <<>> /\ Group(<<>>) = <<>>
    <2>1. ParseFrom(NothingParsed, <<>>) = NothingParsed
      BY <1>1, NothingParsedType, ParseStep
    <2> QED
      BY <1>3, <2>1 DEF Messages, Group, NothingParsed
  <1>5. [i \in 1 .. Len(<<>>) |-> Lines(<<>>[i])] = <<>>
    OBVIOUS
  <1> QED
    BY <1>2, <1>4, <1>5 DEF IsParsed, EndsLine

LEMMA RepliesAreParsed ==
    ASSUME NEW replies \in Seq(Replies)
    PROVE  IsParsed(replies)
  <1> DEFINE S == {s \in Seq(Replies) : IsParsed(s)}
  <1>1. <<>> \in S
    BY NothingIsParsed
  <1>2. ASSUME NEW s \in Seq(Replies), NEW reply \in Replies, s \in S
        PROVE  Append(s, reply) \in S
    <2>1. /\ reply \in Seq(Chars) /\ reply # <<>> /\ Last(reply) = LF /\ IsReply(Lines(reply))
      BY RepliesAssumption
    <2>2. PICK text \in Seq(Chars) : text = Joined(s)
      BY JoinStep
    <2>3. Joined(Append(s, reply)) = text \o reply
      BY <2>2, JoinStep
    <2>4. /\ EndsLine(text) /\ Group(text) = <<>>
          /\ Messages(text) = [i \in 1 .. Len(s) |-> Lines(s[i])]
      BY <1>2, <2>2 DEF IsParsed
    <2>5. Rest(Group(text)) \o reply = reply
      <3>1. <<>> \in Seq(NonBlank) /\ <<>> \o reply = reply
        BY <2>1
      <3>2. Rest(<<>>) = <<>>
        BY <3>1, RestStep
      <3> QED
        BY <2>4, <3>1, <3>2
    <2>6. PICK lines \in Seq(NonBlank) : lines = Lines(reply)
      BY <2>1, LinesType
    <2>7. Messages(reply) = <<lines>> /\ Group(reply) = <<>>
      BY <2>1, <2>6, ReplyIsMessage DEF Messages, Group
    <2>8. /\ Messages(text \o reply) = Messages(text) \o <<lines>>
          /\ Group(text \o reply) = <<>>
      BY <2>1, <2>4, <2>5, <2>7, ParseGoesOn
    <2>9. EndsLine(text \o reply)
      <3>1. Len(reply) \in Nat \ {0} /\ reply[Len(reply)] = LF
        BY <2>1 DEF Last
      <3>2. (text \o reply)[Len(text \o reply)] = LF
        BY <2>1, <3>1
      <3> QED
        BY <3>2 DEF EndsLine
    <2>10. PICK all \in Seq(Replies) : all = Append(s, reply)
      <3>1. Append(s, reply) \in Seq(Replies)
        OBVIOUS
      <3> QED
        BY <3>1
    <2>11. Messages(text) \o <<lines>> = [i \in 1 .. Len(all) |-> Lines(all[i])]
      <3>1. /\ Len(all) = Len(s) + 1 /\ Len(s) \in Nat /\ all[Len(s) + 1] = reply
            /\ \A i \in 1 .. Len(s) : all[i] = s[i]
        BY <2>10
      <3>2. PICK n \in Nat : n = Len(s)
        BY <3>1
      <3>3. PICK f : f = [i \in 1 .. n |-> Lines(s[i])]
        OBVIOUS
      <3>4. PICK g : g = [i \in 1 .. n + 1 |-> Lines(all[i])]
        OBVIOUS
      <3>5. f \in Seq(Message) /\ Len(f) = n /\ lines \in Message
        <4>1. \A i \in 1 .. n : Lines(s[i]) \in Message
          <5>1. \A i \in 1 .. n : s[i] \in Seq(Chars)
            BY <3>2, RepliesAssumption
          <5> QED
            BY <5>1, LinesType DEF Message
        <4> QED
          BY <3>3, <4>1 DEF Message
      <3>6. \A i \in 1 .. n : g[i] = f[i]
        BY <3>1, <3>2, <3>3, <3>4
      <3>7. g[n + 1] = lines
        BY <2>6, <3>1, <3>2, <3>4
      <3>8. PICK h : h = f \o <<lines>>
        OBVIOUS
      <3>9. /\ h \in Seq(Message) /\ Len(h) = n + 1 /\ h[n + 1] = lines
            /\ \A i \in 1 .. n : h[i] = f[i]
        BY <3>5, <3>8
      <3>10. h = [i \in 1 .. n + 1 |-> h[i]]
        BY <3>9
      <3>11. \A i \in 1 .. n + 1 : h[i] = g[i]
        BY <3>6, <3>7, <3>9
      <3>12. h = g
        BY <3>4, <3>10, <3>11
      <3> QED
        BY <2>4, <3>1, <3>2, <3>3, <3>4, <3>8, <3>12
    <2>12. IsParsed(all)
      BY <2>3, <2>8, <2>9, <2>10, <2>11 DEF IsParsed
    <2> QED
      BY <2>10, <2>12
  <1>3. Seq(Replies) \subseteq S
    <2> HIDE DEF S
    <2> QED
      BY Zenon, <1>1, <1>2, Joining!SeqInduction
  <1> QED
    BY <1>3

-----------------------------------------------------------------------------
(* The size of the remainder *)

LEMMA ReadIsNoLonger ==
    ASSUME NEW text \in Seq(Chars)
    PROVE  Len(Rest(ReadFrom(NothingRead, text).lines)) + Len(ReadFrom(NothingRead, text).line)
             <= Len(text)
  <1> DEFINE Size(read) == Len(Rest(read.lines)) + Len(read.line)
             S == {s \in Seq(Chars) : Size(ReadFrom(NothingRead, s)) <= Len(s)}
  <1>1. NothingRead \in Reads
    BY DEF NothingRead, Reads, Line
  <1>2. <<>> \in S
    <2>1. <<>> \in Seq(Chars) /\ <<>> \in Seq(NonBlank) /\ Len(<<>>) = 0
      OBVIOUS
    <2>2. ReadFrom(NothingRead, <<>>) = NothingRead /\ Rest(<<>>) = <<>>
      BY <1>1, <2>1, ReadStep, RestStep
    <2>3. ReadFrom(NothingRead, <<>>).lines = <<>> /\ ReadFrom(NothingRead, <<>>).line = <<>>
      BY <2>2 DEF NothingRead
    <2>4. /\ Len(Rest(ReadFrom(NothingRead, <<>>).lines)) = 0
          /\ Len(ReadFrom(NothingRead, <<>>).line) = 0
      BY Zenon, <2>1, <2>2, <2>3
    <2>5. Size(ReadFrom(NothingRead, <<>>)) <= Len(<<>>)
      <3>1. PICK a, b, c : /\ a = Len(Rest(ReadFrom(NothingRead, <<>>).lines))
                           /\ b = Len(ReadFrom(NothingRead, <<>>).line)
                           /\ c = Len(<<>>)
        BY Zenon
      <3>2. a = 0 /\ b = 0 /\ c = 0
        BY Zenon, <2>1, <2>4, <3>1
      <3>3. a + b <= c
        BY <3>2
      <3> QED
        BY Zenon, <3>1, <3>3
    <2> QED
      BY Zenon, <2>1, <2>5
  <1>3. ASSUME NEW s \in Seq(Chars), NEW c \in Chars, s \in S
        PROVE  Append(s, c) \in S
    <2>1. PICK read \in Reads : read = ReadFrom(NothingRead, s)
      BY <1>1, ReadStep
    <2>2. ReadFrom(NothingRead, Append(s, c)) = ReadChar(read, c)
      BY <1>1, <2>1, ReadStep
    <2>3. PICK lines \in Seq(NonBlank), line \in Line : lines = read.lines /\ line = read.line
      BY DEF Reads
    <2>4. PICK rest \in Seq(Chars) : rest = Rest(lines)
      BY RestStep
    <2>5. Len(rest) + Len(line) <= Len(s)
      BY <1>3, <2>1, <2>3, <2>4
    <2>6. Len(rest) \in Nat /\ Len(line) \in Nat /\ Len(s) \in Nat
      BY DEF Line
    <2>7. Append(s, c) \in Seq(Chars) /\ Len(Append(s, c)) = Len(s) + 1
      OBVIOUS
    <2>8. Size(ReadChar(read, c)) <= Len(s) + 1
      <3>1. CASE c = LF
        <4>1. ReadChar(read, c).lines = Kept(lines, line) /\ ReadChar(read, c).line = <<>>
          BY <2>3, <3>1 DEF ReadChar
        <4>2. CASE isNotBlank(line)
          <5>1. Kept(lines, line) = Append(lines, line) /\ line \in NonBlank
            BY <4>2, KeptIs DEF NonBlank
          <5>2. Rest(Append(lines, line)) = rest \o Append(line, LF)
            BY <2>4, <5>1, RestStep
          <5>3. Len(rest \o Append(line, LF)) = Len(rest) + (Len(line) + 1)
            BY LineIsText DEF Line
          <5>4. Len(<<>>) = 0
            OBVIOUS
          <5> QED
            BY <2>5, <2>6, <4>1, <5>1, <5>2, <5>3, <5>4
        <4>3. CASE ~isNotBlank(line)
          <5>1. Kept(lines, line) = lines /\ Len(<<>>) = 0
            BY <4>3 DEF Kept
          <5> QED
            BY <2>4, <2>5, <2>6, <4>1, <5>1
        <4> QED
          BY <4>2, <4>3
      <3>2. CASE c # LF
        <4>1. ReadChar(read, c).lines = lines /\ ReadChar(read, c).line = Append(line, c)
          BY <2>3, <3>2 DEF ReadChar
        <4>2. Len(Append(line, c)) = Len(line) + 1
          BY <3>2 DEF Line
        <4> QED
          BY <2>4, <2>5, <2>6, <4>1, <4>2
      <3> QED
        BY <3>1, <3>2
    <2> QED
      BY <2>2, <2>7, <2>8
  <1>4. Seq(Chars) \subseteq S
    <2> HIDE DEF S
    <2> QED
      BY Zenon, <1>2, <1>3, Reading!SeqInduction
  <1> QED
    BY <1>4

LEMMA GroupIsNoLonger ==
    ASSUME NEW lines \in Seq(NonBlank)
    PROVE  Len(Rest(ParseFrom(NothingParsed, lines).group)) <= Len(Rest(lines))
  <1> DEFINE S == {s \in Seq(NonBlank) :
                     Len(Rest(ParseFrom(NothingParsed, s).group)) <= Len(Rest(s))}
  <1>1. Rest(<<>>) = <<>> /\ <<>> \in Seq(NonBlank) /\ Len(<<>>) = 0
    <2>1. <<>> \in Seq(NonBlank) /\ Len(<<>>) = 0
      OBVIOUS
    <2> QED
      BY <2>1, RestStep
  <1>2. <<>> \in S
    <2>1. ParseFrom(NothingParsed, <<>>) = NothingParsed
      BY <1>1, NothingParsedType, ParseStep
    <2> QED
      BY <1>1, <2>1 DEF NothingParsed
  <1>3. ASSUME NEW s \in Seq(NonBlank), NEW line \in NonBlank, s \in S
        PROVE  Append(s, line) \in S
    <2>1. PICK state \in States : state = ParseFrom(NothingParsed, s)
      BY NothingParsedType, ParseStep
    <2>2. PICK group \in Seq(NonBlank) : group = state.group
      BY DEF States
    <2>3. ParseFrom(NothingParsed, Append(s, line)) = ParseLine(state, line)
      BY <2>1, NothingParsedType, ParseStep
    <2>4. ParseLine(state, line).group \in {<<>>, Append(group, line)}
      <3>1. CASE group = <<>>
        <4>1. Append(group, line) = <<line>>
          BY <3>1
        <4> QED
          BY <2>2, <3>1, <4>1 DEF ParseLine
      <3>2. CASE group # <<>>
        BY <2>2, <3>2 DEF ParseLine
      <3> QED
        BY <3>1, <3>2
    <2>5. PICK rest \in Seq(Chars), older \in Seq(Chars), ended \in Seq(Chars) :
             rest = Rest(group) /\ older = Rest(s) /\ ended = Append(line, LF)
      BY RestStep, LineIsText DEF NonBlank
    <2>6. Rest(Append(s, line)) = older \o ended /\ Rest(Append(group, line)) = rest \o ended
      BY <2>5, RestStep
    <2>7. Len(rest) <= Len(older)
      BY <1>3, <2>1, <2>2, <2>5
    <2>8. /\ Len(older \o ended) = Len(older) + Len(ended)
          /\ Len(rest \o ended) = Len(rest) + Len(ended)
          /\ Len(rest) \in Nat /\ Len(older) \in Nat /\ Len(ended) \in Nat
      OBVIOUS
    <2>9. Len(Rest(ParseLine(state, line).group)) <= Len(Rest(Append(s, line)))
      <3>1. CASE ParseLine(state, line).group = <<>>
        BY <1>1, <2>6, <2>8, <3>1
      <3>2. CASE ParseLine(state, line).group = Append(group, line)
        BY <2>6, <2>7, <2>8, <3>2
      <3> QED
        BY <2>4, <3>1, <3>2
    <2>10. Append(s, line) \in Seq(NonBlank)
      OBVIOUS
    <2> QED
      BY <2>3, <2>9, <2>10
  <1>4. Seq(NonBlank) \subseteq S
    <2> HIDE DEF S
    <2> QED
      BY Zenon, <1>2, <1>3, Parsing!SeqInduction
  <1> QED
    BY <1>4

\* The remainder is longer than the text it remains of by the break of an
\* unfinished line at most.
LEMMA RestIsNoLonger ==
    ASSUME NEW text \in Seq(Chars)
    PROVE  Len(Rest(Group(text))) <= Len(text) + 1
  <1>1. PICK lines \in Seq(NonBlank) : lines = Lines(text)
    BY LinesType
  <1>2. PICK read \in Reads : read = ReadFrom(NothingRead, text)
    <2>1. NothingRead \in Reads
      BY DEF NothingRead, Reads, Line
    <2> QED
      BY <2>1, ReadStep
  <1>3. PICK ended \in Seq(NonBlank), line \in Line : ended = read.lines /\ line = read.line
    BY DEF Reads
  <1>4. PICK known \in Seq(Chars) : known = Rest(ended)
    BY RestStep
  <1>5. Len(known) + Len(line) <= Len(text)
    BY <1>2, <1>3, <1>4, ReadIsNoLonger
  <1>6. Len(line) \in Nat /\ Len(known) \in Nat /\ Len(text) \in Nat
    BY DEF Line
  <1>7. lines = Kept(ended, line)
    BY Zenon, <1>1, <1>2, <1>3, LinesAre
  <1>8. Len(Rest(lines)) <= Len(text) + 1
    <2>1. CASE isNotBlank(line)
      <3>1. line \in NonBlank /\ lines = Append(ended, line)
        BY <1>7, <2>1 DEF NonBlank, Kept
      <3>2. Rest(lines) = known \o Append(line, LF)
        BY <1>4, <3>1, RestStep
      <3>3. Append(line, LF) \in Seq(Chars) /\ Len(Append(line, LF)) = Len(line) + 1
        BY LineIsText DEF Line
      <3>4. Len(Rest(lines)) = Len(known) + (Len(line) + 1)
        BY <3>2, <3>3
      <3> QED
        BY <1>5, <1>6, <3>4
    <2>2. CASE ~isNotBlank(line)
      <3>1. Rest(lines) = known
        BY <1>4, <1>7, <2>2 DEF Kept
      <3> QED
        BY <1>5, <1>6, <3>1
    <2> QED
      BY <2>1, <2>2
  <1>9. Len(Rest(Group(text))) <= Len(Rest(lines))
    BY <1>1, GroupIsNoLonger DEF Group
  <1>10. PICK rest \in Seq(Chars), older \in Seq(Chars) : rest = Rest(Group(text)) /\ older = Rest(lines)
    BY ParsedType, RestStep
  <1>11. Len(rest) \in Nat /\ Len(older) \in Nat
    OBVIOUS
  <1> QED
    BY <1>6, <1>8, <1>9, <1>10, <1>11

-----------------------------------------------------------------------------
(* The control socket *)

TypedText ==
    /\ sent \in Seq(Replies)
    /\ coming \in Seq(Chars)
    /\ partial \in Seq(Chars)
    /\ passed \in Seq(Message)
    /\ tooLong \in BOOLEAN
    /\ whole \in BOOLEAN

\* After chunks of whole lines the remainder ends after a line, and what it and
\* the text to come still yield completes what was passed along.
Resumes ==
    /\ EndsLine(partial)
    /\ passed \o Messages(partial \o coming) = [i \in 1 .. Len(sent) |-> Lines(sent[i])]

Resuming == TypedText /\ (whole => Resumes)

LEMMA PartsOf ==
    ASSUME NEW S, NEW s \in Seq(S), NEW n \in 1 .. Len(s)
    PROVE  SubSeq(s, 1, n) \o SubSeq(s, n + 1, Len(s)) = s
  <1>1. PICK m \in Nat : m = Len(s)
    OBVIOUS
  <1>2. PICK a, b : a = SubSeq(s, 1, n) /\ b = SubSeq(s, n + 1, m)
    OBVIOUS
  <1>3. n \in 1 .. m /\ n \in Nat /\ m - n \in Nat
    BY <1>1
  <1>4. /\ a \in Seq(S) /\ Len(a) = n /\ \A i \in 1 .. n : a[i] = s[i]
        /\ b \in Seq(S) /\ Len(b) = m - n /\ \A i \in 1 .. m - n : b[i] = s[n + i]
    BY <1>1, <1>2, <1>3
  <1>5. PICK c : c = a \o b
    OBVIOUS
  <1>6. c \in Seq(S) /\ Len(c) = m
    <2>1. c \in Seq(S) /\ Len(c) = Len(a) + Len(b)
      <3>1. a \in Seq(S) /\ b \in Seq(S)
        BY <1>4
      <3> QED
        BY <1>5, <3>1, ConcatProperties
    <2> QED
      BY <1>3, <1>4, <2>1
  <1>7. ASSUME NEW i \in 1 .. m
        PROVE  c[i] = s[i]
    <2>1. CASE i <= n
      BY <1>3, <1>4, <1>5, <2>1
    <2>2. CASE i > n
      <3>1. i - n \in 1 .. m - n /\ n + (i - n) = i
        BY <1>3, <2>2
      <3>2. c[i] = b[i - n]
        BY <1>3, <1>4, <1>5, <2>2
      <3> QED
        BY <1>4, <3>1, <3>2
    <2> QED
      BY <1>3, <2>1, <2>2
  <1> QED
    BY <1>1, <1>2, <1>5, <1>6, <1>7, SeqEqual

LEMMA TextsAssociate ==
    \A s, t, u \in Seq(Chars) : (s \o t) \o u = s \o (t \o u)
  BY ConcatAssociative

\* The parts of the text at a chunk's end.
LEMMA ChunkFacts ==
    ASSUME TypedText, NEW n \in Chunks, NEW text, text = partial \o SubSeq(coming, 1, n)
    PROVE  /\ text \in Seq(Chars) /\ Len(text) = Len(partial) + n
           /\ SubSeq(coming, n + 1, Len(coming)) \in Seq(Chars)
           /\ text \o SubSeq(coming, n + 1, Len(coming)) = partial \o coming
           /\ coming[n] = LF => EndsLine(text)
  <1>1. /\ coming \in Seq(Chars) /\ partial \in Seq(Chars)
        /\ n \in 1 .. Len(coming) /\ Len(coming) \in Nat
    BY DEF TypedText, Chunks
  <1>2. PICK chunk, rest : chunk = SubSeq(coming, 1, n) /\ rest = SubSeq(coming, n + 1, Len(coming))
    OBVIOUS
  <1>3. /\ chunk \in Seq(Chars) /\ Len(chunk) = n /\ \A i \in 1 .. n : chunk[i] = coming[i]
        /\ rest \in Seq(Chars) /\ Len(rest) = Len(coming) - n
        /\ \A i \in 1 .. Len(rest) : rest[i] = coming[n + i]
    <2>1. chunk \in Seq(Chars) /\ Len(chunk) = n /\ \A i \in 1 .. n : chunk[i] = coming[i]
      BY <1>1, <1>2
    <2>2. rest \in Seq(Chars) /\ Len(rest) = Len(coming) - n
      BY <1>1, <1>2
    <2>3. \A i \in 1 .. Len(coming) - n : rest[i] = coming[n + i]
      BY <1>1, <1>2
    <2> QED
      BY Zenon, <2>1, <2>2, <2>3
  <1>4. /\ text \in Seq(Chars) /\ Len(text) = Len(partial) + n
        /\ \A i \in 1 .. Len(partial) : text[i] = partial[i]
        /\ \A i \in 1 .. n : text[Len(partial) + i] = chunk[i]
    BY <1>1, <1>2, <1>3
  <1>5. chunk \o rest = coming
    BY <1>1, <1>2, PartsOf
  <1>6. text \o rest = partial \o coming
    <2>1. (partial \o chunk) \o rest = partial \o (chunk \o rest)
      <3>1. PICK old \in Seq(Chars), s \in Seq(Chars), t \in Seq(Chars) :
               old = partial /\ s = chunk /\ t = rest
        BY <1>1, <1>3
      <3>2. (old \o s) \o t = old \o (s \o t)
        BY Zenon, TextsAssociate
      <3> QED
        BY Zenon, <3>1, <3>2
    <2> QED
      BY Zenon, <1>2, <1>5, <2>1
  <1>7. coming[n] = LF => EndsLine(text)
    <2>1. coming[n] = LF => text[Len(text)] = LF
      BY <1>1, <1>3, <1>4
    <2> QED
      BY <2>1 DEF EndsLine
  <1> QED
    BY <1>2, <1>3, <1>4, <1>6, <1>7

LEMMA InitResuming == ResponseInit => Resuming
  <1> SUFFICES ASSUME ResponseInit
               PROVE  Resuming
    OBVIOUS
  <1>1. sent \in Seq(Replies)
    BY MaxRepliesAssumption DEF ResponseInit
  <1>2. coming = Joined(sent) /\ partial = <<>> /\ passed = <<>> /\ tooLong = FALSE /\ whole = TRUE
    BY Zenon, JoinedIs DEF ResponseInit
  <1>3. coming \in Seq(Chars)
    BY <1>1, <1>2, JoinStep
  <1>4. TypedText
    <2>1. <<>> \in Seq(Chars) /\ <<>> \in Seq(Message)
      OBVIOUS
    <2> QED
      BY <1>1, <1>2, <1>3, <2>1 DEF TypedText
  <1>5. Messages(coming) = [i \in 1 .. Len(sent) |-> Lines(sent[i])]
    BY <1>1, <1>2, RepliesAreParsed DEF IsParsed
  <1>6. passed \o Messages(partial \o coming) = Messages(coming)
    <2>1. partial \o coming = coming
      BY <1>2, <1>3
    <2>2. Messages(coming) \in Seq(Message)
      BY <1>3, ParsedType
    <2>3. passed \o Messages(coming) = Messages(coming)
      BY <1>2, <2>2
    <2> QED
      BY <2>1, <2>3
  <1>7. EndsLine(partial)
    BY <1>2 DEF EndsLine
  <1> QED
    BY <1>4, <1>5, <1>6, <1>7 DEF Resuming, Resumes

LEMMA ReceiveFacts ==
    ASSUME TypedText, ReceiveText
    PROVE  \E n \in Chunks : \E text \in Seq(Chars) :
               /\ text = partial \o SubSeq(coming, 1, n) /\ Len(text) <= MaxLength
               /\ coming' = SubSeq(coming, n + 1, Len(coming))
               /\ partial' = Rest(Group(text)) /\ passed' = passed \o Messages(text)
               /\ whole' = (whole /\ coming[n] = LF) /\ sent' = sent /\ tooLong' = tooLong
  <1>1. PICK n \in Chunks :
           LET parsed == parseControlResponse(partial \o SubSeq(coming, 1, n))
           IN  /\ Len(partial) + n <= MaxLength
               /\ coming' = SubSeq(coming, n + 1, Len(coming))
               /\ partial' = parsed.rest
               /\ passed' = passed \o parsed.messages
               /\ whole' = (whole /\ coming[n] = LF)
    BY DEF ReceiveText
  <1>2. PICK text : text = partial \o SubSeq(coming, 1, n)
    OBVIOUS
  <1>3. text \in Seq(Chars) /\ Len(text) = Len(partial) + n
    BY <1>2, ChunkFacts
  <1>4. partial' = Rest(Group(text)) /\ passed' = passed \o Messages(text)
    BY Zenon, <1>1, <1>2, ParsedIs
  <1>5. sent' = sent /\ tooLong' = tooLong
    BY DEF ReceiveText
  <1> QED
    BY <1>1, <1>2, <1>3, <1>4, <1>5

LEMMA NextTyped == TypedText /\ [ResponseNext]_responseVars => TypedText'
  <1> SUFFICES ASSUME TypedText, [ResponseNext]_responseVars
               PROVE  TypedText'
    OBVIOUS
  <1>1. CASE ReceiveText
    <2>1. PICK n \in Chunks, text \in Seq(Chars) :
             /\ text = partial \o SubSeq(coming, 1, n)
             /\ coming' = SubSeq(coming, n + 1, Len(coming))
             /\ partial' = Rest(Group(text)) /\ passed' = passed \o Messages(text)
             /\ whole' = (whole /\ coming[n] = LF) /\ sent' = sent /\ tooLong' = tooLong
      BY <1>1, ReceiveFacts
    <2>2. coming' \in Seq(Chars)
      BY <2>1, ChunkFacts
    <2>3. partial' \in Seq(Chars)
      BY <2>1, ParsedType, RestStep
    <2>4. passed' \in Seq(Message)
      <3>1. PICK new \in Seq(Message) : new = Messages(text)
        BY <2>1, ParsedType
      <3> QED
        BY <2>1, <3>1 DEF TypedText
    <2> QED
      BY <2>1, <2>2, <2>3, <2>4 DEF TypedText
  <1>2. CASE ReceiveTooLong
    BY <1>2 DEF ReceiveTooLong, TypedText
  <1>3. CASE UNCHANGED responseVars
    BY <1>3 DEF responseVars, TypedText
  <1> QED
    BY <1>1, <1>2, <1>3 DEF ResponseNext

LEMMA TypedIsTyped == TypedText => ResponseTypeOK
  <1> SUFFICES ASSUME TypedText
               PROVE  ResponseTypeOK
    OBVIOUS
  <1>1. PICK W : W = Seq(Chars \ {LF})
    OBVIOUS
  <1>2. \A line \in NonBlank : line \in W
    BY <1>1 DEF NonBlank, Line
  <1>3. \A m \in Message : m \in Seq(W)
    <2> SUFFICES ASSUME NEW m \in Seq(NonBlank)
                 PROVE  m \in Seq(W)
      BY DEF Message
    <2>1. Len(m) \in Nat /\ m \in [1 .. Len(m) -> NonBlank]
      OBVIOUS
    <2>2. m \in [1 .. Len(m) -> W]
      BY <1>2, <2>1
    <2> QED
      BY <2>1, <2>2
  <1>4. passed \in Seq(Seq(W))
    <2>1. Len(passed) \in Nat /\ passed \in [1 .. Len(passed) -> Message]
      BY DEF TypedText
    <2>2. PICK M : M = Seq(W)
      OBVIOUS
    <2>3. passed \in [1 .. Len(passed) -> M]
      BY <1>3, <2>1, <2>2
    <2>4. passed \in Seq(M)
      BY <2>1, <2>3
    <2> QED
      BY <2>2, <2>4
  <1> QED
    BY <1>1, <1>4 DEF TypedText, ResponseTypeOK

\* Every variable keeps its type; no message contains a line break, however
\* the text is cut (split and join in parseControlResponse).
THEOREM ResponseTypeCorrect == ResponseSpec => []ResponseTypeOK
  <1>1. ResponseInit => TypedText
    BY InitResuming DEF Resuming
  <1> QED
    BY <1>1, NextTyped, TypedIsTyped, PTL DEF ResponseSpec

LEMMA NextResuming == Resuming /\ [ResponseNext]_responseVars => Resuming'
  <1> SUFFICES ASSUME Resuming, [ResponseNext]_responseVars, whole'
               PROVE  Resumes'
    BY NextTyped DEF Resuming
  <1>1. TypedText /\ TypedText'
    BY NextTyped DEF Resuming
  <1>2. CASE ReceiveText
    <2>1. PICK n \in Chunks, text \in Seq(Chars) :
             /\ text = partial \o SubSeq(coming, 1, n) /\ Len(text) <= MaxLength
             /\ coming' = SubSeq(coming, n + 1, Len(coming))
             /\ partial' = Rest(Group(text)) /\ passed' = passed \o Messages(text)
             /\ whole' = (whole /\ coming[n] = LF) /\ sent' = sent /\ tooLong' = tooLong
      BY <1>1, <1>2, ReceiveFacts
    <2>2. PICK more \in Seq(Chars) : more = coming'
      BY <1>1 DEF TypedText
    <2>3. EndsLine(text) /\ text \o more = partial \o coming
      <3>1. coming[n] = LF
        BY <2>1
      <3> QED
        BY Zenon, <1>1, <2>1, <2>2, <3>1, ChunkFacts
    <2>4. Messages(partial \o coming) = Messages(text) \o Messages(partial' \o more)
      BY Zenon, <2>1, <2>3, ParseGoesOn
    <2>5. PICK new \in Seq(Message), due \in Seq(Message), old \in Seq(Message) :
             new = Messages(text) /\ due = Messages(partial' \o more) /\ old = passed
      <3>1. partial' \o more \in Seq(Chars)
        BY <1>1 DEF TypedText
      <3> QED
        BY <1>1, <3>1, ParsedType DEF TypedText
    <2>6. (old \o new) \o due = old \o (new \o due)
      BY ConcatAssociative
    <2>7. passed' \o Messages(partial' \o coming') = passed \o Messages(partial \o coming)
      BY Zenon, <2>1, <2>2, <2>4, <2>5, <2>6
    <2>8. EndsLine(partial')
      BY <2>1, ParsedType, RestIsRead
    <2> QED
      BY <2>1, <2>7, <2>8 DEF Resuming, Resumes
  <1>3. CASE ReceiveTooLong
    BY <1>3 DEF ReceiveTooLong, Resuming, Resumes
  <1>4. CASE UNCHANGED responseVars
    BY <1>4 DEF responseVars, Resuming, Resumes
  <1> QED
    BY <1>2, <1>3, <1>4 DEF ResponseNext

\* What was passed along, with what the rest of the text yields, is the
\* server's replies, one message each: any number of replies of any length,
\* in any chunks of whole lines (parseControlResponse and its remainder).
THEOREM RepliesAreMessages == ResponseSpec => []EachReplyIsOneMessage
  <1>1. Resuming => EachReplyIsOneMessage
    BY Zenon, ParsedIs DEF Resuming, Resumes, EachReplyIsOneMessage, RepliesArrive
  <1>2. Resuming /\ [ResponseNext]_responseVars => Resuming'
    BY NextResuming
  <1> QED
    BY <1>1, <1>2, InitResuming, PTL DEF ResponseSpec

LEMMA NextBounded ==
    TypedText /\ PartialIsBounded /\ [ResponseNext]_responseVars => PartialIsBounded'
  <1> SUFFICES ASSUME TypedText, PartialIsBounded, [ResponseNext]_responseVars
               PROVE  PartialIsBounded'
    OBVIOUS
  <1>1. CASE ReceiveText
    <2>1. PICK text \in Seq(Chars) : Len(text) <= MaxLength /\ partial' = Rest(Group(text))
      BY <1>1, ReceiveFacts
    <2>2. Len(Rest(Group(text))) <= Len(text) + 1
      BY RestIsNoLonger
    <2>3. Len(Rest(Group(text))) \in Nat /\ Len(text) \in Nat
      BY ParsedType, RestStep
    <2> QED
      BY <2>1, <2>2, <2>3, MaxLengthAssumption DEF PartialIsBounded
  <1>2. CASE ReceiveTooLong
    BY <1>2 DEF ReceiveTooLong, PartialIsBounded
  <1>3. CASE UNCHANGED responseVars
    BY <1>3 DEF responseVars, PartialIsBounded
  <1> QED
    BY <1>1, <1>2, <1>3 DEF ResponseNext

\* The remembered partial response never exceeds the maximum size by more than
\* the break the parser adds to an unfinished line, wherever the text is cut
\* (the check in _onControlSocketData, and parseControlResponse's remainder).
THEOREM PartialStaysBounded == ResponseSpec => []PartialIsBounded
  <1>1. ResponseInit => TypedText /\ PartialIsBounded
    <2>1. ResponseInit => TypedText
      BY InitResuming DEF Resuming
    <2>2. ResponseInit => PartialIsBounded
      BY MaxLengthAssumption DEF ResponseInit, PartialIsBounded
    <2> QED
      BY <2>1, <2>2
  <1> QED
    BY <1>1, NextTyped, NextBounded, PTL DEF ResponseSpec
=============================================================================
