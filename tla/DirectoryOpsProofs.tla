------------------------- MODULE DirectoryOpsProofs -------------------------
(***************************************************************************)
(* What is proved of DirectoryOps, for trees and links of any kind, every  *)
(* format of a listing, and any operations, any number of them.            *)
(***************************************************************************)
EXTENDS DirectoryOpsInvariants, SequenceTheorems, FiniteSetTheorems, TLAPS

\* The lemmas on sequences, and those on folds with Step.
INSTANCE SequenceLemmas WITH Op <- Step, A <- Seq(Names), B <- Parts

Choosing == INSTANCE SequenceLemmas WITH Op <- KeepEntry, A <- LineList, B <- ListedLine
Opening == INSTANCE SequenceLemmas WITH Op <- OpenDir, A <- InnerTasks, B <- Parts
Owning == INSTANCE SequenceLemmas WITH Op <- KeepOwn, A <- FileList, B <- File

-----------------------------------------------------------------------------
(* Sequences *)

\* A flattened sequence is the last of the concatenations that begin with the
\* empty sequence.
LEMMA FlattenIs == \A ss : FlattenSeq(ss) = Flatten(ss)
  BY Zenon DEF FlattenSeq, Flatten

LEMMA FlattenIsRun ==
    ASSUME NEW S, NEW n \in Nat, NEW ss \in [1 .. n -> Seq(S)]
    PROVE  \E r \in [0 .. n -> Seq(S)] : Joins(r, ss, n) /\ FlattenSeq(ss) = r[n]
  BY Zenon, FlattenIs, FlattenedIsRun

LEMMA FlattenType ==
    ASSUME NEW S, NEW n \in Nat, NEW ss \in [1 .. n -> Seq(S)]
    PROVE  FlattenSeq(ss) \in Seq(S)
  BY Zenon, FlattenIs, FlattenedType

\* The elements of a finite set, one after the other.
LEMMA SetToSeqIs ==
    ASSUME NEW S, IsFiniteSet(S)
    PROVE  /\ Cardinality(S) \in Nat
           /\ SetToSeq(S) \in [1 .. Cardinality(S) -> S]
           /\ IsInjective(SetToSeq(S))
  <1>1. Cardinality(S) \in Nat /\ ExistsBijection(1 .. Cardinality(S), S)
    BY FS_CardinalityType
  <1>2. \E f \in [1 .. Cardinality(S) -> S] : IsInjective(f)
    BY <1>1 DEF ExistsBijection, Bijection, Injection
  <1> QED
    BY <1>1, <1>2 DEF SetToSeq

-----------------------------------------------------------------------------
(* Paths *)

LEMMA DepthIsNat == Depth \in Nat
  BY Zenon, DirectoryAssumption

LEMMA PathsAre ==
    /\ \A p \in Paths : p \in Seq(Names) /\ Len(p) \in 0 .. Depth
    /\ \A p \in Seq(Names) : Len(p) <= Depth => p \in Paths
  <1>1. ASSUME NEW p \in Paths
        PROVE  p \in Seq(Names) /\ Len(p) \in 0 .. Depth
    <2>1. PICK n \in 0 .. Depth : p \in [1 .. n -> Names]
      BY DEF Paths
    <2>2. n \in Nat
      BY DepthIsNat
    <2>3. p \in Seq(Names) /\ Len(p) = n
      BY <2>1, <2>2
    <2> QED
      BY <2>3
  <1>2. ASSUME NEW p \in Seq(Names), Len(p) <= Depth
        PROVE  p \in Paths
    <2>1. Len(p) \in 0 .. Depth /\ p \in [1 .. Len(p) -> Names]
      BY <1>2, DepthIsNat
    <2> QED
      BY <2>1 DEF Paths
  <1> QED
    BY <1>1, <1>2

LEMMA ParentIsPath ==
    ASSUME NEW p \in Paths
    PROVE  /\ <<>> \in Paths /\ Parent(p) \in Paths
           /\ p # <<>> => /\ Len(p) > 0 /\ Last(p) \in Names
                         /\ p = Append(Parent(p), Last(p))
  <1>1. p \in Seq(Names) /\ Len(p) \in 0 .. Depth /\ Depth \in Nat
    BY PathsAre, DepthIsNat
  <1>2. <<>> \in Paths
    <2>1. PICK root : root = <<>>
      OBVIOUS
    <2>2. root \in Seq(Names) /\ Len(root) = 0
      BY <2>1
    <2>3. Len(root) <= Depth
      BY <1>1, <2>2
    <2>4. root \in Paths
      BY Zenon, <2>2, <2>3, PathsAre
    <2> QED
      BY <2>1, <2>4
  <1>3. CASE p = <<>>
    BY <1>2, <1>3 DEF Parent
  <1>4. CASE p # <<>>
    <2>1. Len(p) > 0
      BY <1>1, <1>4
    <2>2. /\ SubSeq(p, 1, Len(p) - 1) \in Seq(Names)
          /\ Len(SubSeq(p, 1, Len(p) - 1)) = Len(p) - 1
      BY <1>1, <2>1
    <2>3. Parent(p) = SubSeq(p, 1, Len(p) - 1)
      BY <1>4 DEF Parent, Front
    <2>4. Parent(p) \in Paths
      <3>1. Parent(p) \in Seq(Names) /\ Len(Parent(p)) <= Depth
        BY <1>1, <2>1, <2>2, <2>3
      <3> QED
        BY Zenon, <3>1, PathsAre
    <2>5. Last(p) \in Names /\ p = Append(SubSeq(p, 1, Len(p) - 1), p[Len(p)])
      BY <1>1, <2>1 DEF Last
    <2> QED
      BY <1>2, <2>1, <2>3, <2>4, <2>5 DEF Last
  <1> QED
    BY <1>3, <1>4

LEMMA PathIsName ==
    ASSUME NEW p \in Paths
    PROVE  /\ p \in Seq(Parts)
           /\ <<"">> \o p \in FileName /\ <<"">> \o p \in Seq(Parts)
           /\ p # <<>> => <<Last(p)>> \in FileName /\ <<Last(p)>> \in Seq(Parts)
  <1>1. p \in Seq(Names)
    BY PathsAre
  <1>2. Names \subseteq Parts /\ "" \in Parts /\ Parts \subseteq AllParts
    BY Zenon DEF Parts, AllParts
  <1>3. p \in Seq(Parts)
    BY Zenon, <1>1, <1>2, SeqOfMore
  <1>4. PICK slash : slash = ""
    BY Zenon
  <1>5. <<"">> \o p \in Seq(Parts) /\ <<"">> \o p # <<>>
    <2>1. slash \in Parts
      BY Zenon, <1>2, <1>4
    <2>2. <<slash>> \in Seq(Parts) /\ Len(<<slash>>) = 1
      BY <2>1
    <2>3. <<slash>> \o p \in Seq(Parts) /\ Len(<<slash>> \o p) = 1 + Len(p)
      BY <1>3, <2>2
    <2>4. Len(<<slash>> \o p) > 0
      BY <1>3, <2>3
    <2>5. <<slash>> \o p # <<>>
      BY <2>4
    <2> QED
      BY Zenon, <1>4, <2>3, <2>5
  <1>6. <<"">> \o p \in Seq(AllParts)
    BY Zenon, <1>2, <1>5, SeqOfMore
  <1>7. ASSUME p # <<>>
        PROVE  <<Last(p)>> \in FileName /\ <<Last(p)>> \in Seq(Parts)
    <2>1. Last(p) \in Names
      BY <1>7, ParentIsPath
    <2>2. Last(p) \in Parts /\ Last(p) \in AllParts
      BY Zenon, <1>2, <2>1
    <2> QED
      BY <2>2 DEF FileName
  <1> QED
    BY Zenon, <1>3, <1>4, <1>5, <1>6, <1>7 DEF FileName

-----------------------------------------------------------------------------
(* What is listed, and what is read from it *)

\* An absolute path has a part before its first slash and one after it.
LEMMA AbsoluteIs ==
    ASSUME NEW p \in Paths
    PROVE  /\ Absolute(p) \in FileName /\ Absolute(p) \in Seq(Parts)
           /\ Len(Absolute(p)) # 1
  <1>1. PICK slash \in Parts : slash = ""
    BY Zenon DEF Parts
  <1>2. \A x \in Parts : <<x>> \in Seq(Parts) /\ Len(<<x>>) = 1
    OBVIOUS
  <1>3. PICK q \in Seq(Parts) : q = (IF p = <<>> THEN <<slash>> ELSE p) /\ Len(q) > 0
    <2>1. <<slash>> \in Seq(Parts) /\ Len(<<slash>>) > 0
      <3>1. \A x \in Parts : <<x>> \in Seq(Parts) /\ Len(<<x>>) > 0
        OBVIOUS
      <3> QED
        BY Zenon, <3>1
    <2>2. p \in Seq(Parts) /\ (p # <<>> => Len(p) > 0)
      BY Zenon, PathIsName, ParentIsPath
    <2> QED
      BY Zenon, <2>1, <2>2
  <1>4. Absolute(p) = <<slash>> \o q
    BY Zenon, <1>1, <1>3 DEF Absolute
  <1>5. \A x \in Parts : /\ <<x>> \o q \in Seq(Parts) /\ Len(<<x>> \o q) = 1 + Len(q)
                         /\ Len(<<x>> \o q) # 1 /\ <<x>> \o q # <<>>
    BY <1>2, <1>3
  <1>6. Absolute(p) \in Seq(Parts) /\ Len(Absolute(p)) # 1 /\ Absolute(p) # <<>>
    BY Zenon, <1>4, <1>5
  <1>7. Absolute(p) \in Seq(AllParts)
    <2>1. Parts \subseteq AllParts
      BY DEF AllParts
    <2> QED
      BY <1>6, <2>1, SeqOfMore
  <1> QED
    BY <1>6, <1>7 DEF FileName

LEMMA LinkIsName == Absolute(LinkTarget) \in FileName /\ LinkTarget \in Paths
  <1>1. LinkTarget \in Paths
    BY Zenon, DirectoryAssumption
  <1> QED
    BY <1>1, AbsoluteIs

LEMMA OneName ==
    ASSUME NEW x \in AllParts
    PROVE  <<x>> \in FileName
  BY DEF FileName

LEMMA NamesOfDots ==
    <<"">> \in FileName /\ <<".">> \in FileName /\ <<"..">> \in FileName /\ <<"total">> \in FileName
  <1>1. ASSUME NEW x \in {"", ".", "..", "total"}
        PROVE  <<x>> \in FileName
    <2>1. x \in AllParts
      BY Zenon DEF AllParts, Parts
    <2> QED
      BY Zenon, <2>1, OneName
  <1> QED
    BY Zenon, <1>1

LEMMA LinesOfType ==
    ASSUME remote \in Trees, style \in Styles, NEW path \in Paths, path # <<>>
    PROVE  LinesOf(path) \in LineList
  <1>1. <<Last(path)>> \in FileName /\ Absolute(LinkTarget) \in FileName /\ LinkTarget \in Paths
    BY Zenon, PathIsName, LinkIsName
  <1> DEFINE kind == IF remote[path] \in FileKinds THEN "file" ELSE remote[path]
             name == <<Last(path)>>
             target == Absolute(LinkTarget)
             link == IF kind = "link" THEN target ELSE None
  <1>2. kind \in {"none", "file", "dir", "link", "special", "device"}
    BY DEF Trees
  <1>3. name \in FileName /\ target \in FileName /\ link \in OptionalName
    BY <1>1 DEF OptionalName
  <1>4. /\ None \in OptionalName /\ None \in OptionalPath
        /\ path \in OptionalPath /\ LinkTarget \in OptionalPath
    BY <1>1 DEF OptionalName, OptionalPath
  <1>5. /\ Line("unix", kind, name, link, None) \in ListedLine
        /\ Line("mlsd", "slink", name, link, path) \in ListedLine
        /\ Line("mlsd", "symlink", name, None, LinkTarget) \in ListedLine
        /\ Line("mlsd", "dir", target, None, LinkTarget) \in ListedLine
        /\ Line("mlsd", kind, name, None, path) \in ListedLine
        /\ style \in {"dos", "other"} => Line(style, kind, name, None, None) \in ListedLine
    <2> HIDE DEF kind, name, target, link
    <2> QED
      BY <1>2, <1>3, <1>4 DEF Line, ListedLine
  <1>6. LinesOf(path) =
            CASE style = "unix" -> <<Line("unix", kind, name, link, None)>>
              [] style = "slink" /\ kind = "link" -> <<Line("mlsd", "slink", name, link, path)>>
              [] style = "symlink" /\ kind = "link" ->
                    <<Line("mlsd", "symlink", name, None, LinkTarget),
                      Line("mlsd", "dir", target, None, LinkTarget)>>
              [] style \in {"slink", "symlink"} /\ kind # "link" -> <<Line("mlsd", kind, name, None, path)>>
              [] OTHER -> <<Line(style, kind, name, None, None)>>
    BY Zenon DEF LinesOf
  <1> HIDE DEF kind, name, target, link
  <1>7. CASE style = "unix"
    BY <1>5, <1>6, <1>7 DEF LineList
  <1>8. CASE style \in {"slink", "symlink"} /\ kind = "link"
    BY <1>5, <1>6, <1>8 DEF LineList
  <1>9. CASE style \in {"slink", "symlink"} /\ kind # "link"
    BY <1>5, <1>6, <1>9 DEF LineList
  <1>10. CASE style \in {"dos", "other"}
    BY <1>5, <1>6, <1>10 DEF LineList
  <1> QED
    BY <1>7, <1>8, <1>9, <1>10 DEF Styles

LEMMA ChildrenAre ==
    ASSUME NEW tree, NEW path
    PROVE  /\ Children(tree, path) \subseteq Paths \ {<<>>}
           /\ IsFiniteSet(Children(tree, path))
  <1>1. Children(tree, path) \in SUBSET Paths /\ <<>> \notin Children(tree, path)
    BY DEF Children
  <1>2. IsFiniteSet(Paths)
    BY Zenon, DirectoryAssumption
  <1>3. IsFiniteSet(Children(tree, path))
    BY <1>1, <1>2, FS_Subset
  <1> QED
    BY <1>1, <1>3

\* A sequence of sequences, one for each child.
LEMMA ForChildren ==
    ASSUME NEW tree, NEW path
    PROVE  /\ Len(SetToSeq(Children(tree, path))) \in Nat
           /\ \A i \in 1 .. Len(SetToSeq(Children(tree, path))) :
                 SetToSeq(Children(tree, path))[i] \in Children(tree, path)
  <1>1. PICK C : C = Children(tree, path)
    OBVIOUS
  <1>2. Cardinality(C) \in Nat /\ SetToSeq(C) \in [1 .. Cardinality(C) -> C]
    BY <1>1, ChildrenAre, SetToSeqIs
  <1>3. SetToSeq(C) \in Seq(C) /\ Len(SetToSeq(C)) = Cardinality(C)
    BY <1>2
  <1> QED
    BY <1>1, <1>2, <1>3

LEMMA ListedType ==
    ASSUME remote \in Trees, style \in Styles, NEW path \in Paths
    PROVE  Listed(path) \in LineList
  <1> DEFINE entries == SetToSeq(Children(remote, path))
             head == CASE style = "unix" ->
                        <<Line("total", "none", <<"total">>, None, None),
                          Line("unix", "dir", <<".">>, None, None),
                          Line("unix", "dir", <<"..">>, None, None)>>
                       [] style \in {"slink", "symlink"} ->
                        <<Line("mlsd", "cdir", Absolute(path), None, path),
                          Line("mlsd", "pdir", <<"..">>, None, Parent(path))>>
                       [] OTHER -> <<>>
             lines == [i \in 1 .. Len(entries) |-> LinesOf(entries[i])]
  <1>1. Listed(path) = head \o FlattenSeq(lines)
    BY Zenon DEF Listed
  <1>2. head \in LineList
    <2>1. /\ Line("total", "none", <<"total">>, None, None) \in ListedLine
          /\ Line("unix", "dir", <<".">>, None, None) \in ListedLine
          /\ Line("unix", "dir", <<"..">>, None, None) \in ListedLine
          /\ Line("mlsd", "cdir", Absolute(path), None, path) \in ListedLine
          /\ Line("mlsd", "pdir", <<"..">>, None, Parent(path)) \in ListedLine
      BY Zenon, NamesOfDots, AbsoluteIs, ParentIsPath DEF Line, ListedLine, OptionalName, OptionalPath
    <2>2. \A a, b, c \in ListedLine : <<a, b, c>> \in LineList /\ <<a, b>> \in LineList
      BY DEF LineList
    <2>3. <<>> \in LineList
      BY DEF LineList
    <2>4. CASE style = "unix"
      BY Zenon, <2>1, <2>2, <2>4
    <2>5. CASE style \in {"slink", "symlink"}
      BY Zenon, <2>1, <2>2, <2>5
    <2>6. CASE style \in {"dos", "other"}
      BY <2>3, <2>6
    <2> QED
      BY <2>4, <2>5, <2>6 DEF Styles
  <1>3. FlattenSeq(lines) \in LineList
    <2>1. Len(entries) \in Nat /\ \A i \in 1 .. Len(entries) : entries[i] \in Paths \ {<<>>}
      BY ForChildren, ChildrenAre
    <2> HIDE DEF entries
    <2>2. lines \in [1 .. Len(entries) -> LineList]
      BY <2>1, LinesOfType
    <2> HIDE DEF lines
    <2> QED
      BY <2>1, <2>2, FlattenType DEF LineList
  <1> HIDE DEF head, lines
  <1> QED
    BY <1>1, <1>2, <1>3 DEF LineList

LEMMA ParseLineType ==
    ASSUME NEW parser, NEW line \in ListedLine
    PROVE  parseLine(parser, line) \in FileList
  <1>1. /\ line.name \in FileName /\ line.link \in OptionalName /\ line.id \in OptionalPath
        /\ FileType(parser, line.kind) \in {"File", "Directory", "SymbolicLink", "Unknown"}
    BY DEF ListedLine, FileType
  <1>2. <<Unblanked(line.name[1])>> \in FileName
    <2>1. line.name[1] \in AllParts
      <3>1. line.name \in Seq(AllParts) /\ line.name # <<>>
        BY <1>1 DEF FileName
      <3> QED
        BY <3>1
    <2>2. Unblanked(line.name[1]) \in AllParts
      BY <2>1 DEF Unblanked, AllParts
    <2> QED
      BY <2>2 DEF FileName
  <1> DEFINE name == IF parser = "dos" THEN <<Unblanked(line.name[1])>> ELSE line.name
             file == [name |-> name, type |-> FileType(parser, line.kind),
                      link |-> line.link, uniqueID |-> line.id]
  <1>3. name \in FileName
    BY <1>1, <1>2
  <1>4. file \in File
    <2> HIDE DEF name
    <2> QED
      BY <1>1, <1>3 DEF File
  <1>5. parseLine(parser, line) \in {<<>>, <<file>>}
    BY Zenon DEF parseLine
  <1> HIDE DEF file
  <1>6. <<>> \in FileList /\ <<file>> \in FileList
    BY <1>4 DEF FileList
  <1> QED
    BY <1>5, <1>6

LEMMA EntriesType ==
    ASSUME NEW lines \in LineList
    PROVE  Entries(lines) \in LineList
  <1>1. Choosing!Closed
    <2> SUFFICES ASSUME NEW kept \in LineList, NEW line \in ListedLine
                 PROVE  KeepEntry(kept, line) \in LineList
      BY Zenon DEF Choosing!Closed, Choosing!ClosedOn
    <2>1. Append(kept, line) \in LineList
      BY DEF LineList
    <2> QED
      BY <2>1 DEF KeepEntry
  <1>2. <<>> \in LineList /\ lines \in Seq(ListedLine)
    BY DEF LineList
  <1>3. Choosing!Fold(<<>>, lines) \in LineList
    BY Zenon, <1>1, <1>2, Choosing!FoldType
  <1>4. FoldLeft(KeepEntry, <<>>, lines) = Choosing!Fold(<<>>, lines)
    BY Zenon DEF FoldLeft, MapThenFoldSet, Max, Choosing!Fold, Choosing!Greatest
  <1> QED
    BY Zenon, <1>3, <1>4 DEF Entries

LEMMA ResolvedType ==
    ASSUME NEW files \in FileList, NEW file \in File
    PROVE  Resolved(file, files) \in File
  <1> DEFINE targets == Targets(file, files)
  <1>1. Len(files) \in Nat /\ \A i \in 1 .. Len(files) : files[i] \in File
    BY DEF FileList
  <1>2. CASE targets # {}
    <2>1. targets \in SUBSET (1 .. Len(files))
      BY DEF Targets
    <2>2. Max(targets) \in 1 .. Len(files)
      <3> HIDE DEF targets
      <3>1. Max(targets) \in targets
        BY Zenon, <1>1, <1>2, <2>1, GreatestIsIn DEF Max
      <3> QED
        BY Zenon, <2>1, <3>1
    <2>3. PICK other \in File : other = files[Max(targets)]
      BY <1>1, <2>2
    <2>4. [file EXCEPT !.link = other.name] \in File
      BY DEF File, OptionalName
    <2> QED
      BY <2>3, <2>4 DEF Resolved
  <1>3. CASE targets = {}
    BY <1>3 DEF Resolved
  <1> QED
    BY <1>2, <1>3

LEMMA TransformType ==
    ASSUME NEW parser, NEW files \in FileList
    PROVE  transformList(parser, files) \in FileList
  <1> DEFINE resolved == [i \in 1 .. Len(files) |-> Resolved(files[i], files)]
  <1>1. resolved \in Seq(File)
    <2>1. Len(files) \in Nat /\ \A i \in 1 .. Len(files) : files[i] \in File
      BY DEF FileList
    <2>2. \A i \in 1 .. Len(files) : Resolved(files[i], files) \in File
      BY <2>1, ResolvedType
    <2> QED
      BY <2>1, <2>2
  <1> HIDE DEF resolved
  <1>2. Owning!Closed
    <2> SUFFICES ASSUME NEW kept \in FileList, NEW file \in File
                 PROVE  KeepOwn(kept, file) \in FileList
      BY Zenon DEF Owning!Closed, Owning!ClosedOn
    <2>1. Append(kept, file) \in FileList
      BY DEF FileList
    <2> QED
      BY <2>1 DEF KeepOwn
  <1>3. <<>> \in FileList
    BY DEF FileList
  <1>4. Owning!Fold(<<>>, resolved) \in FileList
    BY Zenon, <1>1, <1>2, <1>3, Owning!FoldType
  <1>5. FoldLeft(KeepOwn, <<>>, resolved) = Owning!Fold(<<>>, resolved)
    BY Zenon DEF FoldLeft, MapThenFoldSet, Max, Owning!Fold, Owning!Greatest
  <1> QED
    BY Zenon, <1>4, <1>5 DEF transformList, resolved

LEMMA ParseListType ==
    ASSUME NEW lines \in LineList
    PROVE  parseList(lines) \in FileList
  <1> DEFINE entries == Entries(lines)
             parser == CHOOSE p \in availableParsers : testLine(p, Last(entries))
             read == [i \in 1 .. Len(entries) |-> parseLine(parser, entries[i])]
  <1>1. Len(entries) \in Nat /\ \A i \in 1 .. Len(entries) : entries[i] \in ListedLine
    BY EntriesType DEF LineList
  <1>2. parseList(lines) = IF entries = <<>> THEN <<>>
                           ELSE transformList(parser, FlattenSeq(read))
    BY Zenon DEF parseList
  <1> HIDE DEF entries, parser
  <1>3. read \in [1 .. Len(entries) -> FileList]
    BY <1>1, ParseLineType
  <1> HIDE DEF read
  <1>4. FlattenSeq(read) \in FileList
    BY <1>1, <1>3, FlattenType DEF FileList
  <1>5. transformList(parser, FlattenSeq(read)) \in FileList
    BY Zenon, <1>4, TransformType
  <1>6. <<>> \in FileList
    BY DEF FileList
  <1> QED
    BY <1>2, <1>5, <1>6

LEMMA FilesType ==
    ASSUME remote \in Trees, style \in Styles, cwd \in Paths
    PROVE  Files \in FileList
  BY ListedType, ParseListType DEF Files

-----------------------------------------------------------------------------
(* The tasks of an operation *)

LEMMA PathIsParts ==
    /\ \A p \in Paths : p \in Seq(AllParts) /\ p \in OptionalPath
    /\ <<>> \in Seq(AllParts) /\ <<>> \in Paths /\ None \in OptionalPath
    /\ \A name \in FileName : name \in Seq(AllParts)
    /\ \A x \in AllParts : <<x>> \in Seq(AllParts)
  <1>1. ASSUME NEW p \in Paths
        PROVE  p \in Seq(AllParts) /\ p \in OptionalPath
    <2>1. p \in Seq(Parts) /\ Parts \subseteq AllParts
      BY Zenon, PathIsName DEF AllParts
    <2>2. p \in Seq(AllParts)
      BY <2>1, SeqOfMore
    <2> QED
      BY <2>2 DEF OptionalPath
  <1>2. <<>> \in Paths
    <2>1. LinkTarget \in Paths
      BY LinkIsName
    <2> QED
      BY <2>1, ParentIsPath
  <1>3. \A x \in AllParts : <<x>> \in Seq(AllParts)
    OBVIOUS
  <1> QED
    BY <1>1, <1>2, <1>3 DEF FileName, OptionalPath

LEMMA TaskType ==
    /\ \A what \in {"cd", "cdup", "mkd", "dele", "rmd", "retr", "clear", "target", "download", "fetch"},
          arg, file \in Seq(AllParts), at \in OptionalPath : Task(what, arg, file, at) \in InnerTask
    /\ \A what \in {"stor", "upload"}, arg \in Seq(AllParts), file \in Paths, at \in OptionalPath :
          Task(what, arg, file, at) \in InnerTask
    /\ \A what \in Commands, arg \in Seq(AllParts) : Command(what, arg) \in InnerTask
    /\ cwd \in Paths =>
          \A what \in {"cd", "mkd", "dele", "rmd"}, arg \in Seq(AllParts) : Relative(what, arg) \in InnerTask
  <1>1. ASSUME NEW what \in {"cd", "cdup", "mkd", "dele", "rmd", "retr", "clear", "target", "download", "fetch"},
               NEW arg \in Seq(AllParts), NEW file \in Seq(AllParts), NEW at \in OptionalPath
        PROVE  Task(what, arg, file, at) \in InnerTask
    BY DEF Task, InnerTask, Tasks
  <1>2. ASSUME NEW what \in {"stor", "upload"},
               NEW arg \in Seq(AllParts), NEW file \in Paths, NEW at \in OptionalPath
        PROVE  Task(what, arg, file, at) \in InnerTask
    <2>1. file \in Seq(AllParts)
      BY PathIsParts
    <2> QED
      BY <2>1 DEF Task, InnerTask, Tasks
  <1>3. ASSUME NEW what \in Commands, NEW arg \in Seq(AllParts)
        PROVE  Command(what, arg) \in InnerTask
    <2>1. CASE what = "upload"
      BY Zenon, <1>2, <2>1, PathIsParts DEF Command
    <2>2. CASE what # "upload"
      <3>1. what \in {"cd", "cdup", "mkd", "dele", "rmd", "retr", "clear", "target", "download", "fetch"}
        BY <2>2 DEF Commands
      <3> QED
        BY Zenon, <1>1, <3>1, PathIsParts DEF Command
    <2> QED
      BY <2>1, <2>2
  <1>4. ASSUME cwd \in Paths, NEW what \in {"cd", "mkd", "dele", "rmd"}, NEW arg \in Seq(AllParts)
        PROVE  Relative(what, arg) \in InnerTask
    <2>1. cwd \in OptionalPath /\ <<>> \in Seq(AllParts)
      BY <1>4, PathIsParts
    <2> QED
      BY Zenon, <1>1, <2>1 DEF Relative
  <1> QED
    BY Zenon, <1>1, <1>2, <1>3, <1>4

LEMMA FewTasks ==
    /\ <<>> \in InnerTasks
    /\ \A a \in InnerTask : <<a>> \in InnerTasks
    /\ \A a, b \in InnerTask : <<a, b>> \in InnerTasks
    /\ \A s, t \in InnerTasks : s \o t \in InnerTasks
  BY DEF InnerTasks

LEMMA EnterType ==
    ASSUME cwd \in Paths, NEW name \in FileName, NEW inside \in InnerTasks
    PROVE  Enter(name, inside) \in InnerTasks
  <1>1. Relative("cd", name) \in InnerTask /\ Command("cdup", <<>>) \in InnerTask
    BY PathIsParts, TaskType DEF Commands
  <1>2. PICK a \in InnerTask, b \in InnerTask : a = Relative("cd", name) /\ b = Command("cdup", <<>>)
    BY <1>1
  <1>3. (<<a>> \o inside) \o <<b>> \in InnerTasks
    BY Zenon, FewTasks
  <1> QED
    BY Zenon, <1>2, <1>3 DEF Enter

LEMMA ClearedType ==
    ASSUME cwd \in Paths, NEW file \in File
    PROVE  Cleared(file) \in InnerTasks
  <1>1. file.name \in FileName /\ file.name \in Seq(AllParts)
    BY PathIsParts DEF File
  <1>2. /\ Relative("rmd", file.name) \in InnerTask /\ Relative("dele", file.name) \in InnerTask
        /\ Command("clear", <<>>) \in InnerTask
    BY <1>1, PathIsParts, TaskType DEF Commands
  <1>3. /\ <<Command("clear", <<>>)>> \in InnerTasks /\ <<Relative("rmd", file.name)>> \in InnerTasks
        /\ <<Relative("dele", file.name)>> \in InnerTasks
    BY Zenon, <1>2, FewTasks
  <1>4. Enter(file.name, <<Command("clear", <<>>)>>) \in InnerTasks
    BY Zenon, <1>1, <1>3, EnterType
  <1>5. Enter(file.name, <<Command("clear", <<>>)>>) \o <<Relative("rmd", file.name)>> \in InnerTasks
    BY Zenon, <1>3, <1>4, FewTasks
  <1> QED
    BY Zenon, <1>3, <1>5 DEF Cleared

LEMMA DownloadedType ==
    ASSUME cwd \in Paths, todo # <<>>, Head(todo).file \in Seq(AllParts), NEW file \in File
    PROVE  Downloaded(file) \in InnerTasks
  <1> DEFINE to == Head(todo).file \o file.name
  <1>1. file.name \in FileName /\ file.name \in Seq(AllParts)
    BY PathIsParts DEF File
  <1>2. to \in Seq(AllParts)
    BY <1>1
  <1> HIDE DEF to
  <1>3. Task("download", <<>>, to, None) \in InnerTask /\ Task("retr", file.name, to, cwd) \in InnerTask
    BY <1>1, <1>2, PathIsParts, TaskType
  <1>4. <<Task("download", <<>>, to, None)>> \in InnerTasks /\ <<Task("retr", file.name, to, cwd)>> \in InnerTasks
    BY Zenon, <1>3, FewTasks
  <1>5. Enter(file.name, <<Task("download", <<>>, to, None)>>) \in InnerTasks
    BY Zenon, <1>1, <1>4, EnterType
  <1>6. Downloaded(file) \in {<<>>, Enter(file.name, <<Task("download", <<>>, to, None)>>),
                              <<Task("retr", file.name, to, cwd)>>}
    BY Zenon DEF Downloaded, to
  <1> QED
    BY Zenon, <1>4, <1>5, <1>6, FewTasks

LEMMA UploadedType ==
    ASSUME cwd \in Paths, NEW file \in Paths, file # <<>>
    PROVE  Uploaded(file) \in InnerTasks
  <1> DEFINE name == <<Last(file)>>
  <1>1. name \in FileName /\ name \in Seq(AllParts)
    BY Zenon, PathIsName, PathIsParts
  <1> HIDE DEF name
  <1>2. /\ Task("stor", name, file, cwd) \in InnerTask /\ Relative("mkd", name) \in InnerTask
        /\ Task("upload", <<>>, file, None) \in InnerTask
    BY <1>1, PathIsParts, TaskType
  <1>3. /\ <<Task("stor", name, file, cwd)>> \in InnerTasks /\ <<Relative("mkd", name)>> \in InnerTasks
        /\ <<Task("upload", <<>>, file, None)>> \in InnerTasks
    BY Zenon, <1>2, FewTasks
  <1>4. Enter(name, <<Task("upload", <<>>, file, None)>>) \in InnerTasks
    BY Zenon, <1>1, <1>3, EnterType
  <1>5. <<Relative("mkd", name)>> \o Enter(name, <<Task("upload", <<>>, file, None)>>) \in InnerTasks
    BY Zenon, <1>3, <1>4, FewTasks
  <1>6. Uploaded(file) \in {<<>>, <<Task("stor", name, file, cwd)>>,
                            <<Relative("mkd", name)>> \o Enter(name, <<Task("upload", <<>>, file, None)>>)}
    BY Zenon DEF Uploaded, name
  <1> QED
    BY Zenon, <1>3, <1>5, <1>6, FewTasks

LEMMA OpenDirStays == Opening!Closed
  <1> SUFFICES ASSUME NEW tasks \in InnerTasks, NEW name \in Parts
               PROVE  OpenDir(tasks, name) \in InnerTasks
    BY Zenon DEF Opening!Closed, Opening!ClosedOn
  <1>1. <<name>> \in Seq(AllParts)
    BY DEF AllParts
  <1>2. Command("mkd", <<name>>) \in InnerTask /\ Command("cd", <<name>>) \in InnerTask
    BY Zenon, <1>1, TaskType DEF Commands
  <1>3. tasks \o <<Command("mkd", <<name>>), Command("cd", <<name>>)>> \in InnerTasks
    BY Zenon, <1>2, FewTasks
  <1> QED
    BY Zenon, <1>3 DEF OpenDir

LEMMA EnsureDirType ==
    ASSUME NEW arg \in Seq(Parts)
    PROVE  ensureDir(arg) \in InnerTasks
  <1> DEFINE first == IF Head(arg) = "" THEN <<Command("cd", <<"", "">>)>> ELSE <<>>
  <1>2. first \in InnerTasks
    <2>1. PICK x \in AllParts : x = ""
      BY Zenon DEF AllParts, Parts
    <2>2. <<x, x>> \in Seq(AllParts)
      OBVIOUS
    <2>3. Command("cd", <<"", "">>) \in InnerTask
      BY Zenon, <2>1, <2>2, TaskType DEF Commands
    <2> QED
      BY Zenon, <2>3, FewTasks
  <1> HIDE DEF first
  <1>3. Opening!Fold(first, arg) \in InnerTasks
    BY Zenon, OpenDirStays, <1>2, Opening!FoldType
  <1>4. FoldLeft(OpenDir, first, arg) = Opening!Fold(first, arg)
    BY Zenon DEF FoldLeft, MapThenFoldSet, Max, Opening!Fold, Opening!Greatest
  <1> QED
    BY Zenon, <1>3, <1>4 DEF ensureDir, first

LEMMA OperationsAre ==
    ASSUME NEW o \in Operations
    PROVE  o.name \in OperationNames /\ o.arg \in Seq(Parts) /\ o.arg \in Seq(AllParts)
  <1>1. o \in [name : OperationNames, arg : Seq(Parts)]
    BY Zenon, DirectoryAssumption DEF Parts
  <1>2. Parts \subseteq AllParts
    BY DEF AllParts
  <1> QED
    BY <1>1, <1>2, SeqOfMore

\* The tasks of an operation that returns: the first, which asks for the
\* directory, those of the operation, and the last.
LEMMA PlanType ==
    ASSUME NEW o \in Operations
    PROVE  /\ o.name \in Returning =>
                 \E inner \in InnerTasks : Plan(o) = Excursion(inner)
           /\ o.name \notin Returning => Plan(o) \in InnerTasks
  <1>1. o.name \in OperationNames /\ o.arg \in Seq(Parts) /\ o.arg \in Seq(AllParts)
    BY OperationsAre
  <1>2. \A what \in Commands : /\ Command(what, <<>>) \in InnerTask
                               /\ Command(what, o.arg) \in InnerTask
    BY <1>1, PathIsParts, TaskType
  <1>3. ensureDir(o.arg) \in InnerTasks
    BY <1>1, EnsureDirType
  <1>4. CASE o.name = "removeDir"
    <2>1. <<Command("cd", o.arg), Command("target", <<>>)>> \in InnerTasks
      BY <1>2, FewTasks DEF Commands
    <2>2. Plan(o) = Excursion(<<Command("cd", o.arg), Command("target", <<>>)>>)
      BY <1>4 DEF Plan
    <2> QED
      BY Zenon, <1>4, <2>1, <2>2 DEF Returning
  <1>5. CASE o.name = "uploadFromDir"
    <2> DEFINE inner == (IF o.arg = <<>> THEN <<>> ELSE ensureDir(o.arg)) \o <<Command("upload", <<>>)>>
    <2>1. <<Command("upload", <<>>)>> \in InnerTasks
      BY <1>2, FewTasks DEF Commands
    <2>2. inner \in InnerTasks
      BY Zenon, <1>3, <2>1, FewTasks
    <2>3. Plan(o) = Excursion(inner)
      BY <1>5 DEF Plan
    <2> QED
      BY Zenon, <1>5, <2>2, <2>3 DEF Returning
  <1>6. CASE o.name = "downloadToDir"
    <2> DEFINE inner == (IF o.arg = <<>> THEN <<>> ELSE <<Command("cd", o.arg)>>) \o <<Command("download", <<>>)>>
    <2>1. <<Command("download", <<>>)>> \in InnerTasks /\ <<Command("cd", o.arg)>> \in InnerTasks
      BY <1>2, FewTasks DEF Commands
    <2>2. inner \in InnerTasks
      BY Zenon, <2>1, FewTasks
    <2>3. Plan(o) = Excursion(inner)
      BY <1>6 DEF Plan
    <2> QED
      BY Zenon, <1>6, <2>2, <2>3 DEF Returning
  <1>7. CASE o.name = "ensureDir"
    <2>1. Plan(o) = ensureDir(o.arg)
      BY <1>7 DEF Plan
    <2> QED
      BY <1>3, <1>7, <2>1 DEF Returning
  <1>8. CASE o.name \in {"clearWorkingDir", "cd", "remove"}
    <2>1. Plan(o) \in {<<Command("clear", <<>>)>>, <<Command("cd", o.arg)>>, <<Command("dele", o.arg)>>}
      BY <1>8 DEF Plan
    <2>2. Plan(o) \in InnerTasks
      BY <1>2, <2>1, FewTasks DEF Commands
    <2> QED
      BY <1>8, <2>2 DEF Returning
  <1> QED
    BY <1>1, <1>4, <1>5, <1>6, <1>7, <1>8 DEF OperationNames

-----------------------------------------------------------------------------
(* The way home *)

LEMMA InnerAreTasks ==
    /\ InnerTask \subseteq Tasks
    /\ \A s \in InnerTasks : s \in Seq(Tasks)
  <1>1. InnerTask \subseteq Tasks
    BY DEF InnerTask
  <1> QED
    BY <1>1, SeqOfMore DEF InnerTasks

LEMMA ReturnIsTask == Return \in Tasks /\ Return.do = "return"
  <1>1. None \in OptionalPath /\ <<>> \in Seq(AllParts)
    BY PathIsParts
  <1> QED
    BY <1>1 DEF Return, Command, Task, Tasks

LEMMA GoesHomeIs ==
    ASSUME NEW tasks \in Seq(Tasks)
    PROVE  GoesHome(tasks) <=> \E inner \in InnerTasks : tasks = Append(inner, Return)
  <1>1. ASSUME GoesHome(tasks)
        PROVE  \E inner \in InnerTasks : tasks = Append(inner, Return)
    <2>1. PICK inner \in InnerTasks : inner = SubSeq(tasks, 1, Len(tasks) - 1)
      BY Zenon, <1>1 DEF GoesHome, Front
    <2>2. tasks # <<>> /\ tasks[Len(tasks)] = Return
      BY <1>1 DEF GoesHome, Last
    <2>3. tasks = Append(SubSeq(tasks, 1, Len(tasks) - 1), tasks[Len(tasks)])
      BY <2>2
    <2> QED
      BY Zenon, <2>1, <2>2, <2>3
  <1>2. ASSUME NEW inner \in InnerTasks, tasks = Append(inner, Return)
        PROVE  GoesHome(tasks)
    <2>1. inner \in Seq(Tasks) /\ Return \in Tasks
      BY InnerAreTasks, ReturnIsTask
    <2>2. PICK n \in Nat : n = Len(inner)
      BY <2>1
    <2>3. Len(tasks) = n + 1 /\ tasks[n + 1] = Return
      BY <1>2, <2>1, <2>2
    <2>4. SubSeq(tasks, 1, n) = inner
      BY <1>2, <2>1, <2>2
    <2>5. Last(tasks) = Return /\ Front(tasks) = inner /\ tasks # <<>>
      <3>1. (n + 1) - 1 = n
        BY <2>2
      <3> QED
        BY <2>1, <2>3, <2>4, <3>1 DEF Last, Front
    <2> QED
      BY <2>5 DEF GoesHome
  <1> QED
    BY <1>1, <1>2

\* The next task is the last, or one of the others.
LEMMA NextOfExcursion ==
    ASSUME NEW tasks \in Seq(Tasks), GoesHome(tasks)
    PROVE  /\ tasks # <<>> /\ Last(tasks) = Return
           /\ \/ Head(tasks) = Return /\ Tail(tasks) = <<>>
              \/ Head(tasks) \in InnerTask /\ GoesHome(Tail(tasks))
  <1>1. PICK inner \in InnerTasks : tasks = Append(inner, Return)
    BY GoesHomeIs
  <1>2. inner \in Seq(Tasks) /\ Return \in Tasks
    BY InnerAreTasks, ReturnIsTask
  <1>3. CASE inner = <<>>
    <2>1. tasks = <<Return>>
      BY <1>1, <1>3
    <2>2. Head(tasks) = Return /\ Tail(tasks) = <<>>
      BY <1>2, <2>1
    <2> QED
      BY <2>2 DEF GoesHome
  <1>4. CASE inner # <<>>
    <2>1. Head(inner) \in InnerTask /\ Tail(inner) \in InnerTasks
      BY <1>4 DEF InnerTasks
    <2>2. Head(tasks) = Head(inner) /\ Tail(tasks) = Append(Tail(inner), Return) /\ Tail(tasks) \in Seq(Tasks)
      BY <1>1, <1>2, <1>4
    <2>3. GoesHome(Tail(tasks))
      BY Zenon, <2>1, <2>2, GoesHomeIs
    <2> QED
      BY <2>1, <2>2, <2>3 DEF GoesHome
  <1> QED
    BY <1>3, <1>4

LEMMA MoreThenHome ==
    ASSUME NEW tasks \in InnerTasks, NEW rest \in Seq(Tasks)
    PROVE  /\ tasks \o rest \in Seq(Tasks)
           /\ GoesHome(rest) => GoesHome(tasks \o rest)
  <1>1. tasks \in Seq(Tasks) /\ Return \in Tasks
    BY InnerAreTasks, ReturnIsTask
  <1>2. tasks \o rest \in Seq(Tasks)
    BY <1>1
  <1>3. ASSUME GoesHome(rest)
        PROVE  GoesHome(tasks \o rest)
    <2>1. PICK inner \in InnerTasks : rest = Append(inner, Return)
      BY <1>3, GoesHomeIs
    <2>2. inner \in Seq(Tasks) /\ tasks \o inner \in InnerTasks
      BY InnerAreTasks, FewTasks
    <2>3. tasks \o rest = Append(tasks \o inner, Return)
      BY <1>1, <2>1, <2>2
    <2> QED
      BY Zenon, <1>2, <2>2, <2>3, GoesHomeIs
  <1> QED
    BY <1>2, <1>3

LEMMA HomeInit == DirectoryInit => HomeInv
  <1> SUFFICES ASSUME DirectoryInit
               PROVE  HomeInv
    OBVIOUS
  <1>1. remote \in Trees /\ local \in Trees
    <2>1. /\ RemoteTrees \subseteq {tree \in Trees : IsTree(tree)}
          /\ LocalTrees \subseteq {tree \in Trees : InDirectories(tree)}
      BY Zenon, DirectoryAssumption
    <2> QED
      BY <2>1 DEF DirectoryInit
  <1>2. cwd \in Paths /\ home \in Paths /\ start \in Paths
    BY PathIsParts DEF DirectoryInit
  <1>3. style \in Styles /\ todo \in Seq(Tasks)
    BY DEF DirectoryInit
  <1>4. Homing
    <2>1. op.name = "none"
      BY DEF DirectoryInit, NoOperation
    <2> QED
      BY <2>1 DEF Homing, Returning
  <1> QED
    BY <1>1, <1>2, <1>3, <1>4 DEF HomeInv, Placed

\* A task within an excursion may be replaced by others of that kind.
LEMMA ReplacedGoesHome ==
    ASSUME HomeInv, NEW what, what \notin {"pwd", "return"}, NEW tasks \in InnerTasks,
           Replaced(what, tasks), home' = home
    PROVE  todo' \in Seq(Tasks) /\ style' \in Styles /\ start' \in Paths /\ Homing'
  <1>1. todo \in Seq(Tasks) /\ todo # <<>> /\ Head(todo).do = what /\ todo' = tasks \o Tail(todo)
    BY DEF HomeInv, Placed, Replaced, IsNext
  <1>2. Tail(todo) \in Seq(Tasks)
    BY <1>1
  <1>3. op' = op /\ start' = start /\ style' = style
    BY DEF Replaced, session, call
  <1>4. todo' \in Seq(Tasks)
    BY Zenon, <1>1, <1>2, MoreThenHome
  <1>5. ASSUME op.name \in Returning
        PROVE  home' = start' /\ GoesHome(todo')
    <2>1. home = start /\ GoesHome(todo)
      BY <1>1, <1>5 DEF HomeInv, Homing
    <2>2. Head(todo) # Return
      BY <1>1, ReturnIsTask
    <2>3. GoesHome(Tail(todo))
      BY <1>1, <2>1, <2>2, NextOfExcursion
    <2>4. GoesHome(tasks \o Tail(todo))
      BY Zenon, <1>2, <2>3, MoreThenHome
    <2> QED
      BY <1>1, <1>3, <2>1, <2>4
  <1>6. Homing'
    BY <1>3, <1>5 DEF Homing
  <1> QED
    BY <1>3, <1>4, <1>6 DEF HomeInv, Placed

LEMMA BeginKeepsHome ==
    ASSUME HomeInv, NEW o \in Operations, Begin(o)
    PROVE  HomeInv'
  <1>1. /\ todo' = Plan(o) /\ op' = o /\ start' = cwd /\ cwd' = cwd /\ home' = home
        /\ remote' = remote /\ local' = local /\ style' = style
    BY DEF Begin, server, session
  <1>2. CASE o.name \in Returning
    <2>1. PICK inner \in InnerTasks : Plan(o) = Excursion(inner)
      BY <1>2, PlanType
    <2>2. PICK first \in Tasks : first = Command("pwd", <<>>) /\ first.do = "pwd"
      <3>1. None \in OptionalPath /\ <<>> \in Seq(AllParts)
        BY PathIsParts
      <3>2. Command("pwd", <<>>) \in Tasks /\ Command("pwd", <<>>).do = "pwd"
        BY <3>1 DEF Command, Task, Tasks
      <3> QED
        BY Zenon, <3>2
    <2>3. Return \in Tasks /\ inner \in Seq(Tasks)
      BY ReturnIsTask, InnerAreTasks
    <2>4. Plan(o) = (<<first>> \o inner) \o <<Return>>
      BY <2>1, <2>2 DEF Excursion, Return
    <2>5. /\ Plan(o) \in Seq(Tasks) /\ Plan(o) # <<>> /\ Head(Plan(o)) = first
          /\ Tail(Plan(o)) = Append(inner, Return)
      BY <2>3, <2>4
    <2>6. Tail(Plan(o)) \in Seq(Tasks)
      BY <2>3, <2>5
    <2>7. GoesHome(Tail(Plan(o)))
      BY Zenon, <2>5, <2>6, GoesHomeIs
    <2> QED
      BY <1>1, <2>2, <2>5, <2>7 DEF HomeInv, Placed, Homing
  <1>3. CASE o.name \notin Returning
    <2>1. Plan(o) \in Seq(Tasks)
      BY <1>3, PlanType, InnerAreTasks
    <2> QED
      BY <1>1, <1>3, <2>1 DEF HomeInv, Placed, Homing
  <1> QED
    BY <1>2, <1>3

LEMMA PrintsKeepsHome ==
    ASSUME HomeInv, PrintsDirectory
    PROVE  HomeInv'
  <1>1. todo \in Seq(Tasks) /\ todo # <<>> /\ Head(todo).do = "pwd" /\ todo' = <<>> \o Tail(todo)
    BY DEF HomeInv, Placed, PrintsDirectory, Done, Replaced, IsNext
  <1>2. todo' = Tail(todo) /\ todo' \in Seq(Tasks)
    BY <1>1
  <1>3. /\ home' = cwd /\ cwd' = cwd /\ remote' = remote /\ local' = local
        /\ start' = start /\ op' = op /\ style' = style
    BY DEF PrintsDirectory, Done, Replaced, server, session, call
  <1>4. ASSUME op.name \in Returning
        PROVE  cwd = start /\ GoesHome(Tail(todo))
    <2>1. ~GoesHome(todo)
      <3> SUFFICES ASSUME GoesHome(todo)
                   PROVE  FALSE
        OBVIOUS
      <3>1. Head(todo) = Return \/ Head(todo) \in InnerTask
        BY <1>1, NextOfExcursion
      <3> QED
        BY <1>1, <3>1, ReturnIsTask DEF InnerTask
    <2> QED
      BY <1>1, <1>4, <2>1 DEF HomeInv, Homing
  <1> QED
    BY <1>2, <1>3, <1>4 DEF HomeInv, Placed, Homing

LEMMA KindIs ==
    ASSUME NEW tree, NEW path, Kind(tree, path) # "none"
    PROVE  path \in Paths /\ tree[path] = Kind(tree, path)
  BY DEF Kind

LEMMA TreeChanges ==
    ASSUME NEW tree \in Trees, NEW path, NEW kind \in FileKinds \cup {"none", "dir", "link", "special", "device"}
    PROVE  [tree EXCEPT ![path] = kind] \in Trees
  BY Zenon DEF Trees

LEMMA CommandsKeepHome ==
    ASSUME HomeInv,
           \/ ChangesDirectory \/ ChangesToParent \/ MakesDirectory \/ RemovesFile
           \/ RemovesDirectory \/ Stores \/ Retrieves
    PROVE  HomeInv'
  <1>1. \E what \in {"cd", "cdup", "mkd", "dele", "rmd", "stor", "retr"} :
           Replaced(what, <<>>) /\ home' = home
    BY DEF ChangesDirectory, ChangesToParent, MakesDirectory, RemovesFile, RemovesDirectory,
           Stores, Retrieves, Done
  <1>2. PICK what \in {"cd", "cdup", "mkd", "dele", "rmd", "stor", "retr"} :
           Replaced(what, <<>>) /\ home' = home
    BY <1>1
  <1>3. what \notin {"pwd", "return"} /\ <<>> \in InnerTasks
    BY FewTasks
  <1>4. todo' \in Seq(Tasks) /\ style' \in Styles /\ start' \in Paths /\ Homing'
    BY Zenon, <1>2, <1>3, ReplacedGoesHome
  <1>5. remote \in Trees /\ local \in Trees /\ cwd \in Paths /\ home \in Paths /\ todo \in Seq(Tasks)
    BY DEF HomeInv, Placed
  <1>6. remote' \in Trees /\ local' \in Trees /\ cwd' \in Paths
    <2>1. CASE ChangesDirectory
      <3>1. Follow(Target) \in Paths
        BY <2>1, KindIs DEF ChangesDirectory
      <3> QED
        BY <1>5, <2>1, <3>1 DEF ChangesDirectory
    <2>2. CASE ChangesToParent
      <3>1. Parent(cwd) \in Paths
        BY <1>5, ParentIsPath
      <3> QED
        BY <1>5, <2>2, <3>1 DEF ChangesToParent
    <2>3. CASE MakesDirectory
      BY Zenon, <1>5, <2>3, TreeChanges DEF MakesDirectory
    <2>4. CASE RemovesFile
      BY Zenon, <1>5, <2>4, TreeChanges DEF RemovesFile
    <2>5. CASE RemovesDirectory
      BY Zenon, <1>5, <2>5, TreeChanges DEF RemovesDirectory
    <2>6. CASE Stores
      <3>1. todo # <<>> /\ Head(todo).do = "stor"
        BY <2>6 DEF Stores, Done, Replaced, IsNext
      <3>2. Head(todo) \in Tasks
        BY <1>5, <3>1
      <3>3. Head(todo).file \in Paths
        BY <3>1, <3>2 DEF Tasks
      <3>4. local[Head(todo).file] \in FileKinds \cup {"none", "dir", "link", "special", "device"}
        BY <1>5, <3>3 DEF Trees
      <3> QED
        BY Zenon, <1>5, <2>6, <3>4, TreeChanges DEF Stores
    <2>7. CASE Retrieves
      <3>1. Kind(remote, Target) \in FileKinds
        BY <2>7 DEF Retrieves
      <3>2. remote[Target] \in FileKinds
        BY <3>1, KindIs DEF FileKinds
      <3> QED
        BY Zenon, <1>5, <2>7, <3>2, TreeChanges DEF Retrieves, server
    <2> QED
      BY <2>1, <2>2, <2>3, <2>4, <2>5, <2>6, <2>7
  <1> QED
    BY <1>2, <1>4, <1>5, <1>6 DEF HomeInv, Placed

\* A listing that is replaced by the tasks for its files.
LEMMA ListedKeepsHome ==
    ASSUME HomeInv, NEW what, what \notin {"pwd", "return"}, NEW n \in Nat,
           NEW tasks \in [1 .. n -> InnerTasks],
           Replaced(what, FlattenSeq(tasks)), UNCHANGED <<server, local, home>>
    PROVE  HomeInv'
  <1>1. FlattenSeq(tasks) \in InnerTasks
    BY FlattenType DEF InnerTasks
  <1>2. todo' \in Seq(Tasks) /\ style' \in Styles /\ start' \in Paths /\ Homing'
    BY <1>1, ReplacedGoesHome
  <1> QED
    BY <1>2 DEF HomeInv, Placed, server

LEMMA LoopsKeepHome ==
    ASSUME HomeInv, clearWorkingDir \/ _uploadToWorkingDir \/ _downloadFromWorkingDir
    PROVE  HomeInv'
  <1>1. /\ remote \in Trees /\ style \in Styles /\ cwd \in Paths /\ todo \in Seq(Tasks)
    BY DEF HomeInv, Placed
  <1>2. Len(Files) \in Nat /\ \A i \in 1 .. Len(Files) : Files[i] \in File
    BY <1>1, FilesType DEF FileList
  <1>3. CASE clearWorkingDir
    <2> DEFINE tasks == [i \in 1 .. Len(Files) |-> Cleared(Files[i])]
    <2>1. tasks \in [1 .. Len(Files) -> InnerTasks]
      BY <1>1, <1>2, ClearedType
    <2>2. Replaced("clear", FlattenSeq(tasks)) /\ UNCHANGED <<server, local, home>>
      BY <1>3 DEF clearWorkingDir, ForEachListed
    <2> HIDE DEF tasks
    <2> QED
      BY <1>2, <2>1, <2>2, ListedKeepsHome
  <1>4. CASE _downloadFromWorkingDir
    <2> DEFINE tasks == [i \in 1 .. Len(Files) |-> Downloaded(Files[i])]
    <2>1. todo # <<>> /\ Head(todo).file \in Seq(AllParts)
      <3>1. todo # <<>>
        BY <1>4 DEF _downloadFromWorkingDir, ForEachListed, IsNext
      <3>2. Head(todo) \in Tasks
        BY <1>1, <3>1
      <3> QED
        BY <3>1, <3>2 DEF Tasks
    <2>2. tasks \in [1 .. Len(Files) -> InnerTasks]
      BY <1>1, <1>2, <2>1, DownloadedType
    <2>3. Replaced("fetch", FlattenSeq(tasks)) /\ UNCHANGED <<server, local, home>>
      BY <1>4 DEF _downloadFromWorkingDir, ForEachListed
    <2> HIDE DEF tasks
    <2> QED
      BY <1>2, <2>2, <2>3, ListedKeepsHome
  <1>5. CASE _uploadToWorkingDir
    <2> DEFINE files == SetToSeq(Children(local, Head(todo).file))
               tasks == [i \in 1 .. Len(files) |-> Uploaded(files[i])]
    <2>1. Len(files) \in Nat /\ \A i \in 1 .. Len(files) : files[i] \in Paths \ {<<>>}
      BY ForChildren, ChildrenAre
    <2>2. Replaced("upload", FlattenSeq(tasks)) /\ UNCHANGED <<server, local, home>>
      BY <1>5 DEF _uploadToWorkingDir
    <2> HIDE DEF files
    <2>3. tasks \in [1 .. Len(files) -> InnerTasks]
      BY <1>1, <2>1, UploadedType
    <2> HIDE DEF tasks
    <2> QED
      BY <2>1, <2>2, <2>3, ListedKeepsHome
  <1> QED
    BY <1>3, <1>4, <1>5

LEMMA EntersTargetKeepsHome ==
    ASSUME HomeInv, EntersTarget
    PROVE  HomeInv'
  <1>1. cwd \in Paths
    BY DEF HomeInv, Placed
  <1>2. <<"">> \o cwd \in Seq(AllParts)
    BY Zenon, <1>1, PathIsName, PathIsParts
  <1>3. /\ Command("clear", <<>>) \in InnerTask /\ Command("cdup", <<>>) \in InnerTask
        /\ Command("rmd", <<"">> \o cwd) \in InnerTask
    BY Zenon, <1>2, PathIsParts, TaskType DEF Commands
  <1>4. RemovedTarget \in InnerTasks
    <2>1. /\ <<Command("clear", <<>>)>> \in InnerTasks
          /\ <<Command("cdup", <<>>), Command("rmd", <<"">> \o cwd)>> \in InnerTasks
      BY Zenon, <1>3, FewTasks
    <2> QED
      BY Zenon, <2>1, FewTasks DEF RemovedTarget
  <1>5. todo' \in Seq(Tasks) /\ style' \in Styles /\ start' \in Paths /\ Homing'
    BY <1>4, ReplacedGoesHome DEF EntersTarget
  <1> QED
    BY <1>5 DEF EntersTarget, HomeInv, Placed, server

LEMMA LocalDirectoryKeepsHome ==
    ASSUME HomeInv, ensureLocalDirectory
    PROVE  HomeInv'
  <1>1. todo \in Seq(Tasks) /\ local \in Trees
    BY DEF HomeInv, Placed
  <1>2. todo # <<>>
    BY DEF ensureLocalDirectory, Replaced, IsNext
  <1>3. Head(todo).file \in Seq(AllParts)
    <2>1. Head(todo) \in Tasks
      BY <1>1, <1>2
    <2> QED
      BY <2>1 DEF Tasks
  <1>4. Task("fetch", <<>>, Head(todo).file, None) \in InnerTask
    BY <1>3, PathIsParts, TaskType
  <1>5. <<Task("fetch", <<>>, Head(todo).file, None)>> \in InnerTasks
    BY Zenon, <1>4, FewTasks
  <1>6. Replaced("download", <<Task("fetch", <<>>, Head(todo).file, None)>>) /\ home' = home
    BY DEF ensureLocalDirectory
  <1>7. todo' \in Seq(Tasks) /\ style' \in Styles /\ start' \in Paths /\ Homing'
    BY <1>5, <1>6, ReplacedGoesHome
  <1>8. local' \in Trees
    <2>1. local' = local \/ local' = [local EXCEPT ![Head(todo).file] = "dir"]
      BY DEF ensureLocalDirectory
    <2>2. [local EXCEPT ![Head(todo).file] = "dir"] \in Trees
      BY Zenon, <1>1, TreeChanges
    <2> QED
      BY <1>1, <2>1, <2>2
  <1> QED
    BY <1>7, <1>8 DEF ensureLocalDirectory, HomeInv, Placed, server

LEMMA FailureKeepsHome ==
    ASSUME HomeInv, Fails
    PROVE  HomeInv'
  <1>1. /\ todo \in Seq(Tasks) /\ todo # <<>> /\ Head(todo).do # "return"
        /\ remote \in Trees /\ local \in Trees
        /\ cwd \in Paths /\ home \in Paths /\ start \in Paths /\ style \in Styles
    BY DEF HomeInv, Placed, Fails, IsNext
  <1>2. /\ style' = style /\ open' = open /\ op' = op /\ start' = start /\ home' = home
        /\ astray' = astray
    BY DEF Fails, session, call
  <1>3. /\ remote' \in Trees /\ local' \in Trees /\ cwd' = cwd
        /\ Head(todo).do \notin {"stor", "retr"} => UNCHANGED <<remote, local>>
    <2>1. Remains
      BY DEF Fails
    <2>2. CASE Head(todo).do = "stor" /\ CanStore
      <3>1. remote' \in {remote, [remote EXCEPT ![Target] = "partial"]} /\ UNCHANGED <<cwd, local>>
        BY <2>1, <2>2 DEF Remains
      <3>2. [remote EXCEPT ![Target] = "partial"] \in Trees
        BY Zenon, <1>1, TreeChanges DEF FileKinds
      <3> QED
        BY <1>1, <2>2, <3>1, <3>2
    <2>3. CASE Head(todo).do = "retr" /\ CanCreate(Head(todo).file)
      <3>1. /\ UNCHANGED server
            /\ \E left \in {local[Head(todo).file], "partial", "none"} :
                  local' = [local EXCEPT ![Head(todo).file] = left]
        BY <2>1, <2>3 DEF Remains
      <3>2. PICK left \in {local[Head(todo).file], "partial", "none"} :
                  local' = [local EXCEPT ![Head(todo).file] = left]
        BY Zenon, <3>1
      <3>3. local' \in Trees
        <4>1. CASE left = local[Head(todo).file]
          <5>1. local' = local
            BY <1>1, <3>2, <4>1 DEF Trees
          <5> QED
            BY <1>1, <5>1
        <4>2. CASE left \in {"partial", "none"}
          BY Zenon, <1>1, <3>2, <4>2, TreeChanges DEF FileKinds
        <4> QED
          BY <4>1, <4>2
      <3> QED
        BY <1>1, <2>3, <3>1, <3>3 DEF server
    <2>4. CASE /\ ~(Head(todo).do = "stor" /\ CanStore)
               /\ ~(Head(todo).do = "retr" /\ CanCreate(Head(todo).file))
      <3>1. UNCHANGED <<server, local>>
        BY <2>1, <2>4 DEF Remains
      <3> QED
        BY <1>1, <3>1 DEF server
    <2> QED
      BY <2>2, <2>3, <2>4
  <1>4. CASE Ignored(Head(todo))
    <2>1. Head(todo).do = "mkd" /\ todo' = Tail(todo)
      BY <1>4 DEF Fails, Ignored
    <2>2. todo' \in Seq(Tasks)
      BY <1>1, <2>1
    <2>3. ASSUME op.name \in Returning
          PROVE  home = start /\ GoesHome(todo')
      <3>1. home = start /\ GoesHome(todo)
        BY <1>1, <2>1, <2>3 DEF HomeInv, Homing
      <3>2. Head(todo) # Return
        BY <1>1, ReturnIsTask
      <3> QED
        BY <1>1, <2>1, <3>1, <3>2, NextOfExcursion
    <2> QED
      BY <1>1, <1>2, <1>3, <2>2, <2>3 DEF HomeInv, Placed, Homing
  <1>5. CASE ~Ignored(Head(todo))
    <2>1. todo' = Finally(Head(todo))
      BY <1>5 DEF Fails
    <2>2. Last(todo) \in Tasks
      BY <1>1 DEF Last
    <2>3. todo' \in Seq(Tasks)
      BY <2>1, <2>2 DEF Finally
    <2>4. ASSUME op.name \in Returning, Head(todo).do = "pwd", cwd = start
          PROVE  Homing'
      <3>1. todo' = <<>>
        BY <2>1, <2>4 DEF Finally
      <3> QED
        BY <1>2, <1>3, <2>4, <3>1 DEF Homing
    <2>5. ASSUME op.name \in Returning, home = start, GoesHome(todo)
          PROVE  Homing'
      <3>1. Last(todo) = Return /\ Head(todo) \in InnerTask
        <4>1. Head(todo) # Return
          BY <1>1, ReturnIsTask
        <4> QED
          BY <1>1, <2>5, <4>1, NextOfExcursion
      <3>2. todo' = <<Return>>
        <4>1. Last(todo).do = "return" /\ Head(todo).do # "pwd"
          BY <3>1, ReturnIsTask DEF InnerTask
        <4> QED
          BY <2>1, <3>1, <4>1 DEF Finally
      <3>3. <<Return>> = Append(<<>>, Return) /\ <<>> \in InnerTasks
        BY FewTasks
      <3>4. GoesHome(todo')
        BY Zenon, <2>3, <3>2, <3>3, GoesHomeIs
      <3> QED
        BY <1>2, <2>5, <3>4 DEF Homing
    <2>6. Homing'
      <3>1. CASE op.name \notin Returning
        BY <1>2, <3>1 DEF Homing
      <3>2. CASE op.name \in Returning
        BY <1>1, <2>4, <2>5, <3>2 DEF HomeInv, Homing
      <3> QED
        BY <3>1, <3>2
    <2> QED
      BY <1>1, <1>2, <1>3, <2>3, <2>6 DEF HomeInv, Placed
  <1> QED
    BY <1>4, <1>5

LEMMA ReturnKeepsHome ==
    ASSUME HomeInv, Returns
    PROVE  HomeInv'
  <1>1. /\ todo \in Seq(Tasks) /\ todo # <<>> /\ Head(todo).do = "return" /\ todo' = Tail(todo)
        /\ remote \in Trees /\ local \in Trees
        /\ cwd \in Paths /\ home \in Paths /\ start \in Paths /\ style \in Styles
    BY DEF HomeInv, Placed, Returns, IsNext
  <1>2. /\ remote' = remote /\ local' = local /\ style' = style /\ open' = open
        /\ home' = home /\ op' = op /\ start' = start
    BY DEF Returns, session, call
  <1>3. cwd' \in {cwd, home}
    BY DEF Returns
  <1>4. ASSUME op.name \in Returning
        PROVE  todo' = <<>> /\ (open' /\ ~astray' => cwd' = start' \/ remote'[start'] # "dir")
    <2>1. home = start /\ GoesHome(todo)
      BY <1>1, <1>4 DEF HomeInv, Homing
    <2>2. Head(todo) \notin InnerTask
      BY <1>1 DEF InnerTask
    <2>3. Tail(todo) = <<>>
      BY <1>1, <2>1, <2>2, NextOfExcursion
    <2>4. CASE cwd' = home
      BY <1>1, <1>2, <2>1, <2>3, <2>4
    <2>5. CASE astray' = (open /\ Kind(remote, home) = "dir")
      <3>1. open /\ ~astray' => remote[start] # "dir"
        BY Zenon, <1>1, <2>1, <2>5 DEF Kind
      <3> QED
        BY <1>1, <1>2, <2>3, <3>1
    <2> QED
      BY <2>4, <2>5 DEF Returns
  <1>5. todo' \in Seq(Tasks)
    BY <1>1
  <1>6. Homing'
    BY <1>2, <1>4 DEF Homing
  <1> QED
    BY <1>1, <1>2, <1>3, <1>5, <1>6 DEF HomeInv, Placed

LEMMA HomeNext == HomeInv /\ [DirectoryNext]_vars => HomeInv'
  <1> SUFFICES ASSUME HomeInv, [DirectoryNext]_vars
               PROVE  HomeInv'
    OBVIOUS
  <1>1. CASE \E o \in Operations : Begin(o)
    BY <1>1, BeginKeepsHome
  <1>2. CASE PrintsDirectory
    BY <1>2, PrintsKeepsHome
  <1>3. CASE \/ ChangesDirectory \/ ChangesToParent \/ MakesDirectory \/ RemovesFile
             \/ RemovesDirectory \/ Stores \/ Retrieves
    BY <1>3, CommandsKeepHome
  <1>4. CASE clearWorkingDir \/ _uploadToWorkingDir \/ _downloadFromWorkingDir
    BY <1>4, LoopsKeepHome
  <1>5. CASE EntersTarget
    BY <1>5, EntersTargetKeepsHome
  <1>6. CASE ensureLocalDirectory
    BY <1>6, LocalDirectoryKeepsHome
  <1>7. CASE Fails
    BY <1>7, FailureKeepsHome
  <1>8. CASE Returns
    BY <1>8, ReturnKeepsHome
  <1>9. CASE Closes
    BY <1>9 DEF Closes, HomeInv, Placed, Homing, server, call
  <1>10. CASE Reconnects
    <2>1. cwd' \in Paths /\ op'.name \notin Returning
      BY <1>10, PathIsParts DEF Reconnects, NoOperation, Returning
    <2> QED
      BY <1>10, <2>1 DEF Reconnects, HomeInv, Placed, Homing
  <1>11. CASE UNCHANGED vars
    BY <1>11 DEF HomeInv, Placed, Homing, vars, server, session, call
  <1> QED
    BY <1>1, <1>2, <1>3, <1>4, <1>5, <1>6, <1>7, <1>8, <1>9, <1>10, <1>11 DEF DirectoryNext

\* Whether an operation that enters directories worked or failed, wherever it
\* failed, the working directory is afterwards the one it was called in,
\* unless that was removed, the server refused to go there, or the client is
\* closed (_exitAtCurrentDirectory).
THEOREM OperationsReturnHome == DirectorySpec => []ReturnsHome
  <1>1. HomeInv => ReturnsHome
    <2> SUFFICES ASSUME HomeInv, Finished, open, ~astray, op.name \in Returning
                 PROVE  cwd = start \/ remote[start] # "dir"
      BY DEF ReturnsHome, Returning
    <2>1. todo = <<>>
      BY DEF Finished
    <2> QED
      BY <2>1 DEF HomeInv, Homing, GoesHome
  <1> QED
    BY <1>1, HomeInit, HomeNext, PTL DEF DirectorySpec

-----------------------------------------------------------------------------
(* Where the server finds the argument of a command *)

LEMMA NamesAre ==
    /\ \A n \in Names : n \notin {"", ".", ".."}
    /\ \A n \in Names : Unblanked(n) \in Names /\ Unblanked(Unblanked(n)) = Unblanked(n)
    /\ "" \notin DOMAIN Blanks
  <1>1. /\ Names \cap {"", ".", ".."} = {} /\ DOMAIN Blanks \subseteq Names
        /\ \A n \in DOMAIN Blanks : Blanks[n] \in Names \ DOMAIN Blanks
    BY Zenon, DirectoryAssumption
  <1>2. \A n \in Names : n \notin {"", ".", ".."}
    BY Zenon, <1>1
  <1>3. "" \notin DOMAIN Blanks
    BY Zenon, <1>1
  <1>4. \A n \in Names : Unblanked(n) \in Names /\ Unblanked(Unblanked(n)) = Unblanked(n)
    BY Zenon, <1>1 DEF Unblanked
  <1> QED
    BY Zenon, <1>2, <1>3, <1>4

LEMMA ParentOfSeq ==
    ASSUME NEW S, NEW path \in Seq(S)
    PROVE  /\ Parent(path) \in Seq(S)
           /\ \A x \in S : Append(path, x) # <<>> /\ Parent(Append(path, x)) = path
  BY FrontIs DEF Parent, Front

LEMMA AppendNames ==
    \A s, t \in Seq(Names), x \in Names : Append(s \o t, x) = s \o Append(t, x)
  <1> TAKE s \in Seq(Names), t \in Seq(Names), x \in Names
  <1>1. s \o t \in Seq(Names) /\ <<x>> \in Seq(Names)
    OBVIOUS
  <1>2. Append(s \o t, x) = (s \o t) \o <<x>> /\ Append(t, x) = t \o <<x>>
    BY <1>1, AppendIsConcat
  <1>3. (s \o t) \o <<x>> = s \o (t \o <<x>>)
    BY <1>1, ConcatAssociative
  <1> QED
    BY <1>2, <1>3

LEMMA StepIs ==
    /\ Closed
    /\ \A path \in Seq(Names) : Step(path, "") = path
    /\ \A path \in Seq(Names), n \in Names :
          Step(path, n) = Append(path, n) /\ Append(path, n) \in Seq(Names)
  <1>1. \A path \in Seq(Names) : Step(path, "") = path
    BY DEF Step
  <1>2. \A path \in Seq(Names), n \in Names : Step(path, n) = Append(path, n)
    BY Zenon, NamesAre DEF Step
  <1>3. \A path \in Seq(Names) : Step(path, "..") \in Seq(Names)
    BY ParentOfSeq DEF Step
  <1>4. \A path \in Seq(Names), n \in Names : Append(path, n) \in Seq(Names)
    OBVIOUS
  <1>5. \A path \in Seq(Names), part \in Parts : Step(path, part) \in Seq(Names)
    BY Zenon, <1>1, <1>2, <1>3, <1>4 DEF Parts
  <1> QED
    BY Zenon, <1>1, <1>2, <1>4, <1>5 DEF Closed, ClosedOn

LEMMA WalkNames ==
    ASSUME NEW base \in Seq(Names), NEW names \in Seq(Names)
    PROVE  Fold(base, names) = base \o names
  <1> DEFINE S == {s \in Seq(Names) : Fold(base, s) = base \o s}
  <1>1. Names \subseteq Parts
    BY Zenon DEF Parts
  <1>2. <<>> \in S
    <2>1. Fold(base, <<>>) = base
      BY Zenon, StepIs, FoldEmpty
    <2>2. base \o <<>> = base
      OBVIOUS
    <2> QED
      BY <2>1, <2>2
  <1>3. ASSUME NEW s \in Seq(Names), NEW n \in Names, s \in S
        PROVE  Append(s, n) \in S
    <2>1. s \in Seq(Parts) /\ n \in Parts
      BY <1>1, SeqOfMore
    <2>2. Fold(base, Append(s, n)) = Step(Fold(base, s), n)
      BY Zenon, <2>1, StepIs, FoldAppend
    <2>3. Fold(base, s) = base \o s /\ base \o s \in Seq(Names)
      BY <1>3
    <2>4. Step(base \o s, n) = Append(base \o s, n)
      BY Zenon, <2>3, StepIs
    <2>5. Append(base \o s, n) = base \o Append(s, n)
      BY Zenon, AppendNames
    <2>6. Append(s, n) \in Seq(Names)
      OBVIOUS
    <2> QED
      BY Zenon, <2>2, <2>3, <2>4, <2>5, <2>6
  <1>4. Seq(Names) \subseteq S
    <2> HIDE DEF S
    <2> QED
      BY Zenon, <1>2, <1>3, SeqInduction
  <1> QED
    BY <1>4

LEMMA WalkIs ==
    ASSUME cwd \in Paths
    PROVE  /\ \A n \in Names : Walk(<<n>>) = Append(cwd, n)
           /\ \A p \in Seq(Names) : Walk(<<"">> \o p) = p
           /\ Walk(<<"..">>) = Parent(cwd)
  <1>1. cwd \in Seq(Names) /\ Names \subseteq Parts /\ "" \in Parts /\ ".." \in Parts
    BY Zenon, PathsAre DEF Parts
  <1>2. ASSUME NEW base \in Seq(Names), NEW arg
        PROVE  FoldLeft(Step, base, arg) = Fold(base, arg)
    BY Zenon DEF FoldLeft, MapThenFoldSet, Max, Fold, Greatest
  <1>3. ASSUME NEW n \in Names
        PROVE  Walk(<<n>>) = Append(cwd, n)
    <2>1. Head(<<n>>) # ""
      BY Zenon, HeadOfOne, NamesAre
    <2>2. Walk(<<n>>) = Fold(cwd, <<n>>)
      BY Zenon, <1>2, <1>1, <2>1 DEF Walk
    <2>3. Fold(cwd, <<n>>) = Step(cwd, n)
      BY Zenon, <1>1, StepIs, FoldOne
    <2> QED
      BY Zenon, <1>1, <2>2, <2>3, StepIs
  <1>4. ASSUME NEW p \in Seq(Names)
        PROVE  Walk(<<"">> \o p) = p
    <2>1. PICK slash \in Parts : slash = ""
      BY Zenon, <1>1
    <2>2. p \in Seq(Parts)
      BY Zenon, <1>1, SeqOfMore
    <2>3. <<slash>> \in Seq(Parts)
      OBVIOUS
    <2>4. Head(<<slash>> \o p) = slash /\ <<slash>> \o p # <<>> /\ <<>> \in Seq(Names)
      BY HeadOfAbsolute
    <2>5. Walk(<<slash>> \o p) = Fold(<<>>, <<slash>> \o p)
      BY Zenon, <1>2, <2>1, <2>4 DEF Walk
    <2>6. Fold(<<>>, <<slash>> \o p) = Fold(Fold(<<>>, <<slash>>), p)
      BY Zenon, <2>2, <2>3, <2>4, StepIs, FoldConcat
    <2>7. Fold(<<>>, <<slash>>) = Step(<<>>, slash)
      BY Zenon, <2>4, StepIs, FoldOne
    <2>8. Step(<<>>, slash) = <<>>
      BY Zenon, <2>1, <2>4, StepIs
    <2>9. Fold(<<>>, p) = <<>> \o p
      BY Zenon, <2>4, WalkNames
    <2>10. <<>> \o p = p
      OBVIOUS
    <2>11. Walk(<<slash>> \o p) = p
      BY Zenon, <2>5, <2>6, <2>7, <2>8, <2>9, <2>10
    <2> QED
      BY Zenon, <2>1, <2>11
  <1>5. Walk(<<"..">>) = Parent(cwd)
    <2>1. PICK up \in Parts : up = ".." /\ up # ""
      BY Zenon, <1>1
    <2>2. Head(<<up>>) # ""
      BY HeadOfOne, <2>1
    <2>3. Walk(<<up>>) = Fold(cwd, <<up>>)
      BY Zenon, <1>1, <1>2, <2>2 DEF Walk
    <2>4. Fold(cwd, <<up>>) = Step(cwd, up)
      BY Zenon, <1>1, StepIs, FoldOne
    <2>5. Step(cwd, up) = Parent(cwd)
      BY <2>1 DEF Step
    <2> QED
      BY Zenon, <2>1, <2>3, <2>4, <2>5
  <1> QED
    BY Zenon, <1>3, <1>4, <1>5

LEMMA TargetIs ==
    ASSUME cwd \in Paths
    PROVE  /\ \A n \in Names : Head(todo).arg = <<n>> /\ Head(todo).do # "mkd" =>
                                     Target = Append(cwd, n)
           /\ \A n \in Names : Head(todo).arg = <<n>> /\ Head(todo).do = "mkd" =>
                                     Target = Append(cwd, Unblanked(n))
           /\ Head(todo).arg = <<"..">> /\ Head(todo).do = "mkd" => Target = Parent(cwd)
           /\ \A p \in Paths : Head(todo).arg = <<"">> \o p /\ Head(todo).do # "mkd" => Target = p
  <1>1. cwd \in Seq(Names) /\ Unblanked("") = ""
    BY Zenon, PathsAre, NamesAre DEF Unblanked
  <1>2. ASSUME NEW p \in Seq(Names)
        PROVE  ServerPath(<<"">> \o p) = p
    <2>1. PICK slash : slash = ""
      BY Zenon
    <2>2. Head(<<slash>> \o p) = slash /\ Tail(<<slash>> \o p) = p
      BY HeadOfAbsolute
    <2>3. ServerPath(<<slash>> \o p) = Walk(<<slash>> \o p)
      BY Zenon, <1>1, <2>1, <2>2 DEF ServerPath
    <2> QED
      BY Zenon, <2>1, <2>3, WalkIs
  <1>3. ASSUME NEW n
        PROVE  Head(<<n>>) = n /\ Tail(<<n>>) = <<>> /\ \A x : <<x>> \o <<>> = <<x>>
    BY Zenon, HeadOfOne
  <1>4. ASSUME NEW n \in Names, Head(todo).arg = <<n>>, Head(todo).do # "mkd"
        PROVE  Target = Append(cwd, n)
    <2>1. Target = ServerPath(protectWhitespace(<<n>>))
      BY <1>4 DEF Target
    <2>2. CASE n \in DOMAIN Blanks
      <3>1. protectWhitespace(<<n>>) = <<"">> \o cwd \o <<n>>
        BY Zenon, <1>3, <2>2 DEF protectWhitespace
      <3>2. <<"">> \o cwd \o <<n>> = <<"">> \o Append(cwd, n) /\ Append(cwd, n) \in Seq(Names)
        <4>1. PICK slash \in Parts : slash = ""
          BY Zenon DEF Parts
        <4>2. PICK path \in Seq(Parts) : path = cwd
          BY Zenon, <1>1, SeqOfMore DEF Parts
        <4>3. PICK m \in Parts : m = n
          BY Zenon DEF Parts
        <4>4. <<slash>> \in Seq(Parts)
          OBVIOUS
        <4>5. (<<slash>> \o path) \o <<m>> = <<slash>> \o Append(path, m)
          BY <4>4, AppendLater
        <4>6. Append(cwd, n) \in Seq(Names)
          BY Zenon, <1>1, StepIs
        <4> QED
          BY Zenon, <4>1, <4>2, <4>3, <4>5, <4>6
      <3> QED
        BY Zenon, <1>2, <2>1, <3>1, <3>2
    <2>3. CASE n \notin DOMAIN Blanks
      <3>1. protectWhitespace(<<n>>) = <<n>>
        BY <1>3, <2>3 DEF protectWhitespace
      <3>2. ServerPath(<<n>>) = Walk(<<n>>)
        BY <1>3, <2>3 DEF ServerPath, Unblanked
      <3> QED
        BY Zenon, <2>1, <3>1, <3>2, WalkIs
    <2> QED
      BY <2>2, <2>3
  <1>5. ASSUME NEW n \in Names, Head(todo).arg = <<n>>, Head(todo).do = "mkd"
        PROVE  Target = Append(cwd, Unblanked(n))
    <2>1. Target = Walk(<<Unblanked(n)>>)
      BY Zenon, <1>3, <1>5 DEF Target, ServerPath
    <2> QED
      BY Zenon, <2>1, WalkIs, NamesAre
  <1>6. ASSUME Head(todo).arg = <<"..">>, Head(todo).do = "mkd"
        PROVE  Target = Parent(cwd)
    <2>1. Unblanked("..") = ".."
      <3>1. ".." \notin Names /\ DOMAIN Blanks \subseteq Names
        BY Zenon, DirectoryAssumption, NamesAre
      <3> QED
        BY <3>1 DEF Unblanked
    <2>2. Target = Walk(<<Unblanked("..")>>)
      BY Zenon, <1>3, <1>6 DEF Target, ServerPath
    <2> QED
      BY Zenon, <2>1, <2>2, WalkIs
  <1>7. ASSUME NEW p \in Paths, Head(todo).arg = <<"">> \o p, Head(todo).do # "mkd"
        PROVE  Target = p
    <2>1. p \in Seq(Names)
      BY PathsAre
    <2>2. Head(<<"">> \o p) = ""
      BY <2>1, HeadOfAbsolute
    <2>3. Target = ServerPath(<<"">> \o p)
      BY Zenon, <1>7, <2>2, NamesAre DEF Target, protectWhitespace
    <2> QED
      BY Zenon, <1>2, <2>1, <2>3
  <1> QED
    BY Zenon, <1>4, <1>5, <1>6, <1>7

-----------------------------------------------------------------------------
(* Where each task begins *)

Leading == INSTANCE SequenceLemmas WITH Op <- Leads, A <- Places, B <- Tasks

LEMMA LeadingIs ==
    \A place, tasks : FoldLeft(Leads, place, tasks) = Leading!Fold(place, tasks)
  BY Zenon DEF FoldLeft, MapThenFoldSet, Max, Leading!Fold, Leading!Greatest

LEMMA LeadsType ==
    /\ \A place \in Places, task \in Tasks : Leads(place, task) \in Places
    /\ Leading!Closed
    /\ Leading!ClosedOn(WrongPlaces, Tasks) /\ Leading!ClosedOn(RightPlaces, LooseTask)
    /\ \A path \in Paths : Here(path) \in Places
  <1>1. ASSUME NEW place \in Places, NEW task \in Tasks
        PROVE  Leads(place, task) \in Places
    <2>1. place.at \in Seq(AllParts) /\ Parent(place.at) \in Seq(AllParts)
      BY ParentOfSeq DEF Places
    <2>2. task.at # None => task.at \o task.arg \in Seq(AllParts)
      <3>1. task.at # None => task.at \in Seq(AllParts)
        BY PathIsParts DEF Tasks, OptionalPath
      <3>2. task.arg \in Seq(AllParts)
        BY DEF Tasks
      <3> QED
        BY <3>1, <3>2
    <2>3. place.is \in {"known", "unknown", "wrong"}
      BY DEF Places
    <2> QED
      BY <2>1, <2>2, <2>3 DEF Leads, Places
  <1>2. Leading!Closed
    BY Zenon, <1>1 DEF Leading!Closed, Leading!ClosedOn
  <1>3. Leading!ClosedOn(WrongPlaces, Tasks)
    <2> SUFFICES ASSUME NEW place \in WrongPlaces, NEW task \in Tasks
                 PROVE  Leads(place, task) \in WrongPlaces
      BY Zenon DEF Leading!ClosedOn
    <2>1. Leads(place, task) \in Places
      BY <1>1 DEF WrongPlaces
    <2>2. Leads(place, task).is = "wrong"
      BY DEF WrongPlaces, Leads
    <2> QED
      BY <2>1, <2>2 DEF WrongPlaces
  <1>4. Leading!ClosedOn(RightPlaces, LooseTask)
    <2> SUFFICES ASSUME NEW place \in RightPlaces, NEW task \in LooseTask
                 PROVE  Leads(place, task) \in RightPlaces
      BY Zenon DEF Leading!ClosedOn
    <2>1. Leads(place, task) \in Places
      BY <1>1 DEF RightPlaces, LooseTask
    <2>2. Leads(place, task).is # "wrong"
      BY DEF RightPlaces, Leads, Belongs, LooseTask
    <2> QED
      BY <2>1, <2>2 DEF RightPlaces
  <1>5. \A path \in Paths : Here(path) \in Places
    BY PathIsParts DEF Here, Places
  <1> QED
    BY Zenon, <1>1, <1>2, <1>3, <1>4, <1>5

LEMMA VaguerIs ==
    ASSUME NEW a \in Places, NEW b \in Places
    PROVE  <<a, b>> \in Vaguer <=>
              (a.is # "wrong" =>
                  b.is # "wrong" /\ (a.is = "known" => b.is = "known" /\ a.at = b.at))
  BY DEF Vaguer

\* Tasks that begin right in a place begin right in one that is better known.
LEMMA BetterKnown ==
    ASSUME NEW a \in Places, NEW b \in Places, <<a, b>> \in Vaguer, NEW tasks \in Seq(Tasks)
    PROVE  <<Leading!Fold(a, tasks), Leading!Fold(b, tasks)>> \in Vaguer
  <1>1. ASSUME NEW c \in Places, NEW d \in Places, NEW task \in Tasks, <<c, d>> \in Vaguer
        PROVE  <<Leads(c, task), Leads(d, task)>> \in Vaguer
    <2>1. Leads(c, task) \in Places /\ Leads(d, task) \in Places
      BY LeadsType
    <2>2. CASE c.is = "wrong" \/ ~Belongs(c, task)
      <3>1. Leads(c, task).is = "wrong"
        BY <2>2 DEF Leads
      <3> QED
        BY <2>1, <3>1, VaguerIs
    <2>3. CASE c.is # "wrong" /\ Belongs(c, task)
      <3>1. d.is # "wrong" /\ (c.is = "known" => d.is = "known" /\ c.at = d.at)
        BY <1>1, <2>3, VaguerIs
      <3>2. Belongs(d, task)
        BY <2>3, <3>1 DEF Belongs
      <3>3. Leads(d, task).is # "wrong"
        BY <3>1, <3>2 DEF Leads
      <3>4. ASSUME Leads(c, task).is = "known"
            PROVE  Leads(d, task).is = "known" /\ Leads(c, task).at = Leads(d, task).at
        <4>1. \/ task.do = "cd" /\ task.at # None
              \/ c.is = "known" /\ task.do \notin {"cd", "target", "return"}
          BY <2>3, <3>4 DEF Leads
        <4> QED
          BY <2>3, <3>1, <3>2, <4>1 DEF Leads
      <3> QED
        BY <2>1, <3>3, <3>4, VaguerIs
    <2> QED
      BY <2>2, <2>3
  <1> QED
    BY Zenon, <1>1, LeadsType, Leading!FoldRelates

LEMMA WrongStays ==
    ASSUME NEW place \in Places, NEW tasks \in Seq(Tasks),
           Leading!Fold(place, tasks).is # "wrong"
    PROVE  place.is # "wrong"
  <1> SUFFICES ASSUME place.is = "wrong"
               PROVE  Leading!Fold(place, tasks).is = "wrong"
    OBVIOUS
  <1>1. place \in WrongPlaces
    BY DEF WrongPlaces
  <1>2. Leading!Fold(place, tasks) \in WrongPlaces
    BY Zenon, <1>1, LeadsType, Leading!FoldInto
  <1> QED
    BY <1>2 DEF WrongPlaces

\* The next task begins where it is meant to, and so do those after it.
LEMMA FirstTask ==
    ASSUME cwd \in Paths, todo \in Seq(Tasks), todo # <<>>, Located
    PROVE  /\ Head(todo) \in Tasks /\ Tail(todo) \in Seq(Tasks)
           /\ Belongs(Here(cwd), Head(todo))
           /\ Leads(Here(cwd), Head(todo)) \in Places
           /\ Leading!Fold(Leads(Here(cwd), Head(todo)), Tail(todo)).is # "wrong"
  <1>1. PICK h \in Tasks, rest \in Seq(Tasks) : h = Head(todo) /\ rest = Tail(todo) /\ todo = <<h>> \o rest
    BY Zenon, HeadThenTail
  <1>2. Here(cwd) \in Places /\ Leads(Here(cwd), h) \in Places
    BY LeadsType
  <1>3. Leading!Fold(Here(cwd), todo).is # "wrong"
    BY Zenon, LeadingIs DEF Located
  <1>4. <<h>> \in Seq(Tasks)
    OBVIOUS
  <1>5. Leading!Fold(Here(cwd), <<h>> \o rest) = Leading!Fold(Leading!Fold(Here(cwd), <<h>>), rest)
    BY Zenon, <1>2, <1>4, LeadsType, Leading!FoldConcat
  <1>6. Leading!Fold(Here(cwd), <<h>>) = Leads(Here(cwd), h)
    BY Zenon, <1>2, LeadsType, Leading!FoldOne
  <1>7. Leading!Fold(Leads(Here(cwd), h), rest).is # "wrong"
    BY Zenon, <1>1, <1>3, <1>5, <1>6
  <1>8. Leads(Here(cwd), h).is # "wrong"
    BY <1>2, <1>7, WrongStays
  <1>9. Belongs(Here(cwd), h)
    BY <1>8 DEF Leads
  <1> QED
    BY <1>1, <1>2, <1>7, <1>9

\* The next task may be replaced by others if they lead to where it leads.
LEMMA StaysLocated ==
    ASSUME cwd \in Paths, todo \in Seq(Tasks), todo # <<>>, Located,
           NEW path \in Paths, NEW tasks \in Seq(Tasks),
           <<Leads(Here(cwd), Head(todo)), Leading!Fold(Here(path), tasks)>> \in Vaguer
    PROVE  FoldLeft(Leads, Here(path), tasks \o Tail(todo)).is # "wrong"
  <1>1. PICK a \in Places : a = Leads(Here(cwd), Head(todo))
    BY FirstTask
  <1>2. PICK rest \in Seq(Tasks) : rest = Tail(todo)
    BY Zenon, FirstTask
  <1>3. Leading!Fold(a, rest).is # "wrong"
    BY <1>1, <1>2, FirstTask
  <1>4. PICK b \in Places : b = Leading!Fold(Here(path), tasks)
    BY Zenon, LeadsType, Leading!FoldType
  <1>5. <<Leading!Fold(a, rest), Leading!Fold(b, rest)>> \in Vaguer
    BY <1>1, <1>4, BetterKnown
  <1>6. Leading!Fold(a, rest) \in Places /\ Leading!Fold(b, rest) \in Places
    BY Zenon, LeadsType, Leading!FoldType
  <1>7. Leading!Fold(b, rest).is # "wrong"
    BY Zenon, <1>3, <1>5, <1>6, VaguerIs
  <1>8. Leading!Fold(Here(path), tasks \o rest) = Leading!Fold(b, rest)
    BY Zenon, <1>4, LeadsType, Leading!FoldConcat
  <1> QED
    BY Zenon, <1>2, <1>7, <1>8, LeadingIs

\* Tasks that are all begun and ended in a directory, one after the other.
LEMMA FlattenStays ==
    ASSUME NEW path \in Paths, NEW n \in Nat, NEW ss \in [1 .. n -> Seq(Tasks)],
           \A i \in 1 .. n : Leading!Fold(Here(path), ss[i]) = Here(path)
    PROVE  FlattenSeq(ss) \in Seq(Tasks) /\ Leading!Fold(Here(path), FlattenSeq(ss)) = Here(path)
  <1>1. PICK r \in [0 .. n -> Seq(Tasks)] : Joins(r, ss, n) /\ FlattenSeq(ss) = r[n]
    BY Zenon, FlattenIsRun
  <1> DEFINE S == {k \in 0 .. n : Leading!Fold(Here(path), r[k]) = Here(path)}
  <1>2. Here(path) \in Places
    BY LeadsType
  <1>3. 0 \in S
    <2>1. Leading!Fold(Here(path), <<>>) = Here(path)
      BY Zenon, <1>2, LeadsType, Leading!FoldEmpty
    <2> QED
      BY <1>1, <2>1 DEF Joins
  <1>4. ASSUME NEW k \in 0 .. n - 1, k \in S
        PROVE  k + 1 \in S
    <2>1. k + 1 \in 1 .. n /\ (k + 1) - 1 = k /\ k \in 0 .. n
      OBVIOUS
    <2>2. r[k + 1] = r[k] \o ss[k + 1]
      BY Zenon, <1>1, <2>1 DEF Joins
    <2>3. r[k] \in Seq(Tasks) /\ ss[k + 1] \in Seq(Tasks)
      BY <2>1
    <2>4. Leading!Fold(Here(path), r[k] \o ss[k + 1]) = Leading!Fold(Leading!Fold(Here(path), r[k]), ss[k + 1])
      BY Zenon, <1>2, <2>3, LeadsType, Leading!FoldConcat
    <2>5. Leading!Fold(Here(path), r[k]) = Here(path)
      BY <1>4
    <2>6. Leading!Fold(Here(path), ss[k + 1]) = Here(path)
      BY Zenon, <2>1
    <2>7. Leading!Fold(Here(path), r[k + 1]) = Here(path)
      BY Zenon, <2>2, <2>4, <2>5, <2>6
    <2>8. k + 1 \in 0 .. n
      OBVIOUS
    <2> QED
      BY Zenon, <2>7, <2>8
  <1>5. 0 .. n \subseteq S
    <2> HIDE DEF S
    <2> QED
      BY Zenon, <1>3, <1>4, UpTo
  <1>6. n \in 0 .. n
    OBVIOUS
  <1> QED
    BY <1>1, <1>5, <1>6

-----------------------------------------------------------------------------
(* The entries of the working directory *)

LEMMA LinesAreOwn ==
    ASSUME Listing, NEW path \in Children(remote, cwd)
    PROVE  LinesOf(path) \in OwnLines
  <1>1. path \in Paths /\ path # <<>> /\ Parent(path) = cwd /\ remote \in Trees /\ style \in Styles
    BY DEF Listing, Children
  <1>2. Last(path) \in Names /\ path = Append(cwd, Last(path))
    BY <1>1, ParentIsPath
  <1>3. <<Last(path)>> \in FileName /\ Absolute(LinkTarget) \in FileName /\ LinkTarget \in Paths
    BY Zenon, <1>1, PathIsName, LinkIsName
  <1> DEFINE kind == IF remote[path] \in FileKinds THEN "file" ELSE remote[path]
             name == <<Last(path)>>
             target == Absolute(LinkTarget)
             link == IF kind = "link" THEN target ELSE None
  <1>4. kind \in {"none", "file", "dir", "link", "special", "device"}
    BY <1>1 DEF Trees
  <1>5. name \in FileName /\ target \in FileName /\ link \in OptionalName
    BY <1>3 DEF OptionalName
  <1>6. /\ None \in OptionalName /\ None \in OptionalPath
        /\ path \in OptionalPath /\ LinkTarget \in OptionalPath
    BY <1>1, <1>3 DEF OptionalName, OptionalPath
  <1>7. NamesOwn(name, kind = "dir")
    <2>1. kind = "dir" => remote[path] = "dir"
      BY DEF FileKinds
    <2>2. kind = "dir" => Kind(remote, Append(cwd, Last(path))) # "link"
      BY Zenon, <1>1, <1>2, <2>1 DEF Kind
    <2> QED
      BY <1>2, <2>2 DEF NamesOwn
  <1>8. NamesOwn(name, FALSE)
    BY <1>2 DEF NamesOwn
  <1>9. Len(target) # 1
    BY <1>3, AbsoluteIs
  <1>10. /\ Line("unix", kind, name, link, None) \in OwnLine
         /\ kind = "link" => Line("mlsd", "slink", name, link, path) \in OwnLine
         /\ kind = "link" => Line("mlsd", "symlink", name, None, LinkTarget) \in OwnLine
         /\ Line("mlsd", "dir", target, None, LinkTarget) \in OwnLine
         /\ Line("mlsd", kind, name, None, path) \in OwnLine
         /\ style \in {"dos", "other"} => Line(style, kind, name, None, None) \in OwnLine
    <2> HIDE DEF kind, name, target, link
    <2>1. Line("unix", kind, name, link, None) \in OwnLine
      BY Zenon, <1>4, <1>5, <1>6, <1>7 DEF Line, ListedLine, OwnLine
    <2>2. Line("mlsd", "slink", name, link, path) \in OwnLine
      BY Zenon, <1>4, <1>5, <1>6, <1>8 DEF Line, ListedLine, OwnLine
    <2>3. Line("mlsd", "symlink", name, None, LinkTarget) \in OwnLine
      BY Zenon, <1>4, <1>5, <1>6, <1>8 DEF Line, ListedLine, OwnLine
    <2>4. Line("mlsd", "dir", target, None, LinkTarget) \in OwnLine
      BY Zenon, <1>4, <1>5, <1>6, <1>9 DEF Line, ListedLine, OwnLine
    <2>5. Line("mlsd", kind, name, None, path) \in OwnLine
      BY Zenon, <1>4, <1>5, <1>6, <1>7 DEF Line, ListedLine, OwnLine
    <2>6. style \in {"dos", "other"} => Line(style, kind, name, None, None) \in OwnLine
      BY Zenon, <1>4, <1>5, <1>6, <1>7 DEF Line, ListedLine, OwnLine
    <2> QED
      BY <2>1, <2>2, <2>3, <2>4, <2>5, <2>6
  <1>11. LinesOf(path) =
            CASE style = "unix" -> <<Line("unix", kind, name, link, None)>>
              [] style = "slink" /\ kind = "link" -> <<Line("mlsd", "slink", name, link, path)>>
              [] style = "symlink" /\ kind = "link" ->
                    <<Line("mlsd", "symlink", name, None, LinkTarget),
                      Line("mlsd", "dir", target, None, LinkTarget)>>
              [] style \in {"slink", "symlink"} /\ kind # "link" -> <<Line("mlsd", kind, name, None, path)>>
              [] OTHER -> <<Line(style, kind, name, None, None)>>
    BY Zenon DEF LinesOf
  <1> HIDE DEF kind, name, target, link
  <1>12. CASE style = "unix"
    BY <1>10, <1>11, <1>12 DEF OwnLines
  <1>13. CASE style \in {"slink", "symlink"} /\ kind = "link"
    BY <1>10, <1>11, <1>13 DEF OwnLines
  <1>14. CASE style \in {"slink", "symlink"} /\ kind # "link"
    BY <1>10, <1>11, <1>14 DEF OwnLines
  <1>15. CASE style \in {"dos", "other"}
    BY <1>10, <1>11, <1>15 DEF OwnLines
  <1> QED
    BY <1>1, <1>12, <1>13, <1>14, <1>15 DEF Styles

LEMMA ListedIsOwn ==
    ASSUME Listing
    PROVE  Listed(cwd) \in OwnLines
  <1> DEFINE entries == SetToSeq(Children(remote, cwd))
             head == CASE style = "unix" ->
                        <<Line("total", "none", <<"total">>, None, None),
                          Line("unix", "dir", <<".">>, None, None),
                          Line("unix", "dir", <<"..">>, None, None)>>
                       [] style \in {"slink", "symlink"} ->
                        <<Line("mlsd", "cdir", Absolute(cwd), None, cwd),
                          Line("mlsd", "pdir", <<"..">>, None, Parent(cwd))>>
                       [] OTHER -> <<>>
             lines == [i \in 1 .. Len(entries) |-> LinesOf(entries[i])]
  <1>1. Listed(cwd) = head \o FlattenSeq(lines)
    BY Zenon DEF Listed
  <1>2. head \in OwnLines
    <2>1. /\ Line("total", "none", <<"total">>, None, None) \in OwnLine
          /\ Line("unix", "dir", <<".">>, None, None) \in OwnLine
          /\ Line("unix", "dir", <<"..">>, None, None) \in OwnLine
          /\ Line("mlsd", "cdir", Absolute(cwd), None, cwd) \in OwnLine
          /\ Line("mlsd", "pdir", <<"..">>, None, Parent(cwd)) \in OwnLine
      <3>1. cwd \in Paths
        BY DEF Listing
      <3>2. /\ Line("total", "none", <<"total">>, None, None) \in ListedLine
            /\ Line("unix", "dir", <<".">>, None, None) \in ListedLine
            /\ Line("unix", "dir", <<"..">>, None, None) \in ListedLine
            /\ Line("mlsd", "cdir", Absolute(cwd), None, cwd) \in ListedLine
            /\ Line("mlsd", "pdir", <<"..">>, None, Parent(cwd)) \in ListedLine
        BY Zenon, <3>1, NamesOfDots, AbsoluteIs, ParentIsPath DEF Line, ListedLine, OptionalName, OptionalPath
      <3> QED
        BY Zenon, <3>2 DEF OwnLine, Line
    <2>2. \A a, b, c \in OwnLine : <<a, b, c>> \in OwnLines /\ <<a, b>> \in OwnLines
      BY DEF OwnLines
    <2>3. <<>> \in OwnLines
      BY DEF OwnLines
    <2>4. CASE style = "unix"
      BY Zenon, <2>1, <2>2, <2>4
    <2>5. CASE style \in {"slink", "symlink"}
      BY Zenon, <2>1, <2>2, <2>5
    <2>6. CASE style \in {"dos", "other"}
      BY <2>3, <2>6
    <2> QED
      BY <2>4, <2>5, <2>6 DEF Listing, Styles
  <1>3. FlattenSeq(lines) \in OwnLines
    <2>1. Len(entries) \in Nat /\ \A i \in 1 .. Len(entries) : entries[i] \in Children(remote, cwd)
      BY ForChildren
    <2> HIDE DEF entries
    <2>2. lines \in [1 .. Len(entries) -> OwnLines]
      BY <2>1, LinesAreOwn
    <2> HIDE DEF lines
    <2> QED
      BY <2>1, <2>2, FlattenType DEF OwnLines
  <1> HIDE DEF head, lines
  <1> QED
    BY <1>1, <1>2, <1>3 DEF OwnLines

LEMMA EntriesAreOwn ==
    ASSUME NEW lines \in OwnLines
    PROVE  Entries(lines) \in OwnEntries
  <1>1. Choosing!ClosedOn(OwnEntries, OwnLine)
    <2> SUFFICES ASSUME NEW kept \in OwnEntries, NEW line \in OwnLine
                 PROVE  KeepEntry(kept, line) \in OwnEntries
      BY Zenon DEF Choosing!ClosedOn
    <2>1. IsEntry(line) => line \in OwnEntry
      BY DEF IsEntry, OwnEntry
    <2>2. line \in OwnEntry => Append(kept, line) \in OwnEntries
      BY DEF OwnEntries
    <2> QED
      BY <2>1, <2>2 DEF KeepEntry
  <1>2. <<>> \in OwnEntries /\ lines \in Seq(OwnLine)
    BY DEF OwnEntries, OwnLines
  <1>3. Choosing!Fold(<<>>, lines) \in OwnEntries
    BY Zenon, <1>1, <1>2, Choosing!FoldInto
  <1>4. FoldLeft(KeepEntry, <<>>, lines) = Choosing!Fold(<<>>, lines)
    BY Zenon DEF FoldLeft, MapThenFoldSet, Max, Choosing!Fold, Choosing!Greatest
  <1> QED
    BY Zenon, <1>3, <1>4 DEF Entries

\* What a parser reads from a line: something in the working directory or,
\* where such entries are left out later, the target of a link.
LEMMA ParsedIsOwn ==
    ASSUME Listing, NEW parser \in availableParsers, NEW line \in OwnEntry
    PROVE  parseLine(parser, line) \in
               Seq(IF parser = "mlsd" THEN OwnOrTarget ELSE OwnFile)
  <1> DEFINE name == IF parser = "dos" THEN <<Unblanked(line.name[1])>> ELSE line.name
             file == [name |-> name, type |-> FileType(parser, line.kind),
                      link |-> line.link, uniqueID |-> line.id]
             Read == IF parser = "mlsd" THEN OwnOrTarget ELSE OwnFile
             skipped == \/ parser # "mlsd" /\ ~testLine(parser, line)
                        \/ line.name \in {<<".">>, <<"..">>}
                        \/ parser = "mlsd" /\ (line.name = <<"">> \/ line.kind \in {"cdir", "pdir"})
  <1>1. parseLine(parser, line) = IF skipped THEN <<>> ELSE <<file>>
    BY Zenon DEF parseLine
  <1>2. line \in ListedLine /\ line \in OwnLine /\ line.format # "total"
    BY Zenon DEF OwnEntry, OwnLine
  <1>3. ASSUME ~skipped
        PROVE  file \in Read
    <2>1. parseLine(parser, line) \in FileList
      BY <1>2, ParseLineType
    <2>2. <<file>> \in Seq(File)
      BY Zenon, <1>1, <1>3, <2>1 DEF FileList
    <2>3. file \in File
      <3> HIDE DEF file
      <3>1. <<file>>[1] = file /\ Len(<<file>>) = 1
        OBVIOUS
      <3> QED
        BY <2>2, <3>1
    <2>4. CASE NamesOwn(line.name, line.kind = "dir") /\ (line.format = "dos" => style = "dos")
      <3>1. PICK n \in Names : line.name = <<n>> /\ (line.kind = "dir" => Kind(remote, Append(cwd, n)) # "link")
        BY <2>4 DEF NamesOwn
      <3>2. isDirectory(file) <=> line.kind = "dir"
        BY DEF isDirectory, FileType
      <3>3. NamesOwn(name, line.kind = "dir")
        <4>1. CASE parser = "dos"
          <5>1. style = "dos"
            BY <1>3, <2>4, <4>1 DEF testLine
          <5>2. \A p : Kind(remote, p) # "link"
            BY <5>1 DEF Listing, DosIsPlain, Kind
          <5>3. name = <<Unblanked(n)>>
            BY <3>1, <4>1
          <5>4. Unblanked(n) \in Names
            BY Zenon, NamesAre
          <5> HIDE DEF name
          <5> QED
            BY <5>2, <5>3, <5>4 DEF NamesOwn
        <4>2. CASE parser # "dos"
          BY <2>4, <4>2
        <4> QED
          BY <4>1, <4>2
      <3>4. file \in OwnFile
        <4>1. file.name = name
          OBVIOUS
        <4> HIDE DEF name, file
        <4> QED
          BY Zenon, <2>3, <3>2, <3>3, <4>1 DEF OwnFile, NamesOwn
      <3> QED
        BY <3>4 DEF OwnOrTarget
    <2>5. CASE line.format = "mlsd" /\ (line.kind \in {"cdir", "pdir"} \/ line.name = <<"">> \/ Len(line.name) # 1)
      <3>1. parser = "mlsd"
        BY Zenon, <1>3, <2>5 DEF testLine
      <3>2. Len(line.name) # 1
        BY Zenon, <1>3, <2>5, <3>1
      <3>3. file.name = line.name
        BY <3>1
      <3> HIDE DEF file
      <3> QED
        BY <2>3, <3>1, <3>2, <3>3 DEF OwnOrTarget
    <2> QED
      BY Zenon, <1>2, <1>3, <2>4, <2>5 DEF OwnLine
  <1> HIDE DEF file, skipped, Read
  <1>4. parseLine(parser, line) \in Seq(Read)
    <2>1. file \in Read => <<file>> \in Seq(Read)
      OBVIOUS
    <2>2. <<>> \in Seq(Read)
      OBVIOUS
    <2> QED
      BY Zenon, <1>1, <1>3, <2>1, <2>2
  <1> QED
    BY Zenon, <1>4 DEF Read

LEMMA ResolvedKeeps ==
    ASSUME NEW files \in FileList, NEW file \in File
    PROVE  /\ Resolved(file, files) \in File
           /\ Resolved(file, files).name = file.name /\ Resolved(file, files).type = file.type
  <1>1. Resolved(file, files) \in File
    BY ResolvedType
  <1>2. \A name : [file EXCEPT !.link = name].name = file.name /\ [file EXCEPT !.link = name].type = file.type
    BY DEF File
  <1> DEFINE other == files[Max(Targets(file, files))].name
  <1>3. Resolved(file, files) = [file EXCEPT !.link = other] \/ Resolved(file, files) = file
    BY Zenon DEF Resolved
  <1> HIDE DEF other
  <1> QED
    BY Zenon, <1>1, <1>2, <1>3

LEMMA TransformedIsOwn ==
    ASSUME NEW parser,
           NEW files \in Seq(IF parser = "mlsd" THEN OwnOrTarget ELSE OwnFile)
    PROVE  transformList(parser, files) \in OwnFiles
  <1>1. CASE parser # "mlsd"
    BY <1>1 DEF transformList, OwnFiles
  <1>2. CASE parser = "mlsd"
    <2> DEFINE resolved == [i \in 1 .. Len(files) |-> Resolved(files[i], files)]
    <2>1. files \in Seq(OwnOrTarget)
      BY <1>2
    <2>2. OwnOrTarget \subseteq File
      BY DEF OwnOrTarget, OwnFile
    <2>3. files \in FileList
      BY <2>1, <2>2, SeqOfMore DEF FileList
    <2>4. Len(files) \in Nat /\ \A i \in 1 .. Len(files) : files[i] \in OwnOrTarget
      BY <2>1
    <2>5. ASSUME NEW file \in OwnOrTarget
          PROVE  Resolved(file, files) \in OwnOrTarget
      <3>1. file \in File
        BY <2>2
      <3>2. /\ Resolved(file, files) \in File
            /\ Resolved(file, files).name = file.name /\ Resolved(file, files).type = file.type
        BY Zenon, <2>3, <3>1, ResolvedKeeps
      <3>3. isDirectory(Resolved(file, files)) <=> isDirectory(file)
        BY Zenon, <3>2 DEF isDirectory
      <3>4. CASE file \in OwnFile
        <4>1. NamesOwn(Resolved(file, files).name, isDirectory(Resolved(file, files)))
          BY Zenon, <3>2, <3>3, <3>4 DEF OwnFile, NamesOwn
        <4> QED
          BY Zenon, <3>2, <4>1 DEF OwnFile, OwnOrTarget
      <3>5. CASE Len(file.name) # 1
        BY Zenon, <3>2, <3>5 DEF OwnOrTarget
      <3> QED
        BY <3>4, <3>5 DEF OwnOrTarget
    <2>6. resolved \in Seq(OwnOrTarget)
      BY <2>4, <2>5
    <2> HIDE DEF resolved
    <2>7. Owning!ClosedOn(OwnFiles, OwnOrTarget)
      <3> SUFFICES ASSUME NEW kept \in OwnFiles, NEW file \in OwnOrTarget
                   PROVE  KeepOwn(kept, file) \in OwnFiles
        BY Zenon DEF Owning!ClosedOn
      <3>1. Len(file.name) = 1 => file \in OwnFile
        BY DEF OwnOrTarget
      <3>2. file \in OwnFile => Append(kept, file) \in OwnFiles
        BY DEF OwnFiles
      <3> QED
        BY <3>1, <3>2 DEF KeepOwn
    <2>8. <<>> \in OwnFiles
      BY DEF OwnFiles
    <2>9. Owning!Fold(<<>>, resolved) \in OwnFiles
      BY Zenon, <2>6, <2>7, <2>8, Owning!FoldInto
    <2>10. FoldLeft(KeepOwn, <<>>, resolved) = Owning!Fold(<<>>, resolved)
      BY Zenon DEF FoldLeft, MapThenFoldSet, Max, Owning!Fold, Owning!Greatest
    <2> QED
      BY Zenon, <1>2, <2>9, <2>10 DEF transformList, resolved
  <1> QED
    BY <1>1, <1>2

\* What list() returns has the names of entries of the working directory, and
\* no link is among its directories.
LEMMA FilesAreOwn ==
    ASSUME Listing, Understood(Listed(cwd))
    PROVE  Files \in OwnFiles
  <1> DEFINE entries == Entries(Listed(cwd))
             parser == CHOOSE p \in availableParsers : testLine(p, Last(entries))
             read == [i \in 1 .. Len(entries) |-> parseLine(parser, entries[i])]
             Read == IF parser = "mlsd" THEN OwnOrTarget ELSE OwnFile
             ReadList == Seq(Read)
  <1>1. entries \in OwnEntries
    BY ListedIsOwn, EntriesAreOwn
  <1>2. Len(entries) \in Nat /\ \A i \in 1 .. Len(entries) : entries[i] \in OwnEntry
    BY <1>1 DEF OwnEntries
  <1>3. Files = IF entries = <<>> THEN <<>> ELSE transformList(parser, FlattenSeq(read))
    BY Zenon DEF Files, parseList
  <1>4. CASE entries # <<>>
    <2>1. \E p \in availableParsers : testLine(p, Last(entries))
      BY <1>4 DEF Understood, testLine
    <2>2. parser \in availableParsers
      BY <2>1
    <2> HIDE DEF entries, parser
    <2>3. \A i \in 1 .. Len(entries) : parseLine(parser, entries[i]) \in ReadList
      BY Zenon, <1>2, <2>2, ParsedIsOwn
    <2> HIDE DEF ReadList
    <2>4. read \in [1 .. Len(entries) -> ReadList]
      BY <2>3
    <2> HIDE DEF read
    <2>5. FlattenSeq(read) \in ReadList
      <3> USE DEF ReadList
      <3> QED
        BY Zenon, <1>2, <2>4, FlattenType
    <2>6. transformList(parser, FlattenSeq(read)) \in OwnFiles
      BY Zenon, <2>5, TransformedIsOwn DEF ReadList, Read
    <2> QED
      BY <1>3, <1>4, <2>6
  <1>5. CASE entries = <<>>
    BY <1>3, <1>5 DEF OwnFiles
  <1> QED
    BY <1>4, <1>5

-----------------------------------------------------------------------------
(* What keeps an operation in its place *)

LEMMA NoneIsNoPath == \A p \in Paths : p # None
  BY Zenon, DirectoryAssumption

LEMMA SoundAreTasks ==
    /\ SoundTask \subseteq Tasks /\ StraightTask \subseteq Tasks
    /\ \A s : s \in SoundTasks \/ s \in StraightTasks => s \in Seq(Tasks)
  <1>1. SoundTask \subseteq Tasks /\ StraightTask \subseteq Tasks
    BY DEF SoundTask, StraightTask
  <1> QED
    BY <1>1, SeqOfMore DEF SoundTasks, StraightTasks

LEMMA CommandIs ==
    /\ \A what \in Commands \ {"cdup", "rmd"}, arg \in Seq(AllParts) :
          /\ Command(what, arg) \in LooseTask
          /\ Command(what, arg).do = what /\ Command(what, arg).arg = arg
          /\ Command(what, arg).file = <<>>
    /\ \A what \in {"pwd", "return"} :
          Command(what, <<>>) \in LooseTask /\ Command(what, <<>>).do = what
  <1>1. ASSUME NEW what \in Commands \ {"cdup", "rmd"}, NEW arg \in Seq(AllParts)
        PROVE  /\ Command(what, arg) \in LooseTask
               /\ Command(what, arg).do = what /\ Command(what, arg).arg = arg
               /\ Command(what, arg).file = <<>>
    <2>1. Command(what, arg) \in Tasks
      BY TaskType, InnerAreTasks
    <2> QED
      BY <2>1 DEF Command, Task, LooseTask, Commands
  <1>2. ASSUME NEW what \in {"pwd", "return"}
        PROVE  Command(what, <<>>) \in LooseTask /\ Command(what, <<>>).do = what
    <2>1. None \in OptionalPath /\ <<>> \in Seq(AllParts)
      BY PathIsParts
    <2> QED
      BY <2>1 DEF Command, Task, Tasks, LooseTask
  <1> QED
    BY Zenon, <1>1, <1>2

LEMMA CommandsOpen == \A what \in {"cd", "mkd"} : what \in Commands \ {"cdup", "rmd"}
  BY DEF Commands

LEMMA OpenCommands ==
    ASSUME NEW arg \in Seq(AllParts)
    PROVE  /\ Command("cd", arg) \in OpenTask
           /\ OpensOne(arg) => Command("mkd", arg) \in OpenTask
  <1>1. ASSUME NEW what \in {"cd", "mkd"}, what = "mkd" => OpensOne(arg)
        PROVE  Command(what, arg) \in OpenTask
    <2>1. /\ Command(what, arg) \in LooseTask
          /\ Command(what, arg).do = what /\ Command(what, arg).arg = arg
      BY Zenon, CommandsOpen, CommandIs
    <2> QED
      BY Zenon, <1>1, <2>1 DEF OpenTask
  <1> QED
    BY <1>1

LEMMA TwoMore == \A S : \A a, b \in S, t \in Seq(S) : t \o <<a, b>> \in Seq(S)
  OBVIOUS

LEMMA EnsureDirOpens ==
    ASSUME NEW arg \in Seq(Parts)
    PROVE  ensureDir(arg) \in OpenTasks
  <1>1. Opening!ClosedOn(OpenTasks, Parts)
    <2> SUFFICES ASSUME NEW tasks \in OpenTasks, NEW name \in Parts, name # ""
                 PROVE  tasks \o <<Command("mkd", <<name>>), Command("cd", <<name>>)>> \in OpenTasks
      BY Zenon DEF Opening!ClosedOn, OpenDir
    <2>1. <<name>> \in Seq(AllParts)
      <3>1. name \in AllParts
        BY Zenon DEF AllParts
      <3> QED
        BY Zenon, <3>1, PathIsParts
    <2>2. OpensOne(<<name>>)
      BY Zenon DEF Parts, OpensOne
    <2>3. Command("mkd", <<name>>) \in OpenTask /\ Command("cd", <<name>>) \in OpenTask
      BY Zenon, <2>1, <2>2, OpenCommands
    <2>4. \A a, b \in OpenTask, t \in OpenTasks : t \o <<a, b>> \in OpenTasks
      BY Zenon, TwoMore DEF OpenTasks
    <2> QED
      BY Zenon, <2>3, <2>4
  <1> DEFINE first == IF Head(arg) = "" THEN <<Command("cd", <<"", "">>)>> ELSE <<>>
  <1>2. first \in OpenTasks
    <2>1. PICK x \in AllParts : x = ""
      BY Zenon DEF AllParts, Parts
    <2>2. <<x, x>> \in Seq(AllParts)
      OBVIOUS
    <2>3. Command("cd", <<"", "">>) \in OpenTask
      BY Zenon, <2>1, <2>2, OpenCommands
    <2>4. <<>> \in OpenTasks /\ \A task \in OpenTask : <<task>> \in OpenTasks
      BY DEF OpenTasks
    <2> QED
      BY Zenon, <2>3, <2>4
  <1> HIDE DEF first
  <1>3. Opening!Fold(first, arg) \in OpenTasks
    BY Zenon, <1>1, <1>2, Opening!FoldInto
  <1>4. FoldLeft(OpenDir, first, arg) = Opening!Fold(first, arg)
    BY Zenon DEF FoldLeft, MapThenFoldSet, Max, Opening!Fold, Opening!Greatest
  <1> QED
    BY Zenon, <1>3, <1>4 DEF ensureDir, first

LEMMA PlanIsPlanned ==
    ASSUME NEW o \in Operations
    PROVE  Plan(o) \in Seq(Planned(o))
  <1>1. o.name \in OperationNames /\ o.arg \in Seq(Parts) /\ o.arg \in Seq(AllParts) /\ <<>> \in Seq(AllParts)
    BY OperationsAre, PathIsParts
  <1> DEFINE P == Planned(o)
  <1>2. /\ \A what \in {"cd", "dele", "clear", "download"} :
              Command(what, o.arg) \in P /\ Command(what, <<>>) \in P
        /\ Command("pwd", <<>>) \in P /\ Command("return", <<>>) \in P
        /\ o.name = "uploadFromDir" => Command("upload", <<>>) \in P
        /\ o.name = "removeDir" => Command("target", <<>>) \in P
    <2>1. ASSUME NEW what \in {"cd", "dele", "clear", "download"}, NEW arg \in Seq(AllParts)
          PROVE  Command(what, arg) \in P
      BY CommandIs DEF Commands, Planned
    <2>2. Command("pwd", <<>>) \in P /\ Command("return", <<>>) \in P
      BY CommandIs DEF Planned
    <2>3. /\ o.name = "uploadFromDir" => Command("upload", <<>>) \in P
          /\ o.name = "removeDir" => Command("target", <<>>) \in P
      <3>1. \A what \in {"upload", "target"} :
                Command(what, <<>>) \in LooseTask /\ Command(what, <<>>).do = what
        BY <1>1, CommandIs DEF Commands
      <3> QED
        BY <3>1 DEF Planned
    <2> QED
      BY Zenon, <1>1, <2>1, <2>2, <2>3
  <1>3. ensureDir(o.arg) \in Seq(P)
    <2>1. OpenTask \subseteq P
      BY DEF OpenTask, Planned
    <2> QED
      BY <1>1, <2>1, EnsureDirOpens, SeqOfMore DEF OpenTasks
  <1> HIDE DEF P
  <1>4. ASSUME NEW inner \in Seq(P)
        PROVE  Excursion(inner) \in Seq(P)
    <2>1. PICK a \in P, b \in P : a = Command("pwd", <<>>) /\ b = Command("return", <<>>)
      BY <1>2
    <2>2. (<<a>> \o inner) \o <<b>> \in Seq(P)
      OBVIOUS
    <2> QED
      BY Zenon, <2>1, <2>2 DEF Excursion
  <1>5. /\ <<>> \in Seq(P) /\ \A a \in P : <<a>> \in Seq(P)
        /\ \A a, b \in P : <<a, b>> \in Seq(P)
        /\ \A s, t \in Seq(P) : s \o t \in Seq(P)
    OBVIOUS
  <1>6. CASE o.name = "removeDir"
    <2>1. <<Command("cd", o.arg), Command("target", <<>>)>> \in Seq(P)
      BY <1>2, <1>5, <1>6
    <2>2. Plan(o) = Excursion(<<Command("cd", o.arg), Command("target", <<>>)>>)
      BY <1>6 DEF Plan
    <2> QED
      BY Zenon, <1>4, <2>1, <2>2 DEF P
  <1>7. CASE o.name = "uploadFromDir"
    <2> DEFINE inner == (IF o.arg = <<>> THEN <<>> ELSE ensureDir(o.arg)) \o <<Command("upload", <<>>)>>
    <2>1. inner \in Seq(P)
      BY Zenon, <1>2, <1>3, <1>5, <1>7
    <2>2. Plan(o) = Excursion(inner)
      BY <1>7 DEF Plan
    <2> QED
      BY Zenon, <1>4, <2>1, <2>2 DEF P
  <1>8. CASE o.name = "downloadToDir"
    <2> DEFINE inner == (IF o.arg = <<>> THEN <<>> ELSE <<Command("cd", o.arg)>>) \o <<Command("download", <<>>)>>
    <2>1. inner \in Seq(P)
      <3>1. Command("cd", o.arg) \in P /\ Command("download", <<>>) \in P
        BY <1>2
      <3> QED
        BY Zenon, <1>5, <3>1
    <2>2. Plan(o) = Excursion(inner)
      BY <1>8 DEF Plan
    <2> QED
      BY Zenon, <1>4, <2>1, <2>2 DEF P
  <1>9. CASE o.name = "ensureDir"
    BY <1>3, <1>9 DEF Plan, P
  <1>10. CASE o.name \in {"clearWorkingDir", "cd", "remove"}
    <2>1. Plan(o) \in {<<Command("clear", <<>>)>>, <<Command("cd", o.arg)>>, <<Command("dele", o.arg)>>}
      BY <1>10 DEF Plan
    <2> QED
      BY Zenon, <1>2, <1>5, <2>1 DEF P
  <1> QED
    BY <1>1, <1>6, <1>7, <1>8, <1>9, <1>10 DEF OperationNames

-----------------------------------------------------------------------------
(* The server's tree *)

LEMMA AppendIsNew ==
    ASSUME NEW path \in Seq(Names), NEW n \in Names
    PROVE  Append(path, n) # path /\ Append(path, n) # <<>> /\ Parent(Append(path, n)) = path
  <1>1. Len(Append(path, n)) = Len(path) + 1 /\ Len(path) \in Nat
    OBVIOUS
  <1>2. Len(path) + 1 # Len(path)
    BY <1>1
  <1>3. Append(path, n) # path
    BY <1>1, <1>2
  <1> QED
    BY Zenon, <1>3, ParentOfSeq

\* The target of a command for an entry is in the working directory.
LEMMA EntryIsInside ==
    ASSUME cwd \in Paths, Head(todo) \in SoundTask, Head(todo).at # None
    PROVE  /\ Target # cwd /\ Target # <<>> /\ Parent(Target) = cwd
           /\ Head(todo).do # "mkd" => \E n \in Names : Head(todo).arg = <<n>> /\ Target = Append(cwd, n)
  <1>1. PICK n \in Names : Head(todo).arg = <<n>>
    BY DEF SoundTask
  <1>2. cwd \in Seq(Names) /\ Unblanked(n) \in Names
    BY Zenon, PathsAre, NamesAre
  <1>3. CASE Head(todo).do # "mkd"
    <2>1. Target = Append(cwd, n)
      BY Zenon, <1>1, <1>3, TargetIs
    <2> QED
      BY <1>1, <1>2, <1>3, <2>1, AppendIsNew
  <1>4. CASE Head(todo).do = "mkd"
    <2>1. Target = Append(cwd, Unblanked(n))
      BY Zenon, <1>1, <1>4, TargetIs
    <2> QED
      BY <1>2, <1>4, <2>1, AppendIsNew
  <1> QED
    BY <1>3, <1>4

LEMMA NextIsSound ==
    ASSUME Based, todo # <<>>
    PROVE  /\ todo \in Seq(Tasks) /\ cwd \in Paths /\ remote \in Trees /\ local \in Trees
           /\ Head(todo) \in SoundTask /\ Head(todo) \in Tasks
           /\ Tail(todo) \in SoundTasks /\ remote[cwd] = "dir"
  <1>1. todo \in Seq(SoundTask)
    BY DEF Based, SoundTasks
  <1>2. Head(todo) \in SoundTask /\ Tail(todo) \in Seq(SoundTask)
    BY <1>1, HeadThenTail
  <1> QED
    BY <1>2, SoundAreTasks DEF Based, HomeInv, Placed, SoundTasks, Kind

LEMMA RemoteChanges ==
    ASSUME Based, NEW v, v # "link", Target \in Paths, Target # <<>>,
           v # "none" => remote[Parent(Target)] = "dir",
           \/ remote[Target] # "dir"
           \/ Children(remote, Target) = {} /\ Target # cwd /\ v = "none",
           remote' = [remote EXCEPT ![Target] = v]
    PROVE  RemoteChange
  <1>1. remote \in Trees /\ cwd \in Paths /\ IsTree(remote) /\ remote[cwd] = "dir"
    BY DEF Based, HomeInv, Placed, Kind
  <1>2. PICK t \in Paths : t = Target
    OBVIOUS
  <1>3. /\ t # <<>> /\ (v # "none" => remote[Parent(t)] = "dir")
        /\ remote[t] # "dir" \/ (Children(remote, t) = {} /\ t # cwd /\ v = "none")
        /\ \A p \in Paths : remote'[p] = IF p = t THEN v ELSE remote[p]
    BY <1>1, <1>2 DEF Trees
  <1>4. <<>> \in Paths /\ \A p \in Paths : Parent(p) \in Paths
    BY ParentIsPath
  <1>5. remote'[cwd] = "dir" /\ remote'[<<>>] = "dir"
    BY <1>1, <1>3, <1>4 DEF IsTree, InDirectories
  <1>6. ASSUME NEW p \in Paths, remote'[p] # "none"
        PROVE  remote'[Parent(p)] = "dir"
    <2>1. remote[Parent(p)] = "dir"
      BY <1>1, <1>3, <1>6 DEF IsTree, InDirectories, Parent
    <2>2. CASE Parent(p) # t
      BY <1>3, <1>4, <2>1, <2>2
    <2>3. CASE Parent(p) = t
      <3>1. Children(remote, t) = {} /\ v = "none"
        BY <1>3, <2>1, <2>3
      <3>2. p # t /\ p # <<>> /\ remote[p] # "none"
        BY <1>3, <1>6, <2>3, <3>1 DEF Parent
      <3>3. p \in Children(remote, t)
        BY <2>3, <3>2 DEF Children
      <3> QED
        BY <3>1, <3>3
    <2> QED
      BY <2>2, <2>3
  <1>7. IsTree(remote')
    BY <1>5, <1>6 DEF IsTree, InDirectories
  <1>8. \A p \in Paths : remote'[p] = "link" => remote[p] = "link"
    BY <1>3
  <1> QED
    BY <1>5, <1>7, <1>8 DEF RemoteChange

LEMMA RemoteUnchanged ==
    ASSUME Based, remote' = remote
    PROVE  RemoteChange
  BY DEF RemoteChange, Based

LEMMA CommandsChangeRemote ==
    ASSUME Based, op.name # "uploadFromDir" => Sited,
           \/ MakesDirectory \/ RemovesFile \/ RemovesDirectory \/ Stores
    PROVE  RemoteChange /\ cwd' = cwd
  <1>1. CASE MakesDirectory
    <2>1. /\ Target \in Paths /\ remote[Target] = "none" /\ remote[Parent(Target)] = "dir"
          /\ remote' = [remote EXCEPT ![Target] = "dir"] /\ cwd' = cwd
      <3>1. Kind(remote, Parent(Target)) = "dir" => remote[Parent(Target)] = "dir"
        BY DEF Kind
      <3> QED
        BY <1>1, <3>1 DEF MakesDirectory, Kind
    <2>2. Target # <<>>
      BY <2>1 DEF Based, IsTree, InDirectories
    <2> QED
      BY Zenon, <2>1, <2>2, RemoteChanges
  <1>2. CASE RemovesFile
    <2>1. /\ Target \in Paths /\ remote[Target] # "dir"
          /\ remote' = [remote EXCEPT ![Target] = "none"] /\ cwd' = cwd
      BY <1>2 DEF RemovesFile, Kind
    <2>2. Target # <<>>
      BY <2>1 DEF Based, IsTree, InDirectories
    <2> QED
      BY Zenon, <2>1, <2>2, RemoteChanges
  <1>3. CASE RemovesDirectory
    <2>1. /\ Target \in Paths /\ Target # <<>> /\ Children(remote, Target) = {}
          /\ remote' = [remote EXCEPT ![Target] = "none"] /\ cwd' = cwd
          /\ todo # <<>> /\ Head(todo).do = "rmd"
      BY <1>3 DEF RemovesDirectory, Kind, Done, Replaced, IsNext
    <2>2. Head(todo) \in SoundTask /\ cwd \in Paths /\ todo \in Seq(Tasks)
      BY <2>1, NextIsSound
    <2>3. CASE Head(todo).at # None
      <3>1. Target # cwd
        BY <2>2, <2>3, EntryIsInside
      <3> QED
        BY Zenon, <2>1, <3>1, RemoteChanges
    <2>4. CASE Head(todo).at = None
      <3>1. op.name = "removeDir"
        BY <2>1, <2>2, <2>4 DEF SoundTask
      <3>2. Located
        BY <3>1 DEF Sited
      <3>3. Belongs(Here(cwd), Head(todo))
        BY <2>1, <2>2, <3>2, FirstTask
      <3>4. PICK p \in Paths \ {<<>>} : Head(todo).arg = <<"">> \o p /\ cwd = Parent(p)
        BY Zenon, <2>1, <2>4, <3>3 DEF Belongs, FromParent, Here
      <3>5. Target = p
        BY Zenon, <2>1, <2>2, <3>4, TargetIs
      <3>6. p = Append(cwd, Last(p)) /\ Last(p) \in Names /\ cwd \in Seq(Names)
        BY Zenon, <2>2, <3>4, ParentIsPath, PathsAre
      <3>7. Target # cwd
        BY <3>5, <3>6, AppendIsNew
      <3> QED
        BY Zenon, <2>1, <3>7, RemoteChanges
    <2> QED
      BY <2>3, <2>4
  <1>4. CASE Stores
    <2>1. /\ Target \in Paths /\ remote[Target] # "dir"
          /\ remote' = [remote EXCEPT ![Target] = local[Head(todo).file]] /\ cwd' = cwd
          /\ todo # <<>> /\ Head(todo).do = "stor"
      BY <1>4 DEF Stores, CanStore, Kind, FileKinds, Done, Replaced, IsNext
    <2>2. /\ Head(todo) \in SoundTask /\ cwd \in Paths /\ remote[cwd] = "dir"
          /\ Head(todo).at # None /\ local[Head(todo).file] \in FileKinds
      BY <2>1, NextIsSound DEF SoundTask
    <2>3. Parent(Target) = cwd /\ Target # <<>>
      BY <2>2, EntryIsInside
    <2>4. local[Head(todo).file] # "link"
      BY <2>2 DEF FileKinds
    <2> QED
      BY Zenon, <2>1, <2>2, <2>3, <2>4, RemoteChanges
  <1> QED
    BY <1>1, <1>2, <1>3, <1>4

\* A transfer that fails leaves the tree a tree, too.
LEMMA RemainsOfRemote ==
    ASSUME Based, todo # <<>>, Remains
    PROVE  RemoteChange /\ cwd' = cwd
  <1>1. CASE remote' = remote /\ cwd' = cwd
    BY <1>1, RemoteUnchanged
  <1>2. CASE /\ Head(todo).do = "stor" /\ CanStore /\ cwd' = cwd
             /\ remote' = [remote EXCEPT ![Target] = "partial"]
    <2>1. Target \in Paths /\ remote[Target] # "dir"
      BY <1>2 DEF CanStore, Kind, FileKinds
    <2>2. /\ Head(todo) \in SoundTask /\ cwd \in Paths /\ remote[cwd] = "dir"
          /\ Head(todo).at # None
      BY <1>2, NextIsSound DEF SoundTask
    <2>3. Parent(Target) = cwd /\ Target # <<>>
      BY <2>2, EntryIsInside
    <2> QED
      BY Zenon, <1>2, <2>1, <2>2, <2>3, RemoteChanges
  <1> QED
    BY <1>1, <1>2 DEF Remains, server

-----------------------------------------------------------------------------
(* The tasks that remain *)

LEMMA SoundStill ==
    ASSUME FilesStay, op' = op
    PROVE  SoundTask \subseteq SoundTask' /\ \A s \in SoundTasks : s \in SoundTasks'
  <1>1. ASSUME NEW task \in SoundTask
        PROVE  task \in SoundTask'
    <2>1. task \in Tasks /\ (task.do = "stor" => task.file \in Paths)
      BY DEF SoundTask, Tasks
    <2>2. task.do = "stor" => local'[task.file] \in FileKinds
      BY <2>1 DEF SoundTask, FilesStay
    <2> QED
      BY <2>1, <2>2 DEF SoundTask
  <1>2. SoundTask \subseteq SoundTask'
    BY <1>1
  <1> QED
    BY <1>2, SoundAreTasks, SeqOfMore DEF SoundTasks

LEMMA StraightStill ==
    ASSUME LinksOnlyGo
    PROVE  StraightTask \subseteq StraightTask' /\ \A s \in StraightTasks : s \in StraightTasks'
  <1>1. \A p : Kind(remote, p) # "link" => Kind(remote', p) # "link"
    BY DEF LinksOnlyGo, Kind
  <1>2. StraightTask \subseteq StraightTask'
    BY <1>1 DEF StraightTask
  <1> QED
    BY <1>2, SeqOfMore DEF StraightTasks

LEMMA TodoStaysSound ==
    ASSUME Based, todo # <<>>, FilesStay, op' = op,
           NEW tasks \in SoundTasks', todo' = tasks \o Tail(todo)
    PROVE  todo' \in SoundTasks'
  <1>1. PICK rest \in SoundTasks' : rest = Tail(todo)
    BY Zenon, NextIsSound, SoundStill
  <1>2. \A s, t \in SoundTasks' : s \o t \in SoundTasks'
    BY DEF SoundTasks
  <1> QED
    BY <1>1, <1>2

LEMMA TodoStaysSited ==
    ASSUME Based, todo # <<>>, Sited, LinksOnlyGo, cwd' \in Paths,
           NEW tasks \in StraightTasks', todo' = tasks \o Tail(todo),
           <<Leads(Here(cwd), Head(todo)), Leading!Fold(Here(cwd'), tasks)>> \in Vaguer
    PROVE  Sited'
  <1>1. todo \in Seq(StraightTask)
    BY DEF Sited, StraightTasks
  <1>2. Tail(todo) \in StraightTasks
    BY <1>1, HeadThenTail DEF StraightTasks
  <1>3. PICK rest \in StraightTasks' : rest = Tail(todo)
    BY Zenon, <1>2, StraightStill
  <1>4. \A s, t \in StraightTasks' : s \o t \in StraightTasks'
    BY DEF StraightTasks
  <1>5. todo' \in StraightTasks'
    BY <1>3, <1>4
  <1>6. StraightTask' \subseteq Tasks
    BY DEF StraightTask
  <1>7. tasks \in Seq(Tasks)
    BY <1>6, SeqOfMore DEF StraightTasks
  <1>8. todo \in Seq(Tasks) /\ cwd \in Paths /\ Located
    BY NextIsSound DEF Sited
  <1>9. PICK path \in Paths : path = cwd'
    OBVIOUS
  <1>10. FoldLeft(Leads, Here(path), tasks \o Tail(todo)).is # "wrong"
    BY Zenon, <1>7, <1>8, <1>9, StaysLocated
  <1>11. Located'
    BY <1>9, <1>10 DEF Located
  <1> QED
    BY <1>5, <1>11 DEF Sited

\* Where the next task leads, if it begins where it is meant to.
LEMMA NextLeads ==
    ASSUME Based, todo # <<>>, Located
    PROVE  /\ Belongs(Here(cwd), Head(todo)) /\ Leads(Here(cwd), Head(todo)) \in Places
           /\ Head(todo).do \notin {"cd", "cdup", "target", "return"} =>
                 Leads(Here(cwd), Head(todo)) = Here(cwd)
           /\ Head(todo).do = "cdup" => Leads(Here(cwd), Head(todo)) = Here(Parent(cwd))
           /\ Head(todo).do = "cd" /\ Head(todo).at # None =>
                 Leads(Here(cwd), Head(todo)) = Here(cwd \o Head(todo).arg)
           /\ Head(todo).do = "cd" /\ Head(todo).at = None =>
                 Leads(Here(cwd), Head(todo)).is = "unknown"
           /\ Head(todo).do \in {"target", "return"} =>
                 Leads(Here(cwd), Head(todo)).is = "unknown"
  <1>1. todo \in Seq(Tasks) /\ cwd \in Paths
    BY NextIsSound
  <1>2. Belongs(Here(cwd), Head(todo)) /\ Leads(Here(cwd), Head(todo)) \in Places
    BY <1>1, FirstTask
  <1>3. Head(todo).at # None => cwd = Head(todo).at
    BY <1>2 DEF Belongs, Here
  <1> QED
    BY Zenon, <1>2, <1>3 DEF Leads, Here

\* Nothing instead of the next task, and the server where that leads.
LEMMA DoneStaysSited ==
    ASSUME Based, todo # <<>>, Sited, LinksOnlyGo, cwd' \in Paths, todo' = Tail(todo),
           \/ Leads(Here(cwd), Head(todo)) = Here(cwd')
           \/ Leads(Here(cwd), Head(todo)).is = "unknown"
    PROVE  Sited'
  <1>1. PICK path \in Paths : path = cwd'
    OBVIOUS
  <1>2. Here(path) \in Places /\ Leads(Here(cwd), Head(todo)) \in Places
    BY LeadsType, NextLeads DEF Sited
  <1>3. Leading!Fold(Here(path), <<>>) = Here(path)
    BY Zenon, <1>2, LeadsType, Leading!FoldEmpty
  <1>4. <<Leads(Here(cwd), Head(todo)), Here(path)>> \in Vaguer
    BY <1>1, <1>2, VaguerIs DEF Here
  <1>5. <<>> \in StraightTasks' /\ todo' = <<>> \o Tail(todo)
    <2>1. Tail(todo) \in SoundTasks
      BY NextIsSound
    <2>2. <<>> \o Tail(todo) = Tail(todo)
      BY <2>1 DEF SoundTasks
    <2> QED
      BY <2>2 DEF StraightTasks
  <1> QED
    BY Zenon, <1>1, <1>3, <1>4, <1>5, TodoStaysSited

\* Tasks that are begun and ended where the next one is.
LEMMA MoreStaysSited ==
    ASSUME Based, todo # <<>>, Sited, remote' = remote, cwd' = cwd,
           Head(todo).do \notin {"cd", "cdup", "target", "return"},
           NEW tasks \in StraightTasks, Leading!Fold(Here(cwd), tasks) = Here(cwd),
           todo' = tasks \o Tail(todo)
    PROVE  Sited'
  <1>1. LinksOnlyGo /\ cwd' \in Paths /\ cwd \in Paths
    BY NextIsSound DEF LinksOnlyGo
  <1>2. tasks \in StraightTasks'
    BY <1>1, StraightStill
  <1>3. Leads(Here(cwd), Head(todo)) = Here(cwd)
    BY NextLeads DEF Sited
  <1>4. Here(cwd) \in Places
    BY <1>1, LeadsType
  <1>5. <<Leads(Here(cwd), Head(todo)), Leading!Fold(Here(cwd'), tasks)>> \in Vaguer
    BY <1>3, <1>4, VaguerIs
  <1> QED
    BY Zenon, <1>1, <1>2, <1>5, TodoStaysSited

-----------------------------------------------------------------------------
(* The tasks for the entries of a directory *)

\* Tasks on which an entry's tasks are built.
LEMMA EntryTasks ==
    ASSUME cwd \in Paths, NEW n \in Names
    PROVE  /\ \A what \in {"mkd", "dele", "rmd"} :
                 /\ Relative(what, <<n>>) \in SoundTask /\ Relative(what, <<n>>) \in StraightTask
                 /\ Leads(Here(cwd), Relative(what, <<n>>)) = Here(cwd)
           /\ Relative("cd", <<n>>) \in SoundTask
           /\ Kind(remote, Append(cwd, n)) # "link" => Relative("cd", <<n>>) \in StraightTask
           /\ Leads(Here(cwd), Relative("cd", <<n>>)) = Here(Append(cwd, n))
           /\ \A file \in Seq(AllParts) :
                 /\ Task("retr", <<n>>, file, cwd) \in SoundTask
                 /\ Task("retr", <<n>>, file, cwd) \in StraightTask
                 /\ Leads(Here(cwd), Task("retr", <<n>>, file, cwd)) = Here(cwd)
           /\ \A file \in Paths : local[file] \in FileKinds =>
                 /\ Task("stor", <<n>>, file, cwd) \in SoundTask
                 /\ Task("stor", <<n>>, file, cwd) \in StraightTask
                 /\ Leads(Here(cwd), Task("stor", <<n>>, file, cwd)) = Here(cwd)
  <1>1. cwd # None /\ cwd \in OptionalPath /\ cwd \in Seq(Names) /\ <<n>> \in Seq(AllParts)
    BY Zenon, NoneIsNoPath, PathIsParts, PathsAre DEF AllParts, Parts
  <1>2. cwd \o <<n>> = Append(cwd, n)
    BY <1>1
  <1>3. ASSUME NEW what \in {"mkd", "dele", "rmd", "cd"}
        PROVE  /\ Relative(what, <<n>>) \in Tasks /\ Relative(what, <<n>>).do = what
               /\ Relative(what, <<n>>).at = cwd /\ Relative(what, <<n>>).arg = <<n>>
    <2>1. Relative(what, <<n>>) \in Tasks
      BY Zenon, <1>1, TaskType, InnerAreTasks
    <2> QED
      BY <2>1 DEF Relative, Task
  <1>4. ASSUME NEW what \in {"mkd", "dele", "rmd"}
        PROVE  /\ Relative(what, <<n>>) \in SoundTask /\ Relative(what, <<n>>) \in StraightTask
               /\ Leads(Here(cwd), Relative(what, <<n>>)) = Here(cwd)
    <2>1. PICK task \in Tasks : task = Relative(what, <<n>>)
      BY <1>3
    <2>2. task.do = what /\ task.at = cwd /\ task.arg = <<n>>
      BY <1>3, <2>1
    <2>3. task \in SoundTask /\ task \in StraightTask
      BY <1>1, <2>2 DEF SoundTask, StraightTask
    <2>4. Leads(Here(cwd), task) = Here(cwd)
      BY <1>1, <2>2 DEF Leads, Belongs, Here
    <2> QED
      BY <2>1, <2>3, <2>4
  <1>5. /\ Relative("cd", <<n>>) \in SoundTask
        /\ Kind(remote, Append(cwd, n)) # "link" => Relative("cd", <<n>>) \in StraightTask
        /\ Leads(Here(cwd), Relative("cd", <<n>>)) = Here(Append(cwd, n))
    BY Zenon, <1>1, <1>2, <1>3 DEF SoundTask, StraightTask, Leads, Belongs, Here
  <1>6. ASSUME NEW file \in Seq(AllParts)
        PROVE  /\ Task("retr", <<n>>, file, cwd) \in SoundTask
               /\ Task("retr", <<n>>, file, cwd) \in StraightTask
               /\ Leads(Here(cwd), Task("retr", <<n>>, file, cwd)) = Here(cwd)
    <2>1. Task("retr", <<n>>, file, cwd) \in Tasks
      BY Zenon, <1>1, TaskType, InnerAreTasks
    <2>2. /\ Task("retr", <<n>>, file, cwd).do = "retr" /\ Task("retr", <<n>>, file, cwd).at = cwd
          /\ Task("retr", <<n>>, file, cwd).arg = <<n>>
      BY DEF Task
    <2> QED
      BY Zenon, <1>1, <2>1, <2>2 DEF SoundTask, StraightTask, Leads, Belongs, Here
  <1>7. ASSUME NEW file \in Paths, local[file] \in FileKinds
        PROVE  /\ Task("stor", <<n>>, file, cwd) \in SoundTask
               /\ Task("stor", <<n>>, file, cwd) \in StraightTask
               /\ Leads(Here(cwd), Task("stor", <<n>>, file, cwd)) = Here(cwd)
    <2>1. Task("stor", <<n>>, file, cwd) \in Tasks
      BY Zenon, <1>1, TaskType, InnerAreTasks
    <2>2. /\ Task("stor", <<n>>, file, cwd).do = "stor" /\ Task("stor", <<n>>, file, cwd).at = cwd
          /\ Task("stor", <<n>>, file, cwd).arg = <<n>> /\ Task("stor", <<n>>, file, cwd).file = file
      BY DEF Task
    <2> QED
      BY Zenon, <1>1, <1>7, <2>1, <2>2 DEF SoundTask, StraightTask, Leads, Belongs, Here
  <1> QED
    BY Zenon, <1>4, <1>5, <1>6, <1>7

LEMMA InsideTasks ==
    /\ \A task \in InsideTask : task \in SoundTask /\ task \in StraightTask
    /\ \A task \in InsideTask, path \in Seq(AllParts) : Leads(Here(path), task) = Here(path)
    /\ Command("clear", <<>>) \in InsideTask
    /\ \A file \in Seq(AllParts), what \in {"download", "fetch"} :
          Task(what, <<>>, file, None) \in InsideTask
    /\ op.name = "uploadFromDir" => \A file \in Paths : Task("upload", <<>>, file, None) \in InsideTask
  <1>1. \A task \in InsideTask : task \in SoundTask /\ task \in StraightTask
    BY DEF InsideTask, SoundTask, StraightTask
  <1>2. \A task \in InsideTask, path \in Seq(AllParts) : Leads(Here(path), task) = Here(path)
    BY Zenon DEF InsideTask, Leads, Here, Belongs
  <1>3. /\ <<>> \in Seq(AllParts) /\ None \in OptionalPath
        /\ Command("clear", <<>>) \in Tasks
    BY PathIsParts, TaskType, InnerAreTasks DEF Commands
  <1>4. Command("clear", <<>>) \in InsideTask
    BY <1>3 DEF InsideTask, SoundTask, Command, Task
  <1>5. ASSUME NEW file \in Seq(AllParts), NEW what \in {"download", "fetch"}
        PROVE  Task(what, <<>>, file, None) \in InsideTask
    <2>1. Task(what, <<>>, file, None) \in Tasks
      BY Zenon, <1>3, TaskType, InnerAreTasks
    <2> QED
      BY <2>1 DEF InsideTask, SoundTask, Task
  <1>6. ASSUME op.name = "uploadFromDir", NEW file \in Paths
        PROVE  Task("upload", <<>>, file, None) \in InsideTask
    <2>1. Task("upload", <<>>, file, None) \in Tasks
      BY Zenon, <1>3, TaskType, InnerAreTasks
    <2> QED
      BY <1>6, <2>1 DEF InsideTask, SoundTask, Task
  <1> QED
    BY Zenon, <1>1, <1>2, <1>4, <1>5, <1>6

\* What is sound, and goes straight, from the working directory back to it.
RoundTrip ==
    {tasks \in SoundTasks : tasks \in StraightTasks /\ Leading!Fold(Here(cwd), tasks) = Here(cwd)}

LEMMA RoundTrips ==
    ASSUME cwd \in Paths
    PROVE  /\ <<>> \in RoundTrip
           /\ \A task \in SoundTask : task \in StraightTask /\ Leads(Here(cwd), task) = Here(cwd) =>
                 <<task>> \in RoundTrip
           /\ \A s, t \in RoundTrip : s \o t \in RoundTrip
  <1>1. Here(cwd) \in Places
    BY LeadsType
  <1>2. <<>> \in RoundTrip
    <2>1. Leading!Fold(Here(cwd), <<>>) = Here(cwd)
      BY Zenon, <1>1, LeadsType, Leading!FoldEmpty
    <2>2. <<>> \in SoundTasks /\ <<>> \in StraightTasks
      BY DEF SoundTasks, StraightTasks
    <2> QED
      BY Zenon, <2>1, <2>2 DEF RoundTrip
  <1>3. ASSUME NEW task \in SoundTask, task \in StraightTask, Leads(Here(cwd), task) = Here(cwd)
        PROVE  <<task>> \in RoundTrip
    <2>1. task \in Tasks
      BY SoundAreTasks
    <2>2. Leading!Fold(Here(cwd), <<task>>) = Here(cwd)
      BY Zenon, <1>1, <1>3, <2>1, LeadsType, Leading!FoldOne
    <2>3. <<task>> \in SoundTasks /\ <<task>> \in StraightTasks
      BY <1>3 DEF SoundTasks, StraightTasks
    <2> QED
      BY Zenon, <2>2, <2>3 DEF RoundTrip
  <1>4. ASSUME NEW s \in RoundTrip, NEW t \in RoundTrip
        PROVE  s \o t \in RoundTrip
    <2>1. s \in SoundTasks /\ t \in SoundTasks /\ s \in StraightTasks /\ t \in StraightTasks
      BY Zenon DEF RoundTrip
    <2>2. s \o t \in SoundTasks /\ s \o t \in StraightTasks
      BY <2>1 DEF SoundTasks, StraightTasks
    <2>3. s \in Seq(Tasks) /\ t \in Seq(Tasks)
      BY Zenon, <2>1, SoundAreTasks
    <2>4. Leading!Fold(Here(cwd), s \o t) = Leading!Fold(Leading!Fold(Here(cwd), s), t)
      BY Zenon, <1>1, <2>3, LeadsType, Leading!FoldConcat
    <2>5. Leading!Fold(Here(cwd), s) = Here(cwd) /\ Leading!Fold(Here(cwd), t) = Here(cwd)
      BY Zenon DEF RoundTrip
    <2> QED
      BY Zenon, <2>2, <2>4, <2>5 DEF RoundTrip
  <1> QED
    BY Zenon, <1>2, <1>3, <1>4

\* A directory is entered and left again.
LEMMA EnterIsRoundTrip ==
    ASSUME cwd \in Paths, NEW n \in Names, NEW inside \in InsideTask,
           Kind(remote, Append(cwd, n)) # "link"
    PROVE  Enter(<<n>>, <<inside>>) \in RoundTrip
  <1>1. cwd \in Seq(Names) /\ cwd \in Seq(AllParts) /\ Append(cwd, n) \in Seq(Names) /\ Names \subseteq AllParts
    BY Zenon, PathsAre, PathIsParts, StepIs DEF AllParts, Parts
  <1>2. Append(cwd, n) \in Seq(AllParts) /\ Parent(Append(cwd, n)) = cwd
    BY <1>1, SeqOfMore, AppendIsNew
  <1>3. PICK there \in Places : there = Here(Append(cwd, n))
    BY Zenon, <1>2 DEF Here, Places
  <1>4. Here(cwd) \in Places
    BY LeadsType
  <1>5. PICK a : a = Relative("cd", <<n>>)
    OBVIOUS
  <1>6. a \in SoundTask /\ a \in StraightTask /\ Leads(Here(cwd), a) = there
    BY <1>3, <1>5, EntryTasks
  <1>7. PICK c : c = Command("cdup", <<>>)
    OBVIOUS
  <1>8. c \in SoundTask /\ c \in StraightTask /\ c.do = "cdup" /\ c.at = None
    <2>1. <<>> \in Seq(AllParts) /\ c \in Tasks
      BY <1>7, PathIsParts, TaskType, InnerAreTasks DEF Commands
    <2> QED
      BY <1>7, <2>1 DEF Command, Task, SoundTask, StraightTask
  <1>9. Leads(there, c) = Here(cwd)
    BY <1>2, <1>3, <1>8 DEF Leads, Here, Belongs
  <1>10. inside \in SoundTask /\ inside \in StraightTask /\ Leads(there, inside) = there
    BY Zenon, <1>2, <1>3, InsideTasks
  <1>11. a \in Tasks /\ c \in Tasks /\ inside \in Tasks
    BY <1>6, <1>8, <1>10, SoundAreTasks
  <1>12. Enter(<<n>>, <<inside>>) = (<<a>> \o <<inside>>) \o <<c>>
    BY Zenon, <1>5, <1>7 DEF Enter
  <1>13. /\ <<a>> \in Seq(Tasks) /\ <<inside>> \in Seq(Tasks) /\ <<c>> \in Seq(Tasks)
         /\ <<a>> \o <<inside>> \in Seq(Tasks)
    BY <1>11
  <1>14. Leading!Fold(Here(cwd), <<a>>) = there
    BY Zenon, <1>4, <1>6, <1>11, LeadsType, Leading!FoldOne
  <1>15. Leading!Fold(there, <<inside>>) = there
    BY Zenon, <1>3, <1>10, <1>11, LeadsType, Leading!FoldOne
  <1>16. Leading!Fold(there, <<c>>) = Here(cwd)
    BY Zenon, <1>3, <1>9, <1>11, LeadsType, Leading!FoldOne
  <1>17. Leading!Fold(Here(cwd), <<a>> \o <<inside>>) = there
    BY Zenon, <1>4, <1>13, <1>14, <1>15, LeadsType, Leading!FoldConcat
  <1>18. Leading!Fold(Here(cwd), (<<a>> \o <<inside>>) \o <<c>>) = Here(cwd)
    BY Zenon, <1>4, <1>13, <1>16, <1>17, LeadsType, Leading!FoldConcat
  <1>19. (<<a>> \o <<inside>>) \o <<c>> \in SoundTasks
    BY <1>6, <1>8, <1>10 DEF SoundTasks
  <1>20. (<<a>> \o <<inside>>) \o <<c>> \in StraightTasks
    BY <1>6, <1>8, <1>10 DEF StraightTasks
  <1> QED
    BY Zenon, <1>12, <1>18, <1>19, <1>20 DEF RoundTrip

LEMMA OwnFileIs ==
    ASSUME NEW file \in OwnFile
    PROVE  \E n \in Names : /\ file.name = <<n>>
                            /\ isDirectory(file) => Kind(remote, Append(cwd, n)) # "link"
  BY DEF OwnFile, NamesOwn

LEMMA ClearedIsRoundTrip ==
    ASSUME cwd \in Paths, NEW file \in OwnFile
    PROVE  Cleared(file) \in RoundTrip
  <1>1. PICK n \in Names : /\ file.name = <<n>>
                           /\ isDirectory(file) => Kind(remote, Append(cwd, n)) # "link"
    BY OwnFileIs
  <1>2. <<Relative("rmd", <<n>>)>> \in RoundTrip /\ <<Relative("dele", <<n>>)>> \in RoundTrip
    BY EntryTasks, RoundTrips
  <1>3. ASSUME isDirectory(file)
        PROVE  Enter(<<n>>, <<Command("clear", <<>>)>>) \o <<Relative("rmd", <<n>>)>> \in RoundTrip
    <2>1. Enter(<<n>>, <<Command("clear", <<>>)>>) \in RoundTrip
      BY Zenon, <1>1, <1>3, InsideTasks, EnterIsRoundTrip
    <2> QED
      BY Zenon, <1>2, <2>1, RoundTrips
  <1> QED
    BY Zenon, <1>1, <1>2, <1>3 DEF Cleared

LEMMA DownloadedIsRoundTrip ==
    ASSUME cwd \in Paths, Head(todo).file \in Seq(AllParts), NEW file \in OwnFile
    PROVE  Downloaded(file) \in RoundTrip
  <1>1. PICK n \in Names : /\ file.name = <<n>>
                           /\ isDirectory(file) => Kind(remote, Append(cwd, n)) # "link"
    BY OwnFileIs
  <1>2. PICK to \in Seq(AllParts) : to = Head(todo).file \o file.name
    <2>1. PICK a \in Seq(AllParts), b \in Seq(AllParts) : a = Head(todo).file /\ b = <<n>>
      <3>1. n \in AllParts
        BY Zenon DEF AllParts, Parts
      <3> QED
        BY Zenon, <3>1, PathIsParts
    <2>2. a \o b \in Seq(AllParts)
      OBVIOUS
    <2> QED
      BY Zenon, <1>1, <2>1, <2>2
  <1>3. <<Task("retr", <<n>>, to, cwd)>> \in RoundTrip
    BY Zenon, EntryTasks, RoundTrips
  <1>4. isDirectory(file) => Enter(<<n>>, <<Task("download", <<>>, to, None)>>) \in RoundTrip
    BY <1>1, InsideTasks, EnterIsRoundTrip
  <1>5. \/ Downloaded(file) = <<>>
        \/ isDirectory(file) /\ Downloaded(file) = Enter(<<n>>, <<Task("download", <<>>, to, None)>>)
        \/ Downloaded(file) = <<Task("retr", <<n>>, to, cwd)>>
    <2>1. CASE isDirectory(file)
      <3>1. ~isFile(file)
        BY <2>1 DEF isDirectory, isFile
      <3> QED
        BY <1>1, <1>2, <2>1, <3>1 DEF Downloaded
    <2>2. CASE ~isDirectory(file)
      BY Zenon, <1>1, <1>2, <2>2 DEF Downloaded
    <2> QED
      BY <2>1, <2>2
  <1> QED
    BY Zenon, <1>3, <1>4, <1>5, RoundTrips

LEMMA EnterIsSound ==
    ASSUME cwd \in Paths, NEW n \in Names, NEW inside \in InsideTask
    PROVE  Enter(<<n>>, <<inside>>) \in SoundTasks
  <1>1. PICK a \in SoundTask : a = Relative("cd", <<n>>)
    BY EntryTasks
  <1>2. PICK c \in SoundTask : c = Command("cdup", <<>>)
    <2>1. <<>> \in Seq(AllParts) /\ Command("cdup", <<>>) \in Tasks
      BY PathIsParts, TaskType, InnerAreTasks DEF Commands
    <2>2. Command("cdup", <<>>) \in SoundTask
      BY <2>1 DEF Command, Task, SoundTask
    <2> QED
      BY Zenon, <2>2
  <1>3. inside \in SoundTask
    BY InsideTasks
  <1>4. (<<a>> \o <<inside>>) \o <<c>> \in SoundTasks
    BY <1>3 DEF SoundTasks
  <1> QED
    BY Zenon, <1>1, <1>2, <1>4 DEF Enter

\* An upload that meets no link returns to where it entered a directory.
LEMMA UploadedIsRoundTrip ==
    ASSUME cwd \in Paths, op.name = "uploadFromDir", NEW file \in Paths, file # <<>>
    PROVE  /\ Uploaded(file) \in SoundTasks
           /\ (local[file] = "dir" => Kind(remote, Append(cwd, Last(file))) # "link") =>
                 Uploaded(file) \in RoundTrip
  <1>1. PICK n \in Names : n = Last(file)
    BY ParentIsPath
  <1>2. PICK mkd : mkd = <<Relative("mkd", <<n>>)>>
    BY Zenon
  <1>3. PICK enter : enter = Enter(<<n>>, <<Task("upload", <<>>, file, None)>>)
    OBVIOUS
  <1>4. mkd \in RoundTrip
    BY Zenon, <1>2, EntryTasks, RoundTrips
  <1>5. enter \in SoundTasks
    BY Zenon, <1>3, InsideTasks, EnterIsSound
  <1>6. Kind(remote, Append(cwd, n)) # "link" => enter \in RoundTrip
    BY Zenon, <1>3, InsideTasks, EnterIsRoundTrip
  <1>7. RoundTrip \subseteq SoundTasks
    BY Zenon DEF RoundTrip
  <1>8. <<>> \in RoundTrip
    BY Zenon, RoundTrips
  <1>9. CASE local[file] \in FileKinds
    <2>1. local[file] # "dir"
      BY <1>9 DEF FileKinds
    <2>2. Uploaded(file) = <<Task("stor", <<n>>, file, cwd)>>
      BY <1>1, <1>9, <2>1 DEF Uploaded
    <2>3. <<Task("stor", <<n>>, file, cwd)>> \in RoundTrip
      BY Zenon, <1>9, EntryTasks, RoundTrips
    <2> QED
      BY Zenon, <1>7, <2>2, <2>3
  <1>10. CASE local[file] = "dir"
    <2>1. local[file] \notin FileKinds
      BY <1>10 DEF FileKinds
    <2>2. Uploaded(file) = mkd \o enter
      BY <1>1, <1>2, <1>3, <1>10, <2>1 DEF Uploaded
    <2>3. mkd \o enter \in SoundTasks
      <3>1. mkd \in Seq(SoundTask) /\ enter \in Seq(SoundTask)
        BY Zenon, <1>4, <1>5, <1>7 DEF SoundTasks
      <3> QED
        BY <3>1 DEF SoundTasks
    <2>4. Kind(remote, Append(cwd, n)) # "link" => mkd \o enter \in RoundTrip
      BY Zenon, <1>4, <1>6, RoundTrips
    <2> QED
      BY Zenon, <1>1, <1>10, <2>2, <2>3, <2>4
  <1>11. CASE local[file] \notin FileKinds /\ local[file] # "dir"
    <2>1. Uploaded(file) = <<>>
      BY Zenon, <1>11 DEF Uploaded
    <2> QED
      BY Zenon, <1>7, <1>8, <2>1
  <1> QED
    BY Zenon, <1>9, <1>10, <1>11

\* One after the other, the tasks for all entries are such a trip.
LEMMA FlattenIsRoundTrip ==
    ASSUME cwd \in Paths, NEW n \in Nat, NEW ss \in [1 .. n -> RoundTrip]
    PROVE  FlattenSeq(ss) \in RoundTrip
  <1>1. RoundTrip \subseteq SoundTasks /\ RoundTrip \subseteq StraightTasks
    BY Zenon DEF RoundTrip
  <1>2. ss \in [1 .. n -> SoundTasks] /\ ss \in [1 .. n -> StraightTasks]
    BY <1>1
  <1>3. FlattenSeq(ss) \in SoundTasks
    BY Zenon, <1>2, FlattenType DEF SoundTasks
  <1>4. FlattenSeq(ss) \in StraightTasks
    BY Zenon, <1>2, FlattenType DEF StraightTasks
  <1>5. ss \in [1 .. n -> Seq(Tasks)]
    BY <1>1, SoundAreTasks
  <1>6. \A i \in 1 .. n : Leading!Fold(Here(cwd), ss[i]) = Here(cwd)
    <2> SUFFICES ASSUME NEW i \in 1 .. n
                 PROVE  Leading!Fold(Here(cwd), ss[i]) = Here(cwd)
      OBVIOUS
    <2>1. ss[i] \in RoundTrip
      OBVIOUS
    <2> QED
      BY Zenon, <2>1 DEF RoundTrip
  <1>7. Leading!Fold(Here(cwd), FlattenSeq(ss)) = Here(cwd)
    BY Zenon, <1>5, <1>6, FlattenStays
  <1> QED
    BY Zenon, <1>3, <1>4, <1>7 DEF RoundTrip

-----------------------------------------------------------------------------
(* What the steps keep *)

\* The steps that leave the server as it is.
LEMMA ServerUnchanged ==
    ASSUME \/ \E o \in Operations : Begin(o)
           \/ PrintsDirectory \/ Retrieves \/ clearWorkingDir \/ EntersTarget \/ _uploadToWorkingDir
           \/ ensureLocalDirectory \/ _downloadFromWorkingDir \/ Closes \/ UNCHANGED vars
    PROVE  remote' = remote /\ cwd' = cwd
  BY DEF Begin, PrintsDirectory, Retrieves, clearWorkingDir, EntersTarget, _uploadToWorkingDir,
         ensureLocalDirectory, _downloadFromWorkingDir, ForEachListed, Closes, vars, server

LEMMA RemoteNext ==
    ASSUME Based, op.name # "uploadFromDir" => Sited, [DirectoryNext]_vars
    PROVE  IsTree(remote') /\ LinksOnlyGo /\ Kind(remote', cwd') = "dir"
  <1>1. cwd \in Paths /\ remote[cwd] = "dir" /\ IsTree(remote)
    BY DEF Based, HomeInv, Placed, Kind
  <1>2. ASSUME RemoteChange, cwd' = cwd
        PROVE  IsTree(remote') /\ LinksOnlyGo /\ Kind(remote', cwd') = "dir"
    BY <1>1, <1>2 DEF RemoteChange, LinksOnlyGo, Kind
  <1>3. ASSUME remote' = remote, Kind(remote, cwd') = "dir"
        PROVE  IsTree(remote') /\ LinksOnlyGo /\ Kind(remote', cwd') = "dir"
    BY <1>1, <1>3 DEF LinksOnlyGo
  <1>4. CASE \/ \E o \in Operations : Begin(o)
             \/ PrintsDirectory \/ Retrieves \/ clearWorkingDir \/ EntersTarget \/ _uploadToWorkingDir
             \/ ensureLocalDirectory \/ _downloadFromWorkingDir \/ Closes \/ UNCHANGED vars
    <2>1. remote' = remote /\ cwd' = cwd
      BY Zenon, <1>4, ServerUnchanged
    <2> QED
      BY <1>3, <2>1 DEF Based
  <1>5. CASE ChangesDirectory
    BY <1>3, <1>5 DEF ChangesDirectory
  <1>6. CASE ChangesToParent
    <2>1. Parent(cwd) \in Paths /\ remote[Parent(cwd)] = "dir"
      BY <1>1, ParentIsPath DEF IsTree, InDirectories, Parent
    <2> QED
      BY <1>3, <1>6, <2>1 DEF ChangesToParent, Kind
  <1>7. CASE MakesDirectory \/ RemovesFile \/ RemovesDirectory \/ Stores
    BY Zenon, <1>2, <1>7, CommandsChangeRemote
  <1>8. CASE Fails
    BY Zenon, <1>2, <1>8, RemainsOfRemote DEF Fails
  <1>9. CASE Returns
    BY <1>3, <1>9 DEF Returns, Based
  <1>10. CASE Reconnects
    <2>1. <<>> \in Paths /\ remote[<<>>] = "dir"
      BY <1>1, PathIsParts DEF IsTree, InDirectories
    <2> QED
      BY <1>3, <1>10, <2>1 DEF Reconnects, Kind
  <1> QED
    BY Zenon, <1>4, <1>5, <1>6, <1>7, <1>8, <1>9, <1>10 DEF DirectoryNext

\* The tasks that take the place of a listing.
LEMMA ListedIsRoundTrip ==
    ASSUME Based, clearWorkingDir \/ _downloadFromWorkingDir
    PROVE  \E tasks \in RoundTrip : todo' = tasks \o Tail(todo)
  <1>1. todo # <<>> /\ Understood(Listed(cwd))
    BY DEF clearWorkingDir, _downloadFromWorkingDir, ForEachListed, IsNext
  <1>2. cwd \in Paths /\ Head(todo).file \in Seq(AllParts)
    BY <1>1, NextIsSound DEF Tasks
  <1>3. Listing
    BY DEF Based, HomeInv, Placed, Listing
  <1>4. Len(Files) \in Nat /\ \A i \in 1 .. Len(Files) : Files[i] \in OwnFile
    BY <1>1, <1>3, FilesAreOwn DEF OwnFiles
  <1>5. CASE clearWorkingDir
    <2> DEFINE tasks == [i \in 1 .. Len(Files) |-> Cleared(Files[i])]
    <2>1. tasks \in [1 .. Len(Files) -> RoundTrip]
      BY <1>2, <1>4, ClearedIsRoundTrip
    <2>2. todo' = FlattenSeq(tasks) \o Tail(todo)
      BY <1>5 DEF clearWorkingDir, ForEachListed, Replaced
    <2> HIDE DEF tasks
    <2>3. FlattenSeq(tasks) \in RoundTrip
      BY <1>2, <1>4, <2>1, FlattenIsRoundTrip
    <2> QED
      BY <2>2, <2>3
  <1>6. CASE _downloadFromWorkingDir
    <2> DEFINE tasks == [i \in 1 .. Len(Files) |-> Downloaded(Files[i])]
    <2>1. tasks \in [1 .. Len(Files) -> RoundTrip]
      BY <1>2, <1>4, DownloadedIsRoundTrip
    <2>2. todo' = FlattenSeq(tasks) \o Tail(todo)
      BY <1>6 DEF _downloadFromWorkingDir, ForEachListed, Replaced
    <2> HIDE DEF tasks
    <2>3. FlattenSeq(tasks) \in RoundTrip
      BY <1>2, <1>4, <2>1, FlattenIsRoundTrip
    <2> QED
      BY <2>2, <2>3
  <1> QED
    BY <1>5, <1>6

LEMMA UploadIsRoundTrip ==
    ASSUME Based, _uploadToWorkingDir
    PROVE  \E tasks \in SoundTasks :
               todo' = tasks \o Tail(todo) /\ (NoLinkInTheWay => tasks \in RoundTrip)
  <1>1. /\ todo # <<>> /\ Head(todo).do = "upload" /\ IsNext("upload")
    BY DEF _uploadToWorkingDir, Replaced, IsNext
  <1>2. cwd \in Paths /\ op.name = "uploadFromDir"
    BY <1>1, NextIsSound DEF SoundTask
  <1> DEFINE files == SetToSeq(Children(local, Head(todo).file))
             tasks == [i \in 1 .. Len(files) |-> Uploaded(files[i])]
  <1>3. Len(files) \in Nat /\ \A i \in 1 .. Len(files) : files[i] \in Children(local, Head(todo).file)
    BY ForChildren
  <1>4. todo' = FlattenSeq(tasks) \o Tail(todo)
    BY DEF _uploadToWorkingDir, Replaced
  <1>5. \A file \in Children(local, Head(todo).file) : file \in Paths /\ file # <<>>
    BY ChildrenAre
  <1> HIDE DEF files
  <1>6. tasks \in [1 .. Len(files) -> SoundTasks]
    BY <1>2, <1>3, <1>5, UploadedIsRoundTrip
  <1>7. NoLinkInTheWay => tasks \in [1 .. Len(files) -> RoundTrip]
    BY <1>1, <1>2, <1>3, <1>5, UploadedIsRoundTrip DEF NoLinkInTheWay
  <1> HIDE DEF tasks
  <1>8. FlattenSeq(tasks) \in SoundTasks
    BY <1>3, <1>6, FlattenType DEF SoundTasks
  <1>9. NoLinkInTheWay => FlattenSeq(tasks) \in RoundTrip
    BY <1>2, <1>3, <1>7, FlattenIsRoundTrip
  <1> QED
    BY <1>4, <1>8, <1>9

\* The target's own removal, from its parent.
LEMMA TargetIsRemoved ==
    ASSUME cwd \in Paths
    PROVE  /\ op.name = "removeDir" => RemovedTarget \in SoundTasks
           /\ RemovedTarget \in StraightTasks
           /\ Leading!Fold(Here(cwd), RemovedTarget).is # "wrong"
  <1>1. PICK clear \in InsideTask : clear = Command("clear", <<>>)
    BY InsideTasks
  <1>2. clear \in SoundTask /\ clear \in StraightTask /\ Leads(Here(cwd), clear) = Here(cwd)
    BY InsideTasks, PathIsParts
  <1>3. PICK cdup \in Tasks : cdup = Command("cdup", <<>>)
    BY PathIsParts, TaskType, InnerAreTasks DEF Commands
  <1>4. PICK rmd \in Tasks : rmd = Command("rmd", <<"">> \o cwd)
    <2>1. <<"">> \o cwd \in Seq(AllParts)
      BY Zenon, PathIsName, PathIsParts
    <2> QED
      BY Zenon, <2>1, TaskType, InnerAreTasks DEF Commands
  <1>5. /\ cdup.do = "cdup" /\ cdup.at = None
        /\ rmd.do = "rmd" /\ rmd.at = None /\ rmd.arg = <<"">> \o cwd
    BY Zenon, <1>3, <1>4 DEF Command, Task
  <1>6. /\ cdup \in SoundTask /\ cdup \in StraightTask /\ rmd \in StraightTask
        /\ op.name = "removeDir" => rmd \in SoundTask
    BY Zenon, <1>5 DEF SoundTask, StraightTask
  <1>7. Here(cwd) \in Places /\ clear \in Tasks /\ <<clear>> \in Seq(Tasks)
    BY <1>2, LeadsType, SoundAreTasks
  <1>8. Leading!Fold(Here(cwd), <<clear>>) = Here(cwd)
    BY Zenon, <1>2, <1>7, LeadsType, Leading!FoldOne
  <1>9. CASE cwd = <<>>
    <2>1. RemovedTarget = <<clear>>
      <3>1. <<clear>> \o <<>> = <<clear>>
        BY <1>7
      <3> QED
        BY <1>1, <1>9, <3>1 DEF RemovedTarget
    <2>2. <<clear>> \in SoundTasks /\ <<clear>> \in StraightTasks
      BY <1>2 DEF SoundTasks, StraightTasks
    <2> QED
      BY <1>8, <2>1, <2>2 DEF Here
  <1>10. CASE cwd # <<>>
    <2>1. RemovedTarget = <<clear>> \o <<cdup, rmd>>
      BY Zenon, <1>1, <1>3, <1>4, <1>10 DEF RemovedTarget
    <2>2. <<clear>> \o <<cdup, rmd>> = (<<clear>> \o <<cdup>>) \o <<rmd>>
      BY <1>7
    <2>3. /\ op.name = "removeDir" => (<<clear>> \o <<cdup>>) \o <<rmd>> \in SoundTasks
          /\ (<<clear>> \o <<cdup>>) \o <<rmd>> \in StraightTasks
      BY <1>2, <1>6 DEF SoundTasks, StraightTasks
    <2>4. PICK parent \in Places : parent = Here(Parent(cwd))
      BY LeadsType, ParentIsPath
    <2>5. Leads(Here(cwd), cdup) = parent
      BY Zenon, <1>5, <2>4 DEF Leads, Belongs, Here
    <2>6. Leads(parent, rmd).is # "wrong"
      BY Zenon, <1>5, <1>10, <2>4 DEF Leads, Belongs, FromParent, Here
    <2>7. <<cdup>> \in Seq(Tasks) /\ <<rmd>> \in Seq(Tasks) /\ <<clear>> \o <<cdup>> \in Seq(Tasks)
      BY <1>7
    <2>8. Leading!Fold(Here(cwd), <<cdup>>) = parent
      BY Zenon, <1>7, <2>5, LeadsType, Leading!FoldOne
    <2>9. Leading!Fold(parent, <<rmd>>) = Leads(parent, rmd)
      BY Zenon, LeadsType, Leading!FoldOne
    <2>10. Leading!Fold(Here(cwd), <<clear>> \o <<cdup>>) = parent
      <3>1. Leading!Fold(Here(cwd), <<clear>> \o <<cdup>>) =
                Leading!Fold(Leading!Fold(Here(cwd), <<clear>>), <<cdup>>)
        BY Zenon, <1>7, <2>7, LeadsType, Leading!FoldConcat
      <3> QED
        BY Zenon, <1>8, <2>8, <3>1
    <2>11. Leading!Fold(Here(cwd), (<<clear>> \o <<cdup>>) \o <<rmd>>) = Leads(parent, rmd)
      BY Zenon, <1>7, <2>7, <2>9, <2>10, LeadsType, Leading!FoldConcat
    <2> QED
      BY Zenon, <2>1, <2>2, <2>3, <2>6, <2>11
  <1> QED
    BY Zenon, <1>9, <1>10

\* The steps after which the next task is done.
LEMMA JustDone ==
    ASSUME Based,
           \/ PrintsDirectory \/ ChangesDirectory \/ ChangesToParent \/ MakesDirectory
           \/ RemovesFile \/ RemovesDirectory \/ Stores \/ Retrieves \/ Returns
    PROVE  /\ todo # <<>> /\ todo' = Tail(todo) /\ op' = op /\ FilesStay
  <1>1. \/ Returns
        \/ \E what \in {"pwd", "cd", "cdup", "mkd", "dele", "rmd", "stor", "retr"} : Replaced(what, <<>>)
    BY DEF PrintsDirectory, ChangesDirectory, ChangesToParent, MakesDirectory, RemovesFile,
           RemovesDirectory, Stores, Retrieves, Done
  <1>2. /\ todo # <<>> /\ op' = op
        /\ todo' = Tail(todo) \/ todo' = <<>> \o Tail(todo)
    BY <1>1 DEF Returns, Replaced, IsNext, call
  <1>3. <<>> \o Tail(todo) = Tail(todo)
    <2>1. Tail(todo) \in SoundTasks
      BY <1>2, NextIsSound
    <2> QED
      BY <2>1 DEF SoundTasks
  <1>4. FilesStay
    <2>1. local' = local \/ Retrieves
      BY DEF PrintsDirectory, ChangesDirectory, ChangesToParent, MakesDirectory, RemovesFile,
             RemovesDirectory, Stores, Returns
    <2>2. CASE local' = local
      BY <2>2 DEF FilesStay
    <2>3. CASE Retrieves
      <3>1. Kind(remote, Target) \in FileKinds /\ local \in Trees
        BY <2>3 DEF Retrieves, Based, HomeInv, Placed
      <3>2. remote[Target] \in FileKinds
        BY <3>1, KindIs DEF FileKinds
      <3>3. local' = [local EXCEPT ![Head(todo).file] = remote[Target]]
        BY <2>3 DEF Retrieves
      <3> QED
        BY <3>1, <3>2, <3>3 DEF FilesStay, Trees
    <2> QED
      BY <2>1, <2>2, <2>3
  <1> QED
    BY <1>2, <1>3, <1>4

\* After a failure the operation goes on, or ends, perhaps with its return.
LEMMA FailureLeaves ==
    ASSUME Based, Fails
    PROVE  /\ todo # <<>> /\ op' = op
           /\ \/ /\ todo' = Tail(todo) /\ Head(todo).do = "mkd"
                 /\ UNCHANGED <<remote, cwd, local>>
              \/ todo' = <<>>
              \/ \E task \in LooseTask : task.do = "return" /\ todo' = <<task>>
  <1>1. todo # <<>> /\ op' = op /\ Remains
    BY DEF Fails, call
  <1>2. CASE Ignored(Head(todo))
    <2>1. Head(todo).do = "mkd" /\ todo' = Tail(todo)
      BY <1>2 DEF Fails, Ignored
    <2>2. UNCHANGED <<remote, cwd, local>>
      BY <1>1, <2>1 DEF Remains, server
    <2> QED
      BY <1>1, <2>1, <2>2
  <1>3. CASE ~Ignored(Head(todo))
    <2>1. todo' = Finally(Head(todo))
      BY <1>3 DEF Fails
    <2>2. Last(todo) \in SoundTask
      BY <1>1 DEF Based, SoundTasks, Last
    <2>3. Last(todo).do = "return" => Last(todo) \in LooseTask
      BY <2>2 DEF SoundTask, LooseTask
    <2> QED
      BY <1>1, <2>1, <2>3 DEF Finally
  <1> QED
    BY <1>2, <1>3

LEMMA LooseIsSound ==
    /\ \A task \in LooseTask : task.do = "return" => task \in SoundTask'
    /\ \A o \in Operations : op' = o => Planned(o) \subseteq SoundTask'
  <1>1. ASSUME NEW task \in LooseTask, task.do = "return"
        PROVE  task \in SoundTask'
    BY <1>1 DEF LooseTask, SoundTask
  <1>2. ASSUME NEW o \in Operations, op' = o
        PROVE  Planned(o) \subseteq SoundTask'
    <2> SUFFICES ASSUME NEW task \in Planned(o)
                 PROVE  task \in SoundTask'
      OBVIOUS
    <2> QED
      BY <1>2 DEF Planned, LooseTask, SoundTask
  <1> QED
    BY Zenon, <1>1, <1>2

LEMMA SoundNext ==
    ASSUME Based, [DirectoryNext]_vars
    PROVE  todo' \in SoundTasks'
  <1>1. todo \in SoundTasks /\ <<>> \in SoundTasks'
    BY DEF Based, SoundTasks
  <1>2. ASSUME todo # <<>>, FilesStay, op' = op, NEW tasks \in SoundTasks, todo' = tasks \o Tail(todo)
        PROVE  todo' \in SoundTasks'
    <2>1. tasks \in SoundTasks'
      BY <1>2, SoundStill
    <2> QED
      BY Zenon, <1>2, <2>1, TodoStaysSound
  <1>3. ASSUME todo' = todo, local' = local, op' = op
        PROVE  todo' \in SoundTasks'
    BY <1>1, <1>3, SoundStill DEF FilesStay
  <1>4. CASE \E o \in Operations : Begin(o)
    <2>1. PICK o \in Operations : Begin(o)
      BY <1>4
    <2>2. op' = o /\ todo' = Plan(o)
      BY <2>1 DEF Begin
    <2>3. Planned(o) \subseteq SoundTask' /\ Plan(o) \in Seq(Planned(o))
      BY <2>2, LooseIsSound, PlanIsPlanned
    <2> QED
      BY <2>2, <2>3, SeqOfMore DEF SoundTasks
  <1>5. CASE \/ PrintsDirectory \/ ChangesDirectory \/ ChangesToParent \/ MakesDirectory
             \/ RemovesFile \/ RemovesDirectory \/ Stores \/ Retrieves \/ Returns
    <2>1. todo # <<>> /\ todo' = Tail(todo) /\ op' = op /\ FilesStay
      BY Zenon, <1>5, JustDone
    <2>2. Tail(todo) \in SoundTasks
      BY <2>1, NextIsSound
    <2> QED
      BY <2>1, <2>2, SoundStill
  <1>6. CASE clearWorkingDir \/ _downloadFromWorkingDir
    <2>1. PICK tasks \in RoundTrip : todo' = tasks \o Tail(todo)
      BY <1>6, ListedIsRoundTrip
    <2>2. tasks \in SoundTasks
      BY DEF RoundTrip
    <2>3. todo # <<>> /\ op' = op /\ local' = local
      BY <1>6 DEF clearWorkingDir, _downloadFromWorkingDir, ForEachListed, Replaced, IsNext, call
    <2> QED
      BY Zenon, <1>2, <2>1, <2>2, <2>3 DEF FilesStay
  <1>7. CASE _uploadToWorkingDir
    <2>1. PICK tasks \in SoundTasks : todo' = tasks \o Tail(todo)
      BY <1>7, UploadIsRoundTrip
    <2>2. todo # <<>> /\ op' = op /\ local' = local
      BY <1>7 DEF _uploadToWorkingDir, Replaced, IsNext, call
    <2> QED
      BY Zenon, <1>2, <2>1, <2>2 DEF FilesStay
  <1>8. CASE EntersTarget
    <2>1. /\ todo # <<>> /\ op' = op /\ local' = local /\ Head(todo).do = "target"
          /\ todo' = RemovedTarget \o Tail(todo)
      BY <1>8 DEF EntersTarget, Replaced, IsNext, call
    <2>2. op.name = "removeDir" /\ cwd \in Paths
      BY <2>1, NextIsSound DEF SoundTask
    <2>3. RemovedTarget \in SoundTasks
      BY <2>2, TargetIsRemoved
    <2> QED
      BY Zenon, <1>2, <2>1, <2>3 DEF FilesStay
  <1>9. CASE ensureLocalDirectory
    <2>1. /\ todo # <<>> /\ op' = op
          /\ todo' = <<Task("fetch", <<>>, Head(todo).file, None)>> \o Tail(todo)
      BY <1>9 DEF ensureLocalDirectory, Replaced, IsNext, call
    <2>2. PICK file \in Seq(AllParts) : file = Head(todo).file
      BY <2>1, NextIsSound DEF Tasks
    <2>3. Task("fetch", <<>>, file, None) \in SoundTask
      BY InsideTasks
    <2>4. <<Task("fetch", <<>>, file, None)>> \in SoundTasks
      BY <2>3 DEF SoundTasks
    <2>5. FilesStay
      <3>1. \/ local' = local
            \/ local[file] = "none" /\ local' = [local EXCEPT ![file] = "dir"]
        BY <1>9, <2>2 DEF ensureLocalDirectory
      <3>2. local \in Trees /\ "none" \notin FileKinds
        BY DEF Based, HomeInv, Placed, FileKinds
      <3> QED
        BY <3>1, <3>2 DEF FilesStay, Trees
    <2> QED
      BY Zenon, <1>2, <2>1, <2>2, <2>4, <2>5
  <1>10. CASE Fails
    <2>1. CASE /\ todo # <<>> /\ op' = op /\ todo' = Tail(todo) /\ local' = local
      <3>1. Tail(todo) \in SoundTasks
        BY <2>1, NextIsSound
      <3> QED
        BY <2>1, <3>1, SoundStill DEF FilesStay
    <2>2. CASE \E task \in LooseTask : task.do = "return" /\ todo' = <<task>>
      <3>1. PICK task \in SoundTask' : todo' = <<task>>
        BY <2>2, LooseIsSound
      <3> QED
        BY <3>1 DEF SoundTasks
    <2> QED
      BY <1>1, <1>10, <2>1, <2>2, FailureLeaves
  <1>11. CASE Reconnects
    BY <1>1, <1>11 DEF Reconnects
  <1>12. CASE Closes \/ UNCHANGED vars
    BY <1>3, <1>12 DEF Closes, vars, call
  <1> QED
    BY Zenon, <1>4, <1>5, <1>6, <1>7, <1>8, <1>9, <1>10, <1>11, <1>12 DEF DirectoryNext

\* Tasks that can begin anywhere can begin here.
LEMMA LooseIsSited ==
    ASSUME NEW tasks \in LooseTasks, cwd' \in Paths, todo' = tasks
    PROVE  Sited'
  <1>1. PICK path \in Paths : path = cwd'
    OBVIOUS
  <1>2. Here(path) \in RightPlaces
    BY LeadsType DEF RightPlaces, Here
  <1>3. Leading!Fold(Here(path), tasks) \in RightPlaces
    BY Zenon, <1>2, LeadsType, Leading!FoldInto DEF LooseTasks
  <1>4. FoldLeft(Leads, Here(path), tasks) \in RightPlaces
    BY Zenon, <1>3, LeadingIs
  <1>5. Located'
    BY <1>1, <1>4 DEF Located, RightPlaces
  <1>6. LooseTask \subseteq StraightTask'
    BY DEF LooseTask, StraightTask
  <1>7. todo' \in StraightTasks'
    BY <1>6, SeqOfMore DEF LooseTasks, StraightTasks
  <1> QED
    BY <1>5, <1>7 DEF Sited

\* The server is then where the task has led.
LEMMA DoneLeads ==
    ASSUME Based, Sited,
           \/ PrintsDirectory \/ ChangesDirectory \/ ChangesToParent \/ MakesDirectory
           \/ RemovesFile \/ RemovesDirectory \/ Stores \/ Retrieves \/ Returns
    PROVE  \/ Leads(Here(cwd), Head(todo)) = Here(cwd')
           \/ Leads(Here(cwd), Head(todo)).is = "unknown"
  <1>1. todo # <<>> /\ Located
    BY JustDone DEF Sited
  <1>2. CASE PrintsDirectory \/ MakesDirectory \/ RemovesFile \/ RemovesDirectory \/ Stores \/ Retrieves
    <2>1. Head(todo).do \in {"pwd", "mkd", "dele", "rmd", "stor", "retr"} /\ cwd' = cwd
      BY <1>2 DEF PrintsDirectory, MakesDirectory, RemovesFile, RemovesDirectory, Stores, Retrieves,
                  Done, Replaced, IsNext, server
    <2> QED
      BY <1>1, <2>1, NextLeads
  <1>3. CASE ChangesDirectory
    <2>1. Head(todo).do = "cd" /\ cwd' = Follow(Target)
      BY <1>3 DEF ChangesDirectory, Done, Replaced, IsNext
    <2>2. CASE Head(todo).at # None
      <3>1. /\ Head(todo) \in SoundTask /\ cwd \in Paths /\ cwd \in Seq(Names)
        BY <1>1, NextIsSound, PathsAre
      <3>2. PICK n \in Names : Head(todo).arg = <<n>> /\ Target = Append(cwd, n)
        BY <2>1, <2>2, <3>1, EntryIsInside
      <3>3. cwd \o Head(todo).arg = Append(cwd, n)
        <4>1. cwd \o <<n>> = Append(cwd, n)
          BY <3>1
        <4> QED
          BY Zenon, <3>2, <4>1
      <3>4. Leads(Here(cwd), Head(todo)) = Here(Append(cwd, n)) /\ Head(todo).at = cwd
        <4>1. Belongs(Here(cwd), Head(todo)) /\ Leads(Here(cwd), Head(todo)) = Here(cwd \o Head(todo).arg)
          BY <1>1, <2>1, <2>2, NextLeads
        <4> QED
          BY Zenon, <2>2, <3>3, <4>1 DEF Belongs, Here
      <3>5. Kind(remote, Append(cwd, n)) # "link"
        <4>1. todo \in Seq(StraightTask)
          BY DEF Sited, StraightTasks
        <4>2. Head(todo) \in StraightTask
          BY <1>1, <4>1, HeadThenTail
        <4> QED
          BY Zenon, <2>1, <2>2, <3>3, <3>4, <4>2 DEF StraightTask
      <3> QED
        BY <2>1, <3>2, <3>4, <3>5 DEF Follow
    <2>3. CASE Head(todo).at = None
      BY <1>1, <2>1, <2>3, NextLeads
    <2> QED
      BY <2>2, <2>3
  <1>4. CASE ChangesToParent
    <2>1. Head(todo).do = "cdup" /\ cwd' = Parent(cwd)
      BY <1>4 DEF ChangesToParent, Done, Replaced, IsNext
    <2> QED
      BY <1>1, <2>1, NextLeads
  <1>5. CASE Returns
    <2>1. Head(todo).do = "return"
      BY <1>5 DEF Returns, IsNext
    <2> QED
      BY <1>1, <2>1, NextLeads
  <1> QED
    BY <1>2, <1>3, <1>4, <1>5

\* An operation keeps to its place as long as no upload meets a link.
LEMMA SitedNext ==
    ASSUME Based, Sited, NoLinkInTheWay, [DirectoryNext]_vars
    PROVE  Sited'
  <1>1. LinksOnlyGo /\ cwd' \in Paths
    <2>1. Kind(remote', cwd') = "dir" /\ LinksOnlyGo
      BY Zenon, RemoteNext
    <2> QED
      BY <2>1, KindIs
  <1>2. <<>> \in LooseTasks
    BY DEF LooseTasks
  <1>3. CASE \E o \in Operations : Begin(o)
    <2>1. PICK o \in Operations : todo' = Plan(o)
      BY <1>3 DEF Begin
    <2>2. Plan(o) \in LooseTasks
      <3>1. Planned(o) \subseteq LooseTask
        BY DEF Planned
      <3> QED
        BY <3>1, PlanIsPlanned, SeqOfMore DEF LooseTasks
    <2> QED
      BY <1>1, <2>1, <2>2, LooseIsSited
  <1>4. CASE \/ PrintsDirectory \/ ChangesDirectory \/ ChangesToParent \/ MakesDirectory
             \/ RemovesFile \/ RemovesDirectory \/ Stores \/ Retrieves \/ Returns
    BY Zenon, <1>1, <1>4, JustDone, DoneLeads, DoneStaysSited
  <1>5. ASSUME NEW tasks \in RoundTrip, todo # <<>>, remote' = remote, cwd' = cwd,
               Head(todo).do \notin {"cd", "cdup", "target", "return"}, todo' = tasks \o Tail(todo)
        PROVE  Sited'
    <2>1. tasks \in StraightTasks /\ Leading!Fold(Here(cwd), tasks) = Here(cwd)
      BY Zenon DEF RoundTrip
    <2> QED
      BY Zenon, <1>5, <2>1, MoreStaysSited
  <1>6. CASE clearWorkingDir \/ _downloadFromWorkingDir
    <2>1. PICK tasks \in RoundTrip : todo' = tasks \o Tail(todo)
      BY <1>6, ListedIsRoundTrip
    <2>2. todo # <<>> /\ Head(todo).do \in {"clear", "fetch"} /\ remote' = remote /\ cwd' = cwd
      BY <1>6 DEF clearWorkingDir, _downloadFromWorkingDir, ForEachListed, IsNext, server
    <2> QED
      BY <1>5, <2>1, <2>2
  <1>7. CASE _uploadToWorkingDir
    <2>1. PICK tasks \in RoundTrip : todo' = tasks \o Tail(todo)
      BY <1>7, UploadIsRoundTrip
    <2>2. todo # <<>> /\ Head(todo).do = "upload" /\ remote' = remote /\ cwd' = cwd
      BY <1>7 DEF _uploadToWorkingDir, IsNext, server
    <2> QED
      BY Zenon, <1>5, <2>1, <2>2
  <1>8. CASE EntersTarget
    <2>1. /\ todo # <<>> /\ Head(todo).do = "target" /\ cwd' = cwd
          /\ todo' = RemovedTarget \o Tail(todo)
      BY <1>8 DEF EntersTarget, Replaced, IsNext, server
    <2>2. cwd \in Paths
      BY <2>1, NextIsSound
    <2>3. /\ RemovedTarget \in StraightTasks'
          /\ Leading!Fold(Here(cwd), RemovedTarget).is # "wrong"
          /\ RemovedTarget \in Seq(Tasks)
      BY <1>1, <2>2, TargetIsRemoved, StraightStill, SoundAreTasks
    <2>4. /\ Leads(Here(cwd), Head(todo)).is = "unknown"
          /\ Leads(Here(cwd), Head(todo)) \in Places
      BY <2>1, NextLeads DEF Sited
    <2>5. Leading!Fold(Here(cwd), RemovedTarget) \in Places
      BY Zenon, <2>2, <2>3, LeadsType, Leading!FoldType
    <2>6. <<Leads(Here(cwd), Head(todo)), Leading!Fold(Here(cwd), RemovedTarget)>> \in Vaguer
      BY <2>3, <2>4, <2>5, VaguerIs
    <2>7. <<Leads(Here(cwd), Head(todo)), Leading!Fold(Here(cwd'), RemovedTarget)>> \in Vaguer
      BY <2>1, <2>6
    <2> QED
      BY Zenon, <1>1, <2>1, <2>3, <2>7, TodoStaysSited
  <1>9. CASE ensureLocalDirectory
    <2>1. /\ todo # <<>> /\ Head(todo).do = "download" /\ remote' = remote /\ cwd' = cwd
          /\ todo' = <<Task("fetch", <<>>, Head(todo).file, None)>> \o Tail(todo)
      BY <1>9 DEF ensureLocalDirectory, Replaced, IsNext, server
    <2>2. PICK file \in Seq(AllParts) : file = Head(todo).file
      BY <2>1, NextIsSound DEF Tasks
    <2>3. cwd \in Paths /\ cwd \in Seq(AllParts)
      BY <2>1, NextIsSound, PathIsParts
    <2>4. Task("fetch", <<>>, file, None) \in InsideTask
      BY InsideTasks
    <2>5. <<Task("fetch", <<>>, file, None)>> \in RoundTrip
      BY Zenon, <2>3, <2>4, InsideTasks, RoundTrips
    <2> QED
      BY Zenon, <1>5, <2>1, <2>2, <2>5
  <1>10. CASE Fails
    <2>1. CASE todo' = Tail(todo) /\ Head(todo).do = "mkd" /\ cwd' = cwd
      <3>1. todo # <<>>
        BY <1>10, FailureLeaves
      <3>2. Leads(Here(cwd), Head(todo)) = Here(cwd')
        BY <2>1, <3>1, NextLeads DEF Sited
      <3> QED
        BY Zenon, <1>1, <2>1, <3>1, <3>2, DoneStaysSited
    <2>2. CASE todo' = <<>>
      BY <1>1, <1>2, <2>2, LooseIsSited
    <2>3. CASE \E task \in LooseTask : todo' = <<task>>
      <3>1. \A task \in LooseTask : <<task>> \in LooseTasks
        BY DEF LooseTasks
      <3> QED
        BY Zenon, <1>1, <2>3, <3>1, LooseIsSited
    <2> QED
      BY <1>10, <2>1, <2>2, <2>3, FailureLeaves
  <1>11. CASE Reconnects
    <2>1. todo' = <<>>
      BY <1>11 DEF Reconnects
    <2> QED
      BY <1>1, <1>2, <2>1, LooseIsSited
  <1>12. CASE Closes \/ UNCHANGED vars
    <2>1. todo' = todo /\ cwd' = cwd /\ remote' = remote
      BY <1>12 DEF Closes, vars, server
    <2>2. todo' \in StraightTasks'
      BY <1>1, <2>1, StraightStill DEF Sited
    <2> QED
      BY <2>1, <2>2 DEF Sited, Located
  <1> QED
    BY Zenon, <1>3, <1>4, <1>6, <1>7, <1>8, <1>9, <1>10, <1>11, <1>12 DEF DirectoryNext

LEMMA TypedNext ==
    ASSUME Based, Typed, [DirectoryNext]_vars
    PROVE  Typed'
  <1>1. remote \in Trees /\ MaxOperations \in Nat
    <2>1. MaxOperations \in Nat
      BY Zenon, DirectoryAssumption
    <2> QED
      BY <2>1 DEF Based, HomeInv, Placed
  <1>2. CASE \E o \in Operations : Begin(o)
    <2>1. PICK o \in Operations : Begin(o)
      BY <1>2
    <2>2. calls' \in 0 .. MaxOperations
      BY <1>1, <2>1 DEF Begin, Typed
    <2>3. open' \in BOOLEAN /\ astray' \in BOOLEAN
      BY Zenon, <2>1 DEF Begin, session, Typed
    <2> QED
      BY <1>1, <2>1, <2>2, <2>3 DEF Begin, Typed
  <1>3. CASE \/ PrintsDirectory \/ ChangesDirectory \/ ChangesToParent \/ MakesDirectory
             \/ RemovesFile \/ RemovesDirectory \/ Stores \/ Retrieves
    BY <1>3 DEF PrintsDirectory, ChangesDirectory, ChangesToParent, MakesDirectory, RemovesFile,
                RemovesDirectory, Stores, Retrieves, Done, Replaced, session, call, Typed
  <1>4. CASE clearWorkingDir \/ EntersTarget \/ _uploadToWorkingDir \/ ensureLocalDirectory \/ _downloadFromWorkingDir
    BY <1>4 DEF clearWorkingDir, EntersTarget, _uploadToWorkingDir, ensureLocalDirectory,
                _downloadFromWorkingDir, ForEachListed, Replaced, session, call, Typed
  <1>5. CASE Fails
    <2>1. result' \in {result, "error"}
      BY <1>5 DEF Fails
    <2> QED
      BY <1>5, <2>1 DEF Fails, session, call, Typed
  <1>6. CASE Returns
    <2>1. astray' \in BOOLEAN
      BY Zenon, <1>6 DEF Returns, Typed
    <2> QED
      BY <1>6, <2>1 DEF Returns, session, call, Typed
  <1>7. CASE Closes \/ Reconnects \/ UNCHANGED vars
    BY Zenon, <1>1, <1>7 DEF Closes, Reconnects, vars, session, call, Typed
  <1> QED
    BY Zenon, <1>2, <1>3, <1>4, <1>5, <1>6, <1>7 DEF DirectoryNext

LEMMA BasedNext ==
    ASSUME Based, op.name # "uploadFromDir" => Sited, [DirectoryNext]_vars
    PROVE  Based'
  <1>1. HomeInv'
    BY Zenon, HomeNext DEF Based
  <1>2. IsTree(remote') /\ LinksOnlyGo /\ Kind(remote', cwd') = "dir"
    BY Zenon, RemoteNext
  <1>3. todo' \in SoundTasks'
    BY Zenon, SoundNext
  <1>4. style' = style
    BY DEF DirectoryNext, Begin, PrintsDirectory, ChangesDirectory, ChangesToParent, MakesDirectory,
           RemovesFile, RemovesDirectory, Stores, Retrieves, clearWorkingDir, EntersTarget,
           _uploadToWorkingDir, ensureLocalDirectory, _downloadFromWorkingDir, ForEachListed, Done,
           Replaced, Fails, Returns, Closes, Reconnects, vars, session
  <1>5. DosIsPlain'
    BY <1>2, <1>4 DEF Based, DosIsPlain, LinksOnlyGo
  <1> QED
    BY <1>1, <1>2, <1>3, <1>5 DEF Based

\* Operations other than uploads meet no link, and none is in the way when one
\* begins.
LEMMA DirectoryInvNext == DirectoryInv /\ [DirectoryNext]_vars => DirectoryInv'
  <1> SUFFICES ASSUME DirectoryInv, [DirectoryNext]_vars
               PROVE  DirectoryInv'
    OBVIOUS
  <1>1. Based' /\ Typed'
    BY Zenon, BasedNext, TypedNext DEF DirectoryInv
  <1>2. ASSUME op'.name # "uploadFromDir"
        PROVE  Sited'
    <2>1. CASE op.name # "uploadFromDir"
      <3>1. ~IsNext("upload")
        <4> SUFFICES ASSUME todo # <<>>, Head(todo).do = "upload"
                     PROVE  FALSE
          BY DEF IsNext
        <4>1. Head(todo) \in SoundTask
          BY NextIsSound DEF DirectoryInv
        <4> QED
          BY <2>1, <4>1 DEF SoundTask
      <3> QED
        BY Zenon, <2>1, <3>1, SitedNext DEF DirectoryInv, NoLinkInTheWay
    <2>2. CASE op' = op
      BY <1>2, <2>1, <2>2
    <2>3. CASE op' # op
      <3>1. (\E o \in Operations : Begin(o)) \/ Reconnects
        BY <2>3 DEF DirectoryNext, PrintsDirectory, ChangesDirectory, ChangesToParent, MakesDirectory,
             RemovesFile, RemovesDirectory, Stores, Retrieves, clearWorkingDir, EntersTarget,
             _uploadToWorkingDir, ensureLocalDirectory, _downloadFromWorkingDir, ForEachListed, Done,
             Replaced, Fails, Returns, Closes, vars, call
      <3>2. todo' \in LooseTasks
        <4>1. <<>> \in LooseTasks
          BY DEF LooseTasks
        <4>2. ASSUME NEW o \in Operations
              PROVE  Plan(o) \in LooseTasks
          <5>1. Planned(o) \subseteq LooseTask
            BY DEF Planned
          <5> QED
            BY <5>1, PlanIsPlanned, SeqOfMore DEF LooseTasks
        <4> QED
          BY <3>1, <4>1, <4>2 DEF Begin, Reconnects
      <3>3. cwd' \in Paths
        BY <1>1 DEF Based, HomeInv, Placed
      <3> QED
        BY Zenon, <3>2, <3>3, LooseIsSited
    <2> QED
      BY <2>2, <2>3
  <1> QED
    BY <1>1, <1>2 DEF DirectoryInv

LEMMA DirectoryInvInit == DirectoryInit => DirectoryInv /\ Sited
  <1> SUFFICES ASSUME DirectoryInit
               PROVE  DirectoryInv /\ Sited
    OBVIOUS
  <1>1. remote \in Trees /\ IsTree(remote) /\ MaxOperations \in Nat
    <2>1. RemoteTrees \subseteq {tree \in Trees : IsTree(tree)} /\ MaxOperations \in Nat
      BY Zenon, DirectoryAssumption
    <2> QED
      BY <2>1 DEF DirectoryInit
  <1>2. <<>> \in Paths /\ cwd = <<>> /\ todo = <<>>
    BY PathIsParts DEF DirectoryInit
  <1>3. DosIsPlain
    <2> SUFFICES ASSUME style = "dos", NEW p \in Paths
                 PROVE  remote[p] # "link"
      BY DEF DosIsPlain
    <2>1. Listable(remote)
      BY DEF DirectoryInit
    <2> QED
      BY <1>1, <2>1 DEF Listable, IsTree, InDirectories
  <1>4. Based
    <2>1. HomeInv
      BY HomeInit
    <2>2. todo \in SoundTasks
      BY <1>2 DEF SoundTasks
    <2> QED
      BY <1>1, <1>2, <1>3, <2>1, <2>2 DEF Based, IsTree, InDirectories, Kind
  <1>5. Typed
    <2>1. calls \in 0 .. MaxOperations
      BY <1>1 DEF DirectoryInit
    <2>2. open \in BOOLEAN /\ astray \in BOOLEAN
      BY Zenon DEF DirectoryInit
    <2> QED
      BY <1>1, <2>1, <2>2 DEF DirectoryInit, Typed
  <1>6. Sited
    <2>1. Here(cwd) \in Places
      BY <1>2, LeadsType
    <2>2. Leading!Fold(Here(cwd), <<>>) = Here(cwd)
      BY Zenon, <2>1, LeadsType, Leading!FoldEmpty
    <2>3. FoldLeft(Leads, Here(cwd), todo) = Here(cwd)
      BY Zenon, <1>2, <2>2, LeadingIs
    <2>4. todo \in StraightTasks
      BY <1>2 DEF StraightTasks
    <2> QED
      BY <2>3, <2>4 DEF Sited, Located, Here
  <1> QED
    BY <1>4, <1>5, <1>6 DEF DirectoryInv

\* The server's files stay a tree and the working directory one of its
\* directories: commands act on paths below it that no link leads away from,
\* and what they remove is empty and not the directory the client is in.
THEOREM DirectoryTypeCorrect == DirectorySpec => []DirectoryTypeOK
  <1>1. DirectoryInv => DirectoryTypeOK
    BY DEF DirectoryInv, Based, Typed, HomeInv, Placed, IsTree, InDirectories, Parent, DirectoryTypeOK
  <1> QED
    BY <1>1, DirectoryInvInit, DirectoryInvNext, PTL DEF DirectorySpec

LEMMA SitedActsWhereListed == Based /\ Sited => ActsWhereListed
  <1> SUFFICES ASSUME Based, Sited, todo # <<>>, Head(todo).at # None
               PROVE  cwd = Head(todo).at
    BY DEF ActsWhereListed
  <1>1. Belongs(Here(cwd), Head(todo))
    BY NextLeads DEF Sited
  <1> QED
    BY <1>1 DEF Belongs, Here

\* A command for an entry of a listing is sent in the directory that was
\* listed, however deep the directories entered and left again in between,
\* whatever fails and whatever links there are, unless it is an upload that
\* sends it (clearWorkingDir, _downloadFromWorkingDir).
THEOREM RemovesAndDownloadsWhereListed ==
    DirectorySpec => [](op.name # "uploadFromDir" => ActsWhereListed)
  <1>1. DirectoryInv => (op.name # "uploadFromDir" => ActsWhereListed)
    BY SitedActsWhereListed DEF DirectoryInv
  <1> QED
    BY <1>1, DirectoryInvInit, DirectoryInvNext, PTL DEF DirectorySpec

\* So does an upload, as long as no directory it uploads meets a link of its
\* name (_uploadToWorkingDir).
THEOREM ActsWhereItListed == DirectorySpec /\ []NoLinkInTheWay => []ActsWhereListed
  <1>1. DirectoryInv /\ Sited => ActsWhereListed
    BY SitedActsWhereListed DEF DirectoryInv
  <1>2. DirectoryInv /\ Sited /\ NoLinkInTheWay /\ [DirectoryNext]_vars => Sited'
    BY Zenon, SitedNext DEF DirectoryInv
  <1> QED
    BY <1>1, <1>2, DirectoryInvInit, DirectoryInvNext, PTL DEF DirectorySpec

-----------------------------------------------------------------------------
(* What the server finds *)

LEMMA ArgumentsAre ==
    ASSUME NEW o \in Operations
    PROVE  /\ o.name \in {"removeDir", "ensureDir", "remove"} => o.arg # <<>>
           /\ o.name = "clearWorkingDir" => o.arg = <<>>
  <1>1. \A a \in Operations :
            /\ a.name \in {"removeDir", "ensureDir", "cd", "remove"} => a.arg # <<>>
            /\ a.name = "clearWorkingDir" => a.arg = <<>>
    BY Zenon, DirectoryAssumption
  <1> QED
    BY <1>1

LEMMA WalkFolds ==
    ASSUME cwd \in Paths, NEW arg \in Seq(Parts)
    PROVE  /\ Walk(arg) \in Seq(Names)
           /\ Walk(arg) = Fold(IF arg # <<>> /\ Head(arg) = "" THEN <<>> ELSE cwd, arg)
  <1> DEFINE base == IF arg # <<>> /\ Head(arg) = "" THEN <<>> ELSE cwd
  <1>1. base \in Seq(Names)
    <2>1. cwd \in Seq(Names) /\ <<>> \in Seq(Names)
      BY PathsAre
    <2> QED
      BY Zenon, <2>1
  <1> HIDE DEF base
  <1>2. FoldLeft(Step, base, arg) = Fold(base, arg)
    BY Zenon DEF FoldLeft, MapThenFoldSet, Max, Fold, Greatest
  <1>3. Fold(base, arg) \in Seq(Names)
    BY Zenon, <1>1, StepIs, FoldType
  <1>4. Walk(arg) = FoldLeft(Step, base, arg)
    BY Zenon DEF Walk, base
  <1> QED
    BY Zenon, <1>2, <1>3, <1>4 DEF base

\* Protecting a path from the server's loss of leading blanks leads to the
\* same place.
LEMMA ServerFinds ==
    ASSUME cwd \in Paths, NEW arg \in Seq(Parts), arg # <<>>
    PROVE  ServerPath(protectWhitespace(arg)) = Walk(arg)
  <1>1. Head(arg) \in Parts /\ arg = <<Head(arg)>> \o Tail(arg)
    BY HeadThenTail
  <1>2. Unblanked("") = "" /\ "" \notin DOMAIN Blanks
    BY Zenon, NamesAre DEF Unblanked
  <1>3. CASE Head(arg) \in DOMAIN Blanks
    <2>1. PICK slash \in Parts : slash = ""
      BY Zenon DEF Parts
    <2>2. PICK path \in Seq(Parts) : path = cwd
      BY Zenon, PathIsName
    <2>3. cwd \in Seq(Names) /\ <<>> \in Seq(Names)
      BY PathsAre
    <2>4. <<slash>> \in Seq(Parts) /\ <<slash>> \o path \in Seq(Parts) /\ path \o arg \in Seq(Parts)
          /\ (<<slash>> \o path) \o arg \in Seq(Parts)
      OBVIOUS
    <2>5. (<<slash>> \o path) \o arg = <<slash>> \o (path \o arg)
      BY <2>4, ConcatAssociative
    <2>6. /\ Head(<<slash>> \o (path \o arg)) = slash
          /\ Tail(<<slash>> \o (path \o arg)) = path \o arg
          /\ <<slash>> \o (path \o arg) # <<>>
      BY <2>4, HeadOfAbsolute
    <2>7. PICK full \in Seq(Parts) : full = (<<slash>> \o path) \o arg
      BY Zenon, <2>4
    <2>8. protectWhitespace(arg) = full
      BY Zenon, <1>3, <2>1, <2>2, <2>7 DEF protectWhitespace
    <2>9. Head(full) = "" /\ full # <<>> /\ full = <<"">> \o Tail(full)
      BY Zenon, <2>1, <2>5, <2>6, <2>7
    <2>10. ServerPath(full) = Walk(full)
      BY Zenon, <1>2, <2>9 DEF ServerPath
    <2>11. Walk(full) = Fold(<<>>, full)
      BY Zenon, <2>9, WalkFolds
    <2>12. Fold(<<>>, (<<slash>> \o path) \o arg)
              = Fold(Fold(<<>>, <<slash>> \o path), arg)
      BY Zenon, <2>3, <2>4, StepIs, FoldConcat
    <2>13. Fold(<<>>, <<slash>> \o path) = Fold(Fold(<<>>, <<slash>>), path)
      BY Zenon, <2>3, <2>4, StepIs, FoldConcat
    <2>14. Fold(<<>>, <<slash>>) = Step(<<>>, slash)
      BY Zenon, <2>3, StepIs, FoldOne
    <2>15. Step(<<>>, slash) = <<>>
      BY Zenon, <2>1, <2>3, StepIs
    <2>16. Fold(<<>>, path) = <<>> \o path
      BY Zenon, <2>2, <2>3, WalkNames
    <2>17. <<>> \o path = path
      OBVIOUS
    <2>18. Walk(full) = Fold(cwd, arg)
      BY Zenon, <2>2, <2>7, <2>11, <2>12, <2>13, <2>14, <2>15, <2>16, <2>17
    <2>19. Head(arg) # ""
      BY Zenon, <1>2, <1>3
    <2>20. Walk(arg) = Fold(cwd, arg)
      BY Zenon, <2>19, WalkFolds
    <2> QED
      BY Zenon, <2>8, <2>10, <2>18, <2>20
  <1>4. CASE Head(arg) \notin DOMAIN Blanks
    <2>1. protectWhitespace(arg) = arg
      BY <1>4 DEF protectWhitespace
    <2>2. Unblanked(Head(arg)) = Head(arg)
      BY <1>4 DEF Unblanked
    <2>3. ServerPath(arg) = Walk(<<Head(arg)>> \o Tail(arg))
      BY Zenon, <2>2 DEF ServerPath
    <2> QED
      BY Zenon, <1>1, <2>1, <2>3
  <1> QED
    BY <1>3, <1>4

LEMMA FollowHere ==
    ASSUME cwd \in Paths, remote[cwd] = "dir"
    PROVE  Follow(Walk(<<>>)) = cwd
  <1>1. cwd \in Seq(Names)
    BY PathsAre
  <1>2. PICK none \in Seq(Parts) : none = <<>>
    <2>1. <<>> \in Seq(Parts)
      OBVIOUS
    <2> QED
      BY Zenon, <2>1
  <1>3. Walk(none) = Fold(cwd, none)
    BY Zenon, <1>2, WalkFolds
  <1>4. Fold(cwd, none) = cwd
    BY Zenon, <1>1, <1>2, StepIs, FoldEmpty
  <1>5. Kind(remote, cwd) # "link"
    BY DEF Kind
  <1> QED
    BY <1>2, <1>3, <1>4, <1>5 DEF Follow

LEMMA PrefixIs ==
    ASSUME NEW g \in Seq(Names), NEW p \in Seq(Names)
    PROVE  /\ IsPrefix(g, g)
           /\ IsPrefix(g, p) => \A n \in Names : IsPrefix(g, Append(p, n)) /\ Append(p, n) # g
  <1>1. IsPrefix(g, g)
    BY DEF IsPrefix
  <1>2. ASSUME IsPrefix(g, p), NEW n \in Names
        PROVE  IsPrefix(g, Append(p, n)) /\ Append(p, n) # g
    <2>1. Len(g) <= Len(p) /\ SubSeq(g, 1, Len(g)) = SubSeq(p, 1, Len(g))
      BY <1>2 DEF IsPrefix
    <2>2. PICK q \in Seq(Names) : q = Append(p, n)
      BY Zenon, StepIs
    <2>3. Len(q) = Len(p) + 1 /\ \A i \in 1 .. Len(p) : q[i] = p[i]
      BY <2>2
    <2>4. SubSeq(q, 1, Len(g)) = SubSeq(p, 1, Len(g))
      <3>1. Len(g) \in Nat /\ Len(g) <= Len(p) /\ Len(g) <= Len(q)
        BY <2>1, <2>3
      <3>2. \A i \in 1 .. Len(g) : i \in 1 .. Len(p) /\ q[i] = p[i]
        BY <2>3, <3>1
      <3>3. /\ SubSeq(q, 1, Len(g)) = [i \in 1 .. Len(g) |-> q[i]]
            /\ SubSeq(p, 1, Len(g)) = [i \in 1 .. Len(g) |-> p[i]]
        BY <3>1
      <3> QED
        BY <3>2, <3>3
    <2>5. q # g /\ Len(g) <= Len(q)
      BY <2>1, <2>3
    <2> QED
      BY <2>1, <2>2, <2>4, <2>5 DEF IsPrefix
  <1> QED
    BY <1>1, <1>2

-----------------------------------------------------------------------------
(* The tasks of a removal *)

LEMMA LedIs ==
    ASSUME NEW S
    PROVE  /\ Led(<<>>)
           /\ \A a \in S : a.do \notin Listings => Led(<<a>>)
           /\ \A a, b \in S : a.do = "cd" /\ Precedes(a, b) => Led(<<a, b>>)
           /\ \A s, t \in Seq(S) : Led(s) /\ Led(t) => Led(s \o t)
  <1>1. Led(<<>>)
    BY DEF Led
  <1>2. ASSUME NEW a \in S, a.do \notin Listings
        PROVE  Led(<<a>>)
    BY <1>2 DEF Led
  <1>3. ASSUME NEW a \in S, NEW b \in S, a.do = "cd", Precedes(a, b)
        PROVE  Led(<<a, b>>)
    <2>1. \A i \in 1 .. Len(<<a, b>>) : i = 1 \/ i = 2
      OBVIOUS
    <2> QED
      BY <1>3, <2>1 DEF Led, Listings
  <1>4. ASSUME NEW s \in Seq(S), NEW t \in Seq(S), Led(s), Led(t)
        PROVE  Led(s \o t)
    <2> SUFFICES ASSUME NEW i \in 1 .. Len(s \o t), (s \o t)[i].do \in Listings
                 PROVE  i > 1 /\ Precedes((s \o t)[i - 1], (s \o t)[i])
      BY DEF Led
    <2>1. CASE i <= Len(s)
      <3>1. i \in 1 .. Len(s) /\ (s \o t)[i] = s[i]
        BY <2>1
      <3>2. i > 1 /\ Precedes(s[i - 1], s[i])
        BY <1>4, <3>1 DEF Led
      <3>3. (s \o t)[i - 1] = s[i - 1]
        BY <3>1, <3>2
      <3> QED
        BY Zenon, <3>1, <3>2, <3>3
    <2>2. CASE i > Len(s)
      <3>1. i - Len(s) \in 1 .. Len(t) /\ (s \o t)[i] = t[i - Len(s)]
        BY <2>2
      <3>2. i - Len(s) > 1 /\ Precedes(t[(i - Len(s)) - 1], t[i - Len(s)])
        BY <1>4, <3>1 DEF Led
      <3>3. (s \o t)[i - 1] = t[(i - Len(s)) - 1]
        BY <3>1, <3>2
      <3> QED
        BY <3>1, <3>2, <3>3
    <2> QED
      BY <2>1, <2>2
  <1> QED
    BY Zenon, <1>1, <1>2, <1>3, <1>4

\* After the first task is one that is led, or the clearing it leads to.
LEMMA LedTail ==
    ASSUME NEW S, NEW s \in Seq(S), s # <<>>, Led(s)
    PROVE  /\ Head(s).do \notin Listings
           /\ \/ Led(Tail(s))
              \/ /\ Tail(s) # <<>> /\ Precedes(Head(s), Head(Tail(s))) /\ Head(Tail(s)).do \in Listings
                 /\ Led(Tail(Tail(s)))
  <1>1. Len(s) \in Nat \ {0} /\ Head(s) = s[1]
    BY EmptySeq
  <1>2. Head(s).do \notin Listings
    <2>1. 1 \in 1 .. Len(s) /\ ~(1 > 1)
      BY <1>1
    <2> QED
      BY <1>1, <2>1 DEF Led
  <1>3. PICK t \in Seq(S) : t = Tail(s)
    BY Zenon, HeadTailProperties
  <1>4. Len(t) = Len(s) - 1 /\ \A i \in 1 .. Len(t) : t[i] = s[i + 1]
    BY <1>1, <1>3
  <1>5. CASE t = <<>>
    BY Zenon, <1>2, <1>3, <1>5, LedIs
  <1>6. CASE t # <<>> /\ t[1].do \notin Listings
    <2>1. ASSUME NEW i \in 1 .. Len(t), t[i].do \in Listings
          PROVE  i > 1 /\ Precedes(t[i - 1], t[i])
      <3>1. i # 1
        BY <1>6, <2>1
      <3>2. i + 1 \in 1 .. Len(s) /\ s[i + 1].do \in Listings
        BY <1>1, <1>4, <2>1
      <3>3. Precedes(s[(i + 1) - 1], s[i + 1])
        BY <3>2 DEF Led
      <3>4. i - 1 \in 1 .. Len(t) /\ (i - 1) + 1 = (i + 1) - 1 /\ i > 1
        BY <3>1
      <3> QED
        BY <1>4, <3>3, <3>4
    <2>2. Led(t)
      BY <2>1 DEF Led
    <2> QED
      BY <1>2, <1>3, <2>2
  <1>7. CASE t # <<>> /\ t[1].do \in Listings
    <2>1. Len(t) \in Nat \ {0} /\ Head(t) = t[1] /\ t[1] = s[2]
      BY <1>4, <1>7, EmptySeq
    <2>2. Precedes(s[1], s[2])
      <3>1. 2 \in 1 .. Len(s) /\ 2 - 1 = 1
        BY <1>1, <1>4, <2>1
      <3> QED
        BY <1>7, <2>1, <3>1 DEF Led
    <2>3. PICK u \in Seq(S) : u = Tail(t)
      BY Zenon, <1>7, HeadTailProperties
    <2>4. Len(u) = Len(t) - 1 /\ \A i \in 1 .. Len(u) : u[i] = s[i + 2]
      <3>1. Len(u) = Len(t) - 1 /\ \A i \in 1 .. Len(u) : u[i] = t[i + 1]
        BY <2>1, <2>3
      <3>2. \A i \in 1 .. Len(u) : i + 1 \in 1 .. Len(t) /\ (i + 1) + 1 = i + 2
        BY <2>1, <3>1
      <3>3. \A i \in 1 .. Len(u) : u[i] = s[(i + 1) + 1]
        BY <1>4, <3>1, <3>2
      <3> QED
        BY <3>1, <3>2, <3>3
    <2>5. ASSUME NEW i \in 1 .. Len(u), u[i].do \in Listings
          PROVE  i > 1 /\ Precedes(u[i - 1], u[i])
      <3>1. i + 2 \in 1 .. Len(s) /\ s[i + 2].do \in Listings
        BY <1>1, <1>4, <2>1, <2>4, <2>5
      <3>2. Precedes(s[(i + 2) - 1], s[i + 2])
        BY <3>1 DEF Led
      <3>3. (i + 2) - 1 = i + 1
        OBVIOUS
      <3>4. i # 1
        <4>1. s[2].do \in Listings
          BY <1>7, <2>1
        <4>2. i = 1 => Precedes(s[2], s[3])
          BY <3>2
        <4> QED
          BY Zenon, <4>1, <4>2 DEF Precedes, Listings
      <3>5. i - 1 \in 1 .. Len(u) /\ (i - 1) + 2 = i + 1 /\ i > 1
        BY <3>4
      <3> QED
        BY <2>4, <3>2, <3>3, <3>5
    <2>6. Led(u)
      BY <2>5 DEF Led
    <2>7. Precedes(Head(s), Head(t)) /\ Head(t).do \in Listings
      BY Zenon, <1>1, <1>7, <2>1, <2>2
    <2> QED
      BY Zenon, <1>2, <1>3, <1>7, <2>3, <2>6, <2>7
  <1> QED
    BY <1>5, <1>6, <1>7

LEMMA LedTasksAre ==
    /\ <<>> \in LedTasks
    /\ \A a \in OwnTask : a.do \notin Listings => <<a>> \in LedTasks
    /\ \A a, b \in OwnTask : a.do = "cd" /\ Precedes(a, b) => <<a, b>> \in LedTasks
    /\ \A s, t \in LedTasks : s \o t \in LedTasks
  <1>1. PICK S : S = OwnTask
    OBVIOUS
  <1>2. <<>> \in Seq(S) /\ Led(<<>>)
    BY LedIs
  <1>3. ASSUME NEW a \in S, a.do \notin Listings
        PROVE  <<a>> \in Seq(S) /\ Led(<<a>>)
    <2>1. <<a>> \in Seq(S)
      OBVIOUS
    <2> QED
      BY Zenon, <1>3, <2>1, LedIs
  <1>4. ASSUME NEW a \in S, NEW b \in S, a.do = "cd", Precedes(a, b)
        PROVE  <<a, b>> \in Seq(S) /\ Led(<<a, b>>)
    <2>1. <<a, b>> \in Seq(S)
      OBVIOUS
    <2>2. Led(<<a, b>>)
      BY Zenon, <1>4, LedIs
    <2> QED
      BY Zenon, <2>1, <2>2
  <1>5. ASSUME NEW s \in Seq(S), NEW t \in Seq(S), Led(s), Led(t)
        PROVE  s \o t \in Seq(S) /\ Led(s \o t)
    <2>1. s \o t \in Seq(S)
      OBVIOUS
    <2>2. Led(s \o t)
      BY Zenon, <1>5, LedIs
    <2> QED
      BY Zenon, <2>1, <2>2
  <1>6. \A s : s \in LedTasks <=> s \in Seq(S) /\ Led(s)
    BY Zenon, <1>1 DEF LedTasks
  <1> QED
    BY Zenon, <1>1, <1>2, <1>3, <1>4, <1>5, <1>6

LEMMA FewAreLed ==
    <<>> \in LedTasks /\ \A a \in OwnTask : a.do \notin Listings => <<a>> \in LedTasks
  BY LedTasksAre

LEMMA FewAreLedNext ==
    (<<>> \in LedTasks /\ \A a \in OwnTask : a.do \notin Listings => <<a>> \in LedTasks)'
  BY FewAreLed, PTL

LEMMA FlattenIsLed ==
    ASSUME NEW n \in Nat, NEW ss \in [1 .. n -> LedTasks]
    PROVE  FlattenSeq(ss) \in LedTasks
  <1>1. LedTasks \subseteq Seq(OwnTask)
    BY Zenon DEF LedTasks
  <1>2. <<>> \in LedTasks /\ \A s, t \in LedTasks : s \o t \in LedTasks
    BY LedTasksAre
  <1> QED
    BY Zenon, <1>1, <1>2, FlattenInto, FlattenIs

LEMMA RemovalTasksAre ==
    ASSUME Removes, cwd \in Paths, goal \in Seq(Names), IsPrefix(goal, cwd), NEW n \in Names
    PROVE  /\ \A what \in {"cd", "dele", "rmd"} : Relative(what, <<n>>) \in OwnTask
           /\ \A what \in {"clear", "cdup"} : Command(what, <<>>) \in OwnTask
  <1>1. None # cwd
    BY NoneIsNoPath
  <1>2. ASSUME NEW what \in {"cd", "dele", "rmd"}
        PROVE  Relative(what, <<n>>) \in OwnTask
    <2>1. PICK task \in SoundTask : task = Relative(what, <<n>>)
      BY EntryTasks
    <2>2. task.do = what /\ task.at = cwd
      BY <2>1 DEF Relative, Task
    <2>3. task \in OwnTask
      BY Zenon, <1>1, <2>2 DEF OwnTask
    <2> QED
      BY <2>1, <2>3
  <1>3. ASSUME NEW what \in {"clear", "cdup"}
        PROVE  Command(what, <<>>) \in OwnTask
    <2>1. PICK task \in Tasks : task = Command(what, <<>>)
      BY PathIsParts, TaskType, InnerAreTasks DEF Commands
    <2>2. task.do = what /\ task.at = None
      BY <2>1 DEF Command, Task
    <2>3. task \in OwnTask
      BY Zenon, <2>2 DEF OwnTask, SoundTask
    <2> QED
      BY <2>1, <2>3
  <1> QED
    BY <1>2, <1>3

LEMMA ClearedIsLed ==
    ASSUME Removes, cwd \in Paths, goal \in Seq(Names), IsPrefix(goal, cwd), NEW file \in OwnFile
    PROVE  Cleared(file) \in LedTasks
  <1>1. PICK n \in Names : file.name = <<n>>
    BY OwnFileIs
  <1>2. PICK cd, dele, rmd, clear, cdup \in OwnTask :
            /\ cd = Relative("cd", <<n>>) /\ dele = Relative("dele", <<n>>)
            /\ rmd = Relative("rmd", <<n>>)
            /\ clear = Command("clear", <<>>) /\ cdup = Command("cdup", <<>>)
    <2>1. /\ Relative("cd", <<n>>) \in OwnTask /\ Relative("dele", <<n>>) \in OwnTask
          /\ Relative("rmd", <<n>>) \in OwnTask
          /\ Command("clear", <<>>) \in OwnTask /\ Command("cdup", <<>>) \in OwnTask
      BY RemovalTasksAre
    <2> QED
      BY Zenon, <2>1
  <1>3. cd.do = "cd" /\ dele.do = "dele" /\ rmd.do = "rmd" /\ cdup.do = "cdup"
    BY <1>2 DEF Relative, Command, Task
  <1>4. <<cd, clear>> \in LedTasks
    <2>1. Precedes(cd, clear)
      BY <1>2, <1>3 DEF Precedes, Command, Task
    <2> QED
      BY Zenon, <1>3, <2>1, LedTasksAre
  <1>5. <<dele>> \in LedTasks /\ <<rmd>> \in LedTasks /\ <<cdup>> \in LedTasks
    BY Zenon, <1>3, LedTasksAre DEF Listings
  <1>6. <<cd>> \o <<clear>> = <<cd, clear>>
    BY Zenon, OneThenOther
  <1>7. ((<<cd>> \o <<clear>>) \o <<cdup>>) \o <<rmd>> \in LedTasks
    <2>1. <<cd, clear>> \o <<cdup>> \in LedTasks
      BY Zenon, <1>4, <1>5, LedTasksAre
    <2>2. (<<cd, clear>> \o <<cdup>>) \o <<rmd>> \in LedTasks
      BY Zenon, <1>5, <2>1, LedTasksAre
    <2> QED
      BY Zenon, <1>6, <2>2
  <1>8. Cleared(file) = IF isDirectory(file) THEN ((<<cd>> \o <<clear>>) \o <<cdup>>) \o <<rmd>> ELSE <<dele>>
    BY Zenon, <1>1, <1>2 DEF Cleared, Enter
  <1> QED
    BY <1>5, <1>7, <1>8

\* The tasks of a removal stay what they are.
LEMMA OwnStill ==
    ASSUME FilesStay, op' = op, goal' = goal
    PROVE  OwnTask \subseteq OwnTask' /\ \A s \in LedTasks : s \in LedTasks'
  <1>1. SoundTask \subseteq SoundTask'
    BY SoundStill
  <1>2. OwnTask \subseteq OwnTask'
    BY Zenon, <1>1 DEF OwnTask, Removes
  <1>3. ASSUME NEW s \in LedTasks
        PROVE  s \in LedTasks'
    <2>1. s \in Seq(OwnTask) /\ Led(s)
      BY Zenon DEF LedTasks
    <2>2. s \in Seq(OwnTask')
      BY <1>2, <2>1, SeqOfMore
    <2>3. Led(s)'
      BY Zenon, <2>1 DEF Led, Precedes
    <2> QED
      BY Zenon, <2>2, <2>3 DEF LedTasks
  <1> QED
    BY <1>2, <1>3

LEMMA ClearIsOwn ==
    ASSUME op'.name \in {"removeDir", "clearWorkingDir"}
    PROVE  Command("clear", <<>>).do = "clear" /\ Command("clear", <<>>) \in OwnTask'
  <1>1. PICK task \in Tasks : task = Command("clear", <<>>)
    BY PathIsParts, TaskType, InnerAreTasks DEF Commands
  <1>2. task.do = "clear" /\ task.at = None
    BY <1>1 DEF Command, Task
  <1> QED
    BY Zenon, <1>1, <1>2 DEF OwnTask, SoundTask, Removes

LEMMA OwnGoesOn ==
    ASSUME todo \in LedTasks, todo # <<>>, todo' = Tail(todo), FilesStay, op' = op, goal' = goal,
           Head(todo).do = "cd" => IsPrefix(goal, cwd') /\ cwd' = Head(todo).at \o Head(todo).arg
    PROVE  Inside'
  <1>1. todo \in Seq(OwnTask) /\ Led(todo)
    BY Zenon DEF LedTasks
  <1>2. PICK rest \in Seq(OwnTask) : rest = Tail(todo)
    BY <1>1, HeadThenTail
  <1>3. CASE Led(rest)
    <2>1. rest \in LedTasks'
      BY <1>3, OwnStill DEF LedTasks
    <2> QED
      BY Zenon, <1>2, <2>1 DEF Inside
  <1>4. CASE ~Led(rest)
    <2>1. /\ rest # <<>> /\ Precedes(Head(todo), Head(rest)) /\ Led(Tail(rest))
          /\ Head(rest).do \in Listings
      BY Zenon, <1>1, <1>2, <1>4, LedTail
    <2>2. Tail(rest) \in Seq(OwnTask) /\ Head(rest) \in OwnTask
      BY <2>1, HeadThenTail
    <2>3. Tail(rest) \in LedTasks' /\ Head(rest) \in OwnTask'
      <3>1. Tail(rest) \in LedTasks
        BY Zenon, <2>1, <2>2 DEF LedTasks
      <3> QED
        BY <2>2, <3>1, OwnStill
    <2>4. IsPrefix(goal', cwd') /\ (Head(rest).do # "clear" => cwd' = goal' \o Head(rest).file)
      BY Zenon, <2>1 DEF Precedes
    <2> QED
      BY Zenon, <1>2, <2>1, <2>3, <2>4 DEF Inside
  <1> QED
    BY <1>3, <1>4

LEMMA RemovesOnly ==
    ASSUME remote \in Trees, OnlyRemoved, UNCHANGED <<op, goal, before>>,
           \/ remote' = remote
           \/ /\ remote' = [remote EXCEPT ![Target] = "none"] /\ IsPrefix(goal, Target)
              /\ op.name = "clearWorkingDir" => Target # goal
    PROVE  OnlyRemoved'
  <1>1. CASE remote' = remote
    BY <1>1 DEF OnlyRemoved, Changed
  <1>2. CASE /\ remote' = [remote EXCEPT ![Target] = "none"] /\ IsPrefix(goal, Target)
             /\ op.name = "clearWorkingDir" => Target # goal
    <2> SUFFICES ASSUME NEW p \in Paths, remote'[p] # before[p]
                 PROVE  remote'[p] = "none" /\ IsPrefix(goal, p) /\ (op.name = "clearWorkingDir" => p # goal)
      BY DEF OnlyRemoved, Changed
    <2>1. CASE p = Target
      BY <1>2, <2>1 DEF Trees
    <2>2. CASE p # Target
      BY <1>2, <2>2 DEF OnlyRemoved, Changed, Trees
    <2> QED
      BY <2>1, <2>2
  <1> QED
    BY <1>1, <1>2

LEMMA InsideIs ==
    ASSUME Based, todo # <<>>, Inside
    PROVE  /\ Head(todo) \in OwnTask
           /\ Removes => Head(todo).do \in {"cd", "cdup", "clear", "dele", "rmd", "return"}
           /\ Head(todo).do \in Listings =>
                 /\ IsPrefix(goal, cwd) /\ Tail(todo) \in LedTasks
                 /\ Head(todo).do # "clear" => cwd = goal \o Head(todo).file
           /\ Head(todo).do \notin Listings => todo \in LedTasks
  <1>1. Head(todo) \in OwnTask /\ (todo \in LedTasks => Head(todo).do \notin Listings)
    <2>1. CASE todo \in LedTasks
      <3>1. todo \in Seq(OwnTask) /\ Led(todo)
        BY Zenon, <2>1 DEF LedTasks
      <3> QED
        BY Zenon, <3>1, HeadThenTail, LedTail
    <2> QED
      BY <2>1 DEF Inside
  <1>2. Removes => Head(todo).do \in {"cd", "cdup", "clear", "dele", "rmd", "return"}
    BY Zenon, <1>1 DEF OwnTask
  <1> QED
    BY <1>1, <1>2 DEF Inside

\* An operation enters only entries of the directory it is about.
LEMMA EntersInside ==
    ASSUME Based, Sited, goal \in Seq(Names), Inside, ChangesDirectory
    PROVE  Inside'
  <1>1. todo # <<>> /\ todo' = Tail(todo) /\ op' = op /\ FilesStay
    BY Zenon, JustDone
  <1>2. Head(todo).do = "cd" /\ goal' = goal
    BY DEF ChangesDirectory, Done, Replaced, IsNext, call
  <1>3. todo \in LedTasks /\ Head(todo) \in OwnTask
    BY <1>1, <1>2, InsideIs DEF Listings
  <1>4. Head(todo).at # None /\ IsPrefix(goal, Head(todo).at)
    BY Zenon, <1>2, <1>3 DEF OwnTask
  <1>5. Head(todo) \in SoundTask /\ cwd \in Paths /\ cwd \in Seq(Names)
    BY <1>1, NextIsSound, PathsAre
  <1>6. Belongs(Here(cwd), Head(todo)) /\ Leads(Here(cwd), Head(todo)) = Here(cwd \o Head(todo).arg)
    BY <1>1, <1>2, <1>4, NextLeads DEF Sited
  <1>7. Head(todo).at = cwd
    BY <1>4, <1>6 DEF Belongs, Here
  <1>8. PICK n \in Names : Head(todo).arg = <<n>>
    BY <1>4, <1>5 DEF SoundTask
  <1>9. cwd' = cwd \o <<n>>
    <2>1. \/ Leads(Here(cwd), Head(todo)) = Here(cwd')
          \/ Leads(Here(cwd), Head(todo)).is = "unknown"
      BY Zenon, DoneLeads
    <2>2. PICK there : there = cwd \o Head(todo).arg
      BY Zenon
    <2>3. Leads(Here(cwd), Head(todo)).is = "known" /\ Leads(Here(cwd), Head(todo)).at = there
      BY <1>6, <2>2 DEF Here
    <2>4. cwd' = there
      BY <2>1, <2>3 DEF Here
    <2> QED
      BY Zenon, <1>8, <2>2, <2>4
  <1>10. cwd' = Append(cwd, n)
    <2>1. cwd \o <<n>> = Append(cwd, n)
      BY <1>5
    <2> QED
      BY <1>9, <2>1
  <1>11. IsPrefix(goal, cwd') /\ cwd' = Head(todo).at \o Head(todo).arg
    <2>1. IsPrefix(goal, cwd')
      BY <1>4, <1>5, <1>7, <1>10, PrefixIs
    <2> QED
      BY Zenon, <1>7, <1>8, <1>9, <2>1
  <1> QED
    BY Zenon, <1>1, <1>2, <1>3, <1>11, OwnGoesOn

\* What a removal removes is in the directory it is about, or this directory,
\* when it is removeDir that removes it.
LEMMA RemovesInside ==
    ASSUME Based, Sited, goal \in Seq(Names), Inside, OnlyRemoved,
           RemovesFile \/ RemovesDirectory
    PROVE  Inside' /\ OnlyRemoved'
  <1>1. todo # <<>> /\ todo' = Tail(todo) /\ op' = op /\ FilesStay
    BY Zenon, JustDone
  <1>2. /\ Head(todo).do \in {"dele", "rmd"} /\ goal' = goal /\ before' = before
        /\ RemovesFile => Head(todo).do = "dele"
        /\ remote' = [remote EXCEPT ![Target] = "none"]
    BY DEF RemovesFile, RemovesDirectory, Done, Replaced, IsNext, call
  <1>3. todo \in LedTasks /\ Head(todo) \in OwnTask
    BY <1>1, <1>2, InsideIs DEF Listings
  <1>4. Inside'
    BY Zenon, <1>1, <1>2, <1>3, OwnGoesOn
  <1>5. /\ Head(todo) \in SoundTask /\ cwd \in Paths /\ cwd \in Seq(Names) /\ remote \in Trees
        /\ Belongs(Here(cwd), Head(todo))
    BY <1>1, NextIsSound, NextLeads, PathsAre DEF Sited
  <1>6. CASE Head(todo).at # None
    <2>1. Head(todo).at = cwd /\ IsPrefix(goal, cwd)
      BY Zenon, <1>3, <1>5, <1>6 DEF Belongs, Here, OwnTask
    <2>2. PICK n \in Names : Target = Append(cwd, n)
      BY <1>2, <1>5, <1>6, EntryIsInside
    <2>3. IsPrefix(goal, Target) /\ Target # goal
      BY <1>5, <2>1, <2>2, PrefixIs
    <2>4. OnlyRemoved'
      BY Zenon, <1>1, <1>2, <1>5, <2>3, RemovesOnly
    <2> QED
      BY <1>4, <2>4
  <1>7. CASE Head(todo).at = None
    <2>1. Head(todo).do = "rmd" /\ Head(todo).arg = <<"">> \o goal /\ op.name = "removeDir"
      BY Zenon, <1>2, <1>3, <1>5, <1>7 DEF OwnTask, SoundTask
    <2>2. PICK p \in Paths : Head(todo).arg = <<"">> \o p
      BY Zenon, <1>5, <1>7, <2>1 DEF Belongs, FromParent
    <2>3. p = goal
      <3>1. p \in Seq(Names)
        BY PathsAre
      <3>2. Tail(<<"">> \o p) = p /\ Tail(<<"">> \o goal) = goal
        BY Zenon, <3>1, HeadOfAbsolute
      <3> QED
        BY Zenon, <2>1, <2>2, <3>2
    <2>4. Target = p
      BY Zenon, <1>5, <2>1, <2>2, TargetIs
    <2>5. IsPrefix(goal, Target)
      BY <2>3, <2>4, PrefixIs
    <2>6. OnlyRemoved'
      BY Zenon, <1>1, <1>2, <1>5, <2>1, <2>5, RemovesOnly
    <2> QED
      BY <1>4, <2>6
  <1> QED
    BY <1>6, <1>7

LEMMA ClearsInside ==
    ASSUME Based, Removes, goal \in Seq(Names), Inside, OnlyRemoved, clearWorkingDir
    PROVE  Inside' /\ OnlyRemoved'
  <1>1. /\ todo # <<>> /\ Head(todo).do = "clear" /\ Understood(Listed(cwd))
        /\ op' = op /\ goal' = goal /\ before' = before /\ local' = local /\ remote' = remote
    BY DEF clearWorkingDir, ForEachListed, Replaced, IsNext, call, server
  <1>2. cwd \in Paths /\ remote \in Trees /\ IsPrefix(goal, cwd) /\ Tail(todo) \in LedTasks
    BY <1>1, NextIsSound, InsideIs DEF Listings
  <1>3. Listing
    BY DEF Based, HomeInv, Placed, Listing
  <1>4. Len(Files) \in Nat /\ \A i \in 1 .. Len(Files) : Files[i] \in OwnFile
    BY <1>1, <1>3, FilesAreOwn DEF OwnFiles
  <1> DEFINE tasks == [i \in 1 .. Len(Files) |-> Cleared(Files[i])]
  <1>5. tasks \in [1 .. Len(Files) -> LedTasks]
    BY <1>2, <1>4, ClearedIsLed
  <1>6. todo' = FlattenSeq(tasks) \o Tail(todo)
    BY DEF clearWorkingDir, ForEachListed, Replaced
  <1> HIDE DEF tasks
  <1>7. FlattenSeq(tasks) \in LedTasks
    BY <1>4, <1>5, FlattenIsLed
  <1>8. FlattenSeq(tasks) \o Tail(todo) \in LedTasks
    BY Zenon, <1>2, <1>7, LedTasksAre
  <1>9. todo' \in LedTasks'
    BY <1>1, <1>6, <1>8, OwnStill DEF FilesStay
  <1>10. OnlyRemoved'
    BY <1>1, <1>2, RemovesOnly
  <1> QED
    BY <1>9, <1>10 DEF Inside

\* After a failure that leaves the server as it is there is at most the return.
LEMMA FailsInside ==
    ASSUME Based, Fails, Head(todo).do \notin {"mkd", "stor", "retr"}
    PROVE  /\ todo' \in LedTasks'
           /\ UNCHANGED <<remote, cwd, op, goal, before>>
  <1>1. Remains /\ op' = op /\ goal' = goal /\ before' = before
    BY DEF Fails, call
  <1>2. remote' = remote /\ cwd' = cwd
    BY <1>1 DEF Remains, server
  <1>3. <<>> \in LedTasks' /\ \A a \in OwnTask' : a.do \notin Listings => <<a>> \in LedTasks'
    BY FewAreLedNext
  <1>4. \A task \in LooseTask : task.do = "return" => task \in OwnTask'
    <2> SUFFICES ASSUME NEW task \in LooseTask, task.do = "return"
                 PROVE  task \in OwnTask'
      OBVIOUS
    <2>1. task \in SoundTask' /\ task.at = None
      BY LooseIsSound DEF LooseTask
    <2> QED
      BY Zenon, <2>1 DEF OwnTask
  <1>5. \/ todo' = <<>>
        \/ \E task \in LooseTask : task.do = "return" /\ todo' = <<task>>
    BY FailureLeaves
  <1>6. todo' \in LedTasks'
    <2>1. CASE todo' = <<>>
      BY <1>3, <2>1
    <2>2. CASE \E task \in LooseTask : task.do = "return" /\ todo' = <<task>>
      <3>1. PICK task \in LooseTask : task.do = "return" /\ todo' = <<task>>
        BY <2>2
      <3>2. task \in OwnTask' /\ task.do \notin Listings
        BY <1>4, <3>1 DEF Listings
      <3> QED
        BY Zenon, <1>3, <3>1, <3>2
    <2> QED
      BY <1>5, <2>1, <2>2
  <1> QED
    BY <1>1, <1>2, <1>6

\* A removal keeps to its directory as long as it has something to do.
LEMMA InsideNext ==
    ASSUME Based, Sited, Removes, goal \in Seq(Names), Inside, OnlyRemoved, todo # <<>>,
           [DirectoryNext]_vars
    PROVE  Inside' /\ OnlyRemoved' /\ goal' = goal /\ op' = op
  <1>1. Head(todo).do \in {"cd", "cdup", "clear", "dele", "rmd", "return"} /\ remote \in Trees
    BY NextIsSound, InsideIs
  <1>2. CASE Closes \/ UNCHANGED vars
    <2>1. UNCHANGED <<todo, remote, cwd, local, op, goal, before>>
      BY <1>2 DEF Closes, vars, server, call
    <2>2. FilesStay
      BY <2>1 DEF FilesStay
    <2>3. Inside'
      BY <2>1, <2>2, OwnStill DEF Inside
    <2>4. OnlyRemoved'
      BY <1>1, <2>1, RemovesOnly
    <2> QED
      BY <2>1, <2>3, <2>4
  <1>3. CASE ChangesDirectory
    <2>1. UNCHANGED <<remote, op, goal, before>>
      BY <1>3 DEF ChangesDirectory, Done, Replaced, call
    <2> QED
      BY <1>1, <1>3, <2>1, EntersInside, RemovesOnly
  <1>4. CASE ChangesToParent \/ Returns
    <2>1. UNCHANGED <<remote, op, goal, before>> /\ Head(todo).do \in {"cdup", "return"}
      BY <1>4 DEF ChangesToParent, Returns, Done, Replaced, IsNext, call
    <2>2. todo' = Tail(todo) /\ FilesStay
      BY Zenon, <1>4, JustDone
    <2>3. todo \in LedTasks
      BY <2>1, InsideIs DEF Listings
    <2> QED
      BY Zenon, <1>1, <2>1, <2>2, <2>3, OwnGoesOn, RemovesOnly
  <1>5. CASE RemovesFile \/ RemovesDirectory
    <2>1. op' = op /\ goal' = goal
      BY <1>5 DEF RemovesFile, RemovesDirectory, Done, Replaced, call
    <2> QED
      BY Zenon, <1>5, <2>1, RemovesInside
  <1>6. CASE clearWorkingDir
    <2>1. op' = op /\ goal' = goal
      BY <1>6 DEF clearWorkingDir, ForEachListed, Replaced, call
    <2> QED
      BY Zenon, <1>6, <2>1, ClearsInside
  <1>7. CASE Fails
    <2>1. todo' \in LedTasks' /\ UNCHANGED <<remote, cwd, op, goal, before>>
      BY <1>1, <1>7, FailsInside
    <2>2. OnlyRemoved'
      BY <1>1, <2>1, RemovesOnly
    <2> QED
      BY <2>1, <2>2 DEF Inside
  <1>8. CASE \/ \E o \in Operations : Begin(o)
             \/ PrintsDirectory \/ MakesDirectory \/ Stores \/ Retrieves \/ EntersTarget
             \/ _uploadToWorkingDir \/ ensureLocalDirectory \/ _downloadFromWorkingDir \/ Reconnects
    BY <1>1, <1>8 DEF Begin, PrintsDirectory, MakesDirectory, Stores, Retrieves, EntersTarget,
          _uploadToWorkingDir, ensureLocalDirectory, _downloadFromWorkingDir, ForEachListed, Done,
          Replaced, IsNext, Reconnects
  <1> QED
    BY Zenon, <1>2, <1>3, <1>4, <1>5, <1>6, <1>7, <1>8 DEF DirectoryNext

LEMMA WayIs ==
    /\ Way # <<>> /\ Head(Way) = ToTarget /\ Tail(Way) = <<AtTarget, Return>>
    /\ Tail(Way) # <<>> /\ Head(Tail(Way)) = AtTarget /\ Tail(Tail(Way)) = <<Return>>
    /\ <<Pwd>> \o Way # <<>> /\ Head(<<Pwd>> \o Way) = Pwd /\ Tail(<<Pwd>> \o Way) = Way
    /\ Excursion(<<ToTarget, AtTarget>>) = <<Pwd>> \o Way
    /\ ToTarget.do = "cd" /\ ToTarget.arg = op.arg
    /\ Pwd.do = "pwd" /\ AtTarget.do = "target" /\ Return.do = "return"
  <1>1. PICK S : S = {Pwd, ToTarget, AtTarget, Return}
    BY Zenon
  <1>2. PICK p, a, b, c \in S : p = Pwd /\ a = ToTarget /\ b = AtTarget /\ c = Return
    BY <1>1
  <1>3. Way = <<a, b, c>>
    BY <1>2 DEF Way
  <1>4. Excursion(<<ToTarget, AtTarget>>) = (<<p>> \o <<a, b>>) \o <<c>>
    BY Zenon, <1>2 DEF Excursion, Pwd, Return
  <1>5. /\ <<p>> \in Seq(S) /\ <<a, b>> \in Seq(S) /\ <<c>> \in Seq(S) /\ <<b, c>> \in Seq(S)
        /\ <<a, b, c>> \in Seq(S)
    OBVIOUS
  <1>6. /\ Head(<<a, b, c>>) = a /\ Tail(<<a, b, c>>) = <<b, c>> /\ <<a, b, c>> # <<>>
        /\ Head(<<b, c>>) = b /\ Tail(<<b, c>>) = <<c>> /\ <<b, c>> # <<>>
    BY <1>5
  <1>7. /\ Head(<<p>> \o <<a, b, c>>) = p /\ Tail(<<p>> \o <<a, b, c>>) = <<a, b, c>>
        /\ <<p>> \o <<a, b, c>> # <<>>
    BY Zenon, <1>5, HeadOfAbsolute
  <1>8. (<<p>> \o <<a, b>>) \o <<c>> = <<p>> \o <<a, b, c>>
    <2>1. (<<p>> \o <<a, b>>) \o <<c>> = <<p>> \o (<<a, b>> \o <<c>>)
      BY <1>5, ConcatAssociative
    <2>2. /\ Len(<<a, b>> \o <<c>>) = 3 /\ (<<a, b>> \o <<c>>)[1] = a
          /\ (<<a, b>> \o <<c>>)[2] = b /\ (<<a, b>> \o <<c>>)[3] = c
      BY <1>5
    <2>3. /\ Len(<<a, b, c>>) = 3 /\ <<a, b, c>>[1] = a /\ <<a, b, c>>[2] = b
          /\ <<a, b, c>>[3] = c
      OBVIOUS
    <2>4. <<a, b>> \o <<c>> \in Seq(S)
      BY <1>5
    <2>5. \A i \in 1 .. 3 : (<<a, b>> \o <<c>>)[i] = <<a, b, c>>[i]
      BY <2>2, <2>3
    <2>6. <<a, b>> \o <<c>> = <<a, b, c>>
      BY Zenon, <1>5, <2>2, <2>3, <2>4, <2>5, SeqEqual
    <2> QED
      BY Zenon, <2>1, <2>6
  <1>9. /\ Way # <<>> /\ Head(Way) = a /\ Tail(Way) = <<b, c>>
        /\ Tail(Way) # <<>> /\ Head(Tail(Way)) = b /\ Tail(Tail(Way)) = <<c>>
        /\ <<p>> \o Way # <<>> /\ Head(<<p>> \o Way) = p /\ Tail(<<p>> \o Way) = Way
        /\ Excursion(<<ToTarget, AtTarget>>) = <<p>> \o Way
    BY Zenon, <1>3, <1>4, <1>6, <1>7, <1>8
  <1>10. /\ ToTarget.do = "cd" /\ ToTarget.arg = op.arg
        /\ Pwd.do = "pwd" /\ AtTarget.do = "target" /\ Return.do = "return"
    BY DEF ToTarget, Pwd, AtTarget, Return, Command, Task
  <1> QED
    BY Zenon, <1>2, <1>9, <1>10

\* What removeDir does in its directory is to clear it, to leave it and to
\* remove it.
LEMMA TargetIsCleared ==
    ASSUME cwd \in Paths, goal = cwd, op.name = "removeDir"
    PROVE  \E rest \in LedTasks : RemovedTarget \o <<Return>> = <<Command("clear", <<>>)>> \o rest
  <1>1. goal \in Seq(Names) /\ IsPrefix(goal, cwd)
    <2>1. cwd \in Seq(Names)
      BY PathsAre
    <2> QED
      BY <2>1, PrefixIs
  <1>2. PICK clear \in Tasks : clear = Command("clear", <<>>)
    BY PathIsParts, TaskType, InnerAreTasks DEF Commands
  <1>3. PICK cdup \in Tasks : cdup = Command("cdup", <<>>)
    BY PathIsParts, TaskType, InnerAreTasks DEF Commands
  <1>4. PICK rmd \in Tasks : rmd = Command("rmd", <<"">> \o cwd)
    <2>1. <<"">> \o cwd \in Seq(AllParts)
      BY Zenon, PathIsName, PathIsParts
    <2> QED
      BY Zenon, <2>1, TaskType, InnerAreTasks DEF Commands
  <1>5. PICK back \in Tasks : back = Return
    BY ReturnIsTask
  <1>6. /\ cdup.do = "cdup" /\ cdup.at = None
        /\ rmd.do = "rmd" /\ rmd.at = None /\ rmd.arg = <<"">> \o goal
        /\ back.do = "return" /\ back.at = None
    BY Zenon, <1>3, <1>4, <1>5 DEF Return, Command, Task
  <1>7. cdup \in OwnTask /\ rmd \in OwnTask /\ back \in OwnTask
    BY Zenon, <1>6 DEF OwnTask, SoundTask, Removes
  <1>8. <<cdup>> \in LedTasks /\ <<rmd>> \in LedTasks /\ <<back>> \in LedTasks /\ <<>> \in LedTasks
    BY Zenon, <1>6, <1>7, LedTasksAre DEF Listings
  <1>9. <<cdup, rmd>> = <<cdup>> \o <<rmd>>
    BY OneThenOther
  <1> DEFINE rest == IF cwd = <<>> THEN <<>> ELSE <<cdup, rmd>>
  <1>10. rest \in LedTasks
    <2>1. <<cdup>> \o <<rmd>> \in LedTasks
      BY Zenon, <1>8, LedTasksAre
    <2> QED
      BY Zenon, <1>8, <1>9, <2>1
  <1>11. RemovedTarget = <<clear>> \o rest
    BY Zenon, <1>2, <1>3, <1>4 DEF RemovedTarget
  <1> HIDE DEF rest
  <1>12. rest \o <<back>> \in LedTasks
    BY Zenon, <1>8, <1>10, LedTasksAre
  <1>13. (<<clear>> \o rest) \o <<back>> = <<clear>> \o (rest \o <<back>>)
    <2>1. LedTasks \subseteq Seq(OwnTask) /\ OwnTask \subseteq Tasks
      BY Zenon DEF LedTasks, OwnTask, SoundTask
    <2>2. rest \in Seq(Tasks)
      BY <1>10, <2>1, SeqOfMore
    <2>3. <<clear>> \in Seq(Tasks) /\ <<back>> \in Seq(Tasks)
      OBVIOUS
    <2> QED
      BY <2>2, <2>3, ConcatAssociative
  <1> QED
    BY Zenon, <1>2, <1>5, <1>11, <1>12, <1>13

\* removeDir goes to the directory that its path leads to.
LEMMA WayNext ==
    ASSUME Based, op \in Operations, op.name = "removeDir", remote = before,
           goal = Follow(Walk(op.arg)), todo \in {<<Pwd>> \o Way, Way}, [DirectoryNext]_vars
    PROVE  Removing' /\ goal' = goal /\ op' = op
  <1>1. /\ todo # <<>> /\ Head(todo).do \in {"pwd", "cd"}
        /\ Head(todo).do = "pwd" => todo = <<Pwd>> \o Way /\ Tail(todo) = Way
        /\ Head(todo).do = "cd" => todo = Way /\ Head(todo).arg = op.arg /\ Tail(todo) = Tail(Way)
    BY Zenon, WayIs
  <1>2. ASSUME UNCHANGED <<remote, cwd, op, goal, before>>, todo' \in {todo, Way}
        PROVE  Removing'
    <2>1. Follow(Walk(op.arg))' = Follow(Walk(op.arg))
      BY Zenon, <1>2 DEF Follow, Walk
    <2>2. Way' = Way
      BY Zenon, <1>2 DEF Way, ToTarget
    <2> QED
      BY <1>2, <2>1, <2>2 DEF Removing
  <1>3. CASE PrintsDirectory
    <2>1. /\ UNCHANGED <<remote, cwd, op, goal, before>> /\ Head(todo).do = "pwd"
      BY <1>3 DEF PrintsDirectory, Done, Replaced, IsNext, server, call
    <2>2. todo' = Tail(todo)
      BY Zenon, <1>3, JustDone
    <2> QED
      BY <1>1, <1>2, <2>1, <2>2
  <1>4. CASE ChangesDirectory
    <2>1. /\ UNCHANGED <<remote, op, goal, before>> /\ Head(todo).do = "cd" /\ cwd' = Follow(Target)
      BY <1>4 DEF ChangesDirectory, Done, Replaced, IsNext, call
    <2>2. todo' = Tail(todo)
      BY Zenon, <1>4, JustDone
    <2>3. op.arg \in Seq(Parts) /\ op.arg # <<>> /\ cwd \in Paths
      BY <1>1, OperationsAre, ArgumentsAre, NextIsSound
    <2>4. Target = ServerPath(protectWhitespace(op.arg))
      BY <1>1, <2>1 DEF Target
    <2>5. Target = Walk(op.arg)
      BY <2>3, <2>4, ServerFinds
    <2>6. Way' = Way
      BY Zenon, <2>1 DEF Way, ToTarget
    <2>7. goal' = cwd'
      BY Zenon, <2>1, <2>5
    <2>8. todo' = Tail(Way)'
      BY <1>1, <2>1, <2>2, <2>6
    <2> QED
      BY <2>1, <2>7, <2>8 DEF Removing
  <1>5. CASE Fails
    <2>1. todo' \in LedTasks' /\ UNCHANGED <<remote, cwd, op, goal, before>>
      BY <1>1, <1>5, FailsInside
    <2>2. OnlyRemoved'
      BY <2>1 DEF OnlyRemoved, Changed
    <2> QED
      BY Zenon, <2>1, <2>2 DEF Removing, Inside
  <1>6. CASE Closes \/ UNCHANGED vars
    <2>1. UNCHANGED <<todo, remote, cwd, op, goal, before>>
      BY <1>6 DEF Closes, vars, server, call
    <2> QED
      BY <1>2, <2>1
  <1>7. CASE \/ \E o \in Operations : Begin(o)
             \/ ChangesToParent \/ MakesDirectory \/ RemovesFile \/ RemovesDirectory \/ Stores
             \/ Retrieves \/ clearWorkingDir \/ EntersTarget \/ _uploadToWorkingDir
             \/ ensureLocalDirectory \/ _downloadFromWorkingDir \/ Returns \/ Reconnects
    BY <1>1, <1>7 DEF Begin, ChangesToParent, MakesDirectory, RemovesFile, RemovesDirectory, Stores,
          Retrieves, clearWorkingDir, EntersTarget, _uploadToWorkingDir, ensureLocalDirectory,
          _downloadFromWorkingDir, ForEachListed, Done, Replaced, IsNext, Returns, Reconnects
  <1> QED
    BY Zenon, <1>3, <1>4, <1>5, <1>6, <1>7 DEF DirectoryNext

LEMMA TargetNext ==
    ASSUME Based, op.name = "removeDir", remote = before, goal = cwd, todo = Tail(Way),
           [DirectoryNext]_vars
    PROVE  Removing' /\ goal' = goal /\ op' = op
  <1>1. todo # <<>> /\ Head(todo).do = "target" /\ Tail(todo) = <<Return>>
    BY WayIs
  <1>2. CASE EntersTarget
    <2>1. /\ UNCHANGED <<remote, cwd, local, op, goal, before>>
          /\ todo' = RemovedTarget \o <<Return>>
      BY Zenon, <1>1, <1>2 DEF EntersTarget, Replaced, server, call
    <2>2. cwd \in Paths /\ cwd \in Seq(Names)
      BY <1>1, NextIsSound, PathsAre
    <2>3. PICK rest \in LedTasks : todo' = <<Command("clear", <<>>)>> \o rest
      BY Zenon, <2>1, <2>2, TargetIsCleared
    <2>4. rest \in LedTasks'
      BY <2>1, OwnStill DEF FilesStay
    <2>5. Head(todo') = Command("clear", <<>>) /\ Tail(todo') = rest /\ todo' # <<>>
      <3>1. rest \in Seq(OwnTask)
        BY Zenon DEF LedTasks
      <3> QED
        BY Zenon, <2>3, <3>1, HeadOfAbsolute
    <2>6. Head(todo').do = "clear" /\ Head(todo') \in OwnTask'
      BY <2>1, <2>5, ClearIsOwn
    <2>7. IsPrefix(goal', cwd')
      BY <2>1, <2>2, PrefixIs
    <2>8. OnlyRemoved'
      BY <2>1 DEF OnlyRemoved, Changed
    <2> QED
      BY Zenon, <2>1, <2>4, <2>5, <2>6, <2>7, <2>8 DEF Removing, Inside, Listings
  <1>3. CASE Fails
    <2>1. todo' \in LedTasks' /\ UNCHANGED <<remote, cwd, op, goal, before>>
      BY <1>1, <1>3, FailsInside
    <2>2. OnlyRemoved'
      BY <2>1 DEF OnlyRemoved, Changed
    <2> QED
      BY <2>1, <2>2 DEF Removing, Inside
  <1>4. CASE Closes \/ UNCHANGED vars
    <2>1. UNCHANGED <<todo, remote, cwd, op, goal, before>>
      BY <1>4 DEF Closes, vars, server, call
    <2>2. Way' = Way
      BY Zenon, <2>1 DEF Way, ToTarget
    <2> QED
      BY <2>1, <2>2 DEF Removing
  <1>5. CASE \/ \E o \in Operations : Begin(o)
             \/ PrintsDirectory \/ ChangesDirectory \/ ChangesToParent \/ MakesDirectory
             \/ RemovesFile \/ RemovesDirectory \/ Stores \/ Retrieves \/ clearWorkingDir
             \/ _uploadToWorkingDir \/ ensureLocalDirectory \/ _downloadFromWorkingDir
             \/ Returns \/ Reconnects
    BY <1>1, <1>5 DEF Begin, PrintsDirectory, ChangesDirectory, ChangesToParent, MakesDirectory,
          RemovesFile, RemovesDirectory, Stores, Retrieves, clearWorkingDir, _uploadToWorkingDir,
          ensureLocalDirectory, _downloadFromWorkingDir, ForEachListed, Done, Replaced, IsNext,
          Returns, Reconnects
  <1> QED
    BY Zenon, <1>2, <1>3, <1>4, <1>5 DEF DirectoryNext

-----------------------------------------------------------------------------
(* The other operations *)

LEMMA QuietTasksAre ==
    /\ \A arg \in Seq(AllParts) : Command("cd", arg) \in QuietTask
    /\ \A what \in {"pwd", "cdup", "download", "return"} : Command(what, <<>>) \in QuietTask
    /\ \A arg, file \in Seq(AllParts), what \in {"download", "fetch", "retr"} :
          /\ Task(what, arg, file, None) \in QuietTask
          /\ cwd \in Paths => Task(what, arg, file, cwd) \in QuietTask
    /\ \A arg \in Seq(AllParts) : cwd \in Paths => Relative("cd", arg) \in QuietTask
  <1>1. None \in OptionalPath /\ <<>> \in Seq(AllParts) /\ (cwd \in Paths => cwd \in OptionalPath)
    BY PathIsParts
  <1>2. \A what \in {"pwd", "cd", "cdup", "download", "fetch", "retr", "return"},
           arg, file \in Seq(AllParts), at \in OptionalPath : Task(what, arg, file, at) \in QuietTask
    BY DEF Task, QuietTask, Tasks
  <1> QED
    BY Zenon, <1>1, <1>2 DEF Command, Relative

LEMMA DownloadedIsQuiet ==
    ASSUME cwd \in Paths, Head(todo).file \in Seq(AllParts), NEW file \in File
    PROVE  Downloaded(file) \in Seq(QuietTask)
  <1>1. file.name \in Seq(AllParts)
    BY PathIsParts DEF File
  <1>2. PICK to \in Seq(AllParts) : to = Head(todo).file \o file.name
    <2>1. Head(todo).file \o file.name \in Seq(AllParts)
      BY <1>1
    <2> QED
      BY Zenon, <2>1
  <1>3. PICK a, b, c, d \in QuietTask :
            /\ a = Relative("cd", file.name) /\ b = Task("download", <<>>, to, None)
            /\ c = Command("cdup", <<>>) /\ d = Task("retr", file.name, to, cwd)
    <2>1. <<>> \in Seq(AllParts)
      OBVIOUS
    <2>2. /\ Relative("cd", file.name) \in QuietTask
          /\ Task("download", <<>>, to, None) \in QuietTask
          /\ Command("cdup", <<>>) \in QuietTask
          /\ Task("retr", file.name, to, cwd) \in QuietTask
      BY Zenon, <1>1, <2>1, QuietTasksAre
    <2> QED
      BY Zenon, <2>2
  <1>4. <<>> \in Seq(QuietTask) /\ (<<a>> \o <<b>>) \o <<c>> \in Seq(QuietTask) /\ <<d>> \in Seq(QuietTask)
    OBVIOUS
  <1>5. Downloaded(file) \in {<<>>, (<<a>> \o <<b>>) \o <<c>>, <<d>>}
    BY Zenon, <1>2, <1>3 DEF Downloaded, Enter
  <1> QED
    BY Zenon, <1>4, <1>5

\* An operation that only looks changes nothing on the server.
LEMMA QuietNext ==
    ASSUME Based, todo \in Seq(QuietTask), todo # <<>>, [DirectoryNext]_vars
    PROVE  UNCHANGED <<remote, op, goal, before>> /\ todo' \in Seq(QuietTask)
  <1>1. Head(todo) \in QuietTask /\ Tail(todo) \in Seq(QuietTask) /\ cwd \in Paths
    BY HeadThenTail, NextIsSound
  <1>2. Head(todo).do \notin {"mkd", "dele", "rmd", "stor", "clear", "target", "upload"}
    BY <1>1 DEF QuietTask
  <1>3. CASE PrintsDirectory \/ ChangesDirectory \/ ChangesToParent \/ Retrieves \/ Returns
    <2>1. UNCHANGED <<remote, op, goal, before>>
      BY <1>3 DEF PrintsDirectory, ChangesDirectory, ChangesToParent, Retrieves, Returns, Done,
                  Replaced, server, call
    <2>2. todo' = Tail(todo)
      BY Zenon, <1>3, JustDone
    <2> QED
      BY <1>1, <2>1, <2>2
  <1>4. CASE ensureLocalDirectory
    <2>1. /\ UNCHANGED <<remote, op, goal, before>>
          /\ todo' = <<Task("fetch", <<>>, Head(todo).file, None)>> \o Tail(todo)
      BY <1>4 DEF ensureLocalDirectory, Replaced, server, call
    <2>2. Head(todo).file \in Seq(AllParts) /\ <<>> \in Seq(AllParts)
      BY <1>1 DEF QuietTask, Tasks
    <2>3. PICK a \in QuietTask : a = Task("fetch", <<>>, Head(todo).file, None)
      BY Zenon, <2>2, QuietTasksAre
    <2> QED
      BY <1>1, <2>1, <2>3
  <1>5. CASE _downloadFromWorkingDir
    <2>1. /\ UNCHANGED <<remote, op, goal, before>> /\ Head(todo).file \in Seq(AllParts)
      BY <1>1, <1>5 DEF _downloadFromWorkingDir, ForEachListed, Replaced, server, call, QuietTask, Tasks
    <2>2. Len(Files) \in Nat /\ \A i \in 1 .. Len(Files) : Files[i] \in File
      BY FilesType DEF Based, HomeInv, Placed, FileList
    <2> DEFINE tasks == [i \in 1 .. Len(Files) |-> Downloaded(Files[i])]
    <2>3. tasks \in [1 .. Len(Files) -> Seq(QuietTask)]
      BY <1>1, <2>1, <2>2, DownloadedIsQuiet
    <2>4. todo' = FlattenSeq(tasks) \o Tail(todo)
      BY <1>5 DEF _downloadFromWorkingDir, ForEachListed, Replaced
    <2> HIDE DEF tasks
    <2>5. FlattenSeq(tasks) \in Seq(QuietTask)
      BY Zenon, <2>2, <2>3, FlattenType
    <2> QED
      BY <1>1, <2>1, <2>4, <2>5
  <1>6. CASE Fails
    <2>1. op' = op /\ goal' = goal /\ before' = before /\ Remains
      BY <1>6 DEF Fails, call
    <2>2. remote' = remote
      BY <1>2, <2>1 DEF Remains, server
    <2>3. \/ todo' = <<>>
          \/ \E task \in LooseTask : task.do = "return" /\ todo' = <<task>>
      BY <1>2, <1>6, FailureLeaves
    <2>4. todo' \in Seq(QuietTask)
      <3>1. \A task \in LooseTask : task.do = "return" => task \in QuietTask
        BY DEF LooseTask, QuietTask
      <3>2. <<>> \in Seq(QuietTask) /\ \A task \in QuietTask : <<task>> \in Seq(QuietTask)
        OBVIOUS
      <3> QED
        BY Zenon, <2>3, <3>1, <3>2
    <2> QED
      BY <2>1, <2>2, <2>4
  <1>7. CASE Closes \/ UNCHANGED vars
    BY <1>7 DEF Closes, vars, server, call
  <1>8. CASE \/ \E o \in Operations : Begin(o)
             \/ MakesDirectory \/ RemovesFile \/ RemovesDirectory \/ Stores \/ clearWorkingDir
             \/ EntersTarget \/ _uploadToWorkingDir \/ Reconnects
    BY <1>2, <1>8 DEF Begin, MakesDirectory, RemovesFile, RemovesDirectory, Stores, clearWorkingDir,
          EntersTarget, _uploadToWorkingDir, ForEachListed, Done, Replaced, IsNext, Reconnects
  <1> QED
    BY Zenon, <1>3, <1>4, <1>5, <1>6, <1>7, <1>8 DEF DirectoryNext

LEMMA RemoveNext ==
    ASSUME Based, op \in Operations, op.name = "remove", remote = before, goal = Walk(op.arg),
           todo = <<Command("dele", op.arg)>>, [DirectoryNext]_vars
    PROVE  /\ op' = op /\ goal' = goal
           /\ \/ UNCHANGED <<remote, cwd, before, todo>>
              \/ todo' = <<>> /\ \A p \in Changed' : p = goal
  <1>1. /\ todo # <<>> /\ Head(todo) = Command("dele", op.arg) /\ Tail(todo) = <<>>
        /\ Last(todo) = Command("dele", op.arg)
    <2>1. PICK x : x = Command("dele", op.arg)
      OBVIOUS
    <2>2. <<x>> \in Seq({x}) /\ Len(<<x>>) = 1 /\ <<x>>[1] = x
      OBVIOUS
    <2> QED
      BY <2>1, <2>2, HeadOfOne DEF Last
  <1>2. Head(todo).do = "dele" /\ Head(todo).arg = op.arg /\ Last(todo).do = "dele"
    BY <1>1 DEF Command, Task
  <1>3. CASE RemovesFile
    <2>1. /\ op' = op /\ goal' = goal /\ before' = before
          /\ remote' = [remote EXCEPT ![Target] = "none"]
      BY <1>3 DEF RemovesFile, Done, Replaced, call
    <2>2. todo' = <<>>
      BY Zenon, <1>1, <1>3, JustDone
    <2>3. op.arg \in Seq(Parts) /\ op.arg # <<>> /\ cwd \in Paths /\ remote \in Trees
      BY <1>1, OperationsAre, ArgumentsAre, NextIsSound
    <2>4. Target = ServerPath(protectWhitespace(op.arg))
      BY <1>2 DEF Target
    <2>5. Target = goal
      BY <2>3, <2>4, ServerFinds
    <2>6. \A p \in Changed' : p = goal
      BY <2>1, <2>3, <2>5 DEF Changed, Trees
    <2> QED
      BY <2>1, <2>2, <2>6
  <1>4. CASE Fails
    <2>1. op' = op /\ goal' = goal /\ before' = before /\ Remains
      BY <1>4 DEF Fails, call
    <2>2. remote' = remote
      BY <1>2, <2>1 DEF Remains, server
    <2>3. todo' = <<>>
      BY <1>1, <1>2, <1>4 DEF Fails, Ignored, Finally
    <2>4. \A p \in Changed' : p = goal
      BY <2>1, <2>2 DEF Changed
    <2> QED
      BY <2>1, <2>3, <2>4
  <1>5. CASE Closes \/ UNCHANGED vars
    BY <1>5 DEF Closes, vars, server, call
  <1>6. CASE \/ \E o \in Operations : Begin(o)
             \/ PrintsDirectory \/ ChangesDirectory \/ ChangesToParent \/ MakesDirectory
             \/ RemovesDirectory \/ Stores \/ Retrieves \/ clearWorkingDir \/ EntersTarget
             \/ _uploadToWorkingDir \/ ensureLocalDirectory \/ _downloadFromWorkingDir
             \/ Returns \/ Reconnects
    BY <1>1, <1>2, <1>6 DEF Begin, PrintsDirectory, ChangesDirectory, ChangesToParent,
          MakesDirectory, RemovesDirectory, Stores, Retrieves, clearWorkingDir, EntersTarget,
          _uploadToWorkingDir, ensureLocalDirectory, _downloadFromWorkingDir, ForEachListed, Done,
          Replaced, IsNext, Returns, Reconnects
  <1> QED
    BY Zenon, <1>3, <1>4, <1>5, <1>6 DEF DirectoryNext

-----------------------------------------------------------------------------
(* Every operation changes only its own *)

\* An operation begins with its own plan.
LEMMA BeginsOwned ==
    ASSUME Based, NEW o \in Operations, Begin(o)
    PROVE  Owned'
  <1>1. /\ op' = o /\ remote' = remote /\ cwd' = cwd /\ before' = remote /\ todo' = Plan(o)
        /\ goal' = IF o.name = "remove" THEN Walk(o.arg) ELSE Follow(Walk(o.arg))
    BY DEF Begin, server
  <1>2. cwd \in Paths /\ remote[cwd] = "dir" /\ o.arg \in Seq(Parts) /\ o.arg \in Seq(AllParts)
    BY OperationsAre DEF Based, HomeInv, Placed, Kind
  <1>3. /\ remote' = before' /\ OnlyRemoved'
        /\ Walk(op.arg)' = Walk(o.arg) /\ Follow(Walk(op.arg))' = Follow(Walk(o.arg))
    <2>1. OnlyRemoved'
      BY <1>1 DEF OnlyRemoved, Changed
    <2> QED
      BY Zenon, <1>1, <2>1 DEF Follow, Walk
  <1>4. goal' \in Seq(Names)
    <2>1. Walk(o.arg) \in Seq(Names) /\ LinkTarget \in Seq(Names)
      BY Zenon, <1>2, WalkFolds, LinkIsName, PathsAre
    <2> QED
      BY <1>1, <2>1 DEF Follow
  <1>5. CASE o.name = "removeDir"
    <2>1. (Excursion(<<ToTarget, AtTarget>>) = <<Pwd>> \o Way)'
      BY WayIs, PTL
    <2>2. Plan(o) = Excursion(<<Command("cd", o.arg), Command("target", <<>>)>>)
      BY <1>5 DEF Plan
    <2>3. todo' = (<<Pwd>> \o Way)'
      BY Zenon, <1>1, <2>1, <2>2 DEF ToTarget, AtTarget
    <2>4. goal' = Follow(Walk(op.arg))'
      BY <1>1, <1>3, <1>5
    <2>5. Removing'
      BY Zenon, <1>3, <2>3, <2>4 DEF Removing
    <2> QED
      BY <1>1, <1>4, <1>5, <2>5 DEF Owned
  <1>6. CASE o.name = "clearWorkingDir"
    <2>1. PICK clear : clear = Command("clear", <<>>)
      OBVIOUS
    <2>2. todo' = <<clear>>
      BY <1>1, <1>6, <2>1 DEF Plan
    <2>3. todo' # <<>> /\ Head(todo') = clear /\ Tail(todo') = <<>>
      BY <2>2, HeadOfOne
    <2>4. goal' = cwd
      BY <1>1, <1>2, <1>6, ArgumentsAre, FollowHere
    <2>5. /\ Head(todo').do = "clear" /\ Head(todo') \in OwnTask' /\ IsPrefix(goal', cwd')
      BY <1>1, <1>4, <1>6, <2>1, <2>3, <2>4, PrefixIs, ClearIsOwn
    <2>6. <<>> \in LedTasks'
      BY FewAreLedNext
    <2>7. Inside'
      BY Zenon, <2>3, <2>5, <2>6 DEF Inside, Listings
    <2> QED
      BY <1>1, <1>3, <1>4, <1>6, <2>7 DEF Owned
  <1>7. CASE o.name = "remove"
    <2>1. todo' = <<Command("dele", op'.arg)>> /\ goal' = Walk(op.arg)'
      BY <1>1, <1>3, <1>7 DEF Plan
    <2> QED
      BY <1>1, <1>3, <1>4, <1>7, <2>1 DEF Owned
  <1>8. CASE o.name \in {"cd", "downloadToDir"}
    <2>1. PICK p, a, b, c \in QuietTask :
              /\ p = Command("pwd", <<>>) /\ a = Command("cd", o.arg)
              /\ b = Command("download", <<>>) /\ c = Command("return", <<>>)
      <3>1. /\ Command("pwd", <<>>) \in QuietTask /\ Command("cd", o.arg) \in QuietTask
            /\ Command("download", <<>>) \in QuietTask /\ Command("return", <<>>) \in QuietTask
        BY <1>2, QuietTasksAre
      <3> QED
        BY Zenon, <3>1
    <2>2. /\ <<a>> \in Seq(QuietTask) /\ (<<p>> \o (<<>> \o <<b>>)) \o <<c>> \in Seq(QuietTask)
          /\ (<<p>> \o (<<a>> \o <<b>>)) \o <<c>> \in Seq(QuietTask)
      OBVIOUS
    <2>3. Plan(o) \in {<<a>>, (<<p>> \o (<<>> \o <<b>>)) \o <<c>>, (<<p>> \o (<<a>> \o <<b>>)) \o <<c>>}
      <3>1. CASE o.name = "cd"
        BY <2>1, <3>1 DEF Plan
      <3>2. CASE o.name = "downloadToDir"
        <4>1. Plan(o) = Excursion((IF o.arg = <<>> THEN <<>> ELSE <<Command("cd", o.arg)>>)
                                  \o <<Command("download", <<>>)>>)
          BY <3>2 DEF Plan
        <4> QED
          BY Zenon, <2>1, <4>1 DEF Excursion
      <3> QED
        BY Zenon, <1>8, <3>1, <3>2
    <2>4. todo' \in Seq(QuietTask)
      BY Zenon, <1>1, <2>2, <2>3
    <2> QED
      BY <1>1, <1>3, <1>4, <1>8, <2>4 DEF Owned
  <1>9. CASE o.name \in {"uploadFromDir", "ensureDir"}
    BY <1>1, <1>4, <1>9 DEF Owned
  <1> QED
    BY <1>5, <1>6, <1>7, <1>8, <1>9, OperationsAre DEF OperationNames

\* Without tasks there is only the next operation.
LEMMA NothingToDo ==
    ASSUME todo = <<>>, [DirectoryNext]_vars
    PROVE  (\E o \in Operations : Begin(o)) \/ Reconnects \/ UNCHANGED vars
  BY DEF DirectoryNext, PrintsDirectory, ChangesDirectory, ChangesToParent, MakesDirectory,
         RemovesFile, RemovesDirectory, Stores, Retrieves, clearWorkingDir, EntersTarget,
         _uploadToWorkingDir, ensureLocalDirectory, _downloadFromWorkingDir, ForEachListed,
         Done, Replaced, IsNext, Fails, Returns, Closes

\* Between two operations nothing happens.
LEMMA EmptyNext ==
    ASSUME Based, Owned, todo = <<>>, [DirectoryNext]_vars
    PROVE  Owned'
  <1>1. remote \in Trees
    BY DEF Based, HomeInv, Placed
  <1>2. CASE \E o \in Operations : Begin(o)
    BY Zenon, <1>2, BeginsOwned
  <1>3. CASE Reconnects
    <2>1. op' = NoOperation /\ remote' = before' /\ todo' = <<>> /\ goal' = goal
      BY <1>3 DEF Reconnects
    <2>2. <<>> \in Seq(QuietTask) /\ op'.name = "none"
      BY <2>1 DEF NoOperation
    <2> QED
      BY <2>1, <2>2 DEF Owned
  <1>4. CASE UNCHANGED vars
    <2>1. UNCHANGED <<remote, cwd, op, goal, before>> /\ todo' = <<>>
      BY <1>4 DEF vars, server, call
    <2>2. Inside'
      BY <2>1, FewAreLedNext DEF Inside
    <2>3. op.name \in {"removeDir", "clearWorkingDir"} => OnlyRemoved'
      <3>1. Way # <<>> /\ Tail(Way) # <<>> /\ <<Pwd>> \o Way # <<>>
        BY WayIs
      <3>2. op.name \in {"removeDir", "clearWorkingDir"} => OnlyRemoved
        BY <3>1 DEF Owned, Removing
      <3> QED
        BY <1>1, <2>1, <3>2, RemovesOnly
    <2>4. op.name = "remove" => todo' = <<>> /\ \A p \in Changed' : p = goal'
      <3>1. <<Command("dele", op.arg)>> # <<>>
        BY HeadOfOne
      <3> QED
        BY <2>1, <3>1 DEF Owned, Changed
    <2>5. <<>> \in Seq(QuietTask)
      OBVIOUS
    <2> QED
      BY <2>1, <2>2, <2>3, <2>4, <2>5 DEF Owned, Removing
  <1> QED
    BY Zenon, <1>2, <1>3, <1>4, NothingToDo

LEMMA CallStays ==
    ASSUME [DirectoryNext]_vars, todo # <<>>
    PROVE  op' = op /\ goal' = goal
  BY DEF DirectoryNext, Begin, PrintsDirectory, ChangesDirectory, ChangesToParent, MakesDirectory,
         RemovesFile, RemovesDirectory, Stores, Retrieves, clearWorkingDir, EntersTarget,
         _uploadToWorkingDir, ensureLocalDirectory, _downloadFromWorkingDir, ForEachListed, Done,
         Replaced, Fails, Returns, Closes, Reconnects, vars, call

LEMMA OwnedNext ==
    ASSUME DirectoryInv, Owned, [DirectoryNext]_vars
    PROVE  Owned'
  <1>1. Based /\ op \in Operations \cup {NoOperation} /\ (op.name # "uploadFromDir" => Sited)
    BY DEF DirectoryInv, Typed
  <1>2. goal \in Seq(Names)
    BY DEF Owned
  <1>3. CASE todo = <<>>
    BY Zenon, <1>1, <1>3, EmptyNext
  <1>4. ASSUME todo # <<>>, op.name = "removeDir"
        PROVE  Owned'
    <2>1. op \in Operations /\ Sited
      BY <1>1, <1>4 DEF NoOperation
    <2>2. CASE Inside /\ OnlyRemoved
      <3>1. Inside' /\ OnlyRemoved' /\ goal' = goal /\ op' = op
        BY <1>1, <1>2, <1>4, <2>1, <2>2, InsideNext DEF Removes
      <3> QED
        BY <1>2, <1>4, <3>1 DEF Owned, Removing
    <2>3. CASE ~(Inside /\ OnlyRemoved)
      <3>1. \/ /\ remote = before /\ goal = Follow(Walk(op.arg))
               /\ todo \in {<<Pwd>> \o Way, Way}
            \/ remote = before /\ goal = cwd /\ todo = Tail(Way)
        BY <1>4, <2>3 DEF Owned, Removing
      <3>2. Removing' /\ goal' = goal /\ op' = op
        BY Zenon, <1>1, <1>4, <2>1, <3>1, WayNext, TargetNext
      <3> QED
        BY <1>2, <1>4, <3>2 DEF Owned
    <2> QED
      BY <2>2, <2>3
  <1>5. ASSUME todo # <<>>, op.name = "clearWorkingDir"
        PROVE  Owned'
    <2>1. Sited /\ Inside /\ OnlyRemoved
      BY <1>1, <1>5 DEF Owned
    <2>2. Inside' /\ OnlyRemoved' /\ goal' = goal /\ op' = op
      BY <1>1, <1>2, <1>5, <2>1, InsideNext DEF Removes
    <2> QED
      BY <1>2, <1>5, <2>2 DEF Owned
  <1>6. ASSUME todo # <<>>, op.name = "remove"
        PROVE  Owned'
    <2>1. /\ op \in Operations
          /\ remote = before /\ goal = Walk(op.arg) /\ todo = <<Command("dele", op.arg)>>
      BY <1>1, <1>6 DEF NoOperation, Owned
    <2>2. /\ op' = op /\ goal' = goal
          /\ \/ UNCHANGED <<remote, cwd, before, todo>>
             \/ todo' = <<>> /\ \A p \in Changed' : p = goal
      BY Zenon, <1>1, <1>6, <2>1, RemoveNext
    <2>3. CASE UNCHANGED <<remote, cwd, before, todo>>
      <3>1. Walk(op.arg)' = Walk(op.arg)
        BY Zenon, <2>2, <2>3 DEF Walk
      <3> QED
        BY <1>2, <1>6, <2>1, <2>2, <2>3, <3>1 DEF Owned
    <2>4. CASE todo' = <<>> /\ \A p \in Changed' : p = goal
      BY <1>2, <1>6, <2>2, <2>4 DEF Owned
    <2> QED
      BY <2>2, <2>3, <2>4
  <1>7. ASSUME todo # <<>>, op.name \in {"cd", "downloadToDir", "none"}
        PROVE  Owned'
    <2>1. remote = before /\ todo \in Seq(QuietTask)
      BY <1>7 DEF Owned
    <2>2. UNCHANGED <<remote, op, goal, before>> /\ todo' \in Seq(QuietTask)
      BY Zenon, <1>1, <1>7, <2>1, QuietNext
    <2> QED
      BY <1>2, <1>7, <2>1, <2>2 DEF Owned, QuietTask, Tasks
  <1>8. ASSUME todo # <<>>, op.name \in {"uploadFromDir", "ensureDir"}
        PROVE  Owned'
    <2>1. op' = op /\ goal' = goal
      BY Zenon, <1>8, CallStays
    <2> QED
      BY <1>2, <1>8, <2>1 DEF Owned
  <1>9. op.name \in OperationNames \cup {"none"}
    BY <1>1, OperationsAre DEF NoOperation
  <1> QED
    BY <1>3, <1>4, <1>5, <1>6, <1>7, <1>8, <1>9 DEF OperationNames

LEMMA OwnedInit == DirectoryInit => Owned
  <1> SUFFICES ASSUME DirectoryInit
               PROVE  Owned
    OBVIOUS
  <1>1. op.name = "none" /\ remote = before /\ goal = <<>> /\ todo = <<>>
    BY DEF DirectoryInit, NoOperation
  <1>2. <<>> \in Seq(Names) /\ <<>> \in Seq(QuietTask)
    OBVIOUS
  <1> QED
    BY <1>1, <1>2 DEF Owned

LEMMA OwnedIsItsOwn ==
    ASSUME Owned, op \in Operations \cup {NoOperation}, op.name \notin {"uploadFromDir", "ensureDir"}
    PROVE  ChangesOnlyItsOwn
  <1>1. op.name \in {"removeDir", "clearWorkingDir", "downloadToDir", "cd", "remove", "none"}
    BY OperationsAre DEF NoOperation, OperationNames
  <1>2. remote = before => Changed = {}
    BY DEF Changed
  <1>3. CASE op.name = "removeDir"
    <2>1. Changed = {} \/ OnlyRemoved
      BY <1>2, <1>3 DEF Owned, Removing
    <2> QED
      BY <1>3, <2>1 DEF OnlyRemoved, ChangesOnlyItsOwn
  <1>4. CASE op.name = "clearWorkingDir"
    BY <1>4 DEF Owned, OnlyRemoved, ChangesOnlyItsOwn, IsStrictPrefix
  <1>5. CASE op.name = "remove"
    BY <1>2, <1>5 DEF Owned, ChangesOnlyItsOwn
  <1>6. CASE op.name \in {"downloadToDir", "cd", "none"}
    <2>1. Changed = {}
      BY <1>2, <1>6 DEF Owned
    <2> QED
      BY <2>1 DEF ChangesOnlyItsOwn
  <1> QED
    BY <1>1, <1>3, <1>4, <1>5, <1>6

\* Removing a directory or a file, clearing, downloading and changing the
\* directory: at any time, whatever has failed, only what is at or below the
\* directory, or only the file, has been removed, never through a link, and
\* a download has changed nothing on the server (removeDir, clearWorkingDir,
\* remove, downloadToDir, cd).
THEOREM RemovalsChangeOnlyTheirOwn ==
    DirectorySpec => [](op.name \notin {"uploadFromDir", "ensureDir"} => ChangesOnlyItsOwn)
  <1>1. DirectoryInv /\ Owned => (op.name \notin {"uploadFromDir", "ensureDir"} => ChangesOnlyItsOwn)
    BY OwnedIsItsOwn DEF DirectoryInv, Typed
  <1>2. DirectoryInv /\ Owned /\ [DirectoryNext]_vars => Owned'
    BY Zenon, OwnedNext
  <1> QED
    BY <1>1, <1>2, OwnedInit, DirectoryInvInit, DirectoryInvNext, PTL DEF DirectorySpec

-----------------------------------------------------------------------------
(* The steps of reading a listing, one replacement after the other *)

LEMMA StepsReplace ==
    /\ EntryOf \in Replacing(ListedLine, ListedLine)
    /\ \A parser : ReadBy(parser) \in Replacing(ListedLine, File)
    /\ \A parser : ReadEntry(parser) \in Replacing(ListedLine, File)
    /\ \A files \in FileList : KeptOf(files) \in Replacing(File, File)
  <1>1. EntryOf \in Replacing(ListedLine, ListedLine)
    BY DEF EntryOf, Replacing
  <1>2. \A parser : \A line \in ListedLine : parseLine(parser, line) \in Seq(File)
    BY ParseLineType DEF FileList
  <1>3. <<>> \in Seq(File)
    OBVIOUS
  <1>4. ASSUME NEW parser
        PROVE  ReadBy(parser) \in Replacing(ListedLine, File) /\ ReadEntry(parser) \in Replacing(ListedLine, File)
    BY <1>2, <1>3 DEF ReadBy, ReadEntry, Replacing
  <1>5. ASSUME NEW files \in FileList
        PROVE  KeptOf(files) \in Replacing(File, File)
    <2>1. \A file \in File : Resolved(file, files) \in File
      BY ResolvedType
    <2>2. \A x \in File : <<x>> \in Seq(File)
      OBVIOUS
    <2>3. \A file \in File : <<Resolved(file, files)>> \in Seq(File)
      BY Zenon, <2>1, <2>2
    <2> QED
      BY <1>3, <2>3 DEF KeptOf, Replacing
  <1> QED
    BY <1>1, <1>4, <1>5

LEMMA EntriesAreFlat ==
    ASSUME NEW lines \in LineList
    PROVE  Entries(lines) = Flat(EntryOf, lines)
  <1> DEFINE V == {s \in Seq(ListedLine) : Choosing!Fold(<<>>, s) = Flat(EntryOf, s)}
  <1>1. Choosing!Closed
    <2> SUFFICES ASSUME NEW kept \in LineList, NEW line \in ListedLine
                 PROVE  KeepEntry(kept, line) \in LineList
      BY Zenon DEF Choosing!Closed, Choosing!ClosedOn
    <2> QED
      BY DEF KeepEntry, LineList
  <1>2. <<>> \in LineList
    BY DEF LineList
  <1>3. <<>> \in V
    <2>1. Choosing!Fold(<<>>, <<>>) = <<>>
      BY Zenon, <1>1, <1>2, Choosing!FoldEmpty
    <2>2. Flat(EntryOf, <<>>) = <<>>
      BY StepsReplace, FlatIs
    <2> QED
      BY <2>1, <2>2
  <1>4. ASSUME NEW s \in Seq(ListedLine), NEW x \in ListedLine, s \in V
        PROVE  Append(s, x) \in V
    <2>1. Choosing!Fold(<<>>, Append(s, x)) = KeepEntry(Choosing!Fold(<<>>, s), x)
      BY Zenon, <1>1, <1>2, Choosing!FoldAppend
    <2>2. /\ Flat(EntryOf, Append(s, x)) = Flat(EntryOf, s) \o EntryOf[x]
          /\ Flat(EntryOf, s) \in Seq(ListedLine)
      BY StepsReplace, FlatAppend
    <2>3. ASSUME NEW t \in Seq(ListedLine)
          PROVE  KeepEntry(t, x) = t \o EntryOf[x]
      BY DEF KeepEntry, EntryOf
    <2>4. Append(s, x) \in Seq(ListedLine)
      OBVIOUS
    <2>5. Choosing!Fold(<<>>, s) = Flat(EntryOf, s)
      BY <1>4
    <2>6. Choosing!Fold(<<>>, Append(s, x)) = Flat(EntryOf, Append(s, x))
      BY Zenon, <2>1, <2>2, <2>3, <2>5
    <2> QED
      BY <2>4, <2>6
  <1>5. Seq(ListedLine) \subseteq V
    <2> HIDE DEF V
    <2> QED
      BY <1>3, <1>4, SeqInduction
  <1>6. Choosing!Fold(<<>>, lines) = Flat(EntryOf, lines)
    BY <1>5 DEF LineList
  <1>7. FoldLeft(KeepEntry, <<>>, lines) = Choosing!Fold(<<>>, lines)
    BY Zenon DEF FoldLeft, MapThenFoldSet, Max, Choosing!Fold, Choosing!Greatest
  <1> QED
    BY Zenon, <1>6, <1>7 DEF Entries

LEMMA ReadIsFlat ==
    ASSUME NEW parser, NEW lines \in LineList
    PROVE  /\ FlattenSeq([i \in 1 .. Len(Entries(lines)) |-> parseLine(parser, Entries(lines)[i])])
                  = Flat(ReadEntry(parser), lines)
           /\ Flat(ReadEntry(parser), lines) \in FileList
  <1>1. PICK entries \in Seq(ListedLine) : entries = Entries(lines)
    BY EntriesType DEF LineList
  <1>2. entries = Flat(EntryOf, lines)
    BY <1>1, EntriesAreFlat
  <1>3. [i \in 1 .. Len(entries) |-> parseLine(parser, entries[i])] =
            [i \in 1 .. Len(entries) |-> ReadBy(parser)[entries[i]]]
    BY DEF ReadBy
  <1>4. FlattenSeq([i \in 1 .. Len(entries) |-> parseLine(parser, entries[i])]) =
            Flat(ReadBy(parser), entries)
    BY Zenon, <1>3, FlattenIs DEF Flat
  <1>5. ASSUME NEW line \in ListedLine
        PROVE  ReadEntry(parser)[line] = Flat(ReadBy(parser), EntryOf[line])
    <2>1. CASE IsEntry(line)
      <3>1. Flat(ReadBy(parser), <<line>>) = ReadBy(parser)[line]
        BY StepsReplace, FlatOne
      <3> QED
        BY <2>1, <3>1 DEF ReadEntry, ReadBy, EntryOf
    <2>2. CASE ~IsEntry(line)
      <3>1. Flat(ReadBy(parser), <<>>) = <<>>
        BY StepsReplace, FlatIs
      <3> QED
        BY <2>2, <3>1 DEF ReadEntry, EntryOf
    <2> QED
      BY <2>1, <2>2
  <1>6. lines \in Seq(ListedLine)
    BY DEF LineList
  <1>7. Flat(ReadBy(parser), Flat(EntryOf, lines)) = Flat(ReadEntry(parser), lines)
    <2>1. PICK g \in Replacing(ListedLine, File) : g = ReadBy(parser)
      BY StepsReplace
    <2>2. PICK f \in Replacing(ListedLine, File) : f = ReadEntry(parser)
      BY StepsReplace
    <2>3. PICK h \in Replacing(ListedLine, ListedLine) : h = EntryOf
      BY StepsReplace
    <2>4. \A x \in ListedLine : f[x] = Flat(g, h[x])
      BY Zenon, <1>5, <2>1, <2>2, <2>3
    <2>5. Flat(g, Flat(h, lines)) = Flat(f, lines)
      BY <1>6, <2>4, FlatTwice
    <2> QED
      BY Zenon, <2>1, <2>2, <2>3, <2>5
  <1>8. Flat(ReadEntry(parser), lines) \in FileList
    <2>1. ReadEntry(parser) \in Replacing(ListedLine, File)
      BY StepsReplace
    <2> QED
      BY <1>6, <2>1, FlatIs DEF FileList
  <1> QED
    BY Zenon, <1>1, <1>2, <1>4, <1>7, <1>8

LEMMA KeptIsFlat ==
    ASSUME NEW files \in FileList
    PROVE  transformList("mlsd", files) = Flat(KeptOf(files), files)
  <1> DEFINE res(s) == [i \in 1 .. Len(s) |-> Resolved(s[i], files)]
             V == {s \in Seq(File) : Owning!Fold(<<>>, res(s)) = Flat(KeptOf(files), s)}
  <1>1. Owning!Closed
    <2> SUFFICES ASSUME NEW kept \in FileList, NEW file \in File
                 PROVE  KeepOwn(kept, file) \in FileList
      BY Zenon DEF Owning!Closed, Owning!ClosedOn
    <2> QED
      BY DEF KeepOwn, FileList
  <1>2. <<>> \in FileList
    BY DEF FileList
  <1>3. KeptOf(files) \in Replacing(File, File)
    BY StepsReplace
  <1>4. \A file \in File : Resolved(file, files) \in File /\ Resolved(file, files).name = file.name
    BY ResolvedKeeps
  <1>5. <<>> \in V
    <2>1. Owning!Fold(<<>>, <<>>) = <<>>
      BY Zenon, <1>1, <1>2, Owning!FoldEmpty
    <2>2. Flat(KeptOf(files), <<>>) = <<>>
      BY <1>3, FlatIs
    <2>3. res(<<>>) = <<>>
      OBVIOUS
    <2> QED
      BY <2>1, <2>2, <2>3
  <1>6. ASSUME NEW s \in Seq(File), NEW x \in File, s \in V
        PROVE  Append(s, x) \in V
    <2>1. PICK y \in File : y = Resolved(x, files)
      BY <1>4
    <2>2. res(s) \in Seq(File)
      BY <1>4
    <2>3. res(Append(s, x)) = Append(res(s), y)
      <3>1. /\ Len(Append(s, x)) = Len(s) + 1 /\ Len(s) \in Nat
            /\ \A i \in 1 .. Len(s) : Append(s, x)[i] = s[i]
            /\ Append(s, x)[Len(s) + 1] = x
        OBVIOUS
      <3> DEFINE t == Append(s, x)
      <3>2. \A i \in 1 .. Len(s) + 1 : Resolved(t[i], files) = IF i <= Len(s) THEN Resolved(s[i], files) ELSE y
        BY <2>1, <3>1
      <3>3. Len(res(s)) = Len(s) /\ \A i \in 1 .. Len(s) : res(s)[i] = Resolved(s[i], files)
        BY <2>2
      <3>4. Append(res(s), y) = [i \in 1 .. Len(s) + 1 |-> IF i <= Len(s) THEN res(s)[i] ELSE y]
        BY <2>2, <3>3
      <3>5. Len(t) = Len(s) + 1
        BY <3>1
      <3> HIDE DEF t
      <3> QED
        BY <3>2, <3>3, <3>4, <3>5 DEF t
    <2>4. Owning!Fold(<<>>, Append(res(s), y)) = KeepOwn(Owning!Fold(<<>>, res(s)), y)
      <3> HIDE DEF res
      <3>1. res(s) \in Seq(File)
        BY <2>2
      <3> QED
        BY Zenon, <1>1, <1>2, <3>1, Owning!FoldAppend
    <2>5. /\ Flat(KeptOf(files), Append(s, x)) = Flat(KeptOf(files), s) \o KeptOf(files)[x]
          /\ Flat(KeptOf(files), s) \in Seq(File)
      BY <1>3, FlatAppend
    <2>6. ASSUME NEW t \in Seq(File)
          PROVE  KeepOwn(t, y) = t \o KeptOf(files)[x]
      <3>1. y.name = x.name
        BY <1>4, <2>1
      <3>2. KeptOf(files)[x] = IF Len(x.name) = 1 THEN <<y>> ELSE <<>>
        BY <2>1 DEF KeptOf
      <3>3. t \o <<y>> = Append(t, y) /\ t \o <<>> = t
        OBVIOUS
      <3> QED
        BY Zenon, <3>1, <3>2, <3>3 DEF KeepOwn
    <2>7. Append(s, x) \in Seq(File)
      OBVIOUS
    <2>8. Owning!Fold(<<>>, res(s)) = Flat(KeptOf(files), s)
      BY <1>6
    <2> HIDE DEF res
    <2>9. Owning!Fold(<<>>, res(Append(s, x))) = Flat(KeptOf(files), Append(s, x))
      BY Zenon, <2>3, <2>4, <2>5, <2>6, <2>8
    <2> QED
      BY <2>7, <2>9
  <1>7. Seq(File) \subseteq V
    <2> HIDE DEF V
    <2> QED
      BY <1>5, <1>6, SeqInduction
  <1>8. Owning!Fold(<<>>, res(files)) = Flat(KeptOf(files), files)
    BY <1>7 DEF FileList
  <1>9. FoldLeft(KeepOwn, <<>>, res(files)) = Owning!Fold(<<>>, res(files))
    <2> HIDE DEF res
    <2> QED
      BY Zenon DEF FoldLeft, MapThenFoldSet, Max, Owning!Fold, Owning!Greatest
  <1> QED
    BY Zenon, <1>8, <1>9 DEF transformList

-----------------------------------------------------------------------------
(* What each entry is read as *)

\* The lines that a parser reads as they are.
LEMMA ReadsLine ==
    ASSUME NEW line \in ListedLine, NEW parser \in availableParsers,
           line.format = parser, line.kind \notin {"cdir", "pdir"},
           \/ \E n \in Names : line.name = <<n>> /\ (parser = "dos" => n \notin DOMAIN Blanks)
           \/ parser = "mlsd" /\ Len(line.name) # 1
    PROVE  /\ IsEntry(line)
           /\ ReadEntry(parser)[line] =
                  <<AsStated(parser, line)>>
  <1>1. IsEntry(line)
    BY DEF IsEntry, availableParsers
  <1>2. line.name \notin {<<".">>, <<"..">>, <<"">>}
    <2>1. CASE \E n \in Names : line.name = <<n>>
      <3>1. PICK n \in Names : line.name = <<n>>
        BY <2>1
      <3>2. n \notin {"", ".", ".."}
        BY Zenon, NamesAre
      <3> QED
        BY Zenon, <3>1, <3>2, OneIsOne
    <2>2. CASE Len(line.name) # 1
      BY Zenon, <2>2, OneIsOne
    <2> QED
      BY Zenon, <2>1, <2>2
  <1>3. parser = "dos" => <<Unblanked(line.name[1])>> = line.name
    <2> SUFFICES ASSUME parser = "dos"
                 PROVE  <<Unblanked(line.name[1])>> = line.name
      OBVIOUS
    <2>1. PICK n \in Names : line.name = <<n>> /\ n \notin DOMAIN Blanks
      OBVIOUS
    <2>2. line.name[1] = n
      BY Zenon, <2>1, OneIsOne
    <2>3. Unblanked(n) = n
      BY <2>1 DEF Unblanked
    <2> QED
      BY Zenon, <2>1, <2>2, <2>3
  <1>4. testLine(parser, line)
    BY DEF testLine
  <1>5. parseLine(parser, line) =
            <<[name |-> IF parser = "dos" THEN <<Unblanked(line.name[1])>> ELSE line.name,
               type |-> FileType(parser, line.kind), link |-> line.link, uniqueID |-> line.id]>>
    BY Zenon, <1>2, <1>4 DEF parseLine
  <1>6. (IF parser = "dos" THEN <<Unblanked(line.name[1])>> ELSE line.name) = line.name
    BY Zenon, <1>3
  <1>7. ReadEntry(parser)[line] = parseLine(parser, line)
    BY <1>1 DEF ReadEntry
  <1> QED
    BY Zenon, <1>1, <1>5, <1>6, <1>7 DEF AsStated

\* The directory itself and its parent are not read.
LEMMA SkipsLine ==
    ASSUME NEW line \in ListedLine, NEW parser \in availableParsers,
           \/ line.format = "total"
           \/ line.name \in {<<".">>, <<"..">>}
           \/ parser = "mlsd" /\ line.kind \in {"cdir", "pdir"}
    PROVE  ReadEntry(parser)[line] = <<>>
  <1>1. IsEntry(line) => parseLine(parser, line) = <<>>
    BY Zenon DEF parseLine, IsEntry
  <1> QED
    BY <1>1 DEF ReadEntry

\* What the lines of an entry are: one with the format of the server's lines,
\* or one for a link and one for its target.
LEMMA LinesOfAre ==
    ASSUME Listing, NEW path \in Children(remote, cwd)
    PROVE  \E line \in ListedLine : States(line, path)
  <1>1. path \in Paths /\ path # <<>> /\ remote \in Trees /\ style \in Styles
    BY DEF Listing, Children
  <1>2. /\ <<Last(path)>> \in FileName /\ LinkTarget \in Paths
        /\ Absolute(LinkTarget) \in FileName /\ path \in OptionalPath /\ LinkTarget \in OptionalPath
        /\ None \in OptionalName /\ None \in OptionalPath /\ Absolute(LinkTarget) \in OptionalName
    BY Zenon, <1>1, PathIsName, LinkIsName DEF OptionalPath, OptionalName
  <1> DEFINE kind == KindOf(path)
             name == <<Last(path)>>
             target == Absolute(LinkTarget)
             link == IF kind = "link" THEN target ELSE None
  <1>3. /\ kind \in {"file", "dir", "link", "special", "device", "none"} /\ (kind = "link" <=> remote[path] = "link")
    BY <1>1 DEF Trees, FileKinds, KindOf
  <1>4. LinesOf(path) =
            CASE style = "unix" -> <<Line("unix", kind, name, link, None)>>
              [] style = "slink" /\ kind = "link" -> <<Line("mlsd", "slink", name, link, path)>>
              [] style = "symlink" /\ kind = "link" ->
                    <<Line("mlsd", "symlink", name, None, LinkTarget),
                      Line("mlsd", "dir", target, None, LinkTarget)>>
              [] style \in {"slink", "symlink"} /\ kind # "link" -> <<Line("mlsd", kind, name, None, path)>>
              [] OTHER -> <<Line(style, kind, name, None, None)>>
    BY Zenon DEF LinesOf, KindOf
  <1>5. /\ FileOf(path).type = FileType(Format, kind)
        /\ FileOf(path).link = IF kind = "link" /\ style # "symlink" THEN target ELSE None
        /\ FileOf(path).uniqueID = IF style \notin {"slink", "symlink"} THEN None
                                   ELSE IF kind = "link" /\ style = "symlink" THEN LinkTarget ELSE path
    BY <1>3 DEF FileOf
  <1>6. name \in FileName /\ target \in FileName /\ link \in OptionalName
    BY <1>2
  <1>7. style \in {"slink", "symlink"} =>
            /\ FileType(Format, "link") = "SymbolicLink"
            /\ FileType(Format, "slink") = "SymbolicLink"
            /\ FileType(Format, "symlink") = "SymbolicLink"
    BY DEF FileType, TakenForFile, Format
  <1> HIDE DEF kind, name, target, link
  <1> USE DEF States
  <1>10. CASE style = "unix"
    <2> DEFINE line == Line("unix", kind, name, link, None)
    <2>1. /\ line \in ListedLine /\ line.format = Format /\ line.name = name /\ line.kind = kind
          /\ line.link = link /\ line.id = None
      BY <1>2, <1>6, <1>3, <1>10 DEF Line, ListedLine, Format
    <2>2. LinesOf(path) = <<line>>
      BY <1>4, <1>10
    <2>3. link = IF kind = "link" THEN target ELSE None
      BY DEF link
    <2> HIDE DEF line
    <2> QED
      BY <1>5, <1>3, <1>10, <2>1, <2>2, <2>3 DEF name
  <1>11. CASE style = "slink" /\ kind = "link"
    <2> DEFINE line == Line("mlsd", "slink", name, link, path)
    <2>1. /\ line \in ListedLine /\ line.format = Format /\ line.name = name /\ line.kind = "slink"
          /\ line.link = link /\ line.id = path
      BY <1>2, <1>6, <1>11 DEF Line, ListedLine, Format
    <2>2. LinesOf(path) = <<line>>
      BY <1>4, <1>11
    <2>3. link = target
      BY <1>11 DEF link
    <2> HIDE DEF line
    <2> QED
      BY <1>5, <1>7, <1>11, <2>1, <2>2, <2>3 DEF name
  <1>12. CASE style = "symlink" /\ kind = "link"
    <2> DEFINE line == Line("mlsd", "symlink", name, None, LinkTarget)
    <2>1. /\ line \in ListedLine /\ line.format = Format /\ line.name = name /\ line.kind = "symlink"
          /\ line.link = None /\ line.id = LinkTarget
      BY <1>2, <1>6, <1>12 DEF Line, ListedLine, Format
    <2>2. LinesOf(path) = <<line, Line("mlsd", "dir", Absolute(LinkTarget), None, LinkTarget)>>
      BY <1>4, <1>12 DEF target
    <2> HIDE DEF line
    <2> QED
      BY Zenon, <1>5, <1>7, <1>3, <1>12, <2>1, <2>2 DEF name
  <1>13. CASE style \in {"slink", "symlink"} /\ kind # "link"
    <2> DEFINE line == Line("mlsd", kind, name, None, path)
    <2>1. /\ line \in ListedLine /\ line.format = Format /\ line.name = name /\ line.kind = kind
          /\ line.link = None /\ line.id = path
      BY <1>2, <1>6, <1>3, <1>13 DEF Line, ListedLine, Format
    <2>2. LinesOf(path) = <<line>>
      BY <1>4, <1>13
    <2> HIDE DEF line
    <2> QED
      BY Zenon, <1>5, <1>3, <1>13, <2>1, <2>2 DEF name
  <1>14. CASE style \in {"dos", "other"}
    <2> DEFINE line == Line(style, kind, name, None, None)
    <2>1. /\ line \in ListedLine /\ line.format = Format /\ line.name = name /\ line.kind = kind
          /\ line.link = None /\ line.id = None
      BY <1>2, <1>6, <1>3, <1>14 DEF Line, ListedLine, Format
    <2>2. LinesOf(path) = <<line>>
      BY <1>4, <1>14
    <2> HIDE DEF line
    <2> QED
      BY Zenon, <1>5, <1>3, <1>14, <2>1, <2>2 DEF name
  <1> QED
    BY <1>1, <1>10, <1>11, <1>12, <1>13, <1>14 DEF Styles

\* A parser for the server's format reads an entry's lines as that entry.
LEMMA EntryIsRead ==
    ASSUME Listing, style = "dos" => Listable(remote), Format \in availableParsers,
           NEW path \in Children(remote, cwd)
    PROVE  Flat(ReadEntry(Format), LinesOf(path)) = FilesBy(path)
  <1>1. path \in Paths /\ path # <<>> /\ style \in Styles /\ remote[path] # "none"
    BY DEF Listing, Children
  <1>2. Last(path) \in Names /\ (style = "dos" => Last(path) \notin DOMAIN Blanks /\ remote[path] # "link")
    BY <1>1, ParentIsPath DEF Listable
  <1>3. PICK line \in ListedLine : States(line, path)
    BY LinesOfAre
  <1> USE DEF States
  <1>4. style # "other" /\ (Format = "dos" => style = "dos")
    BY <1>1 DEF Format, Styles, availableParsers
  <1>5. line.link = FileOf(path).link /\ line.id = FileOf(path).uniqueID
    BY <1>2, <1>3, <1>4 DEF FileOf
  <1>6. ReadEntry(Format)[line] = <<FileOf(path)>>
    <2>1. ReadEntry(Format)[line] =
                  <<AsStated(Format, line)>>
      BY <1>2, <1>3, <1>4, ReadsLine
    <2>2. FileOf(path) = [name |-> <<Last(path)>>, type |-> FileOf(path).type,
                          link |-> FileOf(path).link, uniqueID |-> FileOf(path).uniqueID]
      BY DEF FileOf
    <2> QED
      BY Zenon, <1>3, <1>5, <2>1, <2>2 DEF AsStated
  <1>7. ReadEntry(Format) \in Replacing(ListedLine, File)
    BY StepsReplace
  <1>8. Flat(ReadEntry(Format), <<line>>) = <<FileOf(path)>>
    BY <1>6, <1>7, FlatOne
  <1>9. CASE style = "symlink" /\ remote[path] = "link"
    <2> DEFINE other == Line("mlsd", "dir", Absolute(LinkTarget), None, LinkTarget)
    <2>1. /\ other \in ListedLine /\ other.format = "mlsd" /\ other.kind = "dir"
          /\ other.name = Absolute(LinkTarget) /\ other.link = None /\ other.id = LinkTarget
      BY LinkIsName DEF Line, ListedLine, OptionalName, OptionalPath
    <2>2. Format = "mlsd" /\ Len(Absolute(LinkTarget)) # 1
      BY <1>9, LinkIsName, AbsoluteIs DEF Format
    <2> HIDE DEF other
    <2>3. ReadEntry(Format)[other] = <<AsStated(Format, other)>>
      BY <2>1, <2>2, ReadsLine DEF availableParsers
    <2>4. FileType(Format, other.kind) = "Directory"
      BY <2>1 DEF FileType
    <2>5. ReadEntry(Format)[other] = <<TargetFile>>
      BY Zenon, <2>1, <2>3, <2>4 DEF TargetFile, AsStated
    <2>6. LinesOf(path) = Append(<<line>>, other) /\ <<line>> \in Seq(ListedLine)
      BY <1>3, <1>9 DEF other
    <2>7. Flat(ReadEntry(Format), Append(<<line>>, other)) =
              Flat(ReadEntry(Format), <<line>>) \o ReadEntry(Format)[other]
      <3>1. PICK h \in Replacing(ListedLine, File) : h = ReadEntry(Format)
        BY <1>7
      <3>2. PICK s \in Seq(ListedLine) : s = <<line>>
        BY Zenon, <2>6
      <3>3. Flat(h, Append(s, other)) = Flat(h, s) \o h[other]
        BY <2>1, FlatAppend
      <3> QED
        BY Zenon, <3>1, <3>2, <3>3
    <2>8. \A a, b \in {FileOf(path), TargetFile} : <<a>> \o <<b>> = <<a, b>>
      BY Zenon, OneThenOther
    <2>9. Flat(ReadEntry(Format), LinesOf(path)) = <<FileOf(path), TargetFile>>
      BY Zenon, <1>8, <2>5, <2>6, <2>7, <2>8
    <2> QED
      BY Zenon, <1>9, <2>9 DEF FilesBy
  <1>10. CASE ~(style = "symlink" /\ remote[path] = "link")
    BY Zenon, <1>3, <1>8, <1>10 DEF FilesBy
  <1> QED
    BY <1>9, <1>10

-----------------------------------------------------------------------------
(* Every entry is listed *)

\* The elements of a finite set, every one of them.
LEMMA SetToSeqHolds ==
    ASSUME NEW S, IsFiniteSet(S)
    PROVE  /\ SetToSeq(S) \in Seq(S) /\ Len(SetToSeq(S)) = Cardinality(S)
           /\ \A p \in S : \E i \in 1 .. Len(SetToSeq(S)) : SetToSeq(S)[i] = p
           /\ \A i, j \in 1 .. Len(SetToSeq(S)) : SetToSeq(S)[i] = SetToSeq(S)[j] => i = j
  <1> DEFINE n == Cardinality(S)
             e == SetToSeq(S)
  <1>1. n \in Nat /\ e \in [1 .. n -> S] /\ IsInjective(e)
    BY SetToSeqIs
  <1> HIDE DEF n, e
  <1>2. e \in Seq(S) /\ Len(e) = n
    BY <1>1
  <1>3. \A i, j \in 1 .. n : e[i] = e[j] => i = j
    BY <1>1 DEF IsInjective
  <1>4. ASSUME NEW p \in S, \A i \in 1 .. n : e[i] # p
        PROVE  FALSE
    <2>1. IsFiniteSet(S \ {p}) /\ Cardinality(S \ {p}) = n - 1
      BY <1>4, FS_RemoveElement DEF n
    <2>2. IsFiniteSet(1 .. n) /\ Cardinality(1 .. n) = n
      BY <1>1, FS_Interval
    <2>3. e \in [1 .. n -> S \ {p}]
      BY <1>1, <1>4
    <2>4. Cardinality(1 .. n) > Cardinality(S \ {p})
      BY <1>1, <2>1, <2>2
    <2>5. \E x, y \in 1 .. n : x # y /\ e[x] = e[y]
      BY Zenon, <2>1, <2>2, <2>3, <2>4, FS_PigeonHole
    <2> QED
      BY <1>3, <2>5
  <1> QED
    BY <1>2, <1>3, <1>4 DEF n, e

LEMMA ListedIsFlat ==
    ASSUME Listing
    PROVE  /\ Listed(cwd) = HeadLines \o Flat(LinesByAll, SetToSeq(Children(remote, cwd)))
           /\ LinesByAll \in Replacing(Children(remote, cwd), ListedLine)
           /\ SetToSeq(Children(remote, cwd)) \in Seq(Children(remote, cwd))
           /\ HeadLines \in Seq(ListedLine) /\ Listed(cwd) \in Seq(ListedLine)
  <1> DEFINE C == Children(remote, cwd)
             e == SetToSeq(C)
             lines == [i \in 1 .. Len(e) |-> LinesOf(e[i])]
  <1>1. e \in Seq(C)
    BY ChildrenAre, SetToSeqHolds
  <1>2. Listed(cwd) = HeadLines \o FlattenSeq(lines)
    BY Zenon DEF Listed, HeadLines
  <1>3. lines = [i \in 1 .. Len(e) |-> LinesByAll[e[i]]]
    <2> HIDE DEF e, C
    <2> QED
      BY <1>1 DEF LinesByAll, C
  <1>4. FlattenSeq(lines) = Flat(LinesByAll, e)
    BY Zenon, <1>3, FlattenIs DEF Flat
  <1>5. LinesByAll \in Replacing(C, ListedLine)
    <2>1. \A path \in C : LinesOf(path) \in Seq(ListedLine)
      <3> SUFFICES ASSUME NEW path \in C
                   PROVE  LinesOf(path) \in Seq(ListedLine)
        OBVIOUS
      <3>1. path \in Paths /\ path # <<>> /\ remote \in Trees /\ style \in Styles
        BY DEF Listing, Children
      <3> QED
        BY <3>1, LinesOfType DEF LineList
    <2> HIDE DEF C
    <2> QED
      BY <2>1 DEF LinesByAll, Replacing, C
  <1>6. HeadLines \in Seq(ListedLine)
    <2>1. /\ Line("total", "none", <<"total">>, None, None) \in ListedLine
          /\ Line("unix", "dir", <<".">>, None, None) \in ListedLine
          /\ Line("unix", "dir", <<"..">>, None, None) \in ListedLine
          /\ Line("mlsd", "cdir", Absolute(cwd), None, cwd) \in ListedLine
          /\ Line("mlsd", "pdir", <<"..">>, None, Parent(cwd)) \in ListedLine
      BY Zenon, NamesOfDots, AbsoluteIs, ParentIsPath DEF Listing, Line, ListedLine, OptionalName, OptionalPath
    <2>2. \A a, b, c \in ListedLine : <<a, b, c>> \in Seq(ListedLine) /\ <<a, b>> \in Seq(ListedLine)
      OBVIOUS
    <2>3. <<>> \in Seq(ListedLine)
      OBVIOUS
    <2>4. CASE style = "unix"
      BY <2>1, <2>2, <2>4 DEF HeadLines
    <2>5. CASE style \in {"slink", "symlink"}
      BY <2>1, <2>2, <2>5 DEF HeadLines
    <2>6. CASE style \in {"dos", "other"}
      BY <2>3, <2>6 DEF HeadLines
    <2> QED
      BY <2>4, <2>5, <2>6 DEF Listing, Styles
  <1>7. Listed(cwd) \in Seq(ListedLine)
    BY ListedType DEF Listing, LineList
  <1> QED
    BY Zenon, <1>1, <1>2, <1>4, <1>5, <1>6, <1>7 DEF C, e

\* A parser for the server's format skips what precedes the entries.
LEMMA HeadIsSkipped ==
    ASSUME Listing, Format \in availableParsers
    PROVE  Flat(ReadEntry(Format), HeadLines) = <<>>
  <1> DEFINE a == Line("total", "none", <<"total">>, None, None)
             b == Line("unix", "dir", <<".">>, None, None)
             c == Line("unix", "dir", <<"..">>, None, None)
             d == Line("mlsd", "cdir", Absolute(cwd), None, cwd)
             f == Line("mlsd", "pdir", <<"..">>, None, Parent(cwd))
  <1>1. PICK h \in Replacing(ListedLine, File) : h = ReadEntry(Format)
    BY StepsReplace
  <1>2. a \in ListedLine /\ b \in ListedLine /\ c \in ListedLine /\ d \in ListedLine /\ f \in ListedLine
    BY Zenon, NamesOfDots, AbsoluteIs, ParentIsPath DEF Listing, Line, ListedLine, OptionalName, OptionalPath
  <1>3. a.format = "total" /\ b.name = <<".">> /\ c.name = <<"..">> /\ d.kind = "cdir" /\ f.kind = "pdir"
    BY DEF Line
  <1> HIDE DEF a, b, c, d, f
  <1>4. h[a] = <<>> /\ h[b] = <<>> /\ h[c] = <<>>
    BY Zenon, <1>1, <1>2, <1>3, SkipsLine
  <1>5. Flat(h, <<>>) = <<>> /\ <<>> \o <<>> = <<>>
    BY FlatIs
  <1>6. CASE style = "unix"
    <2>1. HeadLines = Append(Append(Append(<<>>, a), b), c)
      BY <1>6 DEF HeadLines, a, b, c
    <2>2. <<>> \in Seq(ListedLine) /\ Append(<<>>, a) \in Seq(ListedLine)
          /\ Append(Append(<<>>, a), b) \in Seq(ListedLine)
      BY <1>2
    <2>3. \A s \in Seq(ListedLine), x \in ListedLine : Flat(h, Append(s, x)) = Flat(h, s) \o h[x]
      BY FlatAppend
    <2>4. Flat(h, Append(<<>>, a)) = <<>>
      BY Zenon, <1>2, <1>4, <1>5, <2>2, <2>3
    <2>5. Flat(h, Append(Append(<<>>, a), b)) = <<>>
      BY Zenon, <1>2, <1>4, <1>5, <2>2, <2>3, <2>4
    <2>6. Flat(h, Append(Append(Append(<<>>, a), b), c)) = <<>>
      BY Zenon, <1>2, <1>4, <1>5, <2>2, <2>3, <2>5
    <2> QED
      BY Zenon, <1>1, <2>1, <2>6
  <1>7. CASE style \in {"slink", "symlink"}
    <2>1. Format = "mlsd"
      BY <1>7 DEF Format
    <2>2. h[d] = <<>> /\ h[f] = <<>>
      BY <1>1, <1>2, <1>3, <2>1, SkipsLine
    <2>3. HeadLines = Append(Append(<<>>, d), f)
      BY <1>7 DEF HeadLines, d, f
    <2>4. <<>> \in Seq(ListedLine) /\ Append(<<>>, d) \in Seq(ListedLine)
      BY <1>2
    <2>5. \A s \in Seq(ListedLine), x \in ListedLine : Flat(h, Append(s, x)) = Flat(h, s) \o h[x]
      BY FlatAppend
    <2>6. Flat(h, Append(<<>>, d)) = <<>>
      BY Zenon, <1>2, <1>5, <2>2, <2>4, <2>5
    <2>7. Flat(h, Append(Append(<<>>, d), f)) = <<>>
      BY Zenon, <1>2, <1>5, <2>2, <2>4, <2>5, <2>6
    <2> QED
      BY Zenon, <1>1, <2>3, <2>7
  <1>8. CASE style \in {"dos", "other"}
    <2>1. HeadLines = <<>>
      BY <1>8 DEF HeadLines
    <2> QED
      BY Zenon, <1>1, <1>5, <2>1
  <1> QED
    BY <1>6, <1>7, <1>8 DEF Listing, Styles

\* What a parser for the server's format reads from a listing.
LEMMA ListingIsRead ==
    ASSUME Listing, style = "dos" => Listable(remote), Format \in availableParsers
    PROVE  /\ FilesByAll \in Replacing(Children(remote, cwd), File)
           /\ Flat(ReadEntry(Format), Listed(cwd)) =
                  Flat(FilesByAll, SetToSeq(Children(remote, cwd)))
           /\ Flat(ReadEntry(Format), Listed(cwd)) \in FileList
  <1> DEFINE C == Children(remote, cwd)
             e == SetToSeq(C)
  <1>1. PICK g \in Replacing(ListedLine, File) : g = ReadEntry(Format)
    BY StepsReplace
  <1>2. PICK h \in Replacing(C, ListedLine) : h = LinesByAll
    BY ListedIsFlat
  <1>3. e \in Seq(C) /\ HeadLines \in Seq(ListedLine) /\ Listed(cwd) \in Seq(ListedLine)
    BY ListedIsFlat
  <1>4. Listed(cwd) = HeadLines \o Flat(h, e)
    BY ListedIsFlat, <1>2
  <1>5. \A path \in C : FilesByAll[path] = Flat(g, h[path])
    <2> SUFFICES ASSUME NEW path \in C
                 PROVE  FilesByAll[path] = Flat(g, h[path])
      OBVIOUS
    <2>1. FilesByAll[path] = FilesBy(path) /\ h[path] = LinesOf(path)
      BY <1>2 DEF FilesByAll, LinesByAll
    <2>2. Flat(ReadEntry(Format), LinesOf(path)) = FilesBy(path)
      BY EntryIsRead
    <2> QED
      BY Zenon, <1>1, <2>1, <2>2
  <1>6. FilesByAll \in Replacing(C, File)
    <2>1. ASSUME NEW path \in C
          PROVE  FilesByAll[path] \in Seq(File)
      <3>1. h[path] \in Seq(ListedLine)
        BY DEF Replacing
      <3>2. Flat(g, h[path]) \in Seq(File)
        BY <3>1, FlatIs
      <3> QED
        BY <1>5, <3>2
    <2>2. FilesByAll = [path \in C |-> FilesByAll[path]]
      BY DEF FilesByAll
    <2> HIDE DEF C
    <2> QED
      BY <2>1, <2>2 DEF Replacing
  <1> HIDE DEF C, e
  <1>7. Flat(h, e) \in Seq(ListedLine)
    BY <1>3, FlatIs
  <1>8. Flat(g, HeadLines \o Flat(h, e)) = Flat(g, HeadLines) \o Flat(g, Flat(h, e))
    BY <1>3, <1>7, FlatConcat
  <1>9. PICK f \in Replacing(C, File) : f = FilesByAll
    BY <1>6
  <1>10. Flat(g, Flat(h, e)) = Flat(f, e) /\ Flat(f, e) \in Seq(File)
    <2>1. \A path \in C : f[path] = Flat(g, h[path])
      BY <1>5, <1>9
    <2> QED
      BY <1>3, <2>1, FlatTwice, FlatIs
  <1>11. Flat(g, HeadLines) = <<>>
    BY Zenon, <1>1, HeadIsSkipped
  <1>12. <<>> \o Flat(f, e) = Flat(f, e)
    BY <1>10
  <1>13. Flat(g, Listed(cwd)) = Flat(f, e)
    BY Zenon, <1>4, <1>8, <1>10, <1>11, <1>12
  <1> QED
    BY Zenon, <1>1, <1>6, <1>9, <1>10, <1>13 DEF C, e, FileList

-----------------------------------------------------------------------------
(* What list() returns *)

LEMMA ListedInFormat ==
    ASSUME Listing
    PROVE  Listed(cwd) \in Seq(FormatLine)
  <1> DEFINE C == Children(remote, cwd)
             e == SetToSeq(C)
  <1>1. HeadLines \in Seq(FormatLine)
    <2>1. /\ Line("total", "none", <<"total">>, None, None) \in FormatLine
          /\ style = "unix" => Line("unix", "dir", <<".">>, None, None) \in FormatLine
          /\ style = "unix" => Line("unix", "dir", <<"..">>, None, None) \in FormatLine
          /\ style \in {"slink", "symlink"} => Line("mlsd", "cdir", Absolute(cwd), None, cwd) \in FormatLine
          /\ style \in {"slink", "symlink"} => Line("mlsd", "pdir", <<"..">>, None, Parent(cwd)) \in FormatLine
      BY Zenon, NamesOfDots, AbsoluteIs, ParentIsPath
         DEF Listing, Line, FormatLine, Format, ListedLine, OptionalName, OptionalPath
    <2>2. \A a, b, c \in FormatLine : <<a, b, c>> \in Seq(FormatLine) /\ <<a, b>> \in Seq(FormatLine)
      OBVIOUS
    <2>3. <<>> \in Seq(FormatLine)
      OBVIOUS
    <2>4. CASE style = "unix"
      BY <2>1, <2>2, <2>4 DEF HeadLines
    <2>5. CASE style \in {"slink", "symlink"}
      BY <2>1, <2>2, <2>5 DEF HeadLines
    <2>6. CASE style \in {"dos", "other"}
      BY <2>3, <2>6 DEF HeadLines
    <2> QED
      BY <2>4, <2>5, <2>6 DEF Listing, Styles
  <1>2. \A path \in C : LinesOf(path) \in Seq(FormatLine)
    <2> SUFFICES ASSUME NEW path \in C
                 PROVE  LinesOf(path) \in Seq(FormatLine)
      OBVIOUS
    <2> DEFINE other == Line("mlsd", "dir", Absolute(LinkTarget), None, LinkTarget)
    <2>1. PICK line \in ListedLine :
              /\ line.format = Format
              /\ LinesOf(path) = IF style = "symlink" /\ remote[path] = "link"
                                 THEN <<line, other>> ELSE <<line>>
      BY LinesOfAre DEF States
    <2>2. line \in FormatLine
      BY <2>1 DEF FormatLine
    <2>3. style = "symlink" => other \in FormatLine
      BY LinkIsName DEF FormatLine, Format, Line, ListedLine, OptionalName, OptionalPath
    <2> HIDE DEF other
    <2>4. <<line>> \in Seq(FormatLine) /\ (style = "symlink" => <<line, other>> \in Seq(FormatLine))
      BY <2>2, <2>3
    <2> QED
      BY <2>1, <2>4
  <1>3. PICK h \in Replacing(C, FormatLine) : h = LinesByAll
    BY Zenon, <1>2 DEF Replacing, LinesByAll
  <1>4. e \in Seq(C) /\ Listed(cwd) = HeadLines \o Flat(LinesByAll, e)
    BY ListedIsFlat
  <1> HIDE DEF C, e
  <1>5. Flat(h, e) \in Seq(FormatLine)
    BY <1>4, FlatIs
  <1>6. HeadLines \o Flat(h, e) \in Seq(FormatLine)
    BY <1>1, <1>5
  <1> QED
    BY Zenon, <1>3, <1>4, <1>6

\* The last entry, and thus the parser it chooses, is of the server's format.
LEMMA FormatIsKnown ==
    ASSUME Listing, Understood(Listed(cwd)), Entries(Listed(cwd)) # <<>>
    PROVE  /\ Format \in availableParsers
           /\ (CHOOSE p \in availableParsers : testLine(p, Last(Entries(Listed(cwd))))) = Format
  <1> DEFINE lines == Listed(cwd)
             entries == Entries(lines)
             FormatEntries == Seq(FormatEntry)
  <1>1. lines \in Seq(FormatLine)
    BY ListedInFormat
  <1>2. Choosing!ClosedOn(FormatEntries, FormatLine)
    <2> SUFFICES ASSUME NEW kept \in FormatEntries, NEW line \in FormatLine
                 PROVE  KeepEntry(kept, line) \in FormatEntries
      BY Zenon DEF Choosing!ClosedOn
    <2>1. IsEntry(line) => line \in FormatEntry
      BY DEF IsEntry, FormatLine, FormatEntry
    <2>2. line \in FormatEntry => Append(kept, line) \in FormatEntries
      OBVIOUS
    <2> QED
      BY <2>1, <2>2 DEF KeepEntry
  <1>3. <<>> \in FormatEntries
    OBVIOUS
  <1>4. Choosing!Fold(<<>>, lines) \in FormatEntries
    <2> HIDE DEF FormatEntries, lines
    <2> QED
      BY Zenon, <1>1, <1>2, <1>3, Choosing!FoldInto
  <1>5. FoldLeft(KeepEntry, <<>>, lines) = Choosing!Fold(<<>>, lines)
    BY Zenon DEF FoldLeft, MapThenFoldSet, Max, Choosing!Fold, Choosing!Greatest
  <1>6. entries \in FormatEntries
    BY Zenon, <1>4, <1>5 DEF Entries
  <1>7. Last(entries) \in FormatEntry
    <2> HIDE DEF entries, lines
    <2>1. entries # <<>>
      BY DEF entries, lines
    <2> QED
      BY <1>6, <2>1 DEF Last
  <1>8. Last(entries).format = Format
    BY <1>7 DEF FormatEntry
  <1>9. Format \in availableParsers
    BY <1>8 DEF Understood
  <1>10. \A p : testLine(p, Last(entries)) <=> p = Format
    BY <1>8 DEF testLine
  <1> HIDE DEF entries
  <1> QED
    BY Zenon, <1>9, <1>10 DEF entries, lines

LEMMA EntryIsKept ==
    ASSUME NEW lines \in Seq(ListedLine), NEW m \in 1 .. Len(lines), IsEntry(lines[m])
    PROVE  Entries(lines) # <<>>
  <1>1. lines[m] \in ListedLine
    OBVIOUS
  <1>2. PICK g \in Replacing(ListedLine, ListedLine) : g = EntryOf
    BY StepsReplace
  <1>3. g[lines[m]] = <<lines[m]>>
    BY <1>1, <1>2 DEF EntryOf
  <1>4. 1 \in 1 .. Len(g[lines[m]])
    BY <1>3
  <1>5. \A n \in 1 .. Len(lines) : \A j \in 1 .. Len(g[lines[n]]) :
            \E k \in 1 .. Len(Flat(g, lines)) : Flat(g, lines)[k] = g[lines[n]][j]
    BY FlatHolds
  <1>6. PICK k \in 1 .. Len(Flat(g, lines)) : TRUE
    BY Zenon, <1>4, <1>5
  <1>7. Entries(lines) = Flat(g, lines)
    BY <1>2, EntriesAreFlat DEF LineList
  <1> QED
    BY <1>6, <1>7

\* Where there is something to list, there are entries.
LEMMA EntriesAreSome ==
    ASSUME Listing, Children(remote, cwd) # {}
    PROVE  Entries(Listed(cwd)) # <<>>
  <1> DEFINE C == Children(remote, cwd)
             e == SetToSeq(C)
             lines == Listed(cwd)
  <1>1. PICK path \in C : TRUE
    OBVIOUS
  <1>2. PICK h \in Replacing(C, ListedLine) : h = LinesByAll
    BY ListedIsFlat
  <1>3. /\ e \in Seq(C) /\ HeadLines \in Seq(ListedLine) /\ lines \in Seq(ListedLine)
        /\ lines = HeadLines \o Flat(h, e)
    BY ListedIsFlat, <1>2
  <1>4. PICK i \in 1 .. Len(e) : e[i] = path
    BY ChildrenAre, SetToSeqHolds
  <1>5. /\ LinesOf(path)[1].format = Format /\ Len(LinesOf(path)) >= 1
    BY LinesOfAre DEF States
  <1>6. h[path] = LinesOf(path) /\ h[path] \in Seq(ListedLine)
    <2>1. h[path] = LinesOf(path)
      BY <1>2 DEF LinesByAll
    <2> QED
      BY <2>1 DEF Replacing
  <1> HIDE DEF C, e, lines
  <1>7. PICK k \in 1 .. Len(Flat(h, e)) : Flat(h, e)[k] = h[e[i]][1]
    <2>1. \A n \in 1 .. Len(e) : \A j \in 1 .. Len(h[e[n]]) :
             \E k \in 1 .. Len(Flat(h, e)) : Flat(h, e)[k] = h[e[n]][j]
      <3>1. e \in Seq(C)
        BY <1>3
      <3> QED
        BY Z3, <3>1, FlatHolds
    <2>2. 1 \in 1 .. Len(h[e[i]])
      BY <1>4, <1>5, <1>6
    <2> QED
      BY Zenon, <1>4, <2>1, <2>2
  <1>8. Flat(h, e) \in Seq(ListedLine)
    BY <1>3, FlatIs
  <1>9. PICK m \in 1 .. Len(lines) : lines[m] = Flat(h, e)[k]
    <2>1. Len(HeadLines) + k \in 1 .. Len(HeadLines \o Flat(h, e))
          /\ (HeadLines \o Flat(h, e))[Len(HeadLines) + k] = Flat(h, e)[k]
      BY <1>3, <1>7, <1>8
    <2> QED
      BY <1>3, <2>1
  <1>10. lines[m] \in ListedLine /\ IsEntry(lines[m])
    <2>1. lines[m].format = Format
      BY <1>4, <1>5, <1>6, <1>7, <1>9
    <2>2. Format \notin {"blank", "total"}
      BY DEF Format, Listing, Styles
    <2> QED
      BY <1>3, <2>1, <2>2 DEF IsEntry
  <1>11. Entries(lines) # <<>>
    BY Zenon, <1>3, <1>9, <1>10, EntryIsKept
  <1> QED
    BY <1>11 DEF lines

LEMMA AbsoluteLeads ==
    ASSUME cwd \in Paths, NEW p \in Paths
    PROVE  Walk(Absolute(p)) = p
  <1>1. CASE p # <<>>
    <2>1. p \in Seq(Names)
      BY PathsAre
    <2>2. Absolute(p) = <<"">> \o p
      BY Zenon, <1>1 DEF Absolute
    <2> QED
      BY Zenon, <2>1, <2>2, WalkIs
  <1>2. CASE p = <<>>
    <2>1. PICK slash \in Parts : slash = ""
      BY Zenon DEF Parts
    <2>2. /\ \A x \in Parts : Head(<<x>> \o <<x>>) = x /\ <<x>> \o <<x>> # <<>>
                             /\ <<x>> \in Seq(Parts)
          /\ <<>> \in Seq(Names)
      OBVIOUS
    <2>3. Absolute(p) = <<slash>> \o <<slash>>
      BY Zenon, <1>2, <2>1 DEF Absolute
    <2>4. Absolute(p) \in Seq(Parts)
      BY AbsoluteIs
    <2>5. Walk(Absolute(p)) = Fold(<<>>, <<slash>> \o <<slash>>)
      BY Zenon, <2>1, <2>2, <2>3, <2>4, WalkFolds
    <2>6. Fold(<<>>, <<slash>> \o <<slash>>) = Fold(Fold(<<>>, <<slash>>), <<slash>>)
      BY Zenon, <2>1, <2>2, StepIs, FoldConcat
    <2>7. Fold(<<>>, <<slash>>) = Step(<<>>, slash) /\ Step(<<>>, slash) = <<>>
      BY Zenon, <2>1, <2>2, StepIs, FoldOne
    <2> QED
      BY Zenon, <1>2, <2>5, <2>6, <2>7
  <1> QED
    BY <1>1, <1>2

\* What is read for the entries, before links are resolved.
ReadFiles == Flat(FilesByAll, SetToSeq(Children(remote, cwd)))

\* What list() returns for an entry.
ListedFile(path) == IF Format = "mlsd" THEN Resolved(FileOf(path), ReadFiles) ELSE FileOf(path)

\* The files of the entries and the targets of links are all that is read.
LEMMA ReadFilesAre ==
    ASSUME Listing, style = "dos" => Listable(remote), Format \in availableParsers
    PROVE  /\ ReadFiles \in FileList
           /\ \A i \in 1 .. Len(ReadFiles) :
                 \/ ReadFiles[i] = TargetFile
                 \/ \E path \in Children(remote, cwd) : ReadFiles[i] = FileOf(path)
           /\ \A path \in Children(remote, cwd) :
                 style = "symlink" /\ remote[path] = "link" =>
                     \E i \in 1 .. Len(ReadFiles) : ReadFiles[i] = TargetFile
  <1> DEFINE C == Children(remote, cwd)
             e == SetToSeq(C)
             Known == {FileOf(path) : path \in C} \cup {TargetFile}
  <1>1. ReadFiles \in FileList
    BY ListingIsRead DEF ReadFiles
  <1>2. \A path \in C : FilesBy(path) \in Seq(Known)
    <2>1. \A a, b \in Known : <<a>> \in Seq(Known) /\ <<a, b>> \in Seq(Known)
      BY Zenon, FewKnown
    <2>2. \A path \in C : FileOf(path) \in Known /\ TargetFile \in Known
      OBVIOUS
    <2> HIDE DEF Known, C
    <2> QED
      BY Zenon, <2>1, <2>2 DEF FilesBy
  <1>3. PICK h \in Replacing(C, Known) : h = FilesByAll
    <2> HIDE DEF Known
    <2> QED
      BY Zenon, <1>2 DEF Replacing, FilesByAll
  <1>4. e \in Seq(C) /\ \A path \in C : \E i \in 1 .. Len(e) : e[i] = path
    BY ChildrenAre, SetToSeqHolds
  <1>5. ReadFiles = Flat(h, e)
    BY Zenon, <1>3 DEF ReadFiles
  <1> HIDE DEF C, e, Known
  <1>6. ReadFiles \in Seq(Known)
    <2>1. Flat(h, e) \in Seq(Known)
      BY <1>4, FlatIs
    <2> QED
      BY <1>5, <2>1
  <1>7. \A i \in 1 .. Len(ReadFiles) : ReadFiles[i] \in Known
    BY <1>6
  <1>8. \A i \in 1 .. Len(e) : \A j \in 1 .. Len(h[e[i]]) :
            \E k \in 1 .. Len(Flat(h, e)) : Flat(h, e)[k] = h[e[i]][j]
    <2> HIDE DEF ReadFiles, Replacing
    <2> QED
      BY <1>4, FlatHolds
  <1>9. ASSUME NEW path \in C, style = "symlink", remote[path] = "link"
        PROVE  \E i \in 1 .. Len(ReadFiles) : ReadFiles[i] = TargetFile
    <2>1. PICK n \in 1 .. Len(e) : e[n] = path
      BY <1>4
    <2>2. h[path] = <<FileOf(path), TargetFile>>
      <3>1. FilesByAll[path] = FilesBy(path)
        BY DEF FilesByAll, C
      <3>2. FilesBy(path) = <<FileOf(path), TargetFile>>
        BY Zenon, <1>9 DEF FilesBy
      <3> QED
        BY Zenon, <1>3, <3>1, <3>2
    <2>3. 2 \in 1 .. Len(h[path]) /\ h[path][2] = TargetFile
      BY <2>2
    <2>4. \E k \in 1 .. Len(Flat(h, e)) : Flat(h, e)[k] = h[path][2]
      BY Zenon, <2>1, <2>3, <1>8
    <2> QED
      BY Zenon, <1>5, <2>3, <2>4
  <1> QED
    BY Zenon, <1>1, <1>7, <1>9 DEF C, Known

LEMMA FileOfType ==
    ASSUME Listing, NEW path \in Children(remote, cwd)
    PROVE  FileOf(path) \in File
  <1>1. path \in Paths /\ <<Last(path)>> \in FileName
    BY Zenon, PathIsName DEF Children
  <1>2. FileType(Format, KindOf(path)) \in {"File", "Directory", "SymbolicLink", "Unknown"}
    BY DEF FileType
  <1> QED
    BY <1>1, <1>2, LinkIsName DEF FileOf, File, OptionalName, OptionalPath

\* Keeping the directory's own entries, with their links resolved, leaves one
\* file for every entry.
LEMMA OwnIsKept ==
    ASSUME Listing, style = "dos" => Listable(remote), Format = "mlsd",
           NEW path \in Children(remote, cwd)
    PROVE  Flat(KeptOf(ReadFiles), FilesBy(path)) = <<ListedFile(path)>>
  <1>1. ReadFiles \in FileList
    BY ReadFilesAre DEF availableParsers
  <1>2. PICK g \in Replacing(File, File) : g = KeptOf(ReadFiles)
    BY <1>1, StepsReplace
  <1>3. FileOf(path) \in File /\ TargetFile \in File
    BY FileOfType, LinkIsName DEF TargetFile, File, OptionalName, OptionalPath
  <1>4. Len(FileOf(path).name) = 1 /\ Len(TargetFile.name) # 1
    BY LinkIsName, AbsoluteIs, OneIsOne DEF FileOf, TargetFile
  <1>5. g[FileOf(path)] = <<ListedFile(path)>> /\ g[TargetFile] = <<>>
    BY <1>2, <1>3, <1>4 DEF KeptOf, ListedFile
  <1> HIDE DEF ReadFiles
  <1>6. Flat(g, <<FileOf(path)>>) = <<ListedFile(path)>>
    <2> PICK x \in File : x = FileOf(path)
      BY <1>3
    <2>1. Flat(g, <<x>>) = g[x]
      BY FlatOne
    <2> QED
      BY <1>5, <2>1
  <1>7. CASE style = "symlink" /\ remote[path] = "link"
    <2>1. FilesBy(path) = Append(<<FileOf(path)>>, TargetFile) /\ <<FileOf(path)>> \in Seq(File)
      BY <1>3, <1>7 DEF FilesBy
    <2>2. Flat(g, Append(<<FileOf(path)>>, TargetFile)) = Flat(g, <<FileOf(path)>>) \o g[TargetFile]
      <3>1. PICK s \in Seq(File) : s = <<FileOf(path)>>
        BY Zenon, <2>1
      <3>2. PICK y \in File : y = TargetFile
        BY <1>3
      <3>3. Flat(g, Append(s, y)) = Flat(g, s) \o g[y]
        BY FlatAppend
      <3> QED
        BY Zenon, <3>1, <3>2, <3>3
    <2>3. <<ListedFile(path)>> \o <<>> = <<ListedFile(path)>>
      BY HeadOfOne
    <2> QED
      BY Zenon, <1>2, <1>5, <1>6, <2>1, <2>2, <2>3
  <1>8. CASE ~(style = "symlink" /\ remote[path] = "link")
    BY Zenon, <1>2, <1>6, <1>8 DEF FilesBy
  <1> QED
    BY <1>7, <1>8

\* What list() returns: one file for every entry, in the order of the listing.
LEMMA FilesAreListed ==
    ASSUME Listing, style = "dos" => Listable(remote), Understood(Listed(cwd))
    PROVE  LET e == SetToSeq(Children(remote, cwd))
           IN  /\ e \in Seq(Children(remote, cwd)) /\ Len(Files) = Len(e)
               /\ Children(remote, cwd) # {} => Format \in availableParsers
               /\ \A i \in 1 .. Len(e) : Files[i] = ListedFile(e[i])
  <1> DEFINE C == Children(remote, cwd)
             e == SetToSeq(C)
             lines == Listed(cwd)
             entries == Entries(lines)
             Single == [path \in C |-> <<ListedFile(path)>>]
             One == [path \in C |-> ListedFile(path)]
  <1>1. e \in Seq(C) /\ Len(e) = Cardinality(C) /\ lines \in LineList
    BY ChildrenAre, SetToSeqHolds, ListedIsFlat DEF LineList
  <1>2. CASE entries = <<>>
    <2>1. C = {}
      BY <1>2, EntriesAreSome
    <2>2. Len(e) = 0
      BY <1>1, <2>1, FS_EmptySet
    <2>3. Files = <<>>
      BY <1>2 DEF Files, parseList
    <2> QED
      BY <1>1, <2>1, <2>2, <2>3
  <1>3. CASE entries # <<>>
    <2>1. Format \in availableParsers
          /\ (CHOOSE p \in availableParsers : testLine(p, Last(entries))) = Format
      BY <1>3, FormatIsKnown
    <2>2. Files = transformList(Format, Flat(ReadEntry(Format), lines))
      <3>1. Files = transformList(Format, FlattenSeq([i \in 1 .. Len(entries) |->
                                                           parseLine(Format, entries[i])]))
        <4> DEFINE Read(p) == transformList(p, FlattenSeq([i \in 1 .. Len(entries) |->
                                                               parseLine(p, entries[i])]))
                   parser == CHOOSE p \in availableParsers : testLine(p, Last(entries))
        <4>1. Files = IF entries = <<>> THEN <<>> ELSE Read(parser)
          BY Zenon DEF Files, parseList
        <4>2. parser = Format
          BY <2>1
        <4> HIDE DEF Read, parser
        <4>3. Files = Read(Format)
          BY Zenon, <1>3, <4>1, <4>2
        <4> QED
          BY Zenon, <4>3 DEF Read
      <3>2. FlattenSeq([i \in 1 .. Len(entries) |-> parseLine(Format, entries[i])])
                = Flat(ReadEntry(Format), lines)
        <4> HIDE DEF lines
        <4> QED
          BY Zenon, <1>1, ReadIsFlat DEF entries
      <3> QED
        BY Zenon, <3>1, <3>2
    <2>3. /\ FilesByAll \in Replacing(C, File)
          /\ Flat(ReadEntry(Format), lines) = ReadFiles /\ ReadFiles \in FileList
      BY <2>1, ListingIsRead DEF ReadFiles
    <2>4. \A path \in C : FileOf(path) \in File /\ ListedFile(path) \in File
      BY <2>3, FileOfType, ResolvedType DEF ListedFile
    <2>5. Single \in Replacing(C, File) /\ One \in [C -> File] /\ \A path \in C : Single[path] = <<One[path]>>
      <3> HIDE DEF C
      <3>1. \A x \in File : <<x>> \in Seq(File)
        OBVIOUS
      <3> QED
        BY <2>4, <3>1 DEF Replacing
    <2>6. Files = Flat(Single, e)
      <3>1. CASE Format = "mlsd"
        <4>1. Files = Flat(KeptOf(ReadFiles), Flat(FilesByAll, e))
          <5>1. ReadFiles = Flat(FilesByAll, e)
            BY Zenon DEF ReadFiles
          <5> QED
            BY Zenon, <2>2, <2>3, <3>1, <5>1, KeptIsFlat
        <4>2. \A path \in C : Single[path] = Flat(KeptOf(ReadFiles), FilesByAll[path])
          BY <3>1, OwnIsKept DEF FilesByAll
        <4>3. PICK h \in Replacing(C, File) : h = FilesByAll
          BY <2>3
        <4>4. PICK g \in Replacing(File, File) : g = KeptOf(ReadFiles)
          BY <2>3, StepsReplace
        <4>5. PICK f \in Replacing(C, File) : f = Single
          BY <2>5
        <4> HIDE DEF C, e, Single
        <4>6. \A path \in C : f[path] = Flat(g, h[path])
          BY Zenon, <4>2, <4>3, <4>4, <4>5
        <4>7. Flat(g, Flat(h, e)) = Flat(f, e)
          BY <1>1, <4>6, FlatTwice
        <4> QED
          BY Zenon, <4>1, <4>3, <4>4, <4>5, <4>7
      <3>2. CASE Format # "mlsd"
        <4>1. Files = ReadFiles
          BY <2>2, <2>3, <3>2 DEF transformList
        <4>2. style # "symlink"
          BY <3>2 DEF Format
        <4>3. FilesByAll = Single
          BY <3>2, <4>2 DEF FilesByAll, FilesBy, ListedFile
        <4> QED
          BY Zenon, <4>1, <4>3 DEF ReadFiles
      <3> QED
        BY <3>1, <3>2
    <2>7. PICK h \in Replacing(C, File) : h = Single
      BY <2>5
    <2>8. PICK f \in [C -> File] : f = One
      BY Zenon, <2>5
    <2>9. \A path \in C : h[path] = <<f[path]>>
      BY Zenon, <2>5, <2>7, <2>8
    <2>10. \A path \in C : f[path] = ListedFile(path)
      BY <2>8
    <2> HIDE DEF C, e, Single, One
    <2>11. Len(Flat(h, e)) = Len(e) /\ \A i \in 1 .. Len(e) : Flat(h, e)[i] = f[e[i]]
      BY <1>1, <2>9, FlatSingles
    <2>12. \A i \in 1 .. Len(e) : e[i] \in C
      BY <1>1
    <2> QED
      BY Zenon, <1>1, <2>1, <2>6, <2>7, <2>10, <2>11, <2>12 DEF C, e
  <1> QED
    BY <1>2, <1>3

LEMMA FileOfIs ==
    ASSUME Listing, style = "dos" => Listable(remote), NEW path \in Children(remote, cwd)
    PROVE  /\ FileOf(path).name = <<Last(path)>>
           /\ isDirectory(FileOf(path)) <=> remote[path] = "dir"
           /\ isFile(FileOf(path)) <=> ListedAsFile(path)
           /\ isSymbolicLink(FileOf(path)) <=> remote[path] = "link"
  <1>1. /\ remote[path] \in FileKinds \cup {"dir", "link", "special", "device"}
        /\ style = "dos" => remote[path] \notin {"link", "special", "device"}
    BY DEF Listing, Children, Trees, Listable
  <1> QED
    BY <1>1 DEF FileOf, KindOf, Format, FileType, TakenForFile, ListedAsFile, isDirectory,
                  isFile, isSymbolicLink, FileKinds

\* A link without a stated target is given a path to the directory with its
\* unique ID: the target's absolute path or, where that is an entry as well,
\* its name.
LEMMA LinkIsResolved ==
    ASSUME Listing, style = "symlink",
           NEW path \in Children(remote, cwd), remote[path] = "link"
    PROVE  LET link == Resolved(FileOf(path), ReadFiles).link
           IN  link # None /\ Walk(link) = LinkTarget
  <1> DEFINE file == FileOf(path)
             T == Targets(file, ReadFiles)
  <1>1. Format = "mlsd" /\ Format \in availableParsers
    BY DEF Format, availableParsers
  <1>2. /\ ReadFiles \in FileList
        /\ \A i \in 1 .. Len(ReadFiles) :
              \/ ReadFiles[i] = TargetFile
              \/ \E p \in Children(remote, cwd) : ReadFiles[i] = FileOf(p)
        /\ \E i \in 1 .. Len(ReadFiles) : ReadFiles[i] = TargetFile
    BY <1>1, ReadFilesAre
  <1>3. /\ isSymbolicLink(file) /\ file.uniqueID = LinkTarget /\ file.link = None
        /\ LinkTarget # None /\ LinkTarget \in Paths
    BY FileOfIs, LinkIsName, NoneIsNoPath DEF FileOf
  <1> HIDE DEF file
  <1>4. PICK n \in Nat : n = Len(ReadFiles)
    BY <1>2 DEF FileList
  <1>5. T \in SUBSET (1 .. n) /\ T # {}
    <2>1. ~isSymbolicLink(TargetFile) /\ TargetFile.uniqueID = LinkTarget
      BY DEF TargetFile, isSymbolicLink
    <2>2. PICK i \in 1 .. Len(ReadFiles) : ReadFiles[i] = TargetFile
      BY <1>2
    <2>3. i \in T
      BY <1>3, <2>1, <2>2 DEF Targets
    <2>4. T \subseteq 1 .. n
      BY <1>4 DEF Targets
    <2> QED
      BY <2>3, <2>4
  <1>6. Max(T) \in T
    <2> HIDE DEF T
    <2> QED
      BY Zenon, <1>5, GreatestIsIn DEF Max
  <1> DEFINE m == Max(T)
  <1>7. /\ m \in 1 .. Len(ReadFiles) /\ ~isSymbolicLink(ReadFiles[m])
        /\ ReadFiles[m].uniqueID = LinkTarget
    <2> HIDE DEF m
    <2>1. m \in T
      BY <1>6 DEF m
    <2> QED
      BY <1>3, <2>1 DEF Targets
  <1>8. Resolved(file, ReadFiles).link = ReadFiles[m].name
    <2>1. Resolved(file, ReadFiles) = [file EXCEPT !.link = ReadFiles[m].name]
      BY Zenon, <1>3, <1>5 DEF Resolved
    <2>2. file \in File
      BY FileOfType DEF file
    <2> HIDE DEF m
    <2> QED
      BY <2>1, <2>2 DEF File
  <1> HIDE DEF m, T
  <1>9. CASE ReadFiles[m] = TargetFile
    <2>1. ReadFiles[m].name = Absolute(LinkTarget)
      BY <1>9 DEF TargetFile
    <2>2. Absolute(LinkTarget) # None
      BY Zenon, <1>3, DirectoryAssumption
    <2>3. Walk(Absolute(LinkTarget)) = LinkTarget
      BY <1>3, AbsoluteLeads DEF Listing
    <2> QED
      BY Zenon, <1>8, <2>1, <2>2, <2>3 DEF file
  <1>10. CASE \E p \in Children(remote, cwd) : ReadFiles[m] = FileOf(p)
    <2>1. PICK p \in Children(remote, cwd) : ReadFiles[m] = FileOf(p)
      BY <1>10
    <2>2. remote[p] # "link"
      BY Zenon, <1>7, <2>1, FileOfIs
    <2>3. p = LinkTarget /\ ReadFiles[m].name = <<Last(p)>>
      BY <1>7, <2>1, <2>2 DEF FileOf
    <2>4. p \in Paths /\ p # <<>> /\ Parent(p) = cwd /\ cwd \in Paths
      BY DEF Children, Listing
    <2>5. Last(p) \in Names /\ p = Append(cwd, Last(p)) /\ Len(p) > 0
      BY <2>4, ParentIsPath
    <2>6. Walk(<<Last(p)>>) = p
      BY Zenon, <2>4, <2>5, WalkIs
    <2>7. <<Last(p)>> \in Paths
      <3>1. Len(p) \in 0 .. Depth
        BY <2>4, PathsAre
      <3>2. \A x \in Names : <<x>> \in Seq(Names) /\ Len(<<x>>) = 1
        OBVIOUS
      <3>3. 1 <= Depth
        BY <2>5, <3>1, DepthIsNat
      <3> QED
        BY Zenon, <2>5, <3>2, <3>3, PathsAre
    <2>8. <<Last(p)>> # None
      BY <2>7, NoneIsNoPath
    <2> QED
      BY Zenon, <1>8, <2>3, <2>6, <2>8 DEF file
  <1> QED
    BY Zenon, <1>2, <1>7, <1>9, <1>10

LEMMA EachIsDescribed ==
    ASSUME Listing, style = "dos" => Listable(remote), Format \in availableParsers,
           NEW path \in Children(remote, cwd)
    PROVE  Describes(ListedFile(path), path)
  <1>1. FileOf(path) \in File
    BY FileOfType
  <1>2. Format = "mlsd" => ReadFiles \in FileList
    BY ReadFilesAre DEF Format
  <1>3. ListedFile(path).name = FileOf(path).name /\ ListedFile(path).type = FileOf(path).type
    BY <1>1, <1>2, ResolvedKeeps DEF ListedFile
  <1>4. /\ ListedFile(path).name = <<Last(path)>>
        /\ isDirectory(ListedFile(path)) <=> remote[path] = "dir"
        /\ isFile(ListedFile(path)) <=> ListedAsFile(path)
        /\ isSymbolicLink(ListedFile(path)) <=> remote[path] = "link"
    BY Zenon, <1>3, FileOfIs DEF isDirectory, isFile, isSymbolicLink
  <1>5. ASSUME remote[path] = "link"
        PROVE  ListedFile(path).link # None /\ Walk(ListedFile(path).link) = LinkTarget
    <2>1. CASE style = "symlink"
      <3>1. ListedFile(path) = Resolved(FileOf(path), ReadFiles)
        BY <2>1 DEF ListedFile, Format
      <3> QED
        BY Zenon, <1>5, <2>1, <3>1, LinkIsResolved
    <2>2. CASE style # "symlink"
      <3>1. style \in {"unix", "slink"}
        BY <1>5, <2>2 DEF Listing, DosIsPlain, Styles, Format, availableParsers, Children
      <3>2. FileOf(path).link = Absolute(LinkTarget)
        BY <1>5, <2>2 DEF FileOf
      <3>3. Absolute(LinkTarget) # None /\ Walk(Absolute(LinkTarget)) = LinkTarget
        <4>1. LinkTarget \in Paths
          BY LinkIsName
        <4>2. Absolute(LinkTarget) # None
          BY Zenon, <4>1, DirectoryAssumption
        <4> QED
          BY <4>1, <4>2, AbsoluteLeads DEF Listing
      <3>4. ListedFile(path) = FileOf(path)
        BY Zenon, <3>2, <3>3 DEF ListedFile, Resolved
      <3> QED
        BY Zenon, <3>2, <3>3, <3>4
    <2> QED
      BY <2>1, <2>2
  <1> QED
    BY Zenon, <1>4, <1>5 DEF Describes

LEMMA FaithfulListing ==
    ASSUME Listing, style = "dos" => Listable(remote)
    PROVE  ListingIsFaithful
  <1> DEFINE C == Children(remote, cwd)
             e == SetToSeq(C)
             files == Files
  <1> SUFFICES ASSUME Understood(Listed(cwd))
               PROVE  /\ Len(files) = Cardinality(C)
                      /\ \A p \in C : \E f \in ToSet(files) : Describes(f, p)
    BY Zenon DEF ListingIsFaithful, Describes
  <1>1. /\ e \in Seq(C) /\ Len(files) = Len(e)
        /\ C # {} => Format \in availableParsers
        /\ \A i \in 1 .. Len(e) : files[i] = ListedFile(e[i])
    BY FilesAreListed
  <1>2. Len(e) = Cardinality(C) /\ \A p \in C : \E i \in 1 .. Len(e) : e[i] = p
    BY ChildrenAre, SetToSeqHolds
  <1>3. files \in FileList
    BY FilesType DEF Listing
  <1> HIDE DEF e, files
  <1>4. ASSUME NEW p \in C
        PROVE  \E f \in ToSet(files) : Describes(f, p)
    <2>1. PICK i \in 1 .. Len(e) : e[i] = p
      BY <1>2
    <2>2. Format \in availableParsers
      BY Zenon, <1>1
    <2>3. Describes(ListedFile(p), p)
      BY <2>2, EachIsDescribed
    <2>4. files[i] = ListedFile(p)
      BY Zenon, <1>1, <2>1
    <2>5. files[i] \in ToSet(files)
      BY <1>1, <1>3, <2>1 DEF FileList, ToSet
    <2> QED
      BY Zenon, <2>3, <2>4, <2>5
  <1> QED
    BY Zenon, <1>1, <1>2, <1>4

-----------------------------------------------------------------------------
(* What DOS listings can show stays so *)

LEMMA PlainTasksAre ==
    /\ \A task \in Tasks :
          task.do \notin {"mkd", "stor", "retr", "download", "fetch"} => task \in PlainTask
    /\ \A o \in Operations : Planned(o) \subseteq PlainTask
    /\ PlainTask \subseteq Tasks
  BY DEF PlainTask, Planned, LooseTask

LEMMA StyleStays ==
    ASSUME [DirectoryNext]_vars
    PROVE  style' = style
  BY DEF DirectoryNext, Begin, PrintsDirectory, ChangesDirectory, ChangesToParent, MakesDirectory,
         RemovesFile, RemovesDirectory, Stores, Retrieves, clearWorkingDir, EntersTarget,
         _uploadToWorkingDir, ensureLocalDirectory, _downloadFromWorkingDir, Fails, Returns,
         Closes, Reconnects, Done, ForEachListed, Replaced, session, vars

\* In a listable directory nothing has a blank before its name.
LEMMA PlainChildren ==
    ASSUME NEW tree, Listable(tree), NEW path, NEW p \in Children(tree, path)
    PROVE  p \in Paths /\ p # <<>> /\ Last(p) \in PlainNames
  <1>1. p \in Paths /\ p # <<>> /\ tree[p] # "none"
    BY DEF Children
  <1> QED
    BY <1>1, ParentIsPath DEF Listable, PlainNames

LEMMA UploadedIsPlain ==
    ASSUME cwd \in Paths, NEW file \in Paths, file # <<>>, Last(file) \in PlainNames
    PROVE  Uploaded(file) \in Seq(PlainTask)
  <1> DEFINE name == <<Last(file)>>
  <1>1. name \in FileName /\ name \in Seq(AllParts) /\ <<>> \in Seq(AllParts)
    BY Zenon, PathIsName, PathIsParts
  <1>2. /\ Task("stor", name, file, cwd) \in Tasks /\ Relative("mkd", name) \in Tasks
        /\ Task("upload", <<>>, file, None) \in Tasks
        /\ Relative("cd", name) \in Tasks /\ Command("cdup", <<>>) \in Tasks
    <2> HIDE DEF name
    <2> QED
      BY <1>1, PathIsParts, TaskType, InnerAreTasks DEF Commands
  <1>3. Task("stor", name, file, cwd) \in PlainTask /\ Relative("mkd", name) \in PlainTask
    <2>1. Task("stor", name, file, cwd).arg = name /\ Task("stor", name, file, cwd).do = "stor"
      BY DEF Task
    <2>2. Relative("mkd", name).arg = name /\ Relative("mkd", name).do = "mkd"
      BY DEF Relative, Task
    <2>3. OpensOne(name)
      BY DEF OpensOne, PlainNames
    <2> QED
      BY <1>2, <2>1, <2>2, <2>3 DEF PlainTask
  <1>4. /\ Task("upload", <<>>, file, None) \in PlainTask
        /\ Relative("cd", name) \in PlainTask /\ Command("cdup", <<>>) \in PlainTask
    BY <1>2, PlainTasksAre DEF Task, Relative, Command
  <1> HIDE DEF name
  <1>5. /\ <<>> \in Seq(PlainTask) /\ \A a \in PlainTask : <<a>> \in Seq(PlainTask)
        /\ \A s, t \in Seq(PlainTask) : s \o t \in Seq(PlainTask)
    OBVIOUS
  <1>6. Uploaded(file) \in {<<>>, <<Task("stor", name, file, cwd)>>,
              <<Relative("mkd", name)>> \o Enter(name, <<Task("upload", <<>>, file, None)>>)}
    BY Zenon DEF Uploaded, name
  <1>7. Enter(name, <<Task("upload", <<>>, file, None)>>) \in Seq(PlainTask)
    BY Zenon, <1>4, <1>5 DEF Enter
  <1> QED
    BY Zenon, <1>3, <1>5, <1>6, <1>7

LEMMA DownloadedIsPlain ==
    ASSUME cwd \in Paths, todo # <<>>, Head(todo).file \in Seq(AllParts), NEW file \in File,
           NEW n \in PlainNames, file.name = <<n>>
    PROVE  Downloaded(file) \in Seq(PlainTask)
  <1> DEFINE to == Head(todo).file \o file.name
             down == Task("download", <<>>, to, None)
             retr == Task("retr", file.name, to, cwd)
  <1>1. file.name \in FileName /\ file.name \in Seq(AllParts) /\ <<>> \in Seq(AllParts)
    BY Zenon, PathIsParts DEF File
  <1>2. to \in Seq(AllParts) /\ Last(to) = n
    <2>1. \A s \in Seq(AllParts), x \in AllParts : s \o <<x>> \in Seq(AllParts) /\ Last(s \o <<x>>) = x
      BY DEF Last
    <2>2. n \in AllParts
      BY Zenon DEF PlainNames, AllParts, Parts
    <2> QED
      BY <2>1, <2>2
  <1> HIDE DEF to
  <1>3. /\ down \in Tasks /\ retr \in Tasks /\ Relative("cd", file.name) \in Tasks
        /\ Command("cdup", <<>>) \in Tasks
    BY <1>1, <1>2, PathIsParts, TaskType, InnerAreTasks DEF Commands
  <1>4. down \in PlainTask /\ retr \in PlainTask
    <2>1. down.do = "download" /\ down.file = to /\ retr.do = "retr" /\ retr.file = to
      BY DEF Task
    <2> HIDE DEF down, retr
    <2> QED
      BY <1>2, <1>3, <2>1 DEF PlainTask, PlainNames
  <1>5. Relative("cd", file.name) \in PlainTask /\ Command("cdup", <<>>) \in PlainTask
    BY <1>3, PlainTasksAre DEF Task, Relative, Command
  <1> HIDE DEF down, retr
  <1>6. /\ <<>> \in Seq(PlainTask) /\ \A a \in PlainTask : <<a>> \in Seq(PlainTask)
        /\ \A s, t \in Seq(PlainTask) : s \o t \in Seq(PlainTask)
    OBVIOUS
  <1>7. Enter(file.name, <<down>>) \in Seq(PlainTask)
    BY Zenon, <1>4, <1>5, <1>6 DEF Enter
  <1>8. Downloaded(file) \in {<<>>, Enter(file.name, <<down>>), <<retr>>}
    BY Zenon DEF Downloaded, to, down, retr
  <1> QED
    BY Zenon, <1>4, <1>6, <1>7, <1>8

LEMMA ClearedIsPlain ==
    ASSUME cwd \in Paths, NEW file \in File
    PROVE  Cleared(file) \in Seq(PlainTask)
  <1>1. file.name \in Seq(AllParts) /\ <<>> \in Seq(AllParts)
    BY PathIsParts DEF File
  <1>2. /\ Relative("rmd", file.name) \in Tasks /\ Relative("dele", file.name) \in Tasks
        /\ Relative("cd", file.name) \in Tasks
        /\ Command("cdup", <<>>) \in Tasks /\ Command("clear", <<>>) \in Tasks
    BY Zenon, <1>1, TaskType, InnerAreTasks DEF Commands
  <1>3. /\ Relative("rmd", file.name) \in PlainTask /\ Relative("dele", file.name) \in PlainTask
        /\ Relative("cd", file.name) \in PlainTask
        /\ Command("cdup", <<>>) \in PlainTask /\ Command("clear", <<>>) \in PlainTask
    BY <1>2, PlainTasksAre DEF Task, Relative, Command
  <1>4. /\ \A a \in PlainTask : <<a>> \in Seq(PlainTask)
        /\ \A s, t \in Seq(PlainTask) : s \o t \in Seq(PlainTask)
    OBVIOUS
  <1> QED
    BY Zenon, <1>3, <1>4 DEF Cleared, Enter

LEMMA PlainChanges ==
    ASSUME NEW tree \in Trees, NEW new, Listable(tree), PlainChange(tree, new)
    PROVE  Listable(new)
  <1>1. CASE new = tree
    BY <1>1
  <1>2. ASSUME NEW p, NEW v, new = [tree EXCEPT ![p] = v], v \notin {"link", "special", "device"},
               v # "none" /\ p # <<>> => Last(p) \notin DOMAIN Blanks
        PROVE  Listable(new)
    <2>1. \A q \in Paths : new[q] = IF q = p THEN v ELSE tree[q]
      BY <1>2 DEF Trees
    <2> QED
      BY <1>2, <2>1 DEF Listable
  <1> QED
    BY Zenon, <1>1, <1>2 DEF PlainChange

LEMMA NextIsPlain ==
    ASSUME Based, Plain, style = "dos", todo # <<>>
    PROVE  /\ Head(todo) \in PlainTask /\ Tail(todo) \in Seq(PlainTask)
           /\ Listable(remote) /\ Listable(local)
           /\ cwd \in Paths /\ remote \in Trees /\ local \in Trees /\ Head(todo) \in SoundTask
           /\ Listing
  <1>1. todo \in Seq(PlainTask) /\ Listable(remote) /\ Listable(local)
    BY DEF Plain
  <1>2. Head(todo) \in PlainTask /\ Tail(todo) \in Seq(PlainTask)
    BY <1>1, HeadThenTail
  <1> QED
    BY <1>1, <1>2, NextIsSound DEF Based, HomeInv, Placed, Listing

\* What list() returns has the names of entries.
LEMMA FilesAreNamed ==
    ASSUME Listing, style = "dos" => Listable(remote), Understood(Listed(cwd))
    PROVE  /\ Len(Files) \in Nat
           /\ \A i \in 1 .. Len(Files) :
                 Files[i] \in File /\ \E p \in Children(remote, cwd) : Files[i].name = <<Last(p)>>
  <1> DEFINE C == Children(remote, cwd)
             e == SetToSeq(C)
             files == Files
  <1>1. /\ e \in Seq(C) /\ Len(files) = Len(e)
        /\ C # {} => Format \in availableParsers
        /\ \A i \in 1 .. Len(e) : files[i] = ListedFile(e[i])
    BY FilesAreListed
  <1>2. files \in FileList
    BY FilesType DEF Listing
  <1> HIDE DEF e, files
  <1>3. Len(files) \in Nat /\ \A i \in 1 .. Len(files) : files[i] \in File
    BY <1>2 DEF FileList
  <1>4. ASSUME NEW i \in 1 .. Len(files)
        PROVE  \E p \in C : files[i].name = <<Last(p)>>
    <2>1. e[i] \in C /\ i \in 1 .. Len(e)
      BY <1>1
    <2>2. Format \in availableParsers
      BY <1>1, <2>1
    <2>3. Describes(ListedFile(e[i]), e[i])
      BY <2>1, <2>2, EachIsDescribed
    <2>4. files[i].name = <<Last(e[i])>>
      BY Zenon, <1>1, <2>1, <2>3 DEF Describes
    <2> QED
      BY <2>1, <2>4
  <1> QED
    BY <1>3, <1>4 DEF files

LEMMA PlainTodo ==
    ASSUME Based, Plain, style = "dos", [DirectoryNext]_vars
    PROVE  todo' \in Seq(PlainTask)
  <1>1. todo \in Seq(PlainTask) /\ <<>> \in Seq(PlainTask)
    BY DEF Plain
  <1>2. ASSUME todo # <<>>, NEW tasks \in Seq(PlainTask), todo' = tasks \o Tail(todo)
        PROVE  todo' \in Seq(PlainTask)
    <2>1. Tail(todo) \in Seq(PlainTask)
      BY <1>2, NextIsPlain
    <2> QED
      BY <1>2, <2>1
  <1>3. CASE \E o \in Operations : Begin(o)
    <2>1. PICK o \in Operations : Begin(o)
      BY <1>3
    <2>2. todo' = Plan(o)
      BY <2>1 DEF Begin
    <2>3. Plan(o) \in Seq(Planned(o)) /\ Planned(o) \subseteq PlainTask
      BY PlanIsPlanned, PlainTasksAre
    <2> QED
      BY <2>2, <2>3, SeqOfMore
  <1>4. CASE \/ PrintsDirectory \/ ChangesDirectory \/ ChangesToParent \/ MakesDirectory
             \/ RemovesFile \/ RemovesDirectory \/ Stores \/ Retrieves \/ Returns
    <2>1. todo # <<>> /\ todo' = Tail(todo)
      BY Zenon, <1>4, JustDone
    <2> QED
      BY <2>1, NextIsPlain
  <1>5. CASE clearWorkingDir
    <2> DEFINE tasks == [i \in 1 .. Len(Files) |-> Cleared(Files[i])]
    <2>1. todo # <<>> /\ Understood(Listed(cwd)) /\ todo' = FlattenSeq(tasks) \o Tail(todo)
      BY <1>5 DEF clearWorkingDir, ForEachListed, Replaced, IsNext
    <2>2. Len(Files) \in Nat /\ \A i \in 1 .. Len(Files) : Files[i] \in File
      BY <2>1, NextIsPlain, FilesAreNamed
    <2>3. tasks \in [1 .. Len(Files) -> Seq(PlainTask)]
      BY <2>1, <2>2, NextIsPlain, ClearedIsPlain
    <2> HIDE DEF tasks
    <2>4. FlattenSeq(tasks) \in Seq(PlainTask)
      BY <2>2, <2>3, FlattenType
    <2> QED
      BY <1>2, <2>1, <2>4
  <1>6. CASE _downloadFromWorkingDir
    <2> DEFINE tasks == [i \in 1 .. Len(Files) |-> Downloaded(Files[i])]
    <2>1. todo # <<>> /\ Understood(Listed(cwd)) /\ todo' = FlattenSeq(tasks) \o Tail(todo)
      BY <1>6 DEF _downloadFromWorkingDir, ForEachListed, Replaced, IsNext
    <2>2. /\ Len(Files) \in Nat
          /\ \A i \in 1 .. Len(Files) :
                Files[i] \in File /\ \E p \in Children(remote, cwd) : Files[i].name = <<Last(p)>>
      BY <2>1, NextIsPlain, FilesAreNamed
    <2>3. \A p \in Children(remote, cwd) : Last(p) \in PlainNames
      BY <2>1, NextIsPlain, PlainChildren
    <2>4. Head(todo).file \in Seq(AllParts) /\ cwd \in Paths
      BY <2>1, NextIsPlain DEF PlainTask, Tasks
    <2>5. ASSUME NEW i \in 1 .. Len(Files)
          PROVE  Downloaded(Files[i]) \in Seq(PlainTask)
      <3>1. PICK n \in PlainNames : Files[i].name = <<n>>
        BY <2>2, <2>3
      <3>2. Files[i] \in File
        BY <2>2
      <3> QED
        BY Zenon, <2>1, <2>4, <3>1, <3>2, DownloadedIsPlain
    <2>6. tasks \in [1 .. Len(Files) -> Seq(PlainTask)]
      BY <2>5
    <2> HIDE DEF tasks
    <2>7. FlattenSeq(tasks) \in Seq(PlainTask)
      BY <2>2, <2>6, FlattenType
    <2> QED
      BY <1>2, <2>1, <2>7
  <1>7. CASE _uploadToWorkingDir
    <2> DEFINE C == Children(local, Head(todo).file)
               files == SetToSeq(C)
               tasks == [i \in 1 .. Len(files) |-> Uploaded(files[i])]
    <2>1. todo # <<>> /\ todo' = FlattenSeq(tasks) \o Tail(todo)
      BY <1>7 DEF _uploadToWorkingDir, Replaced, IsNext
    <2>2. Len(files) \in Nat /\ \A i \in 1 .. Len(files) : files[i] \in C
      BY ForChildren
    <2>3. \A p \in C : p \in Paths /\ p # <<>> /\ Last(p) \in PlainNames
      BY <2>1, NextIsPlain, PlainChildren
    <2> HIDE DEF files, C
    <2>4. tasks \in [1 .. Len(files) -> Seq(PlainTask)]
      BY <2>1, <2>2, <2>3, NextIsPlain, UploadedIsPlain
    <2> HIDE DEF tasks
    <2>5. FlattenSeq(tasks) \in Seq(PlainTask)
      BY <2>2, <2>4, FlattenType
    <2> QED
      BY <1>2, <2>1, <2>5
  <1>8. CASE EntersTarget
    <2>1. todo # <<>> /\ todo' = RemovedTarget \o Tail(todo)
      BY <1>8 DEF EntersTarget, Replaced, IsNext
    <2>2. cwd \in Paths
      BY <2>1, NextIsPlain
    <2>3. <<"">> \o cwd \in Seq(AllParts)
      BY Zenon, <2>2, PathIsName, PathIsParts
    <2>4. /\ Command("clear", <<>>) \in Tasks /\ Command("cdup", <<>>) \in Tasks
          /\ Command("rmd", <<"">> \o cwd) \in Tasks
      BY Zenon, <2>3, PathIsParts, TaskType, InnerAreTasks DEF Commands
    <2>5. /\ Command("clear", <<>>) \in PlainTask /\ Command("cdup", <<>>) \in PlainTask
          /\ Command("rmd", <<"">> \o cwd) \in PlainTask
      BY Zenon, <2>4, PlainTasksAre DEF Task, Command
    <2>6. /\ <<>> \in Seq(PlainTask) /\ \A a, b \in PlainTask : <<a>> \in Seq(PlainTask) /\ <<a, b>> \in Seq(PlainTask)
          /\ \A s, t \in Seq(PlainTask) : s \o t \in Seq(PlainTask)
      OBVIOUS
    <2>7. RemovedTarget \in Seq(PlainTask)
      BY Zenon, <2>5, <2>6 DEF RemovedTarget
    <2> QED
      BY Zenon, <1>2, <2>1, <2>7
  <1>9. CASE ensureLocalDirectory
    <2> DEFINE next == Task("fetch", <<>>, Head(todo).file, None)
    <2>1. /\ todo # <<>> /\ Head(todo).do = "download" /\ todo' = <<next>> \o Tail(todo)
      BY <1>9 DEF ensureLocalDirectory, Replaced, IsNext
    <2>2. Head(todo) \in PlainTask /\ Head(todo).file \in Seq(AllParts)
      BY <2>1, NextIsPlain DEF PlainTask, Tasks
    <2>3. next \in Tasks
      BY <2>2, PathIsParts, TaskType, InnerAreTasks
    <2>4. next.do = "fetch" /\ next.file = Head(todo).file
      BY DEF Task
    <2> HIDE DEF next
    <2>5. next \in PlainTask
      BY <2>1, <2>2, <2>3, <2>4 DEF PlainTask
    <2>6. <<next>> \in Seq(PlainTask)
      BY <2>5
    <2> QED
      BY Zenon, <1>2, <2>1, <2>6
  <1>10. CASE Fails
    <2>1. CASE todo # <<>> /\ todo' = Tail(todo)
      BY <2>1, NextIsPlain
    <2>2. CASE \E task \in LooseTask : task.do = "return" /\ todo' = <<task>>
      <3>1. PICK task \in PlainTask : todo' = <<task>>
        BY <2>2, PlainTasksAre DEF LooseTask
      <3> QED
        BY <3>1
    <2> QED
      BY Zenon, <1>1, <1>10, <2>1, <2>2, FailureLeaves
  <1>11. CASE Reconnects \/ Closes \/ UNCHANGED vars
    BY <1>1, <1>11 DEF Reconnects, Closes, vars
  <1> QED
    BY Zenon, <1>3, <1>4, <1>5, <1>6, <1>7, <1>8, <1>9, <1>10, <1>11 DEF DirectoryNext

LEMMA PlainCreation ==
    ASSUME NEW tree, NEW p, Last(p) \notin DOMAIN Blanks
    PROVE  PlainChange(tree, [tree EXCEPT ![p] = "dir"])
  <1> DEFINE new == [tree EXCEPT ![p] = "dir"]
  <1>1. "dir" \notin {"link", "special", "device"}
    OBVIOUS
  <1>2. \E q, v : /\ new = [tree EXCEPT ![q] = v] /\ v \notin {"link", "special", "device"}
                  /\ v # "none" /\ q # <<>> => Last(q) \notin DOMAIN Blanks
    BY Zenon, <1>1
  <1> QED
    BY Zenon, <1>2 DEF PlainChange

LEMMA PlainRemote ==
    ASSUME Based, Plain, style = "dos", [DirectoryNext]_vars
    PROVE  PlainChange(remote, remote')
  <1>1. ASSUME NEW v, todo # <<>>, Head(todo).do = "stor", v \in FileKinds,
               remote' = [remote EXCEPT ![Target] = v]
        PROVE  PlainChange(remote, remote')
    <2>1. PICK n \in PlainNames : Head(todo).arg = <<n>>
      BY <1>1, NextIsPlain DEF PlainTask
    <2>2. Target = Append(cwd, n) /\ cwd \in Seq(Names) /\ n \in Names
      BY Zenon, <1>1, <2>1, NextIsPlain, TargetIs, PathsAre DEF PlainNames
    <2>3. Last(Target) = n
      BY <2>2 DEF Last
    <2> QED
      BY Zenon, <1>1, <2>1, <2>3 DEF PlainChange, PlainNames, FileKinds
  <1>2. CASE MakesDirectory
    <2>1. /\ todo # <<>> /\ Head(todo).do = "mkd"
          /\ Target \in Paths /\ remote[Target] = "none"
          /\ remote' = [remote EXCEPT ![Target] = "dir"]
      BY <1>2 DEF MakesDirectory, Kind, Done, Replaced, IsNext
    <2>2. cwd \in Paths /\ cwd \in Seq(Names) /\ remote[cwd] = "dir"
      BY <2>1, NextIsSound, PathsAre
    <2>3. PICK name \in Names \cup {".."} : Head(todo).arg = <<name>>
      BY <2>1, NextIsPlain DEF PlainTask, OpensOne
    <2>4. CASE name \in Names
      <3>1. Target = Append(cwd, Unblanked(name)) /\ Unblanked(name) \in Names
        BY Zenon, <2>1, <2>2, <2>3, <2>4, TargetIs, NamesAre
      <3>2. Unblanked(name) \notin DOMAIN Blanks
        BY Zenon, <2>4, DirectoryAssumption DEF Unblanked
      <3>3. Last(Target) = Unblanked(name)
        BY <2>2, <3>1 DEF Last
      <3>4. "dir" # "none" => Last(Target) \notin DOMAIN Blanks
        BY <3>2, <3>3
      <3> QED
        BY Zenon, <2>1, <3>4, PlainCreation
    <2>5. CASE name = ".."
      <3>1. Target = Parent(cwd)
        BY Zenon, <2>1, <2>2, <2>3, <2>5, TargetIs
      <3>2. IsTree(remote)
        BY DEF Based
      <3>3. remote[Parent(cwd)] = "dir"
        BY <2>2, <3>2 DEF IsTree, InDirectories, Parent
      <3> QED
        BY <2>1, <3>1, <3>3
    <2> QED
      BY <2>4, <2>5
  <1>3. CASE RemovesFile \/ RemovesDirectory
    <2>1. remote' = [remote EXCEPT ![Target] = "none"]
      BY <1>3 DEF RemovesFile, RemovesDirectory
    <2> QED
      BY Zenon, <2>1 DEF PlainChange
  <1>4. CASE Stores
    <2>1. /\ todo # <<>> /\ Head(todo).do = "stor"
          /\ remote' = [remote EXCEPT ![Target] = local[Head(todo).file]]
      BY <1>4 DEF Stores, Done, Replaced, IsNext
    <2>2. local[Head(todo).file] \in FileKinds
      BY <2>1, NextIsSound DEF SoundTask
    <2> QED
      BY Zenon, <1>1, <2>1, <2>2
  <1>5. CASE Fails
    <2>1. todo # <<>> /\ Remains
      BY <1>5 DEF Fails
    <2>2. \/ remote' = remote
          \/ Head(todo).do = "stor" /\ remote' = [remote EXCEPT ![Target] = "partial"]
      BY <2>1 DEF Remains, server
    <2> QED
      BY Zenon, <1>1, <2>1, <2>2 DEF PlainChange, FileKinds
  <1>6. CASE remote' = remote
    BY <1>6 DEF PlainChange
  <1>7. \/ MakesDirectory \/ RemovesFile \/ RemovesDirectory \/ Stores \/ Fails
        \/ remote' = remote
    <2>1. CASE ChangesDirectory \/ ChangesToParent \/ Returns \/ Reconnects
      BY <2>1 DEF ChangesDirectory, ChangesToParent, Returns, Reconnects
    <2> QED
      BY Zenon, <2>1, ServerUnchanged DEF DirectoryNext
  <1> QED
    BY Zenon, <1>2, <1>3, <1>4, <1>5, <1>6, <1>7

LEMMA LocalChanges ==
    ASSUME Based, [DirectoryNext]_vars, local' # local
    PROVE  /\ todo # <<>> /\ Head(todo).do \in {"retr", "download"} /\ local[Head(todo).file] # "dir"
           /\ \E v : /\ local' = [local EXCEPT ![Head(todo).file] = v] /\ v \notin {"link", "special", "device"}
                     /\ \/ v = "none" \/ Head(todo).file = <<>>
                        \/ local[Parent(Head(todo).file)] = "dir"
  <1>1. CASE Retrieves
    <2>1. /\ todo # <<>> /\ Head(todo).do = "retr" /\ Kind(remote, Target) \in FileKinds
          /\ CanCreate(Head(todo).file)
          /\ local' = [local EXCEPT ![Head(todo).file] = remote[Target]]
      BY <1>1 DEF Retrieves, Done, Replaced, IsNext
    <2>2. remote[Target] \in FileKinds
      BY <2>1, KindIs DEF FileKinds
    <2> QED
      BY Zenon, <2>1, <2>2 DEF FileKinds, CanCreate
  <1>2. CASE ensureLocalDirectory
    <2>1. /\ todo # <<>> /\ Head(todo).do = "download" /\ local[Head(todo).file] = "none"
          /\ Head(todo).file = <<>> \/ local[Parent(Head(todo).file)] = "dir"
          /\ local' = [local EXCEPT ![Head(todo).file] = "dir"]
      BY <1>2 DEF ensureLocalDirectory, Replaced, IsNext
    <2> QED
      BY Zenon, <2>1
  <1>3. CASE Fails
    <2>1. todo # <<>> /\ Remains /\ local \in Trees
      BY <1>3, NextIsSound DEF Fails
    <2>2. PICK left \in {local[Head(todo).file], "partial", "none"} :
                 /\ Head(todo).do = "retr" /\ CanCreate(Head(todo).file)
                 /\ local' = [local EXCEPT ![Head(todo).file] = left]
      BY <2>1 DEF Remains
    <2>3. left # local[Head(todo).file]
      BY <2>1, <2>2 DEF Trees
    <2> QED
      BY Zenon, <2>1, <2>2, <2>3 DEF CanCreate
  <1>4. Retrieves \/ ensureLocalDirectory \/ Fails
    <2>1. CASE \/ \E o \in Operations : Begin(o)
               \/ PrintsDirectory \/ ChangesDirectory \/ ChangesToParent \/ MakesDirectory
               \/ RemovesFile \/ RemovesDirectory \/ Stores
      BY <2>1 DEF Begin, PrintsDirectory, ChangesDirectory, ChangesToParent, MakesDirectory,
                  RemovesFile, RemovesDirectory, Stores
    <2>2. CASE \/ clearWorkingDir \/ EntersTarget \/ _uploadToWorkingDir
               \/ _downloadFromWorkingDir \/ Returns \/ Closes \/ Reconnects \/ UNCHANGED vars
      BY <2>2 DEF clearWorkingDir, EntersTarget, _uploadToWorkingDir, _downloadFromWorkingDir,
                  ForEachListed, Returns, Closes, Reconnects, vars
    <2> QED
      BY Zenon, <2>1, <2>2 DEF DirectoryNext
  <1> QED
    BY Zenon, <1>1, <1>2, <1>3, <1>4

LEMMA PlainLocal ==
    ASSUME Based, Plain, style = "dos", [DirectoryNext]_vars
    PROVE  PlainChange(local, local')
  <1>1. CASE local' = local
    BY <1>1 DEF PlainChange
  <1>2. CASE local' # local
    <2>1. todo # <<>> /\ Head(todo).do \in {"retr", "download"}
      BY <1>2, LocalChanges
    <2>2. Head(todo).file = <<>> \/ Last(Head(todo).file) \notin DOMAIN Blanks
      BY <2>1, NextIsPlain DEF PlainTask
    <2> QED
      BY Zenon, <1>2, <2>2, LocalChanges DEF PlainChange
  <1> QED
    BY <1>1, <1>2

\* Nothing is put where there is no directory, or in place of one.
LEMMA LocalTree ==
    ASSUME Based, InDirectories(local), [DirectoryNext]_vars
    PROVE  InDirectories(local)'
  <1>1. CASE local' = local
    BY <1>1 DEF InDirectories
  <1>2. CASE local' # local
    <2>1. PICK f : f = Head(todo).file
      OBVIOUS
    <2>2. PICK v : /\ local' = [local EXCEPT ![f] = v] /\ local[f] # "dir"
                   /\ v = "none" \/ f = <<>> \/ local[Parent(f)] = "dir"
      BY Zenon, <1>2, <2>1, LocalChanges
    <2>3. local \in Trees
      BY DEF Based, HomeInv, Placed
    <2>4. ASSUME NEW p \in Paths, p # <<>>, local'[p] # "none"
          PROVE  local'[Parent(p)] = "dir"
      <3>1. Parent(p) \in Paths /\ (local[p] # "none" => local[Parent(p)] = "dir")
        BY <2>4, ParentIsPath DEF InDirectories
      <3>2. local[Parent(p)] = "dir"
        BY <2>2, <2>3, <2>4, <3>1 DEF Trees
      <3> QED
        BY <2>2, <2>3, <3>1, <3>2 DEF Trees
    <2> QED
      BY <2>4 DEF InDirectories
  <1> QED
    BY <1>1, <1>2

LEMMA PlainNext ==
    ASSUME Based, Plain, [DirectoryNext]_vars
    PROVE  Plain'
  <1>1. style' = style
    BY StyleStays
  <1>2. CASE style # "dos"
    BY <1>1, <1>2 DEF Plain
  <1>3. CASE style = "dos"
    <2>1. /\ todo' \in Seq(PlainTask)
          /\ PlainChange(remote, remote') /\ PlainChange(local, local')
      BY <1>3, PlainTodo, PlainRemote, PlainLocal
    <2>2. remote \in Trees /\ local \in Trees /\ Listable(remote) /\ Listable(local)
      BY <1>3 DEF Based, HomeInv, Placed, Plain
    <2>3. Listable(remote') /\ Listable(local')
      BY <2>1, <2>2, PlainChanges
    <2> QED
      BY Zenon, <1>1, <2>1, <2>3 DEF Plain, PlainTask, OpensOne, PlainNames, Tasks, AllParts, Parts
  <1> QED
    BY <1>2, <1>3

LEMMA PlainInit == DirectoryInit => Plain
  <1> SUFFICES ASSUME DirectoryInit
               PROVE  Plain
    OBVIOUS
  <1>1. <<>> \in Seq(PlainTask)
    OBVIOUS
  <1> QED
    BY <1>1 DEF DirectoryInit, Plain

\* In whatever format the server lists a directory, list() returns its entries,
\* every one of them once, with its type and, for a link, a path to its target
\* (parseList), at any time: a DOS listing, too, which could not show links and
\* leading blanks, as no operation makes any where there were none.  Devices in
\* a Unix listing are given as files (parseListUnix).
THEOREM ListsWhatIsThere == DirectorySpec => []ListingIsFaithful
  <1>1. DirectoryInit => DirectoryInv /\ Plain
    BY DirectoryInvInit, PlainInit
  <1>2. DirectoryInv /\ Plain /\ [DirectoryNext]_vars => DirectoryInv' /\ Plain'
    BY DirectoryInvNext, PlainNext DEF DirectoryInv
  <1>3. DirectoryInv /\ Plain => ListingIsFaithful
    BY FaithfulListing DEF DirectoryInv, Based, HomeInv, Placed, Listing, Plain
  <1> QED
    BY <1>1, <1>2, <1>3, PTL DEF DirectorySpec

-----------------------------------------------------------------------------
(* Steps of an operation that has not failed *)

\* Each loop is the next task's.
LEMMA LoopIsNext ==
    ASSUME Loops
    PROVE  /\ todo # <<>> /\ Head(todo).do \in Listings \cup {"target"}
           /\ Head(todo).do = "clear" => clearWorkingDir
           /\ Head(todo).do = "target" => EntersTarget
           /\ Head(todo).do = "upload" => _uploadToWorkingDir
           /\ Head(todo).do = "download" => ensureLocalDirectory
           /\ Head(todo).do = "fetch" => _downloadFromWorkingDir
  BY Zenon DEF Loops, clearWorkingDir, EntersTarget, _uploadToWorkingDir, ensureLocalDirectory,
         _downloadFromWorkingDir, ForEachListed, Replaced, IsNext, Listings

LEMMA GoesWell ==
    ASSUME Based, todo # <<>>, result' = "ok", [DirectoryNext]_vars
    PROVE  /\ UNCHANGED <<op, goal, before, start, style>> /\ result = "ok"
           /\ Idle \/ DoneWell \/ Loops
  <1>1. style' = style
    BY StyleStays
  <1>2. CASE \/ PrintsDirectory \/ ChangesDirectory \/ ChangesToParent \/ MakesDirectory
             \/ RemovesFile \/ RemovesDirectory \/ Stores \/ Retrieves
    <2>1. todo' = Tail(todo)
      BY Zenon, <1>2, JustDone
    <2>2. UNCHANGED <<op, goal, before, start, result>>
      BY <1>2 DEF PrintsDirectory, ChangesDirectory, ChangesToParent, MakesDirectory,
                  RemovesFile, RemovesDirectory, Stores, Retrieves, Done, Replaced, call
    <2> SUFFICES DoneWell
      BY <1>1, <2>2
    <2>3. CASE PrintsDirectory \/ ChangesDirectory \/ ChangesToParent
      <3>1. /\ remote' = remote /\ local' = local
            /\ \/ Head(todo).do = "pwd" /\ cwd' = cwd
               \/ Head(todo).do = "cd" /\ Kind(remote, Follow(Target)) = "dir" /\ cwd' = Follow(Target)
               \/ Head(todo).do = "cdup" /\ cwd' = Parent(cwd)
        BY <2>3 DEF PrintsDirectory, ChangesDirectory, ChangesToParent, Done, Replaced,
                    IsNext, server
      <3> QED
        BY <2>1, <3>1 DEF DoneWell
    <2>4. CASE MakesDirectory
      <3>1. /\ Head(todo).do = "mkd" /\ UNCHANGED <<cwd, local>>
            /\ Target \in Paths /\ remote[Target] = "none"
            /\ remote' = [remote EXCEPT ![Target] = "dir"]
        BY <2>4 DEF MakesDirectory, Kind, Done, Replaced, IsNext
      <3> QED
        BY <2>1, <3>1 DEF DoneWell
    <2>5. CASE RemovesFile \/ RemovesDirectory
      <3>1. /\ Head(todo).do \in {"dele", "rmd"} /\ UNCHANGED <<cwd, local>>
            /\ remote' = [remote EXCEPT ![Target] = "none"]
        BY <2>5 DEF RemovesFile, RemovesDirectory, Done, Replaced, IsNext
      <3> QED
        BY <2>1, <3>1 DEF DoneWell
    <2>6. CASE Stores
      <3>1. /\ Head(todo).do = "stor" /\ UNCHANGED <<cwd, local>>
            /\ CanStore /\ remote' = [remote EXCEPT ![Target] = local[Head(todo).file]]
        BY <2>6 DEF Stores, Done, Replaced, IsNext
      <3> QED
        BY <2>1, <3>1 DEF DoneWell
    <2>7. CASE Retrieves
      <3>1. /\ Head(todo).do = "retr" /\ UNCHANGED <<cwd, remote>>
            /\ Kind(remote, Target) \in FileKinds
            /\ local' = [local EXCEPT ![Head(todo).file] = remote[Target]]
        BY <2>7 DEF Retrieves, Done, Replaced, IsNext, server
      <3> QED
        BY <2>1, <3>1 DEF DoneWell
    <2> QED
      BY <1>2, <2>3, <2>4, <2>5, <2>6, <2>7
  <1>3. CASE Loops
    <2>1. UNCHANGED <<op, goal, before, start, result>>
      BY <1>3 DEF Loops, clearWorkingDir, EntersTarget, _uploadToWorkingDir,
                  ensureLocalDirectory, _downloadFromWorkingDir, ForEachListed, Replaced, call
    <2> QED
      BY <1>1, <1>3, <2>1
  <1>4. CASE Fails
    <2>1. UNCHANGED <<op, goal, before, start>> /\ Remains
      BY <1>4 DEF Fails, call
    <2>2. Head(todo).do = "mkd" /\ todo' = Tail(todo) /\ result' = result
      BY <1>4 DEF Fails, Ignored
    <2>3. UNCHANGED <<remote, cwd, local>>
      BY <2>1, <2>2 DEF Remains, server
    <2> QED
      BY <1>1, <2>1, <2>2, <2>3 DEF DoneWell
  <1>5. CASE Returns
    <2>1. /\ UNCHANGED <<op, goal, before, start, result, remote, local>>
          /\ todo' = Tail(todo) /\ Head(todo).do = "return"
      BY <1>5 DEF Returns, IsNext, call
    <2> QED
      BY <1>1, <2>1 DEF DoneWell
  <1>6. CASE Closes \/ UNCHANGED vars
    BY <1>1, <1>6 DEF Closes, vars, server, call, Idle
  <1>7. ~Reconnects /\ \A o \in Operations : ~Begin(o)
    BY DEF Reconnects, Begin
  <1> QED
    BY Zenon, <1>2, <1>3, <1>4, <1>5, <1>6, <1>7 DEF DirectoryNext, Loops

-----------------------------------------------------------------------------
(* What a removal has still to remove *)

\* The directory is about to be listed, or every entry has its command.
Emptying ==
    \/ IsNext("clear") /\ cwd = goal
    \/ \A p \in Children(remote, goal) : \E task \in Held(todo) : Covers(task, p)

\* The directory itself has its command, or is gone.
Leaving ==
    \/ Kind(remote, goal) = "none"
    \/ \E task \in Held(todo) : task.do = "rmd" /\ task.at = None

\* Where the parent is a directory, nothing is below what is empty.
LEMMA NothingBelow ==
    ASSUME NEW tree, InDirectories(tree), NEW g \in Seq(Names), Children(tree, g) = {},
           NEW p \in Paths, IsPrefix(g, p), p # g
    PROVE  tree[p] = "none"
  <1> DEFINE S == {s \in Seq(Names) : s \in Paths /\ IsPrefix(g, s) /\ s # g => tree[s] = "none"}
  <1>1. <<>> \in S
    <2>1. IsPrefix(g, <<>>) => g = <<>>
      BY DEF IsPrefix
    <2> QED
      BY <2>1
  <1>2. ASSUME NEW s \in Seq(Names), NEW x \in Names, s \in S
        PROVE  Append(s, x) \in S
    <2>1. PICK q \in Seq(Names) : q = Append(s, x) /\ q # <<>> /\ Parent(q) = s
      <3>1. Append(s, x) \in Seq(Names) /\ Append(s, x) # <<>> /\ Parent(Append(s, x)) = s
        BY AppendIsNew
      <3> QED
        BY Zenon, <3>1
    <2> SUFFICES ASSUME q \in Paths, IsPrefix(g, q), q # g
                 PROVE  tree[q] = "none"
      BY Zenon, <2>1
    <2>2. s \in Paths
      BY <2>1, ParentIsPath
    <2>3. IsPrefix(g, s)
      <3>1. /\ Len(g) <= Len(q) /\ Len(g) \in Nat /\ Len(q) = Len(s) + 1 /\ Len(s) \in Nat
            /\ SubSeq(g, 1, Len(g)) = SubSeq(q, 1, Len(g))
            /\ \A i \in 1 .. Len(s) : q[i] = s[i]
        BY <2>1 DEF IsPrefix
      <3>2. Len(g) <= Len(s)
        <4>1. CASE Len(g) = Len(q)
          <5>1. SubSeq(g, 1, Len(g)) = g /\ SubSeq(q, 1, Len(q)) = q
            BY <2>1
          <5> QED
            BY Zenon, <3>1, <4>1, <5>1
        <4> QED
          BY <3>1, <4>1
      <3>3. \A i \in 1 .. Len(g) : i \in 1 .. Len(s) /\ q[i] = s[i]
        BY <3>1, <3>2
      <3>4. /\ SubSeq(q, 1, Len(g)) = [i \in 1 .. Len(g) |-> q[i]]
            /\ SubSeq(s, 1, Len(g)) = [i \in 1 .. Len(g) |-> s[i]]
        BY <3>1, <3>2
      <3> QED
        BY <3>1, <3>2, <3>3, <3>4 DEF IsPrefix
    <2>4. CASE s = g
      BY Zenon, <2>1, <2>4 DEF Children
    <2>5. CASE s # g
      <3>1. tree[s] = "none"
        BY <1>2, <2>2, <2>3, <2>5
      <3> QED
        BY Zenon, <2>1, <3>1 DEF InDirectories
    <2> QED
      BY <2>4, <2>5
  <1> HIDE DEF S
  <1>3. Seq(Names) \subseteq S
    BY Zenon, <1>1, <1>2, SeqInduction
  <1>4. p \in S
    BY <1>3, PathsAre
  <1> QED
    BY <1>4 DEF S

\* A removal's command for an entry is for one of the working directory.
LEMMA EntryIsNext ==
    ASSUME Based, Sited, todo # <<>>, Head(todo).at # None, Head(todo).do # "mkd"
    PROVE  Head(todo).at = cwd /\ \E n \in Names : Head(todo).arg = <<n>> /\ Target = Append(cwd, n)
  <1>1. Head(todo) \in SoundTask /\ cwd \in Paths /\ Belongs(Here(cwd), Head(todo))
    BY NextIsSound, NextLeads DEF Sited
  <1>2. Head(todo).at = cwd
    BY <1>1 DEF Belongs, Here
  <1> QED
    BY <1>1, <1>2, EntryIsInside

\* Nothing that a removal does adds entries.
LEMMA RemovalOnlyRemoves ==
    ASSUME Based, Removes, todo # <<>>, Inside, DoneWell
    PROVE  /\ todo' = Tail(todo) /\ Held(todo) = {Head(todo)} \cup Held(todo')
           /\ Head(todo).do \in {"cd", "cdup", "dele", "rmd", "return"}
           /\ Head(todo).do \notin {"dele", "rmd"} => remote' = remote
           /\ Head(todo).do \in {"dele", "rmd"} => remote' = [remote EXCEPT ![Target] = "none"]
           /\ \A path : Children(remote', path) \subseteq Children(remote, path)
  <1>1. Head(todo).do \in {"cd", "cdup", "dele", "rmd", "return"}
    BY InsideIs DEF DoneWell
  <1>2. todo' = Tail(todo) /\ Held(todo) = {Head(todo)} \cup Held(Tail(todo))
    BY NextIsSound, HeldIs DEF DoneWell
  <1>3. /\ Head(todo).do \notin {"dele", "rmd"} => remote' = remote
        /\ Head(todo).do \in {"dele", "rmd"} => remote' = [remote EXCEPT ![Target] = "none"]
    BY <1>1 DEF DoneWell
  <1>4. remote \in Trees
    BY NextIsSound
  <1>5. \A path : Children(remote', path) \subseteq Children(remote, path)
    BY <1>1, <1>3, <1>4 DEF Children, Trees
  <1> QED
    BY <1>1, <1>2, <1>3, <1>5

\* What replaces a listing holds what is to be done for every entry.
LEMMA ListingHolds ==
    ASSUME Listing, style = "dos" => Listable(remote), Understood(Listed(cwd)),
           NEW h \in Replacing(File, Tasks), NEW rest \in Seq(Tasks), NEW p \in Children(remote, cwd)
    PROVE  \E f \in OwnFile :
               /\ f.name = <<Last(p)>>
               /\ (isDirectory(f) <=> remote[p] = "dir") /\ (remote[p] \in FileKinds => isFile(f))
               /\ Held(h[f]) \cup Held(rest) \subseteq
                      Held(FlattenSeq([i \in 1 .. Len(Files) |-> h[Files[i]]]) \o rest)
  <1>1. Files \in OwnFiles
    BY FilesAreOwn
  <1>2. PICK files \in Seq(OwnFile) : files = Files
    BY <1>1 DEF OwnFiles
  <1>3. files \in Seq(File)
    <2>1. OwnFile \subseteq File
      BY DEF OwnFile
    <2> QED
      BY Zenon, <2>1, SeqOfMore
  <1>4. Flat(h, files) \in Seq(Tasks)
    BY <1>3, FlatIs
  <1>5. PICK f \in ToSet(Files) :
            /\ f.name = <<Last(p)>>
            /\ (isDirectory(f) <=> remote[p] = "dir") /\ (remote[p] \in FileKinds => isFile(f))
    BY Zenon, FaithfulListing DEF ListingIsFaithful, ListedAsFile
  <1>6. f \in Held(files) /\ f \in OwnFile
    BY <1>2, <1>5 DEF ToSet, Held
  <1>7. Held(h[f]) \subseteq Held(Flat(h, files))
    BY <1>3, <1>6, FlatHeld
  <1>8. Held(Flat(h, files) \o rest) = Held(Flat(h, files)) \cup Held(rest)
    <2>1. \A s, t \in Seq(Tasks) : Held(s \o t) = Held(s) \cup Held(t)
      BY HeldIs
    <2> QED
      BY Zenon, <1>4, <2>1
  <1> QED
    BY <1>2, <1>5, <1>6, <1>7, <1>8, FlattenIs DEF Flat

\* A directory that is listed gives every entry its command.
LEMMA ListingCovers ==
    ASSUME Based, Removes, Inside, style = "dos" => Listable(remote), cwd = goal, clearWorkingDir
    PROVE  \A p \in Children(remote, goal) : \E task \in Held(todo') : Covers(task, p)
  <1>1. /\ todo # <<>> /\ Understood(Listed(cwd))
        /\ todo' = FlattenSeq([i \in 1 .. Len(Files) |-> Cleared(Files[i])]) \o Tail(todo)
    BY DEF clearWorkingDir, ForEachListed, Replaced, IsNext
  <1>2. Listing /\ cwd \in Paths /\ Tail(todo) \in Seq(Tasks)
    BY <1>1, NextIsSound, SoundAreTasks DEF Based, HomeInv, Placed, Listing
  <1>3. Files \in FileList
    BY <1>2, FilesType DEF Listing
  <1>4. PICK h \in Replacing(File, Tasks) : h = [file \in File |-> Cleared(file)]
    BY Zenon, <1>2, ClearedType, InnerAreTasks DEF Replacing
  <1>5. todo' = FlattenSeq([i \in 1 .. Len(Files) |-> h[Files[i]]]) \o Tail(todo)
    <2>1. \A i \in 1 .. Len(Files) : h[Files[i]] = Cleared(Files[i])
      BY <1>3, <1>4 DEF FileList
    <2> QED
      BY Zenon, <1>1, <2>1
  <1> SUFFICES ASSUME NEW p \in Children(remote, cwd)
               PROVE  \E task \in Held(todo') : Covers(task, p)
    BY Zenon
  <1>6. PICK f \in OwnFile : f.name = <<Last(p)>> /\ Held(h[f]) \subseteq Held(todo')
    BY Zenon, <1>1, <1>2, <1>5, ListingHolds
  <1>7. f \in File /\ <<Last(p)>> \in Seq(AllParts) /\ cwd # None
    <2>1. p \in Paths /\ p # <<>>
      BY ChildrenAre
    <2>2. <<Last(p)>> \in FileName
      BY Zenon, <2>1, PathIsName
    <2> QED
      BY Zenon, <1>2, <2>2, NoneIsNoPath, PathIsParts DEF OwnFile
  <1>8. \E task \in Held(Cleared(f)) : Covers(task, p)
    <2>1. CASE isDirectory(f)
      <3>1. PICK enter \in Seq(Tasks) : enter = Enter(f.name, <<Command("clear", <<>>)>>)
        <4>1. f.name \in FileName
          BY <1>7 DEF File
        <4>2. <<Command("clear", <<>>)>> \in InnerTasks
          BY PathIsParts, TaskType, FewTasks DEF Commands
        <4> QED
          BY <1>2, <4>1, <4>2, EnterType, InnerAreTasks
      <3>2. PICK rmd \in Tasks : rmd = Relative("rmd", f.name)
        BY Zenon, <1>2, <1>6, <1>7, TaskType, InnerAreTasks
      <3>3. Cleared(f) = enter \o <<rmd>>
        BY Zenon, <2>1, <3>1, <3>2 DEF Cleared
      <3>4. Held(enter \o <<rmd>>) = Held(enter) \cup {rmd}
        <4>1. /\ \A s, t \in Seq(Tasks) : Held(s \o t) = Held(s) \cup Held(t)
              /\ \A x \in Tasks : Held(<<x>>) = {x}
          BY HeldIs
        <4>2. <<rmd>> \in Seq(Tasks)
          OBVIOUS
        <4> QED
          BY Zenon, <4>1, <4>2
      <3>5. Covers(rmd, p)
        BY <1>6, <3>2 DEF Covers, Relative, Task
      <3> QED
        BY <3>3, <3>4, <3>5
    <2>2. CASE ~isDirectory(f)
      <3>1. PICK dele \in Tasks : dele = Relative("dele", f.name)
        BY Zenon, <1>2, <1>6, <1>7, TaskType, InnerAreTasks
      <3>2. Cleared(f) = <<dele>>
        BY Zenon, <2>2, <3>1 DEF Cleared
      <3>3. Held(<<dele>>) = {dele}
        BY Zenon, HeldIs
      <3>4. Covers(dele, p)
        BY <1>6, <3>1 DEF Covers, Relative, Task
      <3> QED
        BY <3>2, <3>3, <3>4
    <2> QED
      BY <2>1, <2>2
  <1>9. h[f] = Cleared(f)
    BY <1>4, <1>7
  <1> QED
    BY <1>6, <1>8, <1>9

LEMMA OnlyClears ==
    ASSUME Based, Removes, todo # <<>>, Inside, Loops
    PROVE  /\ clearWorkingDir /\ Head(todo).do = "clear"
           /\ UNCHANGED <<remote, cwd, goal>>
           /\ Held(Tail(todo)) \subseteq Held(todo')
           /\ \A task \in Held(todo) : task = Head(todo) \/ task \in Held(todo')
  <1>1. Head(todo).do \in {"cd", "cdup", "clear", "dele", "rmd", "return"}
    BY InsideIs
  <1>2. clearWorkingDir /\ Head(todo).do = "clear"
    BY <1>1, LoopIsNext DEF Listings
  <1>3. UNCHANGED <<remote, cwd, goal>>
    BY <1>2 DEF clearWorkingDir, ForEachListed, Replaced, server, call
  <1>4. PICK tasks \in RoundTrip : todo' = tasks \o Tail(todo)
    BY <1>2, ListedIsRoundTrip
  <1>5. tasks \in Seq(Tasks) /\ todo \in Seq(Tasks) /\ Tail(todo) \in Seq(Tasks)
    BY <1>4, NextIsSound, SoundAreTasks DEF RoundTrip
  <1>6. /\ Held(todo') = Held(tasks) \cup Held(Tail(todo))
        /\ Held(todo) = {Head(todo)} \cup Held(Tail(todo))
    <2>1. /\ \A s, t \in Seq(Tasks) : Held(s \o t) = Held(s) \cup Held(t)
          /\ \A s \in Seq(Tasks) : s # <<>> => Held(s) = {Head(s)} \cup Held(Tail(s))
      BY HeldIs
    <2> QED
      BY Zenon, <1>4, <1>5, <2>1
  <1> QED
    BY <1>2, <1>3, <1>6

\* A removal that has not failed has a command for every entry that is left.
LEMMA EmptyingNext ==
    ASSUME Based, Removes, Sited, style = "dos" => Listable(remote), Inside, todo # <<>>, Emptying,
           result' = "ok", [DirectoryNext]_vars
    PROVE  Emptying'
  <1>1. goal' = goal /\ (Idle \/ DoneWell \/ Loops)
    BY GoesWell
  <1>2. CASE Idle
    BY <1>1, <1>2 DEF Idle, Emptying, IsNext, Covers
  <1>3. CASE DoneWell
    <2>1. /\ todo' = Tail(todo) /\ Held(todo) = {Head(todo)} \cup Held(todo')
          /\ Head(todo).do \in {"cd", "cdup", "dele", "rmd", "return"}
          /\ Head(todo).do \in {"dele", "rmd"} => remote' = [remote EXCEPT ![Target] = "none"]
          /\ Children(remote', goal) \subseteq Children(remote, goal)
      BY <1>3, RemovalOnlyRemoves
    <2>2. \A p \in Children(remote, goal) : \E task \in Held(todo) : Covers(task, p)
      BY <2>1 DEF Emptying, IsNext
    <2>3. ASSUME NEW p \in Children(remote', goal)
          PROVE  \E task \in Held(todo') : Covers(task, p)
      <3>1. PICK task \in Held(todo) : Covers(task, p)
        BY <2>1, <2>2
      <3>2. ASSUME task = Head(todo)
            PROVE  FALSE
        <4>1. p \in Paths /\ p # <<>> /\ Parent(p) = goal /\ remote'[p] # "none" /\ goal \in Paths
          <5>1. p \in Paths /\ p # <<>> /\ Parent(p) = goal /\ remote'[p] # "none"
            BY DEF Children
          <5> QED
            BY <5>1, ParentIsPath
        <4>2. Head(todo).do \in {"dele", "rmd"} /\ Head(todo).at = goal /\ Head(todo).arg = <<Last(p)>>
          BY <3>1, <3>2 DEF Covers
        <4>3. PICK n \in Names : Head(todo).arg = <<n>> /\ Target = Append(cwd, n)
          BY <4>1, <4>2, NoneIsNoPath, EntryIsNext
        <4>4. cwd = goal
          BY <4>1, <4>2, NoneIsNoPath, EntryIsNext
        <4>5. n = Last(p)
          BY <4>2, <4>3, OneIsOne
        <4>6. p = Append(Parent(p), Last(p))
          BY <4>1, ParentIsPath
        <4>7. Target = p
          BY Zenon, <4>1, <4>3, <4>4, <4>5, <4>6
        <4>8. remote \in Trees
          BY NextIsSound
        <4> QED
          BY <2>1, <4>1, <4>2, <4>7, <4>8 DEF Trees
      <3> QED
        BY <2>1, <3>1, <3>2
    <2> QED
      BY <1>1, <2>3 DEF Emptying, Covers
  <1>4. CASE Loops
    <2>1. /\ clearWorkingDir /\ Head(todo).do = "clear" /\ UNCHANGED <<remote, cwd, goal>>
          /\ \A task \in Held(todo) : task = Head(todo) \/ task \in Held(todo')
      BY <1>4, OnlyClears
    <2>2. CASE cwd = goal
      BY <2>1, <2>2, ListingCovers DEF Emptying, Covers
    <2>3. CASE cwd # goal
      <3>1. \A p \in Children(remote, goal) : \E task \in Held(todo) : Covers(task, p)
        BY <2>3 DEF Emptying
      <3>2. \A p : ~Covers(Head(todo), p)
        BY <2>1 DEF Covers
      <3> QED
        BY Zenon, <2>1, <3>1, <3>2 DEF Emptying, Covers
    <2> QED
      BY <2>2, <2>3
  <1> QED
    BY <1>1, <1>2, <1>3, <1>4

\* Nor is the directory left out, when it is to be removed itself.
LEMMA LeavingNext ==
    ASSUME Based, Removes, Sited, goal \in Seq(Names), Inside, todo # <<>>, Leaving,
           result' = "ok", [DirectoryNext]_vars
    PROVE  Leaving'
  <1>1. goal' = goal /\ (Idle \/ DoneWell \/ Loops)
    BY GoesWell
  <1>2. CASE Idle
    BY <1>1, <1>2 DEF Idle, Leaving, Kind
  <1>3. CASE DoneWell
    <2>1. /\ todo' = Tail(todo) /\ Held(todo) = {Head(todo)} \cup Held(todo')
          /\ Head(todo).do \in {"cd", "cdup", "dele", "rmd", "return"}
          /\ Head(todo).do \notin {"dele", "rmd"} => remote' = remote
          /\ Head(todo).do \in {"dele", "rmd"} => remote' = [remote EXCEPT ![Target] = "none"]
      BY <1>3, RemovalOnlyRemoves
    <2>2. remote \in Trees /\ cwd \in Paths /\ Belongs(Here(cwd), Head(todo))
      BY NextIsSound, NextLeads DEF Sited
    <2>3. CASE Kind(remote, goal) = "none"
      BY <1>1, <2>1, <2>2, <2>3 DEF Kind, Leaving, Trees
    <2>4. CASE Head(todo).do = "rmd" /\ Head(todo).at = None
      <3>1. Head(todo).arg = <<"">> \o goal
        BY Zenon, <2>4, InsideIs DEF OwnTask
      <3>2. PICK p \in Paths : Head(todo).arg = <<"">> \o p
        BY Zenon, <2>2, <2>4 DEF Belongs, FromParent
      <3>3. p = goal
        <4>1. p \in Seq(Names)
          BY PathsAre
        <4>2. Tail(<<"">> \o p) = p /\ Tail(<<"">> \o goal) = goal
          BY Zenon, <4>1, HeadOfAbsolute
        <4> QED
          BY Zenon, <3>1, <3>2, <4>2
      <3>4. Target = goal
        BY Zenon, <2>2, <2>4, <3>2, <3>3, TargetIs
      <3> QED
        BY <1>1, <2>1, <2>2, <2>4, <3>4 DEF Kind, Leaving, Trees
    <2>5. CASE \E task \in Held(todo') : task.do = "rmd" /\ task.at = None
      BY <2>5 DEF Leaving
    <2> QED
      BY <2>1, <2>3, <2>4, <2>5 DEF Leaving
  <1>4. CASE Loops
    <2>1. /\ Head(todo).do = "clear" /\ UNCHANGED <<remote, cwd, goal>>
          /\ \A task \in Held(todo) : task = Head(todo) \/ task \in Held(todo')
      BY <1>4, OnlyClears
    <2> QED
      BY <2>1 DEF Leaving, Kind
  <1> QED
    BY <1>1, <1>2, <1>3, <1>4

-----------------------------------------------------------------------------
(* Success of removals and of changing the directory *)

\* removeDir as long as it has not failed.
Removed ==
    \/ todo \in {<<Pwd>> \o Way, Way} /\ goal = Follow(Walk(op.arg))
    \/ todo = Tail(Way) /\ goal = cwd
    \/ Inside /\ (IF goal = <<>> THEN Emptying ELSE Leaving)

Succeeding ==
    result = "ok" =>
        /\ op.name = "removeDir" => Removed
        /\ op.name = "clearWorkingDir" => Emptying
        /\ op.name = "cd" =>
              \/ todo = <<Command("cd", op.arg)>> /\ goal = Follow(Walk(op.arg))
              \/ todo = <<>> /\ cwd = goal
        /\ op.name = "remove" =>
              \/ todo = <<Command("dele", op.arg)>> /\ goal = Walk(op.arg)
              \/ todo = <<>> /\ Kind(remote, goal) = "none"

\* A command with the argument of the operation finds what the operation is
\* about.
LEMMA FindsGoal ==
    ASSUME Based, op \in Operations, op.arg # <<>>, todo # <<>>, Head(todo).arg = op.arg,
           Head(todo).do # "mkd"
    PROVE  Target = Walk(op.arg)
  <1>1. op.arg \in Seq(Parts) /\ cwd \in Paths
    BY NextIsSound, OperationsAre
  <1>2. Target = ServerPath(protectWhitespace(op.arg))
    BY DEF Target
  <1> QED
    BY <1>1, <1>2, ServerFinds

LEMMA WaySucceeds ==
    ASSUME Based, op \in Operations, op.name = "removeDir",
           goal = Follow(Walk(op.arg)), todo \in {<<Pwd>> \o Way, Way},
           result' = "ok", [DirectoryNext]_vars
    PROVE  Removed'
  <1>1. /\ todo # <<>> /\ Head(todo).do \in {"pwd", "cd"}
        /\ Head(todo).do = "pwd" => todo = <<Pwd>> \o Way /\ Tail(todo) = Way
        /\ Head(todo).do = "cd" => todo = Way /\ Head(todo).arg = op.arg /\ Tail(todo) = Tail(Way)
    BY Zenon, WayIs
  <1>2. op' = op /\ goal' = goal /\ (Idle \/ DoneWell \/ Loops)
    BY <1>1, GoesWell
  <1>3. Way' = Way
    BY Zenon, <1>2 DEF Way, ToTarget
  <1>4. ASSUME remote' = remote, cwd' = cwd, todo' \in {todo, Way}
        PROVE  Removed'
    <2>1. Follow(Walk(op.arg))' = Follow(Walk(op.arg))
      BY Zenon, <1>2, <1>4 DEF Follow, Walk
    <2> QED
      BY <1>2, <1>3, <1>4, <2>1 DEF Removed
  <1>5. CASE Idle
    BY <1>4, <1>5 DEF Idle
  <1>6. CASE DoneWell
    <2>1. CASE Head(todo).do = "pwd"
      BY <1>1, <1>4, <1>6, <2>1 DEF DoneWell
    <2>2. CASE Head(todo).do = "cd"
      <3>1. Target = Walk(op.arg)
        BY <1>1, <2>2, ArgumentsAre, FindsGoal
      <3>2. cwd' = goal /\ todo' = Tail(Way)
        BY <1>1, <1>6, <2>2, <3>1 DEF DoneWell
      <3> QED
        BY <1>2, <1>3, <3>2 DEF Removed
    <2> QED
      BY <1>1, <2>1, <2>2
  <1>7. CASE Loops
    BY <1>1, <1>7, LoopIsNext DEF Listings
  <1> QED
    BY <1>2, <1>5, <1>6, <1>7

\* The tasks of a directory that is not the root remove it as well.
LEMMA TargetIsLeft ==
    ASSUME cwd \in Paths, cwd # <<>>
    PROVE  \E task \in Held(RemovedTarget \o <<Return>>) : task.do = "rmd" /\ task.at = None
  <1>1. PICK clear, cdup \in Tasks :
            clear = Command("clear", <<>>) /\ cdup = Command("cdup", <<>>)
    BY PathIsParts, TaskType, InnerAreTasks DEF Commands
  <1>2. PICK rmd \in Tasks : rmd = Command("rmd", <<"">> \o cwd)
    <2>1. <<"">> \o cwd \in Seq(AllParts)
      BY Zenon, PathIsName, PathIsParts
    <2> QED
      BY Zenon, <2>1, TaskType, InnerAreTasks DEF Commands
  <1>3. PICK back \in Tasks : back = Return
    BY ReturnIsTask
  <1>4. RemovedTarget = <<clear>> \o <<cdup, rmd>>
    BY Zenon, <1>1, <1>2 DEF RemovedTarget
  <1>5. <<cdup, rmd>> = <<cdup>> \o <<rmd>>
    BY OneThenOther
  <1>6. /\ <<clear>> \in Seq(Tasks) /\ <<cdup>> \in Seq(Tasks) /\ <<rmd>> \in Seq(Tasks)
        /\ <<back>> \in Seq(Tasks)
        /\ <<cdup>> \o <<rmd>> \in Seq(Tasks) /\ <<clear>> \o (<<cdup>> \o <<rmd>>) \in Seq(Tasks)
    OBVIOUS
  <1>7. /\ \A s, t \in Seq(Tasks) : Held(s \o t) = Held(s) \cup Held(t)
        /\ \A x \in Tasks : Held(<<x>>) = {x}
    BY Zenon, HeldIs
  <1>8. /\ rmd \in Held(<<rmd>>)
        /\ \A s, t \in Seq(Tasks) : \A x \in Held(s) \cup Held(t) : x \in Held(s \o t)
    BY <1>7
  <1>9. rmd \in Held(RemovedTarget \o <<Return>>)
    <2>1. rmd \in Held(<<cdup>> \o <<rmd>>)
      BY Zenon, <1>6, <1>8
    <2>2. rmd \in Held(<<clear>> \o (<<cdup>> \o <<rmd>>))
      BY Zenon, <1>6, <1>8, <2>1
    <2>3. rmd \in Held((<<clear>> \o (<<cdup>> \o <<rmd>>)) \o <<back>>)
      BY Zenon, <1>6, <1>8, <2>2
    <2> QED
      BY Zenon, <1>3, <1>4, <1>5, <2>3
  <1> QED
    BY Zenon, <1>2, <1>9 DEF Command, Task

LEMMA TargetSucceeds ==
    ASSUME Based, op.name = "removeDir", remote = before, goal = cwd, todo = Tail(Way),
           result' = "ok", [DirectoryNext]_vars
    PROVE  Removed'
  <1>1. todo # <<>> /\ Head(todo).do = "target" /\ Tail(todo) = <<Return>>
    BY WayIs
  <1>2. op' = op /\ goal' = goal /\ (Idle \/ DoneWell \/ Loops)
    BY <1>1, GoesWell
  <1>3. Way' = Way
    BY Zenon, <1>2 DEF Way, ToTarget
  <1>4. CASE Idle
    BY <1>2, <1>3, <1>4 DEF Idle, Removed
  <1>5. CASE Loops
    <2>1. EntersTarget
      BY <1>1, <1>5, LoopIsNext
    <2>2. /\ UNCHANGED <<remote, cwd, local, op, goal>>
          /\ todo' = RemovedTarget \o <<Return>>
      BY Zenon, <1>1, <2>1 DEF EntersTarget, Replaced, server, call
    <2>3. cwd \in Paths /\ cwd \in Seq(Names)
      BY <1>1, NextIsSound, PathsAre
    <2>4. PICK rest \in LedTasks : todo' = <<Command("clear", <<>>)>> \o rest
      BY Zenon, <2>2, <2>3, TargetIsCleared
    <2>5. rest \in LedTasks'
      BY <2>2, OwnStill DEF FilesStay
    <2>6. Head(todo') = Command("clear", <<>>) /\ Tail(todo') = rest /\ todo' # <<>>
      <3>1. rest \in Seq(OwnTask)
        BY Zenon DEF LedTasks
      <3> QED
        BY Zenon, <2>4, <3>1, HeadOfAbsolute
    <2>7. IsNext("clear")' /\ Head(todo') \in OwnTask'
      BY <1>2, <2>6, ClearIsOwn DEF IsNext
    <2>8. Inside' /\ Emptying'
      BY Zenon, <2>2, <2>3, <2>5, <2>6, <2>7, PrefixIs DEF Inside, Emptying, IsNext, Listings
    <2>9. goal # <<>> => Leaving'
      BY <2>2, <2>3, TargetIsLeft DEF Leaving
    <2> QED
      BY <1>2, <2>8, <2>9 DEF Removed
  <1>6. ~DoneWell
    BY <1>1 DEF DoneWell
  <1> QED
    BY <1>2, <1>4, <1>5, <1>6

LEMMA OneCommand ==
    ASSUME NEW what, NEW arg, todo = <<Command(what, arg)>>
    PROVE  todo # <<>> /\ Head(todo).do = what /\ Head(todo).arg = arg /\ Tail(todo) = <<>>
  <1>1. PICK x : x = Command(what, arg)
    OBVIOUS
  <1>2. todo # <<>> /\ Head(todo) = x /\ Tail(todo) = <<>>
    BY <1>1, HeadOfOne
  <1> QED
    BY <1>1, <1>2 DEF Command, Task

\* cd and remove send one command, with the argument of the operation.
LEMMA CommandSucceeds ==
    ASSUME Based, op \in Operations, op.name \in {"cd", "remove"}, todo # <<>>, Succeeding,
           result = "ok", result' = "ok", [DirectoryNext]_vars
    PROVE  Succeeding'
  <1>1. UNCHANGED <<op, goal>> /\ (Idle \/ DoneWell \/ Loops)
    BY GoesWell
  <1>2. /\ Head(todo).do \in {"cd", "dele"} /\ Head(todo).arg = op.arg /\ Tail(todo) = <<>>
        /\ op.name = "cd" => Head(todo).do = "cd" /\ goal = Follow(Walk(op.arg))
        /\ op.name = "remove" => Head(todo).do = "dele" /\ goal = Walk(op.arg)
    BY OneCommand DEF Succeeding
  <1>3. op.arg # <<>>
    BY Zenon, DirectoryAssumption
  <1>4. Target = Walk(op.arg) /\ remote \in Trees
    BY <1>2, <1>3, FindsGoal, NextIsSound
  <1>5. CASE Idle
    <2>1. Follow(Walk(op.arg))' = Follow(Walk(op.arg)) /\ Walk(op.arg)' = Walk(op.arg)
      BY Zenon, <1>1, <1>5 DEF Follow, Walk, Idle
    <2> QED
      BY <1>1, <1>5, <2>1 DEF Idle, Succeeding
  <1>6. CASE DoneWell
    BY <1>1, <1>2, <1>4, <1>6 DEF DoneWell, Succeeding, Kind, Trees
  <1>7. CASE Loops
    BY <1>2, <1>7, LoopIsNext DEF Listings
  <1> QED
    BY <1>1, <1>5, <1>6, <1>7

LEMMA BeginSucceeds ==
    ASSUME Based, NEW o \in Operations, Begin(o)
    PROVE  Succeeding'
  <1>1. /\ op' = o /\ remote' = remote /\ cwd' = cwd /\ todo' = Plan(o)
        /\ goal' = IF o.name = "remove" THEN Walk(o.arg) ELSE Follow(Walk(o.arg))
    BY DEF Begin, server
  <1>2. /\ Walk(op.arg)' = Walk(o.arg) /\ Follow(Walk(op.arg))' = Follow(Walk(o.arg))
    BY Zenon, <1>1 DEF Follow, Walk
  <1>3. CASE o.name = "removeDir"
    <2>1. (Excursion(<<ToTarget, AtTarget>>) = <<Pwd>> \o Way)'
      BY WayIs, PTL
    <2>2. Plan(o) = Excursion(<<Command("cd", o.arg), Command("target", <<>>)>>)
      BY <1>3 DEF Plan
    <2>3. todo' = (<<Pwd>> \o Way)'
      BY Zenon, <1>1, <2>1, <2>2 DEF ToTarget, AtTarget
    <2>4. Removed'
      BY <1>1, <1>2, <1>3, <2>3 DEF Removed
    <2> QED
      BY <1>1, <1>3, <2>4 DEF Succeeding
  <1>4. CASE o.name = "clearWorkingDir"
    <2>1. todo' = <<Command("clear", <<>>)>>
      BY <1>1, <1>4 DEF Plan
    <2>2. IsNext("clear")'
      <3>1. PICK x : x = Command("clear", <<>>)
        OBVIOUS
      <3>2. todo' # <<>> /\ Head(todo') = x
        BY <2>1, <3>1, HeadOfOne
      <3> QED
        BY <3>1, <3>2 DEF IsNext, Command, Task
    <2>3. goal' = cwd
      BY <1>1, <1>4, ArgumentsAre, FollowHere DEF Based, HomeInv, Placed, Kind
    <2> QED
      BY <1>1, <1>4, <2>2, <2>3 DEF Succeeding, Emptying
  <1>5. CASE o.name = "cd"
    <2>1. todo' = <<Command("cd", op'.arg)>>
      BY <1>1, <1>5 DEF Plan
    <2> QED
      BY <1>1, <1>2, <1>5, <2>1 DEF Succeeding
  <1>6. CASE o.name = "remove"
    <2>1. todo' = <<Command("dele", op'.arg)>>
      BY <1>1, <1>6 DEF Plan
    <2> QED
      BY <1>1, <1>2, <1>6, <2>1 DEF Succeeding
  <1>7. CASE o.name \notin {"removeDir", "clearWorkingDir", "cd", "remove"}
    BY <1>1, <1>7 DEF Succeeding
  <1> QED
    BY <1>3, <1>4, <1>5, <1>6, <1>7

LEMMA SucceedingNext ==
    ASSUME DirectoryInv, Plain, Owned, Succeeding, [DirectoryNext]_vars
    PROVE  Succeeding'
  <1>1. Based /\ op \in Operations \cup {NoOperation} /\ (op.name # "uploadFromDir" => Sited)
    BY DEF DirectoryInv, Typed
  <1>2. goal \in Seq(Names) /\ (style = "dos" => Listable(remote))
    BY DEF Owned, Plain
  <1>3. CASE \E o \in Operations : Begin(o)
    BY <1>1, <1>3, BeginSucceeds
  <1>4. CASE todo = <<>> /\ ~\E o \in Operations : Begin(o)
    <2>1. Reconnects \/ UNCHANGED vars
      BY <1>4, NothingToDo
    <2>2. CASE Reconnects
      BY <2>2 DEF Reconnects, NoOperation, Succeeding
    <2>3. CASE UNCHANGED vars
      <3>1. UNCHANGED <<remote, cwd, op, goal, todo, result>>
        BY <2>3 DEF vars, server, call
      <3>2. /\ Way # <<>> /\ Tail(Way) # <<>> /\ <<Pwd>> \o Way # <<>>
            /\ \A arg : <<Command("cd", arg)>> # <<>> /\ <<Command("dele", arg)>> # <<>>
        BY WayIs, HeadOfOne
      <3>3. Emptying' <=> Emptying
        BY <3>1 DEF Emptying, IsNext, Covers
      <3>4. Leaving' <=> Leaving
        BY <3>1 DEF Leaving, Kind
      <3>5. Inside'
        BY <1>4, <3>1, FewAreLedNext DEF Inside
      <3>6. Removed => Removed'
        BY <1>4, <3>1, <3>2, <3>3, <3>4, <3>5 DEF Removed
      <3> QED
        BY <1>4, <3>1, <3>2, <3>3, <3>6 DEF Succeeding, Kind
    <2> QED
      BY <2>1, <2>2, <2>3
  <1>5. CASE todo # <<>> /\ ~\E o \in Operations : Begin(o)
    <2> SUFFICES ASSUME result' = "ok"
                 PROVE  Succeeding'
      BY DEF Succeeding
    <2>1. UNCHANGED <<op, goal>> /\ result = "ok"
      BY <1>1, <1>5, GoesWell
    <2>2. CASE op.name \in {"cd", "remove"}
      BY <1>1, <1>5, <2>1, <2>2, CommandSucceeds DEF NoOperation
    <2>3. CASE op.name = "clearWorkingDir"
      <3>1. Emptying /\ Inside /\ Sited
        BY <1>1, <2>1, <2>3 DEF Succeeding, Owned
      <3>2. Emptying'
        BY <1>1, <1>2, <1>5, <2>3, <3>1, EmptyingNext DEF Removes
      <3> QED
        BY <2>1, <2>3, <3>2 DEF Succeeding
    <2>4. CASE op.name = "removeDir"
      <3>1. Removed /\ Removing /\ Sited /\ op \in Operations
        BY <1>1, <2>1, <2>4 DEF Succeeding, Owned, NoOperation
      <3> SUFFICES Removed'
        BY <2>1, <2>4 DEF Succeeding
      <3>2. CASE todo \in {<<Pwd>> \o Way, Way} /\ goal = Follow(Walk(op.arg))
        BY <1>1, <2>4, <3>1, <3>2, WaySucceeds
      <3>3. CASE todo = Tail(Way) /\ goal = cwd
        <4>1. remote = before
          <5>1. Head(todo).do = "target" /\ todo # <<>>
            BY <3>3, WayIs
          <5>2. ~Inside
            BY <1>1, <2>4, <5>1, InsideIs DEF Removes
          <5> QED
            BY <3>1, <5>2 DEF Removing
        <4> QED
          BY <1>1, <2>4, <3>3, <4>1, TargetSucceeds
      <3>4. CASE Inside /\ (IF goal = <<>> THEN Emptying ELSE Leaving)
        <4>1. OnlyRemoved
          BY <3>1 DEF Removing, OnlyRemoved, Changed
        <4>2. Inside'
          BY <1>1, <1>2, <1>5, <2>4, <3>1, <3>4, <4>1, InsideNext DEF Removes
        <4>3. IF goal = <<>> THEN Emptying' ELSE Leaving'
          BY <1>1, <1>2, <1>5, <2>4, <3>1, <3>4, EmptyingNext, LeavingNext DEF Removes
        <4> QED
          BY <2>1, <4>2, <4>3 DEF Removed
      <3> QED
        BY <3>1, <3>2, <3>3, <3>4 DEF Removed
    <2> QED
      BY <2>1, <2>2, <2>3, <2>4 DEF Succeeding
  <1> QED
    BY <1>3, <1>4, <1>5

LEMMA SucceedingIsComplete ==
    ASSUME DirectoryInv, Owned, Succeeding
    PROVE  op.name \in {"removeDir", "clearWorkingDir", "cd", "remove"} => SuccessIsComplete
  <1> SUFFICES ASSUME op.name \in {"removeDir", "clearWorkingDir", "cd", "remove"},
                      todo = <<>>, result = "ok"
               PROVE  SuccessIsComplete
    BY Zenon DEF SuccessIsComplete, Finished
  <1>1. IsTree(remote) /\ goal \in Seq(Names)
    BY DEF DirectoryInv, Based, Owned
  <1>2. Held(todo) = {} /\ ~IsNext("clear")
    BY HeldIs DEF IsNext
  <1>3. CASE op.name = "removeDir"
    <2>1. Way # <<>> /\ Tail(Way) # <<>> /\ <<Pwd>> \o Way # <<>>
      BY WayIs
    <2>2. IF goal = <<>> THEN Emptying ELSE Leaving
      BY <1>3, <2>1 DEF Succeeding, Removed
    <2>3. Children(remote, goal) = {}
      <3>1. CASE goal = <<>>
        BY <1>2, <2>2, <3>1 DEF Emptying
      <3>2. CASE goal # <<>>
        <4>1. Kind(remote, goal) = "none"
          BY <1>2, <2>2, <3>2 DEF Leaving
        <4>2. ASSUME NEW p \in Children(remote, goal)
              PROVE  FALSE
          <5>1. p \in Paths /\ Parent(p) = goal /\ remote[p] # "none"
            BY DEF Children
          <5>2. goal \in Paths
            BY <5>1, ParentIsPath
          <5> QED
            BY <1>1, <4>1, <5>1, <5>2 DEF IsTree, InDirectories, Parent, Kind
        <4> QED
          BY <4>2
      <3> QED
        BY <3>1, <3>2
    <2>4. ASSUME NEW p \in Paths, IsPrefix(goal, p), p # <<>>
          PROVE  remote[p] = "none"
      <3>1. CASE p = goal
        BY <1>2, <2>2, <2>4, <3>1 DEF Leaving, Kind
      <3>2. CASE p # goal
        BY <1>1, <2>3, <2>4, <3>2, NothingBelow DEF IsTree
      <3> QED
        BY <3>1, <3>2
    <2> QED
      BY <1>3, <2>4 DEF SuccessIsComplete
  <1>4. CASE op.name = "clearWorkingDir"
    BY <1>2, <1>4 DEF Succeeding, Emptying, SuccessIsComplete
  <1>5. CASE op.name \in {"cd", "remove"}
    <2>1. \A arg : <<Command("cd", arg)>> # <<>> /\ <<Command("dele", arg)>> # <<>>
      BY HeadOfOne
    <2> QED
      BY Zenon, <1>5, <2>1 DEF Succeeding, SuccessIsComplete
  <1> QED
    BY <1>3, <1>4, <1>5

\* A removal that reports no failure has removed everything: the directory
\* that its path led to is gone with all that was in it, or is empty, the file
\* is gone; and a change of directory has led to it (removeDir,
\* clearWorkingDir, remove, cd).
THEOREM RemovalsAreComplete ==
    DirectorySpec =>
        [](op.name \in {"removeDir", "clearWorkingDir", "cd", "remove"} => SuccessIsComplete)
  <1>1. DirectoryInit => DirectoryInv /\ Plain /\ Owned /\ Succeeding
    BY DirectoryInvInit, PlainInit, OwnedInit DEF DirectoryInit, NoOperation, Succeeding
  <1>2. DirectoryInv /\ Plain /\ Owned /\ Succeeding /\ [DirectoryNext]_vars =>
            DirectoryInv' /\ Plain' /\ Owned' /\ Succeeding'
    BY DirectoryInvNext, PlainNext, OwnedNext, SucceedingNext DEF DirectoryInv
  <1>3. DirectoryInv /\ Owned /\ Succeeding =>
            (op.name \in {"removeDir", "clearWorkingDir", "cd", "remove"} => SuccessIsComplete)
    BY SucceedingIsComplete
  <1> QED
    BY <1>1, <1>2, <1>3, PTL DEF DirectorySpec

-----------------------------------------------------------------------------
(* What a download has still to fetch *)

Fetching == \A f \in Wanted : Fetched(f) \/ \E task \in Held(todo) : Fetches(task, f)

LEMMA ConcatNames == \A s, t, r \in Seq(Names) : s \o (t \o r) = (s \o t) \o r
  BY ConcatAssociative

LEMMA JoinNames ==
    /\ \A s, t, r \in Seq(Names) : s \o (t \o r) = (s \o t) \o r /\ s \o t \in Seq(Names)
    /\ \A s \in Seq(Names) : s \o <<>> = s /\ <<>> \o s = s
    /\ \A s \in Seq(Names), n \in Names :
          /\ s \o <<n>> = Append(s, n) /\ Append(s, n) \in Seq(Names) /\ Last(Append(s, n)) = n
          /\ <<n>> \in Seq(Names)
  BY ConcatNames DEF Last

\* What is there is in directories that are there.
LEMMA AncestorIsThere ==
    ASSUME NEW tree, InDirectories(tree), NEW q \in Seq(Names), NEW r \in Seq(Names), q \o r \in Paths,
           tree[q \o r] # "none"
    PROVE  q \in Paths /\ tree[q] # "none" /\ (r # <<>> => tree[q] = "dir")
  <1>1. /\ Len(q) \in Nat /\ Len(r) \in Nat /\ Len(q \o r) = Len(q) + Len(r)
        /\ SubSeq(q \o r, 1, Len(q)) = SubSeq(q, 1, Len(q))
    <2>1. \A i \in 1 .. Len(q) : (q \o r)[i] = q[i]
      OBVIOUS
    <2> QED
      BY <2>1
  <1>2. q \in Paths
    <2>1. Len(q \o r) <= Depth /\ Depth \in Nat
      <3>1. PICK p \in Paths : p = q \o r
        BY Zenon
      <3>2. Len(p) \in 0 .. Depth
        BY PathsAre
      <3> QED
        BY <3>1, <3>2, DepthIsNat
    <2> QED
      BY <1>1, <2>1, PathsAre
  <1>3. CASE r = <<>>
    BY <1>2, <1>3, JoinNames
  <1>4. CASE r # <<>>
    <2>1. q \o r # q
      <3>1. Len(r) # 0
        BY <1>4
      <3> QED
        BY <1>1, <3>1
    <2>2. IsPrefix(q, q \o r)
      BY <1>1 DEF IsPrefix
    <2>3. PICK c \in Children(tree, q) : TRUE
      BY Zenon, <2>1, <2>2, NothingBelow
    <2> QED
      BY <1>2, <2>3 DEF Children, InDirectories
  <1> QED
    BY <1>3, <1>4

\* A directory is entered for what is done in it.
LEMMA EnterIsLed ==
    ASSUME cwd \in Paths, goal \in Seq(Names), IsPrefix(goal, cwd), ~Removes, NEW n \in Names,
           NEW inner \in OwnTask, goal \o inner.file = cwd \o <<n>>
    PROVE  /\ Enter(<<n>>, <<inner>>) \in LedTasks /\ inner \in Held(Enter(<<n>>, <<inner>>))
  <1>1. cwd # None
    BY NoneIsNoPath
  <1>2. PICK cd \in OwnTask : cd = Relative("cd", <<n>>) /\ cd.do = "cd" /\ cd.at = cwd /\ cd.arg = <<n>>
    <2>1. PICK task \in SoundTask : task = Relative("cd", <<n>>)
      BY EntryTasks
    <2>2. task.do = "cd" /\ task.at = cwd /\ task.arg = <<n>>
      BY <2>1 DEF Relative, Task
    <2>3. task \in OwnTask
      BY Zenon, <1>1, <2>2 DEF OwnTask
    <2> QED
      BY <2>1, <2>2, <2>3
  <1>3. PICK cdup \in OwnTask : cdup = Command("cdup", <<>>) /\ cdup.do = "cdup"
    <2>1. PICK task \in Tasks : task = Command("cdup", <<>>)
      BY PathIsParts, TaskType, InnerAreTasks DEF Commands
    <2>2. task.do = "cdup" /\ task.at = None
      BY <2>1 DEF Command, Task
    <2>3. task \in OwnTask
      BY Zenon, <2>2 DEF OwnTask, SoundTask
    <2> QED
      BY <2>1, <2>2, <2>3
  <1>4. <<cd, inner>> \o <<cdup>> \in LedTasks
    <2>1. Precedes(cd, inner)
      BY Zenon, <1>2 DEF Precedes
    <2>2. <<cdup>> \in LedTasks
      BY Zenon, <1>3, FewAreLed DEF Listings
    <2> QED
      BY Zenon, <1>2, <2>1, <2>2, LedTasksAre
  <1>5. <<cd>> \o <<inner>> = <<cd, inner>>
    BY Zenon, OneThenOther
  <1>6. Enter(<<n>>, <<inner>>) = <<cd, inner>> \o <<cdup>>
    BY Zenon, <1>2, <1>3, <1>5 DEF Enter
  <1>7. inner \in Held(<<cd, inner>> \o <<cdup>>)
    <2>1. /\ \A s, t \in Seq(OwnTask) : Held(s \o t) = Held(s) \cup Held(t)
          /\ \A a \in OwnTask : Held(<<a>>) = {a}
      BY Zenon, HeldIs
    <2>2. <<cd>> \in Seq(OwnTask) /\ <<inner>> \in Seq(OwnTask) /\ <<cdup>> \in Seq(OwnTask)
          /\ <<cd>> \o <<inner>> \in Seq(OwnTask)
      BY <1>2, <1>3
    <2>3. \A s, t \in Seq(OwnTask) : \A x \in Held(s) \cup Held(t) : x \in Held(s \o t)
      BY <2>1
    <2>4. inner \in Held(<<inner>>)
      BY <2>1
    <2>5. inner \in Held((<<cd>> \o <<inner>>) \o <<cdup>>)
      BY Zenon, <2>2, <2>3, <2>4
    <2> QED
      BY Zenon, <1>5, <2>5
  <1> QED
    BY Zenon, <1>4, <1>6, <1>7

\* A file has the same place in both trees.
LEMMA SamePlace ==
    ASSUME goal \in Seq(Names), cwd \in Seq(Names), NEW g \in Seq(Names), cwd = goal \o g, NEW n \in Names
    PROVE  /\ goal \o Append(g, n) = cwd \o <<n>> /\ g \o <<n>> = Append(g, n)
           /\ Append(g, n) \in Seq(Names) /\ Append(g, n) \in Seq(AllParts)
  <1>1. PICK one \in Seq(Names) : one = <<n>>
    BY Zenon, JoinNames
  <1>2. goal \o (g \o one) = (goal \o g) \o one
    BY ZenonT(60), ConcatNames
  <1>3. g \o one = Append(g, n) /\ Append(g, n) \in Seq(Names)
    BY Zenon, <1>1, JoinNames
  <1>4. Names \subseteq AllParts
    BY Zenon DEF AllParts, Parts
  <1>5. Append(g, n) \in Seq(AllParts)
    BY Zenon, <1>3, <1>4, SeqOfMore
  <1> QED
    BY Zenon, <1>1, <1>2, <1>3, <1>5

\* A download's tasks for an entry.
LEMMA DownloadedIs ==
    ASSUME op.name = "downloadToDir", cwd \in Paths, goal \in Seq(Names), IsPrefix(goal, cwd),
           Head(todo).file \in Seq(Names), cwd = goal \o Head(todo).file, NEW file \in OwnFile
    PROVE  \E n \in Names :
               /\ file.name = <<n>> /\ Downloaded(file) \in LedTasks
               /\ isDirectory(file) => \E task \in Held(Downloaded(file)) :
                      task.do = "download" /\ task.file = Append(Head(todo).file, n)
               /\ isFile(file) => \E task \in Held(Downloaded(file)) :
                      task.do = "retr" /\ task.file = Append(Head(todo).file, n)
  <1>1. PICK n \in Names : file.name = <<n>>
    BY OwnFileIs
  <1>2. PICK to \in Seq(Names) :
            /\ to = Head(todo).file \o file.name /\ to = Append(Head(todo).file, n)
            /\ goal \o to = cwd \o <<n>> /\ to \in Seq(AllParts)
    <2>1. cwd \in Seq(Names)
      BY PathsAre
    <2>2. PICK g \in Seq(Names) : g = Head(todo).file
      OBVIOUS
    <2>3. /\ goal \o Append(g, n) = cwd \o <<n>> /\ g \o <<n>> = Append(g, n)
          /\ Append(g, n) \in Seq(Names) /\ Append(g, n) \in Seq(AllParts)
      BY Zenon, <2>1, <2>2, SamePlace
    <2> QED
      BY Zenon, <1>1, <2>2, <2>3
  <1>3. cwd # None /\ ~Removes
    BY Zenon, NoneIsNoPath DEF Removes
  <1>4. PICK down \in OwnTask :
            down = Task("download", <<>>, to, None) /\ down.do = "download" /\ down.file = to
    <2>1. PICK task \in SoundTask : task = Task("download", <<>>, to, None)
      BY Zenon, <1>2, InsideTasks
    <2>2. task.do = "download" /\ task.at = None /\ task.file = to
      BY <2>1 DEF Task
    <2>3. task \in OwnTask
      BY Zenon, <1>3, <2>2 DEF OwnTask
    <2> QED
      BY <2>1, <2>2, <2>3
  <1>5. PICK retr \in OwnTask : retr = Task("retr", <<n>>, to, cwd) /\ retr.do = "retr" /\ retr.file = to
    <2>1. PICK task \in SoundTask : task = Task("retr", <<n>>, to, cwd)
      BY Zenon, <1>2, EntryTasks
    <2>2. task.do = "retr" /\ task.at = cwd /\ task.file = to /\ task.arg = <<n>>
      BY <2>1 DEF Task
    <2>3. task \in OwnTask
      BY Zenon, <1>2, <1>3, <2>2 DEF OwnTask
    <2> QED
      BY <2>1, <2>2, <2>3
  <1>6. <<retr>> \in LedTasks /\ <<>> \in LedTasks /\ retr \in Held(<<retr>>)
    <2>1. \A a \in OwnTask : Held(<<a>>) = {a}
      BY Zenon, HeldIs
    <2> QED
      BY Zenon, <1>5, <2>1, FewAreLed DEF Listings
  <1>7. Enter(<<n>>, <<down>>) \in LedTasks /\ down \in Held(Enter(<<n>>, <<down>>))
    BY Zenon, <1>2, <1>3, <1>4, EnterIsLed
  <1>8. Len(file.name) = 1 /\ file.name # <<"">>
    BY Zenon, <1>1, OneIsOne, NamesAre
  <1>9. isFile(file) => ~isDirectory(file)
    BY DEF isFile, isDirectory
  <1>10. Downloaded(file) = IF isDirectory(file) THEN Enter(<<n>>, <<down>>)
                            ELSE IF isFile(file) THEN <<retr>> ELSE <<>>
    BY Zenon, <1>1, <1>2, <1>4, <1>5, <1>8, <1>9 DEF Downloaded
  <1> QED
    BY Zenon, <1>1, <1>2, <1>4, <1>5, <1>6, <1>7, <1>9, <1>10

\* Where each task is done, the operation stays inside.
LEMMA GoesOnInside ==
    ASSUME Based, Sited, goal \in Seq(Names), Inside, todo # <<>>, DoneWell, op' = op, goal' = goal
    PROVE  Inside'
  <1>1. Head(todo) \in OwnTask /\ cwd \in Paths /\ cwd \in Seq(Names) /\ local \in Trees
    BY NextIsSound, InsideIs, PathsAre
  <1>2. Head(todo).do \notin Listings /\ todo' = Tail(todo)
    BY DEF DoneWell, Listings
  <1>3. todo \in LedTasks
    BY <1>2, InsideIs
  <1>4. FilesStay
    BY <1>1 DEF DoneWell, FilesStay, Trees, Kind, FileKinds
  <1>5. CASE Head(todo).do = "cd"
    <2>1. Head(todo).at # None /\ IsPrefix(goal, Head(todo).at)
      BY Zenon, <1>1, <1>5 DEF OwnTask
    <2>2. PICK n \in Names : Head(todo).arg = <<n>> /\ Target = Append(cwd, n)
      BY <1>5, <2>1, EntryIsNext
    <2>3. Head(todo).at = cwd
      BY <1>5, <2>1, EntryIsNext
    <2>4. cwd \o <<n>> = Append(cwd, n)
      BY Zenon, <1>1, JoinNames
    <2>5. Kind(remote, Append(cwd, n)) # "link"
      <3>1. Head(todo) \in StraightTask
        BY HeadThenTail DEF Sited, StraightTasks
      <3>2. Kind(remote, Head(todo).at \o Head(todo).arg) # "link"
        BY <1>5, <2>1, <3>1 DEF StraightTask
      <3> QED
        BY Zenon, <2>2, <2>3, <2>4, <3>2
    <2>6. cwd' = Append(cwd, n)
      BY <1>5, <2>2, <2>5 DEF DoneWell, Follow
    <2>7. IsPrefix(goal, cwd') /\ cwd' = Head(todo).at \o Head(todo).arg
      BY Zenon, <1>1, <2>1, <2>2, <2>3, <2>4, <2>6, PrefixIs
    <2> QED
      BY Zenon, <1>2, <1>3, <1>4, <2>7, OwnGoesOn
  <1>6. CASE Head(todo).do # "cd"
    BY Zenon, <1>2, <1>3, <1>4, <1>6, OwnGoesOn
  <1> QED
    BY <1>5, <1>6

\* What is retrieved is the file itself.
LEMMA FetchedOn ==
    ASSUME Based, Sited, op.name = "downloadToDir", goal \in Seq(Names), Inside, todo # <<>>,
           Fetching, DoneWell, goal' = goal
    PROVE  Fetching'
  <1>1. Head(todo) \in OwnTask /\ cwd \in Seq(Names) /\ local \in Trees
    BY NextIsSound, InsideIs, PathsAre
  <1>2. Head(todo).do \in {"cd", "cdup", "retr", "return"} /\ remote' = remote
    BY Zenon, <1>1 DEF DoneWell, OwnTask, Removes
  <1>3. Held(todo) = {Head(todo)} \cup Held(todo')
    BY NextIsSound, HeldIs DEF DoneWell
  <1>4. CASE Head(todo).do # "retr"
    <2>1. local' = local /\ \A f : ~Fetches(Head(todo), f)
      BY <1>2, <1>4 DEF DoneWell, Fetches
    <2>2. Wanted' = Wanted /\ \A f : Fetched(f)' = Fetched(f)
      BY <1>2, <2>1 DEF Wanted, Fetched
    <2>3. \A f \in Wanted : Fetched(f) \/ \E task \in Held(todo') : Fetches(task, f)
      BY <1>3, <2>1 DEF Fetching
    <2> QED
      BY Zenon, <2>2, <2>3 DEF Fetching, Fetches
  <1>5. CASE Head(todo).do = "retr"
    <2>1. PICK n \in Names : Head(todo).arg = <<n>> /\ Target = Append(cwd, n)
      BY Zenon, <1>1, <1>5, EntryIsNext DEF OwnTask
    <2>2. Target = goal \o Head(todo).file
      <3>1. goal \o Head(todo).file = Head(todo).at \o Head(todo).arg /\ Head(todo).at = cwd
        BY Zenon, <1>1, <1>5, EntryIsNext DEF OwnTask
      <3>2. cwd \o <<n>> = Append(cwd, n)
        BY Zenon, <1>1, JoinNames
      <3> QED
        BY Zenon, <2>1, <3>1, <3>2
    <2>3. local' = [local EXCEPT ![Head(todo).file] = remote[Target]] /\ Kind(remote, Target) \in FileKinds
      BY <1>5 DEF DoneWell
    <2>4. ASSUME NEW f \in Wanted
          PROVE  Fetched(f)' \/ \E task \in Held(todo') : Fetches(task, f)
      <3>1. CASE f = Head(todo).file
        BY <1>1, <1>2, <2>2, <2>3, <3>1 DEF Fetched, Wanted, Kind, Trees
      <3>2. CASE f # Head(todo).file
        <4>1. local'[f] = local[f] /\ ~Fetches(Head(todo), f)
          BY <1>1, <1>5, <2>3, <3>2 DEF Wanted, Trees, Fetches
        <4> QED
          BY <1>2, <1>3, <4>1 DEF Fetching, Fetched
      <3> QED
        BY <3>1, <3>2
    <2> QED
      BY Zenon, <1>2, <2>4 DEF Fetching, Wanted, Fetches
  <1> QED
    BY <1>4, <1>5

\* A directory is fetched when there is a local one.
LEMMA DirectoryFetched ==
    ASSUME Based, op.name = "downloadToDir", goal \in Seq(Names), Inside, Fetching,
           ensureLocalDirectory
    PROVE  Inside' /\ Fetching'
  <1>1. /\ todo # <<>> /\ Head(todo).do = "download" /\ UNCHANGED <<remote, cwd, op, goal>>
        /\ todo' = <<Task("fetch", <<>>, Head(todo).file, None)>> \o Tail(todo)
        /\ \/ local' = local /\ local[Head(todo).file] # "none"
           \/ local[Head(todo).file] = "none" /\ local' = [local EXCEPT ![Head(todo).file] = "dir"]
    BY DEF ensureLocalDirectory, Replaced, IsNext, server, call
  <1>2. /\ Head(todo) \in OwnTask /\ remote[cwd] = "dir" /\ local \in Trees /\ cwd = goal \o Head(todo).file
        /\ IsPrefix(goal, cwd) /\ Tail(todo) \in LedTasks
    BY <1>1, NextIsSound, InsideIs DEF Listings
  <1>3. PICK g \in Seq(Names) : g = Head(todo).file
    BY Zenon, <1>1, <1>2 DEF OwnTask
  <1>4. PICK fetch \in OwnTask : /\ fetch = Task("fetch", <<>>, g, None)
                                 /\ fetch.do = "fetch" /\ fetch.file = g
    <2>1. g \in Seq(AllParts)
      <3>1. Names \subseteq AllParts
        BY Zenon DEF AllParts, Parts
      <3> QED
        BY Zenon, <3>1, SeqOfMore
    <2>2. PICK task \in SoundTask : task = Task("fetch", <<>>, g, None)
      BY <2>1, InsideTasks
    <2>3. task.do = "fetch" /\ task.at = None /\ task.file = g
      BY <2>2 DEF Task
    <2>4. task \in OwnTask
      BY Zenon, <2>3 DEF OwnTask, Removes
    <2> QED
      BY <2>2, <2>3, <2>4
  <1>5. Tail(todo) \in Seq(OwnTask)
    BY Zenon, <1>2 DEF LedTasks
  <1>6. todo' # <<>> /\ Head(todo') = fetch /\ Tail(todo') = Tail(todo)
    <2>1. todo' = <<fetch>> \o Tail(todo)
      BY Zenon, <1>1, <1>3, <1>4
    <2> QED
      BY Zenon, <1>5, <2>1, HeadOfAbsolute
  <1>7. Inside'
    <2>1. FilesStay
      BY <1>1, <1>2 DEF FilesStay, Trees, FileKinds
    <2>2. fetch \in OwnTask' /\ Tail(todo) \in LedTasks'
      BY <1>1, <1>2, <2>1, OwnStill
    <2> QED
      BY Zenon, <1>1, <1>2, <1>3, <1>4, <1>6, <2>2 DEF Inside, Listings
  <1>8. Held(todo) = {Head(todo)} \cup Held(Tail(todo)) /\ Held(todo') = {fetch} \cup Held(Tail(todo))
    <2>1. /\ \A s, t \in Seq(Tasks) : Held(s \o t) = Held(s) \cup Held(t)
          /\ \A s \in Seq(Tasks) : s # <<>> => Held(s) = {Head(s)} \cup Held(Tail(s))
          /\ \A x \in Tasks : Held(<<x>>) = {x}
      BY HeldIs
    <2>2. todo \in Seq(Tasks) /\ Tail(todo) \in Seq(Tasks)
      BY <1>1, NextIsSound, SoundAreTasks
    <2>3. fetch \in Tasks /\ <<fetch>> \in Seq(Tasks)
      <3>1. fetch \in SoundTask
        BY Zenon DEF OwnTask
      <3>2. fetch \in Tasks
        BY <3>1, SoundAreTasks
      <3> QED
        BY <3>2
    <2>4. todo' = <<fetch>> \o Tail(todo)
      BY Zenon, <1>1, <1>3, <1>4
    <2> QED
      BY ZenonT(60), <1>1, <2>1, <2>2, <2>3, <2>4
  <1>9. ASSUME NEW f \in Wanted
        PROVE  Fetched(f)' \/ \E task \in Held(todo') : Fetches(task, f)
    <2>1. CASE Fetched(f)
      BY <1>1, <1>2, <2>1 DEF Fetched, Wanted, Trees, FileKinds
    <2>2. CASE \E task \in Held(Tail(todo)) : Fetches(task, f)
      BY <1>8, <2>2
    <2>3. CASE Fetches(Head(todo), f)
      <3>1. PICK r \in Seq(Names) : f = g \o r
        BY Zenon, <1>1, <1>3, <2>3 DEF Fetches
      <3>2. CASE r = <<>>
        <4>1. f = g
          BY Zenon, <1>3, <3>1, <3>2, JoinNames
        <4> QED
          BY <1>1, <1>2, <1>3, <4>1 DEF Fetched, Wanted, Trees, FileKinds
      <3>3. CASE r # <<>>
        <4>1. Head(r) \in Names /\ Tail(r) \in Seq(Names) /\ r = <<Head(r)>> \o Tail(r)
          BY <3>3, HeadThenTail
        <4>2. g \o (<<Head(r)>> \o Tail(r)) = Append(g, Head(r)) \o Tail(r)
          <5>1. PICK h \in Names, t \in Seq(Names) : h = Head(r) /\ t = Tail(r)
            BY Zenon, <4>1
          <5>2. g \o (<<h>> \o t) = (g \o <<h>>) \o t /\ g \o <<h>> = Append(g, h)
            BY JoinNames
          <5> QED
            BY Zenon, <5>1, <5>2
        <4> QED
          BY Zenon, <1>4, <1>8, <3>1, <4>1, <4>2 DEF Fetches
      <3> QED
        BY <3>2, <3>3
    <2> QED
      BY <1>8, <2>1, <2>2, <2>3 DEF Fetching
  <1> QED
    BY Zenon, <1>1, <1>7, <1>9 DEF Fetching, Wanted, Fetches

\* Every entry of a directory is fetched, and so is what is in it.
LEMMA EntriesFetched ==
    ASSUME Based, op.name = "downloadToDir", goal \in Seq(Names), style = "dos" => Listable(remote),
           Inside, Fetching, _downloadFromWorkingDir
    PROVE  Inside' /\ Fetching'
  <1>1. /\ todo # <<>> /\ Head(todo).do = "fetch" /\ Understood(Listed(cwd))
        /\ UNCHANGED <<remote, cwd, local, op, goal>>
        /\ todo' = FlattenSeq([i \in 1 .. Len(Files) |-> Downloaded(Files[i])]) \o Tail(todo)
    BY DEF _downloadFromWorkingDir, ForEachListed, Replaced, IsNext, server, call
  <1>2. /\ Head(todo) \in OwnTask /\ cwd \in Paths /\ cwd \in Seq(Names)
        /\ IsPrefix(goal, cwd) /\ Tail(todo) \in LedTasks /\ cwd = goal \o Head(todo).file
        /\ Tail(todo) \in Seq(Tasks) /\ todo \in Seq(Tasks)
    BY <1>1, NextIsSound, InsideIs, PathsAre, SoundAreTasks DEF Listings
  <1>3. Listing /\ IsTree(remote)
    BY DEF Based, HomeInv, Placed, Listing
  <1>4. PICK g \in Seq(Names) : g = Head(todo).file /\ g \in Seq(AllParts)
    <2>1. Names \subseteq AllParts
      BY Zenon DEF AllParts, Parts
    <2> QED
      BY Zenon, <1>1, <1>2, <2>1, SeqOfMore DEF OwnTask
  <1>5. Files \in OwnFiles /\ Len(Files) \in Nat /\ Files \in FileList
    BY <1>1, <1>2, <1>3, FilesAreOwn, FilesType DEF Listing, OwnFiles
  <1>6. Inside'
    <2> DEFINE tasks == [i \in 1 .. Len(Files) |-> Downloaded(Files[i])]
    <2>1. \A file \in OwnFile : Downloaded(file) \in LedTasks
      BY <1>2, <1>4, DownloadedIs
    <2>2. tasks \in [1 .. Len(Files) -> LedTasks]
      BY <1>5, <2>1 DEF OwnFiles
    <2>3. todo' = FlattenSeq(tasks) \o Tail(todo)
      BY <1>1
    <2> HIDE DEF tasks
    <2>4. FlattenSeq(tasks) \in LedTasks
      BY <1>5, <2>2, FlattenIsLed
    <2>5. todo' \in LedTasks
      BY Zenon, <1>2, <2>3, <2>4, LedTasksAre
    <2> QED
      BY <1>1, <2>5, OwnStill DEF FilesStay, Inside
  <1>7. PICK h \in Replacing(File, Tasks) : h = [file \in File |-> Downloaded(file)]
    BY Zenon, <1>1, <1>2, <1>4, DownloadedType, InnerAreTasks DEF Replacing
  <1>8. todo' = FlattenSeq([i \in 1 .. Len(Files) |-> h[Files[i]]]) \o Tail(todo)
    <2>1. \A i \in 1 .. Len(Files) : h[Files[i]] = Downloaded(Files[i])
      BY <1>5, <1>7 DEF FileList
    <2> QED
      BY Zenon, <1>1, <2>1
  <1>9. Held(todo) = {Head(todo)} \cup Held(Tail(todo))
    BY <1>1, <1>2, HeldIs
  <1>10. ASSUME NEW f \in Wanted, Fetches(Head(todo), f)
         PROVE  \E task \in Held(todo') : Fetches(task, f)
    <2>1. PICK n \in Names, r \in Seq(Names) : f = Append(g, n) \o r
      BY Zenon, <1>1, <1>4, <1>10 DEF Fetches
    <2>2. PICK q \in Seq(Names) : q = Append(cwd, n) /\ q # <<>> /\ Parent(q) = cwd /\ Last(q) = n
      <3>1. Append(cwd, n) \in Seq(Names) /\ Last(Append(cwd, n)) = n
        BY Zenon, <1>2, JoinNames
      <3>2. Append(cwd, n) # <<>> /\ Parent(Append(cwd, n)) = cwd
        BY Zenon, <1>2, AppendIsNew
      <3> QED
        BY Zenon, <3>1, <3>2
    <2>3. goal \o f = q \o r
      <3>1. PICK gn \in Seq(Names) : gn = Append(g, n)
        BY Zenon, JoinNames
      <3>2. goal \o (gn \o r) = (goal \o gn) \o r
        BY SMTT(30), JoinNames
      <3>3. goal \o gn = q
        <4>1. Append(goal \o g, n) = goal \o Append(g, n)
          BY Zenon, AppendNames
        <4> QED
          BY Zenon, <1>2, <1>4, <2>2, <3>1, <4>1
      <3> QED
        BY Zenon, <2>1, <3>1, <3>2, <3>3
    <2>4. q \o r \in Paths /\ remote[q \o r] \in FileKinds \cup {"dir"} /\ remote[q \o r] # "none"
      BY Zenon, <2>3 DEF Wanted, FileKinds
    <2>5. q \in Children(remote, cwd) /\ (r # <<>> => remote[q] = "dir")
      <3>1. PICK tree : tree = remote
        OBVIOUS
      <3>2. InDirectories(tree) /\ q \o r \in Paths /\ tree[q \o r] # "none"
        BY <1>3, <2>4, <3>1 DEF IsTree, InDirectories
      <3>3. q \in Paths /\ tree[q] # "none" /\ (r # <<>> => tree[q] = "dir")
        BY ZenonT(60), <2>1, <2>2, <3>2, AncestorIsThere
      <3> QED
        BY <2>2, <3>1, <3>3 DEF Children
    <2>6. PICK x \in OwnFile :
              /\ x.name = <<n>>
              /\ (isDirectory(x) <=> remote[q] = "dir") /\ (remote[q] \in FileKinds => isFile(x))
              /\ Held(h[x]) \subseteq Held(todo')
      BY ZenonT(60), <1>1, <1>2, <1>3, <1>8, <2>2, <2>5, ListingHolds
    <2>7. h[x] = Downloaded(x)
      BY <1>7 DEF OwnFile
    <2>8. PICK m \in Names :
              /\ x.name = <<m>>
              /\ isDirectory(x) => \E task \in Held(Downloaded(x)) :
                      task.do = "download" /\ task.file = Append(g, m)
              /\ isFile(x) => \E task \in Held(Downloaded(x)) :
                      task.do = "retr" /\ task.file = Append(g, m)
      BY <1>2, <1>4, DownloadedIs
    <2>9. m = n
      BY <2>6, <2>8, OneIsOne
    <2>10. CASE remote[q] = "dir"
      BY Zenon, <2>1, <2>6, <2>7, <2>8, <2>9, <2>10 DEF Fetches
    <2>11. CASE remote[q] # "dir"
      <3>1. r = <<>>
        BY <2>5, <2>11
      <3>2. q \o r = q /\ f = Append(g, n)
        BY Zenon, <2>1, <3>1, JoinNames
      <3>3. remote[q] \in FileKinds
        BY <2>4, <2>11, <3>2
      <3> QED
        BY <2>6, <2>7, <2>8, <2>9, <3>2, <3>3 DEF Fetches
    <2> QED
      BY <2>10, <2>11
  <1>11. ASSUME NEW task \in Held(Tail(todo))
         PROVE  task \in Held(todo')
    <2>1. FlattenSeq([i \in 1 .. Len(Files) |-> h[Files[i]]]) \in Seq(Tasks)
      <3>1. \A i \in 1 .. Len(Files) : h[Files[i]] \in Seq(Tasks)
        BY <1>5 DEF FileList, Replacing
      <3> QED
        BY <1>5, <3>1, FlattenType
    <2>2. \A s, t \in Seq(Tasks) : Held(s \o t) = Held(s) \cup Held(t)
      BY HeldIs
    <2> QED
      BY Zenon, <1>2, <1>8, <2>1, <2>2
  <1>12. ASSUME NEW f \in Wanted
         PROVE  Fetched(f) \/ \E task \in Held(todo') : Fetches(task, f)
    BY <1>9, <1>10, <1>11 DEF Fetching
  <1>13. Wanted' = Wanted /\ \A f : Fetched(f)' = Fetched(f)
    BY <1>1 DEF Wanted, Fetched
  <1> QED
    BY Zenon, <1>6, <1>12, <1>13 DEF Fetching, Fetches

-----------------------------------------------------------------------------
(* Success of downloads *)

\* downloadToDir as long as it has not failed.
Downloading ==
    \/ /\ goal = Follow(Walk(op.arg))
       /\ todo = <<Pwd>> \o ToDown \/ (op.arg # <<>> /\ todo = ToDown)
    \/ Inside /\ Fetching

Obtaining == op.name = "downloadToDir" /\ result = "ok" => Downloading

LEMMA ToDownIs ==
    /\ Excursion(GoTo(op.arg) \o <<Down>>) = <<Pwd>> \o ToDown
    /\ <<Pwd>> \o ToDown # <<>> /\ Head(<<Pwd>> \o ToDown) = Pwd /\ Tail(<<Pwd>> \o ToDown) = ToDown
    /\ ToDown # <<>>
    /\ op.arg # <<>> => Head(ToDown) = ToTarget /\ Tail(ToDown) = <<Down, Return>>
    /\ <<Down, Return>> # <<>> /\ Head(<<Down, Return>>) = Down /\ Tail(<<Down, Return>>) = <<Return>>
    /\ Down \in Held(<<Down, Return>>)
  <1>1. PICK S : S = {Pwd, ToTarget, Down, Return}
    BY Zenon
  <1>2. Pwd \in S /\ Down \in S /\ Return \in S /\ ToTarget \in S
    BY <1>1
  <1>3. PICK goes \in Seq(S) : goes = IF op.arg = <<>> THEN <<>> ELSE <<ToTarget>>
    <2>1. <<>> \in Seq(S) /\ <<ToTarget>> \in Seq(S)
      BY <1>2
    <2> QED
      BY Zenon, <2>1
  <1>4. PICK both : both = <<Down, Return>>
    BY Zenon
  <1>5. /\ both # <<>> /\ Head(both) = Down /\ Tail(both) = <<Return>> /\ Down \in Held(both)
        /\ <<>> \o both = both
    BY <1>4 DEF Held
  <1>6. GoTo(op.arg) = goes /\ ToDown = goes \o both
    BY Zenon, <1>3, <1>4, <1>5 DEF GoTo, ToTarget, ToDown
  <1>7. Excursion(goes \o <<Down>>) = (<<Pwd>> \o (goes \o <<Down>>)) \o <<Return>>
    BY Zenon DEF Excursion, Pwd, Return
  <1>8. op.arg # <<>> => goes # <<>> /\ Head(goes) = ToTarget /\ Tail(goes) \o both = both
    BY Zenon, <1>3, <1>5, HeadOfOne
  <1>9. goes \in Seq(S)
    OBVIOUS
  <1>10. \A p, u, r \in S, s \in Seq(S) : Surrounded(p, s, u, r)
    BY Around
  <1>11. Surrounded(Pwd, goes, Down, Return)
    BY Zenon, <1>2, <1>9, <1>10
  <1> QED
    BY Zenon, <1>4, <1>5, <1>6, <1>7, <1>8, <1>11 DEF Surrounded

\* In the directory, everything is still to fetch.
LEMMA DownStarts ==
    op.name = "downloadToDir" /\ cwd \in Paths /\ goal = cwd /\ todo = <<Down, Return>> =>
        Inside /\ Fetching
  <1> SUFFICES ASSUME op.name = "downloadToDir", cwd \in Paths, goal = cwd, todo = <<Down, Return>>
               PROVE  Inside /\ Fetching
    OBVIOUS
  <1>1. cwd \in Seq(Names) /\ <<>> \in Seq(Names)
    BY PathsAre
  <1>2. PICK down, back \in Tasks : down = Down /\ back = Return
    BY PathIsParts, TaskType, InnerAreTasks, ReturnIsTask DEF Commands, Down
  <1>3. /\ down.do = "download" /\ down.at = None /\ down.file = <<>>
        /\ back.do = "return" /\ back.at = None
    BY <1>2 DEF Down, Return, Command, Task
  <1>4. down \in OwnTask /\ back \in OwnTask
    BY Zenon, <1>1, <1>3 DEF OwnTask, SoundTask, Removes
  <1>5. Inside
    <2>1. <<back>> \in LedTasks
      BY <1>3, <1>4, FewAreLed DEF Listings
    <2>2. todo # <<>> /\ Head(todo) = down /\ Tail(todo) = <<back>>
      BY Zenon, <1>2, ToDownIs
    <2>3. IsPrefix(goal, cwd) /\ cwd = goal \o <<>>
      BY <1>1, PrefixIs, JoinNames
    <2> QED
      BY Zenon, <1>3, <1>4, <2>1, <2>2, <2>3 DEF Inside, Listings
  <1>6. ASSUME NEW f \in Paths
        PROVE  Fetches(Down, f)
    <2>1. f \in Seq(Names) /\ f = <<>> \o f
      BY PathsAre, JoinNames
    <2> QED
      BY <1>2, <1>3, <2>1 DEF Fetches
  <1> QED
    BY <1>5, <1>6, ToDownIs DEF Fetching, Wanted

\* downloadToDir goes to the directory that its path leads to.
LEMMA DownloadApproaches ==
    ASSUME Based, op \in Operations, op.name = "downloadToDir", goal = Follow(Walk(op.arg)),
           todo = <<Pwd>> \o ToDown \/ (op.arg # <<>> /\ todo = ToDown),
           result' = "ok", [DirectoryNext]_vars
    PROVE  Downloading'
  <1>1. /\ todo # <<>> /\ Head(todo).do \in {"pwd", "cd"}
        /\ Head(todo).do = "pwd" => Tail(todo) = ToDown
        /\ Head(todo).do = "cd" => op.arg # <<>> /\ Head(todo).arg = op.arg /\ Tail(todo) = <<Down, Return>>
    BY Zenon, ToDownIs, WayIs
  <1>2. op' = op /\ goal' = goal /\ (Idle \/ DoneWell \/ Loops)
    BY <1>1, GoesWell
  <1>3. ToDown' = ToDown /\ cwd \in Paths /\ remote[cwd] = "dir"
    BY <1>1, <1>2, NextIsSound DEF ToDown, ToTarget
  <1>4. ASSUME cwd' \in Paths, goal = cwd', todo' = <<Down, Return>>
        PROVE  Downloading'
    <2>1. (op.name = "downloadToDir" /\ cwd \in Paths /\ goal = cwd /\ todo = <<Down, Return>> =>
               Inside /\ Fetching)'
      BY DownStarts, PTL
    <2> QED
      BY <1>2, <1>4, <2>1 DEF Downloading
  <1>5. ASSUME remote' = remote, cwd' = cwd, todo' = todo \/ (op.arg # <<>> /\ todo' = ToDown)
        PROVE  Downloading'
    <2>1. Follow(Walk(op.arg))' = Follow(Walk(op.arg))
      BY Zenon, <1>2, <1>5 DEF Follow, Walk
    <2> QED
      BY <1>2, <1>3, <1>5, <2>1 DEF Downloading
  <1>6. CASE Idle
    BY <1>5, <1>6 DEF Idle
  <1>7. CASE DoneWell /\ Head(todo).do = "pwd"
    <2>1. remote' = remote /\ cwd' = cwd /\ todo' = ToDown
      BY <1>1, <1>7 DEF DoneWell
    <2>2. op.arg = <<>> => goal = cwd /\ ToDown = <<Down, Return>>
      BY <1>3, FollowHere DEF ToDown
    <2> QED
      BY <1>3, <1>4, <1>5, <2>1, <2>2
  <1>8. CASE DoneWell /\ Head(todo).do = "cd"
    <2>1. Target = Walk(op.arg)
      BY <1>1, <1>8, FindsGoal
    <2>2. cwd' = goal /\ Kind(remote, cwd') # "none" /\ todo' = <<Down, Return>>
      BY <1>1, <1>8, <2>1 DEF DoneWell
    <2> QED
      BY <1>4, <2>2, KindIs
  <1>9. ~Loops
    BY <1>1, LoopIsNext DEF Listings
  <1> QED
    BY <1>1, <1>2, <1>6, <1>7, <1>8, <1>9

\* A download fetches, or has still to fetch, everything as long as it has not
\* failed.
LEMMA DownloadGoesOn ==
    ASSUME Based, Sited, op.name = "downloadToDir", goal \in Seq(Names), remote' = remote,
           style = "dos" => Listable(remote), Inside, Fetching, todo # <<>>,
           result' = "ok", [DirectoryNext]_vars
    PROVE  Downloading'
  <1>1. op' = op /\ goal' = goal /\ (Idle \/ DoneWell \/ Loops)
    BY GoesWell
  <1>2. CASE Idle
    <2>1. Inside'
      BY <1>1, <1>2, OwnStill DEF Idle, FilesStay, Inside
    <2>2. UNCHANGED <<remote, local, todo, goal>>
      BY <1>1, <1>2 DEF Idle
    <2>3. Fetching' <=> Fetching
      BY <2>2 DEF Fetching, Fetched, Fetches, Wanted
    <2> QED
      BY <2>1, <2>3 DEF Downloading
  <1>3. CASE DoneWell
    BY <1>1, <1>3, GoesOnInside, FetchedOn DEF Downloading
  <1>4. CASE Loops
    <2>1. Head(todo).do \in {"download", "fetch"}
      <3>1. Head(todo) \in OwnTask
        BY InsideIs
      <3> QED
        BY Zenon, <1>4, <3>1, LoopIsNext DEF OwnTask, Removes, Listings
    <2> QED
      BY <1>4, <2>1, LoopIsNext, DirectoryFetched, EntriesFetched DEF Downloading
  <1> QED
    BY <1>1, <1>2, <1>3, <1>4

LEMMA ObtainingNext ==
    ASSUME DirectoryInv, Plain, Owned, Obtaining, [DirectoryNext]_vars
    PROVE  Obtaining'
  <1>1. Based /\ op \in Operations \cup {NoOperation} /\ (op.name # "uploadFromDir" => Sited)
    BY DEF DirectoryInv, Typed
  <1>2. CASE \E o \in Operations : Begin(o)
    <2>1. PICK o \in Operations : Begin(o)
      BY <1>2
    <2> SUFFICES ASSUME o.name = "downloadToDir"
                 PROVE  Downloading'
      BY <2>1 DEF Begin, Obtaining
    <2>2. op' = o /\ remote' = remote /\ cwd' = cwd /\ todo' = Plan(o) /\ goal' = Follow(Walk(o.arg))
      BY <2>1 DEF Begin, server
    <2>3. Follow(Walk(op.arg))' = Follow(Walk(o.arg))
      BY Zenon, <2>2 DEF Follow, Walk
    <2>4. Plan(o) = Excursion(GoTo(o.arg) \o <<Down>>)
      BY DEF Plan, Down, GoTo
    <2>5. (Excursion(GoTo(op.arg) \o <<Down>>) = <<Pwd>> \o ToDown)'
      BY ToDownIs, PTL
    <2>6. todo' = (<<Pwd>> \o ToDown)'
      BY Zenon, <2>2, <2>4, <2>5
    <2> QED
      BY Zenon, <2>2, <2>3, <2>6 DEF Downloading
  <1>3. CASE todo = <<>> /\ ~\E o \in Operations : Begin(o)
    <2>1. CASE Reconnects
      BY <2>1 DEF Reconnects, NoOperation, Obtaining
    <2>2. CASE UNCHANGED vars
      <3>1. UNCHANGED <<remote, cwd, local, op, goal, todo, result>>
        BY <2>2 DEF vars, server, call
      <3>2. Fetching' <=> Fetching
        BY <3>1 DEF Fetching, Fetched, Fetches, Wanted
      <3>3. Inside'
        BY <1>3, <3>1, FewAreLedNext DEF Inside
      <3> QED
        BY Zenon, <1>3, <3>1, <3>2, <3>3, ToDownIs DEF Obtaining, Downloading
    <2> QED
      BY <1>3, <2>1, <2>2, NothingToDo
  <1>4. CASE todo # <<>> /\ ~\E o \in Operations : Begin(o)
    <2> SUFFICES ASSUME result' = "ok", op'.name = "downloadToDir"
                 PROVE  Downloading'
      BY DEF Obtaining
    <2>1. op' = op /\ result = "ok"
      BY <1>1, <1>4, GoesWell
    <2>2. Downloading /\ Sited /\ op \in Operations
      BY <1>1, <2>1 DEF Obtaining, NoOperation
    <2>3. CASE Inside /\ Fetching
      <3>1. remote' = remote
        BY <1>1, <1>4, <2>1, QuietNext DEF Owned
      <3> QED
        BY <1>1, <1>4, <2>1, <2>2, <2>3, <3>1, DownloadGoesOn DEF Owned, Plain
    <2>4. CASE ~(Inside /\ Fetching)
      BY <1>1, <2>1, <2>2, <2>4, DownloadApproaches DEF Downloading
    <2> QED
      BY <2>3, <2>4
  <1> QED
    BY <1>2, <1>3, <1>4

\* What is below a directory has a path from it.
LEMMA PathFrom ==
    ASSUME NEW g \in Seq(Names), NEW p \in Paths, IsPrefix(g, p)
    PROVE  /\ SubSeq(p, Len(g) + 1, Len(p)) \in Paths
           /\ g \o SubSeq(p, Len(g) + 1, Len(p)) = p
  <1>1. p \in Seq(Names) /\ Len(p) <= Depth /\ Len(p) \in Nat /\ Len(g) \in Nat
    BY PathsAre, DepthIsNat
  <1>2. Len(g) <= Len(p) /\ SubSeq(g, 1, Len(g)) = SubSeq(p, 1, Len(g))
    BY DEF IsPrefix
  <1>3. PICK f \in Seq(Names) :
            f = SubSeq(p, Len(g) + 1, Len(p)) /\ Len(f) = Len(p) - Len(g) /\ g \o f = p
    BY Zenon, <1>1, <1>2, RestOf
  <1>4. Len(f) <= Depth
    BY <1>1, <1>3, DepthIsNat
  <1>5. f \in Paths
    BY Zenon, <1>3, <1>4, PathsAre
  <1> QED
    BY <1>3, <1>5

\* A download that reports no failure has fetched everything: every file at or
\* below the remote directory is in the local one with its content, under the
\* same path, and every directory is there (downloadToDir,
\* _downloadFromWorkingDir, ensureLocalDirectory).
THEOREM DownloadsAreComplete ==
    DirectorySpec => [](op.name = "downloadToDir" => SuccessIsComplete)
  <1>1. DirectoryInit => DirectoryInv /\ Plain /\ Owned /\ Obtaining
    BY DirectoryInvInit, PlainInit, OwnedInit DEF DirectoryInit, NoOperation, Obtaining
  <1>2. DirectoryInv /\ Plain /\ Owned /\ Obtaining /\ [DirectoryNext]_vars =>
            DirectoryInv' /\ Plain' /\ Owned' /\ Obtaining'
    BY DirectoryInvNext, PlainNext, OwnedNext, ObtainingNext DEF DirectoryInv
  <1>3. DirectoryInv /\ Owned /\ Obtaining => (op.name = "downloadToDir" => SuccessIsComplete)
    <2> SUFFICES ASSUME Owned, Obtaining, op.name = "downloadToDir", todo = <<>>, result = "ok"
                 PROVE  SuccessIsComplete
      BY DEF SuccessIsComplete, Finished
    <2>1. goal \in Seq(Names) /\ \A f \in Wanted : Fetched(f)
      BY Zenon, HeldIs, ToDownIs DEF Obtaining, Downloading, Fetching, Owned
    <2>2. ASSUME NEW p \in Paths, IsPrefix(goal, p)
          PROVE  LET to == local[SubSeq(p, Len(goal) + 1, Len(p))]
                 IN  /\ remote[p] \in FileKinds => to = remote[p]
                     /\ remote[p] = "dir" => to # "none"
      <3>1. PICK f : f = SubSeq(p, Len(goal) + 1, Len(p)) /\ f \in Paths /\ goal \o f = p
        BY Zenon, <2>1, <2>2, PathFrom
      <3> QED
        BY Zenon, <2>1, <3>1 DEF Wanted, Fetched
    <2> QED
      BY <2>2 DEF SuccessIsComplete
  <1> QED
    BY <1>1, <1>2, <1>3, PTL DEF DirectorySpec

-----------------------------------------------------------------------------
(* The way to a directory that is made *)

Goes(path, task) ==
    IF task.do = "cd" THEN Fold(IF Head(task.arg) = "" THEN <<>> ELSE path, task.arg) ELSE path

Going == INSTANCE SequenceLemmas WITH Op <- Goes, A <- Seq(Names), B <- OpensTask

\* The tasks make and enter the directories up to the one the operation is about.
Reaches(tasks) == tasks \in OpensTasks /\ Follow(Going!Fold(cwd, tasks)) = goal

Ensuring == op.name = "ensureDir" /\ result = "ok" => Reaches(todo)

LEMMA GoesType == Going!Closed
  <1> SUFFICES ASSUME NEW path \in Seq(Names), NEW task \in OpensTask
               PROVE  Goes(path, task) \in Seq(Names)
    BY Zenon DEF Going!Closed, Going!ClosedOn
  <1>1. CASE task.do = "cd"
    <2>1. PICK arg \in Seq(Parts) : arg = task.arg
      BY <1>1 DEF OpensTask
    <2>2. PICK base \in Seq(Names) : base = IF Head(arg) = "" THEN <<>> ELSE path
      <3>1. <<>> \in Seq(Names)
        OBVIOUS
      <3> QED
        BY Zenon, <3>1
    <2>3. Fold(base, arg) \in Seq(Names)
      BY Zenon, StepIs, FoldType
    <2> QED
      BY Zenon, <1>1, <2>1, <2>2, <2>3 DEF Goes
  <1>2. CASE task.do # "cd"
    BY <1>2 DEF Goes
  <1> QED
    BY <1>1, <1>2

\* A directory is opened with two tasks, which lead into it.
LEMMA OpenedDirectory ==
    ASSUME NEW path \in Seq(Names), NEW tasks \in OpensTasks, NEW name \in Parts
    PROVE  /\ OpenDir(tasks, name) \in OpensTasks
           /\ Going!Fold(path, OpenDir(tasks, name)) = Step(Going!Fold(path, tasks), name)
  <1>1. Going!Fold(path, tasks) \in Seq(Names)
    BY Zenon, GoesType, Going!FoldType DEF OpensTasks
  <1>2. CASE name = ""
    BY Zenon, <1>1, <1>2, StepIs DEF OpenDir
  <1>3. CASE name # ""
    <2>1. PICK one \in Seq(Parts) : one = <<name>> /\ one # <<>> /\ Head(one) = name
      BY Zenon, FewKnown, HeadOfOne
    <2>2. one \in Seq(AllParts)
      <3>1. Parts \subseteq AllParts
        BY DEF AllParts
      <3> QED
        BY Zenon, <3>1, SeqOfMore
    <2>3. PICK mkd, cd \in OpensTask :
              /\ mkd = Command("mkd", <<name>>) /\ cd = Command("cd", <<name>>)
              /\ mkd.do = "mkd" /\ cd.do = "cd" /\ cd.arg = one
      <3>1. Command("mkd", one) \in Tasks /\ Command("cd", one) \in Tasks
        BY <2>2, TaskType, InnerAreTasks DEF Commands
      <3>2. /\ Command("mkd", one).do = "mkd"
            /\ Command("cd", one).do = "cd" /\ Command("cd", one).arg = one
        BY DEF Command, Task
      <3>3. Command("mkd", one) \in OpensTask /\ Command("cd", one) \in OpensTask
        BY Zenon, <2>1, <3>1, <3>2 DEF OpensTask
      <3> QED
        BY <2>1, <3>2, <3>3
    <2>12. \A S : \A t \in Seq(S), x \in S : Append(t, x) \in Seq(S)
      OBVIOUS
    <2>4. PICK some \in OpensTasks : some = Append(tasks, mkd)
      BY Zenon, <2>12 DEF OpensTasks
    <2>5. PICK more \in OpensTasks : more = Append(some, cd)
      BY Zenon, <2>12 DEF OpensTasks
    <2>6. OpenDir(tasks, name) = more
      <3>1. OpenDir(tasks, name) = tasks \o <<mkd, cd>>
        BY Zenon, <1>3, <2>3 DEF OpenDir
      <3>2. tasks \o <<mkd, cd>> = Append(Append(tasks, mkd), cd)
        BY DEF OpensTasks
      <3> QED
        BY Zenon, <2>4, <2>5, <3>1, <3>2
    <2>7. Going!Fold(path, some) = Goes(Going!Fold(path, tasks), mkd)
      BY Zenon, <2>4, GoesType, Going!FoldAppend DEF OpensTasks
    <2>8. Going!Fold(path, more) = Goes(Going!Fold(path, some), cd)
      BY Zenon, <2>5, GoesType, Going!FoldAppend DEF OpensTasks
    <2>9. Goes(Going!Fold(path, tasks), mkd) = Going!Fold(path, tasks)
      BY Zenon, <2>3 DEF Goes
    <2>10. Goes(Going!Fold(path, tasks), cd) = Fold(Going!Fold(path, tasks), <<name>>)
      BY Zenon, <1>3, <2>1, <2>3 DEF Goes
    <2>11. Fold(Going!Fold(path, tasks), <<name>>) = Step(Going!Fold(path, tasks), name)
      BY Zenon, <1>1, StepIs, FoldOne
    <2> QED
      BY Zenon, <2>6, <2>7, <2>8, <2>9, <2>10, <2>11
  <1> QED
    BY Zenon, <1>2, <1>3

\* ensureDir leads to where its path does.
LEMMA EnsureDirReaches ==
    ASSUME cwd \in Paths, NEW arg \in Seq(Parts), arg # <<>>
    PROVE  /\ ensureDir(arg) \in OpensTasks
           /\ Going!Fold(cwd, ensureDir(arg)) = Walk(arg)
  <1>1. cwd \in Seq(Names) /\ <<>> \in Seq(Names)
    BY PathsAre
  <1>2. PICK slash \in Parts : slash = ""
    BY Zenon DEF Parts
  <1>12. /\ <<slash>> \o <<slash>> = <<slash, slash>> /\ <<slash, slash>> # <<>>
         /\ Head(<<slash, slash>>) = slash
    <2>1. <<slash>> \in Seq(Parts)
      BY Zenon, FewKnown
    <2> QED
      BY Zenon, <2>1, OneThenOther, HeadOfAbsolute
  <1>3. PICK root \in OpensTask :
            root = Command("cd", <<"", "">>) /\ root.do = "cd" /\ root.arg = <<slash, slash>>
    <2>1. PICK twice \in Seq(Parts) : twice = <<slash, slash>> /\ twice # <<>>
      BY Zenon, FewKnown, <1>12
    <2>2. twice \in Seq(AllParts)
      <3>1. Parts \subseteq AllParts
        BY DEF AllParts
      <3> QED
        BY Zenon, <3>1, SeqOfMore
    <2>3. Command("cd", twice) \in Tasks
      BY <2>2, TaskType, InnerAreTasks DEF Commands
    <2>4. Command("cd", twice).do = "cd" /\ Command("cd", twice).arg = twice
      BY DEF Command, Task
    <2> QED
      BY Zenon, <1>2, <2>1, <2>3, <2>4 DEF OpensTask
  <1>4. PICK first \in OpensTasks :
            first = IF Head(arg) = "" THEN <<Command("cd", <<"", "">>)>> ELSE <<>>
    <2>1. <<root>> \in OpensTasks /\ <<>> \in OpensTasks
      BY DEF OpensTasks
    <2> QED
      BY Zenon, <1>3, <2>1
  <1>5. PICK begin \in Seq(Names) : begin = IF Head(arg) = "" THEN <<>> ELSE cwd
    BY Zenon, <1>1
  <1>6. Going!Fold(cwd, first) = begin
    <2>1. CASE Head(arg) = ""
      <3>1. Going!Fold(cwd, <<root>>) = Goes(cwd, root)
        BY Zenon, <1>1, GoesType, Going!FoldOne
      <3>2. Goes(cwd, root) = Fold(<<>>, <<slash, slash>>)
        BY Zenon, <1>2, <1>3, <1>12 DEF Goes
      <3>3. Fold(<<>>, <<slash, slash>>) = <<>>
        <4>1. <<slash>> \in Seq(Parts) /\ <<slash>> \o <<slash>> = <<slash, slash>>
          BY Zenon, FewKnown, <1>12
        <4>2. Fold(<<>>, <<slash>> \o <<slash>>) = Fold(Fold(<<>>, <<slash>>), <<slash>>)
          BY Zenon, <1>1, <4>1, StepIs, FoldConcat
        <4>3. Fold(<<>>, <<slash>>) = Step(<<>>, slash) /\ Step(<<>>, slash) = <<>>
          BY Zenon, <1>1, <1>2, StepIs, FoldOne
        <4> QED
          BY Zenon, <4>1, <4>2, <4>3
      <3> QED
        BY Zenon, <1>3, <1>4, <1>5, <2>1, <3>1, <3>2, <3>3
    <2>2. CASE Head(arg) # ""
      BY Zenon, <1>1, <1>4, <1>5, <2>2, GoesType, Going!FoldEmpty
    <2> QED
      BY Zenon, <2>1, <2>2
  <1>13. first \in InnerTasks
    <2>1. OpensTask \subseteq InnerTask
      BY DEF OpensTask, InnerTask
    <2> QED
      BY Zenon, <2>1, SeqOfMore DEF OpensTasks, InnerTasks
  <1> DEFINE S == {s \in Seq(Parts) :
                      /\ Opening!Fold(first, s) \in OpensTasks
                      /\ Going!Fold(cwd, Opening!Fold(first, s)) = Fold(begin, s)}
  <1>7. <<>> \in S
    <2>1. Opening!Fold(first, <<>>) = first
      BY Zenon, <1>13, OpenDirStays, Opening!FoldEmpty
    <2>2. Fold(begin, <<>>) = begin
      BY Zenon, StepIs, FoldEmpty
    <2> QED
      BY <1>6, <2>1, <2>2
  <1>8. ASSUME NEW s \in Seq(Parts), NEW name \in Parts, s \in S
        PROVE  Append(s, name) \in S
    <2>1. Opening!Fold(first, Append(s, name)) = OpenDir(Opening!Fold(first, s), name)
      BY Zenon, <1>13, OpenDirStays, Opening!FoldAppend
    <2>2. Fold(begin, Append(s, name)) = Step(Fold(begin, s), name)
      BY Zenon, StepIs, FoldAppend
    <2>3. PICK tasks \in OpensTasks :
              tasks = Opening!Fold(first, s) /\ Going!Fold(cwd, tasks) = Fold(begin, s)
      BY <1>8
    <2>4. /\ OpenDir(tasks, name) \in OpensTasks
          /\ Going!Fold(cwd, OpenDir(tasks, name)) = Step(Going!Fold(cwd, tasks), name)
      BY <1>1, OpenedDirectory
    <2>5. Append(s, name) \in Seq(Parts)
      OBVIOUS
    <2> QED
      BY Zenon, <2>1, <2>2, <2>3, <2>4, <2>5
  <1>9. arg \in S
    <2> HIDE DEF S
    <2> QED
      BY Zenon, <1>7, <1>8, SeqInduction
  <1>10. ensureDir(arg) = Opening!Fold(first, arg)
    <2>1. FoldLeft(OpenDir, first, arg) = Opening!Fold(first, arg)
      BY Zenon DEF FoldLeft, MapThenFoldSet, Max, Opening!Fold, Opening!Greatest
    <2> QED
      BY Zenon, <1>4, <2>1 DEF ensureDir
  <1>11. Walk(arg) = Fold(begin, arg)
    BY Zenon, <1>5, WalkFolds
  <1> QED
    BY <1>9, <1>10, <1>11

\* Where the next of the tasks ends, the others go on from.
LEMMA ReachesOn ==
    ASSUME Based, NEW tasks \in OpensTasks, tasks # <<>>, Reaches(tasks), todo # <<>>,
           Head(todo) = Head(tasks), DoneWell, goal' = goal,
           Tail(tasks) # <<>> /\ Head(todo).do = "cd" => Kind(remote, Target) # "link"
    PROVE  Tail(tasks) \in OpensTasks /\ Reaches(Tail(tasks))'
  <1>1. cwd \in Paths /\ cwd \in Seq(Names) /\ remote \in Trees
    BY NextIsSound, PathsAre
  <1>2. PICK task \in OpensTask, rest \in OpensTasks :
            tasks = <<task>> \o rest /\ task = Head(tasks) /\ rest = Tail(tasks)
    BY Zenon, HeadThenTail DEF OpensTasks
  <1>3. Goes(cwd, task) \in Seq(Names)
    BY Zenon, <1>1, GoesType DEF Going!Closed, Going!ClosedOn
  <1>4. Going!Fold(cwd, tasks) = Going!Fold(Goes(cwd, task), rest)
    <2>1. <<task>> \in Seq(OpensTask)
      OBVIOUS
    <2>2. Going!Fold(cwd, <<task>> \o rest) = Going!Fold(Going!Fold(cwd, <<task>>), rest)
      BY Zenon, <1>1, <2>1, GoesType, Going!FoldConcat DEF OpensTasks
    <2>3. Going!Fold(cwd, <<task>>) = Goes(cwd, task)
      BY Zenon, <1>1, GoesType, Going!FoldOne
    <2> QED
      BY Zenon, <1>2, <2>2, <2>3
  <1>5. Follow(Going!Fold(Goes(cwd, task), rest)) = goal
    BY <1>4 DEF Reaches
  <1>6. Head(todo) = task
    BY <1>2
  <1>7. CASE task.do = "mkd"
    <2>1. Goes(cwd, task) = cwd /\ cwd' = cwd
      BY <1>6, <1>7 DEF Goes, DoneWell
    <2>2. \A path : Kind(remote', path) = "link" <=> Kind(remote, path) = "link"
      <3>1. \/ remote' = remote
            \/ Target \in Paths /\ remote[Target] = "none" /\ remote' = [remote EXCEPT ![Target] = "dir"]
        BY <1>6, <1>7 DEF DoneWell
      <3> QED
        BY <1>1, <3>1 DEF Kind, Trees
    <2>3. \A path : Follow(path)' = Follow(path)
      BY <2>2 DEF Follow
    <2> QED
      BY Zenon, <1>2, <1>5, <2>1, <2>3 DEF Reaches
  <1>8. CASE task.do = "cd"
    <2>1. Target = Goes(cwd, task)
      <3>1. PICK arg \in Seq(Parts) : arg = task.arg /\ arg # <<>>
        BY <1>8 DEF OpensTask
      <3>2. Target = Walk(arg)
        BY <1>1, <1>6, <1>8, <3>1, ServerFinds DEF Target
      <3>3. Walk(arg) = Fold(IF Head(arg) = "" THEN <<>> ELSE cwd, arg)
        BY Zenon, <1>1, <3>1, WalkFolds
      <3> QED
        BY Zenon, <1>8, <3>1, <3>2, <3>3 DEF Goes
    <2>2. /\ remote' = remote /\ cwd' = Follow(Target)
          /\ Kind(remote, Follow(Target)) = "dir"
      BY <1>6, <1>8 DEF DoneWell
    <2>3. \A path : Follow(path)' = Follow(path)
      BY <2>2 DEF Follow
    <2>4. CASE rest = <<>>
      <3>1. cwd' = goal
        <4>1. Going!Fold(Goes(cwd, task), <<>>) = Goes(cwd, task)
          BY Zenon, <1>3, GoesType, Going!FoldEmpty
        <4> QED
          BY Zenon, <1>5, <2>1, <2>2, <2>4, <4>1
      <3>2. Follow(goal) = goal
        BY <2>2, <3>1 DEF Follow
      <3>3. goal \in Seq(Names)
        BY <2>2, <3>1, KindIs, PathsAre
      <3>4. Going!Fold(goal, <<>>) = goal
        BY Zenon, <3>3, GoesType, Going!FoldEmpty
      <3> QED
        BY Zenon, <1>2, <2>3, <2>4, <3>1, <3>2, <3>4 DEF Reaches
    <2>5. CASE rest # <<>>
      <3>1. cwd' = Goes(cwd, task)
        BY <1>2, <1>6, <1>8, <2>1, <2>2, <2>5 DEF Follow
      <3> QED
        BY Zenon, <1>2, <1>5, <2>3, <3>1 DEF Reaches
    <2> QED
      BY <2>4, <2>5
  <1> QED
    BY <1>2, <1>7, <1>8 DEF OpensTask

\* Nothing is left to make.
LEMMA Reached ==
    ASSUME cwd \in Paths, remote[cwd] = "dir", Reaches(<<>>)
    PROVE  cwd = goal
  <1>1. Going!Fold(cwd, <<>>) = cwd
    BY PathsAre, GoesType, Going!FoldEmpty
  <1> QED
    BY <1>1 DEF Reaches, Follow, Kind

LEMMA EnsuringNext ==
    ASSUME DirectoryInv, NoLinkOnTheWay, Ensuring, [DirectoryNext]_vars
    PROVE  Ensuring'
  <1>1. Based /\ op \in Operations \cup {NoOperation}
    BY DEF DirectoryInv, Typed
  <1>2. CASE \E o \in Operations : Begin(o)
    <2>1. PICK o \in Operations : Begin(o)
      BY <1>2
    <2> SUFFICES ASSUME o.name = "ensureDir"
                 PROVE  Reaches(todo)'
      BY <2>1 DEF Begin, Ensuring
    <2>2. remote' = remote /\ cwd' = cwd /\ todo' = ensureDir(o.arg) /\ goal' = Follow(Walk(o.arg))
      BY <2>1 DEF Begin, server, Plan
    <2>3. o.arg \in Seq(Parts) /\ o.arg # <<>> /\ cwd \in Paths
      BY <1>1, OperationsAre, ArgumentsAre DEF Based, HomeInv, Placed
    <2>4. ensureDir(o.arg) \in OpensTasks /\ Going!Fold(cwd, ensureDir(o.arg)) = Walk(o.arg)
      BY <2>3, EnsureDirReaches
    <2>5. Follow(Walk(o.arg))' = Follow(Walk(o.arg)) /\ \A path : Follow(path)' = Follow(path)
      BY Zenon, <2>2 DEF Follow, Walk
    <2> QED
      BY Zenon, <2>2, <2>4, <2>5 DEF Reaches
  <1>3. CASE todo = <<>> /\ ~\E o \in Operations : Begin(o)
    <2>1. CASE Reconnects
      BY <2>1 DEF Reconnects, NoOperation, Ensuring
    <2>2. CASE UNCHANGED vars
      <3>1. UNCHANGED <<remote, cwd, op, goal, todo, result>>
        BY <2>2 DEF vars, server, call
      <3> QED
        BY <3>1 DEF Ensuring, Reaches, Follow
    <2> QED
      BY <1>3, <2>1, <2>2, NothingToDo
  <1>4. CASE todo # <<>> /\ ~\E o \in Operations : Begin(o)
    <2> SUFFICES ASSUME result' = "ok", op'.name = "ensureDir"
                 PROVE  Reaches(todo)'
      BY DEF Ensuring
    <2>1. op' = op /\ goal' = goal /\ result = "ok" /\ (Idle \/ DoneWell \/ Loops)
      BY <1>1, <1>4, GoesWell
    <2>2. Reaches(todo)
      BY <2>1 DEF Ensuring
    <2>3. Head(todo).do \in {"mkd", "cd"}
      <3>1. todo \in Seq(OpensTask)
        BY <2>2 DEF Reaches, OpensTasks
      <3>2. Head(todo) \in OpensTask
        BY <1>4, <3>1
      <3> QED
        BY <3>2 DEF OpensTask
    <2>4. CASE Idle
      BY <2>1, <2>2, <2>4 DEF Idle, Reaches, Follow
    <2>5. CASE DoneWell
      <3>1. PICK tasks \in Seq(OpensTask) : tasks = todo /\ tasks # <<>> /\ Reaches(tasks)
        BY <1>4, <2>2 DEF Reaches, OpensTasks
      <3>2. Tail(tasks) # <<>> /\ Head(todo).do = "cd" => Kind(remote, Target) # "link"
        <4>1. Tail(tasks) # <<>> => Head(Tail(tasks)) \in OpensTask
          BY <3>1, HeadThenTail
        <4> QED
          BY <1>4, <3>1, <4>1 DEF NoLinkOnTheWay, IsNext, OpensTask
      <3>3. Head(todo) = Head(tasks) /\ todo' = Tail(tasks)
        BY <2>5, <3>1 DEF DoneWell
      <3>4. tasks \in OpensTasks
        BY Zenon DEF OpensTasks
      <3>5. Reaches(Tail(tasks))'
        BY Zenon, <1>1, <1>4, <2>1, <2>5, <3>1, <3>2, <3>3, <3>4, ReachesOn
      <3> QED
        BY Zenon, <3>3, <3>5 DEF Reaches
    <2>6. ~Loops
      BY <2>3, LoopIsNext DEF Listings
    <2> QED
      BY <2>1, <2>4, <2>5, <2>6
  <1> QED
    BY <1>2, <1>3, <1>4

\* ensureDir that reports no failure has made the directory and is in it, when
\* no directory above it is behind a link: ensureDir would go on from where that
\* leads, which the path does not tell (ensureDir, _openDir, cd).
THEOREM EnsuringIsComplete ==
    DirectorySpec /\ []NoLinkOnTheWay => [](op.name = "ensureDir" => SuccessIsComplete)
  <1>1. DirectoryInit => DirectoryInv /\ Ensuring
    BY DirectoryInvInit DEF DirectoryInit, NoOperation, Ensuring
  <1>2. DirectoryInv /\ Ensuring /\ NoLinkOnTheWay /\ [DirectoryNext]_vars =>
            DirectoryInv' /\ Ensuring'
    BY DirectoryInvNext, EnsuringNext
  <1>3. DirectoryInv /\ Ensuring => (op.name = "ensureDir" => SuccessIsComplete)
    <2> SUFFICES ASSUME DirectoryInv, Ensuring, op.name = "ensureDir", todo = <<>>, result = "ok"
                 PROVE  SuccessIsComplete
      BY DEF SuccessIsComplete, Finished
    <2>1. cwd \in Paths /\ Kind(remote, cwd) = "dir"
      BY DEF DirectoryInv, Based, HomeInv, Placed
    <2>2. cwd = goal
      BY <2>1, Reached, KindIs DEF Ensuring
    <2> QED
      BY <2>1, <2>2 DEF SuccessIsComplete
  <1> QED
    BY <1>1, <1>2, <1>3, PTL DEF DirectorySpec

-----------------------------------------------------------------------------
(* What an upload has still to store *)

Storing == \A f \in Due : Stored(f) \/ \E task \in Held(todo) : StoresIt(task, f)

\* An upload's tasks for a local file or directory.
StoredByTask(q) ==
    \E task \in Held(Uploaded(q)) :
        task.file = q /\ task.do = IF local[q] = "dir" THEN "upload" ELSE "stor"

LEMMA UploadedIs ==
    ASSUME op.name = "uploadFromDir", cwd \in Paths, goal \in Seq(Names), IsPrefix(goal, cwd),
           NEW g \in Seq(Names), cwd = goal \o g, NEW n \in Names, NEW q \in Paths, q = Append(g, n)
    PROVE  /\ Uploaded(q) \in LedTasks
           /\ q \in Due => StoredByTask(q)
  <1>1. q \in Seq(Names) /\ goal \o q = cwd \o <<n>>
    <2>1. cwd \in Seq(Names)
      BY PathsAre
    <2> QED
      BY Zenon, <2>1, SamePlace
  <1>2. Last(q) = n
    BY Zenon, JoinNames
  <1>3. cwd # None /\ ~Removes
    BY Zenon, NoneIsNoPath DEF Removes
  <1>4. CASE local[q] \in FileKinds
    <2>1. PICK task \in SoundTask : task = Task("stor", <<n>>, q, cwd)
      BY <1>4, EntryTasks
    <2>2. task.do = "stor" /\ task.at = cwd /\ task.file = q /\ task.arg = <<n>>
      BY <2>1 DEF Task
    <2>3. task \in OwnTask
      BY Zenon, <1>1, <1>3, <2>2 DEF OwnTask
    <2>4. <<task>> \in LedTasks
      BY Zenon, <2>2, <2>3, FewAreLed DEF Listings
    <2>5. Uploaded(q) = <<task>>
      BY Zenon, <1>2, <1>4, <2>1 DEF Uploaded, FileKinds
    <2>6. task \in Held(<<task>>)
      <3>1. \A x \in OwnTask : Held(<<x>>) = {x}
        BY HeldIs
      <3> QED
        BY <2>3, <3>1
    <2> QED
      BY Zenon, <1>4, <2>2, <2>4, <2>5, <2>6 DEF FileKinds, StoredByTask
  <1>5. CASE local[q] = "dir"
    <2>1. PICK mkd \in SoundTask : mkd = Relative("mkd", <<n>>)
      BY EntryTasks
    <2>2. mkd.do = "mkd" /\ mkd.at = cwd /\ mkd.arg = <<n>>
      BY <2>1 DEF Relative, Task
    <2>3. mkd \in OwnTask
      BY Zenon, <1>3, <2>2 DEF OwnTask
    <2>4. <<mkd>> \in LedTasks
      BY <2>2, <2>3, FewAreLed DEF Listings
    <2>5. PICK task \in SoundTask : task = Task("upload", <<>>, q, None)
      BY InsideTasks
    <2>6. task.do = "upload" /\ task.at = None /\ task.file = q
      BY <2>5 DEF Task
    <2>7. task \in OwnTask
      BY Zenon, <1>1, <1>3, <2>6 DEF OwnTask
    <2>8. Enter(<<n>>, <<task>>) \in LedTasks /\ task \in Held(Enter(<<n>>, <<task>>))
      BY Zenon, <1>1, <1>3, <2>6, <2>7, EnterIsLed
    <2>9. Uploaded(q) = <<mkd>> \o Enter(<<n>>, <<task>>)
      BY <1>2, <1>5, <2>1, <2>5 DEF Uploaded, FileKinds
    <2>10. <<mkd>> \o Enter(<<n>>, <<task>>) \in LedTasks
      BY Zenon, <2>4, <2>8, LedTasksAre
    <2>11. task \in Held(<<mkd>> \o Enter(<<n>>, <<task>>))
      <3>1. \A s, t \in Seq(OwnTask) : Held(s \o t) = Held(s) \cup Held(t)
        BY HeldIs
      <3>2. <<mkd>> \in Seq(OwnTask) /\ Enter(<<n>>, <<task>>) \in Seq(OwnTask)
        BY Zenon, <2>4, <2>8 DEF LedTasks
      <3> QED
        BY Zenon, <2>8, <3>1, <3>2
    <2> QED
      BY Zenon, <1>5, <2>6, <2>9, <2>10, <2>11 DEF StoredByTask
  <1>6. CASE local[q] \notin FileKinds \cup {"dir"}
    <2>1. Uploaded(q) = <<>>
      BY <1>6 DEF Uploaded
    <2> QED
      BY <1>6, <2>1, FewAreLed DEF Due
  <1> QED
    BY <1>4, <1>5, <1>6

\* What is stored stays, and a file is stored where it belongs.
LEMMA StoredOn ==
    ASSUME Based, Sited, op.name = "uploadFromDir", goal \in Seq(Names), Inside, todo # <<>>,
           Storing, DoneWell, goal' = goal
    PROVE  Storing'
  <1>1. Head(todo) \in OwnTask /\ cwd \in Seq(Names) /\ remote \in Trees
    BY NextIsSound, InsideIs, PathsAre
  <1>2. Head(todo).do \in {"cd", "cdup", "mkd", "stor", "return"} /\ local' = local
    BY Zenon, <1>1 DEF DoneWell, OwnTask, Removes
  <1>3. Held(todo) = {Head(todo)} \cup Held(todo')
    BY NextIsSound, HeldIs DEF DoneWell
  <1>4. Due' = Due
    BY <1>2 DEF Due
  <1>5. ASSUME NEW f \in Due
        PROVE  Stored(f)' \/ \E task \in Held(todo') : StoresIt(task, f)
    <2>1. f \in Seq(Names) /\ local[f] # "none"
      BY PathsAre DEF Due, FileKinds
    <2>2. CASE Head(todo).do # "stor"
      <3>1. ~StoresIt(Head(todo), f)
        BY <1>2, <2>2 DEF StoresIt
      <3>2. \/ remote' = remote
            \/ /\ Target \in Paths /\ remote[Target] = "none"
               /\ remote' = [remote EXCEPT ![Target] = "dir"]
        BY <1>2, <2>2 DEF DoneWell
      <3>3. Stored(f) => Stored(f)'
        BY <1>1, <1>2, <2>1, <3>2 DEF Stored, Kind, Trees
      <3> QED
        BY <1>3, <3>1, <3>3 DEF Storing
    <2>3. CASE Head(todo).do = "stor"
      <3>1. PICK g \in Seq(Names) : g = Head(todo).file
        BY Zenon, <1>1, <2>3 DEF OwnTask
      <3>2. Target = goal \o g
        <4>1. Head(todo).at # None
          BY Zenon, <1>1, <2>3 DEF OwnTask, SoundTask
        <4>2. PICK n \in Names : Head(todo).arg = <<n>> /\ Target = Append(cwd, n)
          BY <2>3, <4>1, EntryIsNext
        <4>3. goal \o g = Head(todo).at \o Head(todo).arg /\ Head(todo).at = cwd
          BY Zenon, <1>1, <2>3, <3>1, <4>1, EntryIsNext DEF OwnTask
        <4>4. cwd \o <<n>> = Append(cwd, n)
          BY Zenon, <1>1, JoinNames
        <4> QED
          BY Zenon, <4>2, <4>3, <4>4
      <3>3. CanStore /\ remote' = [remote EXCEPT ![Target] = local[g]]
        BY <2>3, <3>1 DEF DoneWell
      <3>4. CASE f = g
        BY <1>1, <1>2, <3>2, <3>3, <3>4 DEF Stored, Kind, Trees, CanStore
      <3>5. CASE f # g
        <4>1. goal \o f # Target
          BY Zenon, <2>1, <3>2, <3>5, SameRest
        <4>2. Stored(f) => Stored(f)'
          BY Zenon, <1>1, <1>2, <3>3, <4>1 DEF Stored, Kind, Trees
        <4>3. ~StoresIt(Head(todo), f)
          BY <2>3, <3>1, <3>5 DEF StoresIt
        <4> QED
          BY <1>3, <4>2, <4>3 DEF Storing
      <3> QED
        BY <3>4, <3>5
    <2> QED
      BY <2>2, <2>3
  <1> QED
    BY <1>4, <1>5 DEF Storing, StoresIt

\* Every entry of a local directory is stored, and so is what is in it.
LEMMA EntriesStored ==
    ASSUME Based, InDirectories(local), op.name = "uploadFromDir", goal \in Seq(Names), Inside,
           Storing, _uploadToWorkingDir
    PROVE  Inside' /\ Storing'
  <1>1. /\ todo # <<>> /\ Head(todo).do = "upload" /\ local[Head(todo).file] = "dir"
        /\ UNCHANGED <<remote, cwd, local, op, goal>>
    BY DEF _uploadToWorkingDir, Replaced, IsNext, server, call
  <1>2. /\ Head(todo) \in OwnTask /\ cwd \in Paths /\ cwd \in Seq(Names) /\ remote[cwd] = "dir"
        /\ IsPrefix(goal, cwd) /\ Tail(todo) \in LedTasks /\ cwd = goal \o Head(todo).file
        /\ Tail(todo) \in Seq(Tasks) /\ todo \in Seq(Tasks)
    BY <1>1, NextIsSound, InsideIs, PathsAre, SoundAreTasks DEF Listings
  <1>3. PICK g \in Seq(Names) : g = Head(todo).file
    BY Zenon, <1>1, <1>2 DEF OwnTask
  <1>4. PICK C : C = Children(local, g)
    OBVIOUS
  <1>5. ASSUME NEW q \in C
        PROVE  q \in Paths /\ \E n \in Names : q = Append(g, n)
    BY <1>4, ParentIsPath DEF Children
  <1>6. PICK e \in Seq(C) : e = SetToSeq(C) /\ \A q \in C : q \in Held(e)
    <2>1. IsFiniteSet(C)
      BY <1>4, ChildrenAre
    <2> QED
      BY SMTT(30), <2>1, SetToSeqHolds DEF Held
  <1>7. PICK h : h = [q \in C |-> Uploaded(q)]
    BY Zenon
  <1>8. \A q \in C : h[q] = Uploaded(q) /\ h[q] \in LedTasks
    <2>1. ASSUME NEW q \in C
          PROVE  Uploaded(q) \in LedTasks
      <3>1. PICK n \in Names : q = Append(g, n)
        BY <1>5
      <3> QED
        BY Zenon, <1>2, <1>3, <1>5, <3>1, UploadedIs
    <2> QED
      BY <1>7, <2>1
  <1>9. h \in Replacing(C, OwnTask)
    <2>1. \A q \in C : h[q] \in Seq(OwnTask)
      BY Zenon, <1>8 DEF LedTasks
    <2> QED
      BY <1>7, <2>1 DEF Replacing
  <1>10. todo' = Flat(h, e) \o Tail(todo)
    <2>1. todo' = FlattenSeq([i \in 1 .. Len(e) |-> Uploaded(e[i])]) \o Tail(todo)
      BY <1>3, <1>4, <1>6 DEF _uploadToWorkingDir, Replaced
    <2>2. \A i \in 1 .. Len(e) : h[e[i]] = Uploaded(e[i])
      BY <1>6, <1>8
    <2> QED
      BY Zenon, <2>1, <2>2, FlattenIs DEF Flat
  <1>11. Flat(h, e) \in LedTasks
    <2>1. Len(e) \in Nat /\ [i \in 1 .. Len(e) |-> h[e[i]]] \in [1 .. Len(e) -> LedTasks]
      BY <1>6, <1>8
    <2>2. FlattenSeq([i \in 1 .. Len(e) |-> h[e[i]]]) \in LedTasks
      BY <2>1, FlattenIsLed
    <2> QED
      BY <2>2, FlattenIs DEF Flat
  <1>12. Inside'
    <2>1. todo' \in LedTasks
      BY Zenon, <1>2, <1>10, <1>11, LedTasksAre
    <2> QED
      BY <1>1, <2>1, OwnStill DEF FilesStay, Inside
  <1>13. Held(todo) = {Head(todo)} \cup Held(Tail(todo)) /\ Held(todo') = Held(Flat(h, e)) \cup Held(Tail(todo))
    <2>1. /\ \A s, t \in Seq(OwnTask) : Held(s \o t) = Held(s) \cup Held(t)
          /\ \A s \in Seq(Tasks) : s # <<>> => Held(s) = {Head(s)} \cup Held(Tail(s))
      BY HeldIs
    <2>2. Flat(h, e) \in Seq(OwnTask) /\ Tail(todo) \in Seq(OwnTask)
      BY Zenon, <1>2, <1>11 DEF LedTasks
    <2> QED
      BY Zenon, <1>1, <1>2, <1>10, <2>1, <2>2
  <1>14. ASSUME NEW f \in Due, StoresIt(Head(todo), f)
         PROVE  Stored(f) \/ \E task \in Held(Flat(h, e)) : StoresIt(task, f)
    <2>1. PICK r \in Seq(Names) : f = g \o r
      BY Zenon, <1>1, <1>3, <1>14 DEF StoresIt
    <2>2. CASE r = <<>>
      <3>1. f = g
        BY Zenon, <2>1, <2>2, JoinNames
      <3> QED
        BY <1>1, <1>2, <1>3, <3>1 DEF Stored, Kind
    <2>3. CASE r # <<>>
      <3>1. PICK n \in Names, t \in Seq(Names) : r = <<n>> \o t
        BY Zenon, <2>3, HeadThenTail
      <3>2. PICK q \in Seq(Names) : q = Append(g, n) /\ q # <<>> /\ Parent(q) = g
        <4>1. Append(g, n) \in Seq(Names) /\ Append(g, n) # <<>> /\ Parent(Append(g, n)) = g
          BY AppendIsNew
        <4> QED
          BY Zenon, <4>1
      <3>3. f = q \o t
        <4>1. PICK one \in Seq(Names) : one = <<n>>
          BY Zenon, JoinNames
        <4>2. g \o (one \o t) = (g \o one) \o t
          BY ZenonT(60), ConcatNames
        <4>3. g \o one = q
          BY Zenon, <3>2, <4>1, JoinNames
        <4> QED
          BY Zenon, <2>1, <3>1, <4>1, <4>2, <4>3
      <3>4. q \in Paths /\ local[q] # "none" /\ (t # <<>> => local[q] = "dir")
        <4>1. PICK tree : tree = local
          OBVIOUS
        <4>2. InDirectories(tree) /\ q \o t \in Paths /\ tree[q \o t] # "none"
          BY <3>3, <4>1 DEF Due, FileKinds, InDirectories
        <4>3. q \in Paths /\ tree[q] # "none" /\ (t # <<>> => tree[q] = "dir")
          BY Zenon, <4>2, AncestorIsThere
        <4> QED
          BY <4>1, <4>3
      <3>5. q \in C
        BY <1>4, <3>2, <3>4 DEF Children
      <3>6. t = <<>> => f = q
        BY Zenon, <3>3, JoinNames
      <3>7. q \in Due
        BY <3>4, <3>6 DEF Due
      <3>8. PICK task \in Held(Uploaded(q)) :
                task.file = q /\ task.do = IF local[q] = "dir" THEN "upload" ELSE "stor"
        <4>1. q \in Due => StoredByTask(q)
          BY ZenonT(60), <1>2, <1>3, <3>1, <3>2, <3>4, UploadedIs
        <4> QED
          BY Zenon, <3>7, <4>1 DEF StoredByTask
      <3>9. task \in Held(Flat(h, e))
        <4>1. Held(h[q]) \subseteq Held(Flat(h, e))
          BY Zenon, <1>6, <1>9, <3>5, FlatHeld
        <4> QED
          BY Zenon, <1>8, <3>5, <3>8, <4>1
      <3>10. StoresIt(task, f)
        <4>1. CASE local[q] = "dir"
          BY Zenon, <3>3, <3>8, <4>1 DEF StoresIt
        <4>2. CASE local[q] # "dir"
          BY <3>4, <3>6, <3>8, <4>2 DEF StoresIt
        <4> QED
          BY <4>1, <4>2
      <3> QED
        BY <3>9, <3>10
    <2> QED
      BY <2>2, <2>3
  <1>15. ASSUME NEW f \in Due
         PROVE  Stored(f) \/ \E task \in Held(todo') : StoresIt(task, f)
    BY <1>13, <1>14 DEF Storing
  <1>16. Due' = Due /\ \A f : Stored(f)' = Stored(f)
    BY <1>1 DEF Due, Stored, Kind
  <1> QED
    BY Zenon, <1>12, <1>15, <1>16 DEF Storing, StoresIt

-----------------------------------------------------------------------------
(* Success of uploads *)

\* uploadFromDir as long as it has not failed.
Uploading ==
    \/ \E tasks \in OpensTasks :
          Reaches(tasks) /\ todo \in {<<Pwd>> \o (tasks \o ToUpload), tasks \o ToUpload}
    \/ Inside /\ Storing

Delivering == op.name = "uploadFromDir" /\ result = "ok" => Uploading

LEMMA ToUploadIs ==
    ASSUME NEW tasks \in OpensTasks
    PROVE  /\ Excursion(tasks \o <<Up>>) = <<Pwd>> \o (tasks \o ToUpload)
           /\ <<Pwd>> \o (tasks \o ToUpload) # <<>> /\ tasks \o ToUpload # <<>>
           /\ Head(<<Pwd>> \o (tasks \o ToUpload)) = Pwd
           /\ Tail(<<Pwd>> \o (tasks \o ToUpload)) = tasks \o ToUpload
           /\ tasks # <<>> => /\ Head(tasks \o ToUpload) = Head(tasks)
                              /\ Tail(tasks \o ToUpload) = Tail(tasks) \o ToUpload
           /\ tasks = <<>> => tasks \o ToUpload = ToUpload
  <1>1. PICK S : S = OpensTask \cup {Pwd, Up, Return}
    BY Zenon
  <1>2. Pwd \in S /\ Up \in S /\ Return \in S
    BY <1>1
  <1>3. tasks \in Seq(S)
    <2>1. OpensTask \subseteq S
      BY <1>1
    <2> QED
      BY Zenon, <2>1, SeqOfMore DEF OpensTasks
  <1>4. Excursion(tasks \o <<Up>>) = (<<Pwd>> \o (tasks \o <<Up>>)) \o <<Return>>
    BY Zenon DEF Excursion, Pwd, Return
  <1>5. \A p, u, r \in S, s \in Seq(S) : Surrounded(p, s, u, r)
    BY Around
  <1>6. Surrounded(Pwd, tasks, Up, Return)
    BY Zenon, <1>2, <1>3, <1>5
  <1> QED
    BY Zenon, <1>4, <1>6 DEF Surrounded, ToUpload

\* In the directory, everything is still to store.
LEMMA UpStarts ==
    ASSUME op.name = "uploadFromDir", cwd \in Paths, goal = cwd, todo = ToUpload
    PROVE  Inside /\ Storing
  <1>1. cwd \in Seq(Names) /\ <<>> \in Seq(Names) /\ <<>> \in Paths
    BY PathsAre, ParentIsPath
  <1>2. PICK up, back \in Tasks : up = Up /\ back = Return
    BY PathIsParts, TaskType, InnerAreTasks, ReturnIsTask DEF Commands, Up
  <1>3. /\ up.do = "upload" /\ up.at = None /\ up.file = <<>>
        /\ back.do = "return" /\ back.at = None
    BY <1>2 DEF Up, Return, Command, Task
  <1>4. up \in OwnTask /\ back \in OwnTask
    BY Zenon, <1>1, <1>3 DEF OwnTask, SoundTask, Removes
  <1>5. todo = <<up>> \o <<back>> /\ todo # <<>> /\ Head(todo) = up /\ Tail(todo) = <<back>> /\ up \in Held(todo)
    <2>1. todo = <<up, back>> /\ <<back>> \in Seq(Tasks) /\ <<up, back>> \in Seq(Tasks)
      BY <1>2 DEF ToUpload
    <2>2. <<up>> \o <<back>> = <<up, back>>
      BY OneThenOther
    <2>3. Held(todo) = {Head(todo)} \cup Held(Tail(todo)) /\ todo # <<>>
      <3>1. \A s \in Seq(Tasks) : s # <<>> => Held(s) = {Head(s)} \cup Held(Tail(s))
        BY HeldIs
      <3>2. todo \in Seq(Tasks) /\ todo # <<>>
        BY <2>1
      <3> QED
        BY Zenon, <3>1, <3>2
    <2>4. Head(<<up, back>>) = up /\ Tail(<<up, back>>) = <<back>>
      BY <2>1
    <2> QED
      BY Zenon, <2>1, <2>2, <2>3, <2>4
  <1>6. <<back>> \in LedTasks
    BY <1>3, <1>4, FewAreLed DEF Listings
  <1>7. IsPrefix(goal, cwd) /\ cwd = goal \o <<>>
    BY <1>1, PrefixIs, JoinNames
  <1>8. ASSUME NEW f \in Paths
        PROVE  StoresIt(up, f)
    <2>1. f \in Seq(Names) /\ f = <<>> \o f
      BY PathsAre, JoinNames
    <2> QED
      BY <1>3, <2>1 DEF StoresIt
  <1> QED
    BY Zenon, <1>3, <1>4, <1>5, <1>6, <1>7, <1>8 DEF Inside, Listings, Storing, Due

\* uploadFromDir makes the directory that its path leads to, and goes there.
LEMMA UploadApproaches ==
    ASSUME Based, op.name = "uploadFromDir", NoLinkOnTheWay, NEW tasks \in OpensTasks, Reaches(tasks),
           \/ todo = <<Pwd>> \o (tasks \o ToUpload)
           \/ tasks # <<>> /\ todo = tasks \o ToUpload,
           result' = "ok", [DirectoryNext]_vars
    PROVE  Uploading'
  <1>1. todo # <<>>
    BY ToUploadIs
  <1>2. op' = op /\ goal' = goal /\ (Idle \/ DoneWell \/ Loops)
    BY <1>1, GoesWell
  <1>3. ASSUME NEW more \in OpensTasks, Reaches(more)',
               todo' \in {<<Pwd>> \o (more \o ToUpload), more \o ToUpload}
        PROVE  Uploading'
    BY <1>3 DEF Uploading
  <1>4. ASSUME remote' = remote, cwd' = cwd
        PROVE  Reaches(tasks)'
    BY Zenon, <1>2, <1>4 DEF Reaches, Follow
  <1>5. CASE Idle
    BY Zenon, <1>3, <1>4, <1>5 DEF Idle
  <1>6. CASE ~Idle /\ todo = <<Pwd>> \o (tasks \o ToUpload)
    <2>1. Head(todo).do = "pwd" /\ Tail(todo) = tasks \o ToUpload
      BY Zenon, <1>6, ToUploadIs, WayIs
    <2>2. DoneWell
      BY <1>2, <1>6, <2>1, LoopIsNext DEF Listings
    <2>3. remote' = remote /\ cwd' = cwd /\ todo' = tasks \o ToUpload
      BY Zenon, <2>1, <2>2 DEF DoneWell
    <2> QED
      BY Zenon, <1>3, <1>4, <2>3
  <1>7. CASE ~Idle /\ tasks # <<>> /\ todo = tasks \o ToUpload
    <2>1. Head(todo) = Head(tasks) /\ Tail(todo) = Tail(tasks) \o ToUpload
      BY <1>7, ToUploadIs
    <2>2. Head(tasks) \in OpensTask /\ Tail(tasks) \in OpensTasks
      BY <1>7, HeadThenTail DEF OpensTasks
    <2>3. DoneWell
      BY <1>2, <1>7, <2>1, <2>2, LoopIsNext DEF Listings, OpensTask
    <2>4. Tail(tasks) # <<>> /\ Head(todo).do = "cd" => Kind(remote, Target) # "link"
      <3>1. ASSUME Tail(tasks) # <<>>
            PROVE  Tail(todo) # <<>> /\ Head(Tail(todo)).do \in {"mkd", "cd"}
        <4>1. Tail(todo) # <<>> /\ Head(Tail(todo)) = Head(Tail(tasks))
          BY Zenon, <2>1, <2>2, <3>1, ToUploadIs
        <4>2. Head(Tail(tasks)) \in OpensTask
          BY <2>2, <3>1, HeadThenTail DEF OpensTasks
        <4> QED
          BY Zenon, <4>1, <4>2 DEF OpensTask
      <3> QED
        BY <1>1, <3>1 DEF NoLinkOnTheWay, IsNext
    <2>5. Reaches(Tail(tasks))'
      BY Zenon, <1>1, <1>2, <1>7, <2>1, <2>3, <2>4, ReachesOn
    <2>6. todo' = Tail(tasks) \o ToUpload
      BY Zenon, <2>1, <2>3 DEF DoneWell
    <2> QED
      BY Zenon, <1>3, <2>2, <2>5, <2>6
  <1> QED
    BY Zenon, <1>5, <1>6, <1>7

\* An upload stores, or has still to store, everything as long as it has not
\* failed.
LEMMA UploadGoesOn ==
    ASSUME Based, Sited, InDirectories(local), op.name = "uploadFromDir", goal \in Seq(Names),
           Inside, Storing, todo # <<>>, result' = "ok", [DirectoryNext]_vars
    PROVE  Inside' /\ Storing'
  <1>1. op' = op /\ goal' = goal /\ (Idle \/ DoneWell \/ Loops)
    BY GoesWell
  <1>2. CASE Idle
    <2>1. Inside'
      BY <1>1, <1>2, OwnStill DEF Idle, FilesStay, Inside
    <2>2. Storing'
      BY <1>1, <1>2 DEF Idle, Storing, Stored, StoresIt, Due, Kind
    <2> QED
      BY <2>1, <2>2
  <1>3. CASE DoneWell
    BY <1>1, <1>3, GoesOnInside, StoredOn
  <1>4. CASE Loops
    <2>1. Head(todo).do = "upload"
      <3>1. Head(todo) \in OwnTask
        BY InsideIs
      <3> QED
        BY Zenon, <1>4, <3>1, LoopIsNext DEF OwnTask, Removes, Listings
    <2> QED
      BY <1>4, <2>1, LoopIsNext, EntriesStored
  <1> QED
    BY <1>1, <1>2, <1>3, <1>4

LEMMA DeliveringNext ==
    ASSUME DirectoryInv, Owned, Sited, InDirectories(local), NoLinkOnTheWay, Delivering,
           [DirectoryNext]_vars
    PROVE  Delivering'
  <1>1. Based /\ op \in Operations \cup {NoOperation} /\ cwd \in Paths /\ remote[cwd] = "dir"
    BY KindIs DEF DirectoryInv, Typed, Based, HomeInv, Placed
  <1>2. CASE \E o \in Operations : Begin(o)
    <2>1. PICK o \in Operations : Begin(o)
      BY <1>2
    <2> SUFFICES ASSUME o.name = "uploadFromDir"
                 PROVE  Uploading'
      BY <2>1 DEF Begin, Delivering
    <2>2. remote' = remote /\ cwd' = cwd /\ todo' = Plan(o) /\ goal' = Follow(Walk(o.arg))
      BY <2>1 DEF Begin, server
    <2>3. PICK tasks \in OpensTasks : /\ tasks = IF o.arg = <<>> THEN <<>> ELSE ensureDir(o.arg)
                                      /\ Follow(Going!Fold(cwd, tasks)) = Follow(Walk(o.arg))
      <3>1. CASE o.arg = <<>>
        <4>1. Going!Fold(cwd, <<>>) = cwd /\ <<>> \in OpensTasks
          BY <1>1, PathsAre, GoesType, Going!FoldEmpty DEF OpensTasks
        <4>2. Follow(cwd) = cwd /\ Follow(Walk(<<>>)) = cwd
          BY <1>1, FollowHere DEF Follow, Kind
        <4> QED
          BY Zenon, <3>1, <4>1, <4>2
      <3>2. CASE o.arg # <<>>
        <4>1. o.arg \in Seq(Parts)
          BY OperationsAre, ArgumentsAre
        <4>2. ensureDir(o.arg) \in OpensTasks /\ Going!Fold(cwd, ensureDir(o.arg)) = Walk(o.arg)
          BY <1>1, <3>2, <4>1, EnsureDirReaches
        <4> QED
          BY Zenon, <3>2, <4>2
      <3> QED
        BY <3>1, <3>2
    <2>4. Reaches(tasks)'
      BY Zenon, <2>2, <2>3 DEF Reaches, Follow
    <2>5. todo' = <<Pwd>> \o (tasks \o ToUpload)
      <3>1. Plan(o) = Excursion(tasks \o <<Up>>)
        BY <2>3 DEF Plan, Up
      <3> QED
        BY Zenon, <2>2, <3>1, ToUploadIs
    <2> QED
      BY <2>4, <2>5 DEF Uploading
  <1>3. CASE todo = <<>> /\ ~\E o \in Operations : Begin(o)
    <2>1. CASE Reconnects
      BY <2>1 DEF Reconnects, NoOperation, Delivering
    <2>2. CASE UNCHANGED vars
      <3>1. UNCHANGED <<remote, cwd, local, op, goal, todo, result>>
        BY <2>2 DEF vars, server, call
      <3>2. Storing' <=> Storing
        BY <3>1 DEF Storing, Stored, StoresIt, Due, Kind
      <3>3. Inside'
        BY <1>3, <3>1, FewAreLedNext DEF Inside
      <3> QED
        BY Zenon, <1>3, <3>1, <3>2, <3>3, ToUploadIs DEF Delivering, Uploading
    <2> QED
      BY <1>3, <2>1, <2>2, NothingToDo
  <1>4. CASE todo # <<>> /\ ~\E o \in Operations : Begin(o)
    <2> SUFFICES ASSUME result' = "ok", op'.name = "uploadFromDir"
                 PROVE  Uploading'
      BY DEF Delivering
    <2>1. op' = op /\ result = "ok" /\ goal \in Seq(Names)
      BY <1>1, <1>4, GoesWell DEF Owned
    <2>2. CASE Inside /\ Storing
      BY <1>1, <1>4, <2>1, <2>2, UploadGoesOn DEF Uploading
    <2>3. CASE ~(Inside /\ Storing)
      <3>1. PICK tasks \in OpensTasks :
                Reaches(tasks) /\ todo \in {<<Pwd>> \o (tasks \o ToUpload), tasks \o ToUpload}
        BY Zenon, <2>1, <2>3 DEF Delivering, Uploading
      <3>2. tasks # <<>> \/ todo = <<Pwd>> \o (tasks \o ToUpload)
        <4> SUFFICES ASSUME tasks = <<>>, todo = tasks \o ToUpload
                     PROVE  FALSE
          BY <3>1
        <4>1. todo = ToUpload
          BY ToUploadIs
        <4>2. cwd = goal
          BY <1>1, <3>1, Reached
        <4> QED
          BY <1>1, <2>1, <2>3, <4>1, <4>2, UpStarts
      <3> QED
        BY Zenon, <1>1, <2>1, <3>1, <3>2, UploadApproaches
    <2> QED
      BY <2>2, <2>3
  <1> QED
    BY <1>2, <1>3, <1>4

\* An upload that reports no failure has stored everything: every local file is
\* at or below the directory it is about with its content, under the same path,
\* and so is every directory, when no link is in the way of either
\* (uploadFromDir, _uploadToWorkingDir, _openDir).
THEOREM UploadsAreComplete ==
    DirectorySpec /\ []NoLinkInTheWay /\ []NoLinkOnTheWay =>
        [](op.name = "uploadFromDir" => SuccessIsComplete)
  <1>1. DirectoryInit => DirectoryInv /\ Owned /\ Sited /\ InDirectories(local) /\ Delivering
    <2>1. DirectoryInit => InDirectories(local)
      BY Zenon, DirectoryAssumption DEF DirectoryInit
    <2> QED
      BY <2>1, DirectoryInvInit, OwnedInit DEF DirectoryInit, DirectoryInv, NoOperation, Delivering
  <1>2. DirectoryInv /\ Owned /\ Sited /\ InDirectories(local) /\ Delivering
            /\ NoLinkInTheWay /\ NoLinkOnTheWay /\ [DirectoryNext]_vars =>
            DirectoryInv' /\ Owned' /\ Sited' /\ InDirectories(local)' /\ Delivering'
    BY DirectoryInvNext, OwnedNext, SitedNext, LocalTree, DeliveringNext DEF DirectoryInv
  <1>3. DirectoryInv /\ Delivering => (op.name = "uploadFromDir" => SuccessIsComplete)
    <2> SUFFICES ASSUME Delivering, op.name = "uploadFromDir", todo = <<>>, result = "ok"
                 PROVE  SuccessIsComplete
      BY DEF SuccessIsComplete, Finished
    <2>1. \A f \in Due : Stored(f)
      BY Zenon, HeldIs, ToUploadIs DEF Delivering, Uploading, Storing
    <2> QED
      BY <2>1 DEF SuccessIsComplete, Due, Stored
  <1> QED
    BY <1>1, <1>2, <1>3, PTL DEF DirectorySpec

\* An operation that reports no failure has done what it is for, whichever it
\* is, when no link is in the way.
THEOREM OperationsAreComplete ==
    DirectorySpec /\ []NoLinkInTheWay /\ []NoLinkOnTheWay => []SuccessIsComplete
  <1> DEFINE ByItself == {"removeDir", "clearWorkingDir", "cd", "remove"}
  <1>1. /\ DirectoryTypeOK
        /\ op.name \in ByItself => SuccessIsComplete
        /\ op.name = "downloadToDir" => SuccessIsComplete
        /\ op.name = "ensureDir" => SuccessIsComplete
        /\ op.name = "uploadFromDir" => SuccessIsComplete
        => SuccessIsComplete
    <2> SUFFICES ASSUME DirectoryTypeOK, Finished
                 PROVE  op.name \in ByItself \cup {"downloadToDir", "ensureDir", "uploadFromDir"}
      BY DEF SuccessIsComplete
    <2> QED
      BY DirectoryAssumption DEF DirectoryTypeOK, Finished, OperationNames
  <1> QED
    BY <1>1, DirectoryTypeCorrect, RemovalsAreComplete, DownloadsAreComplete, EnsuringIsComplete,
       UploadsAreComplete, PTL
=============================================================================
