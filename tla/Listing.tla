------------------------------- MODULE Listing -------------------------------
(***************************************************************************)
(* What a directory listing tells the client (src/parseList.ts and the     *)
(* parsers it chooses from): each line is recognised, and read, by one of  *)
(* three parsers; the last line of the listing chooses the parser for all. *)
(*                                                                         *)
(* A line is a record: the format it is written in, the kind of entry it   *)
(* states, the name, and a link's target and unique ID where it has them.  *)
(* Sizes, dates, owners and permissions are left out.  A name is the       *)
(* sequence of its parts between slashes: <<"a">> is a name in the listed  *)
(* directory, <<"", "b">> is the path "/b".                                *)
(***************************************************************************)
EXTENDS Integers, Sequences, SequencesExt

CONSTANTS
    None,       \* `undefined'
    Blanks      \* names with a leading blank, each with what follows the blank

ASSUME BlanksAssumption == None \notin DOMAIN Blanks

Unblanked(part) == IF part \in DOMAIN Blanks THEN Blanks[part] ELSE part

-----------------------------------------------------------------------------
(* Files *)

\* The DOS parser only knows directories and files; the Unix parser takes
\* block and character devices for files.
TakenForFile(parser, kind) ==
    \/ kind = "file"
    \/ parser = "dos" /\ kind # "dir"
    \/ parser = "unix" /\ kind = "device"

\* The type that a parser gives an entry of the stated kind.
FileType(parser, kind) ==
    IF kind = "dir" THEN "Directory"
    ELSE IF TakenForFile(parser, kind) THEN "File"
    ELSE IF kind \in {"link", "slink", "symlink"} THEN "SymbolicLink"
    ELSE "Unknown"

isDirectory(file) == file.type = "Directory"
isSymbolicLink(file) == file.type = "SymbolicLink"
isFile(file) == file.type = "File"

-----------------------------------------------------------------------------
(* Lines *)

availableParsers == {"dos", "unix", "mlsd"}

\* The formats exclude each other: the order of the parsers plays no role.
testLine(parser, line) == line.format = parser

\* Blank lines, and the summary that precedes a Unix listing.
IsEntry(line) == line.format \notin {"blank", "total"}

\* Variant: the entries for the listed directory and its parent are kept.
ParseLineKeepsParents(parser, line) ==
    IF parser # "mlsd" /\ ~testLine(parser, line) THEN <<>>
    ELSE <<[name |-> line.name, type |-> FileType(parser, line.kind),
            link |-> line.link, uniqueID |-> line.id]>>

\* The files a line describes: one or none.  The DOS parser takes the blanks
\* before a name for a separator.
parseLine(parser, line) ==
    IF \/ parser # "mlsd" /\ ~testLine(parser, line)
       \/ line.name \in {<<".">>, <<"..">>}
       \/ parser = "mlsd" /\ (line.name = <<"">> \/ line.kind \in {"cdir", "pdir"})
    THEN <<>>
    ELSE <<[name |-> IF parser = "dos" THEN <<Unblanked(line.name[1])>> ELSE line.name,
            type |-> FileType(parser, line.kind), link |-> line.link, uniqueID |-> line.id]>>

-----------------------------------------------------------------------------
(* Listings *)

\* Where the files, other than links, with the unique ID of the given one are.
Targets(file, files) ==
    {i \in 1 .. Len(files) : /\ ~isSymbolicLink(files[i])
                             /\ files[i].uniqueID = file.uniqueID}

\* Gives a link that states no target the one listed under its unique ID, the
\* last one if there are several.
Resolved(file, files) ==
    LET targets == Targets(file, files)
    IN  IF isSymbolicLink(file) /\ file.uniqueID # None /\ file.link = None /\ targets # {}
        THEN [file EXCEPT !.link = files[Max(targets)].name]
        ELSE file

\* Variant: the targets of links stay in the listing.
TransformKeepsTargets(parser, files) == [i \in 1 .. Len(files) |-> Resolved(files[i], files)]

KeepOwn(kept, file) == IF Len(file.name) = 1 THEN Append(kept, file) ELSE kept

\* MLSD: entries that are not in the listed directory only serve the links.
transformList(parser, files) ==
    IF parser = "mlsd"
    THEN FoldLeft(KeepOwn, <<>>, [i \in 1 .. Len(files) |-> Resolved(files[i], files)])
    ELSE files

KeepEntry(kept, line) == IF IsEntry(line) THEN Append(kept, line) ELSE kept
Entries(lines) == FoldLeft(KeepEntry, <<>>, lines)

\* Whether parseList returns, for lines it can use at all.
Understood(lines) ==
    Entries(lines) # <<>> => Last(Entries(lines)).format \in availableParsers

parseList(lines) ==
    LET entries == Entries(lines)
        parser == CHOOSE p \in availableParsers : testLine(p, Last(entries))
    IN  IF entries = <<>> THEN <<>>
        ELSE transformList(parser, FlattenSeq([i \in 1 .. Len(entries) |->
                                                  parseLine(parser, entries[i])]))
=============================================================================
