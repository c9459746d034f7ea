------------------------------ MODULE LocalFile ------------------------------
(***************************************************************************)
(* Transfers between the server and local files (src/Client.ts): the       *)
(* descriptor a call opens, the stream that reads or writes through it,    *)
(* what a failed download leaves on disk, and the closing of the           *)
(* descriptor, which does not wait for the stream.                         *)
(*                                                                         *)
(* The transfer is reduced to its bytes and its outcome (Transfer).  A     *)
(* descriptor is a number the operating system hands out again once it is  *)
(* closed; a stream only knows the number.  One call runs at a time        *)
(* (FtpContext), but the stream of an earlier one may still be writing.    *)
(***************************************************************************)
EXTENDS Integers, Sequences

CONSTANTS
    None,
    Calls, Files, Descriptors,
    Size,           \* the largest length of a file
    Params,         \* what is called: [kind, file, from, to], "to" -1 for the end
    Disks,          \* the files there may be at the start
    Reuse           \* whether descriptors are handed out again at once

ASSUME SizeAssumption == Size \in Nat
ASSUME ReuseAssumption == Reuse \in BOOLEAN
ASSUME ParamsAssumption ==
    Params \subseteq [kind : {"download", "upload"}, file : Files, from : 0 .. Size, to : -1 .. Size]

\* A byte is known by the call that receives it, None before all calls, and
\* its position; a hole is read as zeros.
Bytes == ((Calls \cup {None}) \X (0 .. Size)) \cup {<<None, -1>>}
Hole == <<None, -1>>
Contents == UNION {[1 .. n -> Bytes] : n \in 0 .. Size}

ASSUME DisksAssumption == Disks \subseteq [Files -> {None} \cup Contents]
ASSUME NoneAssumption ==
    /\ None \notin Files /\ None \notin Descriptors /\ None \notin Params
    /\ None \notin Contents

VARIABLES
    files,          \* the bytes of each file, None if it does not exist
    descriptors,    \* what each open descriptor refers to, None if closed
    phase,          \* "new", "running", "stat", "unlink", "close", "done"
    outcome,        \* "none", "resolved", "rejected"
    param,          \* what was called
    fd,             \* the descriptor of its stream, None before it is opened
    pos,            \* the position in the file its stream has reached
    buffer,         \* the bytes its stream has not yet written
    passed,         \* the bytes received, or sent
    ended,          \* whether its source has ended
    original        \* the file when it was called

disk == <<files, descriptors>>
stream == <<fd, pos, buffer, passed, ended>>
vars == <<disk, phase, outcome, param, stream, original>>

\* A descriptor may refer to a file that has been removed since.
Gone == "gone"

ASSUME GoneAssumption == Gone # None /\ Gone \notin Files

LocalInit ==
    /\ files \in Disks
    /\ descriptors = [d \in Descriptors |-> None]
    /\ phase = [c \in Calls |-> "new"]
    /\ outcome = [c \in Calls |-> "none"]
    /\ param = [c \in Calls |-> None]
    /\ fd = [c \in Calls |-> None]
    /\ pos = [c \in Calls |-> 0]
    /\ buffer = [c \in Calls |-> <<>>]
    /\ passed = [c \in Calls |-> <<>>]
    /\ ended = [c \in Calls |-> FALSE]
    /\ original = [c \in Calls |-> None]

-----------------------------------------------------------------------------
(* Opening *)

Idle == \A c \in Calls : phase[c] \in {"new", "done"}

\* The operating system's choice; without Reuse, no number is handed out
\* that an earlier stream still writes to.
Available(d) ==
    /\ descriptors[d] = None
    /\ Reuse \/ \A c \in Calls : fd[c] = d => buffer[c] = <<>>

\* Variant: every download truncates the file.
TruncatesAlways(p) == p.kind = "download"

\* fileSystemFlags: "w" truncates or creates, "r+" and "r" need the file.
Truncates(p) == p.kind = "download" /\ p.from = 0

Start(c, p) ==
    /\ Idle /\ phase[c] = "new"
    /\ param' = [param EXCEPT ![c] = p]
    /\ original' = [original EXCEPT ![c] = files[p.file]]

\* Variant: the offset is not applied to the file.
StartsAtZero(p) == 0

StartsAt(p) == p.from

Opens(c, p) ==
    /\ Start(c, p)
    /\ Truncates(p) \/ files[p.file] # None
    /\ \E d \in Descriptors :
          /\ Available(d)
          /\ fd' = [fd EXCEPT ![c] = d]
          /\ descriptors' = [descriptors EXCEPT ![d] = p.file]
    /\ files' = IF Truncates(p) THEN [files EXCEPT ![p.file] = <<>>] ELSE files
    /\ pos' = [pos EXCEPT ![c] = StartsAt(p)]
    /\ phase' = [phase EXCEPT ![c] = "running"]
    /\ UNCHANGED <<outcome, buffer, passed, ended>>

\* No such file, no permission, no descriptor left: nothing was opened.
OpenFails(c, p) ==
    /\ Start(c, p)
    /\ phase' = [phase EXCEPT ![c] = "done"]
    /\ outcome' = [outcome EXCEPT ![c] = "rejected"]
    /\ UNCHANGED <<disk, stream>>

-----------------------------------------------------------------------------
(* Bytes *)

Is(c, kind) == phase[c] # "new" /\ fd[c] # None /\ param[c].kind = kind
Content(d) == files[descriptors[d]]

\* The next byte of the remote file is given to the destination.
Receives(c) ==
    /\ phase[c] = "running" /\ Is(c, "download") /\ ~ended[c]
    /\ param[c].from + Len(passed[c]) < Size
    /\ LET byte == <<c, param[c].from + Len(passed[c])>>
       IN  /\ buffer' = [buffer EXCEPT ![c] = Append(@, byte)]
           /\ passed' = [passed EXCEPT ![c] = Append(@, byte)]
    /\ UNCHANGED <<disk, phase, outcome, param, original, fd, pos, ended>>

DataEnds(c) ==
    /\ phase[c] = "running" /\ Is(c, "download") /\ ~ended[c]
    /\ ended' = [ended EXCEPT ![c] = TRUE]
    /\ UNCHANGED <<disk, phase, outcome, param, original, fd, pos, buffer, passed>>

\* The content with a byte at a position; a gap before it is a hole.
Written(content, at, byte) ==
    [i \in 1 .. IF at + 1 > Len(content) THEN at + 1 ELSE Len(content) |->
        IF i = at + 1 THEN byte ELSE IF i <= Len(content) THEN content[i] ELSE Hole]

\* A buffered byte is written to whatever the descriptor now refers to, also
\* when the call is long over; a closed descriptor fails the stream.
Flushes(c) ==
    /\ buffer[c] # <<>>
    /\ LET target == descriptors[fd[c]]
       IN  /\ buffer' = [buffer EXCEPT ![c] = IF target = None THEN <<>> ELSE Tail(@)]
           /\ files' = IF target \in {None, Gone} THEN files
                       ELSE [files EXCEPT ![target] = Written(@, pos[c], Head(buffer[c]))]
    /\ pos' = [pos EXCEPT ![c] = @ + 1]
    /\ UNCHANGED <<descriptors, phase, outcome, param, original, fd, passed, ended>>

\* Variant: the byte at the end is left out.
EndsExclusive(c) == param[c].to >= 0 /\ pos[c] >= param[c].to

\* localEndInclusive, or to the end of the file.
EndsAt(c) == param[c].to >= 0 /\ pos[c] > param[c].to

Exhausted(c) == pos[c] >= Len(Content(fd[c])) \/ EndsAt(c)

Sends(c) ==
    /\ phase[c] = "running" /\ Is(c, "upload") /\ ~Exhausted(c)
    /\ passed' = [passed EXCEPT ![c] = Append(@, Content(fd[c])[pos[c] + 1])]
    /\ pos' = [pos EXCEPT ![c] = @ + 1]
    /\ UNCHANGED <<disk, phase, outcome, param, original, fd, buffer, ended>>

-----------------------------------------------------------------------------
(* Settling *)

Settle(c, how, then) ==
    /\ phase[c] = "running"
    /\ outcome' = [outcome EXCEPT ![c] = how]
    /\ phase' = [phase EXCEPT ![c] = then]
    /\ UNCHANGED <<disk, param, original, fd, pos, passed, ended>>

\* The pipeline is done and the server has confirmed.
Resolves(c) ==
    /\ IF param[c] # None /\ param[c].kind = "download"
       THEN ended[c] /\ buffer[c] = <<>>
       ELSE phase[c] = "running" /\ Exhausted(c)
    /\ Settle(c, "resolved", "close")
    /\ UNCHANGED buffer

\* The server's error, a failed stream or a closed client.  A destination
\* whose source had not ended is destroyed, with at most the one byte still
\* being written; one whose source had ended goes on, unless it failed itself.
Rejects(c) ==
    /\ Settle(c, "rejected", IF Is(c, "download") THEN "stat" ELSE "close")
    /\ \E kept \in 0 .. Len(buffer[c]) :
          /\ kept <= 1 \/ (ended[c] /\ kept = Len(buffer[c]))
          /\ buffer' = [buffer EXCEPT ![c] = SubSeq(@, 1, kept)]

-----------------------------------------------------------------------------
(* Cleaning up *)

\* Variant: a resumed download's file is removed as well.
RemovesResumed(c) == files[param[c].file] \in {None, <<>>}

\* Variant: only a file that cannot be examined is removed.
RemovesMissing(c) == files[param[c].file] = None

shouldRemoveLocalFile(c) == param[c].from = 0 /\ files[param[c].file] \in {None, <<>>}

Stats(c) ==
    /\ phase[c] = "stat"
    /\ phase' = [phase EXCEPT ![c] = IF shouldRemoveLocalFile(c) THEN "unlink" ELSE "close"]
    /\ UNCHANGED <<disk, outcome, param, stream, original>>

Unlinks(c) ==
    /\ phase[c] = "unlink"
    /\ files' = [files EXCEPT ![param[c].file] = None]
    /\ descriptors' = [d \in Descriptors |->
                          IF descriptors[d] = param[c].file THEN Gone ELSE descriptors[d]]
    /\ phase' = [phase EXCEPT ![c] = "close"]
    /\ UNCHANGED <<outcome, param, stream, original>>

\* Variant: the descriptor is left to the stream.
DoneWithoutClose(c) ==
    /\ phase[c] = "close"
    /\ phase' = [phase EXCEPT ![c] = "done"]
    /\ UNCHANGED <<disk, outcome, param, stream, original>>

\* fsClose does not wait for the stream; the one write of a destroyed stream
\* that was under way has by then reached the file, or never will.
Closes(c) ==
    /\ phase[c] = "close"
    /\ descriptors' = [descriptors EXCEPT ![fd[c]] = None]
    /\ buffer' = [buffer EXCEPT ![c] = IF ended[c] THEN @ ELSE <<>>]
    /\ phase' = [phase EXCEPT ![c] = "done"]
    /\ UNCHANGED <<files, outcome, param, original, fd, pos, passed, ended>>

-----------------------------------------------------------------------------
(* The specification *)

LocalNext ==
    \E c \in Calls :
        \/ \E p \in Params : Opens(c, p) \/ OpenFails(c, p)
        \/ Receives(c) \/ DataEnds(c) \/ Flushes(c) \/ Sends(c)
        \/ Resolves(c) \/ Rejects(c) \/ Stats(c) \/ Unlinks(c) \/ Closes(c)

LocalSpec == LocalInit /\ [][LocalNext]_vars

-----------------------------------------------------------------------------
(* Properties *)

\* With the types: the descriptors that are open are those of the running
\* call, whichever way the earlier ones ended.
LocalTypeOK ==
    /\ files \in [Files -> {None} \cup Contents]
    /\ descriptors \in [Descriptors -> Files \cup {None, Gone}]
    /\ \A d \in Descriptors : descriptors[d] # None =>
          \E c \in Calls : fd[c] = d /\ phase[c] \notin {"new", "done"}
    /\ phase \in [Calls -> {"new", "running", "stat", "unlink", "close", "done"}]
    /\ outcome \in [Calls -> {"none", "resolved", "rejected"}]
    /\ \A c \in Calls : pos[c] \in 0 .. Size

\* A download that is resolved has written every byte it received, from the
\* position it was started at, and no other byte of the file has changed; an
\* upload that is resolved has sent the bytes from localStart to and with
\* localEndInclusive, as many of them as the file has.
ResolvedIsComplete ==
    \A c \in Calls : phase[c] = "close" /\ outcome[c] = "resolved" =>
        LET p == param[c]
            content == files[p.file]
            old == original[c]
        IN  IF p.kind = "upload"
            THEN passed[c] = SubSeq(old, p.from + 1,
                                    IF p.to >= 0 /\ p.to < Len(old) THEN p.to + 1 ELSE Len(old))
            ELSE /\ SubSeq(content, p.from + 1, p.from + Len(passed[c])) = passed[c]
                 /\ p.from > 0 => \A i \in 1 .. Len(old) :
                        i \notin p.from + 1 .. p.from + Len(passed[c]) =>
                            i <= Len(content) /\ content[i] = old[i]

\* A download that continues at a position never removes its file, nor any
\* byte before that position, whether it fails or not.
ResumeKeepsBytes ==
    \A c \in Calls : phase[c] \notin {"new", "done"} /\ param[c].from > 0 =>
        /\ files[param[c].file] # None
        /\ \A i \in 1 .. Len(original[c]) :
              i <= param[c].from =>
                  /\ i <= Len(files[param[c].file])
                  /\ files[param[c].file][i] = original[c][i]

\* A download from the start that fails leaves no empty file.
NoEmptyRemains ==
    \A c \in Calls :
        phase[c] = "close" /\ outcome[c] = "rejected" /\ param[c].kind = "download"
            => param[c].from > 0 \/ files[param[c].file] # <<>>

\* "Download a remote file and pipe its data to ... a local file"
\* (downloadTo): what a download writes goes to its own file.
WritesItsOwnFile ==
    \A f \in Files : files[f] # None =>
        \A i \in 1 .. Len(files[f]), c \in Calls, n \in 0 .. Size :
            files[f][i] = <<c, n>> => param[c].file = f
=============================================================================
