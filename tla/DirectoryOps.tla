---------------------------- MODULE DirectoryOps ----------------------------
(***************************************************************************)
(* The operations of Client on whole directories: removing, clearing,      *)
(* uploading, downloading and creating trees with commands that are        *)
(* relative to the server's working directory, each of which the server    *)
(* may refuse, on a connection that may close in between (src/Client.ts).  *)
(*                                                                         *)
(* A command and its answer are one step (FtpContext), and so is a         *)
(* transfer (Transfer).  What an operation still has to do is a sequence   *)
(* of tasks; a task that lists a directory is replaced by the tasks for    *)
(* its entries, in the way the loops over a listing nest in the code.      *)
(*                                                                         *)
(* A path is a sequence of names.  A tree is a function on all paths:      *)
(* "none", "dir", "link", "device" (a block or character device),          *)
(* "special" (a pipe or a socket), or a file by its content: "remote",     *)
(* "local" or "partial".                                                   *)
(***************************************************************************)
EXTENDS Listing, Naturals, FiniteSets

CONSTANTS
    Names,              \* of files, the blank-led ones included
    Depth,              \* of the trees
    LinkTarget,         \* the path all links lead to
    RemoteTrees, LocalTrees,    \* the trees at the start
    Operations,         \* what the program calls: [name, arg]
    MaxOperations       \* how often

Paths == UNION {[1 .. n -> Names] : n \in 0 .. Depth}
FileKinds == {"remote", "local", "partial"}
Trees == [Paths -> FileKinds \cup {"none", "dir", "link", "special", "device"}]
Styles == {"dos", "unix", "slink", "symlink", "other"}

OperationNames ==
    {"removeDir", "clearWorkingDir", "uploadFromDir", "downloadToDir", "ensureDir", "cd", "remove"}

Parent(path) == IF path = <<>> THEN path ELSE Front(path)

\* "/a/b", or "/" for the root.
Absolute(path) == <<"">> \o (IF path = <<>> THEN <<"">> ELSE path)

\* Every file is in a directory.
InDirectories(tree) ==
    \A p \in Paths : p # <<>> /\ tree[p] # "none" => tree[Parent(p)] = "dir"

IsTree(tree) == tree[<<>>] = "dir" /\ InDirectories(tree)

ASSUME DirectoryAssumption ==
    /\ Depth \in Nat
    /\ IsFiniteSet(Paths)
    /\ Names \cap {"", ".", ".."} = {}
    /\ DOMAIN Blanks \subseteq Names
    /\ \A name \in DOMAIN Blanks : Blanks[name] \in Names \ DOMAIN Blanks
    /\ LinkTarget \in Paths
    /\ \A p \in Paths : None \notin {p, Absolute(p)}
    /\ RemoteTrees \subseteq {tree \in Trees : IsTree(tree)}
    /\ LocalTrees \subseteq {tree \in Trees : InDirectories(tree)}
    /\ Operations \subseteq [name : OperationNames, arg : Seq(Names \cup {"", ".."})]
    /\ \A o \in Operations :
          /\ o.name \in {"removeDir", "ensureDir", "cd", "remove"} => o.arg # <<>>
          /\ o.name = "clearWorkingDir" => o.arg = <<>>
    /\ MaxOperations \in Nat

VARIABLES
    remote,         \* the server's files
    cwd,            \* its working directory for the client
    style,          \* how it lists directories
    local,          \* the files in the local directory of the operations
    open,           \* whether the client is connected
    todo,           \* the tasks of the running operation, the next one first
    home,           \* the directory it returns to
    result,         \* "ok", or "error" as soon as it has failed
    op, goal,       \* the operation, and the directory or file it is about
    before, start,  \* the server's files and working directory when it began
    astray,         \* whether the server refused the return to home
    calls           \* the number of operations begun

server == <<remote, cwd>>
call == <<op, goal, before, start, calls>>
session == <<style, open>>
vars == <<server, local, session, todo, home, result, astray, call>>

-----------------------------------------------------------------------------
(* Trees *)

Children(tree, path) ==
    {p \in Paths : p # <<>> /\ Parent(p) = path /\ tree[p] # "none"}

Kind(tree, path) == IF path \in Paths THEN tree[path] ELSE "none"

\* Servers go to the target of a link, and are then in the target.
Follow(path) == IF Kind(remote, path) = "link" THEN LinkTarget ELSE path

Step(path, part) ==
    CASE part = "" -> path
      [] part = ".." -> Parent(path)
      [] OTHER -> Append(path, part)

\* The path that the parts of an argument lead to.
Walk(arg) == FoldLeft(Step, IF arg # <<>> /\ Head(arg) = "" THEN <<>> ELSE cwd, arg)

\* "FTP servers can't handle filenames that have leading whitespace".
ServerPath(arg) == Walk(<<Unblanked(Head(arg))>> \o Tail(arg))

-----------------------------------------------------------------------------
(* The server's listings *)

Line(format, kind, name, link, id) ==
    [format |-> format, kind |-> kind, name |-> name, link |-> link, id |-> id]

LinesOf(path) ==
    LET kind == IF remote[path] \in FileKinds THEN "file" ELSE remote[path]
        name == <<Last(path)>>
        target == Absolute(LinkTarget)
        link == IF kind = "link" THEN target ELSE None
    IN  CASE style = "unix" -> <<Line("unix", kind, name, link, None)>>
          [] style = "slink" /\ kind = "link" -> <<Line("mlsd", "slink", name, link, path)>>
          [] style = "symlink" /\ kind = "link" ->
                <<Line("mlsd", "symlink", name, None, LinkTarget),
                  Line("mlsd", "dir", target, None, LinkTarget)>>
          [] style \in {"slink", "symlink"} /\ kind # "link" ->
                <<Line("mlsd", kind, name, None, path)>>
          [] OTHER -> <<Line(style, kind, name, None, None)>>

\* Directories also list themselves and their parent; Unix listings begin
\* with a summary.
Listed(path) ==
    LET head == CASE style = "unix" ->
                        <<Line("total", "none", <<"total">>, None, None),
                          Line("unix", "dir", <<".">>, None, None),
                          Line("unix", "dir", <<"..">>, None, None)>>
                  [] style \in {"slink", "symlink"} ->
                        <<Line("mlsd", "cdir", Absolute(path), None, path),
                          Line("mlsd", "pdir", <<"..">>, None, Parent(path))>>
                  [] OTHER -> <<>>
        entries == SetToSeq(Children(remote, path))
    IN  head \o FlattenSeq([i \in 1 .. Len(entries) |-> LinesOf(entries[i])])

-----------------------------------------------------------------------------
(* Tasks *)

\* A task on a remote argument and a local file; "at" is the directory whose
\* listing it comes from.
Task(what, arg, file, at) == [do |-> what, arg |-> arg, file |-> file, at |-> at]
Command(what, arg) == Task(what, arg, <<>>, None)
Relative(what, arg) == Task(what, arg, <<>>, cwd)

\* Variant: the parent is not entered again.
EnterForGood(name, inside) == <<Relative("cd", name)>> \o inside

Enter(name, inside) == <<Relative("cd", name)>> \o inside \o <<Command("cdup", <<>>)>>

\* A name is opened (_openDir): made, if it can be, and entered.
OpenDir(tasks, name) ==
    IF name = "" THEN tasks
    ELSE tasks \o <<Command("mkd", <<name>>), Command("cd", <<name>>)>>

ensureDir(arg) ==
    FoldLeft(OpenDir, IF Head(arg) = "" THEN <<Command("cd", <<"", "">>)>> ELSE <<>>, arg)

\* _exitAtCurrentDirectory.
Excursion(tasks) == <<Command("pwd", <<>>)>> \o tasks \o <<Command("return", <<>>)>>

Plan(o) ==
    CASE o.name = "removeDir" -> Excursion(<<Command("cd", o.arg), Command("target", <<>>)>>)
      [] o.name = "clearWorkingDir" -> <<Command("clear", <<>>)>>
      [] o.name = "uploadFromDir" ->
            Excursion((IF o.arg = <<>> THEN <<>> ELSE ensureDir(o.arg))
                      \o <<Command("upload", <<>>)>>)
      [] o.name = "downloadToDir" ->
            Excursion((IF o.arg = <<>> THEN <<>> ELSE <<Command("cd", o.arg)>>)
                      \o <<Command("download", <<>>)>>)
      [] o.name = "ensureDir" -> ensureDir(o.arg)
      [] o.name = "cd" -> <<Command("cd", o.arg)>>
      [] o.name = "remove" -> <<Command("dele", o.arg)>>

protectWhitespace(arg) ==
    IF Head(arg) \in DOMAIN Blanks THEN <<"">> \o cwd \o arg ELSE arg

\* Where the server finds the argument of the next task; MKD is the only
\* command whose argument is not protected.
Target ==
    LET arg == Head(todo).arg
    IN  ServerPath(IF Head(todo).do = "mkd" THEN arg ELSE protectWhitespace(arg))

IsNext(what) == todo # <<>> /\ Head(todo).do = what

\* The next task is done, and replaced by others.
Replaced(what, tasks) ==
    /\ IsNext(what)
    /\ todo' = tasks \o Tail(todo)
    /\ UNCHANGED <<session, call, result, astray>>

Done(what) == open /\ Replaced(what, <<>>)

-----------------------------------------------------------------------------
(* Commands *)

PrintsDirectory ==
    /\ Done("pwd")
    /\ home' = cwd
    /\ UNCHANGED <<server, local>>

ChangesDirectory ==
    /\ Done("cd")
    /\ Kind(remote, Follow(Target)) = "dir"
    /\ cwd' = Follow(Target)
    /\ UNCHANGED <<remote, local, home>>

ChangesToParent ==
    /\ Done("cdup")
    /\ cwd' = Parent(cwd)
    /\ UNCHANGED <<remote, local, home>>

MakesDirectory ==
    /\ Done("mkd")
    /\ Target \in Paths /\ Kind(remote, Target) = "none"
    /\ Kind(remote, Parent(Target)) = "dir"
    /\ remote' = [remote EXCEPT ![Target] = "dir"]
    /\ UNCHANGED <<cwd, local, home>>

\* Removes links, not their targets.
RemovesFile ==
    /\ Done("dele")
    /\ Kind(remote, Target) \notin {"none", "dir"}
    /\ remote' = [remote EXCEPT ![Target] = "none"]
    /\ UNCHANGED <<cwd, local, home>>

RemovesDirectory ==
    /\ Done("rmd")
    /\ Kind(remote, Target) = "dir" /\ Target # <<>> /\ Children(remote, Target) = {}
    /\ remote' = [remote EXCEPT ![Target] = "none"]
    /\ UNCHANGED <<cwd, local, home>>

CanStore == Target \in Paths /\ Kind(remote, Target) \in FileKinds \cup {"none"}

Stores ==
    /\ Done("stor")
    /\ CanStore
    /\ remote' = [remote EXCEPT ![Target] = local[Head(todo).file]]
    /\ UNCHANGED <<cwd, local, home>>

CanCreate(file) == local[file] # "dir" /\ local[Parent(file)] = "dir"

Retrieves ==
    /\ Done("retr")
    /\ Kind(remote, Target) \in FileKinds /\ CanCreate(Head(todo).file)
    /\ local' = [local EXCEPT ![Head(todo).file] = remote[Target]]
    /\ UNCHANGED <<server, home>>

-----------------------------------------------------------------------------
(* The loops over the entries of a directory *)

\* The files of the working directory (list).
Files == parseList(Listed(cwd))

\* The listing is replaced by the tasks for each of them.
ForEachListed(what, tasks) ==
    /\ open /\ IsNext(what)
    /\ Understood(Listed(cwd))
    /\ Replaced(what, FlattenSeq(tasks))
    /\ UNCHANGED <<server, local, home>>

\* Variant: what is neither a file nor a directory is left alone.
ClearedFilesOnly(file) ==
    IF isDirectory(file)
    THEN Enter(file.name, <<Command("clear", <<>>)>>) \o <<Relative("rmd", file.name)>>
    ELSE IF isFile(file) THEN <<Relative("dele", file.name)>> ELSE <<>>

Cleared(file) ==
    IF isDirectory(file)
    THEN Enter(file.name, <<Command("clear", <<>>)>>) \o <<Relative("rmd", file.name)>>
    ELSE <<Relative("dele", file.name)>>

clearWorkingDir ==
    LET files == Files
    IN  ForEachListed("clear", [i \in 1 .. Len(files) |-> Cleared(files[i])])

\* Variant: the directory is removed from within.
FromWithin ==
    <<Command("clear", <<>>), Command("rmd", <<"">> \o cwd)>>

\* What removeDir has to do in the directory it entered, whose absolute path
\* it asks for.
RemovedTarget ==
    <<Command("clear", <<>>)>>
    \o IF cwd = <<>> THEN <<>>
       ELSE <<Command("cdup", <<>>), Command("rmd", <<"">> \o cwd)>>

EntersTarget ==
    /\ open
    /\ Replaced("target", RemovedTarget)
    /\ UNCHANGED <<server, local, home>>

\* Only local files and directories are uploaded.
Uploaded(file) ==
    LET name == <<Last(file)>>
    IN  CASE local[file] \in FileKinds -> <<Task("stor", name, file, cwd)>>
          [] local[file] = "dir" ->
                <<Relative("mkd", name)>> \o Enter(name, <<Task("upload", <<>>, file, None)>>)
          [] OTHER -> <<>>

_uploadToWorkingDir ==
    /\ IsNext("upload") /\ local[Head(todo).file] = "dir"
    /\ LET files == SetToSeq(Children(local, Head(todo).file))
       IN  Replaced("upload", FlattenSeq([i \in 1 .. Len(files) |-> Uploaded(files[i])]))
    /\ UNCHANGED <<server, local, home>>

\* The local directory is created before the remote one is listed.
ensureLocalDirectory ==
    LET file == Head(todo).file
    IN  /\ Replaced("download", <<Task("fetch", <<>>, file, None)>>)
        /\ IF local[file] # "none" THEN UNCHANGED local
           ELSE /\ file = <<>> \/ local[Parent(file)] = "dir"
                /\ local' = [local EXCEPT ![file] = "dir"]
        /\ UNCHANGED <<server, home>>

\* Names that are not the name of a file in a directory are skipped, and so
\* is what the listing does not call a file or a directory: links and special
\* files, but not the devices of a Unix listing.
Downloaded(file) ==
    LET to == Head(todo).file \o file.name
    IN  IF Len(file.name) # 1 \/ file.name = <<"">> THEN <<>>
        ELSE CASE isDirectory(file) -> Enter(file.name, <<Task("download", <<>>, to, None)>>)
               [] isFile(file) -> <<Task("retr", file.name, to, cwd)>>
               [] OTHER -> <<>>

_downloadFromWorkingDir ==
    LET files == Files
    IN  ForEachListed("fetch", [i \in 1 .. Len(files) |-> Downloaded(files[i])])

-----------------------------------------------------------------------------
(* Failures *)

\* What a transfer that fails may leave behind: some of the new content, or
\* what was there; locally also nothing, as an empty file is removed.
Remains ==
    LET failing == Head(todo)
    IN  CASE failing.do = "stor" /\ CanStore ->
                /\ remote' \in {remote, [remote EXCEPT ![Target] = "partial"]}
                /\ UNCHANGED <<cwd, local>>
          [] failing.do = "retr" /\ CanCreate(failing.file) ->
                /\ \E left \in {local[failing.file], "partial", "none"} :
                      local' = [local EXCEPT ![failing.file] = left]
                /\ UNCHANGED server
          [] OTHER -> UNCHANGED <<server, local>>

\* Variant: a directory that cannot be entered is ignored as well.
IgnoresCd(task) == open /\ task.do \in {"mkd", "cd"}

\* sendIgnoringError.
Ignored(task) == open /\ task.do = "mkd"

\* Variant: the operation ends where it failed.
EndsThere(task) == <<>>

\* What is left to do after a task has failed.
Finally(task) ==
    IF Last(todo).do = "return" /\ task.do # "pwd" THEN <<Last(todo)>> ELSE <<>>

\* Any task can fail: refused, not possible, or on a closed client.
Fails ==
    /\ todo # <<>> /\ ~IsNext("return")
    /\ Remains
    /\ IF Ignored(Head(todo))
       THEN todo' = Tail(todo) /\ UNCHANGED result
       ELSE todo' = Finally(Head(todo)) /\ result' = "error"
    /\ UNCHANGED <<session, home, call, astray>>

\* The directory may be gone, or the server refuse.
Returns ==
    /\ IsNext("return")
    /\ todo' = Tail(todo)
    /\ \/ open /\ Kind(remote, home) = "dir" /\ cwd' = home /\ UNCHANGED astray
       \/ UNCHANGED cwd /\ astray' = (open /\ Kind(remote, home) = "dir")
    /\ UNCHANGED <<remote, local, session, home, result, call>>

Closes ==
    /\ open /\ todo # <<>>
    /\ open' = FALSE
    /\ UNCHANGED <<server, local, style, todo, home, result, call, astray>>

-----------------------------------------------------------------------------
(* The specification *)

NoOperation == [name |-> "none", arg |-> <<>>]

\* DOS listings have neither links, devices nor special files, and do not tell
\* the blank before a name from their own.
Listable(tree) ==
    \A p \in Paths : p # <<>> /\ tree[p] # "none" =>
        tree[p] \notin {"link", "special", "device"} /\ Last(p) \notin DOMAIN Blanks

DirectoryInit ==
    /\ style \in Styles
    /\ remote \in RemoteTrees /\ local \in LocalTrees
    /\ style = "dos" => Listable(remote) /\ Listable(local)
    /\ before = remote
    /\ cwd = <<>> /\ home = <<>> /\ goal = <<>> /\ start = <<>>
    /\ open = TRUE
    /\ todo = <<>>
    /\ result = "ok"
    /\ op = NoOperation
    /\ astray = FALSE
    /\ calls = 0

Begin(o) ==
    /\ open /\ todo = <<>> /\ calls < MaxOperations
    /\ todo' = Plan(o)
    /\ op' = o
    /\ goal' = IF o.name = "remove" THEN Walk(o.arg) ELSE Follow(Walk(o.arg))
    /\ before' = remote /\ start' = cwd
    /\ result' = "ok"
    /\ astray' = FALSE
    /\ calls' = calls + 1
    /\ UNCHANGED <<server, local, session, home>>

Reconnects ==
    /\ ~open /\ todo = <<>>
    /\ open' = TRUE
    /\ cwd' = <<>>
    /\ op' = NoOperation
    /\ before' = remote
    /\ UNCHANGED <<remote, local, style, todo, home, result, goal, start, astray, calls>>

DirectoryNext ==
    \/ \E o \in Operations : Begin(o)
    \/ PrintsDirectory \/ ChangesDirectory \/ ChangesToParent \/ MakesDirectory
    \/ RemovesFile \/ RemovesDirectory \/ Stores \/ Retrieves
    \/ clearWorkingDir \/ EntersTarget \/ _uploadToWorkingDir
    \/ ensureLocalDirectory \/ _downloadFromWorkingDir
    \/ Fails \/ Returns \/ Closes \/ Reconnects

DirectorySpec == DirectoryInit /\ [][DirectoryNext]_vars

-----------------------------------------------------------------------------
(* Properties *)

DirectoryTypeOK ==
    /\ remote \in Trees /\ local \in Trees /\ before \in Trees
    /\ \A p \in Paths : remote[p] # "none" => remote[Parent(p)] = "dir"
    /\ Kind(remote, cwd) = "dir"
    /\ home \in Paths
    /\ style \in Styles
    /\ open \in BOOLEAN /\ astray \in BOOLEAN
    /\ result \in {"ok", "error"}
    /\ op \in Operations \cup {NoOperation}
    /\ calls \in 0 .. MaxOperations

\* Files and, in a Unix listing, devices.
ListedAsFile(p) == remote[p] \in FileKinds \/ (style = "unix" /\ remote[p] = "device")

\* What list() returns are the files of the working directory, every one of
\* them once, with its type and, for a link, a path to its target, in whatever
\* format the server lists them (parseList): no file is missed, and neither the
\* directory itself, nor its parent, nor a link's target is among them.  The
\* type is the entry's own but for the devices of a Unix listing, which the
\* parser calls files (parseListUnix.ts, "TODO change this if DEVICE_TYPE
\* implemented").
ListingIsFaithful ==
    LET files == Files
        children == Children(remote, cwd)
    IN  Understood(Listed(cwd)) =>
            /\ Len(files) = Cardinality(children)
            /\ \A p \in children : \E f \in ToSet(files) :
                  /\ f.name = <<Last(p)>>
                  /\ isDirectory(f) <=> remote[p] = "dir"
                  /\ isFile(f) <=> ListedAsFile(p)
                  /\ isSymbolicLink(f) <=> remote[p] = "link"
                  /\ remote[p] = "link" => f.link # None /\ Walk(f.link) = LinkTarget

\* A command for an entry of a listing is sent in the directory that was
\* listed, after all the directories entered, and left again, in between
\* (clearWorkingDir, _uploadToWorkingDir, _downloadFromWorkingDir).  This is so
\* as long as no directory to upload has the name of a link on the server:
\* such a link is entered, and left for its target's parent, which is shown by
\* LeavesUnrelatedUntouched.
ActsWhereListed ==
    todo # <<>> /\ open /\ Head(todo).at # None => cwd = Head(todo).at

Changed == {p \in Paths : remote[p] # before[p]}

\* Where the first parts of the operation's argument lead to.
WayTo(i) ==
    FoldLeft(Step, IF op.arg # <<>> /\ Head(op.arg) = "" THEN <<>> ELSE start, SubSeq(op.arg, 1, i))

\* The directories that MKD is sent for.  It is not protected as CWD is: of a
\* name with a leading blank the server makes what follows the blank.
MadeOnTheWay(p) == \E i \in 1 .. Len(op.arg) : p = Step(WayTo(i - 1), Unblanked(op.arg[i]))
MadeFor(p) ==
    \E q \in Paths : q # <<>> /\ local[q] = "dir" /\ p = goal \o Append(Parent(q), Unblanked(Last(q)))

UploadedTo(p) == IsPrefix(goal, p) /\ local[SubSeq(p, Len(goal) + 1, Len(p))] # "none"

\* No directory that is to be entered is a link.
NoDetour ==
    /\ \A i \in 1 .. Len(op.arg) - 1 : Kind(before, WayTo(i)) # "link"
    /\ op.name = "uploadFromDir" =>
          \A p \in Paths : p # <<>> /\ local[p] = "dir" => Kind(before, goal \o p) # "link"

\* At any time, failed or not, an operation has only changed what it is
\* about: removing and clearing remove at or below the directory, and never
\* through a link; making a directory adds only those its path leads through;
\* an upload adds these and the directories uploaded, and otherwise changes
\* only what has the name of something uploaded, and no directory; a download
\* changes nothing on the server.  Wherever a directory to make has a name with
\* a leading blank, one without that blank may be added instead (_openDir).
\* Excepted are uploads and ensureDir that enter a link; what happens then is
\* shown by LeavesUnrelatedUntouched.
ChangesOnlyItsOwn ==
    \A p \in Changed :
        CASE op.name = "removeDir" -> IsPrefix(goal, p) /\ remote[p] = "none"
          [] op.name = "clearWorkingDir" -> IsStrictPrefix(goal, p) /\ remote[p] = "none"
          [] op.name = "remove" -> p = goal
          [] op.name = "uploadFromDir" /\ NoDetour ->
                \/ UploadedTo(p) /\ before[p] # "dir"
                \/ (MadeOnTheWay(p) \/ MadeFor(p)) /\ before[p] = "none"
          [] op.name = "ensureDir" /\ NoDetour -> MadeOnTheWay(p) /\ before[p] = "none"
          [] OTHER -> op.name \in {"uploadFromDir", "ensureDir"}

Finished == todo = <<>> /\ op # NoOperation

\* Whether an operation worked or failed, the working directory is afterwards
\* the one it was called in, unless that was removed, the server refused to go
\* there, or the client is closed (_exitAtCurrentDirectory).
ReturnsHome ==
    Finished /\ open /\ ~astray
        /\ op.name \in {"removeDir", "uploadFromDir", "downloadToDir"} =>
            cwd = start \/ remote[start] # "dir"

\* An operation that reports no failure has done all of what it is for: the
\* directory is gone, or empty; every local file and directory is on the
\* server, or every remote one in the local directory; the directory exists
\* and is entered.  (The directory is the one its path names: the instances
\* have no argument with a link before its last name.)
SuccessIsComplete ==
    Finished /\ result = "ok" =>
        CASE op.name = "removeDir" ->
                \A p \in Paths : IsPrefix(goal, p) /\ p # <<>> => remote[p] = "none"
          [] op.name = "clearWorkingDir" -> Children(remote, goal) = {}
          [] op.name = "uploadFromDir" ->
                \A p \in Paths : local[p] \in FileKinds \cup {"dir"} =>
                    Kind(remote, goal \o p) = local[p]
          [] op.name = "downloadToDir" ->
                \A p \in Paths : IsPrefix(goal, p) =>
                    LET to == local[SubSeq(p, Len(goal) + 1, Len(p))]
                    IN  /\ remote[p] \in FileKinds => to = remote[p]
                        /\ remote[p] = "dir" => to # "none"
          [] op.name = "ensureDir" -> Kind(remote, goal) = "dir" /\ cwd = goal
          [] op.name = "cd" -> cwd = goal
          [] op.name = "remove" -> Kind(remote, goal) = "none"

\* "Unrelated files and directories will remain untouched" (uploadFromDir):
\* what was there before is only changed if it has the name, below the remote
\* directory, of something uploaded.
LeavesUnrelatedUntouched ==
    op.name = "uploadFromDir" =>
        \A p \in Changed : before[p] # "none" => UploadedTo(p)
=============================================================================
