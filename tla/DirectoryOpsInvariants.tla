----------------------- MODULE DirectoryOpsInvariants -----------------------
(***************************************************************************)
(* The terms in which DirectoryOps is proved about: the sets its tasks and *)
(* listings are in, and the parts of the inductive invariants.             *)
(***************************************************************************)
EXTENDS DirectoryOps

-----------------------------------------------------------------------------
(* Names, lines, files and tasks *)

\* The parts of paths, and of all names that are read or sent.
Parts == Names \cup {"", ".."}
AllParts == Parts \cup {".", "total"} \cup {Blanks[b] : b \in DOMAIN Blanks}

FileName == Seq(AllParts) \ {<<>>}
OptionalName == FileName \cup {None}
OptionalPath == Paths \cup {None}

ListedLine ==
    [format : {"total", "unix", "mlsd", "dos", "other"},
     kind : {"none", "file", "dir", "link", "special", "device", "slink", "symlink", "cdir", "pdir"},
     name : FileName, link : OptionalName, id : OptionalPath]

File ==
    [name : FileName, type : {"File", "Directory", "SymbolicLink", "Unknown"},
     link : OptionalName, uniqueID : OptionalPath]

FileList == Seq(File)
LineList == Seq(ListedLine)

Tasks ==
    {task \in [do : {"pwd", "cd", "cdup", "mkd", "dele", "rmd", "stor", "retr", "clear", "target",
                     "upload", "download", "fetch", "return"},
               arg : Seq(AllParts), file : Seq(AllParts), at : OptionalPath] :
        task.do \in {"stor", "upload"} => task.file \in Paths}

\* The tasks between the first and the last of an excursion.
InnerTask == {task \in Tasks : task.do \notin {"pwd", "return"}}
InnerTasks == Seq(InnerTask)

Commands == {"cd", "cdup", "mkd", "dele", "rmd", "clear", "target", "upload", "download"}

-----------------------------------------------------------------------------
(* The way home *)

Returning == {"removeDir", "uploadFromDir", "downloadToDir"}

Return == Command("return", <<>>)

\* Tasks of which the last, and no other, returns.
GoesHome(tasks) ==
    tasks # <<>> /\ Last(tasks) = Return /\ Front(tasks) \in InnerTasks

Placed ==
    /\ remote \in Trees /\ local \in Trees
    /\ cwd \in Paths /\ home \in Paths /\ start \in Paths
    /\ style \in Styles
    /\ todo \in Seq(Tasks)

\* An excursion begins where it was called; from when it has asked for that
\* directory, it is to return there; and it has returned when it is done.
Homing ==
    op.name \in Returning =>
        \/ todo # <<>> /\ Head(todo).do = "pwd" /\ cwd = start /\ GoesHome(Tail(todo))
        \/ home = start /\ GoesHome(todo)
        \/ todo = <<>> /\ (open /\ ~astray => cwd = start \/ remote[start] # "dir")

HomeInv == Placed /\ Homing

-----------------------------------------------------------------------------
(* Where each task begins *)

\* Where the server is: in the directory, in one that is not known, or in a
\* wrong one.
Places == [at : Seq(AllParts), is : {"known", "unknown", "wrong"}]

Here(path) == [at |-> path, is |-> "known"]

\* A directory is removed by its absolute path from its parent (RemovedTarget).
FromParent(at, arg) == \E p \in Paths \ {<<>>} : arg = <<"">> \o p /\ at = Parent(p)

\* Whether a task is begun where it is meant to be.
Belongs(place, task) ==
    /\ task.at # None => place.is = "known" /\ place.at = task.at
    /\ task.do = "cdup" => place.is = "known"
    /\ task.do = "rmd" /\ task.at = None =>
          place.is = "known" /\ FromParent(place.at, task.arg)

\* Where it leads to.
Leads(place, task) ==
    [at |-> IF task.do = "cd" /\ task.at # None THEN task.at \o task.arg
            ELSE IF task.do = "cdup" THEN Parent(place.at)
            ELSE place.at,
     is |-> IF place.is = "wrong" \/ ~Belongs(place, task) THEN "wrong"
            ELSE IF task.do = "cd" /\ task.at # None THEN "known"
            ELSE IF task.do \in {"cd", "target", "return"} THEN "unknown"
            ELSE place.is]

Located == FoldLeft(Leads, Here(cwd), todo).is # "wrong"

\* Tasks that can begin anywhere.
LooseTask == {task \in Tasks : task.at = None /\ task.do \notin {"cdup", "rmd"}}
LooseTasks == Seq(LooseTask)

WrongPlaces == {place \in Places : place.is = "wrong"}
RightPlaces == {place \in Places : place.is # "wrong"}

\* The first place is as right as the second, and no better known.
Vaguer == {pair \in Places \X Places :
              pair[1].is # "wrong" =>
                  /\ pair[2].is # "wrong"
                  /\ pair[1].is = "known" => pair[2].is = "known" /\ pair[1].at = pair[2].at}

-----------------------------------------------------------------------------
(* The files of a listing *)

\* DOS listings are of trees without links.
DosIsPlain == style = "dos" => \A p \in Paths : remote[p] # "link"

Listing == remote \in Trees /\ style \in Styles /\ cwd \in Paths /\ DosIsPlain

\* The name of something in the working directory; a directory, if so
\* stated, is not a link to one.
NamesOwn(name, directory) ==
    \E n \in Names : name = <<n>> /\ (directory => Kind(remote, Append(cwd, n)) # "link")

OwnLine ==
    {line \in ListedLine :
        \/ line.format = "total" \/ line.name \in {<<".">>, <<"..">>}
        \/ /\ line.format = "mlsd"
           /\ line.kind \in {"cdir", "pdir"} \/ line.name = <<"">> \/ Len(line.name) # 1
        \/ NamesOwn(line.name, line.kind = "dir") /\ (line.format = "dos" => style = "dos")}

OwnEntry == {line \in OwnLine : line.format # "total"}

OwnFile == {file \in File : NamesOwn(file.name, isDirectory(file))}
OwnOrTarget == OwnFile \cup {file \in File : Len(file.name) # 1}

OwnLines == Seq(OwnLine)
OwnEntries == Seq(OwnEntry)
OwnFiles == Seq(OwnFile)

-----------------------------------------------------------------------------
(* What keeps an operation in its place *)

\* A command for an entry of a listing is given its name, an upload uploads
\* files, and only a removal removes a directory by its path.
SoundTask ==
    {task \in Tasks :
        /\ task.at # None => \E n \in Names : task.arg = <<n>>
        /\ task.do = "stor" => task.at # None /\ local[task.file] \in FileKinds
        /\ task.do = "return" => task.at = None
        /\ task.do = "upload" => op.name = "uploadFromDir"
        /\ task.do = "target" \/ (task.do = "rmd" /\ task.at = None) => op.name = "removeDir"}

\* A directory that is entered from its parent is not behind a link.
StraightTask ==
    {task \in Tasks :
        task.do = "cd" /\ task.at # None => Kind(remote, task.at \o task.arg) # "link"}

SoundTasks == Seq(SoundTask)
StraightTasks == Seq(StraightTask)

Sited == Located /\ todo \in StraightTasks

Typed ==
    /\ before \in Trees
    /\ open \in BOOLEAN /\ astray \in BOOLEAN
    /\ result \in {"ok", "error"}
    /\ op \in Operations \cup {NoOperation}
    /\ calls \in 0 .. MaxOperations

Based ==
    /\ HomeInv
    /\ IsTree(remote)
    /\ Kind(remote, cwd) = "dir"
    /\ DosIsPlain
    /\ todo \in SoundTasks

\* An upload may meet a link where it expects a directory; nothing else can
\* lose its way.
DirectoryInv == Based /\ Typed /\ (op.name # "uploadFromDir" => Sited)

\* No directory to upload has the name of a link where it is uploaded to.
NoLinkInTheWay ==
    IsNext("upload") =>
        \A p \in Children(local, Head(todo).file) :
            local[p] = "dir" => Kind(remote, Append(cwd, Last(p))) # "link"

-----------------------------------------------------------------------------
(* Tasks in a plan and in a loop *)

\* ensureDir makes one directory at a time.
OpensOne(arg) == \E name \in Names \cup {".."} : arg = <<name>>

\* The tasks an operation begins with.
Planned(o) ==
    {task \in LooseTask :
        /\ task.do \notin {"stor", "retr", "fetch"}
        /\ task.do = "download" => task.file = <<>>
        /\ task.do = "mkd" => OpensOne(task.arg)
        /\ task.do = "upload" => o.name = "uploadFromDir"
        /\ task.do = "target" => o.name = "removeDir"}

OpenTask ==
    {task \in LooseTask : task.do \in {"mkd", "cd"} /\ (task.do = "mkd" => OpensOne(task.arg))}
OpenTasks == Seq(OpenTask)

\* Only the server's files and directories are added, and only where the
\* directory they are in exists; only what is empty is removed.
RemoteChange ==
    /\ IsTree(remote')
    /\ \A p \in Paths : remote'[p] = "link" => remote[p] = "link"
    /\ remote[cwd] = "dir" => remote'[cwd] = "dir"

FilesStay == \A p \in Paths : local[p] \in FileKinds => local'[p] \in FileKinds

LinksOnlyGo == \A p \in Paths : remote'[p] = "link" => remote[p] = "link"

\* A task that goes nowhere, whatever comes of it later.
InsideTask ==
    {task \in SoundTask : task.at = None /\ task.do \in {"clear", "upload", "download", "fetch"}}

-----------------------------------------------------------------------------
(* What an operation is about *)

Removes == op.name \in {"removeDir", "clearWorkingDir"}

\* The tasks of an operation in its directory: every one that names a directory
\* names that one or one below, and files have the same place in both trees.
OwnTask ==
    {task \in SoundTask :
        /\ task.do \in IF Removes THEN {"cd", "cdup", "clear", "dele", "rmd", "return"}
                       ELSE IF op.name = "downloadToDir"
                            THEN {"cd", "cdup", "download", "fetch", "retr", "return"}
                            ELSE {"cd", "cdup", "mkd", "upload", "stor", "return"}
        /\ task.do \in {"cd", "mkd", "dele", "retr"} => task.at # None
        /\ task.at # None => IsPrefix(goal, task.at)
        /\ task.do = "rmd" /\ task.at = None => task.arg = <<"">> \o goal
        /\ task.do \in {"download", "fetch", "upload", "retr", "stor"} => task.file \in Seq(Names)
        /\ task.do \in {"retr", "stor"} => goal \o task.file = task.at \o task.arg}

\* Directories are only cleared, downloaded and uploaded to when they have just
\* been entered.
Listings == {"clear", "download", "fetch", "upload"}

Precedes(enter, task) ==
    enter.do = "cd" /\ (task.do # "clear" => goal \o task.file = enter.at \o enter.arg)

Led(tasks) ==
    \A i \in 1 .. Len(tasks) :
        tasks[i].do \in Listings => i > 1 /\ Precedes(tasks[i - 1], tasks[i])

LedTasks == {tasks \in Seq(OwnTask) : Led(tasks)}

Inside ==
    \/ todo \in LedTasks
    \/ /\ todo # <<>> /\ Head(todo) \in OwnTask /\ Tail(todo) \in LedTasks
       /\ Head(todo).do \in Listings /\ IsPrefix(goal, cwd)
       /\ Head(todo).do # "clear" => cwd = goal \o Head(todo).file

OnlyRemoved ==
    \A p \in Changed :
        remote[p] = "none" /\ IsPrefix(goal, p) /\ (op.name = "clearWorkingDir" => p # goal)

\* The way of removeDir to its directory, whose path it follows first.
Pwd == Command("pwd", <<>>)
ToTarget == Command("cd", op.arg)
AtTarget == Command("target", <<>>)
Way == <<ToTarget, AtTarget, Return>>

Removing ==
    \/ /\ remote = before /\ goal = Follow(Walk(op.arg))
       /\ todo \in {<<Pwd>> \o Way, Way}
    \/ remote = before /\ goal = cwd /\ todo = Tail(Way)
    \/ Inside /\ OnlyRemoved

\* Tasks that change nothing on the server.
QuietTask ==
    {task \in Tasks :
        task.do \notin {"mkd", "dele", "rmd", "stor", "clear", "target", "upload"}}

Owned ==
    /\ goal \in Seq(Names)
    /\ op.name = "removeDir" => Removing
    /\ op.name = "clearWorkingDir" => Inside /\ OnlyRemoved
    /\ op.name = "remove" =>
          \/ remote = before /\ goal = Walk(op.arg) /\ todo = <<Command("dele", op.arg)>>
          \/ todo = <<>> /\ \A p \in Changed : p = goal
    /\ op.name \in {"cd", "downloadToDir", "none"} => remote = before /\ todo \in Seq(QuietTask)

-----------------------------------------------------------------------------
(* What becomes of an entry *)

EntryOf == [line \in ListedLine |-> IF IsEntry(line) THEN <<line>> ELSE <<>>]
ReadBy(parser) == [line \in ListedLine |-> parseLine(parser, line)]
ReadEntry(parser) == [line \in ListedLine |-> IF IsEntry(line) THEN parseLine(parser, line) ELSE <<>>]
KeptOf(files) ==
    [file \in File |-> IF Len(file.name) = 1 THEN <<Resolved(file, files)>> ELSE <<>>]

KindOf(path) == IF remote[path] \in FileKinds THEN "file" ELSE remote[path]

\* The format that the server's lines are in.
Format == IF style \in {"slink", "symlink"} THEN "mlsd" ELSE style

\* The file that a parser reads from a line, as it is stated there.
AsStated(parser, line) ==
    [name |-> line.name, type |-> FileType(parser, line.kind),
     link |-> line.link, uniqueID |-> line.id]

\* The file that a parser reads for an entry, before links are resolved, and
\* the one for the target of a link.
FileOf(path) ==
    [name |-> <<Last(path)>>, type |-> FileType(Format, KindOf(path)),
     link |-> IF remote[path] = "link" /\ style # "symlink" THEN Absolute(LinkTarget) ELSE None,
     uniqueID |-> IF style \notin {"slink", "symlink"} THEN None
                  ELSE IF remote[path] = "link" /\ style = "symlink" THEN LinkTarget
                  ELSE path]

TargetFile ==
    [name |-> Absolute(LinkTarget), type |-> "Directory", link |-> None, uniqueID |-> LinkTarget]

FilesBy(path) ==
    IF style = "symlink" /\ remote[path] = "link" THEN <<FileOf(path), TargetFile>>
    ELSE <<FileOf(path)>>

\* The line states the entry, alone or, for a link, before one for its target.
States(line, path) ==
    /\ line.format = Format /\ line.name = <<Last(path)>>
    /\ line.kind \notin {"cdir", "pdir"}
    /\ FileType(Format, line.kind) = FileOf(path).type
    /\ style \notin {"dos", "other"} =>
          line.link = FileOf(path).link /\ line.id = FileOf(path).uniqueID
    /\ style \in {"dos", "other"} => line.link = None /\ line.id = None
    /\ LinesOf(path) =
          IF style = "symlink" /\ remote[path] = "link"
          THEN <<line, Line("mlsd", "dir", Absolute(LinkTarget), None, LinkTarget)>>
          ELSE <<line>>

LinesByAll == [path \in Children(remote, cwd) |-> LinesOf(path)]
FilesByAll == [path \in Children(remote, cwd) |-> FilesBy(path)]

\* What precedes the entries.
HeadLines ==
    CASE style = "unix" ->
            <<Line("total", "none", <<"total">>, None, None),
              Line("unix", "dir", <<".">>, None, None),
              Line("unix", "dir", <<"..">>, None, None)>>
      [] style \in {"slink", "symlink"} ->
            <<Line("mlsd", "cdir", Absolute(cwd), None, cwd),
              Line("mlsd", "pdir", <<"..">>, None, Parent(cwd))>>
      [] OTHER -> <<>>

\* The lines that the server writes for the working directory.
FormatLine == {line \in ListedLine : line.format \in {"total", Format}}
FormatEntry == {line \in FormatLine : line.format = Format}

\* The file has the name and the type of the entry, and a link a path to where
\* it leads.
Describes(f, path) ==
    /\ f.name = <<Last(path)>>
    /\ isDirectory(f) <=> remote[path] = "dir"
    /\ isFile(f) <=> ListedAsFile(path)
    /\ isSymbolicLink(f) <=> remote[path] = "link"
    /\ remote[path] = "link" => f.link # None /\ Walk(f.link) = LinkTarget

-----------------------------------------------------------------------------
(* Listings in DOS format *)

PlainNames == Names \ DOMAIN Blanks

\* Tasks that create nothing with a blank before its name.
PlainTask ==
    {task \in Tasks :
        /\ task.do = "mkd" => OpensOne(task.arg)
        /\ task.do = "stor" => \E n \in PlainNames : task.arg = <<n>>
        /\ task.do \in {"retr", "download", "fetch"} =>
              task.file = <<>> \/ Last(task.file) \notin DOMAIN Blanks}

Plain ==
    style = "dos" => Listable(remote) /\ Listable(local) /\ todo \in Seq(PlainTask)

\* Directories, files and what is left of files are created with plain names.
PlainChange(tree, new) ==
    \/ new = tree
    \/ \E p, v : /\ new = [tree EXCEPT ![p] = v] /\ v \notin {"link", "special", "device"}
                 /\ v # "none" /\ p # <<>> => Last(p) \notin DOMAIN Blanks

-----------------------------------------------------------------------------
(* Operations that have not failed *)

\* The next task is done, or refused and ignored.
DoneWell ==
    /\ todo' = Tail(todo)
    /\ Head(todo).do \notin {"clear", "target", "upload", "download", "fetch"}
    /\ Head(todo).do = "cd" => Kind(remote, Follow(Target)) = "dir" /\ cwd' = Follow(Target)
    /\ Head(todo).do = "cdup" => cwd' = Parent(cwd)
    /\ Head(todo).do \notin {"cd", "cdup", "return"} => cwd' = cwd
    /\ Head(todo).do = "mkd" =>
          \/ remote' = remote
          \/ /\ Target \in Paths /\ remote[Target] = "none"
             /\ remote' = [remote EXCEPT ![Target] = "dir"]
    /\ Head(todo).do \in {"dele", "rmd"} => remote' = [remote EXCEPT ![Target] = "none"]
    /\ Head(todo).do = "stor" =>
          CanStore /\ remote' = [remote EXCEPT ![Target] = local[Head(todo).file]]
    /\ Head(todo).do \notin {"mkd", "dele", "rmd", "stor"} => remote' = remote
    /\ Head(todo).do = "retr" =>
          /\ Kind(remote, Target) \in FileKinds
          /\ local' = [local EXCEPT ![Head(todo).file] = remote[Target]]
    /\ Head(todo).do # "retr" => local' = local

Loops ==
    \/ clearWorkingDir \/ EntersTarget \/ _uploadToWorkingDir
    \/ ensureLocalDirectory \/ _downloadFromWorkingDir

Idle == UNCHANGED <<remote, cwd, local, todo>>

\* A command that removes the entry from the directory the removal is about.
Covers(task, p) ==
    task.do \in {"dele", "rmd"} /\ task.at = goal /\ task.arg = <<Last(p)>>

\* Files and directories have the same path below both directories.
Fetched(f) ==
    /\ remote[goal \o f] \in FileKinds => local[f] = remote[goal \o f]
    /\ remote[goal \o f] = "dir" => local[f] # "none"

\* A task that fetches it, or a directory that it is in.
Fetches(task, f) ==
    \/ task.do = "download" /\ \E r \in Seq(Names) : f = task.file \o r
    \/ task.do = "fetch" /\ \E n \in Names, r \in Seq(Names) : f = Append(task.file, n) \o r
    \/ task.do = "retr" /\ f = task.file

Wanted == {f \in Paths : goal \o f \in Paths /\ remote[goal \o f] \in FileKinds \cup {"dir"}}

\* The way of downloadToDir to its directory.
Down == Command("download", <<>>)
GoTo(arg) == IF arg = <<>> THEN <<>> ELSE <<Command("cd", arg)>>
ToDown == IF op.arg = <<>> THEN <<Down, Return>> ELSE <<ToTarget>> \o <<Down, Return>>

\* The tasks of ensureDir, and the path each of them leads to.
OpensTask ==
    {task \in Tasks : task.do = "mkd" \/ (task.do = "cd" /\ task.arg \in Seq(Parts) \ {<<>>})}
OpensTasks == Seq(OpensTask)

\* No directory on the way to the one to make is behind a link.
NoLinkOnTheWay ==
    IsNext("cd") /\ Tail(todo) # <<>> /\ Head(Tail(todo)).do \in {"mkd", "cd"} =>
        Kind(remote, Target) # "link"

-----------------------------------------------------------------------------
(* What an upload is about *)

Up == Command("upload", <<>>)
ToUpload == <<Up, Return>>

Due == {f \in Paths : local[f] \in FileKinds \cup {"dir"}}
Stored(f) == Kind(remote, goal \o f) = local[f]

\* A task that stores it, or a directory that it is in.
StoresIt(task, f) ==
    \/ task.do = "upload" /\ \E r \in Seq(Names) : f = task.file \o r
    \/ task.do = "stor" /\ f = task.file
=============================================================================
