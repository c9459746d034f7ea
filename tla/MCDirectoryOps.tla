--------------------------- MODULE MCDirectoryOps ---------------------------
(* Small instances of DirectoryOps for TLC. *)
EXTENDS DirectoryOps, TLC

SomeBlanks == " b" :> "b"

\* The tree of the given files, and nothing else.
Tree(files) == files @@ [p \in Paths |-> "none"]

Link == <<" b">>

\* Nested directories with files, a link, a special file and blank names; a
\* file in the way of a directory; a device; nothing.
SomeRemoteTrees ==
    {Tree(<<>> :> "dir" @@ <<"a">> :> "dir" @@ <<"a", "a">> :> "dir" @@
          <<"a", "a", " b">> :> "remote" @@ <<"a", "b">> :> "link" @@
          <<"a", " b">> :> "special" @@ <<" b">> :> "dir" @@ <<" b", "b">> :> "remote"),
     Tree(<<>> :> "dir" @@ <<"a">> :> "dir" @@ <<"a", "a">> :> "remote" @@ <<"b">> :> "dir" @@
          <<"b", "b">> :> "remote"),
     Tree(<<>> :> "dir" @@ <<"a">> :> "dir" @@ <<"a", "b">> :> "device"),
     Tree(<<>> :> "dir")}

\* A nested directory and a file; one whose files are in the way; a directory
\* with a blank name; none.
SomeLocalTrees ==
    {Tree(<<>> :> "dir" @@ <<"a">> :> "dir" @@ <<"a", "b">> :> "local" @@ <<"b">> :> "local"),
     Tree(<<>> :> "dir" @@ <<"a">> :> "local" @@ <<" b">> :> "local"),
     Tree(<<>> :> "dir" @@ <<" b">> :> "dir" @@ <<" b", "a">> :> "local"),
     Tree(<<>> :> "none")}

Call(name, arg) == [name |-> name, arg |-> arg]

SomeOperations ==
    {Call("removeDir", <<"a">>), Call("removeDir", <<"", "">>), Call("removeDir", <<"..">>),
     Call("clearWorkingDir", <<>>),
     Call("uploadFromDir", <<>>), Call("uploadFromDir", <<"a">>),
     Call("downloadToDir", <<>>), Call("downloadToDir", <<"a">>),
     Call("ensureDir", <<"", "a", "a">>), Call("ensureDir", <<"a", "..", " b">>),
     Call("cd", <<"a">>), Call("remove", <<" b">>)}

\* A link where a directory is uploaded to, and an unrelated file beside the
\* target of the link with the name of a file to upload.
LinkedDirectory == <<"a", "a">>
LinkInTheWay ==
    {Tree(<<>> :> "dir" @@ <<"b">> :> "dir" @@ <<"b", "a">> :> "link" @@
          <<"a">> :> "dir" @@ <<"a", "a">> :> "dir" @@ <<"a", "b">> :> "remote")}
DirectoryAndFile == {Tree(<<>> :> "dir" @@ <<"a">> :> "dir" @@ <<"b">> :> "local")}
UploadThere == {Call("uploadFromDir", <<"b">>)}
=============================================================================
