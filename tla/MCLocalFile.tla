----------------------------- MODULE MCLocalFile -----------------------------
(* Small instances of LocalFile for TLC. *)
EXTENDS LocalFile, TLC

CONSTANTS f, g

Call(kind, file, from, to) == [kind |-> kind, file |-> file, from |-> from, to |-> to]

\* From the start, continued, in a range; into the same file and another.
SomeParams ==
    {Call("download", f, 0, -1), Call("download", f, 1, -1), Call("download", g, 0, -1),
     Call("upload", f, 0, -1), Call("upload", f, 1, 1), Call("upload", f, 0, 0)}

\* The first file is missing, empty or there; the second is missing.
SomeDisks == {f :> content @@ g :> None :
                 content \in {None, <<>>, <<<<None, 0>>, <<None, 1>>>>}}

CallSymmetry == Permutations(Calls)

\* Two downloads to different files.
Downloads == {Call("download", f, 0, -1), Call("download", g, 0, -1)}
=============================================================================
