-------------------------- MODULE MCControlResponse --------------------------
(* Small instances of ControlResponse for TLC. *)
EXTENDS ControlResponse

Single  == <<"2", "2", " ", "x", LF>>
Failure == <<"5", "5", " ", "x", LF>>
Bare    == <<"2", "2", LF>>
Multi   == <<"2", "2", "-", "x", LF, "x", LF, "2", "2", " ", "x", LF>>
\* A group with a line in which more text follows its code at once.
Glued   == <<"2", "2", "-", LF, "2", "2", "x", LF, "2", "2", " ", LF>>
\* Lines of a group that begin with another code, with the same code and a
\* dash, or that are blank.
Nested  == <<"2", "2", "-", LF, "5", "5", " ", LF, "2", "2", "-", LF,
             " ", LF, "2", "2", LF>>

\* A group of more text than the maximum size.
Long    == <<"2", "2", "-", LF, "x", "x", "x", "x", "x", "x", LF,
             "x", "x", "x", "x", "x", "x", LF, "2", "2", LF>>

SomeReplies == {Single, Failure, Bare, Multi, Glued, Nested, Long}
=============================================================================
