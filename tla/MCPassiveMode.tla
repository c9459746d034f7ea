---------------------------- MODULE MCPassiveMode ----------------------------
(* Small instances of PassiveMode for TLC. *)
EXTENDS PassiveMode

V4(a, b, c, d) == [mapped |-> FALSE, octets |-> <<a, b, c, d>>]
Mapped(host) == [host EXCEPT !.mapped = TRUE]

\* Public, private and loopback hosts in both forms, and ::1.
SomeHosts ==
    {V4(8, 8, 8, 8), Mapped(V4(8, 8, 8, 8)), V4(172, 31, 0, 1), V4(172, 32, 0, 1),
     Mapped(V4(192, 168, 0, 1)), V4(127, 0, 0, 1), V4(127, 0, 0, 2),
     [mapped |-> FALSE, octets |-> <<>>]}
=============================================================================
