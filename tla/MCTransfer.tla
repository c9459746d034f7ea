----------------------------- MODULE MCTransfer -----------------------------
(* Small instances of Transfer for TLC. *)
EXTENDS Transfer, TLC

SlowLocalStream == {"slowLocalStream"}
AllQuirks == {"badCommand", "delayedGreeting", "unsolicited",
              "slowLocalStream", "localAbort", "abandonedDial"}

\* The calls are interchangeable; used in the runs without liveness.
TaskSymmetry == Permutations(Tasks)
=============================================================================
