------------------------------ MODULE MCAccess ------------------------------
(* Small instances of Access for TLC. *)
EXTENDS Access

TwoCalls == {"first", "second"}
OneCall == {"first"}
TasksOfTwo == TwoCalls \X Steps
TasksOfOne == OneCall \X Steps

UnevenServer == {"badCommand", "delayedGreeting"}
=============================================================================
