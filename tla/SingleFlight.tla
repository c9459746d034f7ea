---------------------------- MODULE SingleFlight ----------------------------
(***************************************************************************)
(* What an FTPContext promises to the code that launches tasks on it,      *)
(* without sockets, timers or replies: the README's "one task at a time"   *)
(* contract.  Every call of handle() returns a promise; at most one        *)
(* promise is pending; a call made while one is pending closes the         *)
(* context and rejects both; a closed context refuses every call until a   *)
(* connect() reopens it; and a pending promise is eventually settled.      *)
(***************************************************************************)
CONSTANT Tasks    \* the calls of handle(), each made at most once

VARIABLES
    state,        \* state[t]: the promise returned by call t
    isOpen        \* FALSE between a close and the next connect()

sfVars == <<state, isOpen>>

Pending == {t \in Tasks : state[t] = "pending"}

SFTypeOK ==
    /\ state \in [Tasks -> {"unused", "pending", "resolved", "rejected"}]
    /\ isOpen \in BOOLEAN

SFInit ==
    /\ state = [t \in Tasks |-> "unused"]
    /\ isOpen = TRUE

\* A call on an open context with nothing pending.
Begin(t) ==
    /\ state[t] = "unused"
    /\ Pending = {}
    /\ isOpen
    /\ state' = [state EXCEPT ![t] = "pending"]
    /\ UNCHANGED isOpen

\* A call on a closed context: its promise is rejected at once.
Refuse(t) ==
    /\ state[t] = "unused"
    /\ ~isOpen
    /\ state' = [state EXCEPT ![t] = "rejected"]
    /\ UNCHANGED isOpen

\* A call while another one is pending: both are rejected.
Collide(t) ==
    /\ state[t] = "unused"
    /\ Pending # {}
    /\ state' = [u \in Tasks |-> IF u = t \/ u \in Pending
                                 THEN "rejected" ELSE state[u]]
    /\ isOpen' = FALSE

\* connect() reopens a closed context and is itself the pending call.
Reopen(t) ==
    /\ state[t] = "unused"
    /\ Pending = {}
    /\ state' = [state EXCEPT ![t] = "pending"]
    /\ isOpen' = TRUE

Settle(t) ==
    /\ state[t] = "pending"
    /\ \E how \in {"resolved", "rejected"} : state' = [state EXCEPT ![t] = how]
    /\ UNCHANGED isOpen

\* Closing rejects whatever is pending.
Close ==
    /\ isOpen
    /\ isOpen' = FALSE
    /\ state' = [u \in Tasks |-> IF u \in Pending THEN "rejected" ELSE state[u]]

SFNext ==
    \/ \E t \in Tasks : Begin(t) \/ Refuse(t) \/ Collide(t) \/ Reopen(t) \/ Settle(t)
    \/ Close

\* A pending promise does not stay pending.
SFFairness == WF_sfVars(Pending # {} /\ (Close \/ \E t \in Tasks : Settle(t)))

SFSpec == SFInit /\ [][SFNext]_sfVars /\ SFFairness
=============================================================================
