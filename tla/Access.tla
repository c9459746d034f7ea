------------------------------- MODULE Access -------------------------------
(***************************************************************************)
(* Client.access(): connect, optionally upgrade to TLS, log in and apply   *)
(* the default settings, one awaited step after the other, on a context    *)
(* that may be closed, lost or timed out at any of them (src/Client.ts).   *)
(*                                                                         *)
(* A step that is a command is a task of FtpContext, named by the call of  *)
(* access() and the step.  Two steps are none: "handshake" is the wait in  *)
(* upgradeSocket, during which no task is tracked and no timeout is set,   *)
(* and "secured" the moment after the upgraded socket was installed.       *)
(*                                                                         *)
(* A program awaits access(); only when it hangs in the handshake it may   *)
(* give up waiting and call access() again.                                *)
(***************************************************************************)
EXTENDS FtpContext

CONSTANT Calls      \* the calls of access()

Steps == {"connect", "auth", "utf8", "login", "feat", "type", "stru",
          "utf8Again", "mlst", "pbsz", "prot"}

ASSUME AccessTasksAssumption == Tasks = Calls \X Steps

VARIABLES
    call,       \* the latest call of access()
    outcome,    \* the promise each call returned
    secure,     \* options.secure of the latest call
    at,         \* the position it has reached in its Plan
    hasTLS,     \* is the control socket a TLSSocket?
    mlsd        \* is availableListCommands the list that begins with MLSD?

accessVars == <<call, outcome, secure, at, hasTLS, mlsd>>
allVars == <<vars, accessVars>>

AccessInit ==
    /\ Init
    /\ call = None
    /\ outcome = [c \in Calls |-> "unused"]
    /\ secure = "none"
    /\ at = 1
    /\ hasTLS = FALSE
    /\ mlsd = FALSE

\* The steps of a call; what depends on the features or the socket comes
\* after the step that settles it.
Plan ==
    <<"connect">>
    \o (IF secure = "explicit" THEN <<"auth", "handshake", "secured">> ELSE <<>>)
    \o <<"utf8", "login", "feat", "type", "stru", "utf8Again">>
    \o (IF mlsd THEN <<"mlst">> ELSE <<>>)
    \o (IF hasTLS THEN <<"pbsz", "prot">> ELSE <<>>)

HandlerOf(step) ==
    CASE step = "login" -> "login"
      [] step \in {"auth", "type"} -> "request"
      [] OTHER -> "ignoring"

Running == call # None /\ outcome[call] = "pending"
Step == Plan[at]
Awaits(how) == Running /\ Step \in Steps /\ promise[<<call, Step>>] = how
InHandshake(c) == c = call /\ Running /\ Step = "handshake"

-----------------------------------------------------------------------------
(* access() *)

\* connect() or connectImplicitTLS(); a task left behind by an invalid
\* command makes it a collision.
Begin(c, how) ==
    /\ outcome[c] = "unused"
    /\ ~Running \/ InHandshake(call)
    /\ Connect(<<c, "connect">>) \/ ConnectDuringTask(<<c, "connect">>)
    /\ call' = c
    /\ outcome' = [outcome EXCEPT ![c] = "pending"]
    /\ secure' = how
    /\ at' = 1
    /\ hasTLS' = (how = "implicit")
    /\ UNCHANGED mlsd

\* Variant: the answer to AUTH is not awaited.
ReadyUnanswered == Awaits("resolved") \/ (Running /\ Step \in {"auth", "secured"})

\* Variant: a rejected step does not end the call.
ReadyRejected ==
    Awaits("resolved") \/ Awaits("rejected") \/ (Running /\ Step = "secured")

\* The step reached is done.
Ready == Awaits("resolved") \/ (Running /\ Step = "secured")

\* The next step is taken.  The features say whether MLSD can be used; a user
\* name may contain control characters.
Proceed ==
    /\ Ready
    /\ at < Len(Plan)
    /\ at' = at + 1
    /\ IF Step = "feat" THEN mlsd' \in BOOLEAN ELSE UNCHANGED mlsd
    /\ IF Plan[at + 1] = "handshake"
       THEN UNCHANGED vars
       ELSE LET t == <<call, Plan[at + 1]>>
                h == HandlerOf(Plan[at + 1])
            IN  \/ Launch(t, h) \/ LaunchOnClosed(t, h)
                \/ h = "login" /\ LaunchInvalid(t, h)
    /\ UNCHANGED <<call, outcome, secure, hasTLS>>

\* upgradeSocket resolves and useTLS() installs the socket.
HandshakeSucceeds ==
    /\ InHandshake(call)
    /\ Upgrade
    /\ hasTLS' = TRUE
    /\ at' = at + 1
    /\ UNCHANGED <<call, outcome, secure, mlsd>>

\* Variant: the error is swallowed.
HandshakeFailureIgnored(c) ==
    /\ InHandshake(c)
    /\ at' = at + 1
    /\ UNCHANGED <<vars, call, outcome, secure, hasTLS, mlsd>>

\* upgradeSocket rejects: an error of the TLS socket, or its certificate is
\* not accepted.  An abandoned call may still learn of it.
HandshakeFails(c) ==
    /\ InHandshake(c) \/ (c # call /\ outcome[c] = "pending")
    /\ outcome' = [outcome EXCEPT ![c] = "rejected"]
    /\ UNCHANGED <<vars, call, secure, at, hasTLS, mlsd>>

Fail ==
    /\ Awaits("rejected")
    /\ outcome' = [outcome EXCEPT ![call] = "rejected"]
    /\ UNCHANGED <<vars, call, secure, at, hasTLS, mlsd>>

Finish ==
    /\ Ready
    /\ at = Len(Plan)
    /\ outcome' = [outcome EXCEPT ![call] = "resolved"]
    /\ UNCHANGED <<vars, call, secure, at, hasTLS, mlsd>>

\* What happens to the context meanwhile.
ContextEvent ==
    /\ \/ UserClose \/ ControlLost \/ ControlTimeout
       \/ ReceivePiece \/ ReceiveTooMuch \/ ReceiveChunk \/ _passToHandler
       \/ ServerAnswers
    /\ UNCHANGED accessVars

AccessNext ==
    \/ \E c \in Calls, how \in {"none", "explicit", "implicit"} : Begin(c, how)
    \/ Proceed \/ HandshakeSucceeds \/ Fail \/ Finish
    \/ \E c \in Calls : HandshakeFails(c)
    \/ ContextEvent

\* Continuations of settled promises run, timeouts that are set fire, and a
\* loop over replies goes on.  Nothing is assumed of the handshake.
AccessFairness ==
    /\ WF_allVars(Proceed) /\ WF_allVars(Fail) /\ WF_allVars(Finish)
    /\ WF_allVars(ControlTimeout /\ UNCHANGED accessVars)
    /\ WF_allVars(_passToHandler /\ UNCHANGED accessVars)

AccessSpec == AccessInit /\ [][AccessNext]_allVars /\ AccessFairness

-----------------------------------------------------------------------------
(* Properties *)

AccessTypeOK ==
    /\ TypeOK
    /\ call \in Calls \cup {None}
    /\ outcome \in [Calls -> {"unused", "pending", "resolved", "rejected"}]
    /\ secure \in {"none", "explicit", "implicit"}
    /\ at \in 1 .. Len(Plan)
    /\ hasTLS \in BOOLEAN /\ mlsd \in BOOLEAN

\* Once encryption was asked for, nothing but AUTH is sent on a socket
\* without it: the login is never owed an answer before useTLS() has installed
\* the encrypted socket, whatever failed or was abandoned before (access,
\* useTLS).
SecretsAreEncrypted ==
    secure # "none" =>
        \A i \in 1 .. Len(owed) : hasTLS \/ owed[i].to[2] \in {"connect", "auth"}

\* The TLS handshake begins on a quiet line: no reply is owed, in flight or
\* being handed over that would be read as part of the encrypted stream
\* (useTLS awaits the answer to AUTH).
HandshakeOnQuietLine ==
    [][\A c \in Calls : ~InHandshake(c) /\ InHandshake(c)' =>
          closingError # None \/ (owed = <<>> /\ wire = <<>> /\ chunk = <<>>)]_allVars

\* A resolved access() has done every step of its plan, and with TLS the
\* plan ends with the protection of the data channel, for implicit TLS too
\* (useDefaultSettings).
AccessIsComplete ==
    call # None /\ outcome[call] = "resolved" =>
        /\ \A i \in 1 .. Len(Plan) : Plan[i] \in Steps => promise[<<call, Plan[i]>>] = "resolved"
        /\ secure # "none" => promise[<<call, "prot">>] = "resolved"

\* Whatever the server, the network and the program do, every access() is
\* settled, unless it comes to wait for the TLS handshake (useTLS).
AccessSettlesOrShakesHands ==
    \A c \in Calls :
        c = call /\ outcome[c] = "pending" ~> outcome[c] # "pending" \/ InHandshake(c)

\* "Configure it with a timeout in milliseconds that will be used for any
\* connection made" and "closed automatically if any timeout or connection
\* error occurs" (README, Client API): no access() waits for ever on a
\* connection that stays open.
AccessTimesOut ==
    \A c \in Calls : outcome[c] = "pending" ~> outcome[c] # "pending" \/ closingError # None
=============================================================================
