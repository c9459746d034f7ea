----------------------------- MODULE FtpContext -----------------------------
(***************************************************************************)
(* FTPContext (src/FtpContext.ts): one control connection, at most one     *)
(* attached data connection, at most one tracked task.  Included are the   *)
(* response handlers Client.ts launches tasks with that only use the       *)
(* control connection: request(), sendIgnoringError(), login() and the     *)
(* handler of connect(); transfers are added by module Transfer.           *)
(*                                                                         *)
(* A task stands for one call of handle() and is identified with the       *)
(* promise that call returned.  Each JavaScript callback is one action,    *)
(* since the event loop runs it to completion.  A callback that receives   *)
(* a chunk with several replies hands them to the handler one by one in a  *)
(* synchronous loop: `chunk' holds the replies of that loop still to be    *)
(* handed over, and no other callback runs while it is not empty.          *)
(*                                                                         *)
(* The server is the environment.  It answers each command once, login's   *)
(* USER possibly by asking for a password; Quirks lists what else is       *)
(* allowed to happen:                                                      *)
(*   "badCommand"      a caller passes a command with control characters   *)
(*   "delayedGreeting" the server greets with 120 and later with 220       *)
(*   "unsolicited"     the server sends 421 without having been asked      *)
(* and, in module Transfer,                                                *)
(*   "slowLocalStream" a download's destination finishes, or fails, some   *)
(*                     time after the data connection has ended            *)
(*   "localAbort"      a download's destination closes before its end      *)
(*   "abandonedDial"   the program closes or reconnects the client while   *)
(*                     a data connection is being opened                   *)
(***************************************************************************)
EXTENDS Integers, Sequences

CONSTANTS
    Tasks,      \* the calls of handle() that are made
    None,       \* `undefined'
    Quirks,     \* the environment's liberties, see above
    MaxPieces   \* maxControlResponseLength, counted in pieces of a reply

\* Why a context closes: closeWithError's errors.
Reasons == {"user", "collision", "lost", "timeout", "tooLong", "data", "request", "local"}

ASSUME NoneAssumption == None \notin Tasks \cup Reasons
ASSUME QuirksAssumption ==
    Quirks \subseteq {"badCommand", "delayedGreeting", "unsolicited",
                      "slowLocalStream", "localAbort", "abandonedDial"}
ASSUME MaxPiecesAssumption == MaxPieces \in Nat \ {0}

VARIABLES
    conn,           \* the connect() call that installed the control socket
    ctl,            \* the control socket
    closingError,   \* _closingError
    task,           \* _task
    handler,        \* the responseHandler of each call
    promise,        \* the promise each call of handle() returned
    ctlTimer,       \* is a timeout set on the control socket?
    data,           \* _dataSocket, and whether a timeout is set on it
    partial,        \* _partialResponse: a piece is named by the task it answers
    chunk,          \* replies _onControlSocketData still has to pass along
    wire,           \* replies on their way to the client
    owed            \* commands the server has not answered for good

vars == <<conn, ctl, closingError, task, handler, promise, ctlTimer, data,
          partial, chunk, wire, owed>>

Handlers == {"request", "ignoring", "login", "connect", "upload", "download"}
Codes    == {120, 125, 150, 200, 331, 332, 350, 421, 550}
Reply    == [to : Tasks \cup {None}, code : Codes]
Whats    == {"greeting", "service", "command", "password",
             "transfer", "restart", "outcome"}
Debt     == [to : Tasks, what : Whats]

TypeOK ==
    /\ conn \in Tasks \cup {None}
    /\ ctl \in {"idle", "open", "destroyed"}
    /\ closingError \in Reasons \cup {None}
    /\ task \in Tasks \cup {None}
    /\ handler \in [Tasks -> Handlers \cup {None}]
    /\ promise \in [Tasks -> {"unused", "pending", "resolved", "rejected"}]
    /\ ctlTimer \in BOOLEAN
    /\ data \in {"none", "idle", "timed"}
    /\ partial \in Seq(Tasks \cup {None})
    /\ Len(partial) <= MaxPieces
    /\ chunk \in Seq(Reply)
    /\ wire \in Seq(Reply)
    /\ owed \in Seq(Debt)

Init ==
    /\ conn = None
    /\ ctl = "idle"
    /\ closingError = None
    /\ task = None
    /\ handler = [t \in Tasks |-> None]
    /\ promise = [t \in Tasks |-> "unused"]
    /\ ctlTimer = FALSE
    /\ data = "none"
    /\ partial = <<>>
    /\ chunk = <<>>
    /\ wire = <<>>
    /\ owed = <<>>

-----------------------------------------------------------------------------
(* Helpers *)

positiveCompletion(code) == code >= 200 /\ code < 300
positiveIntermediate(code) == code >= 300 /\ code < 400
IsFTPError(code) == code >= 400

\* A promise is settled by the first resolve or reject only.
SettleIn(p, t, how) ==
    IF t \in Tasks /\ p[t] = "pending" THEN [p EXCEPT ![t] = how] ELSE p

_stopTrackingTask ==
    /\ task' = None
    /\ ctlTimer' = FALSE

\* Variant: without the early return.
CloseOverwritesReason(reason, p) ==
    /\ closingError' = reason
    /\ ctl' = "destroyed"
    /\ data' = "none"
    /\ promise' = SettleIn(p, task, "rejected")
    /\ _stopTrackingTask
    /\ wire' = <<>>
    /\ owed' = <<>>

\* Variant: the data socket is left open.
CloseKeepsDataSocket(reason, p) ==
    \/ /\ closingError # None
       /\ promise' = p
       /\ UNCHANGED <<closingError, ctl, data, task, ctlTimer, wire, owed>>
    \/ /\ closingError = None
       /\ closingError' = reason
       /\ ctl' = "destroyed"
       /\ UNCHANGED data
       /\ promise' = SettleIn(p, task, "rejected")
       /\ _stopTrackingTask
       /\ wire' = <<>>
       /\ owed' = <<>>

\* p is the promise function before the tracked task gets the error.  All
\* handlers answer an error that is no FTPError by rejecting their task.
closeWithError(reason, p) ==
    \/ /\ closingError # None
       /\ promise' = p
       /\ UNCHANGED <<closingError, ctl, data, task, ctlTimer, wire, owed>>
    \/ /\ closingError = None
       /\ closingError' = reason
       /\ ctl' = "destroyed"
       /\ data' = "none"
       /\ promise' = SettleIn(p, task, "rejected")
       /\ _stopTrackingTask
       /\ wire' = <<>>
       /\ owed' = <<>>

-----------------------------------------------------------------------------
(* Calls made by the program *)

Idle == chunk = <<>>

\* A socket that was never connected drops what is written to it.
Send(t, what) ==
    owed' = IF ctl = "open" THEN Append(owed, [to |-> t, what |-> what]) ELSE owed

\* Variant: no timeout is set.
TrackWithoutTimeout(t, h) ==
    /\ promise[t] = "unused"
    /\ task = None
    /\ closingError = None
    /\ handler' = [handler EXCEPT ![t] = h]
    /\ task' = t
    /\ UNCHANGED ctlTimer

\* The part of handle() that tracks the new task on an open context.
Track(t, h) ==
    /\ promise[t] = "unused"
    /\ task = None
    /\ closingError = None
    /\ handler' = [handler EXCEPT ![t] = h]
    /\ task' = t
    /\ ctlTimer' = TRUE

\* handle() on an open context: request, sendIgnoringError and login.
Launch(t, h) ==
    /\ Idle
    /\ Track(t, h)
    /\ promise' = [promise EXCEPT ![t] = "pending"]
    /\ Send(t, "command")
    /\ UNCHANGED <<conn, ctl, closingError, data, partial, chunk, wire>>

\* send() throws inside the promise's executor: the promise is rejected but
\* the task stays tracked and the timeout stays set.
LaunchInvalid(t, h) ==
    /\ "badCommand" \in Quirks
    /\ Idle
    /\ Track(t, h)
    /\ promise' = [promise EXCEPT ![t] = "rejected"]
    /\ UNCHANGED <<conn, ctl, closingError, data, partial, chunk, wire, owed>>

\* handle() on a closed context: the new task is handed the closing reason.
LaunchOnClosed(t, h) ==
    /\ Idle
    /\ promise[t] = "unused"
    /\ task = None
    /\ closingError # None
    /\ handler' = [handler EXCEPT ![t] = h]
    /\ promise' = [promise EXCEPT ![t] = "rejected"]
    /\ _stopTrackingTask
    /\ UNCHANGED <<conn, ctl, closingError, data, partial, chunk, wire, owed>>

\* Variant: no check for a running task.
LaunchReplacesTask(t, h) ==
    /\ Idle
    /\ promise[t] = "unused"
    /\ task # None
    /\ handler' = [handler EXCEPT ![t] = h]
    /\ promise' = [promise EXCEPT ![t] = "pending"]
    /\ task' = t
    /\ Send(t, "command")
    /\ UNCHANGED <<conn, ctl, closingError, ctlTimer, data, partial, chunk, wire>>

\* handle() while another task is tracked: the context closes, and then the
\* new task is rejected like any task on a closed context.
LaunchDuringTask(t, h) ==
    /\ Idle
    /\ promise[t] = "unused"
    /\ task # None
    /\ handler' = [handler EXCEPT ![t] = h]
    /\ closeWithError("collision", [promise EXCEPT ![t] = "rejected"])
    /\ UNCHANGED <<conn, partial, chunk>>

\* Variant: the partial response survives.
ConnectKeepsPartial(t) ==
    /\ Idle
    /\ promise[t] = "unused"
    /\ task = None
    /\ handler' = [handler EXCEPT ![t] = "connect"]
    /\ conn' = t
    /\ ctl' = "open"
    /\ closingError' = None
    /\ data' = "none"
    /\ task' = t
    /\ ctlTimer' = TRUE
    /\ promise' = [promise EXCEPT ![t] = "pending"]
    /\ wire' = <<>>
    /\ owed' = <<[to |-> t, what |-> "greeting"]>>
    /\ UNCHANGED <<partial, chunk>>

\* connect(): reset() installs a new control socket, which drops the data
\* socket, the partial response and a closing reason; then handle() waits
\* for the greeting.
Connect(t) ==
    /\ Idle
    /\ promise[t] = "unused"
    /\ task = None
    /\ handler' = [handler EXCEPT ![t] = "connect"]
    /\ conn' = t
    /\ ctl' = "open"
    /\ closingError' = None
    /\ data' = "none"
    /\ partial' = <<>>
    /\ task' = t
    /\ ctlTimer' = TRUE
    /\ promise' = [promise EXCEPT ![t] = "pending"]
    /\ wire' = <<>>
    /\ owed' = <<[to |-> t, what |-> "greeting"]>>
    /\ UNCHANGED chunk

\* connect() while a task is tracked: reset() keeps the task, so handle()
\* closes the socket that was just installed and rejects both calls.
ConnectDuringTask(t) ==
    /\ Idle
    /\ promise[t] = "unused"
    /\ task # None
    /\ handler' = [handler EXCEPT ![t] = "connect"]
    /\ conn' = t
    /\ ctl' = "destroyed"
    /\ closingError' = "collision"
    /\ data' = "none"
    /\ partial' = <<>>
    /\ promise' = SettleIn([promise EXCEPT ![t] = "rejected"], task, "rejected")
    /\ _stopTrackingTask
    /\ wire' = <<>>
    /\ owed' = <<>>
    /\ UNCHANGED chunk

\* close()
UserClose ==
    /\ Idle
    /\ closeWithError("user", promise)
    /\ UNCHANGED <<conn, handler, partial, chunk>>

\* useTLS() installs the upgraded socket of the same connection.
Upgrade ==
    /\ Idle
    /\ ctl = "open"
    /\ task = None
    /\ wire = <<>>
    /\ data' = "none"
    /\ partial' = <<>>
    /\ closingError' = None
    /\ ctlTimer' = FALSE
    /\ UNCHANGED <<conn, ctl, task, handler, promise, chunk, wire, owed>>

\* A transfer strategy sets the data socket before it launches the transfer.
AttachData ==
    /\ Idle
    /\ ctl = "open"
    /\ task = None
    /\ data' = "idle"
    /\ UNCHANGED <<conn, ctl, closingError, task, handler, promise, ctlTimer,
                   partial, chunk, wire, owed>>

-----------------------------------------------------------------------------
(* Events of the sockets *)

\* Variant: no limit on the size of a response.
ReceivePieceUnchecked ==
    /\ Idle
    /\ ctl = "open"
    /\ wire # <<>>
    /\ partial' = Append(partial, Head(wire).to)
    /\ UNCHANGED <<conn, ctl, closingError, task, handler, promise, ctlTimer,
                   data, chunk, wire, owed>>

\* A chunk that does not complete the reply it belongs to.
ReceivePiece ==
    /\ Idle
    /\ ctl = "open"
    /\ wire # <<>>
    /\ Len(partial) < MaxPieces
    /\ partial' = Append(partial, Head(wire).to)
    /\ UNCHANGED <<conn, ctl, closingError, task, handler, promise, ctlTimer,
                   data, chunk, wire, owed>>

\* A chunk that makes the accumulated response exceed the maximum size.
ReceiveTooMuch ==
    /\ Idle
    /\ ctl = "open"
    /\ wire # <<>>
    /\ Len(partial) = MaxPieces
    /\ closeWithError("tooLong", promise)
    /\ UNCHANGED <<conn, handler, partial, chunk>>

\* A chunk that completes the first n replies in flight, and may hold the
\* beginning of the one after them.
ReceiveChunk ==
    /\ Idle
    /\ ctl = "open"
    /\ \E n \in 1 .. Len(wire) :
          /\ chunk' = SubSeq(wire, 1, n)
          /\ wire' = SubSeq(wire, n + 1, Len(wire))
          /\ partial' = <<>> \/ (n < Len(wire) /\ partial' = <<wire[n + 1].to>>)
    /\ UNCHANGED <<conn, ctl, closingError, task, handler, promise, ctlTimer,
                   data, owed>>

\* What each handler does with a reply: settle its task, or answer with PASS.
Verdict(h, code) ==
    CASE h = "request"  -> IF IsFTPError(code) THEN "rejected" ELSE "resolved"
      [] h = "ignoring" -> "resolved"
      [] h = "connect"  -> IF positiveCompletion(code) THEN "resolved" ELSE "rejected"
      [] h = "login"    -> IF positiveCompletion(code) THEN "resolved"
                           ELSE IF code = 331 THEN "password" ELSE "rejected"
      [] OTHER          -> "other"

\* Without a task a reply is dropped.
PassToNobody ==
    /\ chunk # <<>>
    /\ task = None
    /\ chunk' = Tail(chunk)
    /\ UNCHANGED <<conn, ctl, closingError, task, handler, promise, ctlTimer,
                   data, partial, wire, owed>>

PassAndSettle ==
    /\ chunk # <<>>
    /\ task # None
    /\ Verdict(handler[task], Head(chunk).code) \in {"resolved", "rejected"}
    /\ chunk' = Tail(chunk)
    /\ promise' = SettleIn(promise, task, Verdict(handler[task], Head(chunk).code))
    /\ _stopTrackingTask
    /\ UNCHANGED <<conn, ctl, closingError, handler, data, partial, wire, owed>>

PassAndSendPassword ==
    /\ chunk # <<>>
    /\ task # None
    /\ Verdict(handler[task], Head(chunk).code) = "password"
    /\ chunk' = Tail(chunk)
    /\ Send(task, "password")
    /\ UNCHANGED <<conn, ctl, closingError, task, handler, promise, ctlTimer,
                   data, partial, wire>>

_passToHandler == PassToNobody \/ PassAndSettle \/ PassAndSendPassword

\* FIN, close or an error of the control socket; a write to a socket that
\* was never connected is such an error.
ControlLost ==
    /\ Idle
    /\ ctl = "open" \/ (ctl = "idle" /\ task # None)
    /\ closeWithError("lost", promise)
    /\ UNCHANGED <<conn, handler, partial, chunk>>

\* Variant: the task is rejected but the connection kept.
ControlTimeoutKeepsConnection ==
    /\ Idle
    /\ ctlTimer
    /\ promise' = SettleIn(promise, task, "rejected")
    /\ _stopTrackingTask
    /\ UNCHANGED <<conn, ctl, closingError, handler, data, partial, chunk, wire, owed>>

ControlTimeout ==
    /\ Idle
    /\ ctlTimer
    /\ closeWithError("timeout", promise)
    /\ UNCHANGED <<conn, handler, partial, chunk>>

\* An error of the attached data socket.
DataError ==
    /\ Idle
    /\ data # "none"
    /\ closeWithError("data", promise)
    /\ UNCHANGED <<conn, handler, partial, chunk>>

-----------------------------------------------------------------------------
(* The server *)

Answers(what) ==
    CASE what = "greeting" -> IF "delayedGreeting" \in Quirks
                              THEN {120, 200, 550} ELSE {200, 550}
      [] what = "service"  -> {200}
      [] what = "command"  -> {200, 331, 332, 550}
      [] what = "password" -> {200, 332, 550}
      [] OTHER             -> {}

\* The first unanswered command gets a reply; after a 120 the server still
\* owes the greeting.
ServerAnswers ==
    /\ owed # <<>>
    /\ \E code \in Answers(Head(owed).what) :
          /\ wire' = Append(wire, [to |-> Head(owed).to, code |-> code])
          /\ owed' = IF code = 120
                     THEN <<[to |-> Head(owed).to, what |-> "service"]>> \o Tail(owed)
                     ELSE Tail(owed)
    /\ UNCHANGED <<conn, ctl, closingError, task, handler, promise, ctlTimer,
                   data, partial, chunk>>

ServerAnnouncesShutdown ==
    /\ "unsolicited" \in Quirks
    /\ ctl = "open"
    /\ wire = <<>>
    /\ wire' = <<[to |-> None, code |-> 421]>>
    /\ UNCHANGED <<conn, ctl, closingError, task, handler, promise, ctlTimer,
                   data, partial, chunk, owed>>

-----------------------------------------------------------------------------
(* The specification *)

Program ==
    \/ \E t \in Tasks : Connect(t) \/ ConnectDuringTask(t)
    \/ \E t \in Tasks, h \in {"request", "ignoring", "login"} :
          \/ Launch(t, h) \/ LaunchInvalid(t, h)
          \/ LaunchOnClosed(t, h) \/ LaunchDuringTask(t, h)
    \/ UserClose \/ Upgrade \/ AttachData

SocketEvent ==
    \/ ReceivePiece \/ ReceiveTooMuch \/ ReceiveChunk \/ _passToHandler
    \/ ControlLost \/ ControlTimeout \/ DataError

Server == ServerAnswers \/ ServerAnnouncesShutdown

Next == Program \/ SocketEvent \/ Server

\* A timeout that is set fires unless it is disabled, and a callback that has
\* begun runs to its end.  Nothing is assumed of the server, of the network
\* and of the program.
Fairness == WF_vars(ControlTimeout) /\ WF_vars(_passToHandler)

Spec == Init /\ [][Next]_vars /\ Fairness

-----------------------------------------------------------------------------
(* Properties *)

\* A promise that is pending is the tracked task's: no call of handle() is
\* ever forgotten by the context, so every later reply, error or timeout
\* still finds it (_task, _stopTrackingTask, the collision check of handle).
PendingIsTracked ==
    \A t \in Tasks : promise[t] = "pending" => task = t

\* A closed context holds nothing back: no tracked task, no pending promise,
\* no data socket, no timeout, and its control socket is destroyed
\* (closeWithError).
ClosedIsDead ==
    closingError # None =>
        /\ ctl = "destroyed"
        /\ data = "none"
        /\ task = None
        /\ ~ctlTimer
        /\ \A t \in Tasks : promise[t] # "pending"

\* The control socket's timeout is set exactly while a promise is pending
\* (the comment in handle(): only during the lifecycle of a task).
TimerMatchesTask ==
    ctlTimer <=> \E t \in Tasks : promise[t] = "pending"

\* When no task is tracked on an open connection, the server owes nothing
\* and nothing is in flight: the next task cannot be settled by a reply that
\* was meant for an earlier one.
InSync ==
    closingError = None /\ task = None => owed = <<>> /\ wire = <<>> /\ chunk = <<>>

\* The remembered partial response of an open context is the beginning of
\* the reply now arriving, never a piece of an earlier connection's reply
\* (the partial response is cleared when a control socket is set).
PartialIsOfArrivingReply ==
    closingError = None =>
        \A i \in 1 .. Len(partial) : wire # <<>> /\ partial[i] = Head(wire).to

\* The reason a context was closed for is kept until a connect() installs a
\* new control socket, whatever else is called or fails (closeWithError's
\* early return), so later tasks are told the first cause.
ReasonIsKept ==
    [][closingError # None /\ closingError' # closingError => conn' # conn]_vars

\* A promise is resolved only by the server's reply to that very task; that of
\* a transfer may also be resolved later, when its bytes have passed.
ResolvedByOwnReply ==
    [][\A t \in Tasks : promise[t] # "resolved" /\ promise'[t] = "resolved" =>
          \/ chunk # <<>> /\ Head(chunk).to = t
          \/ chunk = <<>> /\ handler[t] \in {"upload", "download"}]_vars

\* The context keeps the task contract of SingleFlight.
Contract == INSTANCE SingleFlight WITH state <- promise, isOpen <- (closingError = None)
KeepsContract == Contract!SFSpec
=============================================================================
