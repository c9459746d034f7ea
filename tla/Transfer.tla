------------------------------ MODULE Transfer ------------------------------
(***************************************************************************)
(* Uploads and downloads over a data connection (src/transfer.ts) on top   *)
(* of FtpContext.  A transfer is a task with two channels: the control     *)
(* connection announces its start (150) and its outcome, the data          *)
(* connection carries the bytes, and the two finish in either order.  A    *)
(* directory listing is a download into a buffer.                          *)
(*                                                                         *)
(* Before its task exists, a transfer dials the data connection            *)
(* (connectForPassiveTransfer).  When the dialled socket connects, the     *)
(* code sets it as the data socket and launches the task without returning *)
(* to the event loop, so DialOpens is one action.  The EPSV or PASV        *)
(* request before that is an ordinary Launch.                              *)
(*                                                                         *)
(* pipe[t] is the stream pipeline of transfer t.  When the data socket is  *)
(* replaced or closed, all listeners are removed from it, the pipeline's   *)
(* own ones included: it is "cut" and its callback never comes.            *)
(***************************************************************************)
EXTENDS FtpContext

VARIABLES
    dial,       \* the connection (conn) each transfer was begun on
    pipe,       \* the pipeline of each transfer
    resp,       \* TransferResolver.response: has the outcome arrived?
    dataDone,   \* TransferResolver.dataTransferDone
    progress    \* the transfer whose bytes the ProgressTracker polls

transferVars == <<dial, pipe, resp, dataDone, progress>>
allVars == <<vars, transferVars>>

Kinds == {"upload", "download"}

\* The type invariant with the transfers' own variables, for the proofs.
TransferTypeOK ==
    /\ TypeOK
    /\ dial \in [Tasks -> Tasks \cup {None}]
    /\ pipe \in [Tasks -> {"none", "secure", "flowing", "ended", "over", "cut"}]
    /\ resp \in [Tasks -> BOOLEAN]
    /\ dataDone \in [Tasks -> BOOLEAN]
    /\ progress \in Tasks \cup {None}

TransferInit ==
    /\ Init
    /\ dial = [t \in Tasks |-> None]
    /\ pipe = [t \in Tasks |-> "none"]
    /\ resp = [t \in Tasks |-> FALSE]
    /\ dataDone = [t \in Tasks |-> FALSE]
    /\ progress = None

Dialling(t) == dial[t] # None /\ promise[t] = "unused"

\* The program awaits its operations: nothing is launched during a dial.
AwaitsDial == \A t \in Tasks : ~Dialling(t)

-----------------------------------------------------------------------------
(* What happens to pipelines and progress when sockets are dropped *)

Attached(state) == state \in {"secure", "flowing"}

\* The pipelines p after a step that leaves no data socket.
CutIn(p) == [t \in Tasks |-> IF Attached(p[t]) /\ data' = "none" THEN "cut" ELSE p[t]]

\* Closing hands the error to the tracked transfer, whose onError stops the
\* progress tracking.
StopsProgress ==
    /\ closingError' # None
    /\ task # None
    /\ handler[task] \in Kinds

Carry ==
    /\ pipe' = CutIn(pipe)
    /\ progress' = IF StopsProgress THEN None ELSE progress
    /\ UNCHANGED <<dial, resp, dataDone>>

-----------------------------------------------------------------------------
(* TransferResolver *)

\* Variant: one channel is enough.
ResolveOnEither(t, done, response, timer, socket) ==
    \/ /\ done \/ response
       /\ data' = "none"
       /\ promise' = SettleIn(promise, t, "resolved")
       /\ _stopTrackingTask
    \/ /\ ~(done \/ response)
       /\ data' = socket
       /\ ctlTimer' = timer
       /\ UNCHANGED <<promise, task>>

\* Variant: the data socket stays attached.
ResolveKeepsSocket(t, done, response, timer, socket) ==
    \/ /\ done /\ response
       /\ data' = socket
       /\ promise' = SettleIn(promise, t, "resolved")
       /\ _stopTrackingTask
    \/ /\ ~(done /\ response)
       /\ data' = socket
       /\ ctlTimer' = timer
       /\ UNCHANGED <<promise, task>>

\* Resolves t when both channels are done; otherwise the sockets are left
\* as its caller made them.
tryResolve(t, done, response, timer, socket) ==
    \/ /\ done /\ response
       /\ data' = "none"
       /\ promise' = SettleIn(promise, t, "resolved")
       /\ _stopTrackingTask
    \/ /\ ~(done /\ response)
       /\ data' = socket
       /\ ctlTimer' = timer
       /\ UNCHANGED <<promise, task>>

\* Timeout tracking goes from the control socket to the data socket.
onDataStart(t) ==
    /\ data # "none"
    /\ ctlTimer' = FALSE
    /\ data' = "timed"
    /\ progress' = t
    /\ pipe' = [pipe EXCEPT ![t] = "flowing"]

\* Variant: the control socket's timeout is not set again.
DataDoneLeavesTimers(t) ==
    /\ progress' = None
    /\ dataDone' = [dataDone EXCEPT ![t] = TRUE]
    /\ tryResolve(t, TRUE, resp[t], ctlTimer, IF data = "none" THEN "none" ELSE "idle")
    /\ pipe' = CutIn([pipe EXCEPT ![t] = "over"])

\* Timeout tracking goes back to the control socket; setting a timeout on a
\* destroyed socket has no effect.
onDataDone(t) ==
    /\ progress' = None
    /\ dataDone' = [dataDone EXCEPT ![t] = TRUE]
    /\ tryResolve(t, TRUE, resp[t], ctl # "destroyed", IF data = "none" THEN "none" ELSE "idle")
    /\ pipe' = CutIn([pipe EXCEPT ![t] = "over"])

onControlDone(t) ==
    /\ resp' = [resp EXCEPT ![t] = TRUE]
    /\ tryResolve(t, dataDone[t], TRUE, ctlTimer, data)
    /\ pipe' = CutIn(pipe)

\* Variant: the progress is not stopped.
ErrorKeepsProgress(t, p) ==
    /\ data' = "none"
    /\ promise' = SettleIn(promise, t, "rejected")
    /\ _stopTrackingTask
    /\ pipe' = CutIn(p)
    /\ UNCHANGED progress

\* Variant: the data socket stays attached.
ErrorKeepsDataSocket(t, p) ==
    /\ progress' = None
    /\ promise' = SettleIn(promise, t, "rejected")
    /\ _stopTrackingTask
    /\ pipe' = p
    /\ UNCHANGED data

\* p is the pipelines once the failed one is accounted for.
onError(t, p) ==
    /\ progress' = None
    /\ data' = "none"
    /\ promise' = SettleIn(promise, t, "rejected")
    /\ _stopTrackingTask
    /\ pipe' = CutIn(p)

-----------------------------------------------------------------------------
(* Opening the data connection and launching the transfer *)

StartDial(t) ==
    /\ Idle
    /\ AwaitsDial
    /\ promise[t] = "unused"
    /\ ctl = "open"
    /\ task = None
    /\ dial' = [dial EXCEPT ![t] = conn]
    /\ UNCHANGED <<vars, pipe, resp, dataDone, progress>>

\* Refused, or timed out: the operation fails without a task.
DialFails(t) ==
    /\ Idle
    /\ Dialling(t)
    /\ dial' = [dial EXCEPT ![t] = None]
    /\ UNCHANGED <<vars, pipe, resp, dataDone, progress>>

\* Variant: the refused task leaves its socket attached.
DialOpensOnClosedKeepsSocket(t, h) ==
    /\ Idle
    /\ Dialling(t)
    /\ task = None
    /\ closingError # None
    /\ data' = "idle"
    /\ handler' = [handler EXCEPT ![t] = h]
    /\ promise' = [promise EXCEPT ![t] = "rejected"]
    /\ UNCHANGED <<conn, ctl, closingError, task, ctlTimer, partial, chunk,
                   wire, owed, transferVars>>

\* The socket is attached and the transfer's command is sent; startAt > 0
\* sends REST first.
DialOpens(t, h) ==
    /\ Idle
    /\ Dialling(t)
    /\ Track(t, h)
    /\ data' = "idle"
    /\ promise' = [promise EXCEPT ![t] = "pending"]
    /\ Send(t, "transfer") \/ (h = "download" /\ Send(t, "restart"))
    /\ UNCHANGED <<conn, ctl, closingError, partial, chunk, wire, transferVars>>

\* The context closed during the dial: the task is refused, and its onError
\* drops the socket that was just attached.
DialOpensOnClosed(t, h) ==
    /\ Idle
    /\ Dialling(t)
    /\ task = None
    /\ closingError # None
    /\ data' = "none"
    /\ handler' = [handler EXCEPT ![t] = h]
    /\ promise' = [promise EXCEPT ![t] = "rejected"]
    /\ UNCHANGED <<conn, ctl, closingError, task, ctlTimer, partial, chunk,
                   wire, owed, transferVars>>

\* Another task, of a newer connection, is running when the dial opens: the
\* collision check of handle() closes that connection.
DialOpensDuringTask(t, h) ==
    /\ Idle
    /\ Dialling(t)
    /\ task # None
    /\ handler' = [handler EXCEPT ![t] = h]
    /\ closeWithError("collision", [promise EXCEPT ![t] = "rejected"])
    /\ UNCHANGED <<conn, partial, chunk>>
    /\ Carry

-----------------------------------------------------------------------------
(* Replies passed to the handler of a transfer *)

Receives(t) == chunk # <<>> /\ task = t /\ handler[t] \in Kinds
Code == Head(chunk).code
IsStart(code) == code = 125 \/ code = 150

PassError(t) ==
    /\ Receives(t)
    /\ IsFTPError(Code)
    /\ chunk' = Tail(chunk)
    /\ onError(t, pipe)
    /\ UNCHANGED <<conn, ctl, closingError, handler, partial, wire, owed,
                   dial, resp, dataDone>>

PassStart(t) ==
    /\ Receives(t)
    /\ IsStart(Code)
    /\ chunk' = Tail(chunk)
    /\ onDataStart(t)
    /\ UNCHANGED <<conn, ctl, closingError, task, handler, promise, partial,
                   wire, owed, dial, resp, dataDone>>

\* An upload over TLS waits for the data socket's secureConnect event.
PassStartOfSecureUpload(t) ==
    /\ Receives(t)
    /\ handler[t] = "upload"
    /\ IsStart(Code)
    /\ data # "none"
    /\ chunk' = Tail(chunk)
    /\ pipe' = [pipe EXCEPT ![t] = "secure"]
    /\ UNCHANGED <<conn, ctl, closingError, task, handler, promise, ctlTimer,
                   data, partial, wire, owed, dial, resp, dataDone, progress>>

PassRestart(t) ==
    /\ Receives(t)
    /\ handler[t] = "download"
    /\ Code = 350
    /\ chunk' = Tail(chunk)
    /\ Send(t, "transfer")
    /\ UNCHANGED <<conn, ctl, closingError, task, handler, promise, ctlTimer,
                   data, partial, wire, transferVars>>

PassCompletion(t) ==
    /\ Receives(t)
    /\ positiveCompletion(Code)
    /\ chunk' = Tail(chunk)
    /\ onControlDone(t)
    /\ UNCHANGED <<conn, ctl, closingError, handler, partial, wire, owed,
                   dial, dataDone, progress>>

\* onUnexpectedRequest: the server waits for an answer nobody can give.
PassRequest(t) ==
    /\ Receives(t)
    /\ positiveIntermediate(Code)
    /\ ~(handler[t] = "download" /\ Code = 350)
    /\ chunk' = Tail(chunk)
    /\ closeWithError("request", promise)
    /\ UNCHANGED <<conn, handler, partial>>
    /\ Carry

\* All other preliminary replies are ignored.
PassPreliminary(t) ==
    /\ Receives(t)
    /\ Code < 200
    /\ ~IsStart(Code)
    /\ chunk' = Tail(chunk)
    /\ UNCHANGED <<conn, ctl, closingError, task, handler, promise, ctlTimer,
                   data, partial, wire, owed, transferVars>>

PassToTransfer(t) ==
    \/ PassError(t) \/ PassStart(t) \/ PassStartOfSecureUpload(t)
    \/ PassRestart(t) \/ PassCompletion(t) \/ PassRequest(t) \/ PassPreliminary(t)

-----------------------------------------------------------------------------
(* Events of the data connection and of the pipeline *)

SecureConnect(t) ==
    /\ Idle
    /\ pipe[t] = "secure"
    /\ onDataStart(t)
    /\ UNCHANGED <<conn, ctl, closingError, task, handler, promise, partial,
                   chunk, wire, owed, dial, resp, dataDone>>

\* The last byte has passed and the pipeline's callback is called.
DataEnds(t) ==
    /\ Idle
    /\ pipe[t] = "flowing"
    /\ onDataDone(t)
    /\ UNCHANGED <<conn, ctl, closingError, handler, partial, chunk, wire, owed,
                   dial, resp>>

\* The data socket has ended, and with it its timeout; the destination still
\* has bytes to write.
DataEndsBeforeDestination(t) ==
    /\ "slowLocalStream" \in Quirks
    /\ Idle
    /\ pipe[t] = "flowing"
    /\ handler[t] = "download"
    /\ pipe' = [pipe EXCEPT ![t] = "ended"]
    /\ data' = "idle"
    /\ UNCHANGED <<conn, ctl, closingError, task, handler, promise, ctlTimer,
                   partial, chunk, wire, owed, dial, resp, dataDone, progress>>

\* The callback comes whether or not the task it belongs to is still tracked.
DestinationFinishes(t) ==
    /\ Idle
    /\ pipe[t] = "ended"
    /\ onDataDone(t)
    /\ UNCHANGED <<conn, ctl, closingError, handler, partial, chunk, wire, owed,
                   dial, resp>>

DestinationFails(t) ==
    /\ Idle
    /\ \/ pipe[t] = "ended"
       \/ "localAbort" \in Quirks /\ pipe[t] = "flowing" /\ handler[t] = "download"
    /\ onError(t, [pipe EXCEPT ![t] = "over"])
    /\ UNCHANGED <<conn, ctl, closingError, handler, partial, chunk, wire, owed,
                   dial, resp, dataDone>>

\* An error of the caller's stream, which is listened to from before the
\* dial until the promise is settled (a listing's buffer is not; it can only
\* fail as in DestinationFails).
LocalStreamError(t) ==
    /\ Idle
    /\ Dialling(t) \/ (task = t /\ handler[t] \in Kinds /\ pipe[t] # "over")
    /\ closeWithError("local", promise)
    /\ UNCHANGED <<conn, handler, partial, chunk>>
    /\ Carry

DataTimeout ==
    /\ Idle
    /\ data = "timed"
    /\ closeWithError("timeout", promise)
    /\ UNCHANGED <<conn, handler, partial, chunk>>
    /\ Carry

-----------------------------------------------------------------------------
(* The server, when a transfer was asked for *)

TransferAnswers(what) ==
    CASE what = "restart"  -> {350, 550}
      [] what = "transfer" -> {125, 150, 200, 331, 550}
      [] what = "outcome"  -> {200, 550}
      [] OTHER             -> {}

ServerTransfers ==
    /\ owed # <<>>
    /\ \E code \in TransferAnswers(Head(owed).what) :
          /\ wire' = Append(wire, [to |-> Head(owed).to, code |-> code])
          /\ owed' = IF IsStart(code)
                     THEN <<[to |-> Head(owed).to, what |-> "outcome"]>> \o Tail(owed)
                     ELSE Tail(owed)
    /\ UNCHANGED <<conn, ctl, closingError, task, handler, promise, ctlTimer,
                   data, partial, chunk, transferVars>>

-----------------------------------------------------------------------------
(* The specification *)

MayAbandonDial == AwaitsDial \/ "abandonedDial" \in Quirks

\* Client.close() stops the progress tracking in any case.
CloseClient ==
    /\ MayAbandonDial
    /\ UserClose
    /\ pipe' = CutIn(pipe)
    /\ progress' = None
    /\ UNCHANGED <<dial, resp, dataDone>>

\* The steps of FtpContext, with what they do to a transfer.
ContextStep ==
    /\ \/ /\ MayAbandonDial
          /\ \E t \in Tasks : ~Dialling(t) /\ (Connect(t) \/ ConnectDuringTask(t))
       \/ /\ AwaitsDial
          /\ Upgrade \/ \E t \in Tasks, h \in {"request", "ignoring", "login"} :
                            \/ Launch(t, h) \/ LaunchInvalid(t, h)
                            \/ LaunchOnClosed(t, h) \/ LaunchDuringTask(t, h)
       \/ ReceivePiece \/ ReceiveTooMuch \/ ReceiveChunk \/ _passToHandler
       \/ ControlLost \/ ControlTimeout \/ DataError
       \/ Server
    /\ Carry

TransferStep ==
    \/ \E t \in Tasks : StartDial(t) \/ DialFails(t)
    \/ \E t \in Tasks, h \in Kinds :
          DialOpens(t, h) \/ DialOpensOnClosed(t, h) \/ DialOpensDuringTask(t, h)
    \/ \E t \in Tasks : PassToTransfer(t)
    \/ \E t \in Tasks :
          \/ SecureConnect(t) \/ DataEnds(t) \/ DataEndsBeforeDestination(t)
          \/ DestinationFinishes(t) \/ DestinationFails(t) \/ LocalStreamError(t)
    \/ DataTimeout
    \/ ServerTransfers

TransferNext == CloseClient \/ ContextStep \/ TransferStep

\* As in FtpContext, for both timeouts and every reply being passed along.
TransferFairness ==
    /\ WF_allVars(ControlTimeout /\ Carry)
    /\ WF_allVars(DataTimeout)
    /\ WF_allVars(_passToHandler /\ Carry)
    /\ WF_allVars(\E t \in Tasks : PassToTransfer(t))

TransferSpec == TransferInit /\ [][TransferNext]_allVars /\ TransferFairness

-----------------------------------------------------------------------------
(* Properties *)

\* While a promise is pending exactly one of the two sockets has a timeout
\* set, and otherwise none: handing the timeout over at the start and at the
\* end of the data never leaves a task unwatched nor an idle socket watched
\* (onDataStart, onDataDone, onError, _stopTrackingTask).
OneTimerPerTask ==
    IF \E t \in Tasks : promise[t] = "pending"
    THEN ctlTimer <=> data # "timed"
    ELSE ~ctlTimer /\ data # "timed"

\* A transfer is resolved only when its bytes have all passed and the server
\* has confirmed it, in whichever order (tryResolve).
ResolvedMeansComplete ==
    \A t \in Tasks : handler[t] \in Kinds /\ promise[t] = "resolved" =>
        pipe[t] = "over" /\ dataDone[t] /\ resp[t]

\* A data socket is attached only for the tracked transfer: whatever way a
\* transfer ends, the next one finds no left-over connection.
DataSocketIsOfTransfer ==
    data # "none" => task # None /\ handler[task] \in Kinds

\* Bytes pass between a local stream and the data connection only while the
\* transfer's promise is pending; the file descriptor is closed right after
\* (_downloadToFile, _uploadLocalFile).
NoBytesAfterSettling ==
    \A t \in Tasks : Attached(pipe[t]) => task = t /\ promise[t] = "pending"

\* Whatever comes late to a closed context (a dialled socket, a pipeline's
\* callback, a source of errors), the context holds no socket, no timeout, no
\* task and no running pipeline afterwards (closeWithError, and handle() on a
\* closed context).
ClosedReleasesAll ==
    closingError # None =>
        /\ ctl = "destroyed" /\ ~ctlTimer
        /\ data = "none"
        /\ task = None
        /\ \A t \in Tasks : ~Attached(pipe[t])

\* Progress is polled only for the transfer whose bytes are flowing: no
\* poll outlives its transfer (updateAndStop in onDataDone and onError).
ProgressIsOfFlowingTransfer ==
    progress # None => task = progress /\ pipe[progress] = "flowing"

\* A new poll is only started when the previous one has been stopped, whose
\* stop function would otherwise be lost (ProgressTracker.start).
NoPollIsLost ==
    [][progress' # None /\ progress' # progress => progress = None]_allVars

\* "The connection to the FTP server stays intact and you can continue to
\* use your Client instance" (README, Error Handling): as long as no connect()
\* was called since the first transfer, the context never forgets a task
\* whose promise is pending.
ClientStaysUsable ==
    (\A u \in Tasks : dial[u] \in {None, conn}) =>
        \A t \in Tasks : promise[t] = "pending" => task = t
=============================================================================
