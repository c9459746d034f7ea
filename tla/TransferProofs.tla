--------------------------- MODULE TransferProofs ---------------------------
(***************************************************************************)
(* Theorems about transfers (module Transfer), for every set of tasks and  *)
(* every bound.  The theorems are ordered by what they need of the         *)
(* environment: nothing at all; that a download's destination never        *)
(* outlasts its data connection; that every command can be sent; and that  *)
(* the server's replies stay in turn with the commands.                    *)
(***************************************************************************)
EXTENDS Transfer, FtpContextProofs

USE DEF Idle, Kinds, Attached

Promises == {"unused", "pending", "resolved", "rejected"}
Pipes == {"none", "secure", "flowing", "ended", "over", "cut"}

-----------------------------------------------------------------------------
(* Facts about the operators *)

LEMMA ContextIsNext == ContextStep \/ CloseClient => Next
  BY DEF ContextStep, CloseClient, Next, Program, SocketEvent

LEMMA CutInType ==
    ASSUME NEW p \in [Tasks -> Pipes]
    PROVE  CutIn(p) \in [Tasks -> Pipes]
  BY DEF CutIn, Pipes

\* A pipeline is left as it is, or cut because the data socket is gone.
LEMMA CutInFacts ==
    ASSUME NEW p, NEW t \in Tasks
    PROVE  /\ data' = "none" => ~Attached(CutIn(p)[t])
           /\ CutIn(p)[t] \in {p[t], "cut"}
           /\ ~Attached(p[t]) => CutIn(p)[t] = p[t]
           /\ data' # "none" => CutIn(p)[t] = p[t]
  BY DEF CutIn

LEMMA TryResolveType ==
    ASSUME TypeOK, NEW t \in Tasks, NEW done \in BOOLEAN, NEW response \in BOOLEAN,
           NEW timer \in BOOLEAN, NEW socket \in {"none", "idle", "timed"},
           tryResolve(t, done, response, timer, socket)
    PROVE  /\ task' \in Tasks \cup {None}
           /\ promise' \in [Tasks -> Promises]
           /\ ctlTimer' \in BOOLEAN
           /\ data' \in {"none", "idle", "timed"}
  <1>1. SettleIn(promise, t, "resolved") \in [Tasks -> Promises]
    BY SettleInType DEF TypeOK, Promises
  <1> QED
    BY <1>1 DEF tryResolve, TypeOK, _stopTrackingTask, Promises

LEMMA OnErrorType ==
    ASSUME TransferTypeOK, NEW t \in Tasks, NEW p \in [Tasks -> Pipes], onError(t, p)
    PROVE  /\ task' \in Tasks \cup {None}
           /\ promise' \in [Tasks -> Promises]
           /\ ctlTimer' \in BOOLEAN
           /\ data' \in {"none", "idle", "timed"}
           /\ pipe' \in [Tasks -> Pipes]
           /\ progress' \in Tasks \cup {None}
  <1>1. SettleIn(promise, t, "rejected") \in [Tasks -> Promises]
    BY SettleInType DEF TransferTypeOK, TypeOK, Promises
  <1> QED
    BY <1>1, CutInType DEF onError, _stopTrackingTask, Promises

LEMMA TransferAnswersType == \A what : TransferAnswers(what) \subseteq Codes
  BY DEF TransferAnswers, Codes

-----------------------------------------------------------------------------
(* Type correctness *)

LEMMA TransferInitType == TransferInit => TransferTypeOK
  BY InitType DEF TransferInit, TransferTypeOK

LEMMA CarryType == TransferTypeOK /\ TypeOK' /\ Carry => TransferTypeOK'
  BY CutInType DEF TransferTypeOK, Carry, Pipes

LEMMA OwnStepType ==
    ASSUME TransferTypeOK, TransferStep
    PROVE  TransferTypeOK'
  <1> USE NoneAssumption, MaxPiecesAssumption
  <1>t. TypeOK /\ pipe \in [Tasks -> Pipes]
    BY DEF TransferTypeOK, Pipes
  <1>p. promise \in [Tasks -> Promises]
    BY <1>t DEF TypeOK, Promises
  <1>1. ASSUME NEW t \in Tasks, StartDial(t) \/ DialFails(t)
        PROVE  TransferTypeOK'
    <2>1. UNCHANGED vars /\ UNCHANGED <<pipe, resp, dataDone, progress>>
      BY <1>1 DEF StartDial, DialFails
    <2>2. dial' \in [Tasks -> Tasks \cup {None}]
      BY <1>1, <1>t DEF StartDial, DialFails, TransferTypeOK, TypeOK
    <2> QED
      BY <2>1, <2>2 DEF vars, TransferTypeOK, TypeOK
  <1>2. ASSUME NEW t \in Tasks, NEW h \in Kinds, DialOpens(t, h)
        PROVE  TransferTypeOK'
    <2>1. owed' \in Seq(Debt)
      BY <1>2, <1>t, SendType DEF DialOpens, Send, TypeOK, Whats
    <2> QED
      BY <1>2, <2>1 DEF DialOpens, Track, TransferTypeOK, TypeOK, Handlers, transferVars
  <1>3. ASSUME NEW t \in Tasks, NEW h \in Kinds, DialOpensOnClosed(t, h)
        PROVE  TransferTypeOK'
    BY <1>3 DEF DialOpensOnClosed, TransferTypeOK, TypeOK, Handlers, transferVars
  <1>4. ASSUME NEW t \in Tasks, NEW h \in Kinds, DialOpensDuringTask(t, h)
        PROVE  TransferTypeOK'
    <2>1. [promise EXCEPT ![t] = "rejected"] \in [Tasks -> Promises]
      BY <1>p DEF Promises
    <2>2. TypeOK'
      BY <1>4, <1>t, <2>1, CloseType
         DEF DialOpensDuringTask, TypeOK, Handlers, Reasons, Promises
    <2> QED
      BY <1>4, <2>2, CarryType DEF DialOpensDuringTask
  <1>5. ASSUME NEW reason \in Reasons, closeWithError(reason, promise), Carry,
               UNCHANGED <<conn, handler, partial>>, chunk' \in Seq(Reply)
        PROVE  TransferTypeOK'
    BY <1>5, <1>t, CloseType, CarryType DEF TypeOK
  <1>6. ASSUME NEW t \in Tasks, PassToTransfer(t)
        PROVE  TransferTypeOK'
    <2>1. chunk' \in Seq(Reply)
      BY <1>6, <1>t, ChunkTail
         DEF PassToTransfer, PassError, PassStart, PassStartOfSecureUpload, PassRestart,
             PassCompletion, PassRequest, PassPreliminary, Receives
    <2>2. CASE PassError(t)
      BY <1>t, <2>1, <2>2, OnErrorType
         DEF PassError, TransferTypeOK, TypeOK, Promises, Pipes
    <2>3. CASE PassStart(t)
      BY <2>1, <2>3 DEF PassStart, onDataStart, TransferTypeOK, TypeOK
    <2>4. CASE PassStartOfSecureUpload(t)
      BY <2>1, <2>4 DEF PassStartOfSecureUpload, TransferTypeOK, TypeOK
    <2>5. CASE PassRestart(t)
      <3>1. owed' \in Seq(Debt)
        BY <1>t, <2>5, SendType DEF PassRestart, Send, TypeOK, Whats
      <3> QED
        BY <2>1, <2>5, <3>1 DEF PassRestart, TransferTypeOK, TypeOK, transferVars
    <2>6. CASE PassCompletion(t)
      <3>1. tryResolve(t, dataDone[t], TRUE, ctlTimer, data)
        BY <2>6 DEF PassCompletion, onControlDone
      <3>2. dataDone[t] \in BOOLEAN /\ ctlTimer \in BOOLEAN /\ data \in {"none", "idle", "timed"}
        BY DEF TransferTypeOK, TypeOK
      <3>3. /\ task' \in Tasks \cup {None} /\ promise' \in [Tasks -> Promises]
            /\ ctlTimer' \in BOOLEAN /\ data' \in {"none", "idle", "timed"}
        BY <1>t, <3>1, <3>2, TryResolveType
      <3>4. pipe' \in [Tasks -> Pipes]
        BY <1>t, <2>6, CutInType DEF PassCompletion, onControlDone
      <3> QED
        BY <2>1, <2>6, <3>3, <3>4
           DEF PassCompletion, onControlDone, TransferTypeOK, TypeOK, Promises, Pipes
    <2>7. CASE PassRequest(t)
      BY <1>5, <2>1, <2>7 DEF PassRequest, Reasons
    <2>8. CASE PassPreliminary(t)
      BY <2>1, <2>8 DEF PassPreliminary, TransferTypeOK, TypeOK, transferVars
    <2> QED
      BY <1>6, <2>2, <2>3, <2>4, <2>5, <2>6, <2>7, <2>8 DEF PassToTransfer
  <1>7. ASSUME NEW t \in Tasks, SecureConnect(t)
        PROVE  TransferTypeOK'
    BY <1>7 DEF SecureConnect, onDataStart, TransferTypeOK, TypeOK
  <1>8. ASSUME NEW t \in Tasks, DataEnds(t) \/ DestinationFinishes(t)
        PROVE  TransferTypeOK'
    <2> DEFINE socket == IF data = "none" THEN "none" ELSE "idle"
    <2>1. onDataDone(t)
      BY <1>8 DEF DataEnds, DestinationFinishes
    <2>2. tryResolve(t, TRUE, resp[t], ctl # "destroyed", socket)
      BY <2>1 DEF onDataDone
    <2>3. resp[t] \in BOOLEAN /\ (ctl # "destroyed") \in BOOLEAN /\ socket \in {"none", "idle", "timed"}
      BY DEF TransferTypeOK
    <2>4. /\ task' \in Tasks \cup {None} /\ promise' \in [Tasks -> Promises]
          /\ ctlTimer' \in BOOLEAN /\ data' \in {"none", "idle", "timed"}
      BY <1>t, <2>2, <2>3, TryResolveType
    <2>5. [pipe EXCEPT ![t] = "over"] \in [Tasks -> Pipes]
      BY <1>t DEF Pipes
    <2>6. pipe' \in [Tasks -> Pipes]
      BY <2>1, <2>5, CutInType DEF onDataDone
    <2> QED
      BY <1>8, <2>1, <2>4, <2>6
         DEF DataEnds, DestinationFinishes, onDataDone, TransferTypeOK, TypeOK, Promises, Pipes
  <1>9. ASSUME NEW t \in Tasks, DataEndsBeforeDestination(t)
        PROVE  TransferTypeOK'
    BY <1>9 DEF DataEndsBeforeDestination, TransferTypeOK, TypeOK
  <1>10. ASSUME NEW t \in Tasks, DestinationFails(t)
         PROVE  TransferTypeOK'
    <2>1. [pipe EXCEPT ![t] = "over"] \in [Tasks -> Pipes]
      BY <1>t DEF Pipes
    <2> QED
      BY <1>10, <2>1, OnErrorType
         DEF DestinationFails, TransferTypeOK, TypeOK, Promises, Pipes
  <1>11. ASSUME NEW t \in Tasks, LocalStreamError(t)
         PROVE  TransferTypeOK'
    BY <1>5, <1>11, <1>t DEF LocalStreamError, Reasons, TypeOK
  <1>12. CASE DataTimeout
    BY <1>5, <1>12, <1>t DEF DataTimeout, Reasons, TypeOK
  <1>13. CASE ServerTransfers
    <2>1. PICK code \in TransferAnswers(Head(owed).what) :
             /\ wire' = Append(wire, [to |-> Head(owed).to, code |-> code])
             /\ owed' = IF IsStart(code)
                        THEN <<[to |-> Head(owed).to, what |-> "outcome"]>> \o Tail(owed)
                        ELSE Tail(owed)
      BY <1>13 DEF ServerTransfers
    <2>2. Head(owed).to \in Tasks /\ Tail(owed) \in Seq(Debt)
      BY <1>13, <1>t, OwedHead DEF ServerTransfers
    <2>3. wire' \in Seq(Reply)
      BY <1>t, <2>1, <2>2, TransferAnswersType DEF TypeOK, Reply
    <2>4. owed' \in Seq(Debt)
      <3>1. <<[to |-> Head(owed).to, what |-> "outcome"]>> \in Seq(Debt)
        BY <2>2 DEF Debt, Whats
      <3> QED
        BY <2>1, <2>2, <3>1
    <2> QED
      BY <1>13, <2>3, <2>4 DEF ServerTransfers, TransferTypeOK, TypeOK, transferVars
  <1> QED
    BY <1>1, <1>2, <1>3, <1>4, <1>6, <1>7, <1>8, <1>9, <1>10, <1>11, <1>12, <1>13
       DEF TransferStep

LEMMA TransferNextType == TransferTypeOK /\ [TransferNext]_allVars => TransferTypeOK'
  <1> SUFFICES ASSUME TransferTypeOK, [TransferNext]_allVars PROVE TransferTypeOK'
    OBVIOUS
  <1>1. CASE ContextStep
    BY <1>1, ContextIsNext, NextType, CarryType DEF ContextStep, TransferTypeOK
  <1>2. CASE CloseClient
    <2>1. TypeOK'
      BY <1>2, ContextIsNext, NextType DEF TransferTypeOK
    <2> QED
      BY <1>2, <2>1, CutInType DEF CloseClient, TransferTypeOK, Pipes
  <1>3. CASE TransferStep
    BY <1>3, OwnStepType
  <1>4. CASE UNCHANGED allVars
    BY <1>4 DEF allVars, vars, transferVars, TransferTypeOK, TypeOK
  <1> QED
    BY <1>1, <1>2, <1>3, <1>4 DEF TransferNext

\* Every variable of the transfers keeps its type too.
LEMMA TransferTyped == TransferSpec => []TransferTypeOK
  BY TransferInitType, TransferNextType, PTL DEF TransferSpec

\* Every variable of the context keeps its type when transfers run on it, in
\* every environment (TransferResolver and the pipelines settle, time and
\* close through FTPContext alone).
THEOREM TransferTypeCorrect == TransferSpec => []TypeOK
  <1>1. TransferTypeOK => TypeOK
    BY DEF TransferTypeOK
  <1> QED
    BY <1>1, TransferTyped, PTL

-----------------------------------------------------------------------------
(* What holds of every environment *)

\* The strengthening: a tracked transfer's promise is pending, and only its
\* pipeline is attached, to a data socket that is there.
TransferIsPending ==
    task # None /\ handler[task] \in Kinds => promise[task] = "pending"

PipesAreOfTask ==
    \A t \in Tasks : Attached(pipe[t]) => data # "none" /\ task = t

Contained ==
    /\ TransferTypeOK
    /\ ConnectionIsUsed
    /\ ClosedReleasesAll
    /\ DataSocketIsOfTransfer
    /\ TransferIsPending
    /\ PipesAreOfTask

\* What Contained claims beyond the types.
Containment ==
    ConnectionIsUsed /\ ClosedReleasesAll /\ DataSocketIsOfTransfer /\ TransferIsPending
        /\ PipesAreOfTask

\* A step that leaves no data socket and no task.
LEMMA DropsAll ==
    ASSUME task' = None, data' = "none",
           \A t \in Tasks : ~Attached(pipe'[t]),
           closingError' # None => ctl' = "destroyed" /\ ~ctlTimer',
           ConnectionIsUsed'
    PROVE  Containment'
  BY DEF Containment, ClosedReleasesAll, DataSocketIsOfTransfer, TransferIsPending,
         PipesAreOfTask

\* A step after which the pipelines are as before.
LEMMA CarryKeeps ==
    ASSUME Contained, pipe' = CutIn(pipe),
           ConnectionIsUsed',
           UNCHANGED <<closingError, ctl, data>>,
           task # None => UNCHANGED <<task, ctlTimer>> /\ handler'[task] = handler[task]
                                                       /\ promise'[task] = promise[task],
           task = None /\ closingError # None => task' = None /\ ~ctlTimer',
           task = None /\ task' # None /\ handler'[task'] \in Kinds =>
               promise'[task'] = "pending"
    PROVE  Containment'
  <1>1. \A t \in Tasks : Attached(pipe'[t]) => Attached(pipe[t])
    BY CutInFacts
  <1> QED
    BY <1>1 DEF Contained, Containment, ClosedReleasesAll, DataSocketIsOfTransfer,
                TransferIsPending, PipesAreOfTask

\* Promises are never made unused again.
LEMMA StaysUsed ==
    ASSUME Contained, \A u \in Tasks : promise'[u] = "unused" => promise[u] = "unused",
           UNCHANGED conn
    PROVE  ConnectionIsUsed'
  BY DEF Contained, ConnectionIsUsed, TransferTypeOK, TypeOK

LEMMA SettledIsUsed ==
    ASSUME NEW p \in [Tasks -> Promises], NEW t \in Tasks \cup {None},
           NEW how \in {"resolved", "rejected"}
    PROVE  \A u \in Tasks : /\ SettleIn(p, t, how)[u] = "unused" => p[u] = "unused"
                            /\ u # t => SettleIn(p, t, how)[u] = p[u]
  BY DEF SettleIn, Promises

\* Closing, by whatever callback.
LEMMA CloseContained ==
    ASSUME Contained, NEW reason \in Reasons, NEW p \in [Tasks -> Promises],
           \A u \in Tasks : p[u] = "unused" => promise[u] = "unused",
           closeWithError(reason, p), UNCHANGED conn, pipe' = CutIn(pipe)
    PROVE  Containment'
  <1>1. ConnectionIsUsed'
    <2>1. \A u \in Tasks : promise'[u] = "unused" => promise[u] = "unused"
      <3>1. task \in Tasks \cup {None}
        BY DEF Contained, TransferTypeOK, TypeOK
      <3> QED
        BY <3>1, SettledIsUsed DEF closeWithError
    <2> QED
      BY <2>1, StaysUsed
  <1>2. CASE closingError # None
    BY <1>1, <1>2, DropsAll, CutInFacts DEF closeWithError, Contained, ClosedReleasesAll
  <1>3. CASE closingError = None
    BY <1>1, <1>3, DropsAll, CutInFacts DEF closeWithError, _stopTrackingTask
  <1> QED
    BY <1>2, <1>3

LEMMA ContextContained ==
    ASSUME Contained, ContextStep
    PROVE  Containment'
  <1> USE NoneAssumption
  <1>t. TypeOK /\ promise \in [Tasks -> Promises] /\ task \in Tasks \cup {None}
    BY DEF Contained, TransferTypeOK, TypeOK, Promises
  <1>c. pipe' = CutIn(pipe)
    BY DEF ContextStep, Carry
  <1>1. ASSUME NEW t \in Tasks, Connect(t)
        PROVE  Containment'
    <2>1. /\ task' = t /\ handler'[t] = "connect" /\ data' = "none" /\ closingError' = None
          /\ conn' = t /\ promise'[t] = "pending"
      BY <1>1, <1>t DEF Connect, TypeOK
    <2> QED
      BY <1>c, <2>1, CutInFacts
         DEF Containment, ConnectionIsUsed, ClosedReleasesAll, DataSocketIsOfTransfer,
             TransferIsPending, PipesAreOfTask
  <1>2. ASSUME NEW t \in Tasks, ConnectDuringTask(t)
        PROVE  Containment'
    <2>1. conn' = t /\ task' = None /\ data' = "none" /\ ctl' = "destroyed" /\ ~ctlTimer'
      BY <1>2 DEF ConnectDuringTask, _stopTrackingTask
    <2>2. promise'[t] = "rejected"
      BY <1>2, <1>t DEF ConnectDuringTask, SettleIn, Promises
    <2> QED
      BY <1>c, <2>1, <2>2, DropsAll, CutInFacts DEF ConnectionIsUsed
  <1>3. ASSUME NEW t \in Tasks, NEW h \in {"request", "ignoring", "login"},
               Launch(t, h) \/ LaunchInvalid(t, h) \/ LaunchOnClosed(t, h)
        PROVE  Containment'
    <2>1. UNCHANGED <<conn, closingError, ctl, data>> /\ task = None
      BY <1>3 DEF Launch, LaunchInvalid, LaunchOnClosed, Track
    <2>2. ConnectionIsUsed'
      BY <1>3, <1>t, <2>1, StaysUsed DEF Launch, LaunchInvalid, LaunchOnClosed, Promises
    <2>3. handler'[t] = h /\ h \notin Kinds /\ task' \in {t, None}
      BY <1>3, <1>t DEF Launch, LaunchInvalid, LaunchOnClosed, Track, _stopTrackingTask, TypeOK
    <2>4. closingError # None => task' = None /\ ~ctlTimer'
      BY <1>3 DEF Launch, LaunchInvalid, LaunchOnClosed, Track, _stopTrackingTask
    <2> QED
      BY <1>c, <2>1, <2>2, <2>3, <2>4, CarryKeeps
  <1>4. ASSUME NEW t \in Tasks, NEW h \in {"request", "ignoring", "login"},
               LaunchDuringTask(t, h)
        PROVE  Containment'
    <2> DEFINE p == [promise EXCEPT ![t] = "rejected"]
    <2>1. p \in [Tasks -> Promises] /\ \A u \in Tasks : p[u] = "unused" => promise[u] = "unused"
      BY <1>t DEF Promises
    <2>2. closeWithError("collision", p) /\ UNCHANGED conn /\ "collision" \in Reasons
      BY <1>4 DEF LaunchDuringTask, Reasons
    <2> HIDE DEF p
    <2> QED
      BY <1>c, <2>1, <2>2, CloseContained
  <1>5. CASE ReceiveTooMuch \/ ControlLost \/ ControlTimeout \/ DataError
    <2>1. PICK reason \in Reasons : closeWithError(reason, promise) /\ UNCHANGED conn
      BY <1>5 DEF ReceiveTooMuch, ControlLost, ControlTimeout, DataError, Reasons
    <2> QED
      BY <1>c, <1>t, <2>1, CloseContained
  <1>6. CASE Upgrade
    <2>1. ConnectionIsUsed'
      BY <1>6, StaysUsed DEF Upgrade
    <2> QED
      BY <1>6, <1>c, <2>1, DropsAll, CutInFacts DEF Upgrade
  <1>7. CASE PassAndSettle
    <2>1. /\ promise' = SettleIn(promise, task, Verdict(handler[task], Head(chunk).code))
          /\ Verdict(handler[task], Head(chunk).code) \in {"resolved", "rejected"}
          /\ UNCHANGED <<conn, ctl, closingError, data>>
          /\ task # None /\ task' = None /\ ctlTimer' = FALSE
      BY <1>7 DEF PassAndSettle, _stopTrackingTask
    <2>2. ConnectionIsUsed'
      BY <1>t, <2>1, SettledIsUsed, StaysUsed
    <2>3. data = "none"
      BY <2>1 DEF Verdict, Contained, DataSocketIsOfTransfer
    <2>4. closingError = None
      BY <2>1 DEF Contained, ClosedReleasesAll
    <2> QED
      BY <1>c, <2>1, <2>2, <2>3, <2>4, DropsAll, CutInFacts
  <1>8. CASE ReceivePiece \/ ReceiveChunk \/ PassToNobody \/ PassAndSendPassword
                \/ ServerAnswers \/ ServerAnnouncesShutdown
    <2>1. UNCHANGED <<conn, closingError, ctl, data, task, ctlTimer, handler, promise>>
      BY <1>8 DEF ReceivePiece, ReceiveChunk, PassToNobody, PassAndSendPassword,
                  ServerAnswers, ServerAnnouncesShutdown
    <2>2. ConnectionIsUsed'
      BY <2>1, StaysUsed
    <2> QED
      BY <1>c, <2>1, <2>2, CarryKeeps DEF Contained, ClosedReleasesAll
  <1> QED
    BY <1>1, <1>2, <1>3, <1>4, <1>5, <1>6, <1>7, <1>8
       DEF ContextStep, _passToHandler, Server

LEMMA OwnStepContained ==
    ASSUME Contained, TransferStep
    PROVE  Containment'
  <1> USE NoneAssumption
  <1>t. TypeOK /\ promise \in [Tasks -> Promises] /\ task \in Tasks \cup {None}
           /\ pipe \in [Tasks -> Pipes]
    BY DEF Contained, TransferTypeOK, TypeOK, Promises, Pipes
  <1>0. ASSUME UNCHANGED <<conn, ctl, closingError, data, task, handler, promise, ctlTimer>>,
               \A u \in Tasks : Attached(pipe'[u]) => Attached(pipe[u]) \/ (task = u /\ data # "none")
        PROVE  Containment'
    BY <1>0 DEF Contained, Containment, ConnectionIsUsed, ClosedReleasesAll,
                DataSocketIsOfTransfer, TransferIsPending, PipesAreOfTask
  <1>1. ASSUME NEW t \in Tasks, StartDial(t) \/ DialFails(t)
        PROVE  Containment'
    BY <1>0, <1>1 DEF StartDial, DialFails, vars
  <1>2. ASSUME NEW t \in Tasks, NEW h \in Kinds, DialOpens(t, h)
        PROVE  Containment'
    <2>1. /\ task = None /\ task' = t /\ closingError' = None /\ data' = "idle"
          /\ UNCHANGED <<conn, pipe>>
      BY <1>2 DEF DialOpens, Track, transferVars
    <2>2. handler'[t] = h /\ promise'[t] = "pending"
      BY <1>2, <1>t DEF DialOpens, Track, TypeOK
    <2>3. ConnectionIsUsed'
      BY <1>2, <1>t, StaysUsed DEF DialOpens, Promises
    <2>4. \A u \in Tasks : ~Attached(pipe'[u])
      BY <2>1 DEF Contained, PipesAreOfTask
    <2> QED
      BY <2>1, <2>2, <2>3, <2>4
         DEF Containment, ClosedReleasesAll, DataSocketIsOfTransfer, TransferIsPending,
             PipesAreOfTask
  <1>3. ASSUME NEW t \in Tasks, NEW h \in Kinds, DialOpensOnClosed(t, h)
        PROVE  Containment'
    <2>1. ConnectionIsUsed'
      BY <1>3, <1>t, StaysUsed DEF DialOpensOnClosed, Promises
    <2> QED
      BY <1>3, <2>1, DropsAll
         DEF DialOpensOnClosed, transferVars, Contained, ClosedReleasesAll
  <1>4. ASSUME NEW t \in Tasks, NEW h \in Kinds, DialOpensDuringTask(t, h)
        PROVE  Containment'
    <2> DEFINE p == [promise EXCEPT ![t] = "rejected"]
    <2>1. p \in [Tasks -> Promises] /\ \A u \in Tasks : p[u] = "unused" => promise[u] = "unused"
      BY <1>t DEF Promises
    <2>2. /\ closeWithError("collision", p) /\ UNCHANGED conn /\ "collision" \in Reasons
          /\ pipe' = CutIn(pipe)
      BY <1>4 DEF DialOpensDuringTask, Reasons, Carry
    <2> HIDE DEF p
    <2> QED
      BY <2>1, <2>2, CloseContained
  <1>5. ASSUME NEW reason \in Reasons, closeWithError(reason, promise), UNCHANGED conn, Carry
        PROVE  Containment'
    BY <1>5, <1>t, CloseContained DEF Carry
  <1>6. ASSUME NEW t \in Tasks, NEW p \in [Tasks -> Pipes], onError(t, p),
               UNCHANGED <<conn, ctl, closingError>>
        PROVE  Containment'
    <2>1. ConnectionIsUsed'
      BY <1>6, <1>t, SettledIsUsed, StaysUsed DEF onError
    <2> QED
      BY <1>6, <2>1, DropsAll, CutInFacts
         DEF onError, _stopTrackingTask, Contained, ClosedReleasesAll
  <1>7. ASSUME NEW t \in Tasks, NEW done, NEW response, NEW timer \in BOOLEAN, NEW socket,
               NEW p \in [Tasks -> Pipes],
               tryResolve(t, done, response, timer, socket),
               socket = "none" <=> data = "none",
               closingError # None => ~timer,
               \A u \in Tasks : Attached(p[u]) => Attached(pipe[u]),
               pipe' = CutIn(p),
               UNCHANGED <<conn, ctl, closingError, handler>>
        PROVE  Containment'
    <2>1. CASE done /\ response
      <3>1. ConnectionIsUsed'
        BY <1>7, <1>t, <2>1, SettledIsUsed, StaysUsed DEF tryResolve
      <3> QED
        BY <1>7, <2>1, <3>1, DropsAll, CutInFacts
           DEF tryResolve, _stopTrackingTask, Contained, ClosedReleasesAll
    <2>2. CASE ~(done /\ response)
      <3>1. data' = socket /\ ctlTimer' = timer /\ UNCHANGED <<promise, task>>
        BY <1>7, <2>2 DEF tryResolve
      <3>2. ConnectionIsUsed'
        BY <1>7, <3>1, StaysUsed
      <3>3. \A u \in Tasks : Attached(pipe'[u]) => Attached(pipe[u])
        BY <1>7, CutInFacts
      <3> QED
        BY <1>7, <3>1, <3>2, <3>3
           DEF Contained, Containment, ClosedReleasesAll, DataSocketIsOfTransfer,
               TransferIsPending, PipesAreOfTask
    <2> QED
      BY <2>1, <2>2
  <1>8. ASSUME NEW t \in Tasks, PassToTransfer(t)
        PROVE  Containment'
    <2>0. task = t /\ closingError = None
      BY <1>8, NoneAssumption
         DEF PassToTransfer, PassError, PassStart, PassStartOfSecureUpload, PassRestart,
             PassCompletion, PassRequest, PassPreliminary, Receives, Contained, ClosedReleasesAll
    <2>1. CASE PassError(t)
      BY <1>6, <1>t, <2>1 DEF PassError
    <2>2. CASE PassStart(t)
      <3>1. \A u \in Tasks : Attached(pipe'[u]) => Attached(pipe[u]) \/ u = t
        BY <1>t, <2>2 DEF PassStart, onDataStart
      <3> QED
        BY <2>0, <2>2, <3>1
           DEF PassStart, onDataStart, Contained, Containment, ConnectionIsUsed,
               ClosedReleasesAll, DataSocketIsOfTransfer, TransferIsPending, PipesAreOfTask
    <2>3. CASE PassStartOfSecureUpload(t)
      BY <1>0, <1>t, <2>0, <2>3 DEF PassStartOfSecureUpload
    <2>4. CASE PassRestart(t) \/ PassPreliminary(t)
      BY <1>0, <2>4 DEF PassRestart, PassPreliminary, transferVars
    <2>5. CASE PassCompletion(t)
      <3>1. /\ tryResolve(t, dataDone[t], TRUE, ctlTimer, data) /\ pipe' = CutIn(pipe)
            /\ UNCHANGED <<conn, ctl, closingError, handler>>
        BY <2>5 DEF PassCompletion, onControlDone
      <3>2. ctlTimer \in BOOLEAN
        BY <1>t DEF TypeOK
      <3> QED
        BY <1>7, <1>t, <2>0, <3>1, <3>2
    <2>6. CASE PassRequest(t)
      BY <1>5, <2>6 DEF PassRequest, Reasons
    <2> QED
      BY <1>8, <2>1, <2>2, <2>3, <2>4, <2>5, <2>6 DEF PassToTransfer
  <1>9. ASSUME NEW t \in Tasks, SecureConnect(t)
        PROVE  Containment'
    <2>1. task = t /\ closingError = None
      BY <1>9 DEF SecureConnect, Contained, PipesAreOfTask, ClosedReleasesAll
    <2>2. \A u \in Tasks : Attached(pipe'[u]) => Attached(pipe[u]) \/ u = t
      BY <1>9, <1>t DEF SecureConnect, onDataStart
    <2> QED
      BY <1>9, <2>1, <2>2
         DEF SecureConnect, onDataStart, Contained, Containment, ConnectionIsUsed,
             ClosedReleasesAll, DataSocketIsOfTransfer, TransferIsPending, PipesAreOfTask
  <1>10. ASSUME NEW t \in Tasks, DataEnds(t) \/ DestinationFinishes(t)
         PROVE  Containment'
    <2> DEFINE p == [pipe EXCEPT ![t] = "over"]
               socket == IF data = "none" THEN "none" ELSE "idle"
    <2>1. /\ tryResolve(t, TRUE, resp[t], ctl # "destroyed", socket)
          /\ pipe' = CutIn(p)
          /\ UNCHANGED <<conn, ctl, closingError, handler>>
      BY <1>10 DEF DataEnds, DestinationFinishes, onDataDone
    <2>2. p \in [Tasks -> Pipes] /\ \A u \in Tasks : Attached(p[u]) => Attached(pipe[u])
      BY <1>t DEF Pipes
    <2>3. closingError # None => ~(ctl # "destroyed")
      BY DEF Contained, ClosedReleasesAll
    <2>4. (ctl # "destroyed") \in BOOLEAN /\ (socket = "none" <=> data = "none")
      OBVIOUS
    <2> HIDE DEF p, socket
    <2> QED
      BY <1>7, <2>1, <2>2, <2>3, <2>4
  <1>11. ASSUME NEW t \in Tasks, DataEndsBeforeDestination(t)
         PROVE  Containment'
    <2>1. task = t /\ data # "none" /\ closingError = None
      BY <1>11 DEF DataEndsBeforeDestination, Contained, PipesAreOfTask, ClosedReleasesAll
    <2>2. \A u \in Tasks : ~Attached(pipe'[u])
      BY <1>11, <1>t, <2>1 DEF DataEndsBeforeDestination, Contained, PipesAreOfTask
    <2> QED
      BY <1>11, <2>1, <2>2
         DEF DataEndsBeforeDestination, Contained, Containment, ConnectionIsUsed,
             ClosedReleasesAll, DataSocketIsOfTransfer, TransferIsPending, PipesAreOfTask
  <1>12. ASSUME NEW t \in Tasks, DestinationFails(t)
         PROVE  Containment'
    <2>1. [pipe EXCEPT ![t] = "over"] \in [Tasks -> Pipes]
      BY <1>t DEF Pipes
    <2> QED
      BY <1>6, <1>12, <2>1 DEF DestinationFails
  <1>13. ASSUME NEW t \in Tasks, LocalStreamError(t)
         PROVE  Containment'
    BY <1>5, <1>13 DEF LocalStreamError, Reasons
  <1>14. CASE DataTimeout
    BY <1>5, <1>14 DEF DataTimeout, Reasons
  <1>15. CASE ServerTransfers
    BY <1>0, <1>15 DEF ServerTransfers, transferVars
  <1> QED
    BY <1>1, <1>2, <1>3, <1>4, <1>8, <1>9, <1>10, <1>11, <1>12, <1>13, <1>14, <1>15
       DEF TransferStep

LEMMA NextContained == Contained /\ [TransferNext]_allVars => Contained'
  <1> SUFFICES ASSUME Contained, [TransferNext]_allVars PROVE Containment'
    BY TransferNextType DEF Contained, Containment
  <1>1. CASE ContextStep
    BY <1>1, ContextContained
  <1>2. CASE CloseClient
    <2>1. promise \in [Tasks -> Promises]
      BY DEF Contained, TransferTypeOK, TypeOK, Promises
    <2> QED
      BY <1>2, <2>1, CloseContained DEF CloseClient, UserClose, Reasons
  <1>3. CASE TransferStep
    BY <1>3, OwnStepContained
  <1>4. CASE UNCHANGED allVars
    BY <1>4 DEF allVars, vars, transferVars, Contained, Containment, ConnectionIsUsed,
                ClosedReleasesAll, DataSocketIsOfTransfer, TransferIsPending, PipesAreOfTask
  <1> QED
    BY <1>1, <1>2, <1>3, <1>4 DEF TransferNext

LEMMA InitContained == TransferInit => Contained
  BY TransferInitType
     DEF TransferInit, Init, Contained, ConnectionIsUsed, ClosedReleasesAll,
         DataSocketIsOfTransfer, TransferIsPending, PipesAreOfTask

LEMMA ContainedAlways == TransferSpec => []Contained
  BY InitContained, NextContained, PTL DEF TransferSpec

\* Whatever comes late, a closed context holds no socket, no timeout, no task
\* and no running pipeline (closeWithError, handle() on a closed context,
\* onDataDone after the close).
THEOREM ClosingReleasesAll == TransferSpec => []ClosedReleasesAll
  BY ContainedAlways, PTL DEF Contained

\* A data socket is attached only for the tracked transfer: the transfer after
\* it finds no left-over connection, in every environment (tryResolve, onError,
\* the dropped sockets of reset and useTLS).
THEOREM NoLeftOverSocket == TransferSpec => []DataSocketIsOfTransfer
  BY ContainedAlways, PTL DEF Contained

\* Bytes pass only while the transfer's promise is pending, in every
\* environment: the file behind the local stream may be closed once it is
\* settled (_downloadToFile, _uploadLocalFile).
THEOREM BytesOnlyWhilePending == TransferSpec => []NoBytesAfterSettling
  <1>1. Contained => NoBytesAfterSettling
    BY DEF Contained, PipesAreOfTask, DataSocketIsOfTransfer, TransferIsPending,
           NoBytesAfterSettling
  <1> QED
    BY <1>1, ContainedAlways, PTL

\* The first reason a context was closed for stays until the next connect(),
\* whatever a transfer or a dial still does (closeWithError's early return).
THEOREM TransferReasonKept == TransferSpec => ReasonIsKept
  <1> DEFINE Changes == closingError # None /\ closingError' # closingError
             Kept == Changes => conn' # conn
  <1>1. ASSUME Contained, TransferNext, Changes PROVE conn' # conn
    <2>1. CASE ContextStep \/ CloseClient
      BY <1>1, <2>1, ContextIsNext, NextKeepsReason DEF Contained, ClosedReleasesAll
    <2>2. ASSUME TransferStep PROVE UNCHANGED closingError
      BY <1>1, <2>2
         DEF TransferStep, StartDial, DialFails, DialOpens, DialOpensOnClosed,
             DialOpensDuringTask, closeWithError, PassToTransfer, PassError, PassStart,
             PassStartOfSecureUpload, PassRestart, PassCompletion, PassRequest,
             PassPreliminary, SecureConnect, DataEnds, DataEndsBeforeDestination,
             DestinationFinishes, DestinationFails, LocalStreamError, DataTimeout,
             ServerTransfers, vars
    <2> QED
      BY <1>1, <2>1, <2>2 DEF TransferNext
  <1>2. Contained /\ [TransferNext]_allVars => [Kept]_vars
    BY <1>1 DEF allVars, vars
  <1> QED
    BY <1>2, ContainedAlways, PTL DEF TransferSpec, ReasonIsKept

LEMMA TransferNextPartial ==
    TransferTypeOK /\ PartialIsOfArrivingReply /\ [TransferNext]_allVars
        => PartialIsOfArrivingReply'
  <1> SUFFICES ASSUME TransferTypeOK, PartialIsOfArrivingReply, [TransferNext]_allVars
               PROVE  PartialIsOfArrivingReply'
    OBVIOUS
  <1>1. CASE ContextStep \/ CloseClient
    BY <1>1, ContextIsNext, NextPartial DEF TransferTypeOK
  <1>2. CASE UNCHANGED <<closingError, wire, partial>>
    BY <1>2 DEF PartialIsOfArrivingReply
  <1>3. ASSUME NEW reason \in Reasons, NEW p, closeWithError(reason, p)
        PROVE  PartialIsOfArrivingReply'
    BY <1>3, CloseCloses DEF PartialIsOfArrivingReply
  <1>4. CASE ServerTransfers
    <2>1. PICK code \in TransferAnswers(Head(owed).what) :
             wire' = Append(wire, [to |-> Head(owed).to, code |-> code])
      BY <1>4 DEF ServerTransfers
    <2>2. [to |-> Head(owed).to, code |-> code] \in Reply /\ wire \in Seq(Reply)
      BY <1>4, OwedHead, TransferAnswersType DEF ServerTransfers, Reply, TransferTypeOK, TypeOK
    <2>3. wire' # <<>> /\ (wire # <<>> => Head(wire') = Head(wire))
      BY <2>1, <2>2, SeqFacts
    <2> QED
      BY <1>4, <2>3 DEF ServerTransfers, PartialIsOfArrivingReply
  <1>5. ASSUME NEW t \in Tasks, PassToTransfer(t) PROVE PartialIsOfArrivingReply'
    BY <1>2, <1>3, <1>5
       DEF PassToTransfer, PassError, PassStart, PassStartOfSecureUpload, PassRestart,
           PassCompletion, PassRequest, PassPreliminary, Reasons
  <1>6. CASE TransferStep
    BY <1>2, <1>3, <1>4, <1>5, <1>6
       DEF TransferStep, StartDial, DialFails, DialOpens, DialOpensOnClosed,
           DialOpensDuringTask, SecureConnect, DataEnds, DataEndsBeforeDestination,
           DestinationFinishes, DestinationFails, LocalStreamError, DataTimeout, vars, Reasons
  <1>7. CASE UNCHANGED allVars
    BY <1>2, <1>7 DEF allVars, vars
  <1> QED
    BY <1>1, <1>6, <1>7 DEF TransferNext

\* Also with transfers, the partial response of an open context is the
\* beginning of the reply now arriving (the reset of _partialResponse).
THEOREM TransferPartialIsOfArriving == TransferSpec => []PartialIsOfArrivingReply
  <1>1. TransferInit => PartialIsOfArrivingReply
    BY EmptySeq DEF TransferInit, Init, PartialIsOfArrivingReply
  <1> QED
    BY <1>1, TransferNextPartial, TransferTyped, PTL DEF TransferSpec

-----------------------------------------------------------------------------
(* What holds as long as a download's destination does not outlast the     *)
(* data connection: the pipeline's callback then never comes for a task    *)
(* that is not tracked any more.                                           *)

Prompt == "slowLocalStream" \notin Quirks

NoneEnded == \A t \in Tasks : pipe[t] # "ended"

Remembered == Contained /\ PendingIsTracked /\ NoneEnded

LEMMA RememberedIsSafe == Remembered => Safe
  BY NoneAssumption
     DEF Remembered, Contained, Safe, ClosedIsDead, ClosedReleasesAll, PendingIsTracked,
         TransferTypeOK

\* The promise of the tracked task is settled, and the task dropped.
LEMMA SettleForgetsNone ==
    ASSUME TypeOK, PendingIsTracked, NEW t \in Tasks, NEW how \in {"resolved", "rejected"},
           task = t, promise' = SettleIn(promise, t, how)
    PROVE  PendingIsTracked'
  <1>1. \A u \in Tasks : promise'[u] # "pending"
    BY DEF TypeOK, PendingIsTracked, SettleIn
  <1> QED
    BY <1>1 DEF PendingIsTracked

\* A callback of a pipeline is one of the tracked task's.
LEMMA CallbackIsOfTask ==
    ASSUME Remembered, NEW t \in Tasks,
           PassToTransfer(t) \/ SecureConnect(t) \/ DataEnds(t) \/ DestinationFinishes(t)
               \/ DestinationFails(t)
    PROVE  task = t /\ closingError = None
  <1>1. task = t
    BY DEF PassToTransfer, PassError, PassStart, PassStartOfSecureUpload, PassRestart,
           PassCompletion, PassRequest, PassPreliminary, Receives, SecureConnect, DataEnds,
           DestinationFinishes, DestinationFails, Remembered, NoneEnded, Contained,
           PipesAreOfTask
  <1> QED
    BY <1>1, NoneAssumption DEF Remembered, Contained, ClosedReleasesAll

LEMMA OwnStepRemembers ==
    ASSUME Prompt, Remembered, TransferStep
    PROVE  PendingIsTracked' /\ NoneEnded'
  <1> USE NoneAssumption
  <1>t. /\ TypeOK /\ promise \in [Tasks -> Promises] /\ pipe \in [Tasks -> Pipes]
        /\ PendingIsTracked /\ NoneEnded
    BY DEF Remembered, Contained, TransferTypeOK, TypeOK, Promises, Pipes
  <1>0. ASSUME UNCHANGED <<task, promise, pipe>> PROVE PendingIsTracked' /\ NoneEnded'
    BY <1>0, <1>t DEF PendingIsTracked, NoneEnded
  <1>c. ASSUME NEW p \in [Tasks -> Pipes], pipe' = CutIn(p), \A u \in Tasks : p[u] # "ended"
        PROVE  NoneEnded'
    BY <1>c, CutInFacts DEF NoneEnded
  <1>1. ASSUME NEW t \in Tasks,
               StartDial(t) \/ DialFails(t) \/ PassRestart(t) \/ PassPreliminary(t)
        PROVE  PendingIsTracked' /\ NoneEnded'
    BY <1>0, <1>1 DEF StartDial, DialFails, PassRestart, PassPreliminary, vars, transferVars
  <1>2. ASSUME NEW t \in Tasks, NEW h \in Kinds, DialOpens(t, h) \/ DialOpensOnClosed(t, h)
        PROVE  PendingIsTracked' /\ NoneEnded'
    BY <1>2, <1>t DEF DialOpens, DialOpensOnClosed, Track, transferVars, PendingIsTracked,
                      NoneEnded, TypeOK
  <1>3. ASSUME NEW reason \in Reasons, NEW p \in [Tasks -> Promises], NothingRevived(p),
               closeWithError(reason, p), UNCHANGED conn, Carry
        PROVE  PendingIsTracked' /\ NoneEnded'
    <2>1. PendingIsTracked'
      BY <1>3, CloseSafe, RememberedIsSafe DEF Promises
    <2> QED
      BY <1>3, <1>c, <1>t, <2>1 DEF Carry, NoneEnded
  <1>p. NothingRevived(promise)
    BY DEF NothingRevived
  <1>4. ASSUME NEW t \in Tasks, NEW h \in Kinds, DialOpensDuringTask(t, h)
        PROVE  PendingIsTracked' /\ NoneEnded'
    <2> DEFINE p == [promise EXCEPT ![t] = "rejected"]
    <2>1. p \in [Tasks -> Promises] /\ NothingRevived(p)
      BY <1>t DEF NothingRevived, Promises
    <2>2. closeWithError("collision", p) /\ UNCHANGED conn /\ "collision" \in Reasons /\ Carry
      BY <1>4 DEF DialOpensDuringTask, Reasons
    <2> HIDE DEF p
    <2> QED
      BY <1>3, <2>1, <2>2
  <1>5. ASSUME NEW t \in Tasks, PassRequest(t) \/ LocalStreamError(t)
        PROVE  PendingIsTracked' /\ NoneEnded'
    BY <1>3, <1>5, <1>p, <1>t DEF PassRequest, LocalStreamError, Reasons
  <1>6. ASSUME NEW t \in Tasks, NEW p \in [Tasks -> Pipes], task = t, onError(t, p),
               \A u \in Tasks : p[u] # "ended"
        PROVE  PendingIsTracked' /\ NoneEnded'
    BY <1>6, <1>c, <1>t, SettleForgetsNone DEF onError
  <1>7. ASSUME NEW t \in Tasks, PassError(t) \/ DestinationFails(t), task = t
        PROVE  PendingIsTracked' /\ NoneEnded'
    <2>1. [pipe EXCEPT ![t] = "over"] \in [Tasks -> Pipes]
      BY <1>t DEF Pipes
    <2> QED
      BY <1>6, <1>7, <1>t, <2>1 DEF PassError, DestinationFails, NoneEnded
  <1>8. ASSUME NEW t \in Tasks, NEW p \in [Tasks -> Pipes], task = t,
               NEW done, NEW response, NEW timer, NEW socket,
               tryResolve(t, done, response, timer, socket),
               pipe' = CutIn(p), \A u \in Tasks : p[u] # "ended"
        PROVE  PendingIsTracked' /\ NoneEnded'
    <2>1. PendingIsTracked'
      BY <1>8, <1>t, SettleForgetsNone DEF tryResolve, PendingIsTracked
    <2> QED
      BY <1>8, <1>c, <2>1
  <1>9. ASSUME NEW t \in Tasks, PassCompletion(t), task = t
        PROVE  PendingIsTracked' /\ NoneEnded'
    BY <1>8, <1>9, <1>t DEF PassCompletion, onControlDone, NoneEnded
  <1>10. ASSUME NEW t \in Tasks, DataEnds(t) \/ DestinationFinishes(t), task = t
         PROVE  PendingIsTracked' /\ NoneEnded'
    <2> DEFINE p == [pipe EXCEPT ![t] = "over"]
    <2>1. p \in [Tasks -> Pipes] /\ \A u \in Tasks : p[u] # "ended"
      BY <1>t DEF Pipes, NoneEnded
    <2>2. /\ tryResolve(t, TRUE, resp[t], ctl # "destroyed",
                        IF data = "none" THEN "none" ELSE "idle")
          /\ pipe' = CutIn(p)
      BY <1>10 DEF DataEnds, DestinationFinishes, onDataDone
    <2> HIDE DEF p
    <2> QED
      BY <1>8, <1>10, <2>1, <2>2
  <1>11. ASSUME NEW t \in Tasks, PassStart(t) \/ PassStartOfSecureUpload(t) \/ SecureConnect(t)
         PROVE  PendingIsTracked' /\ NoneEnded'
    BY <1>11, <1>t DEF PassStart, PassStartOfSecureUpload, SecureConnect, onDataStart,
                       PendingIsTracked, NoneEnded
  <1>12. ASSUME NEW t \in Tasks, DataEndsBeforeDestination(t) PROVE FALSE
    BY <1>12 DEF DataEndsBeforeDestination, Prompt
  <1>13. CASE DataTimeout
    BY <1>3, <1>13, <1>p, <1>t DEF DataTimeout, Reasons
  <1>14. CASE ServerTransfers
    BY <1>0, <1>14 DEF ServerTransfers, transferVars
  <1> QED
    BY <1>1, <1>2, <1>4, <1>5, <1>7, <1>9, <1>10, <1>11, <1>12, <1>13, <1>14,
       CallbackIsOfTask
       DEF TransferStep, PassToTransfer

LEMMA NextRemembered == Prompt /\ Remembered /\ [TransferNext]_allVars => Remembered'
  <1> SUFFICES ASSUME Prompt, Remembered, [TransferNext]_allVars
               PROVE  PendingIsTracked' /\ NoneEnded'
    BY NextContained DEF Remembered
  <1>1. CASE ContextStep \/ CloseClient
    <2>1. PendingIsTracked'
      BY <1>1, ContextIsNext, NextSafe, RememberedIsSafe DEF Safe
    <2>2. pipe' = CutIn(pipe)
      BY <1>1 DEF ContextStep, CloseClient, Carry
    <2> QED
      BY <2>1, <2>2, CutInFacts DEF Remembered, NoneEnded
  <1>2. CASE TransferStep
    BY <1>2, OwnStepRemembers
  <1>3. CASE UNCHANGED allVars
    BY <1>3 DEF allVars, vars, transferVars, Remembered, PendingIsTracked, NoneEnded
  <1> QED
    BY <1>1, <1>2, <1>3 DEF TransferNext

LEMMA RememberedAlways == Prompt /\ TransferSpec => []Remembered
  <1>1. TransferInit => Remembered
    BY InitContained DEF TransferInit, Init, Remembered, PendingIsTracked, NoneEnded
  <1>2. ASSUME Prompt PROVE Remembered /\ [TransferNext]_allVars => Remembered'
    BY <1>2, NextRemembered
  <1>3. ASSUME Prompt PROVE TransferSpec => []Remembered
    BY <1>1, <1>2, <1>3, PTL DEF TransferSpec
  <1> QED
    BY <1>3

\* Also with transfers no pending promise is forgotten by the context
\* (TransferResolver, _stopTrackingTask).
THEOREM NoTransferForgotten == ASSUME Prompt PROVE TransferSpec => []PendingIsTracked
  BY RememberedAlways, PTL DEF Remembered

\* Also with transfers closing leaves nothing behind that could still act or
\* wait, no pending promise either (closeWithError).
THEOREM TransferClosedForGood == ASSUME Prompt PROVE TransferSpec => []ClosedIsDead
  <1>1. Remembered => ClosedIsDead
    BY RememberedIsSafe DEF Safe
  <1> QED
    BY <1>1, RememberedAlways, PTL

-----------------------------------------------------------------------------
(* What holds when moreover every command can be sent: the timeout is      *)
(* always on exactly one of the two sockets of a task, and the context is  *)
(* still a single-flight one.                                              *)

Sendable == "badCommand" \notin Quirks

TimersShared ==
    /\ task # None => (ctlTimer <=> data # "timed")
    /\ task = None => ~ctlTimer

DestroyedIsClosed == ctl = "destroyed" => closingError # None

Watched == Remembered /\ TrackedIsPending /\ TimersShared /\ DestroyedIsClosed

LEMMA CloseWatched ==
    ASSUME TimersShared, DestroyedIsClosed, closingError # None => task = None,
           NEW reason \in Reasons, NEW p, closeWithError(reason, p)
    PROVE  TimersShared' /\ DestroyedIsClosed' /\ task' = None
  BY NoneAssumption
     DEF closeWithError, _stopTrackingTask, TimersShared, DestroyedIsClosed

LEMMA ContextWatched ==
    ASSUME Watched, ContextStep \/ CloseClient
    PROVE  TimersShared' /\ DestroyedIsClosed'
  <1> USE NoneAssumption DEF TimersShared, DestroyedIsClosed
  <1>0. /\ task = None => data = "none"
        /\ closingError # None => task = None /\ ctl = "destroyed"
    BY DEF Watched, Remembered, Contained, DataSocketIsOfTransfer, ClosedReleasesAll
  <1>1. ASSUME NEW t \in Tasks, Connect(t) \/ ConnectDuringTask(t)
        PROVE  TimersShared' /\ DestroyedIsClosed'
    BY <1>1 DEF Connect, ConnectDuringTask, _stopTrackingTask, Reasons
  <1>2. ASSUME NEW t \in Tasks, NEW h \in {"request", "ignoring", "login"},
               Launch(t, h) \/ LaunchInvalid(t, h) \/ LaunchOnClosed(t, h)
        PROVE  TimersShared' /\ DestroyedIsClosed'
    BY <1>0, <1>2 DEF Launch, LaunchInvalid, LaunchOnClosed, Track, _stopTrackingTask, Watched
  <1>3. ASSUME NEW reason \in Reasons, NEW p, closeWithError(reason, p)
        PROVE  TimersShared' /\ DestroyedIsClosed'
    BY <1>0, <1>3, CloseWatched DEF Watched
  <1>4. ASSUME NEW t \in Tasks, NEW h \in {"request", "ignoring", "login"},
               LaunchDuringTask(t, h)
        PROVE  TimersShared' /\ DestroyedIsClosed'
    BY <1>3, <1>4 DEF LaunchDuringTask, Reasons
  <1>5. CASE CloseClient \/ ReceiveTooMuch \/ ControlLost \/ ControlTimeout \/ DataError
    BY <1>3, <1>5 DEF CloseClient, UserClose, ReceiveTooMuch, ControlLost, ControlTimeout,
                      DataError, Reasons
  <1>6. CASE Upgrade \/ PassAndSettle
    BY <1>0, <1>6 DEF Upgrade, PassAndSettle, _stopTrackingTask, Watched
  <1>7. CASE ReceivePiece \/ ReceiveChunk \/ PassToNobody \/ PassAndSendPassword
                \/ ServerAnswers \/ ServerAnnouncesShutdown
    BY <1>7 DEF ReceivePiece, ReceiveChunk, PassToNobody, PassAndSendPassword,
                ServerAnswers, ServerAnnouncesShutdown, Watched
  <1> QED
    BY <1>1, <1>2, <1>4, <1>5, <1>6, <1>7 DEF ContextStep, _passToHandler, Server

LEMMA OwnStepWatched ==
    ASSUME Prompt, Watched, TransferStep
    PROVE  TrackedIsPending' /\ TimersShared' /\ DestroyedIsClosed'
  <1> USE NoneAssumption DEF TrackedIsPending, TimersShared, DestroyedIsClosed
  <1>t. TypeOK /\ Remembered /\ TrackedIsPending /\ TimersShared /\ DestroyedIsClosed
    BY DEF Watched, Remembered, Contained, TransferTypeOK
  <1>d. closingError # None => task = None
    BY DEF Watched, Remembered, Contained, ClosedReleasesAll
  <1>1. ASSUME NEW t \in Tasks,
               StartDial(t) \/ DialFails(t) \/ PassRestart(t) \/ PassPreliminary(t)
                  \/ PassStartOfSecureUpload(t)
        PROVE  TrackedIsPending' /\ TimersShared' /\ DestroyedIsClosed'
    BY <1>1, <1>t DEF StartDial, DialFails, PassRestart, PassPreliminary,
                      PassStartOfSecureUpload, vars, transferVars
  <1>2. ASSUME NEW t \in Tasks, NEW h \in Kinds, DialOpens(t, h) \/ DialOpensOnClosed(t, h)
        PROVE  TrackedIsPending' /\ TimersShared' /\ DestroyedIsClosed'
    BY <1>2, <1>t DEF DialOpens, DialOpensOnClosed, Track, TypeOK
  <1>3. ASSUME NEW reason \in Reasons, NEW p, closeWithError(reason, p)
        PROVE  TrackedIsPending' /\ TimersShared' /\ DestroyedIsClosed'
    BY <1>3, <1>d, <1>t, CloseWatched
  <1>4. ASSUME NEW t \in Tasks, NEW h \in Kinds, DialOpensDuringTask(t, h)
        PROVE  TrackedIsPending' /\ TimersShared' /\ DestroyedIsClosed'
    BY <1>3, <1>4 DEF DialOpensDuringTask, Reasons
  <1>5. ASSUME NEW t \in Tasks, PassRequest(t) \/ LocalStreamError(t)
        PROVE  TrackedIsPending' /\ TimersShared' /\ DestroyedIsClosed'
    BY <1>3, <1>5 DEF PassRequest, LocalStreamError, Reasons
  <1>6. ASSUME NEW t \in Tasks, PassError(t) \/ DestinationFails(t)
        PROVE  TrackedIsPending' /\ TimersShared' /\ DestroyedIsClosed'
    BY <1>6, <1>t DEF PassError, DestinationFails, onError, _stopTrackingTask
  <1>7. ASSUME NEW t \in Tasks, PassStart(t) \/ SecureConnect(t), task = t
        PROVE  TrackedIsPending' /\ TimersShared' /\ DestroyedIsClosed'
    BY <1>7, <1>t DEF PassStart, SecureConnect, onDataStart
  <1>8. ASSUME NEW t \in Tasks, PassCompletion(t)
        PROVE  TrackedIsPending' /\ TimersShared' /\ DestroyedIsClosed'
    BY <1>8, <1>t DEF PassCompletion, onControlDone, tryResolve, _stopTrackingTask
  <1>9. ASSUME NEW t \in Tasks, DataEnds(t) \/ DestinationFinishes(t),
               task = t, closingError = None
        PROVE  TrackedIsPending' /\ TimersShared' /\ DestroyedIsClosed'
    <2>1. /\ tryResolve(t, TRUE, resp[t], ctl # "destroyed",
                        IF data = "none" THEN "none" ELSE "idle")
          /\ UNCHANGED <<ctl, closingError>>
      BY <1>9 DEF DataEnds, DestinationFinishes, onDataDone
    <2>2. ctl # "destroyed"
      BY <1>9, <1>t
    <2> QED
      BY <1>9, <1>t, <2>1, <2>2 DEF tryResolve, _stopTrackingTask
  <1>10. ASSUME NEW t \in Tasks, DataEndsBeforeDestination(t) PROVE FALSE
    BY <1>10 DEF DataEndsBeforeDestination, Prompt
  <1>11. CASE DataTimeout
    BY <1>3, <1>11 DEF DataTimeout, Reasons
  <1>12. CASE ServerTransfers
    BY <1>12, <1>t DEF ServerTransfers
  <1> QED
    BY <1>1, <1>2, <1>4, <1>5, <1>6, <1>7, <1>8, <1>9, <1>10, <1>11, <1>12, <1>t,
       CallbackIsOfTask DEF TransferStep, PassToTransfer

LEMMA NextWatched == Prompt /\ Sendable /\ Watched /\ [TransferNext]_allVars => Watched'
  <1> SUFFICES ASSUME Prompt, Sendable, Watched, [TransferNext]_allVars
               PROVE  TrackedIsPending' /\ TimersShared' /\ DestroyedIsClosed'
    BY NextRemembered DEF Watched
  <1>1. CASE ContextStep \/ CloseClient
    <2>1. Safe /\ TrackedIsPending
      BY RememberedIsSafe DEF Watched
    <2> QED
      BY <1>1, <2>1, ContextIsNext, NextTracked, ContextWatched DEF Sendable
  <1>2. CASE TransferStep
    BY <1>2, OwnStepWatched
  <1>3. CASE UNCHANGED allVars
    BY <1>3 DEF allVars, vars, Watched, TrackedIsPending, TimersShared, DestroyedIsClosed
  <1> QED
    BY <1>1, <1>2, <1>3 DEF TransferNext

LEMMA WatchedAlways == Prompt /\ Sendable /\ TransferSpec => []Watched
  <1>1. TransferInit => Watched
    BY InitContained
       DEF TransferInit, Init, Watched, Remembered, PendingIsTracked, NoneEnded,
           TrackedIsPending, TimersShared, DestroyedIsClosed
  <1>2. ASSUME Prompt, Sendable PROVE Watched /\ [TransferNext]_allVars => Watched'
    BY <1>2, NextWatched
  <1>3. ASSUME Prompt, Sendable PROVE TransferSpec => []Watched
    BY <1>1, <1>2, <1>3, PTL DEF TransferSpec
  <1> QED
    BY <1>3

\* While a promise is pending exactly one of the two sockets has a timeout
\* set, and otherwise none (onDataStart, onDataDone, onError,
\* _stopTrackingTask).
THEOREM ExactlyOneTimer ==
    ASSUME Prompt, Sendable
    PROVE  TransferSpec => []OneTimerPerTask
  <1>1. Watched => OneTimerPerTask
    <2> SUFFICES ASSUME Watched PROVE OneTimerPerTask
      OBVIOUS
    <2>1. (\E t \in Tasks : promise[t] = "pending") <=> task # None
      BY NoneAssumption
         DEF Watched, Remembered, Contained, TransferTypeOK, TypeOK, PendingIsTracked,
             TrackedIsPending
    <2> QED
      BY <2>1 DEF OneTimerPerTask, Watched, TimersShared, Remembered, Contained,
                  DataSocketIsOfTransfer
  <1> QED
    BY <1>1, WatchedAlways, PTL

\* Settling the tracked task is a step of the contract.
LEMMA SettleIsSettle ==
    ASSUME Watched, NEW t \in Tasks, task = t, NEW how \in {"resolved", "rejected"},
           promise' = SettleIn(promise, t, how), UNCHANGED closingError
    PROVE  Contract!SFNext
  <1>1. promise[t] = "pending" /\ closingError = None
    BY NoneAssumption DEF Watched, TrackedIsPending, Remembered, Contained, ClosedReleasesAll
  <1>2. \E how2 \in {"resolved", "rejected"} : promise' = [promise EXCEPT ![t] = how2]
    BY <1>1 DEF SettleIn
  <1>3. Contract!Settle(t)
    BY <1>1, <1>2 DEF Contract!Settle
  <1> QED
    BY <1>3 DEF Contract!SFNext

LEMMA OwnStepContract ==
    ASSUME Prompt, Watched, TransferStep
    PROVE  Contract!SFNext \/ UNCHANGED Contract!sfVars
  <1> USE NoneAssumption
  <1>t. /\ Safe /\ TypeOK /\ TrackedIsPending /\ Remembered
        /\ closingError # None => task = None
    BY RememberedIsSafe DEF Watched, Safe, ClosedIsDead
  <1>1. CASE UNCHANGED <<promise, closingError>>
    BY <1>1 DEF Contract!sfVars
  <1>2. ASSUME NEW t \in Tasks,
               StartDial(t) \/ DialFails(t) \/ PassStart(t) \/ PassStartOfSecureUpload(t)
                   \/ PassRestart(t) \/ PassPreliminary(t) \/ SecureConnect(t)
                   \/ DataEndsBeforeDestination(t)
        PROVE  UNCHANGED <<promise, closingError>>
    BY <1>2 DEF StartDial, DialFails, PassStart, PassStartOfSecureUpload, PassRestart,
                PassPreliminary, SecureConnect, DataEndsBeforeDestination, vars
  <1>3. ASSUME NEW t \in Tasks, NEW h \in Kinds, DialOpens(t, h)
        PROVE  Contract!SFNext
    <2>1. Contract!Begin(t)
      BY <1>3, <1>t, PendingIsTask DEF DialOpens, Track, Contract!Begin
    <2> QED
      BY <2>1 DEF Contract!SFNext
  <1>4. ASSUME NEW t \in Tasks, NEW h \in Kinds, DialOpensOnClosed(t, h)
        PROVE  Contract!SFNext
    <2>1. promise[t] = "unused"
      BY <1>4 DEF DialOpensOnClosed, Dialling
    <2>2. Contract!Refuse(t)
      BY <1>4, <2>1 DEF DialOpensOnClosed, Contract!Refuse
    <2> QED
      BY <2>2 DEF Contract!SFNext
  <1>5. ASSUME NEW t \in Tasks, NEW h \in Kinds, DialOpensDuringTask(t, h)
        PROVE  Contract!SFNext
    <2>1. Contract!Pending = {task} /\ closingError = None /\ promise[t] = "unused"
      BY <1>5, <1>t, PendingIsTask DEF DialOpensDuringTask, Dialling
    <2>2. /\ promise' = SettleIn([promise EXCEPT ![t] = "rejected"], task, "rejected")
          /\ closingError' = "collision"
      BY <1>5, <2>1 DEF DialOpensDuringTask, closeWithError
    <2>3. promise' = [u \in Tasks |-> IF u = t \/ u \in {task} THEN "rejected" ELSE promise[u]]
      BY <1>5, <1>t, <2>2 DEF DialOpensDuringTask, SettleIn, TypeOK, TrackedIsPending
    <2>4. Contract!Collide(t)
      BY <2>1, <2>2, <2>3 DEF Contract!Collide, Reasons
    <2> QED
      BY <2>4 DEF Contract!SFNext
  <1>6. ASSUME NEW reason \in Reasons, closeWithError(reason, promise)
        PROVE  Contract!SFNext \/ UNCHANGED Contract!sfVars
    BY <1>6, <1>t, CloseIsClose DEF Contract!SFNext
  <1>7. ASSUME NEW t \in Tasks, PassRequest(t) \/ LocalStreamError(t)
        PROVE  Contract!SFNext \/ UNCHANGED Contract!sfVars
    BY <1>6, <1>7 DEF PassRequest, LocalStreamError, Reasons
  <1>8. CASE DataTimeout
    BY <1>6, <1>8 DEF DataTimeout, Reasons
  <1>9. ASSUME NEW t \in Tasks, PassError(t) \/ DestinationFails(t), task = t
        PROVE  Contract!SFNext
    BY <1>9, SettleIsSettle DEF PassError, DestinationFails, onError
  <1>10. ASSUME NEW t \in Tasks,
                PassCompletion(t) \/ DataEnds(t) \/ DestinationFinishes(t), task = t
         PROVE  Contract!SFNext \/ UNCHANGED Contract!sfVars
    <2>1. UNCHANGED closingError
      BY <1>10 DEF PassCompletion, DataEnds, DestinationFinishes
    <2>2. promise' = SettleIn(promise, t, "resolved") \/ UNCHANGED promise
      BY <1>10 DEF PassCompletion, DataEnds, DestinationFinishes, onControlDone, onDataDone,
                   tryResolve
    <2> QED
      BY <1>1, <1>10, <2>1, <2>2, SettleIsSettle
  <1>11. CASE ServerTransfers
    BY <1>1, <1>11 DEF ServerTransfers
  <1> QED
    BY <1>1, <1>2, <1>3, <1>4, <1>5, <1>7, <1>8, <1>9, <1>10, <1>11, <1>t, CallbackIsOfTask
       DEF TransferStep, PassToTransfer

\* Also with transfers every step is one SingleFlight allows, or a stutter:
\* at most one promise is pending, a second call closes the context and rejects
\* both, and a closed context refuses calls until connect() (its fairness
\* apart).
THEOREM TransferImplementsContract ==
    ASSUME Prompt, Sendable
    PROVE  TransferSpec => Contract!SFInit /\ [][Contract!SFNext]_(Contract!sfVars)
  <1>1. TransferInit => Contract!SFInit
    BY DEF TransferInit, Init, Contract!SFInit
  <1>2. Watched /\ [TransferNext]_allVars => [Contract!SFNext]_(Contract!sfVars)
    <2> SUFFICES ASSUME Watched, [TransferNext]_allVars
                 PROVE  Contract!SFNext \/ UNCHANGED Contract!sfVars
      OBVIOUS
    <2>1. CASE ContextStep \/ CloseClient
      <3>1. Safe /\ TrackedIsPending
        BY RememberedIsSafe DEF Watched
      <3> QED
        BY <2>1, <3>1, ContextIsNext, NextContract DEF Sendable
    <2>2. CASE TransferStep
      BY <2>2, OwnStepContract
    <2>3. CASE UNCHANGED allVars
      BY <2>3 DEF allVars, vars, Contract!sfVars
    <2> QED
      BY <2>1, <2>2, <2>3 DEF TransferNext
  <1> QED
    BY <1>1, <1>2, WatchedAlways, PTL DEF TransferSpec

-----------------------------------------------------------------------------
(* Sequences of one and of two elements *)

LEMMA OneReply ==
    ASSUME NEW a
    PROVE  /\ <<a>> # <<>> /\ Len(<<a>>) = 1 /\ Head(<<a>>) = a /\ Tail(<<a>>) = <<>>
           /\ Append(<<>>, a) = <<a>> /\ <<a>> \o <<>> = <<a>>
           /\ SubSeq(<<a>>, 1, 1) = <<a>> /\ SubSeq(<<a>>, 2, 1) = <<>>
  <1>1. <<a>> \in Seq({a})
    OBVIOUS
  <1>2. SubSeq(<<a>>, 1, 1) = <<a>>
    BY <1>1, SubSeqFull
  <1>3. SubSeq(<<a>>, 2, 1) = <<>>
    BY SubSeqEmpty
  <1>4. /\ <<a>> # <<>> /\ Len(<<a>>) = 1 /\ Head(<<a>>) = a /\ Tail(<<a>>) = <<>>
        /\ Append(<<>>, a) = <<a>>
    OBVIOUS
  <1>5. <<a>> \o <<>> = <<a>>
    OBVIOUS
  <1> QED
    BY <1>2, <1>3, <1>4, <1>5

LEMMA TwoReplies ==
    ASSUME NEW a, NEW b
    PROVE  /\ <<a, b>> # <<>> /\ Len(<<a, b>>) = 2 /\ Head(<<a, b>>) = a
           /\ Tail(<<a, b>>) = <<b>> /\ Append(<<a>>, b) = <<a, b>>
           /\ SubSeq(<<a, b>>, 1, 1) = <<a>> /\ SubSeq(<<a, b>>, 2, 2) = <<b>>
           /\ SubSeq(<<a, b>>, 1, 2) = <<a, b>> /\ SubSeq(<<a, b>>, 3, 2) = <<>>
  <1> DEFINE s == <<a, b>>
  <1>1. s \in Seq({a, b}) /\ Len(s) = 2 /\ s[1] = a /\ s[2] = b
    OBVIOUS
  <1>2. SubSeq(s, 1, 2) = s
    BY <1>1, SubSeqFull
  <1>3. SubSeq(s, 3, 2) = <<>>
    BY SubSeqEmpty
  <1>4. SubSeq(s, 1, 1) = <<a>>
    <2>1. /\ SubSeq(s, 1, 1) \in Seq({a, b}) /\ Len(SubSeq(s, 1, 1)) = 1
          /\ SubSeq(s, 1, 1)[1] = a
      BY <1>1, SubSeqProperties
    <2>2. <<a>> \in Seq({a, b}) /\ Len(<<a>>) = 1 /\ <<a>>[1] = a
      OBVIOUS
    <2>3. \A i \in 1 .. 1 : i = 1
      OBVIOUS
    <2> HIDE DEF s
    <2> QED
      BY <2>1, <2>2, <2>3, SeqEqual
  <1>5. SubSeq(s, 2, 2) = <<b>>
    <2>1. /\ SubSeq(s, 2, 2) \in Seq({a, b}) /\ Len(SubSeq(s, 2, 2)) = 1
          /\ SubSeq(s, 2, 2)[1] = b
      BY <1>1, SubSeqProperties
    <2>2. <<b>> \in Seq({a, b}) /\ Len(<<b>>) = 1 /\ <<b>>[1] = b
      OBVIOUS
    <2>3. \A i \in 1 .. 1 : i = 1
      OBVIOUS
    <2> HIDE DEF s
    <2> QED
      BY <2>1, <2>2, <2>3, SeqEqual
  <1>6. s # <<>> /\ Head(s) = a /\ Tail(s) = <<b>>
    OBVIOUS
  <1>7. Append(<<a>>, b) = s
    <2>1. <<a>> \in Seq({a, b}) /\ Len(<<a>>) = 1 /\ <<a>>[1] = a
      OBVIOUS
    <2>2. /\ Append(<<a>>, b) \in Seq({a, b}) /\ Len(Append(<<a>>, b)) = 2
          /\ Append(<<a>>, b)[1] = a /\ Append(<<a>>, b)[2] = b
      BY <2>1, AppendProperties
    <2>3. \A i \in 1 .. 2 : i = 1 \/ i = 2
      OBVIOUS
    <2> HIDE DEF s
    <2> QED
      BY <1>1, <2>2, <2>3, SeqEqual
  <1> QED
    BY <1>1, <1>2, <1>3, <1>4, <1>5, <1>6, <1>7

-----------------------------------------------------------------------------
(* What holds when the server's replies stay in turn with the commands: it *)
(* answers each command once, a transfer's once for its start and once for *)
(* its outcome, says nothing unasked, and no destination of a download     *)
(* ends a task before the server's last word on it.                        *)

TakesTurns ==
    Quirks \cap {"delayedGreeting", "unsolicited", "slowLocalStream", "localAbort"} = {}

Answer(t, code) == [to |-> t, code |-> code]
DebtTo(t, what) == [to |-> t, what |-> what]

Starts == {125, 150}
Outcomes == {200, 550}

\* The start of transfer t has been announced and handled.
Started(t) == handler[t] \in Kinds /\ pipe[t] # "none"

\* What the server may still owe to task t, and the last word it may say.
Debts(t) ==
    CASE Started(t)                             -> {"outcome"}
      [] handler[t] \in Kinds /\ ~Started(t)    -> {"restart", "transfer"}
      [] handler[t] \notin Kinds                -> {"greeting", "command", "password"}

Finals(t) == IF Started(t) THEN Outcomes ELSE Outcomes \cup {331, 332, 350}

InFlight(s) == (chunk = <<>> /\ wire = s) \/ (chunk = s /\ wire = <<>>)

NothingDue == chunk = <<>> /\ wire = <<>> /\ owed = <<>>

DebtDue(t) ==
    /\ chunk = <<>> /\ wire = <<>>
    /\ \E what \in Debts(t) : owed = <<DebtTo(t, what)>>

FinalDue(t) ==
    /\ owed = <<>>
    /\ \E code \in Finals(t) : InFlight(<<Answer(t, code)>>)

\* The start is announced and the outcome still to come.
StartDue(t) ==
    /\ handler[t] \in Kinds /\ ~Started(t)
    /\ owed = <<DebtTo(t, "outcome")>>
    /\ \E code \in Starts : InFlight(<<Answer(t, code)>>)

\* Start and outcome are both announced.
BothDue(t) ==
    /\ handler[t] \in Kinds /\ ~Started(t)
    /\ owed = <<>>
    /\ \E start \in Starts, code \in Outcomes :
          \/ InFlight(<<Answer(t, start), Answer(t, code)>>)
          \/ chunk = <<Answer(t, start)>> /\ wire = <<Answer(t, code)>>

\* All that is due is due to the tracked task, and comes in turn.
InTurn ==
    \/ NothingDue
    \/ /\ task # None
       /\ ~resp[task]
       /\ DebtDue(task) \/ FinalDue(task) \/ StartDue(task) \/ BothDue(task)

\* What has not begun has left no trace, a transfer whose data is done is
\* over, and progress is polled and promises are resolved accordingly.
Fresh ==
    \A t \in Tasks : promise[t] = "unused" => pipe[t] = "none" /\ ~dataDone[t] /\ ~resp[t]

DoneIsOver == \A t \in Tasks : dataDone[t] => pipe[t] = "over"

Marked == Fresh /\ DoneIsOver /\ ProgressIsOfFlowingTransfer /\ ResolvedMeansComplete

InStep == Remembered /\ InTurn /\ Marked

LEMMA TurnsArePrompt == TakesTurns => Prompt
  BY DEF TakesTurns, Prompt

LEMMA NothingIsInTurn == NothingDue' => InTurn'
  BY DEF InTurn, NothingDue

LEMMA UntrackedIsQuiet == InTurn /\ task = None => NothingDue
  BY DEF InTurn

\* The reply being passed along: the last word on the tracked task, or the
\* announcement of its start.
LEMMA ChunkInTurn ==
    ASSUME InTurn, chunk # <<>>
    PROVE  /\ task # None /\ ~resp[task] /\ Head(chunk).to = task
           /\ \/ /\ Head(chunk).code \in Finals(task)
                 /\ Tail(chunk) = <<>> /\ wire = <<>> /\ owed = <<>>
              \/ /\ Head(chunk).code \in Starts /\ handler[task] \in Kinds /\ ~Started(task)
                 /\ \/ Tail(chunk) = <<>> /\ wire = <<>> /\ owed = <<DebtTo(task, "outcome")>>
                    \/ \E code \in Outcomes :
                          /\ owed = <<>>
                          /\ \/ Tail(chunk) = <<>> /\ wire = <<Answer(task, code)>>
                             \/ Tail(chunk) = <<Answer(task, code)>> /\ wire = <<>>
  <1>1. task # None /\ ~resp[task]
    BY DEF InTurn, NothingDue
  <1>2. CASE DebtDue(task)
    BY <1>2 DEF DebtDue
  <1>3. CASE FinalDue(task)
    <2>1. PICK code \in Finals(task) : chunk = <<Answer(task, code)>> /\ wire = <<>>
      BY <1>3, OneReply DEF FinalDue, InFlight
    <2>2. Head(chunk) = Answer(task, code) /\ Tail(chunk) = <<>>
      BY <2>1, OneReply
    <2> QED
      BY <1>1, <1>3, <2>1, <2>2 DEF FinalDue, Answer
  <1>4. CASE StartDue(task)
    <2>1. PICK code \in Starts : chunk = <<Answer(task, code)>> /\ wire = <<>>
      BY <1>4, OneReply DEF StartDue, InFlight
    <2>2. Head(chunk) = Answer(task, code) /\ Tail(chunk) = <<>>
      BY <2>1, OneReply
    <2> QED
      BY <1>1, <1>4, <2>1, <2>2 DEF StartDue, Answer
  <1>5. CASE BothDue(task)
    <2>1. PICK start \in Starts, code \in Outcomes :
             \/ InFlight(<<Answer(task, start), Answer(task, code)>>)
             \/ chunk = <<Answer(task, start)>> /\ wire = <<Answer(task, code)>>
      BY <1>5 DEF BothDue
    <2>2. CASE chunk = <<Answer(task, start)>> /\ wire = <<Answer(task, code)>>
      <3>1. Head(chunk) = Answer(task, start) /\ Tail(chunk) = <<>>
        BY <2>2, OneReply
      <3> QED
        BY <1>1, <1>5, <2>2, <3>1 DEF BothDue, Answer
    <2>3. CASE chunk = <<Answer(task, start), Answer(task, code)>> /\ wire = <<>>
      <3>1. Head(chunk) = Answer(task, start) /\ Tail(chunk) = <<Answer(task, code)>>
        BY <2>3, TwoReplies
      <3> QED
        BY <1>1, <1>5, <2>3, <3>1 DEF BothDue, Answer
    <2> QED
      BY <2>1, <2>2, <2>3 DEF InFlight
  <1> QED
    BY <1>2, <1>3, <1>4, <1>5 DEF InTurn, NothingDue

\* What the server owes: one answer to the tracked task, before anything is in
\* flight, or the outcome of a transfer whose start is.
LEMMA OwedInTurn ==
    ASSUME InTurn, owed # <<>>
    PROVE  /\ task # None /\ ~resp[task]
           /\ Head(owed).to = task /\ Tail(owed) = <<>>
           /\ \/ chunk = <<>> /\ wire = <<>> /\ Head(owed).what \in Debts(task)
              \/ StartDue(task) /\ Head(owed).what = "outcome"
  <1>1. task # None /\ ~resp[task]
    BY DEF InTurn, NothingDue
  <1>2. PICK what : /\ owed = <<DebtTo(task, what)>>
                    /\ \/ chunk = <<>> /\ wire = <<>> /\ what \in Debts(task)
                       \/ StartDue(task) /\ what = "outcome"
    BY DEF InTurn, NothingDue, DebtDue, FinalDue, StartDue, BothDue
  <1>3. Head(owed) = DebtTo(task, what) /\ Tail(owed) = <<>>
    BY <1>2, OneReply
  <1> QED
    BY <1>1, <1>2, <1>3 DEF DebtTo

\* A step that nothing due depends on.
LEMMA TurnKept ==
    ASSUME InTurn, UNCHANGED <<chunk, wire, owed>>,
           task # None => UNCHANGED task /\ resp'[task] = resp[task]
                             /\ handler'[task] = handler[task]
                             /\ (pipe'[task] = "none" <=> pipe[task] = "none")
    PROVE  InTurn'
  <1>1. CASE NothingDue
    BY <1>1, NothingIsInTurn DEF NothingDue
  <1>2. CASE ~NothingDue
    <2>1. task # None /\ UNCHANGED task /\ ~resp'[task]
      BY <1>2 DEF InTurn
    <2>2. (handler'[task] \in Kinds <=> handler[task] \in Kinds)
              /\ Started(task)' = Started(task)
      BY <2>1 DEF Started
    <2> QED
      BY <1>2, <2>1, <2>2
         DEF InTurn, DebtDue, FinalDue, StartDue, BothDue, Debts, Finals, InFlight
  <1> QED
    BY <1>1, <1>2

\* Closing drops all that is due.
LEMMA CloseInTurn ==
    ASSUME InTurn, closingError # None => task = None, chunk' = <<>>,
           NEW reason, NEW p, closeWithError(reason, p)
    PROVE  InTurn'
  BY UntrackedIsQuiet, NothingIsInTurn DEF closeWithError, NothingDue

LEMMA SendInTurn ==
    ASSUME NEW t \in Tasks, NEW what, task' = t, ~resp'[t],
           owed = <<>>, chunk' = <<>>, wire' = <<>>,
           what \in Debts(t)',
           Send(t, what)
    PROVE  InTurn'
  <1>1. CASE owed' = <<>>
    BY <1>1, NothingIsInTurn DEF NothingDue
  <1>2. CASE owed' = Append(<<>>, DebtTo(t, what))
    <2>1. owed' = <<DebtTo(t, what)>>
      BY <1>2, OneReply
    <2>2. DebtDue(t)'
      BY <2>1 DEF DebtDue, DebtTo
    <2> QED
      BY <2>2, NoneAssumption DEF InTurn
  <1> QED
    BY <1>1, <1>2 DEF Send, DebtTo

LEMMA ContextInTurn ==
    ASSUME TakesTurns, InStep, ContextStep \/ CloseClient
    PROVE  InTurn'
  <1> USE NoneAssumption
  <1>t. /\ InTurn /\ TypeOK /\ Fresh
        /\ closingError # None => task = None
        /\ task = None => NothingDue
    BY UntrackedIsQuiet
       DEF InStep, Remembered, Contained, TransferTypeOK, ClosedReleasesAll, Marked
  <1>c. /\ UNCHANGED resp /\ pipe' = CutIn(pipe)
        /\ \A u \in Tasks : pipe'[u] = "none" <=> pipe[u] = "none"
    BY DEF ContextStep, CloseClient, Carry, CutIn
  <1>1. ASSUME NEW t \in Tasks, Connect(t)
        PROVE  InTurn'
    <2>1. /\ task' = t /\ chunk' = <<>> /\ wire' = <<>> /\ owed' = <<DebtTo(t, "greeting")>>
          /\ handler'[t] = "connect" /\ ~resp'[t]
      BY <1>1, <1>c, <1>t DEF Connect, DebtTo, TypeOK, Fresh
    <2>2. DebtDue(t)'
      BY <2>1 DEF DebtDue, Debts, Started
    <2> QED
      BY <2>1, <2>2 DEF InTurn
  <1>2. ASSUME NEW t \in Tasks, ConnectDuringTask(t)
        PROVE  InTurn'
    BY <1>2, NothingIsInTurn DEF ConnectDuringTask, NothingDue
  <1>3. ASSUME NEW t \in Tasks, NEW h \in {"request", "ignoring", "login"}, Launch(t, h)
        PROVE  InTurn'
    <2>1. /\ task' = t /\ ~resp'[t] /\ handler'[t] = h
          /\ owed = <<>> /\ chunk' = <<>> /\ wire' = <<>> /\ Send(t, "command")
      BY <1>3, <1>c, <1>t DEF Launch, Track, NothingDue, Fresh, TypeOK
    <2>2. "command" \in Debts(t)'
      BY <2>1 DEF Debts, Started
    <2> QED
      BY <2>1, <2>2, SendInTurn
  <1>4. ASSUME NEW t \in Tasks, NEW h \in {"request", "ignoring", "login"},
               LaunchInvalid(t, h) \/ LaunchOnClosed(t, h)
        PROVE  InTurn'
    BY <1>4, <1>t, NothingIsInTurn DEF LaunchInvalid, LaunchOnClosed, Track, NothingDue
  <1>5. ASSUME NEW t \in Tasks, NEW h \in {"request", "ignoring", "login"},
               LaunchDuringTask(t, h)
        PROVE  InTurn'
    BY <1>5, <1>t, CloseInTurn DEF LaunchDuringTask
  <1>6. CASE CloseClient \/ ReceiveTooMuch \/ ControlLost \/ ControlTimeout \/ DataError
    BY <1>6, <1>t, CloseInTurn
       DEF CloseClient, UserClose, ReceiveTooMuch, ControlLost, ControlTimeout, DataError
  <1>7. CASE Upgrade
    BY <1>7, <1>t, NothingIsInTurn DEF Upgrade, NothingDue
  <1>8. CASE ReceivePiece
    BY <1>8, <1>c, <1>t, TurnKept DEF ReceivePiece, TypeOK
  <1>9. CASE ReceiveChunk
    <2>0. /\ UNCHANGED <<task, handler, owed>> /\ chunk = <<>>
          /\ (task \in Tasks => UNCHANGED resp /\ (Started(task)' = Started(task)))
      BY <1>9, <1>c DEF ReceiveChunk, Started
    <2>1. PICK n \in 1 .. Len(wire) :
             chunk' = SubSeq(wire, 1, n) /\ wire' = SubSeq(wire, n + 1, Len(wire))
      BY <1>9 DEF ReceiveChunk
    <2>2. wire # <<>>
      BY <1>t, <2>1, EmptySeq DEF TypeOK
    <2>3. task \in Tasks /\ ~resp[task] /\ (FinalDue(task) \/ StartDue(task) \/ BothDue(task))
      BY <1>t, <2>2 DEF InTurn, NothingDue, DebtDue, TypeOK
    <2>4. ASSUME NEW r, wire = <<r>>
          PROVE  chunk' = <<r>> /\ wire' = <<>>
      <3>1. n = 1 /\ Len(wire) = 1
        BY <2>1, <2>4, OneReply
      <3> QED
        BY <2>1, <2>4, <3>1, OneReply
    <2>5. ASSUME NEW r, NEW s, wire = <<r, s>>
          PROVE  (chunk' = <<r>> /\ wire' = <<s>>) \/ (chunk' = <<r, s>> /\ wire' = <<>>)
      <3>1. n \in {1, 2} /\ Len(wire) = 2
        BY <2>1, <2>5, TwoReplies
      <3>2. CASE n = 1
        BY <2>1, <2>5, <3>1, <3>2, TwoReplies
      <3>3. CASE n = 2
        <4>1. wire' = <<>>
          BY <2>1, <3>1, <3>3, SubSeqEmpty
        <4> QED
          BY <2>1, <2>5, <3>3, <4>1, TwoReplies
      <3> QED
        BY <3>1, <3>2, <3>3
    <2>6. CASE FinalDue(task)
      <3>1. PICK code \in Finals(task) : wire = <<Answer(task, code)>>
        BY <2>0, <2>2, <2>6 DEF FinalDue, InFlight
      <3>2. chunk' = <<Answer(task, code)>> /\ wire' = <<>>
        BY Zenon, <2>4, <3>1
      <3>3. task' = task /\ Finals(task)' = Finals(task) /\ owed' = <<>>
        BY <2>0, <2>3, <2>6 DEF Finals, FinalDue
      <3>4. FinalDue(task)'
        BY Zenon, <3>1, <3>2, <3>3 DEF FinalDue, InFlight
      <3> QED
        BY <2>0, <2>3, <3>4 DEF InTurn
    <2>7. CASE StartDue(task)
      <3>1. PICK code \in Starts : wire = <<Answer(task, code)>>
        BY <2>0, <2>2, <2>7 DEF StartDue, InFlight
      <3>2. StartDue(task)'
        BY <2>0, <2>3, <2>4, <2>7, <3>1 DEF StartDue, InFlight, Answer, DebtTo
      <3> QED
        BY <2>0, <2>3, <3>2 DEF InTurn
    <2>8. CASE BothDue(task)
      <3>1. PICK start \in Starts, code \in Outcomes :
               wire = <<Answer(task, start), Answer(task, code)>>
        BY <2>0, <2>2, <2>8, OneReply DEF BothDue, InFlight
      <3>2. BothDue(task)'
        BY <2>0, <2>3, <2>5, <2>8, <3>1 DEF BothDue, InFlight, Answer
      <3> QED
        BY <2>0, <2>3, <3>2 DEF InTurn
    <2> QED
      BY <2>3, <2>6, <2>7, <2>8
  <1>10. CASE PassToNobody
    BY <1>10, <1>t DEF PassToNobody, NothingDue
  <1>11. CASE PassAndSettle \/ PassAndSendPassword
    <2>1. /\ chunk # <<>> /\ handler[task] \notin Kinds /\ task \in Tasks
          /\ chunk' = Tail(chunk) /\ UNCHANGED <<wire, handler>>
      BY <1>11, <1>t DEF PassAndSettle, PassAndSendPassword, Verdict, TypeOK
    <2>2. chunk' = <<>> /\ wire' = <<>> /\ owed = <<>> /\ ~resp'[task]
      BY <1>c, <1>t, <2>1, ChunkInTurn
    <2>3. CASE PassAndSettle
      BY <2>2, <2>3, NothingIsInTurn DEF PassAndSettle, NothingDue
    <2>4. CASE PassAndSendPassword
      <3>1. "password" \in Debts(task)'
        BY <2>1, <2>4 DEF PassAndSendPassword, Debts, Started
      <3> QED
        BY <2>1, <2>2, <2>4, <3>1, SendInTurn DEF PassAndSendPassword
    <2> QED
      BY <1>11, <2>3, <2>4
  <1>12. CASE ServerAnswers
    <2>1. PICK code \in Answers(Head(owed).what) :
             /\ wire' = Append(wire, [to |-> Head(owed).to, code |-> code])
             /\ owed' = IF code = 120
                        THEN <<[to |-> Head(owed).to, what |-> "service"]>> \o Tail(owed)
                        ELSE Tail(owed)
      BY <1>12 DEF ServerAnswers
    <2>2. Head(owed).what \in {"greeting", "service", "command", "password"}
      BY <2>1 DEF Answers
    <2>3. /\ task \in Tasks /\ ~resp[task] /\ Head(owed).to = task /\ Tail(owed) = <<>>
          /\ chunk = <<>> /\ wire = <<>> /\ Head(owed).what \in Debts(task)
      BY <1>12, <1>t, <2>2, OwedInTurn DEF ServerAnswers, TypeOK
    <2>4. code \in Outcomes \cup {331, 332, 350}
      BY <2>1, <2>2 DEF Answers, Outcomes, TakesTurns
    <2>5. handler[task] \notin Kinds
      BY <2>2, <2>3 DEF Debts
    <2>6. wire' = <<Answer(task, code)>> /\ owed' = <<>> /\ chunk' = <<>>
             /\ UNCHANGED <<task, handler>>
      BY <1>12, <2>1, <2>3, <2>4, OneReply DEF ServerAnswers, Answer, Outcomes
    <2>7. FinalDue(task)'
      BY <2>4, <2>5, <2>6 DEF FinalDue, Finals, Started, InFlight, Answer
    <2> QED
      BY <1>c, <2>3, <2>6, <2>7 DEF InTurn
  <1>13. CASE ServerAnnouncesShutdown
    BY <1>13 DEF ServerAnnouncesShutdown, TakesTurns
  <1> QED
    BY <1>1, <1>2, <1>3, <1>4, <1>5, <1>6, <1>7, <1>8, <1>9, <1>10, <1>11, <1>12, <1>13
       DEF ContextStep, _passToHandler, Server

\* A transfer's start is announced before anything else has happened to it.
LEMMA StartIsFirst ==
    ASSUME InStep, NEW t \in Tasks, PassStart(t) \/ PassStartOfSecureUpload(t)
    PROVE  task = t /\ pipe[t] = "none" /\ handler[t] \in Kinds /\ ~resp[t]
  <1>1. /\ chunk # <<>> /\ task = t /\ handler[t] \in Kinds /\ Head(chunk).code \in Starts
    BY DEF PassStart, PassStartOfSecureUpload, Receives, Code, IsStart, Starts
  <1>2. ~(Head(chunk).code \in Finals(task))
    BY <1>1 DEF Finals, Starts, Outcomes
  <1>3. ~Started(t) /\ ~resp[t]
    BY <1>1, <1>2, ChunkInTurn DEF InStep
  <1> QED
    BY <1>1, <1>3 DEF Started

LEMMA OwnStepInTurn ==
    ASSUME TakesTurns, InStep, TransferStep
    PROVE  InTurn'
  <1> USE NoneAssumption
  <1>t. /\ InTurn /\ TypeOK /\ Fresh /\ Remembered
        /\ pipe \in [Tasks -> Pipes] /\ resp \in [Tasks -> BOOLEAN]
        /\ closingError # None => task = None
        /\ task = None => NothingDue
    BY UntrackedIsQuiet
       DEF InStep, Remembered, Contained, TransferTypeOK, ClosedReleasesAll, Marked, Pipes
  <1>1. ASSUME NEW t \in Tasks, StartDial(t) \/ DialFails(t) \/ DataEndsBeforeDestination(t)
        PROVE  InTurn'
    BY <1>1, <1>t, TurnKept, TurnsArePrompt
       DEF StartDial, DialFails, DataEndsBeforeDestination, vars, Prompt
  <1>2. ASSUME NEW t \in Tasks, NEW h \in Kinds, DialOpens(t, h)
        PROVE  InTurn'
    <2>1. /\ task' = t /\ ~resp'[t] /\ handler'[t] = h /\ pipe'[t] = "none"
          /\ owed = <<>> /\ chunk' = <<>> /\ wire' = <<>>
      BY <1>2, <1>t DEF DialOpens, Track, transferVars, NothingDue, Fresh, TypeOK
    <2>2. {"restart", "transfer"} \subseteq Debts(t)'
      BY <2>1 DEF Debts, Started
    <2>3. Send(t, "transfer") \/ Send(t, "restart")
      BY <1>2 DEF DialOpens
    <2> QED
      BY <2>1, <2>2, <2>3, SendInTurn
  <1>3. ASSUME NEW t \in Tasks, NEW h \in Kinds, DialOpensOnClosed(t, h)
        PROVE  InTurn'
    BY <1>3, <1>t, NothingIsInTurn DEF DialOpensOnClosed, NothingDue
  <1>4. ASSUME NEW t \in Tasks, NEW h \in Kinds, DialOpensDuringTask(t, h)
        PROVE  InTurn'
    BY <1>4, <1>t, CloseInTurn DEF DialOpensDuringTask
  <1>5. ASSUME NEW t \in Tasks, Receives(t), ~(Code \in Starts)
        PROVE  /\ Tail(chunk) = <<>> /\ wire = <<>> /\ owed = <<>> /\ task = t /\ ~resp[t]
               /\ Code \in Finals(t)
    BY <1>5, <1>t, ChunkInTurn DEF Receives, Code
  <1>6. ASSUME NEW t \in Tasks, PassError(t) \/ PassCompletion(t)
        PROVE  InTurn'
    <2>1. Receives(t) /\ ~(Code \in Starts) /\ chunk' = Tail(chunk) /\ UNCHANGED <<wire, owed>>
      BY <1>6 DEF PassError, PassCompletion, Starts, IsFTPError, positiveCompletion
    <2> QED
      BY <1>5, <2>1, NothingIsInTurn DEF NothingDue
  <1>7. ASSUME NEW t \in Tasks, PassRequest(t)
        PROVE  InTurn'
    <2>1. Receives(t) /\ ~(Code \in Starts) /\ chunk' = Tail(chunk)
             /\ closeWithError("request", promise)
      BY <1>7 DEF PassRequest, Starts, positiveIntermediate
    <2>2. chunk' = <<>>
      BY <1>5, <2>1
    <2> QED
      BY <1>t, <2>1, <2>2, CloseInTurn
  <1>8. ASSUME NEW t \in Tasks, PassRestart(t)
        PROVE  InTurn'
    <2>1. /\ Receives(t) /\ Code = 350 /\ chunk' = Tail(chunk) /\ Send(t, "transfer")
          /\ UNCHANGED <<wire, task, handler, resp, pipe>>
      BY <1>8 DEF PassRestart, transferVars
    <2>2. chunk' = <<>> /\ wire' = <<>> /\ owed = <<>> /\ task = t /\ ~resp[t] /\ 350 \in Finals(t)
      BY <1>5, <2>1 DEF Starts
    <2>3. ~Started(t)
      BY <2>2 DEF Finals, Outcomes
    <2>4. "transfer" \in Debts(t)'
      BY <2>1, <2>3 DEF Debts, Started, Receives
    <2> QED
      BY <2>1, <2>2, <2>4, SendInTurn
  <1>9. ASSUME NEW t \in Tasks, PassPreliminary(t)
        PROVE  FALSE
    <2>1. Receives(t) /\ Code < 200 /\ ~(Code \in Starts)
      BY <1>9 DEF PassPreliminary, IsStart, Starts
    <2> QED
      BY <1>5, <2>1 DEF Finals, Outcomes
  <1>10. ASSUME NEW t \in Tasks, PassStart(t) \/ PassStartOfSecureUpload(t)
         PROVE  InTurn'
    <2>1. /\ chunk # <<>> /\ chunk' = Tail(chunk) /\ UNCHANGED <<wire, owed, task, handler, resp>>
          /\ Head(chunk).code \in Starts
      BY <1>10 DEF PassStart, PassStartOfSecureUpload, Receives, Code, IsStart, Starts
    <2>2. task = t /\ handler[t] \in Kinds /\ ~resp[t]
      BY <1>10, StartIsFirst
    <2>3. pipe'[t] # "none"
      BY <1>10, <1>t DEF PassStart, PassStartOfSecureUpload, onDataStart
    <2>4. Started(t)'
      BY <2>1, <2>2, <2>3 DEF Started
    <2>5. \/ Tail(chunk) = <<>> /\ wire = <<>> /\ owed = <<DebtTo(t, "outcome")>>
          \/ \E code \in Outcomes :
                /\ owed = <<>>
                /\ \/ Tail(chunk) = <<>> /\ wire = <<Answer(t, code)>>
                   \/ Tail(chunk) = <<Answer(t, code)>> /\ wire = <<>>
      BY <1>t, <2>1, <2>2, ChunkInTurn DEF Finals, Starts, Outcomes
    <2>6. CASE Tail(chunk) = <<>> /\ wire = <<>> /\ owed = <<DebtTo(t, "outcome")>>
      <3>1. Debts(t)' = {"outcome"}
        BY <2>1, <2>2, <2>3 DEF Debts, Started
      <3>2. DebtDue(t)'
        BY <2>1, <2>6, <3>1 DEF DebtDue, DebtTo
      <3> QED
        BY <2>1, <2>2, <3>2 DEF InTurn
    <2>7. CASE \E code \in Outcomes :
                /\ owed = <<>>
                /\ \/ Tail(chunk) = <<>> /\ wire = <<Answer(t, code)>>
                   \/ Tail(chunk) = <<Answer(t, code)>> /\ wire = <<>>
      <3>1. Finals(t)' = Outcomes
        BY <2>4 DEF Finals
      <3>2. FinalDue(t)'
        BY <2>1, <2>7, <3>1 DEF FinalDue, InFlight, Answer
      <3> QED
        BY <2>1, <2>2, <3>2 DEF InTurn
    <2> QED
      BY <2>5, <2>6, <2>7
  <1>11. ASSUME NEW t \in Tasks, SecureConnect(t)
         PROVE  InTurn'
    BY <1>11, <1>t, TurnKept DEF SecureConnect, onDataStart, TypeOK
  <1>12. ASSUME NEW t \in Tasks, DataEnds(t) \/ DestinationFinishes(t)
         PROVE  InTurn'
    <2>1. /\ pipe[t] # "none" /\ UNCHANGED <<chunk, wire, owed, handler, resp>>
          /\ tryResolve(t, TRUE, resp[t], ctl # "destroyed",
                        IF data = "none" THEN "none" ELSE "idle")
          /\ pipe' = CutIn([pipe EXCEPT ![t] = "over"])
      BY <1>12 DEF DataEnds, DestinationFinishes, onDataDone
    <2>2. task = t
      BY <1>12, <1>t, CallbackIsOfTask
    <2>3. CASE resp[t]
      BY <1>t, <2>1, <2>2, <2>3, NothingIsInTurn DEF InTurn, NothingDue
    <2>4. CASE ~resp[t]
      <3>1. UNCHANGED task
        BY <2>1, <2>4 DEF tryResolve
      <3>2. pipe'[t] # "none"
        BY <1>t, <2>1 DEF CutIn
      <3> QED
        BY <1>t, <2>1, <2>2, <3>1, <3>2, TurnKept
    <2> QED
      BY <2>3, <2>4
  <1>13. ASSUME NEW t \in Tasks, DestinationFails(t)
         PROVE  FALSE
    BY <1>13, <1>t DEF DestinationFails, TakesTurns, Remembered, NoneEnded
  <1>14. ASSUME NEW t \in Tasks, LocalStreamError(t)
         PROVE  InTurn'
    BY <1>14, <1>t, CloseInTurn DEF LocalStreamError
  <1>15. CASE DataTimeout
    BY <1>15, <1>t, CloseInTurn DEF DataTimeout
  <1>16. CASE ServerTransfers
    <2>1. PICK code \in TransferAnswers(Head(owed).what) :
             /\ wire' = Append(wire, [to |-> Head(owed).to, code |-> code])
             /\ owed' = IF IsStart(code)
                        THEN <<[to |-> Head(owed).to, what |-> "outcome"]>> \o Tail(owed)
                        ELSE Tail(owed)
      BY <1>16 DEF ServerTransfers
    <2>2. /\ task \in Tasks /\ ~resp[task] /\ Head(owed).to = task /\ Tail(owed) = <<>>
          /\ \/ chunk = <<>> /\ wire = <<>> /\ Head(owed).what \in Debts(task)
             \/ StartDue(task) /\ Head(owed).what = "outcome"
      BY <1>16, <1>t, OwedInTurn DEF ServerTransfers, TypeOK
    <2>3. UNCHANGED <<chunk, task, handler, pipe, resp>>
      BY <1>16 DEF ServerTransfers, transferVars
    <2>4. /\ wire' = Append(wire, Answer(task, code))
          /\ owed' = IF IsStart(code) THEN <<DebtTo(task, "outcome")>> ELSE <<>>
      BY <2>1, <2>2, OneReply DEF Answer, DebtTo
    <2>5. CASE StartDue(task) /\ Head(owed).what = "outcome"
      <3>1. PICK start \in Starts : InFlight(<<Answer(task, start)>>)
        BY <2>5 DEF StartDue
      <3>2. code \in Outcomes /\ owed' = <<>>
        BY <2>1, <2>4, <2>5 DEF TransferAnswers, Outcomes, IsStart
      <3>3. CASE chunk = <<>> /\ wire = <<Answer(task, start)>>
        <4>1. wire' = <<Answer(task, start), Answer(task, code)>>
          BY <2>4, <3>3, TwoReplies
        <4>2. BothDue(task)'
          BY <2>3, <2>5, <3>2, <3>3, <4>1 DEF BothDue, StartDue, Started, InFlight, Answer
        <4> QED
          BY <2>2, <2>3, <4>2 DEF InTurn
      <3>4. CASE chunk = <<Answer(task, start)>> /\ wire = <<>>
        <4>1. wire' = <<Answer(task, code)>>
          BY <2>4, <3>4, OneReply
        <4>2. BothDue(task)'
          BY <2>3, <2>5, <3>2, <3>4, <4>1 DEF BothDue, StartDue, Started, Answer
        <4> QED
          BY <2>2, <2>3, <4>2 DEF InTurn
      <3> QED
        BY <3>1, <3>3, <3>4 DEF InFlight
    <2>6. CASE chunk = <<>> /\ wire = <<>> /\ Head(owed).what \in Debts(task)
      <3>1. wire' = <<Answer(task, code)>> /\ chunk' = <<>>
        BY <2>3, <2>4, <2>6, OneReply
      <3>2. handler[task] \in Kinds
        BY <2>1, <2>6 DEF Debts, TransferAnswers, Started
      <3>3. CASE IsStart(code)
        <4>1. code \in Starts /\ ~Started(task)
          BY <2>1, <2>6, <3>3 DEF IsStart, Starts, TransferAnswers, Debts
        <4>2. StartDue(task)'
          BY <2>3, <2>4, <3>1, <3>2, <3>3, <4>1
             DEF StartDue, Started, InFlight, Answer, DebtTo
        <4> QED
          BY <2>2, <2>3, <4>2 DEF InTurn
      <3>4. CASE ~IsStart(code)
        <4>1. code \in Finals(task)
          BY <2>1, <2>6, <3>2, <3>4
             DEF TransferAnswers, Debts, Finals, Outcomes, IsStart, Started
        <4>2. FinalDue(task)'
          BY <2>3, <2>4, <3>1, <3>4, <4>1 DEF FinalDue, Finals, Started, InFlight, Answer
        <4> QED
          BY <2>2, <2>3, <4>2 DEF InTurn
      <3> QED
        BY <3>3, <3>4
    <2> QED
      BY <2>2, <2>5, <2>6
  <1> QED
    BY <1>1, <1>2, <1>3, <1>4, <1>6, <1>7, <1>8, <1>9, <1>10, <1>11, <1>12, <1>13, <1>14,
       <1>15, <1>16 DEF TransferStep, PassToTransfer

\* Every step of the context leaves the transfers' marks alone; it neither
\* makes a promise unused again nor resolves that of a transfer.
MarksKept(p, h) ==
    \A u \in Tasks :
        /\ p[u] = "unused" => promise[u] = "unused"
        /\ h[u] \in Kinds => promise[u] = "unused" \/ h[u] = handler[u]
        /\ h[u] \in Kinds /\ p[u] = "resolved" => promise[u] = "resolved"

LEMMA SettleKeepsMarks ==
    ASSUME NEW p \in [Tasks -> Promises], NEW h, NEW t, MarksKept(p, h)
    PROVE  MarksKept(SettleIn(p, t, "rejected"), h)
  BY DEF MarksKept, SettleIn, Promises

LEMMA ContextKeepsMarks ==
    ASSUME TypeOK, ContextStep \/ CloseClient
    PROVE  MarksKept(promise', handler')
  <1>t. promise \in [Tasks -> Promises] /\ handler \in [Tasks -> Handlers \cup {None}]
    BY DEF TypeOK, Promises
  <1>0. MarksKept(promise, handler)
    BY DEF MarksKept
  <1>1. ASSUME NEW t \in Tasks, Connect(t)
        PROVE  MarksKept(promise', handler')
    BY <1>1, <1>t DEF Connect, MarksKept, Promises
  <1>2. ASSUME NEW t \in Tasks, NEW h, h \notin Kinds, promise[t] = "unused",
               handler' = [handler EXCEPT ![t] = h]
        PROVE  MarksKept([promise EXCEPT ![t] = "rejected"], handler')
    BY <1>2, <1>t DEF MarksKept, Promises
  <1>3. ASSUME NEW t \in Tasks, ConnectDuringTask(t)
        PROVE  MarksKept(promise', handler')
    <2>1. MarksKept([promise EXCEPT ![t] = "rejected"], handler')
      BY <1>2, <1>3 DEF ConnectDuringTask
    <2>2. [promise EXCEPT ![t] = "rejected"] \in [Tasks -> Promises]
      BY <1>t DEF Promises
    <2> QED
      BY <1>3, <2>1, <2>2, SettleKeepsMarks DEF ConnectDuringTask
  <1>4. ASSUME NEW t \in Tasks, NEW h \in {"request", "ignoring", "login"},
               Launch(t, h) \/ LaunchInvalid(t, h) \/ LaunchOnClosed(t, h)
        PROVE  MarksKept(promise', handler')
    BY <1>4, <1>t DEF Launch, LaunchInvalid, LaunchOnClosed, Track, MarksKept, Promises
  <1>5. ASSUME NEW t \in Tasks, NEW h \in {"request", "ignoring", "login"},
               LaunchDuringTask(t, h)
        PROVE  MarksKept(promise', handler')
    <2>1. MarksKept([promise EXCEPT ![t] = "rejected"], handler')
      BY <1>2, <1>5 DEF LaunchDuringTask
    <2>2. [promise EXCEPT ![t] = "rejected"] \in [Tasks -> Promises]
      BY <1>t DEF Promises
    <2> QED
      BY <1>5, <2>1, <2>2, SettleKeepsMarks DEF LaunchDuringTask, closeWithError
  <1>6. CASE CloseClient \/ ReceiveTooMuch \/ ControlLost \/ ControlTimeout \/ DataError
    <2>1. UNCHANGED handler /\ \E reason \in Reasons : closeWithError(reason, promise)
      BY <1>6 DEF CloseClient, UserClose, ReceiveTooMuch, ControlLost, ControlTimeout,
                  DataError, Reasons
    <2> QED
      BY <1>0, <1>t, <2>1, SettleKeepsMarks DEF closeWithError
  <1>7. CASE PassAndSettle
    BY <1>7, <1>t DEF PassAndSettle, Verdict, SettleIn, MarksKept, Promises
  <1>8. CASE Upgrade \/ ReceivePiece \/ ReceiveChunk \/ PassToNobody \/ PassAndSendPassword
                \/ ServerAnswers \/ ServerAnnouncesShutdown
    BY <1>0, <1>8 DEF Upgrade, ReceivePiece, ReceiveChunk, PassToNobody, PassAndSendPassword,
                      ServerAnswers, ServerAnnouncesShutdown
  <1> QED
    BY <1>1, <1>3, <1>4, <1>5, <1>6, <1>7, <1>8 DEF ContextStep, _passToHandler, Server

\* Where progress is polled the transfer is tracked on an open context.
LEMMA PolledIsTracked ==
    ASSUME Contained, Marked, progress # None
    PROVE  /\ task = progress /\ pipe[progress] = "flowing" /\ progress \in Tasks
           /\ data # "none" /\ handler[task] \in Kinds /\ closingError = None
  BY DEF Contained, Marked, ProgressIsOfFlowingTransfer, TransferTypeOK, PipesAreOfTask,
         DataSocketIsOfTransfer, ClosedReleasesAll

LEMMA MarksAreKept ==
    ASSUME Marked, MarksKept(promise', handler'), pipe' = CutIn(pipe),
           UNCHANGED <<resp, dataDone>>,
           progress' # None => /\ progress' = progress /\ task' = task
                               /\ pipe'[progress] = pipe[progress]
    PROVE  Marked'
  <1>1. \A u \in Tasks : ~Attached(pipe[u]) => pipe'[u] = pipe[u]
    BY CutInFacts
  <1>2. Fresh' /\ DoneIsOver'
    BY <1>1 DEF MarksKept, Marked, Fresh, DoneIsOver
  <1>3. ProgressIsOfFlowingTransfer'
    BY DEF Marked, ProgressIsOfFlowingTransfer
  <1>4. ResolvedMeansComplete'
    BY <1>1 DEF MarksKept, Marked, ResolvedMeansComplete
  <1> QED
    BY <1>2, <1>3, <1>4 DEF Marked

\* Closing, by whatever callback.
LEMMA CloseMarked ==
    ASSUME Contained, Marked, NEW reason \in Reasons, NEW p \in [Tasks -> Promises],
           closeWithError(reason, p), MarksKept(p, handler'), Carry
    PROVE  Marked'
  <1>1. MarksKept(promise', handler')
    BY SettleKeepsMarks DEF closeWithError
  <1>2. progress' = None
    <2> SUFFICES ASSUME progress # None PROVE StopsProgress
      BY DEF Carry
    <2> QED
      BY PolledIsTracked, NoneAssumption DEF StopsProgress, closeWithError
  <1> QED
    BY <1>1, <1>2, MarksAreKept DEF Carry

LEMMA ContextMarked ==
    ASSUME InStep, ContextStep \/ CloseClient
    PROVE  Marked'
  <1>t. Contained /\ Marked /\ TypeOK
    BY DEF InStep, Remembered, Contained, TransferTypeOK
  <1>m. MarksKept(promise', handler')
    BY <1>t, ContextKeepsMarks
  <1>c. UNCHANGED <<resp, dataDone>> /\ pipe' = CutIn(pipe)
    BY DEF ContextStep, CloseClient, Carry
  <1>1. CASE progress' = None
    BY <1>t, <1>m, <1>c, <1>1, MarksAreKept
  <1>2. CASE progress' # None
    <2>1. ContextStep /\ Carry /\ ~StopsProgress /\ progress' = progress
      BY <1>2 DEF ContextStep, CloseClient, Carry
    <2>2. /\ task = progress /\ data # "none" /\ handler[task] \in Kinds /\ closingError = None
          /\ task # None /\ progress \in Tasks
      BY <1>2, <1>t, <2>1, PolledIsTracked
    <2>3. closingError' = None
      BY <2>1, <2>2 DEF StopsProgress
    <2>4. \A reason \in Reasons : \A p : ~closeWithError(reason, p)
      BY <2>2, <2>3, NoneAssumption DEF closeWithError
    <2>5. ~(CloseClient \/ ReceiveTooMuch \/ ControlLost \/ ControlTimeout \/ DataError)
      BY <2>4 DEF CloseClient, UserClose, ReceiveTooMuch, ControlLost, ControlTimeout,
                  DataError, Reasons
    <2>6. \A u \in Tasks, h \in {"request", "ignoring", "login"} :
             ~(\/ Connect(u) \/ ConnectDuringTask(u) \/ Launch(u, h) \/ LaunchInvalid(u, h)
               \/ LaunchOnClosed(u, h) \/ LaunchDuringTask(u, h))
      <3> SUFFICES ASSUME NEW u \in Tasks, NEW h \in {"request", "ignoring", "login"}
                   PROVE  ~(\/ Connect(u) \/ ConnectDuringTask(u) \/ Launch(u, h)
                            \/ LaunchInvalid(u, h) \/ LaunchOnClosed(u, h)
                            \/ LaunchDuringTask(u, h))
        OBVIOUS
      <3>1. ~(Connect(u) \/ Launch(u, h) \/ LaunchInvalid(u, h) \/ LaunchOnClosed(u, h))
        BY <2>2 DEF Connect, Launch, LaunchInvalid, LaunchOnClosed, Track
      <3>2. ~ConnectDuringTask(u)
        BY <2>3, NoneAssumption DEF ConnectDuringTask, Reasons
      <3>3. ~LaunchDuringTask(u, h)
        BY <2>4 DEF LaunchDuringTask, Reasons
      <3> QED
        BY <3>1, <3>2, <3>3
    <2>7. ~Upgrade /\ ~PassAndSettle
      BY <2>2 DEF Upgrade, PassAndSettle, Verdict
    <2>8. UNCHANGED <<task, data>>
      BY <2>1, <2>5, <2>6, <2>7
         DEF ContextStep, _passToHandler, Server, ReceivePiece, ReceiveChunk, PassToNobody,
             PassAndSendPassword, ServerAnswers, ServerAnnouncesShutdown
    <2>9. pipe'[progress] = pipe[progress]
      BY <1>c, <2>2, <2>8, CutInFacts
    <2> QED
      BY <1>t, <1>m, <1>c, <2>1, <2>8, <2>9, MarksAreKept
  <1> QED
    BY <1>1, <1>2

LEMMA OwnStepMarked ==
    ASSUME TakesTurns, InStep, TransferStep
    PROVE  Marked'
  <1> USE NoneAssumption
  <1>t. /\ Contained /\ Marked /\ TypeOK /\ TransferIsPending /\ PipesAreOfTask /\ NoneEnded
        /\ promise \in [Tasks -> Promises] /\ pipe \in [Tasks -> Pipes]
        /\ handler \in [Tasks -> Handlers \cup {None}]
        /\ resp \in [Tasks -> BOOLEAN] /\ dataDone \in [Tasks -> BOOLEAN]
        /\ task = None => progress = None
    BY PolledIsTracked
       DEF InStep, Remembered, Contained, TransferTypeOK, TypeOK, Promises, Pipes
  <1>k. MarksKept(promise, handler)
    BY DEF MarksKept
  <1>0. ASSUME UNCHANGED <<handler, promise, task, pipe, resp, dataDone, progress>>
        PROVE  Marked'
    BY <1>0, <1>t DEF Marked, Fresh, DoneIsOver, ProgressIsOfFlowingTransfer,
                      ResolvedMeansComplete
  <1>1. ASSUME NEW t \in Tasks,
               StartDial(t) \/ DialFails(t) \/ PassRestart(t) \/ PassPreliminary(t)
        PROVE  Marked'
    BY <1>0, <1>1 DEF StartDial, DialFails, PassRestart, PassPreliminary, vars, transferVars
  <1>2. ASSUME NEW t \in Tasks, NEW h \in Kinds, DialOpens(t, h) \/ DialOpensOnClosed(t, h)
        PROVE  Marked'
    <2>1. /\ progress' = None /\ UNCHANGED <<pipe, resp, dataDone>>
          /\ promise[t] = "unused" /\ promise'[t] \in {"pending", "rejected"}
          /\ \A u \in Tasks \ {t} : promise'[u] = promise[u] /\ handler'[u] = handler[u]
      BY <1>2, <1>t DEF DialOpens, DialOpensOnClosed, Track, Dialling, transferVars
    <2> QED
      BY <1>t, <2>1 DEF Marked, Fresh, DoneIsOver, ProgressIsOfFlowingTransfer,
                        ResolvedMeansComplete
  <1>3. ASSUME NEW t \in Tasks, NEW h \in Kinds, DialOpensDuringTask(t, h)
        PROVE  Marked'
    <2>1. /\ promise[t] = "unused" /\ handler' = [handler EXCEPT ![t] = h] /\ Carry
          /\ closeWithError("collision", [promise EXCEPT ![t] = "rejected"])
      BY <1>3 DEF DialOpensDuringTask, Dialling
    <2>2. [promise EXCEPT ![t] = "rejected"] \in [Tasks -> Promises]
      BY <1>t DEF Promises
    <2>3. MarksKept([promise EXCEPT ![t] = "rejected"], handler')
      BY <1>t, <2>1 DEF MarksKept, Promises
    <2> QED
      BY <1>t, <2>1, <2>2, <2>3, CloseMarked DEF Reasons
  <1>4. ASSUME NEW reason \in Reasons, closeWithError(reason, promise), UNCHANGED handler, Carry
        PROVE  Marked'
    BY <1>4, <1>k, <1>t, CloseMarked
  <1>5. ASSUME NEW t \in Tasks, PassRequest(t) \/ LocalStreamError(t)
        PROVE  Marked'
    BY <1>4, <1>5 DEF PassRequest, LocalStreamError, Reasons
  <1>6. CASE DataTimeout
    BY <1>4, <1>6 DEF DataTimeout, Reasons
  <1>7. ASSUME NEW t \in Tasks, PassError(t)
        PROVE  Marked'
    <2>1. /\ progress' = None /\ UNCHANGED <<handler, resp, dataDone>> /\ pipe' = CutIn(pipe)
          /\ promise' = SettleIn(promise, t, "rejected")
      BY <1>7 DEF PassError, onError
    <2>2. MarksKept(promise', handler')
      BY <1>k, <1>t, <2>1, SettleKeepsMarks
    <2> QED
      BY <1>t, <2>1, <2>2, MarksAreKept
  <1>8. ASSUME NEW t \in Tasks, PassStart(t) \/ PassStartOfSecureUpload(t)
        PROVE  Marked'
    <2>1. task = t /\ pipe[t] = "none" /\ promise[t] = "pending" /\ ~dataDone[t]
      BY <1>8, <1>t, StartIsFirst DEF TransferIsPending, Marked, DoneIsOver
    <2>2. /\ UNCHANGED <<handler, promise, task, resp, dataDone>>
          /\ \A u \in Tasks \ {t} : pipe'[u] = pipe[u]
      BY <1>8, <1>t DEF PassStart, PassStartOfSecureUpload, onDataStart
    <2>3. progress' = None \/ (progress' = t /\ pipe'[t] = "flowing")
      <3>1. progress = None
        BY <1>t, <2>1, PolledIsTracked
      <3> QED
        BY <1>8, <1>t, <3>1 DEF PassStart, PassStartOfSecureUpload, onDataStart
    <2> QED
      BY <1>t, <2>1, <2>2, <2>3 DEF Marked, Fresh, DoneIsOver, ProgressIsOfFlowingTransfer,
                                    ResolvedMeansComplete
  <1>9. ASSUME NEW t \in Tasks, SecureConnect(t)
        PROVE  Marked'
    <2>1. task = t /\ pipe[t] = "secure" /\ promise[t] # "unused" /\ ~dataDone[t]
      BY <1>9, <1>t DEF SecureConnect, PipesAreOfTask, Marked, DoneIsOver, Fresh
    <2>2. promise[t] = "pending"
      BY <1>t, <2>1 DEF TransferIsPending, PipesAreOfTask, Contained, DataSocketIsOfTransfer
    <2>3. /\ UNCHANGED <<handler, promise, task, resp, dataDone>>
          /\ progress' = t /\ pipe' = [pipe EXCEPT ![t] = "flowing"]
      BY <1>9 DEF SecureConnect, onDataStart
    <2> QED
      BY <1>t, <2>1, <2>2, <2>3 DEF Marked, Fresh, DoneIsOver, ProgressIsOfFlowingTransfer,
                                    ResolvedMeansComplete
  <1>10. ASSUME NEW t \in Tasks, PassCompletion(t)
         PROVE  Marked'
    <2>1. /\ task = t /\ handler[t] \in Kinds /\ promise[t] = "pending"
          /\ resp' = [resp EXCEPT ![t] = TRUE] /\ pipe' = CutIn(pipe)
          /\ tryResolve(t, dataDone[t], TRUE, ctlTimer, data)
          /\ UNCHANGED <<handler, dataDone, progress>>
      BY <1>10, <1>t DEF PassCompletion, Receives, onControlDone, TransferIsPending
    <2>2. CASE dataDone[t]
      <3>1. pipe[t] = "over" /\ progress = None
        BY <1>t, <2>1, <2>2, PolledIsTracked DEF Marked, DoneIsOver
      <3>2. promise' = [promise EXCEPT ![t] = "resolved"]
        BY <2>1, <2>2 DEF tryResolve, SettleIn
      <3>3. \A u \in Tasks : ~Attached(pipe[u]) => pipe'[u] = pipe[u]
        BY <2>1, CutInFacts
      <3> QED
        BY <1>t, <2>1, <2>2, <3>1, <3>2, <3>3
           DEF Marked, Fresh, DoneIsOver, ProgressIsOfFlowingTransfer, ResolvedMeansComplete
    <2>3. CASE ~dataDone[t]
      <3>1. UNCHANGED <<promise, task, data>>
        BY <2>1, <2>3 DEF tryResolve
      <3>2. UNCHANGED pipe
        BY <1>t, <2>1, <3>1 DEF CutIn, PipesAreOfTask
      <3> QED
        BY <1>t, <2>1, <3>1, <3>2
           DEF Marked, Fresh, DoneIsOver, ProgressIsOfFlowingTransfer, ResolvedMeansComplete
    <2> QED
      BY <2>2, <2>3
  <1>11. ASSUME NEW t \in Tasks, DataEnds(t) \/ DestinationFinishes(t)
         PROVE  Marked'
    <2> DEFINE p == [pipe EXCEPT ![t] = "over"]
    <2>1. /\ progress' = None /\ dataDone' = [dataDone EXCEPT ![t] = TRUE]
          /\ UNCHANGED <<handler, resp>> /\ pipe' = CutIn(p)
          /\ tryResolve(t, TRUE, resp[t], ctl # "destroyed",
                        IF data = "none" THEN "none" ELSE "idle")
      BY <1>11 DEF DataEnds, DestinationFinishes, onDataDone
    <2>2. pipe[t] = "flowing" /\ task = t
      BY <1>11, <1>t DEF DataEnds, DestinationFinishes, NoneEnded, PipesAreOfTask
    <2>3. promise[t] = "pending" /\ ~dataDone[t]
      BY <1>t, <2>2 DEF TransferIsPending, PipesAreOfTask, Contained, DataSocketIsOfTransfer,
                        Marked, DoneIsOver
    <2>4. pipe'[t] = "over" /\ \A u \in Tasks : ~Attached(pipe[u]) => pipe'[u] = pipe[u]
      <3>1. p[t] = "over" /\ \A u \in Tasks \ {t} : p[u] = pipe[u]
        BY <1>t
      <3>2. \A u \in Tasks : ~Attached(p[u]) => pipe'[u] = p[u]
        BY <2>1, CutInFacts
      <3> HIDE DEF p
      <3> QED
        BY <2>2, <3>1, <3>2
    <2>5. UNCHANGED promise \/ (resp[t] /\ promise' = [promise EXCEPT ![t] = "resolved"])
      BY <2>1, <2>3 DEF tryResolve, SettleIn
    <2>6. Fresh'
      BY <1>t, <2>1, <2>2, <2>3, <2>4, <2>5 DEF Marked, Fresh
    <2>7. DoneIsOver' /\ ProgressIsOfFlowingTransfer'
      BY <1>t, <2>1, <2>2, <2>4 DEF Marked, DoneIsOver, ProgressIsOfFlowingTransfer
    <2>8. ResolvedMeansComplete'
      BY <1>t, <2>1, <2>2, <2>4, <2>5 DEF Marked, DoneIsOver, ResolvedMeansComplete
    <2> QED
      BY Zenon, <2>6, <2>7, <2>8 DEF Marked
  <1>12. ASSUME NEW t \in Tasks, DestinationFails(t) \/ DataEndsBeforeDestination(t)
         PROVE  FALSE
    BY <1>12, <1>t DEF DestinationFails, DataEndsBeforeDestination, TakesTurns, NoneEnded
  <1>13. CASE ServerTransfers
    BY <1>0, <1>13 DEF ServerTransfers, transferVars
  <1> QED
    BY <1>1, <1>2, <1>3, <1>5, <1>6, <1>7, <1>8, <1>9, <1>10, <1>11, <1>12, <1>13
       DEF TransferStep, PassToTransfer

LEMMA NextInStep == TakesTurns /\ InStep /\ [TransferNext]_allVars => InStep'
  <1> SUFFICES ASSUME TakesTurns, InStep, [TransferNext]_allVars PROVE InTurn' /\ Marked'
    BY TurnsArePrompt, NextRemembered DEF InStep
  <1>1. CASE ContextStep \/ CloseClient
    BY <1>1, ContextInTurn, ContextMarked
  <1>2. CASE TransferStep
    BY <1>2, OwnStepInTurn, OwnStepMarked
  <1>3. CASE UNCHANGED allVars
    <2>1. UNCHANGED <<task, promise, handler, chunk, wire, owed, pipe, resp, dataDone, progress>>
      BY <1>3 DEF allVars, vars, transferVars
    <2>2. InTurn'
      BY <2>1, TurnKept DEF InStep
    <2> QED
      BY <2>1, <2>2 DEF InStep, Marked, Fresh, DoneIsOver, ProgressIsOfFlowingTransfer,
                        ResolvedMeansComplete
  <1> QED
    BY <1>1, <1>2, <1>3 DEF TransferNext

LEMMA InStepAlways == TakesTurns /\ TransferSpec => []InStep
  <1>1. TransferInit => InStep
    <2> SUFFICES ASSUME TransferInit PROVE InStep
      OBVIOUS
    <2>1. Remembered
      BY InitContained DEF TransferInit, Init, Remembered, PendingIsTracked, NoneEnded
    <2>2. InTurn
      BY DEF TransferInit, Init, InTurn, NothingDue
    <2>3. Marked
      BY DEF TransferInit, Init, Marked, Fresh, DoneIsOver, ProgressIsOfFlowingTransfer,
             ResolvedMeansComplete
    <2> QED
      BY <2>1, <2>2, <2>3 DEF InStep
  <1>2. ASSUME TakesTurns PROVE InStep /\ [TransferNext]_allVars => InStep'
    BY <1>2, NextInStep
  <1>3. ASSUME TakesTurns PROVE TransferSpec => []InStep
    BY <1>1, <1>2, <1>3, PTL DEF TransferSpec
  <1> QED
    BY <1>3

\* A transfer is resolved only when its bytes have all passed and the server
\* has confirmed it, in whichever order (tryResolve).
THEOREM ResolvedIsTransferred ==
    ASSUME TakesTurns
    PROVE  TransferSpec => []ResolvedMeansComplete
  BY InStepAlways, PTL DEF InStep, Marked

\* Progress is polled only for the transfer whose bytes are flowing
\* (updateAndStop in onDataDone and onError).
THEOREM ProgressIsPolledInTime ==
    ASSUME TakesTurns
    PROVE  TransferSpec => []ProgressIsOfFlowingTransfer
  BY InStepAlways, PTL DEF InStep, Marked

\* Also with transfers, whose two replies and whose data end in any order,
\* nothing is owed or in flight when no task is tracked: no transfer leaves a
\* reply behind for the next task (_stopTrackingTask, tryResolve).
THEOREM TransfersLeaveNoReply ==
    ASSUME TakesTurns
    PROVE  TransferSpec => []InSync
  <1>1. InStep => InSync
    BY UntrackedIsQuiet DEF InStep, InSync, NothingDue
  <1> QED
    BY <1>1, InStepAlways, PTL

\* A new poll is only started when the previous one has been stopped
\* (ProgressTracker.start in onDataStart).
THEOREM PollsAreStopped == ASSUME TakesTurns PROVE TransferSpec => NoPollIsLost
  <1>1. InStep /\ [TransferNext]_allVars =>
            [progress' # None /\ progress' # progress => progress = None]_allVars
    <2> SUFFICES ASSUME InStep, TransferNext, progress' # None, progress' # progress
                 PROVE  progress = None
      OBVIOUS
    <2>1. PICK t \in Tasks : PassStart(t) \/ SecureConnect(t)
      BY DEF TransferNext, ContextStep, CloseClient, TransferStep, PassToTransfer, Carry,
             StartDial, DialFails, DialOpens, DialOpensOnClosed, DialOpensDuringTask,
             PassError, PassStartOfSecureUpload, PassRestart, PassCompletion, PassRequest,
             PassPreliminary, DataEnds, DataEndsBeforeDestination, DestinationFinishes,
             DestinationFails, LocalStreamError, DataTimeout, ServerTransfers,
             onDataDone, onError, transferVars
    <2>2. task = t /\ pipe[t] \in {"none", "secure"}
      BY <2>1, StartIsFirst
         DEF InStep, SecureConnect, Remembered, Contained, PipesAreOfTask
    <2> QED
      BY <2>2, PolledIsTracked DEF InStep, Remembered
  <1> QED
    BY <1>1, InStepAlways, PTL DEF NoPollIsLost, TransferSpec

\* A promise is resolved only by the server's reply to that very task, or, a
\* transfer's, later, when its bytes have passed (tryResolve).
THEOREM TransferOwnReplyOnly == ASSUME TakesTurns PROVE TransferSpec => ResolvedByOwnReply
  <1> DEFINE Own == \A t \in Tasks : promise[t] # "resolved" /\ promise'[t] = "resolved" =>
                        \/ chunk # <<>> /\ Head(chunk).to = t
                        \/ chunk = <<>> /\ handler[t] \in {"upload", "download"}
  <1>1. ASSUME TakesTurns PROVE InStep /\ [TransferNext]_allVars => [Own]_vars
    <2> SUFFICES ASSUME InStep, TransferNext, NEW t \in Tasks,
                        promise[t] # "resolved", promise'[t] = "resolved"
                 PROVE  \/ chunk # <<>> /\ Head(chunk).to = t
                        \/ chunk = <<>> /\ handler[t] \in {"upload", "download"}
      BY DEF vars, allVars
    <2>t. TypeOK /\ Contained /\ NoneEnded /\ InTurn
      BY DEF InStep, Remembered, Contained, TransferTypeOK
    <2>1. ASSUME NEW u \in Tasks, PassCompletion(u) \/ DataEnds(u)
          PROVE  t = u /\ task = t
      <3>1. promise' = promise \/ promise' = SettleIn(promise, u, "resolved")
        BY <2>1 DEF PassCompletion, DataEnds, onControlDone, onDataDone, tryResolve
      <3>2. task = u
        BY <2>1, <2>t DEF PassCompletion, Receives, DataEnds, Contained, PipesAreOfTask
      <3> QED
        BY <2>t, <3>1, <3>2 DEF SettleIn, TypeOK
    <2>2. ASSUME NEW u \in Tasks, PassCompletion(u)
          PROVE  chunk # <<>> /\ Head(chunk).to = t
      BY <2>1, <2>2, <2>t, ChunkInTurn DEF PassCompletion, Receives
    <2>3. ASSUME NEW u \in Tasks, DataEnds(u)
          PROVE  chunk = <<>> /\ handler[t] \in {"upload", "download"}
      BY <2>1, <2>3, <2>t DEF DataEnds, Contained, PipesAreOfTask, DataSocketIsOfTransfer
    <2>4. CASE PassAndSettle
      <3>1. task = t
        BY <2>4, <2>t DEF PassAndSettle, SettleIn, TypeOK
      <3> QED
        BY <2>4, <2>t, <3>1, ChunkInTurn DEF PassAndSettle
    <2>5. CASE ContextStep \/ CloseClient
      <3>1. PassAndSettle
        BY <2>5, <2>t
           DEF ContextStep, CloseClient, Server, _passToHandler, closeWithError, SettleIn,
               Connect, ConnectDuringTask, Launch, Track, LaunchInvalid, LaunchOnClosed,
               LaunchDuringTask, UserClose, Upgrade, ReceivePiece, ReceiveTooMuch,
               ReceiveChunk, PassToNobody, PassAndSendPassword, ControlLost, ControlTimeout,
               DataError, ServerAnswers, ServerAnnouncesShutdown, TypeOK
      <3> QED
        BY <2>4, <3>1
    <2>6. CASE TransferStep
      <3>1. \E u \in Tasks : PassCompletion(u) \/ DataEnds(u)
        BY ZenonT(60), <2>6, <2>t
           DEF TransferStep, PassToTransfer, closeWithError, SettleIn, onError, StartDial,
               DialFails, DialOpens, DialOpensOnClosed, DialOpensDuringTask, Track, PassError,
               PassStart, PassStartOfSecureUpload, PassRestart, PassRequest, PassPreliminary,
               SecureConnect, onDataStart, DataEndsBeforeDestination, DestinationFinishes,
               NoneEnded, DestinationFails, LocalStreamError, DataTimeout, ServerTransfers,
               vars, TypeOK
      <3> QED
        BY <2>2, <2>3, <3>1
    <2> QED
      BY <2>5, <2>6 DEF TransferNext
  <1> QED
    BY <1>1, InStepAlways, PTL DEF ResolvedByOwnReply, TransferSpec
=============================================================================
