-------------------------- MODULE FtpContextProofs --------------------------
(***************************************************************************)
(* Theorems about FtpContext, for every set of tasks and every bound, with *)
(* proofs checked by TLAPS.                                                *)
(***************************************************************************)
EXTENDS FtpContext, SequenceTheorems, TLAPS

USE DEF Idle

-----------------------------------------------------------------------------
(* Facts about the operators *)

LEMMA SettleInType ==
    ASSUME NEW p \in [Tasks -> {"unused", "pending", "resolved", "rejected"}],
           NEW t \in Tasks \cup {None},
           NEW how \in {"pending", "resolved", "rejected"}
    PROVE  SettleIn(p, t, how) \in [Tasks -> {"unused", "pending", "resolved", "rejected"}]
  BY DEF SettleIn

LEMMA EmptyType ==
    /\ <<>> \in Seq(Tasks \cup {None}) /\ Len(<<>>) <= MaxPieces
    /\ <<>> \in Seq(Reply)
    /\ <<>> \in Seq(Debt)
  BY EmptySeq, MaxPiecesAssumption

\* What a command appends to the server's debts, and a reply to the wire.
LEMMA SendType ==
    ASSUME TypeOK, NEW t \in Tasks, NEW what \in Whats
    PROVE  Append(owed, [to |-> t, what |-> what]) \in Seq(Debt)
  <1>1. [to |-> t, what |-> what] \in Debt
    BY DEF Debt
  <1> QED
    BY <1>1, AppendProperties DEF TypeOK

LEMMA WireHead ==
    ASSUME TypeOK, wire # <<>>
    PROVE  Head(wire) \in Reply /\ Head(wire).to \in Tasks \cup {None}
  <1>1. Head(wire) \in Reply
    BY HeadTailProperties DEF TypeOK
  <1> QED
    BY <1>1 DEF Reply

LEMMA OwedHead ==
    ASSUME TypeOK, owed # <<>>
    PROVE  Head(owed).to \in Tasks /\ Tail(owed) \in Seq(Debt)
  <1>1. Head(owed) \in Debt /\ Tail(owed) \in Seq(Debt)
    BY HeadTailProperties DEF TypeOK
  <1> QED
    BY <1>1 DEF Debt

LEMMA ChunkTail == ASSUME TypeOK, chunk # <<>> PROVE Tail(chunk) \in Seq(Reply)
  BY HeadTailProperties DEF TypeOK

LEMMA AnswersType == \A what : Answers(what) \subseteq Codes
  BY DEF Answers, Codes

\* Closing keeps every component in its type.
LEMMA CloseType ==
    ASSUME TypeOK,
           NEW reason \in Reasons,
           NEW p \in [Tasks -> {"unused", "pending", "resolved", "rejected"}],
           closeWithError(reason, p)
    PROVE  /\ ctl' \in {"idle", "open", "destroyed"}
           /\ closingError' \in Reasons \cup {None}
           /\ task' \in Tasks \cup {None}
           /\ promise' \in [Tasks -> {"unused", "pending", "resolved", "rejected"}]
           /\ ctlTimer' \in BOOLEAN
           /\ data' \in {"none", "idle", "timed"}
           /\ wire' \in Seq(Reply)
           /\ owed' \in Seq(Debt)
  <1>1. SettleIn(p, task, "rejected") \in [Tasks -> {"unused", "pending", "resolved", "rejected"}]
    BY SettleInType DEF TypeOK
  <1> QED
    BY <1>1, EmptySeq DEF closeWithError, TypeOK, _stopTrackingTask

-----------------------------------------------------------------------------
(* Type correctness *)

LEMMA InitType == Init => TypeOK
  <1> SUFFICES ASSUME Init PROVE TypeOK
    OBVIOUS
  <1>1. /\ handler \in [Tasks -> Handlers \cup {None}]
        /\ promise \in [Tasks -> {"unused", "pending", "resolved", "rejected"}]
    BY DEF Init
  <1>2. /\ partial \in Seq(Tasks \cup {None}) /\ Len(partial) <= MaxPieces
        /\ chunk \in Seq(Reply) /\ wire \in Seq(Reply) /\ owed \in Seq(Debt)
    BY EmptyType DEF Init
  <1> QED
    BY <1>1, <1>2 DEF Init, TypeOK

LEMMA NextType == TypeOK /\ [Next]_vars => TypeOK'
  <1> SUFFICES ASSUME TypeOK, [Next]_vars PROVE TypeOK'
    OBVIOUS
  <1> USE NoneAssumption, MaxPiecesAssumption
  <1>1. CASE UNCHANGED vars
    BY <1>1 DEF vars, TypeOK
  <1>2. ASSUME NEW t \in Tasks, Connect(t) PROVE TypeOK'
    <2>1. owed' \in Seq(Debt)
      BY <1>2 DEF Connect, Debt, Whats
    <2> QED
      BY <1>2, <2>1, EmptyType DEF Connect, TypeOK, Handlers
  <1>3. ASSUME NEW t \in Tasks, ConnectDuringTask(t) PROVE TypeOK'
    <2>1. promise' \in [Tasks -> {"unused", "pending", "resolved", "rejected"}]
      BY <1>3, SettleInType DEF ConnectDuringTask, TypeOK
    <2> QED
      BY <1>3, <2>1, EmptyType DEF ConnectDuringTask, TypeOK, Handlers, Reasons, _stopTrackingTask
  <1>4. ASSUME NEW t \in Tasks, NEW h \in {"request", "ignoring", "login"},
               Launch(t, h)
        PROVE  TypeOK'
    <2>1. owed' \in Seq(Debt)
      BY <1>4, SendType DEF Launch, Send, TypeOK, Whats
    <2> QED
      BY <1>4, <2>1 DEF Launch, Track, TypeOK, Handlers
  <1>5. ASSUME NEW t \in Tasks, NEW h \in {"request", "ignoring", "login"},
               LaunchInvalid(t, h)
        PROVE  TypeOK'
    BY <1>5 DEF LaunchInvalid, Track, TypeOK, Handlers
  <1>6. ASSUME NEW t \in Tasks, NEW h \in {"request", "ignoring", "login"},
               LaunchOnClosed(t, h)
        PROVE  TypeOK'
    BY <1>6 DEF LaunchOnClosed, TypeOK, Handlers, _stopTrackingTask
  <1>7. ASSUME NEW t \in Tasks, NEW h \in {"request", "ignoring", "login"},
               LaunchDuringTask(t, h)
        PROVE  TypeOK'
    <2>1. [promise EXCEPT ![t] = "rejected"]
             \in [Tasks -> {"unused", "pending", "resolved", "rejected"}]
      BY DEF TypeOK
    <2> QED
      BY <1>7, <2>1, CloseType DEF LaunchDuringTask, TypeOK, Handlers, Reasons
  <1>8. CASE UserClose
    BY <1>8, CloseType DEF UserClose, TypeOK, Reasons
  <1>9. CASE Upgrade
    BY <1>9, EmptyType DEF Upgrade, TypeOK
  <1>10. CASE AttachData
    BY <1>10 DEF AttachData, TypeOK
  <1>11. CASE ReceivePiece
    <2>1. /\ partial' \in Seq(Tasks \cup {None})
          /\ Len(partial') <= MaxPieces
      BY <1>11, WireHead, AppendProperties DEF ReceivePiece, TypeOK
    <2> QED
      BY <1>11, <2>1 DEF ReceivePiece, TypeOK
  <1>12. CASE ReceiveTooMuch
    BY <1>12, CloseType DEF ReceiveTooMuch, TypeOK, Reasons
  <1>13. CASE ReceiveChunk
    <2>1. PICK n \in 1 .. Len(wire) :
             /\ chunk' = SubSeq(wire, 1, n) /\ wire' = SubSeq(wire, n + 1, Len(wire))
             /\ partial' = <<>> \/ (n < Len(wire) /\ partial' = <<wire[n + 1].to>>)
      BY <1>13 DEF ReceiveChunk
    <2>2. chunk' \in Seq(Reply)
      BY <2>1, SubSeqProperties DEF TypeOK
    <2>3. wire' \in Seq(Reply)
      BY <2>1, SubSeqProperties DEF TypeOK
    <2>4. partial' \in Seq(Tasks \cup {None}) /\ Len(partial') <= MaxPieces
      <3>1. CASE partial' = <<>>
        BY <3>1, EmptyType
      <3>2. CASE n < Len(wire) /\ partial' = <<wire[n + 1].to>>
        <4>1. wire[n + 1] \in Reply
          BY <2>1, <3>2, ElementOfSeq, LenProperties DEF TypeOK
        <4>2. wire[n + 1].to \in Tasks \cup {None}
          BY <4>1 DEF Reply
        <4> QED
          BY <3>2, <4>2, MaxPiecesAssumption
      <3> QED
        BY <2>1, <3>1, <3>2
    <2> QED
      BY <1>13, <2>2, <2>3, <2>4 DEF ReceiveChunk, TypeOK
  <1>14. CASE PassToNobody
    BY <1>14, ChunkTail DEF PassToNobody, TypeOK
  <1>15. CASE PassAndSettle
    <2>1. promise' \in [Tasks -> {"unused", "pending", "resolved", "rejected"}]
      BY <1>15, SettleInType DEF PassAndSettle, TypeOK
    <2> QED
      BY <1>15, <2>1, ChunkTail DEF PassAndSettle, TypeOK, _stopTrackingTask
  <1>16. CASE PassAndSendPassword
    <2>1. owed' \in Seq(Debt)
      BY <1>16, SendType DEF PassAndSendPassword, Send, TypeOK, Whats
    <2> QED
      BY <1>16, <2>1, ChunkTail DEF PassAndSendPassword, TypeOK
  <1>17. CASE ControlLost
    BY <1>17, CloseType DEF ControlLost, TypeOK, Reasons
  <1>18. CASE ControlTimeout
    BY <1>18, CloseType DEF ControlTimeout, TypeOK, Reasons
  <1>19. CASE DataError
    BY <1>19, CloseType DEF DataError, TypeOK, Reasons
  <1>20. CASE ServerAnswers
    <2>1. PICK code \in Answers(Head(owed).what) :
             /\ wire' = Append(wire, [to |-> Head(owed).to, code |-> code])
             /\ owed' = IF code = 120
                        THEN <<[to |-> Head(owed).to, what |-> "service"]>> \o Tail(owed)
                        ELSE Tail(owed)
      BY <1>20 DEF ServerAnswers
    <2>2. Head(owed).to \in Tasks /\ Tail(owed) \in Seq(Debt)
      BY <1>20, OwedHead DEF ServerAnswers
    <2>3. wire' \in Seq(Reply)
      BY <2>1, <2>2, AnswersType DEF TypeOK, Reply
    <2>4. owed' \in Seq(Debt)
      <3>1. <<[to |-> Head(owed).to, what |-> "service"]>> \in Seq(Debt)
        BY <2>2 DEF Debt, Whats
      <3> QED
        BY <2>1, <2>2, <3>1
    <2> QED
      BY <1>20, <2>3, <2>4 DEF ServerAnswers, TypeOK
  <1>21. CASE ServerAnnouncesShutdown
    <2>1. wire' \in Seq(Reply)
      BY <1>21 DEF ServerAnnouncesShutdown, Reply, Codes
    <2> QED
      BY <1>21, <2>1 DEF ServerAnnouncesShutdown, TypeOK
  <1> QED
    BY <1>1, <1>2, <1>3, <1>4, <1>5, <1>6, <1>7, <1>8, <1>9, <1>10, <1>11, <1>12,
       <1>13, <1>14, <1>15, <1>16, <1>17, <1>18, <1>19, <1>20, <1>21
       DEF Next, Program, SocketEvent, Server, _passToHandler

\* Every variable keeps its type and the partial response its bound, for all
\* tasks, quirks and bounds (the size check of _onControlSocketData).
THEOREM TypeCorrect == Spec => []TypeOK
  BY InitType, NextType, PTL DEF Spec

-----------------------------------------------------------------------------
(* What holds of every environment *)

\* The strengthening: a connection is named by a call that was made, so a
\* new connect() never has the name of the present connection.
ConnectionIsUsed == conn # None => promise[conn] # "unused"

Safe == TypeOK /\ PendingIsTracked /\ ClosedIsDead /\ ConnectionIsUsed

\* The promises p are those of the present state, some of them settled.
NothingRevived(p) ==
    \A u \in Tasks : /\ p[u] = "pending" => promise[u] = "pending"
                     /\ p[u] = "unused" => promise[u] = "unused"

LEMMA CloseSafe ==
    ASSUME Safe, UNCHANGED conn,
           NEW reason \in Reasons,
           NEW p \in [Tasks -> {"unused", "pending", "resolved", "rejected"}],
           NothingRevived(p),
           closeWithError(reason, p)
    PROVE  PendingIsTracked' /\ ClosedIsDead' /\ ConnectionIsUsed'
  <1>1. CASE closingError # None
    BY <1>1 DEF closeWithError, Safe, PendingIsTracked, ClosedIsDead,
                ConnectionIsUsed, TypeOK, NothingRevived
  <1>2. CASE closingError = None
    <2>1. /\ ctl' = "destroyed" /\ data' = "none" /\ task' = None /\ ctlTimer' = FALSE
          /\ promise' = SettleIn(p, task, "rejected")
      BY <1>2 DEF closeWithError, _stopTrackingTask
    <2>2. \A u \in Tasks : /\ promise'[u] # "pending"
                           /\ promise'[u] = "unused" => promise[u] = "unused"
      BY <2>1, NoneAssumption DEF SettleIn, Safe, PendingIsTracked, TypeOK, NothingRevived
    <2> QED
      BY <2>1, <2>2 DEF PendingIsTracked, ClosedIsDead, ConnectionIsUsed, Safe, TypeOK
  <1> QED
    BY <1>1, <1>2

LEMMA InitSafe == Init => Safe
  BY InitType DEF Init, Safe, PendingIsTracked, ClosedIsDead, ConnectionIsUsed

LEMMA NextSafe == Safe /\ [Next]_vars => Safe'
  <1> SUFFICES ASSUME Safe, [Next]_vars
               PROVE  PendingIsTracked' /\ ClosedIsDead' /\ ConnectionIsUsed'
    BY NextType DEF Safe
  <1> USE NoneAssumption
  <1> USE DEF Safe, PendingIsTracked, ClosedIsDead, ConnectionIsUsed
  <1>1. CASE UNCHANGED vars
    BY <1>1 DEF vars
  <1>2. ASSUME NEW t \in Tasks, Connect(t)
        PROVE  PendingIsTracked' /\ ClosedIsDead' /\ ConnectionIsUsed'
    BY <1>2 DEF Connect, TypeOK
  <1>3. ASSUME NEW t \in Tasks, ConnectDuringTask(t)
        PROVE  PendingIsTracked' /\ ClosedIsDead' /\ ConnectionIsUsed'
    <2>1. \A u \in Tasks : promise'[u] # "pending"
      BY <1>3 DEF ConnectDuringTask, SettleIn, TypeOK
    <2>2. promise'[t] = "rejected"
      BY <1>3 DEF ConnectDuringTask, SettleIn, TypeOK
    <2> QED
      BY <1>3, <2>1, <2>2 DEF ConnectDuringTask, _stopTrackingTask
  <1>4. ASSUME NEW t \in Tasks, NEW h \in {"request", "ignoring", "login"},
               Launch(t, h)
        PROVE  PendingIsTracked' /\ ClosedIsDead' /\ ConnectionIsUsed'
    BY <1>4 DEF Launch, Track, TypeOK
  <1>5. ASSUME NEW t \in Tasks, NEW h \in {"request", "ignoring", "login"},
               LaunchInvalid(t, h)
        PROVE  PendingIsTracked' /\ ClosedIsDead' /\ ConnectionIsUsed'
    BY <1>5 DEF LaunchInvalid, Track, TypeOK
  <1>6. ASSUME NEW t \in Tasks, NEW h \in {"request", "ignoring", "login"},
               LaunchOnClosed(t, h)
        PROVE  PendingIsTracked' /\ ClosedIsDead' /\ ConnectionIsUsed'
    BY <1>6 DEF LaunchOnClosed, _stopTrackingTask, TypeOK
  <1>7. ASSUME NEW t \in Tasks, NEW h \in {"request", "ignoring", "login"},
               LaunchDuringTask(t, h)
        PROVE  PendingIsTracked' /\ ClosedIsDead' /\ ConnectionIsUsed'
    <2>1. PICK p : p = [promise EXCEPT ![t] = "rejected"]
      OBVIOUS
    <2>2. /\ p \in [Tasks -> {"unused", "pending", "resolved", "rejected"}]
          /\ NothingRevived(p)
      BY <2>1 DEF TypeOK, NothingRevived
    <2>3. closeWithError("collision", p) /\ UNCHANGED conn
      BY <1>7, <2>1 DEF LaunchDuringTask
    <2>4. "collision" \in Reasons
      BY DEF Reasons
    <2> QED
      BY <2>2, <2>3, <2>4, CloseSafe
  <1>8. ASSUME NEW reason \in Reasons, closeWithError(reason, promise), UNCHANGED conn
        PROVE  PendingIsTracked' /\ ClosedIsDead' /\ ConnectionIsUsed'
    <2>1. /\ promise \in [Tasks -> {"unused", "pending", "resolved", "rejected"}]
          /\ NothingRevived(promise)
      BY DEF TypeOK, NothingRevived
    <2> QED
      BY <1>8, <2>1, CloseSafe
  <1>9. CASE UserClose \/ ReceiveTooMuch \/ ControlLost \/ ControlTimeout \/ DataError
    BY <1>8, <1>9 DEF UserClose, ReceiveTooMuch, ControlLost, ControlTimeout,
                      DataError, Reasons
  <1>10. CASE Upgrade \/ AttachData
    BY <1>10 DEF Upgrade, AttachData
  <1>11. CASE ReceivePiece \/ ReceiveChunk
    BY <1>11 DEF ReceivePiece, ReceiveChunk
  <1>12. CASE PassToNobody \/ PassAndSendPassword
    BY <1>12 DEF PassToNobody, PassAndSendPassword
  <1>13. CASE PassAndSettle
    <2>1. \A u \in Tasks : promise'[u] # "pending"
      BY <1>13 DEF PassAndSettle, SettleIn, TypeOK
    <2>2. \A u \in Tasks : promise'[u] = "unused" => promise[u] = "unused"
      BY <1>13 DEF PassAndSettle, SettleIn, TypeOK
    <2> QED
      BY <1>13, <2>1, <2>2 DEF PassAndSettle, _stopTrackingTask, TypeOK
  <1>14. CASE ServerAnswers \/ ServerAnnouncesShutdown
    BY <1>14 DEF ServerAnswers, ServerAnnouncesShutdown
  <1> QED
    BY <1>1, <1>2, <1>3, <1>4, <1>5, <1>6, <1>7, <1>9, <1>10, <1>11, <1>12, <1>13, <1>14
       DEF Next, Program, SocketEvent, Server, _passToHandler

LEMMA SafeAlways == Spec => []Safe
  BY InitSafe, NextSafe, PTL DEF Spec

\* No pending promise is ever forgotten by the context: it is the tracked
\* task's (handle, _stopTrackingTask).
THEOREM NoTaskForgotten == Spec => []PendingIsTracked
  BY SafeAlways, PTL DEF Safe

\* Closing leaves nothing behind that could still act or wait
\* (closeWithError).
THEOREM ClosedForGood == Spec => []ClosedIsDead
  BY SafeAlways, PTL DEF Safe

LEMMA NextKeepsReason ==
    ASSUME ConnectionIsUsed, Next,
           closingError # None => ctl = "destroyed",
           closingError # None, closingError' # closingError
    PROVE  conn' # conn
  <1>1. PICK t \in Tasks : Connect(t) \/ ConnectDuringTask(t)
    BY DEF Next, Program, SocketEvent, Server, _passToHandler, closeWithError,
           Launch, Track, LaunchInvalid, LaunchOnClosed, LaunchDuringTask,
           UserClose, Upgrade, AttachData, ReceivePiece, ReceiveTooMuch,
           ReceiveChunk, PassToNobody, PassAndSettle, PassAndSendPassword,
           ControlLost, ControlTimeout, DataError, ServerAnswers,
           ServerAnnouncesShutdown
  <1> QED
    BY <1>1, NoneAssumption DEF Connect, ConnectDuringTask, ConnectionIsUsed

\* The first reason a context was closed for stays until the next connect()
\* (closeWithError's early return).
THEOREM ReasonKept == Spec => ReasonIsKept
  <1> DEFINE Kept == closingError # None /\ closingError' # closingError => conn' # conn
  <1>1. Safe /\ [Next]_vars => [Kept]_vars
    BY NextKeepsReason DEF vars, Safe, ClosedIsDead
  <1> QED
    BY <1>1, SafeAlways, PTL DEF Spec, ReasonIsKept

-----------------------------------------------------------------------------
(* The partial response, in every environment *)

LEMMA CloseCloses ==
    ASSUME NEW reason \in Reasons, NEW p, closeWithError(reason, p)
    PROVE  closingError' # None
  BY NoneAssumption DEF closeWithError

LEMMA SeqFacts ==
    ASSUME NEW S, NEW s \in Seq(S), NEW e \in S
    PROVE  /\ Append(s, e) # <<>>
           /\ Len(Append(s, e)) = Len(s) + 1
           /\ s # <<>> => Head(Append(s, e)) = Head(s)
           /\ s = <<>> => Head(Append(s, e)) = e /\ Tail(Append(s, e)) = <<>>
           /\ \A i \in 1 .. Len(s) : Append(s, e)[i] = s[i]
           /\ Append(s, e)[Len(s) + 1] = e
  BY EmptySeq, AppendProperties

LEMMA NextPartial == TypeOK /\ PartialIsOfArrivingReply /\ [Next]_vars => PartialIsOfArrivingReply'
  <1> SUFFICES ASSUME TypeOK, PartialIsOfArrivingReply, [Next]_vars, closingError' = None
               PROVE  \A i \in 1 .. Len(partial') : wire' # <<>> /\ partial'[i] = Head(wire').to
    BY DEF PartialIsOfArrivingReply
  <1> USE NoneAssumption
  <1>1. CASE UNCHANGED vars \/ UNCHANGED <<closingError, wire, partial>>
    BY <1>1 DEF vars, PartialIsOfArrivingReply
  <1>2. CASE partial' = <<>>
    BY <1>2
  <1>3. ASSUME NEW reason \in Reasons, NEW p, closeWithError(reason, p)
        PROVE  FALSE
    BY <1>3, CloseCloses
  <1>4. CASE ReceivePiece
    <2>1. Head(wire).to \in Tasks \cup {None} /\ partial \in Seq(Tasks \cup {None})
      BY <1>4, WireHead DEF ReceivePiece, TypeOK
    <2>2. /\ \A i \in 1 .. Len(partial') : partial'[i] = Head(wire).to
          /\ wire' = wire /\ wire # <<>>
      BY <1>4, <2>1, SeqFacts DEF ReceivePiece, PartialIsOfArrivingReply
    <2> QED
      BY <2>2
  <1>5. CASE ServerAnswers
    <2>1. PICK code \in Answers(Head(owed).what) :
             wire' = Append(wire, [to |-> Head(owed).to, code |-> code])
      BY <1>5 DEF ServerAnswers
    <2>2. [to |-> Head(owed).to, code |-> code] \in Reply /\ wire \in Seq(Reply)
      BY <1>5, OwedHead, AnswersType DEF ServerAnswers, Reply, TypeOK
    <2>3. wire # <<>> => Head(wire') = Head(wire)
      BY <2>1, <2>2, SeqFacts
    <2>4. wire' # <<>>
      BY <2>1, <2>2, SeqFacts
    <2> QED
      BY <1>5, <2>3, <2>4 DEF ServerAnswers, PartialIsOfArrivingReply
  <1>6. CASE ServerAnnouncesShutdown
    <2>1. Len(partial) \in Nat
      BY LenProperties DEF TypeOK
    <2>2. \A i \in 1 .. Len(partial) : FALSE
      BY <1>6 DEF ServerAnnouncesShutdown, PartialIsOfArrivingReply
    <2> QED
      BY <1>6, <2>1, <2>2 DEF ServerAnnouncesShutdown
  <1>7. CASE Program
    <2>1. ASSUME NEW t \in Tasks, NEW h \in {"request", "ignoring", "login"},
                 Launch(t, h) \/ LaunchInvalid(t, h) \/ LaunchOnClosed(t, h)
          PROVE  UNCHANGED <<closingError, wire, partial>>
      BY <2>1 DEF Launch, LaunchInvalid, LaunchOnClosed
    <2>2. ASSUME NEW t \in Tasks, NEW h \in {"request", "ignoring", "login"},
                 LaunchDuringTask(t, h)
          PROVE  FALSE
      BY <1>3, <2>2 DEF LaunchDuringTask, Reasons
    <2>3. ASSUME NEW t \in Tasks, Connect(t) \/ ConnectDuringTask(t)
          PROVE  partial' = <<>>
      BY <2>3 DEF Connect, ConnectDuringTask
    <2>4. CASE UserClose
      BY <1>3, <2>4 DEF UserClose, Reasons
    <2>5. CASE Upgrade
      BY <1>2, <2>5 DEF Upgrade
    <2>6. CASE AttachData
      BY <1>1, <2>6 DEF AttachData
    <2> QED
      BY <1>1, <1>2, <1>7, <2>1, <2>2, <2>3, <2>4, <2>5, <2>6 DEF Program
  <1>8. CASE ReceiveChunk
    <2>1. PICK n \in 1 .. Len(wire) :
             /\ wire' = SubSeq(wire, n + 1, Len(wire))
             /\ partial' = <<>> \/ (n < Len(wire) /\ partial' = <<wire[n + 1].to>>)
      BY <1>8 DEF ReceiveChunk
    <2>2. CASE n < Len(wire) /\ partial' = <<wire[n + 1].to>>
      <3>1. wire \in Seq(Reply) /\ Len(wire) \in Nat
        BY LenProperties DEF TypeOK
      <3>2. /\ Len(wire') = Len(wire) - n
            /\ \A i \in 1 .. Len(wire) - n : wire'[i] = wire[n + i]
        BY <2>1, <2>2, <3>1, SubSeqProperties
      <3>3. wire' \in Seq(Reply)
        BY <2>1, <3>1, SubSeqProperties
      <3>4. wire' # <<>> /\ Head(wire') = wire[n + 1]
        <4>1. Len(wire') > 0 /\ 1 \in 1 .. Len(wire) - n
          BY <2>2, <3>1, <3>2
        <4>2. wire' # <<>> /\ Head(wire') = wire'[1]
          BY <3>3, <4>1, EmptySeq, HeadTailProperties
        <4> QED
          BY <3>1, <3>2, <4>1, <4>2
      <3>5. \A i \in 1 .. Len(partial') : i = 1
        BY <2>2
      <3> QED
        BY <2>2, <3>4, <3>5 DEF PartialIsOfArrivingReply
    <2> QED
      BY <1>2, <2>1, <2>2
  <1>9. CASE ReceiveTooMuch \/ ControlLost \/ ControlTimeout \/ DataError
    BY <1>3, <1>9 DEF ReceiveTooMuch, ControlLost, ControlTimeout, DataError, Reasons
  <1>10. CASE _passToHandler
    BY <1>1, <1>10 DEF _passToHandler, PassToNobody, PassAndSettle, PassAndSendPassword
  <1> QED
    BY <1>1, <1>4, <1>5, <1>6, <1>7, <1>8, <1>9, <1>10 DEF Next, SocketEvent, Server

\* On an open context the partial response is the beginning of the reply now
\* arriving: no connect() or close leaves a piece of an older reply in front
\* of it (the reset of _partialResponse when a control socket is set).
THEOREM PartialIsOfArriving == Spec => []PartialIsOfArrivingReply
  <1>1. Init => PartialIsOfArrivingReply
    BY EmptySeq DEF Init, PartialIsOfArrivingReply
  <1> QED
    BY <1>1, NextPartial, TypeCorrect, PTL DEF Spec

-----------------------------------------------------------------------------
(* The timeout of the control socket, in every environment: the context    *)
(* alone sets it for the tracked task.                                     *)

TimerIsOfTask == ctlTimer <=> task # None

\* The tracked task's promise is pending.
TrackedIsPending == task # None => promise[task] = "pending"

LEMMA NextTimer == Safe /\ TimerIsOfTask /\ [Next]_vars => TimerIsOfTask'
  <1> SUFFICES ASSUME Safe, TimerIsOfTask, [Next]_vars PROVE TimerIsOfTask'
    OBVIOUS
  <1> USE NoneAssumption DEF TimerIsOfTask
  <1>1. CASE UNCHANGED <<task, ctlTimer>>
    BY <1>1
  <1>2. ASSUME NEW t \in Tasks, Connect(t) \/ ConnectDuringTask(t) PROVE TimerIsOfTask'
    BY <1>2 DEF Connect, ConnectDuringTask, _stopTrackingTask
  <1>3. ASSUME NEW t \in Tasks, NEW h, Launch(t, h) \/ LaunchInvalid(t, h) \/ LaunchOnClosed(t, h)
        PROVE  TimerIsOfTask'
    BY <1>3 DEF Launch, LaunchInvalid, LaunchOnClosed, Track, _stopTrackingTask
  <1>4. ASSUME NEW reason, NEW p, closeWithError(reason, p) PROVE TimerIsOfTask'
    BY <1>4 DEF closeWithError, _stopTrackingTask
  <1>5. ASSUME NEW t \in Tasks, NEW h, LaunchDuringTask(t, h) PROVE TimerIsOfTask'
    BY <1>4, <1>5 DEF LaunchDuringTask
  <1>6. CASE UserClose \/ ReceiveTooMuch \/ ControlLost \/ ControlTimeout \/ DataError
    BY <1>4, <1>6 DEF UserClose, ReceiveTooMuch, ControlLost, ControlTimeout, DataError
  <1>7. CASE Upgrade \/ PassAndSettle
    BY <1>7 DEF Upgrade, PassAndSettle, _stopTrackingTask
  <1>8. CASE AttachData \/ ReceivePiece \/ ReceiveChunk \/ PassToNobody
             \/ PassAndSendPassword \/ ServerAnswers \/ ServerAnnouncesShutdown
             \/ UNCHANGED vars
    BY <1>1, <1>8 DEF AttachData, ReceivePiece, ReceiveChunk, PassToNobody,
                      PassAndSendPassword, ServerAnswers, ServerAnnouncesShutdown, vars
  <1> QED
    BY <1>2, <1>3, <1>5, <1>6, <1>7, <1>8
       DEF Next, Program, SocketEvent, Server, _passToHandler

\* Needs that every command can be sent: a command that send() refuses leaves
\* its rejected task tracked.
LEMMA NextTracked ==
    "badCommand" \notin Quirks /\ Safe /\ TrackedIsPending /\ [Next]_vars => TrackedIsPending'
  <1> SUFFICES ASSUME "badCommand" \notin Quirks, Safe, TrackedIsPending, [Next]_vars
               PROVE  TrackedIsPending'
    OBVIOUS
  <1> USE NoneAssumption DEF TrackedIsPending
  <1>t. TypeOK
    BY DEF Safe
  <1>1. CASE UNCHANGED <<task, promise>>
    BY <1>1
  <1>2. ASSUME task' = None PROVE TrackedIsPending'
    BY <1>2
  <1>3. ASSUME NEW t \in Tasks, Connect(t) \/ ConnectDuringTask(t) PROVE TrackedIsPending'
    BY <1>3, <1>t DEF Connect, ConnectDuringTask, _stopTrackingTask, TypeOK
  <1>4. ASSUME NEW t \in Tasks, NEW h, Launch(t, h) \/ LaunchInvalid(t, h) \/ LaunchOnClosed(t, h)
        PROVE  TrackedIsPending'
    BY <1>4, <1>t DEF Launch, LaunchInvalid, LaunchOnClosed, Track, _stopTrackingTask, TypeOK
  <1>5. ASSUME NEW reason, closeWithError(reason, promise) PROVE TrackedIsPending'
    BY <1>5 DEF closeWithError, _stopTrackingTask
  <1>6. ASSUME NEW t \in Tasks, NEW h, LaunchDuringTask(t, h) PROVE task' = None
    BY <1>6 DEF LaunchDuringTask, closeWithError, _stopTrackingTask, Safe, ClosedIsDead
  <1>7. CASE UserClose \/ ReceiveTooMuch \/ ControlLost \/ ControlTimeout \/ DataError
    BY <1>5, <1>7 DEF UserClose, ReceiveTooMuch, ControlLost, ControlTimeout, DataError
  <1>8. CASE PassAndSettle
    BY <1>8 DEF PassAndSettle, _stopTrackingTask
  <1>9. CASE Upgrade \/ AttachData \/ ReceivePiece \/ ReceiveChunk \/ PassToNobody
             \/ PassAndSendPassword \/ ServerAnswers \/ ServerAnnouncesShutdown
             \/ UNCHANGED vars
    BY <1>1, <1>9 DEF Upgrade, AttachData, ReceivePiece, ReceiveChunk, PassToNobody,
                      PassAndSendPassword, ServerAnswers, ServerAnnouncesShutdown, vars
  <1> QED
    BY <1>2, <1>3, <1>4, <1>6, <1>7, <1>8, <1>9
       DEF Next, Program, SocketEvent, Server, _passToHandler

LEMMA TrackedAlways == "badCommand" \notin Quirks /\ Spec => [](Safe /\ TrackedIsPending)
  <1>1. Init => TrackedIsPending
    BY DEF Init, TrackedIsPending
  <1>2. ASSUME "badCommand" \notin Quirks
        PROVE  Safe /\ TrackedIsPending /\ [Next]_vars => TrackedIsPending'
    BY <1>2, NextTracked
  <1>3. ASSUME "badCommand" \notin Quirks PROVE Spec => [](Safe /\ TrackedIsPending)
    BY <1>1, <1>2, <1>3, SafeAlways, PTL DEF Spec
  <1> QED
    BY <1>3

\* The control socket's timeout is set exactly while a promise is pending, as
\* long as every command can be sent (handle, _stopTrackingTask).
THEOREM TimerOnlyDuringTask == ASSUME "badCommand" \notin Quirks PROVE Spec => []TimerMatchesTask
  <1>1. Safe /\ TrackedIsPending /\ TimerIsOfTask => TimerMatchesTask
    BY NoneAssumption DEF Safe, TypeOK, PendingIsTracked, TrackedIsPending,
                          TimerIsOfTask, TimerMatchesTask
  <1>2. Init => TimerIsOfTask
    BY DEF Init, TimerIsOfTask
  <1> QED
    BY <1>1, <1>2, NextTimer, TrackedAlways, PTL DEF Spec

-----------------------------------------------------------------------------
(* What holds when the server answers each command once and says nothing   *)
(* unasked.                                                                *)

\* The strengthening of InSync: at most one reply is due, as a debt of the
\* server, on the wire, or in the chunk being passed along, and it is due to
\* the tracked task.
DueTo(t, s) == Len(s) = 1 /\ s[1].to = t

OneReplyDue ==
    \/ owed = <<>> /\ wire = <<>> /\ chunk = <<>>
    \/ task # None /\ DueTo(task, owed) /\ wire = <<>> /\ chunk = <<>>
    \/ task # None /\ owed = <<>> /\ DueTo(task, wire) /\ chunk = <<>>
    \/ task # None /\ owed = <<>> /\ wire = <<>> /\ DueTo(task, chunk)

AnswersOnce == Quirks \cap {"delayedGreeting", "unsolicited"} = {}

Orderly == Safe /\ OneReplyDue

LEMMA OneElement ==
    ASSUME NEW S, NEW s \in Seq(S), NEW t, DueTo(t, s)
    PROVE  /\ s # <<>> /\ Head(s).to = t /\ Tail(s) = <<>>
           /\ \A n \in 1 .. Len(s) : /\ DueTo(t, SubSeq(s, 1, n))
                                     /\ SubSeq(s, n + 1, Len(s)) = <<>>
  <1> USE DEF DueTo
  <1>1. s # <<>> /\ Head(s).to = t
    <2>1. s # <<>>
      <3>1. (s = <<>>) <=> (Len(s) = 0)
        BY EmptySeq
      <3>2. Len(s) = 1
        OBVIOUS
      <3> QED
        BY <3>1, <3>2
    <2>2. Head(s) = s[1]
      BY <2>1
    <2> QED
      BY <2>1, <2>2
  <1>2. Tail(s) = <<>>
    <2>1. Tail(s) \in Seq(S) /\ Len(Tail(s)) = 0
      BY <1>1, HeadTailProperties
    <2> QED
      BY <2>1, EmptySeq
  <1>3. SubSeq(s, 1, 1) = s
    BY SubSeqFull
  <1>4. SubSeq(s, 2, 1) = <<>>
    BY SubSeqEmpty
  <1> QED
    BY <1>1, <1>2, <1>3, <1>4

LEMMA CloseOrderly ==
    ASSUME Orderly, chunk = <<>>, UNCHANGED chunk, NEW reason, NEW p, closeWithError(reason, p)
    PROVE  OneReplyDue'
  <1>1. CASE closingError # None
    BY <1>1 DEF closeWithError, Orderly, OneReplyDue, Safe, ClosedIsDead
  <1>2. CASE closingError = None
    BY <1>2 DEF closeWithError, _stopTrackingTask, OneReplyDue
  <1> QED
    BY <1>1, <1>2

LEMMA InitOrderly == Init => Orderly
  BY InitSafe DEF Init, Orderly, OneReplyDue

\* A step, unless the server's answer leaves it owing another one.
LEMMA StepOrderly ==
    ASSUME Orderly, Program \/ SocketEvent \/ ServerAnswers \/ UNCHANGED vars,
           ServerAnswers => owed' = Tail(owed)
    PROVE  OneReplyDue'
  <1> USE NoneAssumption
  <1>t. TypeOK
    BY DEF Orderly, Safe
  <1>0. task = None => owed = <<>> /\ wire = <<>> /\ chunk = <<>>
    BY DEF Orderly, OneReplyDue
  <1>1. CASE UNCHANGED <<task, promise, ctlTimer, chunk, wire, owed>>
    BY <1>1 DEF Orderly, OneReplyDue, DueTo
  <1>2. ASSUME NEW t \in Tasks, Connect(t)
        PROVE  OneReplyDue'
    <2>1. task' = t /\ ctlTimer' /\ promise'[t] = "pending"
      BY <1>2, <1>t DEF Connect, TypeOK
    <2>2. DueTo(task', owed') /\ wire' = <<>> /\ chunk' = <<>>
      BY <1>2 DEF Connect, DueTo
    <2> QED
      BY <2>1, <2>2 DEF OneReplyDue, DueTo
  <1>3. ASSUME NEW t \in Tasks, ConnectDuringTask(t)
        PROVE  OneReplyDue'
    BY <1>3 DEF ConnectDuringTask, _stopTrackingTask, OneReplyDue
  <1>4. ASSUME NEW t \in Tasks, NEW h \in {"request", "ignoring", "login"},
               Launch(t, h)
        PROVE  OneReplyDue'
    <2>1. task' = t /\ ctlTimer' /\ promise'[t] = "pending"
      BY <1>4, <1>t DEF Launch, Track, TypeOK
    <2>2. owed = <<>> /\ wire' = <<>> /\ chunk' = <<>>
      BY <1>0, <1>4 DEF Launch, Track
    <2>3. owed' = <<>> \/ DueTo(t, owed')
      BY <1>4, <2>2 DEF Launch, Send, DueTo
    <2> QED
      BY <2>1, <2>2, <2>3 DEF OneReplyDue, DueTo
  <1>5. ASSUME NEW t \in Tasks, NEW h \in {"request", "ignoring", "login"},
               LaunchInvalid(t, h)
        PROVE  OneReplyDue'
    BY <1>0, <1>5 DEF LaunchInvalid, Track, OneReplyDue
  <1>6. ASSUME NEW t \in Tasks, NEW h \in {"request", "ignoring", "login"},
               LaunchOnClosed(t, h)
        PROVE  OneReplyDue'
    BY <1>0, <1>6 DEF LaunchOnClosed, _stopTrackingTask, OneReplyDue
  <1>7. ASSUME NEW t \in Tasks, NEW h \in {"request", "ignoring", "login"},
               LaunchDuringTask(t, h)
        PROVE  OneReplyDue'
    BY <1>7, CloseOrderly DEF LaunchDuringTask
  <1>8. CASE UserClose \/ ReceiveTooMuch \/ ControlLost \/ ControlTimeout \/ DataError
    BY <1>8, CloseOrderly DEF UserClose, ReceiveTooMuch, ControlLost, ControlTimeout, DataError
  <1>9. CASE Upgrade
    BY <1>0, <1>9 DEF Upgrade, OneReplyDue
  <1>10. CASE AttachData \/ ReceivePiece
    BY <1>1, <1>10 DEF AttachData, ReceivePiece
  <1>11. CASE ReceiveChunk
    <2>1. PICK n \in 1 .. Len(wire) :
             chunk' = SubSeq(wire, 1, n) /\ wire' = SubSeq(wire, n + 1, Len(wire))
      BY <1>11 DEF ReceiveChunk
    <2>2. wire # <<>>
      BY <2>1, EmptySeq, <1>t DEF TypeOK
    <2>3. task # None /\ owed = <<>> /\ DueTo(task, wire) /\ chunk = <<>>
      BY <2>2 DEF Orderly, OneReplyDue
    <2>4. DueTo(task, chunk') /\ wire' = <<>>
      BY <2>1, <2>3, <1>t, OneElement DEF TypeOK
    <2> QED
      BY <1>11, <2>3, <2>4 DEF ReceiveChunk, OneReplyDue, Orderly, DueTo
  <1>12. ASSUME chunk # <<>>
         PROVE  task # None /\ owed = <<>> /\ wire = <<>> /\ Tail(chunk) = <<>>
    <2>1. task # None /\ owed = <<>> /\ wire = <<>> /\ DueTo(task, chunk)
      BY <1>12 DEF Orderly, OneReplyDue
    <2> QED
      BY <2>1, <1>t, OneElement DEF TypeOK
  <1>13. CASE PassToNobody
    BY <1>12, <1>13 DEF PassToNobody
  <1>14. CASE PassAndSettle
    BY <1>12, <1>14 DEF PassAndSettle, _stopTrackingTask, OneReplyDue
  <1>15. CASE PassAndSendPassword
    <2>1. owed = <<>> /\ wire' = <<>> /\ chunk' = <<>> /\ task' = task /\ task # None
      BY <1>12, <1>15 DEF PassAndSendPassword
    <2>2. owed' = <<>> \/ DueTo(task, owed')
      BY <1>15, <2>1 DEF PassAndSendPassword, Send, DueTo
    <2> QED
      BY <1>15, <2>1, <2>2
         DEF PassAndSendPassword, OneReplyDue, Orderly, DueTo
  <1>16. CASE ServerAnswers
    <2>1. task # None /\ DueTo(task, owed) /\ wire = <<>> /\ chunk = <<>>
      BY <1>16 DEF ServerAnswers, Orderly, OneReplyDue
    <2>2. Head(owed).to = task /\ Tail(owed) = <<>>
      BY <2>1, <1>t, OneElement DEF TypeOK
    <2>3. PICK r : wire' = Append(<<>>, r) /\ r.to = task
      BY <1>16, <2>1, <2>2 DEF ServerAnswers
    <2>4. owed' = <<>>
      BY <1>16, <2>2
    <2>5. DueTo(task, wire')
      <3>1. Append(<<>>, r) = <<r>>
        OBVIOUS
      <3> QED
        BY <2>3, <3>1 DEF DueTo
    <2> QED
      BY <1>16, <2>1, <2>4, <2>5 DEF ServerAnswers, OneReplyDue, Orderly, DueTo
  <1>17. CASE UNCHANGED vars
    BY <1>1, <1>17 DEF vars
  <1> QED
    BY <1>2, <1>3, <1>4, <1>5, <1>6, <1>7, <1>8, <1>9, <1>10, <1>11, <1>13, <1>14,
       <1>15, <1>16, <1>17 DEF Program, SocketEvent, _passToHandler

LEMMA NextOrderly == AnswersOnce /\ Orderly /\ [Next]_vars => Orderly'
  <1> SUFFICES ASSUME AnswersOnce, Orderly, [Next]_vars
               PROVE  OneReplyDue'
    BY NextSafe DEF Orderly
  <1>1. ServerAnswers => owed' = Tail(owed)
    BY DEF ServerAnswers, Answers, AnswersOnce
  <1>2. ~ServerAnnouncesShutdown
    BY DEF ServerAnnouncesShutdown, AnswersOnce
  <1> QED
    BY <1>1, <1>2, StepOrderly DEF Next, Server

LEMMA OrderlyAlways == AnswersOnce /\ Spec => []Orderly
  <1>1. ASSUME AnswersOnce PROVE Orderly /\ [Next]_vars => Orderly'
    BY <1>1, NextOrderly
  <1>2. ASSUME AnswersOnce PROVE Spec => []Orderly
    BY <1>1, <1>2, InitOrderly, PTL DEF Spec
  <1> QED
    BY <1>2

\* When no task is tracked, the server owes nothing and nothing is in
\* flight: a reply is never left over for the next task.
THEOREM NoReplyLeftOver == ASSUME AnswersOnce PROVE Spec => []InSync
  <1>1. Orderly => InSync
    BY DEF Orderly, OneReplyDue, InSync
  <1> QED
    BY <1>1, OrderlyAlways, PTL

\* A promise is resolved only by the reply to its own command: the reply
\* being passed along is addressed to it.
THEOREM OwnReplyOnly == ASSUME AnswersOnce PROVE Spec => ResolvedByOwnReply
  <1> DEFINE Own == \A t \in Tasks : promise[t] # "resolved" /\ promise'[t] = "resolved" =>
                        chunk # <<>> /\ Head(chunk).to = t
  <1>1. Orderly /\ [Next]_vars => [Own]_vars
    <2> SUFFICES ASSUME Orderly, Next, NEW t \in Tasks,
                        promise[t] # "resolved", promise'[t] = "resolved"
                 PROVE  chunk # <<>> /\ Head(chunk).to = t
      BY DEF vars
    <2>t. TypeOK
      BY DEF Orderly, Safe
    <2>1. PassAndSettle
      BY <2>t DEF Next, Program, SocketEvent, Server, _passToHandler, closeWithError, SettleIn,
             Connect, ConnectDuringTask,
             Launch, Track, LaunchInvalid, LaunchOnClosed, LaunchDuringTask,
             UserClose, Upgrade, AttachData, ReceivePiece, ReceiveTooMuch,
             ReceiveChunk, PassToNobody, PassAndSendPassword,
             ControlLost, ControlTimeout, DataError, ServerAnswers,
             ServerAnnouncesShutdown, TypeOK
    <2>2. t = task
      BY <2>1, <2>t DEF PassAndSettle, SettleIn, TypeOK
    <2>3. chunk # <<>> /\ DueTo(task, chunk)
      BY <2>1 DEF PassAndSettle, Orderly, OneReplyDue
    <2> QED
      BY <2>t, <2>2, <2>3, OneElement DEF TypeOK
  <1>2. Own => \A t \in Tasks : promise[t] # "resolved" /\ promise'[t] = "resolved" =>
                  \/ chunk # <<>> /\ Head(chunk).to = t
                  \/ chunk = <<>> /\ handler[t] \in {"upload", "download"}
    OBVIOUS
  <1> QED
    BY <1>1, <1>2, OrderlyAlways, PTL DEF Spec, ResolvedByOwnReply

-----------------------------------------------------------------------------
(* The contract: FtpContext implements SingleFlight, liveness apart *)

LEMMA PendingIsTask ==
    ASSUME Safe, TrackedIsPending
    PROVE  Contract!Pending = IF task = None THEN {} ELSE {task}
  BY NoneAssumption DEF Contract!Pending, Safe, TypeOK, PendingIsTracked,
                        TrackedIsPending

LEMMA CloseIsClose ==
    ASSUME Safe, TrackedIsPending, NEW reason \in Reasons, closeWithError(reason, promise)
    PROVE  Contract!Close \/ UNCHANGED Contract!sfVars
  <1>1. CASE closingError # None
    BY <1>1 DEF closeWithError, Contract!sfVars
  <1>2. CASE closingError = None
    <2>1. closingError' # None
      BY <1>2, NoneAssumption DEF closeWithError
    <2>2. promise' = [u \in Tasks |-> IF u \in Contract!Pending
                                      THEN "rejected" ELSE promise[u]]
      <3>1. promise' = SettleIn(promise, task, "rejected") /\ TypeOK /\ TrackedIsPending
        BY <1>2 DEF closeWithError, Safe
      <3>2. CASE task = None
        BY <3>1, <3>2, PendingIsTask, NoneAssumption DEF SettleIn, TypeOK
      <3>3. CASE task # None
        BY <3>1, <3>3, PendingIsTask DEF SettleIn, TypeOK, TrackedIsPending
      <3> QED
        BY <3>2, <3>3
    <2> QED
      BY <1>2, <2>1, <2>2 DEF Contract!Close
  <1> QED
    BY <1>1, <1>2

LEMMA NextContract ==
    "badCommand" \notin Quirks /\ Safe /\ TrackedIsPending /\ [Next]_vars =>
        [Contract!SFNext]_(Contract!sfVars)
  <1> SUFFICES ASSUME "badCommand" \notin Quirks, Safe, TrackedIsPending, [Next]_vars
               PROVE  Contract!SFNext \/ UNCHANGED Contract!sfVars
    OBVIOUS
  <1> USE NoneAssumption
  <1>t. TypeOK /\ PendingIsTracked /\ ClosedIsDead /\ TrackedIsPending
    BY DEF Safe
  <1>1. CASE UNCHANGED <<promise, closingError>>
    BY <1>1 DEF Contract!sfVars
  <1>2. ASSUME NEW t \in Tasks, Connect(t) PROVE Contract!SFNext
    <2>1. Contract!Reopen(t)
      BY <1>2, PendingIsTask DEF Connect, Contract!Reopen
    <2> QED
      BY <2>1 DEF Contract!SFNext
  <1>3. ASSUME NEW t \in Tasks, promise[t] = "unused", task # None,
               promise' = SettleIn([promise EXCEPT ![t] = "rejected"], task, "rejected"),
               closingError' = "collision"
        PROVE  Contract!SFNext
    <2>1. Contract!Pending = {task}
      BY <1>3, PendingIsTask
    <2>2. promise' = [u \in Tasks |-> IF u = t \/ u \in {task}
                                      THEN "rejected" ELSE promise[u]]
      BY <1>3, <1>t DEF SettleIn, TypeOK, TrackedIsPending
    <2>3. Contract!Collide(t)
      BY <1>3, <2>1, <2>2 DEF Contract!Collide, Reasons
    <2> QED
      BY <2>3 DEF Contract!SFNext
  <1>4. ASSUME NEW t \in Tasks, ConnectDuringTask(t) PROVE Contract!SFNext
    BY <1>3, <1>4 DEF ConnectDuringTask
  <1>5. ASSUME NEW t \in Tasks, NEW h \in {"request", "ignoring", "login"},
               Launch(t, h)
        PROVE  Contract!SFNext
    <2>1. Contract!Begin(t)
      BY <1>5, PendingIsTask DEF Launch, Track, Contract!Begin
    <2> QED
      BY <2>1 DEF Contract!SFNext
  <1>6. ASSUME NEW t \in Tasks, NEW h \in {"request", "ignoring", "login"},
               LaunchInvalid(t, h)
        PROVE  FALSE
    BY <1>6 DEF LaunchInvalid
  <1>7. ASSUME NEW t \in Tasks, NEW h \in {"request", "ignoring", "login"},
               LaunchOnClosed(t, h)
        PROVE  Contract!SFNext
    <2>1. Contract!Refuse(t)
      BY <1>7 DEF LaunchOnClosed, Contract!Refuse
    <2> QED
      BY <2>1 DEF Contract!SFNext
  <1>8. ASSUME NEW t \in Tasks, NEW h \in {"request", "ignoring", "login"},
               LaunchDuringTask(t, h)
        PROVE  Contract!SFNext
    <2>1. closingError = None
      BY <1>8, <1>t DEF LaunchDuringTask, ClosedIsDead
    <2> QED
      BY <1>3, <1>8, <2>1 DEF LaunchDuringTask, closeWithError
  <1>9. CASE UserClose \/ ReceiveTooMuch \/ ControlLost \/ ControlTimeout \/ DataError
    <2>1. PICK reason \in Reasons : closeWithError(reason, promise)
      BY <1>9 DEF UserClose, ReceiveTooMuch, ControlLost, ControlTimeout, DataError, Reasons
    <2> QED
      BY <2>1, CloseIsClose DEF Contract!SFNext
  <1>10. CASE Upgrade
    BY <1>1, <1>10, <1>t DEF Upgrade, ClosedIsDead
  <1>11. CASE PassAndSettle
    <2>1. task \in Tasks /\ promise[task] = "pending"
      BY <1>11, <1>t DEF PassAndSettle, TypeOK, TrackedIsPending
    <2>2. \E how \in {"resolved", "rejected"} : promise' = [promise EXCEPT ![task] = how]
      BY <1>11, <2>1 DEF PassAndSettle, SettleIn
    <2>3. Contract!Settle(task)
      BY <1>11, <2>1, <2>2 DEF PassAndSettle, Contract!Settle
    <2> QED
      BY <2>1, <2>3 DEF Contract!SFNext
  <1>12. CASE AttachData \/ ReceivePiece \/ ReceiveChunk \/ PassToNobody
              \/ PassAndSendPassword \/ ServerAnswers \/ ServerAnnouncesShutdown
    BY <1>1, <1>12 DEF AttachData, ReceivePiece, ReceiveChunk, PassToNobody,
                       PassAndSendPassword, ServerAnswers, ServerAnnouncesShutdown
  <1>13. CASE UNCHANGED vars
    BY <1>1, <1>13 DEF vars
  <1> QED
    BY <1>2, <1>4, <1>5, <1>6, <1>7, <1>8, <1>9, <1>10, <1>11, <1>12, <1>13
       DEF Next, Program, SocketEvent, Server, _passToHandler

\* Every behaviour of FtpContext is one SingleFlight allows, its fairness
\* apart: at most one promise is pending, a second call closes the context
\* and rejects both, and a closed context refuses calls until connect().
THEOREM ImplementsContract ==
    ASSUME "badCommand" \notin Quirks
    PROVE  Spec => Contract!SFInit /\ [][Contract!SFNext]_(Contract!sfVars)
  <1>1. Init => Contract!SFInit
    BY DEF Init, Contract!SFInit
  <1>2. Safe /\ TrackedIsPending /\ [Next]_vars => [Contract!SFNext]_(Contract!sfVars)
    BY NextContract
  <1> QED
    BY <1>1, <1>2, TrackedAlways, PTL DEF Spec
=============================================================================
