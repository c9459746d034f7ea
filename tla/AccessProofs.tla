---------------------------- MODULE AccessProofs ----------------------------
(***************************************************************************)
(* Theorems about Client.access() (module Access), for every number of     *)
(* calls.                                                                  *)
(***************************************************************************)
EXTENDS Access, FtpContextProofs

-----------------------------------------------------------------------------
(* The plan *)

Settings == <<"utf8", "login", "feat", "type", "stru", "utf8Again">>

\* What a plan consists of.
Positions == Steps \cup {"handshake", "secured"}

\* How many steps come before the settings, and how many up to MLST.
Opening == IF secure = "explicit" THEN 4 ELSE 1
Listed == IF mlsd THEN Opening + 7 ELSE Opening + 6

Joins(s, a, b, c, d, e) ==
    /\ Len(s) = Len(a) + Len(b) + Len(c) + Len(d) + Len(e)
    /\ \A i \in 1 .. Len(a) : s[i] = a[i]
    /\ \A i \in 1 .. Len(b) : s[Len(a) + i] = b[i]
    /\ \A i \in 1 .. Len(c) : s[Len(a) + Len(b) + i] = c[i]
    /\ \A i \in 1 .. Len(d) : s[Len(a) + Len(b) + Len(c) + i] = d[i]
    /\ \A i \in 1 .. Len(e) : s[Len(a) + Len(b) + Len(c) + Len(d) + i] = e[i]

LEMMA JoinedFive ==
    ASSUME NEW S, NEW a \in Seq(S), NEW b \in Seq(S), NEW c \in Seq(S), NEW d \in Seq(S),
           NEW e \in Seq(S)
    PROVE  Joins(a \o b \o c \o d \o e, a, b, c, d, e)
  BY DEF Joins

PlanIs ==
    /\ Len(Plan) = IF hasTLS THEN Listed + 2 ELSE Listed
    /\ Plan[1] = "connect"
    /\ secure = "explicit" => Plan[2] = "auth" /\ Plan[3] = "handshake" /\ Plan[4] = "secured"
    /\ \A i \in 1 .. 6 : Plan[Opening + i] = Settings[i]
    /\ mlsd => Plan[Listed] = "mlst"
    /\ hasTLS => Plan[Listed + 1] = "pbsz" /\ Plan[Listed + 2] = "prot"

LEMMA PlanFacts == PlanIs
  <1> DEFINE a == <<"connect">>
             b == IF secure = "explicit" THEN <<"auth", "handshake", "secured">> ELSE <<>>
             d == IF mlsd THEN <<"mlst">> ELSE <<>>
             e == IF hasTLS THEN <<"pbsz", "prot">> ELSE <<>>
  <1>1. Plan = a \o b \o Settings \o d \o e
    BY DEF Plan, Settings
  <1> USE DEF Positions, Steps
  <1>2. a \in Seq(Positions) /\ Len(a) = 1 /\ a[1] = "connect"
    OBVIOUS
  <1>3. /\ b \in Seq(Positions) /\ Len(b) = Opening - 1
        /\ secure = "explicit" => b[1] = "auth" /\ b[2] = "handshake" /\ b[3] = "secured"
    <2>1. CASE secure = "explicit"
      <3>1. b = <<"auth", "handshake", "secured">>
        BY <2>1
      <3> QED
        BY <2>1, <3>1 DEF Opening
    <2>2. CASE secure # "explicit"
      <3>1. b = <<>>
        BY <2>2
      <3> QED
        BY <2>2, <3>1 DEF Opening
    <2> QED
      BY <2>1, <2>2
  <1>4. Settings \in Seq(Positions) /\ Len(Settings) = 6
    BY DEF Settings
  <1>5. d \in Seq(Positions) /\ Len(d) = Listed - Opening - 6 /\ (mlsd => d[1] = "mlst")
    <2>1. CASE mlsd
      <3>1. d = <<"mlst">>
        BY <2>1
      <3> QED
        BY <2>1, <3>1 DEF Listed, Opening
    <2>2. CASE ~mlsd
      <3>1. d = <<>>
        BY <2>2
      <3> QED
        BY <2>2, <3>1 DEF Listed, Opening
    <2> QED
      BY <2>1, <2>2
  <1>6. /\ e \in Seq(Positions) /\ Len(e) = IF hasTLS THEN 2 ELSE 0
        /\ hasTLS => e[1] = "pbsz" /\ e[2] = "prot"
    <2>1. CASE hasTLS
      <3>1. e = <<"pbsz", "prot">>
        BY <2>1
      <3> QED
        BY <2>1, <3>1
    <2>2. CASE ~hasTLS
      <3>1. e = <<>>
        BY <2>2
      <3> QED
        BY <2>2, <3>1
    <2> QED
      BY <2>1, <2>2
  <1> HIDE DEF a, b, d, e, Positions, Steps
  <1>7. Joins(Plan, a, b, Settings, d, e)
    <2>1. /\ a \in Seq(Positions) /\ b \in Seq(Positions) /\ Settings \in Seq(Positions)
          /\ d \in Seq(Positions) /\ e \in Seq(Positions)
      BY <1>2, <1>3, <1>4, <1>5, <1>6
    <2>2. Joins(a \o b \o Settings \o d \o e, a, b, Settings, d, e)
      BY <2>1, JoinedFive
    <2> QED
      BY <1>1, <2>2
  <1>8. Opening \in {1, 4} /\ (secure = "explicit" => Opening = 4)
           /\ Listed = IF mlsd THEN Opening + 7 ELSE Opening + 6
    BY DEF Opening, Listed
  <1>9. /\ Len(a) + Len(b) = Opening /\ Opening + Len(Settings) + Len(d) = Listed
        /\ Opening \in Nat /\ Listed \in Nat
    BY <1>2, <1>3, <1>4, <1>5, <1>8
  <1>10. Len(Plan) = IF hasTLS THEN Listed + 2 ELSE Listed
    BY <1>6, <1>7, <1>9 DEF Joins
  <1>11. \A i \in 1 .. 6 : Plan[Opening + i] = Settings[i]
    BY <1>4, <1>7, <1>9 DEF Joins
  <1>12. /\ Plan[1] = "connect"
         /\ secure = "explicit" => Plan[2] = "auth" /\ Plan[3] = "handshake" /\ Plan[4] = "secured"
    BY <1>2, <1>3, <1>7, <1>8 DEF Joins
  <1>13. mlsd => Plan[Listed] = "mlst"
    <2>1. mlsd => Len(d) = 1 /\ Len(a) + Len(b) + Len(Settings) + 1 = Listed
      BY <1>4, <1>5, <1>8, <1>9
    <2> QED
      BY <1>5, <1>7, <2>1 DEF Joins
  <1>14. \A i \in 1 .. Len(e) : Plan[Listed + i] = e[i]
    BY <1>7, <1>9 DEF Joins
  <1> QED
    BY <1>6, <1>10, <1>11, <1>12, <1>13, <1>14 DEF PlanIs

\* Where the steps the proofs tell apart are.
LEMMA PlanPositions ==
    /\ Len(Plan) \in Nat /\ Len(Plan) >= Opening + 6
    /\ Plan[Len(Plan)] \in Steps
    /\ hasTLS => Plan[Len(Plan)] = "prot"
    /\ \A i \in 1 .. Len(Plan) :
          /\ Plan[i] \in Positions
          /\ (Plan[i] = "handshake") <=> (secure = "explicit" /\ i = 3)
          /\ (Plan[i] = "secured") <=> (secure = "explicit" /\ i = 4)
          /\ (Plan[i] = "connect") <=> (i = 1)
          /\ (Plan[i] = "auth") <=> (secure = "explicit" /\ i = 2)
          /\ (Plan[i] = "feat") <=> (i = Opening + 3)
  <1>1. PlanIs
    BY PlanFacts
  <1>p. /\ Plan[1] = "connect"
        /\ secure = "explicit" => Plan[2] = "auth" /\ Plan[3] = "handshake" /\ Plan[4] = "secured"
    BY <1>1 DEF PlanIs
  <1>2. /\ Opening \in {1, 4} /\ (Opening = 4 <=> secure = "explicit")
        /\ Listed \in {Opening + 6, Opening + 7} /\ (Listed = Opening + 7 <=> mlsd)
    BY DEF Opening, Listed
  <1>3. /\ Settings[1] = "utf8" /\ Settings[2] = "login" /\ Settings[3] = "feat"
        /\ Settings[4] = "type" /\ Settings[5] = "stru" /\ Settings[6] = "utf8Again"
    BY DEF Settings
  <1>4. /\ Plan[Opening + 1] = "utf8" /\ Plan[Opening + 2] = "login"
        /\ Plan[Opening + 3] = "feat" /\ Plan[Opening + 4] = "type"
        /\ Plan[Opening + 5] = "stru" /\ Plan[Opening + 6] = "utf8Again"
    BY <1>1, <1>3 DEF PlanIs
  <1>5. Len(Plan) = (IF hasTLS THEN Listed + 2 ELSE Listed)
    BY <1>1 DEF PlanIs
  <1>6. Len(Plan) \in Nat /\ Len(Plan) >= Opening + 6
    BY <1>2, <1>5
  <1>7. hasTLS => Plan[Len(Plan)] = "prot"
    BY <1>1, <1>5 DEF PlanIs
  <1>8. Plan[Len(Plan)] \in Steps
    BY <1>1, <1>2, <1>4, <1>5 DEF PlanIs, Steps
  <1>9. ASSUME NEW i \in 1 .. Len(Plan)
        PROVE  /\ Plan[i] \in Positions
               /\ (Plan[i] = "handshake") <=> (secure = "explicit" /\ i = 3)
               /\ (Plan[i] = "secured") <=> (secure = "explicit" /\ i = 4)
               /\ (Plan[i] = "connect") <=> (i = 1)
               /\ (Plan[i] = "auth") <=> (secure = "explicit" /\ i = 2)
               /\ (Plan[i] = "feat") <=> (i = Opening + 3)
    <2>1. CASE i <= Opening
      <3>1. CASE i = 1
        BY <1>2, <1>p, <3>1 DEF Positions, Steps
      <3>2. CASE i # 1
        <4>1. secure = "explicit" /\ Opening = 4 /\ i \in {2, 3, 4}
          BY <1>2, <2>1, <3>2
        <4> QED
          BY <1>p, <4>1 DEF Positions, Steps
      <3> QED
        BY <3>1, <3>2
    <2>2. CASE i > Opening /\ i <= Opening + 6
      BY <1>2, <1>4, <2>2 DEF Positions, Steps
    <2>3. CASE i > Opening + 6
      <3>1. \/ mlsd /\ i = Listed
            \/ hasTLS /\ (i = Listed + 1 \/ i = Listed + 2)
        BY <1>2, <1>5, <2>3
      <3>2. Plan[i] \in {"mlst", "pbsz", "prot"}
        BY <1>1, <3>1 DEF PlanIs
      <3> QED
        BY <1>2, <2>3, <3>2 DEF Positions, Steps
    <2> QED
      BY <1>2, <2>1, <2>2, <2>3
  <1> QED
    BY <1>6, <1>7, <1>8, <1>9

\* What is planned up to the settings stays planned.
LEMMA PlanIsStable ==
    ASSUME UNCHANGED secure
    PROVE  \A i \in 1 .. Opening + 6 : Plan'[i] = Plan[i]
  <1>1. PlanIs /\ PlanIs'
    BY PlanFacts, PTL
  <1>2. Opening' = Opening /\ Opening \in {1, 4} /\ (Opening = 4 <=> secure = "explicit")
    BY DEF Opening
  <1>3. \A i \in 1 .. 6 : Plan[Opening + i] = Settings[i] /\ Plan'[Opening + i] = Settings[i]
    BY <1>1, <1>2 DEF PlanIs, Settings
  <1>4. ASSUME NEW i \in 1 .. Opening + 6
        PROVE  Plan'[i] = Plan[i]
    <2>1. CASE i <= Opening
      <3>1. i = 1 \/ (secure = "explicit" /\ i \in {2, 3, 4})
        BY <1>2, <2>1
      <3>2. Plan'[1] = Plan[1]
        BY <1>1 DEF PlanIs
      <3>3. secure = "explicit" =>
               Plan'[2] = Plan[2] /\ Plan'[3] = Plan[3] /\ Plan'[4] = Plan[4]
        BY <1>1 DEF PlanIs
      <3> QED
        BY <3>1, <3>2, <3>3
    <2>2. CASE i > Opening
      <3>1. i - Opening \in 1 .. 6 /\ Opening + (i - Opening) = i
        BY <1>2, <2>2
      <3> QED
        BY <1>3, <3>1
    <2> QED
      BY <1>2, <2>1, <2>2
  <1> QED
    BY <1>4

-----------------------------------------------------------------------------
(* The inductive invariant *)

\* A call of connect() is answered by its own handler.
ConnectsByConnect ==
    \A c \in Calls : promise[<<c, "connect">>] # "unused" => handler[<<c, "connect">>] = "connect"

\* The tracked task is the step the latest call has reached.
TaskIsStep ==
    task # None => /\ call \in Calls
                   /\ task = <<call, Step>>
                   /\ promise[task] \in {"pending", "rejected"}

\* Until the socket is encrypted the call has not got beyond the handshake.
BeforeTLS ==
    secure # "none" /\ ~hasTLS =>
        /\ secure = "explicit" /\ at <= 3
        /\ \A i \in 1 .. Len(owed) : owed[i].to[2] \in {"connect", "auth"}

StepsDone ==
    call # None /\ outcome[call] \in {"pending", "resolved"} =>
        \A i \in 1 .. at - 1 : Plan[i] \in Steps => promise[<<call, Plan[i]>>] = "resolved"

Finished ==
    call # None /\ outcome[call] = "resolved" =>
        at = Len(Plan) /\ promise[<<call, Step>>] = "resolved"

GreetingIsForConnect ==
    \A i \in 1 .. Len(owed) : owed[i].what = "greeting" => owed[i].to[2] = "connect"

\* The greeting 120, on which connect() gives up while the server still owes
\* another greeting.
First120 ==
    \/ chunk # <<>> /\ Head(chunk).code = 120
    \/ chunk = <<>> /\ wire # <<>> /\ Head(wire).code = 120

\* As long as connect() was not refused, replies are in step with the calls.
InStepWithReplies ==
    Running /\ closingError = None /\ promise[<<call, "connect">>] # "rejected" =>
        \/ OneReplyDue
        \/ task = <<call, "connect">> /\ promise[task] = "pending" /\ First120

Accessing ==
    /\ AccessTypeOK /\ Safe /\ ConnectsByConnect /\ TaskIsStep /\ BeforeTLS
    /\ StepsDone /\ Finished /\ GreetingIsForConnect /\ InStepWithReplies

-----------------------------------------------------------------------------
(* Events of the context *)

\* Every element of q is due to a command that s has, or is the password of
\* the tracked task.
DueFrom(s, q) ==
    \A i \in 1 .. Len(q) :
        \/ task # None /\ q[i].to = task /\ q[i].what = "password"
        \/ \E j \in 1 .. Len(s) : q[i].to = s[j].to /\ q[i].what \in {s[j].what, "service"}

OnlySettles ==
    /\ handler' = handler
    /\ task' \in {task, None}
    /\ task' # None => promise' = promise
    /\ \A t \in Tasks : /\ promise[t] # "pending" => promise'[t] = promise[t]
                        /\ promise'[t] = "unused" => promise[t] = "unused"
    /\ closingError' = None => closingError = None

LEMMA DueFromAnswer ==
    ASSUME TypeOK, owed # <<>>, NEW q,
           \/ q = Tail(owed)
           \/ q = <<[to |-> Head(owed).to, what |-> "service"]>> \o Tail(owed)
    PROVE  DueFrom(owed, q)
  <1>1. PICK h, r : h = Head(owed) /\ r = Tail(owed)
    OBVIOUS
  <1>2. /\ owed \in Seq(Debt) /\ Len(owed) \in Nat /\ Len(owed) >= 1 /\ h = owed[1]
        /\ r \in Seq(Debt) /\ Len(r) = Len(owed) - 1 /\ \A i \in 1 .. Len(r) : r[i] = owed[i + 1]
    BY <1>1 DEF TypeOK
  <1>3. CASE q = Tail(owed)
    BY <1>1, <1>2, <1>3 DEF DueFrom
  <1>4. CASE q = <<[to |-> Head(owed).to, what |-> "service"]>> \o Tail(owed)
    <2>1. PICK e : e = [to |-> h.to, what |-> "service"]
      OBVIOUS
    <2>2. q = <<e>> \o r /\ e \in Debt
      <3>1. h.to \in Tasks
        BY <1>1, OwedHead
      <3> QED
        BY <1>1, <1>4, <2>1, <3>1 DEF Debt, Whats
    <2>3. Len(q) = Len(r) + 1 /\ q[1] = e /\ \A i \in 1 .. Len(r) : q[i + 1] = r[i]
      BY <1>2, <2>2
    <2>4. ASSUME NEW i \in 1 .. Len(q)
          PROVE  \E j \in 1 .. Len(owed) :
                    q[i].to = owed[j].to /\ q[i].what \in {owed[j].what, "service"}
      <3>1. CASE i = 1
        BY <1>2, <2>1, <2>3, <3>1
      <3>2. CASE i # 1
        <4>1. i - 1 \in 1 .. Len(r) /\ i \in 1 .. Len(owed)
          BY <1>2, <2>3, <3>2
        <4>2. q[i] = owed[i]
          BY <1>2, <2>3, <4>1
        <4> QED
          BY <4>1, <4>2
      <3> QED
        BY <3>1, <3>2
    <2> QED
      BY <2>4 DEF DueFrom
  <1> QED
    BY <1>3, <1>4

LEMMA EventEffects ==
    ASSUME Safe, ContextEvent
    PROVE  OnlySettles /\ DueFrom(owed, owed')
  <1> USE NoneAssumption
  <1>t. TypeOK /\ PendingIsTracked
    BY DEF Safe
  <1>1. ASSUME NEW reason \in Reasons, closeWithError(reason, promise), UNCHANGED handler
        PROVE  OnlySettles /\ DueFrom(owed, owed')
    <2>1. CASE closingError # None
      BY <1>1, <2>1 DEF closeWithError, OnlySettles, DueFrom
    <2>2. CASE closingError = None
      <3>1. DueFrom(owed, owed')
        BY <1>1, <2>2 DEF closeWithError, DueFrom
      <3>2. closingError' # None /\ task' = None /\ promise' = SettleIn(promise, task, "rejected")
        BY <1>1, <2>2 DEF closeWithError, _stopTrackingTask
      <3> QED
        BY <1>t, <1>1, <3>1, <3>2 DEF OnlySettles, SettleIn, TypeOK
    <2> QED
      BY <2>1, <2>2
  <1>2. CASE UserClose \/ ReceiveTooMuch \/ ControlLost \/ ControlTimeout
    BY <1>1, <1>2 DEF UserClose, ReceiveTooMuch, ControlLost, ControlTimeout, Reasons
  <1>3. CASE ReceivePiece \/ ReceiveChunk \/ PassToNobody
    BY <1>3 DEF ReceivePiece, ReceiveChunk, PassToNobody, OnlySettles, DueFrom
  <1>4. CASE PassAndSettle
    BY <1>t, <1>4 DEF PassAndSettle, _stopTrackingTask, SettleIn, OnlySettles, DueFrom, TypeOK
  <1>5. CASE PassAndSendPassword
    <2>1. OnlySettles
      BY <1>5 DEF PassAndSendPassword, OnlySettles
    <2>2. PICK e : e = [to |-> task, what |-> "password"]
      OBVIOUS
    <2>3. task # None /\ owed' \in {owed, Append(owed, e)}
      BY <1>5, <2>2 DEF PassAndSendPassword, Send
    <2>4. owed \in Seq(Debt)
      BY <1>t DEF TypeOK
    <2>5. \A i \in 1 .. Len(owed') : (i \in 1 .. Len(owed) /\ owed'[i] = owed[i]) \/ owed'[i] = e
      BY <2>3, <2>4
    <2> QED
      BY <2>1, <2>2, <2>3, <2>5 DEF DueFrom
  <1>6. CASE ServerAnswers
    <2>1. OnlySettles
      BY <1>6 DEF ServerAnswers, OnlySettles
    <2>2. DueFrom(owed, owed')
      BY <1>t, <1>6, DueFromAnswer DEF ServerAnswers
    <2> QED
      BY <2>1, <2>2
  <1> QED
    BY <1>2, <1>3, <1>4, <1>5, <1>6 DEF ContextEvent, _passToHandler

-----------------------------------------------------------------------------
(* Taking the next step *)

LEMMA TaskAssumptions ==
    /\ \A c \in Calls, p \in Steps : <<c, p>> \in Tasks
    /\ \A t \in Tasks : \E c \in Calls, p \in Steps : t = <<c, p>>
    /\ \A c, p : <<c, p>> \in Tasks => c \in Calls /\ p \in Steps
  BY AccessTasksAssumption

\* What holds when the step reached is done.
LEMMA ReadyFacts ==
    ASSUME Accessing, Ready
    PROVE  /\ Running /\ call \in Calls /\ task = None
           /\ Plan[at] \in Steps => promise[<<call, Plan[at]>>] = "resolved"
           /\ ~(secure = "explicit" /\ at = 3)
  <1>1. Running /\ call \in Calls /\ at \in 1 .. Len(Plan) /\ Step = Plan[at]
    BY DEF Ready, Awaits, Running, Step, Accessing, AccessTypeOK
  <1>2. "secured" \notin Steps /\ "handshake" \notin Steps
    BY DEF Steps
  <1>3. Plan[at] \in Steps => promise[<<call, Plan[at]>>] = "resolved"
    BY <1>1, <1>2 DEF Ready, Awaits
  <1>4. task = None
    <2>1. SUFFICES ASSUME task # None PROVE FALSE
      OBVIOUS
    <2>2. task = <<call, Plan[at]>> /\ promise[task] # "resolved"
      BY <1>1, <2>1 DEF Accessing, TaskIsStep
    <2>3. task \in Tasks
      BY <2>1 DEF Accessing, AccessTypeOK, TypeOK
    <2>4. Plan[at] \in Steps
      BY <2>2, <2>3, TaskAssumptions
    <2> QED
      BY <1>3, <2>2, <2>4
  <1>5. ~(secure = "explicit" /\ at = 3)
    <2>1. secure = "explicit" /\ at = 3 => Plan[at] = "handshake"
      BY <1>1, PlanPositions
    <2> QED
      BY <1>1, <1>2, <2>1 DEF Ready, Awaits
  <1> QED
    BY <1>1, <1>3, <1>4, <1>5

LEMMA ProceedFacts ==
    ASSUME Accessing, Proceed
    PROVE  /\ at \in Nat /\ at >= 1 /\ at' = at + 1 /\ at + 1 \in 1 .. Len(Plan)
           /\ at + 1 \in 1 .. Len(Plan')
           /\ \A i \in 1 .. at + 1 : Plan'[i] = Plan[i]
           /\ \/ Plan[at + 1] = "handshake" /\ secure = "explicit" /\ at = 2
              \/ /\ Plan[at + 1] # "handshake" /\ Plan[at + 1] # "connect"
                 /\ <<call, Plan[at + 1]>> \in Tasks
  <1>1. /\ at \in 1 .. Len(Plan) /\ Len(Plan) \in Nat /\ at < Len(Plan) /\ at' = at + 1
        /\ UNCHANGED <<secure, hasTLS>>
    BY PlanPositions DEF Accessing, AccessTypeOK, Proceed
  <1>2. /\ call \in Calls /\ ~(secure = "explicit" /\ at = 3)
    BY ReadyFacts DEF Proceed
  <1>3. at \in Nat /\ at >= 1 /\ at + 1 \in 1 .. Len(Plan)
    BY <1>1
  <1>4. at + 1 \in 1 .. Len(Plan') /\ \A i \in 1 .. at + 1 : Plan'[i] = Plan[i]
    <2>1. CASE Step = "feat"
      <3>1. Plan[at] = "feat"
        BY <2>1 DEF Step
      <3>2. at = Opening + 3 /\ Opening \in Nat
        BY <1>1, <3>1, PlanPositions DEF Opening
      <3>3. Len(Plan') \in Nat /\ Len(Plan') >= Opening' + 6
        <4>1. PlanIs'
          BY PlanFacts, PTL
        <4> QED
          BY <4>1 DEF PlanIs, Listed, Opening
      <3>4. Opening' = Opening
        BY <1>1 DEF Opening
      <3> QED
        BY <1>1, <3>2, <3>3, <3>4, PlanIsStable
    <2>2. CASE Step # "feat"
      <3>1. mlsd' = mlsd
        BY <2>2 DEF Proceed
      <3>2. Plan' = Plan
        BY <1>1, <3>1 DEF Plan
      <3> QED
        BY <1>3, <3>2
    <2> QED
      BY <2>1, <2>2
  <1>5. \/ Plan[at + 1] = "handshake" /\ secure = "explicit" /\ at = 2
        \/ /\ Plan[at + 1] # "handshake" /\ Plan[at + 1] # "connect" /\ Plan[at + 1] \in Steps
    BY <1>1, <1>2, <1>3, PlanPositions DEF Positions
  <1> QED
    BY <1>1, <1>2, <1>3, <1>4, <1>5, TaskAssumptions

\* access() acts on the context only in ways the context allows.
ContextStep == Program \/ SocketEvent \/ ServerAnswers \/ UNCHANGED vars

LEMMA StepsOfContext ==
    ASSUME Accessing, [AccessNext]_allVars
    PROVE  ContextStep
  <1>1. ASSUME NEW c \in Calls, NEW how \in {"none", "explicit", "implicit"}, Begin(c, how)
        PROVE  ContextStep
    <2>1. <<c, "connect">> \in Tasks
      BY TaskAssumptions DEF Steps
    <2> QED
      BY <1>1, <2>1 DEF Begin, ContextStep, Program
  <1>2. CASE Proceed
    <2>1. CASE Plan[at + 1] = "handshake"
      BY <1>2, <2>1 DEF Proceed, ContextStep
    <2>2. CASE Plan[at + 1] # "handshake"
      <3>1. PICK t, h : /\ t = <<call, Plan[at + 1]>> /\ h = HandlerOf(Plan[at + 1])
                        /\ Launch(t, h) \/ LaunchOnClosed(t, h) \/ LaunchInvalid(t, h)
        BY <1>2, <2>2 DEF Proceed
      <3>2. t \in Tasks
        BY <1>2, <2>2, <3>1, ProceedFacts
      <3>3. h \in {"request", "ignoring", "login"}
        BY <3>1 DEF HandlerOf
      <3> QED
        BY <3>1, <3>2, <3>3 DEF ContextStep, Program
    <2> QED
      BY <2>1, <2>2
  <1>3. CASE HandshakeSucceeds
    BY <1>3 DEF HandshakeSucceeds, ContextStep, Program
  <1>4. ASSUME NEW c \in Calls, HandshakeFails(c)
        PROVE  ContextStep
    BY <1>4 DEF HandshakeFails, ContextStep
  <1>5. CASE Fail \/ Finish
    BY <1>5 DEF Fail, Finish, ContextStep
  <1>6. CASE ContextEvent
    BY <1>6 DEF ContextEvent, ContextStep, Program, SocketEvent
  <1>7. CASE UNCHANGED allVars
    BY <1>7 DEF allVars, ContextStep
  <1> QED
    BY <1>1, <1>2, <1>3, <1>4, <1>5, <1>6, <1>7 DEF AccessNext

LEMMA ContextStaysSafe ==
    ASSUME Accessing, [AccessNext]_allVars
    PROVE  Safe' /\ [Next]_vars
  <1>1. [Next]_vars
    BY StepsOfContext DEF ContextStep, Next, Server
  <1> QED
    BY <1>1, NextSafe DEF Accessing

\* The parts of the invariant that name the plan, without the context's.
Progress ==
    /\ ConnectsByConnect /\ TaskIsStep /\ BeforeTLS
    /\ StepsDone /\ Finished /\ GreetingIsForConnect /\ InStepWithReplies

AccessVarsOK ==
    /\ call \in Calls \cup {None}
    /\ outcome \in [Calls -> {"unused", "pending", "resolved", "rejected"}]
    /\ secure \in {"none", "explicit", "implicit"}
    /\ at \in 1 .. Len(Plan)
    /\ hasTLS \in BOOLEAN /\ mlsd \in BOOLEAN

LEMMA BeginKeeps ==
    ASSUME Accessing, NEW c \in Calls, NEW how \in {"none", "explicit", "implicit"}, Begin(c, how)
    PROVE  Progress' /\ AccessVarsOK'
  <1> USE NoneAssumption
  <1> DEFINE t == <<c, "connect">>
  <1>1. t \in Tasks /\ t # None
    BY TaskAssumptions DEF Steps
  <1>2. PlanIs'
    BY PlanFacts, PTL
  <1>3. Plan'[1] = "connect" /\ 1 \in 1 .. Len(Plan')
    BY <1>2 DEF PlanIs, Listed, Opening
  <1>4. /\ call' = c /\ at' = 1 /\ secure' = how /\ hasTLS' = (how = "implicit") /\ mlsd' = mlsd
        /\ outcome' = [outcome EXCEPT ![c] = "pending"]
    BY DEF Begin
  <1>5. AccessVarsOK'
    BY <1>3, <1>4 DEF AccessVarsOK, Accessing, AccessTypeOK
  <1>6. outcome'[c] = "pending" /\ Step' = "connect" /\ at' - 1 = 0
    BY <1>3, <1>4 DEF Accessing, AccessTypeOK, Step
  <1>7. StepsDone' /\ Finished'
    BY <1>4, <1>6 DEF StepsDone, Finished
  <1>8. secure' # "none" /\ ~hasTLS' => secure' = "explicit" /\ at' <= 3
    <2>1. CASE how = "implicit"
      BY <1>4, <2>1, Zenon
    <2>2. CASE how # "implicit"
      <3>1. secure' \in {"none", "explicit"} /\ at' <= 3
        BY <1>4, <2>2
      <3> QED
        BY <3>1
    <2> QED
      BY <2>1, <2>2
  <1>9. CASE Connect(t)
    <2>1. /\ task' = t /\ owed' = <<[to |-> t, what |-> "greeting"]>>
          /\ wire' = <<>> /\ chunk' = <<>>
          /\ handler' = [handler EXCEPT ![t] = "connect"] /\ promise' = [promise EXCEPT ![t] = "pending"]
      BY <1>9 DEF Connect, Idle
    <2>2. /\ handler'[t] = "connect" /\ promise'[t] = "pending"
          /\ \A u \in Tasks \ {t} : handler'[u] = handler[u] /\ promise'[u] = promise[u]
      BY <1>1, <2>1 DEF Accessing, AccessTypeOK, TypeOK
    <2>3. ConnectsByConnect'
      BY <1>1, <2>2, TaskAssumptions DEF ConnectsByConnect, Accessing, Steps
    <2>4. TaskIsStep'
      BY <1>4, <1>6, <2>1, <2>2 DEF TaskIsStep
    <2>5. Len(owed') = 1 /\ owed'[1].to = t /\ t[2] = "connect"
      BY <2>1
    <2>6. BeforeTLS' /\ GreetingIsForConnect'
      <3>1. \A i \in 1 .. Len(owed') : owed'[i].to[2] = "connect"
        BY <2>5
      <3> QED
        BY <1>8, <3>1 DEF BeforeTLS, GreetingIsForConnect
    <2>7. OneReplyDue'
      BY <1>1, <2>1, <2>5 DEF OneReplyDue, DueTo
    <2> QED
      BY <1>5, <1>7, <2>3, <2>4, <2>6, <2>7 DEF Progress, InStepWithReplies
  <1>10. CASE ConnectDuringTask(t)
    <2>1. /\ task' = None /\ owed' = <<>> /\ closingError' = "collision"
          /\ handler' = [handler EXCEPT ![t] = "connect"]
          /\ promise' = SettleIn([promise EXCEPT ![t] = "rejected"], task, "rejected")
      BY <1>10 DEF ConnectDuringTask, _stopTrackingTask
    <2>2. /\ handler'[t] = "connect"
          /\ \A u \in Tasks \ {t} : /\ handler'[u] = handler[u]
                                    /\ promise'[u] # "unused" => promise[u] # "unused"
      BY <1>1, <2>1 DEF Accessing, AccessTypeOK, TypeOK, SettleIn
    <2>3. ConnectsByConnect'
      BY <1>1, <2>2, TaskAssumptions DEF ConnectsByConnect, Accessing, Steps
    <2>4. closingError' # None
      BY <2>1 DEF Reasons
    <2>5. TaskIsStep' /\ GreetingIsForConnect' /\ InStepWithReplies'
      BY <2>1, <2>4 DEF TaskIsStep, GreetingIsForConnect, InStepWithReplies
    <2>6. BeforeTLS'
      <3>1. \A i \in 1 .. Len(owed') : FALSE
        BY <2>1
      <3> QED
        BY <1>8, <3>1 DEF BeforeTLS
    <2> QED
      BY <1>5, <1>7, <2>3, <2>5, <2>6 DEF Progress
  <1> QED
    BY <1>9, <1>10 DEF Begin

LEMMA ResolvedStays ==
    ASSUME Accessing, [Next]_vars
    PROVE  \A t \in Tasks : promise[t] = "resolved" => promise'[t] = "resolved"
  <1> SUFFICES ASSUME Next, NEW t \in Tasks, promise[t] = "resolved"
               PROVE  promise'[t] = "resolved"
    BY DEF vars
  <1>t. TypeOK
    BY DEF Accessing, AccessTypeOK
  <1> QED
    BY <1>t DEF Next, Program, SocketEvent, Server, _passToHandler, closeWithError, SettleIn,
             Connect, ConnectDuringTask,
             Launch, Track, LaunchInvalid, LaunchOnClosed, LaunchDuringTask,
             UserClose, Upgrade, AttachData, ReceivePiece, ReceiveTooMuch,
             ReceiveChunk, PassToNobody, PassAndSettle, PassAndSendPassword,
             ControlLost, ControlTimeout, DataError, ServerAnswers,
             ServerAnnouncesShutdown, TypeOK

\* Between two steps nothing is due from the server.
LEMMA NothingIsDue ==
    ASSUME Accessing, Running, task = None, closingError = None,
           promise[<<call, "connect">>] # "rejected"
    PROVE  owed = <<>> /\ wire = <<>> /\ chunk = <<>>
  <1>1. call \in Calls /\ <<call, "connect">> # None
    BY TaskAssumptions, NoneAssumption DEF Running, Accessing, AccessTypeOK, Steps
  <1> QED
    BY <1>1 DEF Accessing, InStepWithReplies, OneReplyDue

LEMMA LaunchKeeps ==
    ASSUME Accessing, Proceed, Plan[at + 1] # "handshake"
    PROVE  Progress'
  <1> USE NoneAssumption
  <1>1. PICK t, h : /\ t = <<call, Plan[at + 1]>>
                    /\ Launch(t, h) \/ LaunchOnClosed(t, h) \/ LaunchInvalid(t, h)
    BY DEF Proceed
  <1>2. t \in Tasks /\ Plan[at + 1] # "connect" /\ call' = call /\ outcome' = outcome
    BY <1>1, ProceedFacts DEF Proceed
  <1>3. Running /\ call \in Calls /\ task = None
    BY ReadyFacts DEF Proceed
  <1>4. TypeOK
    BY DEF Accessing, AccessTypeOK
  <1>5. /\ promise'[t] \in {"pending", "rejected"}
        /\ \A u \in Tasks \ {t} : handler'[u] = handler[u] /\ promise'[u] = promise[u]
    BY <1>1, <1>2, <1>4 DEF Launch, LaunchOnClosed, LaunchInvalid, Track, TypeOK
  <1>6. task' \in {None, t}
    BY <1>1 DEF Launch, LaunchOnClosed, LaunchInvalid, Track, _stopTrackingTask
  <1>7. Step' = Plan[at + 1]
    BY ProceedFacts DEF Step
  <1>8. \A c \in Calls : <<c, "connect">> \in Tasks \ {t}
    BY <1>1, <1>2, TaskAssumptions DEF Steps
  <1>9. ConnectsByConnect'
    BY <1>5, <1>8 DEF ConnectsByConnect, Accessing
  <1>10. TaskIsStep'
    BY <1>1, <1>2, <1>3, <1>5, <1>6, <1>7 DEF TaskIsStep
  <1>11. StepsDone'
    <2>1. [Next]_vars
      BY ContextStaysSafe DEF AccessNext
    <2>2. SUFFICES ASSUME NEW i \in 1 .. at' - 1, Plan'[i] \in Steps
                   PROVE  promise'[<<call, Plan'[i]>>] = "resolved"
      BY <1>2 DEF StepsDone
    <2>3. i \in 1 .. at /\ Plan'[i] = Plan[i]
      BY ProceedFacts
    <2>4. promise[<<call, Plan[i]>>] = "resolved"
      <3>1. CASE i = at
        BY <2>2, <2>3, <3>1, ReadyFacts DEF Proceed
      <3>2. CASE i # at
        <4>1. i \in 1 .. at - 1 /\ Plan[i] \in Steps
          BY <2>2, <2>3, <3>2, ProceedFacts
        <4> QED
          BY <1>3, <4>1 DEF Accessing, StepsDone, Running
      <3> QED
        BY <3>1, <3>2
    <2>5. <<call, Plan[i]>> \in Tasks
      BY <1>3, <2>2, <2>3, TaskAssumptions
    <2> QED
      BY <2>1, <2>3, <2>4, <2>5, ResolvedStays
  <1>12. Finished'
    BY <1>2, <1>3 DEF Finished, Running
  <1>13. PICK e : e = [to |-> t, what |-> "command"]
    OBVIOUS
  <1>14. owed' \in {owed, Append(owed, e)} /\ (ctl # "open" => owed' = owed)
    BY <1>1, <1>13 DEF Launch, LaunchOnClosed, LaunchInvalid, Send
  <1>15. \A i \in 1 .. Len(owed') : (i \in 1 .. Len(owed) /\ owed'[i] = owed[i]) \/ owed'[i] = e
    BY <1>4, <1>14 DEF TypeOK
  <1>16. GreetingIsForConnect'
    BY <1>13, <1>15 DEF GreetingIsForConnect, Accessing
  <1>17. BeforeTLS'
    <2> SUFFICES ASSUME secure # "none", ~hasTLS
                 PROVE  /\ secure = "explicit" /\ at' <= 3
                        /\ \A i \in 1 .. Len(owed') : owed'[i].to[2] \in {"connect", "auth"}
      BY DEF BeforeTLS, Proceed
    <2>1. /\ secure = "explicit" /\ at <= 3
          /\ \A i \in 1 .. Len(owed) : owed[i].to[2] \in {"connect", "auth"}
      BY DEF Accessing, BeforeTLS
    <2>2. at = 1
      <3>1. at # 3 /\ at \in Nat /\ at >= 1 /\ at + 1 \in 1 .. Len(Plan)
        BY <2>1, ReadyFacts, ProceedFacts DEF Proceed
      <3>2. at # 2
        BY <2>1, <3>1, PlanPositions
      <3> QED
        BY <2>1, <3>1, <3>2
    <2>3. Plan[at + 1] = "auth"
      BY <2>1, <2>2, ProceedFacts, PlanPositions
    <2>4. e.to[2] = "auth"
      BY <1>1, <1>13, <2>3
    <2>5. at' <= 3
      BY <2>2, ProceedFacts
    <2> QED
      BY <1>15, <2>1, <2>4, <2>5
  <1>18. InStepWithReplies'
    <2> SUFFICES ASSUME closingError' = None, promise'[<<call, "connect">>] # "rejected"
                 PROVE  OneReplyDue'
      BY <1>2 DEF InStepWithReplies
    <2>1. closingError = None /\ wire' = wire /\ chunk' = chunk /\ ~LaunchOnClosed(t, h)
      BY <1>1 DEF Launch, LaunchOnClosed, LaunchInvalid
    <2>2. owed = <<>> /\ wire = <<>> /\ chunk = <<>>
      BY <1>3, <1>5, <1>8, <2>1, NothingIsDue
    <2>3. task' = t
      BY <1>1, <2>1 DEF Launch, LaunchInvalid, Track
    <2>4. owed' = <<>> \/ DueTo(t, owed')
      <3>1. Append(<<>>, e) = <<e>>
        OBVIOUS
      <3> QED
        BY <1>13, <1>14, <2>2, <3>1 DEF DueTo
    <2> QED
      BY <1>2, <2>1, <2>2, <2>3, <2>4 DEF OneReplyDue, DueTo
  <1> QED
    BY <1>9, <1>10, <1>11, <1>12, <1>16, <1>17, <1>18 DEF Progress

LEMMA ProceedKeeps ==
    ASSUME Accessing, Proceed
    PROVE  Progress' /\ AccessVarsOK'
  <1>1. AccessVarsOK'
    <2>1. /\ call' = call /\ outcome' = outcome /\ secure' = secure /\ hasTLS' = hasTLS
          /\ mlsd' \in BOOLEAN
      <3>1. mlsd \in BOOLEAN
        BY DEF Accessing, AccessTypeOK
      <3> QED
        BY <3>1 DEF Proceed
    <2>2. at' \in 1 .. Len(Plan')
      BY ProceedFacts
    <2> QED
      BY <2>1, <2>2 DEF AccessVarsOK, Accessing, AccessTypeOK
  <1>2. CASE Plan[at + 1] # "handshake"
    BY <1>1, <1>2, LaunchKeeps
  <1>3. CASE Plan[at + 1] = "handshake"
    <2>1. /\ UNCHANGED vars /\ call' = call /\ outcome' = outcome
          /\ secure' = secure /\ hasTLS' = hasTLS
      BY <1>3 DEF Proceed
    <2>2. Running /\ call \in Calls /\ task = None
      BY ReadyFacts DEF Proceed
    <2>3. secure = "explicit" /\ at = 2 /\ at' = 3
      BY <1>3, ProceedFacts
    <2>4. ConnectsByConnect' /\ TaskIsStep' /\ GreetingIsForConnect'
      BY <2>1, <2>2 DEF vars, Accessing, ConnectsByConnect, TaskIsStep, GreetingIsForConnect
    <2>5. BeforeTLS'
      BY <2>1, <2>3 DEF vars, Accessing, BeforeTLS
    <2>6. StepsDone'
      <3> SUFFICES ASSUME NEW i \in 1 .. at' - 1, Plan'[i] \in Steps
                   PROVE  promise[<<call, Plan'[i]>>] = "resolved"
        BY <2>1 DEF StepsDone, vars
      <3>1. i \in 1 .. at /\ Plan'[i] = Plan[i]
        BY ProceedFacts
      <3>2. CASE i = at
        BY <3>1, <3>2, ReadyFacts DEF Proceed
      <3>3. CASE i # at
        <4>1. i \in 1 .. at - 1 /\ Plan[i] \in Steps
          BY <3>1, <3>3, ProceedFacts
        <4> QED
          BY <2>2, <3>1, <4>1 DEF Accessing, StepsDone, Running
      <3> QED
        BY <3>2, <3>3
    <2>7. Finished'
      BY <2>1, <2>2 DEF Finished, Running
    <2>8. InStepWithReplies'
      <3> SUFFICES ASSUME closingError = None, promise[<<call, "connect">>] # "rejected"
                   PROVE  OneReplyDue'
        BY <2>1 DEF InStepWithReplies, vars
      <3>1. owed = <<>> /\ wire = <<>> /\ chunk = <<>>
        BY <2>2, NothingIsDue
      <3> QED
        BY <2>1, <3>1 DEF OneReplyDue, vars
    <2> QED
      BY <1>1, <2>4, <2>5, <2>6, <2>7, <2>8 DEF Progress
  <1> QED
    BY <1>2, <1>3

LEMMA HandshakeKeeps ==
    ASSUME Accessing, HandshakeSucceeds
    PROVE  Progress' /\ AccessVarsOK'
  <1>1. /\ Running /\ Step = "handshake" /\ at' = at + 1 /\ hasTLS' = TRUE
        /\ call' = call /\ outcome' = outcome /\ secure' = secure /\ mlsd' = mlsd
    BY DEF HandshakeSucceeds, InHandshake
  <1>2. /\ call \in Calls /\ at \in 1 .. Len(Plan)
    BY <1>1 DEF Accessing, AccessTypeOK, Running
  <1>3. secure = "explicit" /\ at = 3 /\ at' = 4 /\ Opening = 4
    BY <1>1, <1>2, PlanPositions DEF Step, Opening
  <1>4. \A i \in 1 .. 4 : Plan'[i] = Plan[i]
    BY <1>1, <1>3, PlanIsStable
  <1>5. 4 \in 1 .. Len(Plan')
    <2>1. PlanIs'
      BY PlanFacts, PTL
    <2>2. Opening' = 4
      BY <1>1, <1>3 DEF Opening
    <2> QED
      BY <2>1, <2>2 DEF PlanIs, Listed
  <1>6. AccessVarsOK'
    BY <1>1, <1>3, <1>5 DEF AccessVarsOK, Accessing, AccessTypeOK
  <1>7. UNCHANGED <<task, handler, promise, chunk, wire, owed>> /\ task = None /\ ctl = "open"
    BY DEF HandshakeSucceeds, Upgrade
  <1>8. ConnectsByConnect' /\ TaskIsStep' /\ GreetingIsForConnect' /\ BeforeTLS'
    BY <1>1, <1>7 DEF Accessing, ConnectsByConnect, TaskIsStep, GreetingIsForConnect, BeforeTLS
  <1>9. StepsDone'
    <2> SUFFICES ASSUME NEW i \in 1 .. at' - 1, Plan'[i] \in Steps
                 PROVE  promise[<<call, Plan'[i]>>] = "resolved"
      BY <1>1, <1>7 DEF StepsDone
    <2>1. i \in 1 .. 3 /\ Plan'[i] = Plan[i]
      BY <1>3, <1>4
    <2>2. i # 3
      BY <1>1, <1>3, <2>1 DEF Step, Steps
    <2> QED
      BY <1>1, <1>3, <2>1, <2>2 DEF Accessing, StepsDone, Running
  <1>10. Finished'
    BY <1>1 DEF Finished, Running
  <1>11. InStepWithReplies'
    <2> SUFFICES ASSUME promise[<<call, "connect">>] # "rejected"
                 PROVE  OneReplyDue'
      BY <1>1, <1>7 DEF InStepWithReplies
    <2>1. closingError = None
      BY <1>7 DEF Accessing, Safe, ClosedIsDead
    <2>2. owed = <<>> /\ wire = <<>> /\ chunk = <<>>
      BY <1>1, <1>7, <2>1, NothingIsDue
    <2> QED
      BY <1>7, <2>2 DEF OneReplyDue
  <1> QED
    BY <1>6, <1>8, <1>9, <1>10, <1>11 DEF Progress

\* Fail, Finish, the rejection of a handshake, and stuttering.
LEMMA SettlingKeeps ==
    ASSUME Accessing, Fail \/ Finish \/ (\E c \in Calls : HandshakeFails(c)) \/ UNCHANGED allVars
    PROVE  Progress' /\ AccessVarsOK'
  <1>1. UNCHANGED <<vars, call, secure, at, hasTLS, mlsd>>
    BY DEF Fail, Finish, HandshakeFails, allVars, accessVars
  <1>2. PICK c, how : /\ how \in {"resolved", "rejected"}
                      /\ outcome' = [outcome EXCEPT ![c] = how] \/ outcome' = outcome
    BY DEF Fail, Finish, HandshakeFails, allVars, accessVars
  <1>3. outcome \in [Calls -> {"unused", "pending", "resolved", "rejected"}]
    BY DEF Accessing, AccessTypeOK
  <1>4. Plan' = Plan /\ Step' = Step
    BY <1>1 DEF Plan, Step
  <1>5. AccessVarsOK'
    BY <1>1, <1>2, <1>3, <1>4 DEF AccessVarsOK, Accessing, AccessTypeOK
  <1>6. \/ call \in Calls => outcome'[call] \in {outcome[call], "rejected"}
        \/ /\ Ready /\ at = Len(Plan) /\ call \in Calls
           /\ outcome[call] = "pending" /\ outcome'[call] = "resolved"
    <2>1. CASE UNCHANGED allVars
      BY <2>1 DEF allVars, accessVars
    <2>2. CASE Fail
      BY <1>3, <2>2 DEF Fail
    <2>3. ASSUME NEW d \in Calls, HandshakeFails(d)
          PROVE  call \in Calls => outcome'[call] \in {outcome[call], "rejected"}
      BY <1>3, <2>3 DEF HandshakeFails
    <2>4. CASE Finish
      BY <1>3, <2>4, ReadyFacts DEF Finish, Running
    <2> QED
      BY <2>1, <2>2, <2>3, <2>4
  <1>7. ConnectsByConnect' /\ TaskIsStep' /\ GreetingIsForConnect' /\ BeforeTLS'
    BY <1>1, <1>4
       DEF Accessing, vars, ConnectsByConnect, TaskIsStep, GreetingIsForConnect, BeforeTLS
  <1>8. StepsDone'
    <2> SUFFICES ASSUME call # None, outcome'[call] \in {"pending", "resolved"},
                        NEW i \in 1 .. at - 1, Plan[i] \in Steps
                 PROVE  promise[<<call, Plan[i]>>] = "resolved"
      BY <1>1, <1>4 DEF StepsDone, vars
    <2>1. call \in Calls /\ outcome[call] \in {"pending", "resolved"}
      BY <1>6 DEF Accessing, AccessTypeOK
    <2> QED
      BY <2>1 DEF Accessing, StepsDone
  <1>9. Finished'
    <2> SUFFICES ASSUME call # None, outcome'[call] = "resolved"
                 PROVE  at = Len(Plan) /\ promise[<<call, Step>>] = "resolved"
      BY <1>1, <1>4 DEF Finished, vars
    <2>1. call \in Calls
      BY DEF Accessing, AccessTypeOK
    <2>2. CASE outcome[call] = "resolved"
      BY <2>1, <2>2 DEF Accessing, Finished
    <2>3. CASE Ready /\ at = Len(Plan)
      <3>1. Plan[at] \in Steps
        BY <2>3, PlanPositions
      <3> QED
        BY <2>3, <3>1, ReadyFacts DEF Step
    <2> QED
      BY <1>6, <2>1, <2>2, <2>3
  <1>10. InStepWithReplies'
    <2> SUFFICES ASSUME Running', closingError = None, promise[<<call, "connect">>] # "rejected"
                 PROVE  (\/ OneReplyDue
                         \/ task = <<call, "connect">> /\ promise[task] = "pending" /\ First120)'
      BY <1>1 DEF InStepWithReplies, vars
    <2>1. Running
      BY <1>1, <1>6 DEF Running, Accessing, AccessTypeOK
    <2>2. \/ OneReplyDue
          \/ task = <<call, "connect">> /\ promise[task] = "pending" /\ First120
      BY <2>1 DEF Accessing, InStepWithReplies
    <2> QED
      BY <1>1, <2>2 DEF OneReplyDue, DueTo, First120, vars
  <1> QED
    BY <1>5, <1>7, <1>8, <1>9, <1>10 DEF Progress

\* A reply of the server leaves it owing another one only after a 120.
LEMMA AnswerInStep ==
    ASSUME Accessing, ServerAnswers, owed' # Tail(owed), OneReplyDue
    PROVE  task # None /\ task[2] = "connect" /\ First120'
  <1>t. owed \in Seq(Debt) /\ owed # <<>>
    BY DEF Accessing, AccessTypeOK, TypeOK, ServerAnswers
  <1>1. task # None /\ DueTo(task, owed) /\ wire = <<>> /\ chunk = <<>>
    BY <1>t DEF OneReplyDue
  <1>2. Head(owed).to = task /\ Head(owed) = owed[1] /\ 1 \in 1 .. Len(owed)
    BY <1>t, <1>1, OneElement DEF DueTo
  <1>3. PICK code \in Answers(Head(owed).what) :
           /\ wire' = Append(wire, [to |-> Head(owed).to, code |-> code])
           /\ code = 120 /\ chunk' = chunk
    BY DEF ServerAnswers
  <1>4. Head(owed).what = "greeting"
    BY <1>3 DEF Answers
  <1>5. task[2] = "connect"
    BY <1>2, <1>4 DEF Accessing, GreetingIsForConnect
  <1>6. PICK e : e = [to |-> Head(owed).to, code |-> 120]
    OBVIOUS
  <1>7. wire' = <<e>>
    <2>1. Append(<<>>, e) = <<e>>
      OBVIOUS
    <2> QED
      BY <1>1, <1>3, <1>6, <2>1
  <1>8. wire' # <<>> /\ Head(wire').code = 120
    BY <1>6, <1>7
  <1> QED
    BY <1>1, <1>3, <1>5, <1>8 DEF First120

\* The greeting 120 stays the next reply until connect() is rejected on it.
LEMMA EventWith120 ==
    ASSUME Accessing, ContextEvent, Running, closingError = None, closingError' = None,
           task = <<call, "connect">>, promise[task] = "pending", First120,
           promise'[task] # "rejected"
    PROVE  task' = task /\ promise'[task] = "pending" /\ First120'
  <1> USE NoneAssumption
  <1>t. TypeOK
    BY DEF Accessing, AccessTypeOK
  <1>0. task \in Tasks /\ task # None /\ handler[task] = "connect"
    <2>1. call \in Calls
      BY DEF Running, Accessing, AccessTypeOK
    <2>2. task \in Tasks
      BY <2>1, TaskAssumptions DEF Steps
    <2> QED
      BY <2>1, <2>2 DEF Accessing, ConnectsByConnect
  <1>1. ASSUME NEW reason \in Reasons, closeWithError(reason, promise)
        PROVE  FALSE
    BY <1>1, CloseCloses
  <1>2. CASE UserClose \/ ReceiveTooMuch \/ ControlLost \/ ControlTimeout
    BY <1>1, <1>2 DEF UserClose, ReceiveTooMuch, ControlLost, ControlTimeout, Reasons
  <1>3. CASE ReceivePiece
    BY <1>3 DEF ReceivePiece, First120
  <1>4. CASE ReceiveChunk
    <2>1. PICK n \in 1 .. Len(wire) : chunk' = SubSeq(wire, 1, n)
      BY <1>4 DEF ReceiveChunk
    <2>2. chunk = <<>> /\ Head(wire).code = 120 /\ task' = task /\ promise' = promise
      BY <1>4 DEF ReceiveChunk, Idle, First120
    <2>3. wire \in Seq(Reply) /\ wire # <<>> /\ Len(wire) \in Nat
      BY <1>4, <1>t DEF ReceiveChunk, TypeOK, Idle, First120
    <2>4. /\ chunk' \in Seq(Reply) /\ Len(chunk') = n /\ chunk'[1] = wire[1] /\ n >= 1
      BY <2>1, <2>3, SubSeqProperties
    <2>5. chunk' # <<>> /\ Head(chunk') = Head(wire)
      BY <2>3, <2>4
    <2> QED
      BY <2>2, <2>5 DEF First120
  <1>5. CASE PassToNobody
    BY <1>0, <1>5 DEF PassToNobody
  <1>6. ASSUME chunk # <<>>
        PROVE  Verdict(handler[task], Head(chunk).code) = "rejected"
    BY <1>0, <1>6 DEF First120, Verdict, positiveCompletion
  <1>7. CASE PassAndSettle
    <2>1. promise' = SettleIn(promise, task, "rejected")
      BY <1>6, <1>7 DEF PassAndSettle
    <2> QED
      BY <1>0, <1>t, <2>1 DEF SettleIn, TypeOK
  <1>8. CASE PassAndSendPassword
    BY <1>6, <1>8 DEF PassAndSendPassword
  <1>9. CASE ServerAnswers
    <2>1. PICK e \in Reply : wire' = Append(wire, e)
      <3>1. PICK code \in Answers(Head(owed).what) :
               wire' = Append(wire, [to |-> Head(owed).to, code |-> code])
        BY <1>9 DEF ServerAnswers
      <3>2. [to |-> Head(owed).to, code |-> code] \in Reply
        <4>1. Head(owed).to \in Tasks /\ code \in Codes
          BY <1>9, <1>t, OwedHead, AnswersType DEF ServerAnswers
        <4> QED
          BY <4>1 DEF Reply
      <3> QED
        BY <3>1, <3>2
    <2>2. wire' # <<>> /\ (wire # <<>> => Head(wire') = Head(wire))
      BY <1>t, <2>1, SeqFacts DEF TypeOK
    <2> QED
      BY <1>9, <2>2 DEF ServerAnswers, First120
  <1> QED
    BY <1>2, <1>3, <1>4, <1>5, <1>7, <1>8, <1>9 DEF ContextEvent, _passToHandler

LEMMA EventKeeps ==
    ASSUME Accessing, ContextEvent
    PROVE  Progress' /\ AccessVarsOK'
  <1> USE NoneAssumption
  <1>1. UNCHANGED <<call, outcome, secure, at, hasTLS, mlsd>>
    BY DEF ContextEvent, accessVars
  <1>2. Plan' = Plan /\ Step' = Step /\ (Running' <=> Running)
    BY <1>1 DEF Plan, Step, Running
  <1>3. OnlySettles /\ DueFrom(owed, owed')
    BY EventEffects DEF Accessing
  <1>4. AccessVarsOK'
    BY <1>1, <1>2 DEF AccessVarsOK, Accessing, AccessTypeOK
  <1>t. TypeOK /\ call \in Calls \cup {None} /\ at \in 1 .. Len(Plan) /\ at \in Nat
    BY PlanPositions DEF Accessing, AccessTypeOK
  <1>5. ConnectsByConnect'
    <2>1. \A c \in Calls : <<c, "connect">> \in Tasks
      BY TaskAssumptions DEF Steps
    <2>2. \A c \in Calls : promise'[<<c, "connect">>] # "unused" => promise[<<c, "connect">>] # "unused"
      <3> SUFFICES ASSUME NEW c \in Calls, NEW t \in Tasks, t = <<c, "connect">>
                   PROVE  promise'[t] # "unused" => promise[t] # "unused"
        BY <2>1
      <3> QED
        BY <1>3 DEF OnlySettles
    <2> QED
      BY <1>3, <2>2 DEF ConnectsByConnect, OnlySettles, Accessing
  <1>6. TaskIsStep'
    BY <1>1, <1>2, <1>3 DEF TaskIsStep, OnlySettles, Accessing
  <1>7. \A p \in Steps : call # None /\ promise[<<call, p>>] = "resolved" =>
                            promise'[<<call, p>>] = "resolved"
    <2> SUFFICES ASSUME NEW p \in Steps, NEW t, t = <<call, p>>, call # None,
                        promise[t] = "resolved"
                 PROVE  promise'[t] = "resolved"
      OBVIOUS
    <2>1. t \in Tasks
      BY <1>t, TaskAssumptions
    <2> QED
      BY <1>3, <2>1 DEF OnlySettles
  <1>8. StepsDone'
    <2> SUFFICES ASSUME call # None, outcome[call] \in {"pending", "resolved"},
                        NEW i \in 1 .. at - 1, Plan[i] \in Steps
                 PROVE  promise'[<<call, Plan[i]>>] = "resolved"
      BY <1>1, <1>2 DEF StepsDone
    <2>1. promise[<<call, Plan[i]>>] = "resolved"
      BY DEF Accessing, StepsDone
    <2> QED
      BY <1>7, <2>1
  <1>9. Finished'
    <2> SUFFICES ASSUME call # None, outcome[call] = "resolved"
                 PROVE  at = Len(Plan) /\ promise'[<<call, Step>>] = "resolved"
      BY <1>1, <1>2 DEF Finished
    <2>1. at = Len(Plan) /\ promise[<<call, Step>>] = "resolved"
      BY DEF Accessing, Finished
    <2>2. Step \in Steps
      BY <2>1, PlanPositions DEF Step
    <2> QED
      BY <1>7, <2>1, <2>2
  <1>10. GreetingIsForConnect'
    BY <1>3 DEF GreetingIsForConnect, DueFrom, Accessing
  <1>11. BeforeTLS'
    <2> SUFFICES ASSUME secure # "none", ~hasTLS, NEW i \in 1 .. Len(owed')
                 PROVE  owed'[i].to[2] \in {"connect", "auth"}
      BY <1>1 DEF BeforeTLS, Accessing
    <2>1. /\ secure = "explicit" /\ at <= 3
          /\ \A j \in 1 .. Len(owed) : owed[j].to[2] \in {"connect", "auth"}
      BY DEF Accessing, BeforeTLS
    <2>2. task # None => task[2] \in {"connect", "auth"}
      <3>1. SUFFICES ASSUME task # None PROVE task[2] \in {"connect", "auth"}
        OBVIOUS
      <3>2. task = <<call, Plan[at]>> /\ task \in Tasks
        BY <1>t, <3>1 DEF Accessing, TaskIsStep, Step, TypeOK
      <3>3. Plan[at] \in Steps
        BY <3>2, TaskAssumptions
      <3>4. at # 3
        BY <1>t, <2>1, <3>3, PlanPositions DEF Steps
      <3>5. at \in {1, 2}
        BY <1>t, <2>1, <3>4
      <3>6. Plan[at] \in {"connect", "auth"}
        BY <1>t, <2>1, <3>5, PlanPositions
      <3> QED
        BY <3>2, <3>6
    <2> QED
      BY <1>3, <2>1, <2>2 DEF DueFrom
  <1>12. InStepWithReplies'
    <2> SUFFICES ASSUME Running, closingError' = None, promise'[<<call, "connect">>] # "rejected"
                 PROVE  (\/ OneReplyDue
                         \/ task = <<call, "connect">> /\ promise[task] = "pending" /\ First120)'
      BY <1>1, <1>2 DEF InStepWithReplies
    <2>1. call \in Calls /\ <<call, "connect">> \in Tasks /\ closingError = None
      BY <1>t, <1>3, TaskAssumptions DEF Running, Steps, OnlySettles
    <2>2. promise[<<call, "connect">>] # "rejected"
      <3>1. PICK t \in Tasks : t = <<call, "connect">>
        BY <2>1
      <3>2. promise'[t] # "rejected" => promise[t] # "rejected"
        BY <1>3 DEF OnlySettles
      <3> QED
        BY <3>1, <3>2
    <2>3. CASE task = <<call, "connect">> /\ promise[task] = "pending" /\ First120
      BY <1>1, <2>1, <2>3, EventWith120
    <2>4. CASE OneReplyDue
      <3>1. ContextStep
        BY StepsOfContext DEF AccessNext
      <3>2. CASE ServerAnswers => owed' = Tail(owed)
        BY <2>4, <3>1, <3>2, StepOrderly DEF ContextStep, Orderly, Accessing
      <3>3. CASE ServerAnswers /\ owed' # Tail(owed)
        <4>1. task # None /\ task[2] = "connect" /\ First120' /\ task' = task /\ promise' = promise
          BY <2>4, <3>3, AnswerInStep DEF ServerAnswers
        <4>2. task = <<call, Step>> /\ promise[task] \in {"pending", "rejected"}
          BY <4>1 DEF Accessing, TaskIsStep
        <4>3. task = <<call, "connect">>
          BY <4>1, <4>2
        <4> QED
          BY <1>1, <2>2, <4>1, <4>2, <4>3
      <3> QED
        BY <3>2, <3>3
    <2> QED
      BY <2>1, <2>2, <2>3, <2>4 DEF Accessing, InStepWithReplies
  <1> QED
    BY <1>4, <1>5, <1>6, <1>8, <1>9, <1>10, <1>11, <1>12 DEF Progress

-----------------------------------------------------------------------------
(* The theorems *)

LEMMA InitAccessing == AccessInit => Accessing
  <1> SUFFICES ASSUME AccessInit
               PROVE  Accessing
    OBVIOUS
  <1>1. Init
    BY DEF AccessInit
  <1>2. Safe /\ TypeOK
    BY <1>1, InitSafe DEF Safe
  <1>3. Len(Plan) \in Nat /\ Len(Plan) >= 1
    BY PlanPositions DEF Opening
  <1>4. AccessTypeOK
    <2>1. at \in 1 .. Len(Plan)
      BY <1>3 DEF AccessInit
    <2>2. /\ outcome \in [Calls -> {"unused", "pending", "resolved", "rejected"}]
          /\ secure \in {"none", "explicit", "implicit"} /\ call \in Calls \cup {None}
      BY DEF AccessInit
    <2>3. hasTLS \in BOOLEAN /\ mlsd \in BOOLEAN
      BY DEF AccessInit
    <2> QED
      BY <1>2, <2>1, <2>2, <2>3 DEF AccessTypeOK
  <1>5. task = None /\ owed = <<>> /\ \A t \in Tasks : promise[t] = "unused"
    BY <1>1 DEF Init
  <1>6. \A c \in Calls : <<c, "connect">> \in Tasks
    BY TaskAssumptions DEF Steps
  <1>7. ConnectsByConnect /\ TaskIsStep /\ BeforeTLS /\ GreetingIsForConnect
    BY <1>5, <1>6
       DEF AccessInit, ConnectsByConnect, TaskIsStep, BeforeTLS, GreetingIsForConnect
  <1>8. StepsDone /\ Finished /\ InStepWithReplies
    BY DEF AccessInit, StepsDone, Finished, InStepWithReplies, Running
  <1> QED
    BY <1>2, <1>4, <1>7, <1>8 DEF Accessing

LEMMA NextAccessing == Accessing /\ [AccessNext]_allVars => Accessing'
  <1> SUFFICES ASSUME Accessing, [AccessNext]_allVars
               PROVE  Accessing'
    OBVIOUS
  <1>1. Safe'
    BY ContextStaysSafe
  <1>2. Progress' /\ AccessVarsOK'
    <2>1. ASSUME NEW c \in Calls, NEW how \in {"none", "explicit", "implicit"}, Begin(c, how)
          PROVE  Progress' /\ AccessVarsOK'
      BY <2>1, BeginKeeps
    <2>2. CASE Proceed
      BY <2>2, ProceedKeeps
    <2>3. CASE HandshakeSucceeds
      BY <2>3, HandshakeKeeps
    <2>4. CASE Fail \/ Finish \/ (\E c \in Calls : HandshakeFails(c)) \/ UNCHANGED allVars
      BY <2>4, SettlingKeeps
    <2>5. CASE ContextEvent
      BY <2>5, EventKeeps
    <2> QED
      BY <2>1, <2>2, <2>3, <2>4, <2>5 DEF AccessNext
  <1> QED
    BY <1>1, <1>2 DEF Accessing, Progress, AccessVarsOK, AccessTypeOK, Safe

LEMMA AccessingAlways == AccessSpec => []Accessing
  BY InitAccessing, NextAccessing, PTL DEF AccessSpec

\* Every variable stays in its type; the position of a call stays within a
\* plan that grows and shrinks with the features of the server.
THEOREM AccessTypeCorrect == AccessSpec => []AccessTypeOK
  <1>1. Accessing => AccessTypeOK
    BY DEF Accessing
  <1> QED
    BY <1>1, AccessingAlways, PTL

\* access() does nothing to a context that FTPContext does not allow, so what
\* holds of every environment there holds here: no awaited promise is
\* forgotten, and a closed context keeps nothing.
THEOREM AccessKeepsContextSafe == AccessSpec => [](PendingIsTracked /\ ClosedIsDead)
  <1>1. Accessing => PendingIsTracked /\ ClosedIsDead
    BY DEF Accessing, Safe
  <1> QED
    BY <1>1, AccessingAlways, PTL

\* Once encryption was asked for, only AUTH is sent before the socket is
\* encrypted: whatever the server answers, however often it is lost, and also
\* when an earlier call was abandoned in its handshake (access, useTLS).
THEOREM SecretsStayEncrypted == AccessSpec => []SecretsAreEncrypted
  <1>1. Accessing => SecretsAreEncrypted
    <2> SUFFICES ASSUME Accessing, secure # "none", NEW i \in 1 .. Len(owed), ~hasTLS
                 PROVE  owed[i].to[2] \in {"connect", "auth"}
      BY DEF SecretsAreEncrypted
    <2> QED
      BY DEF Accessing, BeforeTLS
  <1> QED
    BY <1>1, AccessingAlways, PTL

\* A resolved access() has had every step of its plan answered, and with TLS
\* the protection of the data channel was the last (useDefaultSettings).
THEOREM AccessIsThorough == AccessSpec => []AccessIsComplete
  <1>1. Accessing => AccessIsComplete
    <2> SUFFICES ASSUME Accessing, call # None, outcome[call] = "resolved"
                 PROVE  /\ \A i \in 1 .. Len(Plan) :
                              Plan[i] \in Steps => promise[<<call, Plan[i]>>] = "resolved"
                        /\ secure # "none" => promise[<<call, "prot">>] = "resolved"
      BY DEF AccessIsComplete
    <2>1. /\ at = Len(Plan) /\ promise[<<call, Plan[at]>>] = "resolved"
          /\ \A i \in 1 .. at - 1 : Plan[i] \in Steps => promise[<<call, Plan[i]>>] = "resolved"
      BY DEF Accessing, Finished, StepsDone, Step
    <2>2. at \in Nat /\ at >= 7
      BY <2>1, PlanPositions DEF Opening
    <2>3. \A i \in 1 .. Len(Plan) : Plan[i] \in Steps => promise[<<call, Plan[i]>>] = "resolved"
      <3> SUFFICES ASSUME NEW i \in 1 .. Len(Plan), Plan[i] \in Steps
                   PROVE  promise[<<call, Plan[i]>>] = "resolved"
        OBVIOUS
      <3>1. i = at \/ i \in 1 .. at - 1
        BY <2>1, <2>2
      <3> QED
        BY <2>1, <3>1
    <2>4. secure # "none" => hasTLS
      BY <2>2 DEF Accessing, BeforeTLS
    <2>5. hasTLS => Plan[at] = "prot"
      BY <2>1, PlanPositions
    <2> QED
      BY <2>1, <2>3, <2>4, <2>5
  <1> QED
    BY <1>1, AccessingAlways, PTL

\* The handshake begins on a quiet line, even when the server's greetings
\* were delayed (useTLS awaits the answer to AUTH).
THEOREM HandshakeStartsQuietly == AccessSpec => HandshakeOnQuietLine
  <1> DEFINE Quiet == \A c \in Calls : ~InHandshake(c) /\ InHandshake(c)' =>
                  closingError # None \/ (owed = <<>> /\ wire = <<>> /\ chunk = <<>>)
  <1>1. Accessing /\ [AccessNext]_allVars => [Quiet]_allVars
    <2> SUFFICES ASSUME Accessing, AccessNext, NEW c \in Calls,
                        ~InHandshake(c), InHandshake(c)', closingError = None
                 PROVE  owed = <<>> /\ wire = <<>> /\ chunk = <<>>
      OBVIOUS
    <2>1. c = call' /\ Running' /\ Step' = "handshake"
      BY DEF InHandshake
    <2>2. CASE Proceed
      <3>1. Running /\ call \in Calls /\ task = None /\ call' = call
        BY <2>2, ReadyFacts DEF Proceed
      <3>2. Plan[at + 1] = "handshake"
        BY <2>1, <2>2, ProceedFacts DEF Step
      <3>3. secure = "explicit" /\ at = 2
        BY <2>2, <3>2, ProceedFacts
      <3>4. Plan[1] = "connect" /\ 1 \in 1 .. at - 1
        BY <3>3, PlanFacts DEF PlanIs
      <3>5. promise[<<call, "connect">>] = "resolved"
        BY <3>1, <3>4 DEF Accessing, StepsDone, Running, Steps
      <3> QED
        BY <3>1, <3>5, NothingIsDue
    <2>3. ASSUME NEW d \in Calls, NEW how \in {"none", "explicit", "implicit"}, Begin(d, how)
          PROVE  FALSE
      <3>1. PlanIs' /\ at' = 1
        BY <2>3, PlanFacts, PTL DEF Begin
      <3> QED
        BY <2>1, <3>1 DEF PlanIs, Step
    <2>4. CASE HandshakeSucceeds
      <3>1. /\ Running /\ Step = "handshake" /\ at' = at + 1 /\ secure' = secure
        BY <2>4 DEF HandshakeSucceeds, InHandshake
      <3>2. at \in 1 .. Len(Plan)
        BY DEF Accessing, AccessTypeOK
      <3>3. secure = "explicit" /\ at' = 4 /\ Opening = 4
        BY <3>1, <3>2, PlanPositions DEF Step, Opening
      <3>4. Plan'[4] = Plan[4] /\ Plan[4] = "secured"
        BY <3>1, <3>3, PlanIsStable, PlanFacts DEF PlanIs
      <3> QED
        BY <2>1, <3>3, <3>4 DEF Step
    <2>5. CASE ContextEvent \/ Fail \/ Finish \/ \E d \in Calls : HandshakeFails(d)
      <3>1. UNCHANGED <<call, secure, at, hasTLS, mlsd>>
        BY <2>5 DEF ContextEvent, Fail, Finish, HandshakeFails, accessVars
      <3>2. Step' = Step /\ call' = call
        BY <3>1 DEF Plan, Step
      <3>3. Running
        <4>1. outcome' = outcome \/ \E d, how : how # "pending" /\ outcome' = [outcome EXCEPT ![d] = how]
          BY <2>5 DEF ContextEvent, Fail, Finish, HandshakeFails, accessVars
        <4>2. call # None /\ outcome'[call] = "pending"
          BY <2>1, <3>2 DEF Running
        <4>3. /\ call \in Calls
              /\ outcome \in [Calls -> {"unused", "pending", "resolved", "rejected"}]
          BY <4>2 DEF Accessing, AccessTypeOK
        <4>4. outcome[call] = "pending"
          BY <4>1, <4>2, <4>3
        <4> QED
          BY <4>2, <4>4 DEF Running
      <3> QED
        BY <2>1, <3>2, <3>3 DEF InHandshake
    <2> QED
      BY <2>2, <2>3, <2>4, <2>5 DEF AccessNext
  <1> QED
    BY <1>1, AccessingAlways, PTL DEF AccessSpec, HandshakeOnQuietLine
=============================================================================
