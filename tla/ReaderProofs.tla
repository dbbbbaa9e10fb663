---------------------------- MODULE ReaderProofs ----------------------------
(***************************************************************************)
(* What holds of Reader for every set of connections and hashes, every     *)
(* combination of options, every bound, and whatever the loop does with a  *)
(* queue whose handler fails.                                              *)
(***************************************************************************)
EXTENDS Reader, SequenceTheorems, TLAPS

-----------------------------------------------------------------------------
(* Queues *)

\* A queue of one request is empty once that request is consumed.
LEMMA TailOfOne ==
  ASSUME NEW S, NEW s \in Seq(S), Len(s) = 1
  PROVE  Tail(s) = <<>> /\ Head(s) = s[1]
<1>1. s # <<>>
  BY EmptySeq
<1>2. Tail(s) \in Seq(S) /\ Len(Tail(s)) = 0
  BY <1>1, HeadTailProperties
<1>3. Tail(s) = <<>>
  BY <1>2, EmptySeq
<1>4. QED
  BY <1>1, <1>3

\* A handler consumes a request and pushes requests.
LEMMA ThenType ==
  ASSUME queue \in Seq(Requests), queue # <<>>, NEW r \in Seq(Requests), Then(r)
  PROVE  queue' \in Seq(Requests)
  BY DEF Then

\* The plain requests the handlers push.
LEMMA RqType ==
  /\ <<>> \in Seq(Requests)
  /\ \A a \in Actions : Rq(a) \in Requests /\ <<Rq(a)>> \in Seq(Requests)
  BY DEF Rq, Requests, MaybeHash

\* A push on the database queue, accepted or not.
LEMMA DbPushType ==
  ASSUME dbQueue \in Seq(DbRequests), dbServing \in BOOLEAN,
         NEW a \in DbActions, NEW h \in MaybeHash, NEW ok \in BOOLEAN, DbPush(a, h, ok)
  PROVE  dbQueue' \in Seq(DbRequests) /\ dbServing' \in BOOLEAN /\ dbTurn' \in BOOLEAN
<1> DEFINE r == [action |-> a, hash |-> h]
<1>1. r \in DbRequests
  BY DEF DbRequests
<1>2. Append(dbQueue, r) \in Seq(DbRequests)
  BY <1>1
<1>3. QED
  BY <1>2 DEF DbPush, DbAfter

LEMMA NoDbPushType ==
  ASSUME dbQueue \in Seq(DbRequests), dbServing \in BOOLEAN, NoDbPush
  PROVE  dbQueue' \in Seq(DbRequests) /\ dbServing' \in BOOLEAN /\ dbTurn' \in BOOLEAN
  BY DEF NoDbPush, DbAfter

LEMMA ReturnsType ==
  ASSUME NEW serving \in BOOLEAN, NEW result \in BOOLEAN
  PROVE  Returns(serving, result) \in BOOLEAN
  BY DEF Returns

-----------------------------------------------------------------------------
(* Type correctness *)

LEMMA InitType == Init => TypeOK
<1> SUFFICES ASSUME Init PROVE TypeOK
  OBVIOUS
<1>1. Rq("PrepareData") \in Requests
  BY RqType DEF Actions
<1>2. [action |-> "CheckDatabase", hash |-> NoHash] \in DbRequests
  BY DEF DbRequests, DbActions, MaybeHash
<1>3. queue \in Seq(Requests) /\ dbQueue \in Seq(DbRequests)
  BY <1>1, <1>2 DEF Init
<1>4. peer \in [Conn -> Peers]
  BY DEF Init, Peers, Idle, MaybeHash
<1>5. QED
  BY <1>3, <1>4, OptionAssumption DEF Init, TypeOK, MaybeHash

LEMMA DispatchType ==
  ASSUME TypeOK, Dispatch
  PROVE  TypeOK'
<1> USE DEF TypeOK
<1>1. CASE PrepareData
  <2>1. PICK ok \in BOOLEAN :
          /\ Then(<<Rq(IF ok THEN "Connect" ELSE "Quit")>>)
          /\ IF WithDatabase THEN DbPush("InitDatabase", session.hash, ok) ELSE NoDbPush
    BY <1>1, OptionAssumption DEF PrepareData
  <2>2. queue' \in Seq(Requests)
    BY <1>1, <2>1, ThenType, RqType DEF PrepareData, Turn, Actions
  <2>3. dbQueue' \in Seq(DbRequests) /\ dbServing' \in BOOLEAN /\ dbTurn' \in BOOLEAN
    BY <2>1, DbPushType, NoDbPushType DEF DbActions
  <2>4. QED
    BY <1>1, <2>2, <2>3 DEF PrepareData, link, timers, lane
<1>2. CASE Connect
  <2>1. PICK up \in BOOLEAN : TryConnect(up)
    BY <1>2 DEF Connect
  <2>2. queue' \in Seq(Requests)
    BY <1>2, <2>1, ThenType, RqType DEF Connect, TryConnect, Turn, Actions
  <2>3. dbQueue' \in Seq(DbRequests) /\ dbServing' \in BOOLEAN /\ dbTurn' \in BOOLEAN
    BY <1>2, NoDbPushType DEF Connect
  <2>4. QED
    BY <1>2, <2>1, <2>2, <2>3 DEF Connect, TryConnect, timers, lane
<1>3. ASSUME NEW up \in BOOLEAN, Reconnect(up) PROVE TypeOK'
  <2>1. queue' \in Seq(Requests)
    BY <1>3, ThenType, RqType DEF Reconnect, TryConnect, Turn, Actions
  <2>2. dbQueue' \in Seq(DbRequests) /\ dbServing' \in BOOLEAN /\ dbTurn' \in BOOLEAN
    BY <1>3, DbPushType, NoDbPushType, OptionAssumption DEF Reconnect, DbActions
  <2>3. conn' \in Conn /\ sources' \in SUBSET Conn /\ orphaned' \in BOOLEAN
    BY <1>3 DEF Reconnect, TryConnect, ResetConnection
  <2>4. lanes' \in MaybeHash /\ UNCHANGED <<strayLanes, session, sessionTimer, exited>>
    BY <1>3 DEF Reconnect, StopUpdateLanes, MaybeHash
  <2>5. inactivity' = "off" /\ UNCHANGED <<dispatching, peer>>
    BY <1>3 DEF Reconnect, TryConnect, ResetConnection
  <2>6. QED
    BY <2>1, <2>2, <2>3, <2>4, <2>5
<1>4. CASE Throw
  BY <1>4 DEF Throw, Exit, loop, link, timers, lane
<1>5. CASE SendDescriptor
  <2>1. PICK sent \in BOOLEAN :
          /\ Then(<<Rq(IF sent THEN "RequestSession" ELSE "Reconnect")>>)
          /\ peer' = IF sent /\ conn \in sources
                     THEN [peer EXCEPT ![conn].described = TRUE] ELSE peer
    BY <1>5 DEF SendDescriptor
  <2>2. queue' \in Seq(Requests)
    BY <1>5, <2>1, ThenType, RqType DEF SendDescriptor, Turn, Actions
  <2>3. dbQueue' \in Seq(DbRequests) /\ dbServing' \in BOOLEAN /\ dbTurn' \in BOOLEAN
    BY <1>5, NoDbPushType DEF SendDescriptor
  <2>4. peer' \in [Conn -> Peers]
    BY <2>1 DEF Peers
  <2>5. QED
    BY <1>5, <2>2, <2>3, <2>4 DEF SendDescriptor, timers, lane
<1>6. CASE RequestSession
  <2>1. queue' \in Seq(Requests)
    BY <1>6, ThenType, RqType DEF RequestSession, Turn
  <2>2. dbQueue' \in Seq(DbRequests) /\ dbServing' \in BOOLEAN /\ dbTurn' \in BOOLEAN
    BY <1>6, NoDbPushType DEF RequestSession
  <2>3. peer' \in [Conn -> Peers] /\ dispatching' \in BOOLEAN
    <3>1. PICK delivered \in BOOLEAN, flushed \in BOOLEAN :
            /\ peer' = IF delivered /\ conn \in sources
                       THEN [peer EXCEPT ![conn].asked = @ + 1] ELSE peer
            /\ dispatching' = Returns(dispatching, flushed)
      BY <1>6 DEF RequestSession
    <3>2. [peer EXCEPT ![conn].asked = @ + 1] \in [Conn -> Peers]
      <4>1. peer \in [Conn -> Peers] /\ conn \in Conn /\ peer[conn] \in Peers
        OBVIOUS
      <4>2. [peer[conn] EXCEPT !.asked = @ + 1] \in Peers
        <5> DEFINE r == peer[conn]
        <5>1. r \in Peers
          BY <4>1
        <5> HIDE DEF r
        <5>2. [r EXCEPT !.asked = @ + 1] \in Peers
          BY <5>1 DEF Peers
        <5>3. QED
          BY <5>2 DEF r
      <4> DEFINE p == [peer[conn] EXCEPT !.asked = @ + 1]
      <4>3. [peer EXCEPT ![conn] = p] \in [Conn -> Peers]
        BY <4>1, <4>2
      <4>4. QED
        BY <4>3
    <3>3. QED
      BY <3>1, <3>2, ReturnsType
  <2>4. session' \in [hash: MaybeHash, named: BOOLEAN, ended: BOOLEAN]
    BY <1>6 DEF RequestSession, ArmSessionTimer
  <2>5. QED
    BY <1>6, <2>1, <2>2, <2>3, <2>4 DEF RequestSession, ArmSessionTimer, lane
<1>7. CASE SetSession
  <2> DEFINE rq == Head(queue)
  <2>1. rq \in Requests
    BY <1>7 DEF SetSession, Turn
  <2>2. session' \in [hash: MaybeHash, named: BOOLEAN, ended: BOOLEAN]
    BY <1>7, <2>1 DEF SetSession, Requests
  <2>3. queue' \in Seq(Requests)
    BY <1>7, ThenType, RqType DEF SetSession, Turn, Actions
  <2>4. dbQueue' \in Seq(DbRequests) /\ dbServing' \in BOOLEAN /\ dbTurn' \in BOOLEAN
    BY <1>7, <2>1, DbPushType, NoDbPushType, OptionAssumption
    DEF SetSession, DbActions, Requests
  <2>5. dispatching' \in BOOLEAN
    BY <1>7 DEF SetSession, Returns
  <2>6. QED
    BY <1>7, <2>2, <2>3, <2>4, <2>5 DEF SetSession, link, timers, lane
<1>8. CASE StartStream
  <2>1. queue' \in Seq(Requests)
    BY <1>8, ThenType, RqType DEF StartStream, Turn
  <2>2. dbQueue' \in Seq(DbRequests) /\ dbServing' \in BOOLEAN /\ dbTurn' \in BOOLEAN
    BY <1>8, NoDbPushType DEF StartStream
  <2>3. QED
    BY <1>8, <2>1, <2>2 DEF StartStream, StartUpdateLanes, ConfigUpdateLanes, ArmInactivityTimer, link
<1>9. CASE ProcessData
  <2>1. queue' \in Seq(Requests)
    BY <1>9, ThenType, RqType DEF ProcessData, Turn
  <2>2. dbQueue' \in Seq(DbRequests) /\ dbServing' \in BOOLEAN /\ dbTurn' \in BOOLEAN
    BY <1>9, DbPushType, NoDbPushType, OptionAssumption DEF ProcessData, DbActions
  <2>3. dispatching' \in BOOLEAN
    BY <1>9 DEF ProcessData, Returns
  <2>4. QED
    BY <1>9, <2>1, <2>2, <2>3 DEF ProcessData, link, timers, lane
<1>10. CASE Status
  <2>1. CASE Head(queue).fit
    <3>1. queue' \in Seq(Requests)
      BY <1>10, <2>1, ThenType, RqType DEF Status, Turn
    <3>2. dbQueue' \in Seq(DbRequests) /\ dbServing' \in BOOLEAN /\ dbTurn' \in BOOLEAN
      BY <1>10, <2>1, NoDbPushType DEF Status
    <3>3. QED
      BY <1>10, <2>1, <3>1, <3>2 DEF Status, link, timers, lane
  <2>2. CASE ~Head(queue).fit
    BY <1>10, <2>2 DEF Status, Exit, loop, link, timers, lane
  <2>3. QED
    BY <2>1, <2>2
<1>11. CASE Quit
  BY <1>11 DEF Quit, Exit, loop, link, timers, lane
<1>12. QED
  BY <1>1, <1>2, <1>3, <1>4, <1>5, <1>6, <1>7, <1>8, <1>9, <1>10, <1>11 DEF Dispatch

LEMMA ReceiveType ==
  ASSUME TypeOK, NEW c \in Conn, NEW rq \in Requests, Receive(c, rq),
         peer' \in [Conn -> Peers]
  PROVE  TypeOK'
<1>1. queue' \in Seq(Requests)
  BY DEF Receive, Push, TypeOK
<1>2. QED
  BY <1>1 DEF Receive, TypeOK, lane

LEMMA EventType ==
  ASSUME TypeOK, NEW c \in Conn,
         ReceiveSession(c) \/ ReceiveData(c) \/ ReceiveStatus(c) \/ ConnectionLost(c)
  PROVE  TypeOK'
<1>1. CASE ReceiveSession(c)
  <2>1. PICK h \in Hash, fit \in {TRUE, ~Strict} :
          /\ Receive(c, [action |-> "SetSession", hash |-> h, fit |-> fit])
          /\ peer' = [peer EXCEPT ![c].asked = @ - 1, ![c].hash = h]
    BY <1>1 DEF ReceiveSession
  <2>2. [action |-> "SetSession", hash |-> h, fit |-> fit] \in Requests
    BY OptionAssumption DEF Requests, Actions, MaybeHash
  <2>3. peer[c].asked - 1 \in Nat
    <3>1. peer[c].asked \in Nat
      BY DEF TypeOK, Peers
    <3>2. peer[c].asked > 0
      BY <1>1 DEF ReceiveSession
    <3>3. QED
      BY <3>1, <3>2
  <2>4. peer' \in [Conn -> Peers]
    <3> DEFINE p == [peer[c] EXCEPT !.asked = @ - 1, !.hash = h]
    <3>1. p \in Peers
      BY <2>3 DEF TypeOK, Peers, MaybeHash
    <3>2. peer' = [peer EXCEPT ![c] = p]
      BY <2>1 DEF TypeOK, Peers
    <3>3. QED
      BY <3>1, <3>2 DEF TypeOK
  <2>5. QED
    BY <2>1, <2>2, <2>4, ReceiveType
<1>2. CASE ReceiveData(c)
  <2>1. [action |-> "ProcessData", hash |-> peer[c].hash, fit |-> TRUE] \in Requests
    BY DEF Requests, Actions, TypeOK, Peers
  <2>2. QED
    BY <1>2, <2>1, ReceiveType DEF ReceiveData, TypeOK
<1>3. CASE ReceiveStatus(c)
  <2>1. PICK fit \in BOOLEAN :
          Receive(c, [action |-> "Status", hash |-> NoHash, fit |-> fit])
    BY <1>3 DEF ReceiveStatus
  <2>2. [action |-> "Status", hash |-> NoHash, fit |-> fit] \in Requests
    BY DEF Requests, Actions, MaybeHash
  <2>3. QED
    BY <1>3, <2>1, <2>2, ReceiveType DEF ReceiveStatus, TypeOK
<1>4. CASE ConnectionLost(c)
  <2>1. queue' \in Seq(Requests)
    BY <1>4, RqType DEF ConnectionLost, Push, TypeOK, Actions
  <2>2. peer' \in [Conn -> Peers] /\ sources' \in SUBSET Conn
    BY <1>4 DEF ConnectionLost, Unregistered, TypeOK, Peers, Idle, MaybeHash
  <2>3. QED
    BY <1>4, <2>1, <2>2 DEF ConnectionLost, TypeOK, timers, lane
<1>5. QED
  BY <1>1, <1>2, <1>3, <1>4

LEMMA DropType ==
  ASSUME TypeOK, DropConnection
  PROVE  /\ queue' \in Seq(Requests)
         /\ conn' \in Conn /\ sources' \in SUBSET Conn /\ peer' \in [Conn -> Peers]
         /\ orphaned' \in BOOLEAN /\ inactivity' = "off"
<1>1. queue' \in Seq(Requests)
  <2>1. Rq("Reconnect") \in Requests /\ queue \in Seq(Requests)
    BY RqType DEF TypeOK, Actions
  <2>2. queue' = Append(queue, Rq("Reconnect")) \/ queue' = queue
    BY DEF DropConnection, Push
  <2>3. QED
    BY <2>1, <2>2
<1>2. peer' \in [Conn -> Peers] /\ sources' \in SUBSET Conn
  BY DEF DropConnection, Unregistered, TypeOK, Peers, Idle, MaybeHash
<1>3. QED
  BY <1>1, <1>2 DEF DropConnection, ResetConnection, TypeOK

LEMMA TimerType ==
  ASSUME TypeOK, SessionTimerExpires \/ InactivityTick
  PROVE  TypeOK'
<1>1. CASE SessionTimerExpires
  BY <1>1, DropType DEF SessionTimerExpires, TypeOK, link, lane
<1>2. CASE InactivityTick
  BY <1>2, DropType DEF InactivityTick, TypeOK, link, lane
<1>3. QED
  BY <1>1, <1>2

LEMMA DbStepType ==
  ASSUME TypeOK, DbStep
  PROVE  TypeOK'
<1>1. /\ dbQueue # <<>>
      /\ dbTurn' = FALSE
      /\ UNCHANGED <<queue, dispatching, link, timers, lane, exited>>
  BY DEF DbStep, CheckDatabase, InitDatabase, AddDevice, AddSession, EndSession,
         AddData, DbHandles
<1>2. Tail(dbQueue) \in Seq(DbRequests)
  BY <1>1 DEF TypeOK
<1>3. [action |-> "AddDevice", hash |-> session.hash] \in DbRequests
  BY DEF TypeOK, DbRequests, DbActions
<1>4. dbQueue' \in Seq(DbRequests)
  <2> DEFINE r == [action |-> "AddDevice", hash |-> session.hash]
  <2>1. \/ dbQueue' = Tail(dbQueue)
        \/ dbQueue' = Tail(dbQueue) \o <<>>
        \/ dbQueue' = Tail(dbQueue) \o <<r>>
    BY DEF DbStep, CheckDatabase, InitDatabase, AddDevice, AddSession, EndSession, AddData
  <2>2. r \in DbRequests
    BY <1>3
  <2> HIDE DEF r
  <2>3. /\ Tail(dbQueue) \o <<>> \in Seq(DbRequests)
        /\ Tail(dbQueue) \o <<r>> \in Seq(DbRequests)
    BY <1>2, <2>2
  <2>4. QED
    BY <1>2, <2>1, <2>3
<1>5. dbServing' \in BOOLEAN
  BY ReturnsType DEF TypeOK, DbStep, CheckDatabase, InitDatabase, AddDevice, AddSession,
                     EndSession, AddData
<1>6. session' \in [hash: MaybeHash, named: BOOLEAN, ended: BOOLEAN]
  BY DEF TypeOK, DbStep, CheckDatabase, InitDatabase, AddDevice, AddSession,
         EndSession, AddData
<1>7. QED
  BY <1>1, <1>4, <1>5, <1>6 DEF TypeOK, link, timers, lane

LEMMA NextType == TypeOK /\ [Next]_vars => TypeOK'
<1>1. ASSUME TypeOK, UNCHANGED vars PROVE TypeOK'
  BY <1>1 DEF TypeOK, vars, loop, link, timers, lane
<1>2. QED
  BY <1>1, DispatchType, DbStepType, EventType, TimerType DEF Next

\* Every variable keeps its type in every behaviour of the reader.
THEOREM TypeCorrect == Spec => []TypeOK
  BY InitType, NextType, PTL DEF Spec

-----------------------------------------------------------------------------
(* Pending requests *)

\* A pending request stays pending while another one is handled.
LEMMA PendingKept ==
  ASSUME queue \in Seq(Requests), queue # <<>>, NEW r \in Seq(Requests), Then(r),
         NEW A, Pending(A), Head(queue).action \notin A
  PROVE  Pending(A)'
<1>1. PICK i \in DOMAIN queue : queue[i].action \in A
  BY DEF Pending
<1>2. i \in 1 .. Len(queue) /\ i # 1
  BY <1>1
<1>3. /\ Tail(queue) \in Seq(Requests)
      /\ i - 1 \in 1 .. Len(Tail(queue)) /\ Tail(queue)[i - 1] = queue[i]
  BY <1>2
<1>4. i - 1 \in 1 .. Len(queue') /\ queue'[i - 1] = queue[i]
  BY <1>3 DEF Then
<1>5. queue' \in Seq(Requests)
  BY ThenType
<1>6. i - 1 \in DOMAIN queue'
  BY <1>4, <1>5
<1>7. QED
  BY <1>1, <1>4, <1>6 DEF Pending

\* What a handler pushes is pending.
LEMMA PendingPushed ==
  ASSUME queue \in Seq(Requests), queue # <<>>, NEW a \in Actions, Then(<<Rq(a)>>),
         NEW A, a \in A
  PROVE  Pending(A)'
<1> DEFINE n == Len(queue)
<1>1. Rq(a) \in Requests /\ Rq(a).action = a
  BY RqType DEF Rq
<1>2. n \in 1 .. Len(queue') /\ queue'[n] = Rq(a) /\ queue' \in Seq(Requests)
  BY <1>1 DEF Then
<1>3. n \in DOMAIN queue'
  BY <1>2
<1>4. QED
  BY <1>1, <1>2, <1>3 DEF Pending

\* So is what the finalizer and the reader callback push, behind the rest.
LEMMA PendingPush ==
  ASSUME queue \in Seq(Requests), NEW rq \in Requests, Push(rq), NEW A
  PROVE  /\ Pending(A) => Pending(A)'
         /\ rq.action \in A => Pending(A)'
<1>1. queue' \in Seq(Requests) /\ Len(queue') = Len(queue) + 1
  BY DEF Push
<1>2. queue'[Len(queue) + 1] = rq /\ Len(queue) + 1 \in DOMAIN queue'
  BY <1>1 DEF Push
<1>3. \A i \in DOMAIN queue : i \in DOMAIN queue' /\ queue'[i] = queue[i]
  BY <1>1 DEF Push
<1>4. QED
  BY <1>2, <1>3 DEF Pending

-----------------------------------------------------------------------------
(* The current connection is attended to *)

Attended == Recovers /\ Supervised

LEMMA InitAttended == Init => Attended
<1> SUFFICES ASSUME Init PROVE Attended
  OBVIOUS
<1>1. queue = <<Rq("PrepareData")>> /\ sources = {}
  BY DEF Init
<1>2. 1 \in DOMAIN queue /\ queue[1].action = "PrepareData"
  BY <1>1 DEF Rq
<1>3. QED
  BY <1>1, <1>2 DEF Attended, Recovers, Supervised, Pending

LEMMA DispatchAttended ==
  ASSUME TypeOK, Attended, Dispatch
  PROVE  Attended'
<1> USE DEF Attended, Recovers, Supervised
<1>1. queue \in Seq(Requests)
  BY DEF TypeOK
<1>2. CASE PrepareData
  <2>1. PICK ok \in BOOLEAN : Then(<<Rq(IF ok THEN "Connect" ELSE "Quit")>>)
    BY <1>2, OptionAssumption DEF PrepareData
  <2>2. Pending({"PrepareData", "Connect", "Reconnect", "Quit"})'
    BY <1>1, <1>2, <2>1, PendingPushed DEF PrepareData, Turn, Actions
  <2>3. ASSUME NEW A, "PrepareData" \notin A, Pending(A) PROVE Pending(A)'
    BY <1>1, <1>2, <2>1, <2>3, PendingKept, RqType DEF PrepareData, Turn, Actions
  <2>4. QED
    BY <1>2, <2>2, <2>3 DEF PrepareData, Turn, link, timers
<1>3. CASE Connect
  <2>1. PICK up \in BOOLEAN : TryConnect(up)
    BY <1>3 DEF Connect
  <2>2. CASE up
    <3>1. Pending({"SendDescriptor", "RequestSession", "StartStream", "Reconnect", "Quit"})'
      BY <1>1, <1>3, <2>1, <2>2, PendingPushed DEF Connect, TryConnect, Turn, Actions
    <3>2. QED
      BY <2>1, <2>2, <3>1 DEF TryConnect
  <2>3. CASE ~up
    BY <1>1, <1>3, <2>1, <2>3, PendingPushed DEF Connect, TryConnect, Turn, Actions
  <2>4. QED
    BY <2>2, <2>3
<1>4. ASSUME NEW up \in BOOLEAN, Reconnect(up) PROVE Attended'
  <2>1. CASE up
    <3>1. Pending({"SendDescriptor", "RequestSession", "StartStream", "Reconnect", "Quit"})'
      BY <1>1, <1>4, <2>1, PendingPushed DEF Reconnect, TryConnect, Turn, Actions
    <3>2. QED
      BY <1>4, <2>1, <3>1 DEF Reconnect, TryConnect
  <2>2. CASE ~up
    BY <1>1, <1>4, <2>2, PendingPushed DEF Reconnect, TryConnect, Turn, Actions
  <2>3. QED
    BY <2>1, <2>2
<1>5. CASE Throw \/ Quit
  BY <1>5 DEF Throw, Quit, Exit
<1>6. CASE SendDescriptor
  <2>1. PICK sent \in BOOLEAN : Then(<<Rq(IF sent THEN "RequestSession" ELSE "Reconnect")>>)
    BY <1>6 DEF SendDescriptor
  <2>2. Pending({"SendDescriptor", "RequestSession", "StartStream", "Reconnect", "Quit"})'
    BY <1>1, <1>6, <2>1, PendingPushed DEF SendDescriptor, Turn, Actions
  <2>3. ASSUME NEW A, "SendDescriptor" \notin A, Pending(A) PROVE Pending(A)'
    BY <1>1, <1>6, <2>1, <2>3, PendingKept, RqType DEF SendDescriptor, Turn, Actions
  <2>4. QED
    BY <1>6, <2>2, <2>3 DEF SendDescriptor, Turn
<1>7. CASE RequestSession
  <2>1. ASSUME NEW A, "RequestSession" \notin A, Pending(A) PROVE Pending(A)'
    BY <1>1, <1>7, <2>1, PendingKept, RqType DEF RequestSession, Turn
  <2>2. sessionTimer' /\ ~session'.named
    BY <1>7 DEF RequestSession, ArmSessionTimer, TypeOK
  <2>3. QED
    BY <1>7, <2>1, <2>2 DEF RequestSession, Turn
<1>8. CASE SetSession
  <2>1. ASSUME NEW A, "SetSession" \notin A, Pending(A) PROVE Pending(A)'
    BY <1>1, <1>8, <2>1, PendingKept, RqType DEF SetSession, Turn, Actions
  <2>2. ASSUME FALSE \notin PushResults
        PROVE  Then(<<Rq("Quit")>>) \/ Then(<<Rq("StartStream")>>)
    BY <1>8, <2>2, OptionAssumption DEF SetSession
  <2>3. ASSUME FALSE \notin PushResults
        PROVE  Pending({"SendDescriptor", "RequestSession", "StartStream", "Reconnect", "Quit"})'
    BY <1>1, <1>8, <2>2, <2>3, PendingPushed DEF SetSession, Turn, Actions
  <2>4. QED
    BY <1>8, <2>1, <2>3 DEF SetSession, Turn, link
<1>9. CASE StartStream
  <2>1. ASSUME NEW A, "StartStream" \notin A, Pending(A) PROVE Pending(A)'
    BY <1>1, <1>9, <2>1, PendingKept, RqType DEF StartStream, Turn
  <2>2. QED
    BY <1>9, <2>1 DEF StartStream, ArmInactivityTimer, Turn, link
<1>10. CASE ProcessData
  <2>1. ASSUME NEW A, "ProcessData" \notin A, Pending(A) PROVE Pending(A)'
    BY <1>1, <1>10, <2>1, PendingKept, RqType DEF ProcessData, Turn
  <2>2. QED
    BY <1>10, <2>1 DEF ProcessData, Turn, link, timers
<1>11. CASE Status
  <2>1. CASE Head(queue).fit
    <3>1. ASSUME NEW A, "Status" \notin A, Pending(A) PROVE Pending(A)'
      BY <1>1, <1>11, <2>1, <3>1, PendingKept, RqType DEF Status, Turn
    <3>2. UNCHANGED <<dispatching, conn, sources, session, sessionTimer, inactivity, exited>>
      BY <1>11, <2>1 DEF Status, link, timers
    <3>3. Head(queue).action = "Status"
      BY <1>11 DEF Status, Turn
    <3>4. QED
      BY <3>1, <3>2
  <2>2. CASE ~Head(queue).fit
    BY <1>11, <2>2 DEF Status, Exit
  <2>3. QED
    BY <2>1, <2>2
<1>12. QED
  BY <1>2, <1>3, <1>4, <1>5, <1>6, <1>7, <1>8, <1>9, <1>10, <1>11 DEF Dispatch

LEMMA ReceiveAttended ==
  ASSUME TypeOK, Attended, NEW c \in Conn, NEW rq \in Requests, Receive(c, rq)
  PROVE  Attended'
<1>1. Push(rq) /\ UNCHANGED <<dispatching, conn, sources, session, sessionTimer, exited>>
  BY DEF Receive
<1>2. \A A : Pending(A) => Pending(A)'
  BY <1>1, PendingPush DEF TypeOK
<1>3. inactivity # "off" => inactivity' # "off"
  BY DEF Receive
<1>4. QED
  BY <1>1, <1>2, <1>3 DEF Attended, Recovers, Supervised

LEMMA EventAttended ==
  ASSUME TypeOK, Attended, NEW c \in Conn,
         ReceiveSession(c) \/ ReceiveData(c) \/ ReceiveStatus(c) \/ ConnectionLost(c)
  PROVE  Attended'
<1>1. CASE ReceiveSession(c)
  <2>1. PICK h \in Hash, fit \in {TRUE, ~Strict} :
          Receive(c, [action |-> "SetSession", hash |-> h, fit |-> fit])
    BY <1>1 DEF ReceiveSession
  <2>2. [action |-> "SetSession", hash |-> h, fit |-> fit] \in Requests
    BY OptionAssumption DEF Requests, Actions, MaybeHash
  <2>3. QED
    BY <2>1, <2>2, ReceiveAttended
<1>2. CASE ReceiveData(c)
  <2>1. [action |-> "ProcessData", hash |-> peer[c].hash, fit |-> TRUE] \in Requests
    BY DEF Requests, Actions, TypeOK, Peers
  <2>2. QED
    BY <1>2, <2>1, ReceiveAttended DEF ReceiveData
<1>3. CASE ReceiveStatus(c)
  <2>1. PICK fit \in BOOLEAN :
          Receive(c, [action |-> "Status", hash |-> NoHash, fit |-> fit])
    BY <1>3 DEF ReceiveStatus
  <2>2. [action |-> "Status", hash |-> NoHash, fit |-> fit] \in Requests
    BY DEF Requests, Actions, MaybeHash
  <2>3. QED
    BY <2>1, <2>2, ReceiveAttended
<1>4. CASE ConnectionLost(c)
  <2>1. Rq("Reconnect") \in Requests /\ Rq("Reconnect").action = "Reconnect"
    BY RqType DEF Actions, Rq
  <2>2. \A A : "Reconnect" \in A => Pending(A)'
    BY <1>4, <2>1, PendingPush DEF ConnectionLost, TypeOK
  <2>3. QED
    BY <2>2 DEF Attended, Recovers, Supervised
<1>5. QED
  BY <1>1, <1>2, <1>3, <1>4

LEMMA DropAttended ==
  ASSUME TypeOK, Attended, DropConnection, UNCHANGED <<dispatching, exited>>
  PROVE  Attended'
<1>1. conn' \notin sources'
  BY DEF DropConnection, Unregistered, ResetConnection
<1>2. CASE conn \in sources
  <2>1. Rq("Reconnect") \in Requests /\ Rq("Reconnect").action = "Reconnect"
    BY RqType DEF Actions, Rq
  <2>2. Pending({"PrepareData", "Connect", "Reconnect", "Quit"})'
    BY <1>2, <2>1, PendingPush DEF DropConnection, TypeOK
  <2>3. QED
    BY <1>1, <2>2 DEF Attended, Recovers, Supervised
<1>3. CASE conn \notin sources
  <2>1. UNCHANGED queue
    BY <1>3 DEF DropConnection
  <2>2. QED
    BY <1>1, <1>3, <2>1 DEF Attended, Recovers, Supervised, Pending
<1>4. QED
  BY <1>2, <1>3

LEMMA TimerAttended ==
  ASSUME TypeOK, Attended, SessionTimerExpires \/ InactivityTick
  PROVE  Attended'
<1>1. CASE DropConnection
  BY <1>1, DropAttended DEF SessionTimerExpires, InactivityTick
<1>2. CASE SessionTimerExpires /\ session.named
  <2>1. UNCHANGED <<queue, dispatching, conn, sources, session, inactivity, exited>>
    BY <1>2 DEF SessionTimerExpires, link
  <2>2. \A A : Pending(A) => Pending(A)'
    BY <2>1 DEF Pending
  <2>3. QED
    BY <1>2, <2>1, <2>2 DEF Attended, Recovers, Supervised
<1>3. CASE InactivityTick /\ inactivity' = "quiet" /\ UNCHANGED <<queue, link>>
  BY <1>3 DEF InactivityTick, link, Attended, Recovers, Supervised, Pending
<1>4. QED
  BY <1>1, <1>2, <1>3 DEF SessionTimerExpires, InactivityTick

LEMMA DbStepAttended ==
  ASSUME TypeOK, Attended, DbStep
  PROVE  Attended'
<1>1. UNCHANGED <<queue, dispatching, link, timers, exited>>
  BY DEF DbStep, CheckDatabase, InitDatabase, AddDevice, AddSession, EndSession,
         AddData, DbHandles
<1>2. session'.named = session.named
  <2>1. \/ session' = session
        \/ session' = [session EXCEPT !.ended = FALSE]
        \/ session' = [session EXCEPT !.ended = TRUE]
    BY DEF DbStep, CheckDatabase, InitDatabase, AddDevice, AddSession, EndSession, AddData
  <2>2. QED
    BY <2>1 DEF TypeOK
<1>3. QED
  <2>1. \A A : Pending(A) => Pending(A)'
    BY <1>1 DEF Pending
  <2>2. UNCHANGED <<dispatching, conn, sources, inactivity, sessionTimer, exited>>
    BY <1>1 DEF link, timers
  <2>3. QED
    BY <1>2, <2>1, <2>2 DEF Attended, Recovers, Supervised

LEMMA NextAttended == TypeOK /\ Attended /\ [Next]_vars => Attended'
<1>1. ASSUME Attended, UNCHANGED vars PROVE Attended'
  BY <1>1 DEF Attended, Recovers, Supervised, Pending, vars, loop, link, timers
<1>2. QED
  BY <1>1, DispatchAttended, DbStepAttended, EventAttended, TimerAttended DEF Next

\* No wakeup is lost: while the dispatcher is served and the current connection
\* is not an event source, a request that replaces it or ends the program is
\* pending.
THEOREM NoLostWakeup == Spec => []Recovers
<1>1. Init => Attended
  BY InitAttended
<1>2. TypeOK /\ Attended /\ [Next]_vars => Attended'
  BY NextAttended
<1>3. Attended => Recovers
  BY DEF Attended
<1>4. QED
  BY <1>1, <1>2, <1>3, TypeCorrect, PTL DEF Spec

\* No registered current connection waits for the monitor without a deadline.
THEOREM AlwaysSupervised == Spec => []Supervised
<1>1. Init => Attended
  BY InitAttended
<1>2. TypeOK /\ Attended /\ [Next]_vars => Attended'
  BY NextAttended
<1>3. Attended => Supervised
  BY DEF Attended
<1>4. QED
  BY <1>1, <1>2, <1>3, TypeCorrect, PTL DEF Spec

-----------------------------------------------------------------------------
(* The update lanes follow the session *)

Stream == {"StartStream", "Quit"}

\* The dispatcher runs, and the session it runs with is the one it streams.
Streaming == dispatching /\ ~exited /\ ~Pending(Stream)

\* Only a handler that pushes one of these requests changes the session's hash.
LEMMA DispatchStreaming ==
  ASSUME TypeOK, Dispatch, ~StartStream, FALSE \notin PushResults, Streaming'
  PROVE  Streaming /\ session'.hash = session.hash
<1>1. queue \in Seq(Requests) /\ dispatching \in BOOLEAN
  BY DEF TypeOK
<1>2. CASE Exit
  BY <1>2 DEF Exit, Streaming
<1>3. CASE SetSession
  <2>1. Then(<<Rq("Quit")>>) \/ Then(<<Rq("StartStream")>>)
    BY <1>3, OptionAssumption DEF SetSession, Refused
  <2>2. Pending(Stream)'
    BY <1>1, <1>3, <2>1, PendingPushed DEF SetSession, Turn, Actions, Stream
  <2>3. QED
    BY <2>2 DEF Streaming
<1>4. CASE PrepareData \/ Connect \/ (\E up \in BOOLEAN : Reconnect(up)) \/ SendDescriptor
           \/ RequestSession \/ ProcessData
  <2>1. session'.hash = session.hash
    BY <1>4 DEF PrepareData, Connect, Reconnect, SendDescriptor, RequestSession, ProcessData,
                ArmSessionTimer, TypeOK
  <2>2. UNCHANGED exited /\ (dispatching' => dispatching)
    <3>1. CASE PrepareData \/ Connect \/ (\E up \in BOOLEAN : Reconnect(up)) \/ SendDescriptor
      <4>1. UNCHANGED <<dispatching, exited>>
        BY <3>1 DEF PrepareData, Connect, Reconnect, SendDescriptor
      <4>2. QED
        BY <4>1
    <3>2. CASE RequestSession
      BY <3>2 DEF RequestSession, Returns
    <3>3. CASE ProcessData
      BY <3>3 DEF ProcessData, Returns
    <3>4. QED
      BY <1>4, <3>1, <3>2, <3>3
  <2>3. \/ Then(<<>>)
        \/ \E a \in Actions : Then(<<Rq(a)>>)
    BY <1>4 DEF PrepareData, Connect, Reconnect, SendDescriptor, RequestSession, ProcessData,
                TryConnect, Actions
  <2>4. queue # <<>> /\ Head(queue).action \notin Stream
    BY <1>4 DEF PrepareData, Connect, Reconnect, SendDescriptor, RequestSession, ProcessData,
                Turn, Stream
  <2>5. Pending(Stream) => Pending(Stream)'
    BY <1>1, <2>3, <2>4, PendingKept, RqType
  <2>6. QED
    BY <2>1, <2>2, <2>5 DEF Streaming
<1>5. CASE Status /\ ~Exit
  <2>1. Then(<<>>) /\ queue # <<>> /\ Head(queue).action \notin Stream
    BY <1>5 DEF Status, Turn, Stream
  <2>2. Pending(Stream) => Pending(Stream)'
    BY <1>1, <2>1, PendingKept, RqType
  <2>3. UNCHANGED <<session, dispatching, exited>>
    BY <1>5 DEF Status
  <2>4. QED
    BY <2>2, <2>3 DEF Streaming
<1>6. QED
  BY <1>2, <1>3, <1>4, <1>5 DEF Dispatch, Throw, Quit

LEMMA OtherStreaming ==
  ASSUME TypeOK, NEW c \in Conn, Streaming',
         \/ DbStep \/ SessionTimerExpires \/ InactivityTick
         \/ ReceiveSession(c) \/ ReceiveData(c) \/ ReceiveStatus(c) \/ ConnectionLost(c)
  PROVE  Streaming /\ session'.hash = session.hash /\ UNCHANGED lane
<1>1. UNCHANGED <<dispatching, exited>> /\ UNCHANGED lane
  BY DEF DbStep, CheckDatabase, InitDatabase, AddDevice, AddSession, EndSession, AddData,
         DbHandles, SessionTimerExpires, InactivityTick, ReceiveSession, ReceiveData,
         ReceiveStatus, ConnectionLost, Receive
<1>2. session'.hash = session.hash
  <2>1. \/ session' = session
        \/ session' = [session EXCEPT !.ended = FALSE]
        \/ session' = [session EXCEPT !.ended = TRUE]
    BY DEF DbStep, CheckDatabase, InitDatabase, AddDevice, AddSession, EndSession, AddData,
           SessionTimerExpires, InactivityTick, ReceiveSession, ReceiveData,
           ReceiveStatus, ConnectionLost, Receive
  <2>2. QED
    BY <2>1 DEF TypeOK
<1>3. UNCHANGED queue \/ \E rq : queue' = Append(queue, rq)
  BY DEF DbStep, CheckDatabase, InitDatabase, AddDevice, AddSession, EndSession, AddData,
         DbHandles, SessionTimerExpires, InactivityTick, DropConnection, ReceiveSession,
         ReceiveData, ReceiveStatus, ConnectionLost, Receive, Push
<1>4. Pending(Stream) => Pending(Stream)'
  <2>1. queue \in Seq(Requests)
    BY DEF TypeOK
  <2>2. CASE UNCHANGED queue
    BY <2>2 DEF Pending
  <2>3. ASSUME NEW rq, queue' = Append(queue, rq) PROVE Pending(Stream) => Pending(Stream)'
    <3>1. \A i \in DOMAIN queue : i \in DOMAIN queue' /\ queue'[i] = queue[i]
      BY <2>1, <2>3
    <3>2. QED
      BY <3>1 DEF Pending
  <2>4. QED
    BY <1>3, <2>2, <2>3
<1>5. QED
  BY <1>1, <1>2, <1>4 DEF Streaming

LEMMA NextLanes == TypeOK /\ LanesCurrent /\ [Next]_vars => LanesCurrent'
<1> SUFFICES ASSUME TypeOK, LanesCurrent, [Next]_vars, FALSE \notin PushResults, Streaming'
             PROVE  lanes' \in {NoHash, session'.hash}
  BY DEF LanesCurrent, Streaming, Stream
<1>1. Streaming => lanes \in {NoHash, session.hash}
  BY DEF LanesCurrent, Streaming, Stream
<1>2. CASE StartStream
  BY <1>2 DEF StartStream, StartUpdateLanes, ConfigUpdateLanes
<1>3. CASE \E up \in BOOLEAN : Reconnect(up)
  BY <1>3 DEF Reconnect, StopUpdateLanes
<1>4. CASE Dispatch /\ ~StartStream /\ ~\E up \in BOOLEAN : Reconnect(up)
  <2>1. lanes' = lanes
    BY <1>4 DEF Dispatch, PrepareData, Connect, Throw, SendDescriptor, RequestSession,
       SetSession, ProcessData, Status, Quit, Exit, lane
  <2>2. QED
    BY <1>1, <1>4, <2>1, DispatchStreaming
<1>5. ASSUME NEW c \in Conn,
             \/ DbStep \/ SessionTimerExpires \/ InactivityTick
             \/ ReceiveSession(c) \/ ReceiveData(c) \/ ReceiveStatus(c) \/ ConnectionLost(c)
      PROVE  lanes' \in {NoHash, session'.hash}
  BY <1>1, <1>5, OtherStreaming DEF lane
<1>6. CASE UNCHANGED vars
  BY <1>1, <1>6 DEF Streaming, Pending, vars, loop, lane
<1>7. QED
  BY <1>2, <1>3, <1>4, <1>5, <1>6, ConnAssumption DEF Next

\* The update lanes never stay behind the session: when they were configured for
\* another one, the request that configures them anew (or ends the program) is
\* pending.
THEOREM LanesFollow == Spec => []LanesCurrent
<1>1. Init => LanesCurrent
  BY DEF Init, LanesCurrent
<1>2. QED
  BY <1>1, NextLanes, TypeCorrect, PTL DEF Spec

-----------------------------------------------------------------------------
(* Database requests are handled in the session they were pushed for *)

Starting == {"PrepareData", "Connect"}

\* Until the first connection attempt the reader waits for nothing else.
Booting == Pending(Starting) => /\ Len(queue) = 1 /\ sources = {}
                             /\ ~sessionTimer /\ inactivity = "off"

\* At most one request is pending, it belongs to the current session, and the
\* loop owes the database queue its turn.  Only the start is different: the
\* request that AddDevice follows is handled after the dispatcher was polled.
DbOneRequest ==
  dbServing /\ dbQueue # <<>> =>
    /\ Len(dbQueue) = 1
    /\ dbQueue[1].hash = session.hash
    /\ dbQueue[1].action = "InitDatabase" => Pending({"Connect"})
    /\ ~dbTurn => dbQueue[1].action = "AddDevice" /\ Pending({"Connect"})

DbDiscipline == Booting /\ DbOneRequest

LEMMA NotPendingThen ==
  ASSUME queue \in Seq(Requests), queue # <<>>, NEW A, ~Pending(A),
         NEW a \in Actions, a \notin A, Then(<<>>) \/ Then(<<Rq(a)>>)
  PROVE  ~Pending(A)'
<1>1. Rq(a) \in Requests /\ Rq(a).action = a
  BY RqType DEF Rq
<1>2. \A i \in DOMAIN queue : queue[i].action \notin A
  BY DEF Pending
<1>3. Tail(queue) \in Seq(Requests)
      /\ \A i \in 1 .. Len(Tail(queue)) : Tail(queue)[i].action \notin A
  BY <1>2
<1>4. CASE Then(<<>>)
  <2>1. queue' \in Seq(Requests) /\ \A i \in 1 .. Len(queue') : queue'[i].action \notin A
    BY <1>3, <1>4 DEF Then
  <2>2. QED
    BY <2>1 DEF Pending
<1>5. CASE Then(<<Rq(a)>>)
  <2> DEFINE r == Rq(a)
  <2> HIDE DEF r
  <2>1. r \in Requests /\ r.action \notin A
    BY <1>1 DEF r
  <2>2. queue' = Tail(queue) \o <<r>>
    BY <1>5 DEF Then, r
  <2>3. queue' \in Seq(Requests) /\ \A i \in 1 .. Len(queue') : queue'[i].action \notin A
    BY <1>3, <2>1, <2>2
  <2>4. QED
    BY <2>3 DEF Pending
<1>6. QED
  BY <1>4, <1>5

LEMMA NotPendingPush ==
  ASSUME queue \in Seq(Requests), NEW rq \in Requests, Push(rq), NEW A,
         ~Pending(A), rq.action \notin A
  PROVE  ~Pending(A)'
<1>1. \A i \in DOMAIN queue : queue[i].action \notin A
  BY DEF Pending
<1>2. queue' \in Seq(Requests) /\ \A i \in 1 .. Len(queue') : queue'[i].action \notin A
  BY <1>1 DEF Push
<1>3. QED
  BY <1>2 DEF Pending

\* What a handler that runs after the start pushes on the two queues.
LEMMA AfterStart ==
  ASSUME TypeOK, Dispatch, Head(queue).action \notin Starting, ~Exit
  PROVE  /\ \E a \in Actions \ Starting : Then(<<>>) \/ Then(<<Rq(a)>>)
         /\ NoDbPush \/ \E a \in DbActions \ {"InitDatabase"}, ok \in BOOLEAN :
                          DbPush(a, session'.hash, ok)
<1> USE DEF Starting
<1>1. CASE \E up \in BOOLEAN : Reconnect(up)
  <2>1. PICK up \in BOOLEAN : Reconnect(up)
    BY <1>1
  <2>2. \E a \in Actions \ Starting : Then(<<Rq(a)>>)
    BY <2>1 DEF Reconnect, TryConnect, Actions
  <2>3. session' = session
    BY <2>1 DEF Reconnect
  <2>4. NoDbPush \/ \E ok \in BOOLEAN : DbPush("EndSession", session.hash, ok)
    BY <2>1, OptionAssumption DEF Reconnect
  <2>5. QED
    BY <2>2, <2>3, <2>4 DEF DbActions
<1>2. CASE SendDescriptor
  <2>1. PICK sent \in BOOLEAN : Then(<<Rq(IF sent THEN "RequestSession" ELSE "Reconnect")>>)
    BY <1>2 DEF SendDescriptor
  <2>2. \E a \in Actions \ Starting : Then(<<Rq(a)>>)
    BY <2>1 DEF Actions
  <2>3. QED
    BY <1>2, <2>2 DEF SendDescriptor
<1>3. CASE RequestSession \/ StartStream
  <2>1. Then(<<>>) /\ NoDbPush
    BY <1>3 DEF RequestSession, StartStream
  <2>2. "Quit" \in Actions \ Starting
    BY DEF Actions
  <2>3. QED
    BY <2>1, <2>2
<1>4. CASE SetSession
  <2>1. session'.hash = Head(queue).hash
    BY <1>4 DEF SetSession, TypeOK
  <2>2. NoDbPush \/ \E ok \in BOOLEAN : DbPush("AddSession", Head(queue).hash, ok)
    <3>1. CASE Refused(Head(queue))
      BY <1>4, <3>1 DEF SetSession
    <3>2. CASE ~Refused(Head(queue))
      <4>1. PICK ok \in IF WithDatabase THEN PushResults ELSE {TRUE} :
              IF WithDatabase THEN DbPush("AddSession", Head(queue).hash, ok) ELSE NoDbPush
        BY <1>4, <3>2 DEF SetSession
      <4>2. ok \in BOOLEAN
        BY <4>1, OptionAssumption
      <4>3. QED
        BY <4>1, <4>2
    <3>3. QED
      BY <3>1, <3>2
  <2>3. \E a \in Actions \ Starting : Then(<<>>) \/ Then(<<Rq(a)>>)
    <3>1. \/ Then(<<Rq("Quit")>>)
          \/ \E ok \in BOOLEAN : Then(IF ok THEN <<Rq("StartStream")>> ELSE <<>>)
      BY <1>4, OptionAssumption DEF SetSession
    <3>2. Then(<<Rq("Quit")>>) \/ Then(<<Rq("StartStream")>>) \/ Then(<<>>)
      BY <3>1
    <3>3. {"Quit", "StartStream"} \subseteq Actions \ Starting
      BY DEF Actions
    <3>4. QED
      BY <3>2, <3>3
  <2>4. QED
    BY <2>1, <2>2, <2>3 DEF DbActions
<1>5. CASE ProcessData
  <2>1. session' = session
    BY <1>5 DEF ProcessData
  <2>2. NoDbPush \/ \E ok \in BOOLEAN : DbPush("AddData", session.hash, ok)
    BY <1>5, OptionAssumption DEF ProcessData
  <2>3. \E a \in Actions \ Starting : Then(<<>>)
    BY <1>5 DEF ProcessData, Actions
  <2>4. QED
    BY <2>1, <2>2, <2>3 DEF DbActions
<1>6. CASE Status
  BY <1>6 DEF Status, Actions
<1>7. Head(queue).action \notin {"PrepareData", "Connect"}
  OBVIOUS
<1>8. QED
  BY <1>1, <1>2, <1>3, <1>4, <1>5, <1>6, <1>7
  DEF Dispatch, PrepareData, Connect, Throw, Quit, Turn

\* A push on an empty database queue, or none.
LEMMA DbPushOne ==
  ASSUME dbServing \in BOOLEAN, dbQueue = <<>>, NEW a \in DbActions, NEW h, NEW ok \in BOOLEAN,
         NoDbPush \/ DbPush(a, h, ok)
  PROVE  dbServing' /\ dbQueue' # <<>>
           => dbQueue' = <<[action |-> a, hash |-> h]>> /\ dbTurn'
<1> DEFINE r == [action |-> a, hash |-> h]
<1>1. Append(<<>>, r) = <<r>> /\ <<r>> # <<>>
  OBVIOUS
<1>2. CASE NoDbPush
  BY <1>2 DEF NoDbPush, DbAfter
<1>3. CASE DbPush(a, h, ok)
  <2> HIDE DEF r
  <2>1. DbAfter(IF dbServing /\ ok THEN Append(dbQueue, r) ELSE dbQueue)
    BY <1>3 DEF DbPush, r
  <2>2. dbServing' /\ dbQueue' # <<>> => dbQueue' = <<r>> /\ dbTurn'
    BY <1>1, <2>1 DEF DbAfter
  <2>3. QED
    BY <2>2 DEF r
<1>4. QED
  BY <1>2, <1>3

LEMMA InitDb == Init => DbDiscipline
<1> SUFFICES ASSUME Init PROVE DbDiscipline
  OBVIOUS
<1>1. Len(queue) = 1 /\ sources = {} /\ ~sessionTimer /\ inactivity = "off"
  BY DEF Init
<1>2. dbServing => dbTurn /\ dbQueue = <<[action |-> "CheckDatabase", hash |-> NoHash]>>
  BY DEF Init
<1>3. session.hash = NoHash
  BY DEF Init
<1>4. DbOneRequest
  BY <1>2, <1>3 DEF DbOneRequest
<1>5. QED
  BY <1>1, <1>4 DEF DbDiscipline, Booting

\* The head of the queue is pending; at the start it is all there is.
LEMMA HeadPending ==
  ASSUME queue \in Seq(Requests), queue # <<>>, NEW A, Head(queue).action \in A
  PROVE  Pending(A)
<1>1. 1 \in DOMAIN queue /\ queue[1] = Head(queue)
  OBVIOUS
<1>2. QED
  BY <1>1 DEF Pending

LEMMA HeadAtStart ==
  ASSUME queue \in Seq(Requests), queue # <<>>, Len(queue) = 1, NEW A, Pending(A)
  PROVE  Head(queue).action \in A
  BY DEF Pending

LEMMA DispatchDb ==
  ASSUME TypeOK, DbDiscipline, Dispatch
  PROVE  DbDiscipline'
<1> DEFINE a == Head(queue).action
<1>1. queue \in Seq(Requests) /\ dbServing \in BOOLEAN
  BY DEF TypeOK
<1>2. queue # <<>> /\ ~dbTurn
  BY DEF Dispatch, PrepareData, Connect, Reconnect, Throw, SendDescriptor, RequestSession,
         SetSession, StartStream, ProcessData, Status, Quit, Turn
<1>3. CASE Exit
  <2>1. UNCHANGED <<queue, dbQueue, dbServing, dbTurn, sources, session, sessionTimer, inactivity>>
    BY <1>3 DEF Exit, loop, link, timers
  <2>2. \A A : Pending(A) <=> Pending(A)'
    BY <2>1 DEF Pending
  <2>3. QED
    BY <2>1, <2>2 DEF DbDiscipline, Booting, DbOneRequest
<1>4. CASE PrepareData
  <2>1. Pending(Starting) /\ a = "PrepareData"
    BY <1>1, <1>2, <1>4, HeadPending DEF PrepareData, Turn, Starting
  <2>2. Len(queue) = 1 /\ sources = {} /\ ~sessionTimer /\ inactivity = "off"
    BY <2>1 DEF DbDiscipline, Booting
  <2>3. dbServing => dbQueue = <<>>
    BY <1>1, <1>2, <2>1, <2>2, HeadAtStart DEF DbDiscipline, DbOneRequest
  <2>4. PICK ok \in BOOLEAN :
          /\ Then(<<Rq(IF ok THEN "Connect" ELSE "Quit")>>)
          /\ IF WithDatabase THEN DbPush("InitDatabase", session.hash, ok) ELSE NoDbPush
    BY <1>4, OptionAssumption DEF PrepareData
  <2>5. Len(queue') = 1
    BY <1>1, <1>2, <2>2, <2>4 DEF Then
  <2>6. UNCHANGED <<sources, session, sessionTimer, inactivity, dbServing>>
    BY <1>4, <2>4 DEF PrepareData, link, timers, DbPush, NoDbPush, DbAfter
  <2>7. ok => Pending({"Connect"})'
    BY <1>1, <1>2, <2>4, PendingPushed DEF Actions
  <2>8. ~ok /\ dbServing => dbQueue' = <<>>
    BY <2>3, <2>4 DEF DbPush, NoDbPush, DbAfter
  <2>9. dbServing' /\ dbQueue' # <<>>
          => dbQueue' = <<[action |-> "InitDatabase", hash |-> session.hash]>> /\ dbTurn'
    BY <1>1, <2>3, <2>4, <2>6, DbPushOne DEF DbActions
  <2>10. DbOneRequest'
    BY <2>6, <2>7, <2>8, <2>9 DEF DbOneRequest
  <2>11. QED
    BY <2>2, <2>5, <2>6, <2>10 DEF DbDiscipline, Booting
<1>5. CASE Connect
  <2>1. Pending(Starting) /\ a = "Connect"
    BY <1>1, <1>2, <1>5, HeadPending DEF Connect, Turn, Starting
  <2>2. Len(queue) = 1
    BY <2>1 DEF DbDiscipline, Booting
  <2>3. PICK up \in BOOLEAN : Then(<<Rq(IF up THEN "SendDescriptor" ELSE "Reconnect")>>)
    BY <1>5 DEF Connect, TryConnect
  <2>4. Len(queue') = 1 /\ queue'[1].action \notin Starting
    <3>1. PICK b \in {"SendDescriptor", "Reconnect"} : Then(<<Rq(b)>>)
      BY <2>3
    <3>2. b \in Actions /\ Rq(b).action = b /\ b \notin Starting
      BY DEF Actions, Rq, Starting
    <3>3. Tail(queue) = <<>>
      BY <1>1, <2>2, TailOfOne
    <3>4. Rq(b) \in Requests
      BY <3>2, RqType
    <3>5. queue' = <<>> \o <<Rq(b)>>
      BY <3>1, <3>3 DEF Then
    <3>6. queue' = <<Rq(b)>>
      BY <3>4, <3>5, ConcatEmptySeq
    <3>7. QED
      BY <3>2, <3>6
  <2>5. queue' \in Seq(Requests)
    BY <1>1, <1>2, <2>3, ThenType, RqType DEF Actions
  <2>6. ~Pending(Starting)'
    BY <2>4, <2>5 DEF Pending
  <2>7. /\ dbQueue' = dbQueue /\ dbServing' = dbServing
        /\ dbServing /\ dbQueue # <<>> => dbTurn'
    BY <1>5 DEF Connect, NoDbPush, DbAfter
  <2>8. session' = session
    BY <1>5 DEF Connect
  <2>9. DbOneRequest'
    BY <1>2, <2>7, <2>8 DEF DbDiscipline, DbOneRequest
  <2>10. QED
    BY <2>6, <2>9 DEF DbDiscipline, Booting
<1>6. CASE a \notin Starting /\ ~Exit
  <2>1. ~Pending(Starting)
    BY <1>1, <1>2, <1>6, HeadAtStart DEF DbDiscipline, Booting
  <2>2. ~Pending({"Connect"})
    BY <2>1 DEF Pending, Starting
  <2>3. dbServing => dbQueue = <<>>
    BY <1>2, <2>2 DEF DbDiscipline, DbOneRequest
  <2>4. PICK b \in Actions \ Starting : Then(<<>>) \/ Then(<<Rq(b)>>)
    BY <1>6, AfterStart
  <2>5. ~Pending(Starting)'
    BY <1>1, <1>2, <2>1, <2>4, NotPendingThen
  <2>6. PICK d \in DbActions \ {"InitDatabase"}, ok \in BOOLEAN :
          NoDbPush \/ DbPush(d, session'.hash, ok)
    <3>1. NoDbPush \/ \E d \in DbActions \ {"InitDatabase"}, ok \in BOOLEAN :
                         DbPush(d, session'.hash, ok)
      BY <1>6, AfterStart
    <3>2. "AddData" \in DbActions \ {"InitDatabase"} /\ TRUE \in BOOLEAN
      BY DEF DbActions
    <3>3. QED
      BY <3>1, <3>2
  <2>7. dbServing' = dbServing
    BY <2>6 DEF NoDbPush, DbPush, DbAfter
  <2>8. dbServing' /\ dbQueue' # <<>>
          => dbQueue' = <<[action |-> d, hash |-> session'.hash]>> /\ dbTurn'
    BY <1>1, <2>3, <2>6, <2>7, DbPushOne
  <2>9. DbOneRequest'
    BY <2>6, <2>8 DEF DbOneRequest
  <2>10. QED
    BY <2>5, <2>9 DEF DbDiscipline, Booting
<1>7. QED
  BY <1>3, <1>4, <1>5, <1>6 DEF Dispatch, Reconnect, Throw, SendDescriptor,
     RequestSession, SetSession, StartStream, ProcessData, Status, Quit, Turn, Starting

\* Events after the start only add requests behind the pending ones.
LEMMA QuietDb ==
  ASSUME TypeOK, DbDiscipline, ~Pending(Starting),
         \/ UNCHANGED queue
         \/ \E rq \in Requests : rq.action \notin Starting /\ Push(rq),
         UNCHANGED <<dbQueue, dbServing, dbTurn, session>>
  PROVE  DbDiscipline'
<1>1. queue \in Seq(Requests)
  BY DEF TypeOK
<1>2. ~Pending(Starting)'
  BY <1>1, NotPendingPush DEF Pending
<1>3. Pending({"Connect"}) => Pending({"Connect"})'
  BY <1>1, PendingPush DEF Pending
<1>4. QED
  BY <1>2, <1>3 DEF DbDiscipline, Booting, DbOneRequest

\* What the monitor sends and the finalizer that removes a connection push.
LEMMA EventPush ==
  ASSUME TypeOK, NEW c \in Conn,
         ReceiveSession(c) \/ ReceiveData(c) \/ ReceiveStatus(c) \/ ConnectionLost(c)
  PROVE  \E rq \in Requests :
           /\ Push(rq)
           /\ rq.action \in {"SetSession", "ProcessData", "Status", "Reconnect"}
           /\ rq.action = "SetSession" => rq.hash \in Hash
           /\ rq.action = "Reconnect" => ConnectionLost(c)
<1>1. CASE ReceiveSession(c)
  <2>1. PICK h \in Hash, fit \in {TRUE, ~Strict} :
          Push([action |-> "SetSession", hash |-> h, fit |-> fit])
    BY <1>1 DEF ReceiveSession, Receive
  <2>2. [action |-> "SetSession", hash |-> h, fit |-> fit] \in Requests
    BY OptionAssumption DEF Requests, Actions, MaybeHash
  <2>3. QED
    BY <2>1, <2>2
<1>2. CASE ReceiveData(c)
  <2>1. [action |-> "ProcessData", hash |-> peer[c].hash, fit |-> TRUE] \in Requests
    BY DEF Requests, Actions, TypeOK, Peers
  <2>2. QED
    BY <1>2, <2>1 DEF ReceiveData, Receive
<1>3. CASE ReceiveStatus(c)
  <2>1. PICK fit \in BOOLEAN : Push([action |-> "Status", hash |-> NoHash, fit |-> fit])
    BY <1>3 DEF ReceiveStatus, Receive
  <2>2. [action |-> "Status", hash |-> NoHash, fit |-> fit] \in Requests
    BY DEF Requests, Actions, MaybeHash
  <2>3. QED
    BY <2>1, <2>2
<1>4. CASE ConnectionLost(c)
  <2>1. Push(Rq("Reconnect")) /\ Rq("Reconnect") \in Requests
    BY <1>4, RqType DEF ConnectionLost, Actions
  <2>2. QED
    BY <1>4, <2>1 DEF Rq
<1>5. QED
  BY <1>1, <1>2, <1>3, <1>4

LEMMA EventDb ==
  ASSUME TypeOK, DbDiscipline, NEW c \in Conn,
         ReceiveSession(c) \/ ReceiveData(c) \/ ReceiveStatus(c) \/ ConnectionLost(c)
  PROVE  DbDiscipline'
<1>1. c \in sources /\ UNCHANGED <<dbQueue, dbServing, dbTurn, session>>
  BY DEF ReceiveSession, ReceiveData, ReceiveStatus, ConnectionLost, Receive
<1>2. ~Pending(Starting)
  BY <1>1 DEF DbDiscipline, Booting
<1>3. \E rq \in Requests : rq.action \notin Starting /\ Push(rq)
  BY EventPush DEF Starting
<1>4. QED
  BY <1>1, <1>2, <1>3, QuietDb

LEMMA TimerDb ==
  ASSUME TypeOK, DbDiscipline, SessionTimerExpires \/ InactivityTick
  PROVE  DbDiscipline'
<1>1. ~Pending(Starting)
  BY DEF SessionTimerExpires, InactivityTick, DbDiscipline, Booting
<1>2. UNCHANGED <<dbQueue, dbServing, dbTurn, session>>
  BY DEF SessionTimerExpires, InactivityTick
<1>3. UNCHANGED queue \/ Push(Rq("Reconnect"))
  BY DEF SessionTimerExpires, InactivityTick, DropConnection
<1>4. Rq("Reconnect") \in Requests /\ Rq("Reconnect").action \notin Starting
  BY RqType DEF Actions, Starting, Rq
<1>5. QED
  BY <1>1, <1>2, <1>3, <1>4, QuietDb

LEMMA DbStepDb ==
  ASSUME TypeOK, DbDiscipline, DbStep
  PROVE  DbDiscipline'
<1>1. /\ dbServing /\ dbQueue # <<>> /\ dbTurn' = FALSE
      /\ UNCHANGED <<queue, sources, sessionTimer, inactivity>>
  BY DEF DbStep, CheckDatabase, InitDatabase, AddDevice, AddSession, EndSession,
         AddData, DbHandles, link, timers
<1>2. Len(dbQueue) = 1
  BY <1>1 DEF DbDiscipline, DbOneRequest
<1>3. Tail(dbQueue) = <<>> /\ Head(dbQueue) = dbQueue[1]
  <2>1. dbQueue \in Seq(DbRequests)
    BY DEF TypeOK
  <2>2. QED
    BY <1>2, <2>1, TailOfOne
<1>4. \A A : Pending(A) <=> Pending(A)'
  BY <1>1 DEF Pending
<1>5. Booting'
  BY <1>1, <1>4 DEF DbDiscipline, Booting
<1>6. CASE InitDatabase
  <2> DEFINE r == [action |-> "AddDevice", hash |-> session.hash]
  <2>1. session' = session /\ Pending({"Connect"})'
    BY <1>1, <1>3, <1>4, <1>6 DEF InitDatabase, DbHandles, DbDiscipline, DbOneRequest
  <2>2. dbQueue' = <<>> \o <<r>> \/ dbQueue' = <<>> \o <<>>
    BY <1>3, <1>6 DEF InitDatabase
  <2>3. dbQueue' = <<r>> \/ dbQueue' = <<>>
    BY <2>2
  <2>4. DbOneRequest'
    BY <2>1, <2>3 DEF DbOneRequest
  <2>5. QED
    BY <1>5, <2>4 DEF DbDiscipline
<1>7. CASE ~InitDatabase
  <2>1. dbQueue' = <<>>
    BY <1>3, <1>7 DEF DbStep, CheckDatabase, AddDevice, AddSession, EndSession, AddData
  <2>2. QED
    BY <1>5, <2>1 DEF DbDiscipline, DbOneRequest
<1>8. QED
  BY <1>6, <1>7

LEMMA NextDb == TypeOK /\ DbDiscipline /\ [Next]_vars => DbDiscipline'
<1>1. ASSUME DbDiscipline, UNCHANGED vars PROVE DbDiscipline'
  BY <1>1 DEF DbDiscipline, Booting, DbOneRequest, Pending, vars, loop, link, timers
<1>2. QED
  BY <1>1, DispatchDb, DbStepDb, EventDb, TimerDb DEF Next

LEMMA DisciplineShows == TypeOK /\ DbDiscipline => DbRequestsCurrent
<1> SUFFICES ASSUME TypeOK, DbDiscipline, dbServing
             PROVE  Len(dbQueue) <= 1 /\ \A i \in DOMAIN dbQueue : dbQueue[i].hash = session.hash
  BY DEF DbRequestsCurrent
<1>1. CASE dbQueue = <<>>
  BY <1>1
<1>2. CASE dbQueue # <<>>
  <2>1. dbQueue \in Seq(DbRequests)
    BY DEF TypeOK
  <2>2. Len(dbQueue) = 1 /\ dbQueue[1].hash = session.hash
    BY <1>2 DEF DbDiscipline, DbOneRequest
  <2>3. DOMAIN dbQueue = {1}
    BY <2>1, <2>2
  <2>4. QED
    BY <2>2, <2>3
<1>3. QED
  BY <1>1, <1>2

\* A database request is handled in the session it was pushed for, and while
\* the queue is served no second one waits behind it.
THEOREM RequestsCurrent == Spec => []DbRequestsCurrent
<1>1. Init => DbDiscipline
  BY InitDb
<1>2. TypeOK /\ DbDiscipline /\ [Next]_vars => DbDiscipline'
  BY NextDb
<1>3. QED
  BY <1>1, <1>2, DisciplineShows, TypeCorrect, PTL DEF Spec
=============================================================================
