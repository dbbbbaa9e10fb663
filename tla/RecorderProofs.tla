--------------------------- MODULE RecorderProofs ---------------------------
(***************************************************************************)
(* What holds of the whole program on one database file, for every number  *)
(* of connections, hashes, devices, runs and sessions, as long as pushes   *)
(* on the database queue succeed: the queues bring the tables their        *)
(* requests in order, and the theorems about the tables hold here.         *)
(***************************************************************************)
EXTENDS Recorder, SessionProofs

\* The theorems about the tables, for the tables of this program.
T == INSTANCE DatabaseProofs WITH
  QueryFails <- FALSE, Refuses <- Strict,
  phase <- Phase, current <- session.hash, ended <- session.ended,
  serving <- dbServing

-----------------------------------------------------------------------------
(* The phase *)

Boots == Pending({"PrepareData"}) \/ DbHolds({"InitDatabase"})
Adds == DbHolds({"AddDevice"})
Sets == DbHolds({"AddSession"})

LEMMA PhaseIs ==
  /\ exited => Phase = "off"
  /\ ~exited /\ Boots => Phase = "InitDatabase"
  /\ ~exited /\ ~Boots /\ Adds => Phase = "AddDevice"
  /\ ~exited /\ ~Boots /\ ~Adds /\ Sets => Phase = "AddSession"
  /\ ~exited /\ ~Boots /\ ~Adds /\ ~Sets => Phase = "recording"
  BY DEF Phase, Boots, Adds, Sets

LEMMA PhaseNextIs ==
  /\ exited' => Phase' = "off"
  /\ ~exited' /\ Boots' => Phase' = "InitDatabase"
  /\ ~exited' /\ ~Boots' /\ Adds' => Phase' = "AddDevice"
  /\ ~exited' /\ ~Boots' /\ ~Adds' /\ Sets' => Phase' = "AddSession"
  /\ ~exited' /\ ~Boots' /\ ~Adds' /\ ~Sets' => Phase' = "recording"
  BY DEF Phase, Boots, Adds, Sets

LEMMA PhaseKept ==
  ASSUME exited' <=> exited, Boots' <=> Boots, Adds' <=> Adds, Sets' <=> Sets
  PROVE  Phase' = Phase
  BY PhaseIs, PhaseNextIs

-----------------------------------------------------------------------------
(* The tables' steps *)

LEMMA SameInit == DB!Init <=> T!Init
  BY DEF DB!Init, T!Init

LEMMA SameRuns ==
  /\ \A d, i, r : DB!StartProgram(d, i, r) = T!StartProgram(d, i, r)
  /\ DB!StopProgram = T!StopProgram
<1>1. \A d, i, r : DB!StartProgram(d, i, r) = T!StartProgram(d, i, r)
  BY DEF DB!StartProgram, T!StartProgram
<1>2. DB!StopProgram = T!StopProgram
  BY DEF DB!StopProgram, T!StopProgram, DB!file, T!file
<1>3. QED
  BY <1>1, <1>2

LEMMA SameHandlers ==
  /\ DB!InitDatabase = T!InitDatabase /\ DB!AddDevice = T!AddDevice
  /\ \A h : DB!SetSession(h) = T!SetSession(h)
  /\ DB!AddSession = T!AddSession /\ DB!EndSession = T!EndSession /\ DB!AddData = T!AddData
<1> USE DEF DB!Handles, T!Handles, DB!Returns, T!Returns, DB!Results, T!Results
<1>1. DB!InitDatabase = T!InitDatabase
  BY DEF DB!InitDatabase, T!InitDatabase, DB!DropTables, T!DropTables
<1>2. DB!AddDevice = T!AddDevice
  BY DEF DB!AddDevice, T!AddDevice, DB!NextId, T!NextId, DB!WithoutHash, T!WithoutHash
<1>3. \A h : DB!SetSession(h) = T!SetSession(h)
  BY DEF DB!SetSession, T!SetSession, DB!file, T!file
<1>4. DB!AddSession = T!AddSession
  BY DEF DB!AddSession, T!AddSession, DB!NextId, T!NextId, DB!WithoutHash, T!WithoutHash,
     DB!DeviceIds, T!DeviceIds
<1>5. DB!EndSession = T!EndSession
  BY DEF DB!EndSession, T!EndSession, DB!Stamped, T!Stamped
<1>6. DB!AddData = T!AddData
  BY DEF DB!AddData, T!AddData, DB!OpenSessions, T!OpenSessions, DB!process, T!process
<1>7. QED
  BY <1>1, <1>2, <1>3, <1>4, <1>5, <1>6

LEMMA SameNext == [DB!Next]_(DB!vars) <=> [T!Next]_(T!vars)
<1>1. DB!Next <=> T!Next
  BY SameRuns, SameHandlers DEF DB!Next, T!Next
<1>2. UNCHANGED DB!vars <=> UNCHANGED T!vars
  BY DEF DB!vars, T!vars, DB!file, T!file, DB!process, T!process
<1>3. QED
  BY <1>1, <1>2

-----------------------------------------------------------------------------
(* The event loop, run after run *)

LoopInv == TypeOK /\ DbDiscipline /\ AttributionInv

LEMMA InitLoop == Init => LoopInv
  BY InitType, InitDb, InitAttribution DEF LoopInv

\* A start is the event loop's initial state.
LEMMA StartIs ==
  ASSUME NEW d, NEW init, NEW removed, Start(d, init, removed)
  PROVE  Init'
  BY DatabaseAssumption DEF Start, Init

\* What an end leaves is read by nobody.
LEMMA ExitLoop ==
  ASSUME LoopInv, Exit
  PROVE  LoopInv'
<1>1. UNCHANGED <<queue, dispatching, dbQueue, dbServing, dbTurn, link, session, timers, lane>>
      /\ exited' = TRUE
  BY DEF Exit, loop
<1>2. TypeOK'
  BY <1>1 DEF LoopInv, TypeOK, link, timers, lane
<1>3. DbDiscipline'
  BY <1>1 DEF LoopInv, DbDiscipline, Booting, DbOneRequest, Pending, link, timers
<1>4. AttributionInv'
  BY <1>1, AsideAttribution DEF LoopInv
<1>5. QED
  BY <1>2, <1>3, <1>4 DEF LoopInv

\* A step is a start, an end, or a step of the event loop.
LEMMA StepIs ==
  ASSUME [RecorderNext]_everything
  PROVE  \/ \E d \in Device, init, removed \in BOOLEAN : Start(d, init, removed)
         \/ Crash
         \/ [Next]_vars
<1>1. ASSUME NEW c \in Conn, Grant(c) PROVE Next
  BY <1>1 DEF Grant, Next
<1>2. RecorderDispatch => Next
  BY DEF RecorderDispatch, TakeSession, Other, Next, Dispatch
<1>3. Store => Next
  BY DEF Store, Next, DbStep
<1>4. Event => Next
  BY DEF Event, Next
<1>5. UNCHANGED everything => UNCHANGED vars
  BY DEF everything
<1>6. QED
  BY <1>1, <1>2, <1>3, <1>4, <1>5 DEF RecorderNext

LEMMA LoopKept ==
  ASSUME LoopInv, [RecorderNext]_everything
  PROVE  LoopInv'
<1>1. CASE \E d \in Device, init, removed \in BOOLEAN : Start(d, init, removed)
  <2>1. Init'
    BY <1>1, StartIs
  <2>2. Init' => LoopInv'
    BY InitLoop, PTL
  <2>3. QED
    BY <2>1, <2>2
<1>2. CASE Crash
  BY <1>2, ExitLoop DEF Crash
<1>3. CASE [Next]_vars
  BY <1>3, NextType, NextDb, NextAttribution DEF LoopInv
<1>4. QED
  BY <1>1, <1>2, <1>3, StepIs

LEMMA LoopAtFirst == RecorderInit => LoopInv
<1> SUFFICES ASSUME RecorderInit PROVE LoopInv
  OBVIOUS
<1>1. queue = <<>> /\ dbQueue = <<>> /\ queue \in Seq(Requests) /\ dbQueue \in Seq(DbRequests)
  BY DEF RecorderInit
<1>2. peer \in [Conn -> Peers]
  BY DEF RecorderInit, Peers, Idle, MaybeHash
<1>3. TypeOK
  BY <1>1, <1>2 DEF RecorderInit, TypeOK, MaybeHash
<1>4. DbDiscipline
  BY <1>1 DEF DbDiscipline, Booting, DbOneRequest, Pending
<1>5. AttributionInv
  BY <1>1 DEF RecorderInit, AttributionInv, LinkInv, SampledInv
<1>6. QED
  BY <1>3, <1>4, <1>5 DEF LoopInv

-----------------------------------------------------------------------------
(* What is granted has a hash *)

\* A session that is granted has a hash, and data that waits, or that the monitor
\* may send, finds that of a session.
GrantedInv ==
  /\ \A i \in DOMAIN queue : queue[i].action = "SetSession" => queue[i].hash \in Hash
  /\ \A i \in DOMAIN queue : queue[i].action = "ProcessData" =>
       session.hash # NoHash \/ \E j \in 1 .. i - 1 : queue[j].action = "SetSession"
  /\ \A c \in sources : peer[c].hash # NoHash =>
       session.hash # NoHash \/ Pending({"SetSession"})

LEMMA DispatchGranted ==
  ASSUME LoopInv, GrantedInv, Dispatch
  PROVE  GrantedInv'
<1>1. CASE Exit
  <2>1. UNCHANGED <<queue, session, sources, peer>>
    BY <1>1 DEF Exit, loop, link
  <2>2. QED
    BY <2>1 DEF GrantedInv, Pending
<1>2. CASE ~Exit
  <2>1. /\ queue \in Seq(Requests) /\ queue # <<>> /\ Handled
        /\ session'.hash = IF Head(queue).action = "SetSession"
                           THEN Head(queue).hash ELSE session.hash
    BY <1>2, DispatchHandled DEF LoopInv, TypeOK
  <2> DEFINE n == Len(queue)
  <2>2. /\ queue' \in Seq(Requests) /\ Len(queue') >= n - 1
        /\ \A k \in 1 .. n - 1 : queue'[k] = queue[k + 1]
        /\ \A k \in n .. Len(queue') : queue'[k].action \in Quiet
        /\ n \in Nat \ {0} /\ Head(queue) = queue[1] /\ DOMAIN queue = 1 .. n
    BY <2>1, HandledQueue
  <2> HIDE DEF n
  <2>3. DOMAIN queue' = 1 .. Len(queue') /\ Len(queue') \in Nat
    BY <2>2
  <2>4. \A i \in DOMAIN queue' : queue'[i].action \notin Quiet =>
          i \in 1 .. n - 1 /\ i + 1 \in DOMAIN queue /\ queue'[i] = queue[i + 1]
    BY <2>2, <2>3
  <2>5. "SetSession" \notin Quiet /\ "ProcessData" \notin Quiet
    BY DEF Quiet
  <2>6. queue[1].action = "SetSession" => session'.hash # NoHash
    BY <2>1, <2>2, HashAssumption DEF GrantedInv
  <2>7. session.hash # NoHash => session'.hash # NoHash
    BY <2>1, <2>2, <2>6
  <2>8. \A j \in DOMAIN queue : queue[j].action = "SetSession" =>
          \/ session'.hash # NoHash
          \/ j - 1 \in DOMAIN queue' /\ queue'[j - 1] = queue[j]
    <3> SUFFICES ASSUME NEW j \in DOMAIN queue, queue[j].action = "SetSession",
                        session'.hash = NoHash
                 PROVE  j - 1 \in DOMAIN queue' /\ queue'[j - 1] = queue[j]
      OBVIOUS
    <3>1. j # 1 /\ j \in 1 .. n
      BY <2>2, <2>6
    <3>2. j - 1 \in 1 .. n - 1 /\ (j - 1) + 1 = j
      BY <2>2, <3>1
    <3>3. QED
      BY <2>2, <2>3, <3>2
  <2>9. ASSUME NEW i \in DOMAIN queue', queue'[i].action = "ProcessData", session'.hash = NoHash
        PROVE  \E j \in 1 .. i - 1 : queue'[j].action = "SetSession"
    <3>1. i \in 1 .. n - 1 /\ i + 1 \in DOMAIN queue /\ queue'[i] = queue[i + 1]
      BY <2>4, <2>5, <2>9
    <3>2. PICK j \in 1 .. (i + 1) - 1 : queue[j].action = "SetSession"
      BY <2>7, <2>9, <3>1 DEF GrantedInv
    <3>3. j \in DOMAIN queue
      BY <2>2, <3>1
    <3>4. j - 1 \in DOMAIN queue' /\ queue'[j - 1] = queue[j]
      BY <2>8, <2>9, <3>2, <3>3
    <3>5. j - 1 \in 1 .. i - 1
      BY <2>3, <3>1, <3>2, <3>4
    <3>6. QED
      BY <3>2, <3>4, <3>5
  <2>10. \A i \in DOMAIN queue' : queue'[i].action = "SetSession" => queue'[i].hash \in Hash
    BY <2>4, <2>5 DEF GrantedInv
  <2>11. ASSUME NEW c \in sources', peer'[c].hash # NoHash, session'.hash = NoHash
         PROVE  Pending({"SetSession"})'
    <3>1. c \in sources /\ peer'[c].hash = peer[c].hash
      BY <2>11, DispatchLink DEF LoopInv, AttributionInv, Ungranted
    <3>2. PICK j \in DOMAIN queue : queue[j].action = "SetSession"
      BY <2>7, <2>11, <3>1 DEF GrantedInv, Pending
    <3>3. j - 1 \in DOMAIN queue' /\ queue'[j - 1] = queue[j]
      BY <2>8, <2>11, <3>2
    <3>4. QED
      BY <3>2, <3>3 DEF Pending
  <2>12. QED
    BY <2>9, <2>10, <2>11 DEF GrantedInv
<1>3. QED
  BY <1>1, <1>2

\* A request joins the queue, or none does, and no hash is granted but by it.
LEMMA PushGranted ==
  ASSUME LoopInv, GrantedInv, NEW rq \in Requests, Push(rq), session'.hash = session.hash,
         rq.action = "SetSession" => rq.hash \in Hash,
         rq.action # "SetSession" => Ungranted,
         rq.action = "ProcessData" => session.hash # NoHash \/ Pending({"SetSession"})
  PROVE  GrantedInv'
<1> DEFINE n == Len(queue)
<1>1. /\ queue' \in Seq(Requests) /\ Len(queue') = n + 1 /\ n \in Nat
      /\ DOMAIN queue = 1 .. n /\ DOMAIN queue' = 1 .. n + 1
      /\ queue'[n + 1] = rq
      /\ \A k \in 1 .. n : queue'[k] = queue[k]
  BY DEF Push, LoopInv, TypeOK
<1> HIDE DEF n
<1>2. \A i \in DOMAIN queue' : \/ i = n + 1 /\ queue'[i] = rq
                               \/ i \in DOMAIN queue /\ queue'[i] = queue[i]
  BY <1>1
<1>3. \A i \in DOMAIN queue' : queue'[i].action = "SetSession" => queue'[i].hash \in Hash
  BY <1>2 DEF GrantedInv
<1>4. ASSUME NEW i \in DOMAIN queue', queue'[i].action = "ProcessData", session'.hash = NoHash
      PROVE  \E j \in 1 .. i - 1 : queue'[j].action = "SetSession"
  <2>1. PICK j \in DOMAIN queue : j \in 1 .. i - 1 /\ queue[j].action = "SetSession"
    <3>1. CASE i = n + 1 /\ queue'[i] = rq
      <4>1. PICK j \in DOMAIN queue : queue[j].action = "SetSession"
        BY <1>4, <3>1 DEF Pending
      <4>2. j \in 1 .. i - 1
        BY <1>1, <3>1
      <4>3. QED
        BY <4>1, <4>2
    <3>2. CASE i \in DOMAIN queue /\ queue'[i] = queue[i]
      <4>1. PICK j \in 1 .. i - 1 : queue[j].action = "SetSession"
        BY <1>4, <3>2 DEF GrantedInv
      <4>2. j \in DOMAIN queue
        BY <1>1, <3>2
      <4>3. QED
        BY <4>1, <4>2
    <3>3. QED
      BY <1>2, <3>1, <3>2
  <2>2. queue'[j] = queue[j]
    BY <1>1
  <2>3. QED
    BY <2>1, <2>2
<1>5. Pending({"SetSession"}) \/ rq.action = "SetSession" => Pending({"SetSession"})'
  BY PendingPush DEF LoopInv, TypeOK
<1>6. ASSUME NEW c \in sources', peer'[c].hash # NoHash, session'.hash = NoHash
      PROVE  Pending({"SetSession"})'
  BY <1>5, <1>6 DEF GrantedInv, Ungranted
<1>7. QED
  BY <1>3, <1>4, <1>6 DEF GrantedInv

LEMMA AsideGranted ==
  ASSUME GrantedInv, queue' = queue, session'.hash = session.hash,
         \A c \in sources' : peer'[c].hash # NoHash => c \in sources /\ peer'[c].hash = peer[c].hash
  PROVE  GrantedInv'
  BY DEF GrantedInv, Pending

\* A connection that is no event source any more can send nothing.
LEMMA UnregisteredUngranted ==
  ASSUME TypeOK, NEW c \in Conn, Unregistered(c), orphaned' = orphaned
  PROVE  Ungranted
  BY DEF Unregistered, Ungranted, TypeOK

LEMMA DropGranted ==
  ASSUME LoopInv, GrantedInv, DropConnection, session' = session
  PROVE  GrantedInv'
<1>1. /\ Unregistered(conn) /\ conn \in Conn /\ conn \notin sources \ {conn}
      /\ queue' = queue \/ Push(Rq("Reconnect"))
      /\ orphaned' = orphaned
  BY DEF DropConnection, ResetConnection, LoopInv, TypeOK
<1>2. Ungranted
  BY <1>1, UnregisteredUngranted DEF LoopInv
<1>3. Rq("Reconnect") \in Requests /\ Rq("Reconnect").action = "Reconnect"
  BY RqType DEF Actions, Rq
<1>4. QED
  BY <1>1, <1>2, <1>3, PushGranted, AsideGranted DEF Ungranted

LEMMA EventGranted ==
  ASSUME LoopInv, GrantedInv, NEW c \in Conn,
         ReceiveSession(c) \/ ReceiveData(c) \/ ReceiveStatus(c) \/ ConnectionLost(c)
  PROVE  GrantedInv'
<1>1. CASE ReceiveSession(c)
  <2>1. PICK h \in Hash, fit \in {TRUE, ~Strict} :
          Receive(c, [action |-> "SetSession", hash |-> h, fit |-> fit])
    BY <1>1 DEF ReceiveSession
  <2> DEFINE rq == [action |-> "SetSession", hash |-> h, fit |-> fit]
  <2>2. rq \in Requests /\ rq.action = "SetSession" /\ rq.hash = h
    BY OptionAssumption DEF Requests, Actions, MaybeHash
  <2> HIDE DEF rq
  <2>3. Push(rq) /\ session' = session
    BY <2>1 DEF Receive, rq
  <2>4. QED
    BY <2>2, <2>3, PushGranted
<1>2. CASE ReceiveData(c)
  <2> DEFINE rq == [action |-> "ProcessData", hash |-> peer[c].hash, fit |-> TRUE]
  <2>1. rq \in Requests /\ rq.action = "ProcessData"
    BY DEF Requests, Actions, LoopInv, TypeOK, Peers
  <2> HIDE DEF rq
  <2>2. /\ c \in sources /\ peer[c].hash # NoHash /\ Push(rq)
        /\ UNCHANGED <<session, orphaned, sources, peer>>
    BY <1>2 DEF ReceiveData, Receive, rq
  <2>3. Ungranted /\ (session.hash # NoHash \/ Pending({"SetSession"}))
    BY <2>2 DEF Ungranted, GrantedInv
  <2>4. QED
    BY <2>1, <2>2, <2>3, PushGranted
<1>3. CASE ReceiveStatus(c)
  <2>1. PICK fit \in BOOLEAN :
          Receive(c, [action |-> "Status", hash |-> NoHash, fit |-> fit])
    BY <1>3 DEF ReceiveStatus
  <2> DEFINE rq == [action |-> "Status", hash |-> NoHash, fit |-> fit]
  <2>2. rq \in Requests /\ rq.action = "Status"
    BY DEF Requests, Actions, MaybeHash
  <2> HIDE DEF rq
  <2>3. Push(rq) /\ UNCHANGED <<session, orphaned, sources, peer>>
    BY <1>3, <2>1 DEF ReceiveStatus, Receive, rq
  <2>4. QED
    BY <2>2, <2>3, PushGranted DEF Ungranted
<1>4. CASE ConnectionLost(c)
  <2>1. Push(Rq("Reconnect")) /\ Unregistered(c) /\ UNCHANGED <<session, orphaned>>
    BY <1>4 DEF ConnectionLost
  <2>2. Rq("Reconnect") \in Requests /\ Rq("Reconnect").action = "Reconnect"
    BY RqType DEF Actions, Rq
  <2>3. QED
    BY <2>1, <2>2, UnregisteredUngranted, PushGranted DEF LoopInv
<1>5. QED
  BY <1>1, <1>2, <1>3, <1>4

LEMMA GrantedKept ==
  ASSUME LoopInv, GrantedInv, [RecorderNext]_everything
  PROVE  GrantedInv'
<1>1. CASE \E d \in Device, init, removed \in BOOLEAN : Start(d, init, removed)
  <2>1. queue' = <<Rq("PrepareData")>> /\ sources' = {}
    BY <1>1 DEF Start
  <2>2. \A i \in DOMAIN queue' : queue'[i].action = "PrepareData"
    BY <2>1 DEF Rq
  <2>3. QED
    BY <2>1, <2>2 DEF GrantedInv
<1>2. CASE Crash
  <2>1. UNCHANGED <<queue, session, sources, peer>>
    BY <1>2 DEF Crash, Exit, loop, link
  <2>2. QED
    BY <2>1, AsideGranted
<1>3. CASE Dispatch
  BY <1>3, DispatchGranted
<1>4. CASE DbStep
  <2>1. UNCHANGED <<queue, link>>
    BY <1>4 DEF DbStep, CheckDatabase, InitDatabase, AddDevice, AddSession, EndSession,
       AddData, DbHandles
  <2>2. session'.hash = session.hash
    BY <1>4 DEF DbStep, CheckDatabase, InitDatabase, AddDevice, AddSession, EndSession,
       AddData, LoopInv, TypeOK
  <2>3. QED
    BY <2>1, <2>2, AsideGranted DEF link
<1>5. ASSUME NEW c \in Conn,
             ReceiveSession(c) \/ ReceiveData(c) \/ ReceiveStatus(c) \/ ConnectionLost(c)
      PROVE  GrantedInv'
  BY <1>5, EventGranted
<1>6. CASE SessionTimerExpires \/ InactivityTick
  <2>1. session' = session /\ (UNCHANGED <<queue, link>> \/ DropConnection)
    BY <1>6 DEF SessionTimerExpires, InactivityTick
  <2>2. QED
    BY <2>1, DropGranted, AsideGranted DEF link
<1>7. CASE UNCHANGED vars
  <2>1. UNCHANGED <<queue, link, session>>
    BY <1>7 DEF vars, loop
  <2>2. QED
    BY <2>1, AsideGranted DEF link
<1>8. QED
  BY <1>1, <1>2, <1>3, <1>4, <1>5, <1>6, <1>7, StepIs DEF Next

-----------------------------------------------------------------------------
(* The queues bring the tables their requests in order *)

LEMMA DbHoldsAppend ==
  ASSUME dbQueue \in Seq(DbRequests), NEW r \in DbRequests, dbQueue' = Append(dbQueue, r), NEW A
  PROVE  DbHolds(A)' <=> DbHolds(A) \/ r.action \in A
<1> DEFINE n == Len(dbQueue)
<1>1. /\ n \in Nat /\ DOMAIN dbQueue = 1 .. n /\ DOMAIN dbQueue' = 1 .. n + 1
      /\ dbQueue'[n + 1] = r
      /\ \A i \in 1 .. n : dbQueue'[i] = dbQueue[i]
  OBVIOUS
<1> HIDE DEF n
<1>2. \A i \in DOMAIN dbQueue' : i = n + 1 \/ i \in DOMAIN dbQueue
  BY <1>1
<1>3. n + 1 \in DOMAIN dbQueue' /\ \A i \in DOMAIN dbQueue : i \in DOMAIN dbQueue'
  BY <1>1
<1>4. QED
  BY <1>1, <1>2, <1>3 DEF DbHolds

LEMMA DbHoldsTail ==
  ASSUME dbQueue \in Seq(DbRequests), dbQueue # <<>>, dbQueue' = Tail(dbQueue), NEW A,
         Head(dbQueue).action \notin A
  PROVE  DbHolds(A)' <=> DbHolds(A)
<1> DEFINE n == Len(dbQueue)
<1>1. /\ n \in Nat \ {0} /\ DOMAIN dbQueue = 1 .. n /\ DOMAIN dbQueue' = 1 .. n - 1
      /\ Head(dbQueue) = dbQueue[1]
      /\ \A i \in 1 .. n - 1 : dbQueue'[i] = dbQueue[i + 1]
  OBVIOUS
<1> HIDE DEF n
<1>2. ASSUME NEW i \in DOMAIN dbQueue, dbQueue[i].action \in A PROVE DbHolds(A)'
  <2>1. i # 1
    BY <1>1, <1>2
  <2>2. i - 1 \in 1 .. n - 1 /\ (i - 1) + 1 = i
    BY <1>1, <2>1
  <2>3. QED
    BY <1>1, <1>2, <2>2 DEF DbHolds
<1>3. ASSUME NEW i \in DOMAIN dbQueue', dbQueue'[i].action \in A PROVE DbHolds(A)
  <2>1. i + 1 \in DOMAIN dbQueue
    BY <1>1
  <2>2. QED
    BY <1>1, <1>3, <2>1 DEF DbHolds
<1>4. QED
  BY <1>2, <1>3 DEF DbHolds

\* What the handlers but PrepareData and SetSession push on the database queue.
DbPushed ==
  \/ dbQueue' = dbQueue
  \/ \E a \in {"EndSession", "AddData"} :
       dbQueue' = Append(dbQueue, [action |-> a, hash |-> session.hash])

LEMMA OtherPushed ==
  ASSUME TypeOK, Other, ~Exit, ~PrepareData
  PROVE  /\ DbPushed /\ dbServing' = dbServing /\ exited' = exited
         /\ session'.hash = session.hash /\ session'.ended = session.ended
         /\ Dispatch /\ Head(queue).action # "PrepareData"
         /\ \E a \in Actions \ {"PrepareData"} : Then(<<>>) \/ Then(<<Rq(a)>>)
<1> USE DEF DbPush, NoDbPush, DbAfter, DbPushed
<1>1. {"Reconnect", "Quit", "SendDescriptor", "RequestSession"} \subseteq Actions \ {"PrepareData"}
  BY DEF Actions
<1>2. CASE Connect
  <2>1. DbPushed /\ UNCHANGED <<dbServing, exited, session>>
    BY <1>2 DEF Connect
  <2>2. \E a \in Actions \ {"PrepareData"} : Then(<<>>) \/ Then(<<Rq(a)>>)
    BY <1>1, <1>2 DEF Connect, TryConnect
  <2>3. QED
    BY <1>2, <2>1, <2>2 DEF Dispatch, Connect, Turn
<1>3. ASSUME NEW up \in BOOLEAN, Reconnect(up)
      PROVE  /\ DbPushed /\ UNCHANGED <<dbServing, exited, session>>
             /\ Dispatch /\ Head(queue).action # "PrepareData"
             /\ \E a \in Actions \ {"PrepareData"} : Then(<<>>) \/ Then(<<Rq(a)>>)
  <2>1. DbPushed /\ UNCHANGED <<dbServing, exited, session>>
    BY <1>3 DEF Reconnect
  <2>2. \E a \in Actions \ {"PrepareData"} : Then(<<>>) \/ Then(<<Rq(a)>>)
    BY <1>1, <1>3 DEF Reconnect, TryConnect
  <2>3. QED
    BY <1>3, <2>1, <2>2 DEF Dispatch, Reconnect, Turn
<1>4. CASE SendDescriptor
  <2>1. DbPushed /\ UNCHANGED <<dbServing, exited, session>>
    BY <1>4 DEF SendDescriptor
  <2>2. \E a \in Actions \ {"PrepareData"} : Then(<<>>) \/ Then(<<Rq(a)>>)
    BY <1>1, <1>4 DEF SendDescriptor
  <2>3. QED
    BY <1>4, <2>1, <2>2 DEF Dispatch, SendDescriptor, Turn
<1>5. CASE RequestSession
  <2>1. DbPushed /\ UNCHANGED <<dbServing, exited>>
    BY <1>5 DEF RequestSession
  <2>2. session'.hash = session.hash /\ session'.ended = session.ended
    BY <1>5 DEF RequestSession, ArmSessionTimer, TypeOK
  <2>3. Then(<<>>)
    BY <1>5 DEF RequestSession
  <2>4. QED
    BY <1>1, <1>5, <2>1, <2>2, <2>3 DEF Dispatch, RequestSession, Turn
<1>6. CASE StartStream \/ ProcessData \/ (Status /\ ~Exit)
  <2>1. DbPushed /\ UNCHANGED <<dbServing, exited, session>>
    BY <1>6 DEF StartStream, ProcessData, Status
  <2>2. Then(<<>>)
    BY <1>6 DEF StartStream, ProcessData, Status
  <2>3. QED
    BY <1>1, <1>6, <2>1, <2>2 DEF Dispatch, StartStream, ProcessData, Status, Turn
<1>7. QED
  BY <1>2, <1>3, <1>4, <1>5, <1>6 DEF Other, Throw, Quit

\* A step that pushes nothing the phase depends on.
LEMMA QuietPhase ==
  ASSUME TypeOK, DbPushed, exited' = exited,
         Pending({"PrepareData"})' <=> Pending({"PrepareData"})
  PROVE  Phase' = Phase
<1>1. \A A \in SUBSET {"InitDatabase", "AddDevice", "AddSession"} : DbHolds(A)' <=> DbHolds(A)
  <2>1. CASE dbQueue' = dbQueue
    BY <2>1 DEF DbHolds
  <2>2. ASSUME NEW a \in {"EndSession", "AddData"},
               dbQueue' = Append(dbQueue, [action |-> a, hash |-> session.hash]),
               NEW A \in SUBSET {"InitDatabase", "AddDevice", "AddSession"}
        PROVE  DbHolds(A)' <=> DbHolds(A)
    <3> DEFINE r == [action |-> a, hash |-> session.hash]
    <3>1. r \in DbRequests /\ r.action = a /\ a \notin A
      BY DEF DbRequests, DbActions, TypeOK
    <3>2. QED
      BY <2>2, <3>1, DbHoldsAppend DEF TypeOK
  <2>3. QED
    BY <2>1, <2>2 DEF DbPushed
<1>2. (Boots' <=> Boots) /\ (Adds' <=> Adds) /\ (Sets' <=> Sets)
  BY <1>1 DEF Boots, Adds, Sets
<1>3. QED
  BY <1>2, PhaseKept

LEMMA OtherPhase ==
  ASSUME TypeOK, Other, ~Exit, ~PrepareData
  PROVE  Phase' = Phase
<1>1. /\ DbPushed /\ exited' = exited
      /\ Head(queue).action # "PrepareData"
      /\ \E a \in Actions \ {"PrepareData"} : Then(<<>>) \/ Then(<<Rq(a)>>)
  BY OtherPushed
<1>2. queue \in Seq(Requests) /\ queue # <<>>
  BY OtherPushed, DispatchHandled DEF TypeOK
<1>3. PICK a \in Actions \ {"PrepareData"} : Then(<<>>) \/ Then(<<Rq(a)>>)
  BY <1>1
<1>4. <<>> \in Seq(Requests) /\ <<Rq(a)>> \in Seq(Requests)
  BY RqType
<1>5. Pending({"PrepareData"}) => Pending({"PrepareData"})'
  BY <1>1, <1>2, <1>3, <1>4, PendingKept
<1>6. ~Pending({"PrepareData"}) => ~Pending({"PrepareData"})'
  BY <1>2, <1>3, NotPendingThen
<1>7. QED
  BY <1>1, <1>5, <1>6, QuietPhase

LEMMA StutterIs ==
  ASSUME UNCHANGED tables, Phase' = Phase, session'.hash = session.hash,
         session'.ended = session.ended, dbServing' = dbServing
  PROVE  UNCHANGED T!vars
  BY DEF tables, T!vars, T!file, T!process

LEMMA StopIs ==
  ASSUME Exit, UNCHANGED tables, ~exited
  PROVE  T!StopProgram
<1>1. Phase # "off" /\ Phase' = "off"
  BY PhaseIs, PhaseNextIs DEF Exit
<1>2. QED
  BY <1>1 DEF T!StopProgram, T!file, tables, Exit, loop

\* The first request of a run finds the database queue served and not yet asked for
\* anything.
LEMMA PreparePhase ==
  ASSUME PushResults = {TRUE}, TypeOK, PrepareData, dbServing
  PROVE  /\ Phase' = Phase /\ dbServing' /\ session' = session
         /\ dbQueue' = Append(dbQueue, [action |-> "InitDatabase", hash |-> session.hash])
<1> DEFINE r == [action |-> "InitDatabase", hash |-> session.hash]
<1>1. dbQueue' = Append(dbQueue, r) /\ UNCHANGED <<dbServing, session, exited>> /\ ~exited
  BY DatabaseAssumption DEF PrepareData, DbPush, DbAfter, Turn
<1>2. r \in DbRequests /\ r.action = "InitDatabase"
  BY DEF DbRequests, DbActions, TypeOK
<1>3. DbHolds({"InitDatabase"})'
  <2>1. dbQueue \in Seq(DbRequests)
    BY DEF TypeOK
  <2>2. QED
    BY <1>1, <1>2, <2>1, DbHoldsAppend
<1>4. Pending({"PrepareData"})
  BY HeadPending DEF PrepareData, Turn, TypeOK
<1>5. Boots /\ Boots'
  BY <1>3, <1>4 DEF Boots
<1>6. Phase = "InitDatabase" /\ Phase' = "InitDatabase"
  BY <1>1, <1>5, PhaseIs, PhaseNextIs
<1>7. QED
  BY <1>1, <1>6

LEMMA OtherSimulates ==
  ASSUME PushResults = {TRUE}, TypeOK, ~exited => dbServing, Other, UNCHANGED tables
  PROVE  [T!Next]_(T!vars)
<1>1. ~exited
  BY DEF Other, PrepareData, Connect, Reconnect, Throw, SendDescriptor, RequestSession,
     StartStream, ProcessData, Status, Quit, Turn
<1>2. CASE Exit
  BY <1>1, <1>2, StopIs DEF T!Next
<1>3. CASE PrepareData
  BY <1>1, <1>3, PreparePhase, StutterIs
<1>4. CASE ~Exit /\ ~PrepareData
  BY <1>4, OtherPushed, OtherPhase, StutterIs
<1>5. QED
  BY <1>2, <1>3, <1>4

\* CheckDatabase leaves the phase alone.
LEMMA CheckPhase ==
  ASSUME TypeOK, CheckDatabase
  PROVE  Phase' = Phase
<1>1. /\ dbQueue \in Seq(DbRequests) /\ dbQueue # <<>>
      /\ Head(dbQueue).action = "CheckDatabase" /\ dbQueue' = Tail(dbQueue)
      /\ queue' = queue /\ exited' = exited
  BY DEF CheckDatabase, DbHandles, TypeOK
<1>2. \A A \in SUBSET {"InitDatabase", "AddDevice", "AddSession"} : DbHolds(A)' <=> DbHolds(A)
  BY <1>1, DbHoldsTail
<1>3. (Boots' <=> Boots) /\ (Adds' <=> Adds) /\ (Sets' <=> Sets)
  BY <1>1, <1>2 DEF Boots, Adds, Sets, Pending
<1>4. QED
  BY <1>1, <1>3, PhaseKept

\* What the sockets and timers push leaves the phase alone.
LEMMA PushPhase ==
  ASSUME TypeOK, NEW rq \in Requests, queue' = queue \/ Push(rq), rq.action # "PrepareData",
         UNCHANGED <<dbQueue, exited>>
  PROVE  Phase' = Phase
<1>1. Pending({"PrepareData"}) => Pending({"PrepareData"})'
  BY PendingPush DEF TypeOK, Pending
<1>2. ~Pending({"PrepareData"}) => ~Pending({"PrepareData"})'
  BY NotPendingPush DEF TypeOK, Pending
<1>3. QED
  BY <1>1, <1>2, QuietPhase DEF DbPushed

LEMMA EventPhase ==
  ASSUME TypeOK, Event \/ \E c \in Conn : Grant(c)
  PROVE  Phase' = Phase /\ UNCHANGED <<dbServing, session>>
<1>1. ASSUME NEW c \in Conn,
             ReceiveSession(c) \/ ReceiveData(c) \/ ReceiveStatus(c) \/ ConnectionLost(c)
      PROVE  Phase' = Phase /\ UNCHANGED <<dbServing, session>>
  <2>1. UNCHANGED <<dbQueue, dbServing, session, exited>>
    BY <1>1 DEF ReceiveSession, ReceiveData, ReceiveStatus, ConnectionLost, Receive
  <2>2. QED
    BY <1>1, <2>1, EventPush, PushPhase
<1>2. CASE SessionTimerExpires \/ InactivityTick
  <2>1. UNCHANGED <<dbQueue, dbServing, session, exited>>
    BY <1>2 DEF SessionTimerExpires, InactivityTick
  <2>2. queue' = queue \/ Push(Rq("Reconnect"))
    BY <1>2 DEF SessionTimerExpires, InactivityTick, DropConnection
  <2>3. Rq("Reconnect") \in Requests /\ Rq("Reconnect").action # "PrepareData"
    BY RqType DEF Actions, Rq
  <2>4. QED
    BY <2>1, <2>2, <2>3, PushPhase
<1>3. QED
  BY <1>1, <1>2 DEF Event, Grant

LEMMA Simulates ==
  ASSUME PushResults = {TRUE}, LoopInv, GrantedInv, ~exited => dbServing,
         [RecorderNext]_everything
  PROVE  [T!Next]_(T!vars)
<1> USE DEF LoopInv
<1>1. ASSUME NEW d \in Device, NEW init \in BOOLEAN, NEW removed \in BOOLEAN,
             Start(d, init, removed)
      PROVE  [T!Next]_(T!vars)
  BY <1>1, SameRuns DEF Start, T!Next
<1>2. CASE Crash
  BY <1>2, SameRuns DEF Crash, T!Next
<1>3. CASE TakeSession
  <2>1. Head(queue) = queue[1] /\ 1 \in DOMAIN queue /\ Head(queue).action = "SetSession"
    BY <1>3 DEF TakeSession, SetSession, Turn, TypeOK
  <2>2. Head(queue).hash \in Hash
    BY <2>1 DEF GrantedInv
  <2>3. QED
    BY <1>3, <2>2, SameHandlers DEF TakeSession, T!Next
<1>4. CASE Other /\ UNCHANGED tables
  BY <1>4, OtherSimulates
<1>5. CASE Store
  <2>1. CASE CheckDatabase /\ UNCHANGED tables
    BY <2>1, CheckPhase, StutterIs DEF CheckDatabase
  <2>2. QED
    BY <1>5, <2>1, SameHandlers DEF Store, T!Next
<1>6. CASE (Event \/ \E c \in Conn : Grant(c)) /\ UNCHANGED tables
  BY <1>6, EventPhase, StutterIs
<1>7. CASE UNCHANGED everything
  <2>1. UNCHANGED <<vars, tables>> /\ UNCHANGED <<queue, dbQueue, dbServing, session, exited>>
    BY <1>7 DEF everything, vars, loop
  <2>2. Phase' = Phase
    BY <2>1, QuietPhase DEF DbPushed, Pending
  <2>3. QED
    BY <2>1, <2>2, StutterIs
<1>8. QED
  BY <1>1, <1>2, <1>3, <1>4, <1>5, <1>6, <1>7 DEF RecorderNext, RecorderDispatch

\* The event loop, what it is granted, and the tables as DatabaseProofs has them.
RecorderInv == LoopInv /\ GrantedInv /\ T!TablesInv

LEMMA Served == RecorderInv => (~exited => dbServing)
  BY PhaseIs DEF RecorderInv, T!TablesInv, T!Prepared

LEMMA InitRecorder == RecorderInit => RecorderInv
<1> SUFFICES ASSUME RecorderInit PROVE RecorderInv
  OBVIOUS
<1>1. LoopInv
  BY LoopAtFirst
<1>2. GrantedInv
  BY DEF RecorderInit, GrantedInv
<1>3. T!Init
  BY SameInit DEF RecorderInit
<1>4. T!TablesInv
  BY <1>3, T!InitTables, HashAssumption, OptionAssumption, RecorderAssumption
<1>5. QED
  BY <1>1, <1>2, <1>4 DEF RecorderInv

LEMMA NextRecorder ==
  ASSUME PushResults = {TRUE}, RecorderInv, [RecorderNext]_everything
  PROVE  RecorderInv' /\ [DB!Next]_(DB!vars)
<1>1. LoopInv' /\ GrantedInv'
  BY LoopKept, GrantedKept DEF RecorderInv
<1>2. [T!Next]_(T!vars)
  BY Simulates, Served DEF RecorderInv
<1>3. T!TablesInv'
  BY <1>2, T!NextTablesInv, HashAssumption, OptionAssumption, RecorderAssumption DEF RecorderInv
<1>4. QED
  BY <1>1, <1>2, <1>3, SameNext DEF RecorderInv

LEMMA RecorderHolds ==
  ASSUME PushResults = {TRUE}
  PROVE  RecorderSpec => []RecorderInv
<1>1. RecorderInv /\ [RecorderNext]_everything => RecorderInv'
  BY NextRecorder
<1>2. QED
  BY <1>1, InitRecorder, PTL DEF RecorderSpec

\* The event loop's queues, which carry no state and are filled by sockets and timers
\* in any order, bring the tables their requests in the order that Database takes
\* for granted, as long as pushes on the database queue succeed.
THEOREM OrderKept ==
  ASSUME PushResults = {TRUE}
  PROVE  RecorderSpec => RequestOrder
<1>1. RecorderInit => DB!Init
  BY DEF RecorderInit
<1>2. RecorderInv /\ [RecorderNext]_everything => [DB!Next]_(DB!vars)
  BY NextRecorder
<1>3. QED
  BY <1>1, <1>2, RecorderHolds, PTL DEF RecorderSpec, RequestOrder, DB!Spec

\* What is proved of the event loop holds of every run of the whole program.
LoopSafe == TypeOK /\ Attended /\ DbRequestsCurrent /\ Attributed /\ LanesCurrent

\* The event loop keeps its promises in every run of the whole program, whatever run
\* was killed before it: no lost wakeup, no connection without a deadline, database
\* requests and data in their own session, lanes of the current one.
THEOREM EveryRunSafe == RecorderSpec => []LoopSafe
<1> DEFINE Inv == LoopInv /\ Attended /\ LanesCurrent
<1>1. RecorderInit => Inv
  <2>1. RecorderInit => exited
    BY DEF RecorderInit
  <2>2. QED
    BY <2>1, LoopAtFirst DEF Attended, Recovers, Supervised, LanesCurrent
<1>2. Inv /\ [RecorderNext]_everything => Inv'
  <2> SUFFICES ASSUME LoopInv, Attended, LanesCurrent, [RecorderNext]_everything
               PROVE  (Attended /\ LanesCurrent)'
    BY LoopKept
  <2>1. CASE \E d \in Device, init, removed \in BOOLEAN : Start(d, init, removed)
    <3>1. Init'
      BY <2>1, StartIs
    <3>2. Init' => Attended'
      BY InitAttended, PTL
    <3>3. Init' => LanesCurrent'
      BY DEF Init, LanesCurrent
    <3>4. QED
      BY <3>1, <3>2, <3>3
  <2>2. CASE Crash
    BY <2>2 DEF Crash, Exit, Attended, Recovers, Supervised, LanesCurrent
  <2>3. CASE [Next]_vars
    BY <2>3, NextAttended, NextLanes DEF LoopInv
  <2>4. QED
    BY <2>1, <2>2, <2>3, StepIs
<1>3. Inv => LoopSafe
  BY AttributionShows, DisciplineShows DEF LoopInv, LoopSafe
<1>4. QED
  BY <1>1, <1>2, <1>3, PTL DEF RecorderSpec

\* In the whole program too, a failed write of a descriptor is all that ever leaves a
\* replaced connection registered, over any number of runs.
THEOREM OneConnectionInRuns ==
  RecorderSpec /\ [][Sent]_everything => [](SingleConnection /\ ~orphaned)
<1> DEFINE Inv == LoopInv /\ OnceInv
<1>1. RecorderInit => Inv
  <2> SUFFICES ASSUME RecorderInit PROVE OnceInv
    BY LoopAtFirst
  <2>1. queue = <<>> /\ sources = {} /\ ~orphaned
    BY DEF RecorderInit
  <2>2. QED
    BY <2>1 DEF OnceInv, Once
<1>2. Inv /\ [RecorderNext]_everything /\ [Sent]_everything => Inv'
  <2> SUFFICES ASSUME LoopInv, OnceInv, [RecorderNext]_everything, [Sent]_everything
               PROVE  OnceInv'
    BY LoopKept
  <2>1. CASE \E d \in Device, init, removed \in BOOLEAN : Start(d, init, removed)
    <3>1. Init'
      BY <2>1, StartIs
    <3>2. Init' => OnceInv'
      BY InitOnce, PTL
    <3>3. QED
      BY <3>1, <3>2
  <2>2. CASE Crash
    BY <2>2 DEF Crash, Exit, loop, link, OnceInv, Pending
  <2>3. CASE [Next]_vars
    <3>1. Sent \/ UNCHANGED vars
      BY DEF everything
    <3>2. QED
      BY <2>3, <3>1, NextOnce DEF LoopInv
  <2>4. QED
    BY <2>1, <2>2, <2>3, StepIs
<1>3. Inv => SingleConnection /\ ~orphaned
  BY DEF OnceInv, SingleConnection
<1>4. QED
  BY <1>1, <1>2, <1>3, PTL DEF RecorderSpec
=============================================================================
