-------------------------- MODULE UpdateLanesProofs --------------------------
(***************************************************************************)
(* What holds of the update lanes for every lane configuration a monitor   *)
(* may send and every behaviour of the event loop they run in.             *)
(***************************************************************************)
EXTENDS UpdateLanes, SessionProofs, NaturalsInduction, WellFoundedInduction

-----------------------------------------------------------------------------
(* The event loop underneath *)

LEMMA LanesOnReader == [LanesNext]_all => [Next]_vars
<1>1. StartStream \/ (\E up \in BOOLEAN : Reconnect(up)) => Next
  BY DEF Next, Dispatch
<1>2. Rest => Next
  BY DEF Rest, Next, Dispatch
<1>3. \A l \in Lanes : Tick(l) => UNCHANGED vars
  BY DEF Tick
<1>4. QED
  BY <1>1, <1>2, <1>3 DEF LanesNext, all

\* The lane timers add steps of their own to the event loop and change none of
\* its: what holds of Reader holds here (the timers' callbacks only write).
THEOREM LoopUnderneath == LanesSpec => Spec
<1>1. LanesInit => Init
  BY DEF LanesInit
<1>2. QED
  BY <1>1, LanesOnReader, PTL DEF LanesSpec, Spec

\* The callbacks other than the dispatcher's.
Elsewhere(c) == \/ DbStep \/ SessionTimerExpires \/ InactivityTick
                \/ ReceiveSession(c) \/ ReceiveData(c) \/ ReceiveStatus(c) \/ ConnectionLost(c)

\* A step starts the lanes, stops them, or leaves them and the list alone.
LEMMA LanesCases ==
  ASSUME [LanesNext]_all
  PROVE  \/ StartStream /\ Begin
         \/ (\E up \in BOOLEAN : Reconnect(up)) /\ End
         \/ /\ UNCHANGED <<lanes, strayLanes, held, stray, dataSources>>
            /\ \/ Dispatch /\ ~StartStream
               \/ \E c \in Conn : Elsewhere(c)
               \/ UNCHANGED vars
<1> DEFINE Handler == \/ PrepareData \/ Connect \/ Throw \/ SendDescriptor \/ RequestSession
                      \/ SetSession \/ ProcessData \/ Status \/ Quit
           Kept == UNCHANGED <<lanes, strayLanes, held, stray, dataSources>>
<1>1. ASSUME Handler PROVE Dispatch /\ ~StartStream /\ UNCHANGED lane
  <2>1. Dispatch
    BY <1>1 DEF Dispatch
  <2>2. Head(queue).action # "StartStream"
    BY <1>1 DEF PrepareData, Connect, Throw, SendDescriptor, RequestSession, SetSession,
       ProcessData, Status, Quit, Turn
  <2>3. ~StartStream
    BY <2>2 DEF StartStream, Turn
  <2>4. UNCHANGED lane
    BY <1>1 DEF PrepareData, Connect, Throw, SendDescriptor, RequestSession, SetSession,
       ProcessData, Status, Quit, Exit
  <2>5. QED
    BY <2>1, <2>3, <2>4
<1>2. \A c \in Conn : Elsewhere(c) => UNCHANGED lane
  BY DEF Elsewhere, DbStep, CheckDatabase, InitDatabase, AddDevice, AddSession, EndSession,
     AddData, DbHandles, SessionTimerExpires, InactivityTick, ReceiveSession, ReceiveData,
     ReceiveStatus, ConnectionLost, Receive
<1>3. Rest => Handler \/ \E c \in Conn : Elsewhere(c)
  BY ConnAssumption DEF Rest, Elsewhere
<1> HIDE DEF Handler
<1>4. CASE Rest /\ UNCHANGED polling
  <2>1. UNCHANGED <<held, stray, dataSources>>
    BY <1>4 DEF polling
  <2>2. UNCHANGED lane
    BY <1>1, <1>2, <1>3, <1>4
  <2>3. QED
    BY <1>1, <1>3, <1>4, <2>1, <2>2 DEF lane
<1>5. CASE (\E l \in Lanes : Tick(l)) \/ UNCHANGED all
  <2>1. UNCHANGED vars /\ UNCHANGED <<held, stray, dataSources>>
    BY <1>5 DEF Tick, all, polling
  <2>2. QED
    BY <2>1 DEF vars, lane
<1>6. QED
  BY <1>4, <1>5 DEF LanesNext

-----------------------------------------------------------------------------
(* A stream is only started for a session that was granted *)

\* The monitor grants sessions that have a hash, so the summary "no lanes" never
\* stands for lanes that were configured.
Granted ==
  /\ \A i \in DOMAIN queue : queue[i].action = "SetSession" => queue[i].hash # NoHash
  /\ Pending({"StartStream"}) => session.hash # NoHash

LEMMA InitGranted == Init => Granted
<1> SUFFICES ASSUME Init PROVE Granted
  OBVIOUS
<1>1. \A i \in DOMAIN queue : queue[i].action = "PrepareData"
  BY DEF Init, Rq
<1>2. QED
  BY <1>1 DEF Granted, Pending

LEMMA DispatchGranted ==
  ASSUME TypeOK, Granted, Dispatch
  PROVE  Granted'
<1>1. CASE Exit
  BY <1>1 DEF Exit, loop, Granted, Pending
<1>2. CASE ~Exit
  <2>1. /\ queue \in Seq(Requests) /\ queue # <<>> /\ Handled
        /\ session'.hash = IF Head(queue).action = "SetSession"
                           THEN Head(queue).hash ELSE session.hash
    BY <1>2, DispatchHandled DEF TypeOK
  <2>2. /\ queue' \in Seq(Requests)
        /\ \A k \in 1 .. Len(queue) - 1 : queue'[k] = queue[k + 1]
        /\ \A k \in Len(queue) .. Len(queue') : queue'[k].action \in Quiet
    BY <2>1, HandledQueue
  <2>3. \A i \in DOMAIN queue' : queue'[i].action = "SetSession" => queue'[i].hash # NoHash
    <3> SUFFICES ASSUME NEW i \in DOMAIN queue', queue'[i].action = "SetSession"
                 PROVE  queue'[i].hash # NoHash
      OBVIOUS
    <3>1. i \in 1 .. Len(queue') /\ Len(queue) \in Nat
      BY <2>1, <2>2
    <3>2. i \notin Len(queue) .. Len(queue')
      BY <2>2 DEF Quiet
    <3>3. i \in 1 .. Len(queue) - 1 /\ i + 1 \in 1 .. Len(queue)
      BY <3>1, <3>2
    <3>4. i + 1 \in DOMAIN queue /\ queue'[i] = queue[i + 1]
      BY <2>1, <2>2, <3>3
    <3>5. QED
      BY <3>4 DEF Granted
  <2>4. CASE Head(queue).action = "SetSession"
    <3>1. 1 \in DOMAIN queue /\ Head(queue) = queue[1]
      BY <2>1
    <3>2. session'.hash # NoHash
      BY <2>1, <2>4, <3>1 DEF Granted
    <3>3. QED
      BY <2>3, <3>2 DEF Granted
  <2>5. CASE Head(queue).action # "SetSession"
    <3>1. session'.hash = session.hash
      BY <2>1, <2>5
    <3>2. \E a \in Actions \ {"StartStream"} : Then(<<>>) \/ Then(<<Rq(a)>>)
      BY <1>2, <2>5 DEF Dispatch, PrepareData, Connect, Reconnect, TryConnect, Throw,
         SendDescriptor, RequestSession, SetSession, StartStream, ProcessData, Status, Quit,
         Turn, Actions
    <3>3. ~Pending({"StartStream"}) => ~Pending({"StartStream"})'
      BY <2>1, <3>2, NotPendingThen
    <3>4. QED
      BY <2>3, <3>1, <3>3 DEF Granted
  <2>6. QED
    BY <2>4, <2>5
<1>3. QED
  BY <1>1, <1>2

\* What joins the queue from elsewhere.
LEMMA ElsewherePush ==
  ASSUME TypeOK, NEW c \in Conn, Elsewhere(c)
  PROVE  \/ queue' = queue
         \/ \E rq \in Requests :
              /\ Push(rq)
              /\ rq.action \in {"SetSession", "ProcessData", "Status", "Reconnect"}
              /\ rq.action = "SetSession" => rq.hash \in Hash
<1>1. CASE ReceiveSession(c) \/ ReceiveData(c) \/ ReceiveStatus(c) \/ ConnectionLost(c)
  BY <1>1, EventPush
<1>2. CASE DbStep
  BY <1>2 DEF DbStep, CheckDatabase, InitDatabase, AddDevice, AddSession, EndSession,
     AddData, DbHandles
<1>3. CASE SessionTimerExpires \/ InactivityTick
  <2>1. queue' = queue \/ Push(Rq("Reconnect"))
    BY <1>3 DEF SessionTimerExpires, InactivityTick, DropConnection
  <2>2. Rq("Reconnect") \in Requests /\ Rq("Reconnect").action = "Reconnect"
    BY RqType DEF Actions, Rq
  <2>3. QED
    BY <2>1, <2>2
<1>4. QED
  BY <1>1, <1>2, <1>3 DEF Elsewhere

\* Nothing else asks for the stream or changes the session.
LEMMA ElsewhereGranted ==
  ASSUME TypeOK, Granted, NEW c \in Conn, Elsewhere(c)
  PROVE  Granted'
<1>1. session'.hash = session.hash
  <2>1. \/ session' = session
        \/ session' = [session EXCEPT !.ended = FALSE]
        \/ session' = [session EXCEPT !.ended = TRUE]
    BY DEF Elsewhere, DbStep, CheckDatabase, InitDatabase, AddDevice, AddSession, EndSession,
       AddData, SessionTimerExpires, InactivityTick, ReceiveSession, ReceiveData,
       ReceiveStatus, ConnectionLost, Receive
  <2>2. QED
    BY <2>1 DEF TypeOK
<1>2. CASE queue' = queue
  BY <1>1, <1>2 DEF Granted, Pending
<1>3. ASSUME NEW rq \in Requests, Push(rq), rq.action # "StartStream",
             rq.action = "SetSession" => rq.hash \in Hash
      PROVE  Granted'
  <2>1. queue \in Seq(Requests)
    BY DEF TypeOK
  <2>2. ~Pending({"StartStream"}) => ~Pending({"StartStream"})'
    BY <1>3, <2>1, NotPendingPush
  <2>3. \A i \in DOMAIN queue' : \/ i \in DOMAIN queue /\ queue'[i] = queue[i]
                               \/ queue'[i] = rq
    BY <1>3, <2>1 DEF Push
  <2>4. QED
    BY <1>1, <1>3, <2>2, <2>3, HashAssumption DEF Granted
<1>4. QED
  BY <1>2, <1>3, ElsewherePush

LEMMA GrantedKept == Spec => []Granted
<1>1. TypeOK /\ Granted /\ UNCHANGED vars => Granted'
  BY DEF Granted, Pending, vars, loop
<1>2. TypeOK /\ Granted /\ [Next]_vars => Granted'
  BY <1>1, DispatchGranted, ElsewhereGranted, ConnAssumption DEF Next, Elsewhere
<1>3. QED
  BY <1>2, InitGranted, TypeCorrect, PTL DEF Spec

-----------------------------------------------------------------------------
(* Reader's summary *)

LEMMA SummaryInit == LanesInit => SummaryAgrees
  BY DEF LanesInit, Init, SummaryAgrees

LEMMA SummaryNext ==
  ASSUME TypeOK, Granted, SummaryAgrees, [LanesNext]_all
  PROVE  SummaryAgrees'
<1> USE DEF SummaryAgrees
<1>1. CASE StartStream /\ Begin
  <2>1. queue \in Seq(Requests) /\ queue # <<>> /\ Head(queue).action = "StartStream"
    BY <1>1 DEF TypeOK, StartStream, Turn
  <2>2. session.hash # NoHash
    BY <2>1, HeadPending DEF Granted
  <2>3. lanes' # NoHash /\ held' = Lanes
    BY <1>1, <2>2 DEF StartStream, StartUpdateLanes, ConfigUpdateLanes, Begin
  <2>4. strayLanes' = (strayLanes \/ lanes # NoHash) /\ stray' = stray \cup held
    BY <1>1 DEF StartStream, StartUpdateLanes, Begin
  <2>5. QED
    BY <2>3, <2>4
<1>2. CASE (\E up \in BOOLEAN : Reconnect(up)) /\ End
  BY <1>2 DEF Reconnect, StopUpdateLanes, End
<1>3. CASE UNCHANGED <<lanes, strayLanes, held, stray, dataSources>>
  BY <1>3
<1>4. QED
  BY <1>1, <1>2, <1>3, LanesCases

\* The lane timers are started and stopped together, and the ones that nobody
\* holds are those that Reader counts as stray, whatever session a lost timer came
\* from (startUpdateLanes, stopUpdateLanes).
THEOREM SummaryKept == LanesSpec => []SummaryAgrees
<1>1. TypeOK /\ Granted /\ SummaryAgrees /\ [LanesNext]_all => SummaryAgrees'
  BY SummaryNext
<1>2. QED
  BY <1>1, SummaryInit, LoopUnderneath, TypeCorrect, GrantedKept, PTL DEF LanesSpec

-----------------------------------------------------------------------------
(* The list of data sources *)

LEMMA SourcesNext ==
  ASSUME TypeOK, SourcesCurrent, [LanesNext]_all
  PROVE  SourcesCurrent'
<1> SUFFICES ASSUME Streaming', FALSE \notin PushResults, (held \cup stray # {})'
             PROVE  dataSources' = Entries(session'.hash)
  BY DEF SourcesCurrent, Streaming, Stream
<1>1. Streaming /\ held \cup stray # {} => dataSources = Entries(session.hash)
  BY DEF SourcesCurrent, Streaming, Stream
<1>2. CASE StartStream /\ Begin
  BY <1>2 DEF StartStream, Begin, Configured
<1>3. CASE (\E up \in BOOLEAN : Reconnect(up)) /\ End
  <2>1. Dispatch /\ ~StartStream
    BY <1>3 DEF Dispatch, Reconnect, StartStream, Turn
  <2>2. Streaming /\ session'.hash = session.hash
    BY <2>1, DispatchStreaming
  <2>3. dataSources' = dataSources /\ held \cup stray # {}
    BY <1>3 DEF End
  <2>4. QED
    BY <1>1, <2>2, <2>3
<1>4. CASE UNCHANGED <<lanes, strayLanes, held, stray, dataSources>>
           /\ ((Dispatch /\ ~StartStream) \/ \E c \in Conn : Elsewhere(c))
  <2>1. Streaming /\ session'.hash = session.hash
    BY <1>4, DispatchStreaming, OtherStreaming DEF Elsewhere
  <2>2. QED
    BY <1>1, <1>4, <2>1
<1>5. CASE UNCHANGED <<vars, held, stray, dataSources>>
  BY <1>1, <1>5 DEF Streaming, Pending, vars, loop
<1>6. QED
  BY <1>2, <1>3, <1>4, <1>5, LanesCases

\* Whatever timers run, lost ones included, the list they read is that of the
\* session the data is recorded under, or the request that configures it anew (or
\* ends the program) is pending.
THEOREM SourcesFollow == LanesSpec => []SourcesCurrent
<1>1. LanesInit => SourcesCurrent
  BY DEF LanesInit, SourcesCurrent
<1>2. TypeOK /\ SourcesCurrent /\ [LanesNext]_all => SourcesCurrent'
  BY SourcesNext
<1>3. QED
  BY <1>1, <1>2, LoopUnderneath, TypeCorrect, PTL DEF LanesSpec

-----------------------------------------------------------------------------
(* Lanes without a connection *)

\* The requests of the start are pushed once.
LEMMA StartOnce ==
  ASSUME TypeOK, [Next]_vars, ~Pending(Starting)
  PROVE  ~Pending(Starting)'
<1>1. queue \in Seq(Requests)
  BY DEF TypeOK
<1>2. CASE queue' = queue
  BY <1>2 DEF Pending
<1>3. CASE Dispatch /\ ~Exit
  <2>1. queue # <<>>
    BY <1>3, DispatchHandled
  <2>2. Head(queue).action \notin Starting
    BY <1>1, <2>1, HeadPending
  <2>3. \E a \in Actions \ Starting : Then(<<>>) \/ Then(<<Rq(a)>>)
    BY <1>3, <2>2, AfterStart
  <2>4. QED
    BY <1>1, <2>1, <2>3, NotPendingThen
<1>4. ASSUME NEW c \in Conn, Elsewhere(c) PROVE ~Pending(Starting)'
  <2>1. \/ queue' = queue
        \/ \E rq \in Requests : Push(rq) /\ rq.action \notin Starting
    BY <1>4, ElsewherePush DEF Starting
  <2>2. QED
    BY <1>1, <1>2, <2>1, NotPendingPush
<1>5. QED
  BY <1>2, <1>3, <1>4, ConnAssumption DEF Next, Elsewhere, Exit, vars, loop

\* No lane is configured before the first connection attempt.
NotYet == Pending(Starting) => lanes = NoHash

LEMMA NotYetNext ==
  ASSUME TypeOK, DbDiscipline, NotYet, [LanesNext]_all
  PROVE  NotYet'
<1> SUFFICES ASSUME Pending(Starting)' PROVE lanes' = NoHash
  BY DEF NotYet
<1>1. Pending(Starting) /\ lanes = NoHash
  BY LanesOnReader, StartOnce DEF NotYet
<1>2. CASE StartStream
  <2>1. queue \in Seq(Requests) /\ queue # <<>> /\ Head(queue).action = "StartStream"
    BY <1>2 DEF TypeOK, StartStream, Turn
  <2>2. Len(queue) = 1
    BY <1>1 DEF DbDiscipline, Booting
  <2>3. Head(queue).action \in Starting
    BY <1>1, <2>1, <2>2, HeadAtStart
  <2>4. QED
    BY <2>1, <2>3 DEF Starting
<1>3. CASE \E up \in BOOLEAN : Reconnect(up)
  BY <1>3 DEF Reconnect, StopUpdateLanes
<1>4. CASE UNCHANGED lanes
  BY <1>1, <1>4
<1>5. QED
  BY <1>2, <1>3, <1>4, LanesCases DEF vars, lane

\* The timers Application holds write to a connection that is not connected only
\* until a request that stops them is served, whichever of the peer, the session
\* timer and the inactivity timer took the connection away (doReconnect).
THEOREM StoppedSoonKept == LanesSpec => []StoppedSoon
<1>1. Spec => []DbDiscipline
  BY InitDb, NextDb, TypeCorrect, PTL DEF Spec
<1>2. LanesInit => NotYet
  BY DEF LanesInit, Init, NotYet
<1>3. TypeOK /\ DbDiscipline /\ NotYet /\ [LanesNext]_all => NotYet'
  BY NotYetNext
<1>4. LanesSpec => []NotYet
  BY <1>1, <1>2, <1>3, LoopUnderneath, TypeCorrect, PTL DEF LanesSpec
<1>5. Recovers /\ SummaryAgrees /\ NotYet => StoppedSoon
  <2> SUFFICES ASSUME Recovers, SummaryAgrees, NotYet,
                      dispatching, ~exited, held # {}, conn \notin sources
               PROVE  Pending({"Reconnect", "Quit"})
    BY DEF StoppedSoon
  <2>1. ~Pending({"PrepareData", "Connect"})
    BY DEF SummaryAgrees, NotYet, Starting
  <2>2. Pending({"PrepareData", "Connect", "Reconnect", "Quit"})
    BY DEF Recovers
  <2>3. QED
    BY <2>1, <2>2 DEF Pending
<1>6. QED
  BY <1>4, <1>5, LoopUnderneath, NoLostWakeup, SummaryKept, PTL

-----------------------------------------------------------------------------
(* The entries of a lane, one type after the other *)

\* Numbers that are not all in a set have a least one outside it.
LEMMA LeastOutside ==
  ASSUME NEW m \in Nat, NEW S, ~ (0 .. m \subseteq S)
  PROVE  \E n \in 0 .. m : n \notin S /\ (n > 0 => n - 1 \in S)
<1> DEFINE B == {b \in 0 .. m : b \notin S}
           R == OpToRel(<, Nat)
<1>1. B \subseteq Nat /\ B # {}
  OBVIOUS
<1>2. PICK b \in B : \A c \in B : ~ (<<c, b>> \in R)
  <2>1. IsWellFoundedOn(R, Nat)
    BY NatLessThanWellFounded
  <2> HIDE DEF R, B
  <2>2. QED
    BY <1>1, <2>1, WFMin
<1>3. \A c \in B : ~ (c < b)
  BY <1>1, <1>2 DEF OpToRel
<1>4. QED
  BY <1>3

\* The entries that are made of the first types of a list, one by one.
Added(types, l, n, before) ==
  IF types[n] \in SourceTypes THEN Append(before, [type |-> types[n], lane |-> l]) ELSE before
MadeUpTo(types, l, m, f) ==
  f = [n \in 0 .. m |-> IF n = 0 THEN <<>> ELSE Added(types, l, n, f[n - 1])]

LEMMA MadeExists ==
  ASSUME NEW types, NEW l, NEW m \in Nat
  PROVE  \E f : MadeUpTo(types, l, m, f)
<1> DEFINE S == {n \in Nat : \E f : MadeUpTo(types, l, n, f)}
<1>1. 0 \in S
  <2>1. MadeUpTo(types, l, 0, [n \in 0 .. 0 |-> <<>>])
    BY DEF MadeUpTo
  <2>2. QED
    BY <2>1
<1>2. ASSUME NEW n \in Nat, n > 0, n - 1 \in S PROVE n \in S
  <2>1. PICK f : MadeUpTo(types, l, n - 1, f)
    BY <1>2
  <2> DEFINE g == [k \in 0 .. n |-> IF k = n THEN Added(types, l, n, f[n - 1]) ELSE f[k]]
  <2>2. \A k \in 0 .. n - 1 : g[k] = f[k] /\ (k = 0 => f[k] = <<>>)
                               /\ (k # 0 => f[k] = Added(types, l, k, f[k - 1]))
    BY <1>2, <2>1 DEF MadeUpTo
  <2>3. \A k \in 0 .. n : g[k] = IF k = 0 THEN <<>> ELSE Added(types, l, k, g[k - 1])
    <3> SUFFICES ASSUME NEW k \in 0 .. n
                 PROVE  g[k] = IF k = 0 THEN <<>> ELSE Added(types, l, k, g[k - 1])
      OBVIOUS
    <3>1. CASE k = n
      <4>1. g[k] = Added(types, l, n, f[n - 1]) /\ g[n - 1] = f[n - 1]
        BY <1>2, <2>2, <3>1
      <4>2. QED
        BY <1>2, <3>1, <4>1
    <3>2. CASE k # n
      <4>1. k \in 0 .. n - 1 /\ (k # 0 => k - 1 \in 0 .. n - 1)
        BY <1>2, <3>2
      <4> HIDE DEF g
      <4>2. QED
        BY <2>2, <4>1
    <3>3. QED
      BY <3>1, <3>2
  <2>4. g = [k \in 0 .. n |-> IF k = 0 THEN <<>> ELSE Added(types, l, k, g[k - 1])]
    <3>1. g = [k \in 0 .. n |-> g[k]]
      OBVIOUS
    <3> HIDE DEF g
    <3>2. QED
      BY <2>3, <3>1
  <2>5. MadeUpTo(types, l, n, g)
    BY <2>4 DEF MadeUpTo
  <2>6. QED
    BY <2>5
<1>3. 0 .. m \subseteq S
  <2> HIDE DEF S
  <2>1. QED
    BY <1>1, <1>2, LeastOutside
<1>4. QED
  BY <1>3

LEMMA LaneEntriesMade ==
  ASSUME NEW h \in Hash, NEW l \in Lanes
  PROVE  \E f : MadeUpTo(Config[h][l], l, Len(Config[h][l]), f)
                /\ LaneEntries(h, l) = f[Len(Config[h][l])]
<1> DEFINE m == Len(Config[h][l])
           f == CHOOSE f : MadeUpTo(Config[h][l], l, m, f)
<1>1. m \in Nat
  BY ConfigAssumption
<1>2. MadeUpTo(Config[h][l], l, m, f)
  BY <1>1, MadeExists
<1>3. LaneEntries(h, l) = f[m]
  BY DEF LaneEntries, MadeUpTo, Added
<1>4. QED
  BY <1>2, <1>3

\* The entries of a lane are of its known types.
LEMMA LaneEntriesListed ==
  ASSUME NEW h \in Hash, NEW l \in Lanes
  PROVE  /\ LaneEntries(h, l) \in Seq([type: SourceTypes, lane: {l}])
         /\ {LaneEntries(h, l)[i].type : i \in DOMAIN LaneEntries(h, l)} = Listed(h, l)
<1> DEFINE types == Config[h][l]
           m == Len(types)
           E == [type: SourceTypes, lane: {l}]
           Of(s) == {s[i].type : i \in DOMAIN s}
           First(n) == {types[i] : i \in 1 .. n} \cap SourceTypes
<1>1. types \in Seq(STRING) /\ m \in Nat
  BY ConfigAssumption
<1>2. PICK f : MadeUpTo(types, l, m, f) /\ LaneEntries(h, l) = f[m]
  BY LaneEntriesMade
<1>3. /\ f[0] = <<>>
      /\ \A n \in 1 .. m : f[n] = Added(types, l, n, f[n - 1])
  <2> HIDE DEF m, types
  <2>1. QED
    BY <1>1, <1>2 DEF MadeUpTo
<1> DEFINE S == {n \in 0 .. m : f[n] \in Seq(E) /\ Of(f[n]) = First(n)}
<1>4. 0 \in S
  <2>1. <<>> \in Seq(E) /\ Of(<<>>) = {} /\ First(0) = {}
    OBVIOUS
  <2>2. 0 \in 0 .. m
    BY <1>1
  <2>3. f[0] \in Seq(E) /\ Of(f[0]) = First(0)
    BY <1>3, <2>1
  <2> HIDE DEF m, E, Of, First
  <2>4. QED
    BY <2>2, <2>3
<1>5. ASSUME NEW n \in 1 .. m, n - 1 \in S PROVE n \in S
  <2> DEFINE s == f[n - 1]
             e == [type |-> types[n], lane |-> l]
  <2>1. s \in Seq(E) /\ Of(s) = First(n - 1) /\ f[n] = Added(types, l, n, s)
    BY <1>3, <1>5
  <2>2. First(n) = First(n - 1) \cup ({types[n]} \cap SourceTypes)
    <3> HIDE DEF types, m
    <3>1. 1 .. n = (1 .. n - 1) \cup {n}
      BY <1>1
    <3>2. QED
      BY <3>1
  <2>3. CASE types[n] \in SourceTypes
    <3>1. e \in E /\ e.type = types[n]
      <4> HIDE DEF types
      <4>1. QED
        BY <2>3
    <3>2. f[n] = Append(s, e)
      BY <2>1, <2>3 DEF Added
    <3> HIDE DEF e, E, s, types, m, First
    <3>3. /\ Append(s, e) \in Seq(E) /\ Len(s) \in Nat
          /\ DOMAIN s = 1 .. Len(s) /\ DOMAIN Append(s, e) = 1 .. Len(s) + 1
          /\ \A i \in 1 .. Len(s) : Append(s, e)[i] = s[i]
          /\ Append(s, e)[Len(s) + 1] = e
      BY <2>1, <3>1
    <3>4. Of(Append(s, e)) = Of(s) \cup {e.type}
      <4> DEFINE k == Len(s)
                 t == Append(s, e)
      <4>1. 1 .. k + 1 = (1 .. k) \cup {k + 1}
        BY <3>3
      <4> HIDE DEF t
      <4>2. Of(t) = {t[i].type : i \in 1 .. k} \cup {t[k + 1].type}
        BY <3>3, <4>1 DEF t
      <4>3. {t[i].type : i \in 1 .. k} = {s[i].type : i \in 1 .. k}
        BY <3>3 DEF t
      <4>4. QED
        BY <3>3, <4>2, <4>3 DEF t
    <3>5. Of(f[n]) = First(n)
      BY <2>1, <2>2, <2>3, <3>1, <3>2, <3>4
    <3>6. QED
      BY <3>2, <3>3, <3>5
  <2>4. CASE types[n] \notin SourceTypes
    <3>1. f[n] = s /\ First(n) = First(n - 1)
      BY <2>1, <2>2, <2>4 DEF Added
    <3>2. QED
      BY <2>1, <3>1
  <2>5. QED
    BY <2>3, <2>4
<1>6. 0 .. m \subseteq S
  <2>1. \A n \in 0 .. m : n > 0 => n \in 1 .. m
    BY <1>1
  <2> HIDE DEF S, m
  <2>2. QED
    BY <1>1, <1>4, <1>5, <2>1, LeastOutside
<1>7. m \in S
  <2> HIDE DEF S, m
  <2>1. QED
    BY <1>1, <1>6
<1>8. First(m) = Listed(h, l)
  BY <1>1 DEF Listed
<1>9. QED
  BY <1>2, <1>7, <1>8

LEMMA EntriesType ==
  ASSUME NEW h \in Hash
  PROVE  Entries(h) \in Seq([type: SourceTypes, lane: Lanes])
<1> DEFINE E == [type: SourceTypes, lane: Lanes]
<1>1. \A l \in Lanes : LaneEntries(h, l) \in Seq(E)
  <2> SUFFICES ASSUME NEW l \in Lanes PROVE LaneEntries(h, l) \in Seq(E)
    OBVIOUS
  <2> DEFINE F == [type: SourceTypes, lane: {l}]
             s == LaneEntries(h, l)
  <2>1. s \in Seq(F)
    BY LaneEntriesListed
  <2>2. F \subseteq E
    OBVIOUS
  <2> HIDE DEF E, F, s
  <2>3. s \in Seq(E)
    BY <2>1, <2>2
  <2>4. QED
    BY <2>3 DEF s
<1> HIDE DEF E
<1>2. QED
  BY <1>1 DEF Entries, Lanes, E

\* What a lane's timer finds due in the list of a session is what the session lists
\* for that lane.
LEMMA EntriesDue ==
  ASSUME NEW h \in Hash, NEW l \in Lanes, dataSources = Entries(h)
  PROVE  Due(l) = Listed(h, l)
<1> DEFINE Of(s) == {s[i].type : i \in {j \in DOMAIN s : s[j].lane = l}}
           fast == LaneEntries(h, "Fast")
           pace == LaneEntries(h, "Pace")
           slow == LaneEntries(h, "Slow")
           E == [type: SourceTypes, lane: Lanes]
<1>1. \A s, t \in Seq(E) : s \o t \in Seq(E) /\ Of(s \o t) = Of(s) \cup Of(t)
  <2> SUFFICES ASSUME NEW s \in Seq(E), NEW t \in Seq(E)
               PROVE  s \o t \in Seq(E) /\ Of(s \o t) = Of(s) \cup Of(t)
    OBVIOUS
  <2> HIDE DEF E
  <2> DEFINE u == s \o t
  <2>1. /\ u \in Seq(E) /\ Len(s) \in Nat /\ Len(t) \in Nat
        /\ DOMAIN u = 1 .. Len(s) + Len(t) /\ DOMAIN s = 1 .. Len(s) /\ DOMAIN t = 1 .. Len(t)
        /\ \A i \in DOMAIN s : u[i] = s[i] /\ i \in DOMAIN u
        /\ \A i \in DOMAIN t : u[Len(s) + i] = t[i] /\ Len(s) + i \in DOMAIN u
    OBVIOUS
  <2>2. \A i \in DOMAIN u : i \in DOMAIN s \/ (i - Len(s) \in DOMAIN t
                                              /\ u[i] = t[i - Len(s)])
    BY <2>1
  <2> HIDE DEF u
  <2>3. Of(u) \subseteq Of(s) \cup Of(t)
    BY <2>1, <2>2
  <2>4. Of(s) \subseteq Of(u) /\ Of(t) \subseteq Of(u)
    BY <2>1
  <2>5. QED
    BY <2>1, <2>3, <2>4 DEF u
<1>2. \A k \in Lanes : /\ LaneEntries(h, k) \in Seq(E)
                        /\ Of(LaneEntries(h, k)) = IF k = l THEN Listed(h, l) ELSE {}
  <2> SUFFICES ASSUME NEW k \in Lanes
               PROVE  /\ LaneEntries(h, k) \in Seq(E)
                      /\ Of(LaneEntries(h, k)) = IF k = l THEN Listed(h, l) ELSE {}
    OBVIOUS
  <2> DEFINE s == LaneEntries(h, k)
             F == [type: SourceTypes, lane: {k}]
  <2>1. s \in Seq(F) /\ {s[i].type : i \in DOMAIN s} = Listed(h, k)
    BY LaneEntriesListed
  <2>2. F \subseteq E /\ \A e \in F : e.lane = k
    OBVIOUS
  <2> HIDE DEF s, E, F
  <2>3. s \in Seq(E) /\ \A i \in DOMAIN s : s[i] \in F
    BY <2>1, <2>2
  <2>4. \A i \in DOMAIN s : s[i].lane = k
    BY <2>2, <2>3
  <2>5. QED
    BY <2>1, <2>3, <2>4 DEF s
<1>3. dataSources = fast \o pace \o slow /\ Due(l) = Of(dataSources)
  BY DEF Entries, Due
<1>4. /\ fast \in Seq(E) /\ Of(fast) = (IF "Fast" = l THEN Listed(h, l) ELSE {})
      /\ pace \in Seq(E) /\ Of(pace) = (IF "Pace" = l THEN Listed(h, l) ELSE {})
      /\ slow \in Seq(E) /\ Of(slow) = (IF "Slow" = l THEN Listed(h, l) ELSE {})
  BY <1>2 DEF Lanes
<1> HIDE DEF Of, fast, pace, slow, E
<1>5. fast \o pace \in Seq(E) /\ Of(fast \o pace) = Of(fast) \cup Of(pace)
  BY <1>1, <1>4
<1>6. Of(fast \o pace \o slow) = Of(fast) \cup Of(pace) \cup Of(slow)
  BY <1>1, <1>4, <1>5
<1>7. QED
  BY <1>3, <1>4, <1>6 DEF Lanes

-----------------------------------------------------------------------------
(* Types, and what the timers ask for *)

\* A session that was granted is replaced by granted ones only.
LEMMA GrantedStays ==
  ASSUME TypeOK, Granted, [LanesNext]_all, session.hash # NoHash
  PROVE  session'.hash # NoHash
<1>1. CASE UNCHANGED session
  BY <1>1
<1>2. CASE Dispatch /\ ~Exit
  <2>1. /\ queue \in Seq(Requests) /\ queue # <<>>
        /\ session'.hash = IF Head(queue).action = "SetSession"
                           THEN Head(queue).hash ELSE session.hash
    BY <1>2, DispatchHandled DEF TypeOK
  <2>2. 1 \in DOMAIN queue /\ Head(queue) = queue[1]
    BY <2>1
  <2>3. QED
    BY <2>1, <2>2 DEF Granted
<1>3. ASSUME NEW c \in Conn, Elsewhere(c) PROVE session'.hash = session.hash
  <2>1. \/ session' = session
        \/ session' = [session EXCEPT !.ended = FALSE]
        \/ session' = [session EXCEPT !.ended = TRUE]
    BY <1>3 DEF Elsewhere, DbStep, CheckDatabase, InitDatabase, AddDevice, AddSession, EndSession,
       AddData, SessionTimerExpires, InactivityTick, ReceiveSession, ReceiveData,
       ReceiveStatus, ConnectionLost, Receive
  <2>2. QED
    BY <2>1 DEF TypeOK
<1>4. Exit \/ UNCHANGED vars => UNCHANGED session
  BY DEF Exit, vars, loop
<1>5. QED
  BY <1>1, <1>2, <1>3, <1>4, LanesOnReader, ConnAssumption DEF Next, Elsewhere

\* Timers only run for a session that was granted; the list is made of known types.
ListInv ==
  /\ held \cup stray # {} => session.hash \in Hash
  /\ LanesTypeOK

LEMMA ListInit == LanesInit => ListInv
<1> SUFFICES ASSUME LanesInit PROVE ListInv
  OBVIOUS
<1>1. <<>> \in Seq([type: SourceTypes, lane: Lanes])
  OBVIOUS
<1>2. conn \in Conn
  BY DEF LanesInit, Init
<1>3. wrote \in [to: Conn, types: SUBSET (SourceTypes \cup {"StartupData"})]
  BY <1>2 DEF LanesInit
<1>4. QED
  BY <1>1, <1>3 DEF LanesInit, ListInv, LanesTypeOK

LEMMA AskTypes ==
  ASSUME NEW types, types \subseteq SourceTypes \cup {"StartupData"}, conn \in Conn, Ask(types)
  PROVE  wrote' \in [to: Conn, types: SUBSET (SourceTypes \cup {"StartupData"})]
BY DEF Ask

LEMMA ListNext ==
  ASSUME TypeOK, Granted, ListInv, [LanesNext]_all
  PROVE  ListInv'
<1> DEFINE E == [type: SourceTypes, lane: Lanes]
           W == [to: Conn, types: SUBSET (SourceTypes \cup {"StartupData"})]
<1>1. /\ held \in SUBSET Lanes /\ stray \in SUBSET Lanes
      /\ dataSources \in Seq(E) /\ wrote \in W /\ conn \in Conn
  BY DEF ListInv, LanesTypeOK, TypeOK
<1>2. session.hash \in Hash => session'.hash \in Hash
  BY GrantedStays, HashAssumption, LanesOnReader, NextType DEF TypeOK, MaybeHash
<1>3. CASE StartStream /\ Begin
  <2>1. queue \in Seq(Requests) /\ queue # <<>> /\ Head(queue).action = "StartStream"
    BY <1>3 DEF TypeOK, StartStream, Turn
  <2>2. session.hash \in Hash
    BY <2>1, HeadPending DEF Granted, TypeOK, MaybeHash
  <2>3. dataSources' \in Seq(E)
    BY <1>3, <2>2, EntriesType DEF Begin, Configured
  <2>4. wrote' \in W
    BY <1>1, <1>3, AskTypes DEF Begin
  <2>5. held' \in SUBSET Lanes /\ stray' \in SUBSET Lanes
    BY <1>1, <1>3 DEF Begin
  <2>6. QED
    BY <1>2, <2>2, <2>3, <2>4, <2>5 DEF ListInv, LanesTypeOK
<1>4. CASE (\E up \in BOOLEAN : Reconnect(up)) /\ End
  <2>1. held' = {} /\ UNCHANGED <<stray, dataSources, wrote>>
    BY <1>4 DEF End
  <2>2. (held' \cup stray' # {}) => session'.hash \in Hash
    BY <1>2, <2>1 DEF ListInv
  <2>3. QED
    BY <1>1, <2>1, <2>2 DEF ListInv, LanesTypeOK
<1>5. ASSUME NEW l \in Lanes, Tick(l) PROVE ListInv'
  <2>1. UNCHANGED <<vars, held, stray, dataSources>> /\ Ask(Due(l))
    BY <1>5 DEF Tick
  <2>2. Due(l) \subseteq SourceTypes
    <3>1. \A i \in DOMAIN dataSources : dataSources[i] \in E
      <4> HIDE DEF E
      <4>1. QED
        BY <1>1
    <3>2. QED
      BY <3>1 DEF Due
  <2>3. wrote' \in W
    BY <1>1, <2>1, <2>2, AskTypes
  <2>4. QED
    BY <1>1, <1>2, <2>1, <2>3 DEF ListInv, LanesTypeOK
<1>6. CASE UNCHANGED polling
  <2>1. UNCHANGED <<held, stray, dataSources, wrote>>
    BY <1>6 DEF polling
  <2>2. QED
    BY <1>1, <1>2, <2>1 DEF ListInv, LanesTypeOK
<1>7. QED
  BY <1>3, <1>4, <1>5, <1>6 DEF LanesNext, all

LEMMA ListKept == LanesSpec => []ListInv
<1>1. TypeOK /\ Granted /\ ListInv /\ [LanesNext]_all => ListInv'
  BY ListNext
<1>2. QED
  BY <1>1, ListInit, LoopUnderneath, TypeCorrect, GrantedKept, PTL DEF LanesSpec

\* The list holds sources the reader knows, in lanes there are, however long the lists
\* are that a monitor sends (configUpdateLanes).
THEOREM LanesTypeCorrect == LanesSpec => []LanesTypeOK
<1>1. ListInv => LanesTypeOK
  BY DEF ListInv
<1>2. QED
  BY <1>1, ListKept, PTL

\* Every timer, lost ones included, asks for exactly what its session lists for its
\* lane and the reader knows (configUpdateLanes, startUpdateLanes).
THEOREM TicksAskListed == LanesSpec => TicksAsk
<1> DEFINE Step == \A l \in Lanes :
       Tick(l) /\ dispatching /\ FALSE \notin PushResults /\ ~Pending({"StartStream", "Quit"})
         => wrote' = [to |-> conn, types |-> Listed(session.hash, l)]
<1>1. ListInv /\ SourcesCurrent => Step
  <2> SUFFICES ASSUME ListInv, SourcesCurrent, NEW l \in Lanes, Tick(l), dispatching,
                      FALSE \notin PushResults, ~Pending({"StartStream", "Quit"})
               PROVE  wrote' = [to |-> conn, types |-> Listed(session.hash, l)]
    OBVIOUS
  <2>1. ~exited /\ held \cup stray # {} /\ Ask(Due(l))
    BY DEF Tick
  <2>2. session.hash \in Hash /\ dataSources = Entries(session.hash)
    BY <2>1 DEF ListInv, SourcesCurrent
  <2>3. Due(l) = Listed(session.hash, l)
    BY <2>2, EntriesDue
  <2>4. QED
    BY <2>1, <2>3 DEF Ask
<1> HIDE DEF Step
<1>2. ListInv /\ SourcesCurrent => [Step]_all
  BY <1>1
<1>3. LanesSpec => [][Step]_all
  BY <1>2, ListKept, SourcesFollow, PTL
<1>4. QED
  BY <1>3 DEF TicksAsk, Step
=============================================================================
