------------------------------- MODULE Reader -------------------------------
(***************************************************************************)
(* The event loop of tkmreader: the dispatcher queue and its ten handlers, *)
(* the connection objects and their finalizer, the session and inactivity  *)
(* timers, the update lanes as far as they are started and stopped, and    *)
(* the database queue with the outcome, not the content, of its queries    *)
(* (Database models the tables).  One thread runs everything, so a step is *)
(* one callback of one event source.  The loop itself is bswinfra and the  *)
(* peer is the taskmonitor daemon: neither is in this repository, and what *)
(* is taken of them is marked external.                                    *)
(***************************************************************************)
EXTENDS Naturals, Sequences, FiniteSets

CONSTANTS
  Conn,          \* identities of Connection objects; an identity is used again
                 \* once its object is no longer an event source
  Hash,          \* session hashes the monitor may grant
  NoHash,        \* the empty hash of a SessionInfo that was never set
  Strict,        \* --strict is given
  WithDatabase,  \* --database is given
  QueueStops,    \* external: a queue whose handler returns false is removed
                 \* from the loop
  PushResults,   \* results a push on the database queue may have
  MaxQueue       \* bound: callbacks other than the dispatcher's and the
                 \* database's run while the dispatcher queue is shorter

ASSUME ConnAssumption == Conn # {}
ASSUME HashAssumption == NoHash \notin Hash
ASSUME OptionAssumption ==
  /\ Strict \in BOOLEAN /\ WithDatabase \in BOOLEAN /\ QueueStops \in BOOLEAN
  /\ PushResults \in SUBSET BOOLEAN /\ TRUE \in PushResults
ASSUME QueueAssumption == MaxQueue \in Nat

VARIABLES
  queue,        \* Dispatcher::m_queue
  dispatching,  \* the dispatcher queue is an event source
  dbQueue,      \* IDatabase::m_queue, each request with the session hash that
                \* was current when it was pushed (history)
  dbServing,    \* the database queue is an event source
  dbTurn,       \* the database queue was ready when the loop polled last: its
                \* higher priority lets it run before the dispatcher
  conn,         \* Application::m_connection
  sources,      \* the Connection objects that are event sources
  peer,         \* what the monitor knows of each registered connection
  session,      \* SessionInfo's name and hash, SessionData's hash and end; the
                \* two hashes are only ever assigned together
  sessionTimer, \* Dispatcher::m_reqSessionTimer is armed
  inactivity,   \* Application::m_inactiveTimer: "off", or armed and the current
                \* connection "quiet" or "heard" since it last judged it
  lanes,        \* the session that the lane timers Application holds and its
                \* data sources were configured for, NoHash when none runs
  strayLanes,   \* lane timers run that Application no longer holds
  orphaned,     \* resetConnection has once replaced a registered connection
                \* (history)
  exited        \* the process has terminated

loop == <<queue, dispatching, dbQueue, dbServing, dbTurn>>
link == <<conn, sources, peer, orphaned>>
timers == <<sessionTimer, inactivity>>
lane == <<lanes, strayLanes>>
vars == <<loop, link, session, timers, lane, exited>>

Actions == {"PrepareData", "Connect", "Reconnect", "SendDescriptor",
            "RequestSession", "SetSession", "StartStream", "ProcessData",
            "Status", "Quit"}
DbActions == {"CheckDatabase", "InitDatabase", "AddDevice", "AddSession",
              "EndSession", "AddData"}
MaybeHash == Hash \cup {NoHash}

(* A request: "hash" is the session a SetSession grants or a ProcessData was
   sampled in; "fit" says that a SetSession's libtkm version is acceptable and
   that a Status is the one doStatus accepts. *)
Requests == [action: Actions, hash: MaybeHash, fit: BOOLEAN]
DbRequests == [action: DbActions, hash: MaybeHash]
Rq(a) == [action |-> a, hash |-> NoHash, fit |-> TRUE]

Idle == [described |-> FALSE, asked |-> 0, hash |-> NoHash]
Peers == [described: BOOLEAN, asked: Nat, hash: MaybeHash]

Init ==
  /\ queue = <<Rq("PrepareData")>> /\ dispatching = TRUE
  /\ dbQueue = IF WithDatabase
               THEN <<[action |-> "CheckDatabase", hash |-> NoHash]>> ELSE <<>>
  /\ dbServing = WithDatabase /\ dbTurn = WithDatabase
  /\ conn \in Conn /\ sources = {} /\ peer = [c \in Conn |-> Idle]
  /\ orphaned = FALSE
  /\ session = [hash |-> NoHash, named |-> FALSE, ended |-> FALSE]
  /\ sessionTimer = FALSE /\ inactivity = "off"
  /\ lanes = NoHash /\ strayLanes = FALSE
  /\ exited = FALSE

-----------------------------------------------------------------------------
(* Event sources and queues *)

\* The dispatcher queue's callback runs on request a.
Turn(a) == /\ ~exited /\ dispatching /\ ~dbTurn
           /\ queue # <<>> /\ Head(queue).action = a

\* The request is consumed and the handler pushes rqs.
Then(rqs) == queue' = Tail(queue) \o rqs

\* What the handler's result does to the queue it serves.
Returns(serving, result) == serving /\ (result \/ ~QueueStops)

\* The database queue after a dispatcher callback.  Requests pushed on a queue
\* that is no longer served are never read and are not kept.
DbAfter_NormalPriority(rqs) ==  \* mutant: the dispatcher may run first
  dbQueue' = rqs /\ dbTurn' = FALSE /\ UNCHANGED dbServing
DbAfter(rqs) == /\ dbQueue' = rqs
                /\ dbTurn' = (dbServing /\ rqs # <<>>)
                /\ UNCHANGED dbServing
NoDbPush == DbAfter(dbQueue)
DbPush(a, h, result) ==
  DbAfter(IF dbServing /\ result
          THEN Append(dbQueue, [action |-> a, hash |-> h]) ELSE dbQueue)

\* The process terminates; nothing is read of the state it leaves.
Exit == exited' = TRUE /\ UNCHANGED <<loop, link, session, timers, lane>>

Unregistered(c) == /\ sources' = sources \ {c}
                   /\ peer' = [peer EXCEPT ![c] = Idle]

\* resetConnection: no timer watches the new object, and the old one stays
\* registered unless its event source was removed before.
ResetConnection(registered) ==
  /\ conn' \in Conn \ registered
  /\ inactivity' = "off"
  /\ orphaned' = (orphaned \/ conn \in registered)

\* Connection::connect and enableEvents on the current object.  The monitor is
\* reached, or it is not and Reconnect is pushed.
TryConnect(up) ==
  /\ Then(<<Rq(IF up THEN "SendDescriptor" ELSE "Reconnect")>>)
  /\ sources' = IF up THEN sources \cup {conn'} ELSE sources
  /\ UNCHANGED peer

-----------------------------------------------------------------------------
(* The dispatcher's handlers *)

\* resetRequestSessionTimer: the old timer is stopped, the name the new one
\* looks at is cleared.
ArmSessionTimer_KeepName == sessionTimer' = TRUE /\ UNCHANGED session  \* mutant
ArmSessionTimer_NewSession ==  \* mutant: the hash is cleared with the name
  /\ sessionTimer' = TRUE
  /\ session' = [session EXCEPT !.named = FALSE, !.hash = NoHash]
ArmSessionTimer == /\ sessionTimer' = TRUE
                   /\ session' = [session EXCEPT !.named = FALSE]

\* resetInactivityTimer: the old timer is stopped, the new one armed.
ArmInactivityTimer_StopOnly == inactivity' = "off"  \* mutant
ArmInactivityTimer == inactivity' = "quiet"

\* configUpdateLanes: the data sources of the current session replace the list.
ConfigUpdateLanes_Kept ==  \* mutant: a list that is there is kept
  lanes' = IF lanes = NoHash THEN session.hash ELSE lanes
ConfigUpdateLanes == lanes' = session.hash

\* startUpdateLanes overwrites the lane timers without stopping the ones that
\* run.
StartUpdateLanes == /\ ConfigUpdateLanes
                    /\ strayLanes' = (strayLanes \/ lanes # NoHash)

\* stopUpdateLanes knows the timers Application holds.
StopUpdateLanes == lanes' = NoHash /\ UNCHANGED strayLanes

\* doSetSession gives the session up.
Refused_Never(rq) == FALSE  \* mutant
Refused(rq) == Strict /\ ~rq.fit

PrepareData ==
  /\ Turn("PrepareData")
  /\ \E ok \in IF WithDatabase THEN PushResults ELSE {TRUE} :
       /\ Then(<<Rq(IF ok THEN "Connect" ELSE "Quit")>>)
       /\ IF WithDatabase THEN DbPush("InitDatabase", session.hash, ok) ELSE NoDbPush
  /\ UNCHANGED <<dispatching, link, session, timers, lane, exited>>

Connect ==
  /\ Turn("Connect")
  /\ UNCHANGED <<conn, orphaned>>
  /\ \E up \in BOOLEAN : TryConnect(up)
  /\ NoDbPush
  /\ UNCHANGED <<dispatching, session, timers, lane, exited>>

\* The session that was recorded is ended, the lanes Application holds are
\* stopped and the connection object is replaced.
Reconnect(up) ==
  /\ Turn("Reconnect")
  /\ \E ok \in PushResults :
       IF WithDatabase /\ session.hash # NoHash /\ ~session.ended
       THEN DbPush("EndSession", session.hash, ok) ELSE NoDbPush
  /\ StopUpdateLanes
  /\ ResetConnection(sources)
  /\ TryConnect(up)
  /\ UNCHANGED <<dispatching, session, sessionTimer, exited>>

\* The port is not a number, or gethostbyname fails: the handler throws and
\* main ends the program.
Throw == (Turn("PrepareData") \/ Turn("Connect") \/ Turn("Reconnect")) /\ Exit

\* A descriptor sent on a connection the monitor still reads reaches it.
SendDescriptor ==
  /\ Turn("SendDescriptor")
  /\ \E sent \in BOOLEAN :
       /\ Then(<<Rq(IF sent THEN "RequestSession" ELSE "Reconnect")>>)
       /\ peer' = IF sent /\ conn \in sources
                  THEN [peer EXCEPT ![conn].described = TRUE] ELSE peer
  /\ NoDbPush
  /\ UNCHANGED <<dispatching, conn, sources, orphaned, session, timers, lane, exited>>

\* The session timer is restarted and the session's name cleared before the
\* request is written; writeEnvelope reports only a failed flush.
RequestSession ==
  /\ Turn("RequestSession")
  /\ Then(<<>>)
  /\ ArmSessionTimer
  /\ \E delivered, flushed \in BOOLEAN :
       /\ delivered => flushed
       /\ peer' = IF delivered /\ conn \in sources
                  THEN [peer EXCEPT ![conn].asked = @ + 1] ELSE peer
       /\ dispatching' = Returns(dispatching, flushed)
  /\ NoDbPush
  /\ UNCHANGED <<conn, sources, orphaned, inactivity, lane, exited>>

SetSession ==
  LET rq == Head(queue) IN
  /\ Turn("SetSession")
  /\ session' = [session EXCEPT !.hash = rq.hash, !.named = TRUE]
  /\ IF Refused(rq)
     THEN Then(<<Rq("Quit")>>) /\ NoDbPush /\ UNCHANGED dispatching
     ELSE \E ok \in IF WithDatabase THEN PushResults ELSE {TRUE} :
            /\ IF WithDatabase THEN DbPush("AddSession", rq.hash, ok) ELSE NoDbPush
            /\ Then(IF ok THEN <<Rq("StartStream")>> ELSE <<>>)
            /\ dispatching' = Returns(dispatching, ok)
  /\ UNCHANGED <<link, timers, lane, exited>>

\* Nothing tells whether the connection is still the one the session came on.
StartStream ==
  /\ Turn("StartStream")
  /\ Then(<<>>)
  /\ StartUpdateLanes
  /\ ArmInactivityTimer
  /\ NoDbPush
  /\ UNCHANGED <<dispatching, link, session, sessionTimer, exited>>

ProcessData ==
  /\ Turn("ProcessData")
  /\ Then(<<>>)
  /\ \E ok \in IF WithDatabase THEN PushResults ELSE {TRUE} :
       /\ IF WithDatabase THEN DbPush("AddData", session.hash, ok) ELSE NoDbPush
       /\ dispatching' = Returns(dispatching, ok)
  /\ UNCHANGED <<link, session, timers, lane, exited>>

\* Any Status but an OK for "RequestSession" ends the program.
Status ==
  /\ Turn("Status")
  /\ IF Head(queue).fit
     THEN /\ Then(<<>>) /\ NoDbPush
          /\ UNCHANGED <<dispatching, link, session, timers, lane, exited>>
     ELSE Exit

Quit == Turn("Quit") /\ Exit

Dispatch ==
  \/ PrepareData \/ Connect \/ (\E up \in BOOLEAN : Reconnect(up)) \/ Throw
  \/ SendDescriptor \/ RequestSession \/ SetSession \/ StartStream
  \/ ProcessData \/ Status \/ Quit

-----------------------------------------------------------------------------
(* The connections and the timers *)

Push_InFront(rq) == queue' = <<rq>> \o queue  \* mutant
Push(rq) == queue' = Append(queue, rq)
Room == ~exited /\ Len(queue) < MaxQueue

\* A message of the monitor is read from a registered connection.
Receive(c, rq) ==
  /\ Room /\ c \in sources
  /\ Push(rq)
  /\ inactivity' = IF c = conn /\ inactivity # "off" THEN "heard" ELSE inactivity
  /\ UNCHANGED <<dispatching, dbQueue, dbServing, dbTurn, conn, sources, orphaned,
                 session, sessionTimer, lane, exited>>

\* external: the monitor grants a session for a request it has not answered.
\* Only --strict looks at the libtkm version.
ReceiveSession_Unasked(c) ==  \* mutant: it does not wait for a request
  /\ peer[c].described
  /\ \E h \in Hash :
       /\ Receive(c, [action |-> "SetSession", hash |-> h, fit |-> TRUE])
       /\ peer' = [peer EXCEPT ![c].asked = @ - 1, ![c].hash = h]

ReceiveSession(c) ==
  /\ peer[c].described /\ peer[c].asked > 0
  /\ \E h \in Hash, fit \in {TRUE, ~Strict} :
       /\ Receive(c, [action |-> "SetSession", hash |-> h, fit |-> fit])
       /\ peer' = [peer EXCEPT ![c].asked = @ - 1, ![c].hash = h]

\* external: data is sampled within the session the monitor granted last.
ReceiveData(c) ==
  /\ peer[c].hash # NoHash
  /\ Receive(c, [action |-> "ProcessData", hash |-> peer[c].hash, fit |-> TRUE])
  /\ UNCHANGED peer

ReceiveStatus(c) ==
  /\ peer[c].described
  /\ \E fit \in BOOLEAN :
       Receive(c, [action |-> "Status", hash |-> NoHash, fit |-> fit])
  /\ UNCHANGED peer

\* End of file, a read error or an unknown message: the callback returns false,
\* the source is removed and its finalizer pushes Reconnect.
ConnectionLost(c) ==
  /\ Room /\ c \in sources
  /\ Unregistered(c)
  /\ Push(Rq("Reconnect"))
  /\ UNCHANGED <<dispatching, dbQueue, dbServing, dbTurn, conn, orphaned, session,
                 timers, lane, exited>>

\* remEventSource(m_connection) and resetConnection, as both timers do.
DropConnection_NoFinalizer ==  \* mutant: Reconnect is not pushed
  /\ Unregistered(conn)
  /\ UNCHANGED queue
  /\ ResetConnection(sources \ {conn})
DropConnection ==
  /\ Unregistered(conn)
  /\ IF conn \in sources THEN Push(Rq("Reconnect")) ELSE UNCHANGED queue
  /\ ResetConnection(sources \ {conn})

SessionTimerExpires ==
  /\ Room /\ sessionTimer
  /\ sessionTimer' = FALSE
  /\ IF session.named THEN UNCHANGED <<queue, link, inactivity>> ELSE DropConnection
  /\ UNCHANGED <<dispatching, dbQueue, dbServing, dbTurn, session, lane, exited>>

\* The connection is dropped when it was silent for the whole interval; when it
\* was not, the callback's own delay may still make the duration too long.  A late
\* callback may instead be followed by one that is too early to judge, once a
\* message: that one changes nothing, so the late one is the step left out here and
\* "heard" lasts until the next.
InactivityTick ==
  /\ Room /\ inactivity # "off"
  /\ \/ DropConnection
     \/ /\ inactivity = "heard" /\ inactivity' = "quiet"
        /\ UNCHANGED <<queue, link>>
  /\ UNCHANGED <<dispatching, dbQueue, dbServing, dbTurn, session, sessionTimer,
                 lane, exited>>

-----------------------------------------------------------------------------
(* The database queue's handlers.  A query's result is left open. *)

DbHandles(a) == /\ ~exited /\ dbServing
                /\ dbQueue # <<>> /\ Head(dbQueue).action = a
                /\ dbTurn' = FALSE
                /\ UNCHANGED <<queue, dispatching, link, timers, lane, exited>>

CheckDatabase == /\ DbHandles("CheckDatabase")
                 /\ dbQueue' = Tail(dbQueue)
                 /\ UNCHANGED <<dbServing, session>>

InitDatabase ==
  /\ DbHandles("InitDatabase")
  /\ \E ok \in BOOLEAN :
       /\ dbQueue' = Tail(dbQueue) \o
            (IF ok THEN <<[action |-> "AddDevice", hash |-> session.hash]>> ELSE <<>>)
       /\ dbServing' = Returns(dbServing, ok)
  /\ UNCHANGED session

AddDevice ==
  /\ DbHandles("AddDevice")
  /\ dbQueue' = Tail(dbQueue)
  /\ \E ok \in BOOLEAN : dbServing' = Returns(dbServing, ok)
  /\ UNCHANGED session

AddSession ==
  /\ DbHandles("AddSession")
  /\ dbQueue' = Tail(dbQueue)
  /\ \E ok \in BOOLEAN :
       /\ session' = IF ok THEN [session EXCEPT !.ended = FALSE] ELSE session
       /\ dbServing' = Returns(dbServing, ok)

EndSession ==
  /\ DbHandles("EndSession")
  /\ dbQueue' = Tail(dbQueue)
  /\ \E ok \in BOOLEAN :
       session' = IF ok THEN [session EXCEPT !.ended = TRUE] ELSE session
  /\ UNCHANGED dbServing

AddData == /\ DbHandles("AddData")
           /\ dbQueue' = Tail(dbQueue)
           /\ UNCHANGED <<dbServing, session>>

DbStep == CheckDatabase \/ InitDatabase \/ AddDevice \/ AddSession \/ EndSession
          \/ AddData

Next ==
  \/ Dispatch
  \/ DbStep
  \/ \E c \in Conn : \/ ReceiveSession(c) \/ ReceiveData(c) \/ ReceiveStatus(c)
                     \/ ConnectionLost(c)
  \/ SessionTimerExpires
  \/ InactivityTick

Spec == Init /\ [][Next]_vars

\* The loop never skips a ready source for ever, so every queue and every timer
\* is served.  The timers are strongly fair because only MaxQueue ever disables
\* one that is armed.  A monitor that is reachable again and again is found by
\* some attempt to connect.
Fairness ==
  /\ WF_vars(Dispatch)
  /\ WF_vars(DbStep)
  /\ SF_vars(SessionTimerExpires)
  /\ SF_vars(InactivityTick)
  /\ SF_vars(Reconnect(TRUE))

FairSpec == Spec /\ Fairness

\* Behaviours in which no descriptor's write fails; all else may.
Sent == SendDescriptor => Then(<<Rq("RequestSession")>>)
SentSpec == Init /\ [][Next /\ Sent]_vars

-----------------------------------------------------------------------------
(* Properties *)

Pending(A) == \E i \in DOMAIN queue : queue[i].action \in A

\* Every variable has its type.
TypeOK ==
  /\ queue \in Seq(Requests) /\ dispatching \in BOOLEAN
  /\ dbQueue \in Seq(DbRequests) /\ dbServing \in BOOLEAN /\ dbTurn \in BOOLEAN
  /\ conn \in Conn /\ sources \in SUBSET Conn /\ peer \in [Conn -> Peers]
  /\ orphaned \in BOOLEAN
  /\ session \in [hash: MaybeHash, named: BOOLEAN, ended: BOOLEAN]
  /\ sessionTimer \in BOOLEAN /\ inactivity \in {"off", "quiet", "heard"}
  /\ lanes \in MaybeHash /\ strayLanes \in BOOLEAN
  /\ exited \in BOOLEAN

\* No lost wakeup: as long as the dispatcher runs and the current connection is
\* not an event source, a request that leads to a connection attempt (or to the
\* end) is pending, whatever the order in which finalizers, timers and the
\* handlers that replace the connection object ran.
Recovers ==
  dispatching /\ ~exited /\ conn \notin sources
    => Pending({"PrepareData", "Connect", "Reconnect", "Quit"})

\* Nothing is left waiting on a peer without a deadline: a registered current
\* connection is watched by the inactivity timer, by a session timer that will
\* find no session name, or by a request that arms one of them.
Supervised ==
  dispatching /\ ~exited /\ conn \in sources /\ FALSE \notin PushResults
    => \/ Pending({"SendDescriptor", "RequestSession", "StartStream", "Reconnect", "Quit"})
       \/ inactivity # "off"
       \/ sessionTimer /\ ~session.named

\* SQLiteDatabase::enableEvents gives its queue high priority so that requests
\* are handled before the session data they read is updated: a pending request
\* finds the session it was pushed for, and no second request joins it.
DbRequestsCurrent ==
  dbServing => /\ Len(dbQueue) <= 1
               /\ \A i \in DOMAIN dbQueue : dbQueue[i].hash = session.hash

\* Data is recorded under the session it was sampled in, through lost and
\* replaced connections, as long as no connection was replaced while it was
\* still an event source (SingleConnection shows that this does happen).
Attributed ==
  ~orphaned /\ queue # <<>> /\ Head(queue).action = "ProcessData"
    => Head(queue).hash = session.hash

\* The update lanes are those of the session the data is recorded under, or a
\* request that configures them anew is on its way, though doSetSession and
\* doStartStream are separate requests with any others between them.
LanesCurrent ==
  dispatching /\ ~exited /\ lanes \notin {NoHash, session.hash} /\ FALSE \notin PushResults
    => Pending({"StartStream", "Quit"})

\* The bound on Connection identities is reached.
Saturated == sources = Conn

\* A lost connection is found again, however often connecting, sending or
\* answering fails, unless the program exits.
Reattaches == (conn \notin sources) ~> (conn \in sources \/ exited \/ Saturated)

\* A monitor that stays silent does not keep the reader: a connection that
\* stays the current one is heard again and again.
SilentDropped ==
  \A c \in Conn : <>[](conn = c /\ c \in sources /\ ~exited) => []<>(inactivity = "heard")

\* "Stop if target libtkm version missmatch" (Main.cpp): in strict mode a
\* session of another version ends the program.
StrictStops ==
  (Strict /\ \E i \in DOMAIN queue : queue[i].action = "SetSession" /\ ~queue[i].fit)
    ~> (exited \/ Saturated)

\* "Stop update lanes" (Dispatcher.cpp, doReconnect): no lane timer runs while
\* a new connection is made.
LanesStopped == [][(\E up \in BOOLEAN : Reconnect(up)) => lanes' = NoHash /\ ~strayLanes']_vars

\* "Reset connection object" (Dispatcher.cpp, doReconnect): the connection is
\* replaced, so the old one no longer feeds the dispatcher.  A failed SendDescriptor
\* is all that breaks it: without one (SentSpec), reads, timers and attempts to
\* connect, in any order, leave one Reconnect for one connection whose source is gone.
SingleConnection == sources \subseteq {conn}

\* "Create session timout. Taskmonitor not responding" (Dispatcher.cpp): a
\* connection is dropped on this ground only once the request has left the queue.
TimeoutAfterRequest ==
  [][SessionTimerExpires /\ conn \in sources \ sources'
       => ~Pending({"SendDescriptor"})]_vars
=============================================================================
