------------------------------ MODULE Recorder ------------------------------
(***************************************************************************)
(* The whole program, run after run, on one database file: the event loop  *)
(* of Reader with the tables of Database behind its database queue.  Each  *)
(* database request is one step of both.  Database reads the process as a  *)
(* phase; here that phase is what the two queues hold, so that Database's  *)
(* assumptions on the order of requests become something to check.         *)
(***************************************************************************)
EXTENDS Reader

CONSTANTS
  Device,      \* device hashes a run may be started for
  MaxRuns,     \* bound on the runs of the program
  MaxSessions  \* bound on the sessions granted in all runs

\* The program was given a database file; without one there are no tables.
ASSUME DatabaseAssumption == WithDatabase = TRUE
ASSUME RecorderAssumption == MaxRuns \in Nat /\ MaxSessions \in Nat

VARIABLES
  created, devices, sessions, data, born, run, device, forced,  \* as in Database
  regranted  \* in this run the monitor was asked twice on one connection and
             \* granted it another session (history)

tables == <<created, devices, sessions, data, born, run, device, forced>>
everything == <<vars, tables, regranted>>

DbHolds(A) == \E i \in DOMAIN dbQueue : dbQueue[i].action \in A

\* What the queues say the database comes to next.
Phase ==
  IF exited THEN "off"
  ELSE IF Pending({"PrepareData"}) \/ DbHolds({"InitDatabase"}) THEN "InitDatabase"
  ELSE IF DbHolds({"AddDevice"}) THEN "AddDevice"
  ELSE IF DbHolds({"AddSession"}) THEN "AddSession"
  ELSE "recording"

DB == INSTANCE Database WITH
  QueryFails <- FALSE, Refuses <- Strict,
  phase <- Phase, current <- session.hash, ended <- session.ended,
  serving <- dbServing

\* The program is not running and the file is empty.
RecorderInit ==
  /\ queue = <<>> /\ dispatching = FALSE
  /\ dbQueue = <<>> /\ dbServing = FALSE /\ dbTurn = FALSE
  /\ conn \in Conn /\ sources = {} /\ peer = [c \in Conn |-> Idle] /\ orphaned = FALSE
  /\ session = [hash |-> NoHash, named |-> FALSE, ended |-> FALSE]
  /\ sessionTimer = FALSE /\ inactivity = "off" /\ lanes = NoHash /\ strayLanes = FALSE
  /\ exited = TRUE
  /\ DB!Init
  /\ regranted = FALSE

\* main creates the Application, which opens the file and registers the queues.
Start(d, init, removed) ==
  /\ queue' = <<Rq("PrepareData")>> /\ dispatching' = TRUE
  /\ dbQueue' = <<[action |-> "CheckDatabase", hash |-> NoHash]>>
  /\ dbServing' = TRUE /\ dbTurn' = TRUE
  /\ conn' \in Conn /\ sources' = {} /\ peer' = [c \in Conn |-> Idle] /\ orphaned' = FALSE
  /\ session' = [hash |-> NoHash, named |-> FALSE, ended |-> FALSE]
  /\ sessionTimer' = FALSE /\ inactivity' = "off"
  /\ lanes' = NoHash /\ strayLanes' = FALSE
  /\ exited' = FALSE
  /\ DB!StartProgram(d, init, removed)
  /\ regranted' = FALSE

\* A signal, or a crash, between any two callbacks.
Crash == ~exited /\ Exit /\ DB!StopProgram

\* The dispatcher's callbacks; only SetSession is one of Database's steps too.
TakeSession == SetSession /\ DB!SetSession(Head(queue).hash)
Other ==
  \/ PrepareData \/ Connect \/ (\E up \in BOOLEAN : Reconnect(up)) \/ Throw
  \/ SendDescriptor \/ RequestSession \/ StartStream \/ ProcessData \/ Status \/ Quit
RecorderDispatch == TakeSession \/ (Other /\ UNCHANGED tables)

\* The database queue's callbacks.
Store ==
  \/ CheckDatabase /\ UNCHANGED tables
  \/ InitDatabase /\ DB!InitDatabase
  \/ AddDevice /\ DB!AddDevice
  \/ AddSession /\ DB!AddSession
  \/ EndSession /\ DB!EndSession
  \/ AddData /\ DB!AddData

\* The sessions that are granted and have no row yet.
Granted == Cardinality({i \in DOMAIN queue : queue[i].action = "SetSession"})
           + Cardinality({i \in DOMAIN dbQueue : dbQueue[i].action = "AddSession"})

\* external: the monitor grants c a session.
Grant(c) == /\ Len(born) + Granted < MaxSessions
            /\ ReceiveSession(c)
            /\ regranted' = (regranted \/ peer[c].hash # NoHash)

\* The other events of the sockets and the timers.
Event ==
  \/ \E c \in Conn : ReceiveData(c) \/ ReceiveStatus(c) \/ ConnectionLost(c)
  \/ SessionTimerExpires
  \/ InactivityTick

RecorderNext ==
  \/ \E d \in Device, init, removed \in BOOLEAN : Start(d, init, removed)
  \/ UNCHANGED regranted /\ (Crash \/ RecorderDispatch \/ Store)
  \/ (\E c \in Conn : Grant(c)) /\ UNCHANGED tables
  \/ Event /\ UNCHANGED <<tables, regranted>>

RecorderSpec == RecorderInit /\ [][RecorderNext]_everything

\* Reader's fairness, for the same callbacks.
RecorderFairness ==
  /\ WF_everything(RecorderDispatch /\ UNCHANGED regranted)
  /\ WF_everything(Store /\ UNCHANGED regranted)
  /\ SF_everything(SessionTimerExpires /\ UNCHANGED <<tables, regranted>>)
  /\ SF_everything(InactivityTick /\ UNCHANGED <<tables, regranted>>)
  /\ SF_everything(Reconnect(TRUE) /\ UNCHANGED <<tables, regranted>>)

FairRecorder == RecorderSpec /\ RecorderFairness

-----------------------------------------------------------------------------
(* Properties *)

\* The requests reach the tables in the order Database takes for granted: those
\* of the start first, AddSession directly after SetSession and before any other
\* query or change of session, data and ends only within a session.
RequestOrder == DB!Spec

\* No request meets tables that cannot take it: whatever waits in the database
\* queue while it is served has a step of its handler, and so has a SetSession.
HandlersMeet ==
  ~exited => /\ dbServing /\ dbQueue # <<>> => ENABLED Store
             /\ dispatching /\ ~dbTurn /\ queue # <<>> /\ Head(queue).action = "SetSession"
                  => ENABLED TakeSession

\* Data that reaches the database queue while the tables work finds an open row
\* of the run's own session; were there none, the failed insertion would only be
\* logged and the sample lost (AddData).  A session that --strict refuses has no
\* row, and the Quit that follows it is on its way.
OwnRow(s) == s.open /\ s.hash = session.hash /\ born[s.born].run = run
DataKept ==
  ~exited /\ ~orphaned /\ dbServing /\ ~Pending({"Quit"}) /\ DbHolds({"AddData"})
    => \E s \in sessions : OwnRow(s)

\* A sample ends in one row, of the session it was sampled in: doProcessData asks for
\* a row while the session that is current is the sample's own, and the insertion,
\* which finds the session by its hash, finds the one row of it that this run
\* inserted, whatever earlier runs left in the file under that hash (ProcessData,
\* AddData).
SampleStored ==
  [][~exited /\ ~orphaned /\ ~Pending({"Quit"}) =>
       /\ ProcessData =>
            dbQueue' = Append(dbQueue, [action |-> "AddData", hash |-> Head(queue).hash])
       /\ AddData =>
            \E s \in sessions :
              /\ OwnRow(s) /\ s.hash = Head(dbQueue).hash
              /\ data' = data \cup {[session |-> s.id, born |-> s.born, run |-> run]}]_everything

\* A session that is replaced has been ended: of the rows this run inserted only
\* the current session's may be open, as long as no connection was replaced while
\* it was still an event source, or granted a second session (Reconnect,
\* SetSession).
OneOpen ==
  ~exited /\ ~orphaned /\ ~regranted /\ ~Pending({"Quit"})
    => \A s \in sessions :
         s.open /\ born[s.born].run = run => s.born = Len(born)

\* A row this run inserted is open.
OpenHere == \E s \in sessions : s.open /\ born[s.born].run = run

\* The end of a connection is on its way to the file: a session that is open there
\* without a connection has not ended for the program either, and the Reconnect that
\* asks for its end, or that request itself, waits (ConnectionLost, DropConnection,
\* Reconnect, EndSession).
EndComing ==
  ~exited /\ ~orphaned /\ ~regranted /\ ~Pending({"Quit"}) /\ conn \notin sources /\ OpenHere
    => ~session.ended /\ (Pending({"Reconnect"}) \/ DbHolds({"EndSession"}))

\* The end of a connection reaches the file: a session whose connection is gone
\* is ended there, unless the program exits first.
Closes ==
  (conn \notin sources /\ OpenHere)
    ~> (~OpenHere \/ exited \/ Saturated \/ regranted)
=============================================================================
