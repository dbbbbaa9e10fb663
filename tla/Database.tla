------------------------------ MODULE Database ------------------------------
(***************************************************************************)
(* The SQLite file of tkmreader: its device, session and data rows, the    *)
(* handlers of SQLiteDatabase that write them, and the runs of the program *)
(* that share one file.  Every run may be for another device and may end   *)
(* at any moment; the file stays.  The requests come in the order that the *)
(* queues allow: the two of the start, then those of the sessions, each    *)
(* handled before the dispatcher's next request (Recorder shows it).       *)
(* The eleven data tables differ only in their columns and are one here.   *)
(***************************************************************************)
EXTENDS Naturals, Sequences, FiniteSets

CONSTANTS
  Device,      \* device hashes (address and port) a run may be started for
  Hash,        \* session hashes the monitor may grant
  NoHash,      \* the hash of a SessionData that was never set
  QueryFails,  \* a query may fail though the rows allow it (file locked, disk
               \* full); this also covers dying between two queries of a handler
  QueueStops,  \* external: a queue whose handler returns false is removed
  Refuses,     \* a session may become current without AddSession being pushed:
               \* --strict refuses it, or the push fails
  MaxRuns,     \* bound on the runs of the program
  MaxSessions  \* bound on the session rows ever inserted

ASSUME HashAssumption == NoHash \notin Hash
ASSUME OptionAssumption ==
  QueryFails \in BOOLEAN /\ QueueStops \in BOOLEAN /\ Refuses \in BOOLEAN
ASSUME BoundAssumption == MaxRuns \in Nat /\ MaxSessions \in Nat

VARIABLES
  created,  \* the tables exist
  devices,  \* rows of the devices table: [id, hash]
  sessions, \* rows of the sessions table: [id, hash, open, device] and the
            \* insertion they stem from (history)
  data,     \* what the rows of the data tables refer to: [session], and the
            \* insertion and the run they were recorded in (history)
  born,     \* the session insertions, in order: hash, device and run (history)
  run,      \* number of this run of the program
  phase,    \* the request that comes next: one of the start, AddSession after
            \* the dispatcher's SetSession, or any ("recording"); or "off"
  device,   \* DeviceData::hash
  forced,   \* --init is given
  current,  \* SessionData::hash
  ended,    \* SessionData::ended is not 0
  serving   \* the database queue is an event source

file == <<created, devices, sessions, data, born>>
process == <<run, phase, device, forced, current, ended, serving>>
vars == <<file, process>>

MaybeHash == Hash \cup {NoHash}
DeviceRows == [id: Nat, hash: Device]
SessionRows == [id: Nat, hash: Hash, open: BOOLEAN, device: Nat, born: Nat]
DataRows == [session: Nat, born: Nat, run: Nat]
Births == [hash: Hash, device: Device, run: Nat]

Init ==
  /\ created = FALSE /\ devices = {} /\ sessions = {} /\ data = {} /\ born = <<>>
  /\ run = 0 /\ phase = "off" /\ device \in Device /\ forced = FALSE
  /\ current = NoHash /\ ended = FALSE /\ serving = FALSE

-----------------------------------------------------------------------------
(* Queries *)

\* external: SQLite gives a row of a table with INTEGER PRIMARY KEY and without
\* AUTOINCREMENT the successor of the largest id in the table.
NextId_Sentinel(rows) == 0 - 1  \* mutant
NextId(rows) == CHOOSE n \in {r.id + 1 : r \in rows} \cup {1} : \A r \in rows : r.id < n

\* A query on tables that exist succeeds unless something outside fails.
Results == IF ~created THEN {FALSE} ELSE IF QueryFails THEN BOOLEAN ELSE {TRUE}

\* DELETE FROM ... WHERE Hash IS h.
WithoutHash_All(rows, h) == {}     \* mutant: no WHERE
WithoutHash_None(rows, h) == rows  \* mutant: nothing is removed
WithoutHash(rows, h) == {r \in rows : r.hash # h}

\* UPDATE ... SET EndTimestamp ... WHERE Hash IS h.
Stamped_None(rows, h) == rows  \* mutant
Stamped(rows, h) == {IF s.hash = h THEN [s EXCEPT !.open = FALSE] ELSE s : s \in rows}

\* SELECT Id FROM devices WHERE Hash IS ...: the device's rows.
DeviceIds == {d.id : d \in {e \in devices : e.hash = device}}

\* SELECT Id FROM sessions WHERE Hash IS ... AND EndTimestamp = 0, in which the
\* insertions into all the data tables end.
OpenSessions_Ended == {s \in sessions : s.hash = current}  \* mutant: no EndTimestamp
OpenSessions == {s \in sessions : s.hash = current /\ s.open}

\* What the handler's result does to the queue it serves.
Returns(result) == serving' = (result \/ ~QueueStops)

\* DROP TABLE stops at the first table that fails; foreign keys are not
\* enforced, so the order of the tables does not matter.
DropTables ==
  \E n \in IF QueryFails THEN 0 .. 3 ELSE {3} :
    /\ devices' = IF n > 0 THEN {} ELSE devices
    /\ sessions' = IF n > 1 THEN {} ELSE sessions
    /\ data' = IF n > 2 THEN {} ELSE data

-----------------------------------------------------------------------------
(* Runs of the program *)

\* The Application and SQLiteDatabase constructors: with --init, or when the
\* file cannot be opened, it is removed.
StartProgram(d, init, removed) ==
  /\ phase = "off" /\ run < MaxRuns
  /\ init => removed
  /\ IF removed
     THEN created' = FALSE /\ devices' = {} /\ sessions' = {} /\ data' = {}
     ELSE UNCHANGED <<created, devices, sessions, data>>
  /\ run' = run + 1 /\ phase' = "InitDatabase" /\ device' = d /\ forced' = init
  /\ current' = NoHash /\ ended' = FALSE /\ serving' = TRUE
  /\ UNCHANGED born

\* exit(), a signal or a crash.  Nothing is written on the way out.
StopProgram == /\ phase # "off"
               /\ phase' = "off"
               /\ UNCHANGED <<file, run, device, forced, current, ended, serving>>

-----------------------------------------------------------------------------
(* The database queue's handlers *)

Handles(p) == phase = p /\ serving

\* The tables are created, or the handler fails and AddDevice is not pushed.
InitDatabase ==
  /\ Handles("InitDatabase")
  /\ IF forced THEN DropTables ELSE UNCHANGED <<devices, sessions, data>>
  /\ \E ok \in IF QueryFails THEN BOOLEAN ELSE {TRUE} :
       /\ created' = (created \/ ok)
       /\ phase' = IF ok THEN "AddDevice" ELSE "recording"
       /\ Returns(ok)
  /\ UNCHANGED <<born, run, device, forced, current, ended>>

\* The device's row is removed, whether or not there is one, and added anew.
AddDevice ==
  /\ Handles("AddDevice")
  /\ phase' = "recording"
  /\ \E has, rem, add \in Results :
       LET rest == IF has /\ rem THEN WithoutHash(devices, device) ELSE devices
       IN  /\ devices' = IF add THEN rest \cup {[id |-> NextId(rest), hash |-> device]}
                         ELSE rest
           /\ Returns(add)
  /\ UNCHANGED <<created, sessions, data, born, run, device, forced, current, ended>>

\* The dispatcher's doSetSession makes h the current session and pushes
\* AddSession, which no other request of either queue comes before.
SetSession(h) ==
  /\ phase = "recording" /\ Len(born) < MaxSessions
  /\ current' = h
  /\ \E pushed \in {TRUE, ~Refuses} :
       phase' = IF pushed /\ serving THEN "AddSession" ELSE phase
  /\ UNCHANGED <<file, run, device, forced, ended, serving>>

\* A row with the hash of the new session is removed, then the row of the
\* session is inserted.  The code removes by the current hash and inserts that of the
\* request, which are one (Reader, DbRequestsCurrent).  The insertion fails when the
\* device has no row.
AddSession ==
  /\ Handles("AddSession")
  /\ phase' = "recording"
  /\ \E has, rem, add \in Results :
       LET rest == IF has /\ rem THEN WithoutHash(sessions, current) ELSE sessions
       IN  IF add /\ DeviceIds # {}
           THEN \E id \in DeviceIds :
                  /\ sessions' = rest \cup
                       {[id |-> NextId(rest), hash |-> current, open |-> TRUE,
                         device |-> id, born |-> Len(born) + 1]}
                  /\ born' = Append(born, [hash |-> current, device |-> device, run |-> run])
                  /\ ended' = FALSE
                  /\ Returns(TRUE)
           ELSE /\ sessions' = rest
                /\ Returns(FALSE)
                /\ UNCHANGED <<born, ended>>
  /\ UNCHANGED <<created, devices, data, run, device, forced, current>>

\* Reconnect asks for it while the current session has not ended.  Every row of
\* the session is stamped; a failure is only logged.
EndSession ==
  /\ Handles("recording") /\ current # NoHash /\ ~ended
  /\ \E ok \in Results :
       /\ sessions' = IF ok THEN Stamped(sessions, current) ELSE sessions
       /\ ended' = ok
  /\ UNCHANGED <<created, devices, data, born, run, phase, device, forced, current, serving>>

\* The row refers to an open session with the current hash; without one, NOT
\* NULL fails the insertion, which is only logged.
AddData ==
  /\ Handles("recording") /\ current # NoHash
  /\ \/ \E s \in OpenSessions :
          /\ TRUE \in Results
          /\ data' = data \cup {[session |-> s.id, born |-> s.born, run |-> run]}
     \/ /\ FALSE \in Results \/ OpenSessions = {}
        /\ UNCHANGED data
  /\ UNCHANGED <<created, devices, sessions, born, process>>

Next ==
  \/ \E d \in Device, init, removed \in BOOLEAN : StartProgram(d, init, removed)
  \/ StopProgram
  \/ InitDatabase \/ AddDevice
  \/ \E h \in Hash : SetSession(h)
  \/ AddSession \/ EndSession \/ AddData

Spec == Init /\ [][Next]_vars

-----------------------------------------------------------------------------
(* The file as Recording describes it *)

\* The row that AddData finds: open, of the current session, of whichever run.
Active ==
  IF phase = "recording" /\ OpenSessions # {}
  THEN (CHOOSE s \in OpenSessions : TRUE).born ELSE 0

File == INSTANCE Recording WITH
  opened <- [i \in DOMAIN born |-> born[i].hash],
  present <- {s.born : s \in sessions},
  closed <- {s.born : s \in {t \in sessions : ~t.open}},
  active <- Active,
  fed <- {x.born : x \in data}

-----------------------------------------------------------------------------
(* Properties *)

\* Every variable has its type.
TypeOK ==
  /\ created \in BOOLEAN /\ devices \in SUBSET DeviceRows
  /\ sessions \in SUBSET SessionRows /\ data \in SUBSET DataRows
  /\ born \in Seq(Births)
  /\ run \in Nat /\ device \in Device /\ forced \in BOOLEAN
  /\ phase \in {"off", "InitDatabase", "AddDevice", "recording", "AddSession"}
  /\ current \in MaybeHash /\ ended \in BOOLEAN /\ serving \in BOOLEAN

\* A session is never attributed to a device it was not recorded from, though
\* the device rows are removed and added at every start and their ids are used
\* again (AddDevice).
OwnDevice ==
  \A s \in sessions, d \in devices : s.device = d.id => born[s.born].device = d.hash

\* Data is never attributed to a session of another hash, though the ids of
\* removed sessions are used again (AddSession).
SameHash ==
  \A x \in data, s \in sessions : x.session = s.id => born[x.born].hash = s.hash

\* A hash names one session: the row of a collision is gone before the new one
\* is inserted (AddSession), so the subselects that read by hash are unambiguous.
OneRowPerHash == \A s, t \in sessions : s.hash = t.hash => s = t

\* Data is recorded in a session that this run inserted, never in one that an
\* earlier run left open with the same hash (AddSession, AddData).
RecordedInThisRun == \A x \in data : born[x.born].run = x.run

\* What the program believes to have ended takes no more data: the end in
\* memory and the end in the file agree (EndSession, AddSession).
EndedIsClosed ==
  phase = "recording" /\ ended => \A s \in sessions : s.hash = current => ~s.open

\* The tables keep what the file promises: in particular a session that ended,
\* or that a run left open when it stopped, takes no data again, though rows are
\* found by a hash that the monitor may grant once more (AddSession, AddData).
KeepsRecording == File!Spec

\* "ON DELETE CASCADE" (Query.cpp) on the data tables: removing a session takes
\* its data along, so a session has no data that was recorded in another one.
NoInheritedData ==
  \A x \in data, s \in sessions : x.session = s.id => x.born = s.born
=============================================================================
