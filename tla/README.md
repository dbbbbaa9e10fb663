# tkmreader in TLA+

tkmreader connects to a taskmonitor daemon over TCP, asks it for a session,
requests data sources periodically and records the answers in a SQLite file
and as JSON. It reconnects for ever. This directory models its event loop, its
update lanes, its two output files and its command line, checks them with TLC,
and proves with TLAPS, for every value of the constants, what they promise
always: the safety properties of every module, the whole program included, and
the refinement of the abstract specification of the file.

| file | what it is |
| --- | --- |
| `Reader.tla` | the event loop: dispatcher, connections, timers, update lanes, database queue |
| `Database.tla` | the SQLite file across many runs of the program |
| `Recording.tla` | abstract: what the file promises to whoever reads it; `Database` implements it |
| `Recorder.tla` | the whole program run after run: `Reader` with the tables of `Database` behind its queue |
| `UpdateLanes.tla` | the lane timers, the list of data sources and their requests, on top of `Reader` |
| `Samples.tla` | one sample: its JSON record, its SQL statements, the two files over several runs |
| `Arguments.tla` | option parsing, defaults, and the texts that become numbers |
| `ReaderProofs.tla` | theorems about `Reader`: types, no lost wakeup, supervision, lanes, database requests |
| `SessionProofs.tla` | the order of sessions and data in the dispatcher queue: `Attributed`; one connection at a time |
| `DatabaseProofs.tla` | theorems about `Database`, and that it implements `Recording` |
| `RecorderProofs.tla` | the whole program implements `Database`, and `Reader`'s theorems hold in each of its runs |
| `RowsProofs.tla` | the whole program and its file: what waits meets the rows it is for |
| `UpdateLanesProofs.tla` | theorems about `UpdateLanes`, on top of those about `Reader`; the list, entry by entry |
| `SamplesProofs.tla` | theorems about `Samples` |
| `ArgumentsProofs.tla` | theorems about `Arguments` |
| `MC*.tla` | instances for TLC (symmetry, sets given by name) |
| `<run>.cfg` | one configuration per run |
| `PROJECT.json` | components, runs, mutants, map to the source, findings, hazards, theorems |

## 1. The system

One thread polls event sources (bswinfra's `EventLoop`) and runs the callback
of a ready one, higher priority first. There is no other concurrency in the
program: what is hard is the order in which callbacks of the queues, the
sockets and the timers run, and the state they find when they do.

| component | state | operations |
| --- | --- | --- |
| Event loop (bswinfra, external) | registered sources with priorities | add, remove (runs the finalizer), dispatch |
| Dispatcher (`Dispatcher.cpp`) | `m_queue`, `m_reqSessionTimer` | PrepareData, Connect, Reconnect, SendDescriptor, RequestSession, SetSession, StartStream, ProcessData, Status, Quit |
| Connection (`Connection.cpp`) | socket, registered or not, time of the last message | connect, read callback, finalizer |
| Application (`Application.cpp`) | `m_connection`, SessionInfo, SessionData, DeviceData, inactivity timer, lane timers, data sources | resetConnection, resetInactivityTimer, configure/start/stop update lanes |
| Database queue (`IDatabase.h`, `SQLiteDatabase.cpp`) | high-priority queue | CheckDatabase, InitDatabase, AddDevice, AddSession, EndSession, AddData |
| SQLite tables (`Query.cpp`) | devices, sessions, eleven data tables | CREATE, DROP, INSERT, DELETE, UPDATE, SELECT |
| Update lanes (`Application.cpp`, `DataSource.h`) | three periodic timers and the sources on each | tick: request every source of the lane |
| Command line (`Arguments.cpp`, `Main.cpp`) | options | parsing, defaults |
| JSON output (`JsonWriter.cpp`) | stream | print a record |
| Tests | one fixture of another program of the family | none that exercises this one |

How they interact:

* A message from the monitor becomes a dispatcher request (SetSession,
  ProcessData, Status). The read callback returning false removes the source,
  and its finalizer pushes Reconnect.
* Dispatcher handlers push follow-up requests on their own queue and requests on
  the database queue. Database requests carry no session: their handlers read
  the global one.
* Both the session timer and the inactivity timer remove and replace
  `m_connection`; so does Reconnect. A removal runs the finalizer only if the
  object was registered.
* StartStream configures and starts the lanes, Reconnect stops them.

What is hard, and what each component owes:

* *Dispatcher and Connection.* A connection ends in four ways (own callback,
  two timers, failed send), and by then the object may have been replaced. Some
  path must always push Reconnect (`Recovers`, `Reattaches`); a monitor that is
  connected and silent must be noticed (`Supervised`, `SilentDropped`); with
  `--strict` a refused session ends the program (`StrictStops`).
* *Session state.* It is global and overwritten by each SetSession, while data
  and database requests refer to it implicitly (`Attributed`,
  `DbRequestsCurrent`, `LanesCurrent`).
* *Database.* The program never closes its session on exit, device rows are
  deleted and inserted at each start, SQLite reuses ids, foreign keys are not
  enforced and nothing is in a transaction. Yet rows must keep belonging to each
  other (`OwnDevice`, `SameHash`, `OneRowPerHash`), and what has ended or was left
  behind takes no data again (`RecordedInThisRun`, `EndedIsClosed`,
  `KeepsRecording`).
* *The two together.* A handler of the database relies on what the dispatcher did
  before, in a queue that carries no state (`RequestOrder`, `HandlersMeet`,
  `DataKept`); a sample ends in a row of the session it was sampled in, through two
  queues that find it by what is current and by hash (`SampleStored`); a session that
  is replaced or whose connection is gone is ended in the file (`OneOpen`,
  `EndComing`, `Closes`).
* *Update lanes.* Timers that may be lost share one list, which a later request
  than the session's fills (`SourcesCurrent`, `SummaryAgrees`), ask for what a session
  lists, no more and no less (`TicksAsk`), and write to whatever connection is current
  (`StoppedSoon`, `Polled`).
* *The output files.* Two files, no transaction, several runs that may die
  anywhere (`JsonAhead`, `OwnLine`, `RowsPrefix`, `Heals`), and two descriptions of
  the same sample (`OutputsAgree`).
* *Command line.* Options may come twice; the port is converted in two places and
  the timeout is a product (`FirstCounts`, `SamePort`, `MinimumIfFits`).

The complete list of hazards, with the lines where they bite, is in
`PROJECT.json`.

## 2. The modules

### Reader

One step is one callback.

| variable | code |
| --- | --- |
| `queue`, `dispatching` | `Dispatcher::m_queue`; the queue is an event source |
| `dbQueue`, `dbServing` | `IDatabase::m_queue`; the queue is an event source |
| `dbTurn` | the database queue was ready at the last poll, so its priority lets it run before the dispatcher |
| `conn`, `sources` | `Application::m_connection`; the registered Connection objects |
| `peer` | the monitor's view of each registered connection: descriptor received, requests not answered, session granted |
| `session` | SessionInfo's hash and whether its name is set, SessionData's hash and whether `ended` is set |
| `sessionTimer`, `inactivity` | `m_reqSessionTimer` armed; `m_inactiveTimer` off, or armed and the connection heard or quiet since it last judged it |
| `lanes`, `strayLanes` | the session the lane timers and data sources were configured for; timers that run though `Application` holds them no more |
| `orphaned` | history: a registered connection was replaced |
| `exited` | the process has ended |

Each handler of the dispatcher is one action of the same name, each of the
database's too. `ReceiveSession`, `ReceiveData`, `ReceiveStatus` and
`ConnectionLost` are the read callback of a connection; `SessionTimerExpires`
and `InactivityTick` are the lambdas of the two timers. `Throw` is an exception
out of a handler (a port that is no number, a name that does not resolve),
which `main` catches and ends the program.

What is abstracted:

* A message is its kind, the session it belongs to and one bit (`fit`): the
  libtkm version agrees, or the Status is the one `doStatus` accepts.
* The read callback reads until no message is left; the model reads one message
  a step. The requests it pushes are the same, and more can happen between them.
* Time is not measured. A timer that is armed can fire at any callback. The
  inactivity timer drops the connection when it was silent for the whole
  interval, and may also drop one that was heard, because the comparison is
  strict on a time taken after other callbacks (and after `sleep(3)`). After a late
  tick the next may come too early to drop a connection that has been silent since:
  it changes nothing, at most once a message, so the model leaves that late tick out
  and has the connection heard until the next.
* A Connection object whose source is removed has no more influence, so its
  identity is used again. `conn` may be an identity that is no longer or not
  yet registered.
* Requests pushed on a queue that is not served are not kept.

What is taken of code outside the repository, and why:

* bswinfra's loop: one thread; one request per wakeup of a queue; a ready source
  of higher priority first (`enableEvents` in `SQLiteDatabase.cpp` asks for it);
  it keeps a reference to what is registered; the removal of a registered source
  runs its finalizer, of one that is not does nothing. Whether a queue whose
  handler returns false is removed is left open: `QueueStops` is a constant, and
  the theorems hold for both values.
* A push on the dispatcher's queue succeeds (the code ignores most results); one
  on the database queue may fail, as `PushResults` says.
* taskmonitor: it reads the descriptor before it answers, grants one session per
  request, and samples data within the session it granted last on that
  connection. Status messages may come at any time once the descriptor is there.
* A write (descriptor, request) may fail, and one reported as flushed may still
  not arrive.

`MaxQueue` bounds the dispatcher queue for sockets and timers; handlers are never
held back by it. `Saturated` (every identity of `Conn` is registered) is the
bound on orphaned connections: where it is reached, `resetConnection` has no new
identity, and the liveness properties exclude it by name.

### Database

The rows of the file, and the runs of the program that share it. A run starts
for some device with or without `--init`, handles requests in the order `Reader`
allows, and stops at any moment (`StopProgram`: exit, signal, crash: nothing is
written on the way out). Each handler is one action; inside it the statements
run in the code's order and each may fail (`QueryFails`), the earlier ones
staying in effect because there is no transaction. Dying between two statements
leaves the same file as a failure of the second, followed by `StopProgram`.

* `SetSession` is the dispatcher's: it makes a hash current and pushes AddSession,
  which comes next (phase "AddSession"), or does not, when `--strict` refuses the
  session (`Refuses`) or the queue is not served.
* `NextId`: SQLite gives a row the successor of the largest id in the table
  (INTEGER PRIMARY KEY without AUTOINCREMENT), so ids are reused.
* Foreign keys are declared but not enforced: no `PRAGMA foreign_keys` is
  executed, and SQLite's default is off. `WithoutHash` therefore deletes from
  one table only.
* `born` and the fields `born` and `run` of rows are history: the insertion and
  the run a row stems from. No guard reads them except the bound `MaxSessions`.
* The eleven data tables differ only in columns and are one here; a data row is
  what it refers to. Equal rows are one row.

### Recording, and Database as its implementation

`Recording` speaks of sessions in the order they were opened, not of rows, ids or
requests: one session at most is active, only the active one takes data, a new one
takes the place of one with the same hash, and what is closed or abandoned is never
active again. `Database` implements it (`KeepsRecording`) under

| Recording | Database |
| --- | --- |
| `opened`, `present`, `closed` | hashes of `born`; the insertions `sessions` has rows of; those not open |
| `active` | the row the subselect of AddData finds: the current hash, open, in phase "recording", of *whichever run* |
| `fed` | the insertions data was recorded in |

`active` is what makes it more than bookkeeping: nothing in the code keeps an
active session, it is found again and again by hash, and an earlier run may have
left a row open that has the hash granted now. It is a step of `Recording` that
such a row never becomes active because AddSession removes it first. With sessions
that are refused but current (`--strict`) this is not so, hence `Refuses` is
FALSE in the run; section 7 says what stands between that and the file. Nor is it
so when statements fail (`QueryFails`), see section 6.

### Recorder

`Recorder` extends `Reader` and instantiates `Database` with `phase`, `current`,
`ended` and `serving` replaced by what `Reader`'s queues and session say (`Phase`).
Each database request is one step of both modules, so the results that `Reader`
leaves open are those the rows allow; everything else leaves the tables alone. What
`Database` assumes, that requests come in its phases, becomes a property
(`RequestOrder == DB!Spec`: the composition implements `Database`), with
`HandlersMeet` beside it, because a conjunction of two actions could also hide a
request that one of them cannot take.

The process starts (`Start`), ends by itself, or is killed (`Crash`) between any two
callbacks, `MaxRuns` times; `RecorderInit` is the empty file. `DatabaseAssumption`
says that the program was given a file; without one there is nothing to compose. Two parts are about
the monitor: `Grant` bounds the sessions, and the history variable `regranted`
says whether a connection that has a session was granted another in this run.

### UpdateLanes

`held` are the lanes whose timer Application holds, `stray` those with timers that
run and are lost. Any number of lost timers of one lane do the same, so one bit a
lane stands for them. `dataSources` is the list, entry by entry; `wrote` is the last
request. `Begin` and `End` are joined to `Reader`'s StartStream and Reconnect, a
`Tick` is a step of its own, and every other step of `Reader` leaves the lanes alone.
`SummaryAgrees` shows that the two variables `Reader` has for all this are exact.
The sources of a session are `Config`, a constant: a hash names one SessionInfo.
The list's remove/append/commit is one step because one callback does all of it;
`LaneEntries` goes through a lane's types one by one, as the code does, and passes over
those it does not know.

### Samples

A sample is its kind and its parts: groups of columns, or the names of a list's
entries. The program is a sequence of stages, because the queues serve one sample
at a time (`DbRequestsCurrent`); it may stop in any of them, also between the removal
of the two files (`RemoveFirst`, `RemoveJson`), between two CREATE statements,
between two rows of a sample and within a record (`PrintTorn`, `SetSessionTorn`). A
JSON file is its lines, a line the records on it, of samples or of sessions: a session
that is accepted prints one (`SetSession`), which is the first of its run. Labels
matter and values do not: `Printed` gives the label and the part under it,
`Statements` the parts that become rows, `LeftOut` the groups a record lacks.

### Arguments

Options are read one by one in any order, repeated or unknown; `args` is the map,
which keeps what was inserted first. The handlers that make a number of a text are
the actions behind it. A text is the number it spells or `NotANumber`. The widths of
words are constants, so that TLC can reach their ends; `MCArguments` has 8 bits for
`size_t` and 4 for a port.

## 3. The runs

| run | instance | shows |
| --- | --- | --- |
| `ReaderSafety` | 3 connections, 2 hashes, database, `--strict`, `QueueStops`, queue bound 2 | `TypeOK`, `Recovers`, `Supervised`, `DbRequestsCurrent`, `Attributed`, `LanesCurrent` |
| `DatabaseFile` | 3 devices, 2 hashes, 6 runs, 3 insertions | `TypeOK`, `OwnDevice`, `SameHash`, `OneRowPerHash`, `RecordedInThisRun`, `EndedIsClosed`, `KeepsRecording` |
| `RecorderFile` | 2 connections, 2 hashes, 2 runs, 2 sessions, `--strict` | `RequestOrder`, `HandlersMeet`, `DataKept`, `SampleStored`, `OneOpen`, `EndComing` |
| `RecorderCloses` | 2 connections, 1 hash, 1 run, 2 sessions, fairness | `Closes`, `SilentDropped` |
| `UpdateLanes` | 2 connections, 2 hashes with different lanes, queue bound 2, fairness | `LanesTypeOK`, `SummaryAgrees`, `SourcesCurrent`, `TicksAsk`, `StoppedSoon`, `Polled` |
| `ReaderReattaches` | 2 connections, 2 hashes, database, `--strict`, queue bound 2, fairness | `Reattaches`, `StrictStops` |
| `SamplesFiles` | 5 kinds (each shape, and both that leave a group out), names that collide, lists of up to 2 entries, 3 runs, 2 samples, sessions while the JSON file has fewer than 6 lines | `TypeOK`, `JsonAhead`, `OwnLine`, `RowsPrefix`, `Heals`, `OutputsAgree` |
| `ArgumentsUse` | up to 3 options | `FirstCounts`, `SamePort`, `MinimumIfFits` |

Four further runs check one statement each of a comment, a log message or the
schema that the code does not keep (section 6).

Deadlock is checked for `Arguments`, whose every command line comes to an end. It is
not for the others: they may really stop (`Reader` by `exited` or a queue that is no
longer served, the modules with several runs at the bounds).

**Bounds.** With `--strict` a session that fits is
handled as without, so those runs cover both. Three connections are the current one and two that were replaced
while registered, of which one can grant a session and the other be lost. Two
hashes tell the session of a message from the current one. A queue bound of 2
means that sockets and timers push while at most one request waits, so two
requests of different origin stand in either order and handlers add theirs
behind; a bound of 3 was also run once, with the same result. Three devices and
two insertions suffice for an id to be reused by a third party; six runs let each
device come back. In `Recorder` two runs are enough for one to find what
the other left open, and two connections for a loss and its successor; the runs of
more devices are `Database`'s. The liveness runs use two connections and the
same queue bound of 2, so that losses, timers and sessions come between a session
and its stream, and between a Quit and what was queued before it; `RecorderCloses`
has one hash, because what it asks does not depend on which session it is, and
`UpdateLanes` neither database nor `--strict`: the lanes see the database by failed
pushes only, and what `--strict` adds to a session that fits is nothing. In the runs
pushes succeed (`PushResults` is TRUE only); what a failing push leaves of
`Recovers`, and so of the wakeup behind `Reattaches`, is proved.
The configurations of `MCUpdateLanes` have a type the reader does not know amid a
lane and alone in one, a source in two lanes, and empty lanes. In `SamplesFiles` two
samples are enough for a failed or torn one to be followed by another, and six lines
for each of three runs to print a session's record and tear one. Two entries are enough for a list to be cut in
the middle and for an equal pair. In three options
one is given twice, in either order, with another beside them; the texts stand on
both sides of every comparison and every wrap.

**Fairness.** `WF(Dispatch)` and `WF(DbStep)`: the loop never passes over a ready
source for ever. `SF` of the two timers: an armed timer does fire; the fairness
is strong because `MaxQueue`, which the code does not have, may disable its action
in between. `SF(Reconnect(TRUE))`: this one is about the monitor: if connecting is
attempted again and again, some attempt succeeds. `Reattaches` is false without it
and should be. `Recorder` has the same fairness for the same callbacks; nothing
makes it start or crash. `UpdateLanes` adds `WF` of each lane's tick: its timer is
periodic. Nothing is assumed of messages or of lost connections.

**Conditions.** Several properties name what they do not hold without: `~orphaned`
(no connection was replaced while it was still an event source, finding
`ReaderSingleConnection`; `OneConnectionIfSent` proves that only a failed
SendDescriptor does it), `FALSE \notin PushResults` (pushes succeed), a served
queue, `~regranted` for `OneOpen`, `EndComing` and `Closes`, no pending Quit for what `--strict`
refuses. A connection that is granted two sessions leaves the first open: a
connection lost between Connect and SendDescriptor leaves a SendDescriptor and with
it a RequestSession behind the Reconnect, so the next connection is asked twice.

**Mutants.** Every property of a passing run has one definition of the code whose
plausible mistake breaks it; the mutated operators stand next to the originals
and are marked `mutant`.

## 4. The proofs

All theorems hold for every value of the constants that the modules' named
assumptions allow: any number of connections, sessions, devices, kinds and options,
any widths of words. The bounds (`MaxQueue`, `MaxRuns`, `MaxSessions`,
`MaxSamples`, `MaxLines`, `MaxOptions`) only restrict guards; no proof uses their values, so
nothing depends on them. Some theorems have a hypothesis besides; each is the
condition the run of the same property has:

* `QueryFails = FALSE`: no statement fails. Section 6 says what a failing statement
  breaks.
* `Refuses = FALSE`, or `Strict = FALSE` in the whole program: no session is
  current that is not recorded, see section 7.
* `PushResults = {TRUE}`: a push on the database queue succeeds, as it does on the
  dispatcher's. If one failed, the order of requests would be another (SetSession
  without AddSession), and rows would be missing.

### The event loop (`ReaderProofs`, `SessionProofs`)

| theorem | statement | inductive invariant |
| --- | --- | --- |
| `TypeCorrect` | `Spec => []TypeOK` | itself |
| `NoLostWakeup` | `Spec => []Recovers` | `Attended` |
| `AlwaysSupervised` | `Spec => []Supervised` | `Attended` |
| `LanesFollow` | `Spec => []LanesCurrent` | itself, with `TypeOK` |
| `RequestsCurrent` | `Spec => []DbRequestsCurrent` | `DbDiscipline` |
| `AttributedKept` | `Spec => []Attributed` | `AttributionInv` |
| `OneConnectionIfSent` | `SentSpec => [](SingleConnection /\ ~orphaned)` | `OnceInv` |

* `Attended` is `Recovers /\ Supervised`. Removing a connection moves the
  obligation from the second to the first (a pending Reconnect), connecting moves
  it back (a pending SendDescriptor), and RequestSession, SetSession and
  StartStream hand it to the session timer, a pending StartStream, and the
  inactivity timer. SetSession sets the name the session timer looks at, which is
  why the timer only counts while the name is not set.
* `DbDiscipline` strengthens `DbRequestsCurrent`. In general a pending database
  request makes it the database's turn, so no dispatcher handler can change the
  session or push a second one. The start is the exception: AddDevice is pushed by
  InitDatabase's handler, when the dispatcher may be ready too. `Booting` says
  that nothing else is going on then (one request, no source, no timer), so the
  Connect that may overtake AddDevice pushes nothing on the database queue and
  changes no session; `DbOneRequest` says which requests may wait in that phase.
* `Attributed` speaks of the head of the queue only. `AttributionInv` speaks of every
  place: `InForce(q, s, i, h)` says that the session is h when the requests
  before place i are handled, and `SampledInv` that this is so for the session of
  every sample that waits, and behind the queue for what the monitor sends next.
  `LinkInv` is why one connection matters: as long as none was replaced while it
  was registered, no other is an event source.
* `OnceInv` counts attempts to connect: at most one of PrepareData, Connect and
  Reconnect waits, and while one waits the connection is no event source. A loss and a
  timer each remove the source before they push Reconnect, and the finalizer pushes
  nothing for an object without one, so neither can add a second attempt. A failed
  SendDescriptor pushes Reconnect for a connection that is registered; `SentSpec` has
  every behaviour without it, and there the condition `~orphaned` of the other theorems
  is always met.
* The proofs have one step per action. What a handler or an event does to a queue is
  in lemmas (`PendingKept`, `PendingPushed`, `PendingPush`, `NotPendingThen`,
  `DispatchHandled`, `EventPush`), which the other proof modules use again.

### The file (`DatabaseProofs`)

| theorem | statement | hypotheses | inductive invariant |
| --- | --- | --- | --- |
| `TypeCorrect` | `Spec => []TypeOK` | none | `TypeInv` |
| `OwnDeviceKept`, `SameHashKept`, `HashIsKey` | `OwnDevice`, `SameHash`, `OneRowPerHash` | no statement fails | `TablesInv` |
| `RecordedByOwnRun`, `EndsAgree` | `RecordedInThisRun`, `EndedIsClosed` | and none refused | `CurrentInv` |
| `TablesKeepRecording` | `Spec => KeepsRecording` | and none refused | both |

* `NextId` is a CHOOSE over a set of rows. `TypeInv` adds that the ids of a table are
  bounded, which makes it a number above all of them.
* `TablesInv`: ids and hashes are keys and the largest id of a table is 1 or the
  successor of another (`Dense`), so that a row that goes and comes back takes its
  own id again, if it was the last, or one that nothing refers to; no reference lies
  beyond the largest id (`Referred`). Without these parts `OwnDevice` is not
  inductive: a dangling reference may meet an id that is given again. `Prepared`
  says which phases find the tables created and the device's row inserted.
* `CurrentInv` adds that an open row with the current hash is of the current run,
  because AddSession removed any other before.
* The refinement has one lemma per action: which step of `Recording` it is.

### The whole program (`RecorderProofs`, `RowsProofs`)

All under `PushResults = {TRUE}`, except `EveryRunSafe` and `OneConnectionInRuns`,
which hold whatever pushes do.

| theorem | statement | inductive invariant |
| --- | --- | --- |
| `OrderKept` | `RecorderSpec => RequestOrder`, which is `Database`'s specification | `RecorderInv` |
| `EveryRunSafe` | `RecorderSpec => []LoopSafe`: `Reader`'s `TypeOK`, `Recovers`, `Supervised`, `DbRequestsCurrent`, `Attributed`, `LanesCurrent` in every run | itself, with `DbDiscipline`, `AttributionInv` |
| `OneConnectionInRuns` | if no descriptor's write fails: `[](SingleConnection /\ ~orphaned)` | `OnceInv` |
| `RequestsMeet` | each request finds all guards of its handler in the tables true | `AskedInv`, `RoomLeft` |
| `DataFindsRow` | `RecorderSpec => []DataKept` | `DescribedInv`, `DataInv` |
| `DataFindsRowIfSent` | if no descriptor's write fails: `DataKept` without `~orphaned` | and `OnceInv` |
| `SamplesReachRow` | `RecorderSpec => SampleStored` | `RowsInv`, all of the above and the next |
| `OneRowOpen` | `RecorderSpec => []OneOpen` | `RunsInv`, `OpenInv`, `GrantInv` |
| `EndOnItsWay` | `RecorderSpec => []EndComing` | `RowsInv` |
| `FileSound` | `OwnDevice`, `SameHash`, `OneRowPerHash` of the program's file | `RecorderInv` |
| `FileKeepsRecording` | without `--strict`: `KeepsRecording`, `RecordedInThisRun`, `EndedIsClosed` of the program's file | and `CurrentInv` |

* `RecorderInv` joins `Reader`'s invariants, carried over restarts and crashes, with
  `TablesInv` in which the phase is what the queues hold, and `GrantedInv`: data never
  waits or arrives before any session was granted. `OrderKept` is then a step
  simulation: each callback is a step of `Database` or leaves `Phase` and the tables
  alone. `RequestsMeet` is its other half: no request is kept in order by being stuck.
  It is `HandlersMeet` with the guards in place of ENABLED. `RoomLeft` adds what waits in
  both queues to what has a row: SetSession moves one from the first queue to the
  second, AddSession from there to the file, and the bound is asked for when a session
  is granted.
* A session's end, its data and its successor wait in one queue with what an earlier
  connection left there. `DataInv` says of every sample (`Alive`): a session waits
  before it and no Reconnect between them, or the row is open (or about to be) and no
  Reconnect waits before it at all. `DescribedInv` is what keeps a connection that is
  still granted from being described and asked a second time: between two
  SendDescriptors, and before one if the connection is known to the monitor, waits a
  Reconnect.
* `GrantInv` says the same of sessions: between two that wait, and before the first
  while the current one has not been ended, waits a Reconnect, which ends it.
  `OpenInv` says of the row that is open that it is the last one and the current
  session's, and that the program has not ended it in memory; `RunsInv`, that runs are
  numbered upwards, makes every row a new run finds another run's.
* `SampleStored` is about two steps. When ProcessData is handled, `Attributed` makes the
  session that is current the sample's own, and the request keeps its hash
  (`DbRequestsCurrent`); when AddData is handled, `DataInv` has an open row of this run
  with that hash, and since hashes are keys it is the only one the subselect can find.
* `EndComing` follows from the same parts as `OneOpen`: an open row of the run means that
  the session has not ended in memory (`OpenInv`), and for such a session, when its
  connection is no source, a Reconnect waits unless its EndSession does (`GrantInv`).
  `Closes` adds fairness.
* `FileKeepsRecording` composes the two refinements: what `Recording` promises to a
  reader of the file holds of the program with its sockets, timers and queues.

### Lanes, samples, options

| theorem | statement | inductive invariant |
| --- | --- | --- |
| `UpdateLanesProofs.LoopUnderneath` | `LanesSpec => Spec`: what is proved of `Reader` holds here | none needed |
| `SummaryKept` | `SummaryAgrees` | itself, with `Granted`: lanes are configured for a session that was granted |
| `SourcesFollow` | `SourcesCurrent` | itself, with `TypeOK` |
| `StoppedSoonKept` | `StoppedSoon` | `NotYet`, with `Recovers` and `SummaryAgrees` |
| `LanesTypeCorrect` | `LanesTypeOK` | `ListInv`: and timers run for a granted session only |
| `TicksAskListed` | `TicksAsk` | `ListInv`, `SourcesCurrent` |
| `SamplesProofs.TypeCorrect` | `TypeOK` | `StageInv` |
| `JsonFirst` | `JsonAhead` | `AheadInv` |
| `OwnLineKept` | `OwnLine` | `LinesInv` |
| `RowsPrefixKept` | `RowsPrefix` | `StoredInv` |
| `FileHeals` | `Heals` | itself |
| `OutputsAgreeAlways` | `OutputsAgree` | `AtHandInv`, with `TypeOK` |
| `ArgumentsProofs.FirstCountsKept` | `FirstCounts` | `FirstInv` |
| `SamePortKept`, `MinimumKept` | `SamePort`, `MinimumIfFits` | `NumbersInv` |

* What `LaneEntries` computes is an induction over the lane's list, in three lemmas: some
  function satisfies its recursion (`MadeExists`), so the one it stands for does
  (`LaneEntriesMade`), and each of its values has the known types of the list so far
  (`LaneEntriesListed`). The step of each is `LeastOutside`: a set of numbers that is
  missing one is missing a least one.
* `AheadInv` has the record of the sample at hand whole in every stage after it was
  printed, and the removal of the two files in the order that keeps it so.
* `LinesInv`: whoever opens the JSON file ends the line a dead run left.
* `AtHandInv` says which statements of the sample at hand are in the file in every
  stage: none before AddData, those before `step` while it runs, none or all once the
  sample is done with and nothing failed. `PrintedAgree` compares what is printed of a
  sample with its statements, shape by shape, for lists of any length up to
  `MaxEntries`; `OutputsAgree` follows from both.
* `FirstInv` says of every option where it was given first, for a command line of any
  length; `NumbersInv` what each stage has computed from the texts.

## 5. What is only model-checked

* Everything under fairness (`Reattaches`, `SilentDropped`, `StrictStops`, `Closes`,
  `Polled`): liveness is out of the reach of the installed provers.
* `HandlersMeet`, because it says ENABLED. `RequestsMeet` proves all the guards behind
  it.

## 6. Findings

| run | the repository says | the code does |
| --- | --- | --- |
| `ReaderLanesStopped` | "Stop update lanes" (`Dispatcher.cpp:218`) | stops only the timers held last. SetSession handled while a Reconnect waits puts StartStream behind it; the next session starts a second set and the first is never stopped |
| `ReaderSingleConnection` | "Reset connection object" (`Dispatcher.cpp:220`) | after a failed SendDescriptor the old object is still registered; it goes on pushing its messages, and at its end a Reconnect. Nothing else leads there (`OneConnectionIfSent`) |
| `ReaderTimeoutAfterRequest` | "Create session timout. Taskmonitor not responding" (`Dispatcher.cpp:136`) | the timer of an earlier connection is not stopped by Reconnect and drops one that was never asked |
| `DatabaseNoInheritedData` | hash collision: "Remove old session" (`SQLiteDatabase.cpp:233`), ON DELETE CASCADE (`Query.cpp:84`) | the data stays, and the new row takes the id of the old |

Disagreements that were seen while modelling and that no run checks:

* "If the event is removed we stop the main application" (`Connection.cpp:126`); the
  finalizer below it (line 132) pushes Reconnect.
* The foreign key of sessions (`Query.cpp:53-55`) is not enforced: a device's row
  comes back with another id at every start, and earlier sessions refer to none.
* When the second of the two statements that renew a device's row fails, or the
  process dies in between (`SQLiteDatabase.cpp:207`), the next device takes the id
  and the sessions that refer to it. All properties of `DatabaseFile` but `TypeOK`
  fail for `QueryFails = TRUE`: a DELETE that fails alone leaves two rows of one
  hash, and so on.
* `head["swap"] = ctx` (`Dispatcher.cpp:518`): the context switches are printed
  twice and the swap counts are in the database only (`LeftOut`, which `OutputsAgree`
  shows to be all that is missing).
* "Default and minimum value is 3 seconds." (`Main.cpp:112`): from 4295 seconds on
  with 32 bits, `timeout * 1000000` (`Dispatcher.cpp:342`) wraps; the interval may be
  short, or 0, which arms no timer. `MinimumIfFits` names the condition.
* "--verbose, -v" (`Main.cpp:114`): `-v` prints the version and ends the program; the
  letter is `x` (`Main.cpp:85`).
* "Cannot convert port number from config (using 3357)" (`Connection.cpp:166`):
  `doPrepareData` converts the same text first and throws, which ends the program.

Not findings, since nothing in the repository says otherwise, but worth knowing:

* `SysProcMemInfo`'s CMA columns are in the database only (`LeftOut`). A pressure group the
  monitor did not set is absent from the JSON record and zero in the database.
* In a JSON record, entries with equal names, and names equal to a label of the
  head (a context called "session"), replace each other; the database has a row for
  each. `OutputsAgree` names the condition (`Separable`).
* Two devices whose address and port spell the same text are one device
  (`Dispatcher.cpp:118`).

## 7. What is not modelled

* The values of columns and JSON members, and their formatting: no property is
  about them.
* A JSON stream that stays bad after a failed write (a full disk): every later
  record of the run is lost without a message, and `JsonAhead` would fail. `Samples`
  lets records be torn by the end of a run only.
* Data that arrives for a session `--strict` has refused. `Database` and `Recorder`
  have such sessions (`Refuses`, `Strict`; `RecorderFile` is a run with `--strict`).
  `SampleStored` covers such programs in every state in which no Quit waits. But
  `RecordedInThisRun` and `KeepsRecording` are checked without: with them, data
  before the Quit would go to a row that an earlier run left open with the same
  hash. The monitor sends none before a source is requested, and a refused session
  starts no lane.
* The lengths of intervals. A timer that is armed may fire at any callback.
* Requests pushed on a database queue that is no longer served: how many there
  are is not counted.
* Statements that no code executes (`getDevices`, `getDevice`, `getSessions`,
  `getSession`, the PostgreSQL dialect); `Connect` and `Disconnect` of the database,
  which do nothing and which nobody pushes.
* The tests: one fixture for another program.
* The internals of bswinfra, libtaskmonitor and SQLite, whose sources are not here.

## 8. Plan

Done: every component that has code here, except what section 7 lists; every safety
property of the runs but `HandlersMeet` as a theorem, and `HandlersMeet` by its guards.
What is left:

* `EndedIsClosed` and `OneRowPerHash` under weaker hypotheses than that no statement
  fails: which failures alone break them. The results of the statements (`Results`)
  would have to be told apart by statement for that.
