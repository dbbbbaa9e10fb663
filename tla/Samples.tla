------------------------------- MODULE Samples -------------------------------
(***************************************************************************)
(* What becomes of one sample: the JSON record doProcessData prints, then  *)
(* the SQL statements doAddData runs for it, over runs of the program that *)
(* share the two output files.  Reader and Database treat a sample as one  *)
(* thing that is recorded or not; here it has the parts its kind has, and  *)
(* the program may die, or a statement fail, between any two of them.  The *)
(* first record of a run is doSetSession's.                                *)
(* The queues serve one sample at a time (Reader, DbRequestsCurrent), so   *)
(* the program is a sequence of stages.                                    *)
(***************************************************************************)
EXTENDS Naturals, Sequences, FiniteSets

CONSTANTS
  Kinds,       \* the kinds of samples the monitor sends
  Names,       \* what the entries of a list go by: pids, contexts, disks, cores
  MaxEntries,  \* bound on the entries of a list
  Output,      \* JsonWriter's output type
  WithDatabase,
  MaxRuns,     \* bound on the runs of the program
  MaxSamples,  \* bound on the samples of all runs
  MaxLines     \* bound: a session is accepted while the JSON file has fewer lines

OutputTypes == {"Disabled", "StandardOut", "FilePath"}

ASSUME OptionAssumption == Output \in OutputTypes /\ WithDatabase \in BOOLEAN
ASSUME BoundAssumption == {MaxRuns, MaxSamples, MaxLines} \subseteq Nat

-----------------------------------------------------------------------------
(* The kinds of samples and their tables *)

\* The tables, in the order they are created.
Tables == <<"devices", "sessions", "ProcEvent", "SysProcStat", "SysProcMemInfo",
            "SysProcDiskStats", "SysProcPressure", "SysProcVMStat", "ProcAcct",
            "ProcInfo", "ContextInfo", "SysProcBuddyInfo", "SysProcWireless">>

\* Kinds that are one row, and the groups of columns of that row.
AcctGroups == {"common", "cpu", "mem", "ctx", "swp", "io", "reclaim", "thrashing"}
PressureGroups == {"cpu_some", "cpu_full", "mem_some", "mem_full", "io_some", "io_full"}
MemInfoGroups == {"meminfo", "cma"}
Groups == [ProcAcct |-> AcctGroups, SysProcPressure |-> PressureGroups,
           SysProcMemInfo |-> MemInfoGroups, ProcEvent |-> {"procstats"},
           SysProcVMStat |-> {"vmstat"}]
Grouped == DOMAIN Groups

\* Kinds that are lists: the record's keys are names of the entries, or running
\* numbers.
Named == {"ProcInfo", "ContextInfo", "SysProcDiskStats"}
Numbered == {"SysProcBuddyInfo", "SysProcWireless"}
Listed == Named \cup Numbered \cup {"SysProcStat"}
Numbers == <<"0", "1", "2", "3">>

ASSUME KindAssumption == Kinds \subseteq Grouped \cup Listed
ASSUME EntryAssumption == MaxEntries \in 0 .. Len(Numbers)

\* A sample: the groups a one-row kind has set (only pressure may lack some), or
\* the names of a list's entries in order.
Lists == UNION {[1 .. n -> Names] : n \in 0 .. MaxEntries}
Content(k) == CASE k = "SysProcPressure" -> SUBSET PressureGroups
                [] k \in Grouped \ {"SysProcPressure"} -> {Groups[k]}
                [] OTHER -> Lists
Contents == UNION {{[kind |-> k, of |-> x] : x \in Content(k)} : k \in Kinds}

-----------------------------------------------------------------------------
(* The JSON record: a set of pairs, a label and what is found there *)

\* The labels of every record's head.
HeadLabels == {"type", "system_time", "monotonic_time", "receive_time", "session"}

\* head[label] = group; the label is the group's, but for one.
PrintedAcct == {<<g, g>> : g \in AcctGroups \ {"swp"}} \cup {<<"swap", "ctx">>}
PrintedMemInfo == {<<"meminfo", "meminfo">>}
PrintedPressure(present) == {<<g, g>> : g \in present}
PrintedGroups(s) == CASE s.kind = "ProcAcct" -> PrintedAcct
                      [] s.kind = "SysProcMemInfo" -> PrintedMemInfo
                      [] OTHER -> PrintedPressure(s.of)

\* head[name] = entry, in order: of the entries of one name the last one stays.
PrintedByName(list) ==
  {<<list[i], i>> : i \in {j \in DOMAIN list : \A k \in DOMAIN list : k > j => list[k] # list[j]}}

\* The total goes under "cpu" before the cores go under their names.
PrintedStat(list) ==
  PrintedByName(list) \cup {<<"cpu", 0>> : x \in {y \in {0} : \A i \in DOMAIN list : list[i] # "cpu"}}

\* head[std::to_string(index++)] = entry.
PrintedByNumber_Fixed(list) ==  \* mutant: the index stays
  {<<"0", Len(list)>> : x \in DOMAIN list}
PrintedByNumber(list) == {<<Numbers[i], i>> : i \in DOMAIN list}

Printed(s) == CASE s.kind \in Grouped -> PrintedGroups(s)
                [] s.kind \in Named -> PrintedByName(s.of)
                [] s.kind = "SysProcStat" -> PrintedStat(s.of)
                [] OTHER -> PrintedByNumber(s.of)

\* An entry's name may be a label of the head, which is then overwritten.
HeadLeft(s) == HeadLabels \ {p[1] : p \in Printed(s)}

-----------------------------------------------------------------------------
(* The SQL statements, each an INSERT of one row *)

\* The one row of a grouped kind; a group that is not set is its default.
OneRow(s) == <<Groups[s.kind]>>

\* One row per entry; SysProcStat has the total before those of the cores.
EntryRows(list) == [i \in DOMAIN list |-> i]
StatRows(list) == <<0>> \o EntryRows(list)

Statements(s) == CASE s.kind \in Grouped -> OneRow(s)
                   [] s.kind = "SysProcStat" -> StatRows(s.of)
                   [] OTHER -> EntryRows(s.of)

-----------------------------------------------------------------------------
VARIABLES
  run,     \* number of this run of the program
  stage,   \* what the program is at
  step,    \* the statement of the query at hand that comes next
  tables,  \* the file has the first so many Tables
  rows,    \* the data rows of the file: [sample, at], the statement it is of
  lines,   \* the lines of the JSON file, each the records on it: [of, whole],
           \* of a sample or of a session; the last line is not yet ended
  taken,   \* number of samples of all runs, which numbers them (history)
  sample,  \* the sample at hand
  inited,  \* createTables succeeded in this run
  opened,  \* the JsonWriter exists
  failed   \* a statement of this run failed (history)
database == <<tables, rows>>
process == <<run, stage, step, taken, sample, inited, failed, opened>>
vars == <<process, database, lines>>

Stages == {"off", "removing", "create", "ready", "print", "push", "store"}
NoSample == [kind |-> "none", of |-> <<>>]
OfSession == 0  \* what a session's record has in place of a sample's number

Init ==
  /\ run = 0 /\ stage = "off" /\ step = 0 /\ tables = 0 /\ rows = {}
  /\ lines = <<<<>>>> /\ taken = 0 /\ sample = NoSample
  /\ inited = FALSE /\ failed = FALSE /\ opened = FALSE

Goto(s) == stage' = s

\* Application removes the database file before the JSON file.
RemoveFirst_Json == lines' = <<<<>>>> /\ UNCHANGED database  \* mutant: the other order
RemoveFirst == tables' = 0 /\ rows' = {} /\ UNCHANGED lines
RemoveSecond == lines' = <<<<>>>> /\ UNCHANGED database

NewQuery_Resumed == UNCHANGED step  \* mutant: it goes on where the last one stopped
NewQuery == step' = 1

Started == /\ run' = run + 1 /\ NewQuery
           /\ sample' = NoSample /\ inited' = FALSE /\ failed' = FALSE /\ opened' = FALSE
           /\ UNCHANGED taken

\* Only with --database is there something to create.
Opening == Goto(IF WithDatabase THEN "create" ELSE "ready")

\* A file that is no database is removed when it is opened.
StartProgram ==
  /\ stage = "off" /\ run < MaxRuns
  /\ Started
  /\ \/ Goto("removing") /\ RemoveFirst
     \/ Opening /\ UNCHANGED <<database, lines>>
     \/ Opening /\ tables' = 0 /\ rows' = {} /\ UNCHANGED lines

RemoveJson == /\ stage = "removing" /\ Opening
              /\ RemoveSecond
              /\ UNCHANGED <<run, step, taken, sample, inited, failed, opened>>

\* exit(), a signal, an exception or a crash.
StopProgram == /\ stage # "off" /\ Goto("off")
               /\ UNCHANGED <<run, step, taken, sample, inited, failed, opened, database, lines>>

\* sqlite3_exec runs the statements of a query one after the other, each one a
\* transaction, and stops at the first that fails.
AfterFailure_GoOn(there) ==  \* mutant: the next statement is tried
  IF stage = "store" /\ step < Len(Statements(sample))
  THEN step' = step + 1 /\ UNCHANGED stage ELSE Goto(there) /\ UNCHANGED step
AfterFailure(there) == Goto(there) /\ UNCHANGED step

\* CREATE TABLE IF NOT EXISTS.
Creatable_New == step > tables  \* mutant: no IF NOT EXISTS
Creatable == TRUE

CreateTable ==
  /\ stage = "create"
  /\ \/ /\ Creatable
        /\ tables' = IF step > tables THEN step ELSE tables
        /\ step' = step + 1
        /\ IF step = Len(Tables) THEN Goto("ready") /\ inited' = TRUE
           ELSE UNCHANGED <<stage, inited>>
        /\ UNCHANGED failed
     \/ \E outside \in BOOLEAN :
        /\ outside \/ ~Creatable
        /\ AfterFailure("ready")
        /\ failed' = (failed \/ outside)
        /\ UNCHANGED <<tables, inited>>
  /\ UNCHANGED <<run, taken, sample, opened, rows, lines>>

\* The JsonWriter opens the file at the first record of a run, and ends the line
\* that an earlier run may have left.
Opened_AsIs == lines  \* mutant: the line is not ended
Opened == IF opened \/ lines = <<<<>>>> THEN lines ELSE Append(lines, <<>>)

\* The last line with a record of n more.
With(ls, n, whole) == [ls EXCEPT ![Len(ls)] = Append(@, [of |-> n, whole |-> whole])]

WriteJson(n) ==
  /\ opened' = TRUE
  /\ lines' = IF Output = "FilePath" THEN Append(With(Opened, n, TRUE), <<>>) ELSE lines

\* The program dies while the record is written.
Tear(n) ==
  /\ Output = "FilePath" /\ Goto("off")
  /\ lines' = With(Opened, n, FALSE)
  /\ UNCHANGED <<run, step, taken, sample, inited, failed, opened, database>>

\* The dispatcher comes to a SetSession that it accepts.
Accepts == stage = "ready" /\ Len(lines) < MaxLines
SetSession ==
  /\ Accepts
  /\ WriteJson(OfSession)
  /\ UNCHANGED <<run, stage, step, taken, sample, inited, failed, database>>
SetSessionTorn == Accepts /\ Tear(OfSession)

\* It comes to a ProcessData, which it does only after a session was accepted: the
\* monitor samples within one, and is asked for no source within a refused one.
ProcessData(s) ==
  /\ stage = "ready" /\ opened /\ taken < MaxSamples /\ Goto("print")
  /\ sample' = s /\ taken' = taken + 1
  /\ UNCHANGED <<run, step, inited, failed, opened, database, lines>>

PrintRecord ==
  /\ stage = "print" /\ Goto("push")
  /\ WriteJson(taken)
  /\ UNCHANGED <<run, step, taken, sample, inited, failed, database>>
PrintTorn == stage = "print" /\ Tear(taken)

\* AddData is pushed and comes next, or it is lost: no database, a push that
\* fails, a queue that is served no more.
PushAddData ==
  /\ stage = "push"
  /\ \E served \in {FALSE, WithDatabase} :
       Goto(IF served /\ Statements(sample) # <<>> THEN "store" ELSE "ready")
  /\ NewQuery
  /\ UNCHANGED <<run, taken, sample, inited, failed, opened, database, lines>>

\* Without the table an INSERT fails; it also fails without an open session.
HasTable == \E i \in 1 .. tables : Tables[i] = sample.kind

AddData ==
  /\ stage = "store"
  /\ \/ /\ HasTable
        /\ rows' = rows \cup {[sample |-> taken, at |-> step]}
        /\ IF step = Len(Statements(sample)) THEN Goto("ready") /\ UNCHANGED step
           ELSE step' = step + 1 /\ UNCHANGED stage
        /\ UNCHANGED failed
     \/ /\ AfterFailure("ready")
        /\ failed' = TRUE
        /\ UNCHANGED rows
  /\ UNCHANGED <<run, taken, sample, inited, opened, tables, lines>>

Next ==
  \/ StartProgram \/ RemoveJson \/ StopProgram
  \/ CreateTable
  \/ SetSession \/ SetSessionTorn
  \/ \E s \in Contents : ProcessData(s)
  \/ PrintRecord \/ PrintTorn \/ PushAddData \/ AddData

Spec == Init /\ [][Next]_vars

-----------------------------------------------------------------------------
(* Properties *)

\* Every variable has its type.
TypeOK ==
  /\ run \in Nat /\ stage \in Stages /\ step \in Nat /\ tables \in 0 .. Len(Tables)
  /\ rows \subseteq [sample: 1 .. taken, at: Nat]
  /\ lines \in Seq(Seq([of: 0 .. taken, whole: BOOLEAN])) /\ lines # <<>>
  /\ taken \in Nat /\ sample \in Contents \cup {NoSample}
  /\ inited \in BOOLEAN /\ failed \in BOOLEAN /\ opened \in BOOLEAN

\* The JSON file is never behind the database: whatever the database has of a
\* sample, the JSON file has the sample's whole record, wherever the program
\* died, also while --init removed the two files (Application's constructor,
\* doProcessData).
JsonAhead ==
  Output = "FilePath" =>
    \A x \in rows : \E i \in DOMAIN lines : \E j \in DOMAIN lines[i] :
      lines[i][j] = [of |-> x.sample, whole |-> TRUE]

\* A record that was torn by the end of a run costs no other record: a whole
\* record has its line for itself (JsonWriter's constructor).
OwnLine ==
  \A i \in DOMAIN lines : (\E j \in DOMAIN lines[i] : lines[i][j].whole) => Len(lines[i]) = 1

\* What the database has of a sample is the beginning of it, never a selection:
\* after a failure or a crash no later row of the sample follows (doAddData,
\* runQuery).
RowsPrefix ==
  \A x \in rows : \A n \in 1 .. x.at : [x EXCEPT !.at = n] \in rows

\* A run that died while it created the tables does not spoil the file: the next
\* one completes it, unless a statement fails for a reason of its own
\* (createTables).
Heals == WithDatabase /\ ~failed /\ stage \in {"ready", "print", "push", "store"} => inited

\* The groups whose columns only the database has.
LeftOut(k) ==
  CASE k = "ProcAcct" -> {"swp"} [] k = "SysProcMemInfo" -> {"cma"} [] OTHER -> {}

\* The names of a list's entries differ from each other and from the labels.
Distinct(list) == \A i, j \in DOMAIN list : list[i] = list[j] => i = j
Separable(s) ==
  \/ s.kind \notin Named \cup {"SysProcStat"}
  \/ Distinct(s.of) /\ \A i \in DOMAIN s.of : s.of[i] \notin HeadLabels \cup {"cpu"}

\* What the file has of the sample at hand.
Stored == {Statements(sample)[x.at] : x \in {y \in rows : y.sample = taken}}

\* The two outputs agree on the sample at hand.  Of a list, the rows in the file are
\* entries of the record, and all of them once the sample is done with, if it was
\* stored at all and no statement of the run failed; of a kind that is one row, the
\* record has exactly the groups that were sampled but those left out of it, and the
\* row in the file has those too.  Labels are unique and the record's head stays, as
\* long as names can be told apart (print functions, addData, doAddData).
OutputsAgree ==
  sample # NoSample /\ Separable(sample) =>
    LET printed == Printed(sample)
        parts == {p[2] : p \in printed}
    IN
    /\ IF sample.kind \in Listed
       THEN /\ Stored \subseteq parts
            /\ stage = "ready" /\ ~failed /\ Stored # {} => Stored = parts
       ELSE /\ parts = sample.of \ LeftOut(sample.kind)
            /\ Stored # {} => sample.of \subseteq UNION Stored
    /\ \A p, q \in printed : p[1] = q[1] => p = q
    /\ HeadLeft(sample) = HeadLabels
=============================================================================
