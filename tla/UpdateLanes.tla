----------------------------- MODULE UpdateLanes -----------------------------
(***************************************************************************)
(* The update lanes of tkmreader: the three lane timers, the list of data  *)
(* sources they share and the requests they write, on top of the event     *)
(* loop of Reader.  Reader keeps of the lanes only for which session they  *)
(* were configured and whether timers run that nobody holds any more; here *)
(* each timer and each entry of the list is there, and Reader's summary is *)
(* something to check.  Every lane has a timer per stream that was started *)
(* and not stopped; the timers of a lane that Application has lost all do  *)
(* the same, so they are kept as one.                                      *)
(***************************************************************************)
EXTENDS Reader

CONSTANT Config  \* external: the source types of each session's lanes, as the
                 \* monitor lists them in SessionInfo

Lanes == {"Fast", "Pace", "Slow"}
SourceTypes ==
  {"ProcInfo", "ProcAcct", "ProcEvent", "ContextInfo", "SysProcStat", "SysProcBuddyInfo",
   "SysProcWireless", "SysProcMemInfo", "SysProcPressure", "SysProcDiskStats", "SysProcVMStat"}

ASSUME ConfigAssumption == Config \in [Hash -> [Lanes -> Seq(STRING)]]

VARIABLES
  held,         \* the lanes whose timer Application holds; it runs
  stray,        \* the lanes with timers that run and that nobody holds
  dataSources,  \* Application::m_dataSources
  wrote         \* the last requests written and the connection they went to

polling == <<held, stray, dataSources, wrote>>
all == <<vars, polling>>

LanesInit ==
  /\ Init
  /\ held = {} /\ stray = {} /\ dataSources = <<>>
  /\ wrote = [to |-> conn, types |-> {}]

-----------------------------------------------------------------------------
(* The data sources *)

\* Type by type; one the reader does not know is passed over.
LaneEntries_All(h, l) ==  \* mutant: every type becomes an entry
  [i \in DOMAIN Config[h][l] |-> [type |-> Config[h][l][i], lane |-> l]]
LaneEntries_Stop(h, l) ==  \* mutant: the rest of the lane is passed over too
  LET types == Config[h][l]
      upTo[n \in 0 .. Len(types)] ==
        IF n = 0 THEN <<>>
        ELSE IF \A i \in 1 .. n : types[i] \in SourceTypes
             THEN Append(upTo[n - 1], [type |-> types[n], lane |-> l])
             ELSE upTo[n - 1]
  IN  upTo[Len(types)]
LaneEntries(h, l) ==
  LET types == Config[h][l]
      upTo[n \in 0 .. Len(types)] ==
        IF n = 0 THEN <<>>
        ELSE IF types[n] \in SourceTypes
             THEN Append(upTo[n - 1], [type |-> types[n], lane |-> l])
             ELSE upTo[n - 1]
  IN  upTo[Len(types)]

\* What a session's lanes ask for, lane by lane.
Entries(h) == LaneEntries(h, "Fast") \o LaneEntries(h, "Pace") \o LaneEntries(h, "Slow")

\* configUpdateLanes: the list is emptied and filled from the current session.
Configured_Added == dataSources \o Entries(session.hash)  \* mutant: the removed
                                                         \* entries are still there
Configured == Entries(session.hash)

\* DataSource::update of an entry asks for its type.  The requests go to the
\* connection that is current; what becomes of the write is not looked at.
Ask(types) == wrote' = [to |-> conn, types |-> types]
Due(l) == {dataSources[i].type : i \in {j \in DOMAIN dataSources : dataSources[j].lane = l}}

-----------------------------------------------------------------------------
(* The timers *)

\* startUpdateLanes after requestStartupData: three new timers take the place of
\* those Application holds.
Begin_NoSlow ==  \* mutant: the slow lane's timer is not registered
  /\ Ask({"StartupData"})
  /\ stray' = stray \cup held /\ held' = {"Fast", "Pace"}
  /\ dataSources' = Configured
Begin ==
  /\ Ask({"StartupData"})
  /\ stray' = stray \cup held /\ held' = Lanes
  /\ dataSources' = Configured

\* stopUpdateLanes: the list stays, for whatever timer still runs.
End_Forgets ==  \* mutant: the timers are reset and stay event sources
  held' = {} /\ stray' = stray \cup held /\ UNCHANGED <<dataSources, wrote>>
End == held' = {} /\ UNCHANGED <<stray, dataSources, wrote>>

\* The callback of one of the timers of lane l.
Tick(l) ==
  /\ ~exited /\ l \in held \cup stray
  /\ Ask(Due(l))
  /\ UNCHANGED <<vars, held, stray, dataSources>>

\* What touches neither the timers nor the list.
Rest ==
  \/ PrepareData \/ Connect \/ Throw \/ SendDescriptor \/ RequestSession
  \/ SetSession \/ ProcessData \/ Status \/ Quit
  \/ DbStep
  \/ \E c \in Conn : \/ ReceiveSession(c) \/ ReceiveData(c) \/ ReceiveStatus(c)
                     \/ ConnectionLost(c)
  \/ SessionTimerExpires
  \/ InactivityTick

LanesNext ==
  \/ StartStream /\ Begin
  \/ \E up \in BOOLEAN : Reconnect(up) /\ End
  \/ \E l \in Lanes : Tick(l)
  \/ Rest /\ UNCHANGED polling

LanesSpec == LanesInit /\ [][LanesNext]_all

\* The loop serves the lane timers like every other source.
FairLanes == LanesSpec /\ Fairness /\ \A l \in Lanes : WF_all(Tick(l))

-----------------------------------------------------------------------------
(* Properties *)

\* Every variable has its type.
LanesTypeOK ==
  /\ held \in SUBSET Lanes /\ stray \in SUBSET Lanes
  /\ dataSources \in Seq([type: SourceTypes, lane: Lanes])
  /\ wrote \in [to: Conn, types: SUBSET (SourceTypes \cup {"StartupData"})]

\* Reader's summary of the lanes is what the three timers do: they are started
\* and stopped together, and the ones that nobody holds are those that Reader
\* counts as stray (startUpdateLanes, stopUpdateLanes).
SummaryAgrees ==
  /\ held = IF lanes = NoHash THEN {} ELSE Lanes
  /\ stray = IF strayLanes THEN Lanes ELSE {}

\* Whatever timers run, lost ones included, ask for what the session the data is
\* recorded under is configured for, each source once in its lane, or a request
\* that configures the list anew is on its way (configUpdateLanes).
SourcesCurrent ==
  dispatching /\ ~exited /\ held \cup stray # {} /\ FALSE \notin PushResults
    => Pending({"StartStream", "Quit"}) \/ dataSources = Entries(session.hash)

\* What a session lists for a lane and the reader knows.
Listed(h, l) == {Config[h][l][i] : i \in DOMAIN Config[h][l]} \cap SourceTypes

\* A timer asks for what the current session lists for its lane, no more and no less,
\* on the current connection: through timers that are lost, a list that all lanes
\* share and types that are passed over (configUpdateLanes, startUpdateLanes).
TicksAsk ==
  [][\A l \in Lanes :
       Tick(l) /\ dispatching /\ FALSE \notin PushResults /\ ~Pending({"StartStream", "Quit"})
         => wrote' = [to |-> conn, types |-> Listed(session.hash, l)]]_all

\* The timers Application holds write to a connection that is not connected only
\* until a request that stops them is served, whichever of the peer, the session
\* timer and the inactivity timer took the connection away.
StoppedSoon ==
  dispatching /\ ~exited /\ held # {} /\ conn \notin sources
    => Pending({"Reconnect", "Quit"})

\* A session that stays, on a connection that stays, is polled: each source of
\* each of its lanes is asked for again and again on that connection, though the
\* stream is started by a request that any other may separate from its session.
Polled ==
  \A c \in Conn, h \in Hash, l \in Lanes : \A i \in DOMAIN LaneEntries(h, l) :
    <>[](conn = c /\ c \in sources /\ session.hash = h /\ ~exited)
      => []<>(wrote.to = c /\ LaneEntries(h, l)[i].type \in wrote.types)
=============================================================================
