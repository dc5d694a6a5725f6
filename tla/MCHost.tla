------------------------------- MODULE MCHost -------------------------------
(***************************************************************************)
(* The components that host a session's work (its events, processes,       *)
(* plugins and tools), one at a time: a behaviour is that of one of them   *)
(* (part), and the variables of the others stand still (at 0, or in their  *)
(* initial state).                                                         *)
(***************************************************************************)
EXTENDS EventOutbox, ProcessHandle, ProcessSessions, PtcRuntime, Plugins, ToolCalls,
        EventBuses

VARIABLE part

(* Instances. *)

(* Two modules claim the name "a" in two directories; one has no factory and *)
(* one mints nothing.                                                        *)
MCFiles == {"f1", "f2", "f3", "f4"}
Built(d, n, p, factory, mints) ==
    [dir |-> d, name |-> n, priority |-> p, opens |-> TRUE, magic |-> "ok", abi |-> TRUE,
     factory |-> factory, mints |-> mints]
MCModule ==
    [f \in MCFiles |->
        CASE f = "f1" -> Built("d1", "a", 0, TRUE, TRUE)
          [] f = "f2" -> Built("d1", "b", 1, FALSE, TRUE)
          [] f = "f3" -> Built("d2", "a", 1, TRUE, TRUE)
          [] f = "f4" -> Built("d2", "c", 0, TRUE, FALSE)]
MCSelections == {<<>>, <<"a", "c">>, <<"b">>}

(* A tool without a name, one that cannot be built, duplicates within and *)
(* across sets; batches with a repeated id, an unknown name and arguments *)
(* that are no object.                                                    *)
NamedTool(n, b) == [name |-> n, builds |-> b]
MCToolSets ==
    [s \in {"core", "ext", "more"} |->
        CASE s = "core" -> [intrinsic |-> TRUE,
                            tools |-> <<NamedTool("a", TRUE), NamedTool("", TRUE), NamedTool("b", TRUE),
                                        NamedTool("a", TRUE), NamedTool("x", FALSE)>>]
          [] s = "ext" -> [intrinsic |-> FALSE, tools |-> <<NamedTool("c", TRUE)>>]
          [] s = "more" -> [intrinsic |-> FALSE,
                            tools |-> <<NamedTool("c", TRUE), NamedTool("d", TRUE), NamedTool("d", TRUE)>>]]
Asked(i, n, a, v) == [id |-> i, name |-> n, args |-> a, value |-> v]
MCBatches ==
    {<<Asked("1", "a", "object", "good"), Asked("2", "c", "null", "absent"),
       Asked("1", "b", "object", "null")>>,
     <<Asked("1", "zz", "object", "good"), Asked("2", "b", "array", "absent")>>,
     <<Asked("1", "a", "object", "bad"), Asked("2", "c", "object", "absent")>>}

MCValues == {Value("integer", -1), Value("integer", 1), Value("string", 1), Value("array", 2)}
MCProperties ==
    {[clauses |-> Clauses(k, l, h, e), default |-> d, nest |-> n] :
       k \in {"integer", "string", "array", "object"},
       l \in {None, Bound("minimum", 0), Bound("minimum", -1), Bound("minLength", 1),
              Bound("minLength", -1), Bound("minItems", 1)},
       h \in {None, Bound("maximum", 1), Bound("maximum", -1), Bound("maxLength", 0),
              Bound("maxLength", 2)},
       e \in {None, Listed({}), Listed({Value("integer", -1), Value("integer", 1)})}
                \cup {Listed({v}) : v \in MCValues},
       d \in {None} \cup {[stated |-> TRUE, value |-> v] : v \in MCValues},
       n \in {0, 2, 3}}
MCSchemas ==
    LET names == {"p", "q", "z"}
        branch == [required : SUBSET names, excluded : SUBSET names]
    IN  [required : SUBSET names, branches : {{}} \cup {{b} : b \in branch}]

(* The sum. *)

Parts == {"outbox", "handle", "sessions", "ptc", "plugins", "tools",
          "schema", "buses"}

IdleEventOutbox ==
    /\ queue = 0 /\ inFlight = FALSE /\ used = 0 /\ count = 0 /\ sequence = 0
    /\ omitted = 0 /\ paused = 0 /\ closed = 0 /\ sender = 0 /\ wire = 0
    /\ client = 0 /\ host = 0 /\ extra = 0 /\ storageFailed = 0
    /\ windowErrors = 0 /\ stopping = 0 /\ unreported = 0 /\ refused = 0
    /\ overflowed = 0

IdleProcessHandle ==
    /\ tty = 0 /\ child = 0 /\ heir = 0 /\ written = 0 /\ drained = 0
    /\ capture = 0 /\ pump = 0 /\ input = 0 /\ delivered = 0 /\ accepted = 0
    /\ pipesStopping = 0 /\ pipeFailure = 0 /\ watcher = 0 /\ waiter = 0
    /\ final = 0 /\ stopWatcher = 0 /\ lifecycleFailure = 0 /\ shut = 0
    /\ faults = 0

IdleProcessSessions ==
    /\ handle = 0 /\ sessions = 0 /\ pendingSpawns = 0 /\ nextId = 0
    /\ cursor = 0 /\ call = 0 /\ handed = 0 /\ shown = 0 /\ dropped = 0
    /\ lost = 0 /\ releases = 0 /\ made = 0

IdlePtcRuntime ==
    /\ pcDaemon = 0 /\ pcRunning = 0 /\ pcCommitted = 0 /\ pcSubmitted = 0
    /\ pcStep = 0 /\ pcInitialized = 0 /\ pcTouched = 0 /\ pcEpoch = 0
    /\ pcNext = 0 /\ pcReports = <<>> /\ pcStopped = 0

IdleToolCalls ==
    /\ tcList = 0 /\ tcTable = 0 /\ tcBatches = 0 /\ tcCalls = 0 /\ tcAt = 0
    /\ tcRecords = 0 /\ tcCauses = 0 /\ tcResults = 0

IdleSchema ==
    /\ tsProperty = 0 /\ tsSchema = 0 /\ tsVerdict = 0

IdleEventBuses ==
    /\ evBus = 0 /\ evHolder = 0 /\ evNext = 0 /\ evTicket = 0 /\ evSlots = 0
    /\ evDead = 0 /\ evWalk = 0 /\ evDue = 0

HostInit ==
    /\ part \in Parts
    /\ IF part = "outbox" THEN Init ELSE IdleEventOutbox
    /\ IF part = "handle" THEN HandleInit ELSE IdleProcessHandle
    /\ IF part = "sessions" THEN SessionInit ELSE IdleProcessSessions
    /\ IF part = "ptc" THEN PcInit ELSE IdlePtcRuntime
    /\ PlInit
    /\ IF part = "tools" THEN TcInit ELSE IdleToolCalls
    /\ IF part = "schema" THEN TsInit ELSE IdleSchema
    /\ IF part = "buses" THEN EvInit ELSE IdleEventBuses

Others(p) ==
    /\ UNCHANGED part
    /\ p # "outbox" => UNCHANGED vars
    /\ p # "handle" => UNCHANGED handleVars
    /\ p # "sessions" => UNCHANGED sessionVars
    /\ p # "ptc" => UNCHANGED pcVars
    /\ p # "plugins" => UNCHANGED plVars
    /\ p # "tools" => UNCHANGED tcVars
    /\ p # "schema" => UNCHANGED tsVars
    /\ p # "buses" => UNCHANGED evVars

HostNext ==
    \/ part = "outbox" /\ Next /\ Others("outbox")
    \/ part = "handle" /\ HandleNext /\ Others("handle")
    \/ part = "sessions" /\ SessionNext /\ Others("sessions")
    \/ part = "ptc" /\ PcNext /\ Others("ptc")
    \/ part = "plugins" /\ PlNext /\ Others("plugins")
    \/ part = "tools" /\ TcNext /\ Others("tools")
    \/ part = "schema" /\ TsNext /\ Others("schema")
    \/ part = "buses" /\ EvNext /\ Others("buses")

HostVars == <<part, vars, handleVars, sessionVars, pcVars, plVars, tcVars,
    tsVars, evVars>>
HostSpec == HostInit /\ [][HostNext]_HostVars

-----------------------------------------------------------------------------
(* Properties: those of the components, by subject. *)

\* The outbox under congestion, a slow or lost peer, storage failure and shutdown:
\* its accounts agree with its queue, every omission is reported, no event the
\* transcript must retain is refused, no send exceeds the transport, and the
\* numbers leave no gap; what is being sent is not edited (EventOutbox: the properties
\* named here).
OutboxKeepsAccounts ==
    /\ [](part = "outbox" => /\ OutboxTypeOK /\ LedgerAgrees /\ LifecycleAdmitted
                             /\ SendsFit /\ SequenceUnbroken)
    /\ InFlightFrozen

\* A process handle joins everything it started before it answers and its captured
\* streams and inputs are the child's, in order; the session store keeps its
\* capacity, loses no live process and hands each byte out once (ProcessHandle and
\* ProcessSessions: the properties named here).
ProcessesAccounted ==
    /\ part = "handle" => JoinFence /\ CaptureTruth /\ InputInOrder
    /\ part = "sessions" => CapacityHolds /\ NoOrphan /\ OutputOnce

\* A program is never reported as not run when it may have run, nothing is
\* submitted behind one whose fate is unknown, and only a daemon of this runtime is
\* stopped (PtcRuntime: the properties named here).
ProgramReportsHonest ==
    [](part = "ptc" => HonestReport /\ NoForeignStop) /\ UnknownStopsSubmission

\* Code stays mapped while an object made by it lives, the loader counts the names
\* that resolve, and a name keeps its module once it is routed (Plugins).
PluginRoutesSound ==
    [](part = "plugins" => CodeStaysMapped /\ UsableCountsNames) /\ RouteStable

\* The published catalogue is what dispatch resolves; every call of a batch gets one
\* record, under its own id, also when tools throw; serial tools run alone; and a
\* schema the registry accepts admits at least one call (ToolCalls).
CallsAnswered ==
    /\ part = "tools" => /\ CatalogueRoutes /\ RecordsAnswerCalls
                         /\ SerialRunsAlone /\ SettledComplete
    /\ part = "schema" => AcceptedSchemasAdmitCalls

\* Subscribers are served in the documented order and none that is alive is left out
\* because an earlier one threw or was removed while the event was delivered
\* (EventBuses).
SubscribersServed == part = "buses" => ServedInOrder /\ LiveHandlersServed

=============================================================================
