----------------------------- MODULE Supervisor -----------------------------
(***************************************************************************)
(* The Hub's supervision of one session's worker                           *)
(* (src/hub/src/launch/supervisor.ts, with the dispatch journal of         *)
(* managed-sessions.ts, hub.json of state/persist.ts and the restore of    *)
(* hub.ts).  A start reserves the session, prepares its allocation through *)
(* a manager, journals the dispatch, spawns; a stop asks, then sends       *)
(* SIGTERM, then SIGKILL; the Hub may die at any instant and restores what *)
(* two files, published independently, say.                                *)
(*                                                                         *)
(* Hub is one event loop: between two awaits only its own death can        *)
(* intervene.  A start is named by the number of its lifecycle; so are its *)
(* record, the command it spawned and the worker.  Of a plain or local     *)
(* launch the command is the worker; of a remote one it is the transport,  *)
(* which may be lost while the worker is still to come.  What the target's *)
(* lease excludes is Allocations.  restart() is a stop followed by a       *)
(* start.  Launchers that daemonize (pidFile) are left out, and so are     *)
(* logs, rendering of configurations and descendants.                      *)
(***************************************************************************)
EXTENDS Naturals, FiniteSets

CONSTANTS
    Launches,                   \* of {"plain", "local", "remote"}
    MaxStarts, MaxHubDeaths     \* bounds

ASSUME SupervisorAssumption ==
    Launches \subseteq {"plain", "local", "remote"} /\ MaxStarts \in Nat

VARIABLES
    spLaunch,       \* the launch of the session, fixed
    spHub,          \* "up", "stopping" (stopAll), "down", "deleted" (the session)
    spTask,         \* what holds the reservation (pending), and where it is
    spStarts,       \* starts so far
    spLife,         \* session.lifecycleId
    spClosing,      \* session.closing
    spProcess,      \* session.process: a start, or 0
    spRecord,       \* [starts -> ProcessRecord]
    spStop,         \* the stop under way (the family keeps one per session)
    spAlloc,        \* allocation.json
    spSaved,        \* hub.json
    spCommand,      \* [starts -> what was spawned: "none", "up", "dead"]
    spExit,         \* [starts -> its exit, not yet handled: "none", "ok", "bad"]
    spWorker,       \* [starts -> "none", "coming", "up", "dead"]
    spReused,       \* starts whose pid a stranger has now
    spDeaths,
    spTold,         \* history: starts a stop reported as over
    spHit,          \* history: a stranger was signalled
    spBlind         \* history: a Hub was restored from a file that misleads it

spDisk == <<spAlloc, spSaved>>
spTarget == <<spCommand, spExit, spWorker, spReused>>
spHistory == <<spTold, spHit, spBlind>>
spVars == <<spLaunch, spHub, spTask, spStarts, spLife, spClosing, spProcess, spRecord, spStop,
            spDisk, spTarget, spDeaths, spHistory>>

StartIds == 1..MaxStarts
NoTask == [at |-> "none", was |-> FALSE]
NoStop == [at |-> "none", life |-> 0, sure |-> FALSE]
\* state of a record (exited and failed are both "ended"); adopted, of this Hub's own
\* child, and whether its copy of the journal says completed.
NoProcessRecord == [state |-> "none", adopted |-> FALSE, child |-> FALSE, done |-> FALSE]
NoAllocation == [life |-> 0, dispatch |-> "none", removing |-> FALSE]

SpInit ==
    /\ spLaunch \in Launches
    /\ spHub = "up" /\ spTask = NoTask /\ spStarts = 0 /\ spLife = 0 /\ spClosing = FALSE
    /\ spProcess = 0 /\ spRecord = [i \in StartIds |-> NoProcessRecord] /\ spStop = NoStop
    /\ spAlloc = NoAllocation /\ spSaved = [life |-> 0, process |-> 0]
    /\ spCommand = [i \in StartIds |-> "none"] /\ spExit = [i \in StartIds |-> "none"]
    /\ spWorker = [i \in StartIds |-> "none"] /\ spReused = {}
    /\ spDeaths = 0 /\ spTold = {} /\ spHit = FALSE /\ spBlind = FALSE

-----------------------------------------------------------------------------
(* Helpers. *)

Managed == spLaunch # "plain"
Live(i) == spWorker[i] \in {"coming", "up"}
\* The worker holds its lease while it is up, and management calls then fail as busy.
LeaseFree == \A i \in StartIds : spWorker[i] # "up"
\* The event loop is between two tasks; a start does not yield while it dispatches.
LoopTurn == spHub \in {"up", "stopping"} /\ spTask.at \notin {"ready", "marked", "spawned"}

Unconfirmed(a) == a.dispatch = "pending"
Ended(i) == spRecord[i].state = "ended"
IsRunning == spTask # NoTask \/ (spProcess # 0 /\ spRecord[spProcess].state \in {"running", "stopping"})

\* The journal after completeManagedDispatch() for start i: another lifecycle, or
\* one whose removal has begun, is not touched.
Completed(a, i) ==
    IF a.life = i /\ ~a.removing THEN [a EXCEPT !.dispatch = "completed"] ELSE a
\* Publishing may fail; the record in memory follows the file.
Completes(i, when) ==
    \/ /\ when /\ Managed
       /\ spAlloc' = Completed(spAlloc, i)
       /\ spRecord' = [spRecord EXCEPT ![i].state = "ended",
                                       ![i].done = @ \/ (spAlloc.life = i /\ ~spAlloc.removing)]
    \/ spAlloc' = spAlloc /\ spRecord' = [spRecord EXCEPT ![i].state = "ended"]

\* What hub.json says of the session; notify() writes it at once, which may fail.
SessionDocument ==
    [life |-> spLife,
     process |-> IF spProcess # 0 /\ spCommand[spProcess] # "none" THEN spProcess ELSE 0]
Notify == spSaved' \in {spSaved, SessionDocument'}

-----------------------------------------------------------------------------
(* start(). *)

\* Refused while a worker, a reservation or a stop is there, or the journal has a
\* dispatch that is not known to be over.
StartWorker ==
    /\ LoopTurn /\ spHub = "up" /\ ~IsRunning /\ spStop = NoStop
    /\ ~Unconfirmed(spAlloc)
    /\ spStarts < MaxStarts
    /\ spStarts' = spStarts + 1 /\ spLife' = spStarts + 1 /\ spClosing' = FALSE
    /\ spTask' = [NoTask EXCEPT !.at = IF Managed THEN "prepare" ELSE "ready"]
    /\ UNCHANGED <<spLaunch, spHub, spProcess, spRecord, spStop, spDisk, spTarget, spDeaths, spHistory>>

\* prepareManagedSession(): the manager answers, and the lifecycle is published
\* before it is captured.
PrepareManaged ==
    /\ LoopTurn /\ spTask.at = "prepare" /\ ~spClosing /\ ~spAlloc.removing /\ LeaseFree
    /\ spAlloc' = [spAlloc EXCEPT !.life = spLife, !.dispatch = "prepared"]
    /\ spTask' = [spTask EXCEPT !.at = "capture"]
    /\ UNCHANGED <<spLaunch, spHub, spStarts, spLife, spClosing, spProcess, spRecord, spStop,
                   spSaved, spTarget, spDeaths, spHistory>>

Capture ==
    /\ LoopTurn /\ spTask.at = "capture" /\ ~spClosing /\ LeaseFree
    /\ spTask' = [spTask EXCEPT !.at = "ready"]
    /\ UNCHANGED <<spLaunch, spHub, spStarts, spLife, spClosing, spProcess, spRecord, spStop,
                   spDisk, spTarget, spDeaths, spHistory>>

\* The manager fails or is late, or the session began to close.
PreparationFails ==
    /\ LoopTurn /\ spTask.at \in {"prepare", "capture"}
    /\ spTask' = NoTask
    /\ UNCHANGED <<spLaunch, spHub, spStarts, spLife, spClosing, spProcess, spRecord, spStop,
                   spDisk, spTarget, spDeaths, spHistory>>

\* The new record becomes the session's; markManagedDispatch() publishes the intent.
MarkDispatch ==
    /\ spHub # "down" /\ spTask.at = "ready"
    /\ spProcess' = spLife
    /\ spRecord' = [spRecord EXCEPT ![spLife] = [NoProcessRecord EXCEPT !.state = "starting"]]
    /\ spAlloc' = IF Managed THEN [spAlloc EXCEPT !.dispatch = "pending"] ELSE spAlloc
    /\ spTask' = [spTask EXCEPT !.at = "marked"]
    /\ UNCHANGED <<spLaunch, spHub, spStarts, spLife, spClosing, spStop, spSaved, spTarget,
                   spDeaths, spHistory>>

\* The intent could not be published, or spawn() failed: nothing runs, which is
\* journalled if it can be.
DispatchFails ==
    /\ spHub # "down" /\ spTask.at \in {"ready", "marked"}
    /\ Completes(spLife, TRUE)
    /\ spProcess' = spLife /\ spTask' = NoTask
    /\ UNCHANGED <<spLaunch, spHub, spStarts, spLife, spClosing, spStop, spTarget, spDeaths,
                   spHistory>>
    /\ Notify

Spawn ==
    /\ spHub # "down" /\ spTask.at = "marked"
    /\ spCommand' = [spCommand EXCEPT ![spLife] = "up"]
    /\ spWorker' = [spWorker EXCEPT ![spLife] = "coming"]
    /\ spRecord' = [spRecord EXCEPT ![spLife].state = "running", ![spLife].child = TRUE]
    /\ spTask' = [spTask EXCEPT !.at = "spawned"]
    /\ UNCHANGED <<spLaunch, spHub, spStarts, spLife, spClosing, spProcess, spStop, spDisk,
                   spExit, spReused, spDeaths, spHistory>>

Started ==
    /\ spHub # "down" /\ spTask.at = "spawned"
    /\ spTask' = NoTask
    /\ UNCHANGED <<spLaunch, spHub, spStarts, spLife, spClosing, spProcess, spRecord, spStop,
                   spAlloc, spTarget, spDeaths, spHistory>>
    /\ Notify

-----------------------------------------------------------------------------
(* The end of a worker. *)

\* What the exit of start i's command says about its worker: of a remote launch
\* only success, seen by the Hub that spawned it, is its end.
MutantObservesEnd(i) == TRUE
ObservesEnd(i) == spLaunch = "local" \/ spExit[i] = "ok"

\* The child's exit event: the journal is completed if this is evidence, finish().
\* A record that has ended already is left alone by finish().
ChildExit(i) ==
    /\ LoopTurn /\ spRecord[i].child /\ spExit[i] # "none"
    /\ Completes(i, ObservesEnd(i))
    /\ spExit' = [spExit EXCEPT ![i] = "none"]
    /\ UNCHANGED <<spLaunch, spHub, spTask, spStarts, spLife, spClosing, spProcess, spStop,
                   spCommand, spWorker, spReused, spDeaths, spHistory>>
    /\ Notify

\* processIdentity() = "gone": the pid is free, or its start time is another's.
ProcessGone(i) == spCommand[i] = "dead"

\* The poll of an adopted record; finish() completes the journal of a local one.
Monitor(i) ==
    /\ LoopTurn /\ spRecord[i].adopted /\ spLaunch # "remote" /\ ~Ended(i) /\ ProcessGone(i)
    /\ Completes(i, TRUE)
    /\ UNCHANGED <<spLaunch, spHub, spTask, spStarts, spLife, spClosing, spProcess, spStop,
                   spTarget, spDeaths, spHistory>>
    /\ Notify

-----------------------------------------------------------------------------
(* stop() and forceKill(). *)

Over(life) == spStop' = NoStop /\ spTold' = spTold \cup {life}

\* Without a record only the manager and the journal can tell; an ended record of
\* a process the Hub saw is an answer; otherwise the worker is asked to shut down.
Stop ==
    /\ LoopTurn /\ spTask = NoTask /\ spStop = NoStop
    /\ spClosing' = TRUE
    /\ UNCHANGED <<spLaunch, spHub, spTask, spStarts, spLife, spProcess, spAlloc, spTarget,
                   spDeaths, spHit, spBlind>>
    /\ \/ /\ spProcess = 0 /\ spAlloc.life = 0
          /\ UNCHANGED <<spStop, spRecord, spSaved, spTold>>
       \/ /\ spProcess = 0 /\ spAlloc.life # 0
          /\ spStop' = [at |-> "probe", life |-> spAlloc.life, sure |-> ~Unconfirmed(spAlloc)]
          /\ UNCHANGED <<spRecord, spSaved, spTold>>
       \/ \* a subagent's session: no dispatch is open, so nothing was left behind
          /\ spProcess = 0 /\ spAlloc.life # 0 /\ ~Unconfirmed(spAlloc)
          /\ Over(spAlloc.life) /\ UNCHANGED <<spRecord, spSaved>>
       \/ /\ spProcess # 0 /\ Ended(spProcess) /\ spLaunch # "remote"
          /\ Over(spProcess) /\ UNCHANGED <<spRecord, spSaved>>
       \/ /\ spProcess # 0 /\ ~(Ended(spProcess) /\ spLaunch # "remote")
          /\ spRecord' = [spRecord EXCEPT ![spProcess].state = "stopping"]
          /\ spStop' = [at |-> "grace", life |-> spProcess, sure |-> FALSE]
          /\ UNCHANGED spTold /\ Notify

\* targetPid(): the pid of the record while its start time still matches.
Target(i) == IF spCommand[i] = "up" THEN "own" ELSE "none"

\* signalProcess(): a kill ends the command, which of these launches is the worker.
Signal(i, kills) ==
    /\ spHit' = (spHit \/ (Target(i) # "none" /\ i \in spReused))
    /\ IF kills /\ Target(i) = "own"
       THEN /\ spCommand' = [spCommand EXCEPT ![i] = "dead"]
            /\ spWorker' = [spWorker EXCEPT ![i] = "dead"]
            /\ spExit' = [spExit EXCEPT ![i] = IF spRecord[i].child THEN "bad" ELSE @]
       ELSE UNCHANGED <<spCommand, spWorker, spExit>>
    /\ UNCHANGED spReused

\* The family's cascade() marks a running record as stopping before either of them.
ForceKill ==
    /\ LoopTurn /\ spTask = NoTask /\ spStop = NoStop /\ spProcess # 0
    /\ ~Ended(spProcess) /\ spLaunch # "remote"
    /\ spClosing' = TRUE
    /\ spRecord' = [spRecord EXCEPT ![spProcess].state = "stopping"]
    /\ spStop' = [at |-> "kill", life |-> spProcess, sure |-> FALSE]
    /\ Signal(spProcess, TRUE)
    /\ UNCHANGED <<spLaunch, spHub, spTask, spStarts, spLife, spProcess, spAlloc, spDeaths, spTold, spBlind>>
    /\ Notify

\* waitForExit(): an own child has ended; an adopted process is gone; of a remote
\* worker the lease is free and the dispatch is known to be over, and only then is
\* the transport killed.
SeesExit ==
    LET i == spStop.life
        remote == spLaunch = "remote"
    IN
    /\ LoopTurn /\ spStop.at \in {"grace", "term", "kill"}
    /\ CASE remote -> LeaseFree /\ spRecord[i].done
         [] ~remote /\ spRecord[i].adopted -> ProcessGone(i)
         [] OTHER -> Ended(i)
    /\ Completes(i, ~remote /\ spRecord[i].adopted /\ ~Ended(i))
    /\ spCommand' = [spCommand EXCEPT ![i] = IF remote /\ spRecord[i].child THEN "dead" ELSE @]
    /\ Over(i)
    /\ UNCHANGED <<spLaunch, spHub, spTask, spStarts, spLife, spClosing, spProcess, spExit,
                   spWorker, spReused, spDeaths, spHit, spBlind>>
    /\ Notify

\* The time of a stage is over: the next one, or the stop has failed.
TimesOut ==
    LET i == spStop.life IN
    /\ LoopTurn /\ spStop.at \in {"grace", "term", "kill"}
    /\ Ended(i) => spLaunch = "remote"
    /\ IF spLaunch = "remote" \/ spStop.at = "kill"
       THEN spStop' = NoStop /\ UNCHANGED <<spTarget, spHit>>
       ELSE /\ spStop' = [spStop EXCEPT !.at = IF @ = "grace" THEN "term" ELSE "kill"]
            /\ Signal(i, spStop.at = "term")
    /\ UNCHANGED <<spLaunch, spHub, spTask, spStarts, spLife, spClosing, spProcess, spRecord,
                   spDisk, spDeaths, spTold, spBlind>>

\* stopProcess() without a record: the lease is free and the journal, as it was
\* read at the call, has no open dispatch; or the time is over.
ProbeIdle ==
    /\ LoopTurn /\ spStop.at = "probe"
    /\ \/ LeaseFree /\ spStop.sure /\ Over(spStop.life)
       \/ spStop' = NoStop /\ UNCHANGED spTold
    /\ UNCHANGED <<spLaunch, spHub, spTask, spStarts, spLife, spClosing, spProcess, spRecord,
                   spDisk, spTarget, spDeaths, spHit, spBlind>>

-----------------------------------------------------------------------------
(* removeStorage(). *)

\* A running session is deleted only if it is managed; the intent is published
\* before the manager is asked.
RemoveStorage ==
    /\ LoopTurn /\ spHub = "up" /\ spTask = NoTask /\ spStop = NoStop
    /\ IsRunning => spAlloc.life # 0
    /\ spTask' = [at |-> "remove", was |-> spClosing] /\ spClosing' = TRUE
    /\ spAlloc' = [spAlloc EXCEPT !.removing = spAlloc.life # 0]
    /\ UNCHANGED <<spLaunch, spHub, spStarts, spLife, spProcess, spRecord, spStop, spSaved,
                   spTarget, spDeaths, spHistory>>

RemoveFails ==
    /\ LoopTurn /\ spTask.at = "remove" /\ spAlloc.life # 0
    /\ spTask' = NoTask /\ spClosing' = spTask.was
    /\ UNCHANGED <<spLaunch, spHub, spStarts, spLife, spProcess, spRecord, spStop, spDisk,
                   spTarget, spDeaths, spHistory>>

\* The allocation is retired, which rejects a worker still to come; then the Hub's
\* own child is killed, and the local files and the session go.
Removed ==
    /\ LoopTurn /\ spTask.at = "remove" /\ (spAlloc.life # 0 => LeaseFree)
    /\ spHub' = "deleted" /\ spTask' = NoTask
    /\ IF spAlloc.life = 0 THEN UNCHANGED <<spWorker, spCommand>>
       ELSE /\ spWorker' = [i \in StartIds |-> IF Live(i) THEN "dead" ELSE spWorker[i]]
            /\ spCommand' = [i \in StartIds |->
                  IF spCommand[i] = "up" /\ (spRecord[i].child \/ spLaunch = "local")
                  THEN "dead" ELSE spCommand[i]]
    /\ spAlloc' = NoAllocation
    /\ UNCHANGED <<spLaunch, spStarts, spLife, spClosing, spProcess, spRecord, spStop, spSaved,
                   spExit, spReused, spDeaths, spHistory>>

-----------------------------------------------------------------------------
(* hub.json, the end and the restart of the Hub. *)

\* A debounced write, or one that another session asked for.
Save ==
    /\ LoopTurn /\ spSaved' = SessionDocument
    /\ UNCHANGED <<spLaunch, spHub, spTask, spStarts, spLife, spClosing, spProcess, spRecord,
                   spStop, spAlloc, spTarget, spDeaths, spHistory>>

\* stopAll(): no more starts, pending ones are cancelled and awaited.
StopAll ==
    /\ LoopTurn /\ spHub = "up" /\ spHub' = "stopping" /\ spClosing' = TRUE
    /\ UNCHANGED <<spLaunch, spTask, spStarts, spLife, spProcess, spRecord, spStop, spDisk,
                   spTarget, spDeaths, spHistory>>

LoseMemory ==
    /\ spHub' = "down" /\ spTask' = NoTask /\ spStop' = NoStop /\ spLife' = 0 /\ spClosing' = FALSE
    /\ spProcess' = 0 /\ spRecord' = [i \in StartIds |-> NoProcessRecord]
    /\ spExit' = [i \in StartIds |-> "none"]
    /\ spDeaths' = spDeaths + 1
    /\ UNCHANGED <<spLaunch, spStarts, spAlloc, spCommand, spWorker, spReused, spHistory>>

\* The end of a shutdown, once the session was asked to stop: a last write.
HubEnds ==
    /\ spHub = "stopping" /\ spTask = NoTask /\ spStop = NoStop /\ spDeaths < MaxHubDeaths
    /\ spProcess # 0 => spRecord[spProcess].state \in {"stopping", "ended"}
    /\ spSaved' = SessionDocument
    /\ LoseMemory

\* Death at any instant, also between two lines of a dispatch.
HubDies ==
    /\ spHub \in {"up", "stopping"} /\ spDeaths < MaxHubDeaths
    /\ UNCHANGED spSaved
    /\ LoseMemory

\* adopt(): what of hub.json's process i is taken over.  The journal of a local
\* launch speaks first: of another lifecycle nothing is, and a process that is gone
\* settles the dispatch.  known is FALSE where /proc tells nothing.
Mismatch == Unconfirmed(spAlloc) /\ spLaunch = "local" /\ spSaved.life # spAlloc.life
Settles(i, known) ==
    Unconfirmed(spAlloc) /\ spLaunch = "local" /\ ~Mismatch /\ i # 0 /\ known /\ ProcessGone(i)
Adopts(i, known) == i # 0 /\ known /\ ~ProcessGone(i) /\ ~Mismatch

\* start() of a new Hub: the session of hub.json, adopt(), recoverManaged().  A session
\* that was being stopped is closing again; its Stop follows.
RestoreWith(known, published) ==
    LET i == spSaved.process
        alloc == IF Settles(i, known) /\ published THEN Completed(spAlloc, spAlloc.life) ELSE spAlloc
        lost == spLaunch = "remote" /\ Unconfirmed(spAlloc)
        held == IF lost THEN spAlloc.life ELSE IF Adopts(i, known) THEN i ELSE 0
    IN
    /\ spHub = "down" /\ spHub' = "up"
    /\ spAlloc' = alloc
    /\ spProcess' = held
    /\ spRecord' = [j \in StartIds |->
          IF j = held
          THEN [state |-> IF lost THEN "stopping" ELSE "running", adopted |-> TRUE,
                child |-> FALSE, done |-> ~Unconfirmed(alloc)]
          ELSE NoProcessRecord]
    /\ spLife' = IF Unconfirmed(alloc) THEN alloc.life ELSE spSaved.life
    /\ spClosing' \in {TRUE, Unconfirmed(alloc) /\ ~(held # 0 /\ spLaunch = "local")}
    /\ spBlind' = \/ spBlind
                  \/ spLaunch = "plain" /\ held = 0 /\ \E j \in StartIds : Live(j)
                  \/ Settles(i, known) /\ i # spAlloc.life /\ spSaved.life = spAlloc.life
    /\ UNCHANGED <<spLaunch, spTask, spStarts, spStop, spSaved, spTarget, spDeaths, spTold, spHit>>

Restore == \E known, published \in BOOLEAN : RestoreWith(known, published)

-----------------------------------------------------------------------------
(* The target (external). *)

\* The worker takes its lease; another one that holds it makes it fail.
WorkerUp(i) ==
    /\ spWorker[i] = "coming" /\ LeaseFree
    /\ spWorker' = [spWorker EXCEPT ![i] = "up"]
    /\ UNCHANGED <<spLaunch, spHub, spTask, spStarts, spLife, spClosing, spProcess, spRecord,
                   spStop, spDisk, spCommand, spExit, spReused, spDeaths, spHistory>>

\* Of a plain or local launch the worker is the command.
SupervisedEnds(i) ==
    /\ Live(i)
    /\ spWorker' = [spWorker EXCEPT ![i] = "dead"]
    /\ IF spLaunch = "remote" THEN UNCHANGED <<spCommand, spExit>>
       ELSE /\ spCommand' = [spCommand EXCEPT ![i] = "dead"]
            /\ spExit' = [spExit EXCEPT ![i] = IF spRecord[i].child THEN "bad" ELSE @]
    /\ UNCHANGED <<spLaunch, spHub, spTask, spStarts, spLife, spClosing, spProcess, spRecord,
                   spStop, spDisk, spReused, spDeaths, spHistory>>

\* The foreground command of a remote launch succeeds after the worker; the
\* transport may be lost at any time.
TransportEnds(i) ==
    /\ spLaunch = "remote" /\ spCommand[i] = "up"
    /\ spCommand' = [spCommand EXCEPT ![i] = "dead"]
    /\ \E code \in {"ok", "bad"} :
         /\ code = "ok" => spWorker[i] = "dead"
         /\ spExit' = [spExit EXCEPT ![i] = IF spRecord[i].child THEN code ELSE @]
    /\ UNCHANGED <<spLaunch, spHub, spTask, spStarts, spLife, spClosing, spProcess, spRecord,
                   spStop, spDisk, spWorker, spReused, spDeaths, spHistory>>

\* A pid is free once its parent, which is no longer this Hub, has reaped it.
PidReused(i) ==
    /\ spRecord[i].adopted /\ spCommand[i] = "dead" /\ i \notin spReused
    /\ spReused' = spReused \cup {i}
    /\ UNCHANGED <<spLaunch, spHub, spTask, spStarts, spLife, spClosing, spProcess, spRecord,
                   spStop, spDisk, spCommand, spExit, spWorker, spDeaths, spHistory>>

SpNext ==
    \/ StartWorker \/ PrepareManaged \/ Capture \/ PreparationFails \/ MarkDispatch \/ DispatchFails \/ Spawn \/ Started
    \/ Stop \/ ForceKill \/ SeesExit \/ TimesOut \/ ProbeIdle
    \/ RemoveStorage \/ RemoveFails \/ Removed
    \/ Save \/ StopAll \/ HubEnds \/ HubDies \/ Restore
    \/ \E i \in StartIds : ChildExit(i) \/ Monitor(i) \/ WorkerUp(i) \/ SupervisedEnds(i)
                        \/ TransportEnds(i) \/ PidReused(i)

SpSpec == SpInit /\ [][SpNext]_spVars

-----------------------------------------------------------------------------
(* Properties. *)

\* The states of the session, its records and the target are those of the code.
SupervisorTypeOK ==
    /\ spProcess \in 0..MaxStarts /\ spLife \in 0..MaxStarts
    /\ spRecord \in [StartIds -> [state : {"none", "starting", "running", "stopping", "ended"},
                               adopted : BOOLEAN, child : BOOLEAN, done : BOOLEAN]]
    /\ spAlloc \in [life : 0..MaxStarts, dispatch : {"none", "prepared", "pending", "completed"},
                    removing : BOOLEAN]

\* One session never has two workers, alive or still to come, through failed
\* dispatches, lost transports, stops that race exits and restarts of the Hub; the
\* exception is a Hub restored from a hub.json that misleads it.
OneWorker == spBlind \/ \A i, j \in StartIds : Live(i) /\ Live(j) => i = j

\* A stop that reports success leaves no worker of that start (stopProcess(),
\* restart() relies on it).
StopsAreTrue == spBlind \/ \A i \in spTold : ~Live(i)

\* Once the deletion of a managed session has begun nothing is dispatched for it.
NoDispatchAfterRemoval == spTask.at \in {"ready", "marked", "spawned"} => ~spAlloc.removing

\* The stop escalation signals nobody who took over the pid of the worker.
NoStrangerSignalled == ~spHit

\* "An older process snapshot must never settle (or supervise) a newer dispatch"
\* (supervisor.ts, adopt()): a dispatch journalled as completed has no worker.
SettledIsOver == spAlloc.dispatch = "completed" => ~Live(spAlloc.life)
=============================================================================
