------------------------------- MODULE Worker -------------------------------
(***************************************************************************)
(* The worker process around the loop (src/core/src/application.cpp):      *)
(* consume() admits one request at a time, run_with_auto_compact() drives  *)
(* loop::run and automatic compaction, save() makes the state durable at   *)
(* every checkpoint, and a restarted process resumes from the last         *)
(* snapshot.  The AgentLoop actions are the steps of loop::run; this       *)
(* module supplies the host half of every await.                           *)
(*                                                                         *)
(* The store is seen through its contract (persistence/store.hpp): a write *)
(* commits, or fails leaving the old state, or fails leaving either one.   *)
(* SqliteStore and StateStore look inside it.  Requests carry no payload;  *)
(* duplicate request ids and option changes are not modelled.              *)
(***************************************************************************)
EXTENDS AgentLoop

CONSTANTS
    Sqlite,               \* TRUE: SQLite backend, FALSE: JSON backend
    SaveStep, SaveRun, SaveShutdown,   \* the persistence switches
    MaxAutoCompactions,   \* config.max_auto_compactions
    MaxAdmission,         \* bound: no request is admitted above this commit sequence
    MaxRestarts           \* bound: how often the process is started again

ASSUME WorkerConstants ==
    /\ {Sqlite, SaveStep, SaveRun, SaveShutdown} \subseteq BOOLEAN
    /\ MaxAutoCompactions \in Nat \ {0}
    /\ MaxAdmission \in Nat
    /\ MaxRestarts \in Nat

VARIABLES
    host,           \* where consume() and its callees are
    op,             \* the admitted operation: "task" or "compact"
    result,         \* RunResult::status of the controller
    memory,         \* the prompt carries the summary of a compaction
    disk,           \* the authoritative snapshot
    storageFailed, runSaved, attempts, successes,
    shutdown,       \* shutdown_requested or stopping
    report,         \* the terminal event of the last request
    restarts,
    began           \* history: the commit sequence when the request was admitted

hostVars == <<op, result, memory, attempts, successes, shutdown, report, restarts, began>>
workerVars == <<host, hostVars, disk, storageFailed, runSaved>>
allVars == <<loopVars, workerVars>>

HostLocations ==
    {"down", "ready", "running", "compact", "attempt", "commit", "unsettled",
     "cleanup", "compacted", "settle", "report", "leaving"}
Reports == [kind : {"none", "error", "finished"}, durable : BOOLEAN,
            status : RunStatuses \cup {"None"}]
NoReport == [kind |-> "none", durable |-> FALSE, status |-> "None"]

\* Mutant of Snapshot: the buffered results are not part of it.
MutantSnapshotDropsBuffer ==
    [turns |-> turns, status |-> status, phase |-> phase, completed |-> completed,
     committed |-> committed, pending |-> NoResults, memory |-> memory]

\* What a checkpoint stores, and what restore_state() loads.
Snapshot == [turns |-> turns, status |-> status, phase |-> phase, completed |-> completed,
             committed |-> committed, pending |-> pending, memory |-> memory]
EmptySnapshot == [turns |-> <<>>, status |-> "Idle", phase |-> "Ready", completed |-> 0,
                  committed |-> 0, pending |-> NoResults, memory |-> FALSE]

Adopt(s) ==
    /\ turns' = s.turns
    /\ status' = s.status
    /\ phase' = s.phase
    /\ completed' = s.completed
    /\ committed' = s.committed
    /\ pending' = s.pending
    /\ memory' = s.memory

(***************************************************************************)
(* save() and the storage latch.                                           *)
(***************************************************************************)
\* A store failure latches storage_failed and cancels the run; a write whose
\* outcome is unknown leaves the old or the new snapshot.
StorageLost(s) ==
    /\ disk' \in {disk, s}
    /\ storageFailed' = TRUE
    /\ stop' = TRUE

\* Mutant of Save: it writes although storage has failed before.
MutantSaveUnlatched(ok, terminal) ==
    \/ /\ ok
       /\ disk' = Snapshot
       /\ runSaved' = (runSaved \/ terminal)
       /\ UNCHANGED <<storageFailed, stop>>
    \/ /\ ~ok
       /\ StorageLost(Snapshot)
       /\ UNCHANGED runSaved

\* After the latch save() returns without writing; a terminal boundary that
\* commits makes the request durable.
Save(ok, terminal) ==
    \/ /\ storageFailed
       /\ ok
       /\ UNCHANGED <<disk, storageFailed, runSaved, stop>>
    \/ /\ ~storageFailed
       /\ ok
       /\ disk' = Snapshot
       /\ runSaved' = (runSaved \/ terminal)
       /\ UNCHANGED <<storageFailed, stop>>
    \/ /\ ~storageFailed
       /\ ~ok
       /\ StorageLost(Snapshot)
       /\ UNCHANGED runSaved

SaveIf(enabled, ok, terminal) ==
    IF enabled THEN Save(ok, terminal)
               ELSE ok /\ UNCHANGED <<disk, storageFailed, runSaved, stop>>

(***************************************************************************)
(* Admission of a request by consume().                                    *)
(***************************************************************************)
CanContinueMemory == turns = <<>> /\ phase = "Ready" /\ memory

NewRequest(o) ==
    /\ host = "ready"
    /\ ~shutdown
    /\ committed <= MaxAdmission
    /\ phase \notin {"Tools", "Blocked"}
    /\ op' = o
    /\ result' = "None"
    /\ runSaved' = FALSE
    /\ attempts' = 0
    /\ successes' = 0
    /\ began' = committed
    /\ report' = NoReport
    /\ stop' = FALSE
    /\ UNCHANGED <<memory, disk, storageFailed, shutdown, restarts>>

\* "message" carries a user message; "continue" resumes the last turn, or the
\* summary when a compaction left no turn.
AdmitTask(m) ==
    /\ NewRequest("task")
    /\ m = "none" => turns # <<>> \/ CanContinueMemory
    /\ Invoke(IF m = "none" /\ CanContinueMemory THEN "user" ELSE m)
    /\ host' = "running"

AdmitCompact ==
    /\ NewRequest("compact")
    /\ phase = "Ready"
    /\ turns # <<>>
    /\ host' = "compact"
    /\ UNCHANGED <<stateVars, pc, res, message, hookError, large, running, records, effectVars>>

(***************************************************************************)
(* loop::run under the worker.                                             *)
(***************************************************************************)
LoopBody ==
    /\ host = "running"
    /\ Body
    /\ UNCHANGED workerVars

LoopModel ==
    /\ host = "running"
    /\ Model
    /\ UNCHANGED workerVars

LoopTools ==
    /\ host = "running"
    /\ Tools
    /\ UNCHANGED workerVars

\* Mutant of LoopCheckpoint: the batch boundaries obey the step switch.
MutantBatchBySwitch(ok) ==
    /\ host = "running"
    /\ \/ pc = "ckptTools" /\ SaveIf(SaveStep, ok, FALSE) /\ BeforeTools(ok)
       \/ pc = "ckptResults" /\ SaveIf(SaveStep, ok, FALSE) /\ ResultsReady(ok)
       \/ pc = "ckptStep" /\ SaveIf(SaveStep, ok, FALSE) /\ StepFinished(ok)
       \/ pc = "ckptRun" /\ SaveIf(SaveRun, ok, TRUE) /\ RunFinished(TRUE)
    /\ UNCHANGED <<host, hostVars>>

\* The callback installed as Options::checkpoint.  A lost RunFinished write is
\* swallowed: the loop keeps its own outcome and the latch reports it.
LoopCheckpoint(ok) ==
    /\ host = "running"
    /\ \/ pc = "ckptTools" /\ Save(ok, FALSE) /\ BeforeTools(ok)
       \/ pc = "ckptResults" /\ Save(ok, FALSE) /\ ResultsReady(ok)
       \/ pc = "ckptStep" /\ SaveIf(SaveStep, ok, FALSE) /\ StepFinished(ok)
       \/ pc = "ckptRun" /\ SaveIf(SaveRun, ok, TRUE) /\ RunFinished(TRUE)
    /\ UNCHANGED <<host, hostVars>>

(***************************************************************************)
(* run_with_auto_compact(): what follows a returned invocation.            *)
(***************************************************************************)
\* Mutant of FinishController: the request stays marked as saved.
MutantVerdictSaved(r) ==
    IF phase = "Ready"
      THEN /\ status' = IF r = "Cancelled" THEN "Cancelled" ELSE "Failed"
           /\ UNCHANGED runSaved
      ELSE UNCHANGED <<status, runSaved>>

\* finish_controller(): a settled state records the host's own verdict.
FinishController(r) ==
    IF phase = "Ready"
      THEN /\ status' = IF r = "Cancelled" THEN "Cancelled" ELSE "Failed"
           /\ runSaved' = FALSE
      ELSE UNCHANGED <<status, runSaved>>

Conclude(r) ==
    /\ result' = r
    /\ host' = "settle"
    /\ FinishController(r)
    /\ UNCHANGED attempts

\* Mutant of TooOften: the budget of the request is not looked at.
MutantNoBudget == successes > 0 /\ completed = 1

\* The two guards of a cycle: no second compaction after a segment of a single
\* exchange, and no more attempts than the request has.
TooOften == (successes > 0 /\ completed = 1) \/ attempts >= MaxAutoCompactions

LoopReturned ==
    /\ host = "running"
    /\ pc = "idle"
    /\ CASE res \notin RunStatuses -> Conclude("Failed")      \* run() threw
         [] res \in RunStatuses \ {"AutoCompactRequired"} ->
                /\ result' = res
                /\ host' = "settle"
                /\ UNCHANGED <<status, runSaved, attempts>>
         [] res = "AutoCompactRequired" /\ storageFailed -> Conclude("Failed")
         [] res = "AutoCompactRequired" /\ ~storageFailed /\ stop -> Conclude("Cancelled")
         [] res = "AutoCompactRequired" /\ ~storageFailed /\ ~stop /\ TooOften -> Conclude("Failed")
         [] OTHER -> /\ attempts' = attempts + 1
                     /\ host' = "compact"
                     /\ UNCHANGED <<result, status, runSaved>>
    /\ UNCHANGED <<turns, phase, completed, committed, pending, pc, frameVars, effectVars,
                   op, memory, successes, shutdown, report, restarts, began, disk, storageFailed>>

(***************************************************************************)
(* compact() and compact_attempt().                                        *)
(***************************************************************************)
CompactEnds(r, at) ==
    /\ result' = r
    /\ host' = at

compactUnchanged == <<pc, res, message, hookError, large, running, records, effectVars,
                      op, attempts, successes, shutdown, report, restarts, began>>

\* Reservation, preflight and T1.  In SQLite T1 also checkpoints the original
\* state; a failed JSON archive that was certainly not published only throws.
CompactBegin ==
    /\ host = "compact"
    /\ \/ /\ stop
          /\ CompactEnds("Cancelled", "compacted")
          /\ UNCHANGED <<disk, storageFailed, stop>>
       \/ /\ ~stop                                   \* preflight threw
          /\ CompactEnds("Failed", "compacted")
          /\ UNCHANGED <<disk, storageFailed, stop>>
       \/ /\ ~stop                                   \* T1 committed
          /\ host' = "attempt"
          /\ disk' = IF Sqlite THEN Snapshot ELSE disk
          /\ UNCHANGED <<result, storageFailed, stop>>
       \/ /\ ~stop                                   \* T1 lost
          /\ CompactEnds("Failed", "compacted")
          /\ StorageLost(IF Sqlite THEN Snapshot ELSE disk)
    /\ UNCHANGED <<stateVars, memory, runSaved, compactUnchanged>>

\* The private summary run on a draft without tools, and the checks up to T2.
CompactAttempt ==
    /\ host = "attempt"
    /\ \/ stop /\ CompactEnds("Cancelled", "unsettled")
       \/ CompactEnds("Failed", "unsettled")
       \/ /\ ~stop
          /\ committed < MaxSequence
          /\ host' = "commit"
          /\ UNCHANGED result
    /\ UNCHANGED <<stateVars, memory, stop, disk, storageFailed, runSaved, compactUnchanged>>

\* Mutant of Replacement: the status is taken from a controller that has none yet.
MutantReplacementStatus ==
    [turns |-> <<>>, status |-> result, phase |-> "Ready", completed |-> 1,
     committed |-> committed + 1, pending |-> NoResults, memory |-> TRUE]

\* The state that replaces the conversation: the summary is in the prompt and
\* the progress is the one of the private run, which committed one response.
Replacement == [turns |-> <<>>, status |-> "Completed", phase |-> "Ready", completed |-> 1,
                committed |-> committed + 1, pending |-> NoResults, memory |-> TRUE]

\* T2: the live state is replaced only after the store has committed.
CompactCommit ==
    /\ host = "commit"
    /\ \/ /\ stop
          /\ CompactEnds("Cancelled", "unsettled")
          /\ UNCHANGED <<stateVars, memory, disk, storageFailed, runSaved, stop>>
       \/ /\ ~stop
          /\ CompactEnds("Completed", "cleanup")
          /\ Adopt(Replacement)
          /\ disk' = Replacement
          /\ runSaved' = TRUE
          /\ UNCHANGED <<storageFailed, stop>>
       \/ /\ ~stop
          /\ CompactEnds("Failed", "unsettled")
          /\ StorageLost(Replacement)
          /\ UNCHANGED <<stateVars, memory, runSaved>>
    /\ UNCHANGED compactUnchanged

\* settle_failed_compact() and retention after success: optional archive work.
\* Only an unknown outcome latches; after an uncertain SQLite commit nothing runs.
ArchiveWork ==
    /\ host \in {"unsettled", "cleanup"}
    /\ \/ UNCHANGED <<disk, storageFailed, stop>>
       \/ /\ ~(host = "unsettled" /\ storageFailed /\ Sqlite)
          /\ StorageLost(disk)
    /\ host' = "compacted"
    /\ UNCHANGED <<stateVars, result, memory, runSaved, compactUnchanged>>

\* The controller resumes: a new segment continues from the summary, unless the
\* attempt failed, storage failed or the stop was requested meanwhile.
Compacted ==
    /\ host = "compacted"
    /\ successes' = IF op = "task" /\ result = "Completed" THEN successes + 1 ELSE successes
    /\ \/ /\ op = "compact"
          /\ host' = "settle"
          /\ UNCHANGED <<stateVars, pc, frameVars, effectVars, result, runSaved, attempts>>
       \/ /\ op = "task"
          /\ \/ (result # "Completed" \/ storageFailed) /\ Conclude(result)
             \/ result = "Completed" /\ ~storageFailed /\ stop /\ Conclude("Cancelled")
          /\ UNCHANGED <<turns, phase, completed, committed, pending, pc, frameVars, effectVars>>
       \/ /\ op = "task"
          /\ result = "Completed" /\ ~storageFailed /\ ~stop
          /\ Invoke("user")
          /\ host' = "running"
          /\ runSaved' = FALSE
          /\ UNCHANGED <<result, stop, attempts>>
    /\ UNCHANGED <<op, memory, shutdown, report, restarts, began, disk, storageFailed>>

(***************************************************************************)
(* The end of a request, of the process, and a new process.                *)
(***************************************************************************)
\* Mutant of Settle: a cancelled request obeys the run switch.
MutantSettleBySwitch ==
    /\ host = "settle"
    /\ \E ok \in BOOLEAN :
          SaveIf(op = "task" /\ ~storageFailed /\ ~runSaved /\ SaveRun, ok, TRUE)
    /\ host' = "report"
    /\ UNCHANGED <<stateVars, pc, res, message, hookError, large, running, records, effectVars,
                   hostVars>>

\* Early exits reach the durability barrier here, cancelled requests always.
Settle ==
    /\ host = "settle"
    /\ \E ok \in BOOLEAN :
          SaveIf(op = "task" /\ ~storageFailed /\ ~runSaved /\ (SaveRun \/ result = "Cancelled"),
                 ok, TRUE)
    /\ host' = "report"
    /\ UNCHANGED <<stateVars, pc, res, message, hookError, large, running, records, effectVars,
                   hostVars>>

\* Mutant of Report: the worker keeps admitting requests after a storage failure.
MutantReportGoesOn ==
    /\ host = "report"
    /\ report' = [kind |-> IF storageFailed THEN "error" ELSE "finished",
                  durable |-> ~storageFailed /\ runSaved, status |-> result]
    /\ host' = "ready"
    /\ UNCHANGED <<loopVars, op, result, memory, attempts, successes, shutdown, restarts, began,
                   disk, storageFailed, runSaved>>

Report ==
    /\ host = "report"
    /\ IF storageFailed
         THEN /\ report' = [kind |-> "error", durable |-> FALSE, status |-> result]
              /\ shutdown' = TRUE
         ELSE /\ report' = [kind |-> "finished", durable |-> runSaved, status |-> result]
              /\ UNCHANGED shutdown
    /\ host' = "ready"
    /\ UNCHANGED <<loopVars, op, result, memory, attempts, successes, restarts, began, disk,
                   storageFailed, runSaved>>

\* Cancellation by the peer, and shutdown, reach the run from other threads.
Cancel ==
    /\ host \notin {"down", "ready"}
    /\ RequestStop
    /\ UNCHANGED workerVars

Shutdown ==
    /\ host # "down"
    /\ ~shutdown
    /\ shutdown' = TRUE
    /\ stop' = TRUE
    /\ UNCHANGED <<stateVars, pc, res, message, hookError, large, running, records, effectVars,
                   host, op, result, memory, attempts, successes, report, restarts, began, disk,
                   storageFailed, runSaved>>

Leaving ==
    /\ host = "ready"
    /\ shutdown
    /\ host' = "leaving"
    /\ UNCHANGED <<loopVars, hostVars, disk, storageFailed, runSaved>>

\* Everything the process held in memory is gone.
Forget ==
    /\ Adopt(EmptySnapshot)
    /\ pc' = "idle"
    /\ res' = "None"
    /\ message' = "none"
    /\ stop' = FALSE
    /\ hookError' = FALSE
    /\ large' = FALSE
    /\ running' = {}
    /\ records' = NoResults
    /\ host' = "down"
    /\ op' = "task"
    /\ result' = "None"
    /\ storageFailed' = FALSE
    /\ runSaved' = FALSE
    /\ attempts' = 0
    /\ successes' = 0
    /\ began' = 0
    /\ shutdown' = FALSE
    /\ report' = NoReport
    /\ UNCHANGED <<effectVars, restarts>>

\* The shutdown boundary is saved unless storage already failed.
Exit ==
    /\ host = "leaving"
    /\ disk' \in IF SaveShutdown /\ ~storageFailed THEN {disk, Snapshot} ELSE {disk}
    /\ Forget

Crash ==
    /\ host # "down"
    /\ disk' = disk
    /\ Forget

\* initialize() and restore_state(): the snapshot is adopted, nothing replayed.
Restart ==
    /\ host = "down"
    /\ restarts < MaxRestarts
    /\ restarts' = restarts + 1
    /\ Adopt(disk)
    /\ began' = disk.committed
    /\ host' = "ready"
    /\ UNCHANGED <<pc, frameVars, effectVars, op, result, attempts, successes, shutdown, report,
                   disk, storageFailed, runSaved>>

(***************************************************************************)
(* The specification.                                                      *)
(***************************************************************************)
WorkerInit ==
    /\ Init
    /\ host = "ready"
    /\ op = "task"
    /\ result = "None"
    /\ memory = FALSE
    /\ disk = EmptySnapshot
    /\ storageFailed = FALSE
    /\ runSaved = FALSE
    /\ attempts = 0
    /\ successes = 0
    /\ began = 0
    /\ shutdown = FALSE
    /\ report = NoReport
    /\ restarts = 0

Compaction == CompactBegin \/ CompactAttempt \/ CompactCommit \/ ArchiveWork \/ Compacted

Controller == LoopReturned \/ Compaction \/ Settle \/ Report \/ Leaving \/ Exit

WorkerNext ==
    \/ \E m \in {"user", "none"} : AdmitTask(m)
    \/ AdmitCompact
    \/ LoopBody
    \/ LoopModel
    \/ LoopTools
    \/ \E ok \in BOOLEAN : LoopCheckpoint(ok)
    \/ Controller
    \/ Cancel
    \/ Shutdown
    \/ Crash
    \/ Restart

WorkerSpec == WorkerInit /\ [][WorkerNext]_allVars

\* The storage executor, the coroutines and the tools make progress, and a model
\* exchange ends (the endpoint has its own timeouts), cancelled or not.
WorkerFairness ==
    /\ WF_allVars(LoopBody)
    /\ WF_allVars(LoopModel)
    /\ WF_allVars(LoopTools)
    /\ WF_allVars(\E ok \in BOOLEAN : LoopCheckpoint(ok))
    /\ WF_allVars(Controller)

FairWorkerSpec == WorkerSpec /\ WorkerFairness

(***************************************************************************)
(* Properties.                                                             *)
(***************************************************************************)
SnapshotType ==
    [turns : Seq(Entry), status : RunStatuses \cup {"Idle", "Running"}, phase : Phases,
     completed : Nat, committed : Nat, pending : Partial, memory : BOOLEAN]

\* Every variable stays in its type.
WorkerTypeOK ==
    /\ TypeOK
    /\ host \in HostLocations
    /\ op \in {"task", "compact"}
    /\ result \in RunStatuses \cup {"None"}
    /\ memory \in BOOLEAN
    /\ disk \in SnapshotType
    /\ storageFailed \in BOOLEAN
    /\ runSaved \in BOOLEAN
    /\ attempts \in Nat
    /\ successes \in Nat
    /\ began \in Nat
    /\ shutdown \in BOOLEAN
    /\ report \in Reports
    /\ restarts \in Nat

\* A tool function is entered only behind a durable BeforeTools snapshot, so the
\* snapshot accounts for every effect at every instant: the step is known to it,
\* and is answered, has its result buffered, or is marked uncertain.  A process
\* started after a crash therefore never takes an executed call for a new one.
DiskAccounts ==
    \A e \in entered :
        /\ e[1] <= disk.committed
        /\ \A i \in 1..Len(disk.turns) :
              disk.turns[i].seq = e[1] =>
                  \/ e[2] \in DOMAIN disk.turns[i].rets
                  \/ /\ i = Len(disk.turns)
                     /\ disk.phase = "Tools" \/ disk.phase = "Blocked" \/ e[2] \in DOMAIN disk.pending

\* A snapshot is a state the next process accepts: nothing the worker saves can
\* lock the session out of recovery.
DiskReopens ==
    /\ disk.phase # "Model"
    /\ disk.phase = "Projection" <=> DOMAIN disk.pending # {}
    /\ ValidStructure(disk.turns, disk.phase, disk.pending)

\* "durable: true" in run_finished is a promise: the snapshot on disk is the
\* state the request ended in.
DurableReport ==
    host = "ready" /\ report.kind = "finished" /\ report.durable => disk = Snapshot

\* A request that is reported cancelled is durable as soon as its report is out,
\* also when the run switch is off.
CancelledDurable ==
    host = "ready" /\ report.kind = "finished" /\ report.status = "Cancelled" /\ op = "task" =>
        report.durable

\* The reports of a worker are true, in a state that has its shape.
ReportsHonest == WorkerTypeOK /\ DurableReport /\ CancelledDurable

\* Once storage failed no tool function runs any more: the run was cancelled
\* before the next dispatch could look at its stop token.
NoToolsAfterStorageFailure == storageFailed => pc # "tools"

\* Failure evidence is never overwritten: after the latch the snapshot is frozen
\* until a new process reads it.
EvidenceFrozen == [][storageFailed => disk' = disk]_allVars

\* The durable commit sequence never goes back, whatever is restored, compacted
\* or lost; while storage is sound, memory is never behind it.
SequenceDurable == host # "down" /\ ~storageFailed => disk.committed <= committed
SequenceMonotone == [][disk'.committed >= disk.committed]_allVars

\* A request has a budget: its compactions are counted, and none follows a segment
\* of one exchange behind an earlier one.
CompactionsBounded ==
    /\ successes <= attempts /\ attempts <= MaxAutoCompactions
    /\ host \in {"compact", "attempt", "commit"} /\ successes > 0 => completed # 1

\* With max_exchanges it cannot take more model responses than its segments and
\* summaries may.  The commit sequence and the length of the history limit nothing
\* here.
ResponsesBounded == Bounded => committed - began <= attempts * (MaxExchanges + 1) + MaxExchanges

\* Every admitted request is reported, or its process dies, and it comes there on
\* a budget: a failed attempt is not retried, and a context that stays above its
\* threshold does not alternate runs and compactions for ever (application.cpp
\* 1475-1483).
RequestSettles ==
    /\ [](CompactionsBounded /\ ResponsesBounded)
    /\ host \notin {"ready", "down"} ~> host \in {"ready", "down"}
=============================================================================
