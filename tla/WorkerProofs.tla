---------------------------- MODULE WorkerProofs ----------------------------
(***************************************************************************)
(* Proofs about Worker: what the snapshot knows about executed calls, for  *)
(* every number of calls, requests, compactions, crashes and restarts.     *)
(***************************************************************************)
EXTENDS Worker, AgentLoopProofs

(***************************************************************************)
(* The inductive invariant.  A snapshot is sound when it could be the      *)
(* conversation of an idle loop that has made all the effects there are.   *)
(* Memory and disk are both sound; what ties them together is that a batch *)
(* is dispatched only while they agree.                                    *)
(***************************************************************************)
\* The structure of a snapshot (Shape of AgentLoopProofs, at rest).
SnapShape(s) ==
    /\ s.phase # "Model"
    /\ \A i \in 1..Len(s.turns) : i < Len(s.turns) => Answered(s.turns[i])
    /\ s.phase \in {"Tools", "Blocked", "Projection"} =>
          /\ s.turns # <<>>
          /\ s.turns[Len(s.turns)].seq = s.committed
          /\ s.turns[Len(s.turns)].seq # 0
          /\ s.turns[Len(s.turns)].calls # {}
          /\ DOMAIN s.turns[Len(s.turns)].rets = {}
    /\ s.phase = "Ready" /\ s.turns # <<>> => Answered(s.turns[Len(s.turns)])
    /\ s.phase = "Projection" => DOMAIN s.pending = s.turns[Len(s.turns)].calls
    /\ s.phase # "Projection" => DOMAIN s.pending = {}

\* The snapshot covers the effects E, and what it says about them is true.
SnapLedger(s, E) ==
    /\ Ordered(s.turns, s.committed)
    /\ \A i \in 1..Len(s.turns) :
          /\ \A c \in DOMAIN s.turns[i].rets :
                s.turns[i].rets[c] = "ran" <=> <<s.turns[i].seq, c>> \in E
          /\ \A c \in Calls : <<s.turns[i].seq, c>> \in E => c \in s.turns[i].calls
    /\ \A e \in E : e[1] <= s.committed /\ e[1] # 0
    /\ \A c \in DOMAIN s.pending : s.pending[c] = "ran" <=> <<s.committed, c>> \in E

Sound(s, E) == s \in SnapshotType /\ SnapShape(s) /\ SnapLedger(s, E)

\* The host's flags, and where the loop is when the host is not running it.
HostFlags ==
    /\ memory \in BOOLEAN
    /\ host # "running" => pc = "idle"
    /\ storageFailed => (host \in {"ready", "leaving"} => shutdown)
    /\ storageFailed => (host \notin {"ready", "leaving", "down"} => stop)
    /\ host = "down" => ~storageFailed

\* A batch runs behind the snapshot that announced it.
Behind ==
    /\ pc = "dispatch" /\ ~storageFailed => disk = Snapshot
    /\ pc = "tools" => ~storageFailed /\ disk = Snapshot
    /\ host # "down" /\ ~storageFailed => disk.committed <= committed

\* A process that is down has no conversation of its own.
MemorySound == host # "down" => Ledger

WorkerInv == Control /\ MemorySound /\ replayed = {} /\ Sound(disk, entered) /\ HostFlags /\ Behind

\* The fields of a snapshot.
LEMMA SnapshotFields ==
    /\ Snapshot.turns = turns /\ Snapshot.status = status /\ Snapshot.phase = phase
    /\ Snapshot.completed = completed /\ Snapshot.committed = committed
    /\ Snapshot.pending = pending /\ Snapshot.memory = memory
  BY DEF Snapshot

\* What a sound loop saves, anywhere but around a model exchange, is sound.
LEMMA SnapshotSound ==
    ASSUME Control, Ledger, memory \in BOOLEAN, phase # "Model", pc # "committed"
    PROVE  Sound(Snapshot, entered)
  <1>0. StateType /\ Shape
    BY DEF Control, TypeOK
  <1>1. Snapshot \in SnapshotType
    BY <1>0 DEF Snapshot, SnapshotType, StateType
  <1>2. SnapShape(Snapshot)
    BY <1>0, SnapshotFields DEF SnapShape, Shape, OpenLast, Last
  <1>3. SnapLedger(Snapshot, entered)
    BY SnapshotFields DEF SnapLedger, Ledger, Honest, Current, Truthful
  <1>. QED  BY <1>1, <1>2, <1>3 DEF Sound

\* The summary that replaces a conversation is a sound snapshot.
LEMMA ReplacementSound ==
    ASSUME Control, Ledger
    PROVE  Sound(Replacement, entered) /\ Replacement.committed = committed + 1 /\ committed \in Nat
  <1>. USE NoResultsType
  <1>0. committed \in Nat /\ EffectType
    BY DEF Control, TypeOK, StateType
  <1>1. /\ Replacement.turns = <<>> /\ Replacement.phase = "Ready"
        /\ Replacement.committed = committed + 1 /\ DOMAIN Replacement.pending = {}
    BY DEF Replacement
  <1>2. Replacement \in SnapshotType
    BY <1>0 DEF Replacement, SnapshotType, RunStatuses, Phases
  <1>3. SnapShape(Replacement)
    BY <1>1 DEF SnapShape
  <1>4. \A e \in entered : e[1] <= committed + 1 /\ e[1] # 0
    BY <1>0 DEF Ledger, Current, EffectType
  <1>5. SnapLedger(Replacement, entered)
    BY <1>1, <1>4 DEF SnapLedger, Ordered
  <1>. QED  BY <1>0, <1>1, <1>2, <1>3, <1>5 DEF Sound

\* The conversation a restarted process adopts from a sound snapshot.
LEMMA AdoptSound ==
    ASSUME NEW s, Sound(s, entered), Adopt(s), Control, replayed = {}, pc = "idle",
           UNCHANGED <<pc, res, message, hookError, large, running, records, effectVars>>,
           stop' \in BOOLEAN
    PROVE  Control' /\ Ledger'
  <1>0. /\ FrameType /\ FlagType /\ EffectType /\ PhaseAt /\ Batch
        /\ turns' = s.turns /\ status' = s.status /\ phase' = s.phase /\ completed' = s.completed
        /\ committed' = s.committed /\ pending' = s.pending
    BY DEF Control, TypeOK, Adopt
  <1>1. StateType'
    BY <1>0 DEF StateType, Sound, SnapshotType
  <1>2. FrameType' /\ FlagType' /\ EffectType'
    BY <1>0 DEF FrameType, FlagType, EffectType, effectVars
  <1>3. PhaseAt'
    BY <1>0 DEF PhaseAt, Sound, SnapShape
  <1>4. Shape'
    BY <1>0, <1>1 DEF Shape, OpenLast, Last, Sound, SnapShape, StateType, Phases
  <1>5. Batch'
    BY <1>0 DEF Batch
  <1>6. Ledger'
    BY <1>0 DEF Ledger, Ordered, Honest, Current, Truthful, Sound, SnapLedger, effectVars
  <1>. QED  BY <1>1, <1>2, <1>3, <1>4, <1>5, <1>6 DEF Control, TypeOK

\* The host may set the stop and the persisted status between invocations.
LEMMA HostStep ==
    ASSUME Control,
           UNCHANGED <<turns, phase, completed, committed, pending, pc, res, message, hookError,
                       large, running, records, effectVars>>,
           stop' \in BOOLEAN, status' \in RunStatuses \cup {"Idle", "Running"}
    PROVE  Control' /\ (Ledger => Ledger')
  <1>0. StateType /\ FrameType /\ FlagType /\ EffectType /\ PhaseAt /\ Shape /\ Batch
    BY DEF Control, TypeOK
  <1>1. StateType'
    BY <1>0 DEF StateType
  <1>2. FrameType' /\ FlagType' /\ EffectType'
    BY <1>0 DEF FrameType, FlagType, EffectType, effectVars
  <1>3. PhaseAt' /\ Shape' /\ Batch'
    BY <1>0 DEF PhaseAt, Shape, Batch, OpenLast, Last
  <1>4. Ledger => Ledger'
    BY DEF Ledger, Ordered, Honest, Current, Truthful, effectVars
  <1>. QED  BY <1>1, <1>2, <1>3, <1>4 DEF Control, TypeOK

\* A first process has nothing to recover.
LEMMA InitWorker == WorkerInit => WorkerInv
  <1>. SUFFICES ASSUME WorkerInit PROVE WorkerInv
    OBVIOUS
  <1>. USE NoResultsType
  <1>1. Control /\ Ledger /\ replayed = {}
    BY InitControl, InitLedger DEF WorkerInit, Init
  <1>2. disk = Snapshot /\ memory \in BOOLEAN /\ phase = "Ready" /\ pc = "idle"
    BY DEF WorkerInit, Init, EmptySnapshot, Snapshot
  <1>3. Sound(disk, entered)
    BY <1>1, <1>2, SnapshotSound
  <1>4. HostFlags
    BY <1>2 DEF WorkerInit, HostFlags
  <1>5. Behind
    BY <1>1, <1>2, SnapshotFields DEF Behind, Control, TypeOK, StateType
  <1>. QED  BY <1>1, <1>3, <1>4, <1>5 DEF WorkerInv, MemorySound

\* What every step of loop::run gives, and what a write of the state gives.
LEMMA LoopStep ==
    ASSUME WorkerInv, host = "running", Next
    PROVE  Control' /\ Ledger' /\ replayed' = {}
  BY NextControl, NextLedger DEF WorkerInv, MemorySound, Ledger

\* A write leaves a sound snapshot, wherever the state is not in an exchange.
LEMMA WriteSound ==
    ASSUME WorkerInv, host # "down", entered' = entered, phase # "Model", pc # "committed",
           disk' \in {disk, Snapshot}
    PROVE  Sound(disk', entered')
  <1>1. Sound(Snapshot, entered)
    BY SnapshotSound DEF WorkerInv, MemorySound, HostFlags
  <1>2. Sound(disk, entered)
    BY DEF WorkerInv
  <1>. QED  BY <1>1, <1>2

\* The steps of run() that wait for nobody keep the invariant.
LEMMA BodyWorker == WorkerInv /\ LoopBody => WorkerInv'
  <1>. SUFFICES ASSUME WorkerInv, LoopBody PROVE WorkerInv'
    OBVIOUS
  <1>0. /\ host = "running" /\ Body /\ host' = host /\ memory' = memory /\ disk' = disk
        /\ storageFailed' = storageFailed /\ shutdown' = shutdown
        /\ Sound(disk, entered) /\ HostFlags /\ Behind
    BY DEF LoopBody, workerVars, hostVars, WorkerInv
  <1>1. Control' /\ Ledger' /\ replayed' = {}
    BY <1>0, LoopStep DEF Next
  <1>2. entered' = entered /\ stop' = stop /\ committed' = committed
    BY <1>0 DEF Body, Validate, Recover, Admit, Start, Input, LoopHead, Context, Committed, Dispatch,
       StepProjected, StepEdited, Decide, Finish, ResultsReturned, Project, stateVars, effectVars
  <1>3. pc' \in {"dispatch", "tools"} => pc = "dispatch" /\ pc' = "tools" /\ ~stop /\ Snapshot' = Snapshot
    BY <1>0 DEF Body, Validate, Recover, Admit, Start, Input, LoopHead, Context, Committed, Dispatch,
       StepProjected, StepEdited, Decide, Finish, ResultsReturned, Refuse, Leave, Fail, Snapshot, stateVars
  <1>4. HostFlags'
    BY <1>0, <1>2 DEF HostFlags
  <1>5. Behind'
    BY <1>0, <1>2, <1>3 DEF Behind, HostFlags
  <1>6. Sound(disk', entered')
    BY <1>0, <1>2
  <1>. QED  BY <1>0, <1>1, <1>4, <1>5, <1>6 DEF WorkerInv, MemorySound

\* A model exchange moves the commit counter ahead of the snapshot.
LEMMA ModelWorker == WorkerInv /\ LoopModel => WorkerInv'
  <1>. SUFFICES ASSUME WorkerInv, LoopModel PROVE WorkerInv'
    OBVIOUS
  <1>0. /\ host = "running" /\ Model /\ host' = host /\ memory' = memory /\ disk' = disk
        /\ storageFailed' = storageFailed /\ shutdown' = shutdown
        /\ Sound(disk, entered) /\ HostFlags /\ Behind /\ committed \in Nat /\ disk.committed \in Nat
    BY DEF LoopModel, workerVars, hostVars, WorkerInv, Control, TypeOK, StateType, Sound, SnapshotType
  <1>1. Control' /\ Ledger' /\ replayed' = {}
    BY <1>0, LoopStep DEF Next
  <1>2. /\ entered' = entered /\ stop' = stop /\ committed' \in {committed, committed + 1}
        /\ pc' \notin {"dispatch", "tools"}
    BY <1>0 DEF Model, ModelAborted, ModelFailed, ModelResponded, Leave, Fail, stateVars, effectVars
  <1>4. HostFlags'
    BY <1>0, <1>2 DEF HostFlags
  <1>5. Behind'
    BY <1>0, <1>2 DEF Behind
  <1>6. Sound(disk', entered')
    BY <1>0, <1>2
  <1>. QED  BY <1>0, <1>1, <1>4, <1>5, <1>6 DEF WorkerInv, MemorySound

\* A call is entered behind the snapshot of its batch, which covers it.
LEMMA ToolsWorker == WorkerInv /\ LoopTools => WorkerInv'
  <1>. SUFFICES ASSUME WorkerInv, LoopTools PROVE WorkerInv'
    OBVIOUS
  <1>0. /\ host = "running" /\ Tools /\ host' = host /\ memory' = memory /\ disk' = disk
        /\ storageFailed' = storageFailed /\ shutdown' = shutdown
        /\ Sound(disk, entered) /\ HostFlags /\ Behind
    BY DEF LoopTools, workerVars, hostVars, WorkerInv
  <1>1. Control' /\ Ledger' /\ replayed' = {}
    BY <1>0, LoopStep DEF Next
  <1>2. pc = "tools" /\ stop' = stop /\ committed' = committed /\ turns' = turns
    BY <1>0 DEF Tools, ToolEnter, ToolReturn, ToolReject, ToolsJoin, ToolsThrow, ResultsReturned,
       stateVars
  <1>3. pc' \in {"dispatch", "tools"} => pc' = "tools" /\ Snapshot' = Snapshot
    BY <1>0 DEF Tools, ToolEnter, ToolReturn, ToolReject, ToolsJoin, ToolsThrow, ResultsReturned,
       Fail, Snapshot, stateVars
  <1>4. HostFlags'
    BY <1>0, <1>2 DEF HostFlags
  <1>5. Behind'
    BY <1>0, <1>2, <1>3 DEF Behind
  <1>6. Sound(disk', entered')
    <2>1. disk = Snapshot /\ DOMAIN pending = {}
      BY <1>0, <1>2 DEF Behind, WorkerInv, Control, PhaseAt, Shape
    <2>2. SnapLedger(Snapshot, entered')
      BY <1>1, <1>2, <2>1, SnapshotFields DEF SnapLedger, Ledger, Ordered, Honest, Current, Truthful
    <2>. QED  BY <1>0, <2>1, <2>2 DEF Sound
  <1>. QED  BY <1>0, <1>1, <1>4, <1>5, <1>6 DEF WorkerInv, MemorySound

\* What save() may do to the snapshot and to the latch.
LEMMA SaveEffect ==
    ASSUME NEW ok \in BOOLEAN, NEW t \in BOOLEAN,
           Save(ok, t) \/ (ok /\ UNCHANGED <<disk, storageFailed, runSaved, stop>>)
    PROVE  /\ disk' = disk \/ disk' = Snapshot
           /\ storageFailed => disk' = disk /\ storageFailed'
           /\ storageFailed' => storageFailed \/ stop'
           /\ stop => stop'
  <1>1. CASE UNCHANGED <<disk, storageFailed, runSaved, stop>>
    BY <1>1
  <1>2. CASE ~storageFailed /\ disk' = Snapshot /\ UNCHANGED <<storageFailed, stop>>
    BY <1>2
  <1>3. CASE ~storageFailed /\ StorageLost(Snapshot)
    BY <1>3 DEF StorageLost
  <1>. QED  BY <1>1, <1>2, <1>3 DEF Save

\* A checkpoint writes what the loop holds, or latches and stops the run.
LEMMA CheckpointWorker == ASSUME NEW ok \in BOOLEAN, WorkerInv, LoopCheckpoint(ok) PROVE WorkerInv'
  <1>0. /\ host = "running" /\ host' = host /\ memory' = memory /\ shutdown' = shutdown
        /\ Sound(disk, entered) /\ HostFlags /\ Behind /\ committed \in Nat
    BY DEF LoopCheckpoint, hostVars, WorkerInv, Control, TypeOK, StateType
  <1>. DEFINE Quiet == ok /\ UNCHANGED <<disk, storageFailed, runSaved, stop>>
  <1>a. /\ pc \in {"ckptTools", "ckptResults", "ckptStep", "ckptRun"}
        /\ Save(ok, TRUE) \/ Save(ok, FALSE) \/ Quiet
        /\ pc = "ckptTools" => Save(ok, FALSE)
    BY DEF LoopCheckpoint, SaveIf
  <1>b. Checkpoints(ok) \/ Checkpoints(TRUE)
    BY DEF LoopCheckpoint, Checkpoints
  <1>1. \E k \in BOOLEAN : Checkpoints(k)
    BY <1>b
  <1>2. /\ UNCHANGED <<stateVars, effectVars>>
        /\ pc' = "dispatch" => pc = "ckptTools" /\ ok
        /\ pc' # "tools"
    BY DEF LoopCheckpoint, BeforeTools, ResultsReady, StepFinished, RunFinished, Fail
  <1>3. /\ disk' = disk \/ disk' = Snapshot
        /\ storageFailed => disk' = disk /\ storageFailed'
        /\ storageFailed' => storageFailed \/ stop'
        /\ stop => stop'
    BY <1>a, SaveEffect
  <1>4. Control' /\ Ledger' /\ replayed' = {}
    BY <1>0, <1>1, LoopStep DEF Next
  <1>5. Sound(disk', entered')
    <2>1. phase # "Model"
      BY <1>a DEF WorkerInv, Control, PhaseAt
    <2>. QED  BY <1>0, <1>a, <1>2, <1>3, <2>1, WriteSound DEF effectVars
  <1>6. HostFlags'
    BY <1>0, <1>3 DEF HostFlags
  <1>7. Snapshot' = Snapshot
    BY <1>0, <1>2 DEF Snapshot, stateVars
  <1>8. Behind'
    <2>1. pc' = "dispatch" /\ ~storageFailed' => disk' = Snapshot
      BY <1>2, <1>a, <1>3 DEF Save
    <2>2. ~storageFailed' => disk'.committed <= committed'
      BY <1>0, <1>2, <1>3, SnapshotFields DEF Behind, stateVars
    <2>. QED  BY <1>2, <1>7, <2>1, <2>2 DEF Behind
  <1>. QED  BY <1>0, <1>4, <1>5, <1>6, <1>8 DEF WorkerInv, MemorySound

\* A step of the host with the loop at rest that leaves the conversation alone.
LEMMA HostQuiet ==
    ASSUME WorkerInv, host # "down", host' # "down", pc = "idle",
           UNCHANGED <<turns, phase, completed, committed, pending, pc, res, message, hookError,
                       large, running, records, effectVars, memory>>,
           stop' \in BOOLEAN, status' \in RunStatuses \cup {"Idle", "Running"},
           disk' = disk \/ disk' = Snapshot, storageFailed => storageFailed', HostFlags'
    PROVE  WorkerInv'
  <1>0. Control /\ Ledger /\ replayed = {} /\ Behind /\ committed \in Nat
    BY DEF WorkerInv, MemorySound, Control, TypeOK, StateType
  <1>1. Control' /\ Ledger' /\ replayed' = {}
    BY <1>0, HostStep DEF effectVars
  <1>2. Sound(disk', entered')
    <2>1. phase # "Model" /\ disk' \in {disk, Snapshot} /\ entered' = entered
      BY <1>0 DEF Control, PhaseAt, effectVars
    <2>. QED  BY <2>1, WriteSound
  <1>3. Behind'
    BY <1>0, SnapshotFields DEF Behind
  <1>. QED  BY <1>1, <1>2, <1>3 DEF WorkerInv, MemorySound

\* An invocation admitted by the host: the loop's own step, with the host running.
LEMMA AdmittedWorker ==
    ASSUME WorkerInv, host # "down", host' = "running", NEW m \in {"user", "none"}, Invoke(m),
           UNCHANGED <<memory, disk, storageFailed>>, storageFailed => stop'
    PROVE  WorkerInv'
  <1>0. Control /\ Ledger /\ replayed = {} /\ Behind /\ HostFlags /\ Sound(disk, entered)
    BY DEF WorkerInv, MemorySound
  <1>1. Control' /\ Ledger' /\ replayed' = {}
    BY <1>0, NextControl, NextLedger DEF Next, Ledger
  <1>2. pc' = "entry" /\ entered' = entered /\ committed' = committed
    BY DEF Invoke, stateVars, effectVars
  <1>3. HostFlags' /\ Behind' /\ Sound(disk', entered')
    BY <1>0, <1>2 DEF HostFlags, Behind
  <1>. QED  BY <1>1, <1>3 DEF WorkerInv, MemorySound

\* Admission: a request is taken up only while storage is sound.
LEMMA AdmissionWorker ==
    ASSUME WorkerInv, AdmitCompact \/ \E m \in {"user", "none"} : AdmitTask(m)
    PROVE  WorkerInv'
  <1>0. HostFlags /\ Control /\ StateType
    BY DEF WorkerInv, Control, TypeOK
  <1>1. CASE AdmitCompact
    <2>1. host = "ready" /\ ~shutdown /\ stop' = FALSE /\ host' = "compact" /\ pc = "idle"
          /\ UNCHANGED <<memory, disk, storageFailed, shutdown>>
      BY <1>0, <1>1 DEF AdmitCompact, NewRequest, HostFlags
    <2>2. ~storageFailed
      BY <1>0, <2>1 DEF HostFlags
    <2>3. UNCHANGED <<turns, phase, completed, committed, pending, status, pc, res, message, hookError,
                      large, running, records, effectVars>>
      BY <1>1 DEF AdmitCompact, stateVars
    <2>4. HostFlags'
      BY <1>0, <2>1, <2>2, <2>3 DEF HostFlags
    <2>. QED  BY <1>0, <2>1, <2>2, <2>3, <2>4, HostQuiet DEF StateType
  <1>2. ASSUME NEW m \in {"user", "none"}, AdmitTask(m) PROVE WorkerInv'
    <2>1. host = "ready" /\ ~shutdown /\ host' = "running"
          /\ UNCHANGED <<memory, disk, storageFailed>>
      BY <1>2 DEF AdmitTask, NewRequest
    <2>2. ~storageFailed
      BY <1>0, <2>1 DEF HostFlags
    <2>3. Invoke("user") \/ Invoke("none")
      BY <1>2 DEF AdmitTask
    <2>. QED  BY <2>1, <2>2, <2>3, AdmittedWorker
  <1>. QED  BY <1>1, <1>2

\* The controller's verdicts and the compaction steps before the replacement.
LEMMA ControllerWorker ==
    ASSUME WorkerInv, LoopReturned \/ CompactBegin \/ CompactAttempt \/ ArchiveWork
    PROVE  WorkerInv'
  <1>0. HostFlags /\ Control /\ StateType /\ stop \in BOOLEAN
    BY DEF WorkerInv, Control, TypeOK, FlagType
  <1>1. CASE LoopReturned
    <2>1. /\ host = "running" /\ host' \in {"settle", "compact"} /\ pc = "idle"
          /\ UNCHANGED <<turns, phase, completed, committed, pending, pc, frameVars, effectVars,
                         memory, shutdown, disk, storageFailed>>
          /\ status' \in {status, "Cancelled", "Failed"}
      BY <1>1 DEF LoopReturned, Conclude, FinishController
    <2>2. HostFlags'
      BY <1>0, <2>1 DEF HostFlags, frameVars
    <2>3. status' \in RunStatuses \cup {"Idle", "Running"}
      BY <1>0, <2>1 DEF StateType, RunStatuses
    <2>. QED  BY <1>0, <2>1, <2>2, <2>3, HostQuiet DEF frameVars
  <1>2. CASE CompactBegin
    <2>1. /\ host = "compact" /\ host' \in {"compacted", "attempt"}
          /\ UNCHANGED <<stateVars, memory, pc, res, message, hookError, large, running, records,
                         effectVars, shutdown>>
      BY <1>2 DEF CompactBegin, CompactEnds, compactUnchanged
    <2>2. /\ disk' = disk \/ disk' = Snapshot
          /\ storageFailed => storageFailed'
          /\ storageFailed' => stop'
          /\ stop' \in BOOLEAN
      <3>1. CASE UNCHANGED <<disk, storageFailed, stop>>
        BY <1>0, <2>1, <3>1 DEF HostFlags
      <3>2. CASE ~stop /\ disk' = (IF Sqlite THEN Snapshot ELSE disk) /\ UNCHANGED <<storageFailed, stop>>
        BY <1>0, <2>1, <3>2 DEF HostFlags
      <3>3. CASE ~stop /\ StorageLost(IF Sqlite THEN Snapshot ELSE disk)
        BY <1>0, <3>3 DEF StorageLost
      <3>. QED  BY <1>2, <3>1, <3>2, <3>3 DEF CompactBegin
    <2>3. HostFlags'
      BY <1>0, <2>1, <2>2 DEF HostFlags
    <2>. QED  BY <1>0, <2>1, <2>2, <2>3, HostQuiet DEF StateType, stateVars, HostFlags
  <1>3. CASE CompactAttempt
    <2>1. /\ host = "attempt" /\ host' \in {"unsettled", "commit"}
          /\ UNCHANGED <<stateVars, memory, stop, disk, storageFailed, pc, res, message, hookError,
                         large, running, records, effectVars, shutdown>>
      BY <1>3 DEF CompactAttempt, CompactEnds, compactUnchanged
    <2>2. HostFlags'
      BY <1>0, <2>1 DEF HostFlags
    <2>. QED  BY <1>0, <2>1, <2>2, HostQuiet DEF StateType, stateVars, HostFlags
  <1>4. CASE ArchiveWork
    <2>1. /\ host \in {"unsettled", "cleanup"} /\ host' = "compacted"
          /\ UNCHANGED <<stateVars, memory, pc, res, message, hookError, large, running, records,
                         effectVars, shutdown>>
      BY <1>4 DEF ArchiveWork, compactUnchanged
    <2>2. disk' = disk /\ (storageFailed => storageFailed') /\ (storageFailed' => stop')
          /\ stop' \in BOOLEAN
      <3>1. CASE UNCHANGED <<disk, storageFailed, stop>>
        BY <1>0, <2>1, <3>1 DEF HostFlags
      <3>2. CASE StorageLost(disk)
        BY <3>2 DEF StorageLost
      <3>. QED  BY <1>4, <3>1, <3>2 DEF ArchiveWork
    <2>3. HostFlags'
      BY <1>0, <2>1, <2>2 DEF HostFlags
    <2>. QED  BY <1>0, <2>1, <2>2, <2>3, HostQuiet DEF StateType, stateVars, HostFlags
  <1>. QED  BY <1>1, <1>2, <1>3, <1>4

\* T2: memory follows the snapshot, or keeps the old state behind the latch.
LEMMA CommitWorker == WorkerInv /\ CompactCommit => WorkerInv'
  <1>. SUFFICES ASSUME WorkerInv, CompactCommit PROVE WorkerInv'
    OBVIOUS
  <1>0. /\ HostFlags /\ Control /\ StateType /\ stop \in BOOLEAN /\ Ledger /\ replayed = {} /\ Behind
        /\ Sound(disk, entered) /\ host = "commit" /\ pc = "idle"
    BY DEF WorkerInv, MemorySound, Control, TypeOK, FlagType, CompactCommit, HostFlags
  <1>1. /\ host' \in {"unsettled", "cleanup"}
        /\ UNCHANGED <<pc, res, message, hookError, large, running, records, effectVars, shutdown>>
    BY DEF CompactCommit, CompactEnds, compactUnchanged
  <1>2. Sound(Replacement, entered) /\ Replacement.committed = committed + 1 /\ committed \in Nat
    BY <1>0, ReplacementSound
  <1>3. CASE stop /\ UNCHANGED <<stateVars, memory, disk, storageFailed, stop>>
    <2>1. HostFlags'
      BY <1>0, <1>1, <1>3 DEF HostFlags
    <2>. QED  BY <1>0, <1>1, <1>3, <2>1, HostQuiet DEF StateType, stateVars
  <1>4. CASE ~stop /\ Adopt(Replacement) /\ disk' = Replacement /\ UNCHANGED <<storageFailed, stop>>
    <2>1. Control' /\ Ledger'
      BY <1>0, <1>1, <1>2, <1>4, AdoptSound
    <2>2. ~storageFailed /\ ~storageFailed'
      BY <1>0, <1>4 DEF HostFlags
    <2>3. memory' \in BOOLEAN /\ committed' = disk'.committed
      BY <1>4 DEF Adopt, Replacement
    <2>4. HostFlags'
      BY <1>0, <1>1, <2>2, <2>3 DEF HostFlags
    <2>5. Behind'
      BY <1>0, <1>1, <1>2, <1>4, <2>3 DEF Behind
    <2>6. Sound(disk', entered')
      BY <1>1, <1>2, <1>4 DEF effectVars
    <2>. QED  BY <1>0, <1>1, <2>1, <2>4, <2>5, <2>6 DEF WorkerInv, MemorySound, effectVars
  <1>5. CASE ~stop /\ StorageLost(Replacement) /\ UNCHANGED <<stateVars, memory>>
    <2>1. storageFailed' /\ stop' /\ stop' \in BOOLEAN /\ (disk' = disk \/ disk' = Replacement)
      BY <1>5 DEF StorageLost
    <2>2. Control' /\ Ledger'
      BY <1>0, <1>1, <1>5, <2>1, HostStep DEF stateVars, StateType
    <2>3. HostFlags'
      BY <1>0, <1>1, <1>5, <2>1 DEF HostFlags
    <2>4. Behind' /\ Sound(disk', entered')
      BY <1>0, <1>1, <1>2, <2>1 DEF Behind, effectVars
    <2>. QED  BY <1>0, <1>1, <2>2, <2>3, <2>4 DEF WorkerInv, MemorySound, effectVars
  <1>. QED  BY <1>3, <1>4, <1>5 DEF CompactCommit

\* The controller resumes or concludes after a compaction.
LEMMA CompactedWorker == WorkerInv /\ Compacted => WorkerInv'
  <1>. SUFFICES ASSUME WorkerInv, Compacted PROVE WorkerInv'
    OBVIOUS
  <1>0. /\ HostFlags /\ Control /\ StateType /\ stop \in BOOLEAN
        /\ host = "compacted" /\ pc = "idle" /\ UNCHANGED <<memory, shutdown, disk, storageFailed>>
    BY DEF WorkerInv, Control, TypeOK, FlagType, Compacted, HostFlags
  <1>1. CASE /\ UNCHANGED <<turns, phase, completed, committed, pending, pc, frameVars, effectVars>>
             /\ status' \in {status, "Cancelled", "Failed"} /\ host' = "settle"
    <2>1. HostFlags'
      BY <1>0, <1>1 DEF HostFlags, frameVars
    <2>2. status' \in RunStatuses \cup {"Idle", "Running"}
      BY <1>0, <1>1 DEF StateType, RunStatuses
    <2>. QED  BY <1>0, <1>1, <2>1, <2>2, HostQuiet DEF frameVars
  <1>2. CASE ~storageFailed /\ Invoke("user") /\ host' = "running"
    BY <1>0, <1>2, AdmittedWorker
  <1>. QED  BY <1>1, <1>2 DEF Compacted, Conclude, FinishController, stateVars

\* The end of a request, cancellation and shutdown.
LEMMA EndWorker ==
    ASSUME WorkerInv, Settle \/ Report \/ Leaving
    PROVE  WorkerInv'
  <1>0. /\ HostFlags /\ Control /\ StateType /\ stop \in BOOLEAN /\ pc = "idle"
        /\ host \in {"settle", "report", "ready"}
    BY DEF WorkerInv, Control, TypeOK, FlagType, Settle, Report, Leaving, HostFlags
  <1>1. CASE Settle
    <2>1. /\ host = "settle" /\ host' = "report"
          /\ UNCHANGED <<stateVars, memory, shutdown, pc, res, message, hookError, large, running,
                         records, effectVars>>
      BY <1>1 DEF Settle, hostVars
    <2>2. /\ disk' = disk \/ disk' = Snapshot
          /\ storageFailed => storageFailed'
          /\ storageFailed' => storageFailed \/ stop'
          /\ stop => stop'
      <3>1. PICK ok \in BOOLEAN :
               Save(ok, TRUE) \/ (ok /\ UNCHANGED <<disk, storageFailed, runSaved, stop>>)
        BY <1>1 DEF Settle, SaveIf
      <3>. QED  BY <3>1, SaveEffect
    <2>3. stop' \in BOOLEAN
      <3>1. PICK ok \in BOOLEAN :
               Save(ok, TRUE) \/ (ok /\ UNCHANGED <<disk, storageFailed, runSaved, stop>>)
        BY <1>1 DEF Settle, SaveIf
      <3>. QED  BY <1>0, <3>1 DEF Save, StorageLost
    <2>4. HostFlags'
      BY <1>0, <2>1, <2>2 DEF HostFlags
    <2>. QED  BY <1>0, <2>1, <2>2, <2>3, <2>4, HostQuiet DEF StateType, stateVars
  <1>2. CASE Report \/ Leaving
    <2>1. /\ UNCHANGED <<loopVars, memory, disk, storageFailed>>
          /\ host' \in {"ready", "leaving"}
          /\ storageFailed => shutdown'
      BY <1>0, <1>2 DEF Report, Leaving, hostVars, HostFlags
    <2>2. HostFlags'
      BY <1>0, <2>1 DEF HostFlags, loopVars, frameVars
    <2>. QED
      BY <1>0, <2>1, <2>2, HostQuiet DEF loopVars, stateVars, frameVars, effectVars, StateType
  <1>. QED  BY <1>1, <1>2

\* A stop from outside changes nothing but the stop.
LEMMA StopWorker ==
    ASSUME WorkerInv, Cancel \/ Shutdown
    PROVE  WorkerInv'
  <1>0. /\ HostFlags /\ Control /\ StateType /\ Behind /\ Ledger /\ replayed = {}
        /\ Sound(disk, entered) /\ host # "down"
    BY DEF WorkerInv, MemorySound, Control, TypeOK, Cancel, Shutdown
  <1>1. /\ UNCHANGED <<stateVars, pc, res, message, hookError, large, running, records, effectVars,
                       host, memory, disk, storageFailed>>
        /\ stop' = TRUE
        /\ shutdown => shutdown'
    BY DEF Cancel, Shutdown, RequestStop, workerVars, hostVars
  <1>2. Control' /\ Ledger'
    BY <1>0, <1>1, HostStep DEF stateVars, StateType
  <1>3. HostFlags'
    BY <1>0, <1>1 DEF HostFlags
  <1>4. Behind' /\ Sound(disk', entered')
    BY <1>0, <1>1 DEF Behind, Snapshot, stateVars, effectVars
  <1>. QED  BY <1>0, <1>1, <1>2, <1>3, <1>4 DEF WorkerInv, MemorySound, effectVars

\* The end of a process leaves a sound snapshot and an empty memory.
LEMMA DeathWorker ==
    ASSUME WorkerInv, Exit \/ Crash
    PROVE  WorkerInv'
  <1>. USE NoResultsType
  <1>0. /\ Control /\ EffectType /\ HostFlags /\ Sound(disk, entered) /\ replayed = {} /\ host # "down"
    BY DEF WorkerInv, Control, TypeOK, Exit, Crash
  <1>1. Forget
    BY DEF Exit, Crash
  <1>2. /\ turns' = <<>> /\ status' = "Idle" /\ phase' = "Ready" /\ completed' = 0
        /\ committed' = 0 /\ pending' = NoResults /\ memory' = FALSE
    BY <1>1 DEF Forget, Adopt, EmptySnapshot
  <1>3. /\ pc' = "idle" /\ res' = "None" /\ message' = "none" /\ stop' = FALSE /\ hookError' = FALSE
        /\ large' = FALSE /\ running' = {} /\ records' = NoResults /\ host' = "down"
        /\ storageFailed' = FALSE /\ UNCHANGED <<entered, replayed>>
    BY <1>1 DEF Forget, effectVars
  <1>4. StateType'
    BY <1>2 DEF StateType, RunStatuses, Phases
  <1>5. FrameType'
    BY <1>3 DEF FrameType, Outcomes, Locations
  <1>6. FlagType' /\ EffectType'
    BY <1>0, <1>3 DEF FlagType, EffectType
  <1>7. PhaseAt' /\ Shape' /\ Batch'
    BY <1>2, <1>3 DEF PhaseAt, Shape, Batch
  <1>8. HostFlags' /\ Behind'
    BY <1>2, <1>3 DEF HostFlags, Behind
  <1>9. Sound(disk', entered')
    <2>1. CASE Crash
      BY <1>0, <1>3, <2>1 DEF Crash
    <2>2. CASE Exit
      <3>1. disk' \in {disk, Snapshot} /\ phase # "Model" /\ pc # "committed"
        BY <1>0, <2>2 DEF Exit, HostFlags, Control, PhaseAt
      <3>. QED  BY <1>0, <1>3, <3>1, WriteSound
    <2>. QED  BY <2>1, <2>2
  <1>. QED
    BY <1>0, <1>3, <1>4, <1>5, <1>6, <1>7, <1>8, <1>9 DEF WorkerInv, MemorySound, Control, TypeOK

\* A new process adopts the snapshot and owes nothing it does not know of.
LEMMA RestartWorker == WorkerInv /\ Restart => WorkerInv'
  <1>. SUFFICES ASSUME WorkerInv, Restart PROVE WorkerInv'
    OBVIOUS
  <1>0. /\ Control /\ HostFlags /\ Sound(disk, entered) /\ replayed = {} /\ host = "down"
        /\ pc = "idle" /\ ~storageFailed /\ stop \in BOOLEAN
    BY DEF WorkerInv, Restart, HostFlags, Control, TypeOK, FlagType
  <1>1. /\ Adopt(disk) /\ host' = "ready" /\ UNCHANGED <<pc, frameVars, effectVars, disk, storageFailed>>
    BY DEF Restart
  <1>2. Control' /\ Ledger'
    BY <1>0, <1>1, AdoptSound DEF frameVars
  <1>3. memory' \in BOOLEAN /\ committed' = disk.committed /\ disk.committed \in Nat
    BY <1>0, <1>1 DEF Adopt, Sound, SnapshotType
  <1>4. HostFlags' /\ Behind'
    BY <1>0, <1>1, <1>3 DEF HostFlags, Behind
  <1>. QED  BY <1>0, <1>1, <1>2, <1>4 DEF WorkerInv, MemorySound, effectVars

\* Every step of the worker keeps memory and snapshot sound.
LEMMA NextWorker == WorkerInv /\ [WorkerNext]_allVars => WorkerInv'
  <1>1. WorkerInv /\ WorkerNext => WorkerInv'
    BY BodyWorker, ModelWorker, ToolsWorker, CheckpointWorker, AdmissionWorker, ControllerWorker,
       CommitWorker, CompactedWorker, EndWorker, StopWorker, DeathWorker, RestartWorker
       DEF WorkerNext, Controller, Compaction
  <1>2. WorkerInv /\ UNCHANGED allVars => WorkerInv'
    <2>. SUFFICES ASSUME WorkerInv, UNCHANGED allVars PROVE WorkerInv'
      OBVIOUS
    <2>1. Control' /\ (Ledger => Ledger') /\ replayed' = replayed
      BY HostStep DEF WorkerInv, allVars, loopVars, stateVars, frameVars, effectVars, Control, TypeOK,
         StateType, FlagType
    <2>2. HostFlags' /\ Behind' /\ Sound(disk', entered') /\ host' = host
      BY DEF WorkerInv, allVars, loopVars, stateVars, frameVars, effectVars, workerVars, hostVars,
         HostFlags, Behind, Snapshot
    <2>. QED  BY <2>1, <2>2 DEF WorkerInv, MemorySound
  <1>. QED  BY <1>1, <1>2

\* Memory and snapshot are sound at every instant.
THEOREM WorkerInvariant == WorkerSpec => []WorkerInv
  BY InitWorker, NextWorker, PTL DEF WorkerSpec

\* No committed call is executed twice, across failures, compactions and crashes.
THEOREM NeverReplayedAcrossRestarts == WorkerSpec => []NoReplay
  BY WorkerInvariant, PTL DEF WorkerInv, NoReplay

\* After a storage failure no tool function runs in this process.
THEOREM StorageFailureStopsTools == WorkerSpec => []NoToolsAfterStorageFailure
  <1>1. WorkerInv => NoToolsAfterStorageFailure
    BY DEF WorkerInv, Behind, NoToolsAfterStorageFailure
  <1>. QED  BY <1>1, WorkerInvariant, PTL

\* The snapshot knows every executed call at every instant.
THEOREM DiskAlwaysAccounts == WorkerSpec => []DiskAccounts
  <1>1. WorkerInv => DiskAccounts
    <2>. SUFFICES ASSUME WorkerInv, NEW e \in entered
                  PROVE  /\ e[1] <= disk.committed
                         /\ \A i \in 1..Len(disk.turns) :
                               disk.turns[i].seq = e[1] =>
                                 \/ e[2] \in DOMAIN disk.turns[i].rets
                                 \/ /\ i = Len(disk.turns)
                                    /\ disk.phase = "Tools" \/ disk.phase = "Blocked"
                                          \/ e[2] \in DOMAIN disk.pending
      BY DEF DiskAccounts
    <2>0. SnapShape(disk) /\ SnapLedger(disk, entered) /\ disk \in SnapshotType
          /\ e \in Nat \X Calls /\ e = <<e[1], e[2]>>
      BY DEF WorkerInv, Sound, Control, TypeOK, EffectType
    <2>1. ASSUME NEW i \in 1..Len(disk.turns), disk.turns[i].seq = e[1],
                 e[2] \notin DOMAIN disk.turns[i].rets
          PROVE  /\ i = Len(disk.turns)
                 /\ disk.phase = "Tools" \/ disk.phase = "Blocked" \/ e[2] \in DOMAIN disk.pending
      <3>1. e[2] \in disk.turns[i].calls /\ ~Answered(disk.turns[i])
        BY <2>0, <2>1 DEF SnapLedger, Answered
      <3>2. disk.turns \in Seq(Entry) /\ disk.phase \in Phases
        BY <2>0 DEF SnapshotType
      <3>3. i = Len(disk.turns) /\ disk.turns # <<>>
        BY <2>0, <3>1, <3>2 DEF SnapShape
      <3>. QED  BY <2>0, <3>1, <3>2, <3>3 DEF SnapShape, Phases
    <2>. QED  BY <2>0, <2>1 DEF SnapLedger
  <1>. QED  BY <1>1, WorkerInvariant, PTL

\* Every snapshot is a state that the recovery of the next process accepts.
THEOREM DiskAlwaysReopens == WorkerSpec => []DiskReopens
  <1>1. WorkerInv => DiskReopens
    <2>. SUFFICES ASSUME WorkerInv PROVE DiskReopens
      OBVIOUS
    <2>0. SnapShape(disk) /\ disk.turns \in Seq(Entry) /\ disk.phase \in Phases
      BY DEF WorkerInv, Sound, SnapshotType
    <2>1. disk.phase # "Model" /\ (disk.phase = "Projection" <=> DOMAIN disk.pending # {})
      BY <2>0 DEF SnapShape
    <2>2. ASSUME NEW i \in 1..Len(disk.turns), ~Answered(disk.turns[i])
          PROVE  /\ i = Len(disk.turns)
                 /\ disk.phase \in {"Tools", "Blocked", "Projection"}
                 /\ DOMAIN disk.turns[i].rets = {}
                 /\ disk.phase = "Projection" => DOMAIN disk.pending = disk.turns[i].calls
      <3>1. i = Len(disk.turns) /\ disk.turns # <<>>
        BY <2>0, <2>2 DEF SnapShape
      <3>. QED  BY <2>0, <2>2, <3>1 DEF SnapShape, Phases
    <2>. QED  BY <2>1, <2>2 DEF DiskReopens, ValidStructure
  <1>. QED  BY <1>1, WorkerInvariant, PTL

\* The snapshot changes only while storage is sound, and then to what the process
\* holds or to the summary that replaces it.
LEMMA DiskStep ==
    ASSUME WorkerInv, [WorkerNext]_allVars
    PROVE  \/ disk' = disk
           \/ /\ ~storageFailed
              /\ host # "down"
              /\ disk' = Snapshot \/ (host = "commit" /\ disk' = Replacement)
  <1>0. HostFlags
    BY DEF WorkerInv
  <1>1. CASE UNCHANGED disk
    BY <1>1
  <1>2. ASSUME NEW ok \in BOOLEAN, LoopCheckpoint(ok)
        PROVE  disk' = disk \/ (~storageFailed /\ host # "down" /\ disk' = Snapshot)
    <2>1. host = "running" /\ (Save(ok, TRUE) \/ Save(ok, FALSE)
             \/ (ok /\ UNCHANGED <<disk, storageFailed, runSaved, stop>>))
      BY <1>2 DEF LoopCheckpoint, SaveIf
    <2>. QED  BY <2>1, SaveEffect
  <1>3. CASE Settle
    <2>1. PICK ok \in BOOLEAN :
             Save(ok, TRUE) \/ (ok /\ UNCHANGED <<disk, storageFailed, runSaved, stop>>)
      BY <1>3 DEF Settle, SaveIf
    <2>. QED  BY <1>3, <2>1, SaveEffect DEF Settle
  <1>4. CASE CompactBegin
    BY <1>0, <1>4 DEF CompactBegin, StorageLost, HostFlags
  <1>5. CASE CompactCommit
    BY <1>0, <1>5 DEF CompactCommit, StorageLost, HostFlags
  <1>6. CASE ArchiveWork
    BY <1>6 DEF ArchiveWork, StorageLost
  <1>7. CASE Exit
    BY <1>7 DEF Exit
  <1>. QED
    BY <1>1, <1>2, <1>3, <1>4, <1>5, <1>6, <1>7
       DEF WorkerNext, Controller, Compaction, AdmitTask, AdmitCompact, NewRequest, LoopBody, LoopModel,
           LoopTools, LoopReturned, CompactAttempt, Compacted, Report, Leaving, Cancel, Shutdown, Crash,
           Restart, workerVars, hostVars, allVars

\* Failure evidence is never overwritten by the process that saw the failure.
THEOREM EvidenceStaysFrozen == WorkerSpec => EvidenceFrozen
  <1>1. WorkerInv /\ [WorkerNext]_allVars => [storageFailed => disk' = disk]_allVars
    BY DiskStep
  <1>. QED  BY <1>1, WorkerInvariant, PTL DEF WorkerSpec, EvidenceFrozen

\* The durable commit sequence never goes back.
THEOREM SequenceNeverBack == WorkerSpec => SequenceMonotone
  <1>1. WorkerInv /\ [WorkerNext]_allVars => [disk'.committed >= disk.committed]_allVars
    <2>. SUFFICES ASSUME WorkerInv, [WorkerNext]_allVars PROVE disk'.committed >= disk.committed
      OBVIOUS
    <2>1. disk.committed \in Nat /\ committed \in Nat /\ Behind
      BY DEF WorkerInv, Sound, SnapshotType, Control, TypeOK, StateType
    <2>2. Snapshot.committed = committed /\ Replacement.committed = committed + 1
      BY DEF Snapshot, Replacement
    <2>. QED  BY <2>1, <2>2, DiskStep DEF Behind
  <1>. QED  BY <1>1, WorkerInvariant, PTL DEF WorkerSpec, SequenceMonotone

\* A live process is never behind its own snapshot while storage is sound.
THEOREM MemoryAhead == WorkerSpec => []SequenceDurable
  <1>1. WorkerInv => SequenceDurable
    BY DEF WorkerInv, Behind, SequenceDurable
  <1>. QED  BY <1>1, WorkerInvariant, PTL

(***************************************************************************)
(* What a request may cost.  Every segment starts on what the attempts so  *)
(* far have paid for: an attempt pays for the segment that called for it   *)
(* and for its own summary.  The controller counts the attempt before the  *)
(* compaction commits, so the account holds between the two as well.       *)
(***************************************************************************)
Paid(a) == a * (MaxExchanges + 1)

Compacting == host \in {"compact", "attempt", "commit", "unsettled", "cleanup", "compacted"}
BeforeT2 == host \in {"compact", "attempt", "commit"}
Fresh == pc \in {"entry", "recover", "admit"}

Counters ==
    /\ op \in {"task", "compact"}
    /\ attempts \in Nat /\ successes \in Nat /\ began \in Nat
    /\ began <= committed
    /\ successes <= attempts /\ attempts <= MaxAutoCompactions
    /\ op = "task" /\ Compacting => successes < attempts
    /\ op = "compact" => attempts = 0 /\ successes = 0
    /\ host = "running" => op = "task"
    /\ BeforeT2 /\ successes > 0 => completed # 1

Account ==
    /\ committed - began <= Paid(attempts) + MaxExchanges
    /\ host = "running" /\ Fresh => committed - began <= Paid(attempts)
    /\ host = "running" /\ ~Fresh /\ pc # "idle" =>
          /\ completed <= MaxExchanges
          /\ committed - began <= Paid(attempts) + completed
    /\ host = "running" /\ pc \in {"context", "model"} => completed < MaxExchanges
    /\ op = "task" /\ Compacting => committed - began <= Paid(attempts)
    /\ op = "task" /\ BeforeT2 => committed - began < Paid(attempts)
    /\ op = "compact" /\ BeforeT2 => committed = began

Budget == Counters /\ (Bounded => Account)

\* One more attempt pays for one more segment and one more summary.
LEMMA PaidNext ==
    ASSUME NEW a \in Nat
    PROVE  Paid(a) \in Nat /\ Paid(0) = 0 /\ Paid(a + 1) = Paid(a) + MaxExchanges + 1
  <1>1. MaxExchanges \in Nat
    BY LoopConstants
  <1>. QED  BY <1>1, SMT DEF Paid

\* The first process has spent nothing.
LEMMA InitBudget == WorkerInit => Budget
  <1>. SUFFICES ASSUME WorkerInit PROVE Budget
    OBVIOUS
  <1>1. Paid(0) = 0
    BY PaidNext
  <1>2. Counters
    BY WorkerConstants DEF WorkerInit, Init, Counters, Compacting, BeforeT2
  <1>3. Account
    BY <1>1, LoopConstants DEF WorkerInit, Init, Account, Compacting, BeforeT2, Fresh
  <1>. QED  BY <1>2, <1>3 DEF Budget

\* The steps of loop::run count exchanges and responses together, and a response
\* is asked for only below the limit.
LEMMA LoopCounts ==
    ASSUME StateType, Body \/ Model \/ Tools \/ (\E ok \in BOOLEAN : Checkpoints(ok))
    PROVE  /\ pc # "idle"
           /\ \/ UNCHANGED <<committed, completed>>
              \/ pc = "admit" /\ pc' = "started" /\ completed' = 0 /\ committed' = committed
              \/ /\ pc = "model" /\ pc' = "committed"
                 /\ completed' = completed + 1 /\ committed' = committed + 1
           /\ Fresh' => Fresh
           /\ Fresh => Fresh' \/ pc' \in {"idle", "started"}
           /\ pc' = "started" => pc = "admit" /\ completed' = 0 /\ committed' = committed
           /\ pc' = "context" => ~LimitReached /\ completed' = completed
           /\ pc' = "model" => pc = "context" /\ completed' = completed
  <1>1. CASE Body
    BY <1>1 DEF Body, Validate, Recover, Admit, Start, Input, LoopHead, Context, Committed, Dispatch,
       StepProjected, StepEdited, Decide, Finish, ResultsReturned, Project, Refuse, Leave, Fail, Fresh,
       stateVars
  <1>2. CASE Model
    BY <1>2 DEF Model, ModelAborted, ModelFailed, ModelResponded, Leave, Fail, Fresh, stateVars
  <1>3. CASE Tools
    BY <1>3 DEF Tools, ToolEnter, ToolReturn, ToolReject, ToolsJoin, ToolsThrow, ResultsReturned,
       Fail, Fresh, stateVars
  <1>4. ASSUME NEW ok \in BOOLEAN, Checkpoints(ok)
        PROVE  /\ pc # "idle" /\ UNCHANGED <<committed, completed>> /\ ~Fresh /\ ~Fresh'
               /\ pc' \notin {"started", "context", "model"}
    BY <1>4 DEF Checkpoints, BeforeTools, ResultsReady, StepFinished, RunFinished, Fail, Fresh, stateVars
  <1>. QED  BY <1>1, <1>2, <1>3, <1>4

\* A step of the loop under the worker spends what its segment may spend.
LEMMA RunBudget ==
    ASSUME Budget, WorkerInv,
           LoopBody \/ LoopModel \/ LoopTools \/ (\E ok \in BOOLEAN : LoopCheckpoint(ok))
    PROVE  Budget'
  <1>0. /\ StateType /\ Counters /\ host = "running" /\ UNCHANGED <<host, hostVars>>
        /\ Body \/ Model \/ Tools \/ (\E ok \in BOOLEAN : Checkpoints(ok))
    BY DEF Budget, WorkerInv, Control, TypeOK, LoopBody, LoopModel, LoopTools, LoopCheckpoint,
       Checkpoints, workerVars
  <1>1. /\ pc # "idle"
        /\ \/ UNCHANGED <<committed, completed>>
           \/ pc = "admit" /\ pc' = "started" /\ completed' = 0 /\ committed' = committed
           \/ /\ pc = "model" /\ pc' = "committed"
              /\ completed' = completed + 1 /\ committed' = committed + 1
        /\ Fresh' => Fresh
        /\ Fresh => Fresh' \/ pc' \in {"idle", "started"}
        /\ pc' = "started" => pc = "admit" /\ completed' = 0 /\ committed' = committed
        /\ pc' = "context" => ~LimitReached /\ completed' = completed
        /\ pc' = "model" => pc = "context" /\ completed' = completed
    BY <1>0, LoopCounts
  <1>2. committed \in Nat /\ completed \in Nat /\ MaxExchanges \in Nat
    BY <1>0, LoopConstants DEF StateType
  <1>3. Counters'
    BY <1>0, <1>1, <1>2 DEF Counters, Compacting, BeforeT2, hostVars
  <1>4. ASSUME Bounded PROVE Account'
    <2>. DEFINE paid == Paid(attempts)
    <2>1. Paid(attempts)' = paid /\ paid \in Nat /\ began \in Nat /\ began' = began /\ op = "task" /\ op' = "task"
          /\ host' = "running"
      BY <1>0, PaidNext DEF Counters, hostVars, Paid
    <2>2. Account
      BY <1>4 DEF Budget
    <2>3. /\ committed - began <= paid + MaxExchanges
          /\ Fresh => committed - began <= paid
          /\ ~Fresh => completed <= MaxExchanges /\ committed - began <= paid + completed
          /\ pc \in {"context", "model"} => completed < MaxExchanges
      BY <1>0, <1>1, <2>2 DEF Account
    <2>. HIDE DEF paid
    <2>4. pc' = "context" => completed' < MaxExchanges
      BY <1>1, <1>2, <1>4 DEF LimitReached
    <2>5. pc' = "model" => completed' < MaxExchanges
      BY <1>1, <2>3
    <2>6. Fresh' => committed' - began' <= paid
      BY <1>1, <2>1, <2>3 DEF Fresh
    <2>7. ~Fresh' /\ pc' # "idle" => completed' <= MaxExchanges /\ committed' - began' <= paid + completed'
      BY <1>1, <1>2, <2>1, <2>3 DEF Fresh
    <2>8. committed' - began' <= paid + MaxExchanges
      BY <1>1, <1>2, <2>1, <2>3 DEF Fresh
    <2>. QED  BY <2>1, <2>4, <2>5, <2>6, <2>7, <2>8 DEF Account, Compacting, BeforeT2
  <1>. QED  BY <1>0, <1>3, <1>4 DEF Budget

\* A request starts its account.
LEMMA AdmissionBudget ==
    ASSUME Budget, WorkerInv, AdmitCompact \/ \E m \in {"user", "none"} : AdmitTask(m)
    PROVE  Budget'
  <1>0. committed \in Nat /\ MaxExchanges \in Nat /\ MaxAutoCompactions \in Nat /\ Paid(0) = 0
    BY PaidNext, LoopConstants, WorkerConstants DEF WorkerInv, Control, TypeOK, StateType
  <1>1. /\ attempts' = 0 /\ successes' = 0 /\ began' = committed /\ committed' = committed
        /\ \/ op' = "task" /\ host' = "running" /\ pc' = "entry"
           \/ op' = "compact" /\ host' = "compact"
    BY DEF AdmitCompact, AdmitTask, NewRequest, Invoke, stateVars
  <1>2. Counters'
    BY <1>0, <1>1 DEF Counters, Compacting, BeforeT2
  <1>3. Account'
    BY <1>0, <1>1 DEF Account, Compacting, BeforeT2, Fresh
  <1>. QED  BY <1>2, <1>3 DEF Budget

\* The controller: an attempt is counted only while one is left, and not behind a
\* segment of one exchange that follows a compaction.
LEMMA ReturnBudget ==
    ASSUME Budget, WorkerInv, LoopReturned
    PROVE  Budget'
  <1>0. /\ Counters /\ host = "running" /\ pc = "idle" /\ op = "task"
        /\ UNCHANGED <<committed, completed, began, op, successes, pc>>
        /\ committed \in Nat /\ completed \in Nat /\ MaxExchanges \in Nat /\ MaxAutoCompactions \in Nat
    BY LoopConstants, WorkerConstants
       DEF Budget, Counters, LoopReturned, WorkerInv, Control, TypeOK, StateType
  <1>1. \/ host' = "settle" /\ attempts' = attempts
        \/ ~TooOften /\ host' = "compact" /\ attempts' = attempts + 1
    BY DEF LoopReturned, Conclude
  <1>2. Counters'
    BY <1>0, <1>1 DEF Counters, Compacting, BeforeT2, TooOften
  <1>3. ASSUME Bounded PROVE Account'
    <2>1. committed - began <= Paid(attempts) + MaxExchanges
      BY <1>3 DEF Budget, Account
    <2>2. /\ Paid(attempts) \in Nat /\ Paid(attempts + 1) = Paid(attempts) + MaxExchanges + 1
      BY <1>0, PaidNext DEF Counters
    <2>3. Paid(attempts') = Paid(attempts) \/ Paid(attempts') = Paid(attempts + 1)
      BY <1>1
    <2>4. Paid(attempts)' = Paid(attempts')
      BY DEF Paid
    <2>5. CASE host' = "settle"
      BY <1>0, <1>1, <2>1, <2>2, <2>4, <2>5 DEF Account, Compacting, BeforeT2, Counters
    <2>6. CASE host' = "compact"
      <3>1. Paid(attempts)' = Paid(attempts) + MaxExchanges + 1
        BY <1>1, <2>2, <2>4, <2>6
      <3>. QED  BY <1>0, <2>1, <2>2, <2>6, <3>1 DEF Account, Compacting, BeforeT2, Counters
    <2>. QED  BY <1>1, <2>5, <2>6
  <1>. QED  BY <1>0, <1>2, <1>3 DEF Budget

\* A compaction spends the response of its summary, once, at its commit.
LEMMA CompactBudget ==
    ASSUME Budget, WorkerInv, CompactBegin \/ CompactAttempt \/ CompactCommit \/ ArchiveWork
    PROVE  Budget'
  <1>0. /\ Counters /\ Compacting
        /\ UNCHANGED <<op, attempts, successes, began, pc>>
        /\ committed \in Nat /\ completed \in Nat /\ MaxExchanges \in Nat \ {0}
    BY LoopConstants
       DEF Budget, Compacting, CompactBegin, CompactAttempt, CompactCommit, ArchiveWork,
           compactUnchanged, WorkerInv, Control, TypeOK, StateType
  <1>1. \/ /\ UNCHANGED <<committed, completed>>
           /\ Compacting' /\ (BeforeT2' => BeforeT2)
        \/ /\ host = "commit" /\ host' = "cleanup" /\ committed' = committed + 1
    BY DEF Compacting, BeforeT2, CompactBegin, CompactAttempt, CompactCommit, ArchiveWork, CompactEnds,
       Adopt, Replacement, stateVars
  <1>2. host \notin {"running"} /\ host' \notin {"running"} /\ Compacting'
    BY <1>0, <1>1 DEF Compacting
  <1>3. Counters'
    BY <1>0, <1>1, <1>2 DEF Counters, Compacting, BeforeT2
  <1>4. ASSUME Bounded PROVE Account'
    <2>1. Paid(attempts)' = Paid(attempts) /\ Paid(attempts) \in Nat
      BY <1>0, PaidNext DEF Paid, Counters
    <2>2. /\ committed - began <= Paid(attempts) + MaxExchanges
          /\ op = "task" => committed - began <= Paid(attempts)
          /\ op = "task" /\ BeforeT2 => committed - began < Paid(attempts)
          /\ op = "compact" /\ BeforeT2 => committed = began
      BY <1>0, <1>4 DEF Budget, Account
    <2>. DEFINE paid == Paid(attempts)
    <2>. HIDE DEF paid
    <2>3. CASE UNCHANGED <<committed, completed>> /\ (BeforeT2' => BeforeT2)
      BY <1>0, <1>2, <2>1, <2>2, <2>3 DEF Account
    <2>4. CASE host = "commit" /\ host' = "cleanup" /\ committed' = committed + 1
      <3>1. BeforeT2 /\ ~BeforeT2'
        BY <2>4 DEF BeforeT2
      <3>2. began \in Nat /\ op \in {"task", "compact"}
        BY <1>0 DEF Counters
      <3>3. committed' - began <= Paid(attempts) + MaxExchanges
            /\ (op = "task" => committed' - began <= Paid(attempts))
        BY <1>0, <2>1, <2>2, <2>4, <3>1, <3>2
      <3>. QED  BY <1>0, <1>2, <2>1, <3>1, <3>3 DEF Account
    <2>. QED  BY <1>1, <2>3, <2>4
  <1>. QED  BY <1>0, <1>3, <1>4 DEF Budget

\* The next segment starts on what the attempt paid for.
LEMMA ResumeBudget ==
    ASSUME Budget, WorkerInv, Compacted
    PROVE  Budget'
  <1>0. /\ Counters /\ Compacting /\ host = "compacted"
        /\ UNCHANGED <<committed, completed, began, op, attempts>>
        /\ committed \in Nat /\ completed \in Nat /\ MaxExchanges \in Nat
    BY LoopConstants
       DEF Budget, Compacting, Compacted, Conclude, Invoke, stateVars, WorkerInv, Control, TypeOK, StateType
  <1>1. /\ successes' = successes \/ (op = "task" /\ successes' = successes + 1)
        /\ host' = "settle" \/ (op = "task" /\ host' = "running" /\ pc' = "entry")
    BY DEF Compacted, Conclude, Invoke
  <1>2. Counters'
    BY <1>0, <1>1 DEF Counters, Compacting, BeforeT2
  <1>3. ASSUME Bounded PROVE Account'
    <2>1. Paid(attempts)' = Paid(attempts)
      BY <1>0 DEF Paid
    <2>2. /\ committed - began <= Paid(attempts) + MaxExchanges
          /\ op = "task" => committed - began <= Paid(attempts)
      BY <1>0, <1>3 DEF Budget, Account
    <2>. QED  BY <1>0, <1>1, <2>1, <2>2 DEF Account, Compacting, BeforeT2, Fresh
  <1>. QED  BY <1>0, <1>2, <1>3 DEF Budget

\* The rest of the host spends nothing; a new process starts a new account.
LEMMA OutsideBudget ==
    ASSUME Budget, WorkerInv,
           \/ Settle \/ Report \/ Leaving \/ Cancel \/ Shutdown \/ UNCHANGED allVars
           \/ Exit \/ Crash \/ Restart
    PROVE  Budget'
  <1>0. Counters /\ MaxExchanges \in Nat /\ MaxAutoCompactions \in Nat /\ Paid(0) = 0
    BY PaidNext, LoopConstants, WorkerConstants DEF Budget
  <1>1. CASE Settle \/ Report \/ Leaving \/ Cancel \/ Shutdown \/ UNCHANGED allVars
    <2>1. /\ UNCHANGED <<committed, completed, began, op, attempts, successes, pc>>
          /\ host' = host \/ host' \in {"report", "ready", "leaving"}
      BY <1>1 DEF Settle, Report, Leaving, Cancel, Shutdown, RequestStop, loopVars, stateVars, frameVars,
         allVars, workerVars, hostVars
    <2>2. Counters'
      BY <1>0, <2>1 DEF Counters, Compacting, BeforeT2
    <2>3. ASSUME Account PROVE Account'
      <3>1. Paid(attempts)' = Paid(attempts)
        BY <2>1 DEF Paid
      <3>. QED  BY <2>1, <2>3, <3>1 DEF Account, Compacting, BeforeT2, Fresh
    <2>. QED  BY <2>2, <2>3 DEF Budget
  <1>2. CASE Exit \/ Crash \/ Restart
    <2>1. /\ committed' = began' /\ committed' \in Nat /\ op' \in {"task", op}
          /\ attempts' = 0 \/ UNCHANGED <<attempts, successes, op>>
          /\ attempts' = 0 => successes' = 0 \/ UNCHANGED <<attempts, successes, op>>
          /\ host' \in {"down", "ready"}
      <3>1. CASE Exit \/ Crash
        <4>1. Forget
          BY <3>1 DEF Exit, Crash
        <4>2. EmptySnapshot.committed = 0
          BY DEF EmptySnapshot
        <4>3. committed' = 0 /\ began' = 0 /\ op' = "task" /\ attempts' = 0 /\ successes' = 0 /\ host' = "down"
          BY <4>1, <4>2 DEF Forget, Adopt
        <4>. QED  BY <4>3
      <3>2. CASE Restart
        <4>1. disk.committed \in Nat
          BY DEF WorkerInv, Sound, SnapshotType
        <4>. QED  BY <3>2, <4>1 DEF Restart, Adopt
      <3>. QED  BY <1>2, <3>1, <3>2
    <2>2. Counters'
      BY <1>0, <2>1 DEF Counters, Compacting, BeforeT2
    <2>3. Paid(attempts)' \in Nat
      <3>1. attempts' \in Nat
        BY <1>0, <2>1 DEF Counters
      <3>2. Paid(attempts') \in Nat
        BY <3>1, PaidNext
      <3>. QED  BY <3>2 DEF Paid
    <2>4. Account'
      BY <1>0, <2>1, <2>3 DEF Account, Compacting, BeforeT2
    <2>. QED  BY <2>2, <2>4 DEF Budget
  <1>. QED  BY <1>1, <1>2

\* Every step keeps the account.
LEMMA NextBudget == Budget /\ WorkerInv /\ [WorkerNext]_allVars => Budget'
  BY RunBudget, AdmissionBudget, ReturnBudget, CompactBudget, ResumeBudget, OutsideBudget
     DEF WorkerNext, Controller, Compaction

\* No request outgrows its budget: its compactions are counted, none follows at
\* once behind a context that stays too large, and the model is asked a bounded
\* number of times, whatever fails, is cancelled or is edited meanwhile.
THEOREM CompactionsAlwaysBounded == WorkerSpec => [](CompactionsBounded /\ ResponsesBounded)
  <1>1. Budget => CompactionsBounded /\ ResponsesBounded
    BY DEF Budget, Counters, Account, BeforeT2, Paid, CompactionsBounded, ResponsesBounded
  <1>. QED  BY <1>1, InitBudget, NextBudget, WorkerInvariant, PTL DEF WorkerSpec

(***************************************************************************)
(* What the worker reports.  runSaved is the promise behind "durable": it  *)
(* stands only while the snapshot is the state of the request, which no    *)
(* step of a later invocation and no verdict of the controller may change  *)
(* without taking it back.                                                 *)
(***************************************************************************)
HostTypes ==
    /\ host \in HostLocations
    /\ op \in {"task", "compact"}
    /\ result \in RunStatuses \cup {"None"}
    /\ storageFailed \in BOOLEAN
    /\ runSaved \in BOOLEAN
    /\ attempts \in Nat
    /\ successes \in Nat
    /\ shutdown \in BOOLEAN
    /\ report \in Reports
    /\ restarts \in Nat

Promise ==
    /\ runSaved /\ ~storageFailed => disk = Snapshot
    /\ host = "running" /\ pc # "idle" => ~runSaved
    /\ host = "report" /\ op = "task" /\ result = "Cancelled" /\ ~storageFailed => runSaved
    /\ host = "ready" /\ report.kind = "finished" /\ report.durable => runSaved /\ ~storageFailed
    /\ host = "down" => ~runSaved /\ report.kind = "none"

ReportInv == HostTypes /\ Promise /\ CancelledDurable

LEMMA NoReportType == NoReport \in Reports
  BY DEF NoReport, Reports

\* A first process has reported nothing.
LEMMA InitReport == WorkerInit => ReportInv
  <1>. SUFFICES ASSUME WorkerInit PROVE ReportInv
    OBVIOUS
  <1>1. HostTypes
    BY NoReportType DEF WorkerInit, HostTypes, HostLocations, RunStatuses
  <1>2. Promise /\ CancelledDurable
    BY DEF WorkerInit, Promise, CancelledDurable, NoReport
  <1>. QED  BY <1>1, <1>2 DEF ReportInv

\* The loop's own steps run before the promise is made.
LEMMA RunReport ==
    ASSUME ReportInv, LoopBody \/ LoopModel \/ LoopTools
    PROVE  ReportInv'
  <1>1. host = "running" /\ UNCHANGED workerVars
    BY DEF LoopBody, LoopModel, LoopTools
  <1>2. pc # "idle"
    <2>1. CASE Body
      BY <2>1 DEF Body, Validate, Recover, Admit, Start, Input, LoopHead, Context, Committed, Dispatch,
         StepProjected, StepEdited, Decide, Finish
    <2>2. CASE Model
      BY <2>2 DEF Model, ModelAborted, ModelFailed, ModelResponded
    <2>3. CASE Tools
      BY <2>3 DEF Tools, ToolEnter, ToolReturn, ToolReject, ToolsJoin, ToolsThrow
    <2>. QED  BY <2>1, <2>2, <2>3 DEF LoopBody, LoopModel, LoopTools
  <1>3. ~runSaved'
    BY <1>1, <1>2 DEF ReportInv, Promise, workerVars
  <1>4. HostTypes' /\ CancelledDurable'
    BY <1>1 DEF ReportInv, HostTypes, CancelledDurable, workerVars, hostVars
  <1>5. Promise'
    BY <1>1, <1>3 DEF Promise, workerVars
  <1>. QED  BY <1>4, <1>5 DEF ReportInv

\* What save() may do to the promise: it is made only by a write that committed.
LEMMA SavePromise ==
    ASSUME NEW ok \in BOOLEAN, NEW t \in BOOLEAN, HostTypes,
           Save(ok, t) \/ (ok /\ UNCHANGED <<disk, storageFailed, runSaved, stop>>)
    PROVE  /\ storageFailed' \in BOOLEAN
           /\ runSaved' \in BOOLEAN
           /\ runSaved => runSaved'
           /\ runSaved' => runSaved \/ (t /\ Save(ok, t))
           /\ runSaved' /\ ~storageFailed' => ~storageFailed /\ (disk' = Snapshot \/ (runSaved /\ disk' = disk))
           /\ Save(ok, TRUE) /\ t => storageFailed' \/ runSaved'
  <1>0. runSaved \in BOOLEAN /\ storageFailed \in BOOLEAN
    BY DEF HostTypes
  <1>1. CASE UNCHANGED <<disk, storageFailed, runSaved, stop>> /\ ~Save(ok, t)
    BY <1>0, <1>1
  <1>2. CASE Save(ok, t)
    <2>1. CASE storageFailed /\ UNCHANGED <<disk, storageFailed, runSaved, stop>>
      BY <1>0, <2>1
    <2>2. CASE ~storageFailed /\ disk' = Snapshot /\ runSaved' = (runSaved \/ t) /\ UNCHANGED storageFailed
      BY <1>0, <1>2, <2>2
    <2>3. CASE ~storageFailed /\ StorageLost(Snapshot) /\ UNCHANGED runSaved
      BY <1>0, <2>3 DEF StorageLost
    <2>. QED  BY <1>2, <2>1, <2>2, <2>3 DEF Save
  <1>. QED  BY <1>1, <1>2

\* Only the checkpoint that ends the run makes the promise, with what it wrote.
LEMMA CheckpointReport ==
    ASSUME NEW ok \in BOOLEAN, ReportInv, LoopCheckpoint(ok)
    PROVE  ReportInv'
  <1>0. HostTypes /\ host = "running" /\ UNCHANGED <<host, hostVars>> /\ ~runSaved
    BY DEF LoopCheckpoint, ReportInv, Promise
  <1>. DEFINE Quiet == ok /\ UNCHANGED <<disk, storageFailed, runSaved, stop>>
  <1>1. Snapshot' = Snapshot
    BY <1>0 DEF LoopCheckpoint, BeforeTools, ResultsReady, StepFinished, RunFinished, Fail, Snapshot,
       stateVars, hostVars
  <1>2. CASE pc = "ckptRun" /\ RunFinished(TRUE) /\ (Save(ok, TRUE) \/ Quiet)
    <2>1. pc' = "idle"
      BY <1>2 DEF RunFinished
    <2>2. /\ storageFailed' \in BOOLEAN /\ runSaved' \in BOOLEAN
          /\ runSaved' /\ ~storageFailed' => disk' = Snapshot
      BY <1>0, <1>2, SavePromise
    <2>3. HostTypes' /\ CancelledDurable'
      BY <1>0, <2>2 DEF HostTypes, CancelledDurable, hostVars
    <2>4. Promise'
      BY <1>0, <1>1, <2>1, <2>2 DEF Promise
    <2>. QED  BY <2>3, <2>4 DEF ReportInv
  <1>3. CASE Save(ok, FALSE) \/ Quiet
    <2>1. storageFailed' \in BOOLEAN /\ runSaved' \in BOOLEAN /\ ~runSaved'
      BY <1>0, <1>3, SavePromise
    <2>2. HostTypes' /\ CancelledDurable'
      BY <1>0, <2>1 DEF HostTypes, CancelledDurable, hostVars
    <2>3. Promise'
      BY <1>0, <2>1 DEF Promise
    <2>. QED  BY <2>2, <2>3 DEF ReportInv
  <1>. QED  BY <1>2, <1>3 DEF LoopCheckpoint, SaveIf

\* A new request starts without a promise and without a report.
LEMMA AdmissionReport ==
    ASSUME ReportInv, AdmitCompact \/ \E m \in {"user", "none"} : AdmitTask(m)
    PROVE  ReportInv'
  <1>1. PICK o \in {"task", "compact"} : NewRequest(o) /\ host' \in {"running", "compact"}
    BY DEF AdmitCompact, AdmitTask
  <1>2. /\ op' = o /\ result' = "None" /\ runSaved' = FALSE /\ attempts' = 0 /\ successes' = 0
        /\ report' = NoReport /\ UNCHANGED <<storageFailed, shutdown, restarts>>
    BY <1>1 DEF NewRequest
  <1>3. HostTypes'
    BY <1>1, <1>2, NoReportType DEF ReportInv, HostTypes, HostLocations
  <1>4. Promise' /\ CancelledDurable'
    BY <1>1, <1>2 DEF Promise, CancelledDurable
  <1>. QED  BY <1>3, <1>4 DEF ReportInv

\* The controller's verdict changes the state only by taking the promise back.
LEMMA VerdictReport ==
    ASSUME ReportInv, WorkerInv, LoopReturned \/ Compacted
    PROVE  ReportInv'
  <1>0. /\ HostTypes /\ Promise /\ host \in {"running", "compacted"} /\ res \in Outcomes
        /\ UNCHANGED <<op, memory, shutdown, report, restarts, disk, storageFailed>>
    BY DEF ReportInv, LoopReturned, Compacted, WorkerInv, Control, TypeOK, FrameType
  <1>1. /\ host' \in {"settle", "compact", "running"}
        /\ result' \in RunStatuses \cup {"None"}
        /\ attempts' \in Nat /\ successes' \in Nat
    <2>1. CASE LoopReturned
      BY <1>0, <2>1 DEF LoopReturned, Conclude, HostTypes, RunStatuses
    <2>2. CASE Compacted
      BY <1>0, <2>2 DEF Compacted, Conclude, HostTypes, RunStatuses
    <2>. QED  BY <2>1, <2>2
  <1>2. \/ ~runSaved'
        \/ /\ runSaved' = runSaved /\ Snapshot' = Snapshot
           /\ host' \in {"settle", "compact"}
    BY <1>0 DEF LoopReturned, Compacted, Conclude, FinishController, Snapshot, stateVars
  <1>3. runSaved' \in BOOLEAN
    BY <1>0 DEF LoopReturned, Compacted, Conclude, FinishController, HostTypes
  <1>4. HostTypes' /\ CancelledDurable'
    BY <1>0, <1>1, <1>3 DEF HostTypes, CancelledDurable, HostLocations
  <1>5. Promise'
    BY <1>0, <1>1, <1>2 DEF Promise
  <1>. QED  BY <1>4, <1>5 DEF ReportInv

\* Compaction keeps the state the promise is about, or replaces both.
LEMMA CompactReport ==
    ASSUME ReportInv, WorkerInv, CompactBegin \/ CompactAttempt \/ CompactCommit \/ ArchiveWork
    PROVE  ReportInv'
  <1>0. /\ HostTypes /\ Promise /\ HostFlags
        /\ host \in {"compact", "attempt", "commit", "unsettled", "cleanup"}
        /\ UNCHANGED <<pc, op, attempts, successes, shutdown, report, restarts>>
    BY DEF ReportInv, WorkerInv, CompactBegin, CompactAttempt, CompactCommit, ArchiveWork,
       compactUnchanged
  <1>1. /\ host' \in {"compacted", "attempt", "unsettled", "commit", "cleanup"}
        /\ result' \in RunStatuses \cup {"None"}
    BY <1>0 DEF CompactBegin, CompactAttempt, CompactCommit, ArchiveWork, CompactEnds, HostTypes,
       RunStatuses
  <1>2. /\ storageFailed' \in BOOLEAN /\ runSaved' \in BOOLEAN
        /\ runSaved' /\ ~storageFailed' => disk' = Snapshot'
    <2>1. CASE CompactBegin \/ CompactAttempt \/ ArchiveWork
      <3>1. Snapshot' = Snapshot /\ runSaved' = runSaved
        BY <2>1 DEF CompactBegin, CompactAttempt, ArchiveWork, Snapshot, stateVars
      <3>2. storageFailed' = TRUE \/ (storageFailed' = storageFailed /\ disk' \in {disk, Snapshot})
        BY <2>1 DEF CompactBegin, CompactAttempt, ArchiveWork, StorageLost
      <3>. QED  BY <1>0, <3>1, <3>2 DEF HostTypes, Promise
    <2>2. CASE CompactCommit
      <3>1. CASE storageFailed' = TRUE /\ runSaved' = runSaved
        BY <1>0, <3>1 DEF HostTypes
      <3>2. CASE UNCHANGED <<stateVars, memory, disk, storageFailed, runSaved>>
        BY <1>0, <3>2 DEF HostTypes, Promise, Snapshot, stateVars
      <3>3. CASE Adopt(Replacement) /\ disk' = Replacement /\ runSaved' = TRUE /\ UNCHANGED storageFailed
        <4>1. Snapshot' = Replacement
          BY <3>3 DEF Adopt, Snapshot, Replacement
        <4>. QED  BY <1>0, <3>3, <4>1 DEF HostTypes
      <3>. QED  BY <2>2, <3>1, <3>2, <3>3 DEF CompactCommit, StorageLost
    <2>. QED  BY <2>1, <2>2
  <1>3. HostTypes' /\ CancelledDurable'
    BY <1>0, <1>1, <1>2 DEF HostTypes, CancelledDurable, HostLocations
  <1>4. Promise'
    BY <1>0, <1>1, <1>2 DEF Promise
  <1>. QED  BY <1>3, <1>4 DEF ReportInv

\* A cancelled request passes the durability barrier, or storage has failed.
LEMMA SettleReport == ReportInv /\ Settle => ReportInv'
  <1>. SUFFICES ASSUME ReportInv, Settle PROVE ReportInv'
    OBVIOUS
  <1>0. /\ HostTypes /\ Promise /\ host = "settle" /\ host' = "report" /\ UNCHANGED hostVars
    BY DEF ReportInv, Settle
  <1>1. Snapshot' = Snapshot
    BY DEF Settle, Snapshot, stateVars, hostVars
  <1>. DEFINE due == op = "task" /\ ~storageFailed /\ ~runSaved /\ (SaveRun \/ result = "Cancelled")
  <1>2. PICK ok \in BOOLEAN : SaveIf(due, ok, TRUE)
    BY DEF Settle
  <1>3. Save(ok, TRUE) \/ (ok /\ UNCHANGED <<disk, storageFailed, runSaved, stop>>)
    BY <1>2 DEF SaveIf
  <1>4. /\ storageFailed' \in BOOLEAN /\ runSaved' \in BOOLEAN
        /\ runSaved => runSaved'
        /\ runSaved' /\ ~storageFailed' => ~storageFailed /\ (disk' = Snapshot \/ (runSaved /\ disk' = disk))
        /\ Save(ok, TRUE) => storageFailed' \/ runSaved'
    BY <1>0, <1>3, SavePromise
  <1>5. op = "task" /\ result = "Cancelled" /\ ~storageFailed' => runSaved'
    <2>1. CASE due
      BY <1>2, <1>4, <2>1 DEF SaveIf
    <2>2. CASE ~due
      <3>1. UNCHANGED <<storageFailed, runSaved>>
        BY <1>2, <2>2 DEF SaveIf
      <3>. QED  BY <2>2, <3>1
    <2>. QED  BY <2>1, <2>2
  <1>6. HostTypes' /\ CancelledDurable'
    BY <1>0, <1>4 DEF HostTypes, CancelledDurable, hostVars, HostLocations
  <1>7. Promise'
    BY <1>0, <1>1, <1>4, <1>5 DEF Promise, hostVars
  <1>. QED  BY <1>6, <1>7 DEF ReportInv

\* The terminal event says what the promise says.
LEMMA TerminalReport == ReportInv /\ Report => ReportInv'
  <1>. SUFFICES ASSUME ReportInv, Report PROVE ReportInv'
    OBVIOUS
  <1>0. /\ HostTypes /\ Promise /\ host = "report" /\ host' = "ready" /\ Snapshot' = Snapshot
        /\ UNCHANGED <<pc, op, result, attempts, successes, restarts, disk, storageFailed, runSaved>>
    BY DEF ReportInv, Report, loopVars, stateVars, frameVars, Snapshot
  <1>1. CASE storageFailed
    <2>1. report' = [kind |-> "error", durable |-> FALSE, status |-> result] /\ shutdown' = TRUE
      BY <1>1 DEF Report
    <2>2. report' \in Reports /\ report'.kind = "error"
      BY <1>0, <2>1 DEF HostTypes, Reports
    <2>3. HostTypes'
      BY <1>0, <2>1, <2>2 DEF HostTypes, HostLocations
    <2>4. Promise' /\ CancelledDurable'
      BY <1>0, <1>1, <2>2 DEF Promise, CancelledDurable
    <2>. QED  BY <2>3, <2>4 DEF ReportInv
  <1>2. CASE ~storageFailed
    <2>1. /\ report' = [kind |-> "finished", durable |-> runSaved, status |-> result]
          /\ shutdown' = shutdown
      BY <1>2 DEF Report
    <2>2. /\ report' \in Reports /\ report'.durable = runSaved /\ report'.status = result
      BY <1>0, <2>1 DEF HostTypes, Reports
    <2>3. HostTypes'
      BY <1>0, <2>1, <2>2 DEF HostTypes, HostLocations
    <2>4. Promise' /\ CancelledDurable'
      BY <1>0, <1>2, <2>2 DEF Promise, CancelledDurable
    <2>. QED  BY <2>3, <2>4 DEF ReportInv
  <1>. QED  BY <1>1, <1>2

\* Stops, the way out and a new process leave no promise that is not kept.
LEMMA OutsideReport ==
    ASSUME ReportInv, Cancel \/ Shutdown \/ Leaving \/ Exit \/ Crash \/ Restart \/ UNCHANGED allVars
    PROVE  ReportInv'
  <1>. USE NoReportType
  <1>0. HostTypes /\ Promise /\ CancelledDurable
    BY DEF ReportInv
  <1>1. CASE Cancel \/ Shutdown \/ UNCHANGED allVars
    <2>1. /\ UNCHANGED <<host, op, result, attempts, successes, report, restarts, disk, storageFailed,
                         runSaved, pc>>
          /\ Snapshot' = Snapshot
          /\ shutdown' \in {TRUE, shutdown}
      BY <1>1 DEF Cancel, Shutdown, RequestStop, workerVars, hostVars, stateVars, Snapshot, allVars,
         loopVars, frameVars
    <2>2. HostTypes'
      BY <1>0, <2>1 DEF HostTypes
    <2>3. Promise' /\ CancelledDurable'
      BY <1>0, <2>1 DEF Promise, CancelledDurable
    <2>. QED  BY <2>2, <2>3 DEF ReportInv
  <1>2. CASE Leaving
    <2>1. HostTypes'
      BY <1>0, <1>2 DEF Leaving, HostTypes, hostVars, HostLocations
    <2>2. Promise' /\ CancelledDurable'
      BY <1>0, <1>2 DEF Leaving, Promise, CancelledDurable, loopVars, stateVars, frameVars, hostVars,
         Snapshot
    <2>. QED  BY <2>1, <2>2 DEF ReportInv
  <1>3. CASE Exit \/ Crash
    <2>1. /\ host' = "down" /\ op' = "task" /\ result' = "None" /\ storageFailed' = FALSE
          /\ runSaved' = FALSE /\ attempts' = 0 /\ successes' = 0 /\ shutdown' = FALSE
          /\ report' = NoReport /\ restarts' = restarts
      BY <1>3 DEF Exit, Crash, Forget
    <2>2. HostTypes'
      BY <1>0, <2>1 DEF HostTypes, HostLocations
    <2>3. Promise' /\ CancelledDurable'
      BY <2>1 DEF Promise, CancelledDurable, NoReport
    <2>. QED  BY <2>2, <2>3 DEF ReportInv
  <1>4. CASE Restart
    <2>1. HostTypes'
      BY <1>0, <1>4 DEF Restart, HostTypes, HostLocations
    <2>2. ~runSaved /\ report.kind = "none"
      BY <1>0, <1>4 DEF Restart, Promise
    <2>3. Promise' /\ CancelledDurable'
      BY <1>4, <2>2 DEF Restart, Promise, CancelledDurable
    <2>. QED  BY <2>1, <2>3 DEF ReportInv
  <1>. QED  BY <1>1, <1>2, <1>3, <1>4

\* Every step keeps the promise.
LEMMA NextReport == ReportInv /\ WorkerInv /\ [WorkerNext]_allVars => ReportInv'
  BY RunReport, CheckpointReport, AdmissionReport, VerdictReport, CompactReport, SettleReport,
     TerminalReport, OutsideReport
     DEF WorkerNext, Controller, Compaction

\* "durable: true" is never said of a state that is not on disk, and never withheld
\* from a cancelled request: across compactions, late failures and restarts.
THEOREM ReportsAlwaysHonest == WorkerSpec => []ReportsHonest
  <1>1. WorkerInv /\ ReportInv /\ Budget => ReportsHonest
    <2>. SUFFICES ASSUME WorkerInv, ReportInv, Budget PROVE ReportsHonest
      OBVIOUS
    <2>1. WorkerTypeOK
      BY DEF WorkerInv, ReportInv, HostTypes, HostFlags, Control, Sound, Budget, Counters, WorkerTypeOK
    <2>2. DurableReport /\ CancelledDurable
      BY DEF ReportInv, Promise, DurableReport
    <2>. QED  BY <2>1, <2>2 DEF ReportsHonest
  <1>. QED  BY <1>1, InitReport, NextReport, InitBudget, NextBudget, WorkerInvariant, PTL DEF WorkerSpec
=============================================================================
