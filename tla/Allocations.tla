---------------------------- MODULE Allocations -----------------------------
(***************************************************************************)
(* The manager service (src/manager/src/service.cpp): one process per      *)
(* request prepares, forks, refreshes, captures, inspects and removes the  *)
(* directory of a worker.  Ownership lives in a control record beside the  *)
(* directory, so it survives the directory; every publication of it is one *)
(* atomic file replacement.  Requests run concurrently under two kinds of  *)
(* nonblocking flock: the directory tree above the allocation              *)
(* (directory_tree_lock.cpp), and the allocation's lease, which a running  *)
(* worker holds shared.  A manager process may die between any two steps;  *)
(* a lost reply is a request made again.                                   *)
(*                                                                         *)
(* An effective configuration is the refresh section it was made from.     *)
(* Malformed requests, links and YAML are left out.                        *)
(***************************************************************************)
EXTENDS Integers, FiniteSets

CONSTANTS
    Managers,       \* manager processes that run at a time
    Allocs,         \* allocation directories
    NoAlloc,
    Layouts,        \* where they lie: [Allocs -> the allocation around it, or NoAlloc]
    HubRequests,    \* the requests Hub makes
    Incarnations,   \* worker lifecycles, each of one start
    MaxAllocRevision, MaxManagerDeaths   \* bounds

VARIABLES
    mgWithin,       \* the layout, fixed
    mgRecord,       \* [Allocs -> control record]
    mgRoot,         \* the directories that exist
    mgRef,          \* [Allocs -> BOOLEAN], the config file refers to the record
    mgTree,         \* tree locks: set of [who, at, mode]
    mgLease,        \* allocation locks: set of [who, at, mode]
    mgJob,          \* [Managers -> what the process does]
    mgWorker,       \* [Allocs -> lifecycle of the running worker, or NoLife]
    mgDeaths,
    mgUsed,         \* lifecycles drawn
    mgCaptured      \* history: the captures, as <<directory, startup section>>

mgVars == <<mgWithin, mgRecord, mgRoot, mgRef, mgTree, mgLease, mgJob, mgWorker, mgDeaths, mgUsed, mgCaptured>>

NoLife == "no lifecycle"
NoConfig == "no configuration"
Top == "parent directory"       \* the directory every outer allocation lies in
Parent(d) == IF mgWithin[d] = NoAlloc THEN Top ELSE mgWithin[d]
Inner(d) == {x \in Allocs : mgWithin[x] = d}

NoStartup == [life |-> NoLife, revision |-> 0, config |-> NoConfig]
NoSource == [dir |-> NoAlloc, life |-> NoLife, revision |-> 0]
NoRecord == [status |-> "absent", revision |-> 0, config |-> NoConfig, refresh |-> NoConfig,
             startup |-> NoStartup, source |-> NoSource]
\* A request: its operation and directory, and the fields the operation reads.
NoJob == [pc |-> "free", op |-> "none", dir |-> NoAlloc, refresh |-> NoConfig, expected |-> 0,
          life |-> NoLife, source |-> NoSource]

\* What the requests are: the parts of a name are checked when the request is
\* parsed (service.cpp identifier()).  Allocations nest at most once.
IsSource(s) ==
    /\ s = [dir |-> s.dir, life |-> s.life, revision |-> s.revision]
    /\ s.dir \in Allocs /\ s.life # NoLife /\ s.revision \in Nat
IsRequest(j) ==
    /\ j = [pc |-> "free", op |-> j.op, dir |-> j.dir, refresh |-> j.refresh,
            expected |-> j.expected, life |-> j.life, source |-> j.source]
    /\ j.op \in {"prepare", "clean_fork", "remove", "capture_startup", "inspect"}
    /\ j.dir \in Allocs /\ j.expected \in Nat
    /\ IF j.op = "clean_fork" THEN IsSource(j.source) ELSE j.source = NoSource
ASSUME MgConstants ==
    /\ NoAlloc \notin Allocs /\ Top \notin Allocs
    /\ Layouts \subseteq [Allocs -> Allocs \cup {NoAlloc}]
    /\ \A w \in Layouts, d \in Allocs : w[d] # NoAlloc => w[w[d]] = NoAlloc
    /\ \A j \in HubRequests : IsRequest(j)
    /\ Managers \cap Incarnations = {} /\ NoLife \notin Incarnations

MgInit ==
    /\ mgWithin \in Layouts
    /\ mgRecord = [d \in Allocs |-> NoRecord]
    /\ mgRoot = {} /\ mgRef = [d \in Allocs |-> FALSE]
    /\ mgTree = {} /\ mgLease = {}
    /\ mgJob = [m \in Managers |-> NoJob]
    /\ mgWorker = [d \in Allocs |-> NoLife]
    /\ mgDeaths = 0 /\ mgUsed = {} /\ mgCaptured = {}

\* effective(): what a worker would be configured with.
Effective(r) == r.refresh

(***************************************************************************)
(* Locks.                                                                  *)
(***************************************************************************)
Grants(locks, at, mode) ==
    \A l \in locks : l.at = at => mode = "shared" /\ l.mode = "shared"

\* DirectoryTreeLock(root.parent_path()): the ancestors shared, the deepest
\* directory that exists exclusive.
TreeChain(m, d) ==
    IF Parent(d) = Top THEN {[who |-> m, at |-> Top, mode |-> "exclusive"]}
    ELSE IF Parent(d) \in mgRoot
    THEN {[who |-> m, at |-> Top, mode |-> "shared"], [who |-> m, at |-> Parent(d), mode |-> "exclusive"]}
    ELSE {[who |-> m, at |-> Top, mode |-> "exclusive"]}

\* paths(): an allocation never lies inside another that has a record.
Nested(d) == mgWithin[d] # NoAlloc /\ mgRecord[mgWithin[d]] # NoRecord

Mutation(op) == op \in {"prepare", "clean_fork", "remove", "capture_startup"}
Preparing(op) == op \in {"prepare", "clean_fork"}

Unlocked(locks, m) == {l \in locks : l.who # m}
\* The process ends, with a reply or an error: its locks go with it.
Done(m) ==
    /\ mgJob' = [mgJob EXCEPT ![m] = NoJob]
    /\ mgTree' = Unlocked(mgTree, m) /\ mgLease' = Unlocked(mgLease, m)
JobAt(m, pc) == mgJob[m].pc = pc
Proceed(m, pc) == mgJob' = [mgJob EXCEPT ![m].pc = pc]

outside == <<mgWithin, mgWorker, mgDeaths, mgUsed, mgCaptured>>

(***************************************************************************)
(* One request.                                                            *)
(***************************************************************************)
Request(m, job) ==
    /\ JobAt(m, "free")
    /\ mgJob' = [mgJob EXCEPT ![m] = [job EXCEPT !.pc = IF Mutation(job.op) THEN "tree" ELSE "lease"]]
    /\ ~Nested(job.dir)             \* the advisory look before any lock
    /\ UNCHANGED <<mgRecord, mgRoot, mgRef, mgTree, mgLease, outside>>

\* The ancestry is looked at again under the tree lock.
\* Mutant of Fenced: it is not.
MutantFenced(d) == TRUE
Fenced(d) == ~Nested(d)

TakeTree(m) ==
    LET d == mgJob[m].dir IN
    /\ JobAt(m, "tree")
    /\ IF (\A l \in TreeChain(m, d) : Grants(mgTree, l.at, l.mode)) /\ Fenced(d)
       THEN /\ mgTree' = mgTree \cup TreeChain(m, d)
            /\ Proceed(m, "lease") /\ UNCHANGED mgLease
       ELSE Done(m)
    /\ UNCHANGED <<mgRecord, mgRoot, mgRef, outside>>

\* Mutant of LeaseMode: a removal takes its lease like a reader.
MutantLeaseMode(op) == IF op \in {"prepare", "clean_fork", "capture_startup"} THEN "exclusive" ELSE "shared"
LeaseMode(op) == IF Mutation(op) THEN "exclusive" ELSE "shared"

\* The metadata directory beside the allocation is created with its parents; then
\* the lease, and a removal also takes the worker's own session lock.
TakeLease(m) ==
    LET j == mgJob[m]
        known == mgRecord[j.dir] # NoRecord
    IN
    /\ JobAt(m, "lease")
    /\ IF (known \/ Preparing(j.op)) /\ Grants(mgLease, j.dir, LeaseMode(j.op))
       THEN /\ mgLease' = mgLease \cup {[who |-> m, at |-> j.dir, mode |-> LeaseMode(j.op)]}
            /\ mgRoot' = IF mgWithin[j.dir] = NoAlloc THEN mgRoot ELSE mgRoot \cup {mgWithin[j.dir]}
            /\ Proceed(m, j.op) /\ UNCHANGED mgTree
       ELSE Done(m) /\ UNCHANGED mgRoot
    /\ UNCHANGED <<mgRecord, mgRef, outside>>

PublishRecord(d, r) == mgRecord' = [mgRecord EXCEPT ![d] = r]

\* clean_fork(): a new record takes the configuration the parent's worker started
\* with, if the lifecycle and revision are still the captured ones; a retry keeps
\* what the first attempt committed.
SourceReady(m, s) ==
    /\ mgRecord[s.dir].status = "ready" /\ mgRef[s.dir]
    /\ Grants(Unlocked(mgLease, m), s.dir, "shared")
    /\ mgRecord[s.dir].startup.life = s.life /\ mgRecord[s.dir].startup.revision = s.revision

\* Mutant of ForkConfiguration: the parent's present configuration is copied.
MutantForkConfiguration(s) == Effective(mgRecord[s.dir])
ForkConfiguration(s) == mgRecord[s.dir].startup.config

\* The first publication of prepare and clean_fork: the claim, before anything is made.
Claim(m) ==
    LET j == mgJob[m]
        config == IF j.op = "clean_fork" THEN ForkConfiguration(j.source) ELSE j.refresh
    IN
    /\ Preparing(mgJob[m].pc) /\ mgRecord[j.dir] = NoRecord
    /\ IF j.dir \notin mgRoot /\ (j.op = "clean_fork" => SourceReady(m, j.source))
       THEN /\ PublishRecord(j.dir, [NoRecord EXCEPT !.status = "preparing", !.revision = 1, !.config = config,
                                                     !.refresh = config, !.source = j.source])
            /\ UNCHANGED <<mgJob, mgTree, mgLease>>
       ELSE Done(m) /\ UNCHANGED mgRecord
    /\ UNCHANGED <<mgRoot, mgRef, outside>>

\* Mutant of Retired: a removal that was interrupted may be prepared again.
MutantRetired(r) == r.status = "removed"
Retired(r) == r.status \in {"removing", "removed"}

\* A record that exists: a retired one, or a fork of something else, refuses.
Resume(m) ==
    LET j == mgJob[m]
        r == mgRecord[j.dir]
    IN
    /\ Preparing(mgJob[m].pc) /\ r # NoRecord
    /\ IF Retired(r) \/ (j.op = "clean_fork" /\ r.source # j.source)
       THEN Done(m)
       ELSE Proceed(m, IF r.status = "ready" THEN "refresh" ELSE "create") /\ UNCHANGED <<mgTree, mgLease>>
    /\ UNCHANGED <<mgRecord, mgRoot, mgRef, outside>>

\* Mutant of CreateDirectories: the record is published ready first.
MutantCreateDirectories(m) ==
    /\ JobAt(m, "create")
    /\ PublishRecord(mgJob[m].dir, [mgRecord[mgJob[m].dir] EXCEPT !.status = "ready"])
    /\ Proceed(m, "refresh") /\ UNCHANGED <<mgRoot, mgRef, mgTree, mgLease, outside>>
CreateDirectories(m) ==
    /\ JobAt(m, "create")
    /\ mgRoot' = mgRoot \cup {mgJob[m].dir}
    /\ Proceed(m, "reference") /\ UNCHANGED <<mgRecord, mgRef, mgTree, mgLease, outside>>

WriteReference(m) ==
    /\ JobAt(m, "reference")
    /\ mgRef' = [mgRef EXCEPT ![mgJob[m].dir] = TRUE]
    /\ Proceed(m, "ready") /\ UNCHANGED <<mgRecord, mgRoot, mgTree, mgLease, outside>>

PublishReady(m) ==
    LET d == mgJob[m].dir IN
    /\ JobAt(m, "ready")
    /\ PublishRecord(d, [mgRecord[d] EXCEPT !.status = "ready"])
    /\ Proceed(m, "refresh") /\ UNCHANGED <<mgRoot, mgRef, mgTree, mgLease, outside>>

\* A different refresh section needs the revision it was meant for.
ApplyRefresh(m) ==
    LET j == mgJob[m]
        r == mgRecord[j.dir]
    IN
    /\ JobAt(m, "refresh")
    /\ IF /\ r.status = "ready" /\ mgRef[j.dir] /\ j.op = "prepare"
          /\ j.refresh # r.refresh /\ j.expected = r.revision /\ r.revision < MaxAllocRevision
       THEN PublishRecord(j.dir, [r EXCEPT !.refresh = j.refresh, !.revision = @ + 1])
       ELSE UNCHANGED mgRecord
    /\ Done(m) /\ UNCHANGED <<mgRoot, mgRef, outside>>

\* capture_startup(): a lifecycle keeps the configuration it was captured with.
CaptureStartup(m) ==
    LET j == mgJob[m]
        r == mgRecord[j.dir]
        startup == [life |-> j.life, revision |-> r.revision, config |-> Effective(r)]
    IN
    /\ JobAt(m, "capture_startup")
    /\ IF /\ r.status = "ready" /\ mgRef[j.dir] /\ j.expected = r.revision
          /\ r.startup.life = j.life => r.startup = startup
       THEN /\ PublishRecord(j.dir, [r EXCEPT !.startup = startup])
            /\ mgCaptured' = mgCaptured \cup {<<j.dir, startup>>}
       ELSE UNCHANGED <<mgRecord, mgCaptured>>
    /\ Done(m) /\ UNCHANGED <<mgRoot, mgRef, mgWorker, mgDeaths, mgUsed, mgWithin>>

\* remove(): the tombstone is announced, the directory goes, the tombstone stays.
BeginRemoval(m) ==
    LET d == mgJob[m].dir
        r == mgRecord[d]
    IN
    /\ JobAt(m, "remove")
    /\ IF r.status = "removed" \/ (r.status = "ready" /\ ~mgRef[d])
       THEN Done(m) /\ UNCHANGED mgRecord
       ELSE /\ PublishRecord(d, [r EXCEPT !.status = "removing"])
            /\ Proceed(m, "delete") /\ UNCHANGED <<mgTree, mgLease>>
    /\ UNCHANGED <<mgRoot, mgRef, outside>>

DeleteTree(m) ==
    LET d == mgJob[m].dir IN
    /\ JobAt(m, "delete")
    /\ mgRoot' = mgRoot \ ({d} \cup Inner(d))
    /\ mgRef' = [x \in Allocs |-> mgRef[x] /\ x # d /\ x \notin Inner(d)]
    /\ mgRecord' = [x \in Allocs |-> IF x \in Inner(d) THEN NoRecord ELSE mgRecord[x]]
    /\ Proceed(m, "retire") /\ UNCHANGED <<mgTree, mgLease, outside>>

Retire(m) ==
    LET d == mgJob[m].dir
        r == mgRecord[d]
    IN
    /\ JobAt(m, "retire")
    /\ PublishRecord(d, [NoRecord EXCEPT !.status = "removed", !.revision = r.revision, !.source = r.source])
    /\ Done(m) /\ UNCHANGED <<mgRoot, mgRef, outside>>

\* inspect and read_state change nothing.
Inspect(m) ==
    /\ JobAt(m, "inspect")
    /\ Done(m) /\ UNCHANGED <<mgRecord, mgRoot, mgRef, outside>>

ManagerDies(m) ==
    /\ ~JobAt(m, "free") /\ mgDeaths < MaxManagerDeaths
    /\ Done(m) /\ mgDeaths' = mgDeaths + 1
    /\ UNCHANGED <<mgRecord, mgRoot, mgRef, mgWorker, mgUsed, mgCaptured, mgWithin>>

(***************************************************************************)
(* The worker: resolve_configuration() takes the lease shared and keeps it *)
(* for the life of the process.                                            *)
(***************************************************************************)
WorkerStarts(d, l) ==
    /\ mgWorker[d] = NoLife /\ l \notin mgUsed
    /\ mgRecord[d].status = "ready" /\ mgRef[d]
    /\ Grants(mgLease, d, "shared")
    /\ mgWorker' = [mgWorker EXCEPT ![d] = l] /\ mgUsed' = mgUsed \cup {l}
    /\ mgLease' = mgLease \cup {[who |-> l, at |-> d, mode |-> "shared"]}
    /\ UNCHANGED <<mgRecord, mgRoot, mgRef, mgTree, mgJob, mgDeaths, mgCaptured, mgWithin>>

LeaseholderEnds(d) ==
    /\ mgWorker[d] # NoLife
    /\ mgWorker' = [mgWorker EXCEPT ![d] = NoLife]
    /\ mgLease' = Unlocked(mgLease, mgWorker[d])
    /\ UNCHANGED <<mgRecord, mgRoot, mgRef, mgTree, mgJob, mgDeaths, mgUsed, mgCaptured, mgWithin>>

MgNext ==
    \/ \E m \in Managers, job \in HubRequests : Request(m, job)
    \/ \E m \in Managers :
           \/ TakeTree(m) \/ TakeLease(m) \/ Claim(m) \/ Resume(m)
           \/ CreateDirectories(m) \/ WriteReference(m) \/ PublishReady(m) \/ ApplyRefresh(m)
           \/ CaptureStartup(m) \/ BeginRemoval(m) \/ DeleteTree(m) \/ Retire(m)
           \/ Inspect(m) \/ ManagerDies(m)
    \/ \E d \in Allocs, l \in Incarnations : WorkerStarts(d, l)
    \/ \E d \in Allocs : LeaseholderEnds(d)
MgSpec == MgInit /\ [][MgNext]_mgVars

(***************************************************************************)
(* What must hold.                                                         *)
(***************************************************************************)
\* An allocation that says it is ready is whole wherever its makers died, and the
\* one a worker runs in stays so until the worker ends: no removal goes on under a
\* running worker (execute, resolve_configuration).
ReadyIsWhole ==
    \A d \in Allocs :
        /\ mgRecord[d].status = "ready" => d \in mgRoot /\ mgRef[d]
        /\ mgWorker[d] # NoLife => mgRecord[d].status = "ready"

\* No allocation comes to lie inside another, so that removing one never erases
\* another's record: two requests that each looked before either claimed its
\* directory do not both succeed (paths, DirectoryTreeLock).
NoNesting ==
    \A d \in Allocs : mgWithin[d] # NoAlloc =>
        mgRecord[d] = NoRecord \/ mgRecord[mgWithin[d]] = NoRecord

\* A fork runs on the configuration its parent's worker was started with at the
\* captured lifecycle, also when the parent was refreshed, restarted or removed
\* before the fork was retried (clean_fork).
ForkFromCapture ==
    \A d \in Allocs :
        /\ mgRecord[d].source # NoSource /\ mgRecord[d].status # "removed"
        => LET s == mgRecord[d].source
           IN <<s.dir, [life |-> s.life, revision |-> s.revision, config |-> mgRecord[d].config]>>
                 \in mgCaptured

\* A retired path is never used again, a claim is never handed to somebody else,
\* and a revision never goes back (owned, execute).
RetiredForEver ==
    [][\A d \in Allocs :
          /\ mgRecord[d].status \in {"removing", "removed"} =>
                 mgRecord'[d].status \in {"removing", "removed"}
          /\ mgRecord'[d].revision >= mgRecord[d].revision]_mgVars
=============================================================================
