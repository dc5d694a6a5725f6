----------------------------- MODULE SqliteStore -----------------------------
(***************************************************************************)
(* The SQLite backend (src/persistence/src/sqlite_store.cpp) and the way   *)
(* the worker calls it.  Every mutation is one call of write(): the file   *)
(* is created on first use, the schema in a transaction of its own, then   *)
(* one transaction reconciles what a dead process left and applies the     *)
(* mutation, and the directory is synced.  The process or the machine may  *)
(* die between any two of these steps.                                     *)
(*                                                                         *)
(* The normalised state graph is one value; the archive index is left out. *)
(* SQLite itself is external: a transaction is atomic, one that committed  *)
(* survives unless the directory entry of its file does not, and a failed  *)
(* COMMIT may have happened.                                               *)
(***************************************************************************)
EXTENDS Integers, FiniteSets, FiniteSetsExt

CONSTANTS
    States,         \* conversation states
    NoState,        \* no current snapshot
    Ids,            \* archive identities; random in the code, never drawn twice
    None,           \* no archive, no expectation
    MaxArchives,    \* MemoryRetention::max_archives; 0 keeps everything
    MaxRevision,    \* bound on the revision (2^63 - 1 in the code)
    MaxCrashes      \* bound: how often the process dies

ASSUME StoreConstants ==
    /\ MaxArchives \in Nat
    /\ MaxRevision \in Nat
    /\ MaxCrashes \in Nat
    /\ NoState \notin States
    /\ None \notin Ids \cup Nat

VARIABLES
    file,           \* "absent", "empty" (no schema yet) or "ready"
    db,             \* the committed content
    kept,           \* the content a power loss leaves, as [file, db]
    up, uncertain, reconciled, reserved,             \* SqliteStore
    stage, call, created,                            \* one call of write()
    expected, storageFailed, attempt, at,            \* the worker
    crashes,
    drawn,          \* history: the identities used so far
    mine,           \* history: the identities this process drew
    before, answer  \* history: the content when write() was called, its last result

disk == <<file, db, kept>>
memory == <<uncertain, reconciled, reserved>>
frame == <<stage, call, created>>
worker == <<expected, storageFailed, attempt, at>>
history == <<drawn, mine, before, answer>>
vars == <<disk, up, memory, frame, worker, crashes, history>>

Outcomes == {"prepared", "succeeded", "failed", "cancelled", "interrupted"}
Kinds == {"checkpoint", "begin", "commit", "finish", "prune"}
NoCall == [kind |-> "none", id |-> None, state |-> NoState, outcome |-> "failed"]

\* Besides the rows, two histories that live and die with the content: the
\* attempts whose replacement was applied, and the archive of the conversation
\* that the current state is, or is the summary of.
EmptyDb == [rev |-> 0, state |-> NoState, archives |-> [id \in {} |-> None],
            replaced |-> {}, basis |-> None]

(***************************************************************************)
(* The mutations, as functions of the database content.                    *)
(***************************************************************************)
Prepared(d) == {id \in DOMAIN d.archives : d.archives[id].outcome = "prepared"}

SetOutcome(d, ids, o) ==
    [d EXCEPT !.archives = [id \in DOMAIN d.archives |->
        IF id \in ids THEN [d.archives[id] EXCEPT !.outcome = o] ELSE d.archives[id]]]

\* reconcile(): what a dead process left prepared is interrupted, but not the
\* archive this write is about.
Reconcile(d, target) == SetOutcome(d, Prepared(d) \ {target}, "interrupted")

Replaced(d, s) == [d EXCEPT !.rev = @ + 1, !.state = s, !.basis = None]

\* T1 synchronises the current state and freezes it under a new archive, newest
\* in the persistent order.
Begun(d, id, s) ==
    LET r == Replaced(d, s)
        previous == Max({0} \cup {d.archives[a].sequence : a \in DOMAIN d.archives})
        row == [sequence |-> previous + 1, outcome |-> "prepared", base |-> r.rev, original |-> s]
    IN [r EXCEPT !.basis = id,
                 !.archives = [a \in DOMAIN d.archives \cup {id} |->
                                  IF a = id THEN row ELSE d.archives[a]]]

\* Mutant of Committed: the attempt is not settled with its replacement.
MutantCommitUnsettled(d, id, s) ==
    [Replaced(d, s) EXCEPT !.replaced = @ \cup {id}, !.basis = id]

\* T2 replaces the state and settles the attempt in one transaction.
Committed(d, id, s) ==
    [SetOutcome(Replaced(d, s), {id}, "succeeded") EXCEPT !.replaced = @ \cup {id}, !.basis = id]

\* Mutants of Protected: an interrupted attempt is evidence for ever; the archive
\* the pass is about has no special place.
MutantInterruptedForEver(d, current) ==
    {current} \cup {id \in DOMAIN d.archives :
        d.archives[id].outcome \in {"prepared", "interrupted"}}
MutantCurrentUnprotected(d, current) ==
    {id \in DOMAIN d.archives :
        \/ d.archives[id].outcome = "prepared"
        \/ d.archives[id].outcome = "interrupted" /\ d.archives[id].base >= d.rev}

Protected(d, current) ==
    {current} \cup {id \in DOMAIN d.archives :
        \/ d.archives[id].outcome = "prepared"
        \/ d.archives[id].outcome = "interrupted" /\ d.archives[id].base >= d.rev}

\* prune_archives(): newest first, the unprotected archives fill what the protected
\* ones leave of the limit.
Pruned(d, current) ==
    LET Safe == Protected(d, current)
        Newer(id) == {a \in DOMAIN d.archives \ Safe :
                         d.archives[a].sequence > d.archives[id].sequence}
        Stays == {id \in DOMAIN d.archives :
                     \/ MaxArchives = 0
                     \/ id \in Safe
                     \/ Cardinality(Safe) + Cardinality(Newer(id)) < MaxArchives}
    IN [d EXCEPT !.archives = [id \in Stays |-> d.archives[id]]]

\* The content the transaction of call c would commit.
Outcome(c) ==
    LET d == IF reconciled THEN db
             ELSE Reconcile(db, IF c.kind \in {"checkpoint", "begin"} THEN None ELSE c.id)
    IN CASE c.kind = "checkpoint" -> Replaced(d, c.state)
         [] c.kind = "begin" -> Begun(d, c.id, c.state)
         [] c.kind = "commit" -> Committed(d, c.id, c.state)
         [] c.kind = "finish" -> SetOutcome(d, Prepared(d) \cap {c.id}, c.outcome)
         [] c.kind = "prune" -> Pruned(d, c.id)

\* The preconditions the mutations check before they write.
Fresh == expected = None \/ expected = db.rev
Admissible(c) ==
    CASE c.kind \in {"checkpoint", "begin"} -> Fresh
      [] c.kind = "commit" -> /\ c.id \in Prepared(db)
                              /\ db.archives[c.id].base = db.rev
                              /\ Fresh
      [] OTHER -> c.id \in DOMAIN db.archives

(***************************************************************************)
(* What the worker does with the result of a store call.                   *)
(***************************************************************************)
\* Mutant of AdoptRevision: the receipt of T1 is dropped.
MutantDropsReceipt(rev) ==
    expected' = IF call.kind \in {"checkpoint", "commit"} THEN rev ELSE expected

\* storage_revision follows the receipts of the state-changing operations.
AdoptRevision(rev) ==
    expected' = IF call.kind \in {"checkpoint", "begin", "commit"} THEN rev ELSE expected

\* A failed required write stops persistence; archive work does so only when its
\* outcome is unknown (latch_optional_storage_failure).
Latches(r) ==
    \/ r # "committed" /\ call.kind \in {"checkpoint", "begin", "commit"}
    \/ r = "unknown"

Following(r) ==
    CASE Latches(r) -> "idle"
      [] ~Latches(r) /\ call.kind = "begin" -> "prepared"
      [] ~Latches(r) /\ call.kind \in {"commit", "finish"} -> "cleanup"
      [] OTHER -> "idle"

Return(r, rev) ==
    /\ stage' = "none"
    /\ created' = FALSE
    /\ answer' = r
    /\ storageFailed' = (storageFailed \/ Latches(r))
    /\ at' = Following(r)
    /\ IF r = "committed" THEN AdoptRevision(rev) ELSE UNCHANGED expected
    /\ UNCHANGED <<up, call, attempt, reserved, crashes, drawn, mine, before>>

(***************************************************************************)
(* write(): one durable mutation.                                          *)
(***************************************************************************)
\* An existing file without a schema is refused by inspect_store().
WriteOpen ==
    /\ stage = "open"
    /\ ~uncertain
    /\ file # "empty"
    /\ file' = IF file = "absent" THEN "empty" ELSE file
    /\ created' = (file = "absent")
    /\ stage' = IF file = "absent" THEN "schema" ELSE "transaction"
    /\ UNCHANGED <<db, kept, up, memory, call, worker, crashes, history>>

WriteSchema ==
    /\ stage = "schema"
    /\ file' = "ready"
    /\ stage' = "transaction"
    /\ UNCHANGED <<db, kept, up, memory, call, created, worker, crashes, history>>

\* Anything that throws before COMMIT leaves the content alone, and removes a file
\* this call has created.
WriteRefused ==
    /\ stage \in {"open", "schema", "transaction"}
    /\ file' = IF created THEN "absent" ELSE file
    /\ Return(IF uncertain THEN "unknown" ELSE "not_committed", None)
    /\ UNCHANGED <<db, kept, uncertain, reconciled>>

WriteCommit ==
    /\ stage = "transaction"
    /\ Admissible(call)
    /\ db' = Outcome(call)
    /\ kept' = IF kept.file = "ready" THEN [kept EXCEPT !.db = db'] ELSE kept
    /\ stage' = "sync"
    /\ UNCHANGED <<file, up, memory, call, created, worker, crashes, history>>

WriteCommitFails ==
    /\ stage = "transaction"
    /\ Admissible(call)
    /\ db' \in {db, Outcome(call)}
    /\ uncertain' = TRUE
    /\ Return("unknown", None)
    /\ UNCHANGED <<file, kept, reconciled>>

WriteSync ==
    /\ stage = "sync"
    /\ kept' = [file |-> file, db |-> db]
    /\ reconciled' = TRUE
    /\ Return("committed", db.rev)
    /\ UNCHANGED <<file, db, uncertain>>

\* Mutants of WriteSyncFails: the failure counts as one before COMMIT; a file this
\* call has created is removed although its content was committed.
MutantSyncNotCommitting ==
    /\ stage = "sync"
    /\ Return("not_committed", None)
    /\ UNCHANGED <<disk, uncertain, reconciled>>
MutantUnlinksCommitted ==
    /\ stage = "sync"
    /\ file' = IF created THEN "absent" ELSE file
    /\ uncertain' = TRUE
    /\ Return("unknown", None)
    /\ UNCHANGED <<db, kept, reconciled>>

WriteSyncFails ==
    /\ stage = "sync"
    /\ uncertain' = TRUE
    /\ Return("unknown", None)
    /\ UNCHANGED <<disk, reconciled>>

(***************************************************************************)
(* The calls of the worker: save(), compact() and compact_attempt(),       *)
(* settle_failed_compact().                                                *)
(***************************************************************************)
Issue(c) ==
    /\ up
    /\ stage = "none"
    /\ ~storageFailed
    /\ stage' = "open"
    /\ call' = c
    /\ before' = db
    /\ answer' = "pending"
    /\ UNCHANGED <<disk, up, uncertain, reconciled, created, expected, storageFailed, attempt, at,
                   crashes, drawn, mine>>

Save(s) ==
    /\ at = "idle"
    /\ db.rev < MaxRevision
    /\ Issue([NoCall EXCEPT !.kind = "checkpoint", !.state = s])
    /\ UNCHANGED reserved

ReserveArchive(id) ==
    /\ up
    /\ stage = "none"
    /\ at = "idle"
    /\ ~storageFailed
    /\ id \notin drawn
    /\ drawn' = drawn \cup {id}
    /\ mine' = mine \cup {id}
    /\ reserved' = reserved \cup {id}
    /\ attempt' = id
    /\ at' = "reserved"
    /\ UNCHANGED <<disk, up, uncertain, reconciled, frame, expected, storageFailed, crashes,
                   before, answer>>

\* Mutant of Preflight: the reservation outlives the rejected attempt.
MutantPreflightKeeps ==
    /\ at = "reserved"
    /\ stage = "none"
    /\ at' = "idle"
    /\ UNCHANGED <<disk, up, memory, frame, expected, storageFailed, attempt, crashes, history>>

\* plan_compact() threw: release_archive().
Preflight ==
    /\ at = "reserved"
    /\ stage = "none"
    /\ reserved' = reserved \ {attempt}
    /\ at' = "idle"
    /\ UNCHANGED <<disk, up, uncertain, reconciled, frame, expected, storageFailed, attempt,
                   crashes, history>>

BeginArchive(s) ==
    /\ at = "reserved"
    /\ attempt \in reserved
    /\ db.rev < MaxRevision
    /\ reserved' = reserved \ {attempt}
    /\ Issue([NoCall EXCEPT !.kind = "begin", !.id = attempt, !.state = s])

CommitCompaction(s) ==
    /\ at = "prepared"
    /\ db.rev < MaxRevision
    /\ Issue([NoCall EXCEPT !.kind = "commit", !.id = attempt, !.state = s])
    /\ UNCHANGED reserved

\* The summary run failed or was cancelled before T2.
FinishAttempt(o) ==
    /\ at = "prepared"
    /\ Issue([NoCall EXCEPT !.kind = "finish", !.id = attempt, !.outcome = o])
    /\ UNCHANGED reserved

PruneArchives ==
    /\ at = "cleanup"
    /\ Issue([NoCall EXCEPT !.kind = "prune", !.id = attempt])
    /\ UNCHANGED reserved

(***************************************************************************)
(* The process and the machine.                                            *)
(***************************************************************************)
\* The process ends, in the middle of anything; with it the machine may lose what
\* was not durable.
Crash ==
    /\ up
    /\ crashes < MaxCrashes
    /\ crashes' = crashes + 1
    /\ up' = FALSE
    /\ \/ UNCHANGED <<file, db>>
       \/ file' = kept.file /\ db' = kept.db
    /\ uncertain' = FALSE
    /\ reconciled' = FALSE
    /\ reserved' = {}
    /\ stage' = "none"
    /\ call' = NoCall
    /\ created' = FALSE
    /\ expected' = None
    /\ storageFailed' = FALSE
    /\ attempt' = None
    /\ at' = "idle"
    /\ mine' = {}
    /\ answer' = "opened"
    /\ UNCHANGED <<kept, drawn, before>>

\* restore_state(): load_current() refuses an existing file without a schema; no
\* snapshot means no expectation.
Start ==
    /\ ~up
    /\ file # "empty"
    /\ up' = TRUE
    /\ expected' = IF db.state = NoState THEN None ELSE db.rev
    /\ UNCHANGED <<disk, memory, frame, storageFailed, attempt, at, crashes, history>>

Init ==
    /\ file = "absent"
    /\ db = EmptyDb
    /\ kept = [file |-> "absent", db |-> EmptyDb]
    /\ up = FALSE
    /\ uncertain = FALSE
    /\ reconciled = FALSE
    /\ reserved = {}
    /\ stage = "none"
    /\ call = NoCall
    /\ created = FALSE
    /\ expected = None
    /\ storageFailed = FALSE
    /\ attempt = None
    /\ at = "idle"
    /\ crashes = 0
    /\ drawn = {}
    /\ mine = {}
    /\ before = EmptyDb
    /\ answer = "opened"

Next ==
    \/ Start \/ Crash
    \/ WriteOpen \/ WriteSchema \/ WriteRefused \/ WriteCommit \/ WriteCommitFails
    \/ WriteSync \/ WriteSyncFails
    \/ Preflight \/ PruneArchives
    \/ \E s \in States : Save(s) \/ BeginArchive(s) \/ CommitCompaction(s)
    \/ \E id \in Ids : ReserveArchive(id)
    \/ \E o \in {"failed", "cancelled"} : FinishAttempt(o)

Spec == Init /\ [][Next]_vars

(***************************************************************************)
(* Properties.                                                             *)
(***************************************************************************)
Archive == [sequence : Nat, outcome : Outcomes, base : Nat, original : States]
IsDb(d) ==
    /\ DOMAIN d = {"rev", "state", "archives", "replaced", "basis"}
    /\ d.rev \in Nat
    /\ d.state \in States \cup {NoState}
    /\ DOMAIN d.archives \subseteq Ids
    /\ \A id \in DOMAIN d.archives : d.archives[id] \in Archive
    /\ d.replaced \subseteq Ids
    /\ d.basis \in Ids \cup {None}

\* Every variable of the store and of its caller has its type, and a file without a
\* schema holds nothing.
SqliteTypeOK ==
    /\ file \in {"absent", "empty", "ready"}
    /\ file # "ready" => db = EmptyDb
    /\ IsDb(db) /\ IsDb(kept.db) /\ IsDb(before)
    /\ kept.file \in {"absent", "ready"}
    /\ {up, uncertain, reconciled, created, storageFailed} \subseteq BOOLEAN
    /\ stage \in {"none", "open", "schema", "transaction", "sync"}
    /\ call.kind \in Kinds \cup {"none"}
    /\ call.id \in Ids \cup {None}
    /\ expected \in Nat \cup {None}
    /\ attempt \in Ids \cup {None}
    /\ at \in {"idle", "reserved", "prepared", "cleanup"}
    /\ crashes \in 0..MaxCrashes
    /\ UNION {reserved, drawn, mine} \subseteq Ids
    /\ answer \in {"opened", "pending", "committed", "not_committed", "unknown"}

\* No write of a process that owns the session is refused for what it asks: the
\* revision it expects is the current one and the attempt it settles is still
\* prepared (replace(), commit_compaction(), require_archive()), through crashes,
\* lost writes and unknown outcomes.
NoSpuriousRefusal == stage = "transaction" => Admissible(call)

\* An archive says "succeeded" exactly when its replacement became the state, after
\* every crash and lost write: T2 is the settlement (commit_compaction()).  Once a
\* process has written, an attempt that is still prepared is its own: those of dead
\* processes became recovery evidence in the same commit (reconcile()).
SettledTruth ==
    /\ \A id \in DOMAIN db.archives :
          db.archives[id].outcome = "succeeded" <=> id \in db.replaced
    /\ reconciled /\ stage = "none" => Prepared(db) \subseteq mine

\* The conversation that the current state is, or is the summary of, stays archived
\* until a checkpoint moves on, whatever retention removes (prune_archives()).
EvidenceKept == db.basis # None => db.basis \in DOMAIN db.archives

\* After a retention pass the archives are within the limit, or are the current one
\* and the attempts this process could not settle: what crashed processes left
\* does not add to it (prune_archives()).
RetentionHolds ==
    (answer = "committed" /\ call.kind = "prune" /\ MaxArchives > 0) =>
        Cardinality(DOMAIN db.archives) <=
            Max({MaxArchives, Cardinality({call.id} \cup (Prepared(db) \cap mine))})

\* An identity is held only between its reservation and T1: a rejected attempt
\* leaves nothing in a long-lived worker (release_archive(), begin_archive()).
NoReservationLeak == reserved # {} => at = "reserved" /\ reserved = {attempt}

(***************************************************************************)
(* The contract of the interface.                                          *)
(***************************************************************************)
Image(d) ==
    [state |-> d.state,
     archives |-> [id \in DOMAIN d.archives |->
        [original |-> d.archives[id].original, outcome |-> d.archives[id].outcome]]]

Store == INSTANCE StateStore WITH
    Empty <- Image(EmptyDb),
    visible <- Image(db),
    durable <- Image(kept.db),
    before <- Image(before),
    latched <- uncertain

\* The backend keeps the promise of the interface: a receipt means the write is
\* durable, a "not_committed" means nothing changed, and an unknown outcome leaves
\* one of two contents and no write before the store is opened again (write()).
Contract == Store!Spec
=============================================================================
