----------------------------- MODULE JsonStore -----------------------------
(***************************************************************************)
(* The JSON backend (src/persistence/src/json_store.cpp, json_archive.cpp) *)
(* with the worker's compact attempt around it.  The session keeps three   *)
(* kinds of files: the snapshot state.json, one directory per compact      *)
(* attempt with a payload and, published last, its manifest, and memory.md *)
(* with the complete summary.  Each is written by fileio::StagedWrite: a   *)
(* synced temporary file, a rename, and a sync of the directory, and the   *)
(* process or the machine may die between any two of these steps.          *)
(*                                                                         *)
(* A conversation is [text, refs, gen]: its content, the archives it names *)
(* and the number of compactions behind it.  The directory of an archive   *)
(* is known by its ordinal.  Nobody syncs the parent of a new directory,   *)
(* so a power loss may take a directory that this process has created.     *)
(***************************************************************************)
EXTENDS Integers, FiniteSets, FiniteSetsExt

CONSTANTS
    Summaries,      \* what conversations say
    NoText,         \* no snapshot, no file, no content
    Retained,       \* MemoryRetention::max_archives; 0 keeps everything
    MaxAttempts,    \* bound on the compact attempts (2^64 - 1 ordinals in the code)
    MaxJsonDeaths   \* bound: how often the process dies

Conversations == [text : Summaries \cup {NoText}, refs : SUBSET Nat, gen : Nat]

ASSUME JsonConstants ==
    /\ Retained \in Nat /\ MaxAttempts \in Nat /\ MaxJsonDeaths \in Nat
    /\ NoText \notin Summaries \cup Conversations

VARIABLES
    snapshot, jsonKept,  \* state.json, and what a power loss leaves of it
    dirs,                \* ordinal -> directory of an archive
    memo, keptMemo,      \* memory.md: the compaction whose summary it holds
    newDirs,             \* the directories created since the machine started
    live,                \* the worker's conversation
    failed,              \* storage_failed
    pc, jsonAttempt,     \* where save() or compact() is, and its archive
    writing,             \* the StagedWrite in progress
    staged,              \* the compaction whose summary waits in staged_memory
    replacement,         \* the summarised conversation
    doomed,              \* what prune() has still to remove
    attempts, deaths,    \* counted for the bounds
    prior, jsonAnswer,   \* history: the snapshot when its write began, and its answer
    frozen,              \* history: the conversation each attempt has archived
    relics               \* history: directories retention must not touch

files == <<snapshot, jsonKept, dirs, memo, keptMemo, newDirs>>
bounds == <<attempts, deaths>>
attemptVars == <<pc, jsonAttempt, staged, replacement, doomed>>
jsonHistory == <<prior, jsonAnswer, frozen, relics>>
jsonVars == <<files, live, failed, attemptVars, writing, bounds, jsonHistory>>

FreshSession == [text |-> NoText, refs |-> {}, gen |-> 0]
Idle == [file |-> NoText, step |-> "none", content |-> NoText]
EmptyDir == [payload |-> NoText, manifest |-> FALSE, other |-> FALSE, synced |-> {}]

\* The directory of an archive from before the manifests: one Markdown file.
Legacy == [EmptyDir EXCEPT !.other = TRUE]

(***************************************************************************)
(* json_archive.cpp.                                                       *)
(***************************************************************************)
\* manifest_matches(): the manifest is there and names this session.
ManifestMatches(o) == dirs[o].manifest

\* Mutant of Recognized: the payload is not looked for.
MutantRecognized(o) ==
    /\ o \in DOMAIN dirs
    /\ ~dirs[o].other
    /\ ManifestMatches(o)

\* recognize(): exactly the two files, and a manifest that agrees with them.
Recognized(o) ==
    /\ o \in DOMAIN dirs
    /\ ~dirs[o].other
    /\ ManifestMatches(o)
    /\ dirs[o].payload # NoText

\* plan_directory(): the next ordinal after those of any directory there is.
PlannedOrdinal == 1 + Max({0} \cup DOMAIN dirs)

\* prune(): the current and the named archives stay, the others fill what is left
\* of the limit, newest first.
Prunable(protected) ==
    LET candidates == {o \in DOMAIN dirs : Recognized(o)}
        others == candidates \ protected
        newer(o) == {n \in others : n > o}
    IN  {o \in others :
            /\ Retained > 0
            /\ Cardinality(candidates \cap protected) + Cardinality(newer(o)) >= Retained}

(***************************************************************************)
(* One StagedWrite.  The contents are complete and synced before anything  *)
(* is renamed; a failure before the rename removes the temporary file.     *)
(***************************************************************************)
Begin(file, content) == writing' = [file |-> file, step |-> "temporary", content |-> content]

\* The temporary file of a payload or a manifest lies in the archive's directory.
WithTemporary(o, there) == [dirs EXCEPT ![o].other = there]

Publication ==
    CASE writing.file = "payload" ->
            [dirs[jsonAttempt] EXCEPT !.other = FALSE, !.payload = writing.content]
      [] OTHER -> [dirs[jsonAttempt] EXCEPT !.other = FALSE, !.manifest = TRUE]

InArchive == writing.file \in {"payload", "manifest"}

RenameTemporary ==
    /\ writing.step = "temporary"
    /\ writing' = [writing EXCEPT !.step = "renamed"]
    /\ IF InArchive
       THEN /\ dirs' = [dirs EXCEPT ![jsonAttempt] = Publication]
            /\ UNCHANGED <<snapshot, memo>>
       ELSE /\ snapshot' = IF writing.file = "snapshot" THEN writing.content ELSE snapshot
            /\ memo' = IF writing.file = "memory" THEN writing.content ELSE memo
            /\ UNCHANGED dirs
    /\ UNCHANGED <<jsonKept, keptMemo, newDirs, live, failed, attemptVars, bounds, jsonHistory>>

SyncDirectory ==
    /\ jsonKept' = IF writing.file = "snapshot" THEN snapshot ELSE jsonKept
    /\ keptMemo' = IF writing.file = "memory" THEN memo ELSE keptMemo
    /\ dirs' = IF InArchive THEN [dirs EXCEPT ![jsonAttempt].synced = @ \cup {writing.file}] ELSE dirs

\* Where the worker goes after a failed write.  A failed checkpoint or replacement
\* ends the run with storage_failed; a failed archive does so only if it may have
\* been published; memory.md is optional.
AfterFailure ==
    CASE writing.file = "memory" -> "cleanup"
      [] pc = "commit" -> "cleanup"
      [] OTHER -> "idle"

Latched(r) ==
    \/ writing.file = "snapshot"
    \/ InArchive /\ r = "unknown"

Fails(r) ==
    /\ writing' = Idle
    /\ pc' = AfterFailure
    /\ failed' = (failed \/ Latched(r))
    /\ staged' = NoText
    /\ jsonAnswer' = IF writing.file = "snapshot" THEN r ELSE jsonAnswer
    /\ UNCHANGED <<snapshot, memo, jsonKept, keptMemo, newDirs, live, jsonAttempt, replacement, doomed,
                   bounds, prior, frozen, relics>>

\* The write, its sync or the rename throws: the destination is untouched.
WriteFails ==
    /\ writing.step = "temporary"
    /\ dirs' = IF InArchive THEN WithTemporary(jsonAttempt, FALSE) ELSE dirs
    /\ Fails("not_committed")

\* Mutant of SyncFails: published() is ignored.
MutantSyncFails ==
    /\ writing.step = "renamed"
    /\ UNCHANGED dirs
    /\ Fails("not_committed")

\* The directory sync throws: the file is replaced and may still be lost.
SyncFails ==
    /\ writing.step = "renamed"
    /\ UNCHANGED dirs
    /\ Fails("unknown")

(***************************************************************************)
(* The worker: turns, save() and compact().                                *)
(***************************************************************************)
Alive == pc # "down"
Ready == pc = "idle" /\ ~failed

WriteSnapshot(where, content) ==
    /\ pc' = where
    /\ Begin("snapshot", content)
    /\ prior' = snapshot
    /\ jsonAnswer' = "pending"

\* A turn extends the conversation, which may come to name an archive.
Turn(text, o) ==
    /\ Ready
    /\ o \in {0} \cup {r \in DOMAIN dirs : Recognized(r)}
    /\ live' = [live EXCEPT !.text = text, !.refs = @ \cup ({o} \ {0})]
    /\ UNCHANGED <<files, failed, attemptVars, writing, bounds, jsonHistory>>

Checkpoint ==
    /\ Ready
    /\ snapshot # live
    /\ WriteSnapshot("save", live)
    /\ UNCHANGED <<files, live, failed, jsonAttempt, staged, replacement, doomed, bounds, frozen,
                   relics>>

SaveReturns ==
    /\ pc = "save"
    /\ writing.step = "renamed"
    /\ SyncDirectory
    /\ jsonAnswer' = "committed"
    /\ writing' = Idle
    /\ pc' = "idle"
    /\ UNCHANGED <<snapshot, memo, newDirs, live, failed, jsonAttempt, staged, replacement, doomed, bounds,
                   prior, frozen, relics>>

\* reserve_archive(); a rejected preflight leaves nothing behind.
ReserveArchiveJson ==
    /\ Ready
    /\ attempts < MaxAttempts
    /\ attempts' = attempts + 1
    /\ jsonAttempt' = PlannedOrdinal
    /\ pc' \in {"reserved", "idle"}
    /\ UNCHANGED <<files, live, failed, staged, replacement, doomed, writing, deaths, jsonHistory>>

\* begin_archive(): the directory, then the payload; the writer's temporary file
\* is in it from the start.
BeginArchiveJson ==
    /\ pc = "reserved"
    /\ jsonAttempt \notin DOMAIN dirs
    /\ dirs' = [o \in DOMAIN dirs \cup {jsonAttempt} |->
                   IF o = jsonAttempt THEN [EmptyDir EXCEPT !.other = TRUE] ELSE dirs[o]]
    /\ newDirs' = newDirs \cup {jsonAttempt}
    /\ frozen' = [o \in DOMAIN frozen \cup {jsonAttempt} |-> IF o = jsonAttempt THEN live ELSE frozen[o]]
    /\ pc' = "archive"
    /\ Begin("payload", live)
    /\ UNCHANGED <<snapshot, jsonKept, memo, keptMemo, live, failed, jsonAttempt, staged, replacement, doomed,
                   bounds, prior, jsonAnswer, relics>>

PublishManifest ==
    /\ pc = "archive"
    /\ writing.file = "payload" /\ writing.step = "renamed"
    /\ dirs' = [dirs EXCEPT ![jsonAttempt].synced = @ \cup {"payload"}, ![jsonAttempt].other = TRUE]
    /\ Begin("manifest", NoText)
    /\ UNCHANGED <<snapshot, jsonKept, memo, keptMemo, newDirs, live, failed, attemptVars, bounds,
                   jsonHistory>>

ArchiveBegun ==
    /\ pc = "archive"
    /\ writing.file = "manifest" /\ writing.step = "renamed"
    /\ SyncDirectory
    /\ writing' = Idle
    /\ pc' = "summary"
    /\ UNCHANGED <<snapshot, memo, newDirs, live, failed, jsonAttempt, staged, replacement, doomed, bounds,
                   jsonHistory>>

\* compact_attempt(): the summary run ends without a replacement.
SummaryFails ==
    /\ pc = "summary"
    /\ pc' = "cleanup"
    /\ replacement' = FreshSession
    /\ UNCHANGED <<files, live, failed, jsonAttempt, staged, doomed, writing, bounds, jsonHistory>>

\* The summary is there, and may name archives: the replacement, and the complete
\* text staged beside memory.md.
Summarise(text, refs) ==
    /\ pc = "summary"
    /\ \A o \in refs : Recognized(o)
    /\ replacement' = [text |-> text, refs |-> refs, gen |-> live.gen + 1]
    /\ staged' = live.gen + 1
    /\ pc' = "staged"
    /\ UNCHANGED <<files, live, failed, jsonAttempt, doomed, writing, bounds, jsonHistory>>

\* A stop before the commit drops the replacement and the staged file.
CancelBeforeCommit ==
    /\ pc = "staged"
    /\ staged' = NoText
    /\ pc' = "cleanup"
    /\ UNCHANGED <<files, live, failed, jsonAttempt, replacement, doomed, writing, bounds, jsonHistory>>

\* Mutant of CommitCompactionJson: memory.md is published with the commit still open.
MutantCommitCompactionJson ==
    /\ pc = "staged"
    /\ WriteSnapshot("commit", replacement)
    /\ memo' = staged
    /\ UNCHANGED <<snapshot, jsonKept, dirs, keptMemo, newDirs, live, failed, jsonAttempt, staged, replacement,
                   doomed, bounds, frozen, relics>>

CommitCompactionJson ==
    /\ pc = "staged"
    /\ WriteSnapshot("commit", replacement)
    /\ UNCHANGED <<files, live, failed, jsonAttempt, staged, replacement, doomed, bounds, frozen,
                   relics>>

\* The replacement is durable: it becomes the live state, and only then the staged
\* summary is renamed over memory.md.
CompactionCommitted ==
    /\ pc = "commit"
    /\ writing.step = "renamed"
    /\ SyncDirectory
    /\ jsonAnswer' = "committed"
    /\ live' = replacement
    /\ pc' = "memory"
    /\ Begin("memory", staged)
    /\ UNCHANGED <<snapshot, memo, newDirs, failed, jsonAttempt, staged, replacement, doomed, bounds, prior,
                   frozen, relics>>

MemoryPublished ==
    /\ pc = "memory"
    /\ writing.step = "renamed"
    /\ SyncDirectory
    /\ writing' = Idle
    /\ staged' = NoText
    /\ pc' = "cleanup"
    /\ UNCHANGED <<snapshot, memo, newDirs, live, failed, jsonAttempt, replacement, doomed, bounds,
                   jsonHistory>>

\* Mutant of ProtectedArchives: only what the live state names.
MutantProtectedArchives == {jsonAttempt} \cup live.refs

\* cleanup_archive(): the current attempt, what the live state names, and what a
\* replacement names whose publication may have happened.
ProtectedArchives == {jsonAttempt} \cup live.refs \cup replacement.refs

\* prune_archives(): refused unless the current archive is complete.
Prune ==
    /\ pc = "cleanup"
    /\ doomed' = IF Recognized(jsonAttempt) THEN Prunable(ProtectedArchives) ELSE {}
    /\ relics' = {o \in DOMAIN dirs : ~Recognized(o)}
    /\ pc' = "pruning"
    /\ UNCHANGED <<files, live, failed, jsonAttempt, staged, replacement, writing, bounds, prior, jsonAnswer,
                   frozen>>

\* Newest first, and of each the payload, the manifest, the directory.
PruneStep ==
    /\ pc = "pruning"
    /\ doomed # {}
    /\ LET o == Max(doomed)
       IN  /\ dirs' = CASE dirs[o].payload # NoText -> [dirs EXCEPT ![o].payload = NoText]
                        [] dirs[o].payload = NoText /\ dirs[o].manifest ->
                               [dirs EXCEPT ![o].manifest = FALSE]
                        [] OTHER -> [n \in DOMAIN dirs \ {o} |-> dirs[n]]
           /\ doomed' = doomed \cap DOMAIN dirs'
           /\ newDirs' = newDirs \cap DOMAIN dirs'
    /\ UNCHANGED <<snapshot, jsonKept, memo, keptMemo, live, failed, pc, jsonAttempt, staged, replacement,
                   writing, bounds, jsonHistory>>

\* Done, or a removal has failed, which is a warning.
PruneEnds ==
    /\ pc = "pruning"
    /\ doomed' = {}
    /\ pc' = "idle"
    /\ replacement' = FreshSession
    /\ relics' = {}
    /\ UNCHANGED <<files, live, failed, jsonAttempt, staged, writing, bounds, prior, jsonAnswer, frozen>>

(***************************************************************************)
(* The process and the machine.                                            *)
(***************************************************************************)
\* What a power loss leaves of the directory of an archive.
Remnant(d) ==
    [d EXCEPT !.payload = IF "payload" \in d.synced THEN @ ELSE NoText,
              !.manifest = @ /\ "manifest" \in d.synced]

\* The process dies, in the middle of anything, or ends because storage failed; the
\* temporary files stay where they are.  With it the machine may die.
Death ==
    /\ Alive
    /\ deaths < MaxJsonDeaths
    /\ deaths' = deaths + 1
    /\ \/ UNCHANGED files
       \/ /\ snapshot' = jsonKept
          /\ memo' = keptMemo
          /\ \E lost \in SUBSET newDirs :
                dirs' = [o \in DOMAIN dirs \ lost |-> Remnant(dirs[o])]
          /\ newDirs' = {}
          /\ UNCHANGED <<jsonKept, keptMemo>>
    /\ pc' = "down"
    /\ writing' = Idle
    /\ staged' = NoText
    /\ replacement' = FreshSession
    /\ doomed' = {}
    /\ failed' = FALSE
    /\ live' = FreshSession
    /\ jsonAttempt' = 0
    /\ jsonAnswer' = "opened"
    /\ relics' = {}
    /\ frozen' = [o \in DOMAIN frozen \cap DOMAIN dirs' |-> frozen[o]]
    /\ UNCHANGED <<attempts, prior>>

\* load_current(): no file is a fresh session.
LoadCurrent ==
    /\ pc = "down"
    /\ pc' = "idle"
    /\ live' = IF snapshot = NoText THEN FreshSession ELSE snapshot
    /\ UNCHANGED <<files, failed, jsonAttempt, staged, replacement, doomed, writing, bounds, jsonHistory>>

JsonInit ==
    /\ snapshot = NoText /\ jsonKept = NoText
    /\ dirs \in {[o \in {} |-> EmptyDir], [o \in {1} |-> Legacy]}
    /\ memo = 0 /\ keptMemo = 0
    /\ newDirs = {}
    /\ live = FreshSession
    /\ failed = FALSE
    /\ pc = "down" /\ jsonAttempt = 0
    /\ writing = Idle
    /\ staged = NoText
    /\ replacement = FreshSession
    /\ doomed = {}
    /\ attempts = 0 /\ deaths = 0
    /\ prior = NoText /\ jsonAnswer = "opened"
    /\ frozen = [o \in {} |-> FreshSession]
    /\ relics = {}

JsonNext ==
    \/ LoadCurrent \/ Death
    \/ RenameTemporary \/ WriteFails \/ SyncFails
    \/ Checkpoint \/ SaveReturns
    \/ ReserveArchiveJson \/ BeginArchiveJson \/ PublishManifest \/ ArchiveBegun
    \/ SummaryFails \/ CancelBeforeCommit \/ CommitCompactionJson \/ CompactionCommitted
    \/ MemoryPublished \/ Prune \/ PruneStep \/ PruneEnds
    \/ \E t \in Summaries :
          \/ \E o \in {0} \cup DOMAIN dirs : Turn(t, o)
          \/ \E refs \in SUBSET DOMAIN dirs : Summarise(t, refs)

JsonSpec == JsonInit /\ [][JsonNext]_jsonVars

(***************************************************************************)
(* Properties.                                                             *)
(***************************************************************************)
\* Whatever is interrupted, an archive that counts as one holds the whole
\* conversation its attempt has frozen, and what did not count as one when a
\* retention pass looked is still there after it (publish(), recognize(), prune()).
ArchivesComplete ==
    /\ \A o \in DOMAIN dirs : Recognized(o) => dirs[o].payload = frozen[o]
    /\ relics \subseteq DOMAIN dirs

\* Retention removes no archive that the snapshot on disk names.  When the outcome of
\* the replacement is unknown and the live state is the old one, it removes none that
\* either candidate for the next start names (cleanup_archive(), prune()).
NamedArchivesStay ==
    \A s \in ({snapshot} \cup (IF jsonAnswer = "unknown" THEN {prior} ELSE {})) \ {NoText} :
        s.refs \cap doomed = {}

\* memory.md never holds the summary of a compaction that the snapshot does not
\* know of, through every failure, crash and power loss (compact_attempt()).
MemoryFollows ==
    LET gen(s) == IF s = NoText THEN 0 ELSE s.gen
    IN  memo <= gen(snapshot) /\ memo <= gen(jsonKept) /\ keptMemo <= gen(jsonKept)

\* The contract of the interface, for the snapshot: a receipt means that it is
\* durable, "not_committed" that nothing has changed, and after an unknown outcome
\* nothing is written before the store is opened again (write_snapshot(),
\* map_failures(), the worker's storage_failed).
Contents(s) == [state |-> s, archives |-> [o \in {} |-> NoText]]
JsonContractStore == INSTANCE StateStore WITH
    Empty <- Contents(NoText),
    visible <- Contents(snapshot),
    durable <- Contents(jsonKept),
    before <- Contents(prior),
    answer <- jsonAnswer,
    latched <- jsonAnswer = "unknown"
JsonContract == JsonContractStore!Spec
=============================================================================
