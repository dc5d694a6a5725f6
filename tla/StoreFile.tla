----------------------------- MODULE StoreFile ------------------------------
(***************************************************************************)
(* Opening the SQLite store (src/persistence/src/sqlite_schema.cpp, the    *)
(* head of write() in sqlite_store.cpp, selection.cpp): which file the     *)
(* store takes for its own, what it creates or upgrades in it, and what a  *)
(* read-only inspection accepts meanwhile.  The one writer of a session    *)
(* may die or fail between any two steps; its transactions are SQLite's    *)
(* and atomic.                                                             *)
(*                                                                         *)
(* The tables are four groups: the metadata, the codec's layout, the       *)
(* archive index of version 2, and tables of somebody else.                *)
(***************************************************************************)
EXTENDS Integers, FiniteSets

CONSTANTS
    OldArchives,    \* archives a version 1 store may hold
    MaxDeaths       \* bound: how often the writer dies

VARIABLES
    sfDisk,         \* the file: Nothing or its content
    sfJson,         \* whether state.json exists beside it
    sfBackend,      \* select_backend(): "none" yet, "json", "sqlite" or "refused"
    sfStage,        \* the writer inside write(): "idle" or its next step
    sfCreated,      \* this call created the file
    sfDeaths,
    sfWas,          \* history: the file when the call began
    sfRefusal,      \* history: the reason the last call was refused, or "none"
    sfReady         \* history: the last call reached its mutation

sfVars == <<sfDisk, sfJson, sfBackend, sfStage, sfCreated, sfDeaths, sfWas, sfRefusal, sfReady>>

SchemaVersion == 2
CodecVersion == 1
Nothing == [present |-> FALSE]

\* A file with no table, and a store of one version.
Blank == [present |-> TRUE, app |-> "zero", tables |-> {}, version |-> 0, codec |-> 0,
          session |-> "ours", wal |-> FALSE, archives |-> {}, indexed |-> {}]
StoreOf(version, archives) ==
    [Blank EXCEPT !.app = "simplex", !.version = version, !.codec = CodecVersion, !.archives = archives,
                  !.tables = {"meta", "layout"} \cup (IF version >= 2 THEN {"index"} ELSE {}),
                  !.indexed = IF version >= 2 THEN archives ELSE {}, !.wal = TRUE]

\* What may lie at the path before the first call: nothing, a store of this or
\* another build, codec or session, one that lost a table, a file of something else.
FoundFiles ==
    {Nothing, Blank,
     [Blank EXCEPT !.tables = {"foreign"}], [Blank EXCEPT !.app = "other", !.tables = {"foreign"}],
     [Blank EXCEPT !.app = "simplex"]}
    \cup UNION {{StoreOf(v, a), [StoreOf(v, a) EXCEPT !.session = "theirs"],
                 [StoreOf(v, a) EXCEPT !.codec = 2], [StoreOf(v, a) EXCEPT !.tables = @ \ {"layout"}]} :
                v \in 0..3, a \in SUBSET OldArchives}

\* select_backend(): two histories are never reconciled by a setting.
SelectBackend(json, sqlite, selection) ==
    CASE json /\ sqlite -> "refused"
      [] selection = "auto" -> IF json THEN "json" ELSE "sqlite"
      [] selection = "json" /\ sqlite -> "refused"
      [] selection = "sqlite" /\ json -> "refused"
      [] OTHER -> selection

(***************************************************************************)
(* The checks, in their order; "none" accepts.                             *)
(***************************************************************************)
ReadIdentity(f) ==
    IF f.session # "ours" THEN "session_mismatch" ELSE "none"

\* require_layout() and sqlite_archive_index::inspect().
LayoutRefusal(f) ==
    IF "layout" \notin f.tables \/ (f.version >= 2 /\ "index" \notin f.tables)
    THEN "incomplete_schema" ELSE "none"

\* Mutant of InspectStore: a file without tables is left to open_store().
MutantInspectStore(f) ==
    IF f.tables = {} THEN "none"
    ELSE CASE f.app # "simplex" -> "foreign_database"
           [] ReadIdentity(f) # "none" -> ReadIdentity(f)
           [] OTHER -> LayoutRefusal(f)
InspectStore(f) ==
    CASE f.app # "simplex" -> "foreign_database"
      [] "meta" \notin f.tables -> "incomplete_schema"
      [] ReadIdentity(f) # "none" -> ReadIdentity(f)
      [] f.version > SchemaVersion -> "newer_schema"
      [] f.version < 1 -> "upgrade_required"
      [] f.codec # CodecVersion -> "unsupported_codec"
      [] OTHER -> LayoutRefusal(f)

CheckDecodable(f) ==
    CASE f.version > SchemaVersion -> "newer_schema"
      [] f.codec # CodecVersion -> "unsupported_codec"
      [] OTHER -> "none"

\* open_store() before it writes; a blank file is to be created.
OpenRefusal(f) ==
    CASE "meta" \notin f.tables /\ f.app = "simplex" -> "incomplete_schema"
      [] "meta" \notin f.tables /\ (f.app # "zero" \/ f.tables # {}) -> "foreign_database"
      [] "meta" \notin f.tables -> "none"
      [] f.app # "simplex" -> "foreign_database"
      [] ReadIdentity(f) # "none" -> ReadIdentity(f)
      [] CheckDecodable(f) # "none" -> CheckDecodable(f)
      [] OTHER -> LayoutRefusal([f EXCEPT !.version = 1])

\* create_store(): one transaction.
CreateStore(f) == [StoreOf(SchemaVersion, {}) EXCEPT !.wal = f.wal]

\* Mutant of ApplyMigrations: the archives of the old version are not indexed.
MutantApplyMigrations(f) ==
    IF f.version >= SchemaVersion THEN f
    ELSE [f EXCEPT !.version = SchemaVersion, !.tables = @ \cup {"index"}]
\* apply_migrations(): the tables, the backfill and the version in one transaction.
ApplyMigrations(f) ==
    IF f.version >= SchemaVersion THEN f
    ELSE [f EXCEPT !.version = SchemaVersion, !.tables = @ \cup {"index"}, !.indexed = f.archives]

(***************************************************************************)
(* The writer.                                                             *)
(***************************************************************************)
SfInit ==
    /\ sfDisk \in FoundFiles
    /\ sfJson \in BOOLEAN
    /\ sfBackend = "none" /\ sfStage = "idle" /\ sfCreated = FALSE /\ sfDeaths = 0
    /\ sfWas = sfDisk /\ sfRefusal = "none" /\ sfReady = FALSE

Configure(selection) ==
    /\ sfBackend = "none"
    /\ sfBackend' = SelectBackend(sfJson, sfDisk.present, selection)
    /\ UNCHANGED <<sfDisk, sfJson, sfStage, sfCreated, sfDeaths, sfWas, sfRefusal, sfReady>>

BeginCall ==
    /\ sfStage = "idle" /\ sfBackend = "sqlite"
    /\ sfStage' = "create" /\ sfCreated' = FALSE
    /\ sfWas' = sfDisk /\ sfRefusal' = "none" /\ sfReady' = FALSE
    /\ UNCHANGED <<sfDisk, sfJson, sfBackend, sfDeaths>>

\* Mutant of Refuse: the catch block removes whatever lies at the path.
MutantRefuse(reason) ==
    /\ sfDisk' = Nothing
    /\ sfStage' = "idle" /\ sfRefusal' = reason
    /\ UNCHANGED <<sfJson, sfBackend, sfCreated, sfDeaths, sfWas, sfReady>>
\* The catch block: only a file this call created is removed.
Refuse(reason) ==
    /\ sfDisk' = IF sfCreated THEN Nothing ELSE sfDisk
    /\ sfStage' = "idle" /\ sfRefusal' = reason
    /\ UNCHANGED <<sfJson, sfBackend, sfCreated, sfDeaths, sfWas, sfReady>>

StepTo(stage) ==
    /\ sfStage' = stage
    /\ UNCHANGED <<sfJson, sfBackend, sfDeaths, sfWas, sfRefusal, sfReady>>

\* O_CREAT | O_EXCL, after a last look for JSON state.
CreateFile ==
    /\ sfStage = "create"
    /\ \/ /\ ~sfDisk.present /\ sfJson /\ Refuse("json_state")
       \/ /\ ~sfDisk.present /\ ~sfJson
          /\ sfDisk' = Blank /\ sfCreated' = TRUE /\ StepTo("open")
       \/ /\ sfDisk.present /\ StepTo("inspect") /\ UNCHANGED <<sfDisk, sfCreated>>

WriterInspects ==
    /\ sfStage = "inspect"
    /\ IF InspectStore(sfDisk) # "none" THEN Refuse(InspectStore(sfDisk))
       ELSE StepTo("open") /\ UNCHANGED <<sfDisk, sfCreated>>

OpenStore ==
    /\ sfStage = "open"
    /\ IF OpenRefusal(sfDisk) # "none" THEN Refuse(OpenRefusal(sfDisk))
       ELSE /\ sfDisk' = IF "meta" \in sfDisk.tables THEN ApplyMigrations(sfDisk) ELSE CreateStore(sfDisk)
            /\ StepTo("pragmas") /\ UNCHANGED sfCreated

\* apply_connection_pragmas() and ensure_access_indexes(); then the mutation.
ConfigureConnection ==
    /\ sfStage = "pragmas"
    /\ sfDisk' = [sfDisk EXCEPT !.wal = TRUE]
    /\ sfStage' = "idle" /\ sfReady' = TRUE
    /\ UNCHANGED <<sfJson, sfBackend, sfCreated, sfDeaths, sfWas, sfRefusal>>

\* An I/O error or a lock that is not granted in time.
CallFails == sfStage # "idle" /\ Refuse("storage_error")

WriterDies ==
    /\ sfStage # "idle" /\ sfDeaths < MaxDeaths
    /\ sfDeaths' = sfDeaths + 1 /\ sfStage' = "idle" /\ sfCreated' = FALSE
    /\ UNCHANGED <<sfDisk, sfJson, sfBackend, sfWas, sfRefusal, sfReady>>

SfNext ==
    \/ \E s \in {"auto", "json", "sqlite"} : Configure(s)
    \/ BeginCall \/ CreateFile \/ WriterInspects \/ OpenStore \/ ConfigureConnection
    \/ CallFails \/ WriterDies
SfSpec == SfInit /\ [][SfNext]_sfVars

(***************************************************************************)
(* What must hold.                                                         *)
(***************************************************************************)
\* A call that fails leaves the file it found: refused for what it is, the file is
\* bit for bit the one before the call; failed later, it is at most upgraded.  Only
\* a file the call itself created is removed (write, open_store).
RefusedUntouched ==
    sfStage = "idle" /\ sfRefusal # "none" =>
        \/ sfDisk = sfWas
        \/ sfRefusal = "storage_error" /\ sfWas.present /\ sfDisk = ApplyMigrations(sfWas)

\* What a read-only inspection accepts is whole, whenever it looks and wherever the
\* writer died: every table of its version, and from version 2 on every archive
\* indexed (inspect_store, apply_migrations, create_store).
AcceptedIsWhole ==
    sfDisk.present /\ InspectStore(sfDisk) = "none" =>
        /\ {"meta", "layout"} \subseteq sfDisk.tables
        /\ sfDisk.version >= 2 => sfDisk.indexed = sfDisk.archives

\* The store grows only in a file that was absent or was already this session's:
\* the empty file a death between its creation and its schema leaves is rejected
\* like any other, and no second history starts beside state.json (write, README).
NothingAdopted ==
    sfReady => /\ sfWas.present => sfWas.app = "simplex" /\ sfWas.session = "ours"
               /\ ~sfJson
=============================================================================
