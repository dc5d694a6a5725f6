--------------------------- MODULE SqliteSnapshot ---------------------------
(***************************************************************************)
(* The relational form of a conversation (src/persistence/src/             *)
(* sqlite_snapshot.cpp, the tables of sqlite_schema.cpp) and the archive   *)
(* index built over it (sqlite_archive_index.cpp, sqlite_archive_query.cpp)*)
(* One store holds the graph of the current state and the graphs of the    *)
(* archived ones; replacing or pruning a graph is a DELETE of its header   *)
(* that cascades, and SQLite hands the freed row numbers out again.        *)
(*                                                                         *)
(* Enums, timestamps and JSON texts are opaque; a source is one chunk here *)
(* (ArchiveText cuts it).  Which archives retention picks is SqliteStore's *)
(* question: any of them may be pruned.                                    *)
(***************************************************************************)
EXTENDS Integers, Sequences, FiniteSets, SequencesExt, FiniteSetsExt

CONSTANTS
    SnapStates,     \* the conversation states that are saved
    ArchiveNames,   \* archive identities: random, never drawn twice
    Absent          \* std::nullopt in a state, NULL in a column

ASSUME SnapshotConstants == Absent \notin ArchiveNames \cup Nat

VARIABLES
    snDb,           \* the committed rows
    snWork,         \* the rows as the open transaction sees them
    snStage,        \* the next statement group of the transaction, or "idle"
    snCall,         \* what the transaction is for
    snDrawn,        \* the archive identities used so far
    snHeld,         \* history: a search hit the model still holds
    snRefused       \* history: a constraint of the schema ended a transaction

snVars == <<snDb, snWork, snStage, snCall, snDrawn, snHeld, snRefused>>

NoHit == [archive |-> Absent, source |-> Absent, body |-> Absent]
NoSnapCall == [op |-> "none", state |-> Absent, archive |-> Absent]

(***************************************************************************)
(* The tables.                                                             *)
(***************************************************************************)
Tables == {"snapshots", "sections", "tools", "turns", "steps", "messages", "contents",
           "costs", "invokes", "returns", "loops", "pending", "archives", "chunks"}
EmptyTables == [t \in Tables |-> {}]

\* INTEGER PRIMARY KEY without AUTOINCREMENT: one above the largest row number in
\* the table, so the number of a deleted last row is used again.
NextRow(rows) == 1 + Max({0} \cup {r.id : r \in rows})

Numbered(s, Row(_, _)) == {Row(i - 1, s[i]) : i \in DOMAIN s}
Column(v) == IF v = Absent THEN <<>> ELSE <<v>>

\* The uniqueness and reference constraints of the layout.
UniqueOver(rows, Key(_)) == \A r, s \in rows : Key(r) = Key(s) => r = s
LayoutHolds(d) ==
    /\ UniqueOver({r \in d.snapshots : r.kind = "current"}, LAMBDA r : r.kind)
    /\ UniqueOver(d.snapshots, LAMBDA r : r.id)
    /\ UniqueOver(d.turns, LAMBDA r : <<r.snap, r.ord>>)
    /\ UniqueOver(d.steps, LAMBDA r : <<r.turn, r.ord>>)
    /\ UniqueOver({r \in d.messages : r.slot = "user_input"}, LAMBDA r : r.turn)
    /\ UniqueOver({r \in d.messages : r.slot # "user_input"}, LAMBDA r : <<r.step, r.slot, r.ord>>)
    /\ UniqueOver(d.contents, LAMBDA r : <<r.message, r.slot, r.ord>>)
    /\ UniqueOver(d.invokes, LAMBDA r : <<r.message, r.ord>>)
    /\ UniqueOver(d.pending, LAMBDA r : <<r.snap, r.ord>>)
    /\ UniqueOver(d.loops, LAMBDA r : r.snap)
    /\ \A a \in d.archives : \E r \in d.snapshots : r.id = a.snap

\* Mutant of DeleteSnapshot: the content rows are not reached by the cascade.
MutantDeleteSnapshot(d, id) ==
    [d EXCEPT !.snapshots = {r \in @ : r.id # id},
              !.sections = {r \in @ : r.snap # id}, !.tools = {r \in @ : r.snap # id},
              !.turns = {r \in @ : r.snap # id}, !.steps = {r \in @ : r.snap # id},
              !.messages = {r \in @ : r.snap # id},
              !.loops = {r \in @ : r.snap # id}, !.pending = {r \in @ : r.snap # id}]

\* DELETE FROM snapshots, with every ON DELETE CASCADE below the header.
DeleteSnapshot(d, id) ==
    LET Gone == {r.id : r \in {m \in d.messages : m.snap = id}} IN
    [d EXCEPT !.snapshots = {r \in @ : r.id # id},
              !.sections = {r \in @ : r.snap # id}, !.tools = {r \in @ : r.snap # id},
              !.turns = {r \in @ : r.snap # id}, !.steps = {r \in @ : r.snap # id},
              !.messages = {r \in @ : r.snap # id},
              !.contents = {r \in @ : r.message \notin Gone},
              !.costs = {r \in @ : r.message \notin Gone},
              !.invokes = {r \in @ : r.message \notin Gone},
              !.returns = {r \in @ : r.message \notin Gone},
              !.loops = {r \in @ : r.snap # id}, !.pending = {r \in @ : r.snap # id}]

(***************************************************************************)
(* Encoding.  A message keeps its lists by ordinal, and a flag of its own  *)
(* tells an empty list of calls from an absent one.                        *)
(***************************************************************************)
\* insert_snapshot_header(); "truth" is a history column no statement reads.
InsertHeader(d, id, kind, s) ==
    [d EXCEPT !.snapshots = @ \cup {[id |-> id, kind |-> kind, extras |-> Column(s.extras), truth |-> s]}]

InsertPromptSections(d, snap, s) ==
    [d EXCEPT !.sections = @ \cup
        Numbered(s.sections, LAMBDA o, v : [snap |-> snap, ord |-> o, body |-> v])]
InsertTools(d, snap, s) ==
    [d EXCEPT !.tools = @ \cup Numbered(s.tools, LAMBDA o, v : [snap |-> snap, ord |-> o, name |-> v])]

InsertContent(message, slot, optional) ==
    IF optional = Absent THEN {}
    ELSE {[message |-> message, slot |-> slot, ord |-> 0, raw |-> optional]}
InsertInvokeQuery(message, calls) ==
    IF calls = Absent THEN {}
    ELSE Numbered(calls, LAMBDA o, v : [message |-> message, ord |-> o, call |-> v])

\* Mutant of MessageRow: the flag follows the rows instead of the optional.
MutantMessageRow(id, snap, turn, step, slot, ord, m) ==
    [id |-> id, snap |-> snap, turn |-> turn, step |-> step, slot |-> slot, ord |-> ord,
     invokesPresent |-> m.invokes # Absent /\ m.invokes # <<>>]
MessageRow(id, snap, turn, step, slot, ord, m) ==
    [id |-> id, snap |-> snap, turn |-> turn, step |-> step, slot |-> slot, ord |-> ord,
     invokesPresent |-> m.invokes # Absent]

InsertMessage(d, snap, turn, step, slot, ord, m) ==
    LET id == NextRow(d.messages) IN
    [d EXCEPT
        !.messages = @ \cup {MessageRow(id, snap, turn, step, slot, ord, m)},
        !.contents = @ \cup Numbered(m.body, LAMBDA o, v :
                               [message |-> id, slot |-> "body", ord |-> o, raw |-> v])
                       \cup InsertContent(id, "reasoning", m.reasoning),
        !.invokes = @ \cup InsertInvokeQuery(id, m.invokes),
        !.costs = @ \cup {[message |-> id, cost |-> c] : c \in Range(Column(m.cost))},
        !.returns = @ \cup {[message |-> id, result |-> r] : r \in Range(Column(m.result))}]

\* One agent step: its row, the response, and one message per returned call.
InsertStep(d, snap, turn, ord, step) ==
    LET id == NextRow(d.steps)
        row == [id |-> id, snap |-> snap, turn |-> turn, ord |-> ord, seq |-> step.seq,
                returnsPresent |-> step.returns # Absent]
        answered == InsertMessage([d EXCEPT !.steps = @ \cup {row}],
                                  snap, Absent, id, "model_response", 0, step.response)
        Returns == IF step.returns = Absent THEN <<>> ELSE step.returns
    IN FoldLeft(LAMBDA e, i : InsertMessage(e, snap, Absent, id, "invoke_return", i - 1, Returns[i]),
                answered, [i \in DOMAIN Returns |-> i])

InsertTurns(d, snap, turns) ==
    LET Turn(e, i) ==
            LET id == NextRow(e.turns)
                opened == InsertMessage(
                    [e EXCEPT !.turns = @ \cup {[id |-> id, snap |-> snap, ord |-> i - 1]}],
                    snap, id, Absent, "user_input", 0, turns[i].user)
                steps == turns[i].steps
            IN FoldLeft(LAMBDA f, j : InsertStep(f, snap, id, j - 1, steps[j]),
                        opened, [j \in DOMAIN steps |-> j])
    IN FoldLeft(Turn, d, [i \in DOMAIN turns |-> i])

InsertLoop(d, snap, loop) ==
    IF loop = Absent THEN d
    ELSE [d EXCEPT !.loops = @ \cup {[snap |-> snap, phase |-> loop.phase]},
                   !.pending = @ \cup Numbered(loop.pending, LAMBDA o, v :
                                          [snap |-> snap, ord |-> o, result |-> v])]

InsertGraph(d, snap, s) ==
    InsertLoop(InsertTurns(InsertTools(InsertPromptSections(d, snap, s), snap, s), snap, s.turns),
               snap, s.loop)

(***************************************************************************)
(* Decoding: ordered SELECTs, and rows that contradict each other are      *)
(* corruption.  A result is <<>> (corrupt) or <<state>>.                   *)
(***************************************************************************)
\* Mutant of OrderedBy: the rows come back in the order they are stored.
MutantOrderedBy(rows) == SetToSortSeq(rows, LAMBDA a, b : a.ord > b.ord)
OrderedBy(rows) == SetToSortSeq(rows, LAMBDA a, b : a.ord < b.ord)
MapRows(rows, Value(_)) == [i \in DOMAIN rows |-> Value(rows[i])]
FirstOr(rows, Value(_)) == IF rows = {} THEN Absent ELSE Value(CHOOSE r \in rows : TRUE)

ContentRows(d, m, slot) == OrderedBy({c \in d.contents : c.message = m.id /\ c.slot = slot})
InvokeRows(d, m) == OrderedBy({i \in d.invokes : i.message = m.id})
MessageSound(d, m) ==
    /\ m.invokesPresent \/ InvokeRows(d, m) = <<>>
    /\ Len(ContentRows(d, m, "reasoning")) <= 1

DecodeMessage(d, m) ==
    [body |-> MapRows(ContentRows(d, m, "body"), LAMBDA r : r.raw),
     reasoning |-> FirstOr(Range(ContentRows(d, m, "reasoning")), LAMBDA r : r.raw),
     invokes |-> IF m.invokesPresent THEN MapRows(InvokeRows(d, m), LAMBDA r : r.call) ELSE Absent,
     cost |-> FirstOr({c \in d.costs : c.message = m.id}, LAMBDA r : r.cost),
     result |-> FirstOr({c \in d.returns : c.message = m.id}, LAMBDA r : r.result)]

\* message_for_slot() and decode_invoke_returns().
UserMessages(d, t) == {m \in d.messages : m.turn = t.id /\ m.slot = "user_input"}
Responses(d, p) == {m \in d.messages : m.step = p.id /\ m.slot = "model_response"}
ReturnRows(d, p) == OrderedBy({m \in d.messages : m.step = p.id /\ m.slot = "invoke_return"})
StepRows(d, t) == OrderedBy({p \in d.steps : p.turn = t.id})

TurnsSound(d, rows) ==
    \A t \in rows :
        /\ Cardinality(UserMessages(d, t)) = 1
        /\ \A m \in UserMessages(d, t) : MessageSound(d, m)
        /\ \A p \in Range(StepRows(d, t)) :
               /\ Cardinality(Responses(d, p)) = 1
               /\ \A m \in Responses(d, p) \cup Range(ReturnRows(d, p)) : MessageSound(d, m)
               /\ p.returnsPresent \/ ReturnRows(d, p) = <<>>

DecodeStep(d, p) ==
    [seq |-> p.seq,
     response |-> DecodeMessage(d, CHOOSE m \in Responses(d, p) : TRUE),
     returns |-> IF p.returnsPresent THEN MapRows(ReturnRows(d, p), LAMBDA m : DecodeMessage(d, m))
                 ELSE Absent]
DecodeTurns(d, snap) ==
    MapRows(OrderedBy({t \in d.turns : t.snap = snap}), LAMBDA t :
        [user |-> DecodeMessage(d, CHOOSE m \in UserMessages(d, t) : TRUE),
         steps |-> MapRows(StepRows(d, t), LAMBDA p : DecodeStep(d, p))])

DecodeLoop(d, snap) ==
    FirstOr({l \in d.loops : l.snap = snap}, LAMBDA l :
        [phase |-> l.phase,
         pending |-> MapRows(OrderedBy({p \in d.pending : p.snap = snap}), LAMBDA r : r.result)])

DecodePrompt(d, snap) == MapRows(OrderedBy({x \in d.sections : x.snap = snap}), LAMBDA r : r.body)
DecodeTools(d, snap) == MapRows(OrderedBy({x \in d.tools : x.snap = snap}), LAMBDA r : r.name)

DecodeSnapshot(d, header) ==
    IF ~TurnsSound(d, {t \in d.turns : t.snap = header.id}) THEN <<>>
    ELSE <<[extras |-> IF header.extras = <<>> THEN Absent ELSE header.extras[1],
            sections |-> DecodePrompt(d, header.id), tools |-> DecodeTools(d, header.id),
            turns |-> DecodeTurns(d, header.id), loop |-> DecodeLoop(d, header.id)]>>

(***************************************************************************)
(* The archive index.  archive_text_sources names a source by its message  *)
(* row inside the archive's identity; index_archive() copies the sources   *)
(* of one archive into the chunk table.                                    *)
(***************************************************************************)
SourceKind(m) ==
    CASE m.slot = "user_input" -> "user"
      [] m.slot = "model_response" -> "assistant"
      [] OTHER -> "tool_body"

MessageSources(d, a, m) ==
    {[archive |-> a.id, source |-> <<"body", m.id, c.ord>>, kind |-> SourceKind(m), body |-> c.raw] :
        c \in {c \in d.contents : c.message = m.id /\ c.slot = "body"}}
    \cup {[archive |-> a.id, source |-> <<"call", m.id, i.ord>>, kind |-> "tool_call", body |-> i.call] :
        i \in {i \in d.invokes : i.message = m.id}}
    \cup {[archive |-> a.id, source |-> <<"result", m.id, 0>>, kind |-> "tool_result", body |-> r.result] :
        r \in {r \in d.returns : r.message = m.id}}
ArchiveTextSources(d, a) ==
    UNION {MessageSources(d, a, m) : m \in {m \in d.messages : m.snap = a.snap}}
    \cup {[archive |-> a.id, source |-> <<"pending", 0, p.ord>>,
           kind |-> "pending_tool_result", body |-> p.result] : p \in {p \in d.pending : p.snap = a.snap}}

IndexArchive(d, a) == [d EXCEPT !.chunks = @ \cup ArchiveTextSources(d, a)]

\* Mutant of ReadSource: the source is looked up by its message row alone.
MutantReadSource(d, archive, source) ==
    LET found == {x \in UNION {ArchiveTextSources(d, a) : a \in d.archives} : x.source = source}
    IN IF found = {} THEN <<>> ELSE <<(CHOOSE x \in found : TRUE).body>>
\* read(): the source a hit named, or <<>> when it was pruned.
ReadSource(d, archive, source) ==
    LET found == {x \in UNION {ArchiveTextSources(d, a) : a \in {a \in d.archives : a.id = archive}} :
                     x.source = source}
    IN IF found = {} THEN <<>> ELSE <<(CHOOSE x \in found : TRUE).body>>

(***************************************************************************)
(* The transactions.                                                       *)
(***************************************************************************)
SnInit ==
    /\ snDb = EmptyTables /\ snWork = EmptyTables
    /\ snStage = "idle" /\ snCall = NoSnapCall
    /\ snDrawn = {} /\ snHeld = NoHit /\ snRefused = FALSE

\* A statement group applied to the transaction's view; a constraint it breaks
\* throws, and the Transaction guard rolls everything back.
Statement(d, next) ==
    IF LayoutHolds(d) THEN /\ snWork' = d /\ snStage' = next /\ UNCHANGED <<snCall, snRefused>>
    ELSE /\ snWork' = snDb /\ snStage' = "idle" /\ snCall' = NoSnapCall /\ snRefused' = TRUE

\* checkpoint(), begin_archive() and prune_archives() open the transaction.
BeginWrite(call) ==
    /\ snStage = "idle"
    /\ call.archive \notin snDrawn \/ call.op = "prune"
    /\ call.op = "prune" => \E a \in snDb.archives : a.id = call.archive
    /\ snDrawn' = IF call.op = "archive" THEN snDrawn \cup {call.archive} ELSE snDrawn
    /\ snCall' = call /\ snWork' = snDb
    /\ snStage' = IF call.op = "prune" THEN "prune" ELSE "clear"
    /\ UNCHANGED <<snDb, snHeld, snRefused>>

\* Mutant of CurrentHeaders: the lookup misses the current snapshot.
MutantCurrentHeaders(d) == {}
CurrentHeaders(d) == {r \in d.snapshots : r.kind = "current"}

\* replace_current(): the old graph goes, and the new one takes its number.
ReplaceCurrent ==
    /\ snStage = "clear"
    /\ LET old == CurrentHeaders(snWork)
           id == IF old = {} THEN NextRow(snWork.snapshots) ELSE (CHOOSE r \in old : TRUE).id
           cleared == IF old = {} THEN snWork ELSE DeleteSnapshot(snWork, id)
       IN Statement(InsertGraph(InsertHeader(cleared, id, "current", snCall.state), id, snCall.state),
                    IF snCall.op = "archive" THEN "freeze" ELSE "commit")
    /\ UNCHANGED <<snDb, snDrawn, snHeld>>

\* store_archive_snapshot(), the archives row and its index, in the same transaction.
FreezeArchive ==
    /\ snStage = "freeze"
    /\ LET id == NextRow(snWork.snapshots)
           row == [id |-> snCall.archive, snap |-> id]
           frozen == InsertGraph(InsertHeader(snWork, id, "archive", snCall.state), id, snCall.state)
       IN Statement(IndexArchive([frozen EXCEPT !.archives = @ \cup {row}], row), "commit")
    /\ UNCHANGED <<snDb, snDrawn, snHeld>>

\* Mutant of DropArchive: the chunks of the archive outlive it.
MutantDropArchive(d, name) == [d EXCEPT !.archives = {a \in @ : a.id # name}]
\* DELETE FROM archives, whose cascade takes the chunks.
DropArchive(d, name) ==
    [d EXCEPT !.archives = {a \in @ : a.id # name}, !.chunks = {c \in @ : c.archive # name}]

PruneArchive ==
    /\ snStage = "prune"
    /\ LET row == CHOOSE a \in snWork.archives : a.id = snCall.archive
       IN Statement(DeleteSnapshot(DropArchive(snWork, row.id), row.snap), "commit")
    /\ UNCHANGED <<snDb, snDrawn, snHeld>>

CommitWrite ==
    /\ snStage = "commit"
    /\ snDb' = snWork /\ snStage' = "idle" /\ snCall' = NoSnapCall
    /\ UNCHANGED <<snWork, snDrawn, snHeld, snRefused>>

\* A full disk, an I/O error or the death of the process before the commit.
AbandonWrite ==
    /\ snStage # "idle"
    /\ snWork' = snDb /\ snStage' = "idle" /\ snCall' = NoSnapCall
    /\ UNCHANGED <<snDb, snDrawn, snHeld, snRefused>>

\* search() on a read-only connection: a hit is a chunk of a listed archive.
SearchHit ==
    /\ \E c \in snDb.chunks :
           /\ \E a \in snDb.archives : a.id = c.archive
           /\ snHeld' = [archive |-> c.archive, source |-> c.source, body |-> c.body]
    /\ UNCHANGED <<snDb, snWork, snStage, snCall, snDrawn, snRefused>>

SnNext ==
    \/ \E s \in SnapStates : BeginWrite([op |-> "checkpoint", state |-> s, archive |-> Absent])
    \/ \E s \in SnapStates, a \in ArchiveNames : BeginWrite([op |-> "archive", state |-> s, archive |-> a])
    \/ \E a \in ArchiveNames : BeginWrite([op |-> "prune", state |-> Absent, archive |-> a])
    \/ ReplaceCurrent \/ FreezeArchive \/ PruneArchive
    \/ CommitWrite \/ AbandonWrite \/ SearchHit

SnSpec == SnInit /\ [][SnNext]_snVars

(***************************************************************************)
(* What must hold.                                                         *)
(***************************************************************************)
\* Whatever was saved, archived, replaced and pruned around it, every committed
\* snapshot decodes, and to the very state it was given: absent and empty lists of
\* calls and results told apart, every list in its order, and no row of an earlier
\* owner of a reused row number picked up (encode_snapshot, decode_snapshot).
SnapshotsDecode == \A h \in snDb.snapshots : DecodeSnapshot(snDb, h) = <<h.truth>>

\* The search index holds the text sources of the retained archives and nothing
\* else: no chunk of a pruned archive, none of the current state, none missing
\* (index_archive, the cascades of archive_chunks).
IndexMatchesArchives ==
    snDb.chunks = UNION {ArchiveTextSources(snDb, a) : a \in snDb.archives}

\* A hit the model kept from an earlier search still names its text: a later read
\* returns what the search showed or says the archive was pruned, never the text of
\* another message that inherited the row number (sqlite_archive_index.cpp).
HitsStayTrue ==
    ReadSource(snDb, snHeld.archive, snHeld.source) \in {<<>>, <<snHeld.body>>}

\* The schema's constraints never refuse a save or a prune: what a graph leaves
\* behind never collides with the next one (replace_current, prune_archives).
NeverRefused == ~snRefused
=============================================================================
