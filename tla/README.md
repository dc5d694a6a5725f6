# Simplex: a TLA+ verification project

Simplex runs language-model agents. A C++ **worker** process owns one conversation: it talks to a
model provider, executes the tool calls the model makes, persists the conversation and streams
events. A TypeScript **Hub** launches workers, receives their event streams, shows them to an
operator and answers their confirmation requests. A **manager** prepares the directories workers run
in. This directory holds TLA+ models of these programs' own logic, the TLC runs that check them on
small instances, and TLAPS proofs of the central safety properties for every instance.

`PROJECT.json` is the index: components, runs, the mutants that show each property can fail, the
source lines behind each definition, hazards, findings and theorems.

## 1. Inventory

| Component | State | Operations | What is hard | What makes it correct |
|---|---|---|---|---|
| Agent loop (`loop/`) | conversation, phase, buffered results, commit sequence, stop token | `run`: recover, admit, exchange, batch, project, edit hooks, checkpoint, finish | stop from another thread at any await; hooks and checkpoints that throw; re-entry after any of these | no call runs twice; results tell the truth; every effect is accounted for; the next invocation can recover |
| Context statistic hook (`loop/intrinsic`) | token totals and the checkpoint of what they include | bootstrap, reconcile, account | history edits, rollback, compaction, restart from an older snapshot | every response counted once |
| Tool registry (`tools/`) | sets, routing table, batch in progress | add, remove, `execute` | tools that throw, speak of another call or cannot be named; serial and parallel calls | one record per call under its own id; what is advertised can be called |
| Worker host (`core/application.cpp`) | host phase, `storage_failed`, `run_saved`, snapshot, compaction counters | `consume`, `save`, `compact`, `run_with_auto_compact`, `cancel`, `shutdown`, `restore_state` | process death, writes with unknown outcome, cancellation during compaction | the snapshot accounts for every effect; `durable` is true when reported; every request ends |
| Event outbox (`core/event_outbox.hpp`) | queue, slot and byte ledgers, omission counters | admit, replace, send, pause, close | a slow or dead peer, congestion, shutdown | lifecycle events are admitted; accounting is exact; admission and shutdown make progress |
| Hub connection (`io/`, `intercom/stable_websocket_client.hpp`) | session tasks, write queue, four inbound queues, backoff | `run`, `on_text`, workers, `stop` | tasks ending in any order, full queues, throwing handlers | `run()` is a fence; no frame vanishes; `run()` never hangs |
| Remote calls (`intercom/`, `hub_remote_call`) | one exchange, its timer and stop | exchange, fetch, tell the model; export a conversation | a lost reply after the Hub acted; a file appearing at the output path | no mutation is repeated or misreported; exports are whole |
| Persistence (`persistence/`, `utils/sqlite`) | authoritative state, archives of compactions, revision, search index | load, checkpoint, reserve/begin/commit/finish/prune, search, read, open, upgrade | crash between steps, power loss, unknown commits, reused row numbers | committed is durable, not committed changed nothing, archives and hits tell the truth |
| Confirmation (`core/confirmation.cpp`, `hub/src/worker/`) | scope, exchange, prompt, identity, active run | confirm, exchange, decide, retire | several unordered sockets, deadlines on both sides, restarts on both sides | fails closed; nothing is approved after a cancellation or a stop; every prompt ends |
| Endpoint (`endpoint/`) | framing buffer, attempt, producer and consumer | SSE framing, `complete`, `fetch`, retry | bytes cut anywhere, late failures, cancellation between attempts | one attempt's stream, whole; bounded retries; the call ends |
| Providers (`llm/`) | slots of the items being streamed, generation knobs | fold events, assemble, build requests | interleaved and anonymous increments, missing results | each item's text once; results under the right id |
| Process control and sessions (`process/`, `process_io/`, process toolset) | child, pipes, captures, input queue, session table | spawn, read, write, signal, poll, shutdown | exit racing output, a descendant holding a pipe, concurrent calls | joined on return; output complete and handed out once; no orphan |
| PTC runtime (ptc toolset) | daemon epoch, pending executions | initialize, execute, shutdown | a client that dies while the daemon goes on | never "not run" for what may have run |
| Plugins (`extensions/`, loaders) | library handles, contexts, routes | scan, verify, mint, release | teardown in any order | code outlives its objects; routes are stable |
| Session form (`dataclass/`, `load/`) | JSON documents, prompt sections | encode, check, decode, render, restore | documents of older releases and other hands | read back as written; the cached prompt prefix survives |
| Text tools (`textedit/`, `utils/fileio`) | scan position, candidate file | read, edit, preview, replace | bytes cut anywhere; other writers | same answer as reading the whole text; the edit is exact |
| Event buses (`utils/`) | slots per event type | subscribe, disconnect, clear, publish | change during publication, throwing handlers | order; no live handler left out |
| Manager (`manager/`) | control records, locks, directories | prepare, fork, refresh, capture, remove | managers dying and sharing a tree with a worker | ready is whole; retired is for ever |
| Hub supervisor (`hub/src/launch`) | reservation, process record, dispatch journal, `hub.json` | start, exit, stop escalation, force kill, removal, `stopAll`, restore | exits racing signals, lost transports, reused pids, death of the Hub between journal, spawn and `hub.json` | one worker per session; a stop that succeeds is true; no stranger is signalled |
| Hub subagents (`hub/src/subagents`) | family graph, lifecycles, budgets | spawn, freeze, restore | stop of a family while children start | nothing runs under a stopped parent |
| Wire protocol (`protocol/`) | – (tables of fields) | write, read, forward, publish the schema | two programs interpret one table | the codec accepts what the schema admits and writes what it can read |
| Panel, HTTP, skills, install, configuration, logging | – | – | – | data conversion and presentation; see section 6 |

How they interact: the worker host calls `loop::run` and supplies its checkpoints (`save`) and hooks;
the loop calls the model through the endpoint, whose stream a provider's reader folds, and the
registry, which calls `confirm` before a tool that needs approval; hooks and control handlers put events
into the outbox, whose sender feeds the WebSocket client; the Hub's event connection turns envelopes
into identity and active run, against which the Hub judges confirmation connections. The host saves
through the `StateStore` interface, which two backends implement.

## 2. Modules

| Module | Models |
|---|---|
| `AgentLoop` | `loop.cpp` and `registry.hpp::execute` as the loop sees it |
| `Worker` (EXTENDS `AgentLoop`) | `application.cpp` around the loop: each loop action becomes a host step, each checkpoint a `save()` |
| `AgentLoopProofs`, `WorkerProofs`, `ConfirmationProofs` | theorems about these modules |
| `EventOutbox` | `event_outbox.hpp`, `event_admission.hpp`, its users, the client's write queue |
| `Confirmation` | worker and Hub side of tool confirmation |
| `StateStore` | the promise of `persistence/store.hpp`: the abstract specification of both backends |
| `SqliteStore` | `sqlite_store.cpp` and the worker's calls; implements `StateStore` (`Contract`) |
| `JsonStore` | `json_store.cpp`, `json_archive.cpp`, `atomic_write.cpp`, `memory.md`; implements `StateStore` (`JsonContract`) |
| `SqliteSnapshot`, `ArchiveText` | rows of a snapshot, archive index and search; chunks, previews and pages of an archived text |
| `StoreFile`, `SqlTransactions` | creating, opening, upgrading, inspecting the file; transactions, statements and budgets of a connection |
| `SseFraming`, `ModelExchange` | framing of an event stream; one model call with retries and cancellation |
| `ResponsesStream`, `ChatStream`, `Conversation` | the two stream readers; the request built from a conversation |
| `ContextStatistic` | the token totals through edits, compaction and restart |
| `SessionJson`, `PromptTemplate` | JSON form of a session; stability tiers of the prompt |
| `WireCodec` | the records of `protocol/wire.hpp`, their codec and the JSON Schema published from them |
| `IoClient`, `RemoteCall`, `ExportFile` | connection to the Hub; remote calls; exports |
| `ProcessHandle`, `ProcessSessions` | one child with its pipes; the session table and its tools |
| `PtcRuntime`, `Plugins`, `ToolCalls`, `EventBuses`, `Allocations` | see the inventory |
| `Supervisor` | the Hub's supervision of one session's worker, with its journal and its restart |
| `TextLines`, `TextRead`, `FileEdit`, `EditPreview` | line structure (operators), reads, edits and previews of a text |
| `MCModel`, `MCHost`, `MCStorage`, `MCProgress` | sums: one run checks several components |
| `StoreContract` | what the two backends promise together, and the proofs that they, their file and a connection keep it |
| `ModelProofs`, `HostProofs`, `ProcessProofs` | theorems about components of the first two sums |

**Sums.** Components that do not share state are checked side by side rather than multiplied: in a sum
the variable `part` names one component, `Init` starts that one and leaves the others standing still,
and a step is a step of that component. The reachable states are the union of the components'
own, so nothing is lost against separate runs; a property of a sum is the conjunction of the named
properties of the components it lists, each under its `part` (those of the stores, their file, the connection
and the export without it: these stand in their initial states while another part runs). `PROJECT.json` lists one mutant per
property of a run; every named part has its own mutant operator next to the definition it would
spoil, and each of those but one breaks the sum's property too (the exception, `MutantIgnoresTransport`
for `SendsFit`, needs more steps than the sum's run explores quickly and was found in `EventOutbox` alone).

What an action is: in every module a step lasts from one suspension, lock release or system call to
the next, so that every other actor may come in between exactly where the code lets it. Message
bodies, prompts, wording and log lines are left out; texts are short sequences over the few
characters that the code tells apart.

### AgentLoop
A conversation is a sequence of entries: user messages (`seq = 0`) and model steps with their commit
sequence, calls and results. `pc` is the place in `run()`; each suspension point and each reading of
the stop token starts a new action, because `RequestStop` may come from another thread in between.
`entered` and `replayed` are history: which `<<commit sequence, call>>` pairs a tool function was
entered for, and which were entered again. All exits of `run()` go through `Finish`/`RunFinished`,
as in the source. Only "a call ran, was rejected or was skipped" is kept of a result. An edit hook may
remove any entries of a settled history, not all of them, and puts a turn of its own in front (`Edit`):
what `validate_state_edit()` accepts. A hook that reorders steps or makes up new ones is not modelled.

### Worker
`host` is the place in `consume()` and its callees; `disk` the snapshot. A write succeeds, fails
leaving the old snapshot, or fails leaving either one: this is the contract that `StateStore` states.
`Crash` may happen at any time, `Restart` is `restore_state()`. With `Sqlite` the commit of a compaction
may have an unknown outcome and then latches, without it the JSON backend's outcomes apply. `attempts`
and `successes` are the counters of `run_with_auto_compact()`; `began` is history, the commit sequence at which the
request was admitted, so that what it has cost can be stated. Not
modelled: the restore policy `never`, duplicate request ids, option changes, read-only operations and a
failure while a lifecycle event is emitted (`EventOutbox` shows when that can happen).

### EventOutbox, IoClient, RemoteCall, Confirmation
Everything but the socket runs on one strand. In `EventOutbox` events are class, replacement identity,
size and number, and `host` follows `consume()` from `ready` to shutdown as far as it produces
lifecycle events. `IoClient` has the reader and the writer of a session as separate tasks whose
results are received in any order, and a worker per queue. `RemoteCall` keeps what the Hub really
carried out (`rcCarried`) beside what the model was told (`rcSaid`). In `Confirmation` each id has a
place on the worker (`ask`), a connection (`sock`), the answer on it (`wire`) and a place in the Hub's
`exchange()` (`pc`); a separate FIFO stream carries run events. A continuation of a promise runs
before the next event of Node's loop, so what `exchange()` does without waiting belongs to the action
that resumes it; `SeeClose` is separate, because no listener exists while the identity is held.

### Persistence
`SqliteStore` splits `write()` into the creation of the file, the schema transaction, the mutation's
transaction and the sync of the directory; `JsonStore` has every file operation of its own. The
process or the machine may die between any two; `kept`/`jsonKept` is what a power loss leaves. The
refinements map the content to the state (`SqliteStore`: with its archives) and the uncertainty flag
to the latch of the contract. `SqliteSnapshot` works on real row numbers, because SQLite hands freed ones out
again. `SqlTransactions` assumes of its callers what the persistence code does: after a failed
statement no other one is run in that scope. A failed `COMMIT` may have been applied there as in `SqliteStore`
(`sqApplied` is the history of those writes), and its caller is told that the outcome is unknown. `ArchiveText` scales the sizes (4096 and 1024 bytes in
the code) and leaves out the blanking of NUL bytes, the source kinds of pending and returned calls and the filter by
content type. `FileEdit` gives every outside change a new identity; two changes within one tick of the
file system's clock, which real stamps cannot tell apart, are not modelled. `EditPreview` scales its display limits and keeps that the shown part of a row is longer than its two halves' slack.

### Model side
`SseFraming` compares what the handler publishes with a reading of the whole text since the stream
began. `ModelExchange` has the retry engine, the producer, the consumer and the rendezvous between
them; a delta carries its attempt, so mixing attempts is visible. `ResponsesStream` has a server that
names items by id, index, both or neither. Items known by their index only are ordered by arrival of
their slot, as in the code, and no property says more of them. `ContextStatistic` carries a history of all responses inside the
state it saves and restores; the sum of cache hits is subject to the same checked addition as the other figures.
`SessionJson` has every member of a session's document and models decoders as partial; one optional member holding JSON `null` is the only value that does
not come back as it was written, since `null` reads as absent. `WireCodec` reads one table of fields
twice, as the codec and as the publisher of the schema, and compares the documents the two accept after alterations of
single members; in two places the codec is looser by design, and the comparison says so: `null` for an open value, and
`1.0` for an integer. Of what `manifest.cpp` publishes, the canonical contract and its fingerprint are left out.
`ContextStatistic` leaves out the figures that are only displayed (window, ratio, estimate, average).

### Host side
`ProcessHandle` includes the arm race of the pidfd and a descendant that keeps the output open.
`Plugins` leaves out that libraries are opened with `RTLD_NODELETE`: ownership alone must keep the
code mapped. `ToolCalls` has the registry's dispatch, in which only the intrinsic sets settle and check the arguments
(an extension's tools complete theirs or do not), and, as a second machine, the loading of a declaration: it checks that
an accepted schema can be met; how a branch narrows the root's
properties is compared as far as `check_branch` does. `EventBuses` has signals2 as external. `Allocations` has managers, a worker and their flocks;
removal's additional check of the session lock and of the PTC daemon's lock is left out (it only refuses more).
`Supervisor` is one event loop, so only the death of the Hub comes between two lines without an await.
A start, its record, its command and its worker carry the number of its lifecycle. Of a plain or managed
local launch the command is the worker; of a remote one it is the transport, and what the target excludes is the
lease of `Allocations`. `restart()` is a stop followed by a start; the family's `cascade()` keeps one
stop per session. `spBlind` marks a Hub restored from a `hub.json` that misleads it: a plain worker
that was never written there, and finding 4; the safety properties hold for every other history.

## 3. Runs

| Run | Checks | Instance |
|---|---|---|
| `loop_safety` | `Continuable`, `HonestResults`, `EffectsAccounted`, `OnlySettledRemoved` | two calls, two exchanges, inputs up to four entries, throwing hooks and history edits |
| `worker_crash` | `NoReplay`, `DiskAccounts`, `DiskReopens`, `EvidenceFrozen` | SQLite, a crash at every instant, one restart |
| `worker_compact` | `ReportsHonest`, `NoToolsAfterStorageFailure`, `RequestSettles` (with `CompactionsBounded` and `ResponsesBounded`) | JSON, two automatic compactions of a request, fair executors |
| `confirmation` | `AnswersHonest`, `NoLateApproval`, `NobodyWaitsForever` | one confirmation, two processes, two event connections, a Hub restart, an ordinary session or a subagent that asks or approves |
| `progress` | `OutboxProgress` (`AdmissionProgress` and `ShutdownCompletes`), `HandleProgress` (process), `CallEnds` (model call), `RunMovesOn` (Hub connection), `ExchangeEnds` (remote call) | the smallest instance of each with fairness |
| `model` | `EventsAreTheText`, `OneWholeAnswer`, `AssembledAsSent`, `RenderedFaithfully`, `TokensCountedOnce`, `WrittenIsReadBack`, `HubTrafficAccounted`, `AllocationsSound`, `WorkersSupervised` | texts of six bytes, three attempts, two items or calls, three commits, two managers, two starts and two deaths of the Hub |
| `host` | `OutboxKeepsAccounts`, `ProcessesAccounted`, `ProgramReportsHonest`, `PluginRoutesSound`, `CallsAnswered`, `SubscribersServed` | two callers, four plugin files, batches of two calls, three handlers |
| `storage` | `TextIsExact`, `ArchivesAccount`, `BackendsKeepContract`, `ArchiveSearchTrue`, `FileIsAsReported`, `ExportsSound` | texts of up to four bytes, three archives, two crashes, two archives searched |
| `outbox_error_flood` | `LifecycleAdmitted` is violated | the real eight slots, five malformed signals |
| `confirmation_ghost` | `RetiredOnDisconnect` is violated | one confirmation |
| `confirmation_superseded` | `OwnerIsNotRefused` is violated | one confirmation, two processes |
| `supervisor_recovery` | `SettledIsOver` is violated | a managed local session, two starts, one death of the Hub |

A property of a sum names its parts in the comment and the conjuncts; each part is stated and
explained in its component's module. The refinements are in `BackendsKeepContract`: every behaviour of
`SqliteStore` and of `JsonStore`, with crashes and power loss, is one of `StateStore`.

**Bounds.** Two calls are enough to have one run and one not; two exchanges to leave the loop
by its limit and by its head; two commit sequences to confuse two responses, three to add a compaction
between them. One restart suffices for replay, because a restarted process starts from an arbitrary
reachable snapshot; the theorems remove the bound. In `worker_compact` a request may cost two
compactions, hence eight responses (two segments of two exchanges, each with its summary, and a last
segment); requests are admitted up to sequence one (`MaxAdmission`) and the sequence is bounded at ten,
so that neither that bound nor any other of the model ends a request: only the code's own counters do.
Without the comparison with `max_auto_compactions` the run fails. The outbox has one ordinary and one metadata slot,
so the second event already finds it full, and exactly as many lifecycle slots as a request needs
(five), so that one more would be refused. Three archive ids with a retention of one give a current,
a superseded and an interrupted attempt at once; two crashes let the reconciliation of one crash be
lost in the next. One confirmation suffices for the worker-side races, and two processes for those
between connections; with `MaxPrompts = 1` the capacity is reached by one prompt. Six bytes hold an event, its blank line and the partial tail of another, with chunks
of at most two so that a terminator is cut. A call may be retried twice, so a third attempt sees
what two earlier ones left, and two calls reuse one reader. Text terminators have one, two and three
bytes (`LF`, `CR LF`, `E2 80 A8`), and a text of three bytes holds the longest; previews have limits small
enough for every one to bite, under the assumption `ContextMax < ShownHalf`, which the code's numbers
(20 and 24) satisfy and on which it depends. Queues of the Hub connection hold one item, so the second
frame overflows. Process input and output is counted up to three events, the captured output limit is one.
Two managers and one worker are the parties that can meet at one allocation, in a layout where one lies
within the other and one where they are apart. Two starts give the supervisor an old and a new
lifecycle to confuse, two deaths a Hub that restores what a restored Hub wrote.
Deadlock checking is off in all runs but `loop_safety`: there the process may be down for good, the
component is finished, or a counter has reached its bound.

**Fairness.** Weak fairness only. `Worker`: coroutines are resumed, the storage executor answers, tools
return, and a model exchange ends because the endpoint has timeouts and can be cancelled
(`WorkerFairness`: `Application::run` spawns the worker on its strand, where each of these completes a
suspended operation); nothing makes clients send or cancel. `EventOutbox`: strand tasks run, the shutdown
timer fires and a run ends; the peer's reading is a premise of `AdmissionProgress` only and is not assumed
for `ShutdownCompletes`. `ProcessHandle`: strand tasks, the watcher and timers; nothing of the
child or of descendants. `ModelExchange`, `IoClient`, `RemoteCall`: everything local, and operations
that were aborted, which then fail; nothing of the server's replies, of frames or of the Hub.
`Confirmation`: timers fire, aborts and close events are delivered, the Hub's continuations run;
nothing is assumed of the operator, of the delivery of a reply or of the event connection, and a
machine may vanish without closing anything.

## 4. Findings

1. **Error replies share the lifecycle reserve** (`outbox_error_flood`). After a storage failure
   `classify_event()` makes every `error` a lifecycle event, also replies to malformed signals, while
   its comment reserves that for the terminal diagnostic. Five such replies in the window of a failed
   compaction fill the eight slots and the diagnostic is refused.
2. **Prompt for a closed connection** (`confirmation_ghost`). `exchange()` listens for the close of its
   connection only after the identity hold. If the worker cancelled during the hold, the prompt is
   still opened and stays on the panel until its deadline. `docs/core/worker-protocol.md` says prompts
   are retired on disconnect.
3. **Identity of a superseded connection** (`confirmation_superseded`). `attach()` leaves the identity
   live with the previous worker; until the first envelope of the new connection its own confirmations
   are denied as a mismatch, where the comments promise that they are held.
4. **Recovery settles a live worker** (`supervisor_recovery`). `adopt()` compares `session.lifecycleId`
   with the journal to keep an older process from settling a newer dispatch. But a start sets the new
   lifecycle before it awaits the manager and replaces `session.process` only afterwards. A `hub.json` written in
   between holds the new lifecycle with the old process; if the Hub dies after the spawn and before
   the next write, its successor finds the old pid gone and journals the live worker's dispatch as
   completed, after which another one may be dispatched.

Seen while modelling, without a run of its own:
- `staged_replace.cpp:395` takes the reference of its final check from a fresh `fstat`, so a write in
  place between the comparison and the check is overwritten without a conflict; `replace_existing_file()`
  compares with the earlier identity and does notice it.
- `responses/reader.cpp:357` orders items by their index; items whose increments carried only the index and
  that never had a lifecycle event keep the order in which their slots were opened. `NamedItemsInOrder`
  therefore speaks of the others.
- `poll_process` with release consumes and removes sessions one after the other; one with a latched failure
  ends the call, and the output of those before it is in no answer, while the toolset's README says all
  selected sessions are reported. `OutputOnce` exempts this output (`lost`) and claims nothing about that poll.
- A launcher that daemonizes declares a pid file, but the exit of its wrapper ends the record, and
  `stop()` and `forceKill()` then answer `already-exited`, although the header of `supervisor.ts` calls such
  a worker stoppable; and `targetPid()` trusts a stale pid file when it first sees it.
- `pump()` publishes the end of a stream only after the TLS shutdown has returned, so a server that never
  answers it keeps `next()` waiting until the caller cancels; `CallEnds` covers what follows.
- The message handler of the Hub connection is not retried when it throws, except when what it throws is a
  `system_error`, which looks like a transport failure.
- A subscription to the synchronous bus may race its `clear()`: taken at that moment, it
  belongs to the discarded signal and hears nothing.
- The SQLite backend refuses a database file that is still empty; a death right after its creation leaves one.
- `docs/core/worker-protocol.md` says a held prompt appears as `awaiting-identity`, but the prompt object
  is created only after the hold; and the limit of 64 prompts is compared before the hold only.

## 5. Proofs

All theorems hold for every value of the constants that satisfies the assumptions of the modules
(`LoopConstants`, `WorkerConstants`, `ConfirmationConstants`, `IoAssumption`, `SupervisorAssumption`,
`MgConstants`, `PluginBounds`, `OutboxConstants`, ...: types and non-zero limits only) and for unbounded
histories. Two theorems have a hypothesis of their own, named below. In each case the properties of the run
are not inductive as they stand; what is told here is what had to be added.

*AgentLoop.* `TypeOK` is not inductive: to know that a projection covers a step's calls one must know where
the control is. `Control` adds `PhaseAt` (which phase each place of `run()` has), `Shape` (only the last entry
may be unanswered, and when) and `Batch` (what the running batch holds). `ControlInvariant` gives
`TypeCorrect`, `AlwaysReopenable` and `CleanExits`. `Ledger` says that commit sequences increase and stay
below the counter (`Ordered`), that answered steps report exactly what was entered (`Honest`), that the open
step's results do (`Current`), and that nothing was replayed; a fresh response has a number nobody entered,
which is why `NoReplay` needs the order. It gives `NeverReplayed`, `CommitIdentityHolds`, `ResultsAreHonest`,
`EffectsAreAccounted`; `AlwaysContinuable` combines the three that make a conversation usable for the next
invocation. `UnsettledStay` is an action property shown from `Control`.

*Worker.* `WorkerInv` keeps `Control`, keeps `Ledger` while a process is up, and adds `Sound(disk, entered)`:
the snapshot is well formed and is a ledger for the calls that ever ran. The link is `Behind`: a batch runs
only behind the snapshot that announced it, so what the snapshot misses is marked uncertain in it. `HostFlags`
ties the storage latch to the stop token. From it follow `NeverReplayedAcrossRestarts`, `DiskAlwaysAccounts`,
`DiskAlwaysReopens`, `StorageFailureStopsTools`, and the action properties `EvidenceStaysFrozen` and
`SequenceNeverBack`; `MemoryAhead` says a process with sound storage is never behind its snapshot.
`ReportsAlwaysHonest` has an invariant of its own (`ReportInv`): `Promise` says at which places of `consume()`
the verdict "saved" already obliges the snapshot to be the conversation, so that the report may repeat it
later. `CompactionsAlwaysBounded` is the safety half of `RequestSettles`, for every limit: `Counters` says that
an attempt is counted before it begins and a success only after it, and `Account` is the bill of a request: each
attempt has paid for the segment that called for it and for its own summary, so that what the current
segment may cost (`MaxExchanges`) is all that is added to `attempts * (MaxExchanges + 1)`.

*Confirmation.* An approval is handed from the operator to the connection, to the reply that was read, to the
decision. `ConfirmInv` states, per confirmation, that each place holds it only while the one before still does
(`HubSide`, `WorkerSide`). The Hub's part of a step is proved once for any record an exchange may move to
(`Fine`), and every operation of `exchange()` is shown to yield a fine one. It gives `AnswersAlwaysHonest`
and, as an action property, `ApprovalsNeverLate`.

*Connection and remote calls* (`HubTrafficAlwaysAccounted`). `IoInv` says where the two tasks of a session can
be at each place of `run()`: outside a session both are off; in a stopping one the reader is cancelled, so it
takes no frame that it could lose; a fault stays among the results until the join examines them. Together with
the equation `FramesAccounted` this is inductive. `RcInv` bounds how far an attempt's request can be
(`RcReach`) and what the Hub has then done for it (`RcOnce`), from which what the caller is told follows
(`RcSays`). The hypothesis `PlainHandlers` excludes message handlers that throw the transport's own exception
type (`system_error`): with one, the property is false of the code, as section 4 says.

*Model call* (`AnswersAlwaysWhole`). That an answer is one stream cannot be seen from the accumulators alone:
at any time some deltas are still in the chunk that was read, one may be at the rendezvous and one in the
consumer's hand. `MxPipe` says that these places hold consecutive numbers of the current attempt, so that what is
folded next continues what is folded (`MxFold`). It holds only until the consumer ends, since a producer that is
stopped drops what it has; what is claimed after that rests on the reader's own flags. `MxFlags` says what each
combination of them means and where the call can be with it: the failed consumer is the faulted or cancelled one,
no self-aborted or faulted reader is ever classified, hence none goes round to another request. `MxCounts`
ties attempts, waits, connects and the next backoff together, and `MxRead` says that whatever is
published has a known end.

*Supervisor* (`WorkersAlwaysSupervised`). That a session never has two workers is a chain: a worker that is
alive is the one the journal has an open dispatch for (managed launches), or the one the session's record says
is running (plain ones); a start is refused while there is such a dispatch or record; and whatever closes it -
an exit event, the poll, a stop, the restore - has seen the end of that very worker. `SpOwned` is that chain;
`SpHeld` (who holds the reservation, and which numbers are in use), `SpTargets` (what an exit or a pid says of
a worker) and `SpJournal` are what the steps need of it. `SpOwned` is claimed only while `spBlind` is false;
finding 4 is where it would break. The theorem covers any number of starts and deaths of the Hub.

*Manager service* (`AllocationsAlwaysSound`). A claim is decided by looking at the records around it, and the
look is worth something only while nobody else can claim there. `MgInv` says what each request holds at its
step (`MgHolds`): the top of the directory tree until its claim is published, an exclusive lease from then on;
and what it may rely on because of that (`MgSees`): that no record lies around its directory, that the record
still has the status of its own last step, that the directory and the reference it made are there. Two more
facts close the induction: the directory around a recorded allocation exists (`MgOuter`), so a claim that
finds its directory missing has no allocation inside; and a worker holds its lease (`MgLeased`). `MgErases`
is the lemma one would want to know: a removal never deletes another allocation's record. The assumption
`MgConstants` states what requests are made of, and that directories nest at most once, which is what
`TreeChain` models of the lock. `RetiredForEver` is an action property shown from the same invariant.

*Programs and buses.* `ProgramsReportedHonestly` rests on `PcInv`: ids are fresh, the source of the current
one was or was not handed over, and behind an unknown outcome nothing leads back to a submission.
`SubscribersAlwaysServed` rests on `EvInv`: of every handler that was connected when a publication began and
still is, the walk holds it among those to come, those served or those that threw (`Owed`), in increasing
order of its place (`Walking`).

*Extensions* (`PluginRoutesAlwaysSound`). `PlInv` says that the dispatcher's name table is an index of its
contexts (`PlIndex`), so that the map from counted modules to their names is a bijection (`PlCounted`), and
that a toolset is there and not being destroyed while it is loaded or a tool of it exists (`PlPinned`): a tool
holds no library handle itself, only its toolset. That the first of several modules with one name wins is the
least element of the set of hits (`LeastNumber`), again from the well-founded minimum. The assumption
`PluginBounds` says that the module files are finitely many.

*Processes* (`ProcessesAlwaysAccounted`). Of one child, `HpFence` says what each place of a shutdown has behind it:
the capture is complete before the join, no pump is active after it, and whoever returns has seen the watcher and
the waiter gone and, without an error, the child reaped. `HpCapture` ties what is kept to what was read: a capture
that is not marked as cut is all of it, one that is cut and yet ended naturally has used up the shared budget, and
an end of file means that nothing of the written bytes is missing. `InSound` says that the inputs delivered are a
prefix of those admitted and that, until the pump ends or is stopped, what is in flight and queued is the rest
(`Continues`), so that "Ended" can mean that all were delivered. Of the session table, `PsInv` has the frame of each
call by its place (`PsTypes`), the capacity with reservations counted (`PsCapacity`: a launch that fails gives its
reservation back exactly once), that a child that was ever started is in the table, over, or still being started by
a call (`PsReach`), and `PsOutput`: every byte behind a cursor was handed out, or is held by exactly one call, or
was lost with one that failed. The fact that makes it inductive is that a release takes the output only behind the
fence, where the end of the output is fixed: without it the child could still write between the take and the
removal. Assumptions: `HandleConstants`, `SessionConstants`.

*Tool calls* (`CallsAlwaysAnswered`). `TcInv` says that the name table is an index of the listed toolsets and no
two of them share a name (`TcRoutes`), which calls have an answer and of which shape (`TcFiled`: none before the
call is answered, and afterwards one that carries the call's own id and, if a hook named one, the cause it named),
that a call that may not run beside others is alone in flight (`TcAlone`), and that a settled batch is complete.
An exception passes three layers that correlate it, the tool set's, the registry's and the record's; the lemmas
`CorrelatedIs` and `CorrelateIs` show that each leaves the id of the call and the cause that was named first, so
that no order of the layers matters. For schemas, `TsInv` gives for every accepted declaration a call that meets
it: the witness is a listed value, a bound, or zero. Assumptions: `ToolCallBounds`, `SchemaBounds`.

*Event outbox* (`OutboxAlwaysAccounts`, `OutboxAlwaysKeepsAccounts`). `ObInv` ties bytes, slots and sequence
numbers to the queue (`Accounted`, proved for an append, a removal at the head and a replacement in place), and
bounds `Net`, what outbox and transport hold together with the event that both count counted once. A bound on
the outbox alone would not do: `enqueue()` reserves the bytes a second time before `complete_send()` releases
the first reservation. The lemmas on sums (`BytesAppend`, `BytesTail`, `BytesReplace`) are induction over the
length of a sequence, by the least counterexample. That no lifecycle event is refused needs `ObReserve`: at
each place of `consume()` at most `Load` of them can be held, because `wait_for_admission()` leaves nothing of
an earlier request, and other events never push the bytes beyond the soft limit. The hypothesis
`LifecycleSlots >= MaxWindowErrors + 4` (input admitted, run started, a milestone and the end of the run, and
every malformed signal answered behind a failed commit) cannot be dropped: the code's eight slots leave room
for four such signals, and finding 1 is the fifth. What does not depend on it is stated without it.

*Persistence: the contract.* `SqliteKeepsContract` and `JsonKeepsContract` are the refinements of `StateStore`,
step by step: every action is a call, the application of a write, a return, a reopening or a stutter of the
abstract store. For SQLite the invariant `SqInv` says what may have happened to the database at each stage of
`write()`: before the transaction nothing, and a mutation that is applied is a legal one (`ChangeLegal`),
whatever the reconciliation of interrupted attempts added to it; that the caller's idea of its attempt agrees
with the row it left (`SqCaller`); and that an archive is "succeeded" exactly when its replacement is among
the states that were made current (`SoundContent`). For JSON, `JsInv` separates the snapshot's `StagedWrite`
from those of archives and `memory.md`, and shows that an unknown outcome leaves the worker where it writes no
more. `BackendsAlwaysKeepContract` is the two together.

*Persistence: the archives.* `SqliteAlwaysAccounts` adds to `SqInv` the types (`SqTyped`, `SqFiles`) and
`SqRetained`: that retention is within its limit when a prune returns. The bound is a counting argument: the
sequence numbers order the archives strictly (`Ordered`), so the archives that a prune keeps beyond the
protected ones are at most the oldest of them and those above it, and that one was kept because they fitted
(`PrunedSmall`). It needs that a finite set of numbers has a maximum (`FiniteMax`), which is induction over
finite sets; it is done with the well-founded minimum (`WFMin`) of a set of counterexamples, which the library
states without an operator parameter. `JsonAlwaysAccounts` rests on `JsAll`: which file is written at each
place of `compact()` and with which content (`JsStaged`), that a directory has no payload but the conversation
its attempt froze and that retention and what it must leave alone are disjoint (`JsDirs`), and how snapshot,
prior snapshot, live state and replacement follow each other in what they name and in their generation
(`JsLineage`). `keptMemo <= memo` is the part that one would not expect: without it the sync of a new snapshot
could not be shown to stay ahead of a `memory.md` that a power loss brings back. `ArchivesAlwaysAccount`
is the property of the run.

*Persistence: the file and the connection.* `FilesAlwaysAsReported` is two inductions. `SfInv` follows the file
through the stages of `write()`: until `open_store()` writes, it is the one found, or the blank one that this call
created; after it, the found one upgraded (and inspected before), or a store of its own making; and from version 2
on every file has its archives indexed (`IndexWhole`). `ConnInv` says who owns a transaction that is open: the
guard of the current scope, or nobody, and then the connection is not usable any more. Two more facts
close it: what is open is what succeeded in this scope, and a guarded scope in which SQLite rolled back on its
own runs no further statement, so that its writes cannot slip into autocommit. By the first of them a failed
`COMMIT` that was applied has put the whole transaction into the file.

*Exports* (`ExportsAlwaysSound`). `XfInv` says that the document being written is that of the snapshot from which
the first page was cut: the Hub serves that one or has lost it, and the pages written are its prefix. The
assumption `PagesAssumption` says that a conversation was saved from the start and has a page.

*Only model-checked*: all liveness (outside the prover's reach), and those invariants whose subject is what a
computation over a sequence or a document yields: `EventsAreTheText`, `AssembledAsSent`, `RenderedFaithfully`,
`TokensCountedOnce`, `WrittenIsReadBack`, `TextIsExact` and `ArchiveSearchTrue`. They compare `SseFraming`, the
readers, the token totals, `SessionJson`, `WireCodec`, `PromptTemplate`, `TextRead`, `FileEdit` and
`ArchiveText` with a reference for every input of a bounded size; what they compute for all inputs would need
induction over data, which is outside the prover's reach too.

## 6. Not modelled, and the plan

Next, in this order:

1. The subagent family (`cascade`, `freeze`, `restore`, budgets) on top of `Supervisor`, and launchers
   that daemonize.
2. The rest of the Hub's registry (request tracking, sequence statistics, transcripts).

Left out for good: panel, HTTP routing, skills, installation and the web interface (presentation and
file copying), configuration and
its YAML, logging, build and packaging; they convert data or draw it and keep no state that the
properties above could relate. `archive_memory` and `modality_assist` format the answers of parts that
are modelled. The Python daemon of programmatic tool calling, SQLite, signals2, Node's event loop, the
operating system and the network are external and appear through the behaviour the code relies on.
