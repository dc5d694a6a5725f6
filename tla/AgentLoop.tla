------------------------------ MODULE AgentLoop ------------------------------
(***************************************************************************)
(* loop::run (src/loop/src/loop.cpp): one invocation recovers an earlier   *)
(* batch, admits an input, exchanges messages with the model and settles   *)
(* one complete tool batch per exchange.  The host calls it again and      *)
(* again on the same conversation State.                                   *)
(*                                                                         *)
(* The conversation is flattened to a sequence of entries.  An entry with  *)
(* seq = 0 is a user message and opens a turn; any other entry is a model  *)
(* step carrying its commit_sequence, the ids of its tool calls and, once  *)
(* projected, one result per call.  A result is known by how the call      *)
(* ended: it "ran", it was "rejected" while the registry settled it, or it *)
(* was "skipped" by the loop.  Texts, prompts and token counts are left    *)
(* out; the order in which a batch enters its calls is left open.          *)
(*                                                                         *)
(* Every suspension point and every reading of the stop token starts a     *)
(* step, because another thread may request the stop between any two.      *)
(* Every hook may throw.  A checkpoint is an await on the host: standalone *)
(* it succeeds or throws, in Worker it is the durable save.                *)
(***************************************************************************)
EXTENDS Integers, Sequences, FiniteSets

CONSTANTS
    Calls,          \* tool-call ids a model response may carry
    MaxExchanges,   \* Options::max_exchanges
    Bounded,        \* FALSE: max_exchanges is absent
    AutoCompact,    \* Options::auto_compact_threshold # 0
    EditHooks,      \* the EditOn... events have subscribers
    MaxSequence,    \* largest committed_response_sequence (2^64 - 1 in the code)
    MaxEntries      \* bound on the conversation: no input is offered beyond it

ASSUME LoopConstants ==
    /\ MaxExchanges \in Nat \ {0}
    /\ Bounded \in BOOLEAN
    /\ AutoCompact \in BOOLEAN
    /\ EditHooks \in BOOLEAN
    /\ MaxSequence \in Nat
    /\ MaxEntries \in Nat

VARIABLES
    (* the persisted part of State *)
    turns, status, phase, completed, committed, pending,
    (* the frame of one invocation *)
    pc, res, message, stop, hookError, large, running, records,
    (* history: calls whose tool function was entered, and entered again *)
    entered, replayed

stateVars == <<turns, status, phase, completed, committed, pending>>
frameVars == <<res, message, stop, hookError, large, running, records>>
effectVars == <<entered, replayed>>
loopVars == <<stateVars, pc, frameVars, effectVars>>

How == {"ran", "rejected", "skipped"}
Phases == {"Ready", "Model", "Tools", "Projection", "Blocked"}
RunStatuses ==
    {"Completed", "Cancelled", "ExchangeLimit", "AutoCompactRequired", "Failed"}
\* What the host has seen of the last invocation: a RunResult or an exception.
Outcomes == RunStatuses \cup {"None", "RecoveryRequired", "CheckpointThrew"}
Locations ==
    {"idle", "entry", "recover", "admit", "started", "input", "head", "context",
     "model", "committed", "ckptTools", "dispatch", "tools", "ckptResults",
     "project", "edit", "ckptStep", "decide", "finish", "ckptRun"}

Partial == UNION {[D -> How] : D \in SUBSET Calls}
NoResults == [c \in {} |-> "ran"]
Entry == [seq : Nat, calls : SUBSET Calls, rets : Partial]
UserEntry == [seq |-> 0, calls |-> {}, rets |-> NoResults]
Step(n, C) == [seq |-> n, calls |-> C, rets |-> NoResults]
Last == turns[Len(turns)]

Answered(e) == DOMAIN e.rets = e.calls

\* validate_state_structure(): only the last step may be unanswered, only on a
\* recovery boundary, and a projection needs one result per outstanding call.
ValidStructure(s, ph, pend) ==
    \A i \in 1..Len(s) :
        \/ Answered(s[i])
        \/ /\ i = Len(s)
           /\ ph \in {"Tools", "Blocked", "Projection"}
           /\ DOMAIN s[i].rets = {}
           /\ ph = "Projection" => DOMAIN pend = s[i].calls

(***************************************************************************)
(* Leaving the body of run().                                              *)
(***************************************************************************)
\* An exception caught by the run body after admission.
Fail == /\ pc' = "finish"
        /\ res' = "Failed"

\* Breaking out of the exchange loop with a terminal status.
Leave(s) == /\ pc' = "finish"
            /\ res' = s

\* Returning to the host without having admitted the invocation.
Refuse(s) == /\ pc' = "idle"
             /\ res' = s

(***************************************************************************)
(* Entry, recovery and admission.                                          *)
(***************************************************************************)
\* The host invokes run() with a user message, an invalid one, or none, and with
\* a fresh stop token or the one an earlier invocation already used.
Invoke(m) ==
    /\ pc = "idle"
    /\ m = "user" => Len(turns) < MaxEntries
    /\ pc' = "entry"
    /\ message' = m
    /\ stop' \in {FALSE, stop}
    /\ hookError' = FALSE
    /\ large' = FALSE
    /\ running' = {}
    /\ records' = NoResults
    /\ UNCHANGED <<stateVars, res, effectVars>>

BadRequest == message = "bad" \/ (message = "none" /\ turns = <<>>)
Uncertain == phase \in {"Tools", "Blocked"}

Validate ==
    /\ pc = "entry"
    /\ CASE BadRequest                -> Refuse("Failed")
         [] ~BadRequest /\ Uncertain  -> Refuse("RecoveryRequired")
         [] ~BadRequest /\ ~Uncertain ->
                IF stop THEN Refuse("Cancelled") ELSE pc' = "recover" /\ UNCHANGED res
    /\ UNCHANGED <<stateVars, message, stop, hookError, large, running, records, effectVars>>

\* project(): every buffered result becomes a tool message of the last step.
Answer(e, r) == [seq |-> e.seq, calls |-> e.calls, rets |-> r]
ProjectedOnto(s, r) == [s EXCEPT ![Len(s)] = Answer(s[Len(s)], r)]
Projected == ProjectedOnto(turns, pending)

\* Mutant of Project: the projected results stay in the buffer.
MutantProjectKeepsBuffer ==
    /\ turns' = Projected
    /\ phase' = "Ready"
    /\ UNCHANGED <<status, completed, committed, pending>>

Project ==
    /\ turns' = Projected
    /\ pending' = NoResults
    /\ phase' = "Ready"
    /\ UNCHANGED <<status, completed, committed>>

\* The checks that guard recovery: buffered results belong to a projection.
Recoverable ==
    /\ phase = "Projection" <=> DOMAIN pending # {}
    /\ ValidStructure(turns, phase, pending)

\* Results buffered by an earlier invocation are projected, never re-executed.
Recover ==
    /\ pc = "recover"
    /\ \/ /\ Recoverable
          /\ phase = "Projection"
          /\ Project
          /\ pc' = "admit"
          /\ UNCHANGED res
       \/ /\ Recoverable
          /\ phase # "Projection"
          /\ pc' = "admit"
          /\ UNCHANGED <<stateVars, res>>
       \/ /\ ~Recoverable \/ phase = "Projection"   \* or integrating a result threw
          /\ Refuse("Failed")
          /\ UNCHANGED stateVars
    /\ UNCHANGED <<message, stop, hookError, large, running, records, effectVars>>

\* Mutants of Admit: the commit counter starts over; the status is the old outcome.
MutantAdmitRecounts ==
    /\ pc = "admit"
    /\ ~stop
    /\ status' = "Running"
    /\ phase' = "Ready"
    /\ completed' = 0
    /\ committed' = 0
    /\ pending' = NoResults
    /\ pc' = "started"
    /\ UNCHANGED <<turns, res, message, stop, hookError, large, running, records, effectVars>>

MutantAdmitKeepsOutcome ==
    /\ pc = "admit"
    /\ ~stop
    /\ status' = res
    /\ phase' = "Ready"
    /\ completed' = 0
    /\ pending' = NoResults
    /\ pc' = "started"
    /\ UNCHANGED <<turns, committed, res, message, stop, hookError, large, running, records,
                   effectVars>>

Admit ==
    /\ pc = "admit"
    /\ IF stop
         THEN /\ Refuse("Cancelled")
              /\ UNCHANGED stateVars
         ELSE /\ status' = "Running"
              /\ phase' = "Ready"
              /\ completed' = 0
              /\ pending' = NoResults
              /\ pc' = "started"
              /\ UNCHANGED <<turns, committed, res>>
    /\ UNCHANGED <<message, stop, hookError, large, running, records, effectVars>>

\* RunStarted and BeforeInput may throw; BeforeInput may spoil the message.
Start ==
    /\ pc = "started"
    /\ \/ Fail
       \/ /\ pc' = IF message = "user" THEN "input" ELSE "head"
          /\ res' = "ExchangeLimit"
    /\ UNCHANGED <<stateVars, message, stop, hookError, large, running, records, effectVars>>

\* A stop seen here keeps the input out; InputCommitted may throw after the commit.
Input ==
    /\ pc = "input"
    /\ \/ /\ stop
          /\ pc' = "head"
          /\ UNCHANGED <<turns, res>>
       \/ /\ ~stop
          /\ turns' = Append(turns, UserEntry)
          /\ (pc' = "head" /\ UNCHANGED res) \/ Fail
       \/ /\ ~stop
          /\ Fail
          /\ UNCHANGED turns
    /\ UNCHANGED <<status, phase, completed, committed, pending, message, stop,
                   hookError, large, running, records, effectVars>>

(***************************************************************************)
(* One exchange with the model.                                            *)
(***************************************************************************)
LimitReached == Bounded /\ completed >= MaxExchanges

\* The loop condition, the first stop check and the BeforeModel hook.
LoopHead ==
    /\ pc = "head"
    /\ CASE LimitReached          -> Leave("ExchangeLimit")
         [] ~LimitReached /\ stop -> Leave("Cancelled")
         [] OTHER                 -> (pc' = "context" /\ UNCHANGED res) \/ Fail
    /\ UNCHANGED <<stateVars, message, stop, hookError, large, running, records, effectVars>>

\* The hook's context is committed and the exchange begins.
Context ==
    /\ pc = "context"
    /\ IF stop
         THEN Leave("Cancelled") /\ UNCHANGED phase
         ELSE phase' = "Model" /\ pc' = "model" /\ UNCHANGED res
    /\ UNCHANGED <<turns, status, completed, committed, pending, message, stop,
                   hookError, large, running, records, effectVars>>

\* operation_aborted, with the stop requested: a cooperative cancellation.
ModelAborted ==
    /\ pc = "model"
    /\ stop
    /\ phase' = "Ready"
    /\ Leave("Cancelled")
    /\ UNCHANGED <<turns, status, completed, committed, pending, message, stop,
                   hookError, large, running, records, effectVars>>

\* The request failed, the response is malformed or carries duplicate ids,
\* integrating it threw, or the commit sequence is exhausted.
ModelFailed ==
    /\ pc = "model"
    /\ Fail
    /\ UNCHANGED <<stateVars, message, stop, hookError, large, running, records, effectVars>>

\* integrate_response(): the step and its identity are committed together, also
\* when the stop was requested while the response was on its way.
ModelResponded(C, tokens) ==
    /\ pc = "model"
    /\ turns # <<>>
    /\ committed < MaxSequence
    /\ committed' = committed + 1
    /\ turns' = Append(turns, Step(committed + 1, C))
    /\ phase' = "Ready"
    /\ completed' = completed + 1
    /\ large' = tokens
    /\ pc' = "committed"
    /\ UNCHANGED <<status, pending, res, message, stop, hookError, running, records, effectVars>>

\* ModelCommitted and BeforeToolBatch run; a failure with calls outstanding is
\* kept until the calls are closed.  ToolDispatchCheckpoint may throw too.
HasCalls == Last.calls # {}

Committed ==
    /\ pc = "committed"
    /\ \/ /\ HasCalls
          /\ phase' = "Tools"
          /\ hookError' \in BOOLEAN
          /\ (pc' = "ckptTools" /\ UNCHANGED res) \/ Fail
       \/ /\ ~HasCalls
          /\ Leave("Completed") \/ Fail
          /\ UNCHANGED <<phase, hookError>>
    /\ UNCHANGED <<turns, status, completed, committed, pending, message, stop,
                   large, running, records, effectVars>>

(***************************************************************************)
(* One tool batch.                                                         *)
(***************************************************************************)
\* A checkpoint awaits the host, which may itself request the stop meanwhile.
AwaitHost == stop' \in {stop, TRUE}

\* Checkpoint::BeforeTools returned, or threw with the batch marked uncertain.
BeforeTools(ok) ==
    /\ pc = "ckptTools"
    /\ IF ok THEN pc' = "dispatch" /\ UNCHANGED res ELSE Fail
    /\ AwaitHost
    /\ UNCHANGED <<stateVars, message, hookError, large, running, records, effectVars>>

\* The batch returned: its results are buffered, ToolResultsCheckpoint may throw.
ResultsReturned(r) ==
    /\ pending' = r
    /\ phase' = "Projection"
    /\ (pc' = "ckptResults" /\ UNCHANGED res) \/ Fail
    /\ UNCHANGED <<turns, status, completed, committed>>

Skipped(C) == [c \in C |-> "skipped"]

\* The last stop check: a batch is dispatched completely or not at all.
Dispatch ==
    /\ pc = "dispatch"
    /\ IF stop \/ hookError
         THEN ResultsReturned(Skipped(Last.calls))
         ELSE pc' = "tools" /\ UNCHANGED <<stateVars, res>>
    /\ UNCHANGED <<message, stop, hookError, large, running, records, effectVars>>

File(c, how) ==
    records' = [d \in DOMAIN records \cup {c} |-> IF d = c THEN how ELSE records[d]]

ToolEnter(c) ==
    /\ pc = "tools"
    /\ c \in Last.calls \ (DOMAIN records \cup running)
    /\ running' = running \cup {c}
    /\ replayed' = replayed \cup (entered \cap {<<committed, c>>})
    /\ entered' = entered \cup {<<committed, c>>}
    /\ UNCHANGED <<stateVars, pc, res, message, stop, hookError, large, records>>

ToolReturn(c) ==
    /\ pc = "tools"
    /\ c \in running
    /\ running' = running \ {c}
    /\ File(c, "ran")
    /\ UNCHANGED <<stateVars, pc, res, message, stop, hookError, large, effectVars>>

\* No such tool, or its arguments do not settle: the function is never entered.
ToolReject(c) ==
    /\ pc = "tools"
    /\ c \in Last.calls \ (DOMAIN records \cup running)
    /\ File(c, "rejected")
    /\ UNCHANGED <<stateVars, pc, res, message, stop, hookError, large, running, effectVars>>

ToolsJoin ==
    /\ pc = "tools"
    /\ DOMAIN records = Last.calls
    /\ ResultsReturned(records)
    /\ records' = NoResults
    /\ UNCHANGED <<message, stop, hookError, large, running, effectVars>>

\* Mutants of ToolsThrow: the batch is dispatched again; its calls count as skipped.
MutantBatchRetried ==
    /\ pc = "tools"
    /\ running = {}
    /\ pc' = "dispatch"
    /\ records' = NoResults
    /\ UNCHANGED <<stateVars, res, message, stop, hookError, large, running, effectVars>>

MutantBatchSkipped ==
    /\ pc = "tools"
    /\ running = {}
    /\ ResultsReturned(Skipped(Last.calls))
    /\ records' = NoResults
    /\ UNCHANGED <<message, stop, hookError, large, running, effectVars>>

\* A failure of the registry's own machinery between two calls.
ToolsThrow ==
    /\ pc = "tools"
    /\ running = {}
    /\ Fail
    /\ records' = NoResults
    /\ UNCHANGED <<stateVars, message, stop, hookError, large, running, effectVars>>

ResultsReady(ok) ==
    /\ pc = "ckptResults"
    /\ IF ok THEN pc' = "project" /\ UNCHANGED res ELSE Fail
    /\ AwaitHost
    /\ UNCHANGED <<stateVars, message, hookError, large, running, records, effectVars>>

\* project() and the observers behind it, or the primary hook error.
StepProjected ==
    /\ pc = "project"
    /\ \/ /\ Fail                         \* integration threw: results are kept
          /\ UNCHANGED stateVars
       \/ /\ Project
          /\ Fail \/ (~hookError /\ pc' = "edit" /\ UNCHANGED res)
    /\ UNCHANGED <<message, stop, hookError, large, running, records, effectVars>>

\* A hook's edit of the history, as far as validate_state_edit() lets it pass: any
\* entries may go, not all of them, and what remains opens with a turn, the
\* hook's own when it removed or replaced the one that was first.
Rank(K, k) == Cardinality({j \in K : j <= k})
Kept(s, K) == [i \in 1..Cardinality(K) |->
                 IF i = 1 THEN UserEntry ELSE s[CHOOSE k \in K : Rank(K, k) = i]]
Edit(s) == \E K \in (SUBSET (1..Len(s))) \ {{}} : turns' = Kept(s, K)

\* EditOnStepFinished, rolled back when it throws, and the StepFinished observers.
StepEdited ==
    /\ pc = "edit"
    /\ \/ /\ Fail
          /\ UNCHANGED turns
       \/ /\ IF EditHooks THEN Edit(turns) ELSE UNCHANGED turns
          /\ (pc' = "ckptStep" /\ UNCHANGED res) \/ Fail
    /\ UNCHANGED <<status, phase, completed, committed, pending, message, stop, hookError, large,
                   running, records, effectVars>>

StepFinished(ok) ==
    /\ pc = "ckptStep"
    /\ IF ok THEN pc' = "decide" /\ UNCHANGED res ELSE Fail
    /\ AwaitHost
    /\ UNCHANGED <<stateVars, message, hookError, large, running, records, effectVars>>

Decide ==
    /\ pc = "decide"
    /\ CASE stop                                            -> Leave("Cancelled")
         [] ~stop /\ AutoCompact /\ (large \/ LimitReached) -> Leave("AutoCompactRequired")
         [] OTHER                                           -> pc' = "head" /\ UNCHANGED res
    /\ UNCHANGED <<stateVars, message, stop, hookError, large, running, records, effectVars>>

(***************************************************************************)
(* The end of an admitted invocation.                                      *)
(***************************************************************************)
\* Mutant of Settled: the marker of an interrupted batch is cleared.
MutantSettledForgets == IF phase \in {"Tools", "Model"} THEN "Ready" ELSE phase

Settled == CASE phase = "Tools" -> "Blocked"
             [] phase = "Model" -> "Ready"
             [] OTHER           -> phase

\* Mutant of Finish: history is edited although its last step is not settled.
MutantFinishEditsOpen ==
    /\ pc = "finish"
    /\ phase' = Settled
    /\ status' = res
    /\ Edit(turns)
    /\ pc' = "ckptRun"
    /\ UNCHANGED <<res, completed, committed, pending, message, stop, hookError, large,
                   running, records, effectVars>>

\* Recovery markers are settled, then EditOnRunFinished edits or is rolled back.
Finish ==
    /\ pc = "finish"
    /\ phase' = Settled
    /\ \/ /\ status' = res
          /\ UNCHANGED <<turns, res>>
       \/ /\ EditHooks /\ Settled = "Ready"
          /\ Edit(turns)
          /\ status' = res
          /\ UNCHANGED res
       \/ /\ EditHooks
          /\ status' = "Failed"
          /\ res' = "Failed"
          /\ UNCHANGED turns
    /\ pc' = "ckptRun"
    /\ UNCHANGED <<completed, committed, pending, message, stop, hookError, large,
                   running, records, effectVars>>

\* Checkpoint::RunFinished is a barrier: its failure propagates to the host.
RunFinished(ok) ==
    /\ pc = "ckptRun"
    /\ pc' = "idle"
    /\ res' = IF ok THEN res ELSE "CheckpointThrew"
    /\ AwaitHost
    /\ UNCHANGED <<stateVars, message, hookError, large, running, records, effectVars>>

\* Another thread requests the stop, during an invocation or between two.
RequestStop ==
    /\ ~stop
    /\ stop' = TRUE
    /\ UNCHANGED <<stateVars, pc, res, message, hookError, large, running, records, effectVars>>

(***************************************************************************)
(* The specification.                                                      *)
(***************************************************************************)
Init ==
    /\ turns = <<>>
    /\ status = "Idle"
    /\ phase = "Ready"
    /\ completed = 0
    /\ committed = 0
    /\ pending = NoResults
    /\ pc = "idle"
    /\ res = "None"
    /\ message = "none"
    /\ stop = FALSE
    /\ hookError = FALSE
    /\ large = FALSE
    /\ running = {}
    /\ records = NoResults
    /\ entered = {}
    /\ replayed = {}

Model == \/ ModelAborted
         \/ ModelFailed
         \/ \E C \in SUBSET Calls, t \in BOOLEAN : ModelResponded(C, t)

Tools == \/ ToolsJoin
         \/ ToolsThrow
         \/ \E c \in Calls : ToolEnter(c) \/ ToolReturn(c) \/ ToolReject(c)

\* The steps of run() that wait for nobody outside the loop.
Body == \/ Validate \/ Recover \/ Admit \/ Start \/ Input \/ LoopHead \/ Context
        \/ Committed \/ Dispatch \/ StepProjected \/ StepEdited \/ Decide \/ Finish

Checkpoints(ok) ==
    \/ BeforeTools(ok) \/ ResultsReady(ok) \/ StepFinished(ok) \/ RunFinished(ok)

Next == \/ \E m \in {"user", "none", "bad"} : Invoke(m)
        \/ Body
        \/ Model
        \/ Tools
        \/ \E ok \in BOOLEAN : Checkpoints(ok)
        \/ RequestStop

Spec == Init /\ [][Next]_loopVars

(***************************************************************************)
(* Properties.                                                             *)
(***************************************************************************)
StateType ==
    /\ turns \in Seq(Entry)
    /\ status \in RunStatuses \cup {"Idle", "Running"}
    /\ phase \in Phases
    /\ completed \in Nat
    /\ committed \in Nat
    /\ pending \in Partial

FrameType ==
    /\ pc \in Locations
    /\ res \in Outcomes
    /\ message \in {"user", "none", "bad"}
    /\ running \subseteq Calls
    /\ records \in Partial

FlagType == {stop, hookError, large} \subseteq BOOLEAN

EffectType ==
    /\ entered \subseteq Nat \X Calls
    /\ replayed \subseteq Nat \X Calls

\* Every variable stays in its type.
TypeOK == StateType /\ FrameType /\ FlagType /\ EffectType

\* No committed call has its tool function entered twice, however invocations
\* fail, stop and recover (loop.cpp 517-535: "never grounds for replay").
NoReplay == replayed = {}

\* A result is true to what happened: it says "ran" exactly when the function of
\* that call was entered, in the history, in the buffer and while a batch runs.
Truthful(seq, r) == \A c \in DOMAIN r : r[c] = "ran" <=> <<seq, c>> \in entered
HonestResults ==
    /\ \A i \in 1..Len(turns) : Truthful(turns[i].seq, turns[i].rets)
    /\ Truthful(committed, pending)
    /\ Truthful(committed, records)

\* An effect is never lost: as long as its step is in the conversation, an
\* entered call has a result, or its result is buffered, or the state is marked
\* uncertain so that the host must inspect it.
EffectsAccounted ==
    \A i \in 1..Len(turns), c \in Calls :
        <<turns[i].seq, c>> \in entered =>
            \/ c \in DOMAIN turns[i].rets
            \/ /\ i = Len(turns)
               /\ phase \in {"Tools", "Blocked"} \/ c \in DOMAIN pending

\* The loop never locks itself out of its own conversation: whatever state an
\* invocation leaves passes the checks the next one makes before recovery.
Reopenable == pc \in {"idle", "recover"} => Recoverable

\* A persisted status other than failed or running promises a settled history.
CleanExit ==
    pc = "idle" /\ status \in RunStatuses \ {"Failed"} =>
        /\ phase = "Ready"
        /\ \A i \in 1..Len(turns) : Answered(turns[i])

\* Commit sequences identify responses: they grow along the conversation and the
\* counter is ahead of all of them, also after turns were edited away.
CommitIdentity ==
    /\ \A i \in 1..Len(turns) : turns[i].seq <= committed
    /\ \A i, j \in 1..Len(turns) :
          i < j /\ turns[i].seq # 0 /\ turns[j].seq # 0 => turns[i].seq < turns[j].seq

\* What one invocation leaves another one can go on with: the state has its shape,
\* passes the checks of recovery and numbers its responses.
Continuable == TypeOK /\ Reopenable /\ CommitIdentity

\* Only settled steps leave the conversation (validate_state_edit).
OnlySettledRemoved ==
    [][\A i \in 1..Len(turns) :
          ~Answered(turns[i]) => \E j \in 1..Len(turns') : turns'[j].seq = turns[i].seq]_loopVars
=============================================================================
