---------------------------- MODULE Confirmation ----------------------------
(***************************************************************************)
(* Tool confirmation between the worker (src/core/src/confirmation.cpp,    *)
(* src/intercom/src/cancellable_exchange.cpp) and the Hub                  *)
(* (src/hub/src/worker/confirmation.ts, connection.ts, tool-context.ts).   *)
(* Every confirmation has a connection of its own; the worker names itself *)
(* on a separate event connection, and the two are not ordered with each   *)
(* other.  The run may be cancelled, either deadline may pass, the worker  *)
(* and the Hub may restart, and the event connection may be replaced.      *)
(*                                                                         *)
(* One session.  The continuation of a promise runs before the next event  *)
(* of the Hub's loop, so what an exchange does without waiting is part of  *)
(* the action that resumes it.  Malformed frames, the 1 MiB limit and the  *)
(* removal of the session are left out.                                    *)
(***************************************************************************)
EXTENDS Naturals, Sequences, FiniteSets

CONSTANTS
    Workers,         \* worker processes, each with a worker_id of its own
    Confirmations,   \* confirmation ids, fresh for every call
    None,
    Modes,           \* the confirmation modes a request may select
    Kinds,           \* what the session may be: "ordinary", or a subagent's with its
                     \* approval policy, "ask", "approve" or "deny"
    MaxPrompts,      \* open prompts of a session (64 in the code)
    MaxRuns, MaxConnects, MaxHubRestarts     \* bounds

ASSUME ConfirmationConstants ==
    /\ Modes \subseteq {"ask", "approve", "deny"}
    /\ Kinds \subseteq {"ordinary", "ask", "approve", "deny"}
    /\ {MaxPrompts, MaxRuns, MaxConnects, MaxHubRestarts} \subseteq Nat
    /\ None \notin Workers

VARIABLES
    kind,                  \* of the session, fixed
    alive, gone,           \* the process that owns the session, and its predecessors
    run, runs, mode,       \* the active run, 0 when there is none, and its frozen policy
    stopping, token,       \* ConfirmationScope: the two halves of cancel()
    ask, req, reply, expired, decision,      \* confirm(), for every confirmation
    sock, wire,            \* the confirmation connection and the answer on it
    conn, half, stream,    \* the event connection, TRUE once it is closing, and what is
                           \* in flight on it
    identity, active, closing,               \* registry Session
    pc, prompts, sawClose, \* exchange(), for every confirmation
    panel, said,           \* history: what the panel was told and what was decided
    connects, hubRestarts

workerVars == <<alive, gone, run, runs, mode, stopping, token>>
askVars == <<ask, req, reply, expired, decision>>
sessionVars == <<conn, half, stream, identity, active, closing>>
exchangeVars == <<pc, prompts, panel, said>>
bounds == <<kind, connects, hubRestarts>>
vars == <<workerVars, askVars, sock, wire, sessionVars, exchangeVars, sawClose, bounds>>

Headless == kind # "ordinary"
Unknown == [state |-> "unknown", worker |-> None]

(***************************************************************************)
(* confirm() and cancellable_exchange() in the worker.                     *)
(***************************************************************************)
\* Mutant of SettleApproval: the mutex half of cancel() is not consulted.
MutantSettleUnguarded(approved) == approved

\* Approval and cancellation arbitrate under one mutex.
SettleApproval(approved) == approved /\ ~stopping

Settle(c, approved) ==
    /\ ask' = [ask EXCEPT ![c] = "settled"]
    /\ decision' = [decision EXCEPT ![c] = IF approved THEN "approved" ELSE "denied"]

\* Only the ask policy opens a connection.
Ask(c) ==
    /\ run # 0
    /\ ask[c] = "none"
    /\ req' = [req EXCEPT ![c] = [worker |-> alive, run |-> run]]
    /\ IF token \/ mode # "ask"
         THEN /\ Settle(c, ~token /\ mode = "approve" /\ SettleApproval(TRUE))
              /\ said' = [said EXCEPT ![c] = IF mode = "approve" THEN "approved" ELSE @]
              /\ UNCHANGED sock
         ELSE /\ ask' = [ask EXCEPT ![c] = "waiting"]
              /\ sock' = [sock EXCEPT ![c] = "open"]
              /\ UNCHANGED <<decision, said>>
    /\ UNCHANGED <<workerVars, reply, expired, wire, sessionVars, pc, prompts, panel, sawClose,
                   bounds>>

Read(c) ==
    /\ ask[c] = "waiting"
    /\ wire[c] # "none"
    /\ ask' = [ask EXCEPT ![c] = "read"]
    /\ reply' = [reply EXCEPT ![c] = wire[c]]
    /\ UNCHANGED <<workerVars, req, expired, decision, sock, wire, sessionVars, exchangeVars,
                   sawClose, bounds>>

ExchangeOver(c, r) ==
    /\ ask' = [ask EXCEPT ![c] = "ended"]
    /\ reply' = [reply EXCEPT ![c] = r]
    /\ sock' = [sock EXCEPT ![c] = "closed"]
    /\ UNCHANGED <<workerVars, req, expired, decision, wire, sessionVars, exchangeVars, sawClose,
                   bounds>>

\* The close handshake completes; a deadline that passes now finds it done.
Closed(c) == ask[c] = "read" /\ ExchangeOver(c, reply[c])

\* Mutant of Broken: the close handshake cannot be interrupted.
MutantBrokenWaiting(c) == ask[c] = "waiting" /\ ExchangeOver(c, "broken")

\* The transport fails, the Hub closed first, or abort() cut the exchange off.
Broken(c) == ask[c] \in {"waiting", "read"} /\ ExchangeOver(c, "broken")

Expire(c) ==
    /\ ask[c] \in {"waiting", "read"}
    /\ ~expired[c]
    /\ expired' = [expired EXCEPT ![c] = TRUE]
    /\ UNCHANGED <<workerVars, ask, req, reply, decision, sock, wire, sessionVars, exchangeVars,
                   sawClose, bounds>>

\* Mutant of Rejected: the deadline is left to the abort.
MutantDeadlineIgnored(c) == token \/ reply[c] = "broken"

\* The supervisor looks at the deadline and the stop before it looks at the reply.
Rejected(c) == expired[c] \/ token \/ reply[c] = "broken"

Supervise(c) ==
    /\ ask[c] = "ended"
    /\ IF Rejected(c)
         THEN Settle(c, FALSE)
         ELSE ask' = [ask EXCEPT ![c] = "replied"] /\ UNCHANGED decision
    /\ UNCHANGED <<workerVars, req, reply, expired, sock, wire, sessionVars, exchangeVars, sawClose,
                   bounds>>

Decided(c) ==
    /\ ask[c] = "replied"
    /\ Settle(c, SettleApproval(reply[c] = "approved"))
    /\ UNCHANGED <<workerVars, req, reply, expired, sock, wire, sessionVars, exchangeVars, sawClose,
                   bounds>>

(***************************************************************************)
(* The worker's run and process.                                           *)
(***************************************************************************)
\* An event reaches the Hub only over the connection of this process.
Emit(e) == stream' = IF conn = alive THEN Append(stream, e) ELSE stream

StartWorker(w) ==
    /\ alive = None
    /\ w \notin gone
    /\ alive' = w
    /\ UNCHANGED <<gone, run, runs, mode, stopping, token, askVars, sock, wire, sessionVars,
                   exchangeVars, sawClose, bounds>>

StartRun(m) ==
    /\ alive # None
    /\ run = 0
    /\ runs < MaxRuns
    /\ run' = runs + 1
    /\ runs' = runs + 1
    /\ mode' = m
    /\ stopping' = FALSE
    /\ token' = FALSE
    /\ Emit(run')
    /\ UNCHANGED <<alive, gone, askVars, sock, wire, conn, half, identity, active, closing, exchangeVars,
                   sawClose, bounds>>

FinishRun ==
    /\ run # 0
    /\ \A c \in Confirmations : req[c].run = run => ask[c] = "settled"
    /\ run' = 0
    /\ Emit(0)
    /\ UNCHANGED <<alive, gone, runs, mode, stopping, token, askVars, sock, wire, conn, half,
                   identity, active, closing, exchangeVars, sawClose, bounds>>

\* ConfirmationScope::cancel(): admission is closed before the stop is requested.
CloseAdmission ==
    /\ run # 0
    /\ ~stopping
    /\ stopping' = TRUE
    /\ UNCHANGED <<alive, gone, run, runs, mode, token, askVars, sock, wire, sessionVars,
                   exchangeVars, sawClose, bounds>>

RequestStop ==
    /\ run # 0
    /\ stopping
    /\ ~token
    /\ token' = TRUE
    /\ UNCHANGED <<alive, gone, run, runs, mode, stopping, askVars, sock, wire, sessionVars,
                   exchangeVars, sawClose, bounds>>

\* The process dies, and its connections are closed for it; a lost machine or
\* network tells nobody.
Crash(silent) ==
    /\ alive # None
    /\ alive' = None
    /\ gone' = gone \cup {alive}
    /\ run' = 0
    /\ ask' = [c \in Confirmations |-> IF ask[c] \in {"none", "settled"} THEN ask[c] ELSE "lost"]
    /\ sock' = [c \in Confirmations |-> IF sock[c] = "open" /\ ~silent THEN "closed" ELSE sock[c]]
    /\ UNCHANGED <<runs, mode, stopping, token, req, reply, expired, decision, wire, sessionVars,
                   exchangeVars, sawClose, bounds>>

(***************************************************************************)
(* exchange() in the Hub.  A view is what the registry knows; an effect is *)
(* what the exchange of one confirmation does about it.                    *)
(***************************************************************************)
View == [connected |-> conn # None /\ ~half, identity |-> identity, active |-> active, closing |-> closing]

\* Mutant of Authorized: a session that is being stopped still counts.
MutantAuthorizedClosing(c, v) ==
    /\ v.connected
    /\ v.identity = [state |-> "live", worker |-> req[c].worker]
    /\ v.active = req[c].run

\* The subagent's run is the one the Hub observes now.
Authorized(c, v) ==
    /\ ~v.closing
    /\ v.connected
    /\ v.identity = [state |-> "live", worker |-> req[c].worker]
    /\ v.active = req[c].run

Mismatch(c, v) == v.identity.state = "live" /\ v.identity.worker # req[c].worker

Stays(c) == [pc |-> pc[c], wire |-> wire[c], prompt |-> c \in prompts, panel |-> panel[c],
             said |-> said[c]]

\* sendDecision() writes only to an open connection; the exchange then waits for
\* the close handshake.
Answer(c, d) == [Stays(c) EXCEPT !.pc = "closing", !.wire = IF sawClose[c] THEN @ ELSE d]

\* A decided prompt stays registered until the connection has closed.
Answered(c, d) ==
    [Answer(c, d) EXCEPT !.prompt = TRUE, !.panel = "settled", !.said = d]

\* A verified prompt: the policy of a subagent may answer it at once.
Opened(c) ==
    IF kind \in {"approve", "deny"}
      THEN Answered(c, IF kind = "approve" THEN "approved" ELSE "denied")
      ELSE [Stays(c) EXCEPT !.pc = "open", !.prompt = TRUE, !.panel = "shown"]

\* authorizeTool() for a subagent is polled until the events have caught up; any
\* session is looked at again after the hold.
Admitted(c, v) ==
    CASE ~Headless -> IF v.connected THEN Opened(c) ELSE Answer(c, "denied")
      [] Headless /\ Authorized(c, v) -> Opened(c)
      [] Headless /\ ~Authorized(c, v) /\ (v.closing \/ Mismatch(c, v)) -> Answer(c, "denied")
      [] OTHER -> [Stays(c) EXCEPT !.pc = "authorize"]

\* awaitWorkerIdentity(): only a live identity judges.
Judge(c, v) ==
    CASE v.identity.state # "live" -> [Stays(c) EXCEPT !.pc = "hold"]
      [] Mismatch(c, v) -> Answer(c, "denied")
      [] OTHER -> Admitted(c, v)

\* Mutant of Retired: the panel is not told.
MutantRetiredSilently(c) == [Stays(c) EXCEPT !.pc = "done", !.prompt = FALSE]

\* Mutant of Retired: the prompt stays registered.
MutantRetiredLeaks(c) ==
    [Stays(c) EXCEPT !.pc = "done", !.panel = IF @ = "shown" THEN "settled" ELSE @]

\* retire() and cleanup(): the prompt is withdrawn and the panel told once.
Retired(c) ==
    [Stays(c) EXCEPT !.pc = "done", !.prompt = FALSE,
                     !.panel = IF @ = "shown" THEN "settled" ELSE @]

Effect(e) ==
    /\ pc' = [c \in Confirmations |-> e[c].pc]
    /\ wire' = [c \in Confirmations |-> e[c].wire]
    /\ prompts' = {c \in Confirmations : e[c].prompt}
    /\ panel' = [c \in Confirmations |-> e[c].panel]
    /\ said' = [c \in Confirmations |-> e[c].said]

Only(c, e) == Effect([x \in Confirmations |-> IF x = c THEN e ELSE Stays(x)])

\* Prompts of the session that are still open are withdrawn, which closes their
\* connections.
RetireOpen ==
    /\ Effect([c \in Confirmations |-> IF pc[c] = "open" THEN Retired(c) ELSE Stays(c)])
    /\ sock' = [c \in Confirmations |-> IF pc[c] = "open" THEN "closed" ELSE sock[c]]

exchangeUnchanged == <<workerVars, askVars, sessionVars, sawClose, bounds>>

\* The first frame of a confirmation connection.
Receive(c) ==
    /\ pc[c] = "none"
    /\ sock[c] # "none"
    /\ Only(c, IF Cardinality(prompts) >= MaxPrompts \/ (Headless /\ closing)
                 THEN Answer(c, "denied") ELSE Judge(c, View))
    /\ UNCHANGED <<sock, exchangeUnchanged>>

\* The identity hold, or authorizeTool(), ran out of time.
HoldExpires(c) ==
    /\ pc[c] \in {"hold", "authorize"}
    /\ Only(c, Answer(c, "denied"))
    /\ UNCHANGED <<sock, exchangeUnchanged>>

Poll(c) ==
    /\ pc[c] = "authorize"
    /\ Authorized(c, View) \/ closing \/ Mismatch(c, View)
    /\ Only(c, Admitted(c, View))
    /\ UNCHANGED <<sock, exchangeUnchanged>>

\* The operator answers; a subagent's prompt is withdrawn when its run moved on.
Operator(c, d) ==
    /\ pc[c] = "open"
    /\ IF Headless /\ ~Authorized(c, View)
         THEN /\ Only(c, Retired(c))
              /\ sock' = [sock EXCEPT ![c] = "closed"]
         ELSE /\ Only(c, Answered(c, d))
              /\ UNCHANGED sock
    /\ UNCHANGED exchangeUnchanged

PromptDeadline(c) ==
    /\ pc[c] = "open"
    /\ Only(c, Retired(c))
    /\ sock' = [sock EXCEPT ![c] = "closed"]
    /\ UNCHANGED exchangeUnchanged

\* The close event: nobody listens for it while the identity is held.
SeeClose(c) ==
    /\ sock[c] = "closed"
    /\ pc[c] \in {"hold", "authorize", "open", "closing"}
    /\ ~sawClose[c]
    /\ sawClose' = [sawClose EXCEPT ![c] = TRUE]
    /\ Only(c, IF pc[c] = "hold" THEN Stays(c) ELSE Retired(c))
    /\ UNCHANGED <<workerVars, askVars, sock, sessionVars, bounds>>

\* Mutant of Terminate: only the answer to a prompt gets a handshake deadline.
MutantTerminatePrompts(c) ==
    /\ pc[c] = "closing"
    /\ c \in prompts
    /\ sock[c] = "open"
    /\ sock' = [sock EXCEPT ![c] = "closed"]
    /\ UNCHANGED <<wire, exchangeVars, exchangeUnchanged>>

\* The worker's close handshake is late.
Terminate(c) ==
    /\ pc[c] = "closing"
    /\ sock[c] = "open"
    /\ sock' = [sock EXCEPT ![c] = "closed"]
    /\ UNCHANGED <<wire, exchangeVars, exchangeUnchanged>>

\* An answer to a connection that closed during the hold has nothing to wait for.
CloseDone(c) ==
    /\ pc[c] = "closing"
    /\ sawClose[c]
    /\ Only(c, Retired(c))
    /\ UNCHANGED <<sock, exchangeUnchanged>>

(***************************************************************************)
(* The event connection and the registry.                                  *)
(***************************************************************************)
\* The Hub asks a new connection for the status; one that was attached is
\* superseded, and its own close is ignored.
Attach ==
    /\ alive # None
    /\ connects < MaxConnects
    /\ ~(Headless /\ closing)
    /\ connects' = connects + 1
    /\ conn' = alive
    /\ half' = FALSE
    /\ stream' = <<run>>
    /\ UNCHANGED <<workerVars, askVars, sock, wire, identity, active, closing, exchangeVars,
                   sawClose, kind, hubRestarts>>

\* An envelope names its worker first, then updates the run, then every held
\* confirmation is judged.
Hear ==
    /\ stream # <<>>
    /\ stream' = Tail(stream)
    /\ identity' = [state |-> "live", worker |-> conn]
    /\ active' = Head(stream)
    /\ LET v == [View EXCEPT !.identity = identity', !.active = active']
       IN  Effect([c \in Confirmations |-> IF pc[c] = "hold" THEN Judge(c, v) ELSE Stays(c)])
    /\ UNCHANGED <<workerVars, askVars, sock, conn, half, closing, sawClose, bounds>>

\* The attached connection is no longer open; its close event comes later.
HalfClose ==
    /\ conn # None
    /\ ~half
    /\ half' = TRUE
    /\ UNCHANGED <<workerVars, askVars, sock, wire, conn, stream, identity, active, closing,
                   exchangeVars, sawClose, bounds>>

\* Mutant of Detach: the subagent service is not told.
MutantDetachKeeps ==
    /\ half
    /\ conn' = None
    /\ half' = FALSE
    /\ stream' = <<>>
    /\ identity' = IF identity.state = "live" THEN [state |-> "stale", worker |-> None] ELSE identity
    /\ active' = 0
    /\ UNCHANGED <<workerVars, askVars, sock, wire, exchangeVars, closing, sawClose, bounds>>

\* The close of the attached connection; a subagent's prompts go with it.
Detach ==
    /\ half
    /\ conn' = None
    /\ half' = FALSE
    /\ stream' = <<>>
    /\ identity' = IF identity.state = "live" THEN [state |-> "stale", worker |-> None] ELSE identity
    /\ active' = 0
    /\ IF Headless THEN RetireOpen ELSE UNCHANGED <<sock, wire, exchangeVars>>
    /\ UNCHANGED <<workerVars, askVars, closing, sawClose, bounds>>

\* The subagent service stops a child: freezeSession().
Freeze ==
    /\ Headless
    /\ ~closing
    /\ closing' = TRUE
    /\ RetireOpen
    /\ UNCHANGED <<workerVars, askVars, conn, half, stream, identity, active, sawClose, bounds>>

\* A Hub without subagents restarts; their restoration is the service's own protocol.
HubRestart ==
    /\ ~Headless
    /\ hubRestarts < MaxHubRestarts
    /\ hubRestarts' = hubRestarts + 1
    /\ Effect([c \in Confirmations |-> IF sock[c] # "none" THEN Retired(c) ELSE Stays(c)])
    /\ sock' = [c \in Confirmations |-> IF sock[c] = "open" THEN "closed" ELSE sock[c]]
    /\ conn' = None
    /\ half' = FALSE
    /\ stream' = <<>>
    /\ identity' = Unknown
    /\ active' = 0
    /\ UNCHANGED <<workerVars, askVars, closing, sawClose, kind, connects>>

(***************************************************************************)
(* The specification.                                                      *)
(***************************************************************************)
Init ==
    /\ alive = None /\ gone = {}
    /\ run = 0 /\ runs = 0 /\ mode = "ask"
    /\ stopping = FALSE /\ token = FALSE
    /\ ask = [c \in Confirmations |-> "none"]
    /\ req = [c \in Confirmations |-> [worker |-> None, run |-> 0]]
    /\ reply = [c \in Confirmations |-> "none"]
    /\ expired = [c \in Confirmations |-> FALSE]
    /\ decision = [c \in Confirmations |-> "none"]
    /\ sock = [c \in Confirmations |-> "none"]
    /\ wire = [c \in Confirmations |-> "none"]
    /\ conn = None /\ half = FALSE /\ stream = <<>>
    /\ identity = Unknown /\ active = 0 /\ closing = FALSE
    /\ pc = [c \in Confirmations |-> "none"]
    /\ prompts = {}
    /\ sawClose = [c \in Confirmations |-> FALSE]
    /\ panel = [c \in Confirmations |-> "none"]
    /\ said = [c \in Confirmations |-> "none"]
    /\ kind \in Kinds /\ connects = 0 /\ hubRestarts = 0

WorkerStep(c) ==
    Ask(c) \/ Read(c) \/ Closed(c) \/ Broken(c) \/ Expire(c) \/ Supervise(c) \/ Decided(c)

HubStep(c) ==
    \/ Receive(c) \/ HoldExpires(c) \/ Poll(c) \/ PromptDeadline(c)
    \/ SeeClose(c) \/ CloseDone(c) \/ Terminate(c)
    \/ \E d \in {"approved", "denied"} : Operator(c, d)

Next ==
    \/ \E c \in Confirmations : WorkerStep(c) \/ HubStep(c)
    \/ \E w \in Workers : StartWorker(w)
    \/ \E m \in Modes : StartRun(m)
    \/ FinishRun \/ CloseAdmission \/ RequestStop
    \/ \E silent \in BOOLEAN : Crash(silent)
    \/ Attach \/ Hear \/ HalfClose \/ Detach \/ Freeze \/ HubRestart

Spec == Init /\ [][Next]_vars

\* abort(): the deadline, the stop or the peer ends a pending exchange.
Aborted(c) == (expired[c] \/ token \/ sock[c] = "closed") /\ Broken(c)

\* Timers fire and posted handlers run.  Nothing is assumed of the operator, of
\* the network's delivery or of the event connection.
FairSpec ==
    /\ Spec
    /\ \A c \in Confirmations :
         /\ WF_vars(Expire(c)) /\ WF_vars(Aborted(c))
         /\ WF_vars(Supervise(c)) /\ WF_vars(Decided(c))
         /\ WF_vars(HoldExpires(c)) /\ WF_vars(PromptDeadline(c)) /\ WF_vars(Terminate(c))
         /\ WF_vars(SeeClose(c)) /\ WF_vars(CloseDone(c))

(***************************************************************************)
(* Properties.                                                             *)
(***************************************************************************)
\* Every variable has its type, the prompts are those of exchanges that reached
\* the operator or the policy, and a half-closed event connection is attached.
ConfirmTypeOK ==
    /\ alive \in Workers \cup {None} /\ gone \subseteq Workers /\ alive \notin gone
    /\ run \in 0..MaxRuns /\ runs \in 0..MaxRuns
    /\ ask \in [Confirmations -> {"none", "waiting", "read", "ended", "replied", "settled", "lost"}]
    /\ reply \in [Confirmations -> {"none", "approved", "denied", "broken"}]
    /\ decision \in [Confirmations -> {"none", "approved", "denied"}]
    /\ sock \in [Confirmations -> {"none", "open", "closed"}]
    /\ wire \in [Confirmations -> {"none", "approved", "denied"}]
    /\ pc \in [Confirmations -> {"none", "hold", "authorize", "open", "closing", "done"}]
    /\ panel \in [Confirmations -> {"none", "shown", "settled"}]
    /\ half => conn # None
    /\ \A c \in prompts : pc[c] \in {"open", "closing"}

\* Approval and cancellation arbitrate on one mutex (settle_approval()): no call
\* of a run is approved once cancel() has closed admission, whichever of the
\* reply, the stop request and the deadline arrives in between.
NoApprovalAfterCancel ==
    [][\A c \in Confirmations :
         decision[c] # "approved" /\ decision'[c] = "approved" => ~stopping]_vars

\* confirm() fails closed: a call is approved only if the run's policy, the
\* operator or the subagent's policy said so for this very confirmation, and never
\* once the deadline passed while the exchange was going on, also if the approval
\* had been read before it.
FailClosed ==
    \A c \in Confirmations :
      decision[c] = "approved" => said[c] = "approved" /\ ~expired[c]

\* The panel and the exchange agree: a prompt the panel shows is one the operator
\* can still answer, and one that was withdrawn is taken off the panel.
PromptAccounting ==
    \A c \in Confirmations : panel[c] = "shown" <=> pc[c] = "open" /\ c \in prompts

\* A subagent whose event channel is gone has no open prompt: onConnection()
\* withdraws them, and none is opened until a worker is connected again.
NoPromptWithoutChannel == Headless /\ conn = None => \A c \in Confirmations : pc[c] # "open"

\* Once freezeSession() has closed a subagent no approval is sent to it, however
\* far its confirmation had come.
FrozenNeverApproves ==
    [][closing => \A c \in Confirmations :
                    wire'[c] = "approved" => wire[c] = "approved"]_vars

\* What the worker concludes and what the operator sees are true at every moment:
\* approvals were given, prompts can be answered, and headless ones have a channel.
AnswersHonest == ConfirmTypeOK /\ FailClosed /\ PromptAccounting /\ NoPromptWithoutChannel

\* An approval never arrives late: not in a run that was cancelled (settle_approval()),
\* and not at a subagent that was frozen (freezeSession()).
NoLateApproval == NoApprovalAfterCancel /\ FrozenNeverApproves

\* Every confirmation the worker waits for is settled, unless the worker dies.
EveryAskSettles ==
    \A c \in Confirmations : ask[c] = "waiting" ~> ask[c] \in {"settled", "lost"}

\* Every exchange the Hub began ends, takes its prompt off the panel and gives its
\* place among the prompts back.
EveryExchangeEnds ==
    \A c \in Confirmations : pc[c] # "none" ~> pc[c] = "done" /\ c \notin prompts /\ panel[c] # "shown"

\* With timers that fire, nobody waits for ever: neither the worker for its answer nor
\* the Hub for the end of the exchange, whatever the operator and the network do.
NobodyWaitsForever == EveryAskSettles /\ EveryExchangeEnds

(***************************************************************************)
(* What the documentation says and the code does not do.                   *)
(***************************************************************************)
\* docs/core/worker-protocol.md: the prompt is retired on disconnect.  A prompt
\* is shown only while the Hub has not seen its connection close.
RetiredOnDisconnect == \A c \in Confirmations : panel[c] = "shown" => ~sawClose[c]

\* registry.ts: a live identity is that of the open event connection, so the
\* worker on that connection is never refused as somebody else.
OwnerIsNotRefused ==
    \A c \in Confirmations :
      ask[c] = "waiting" /\ pc[c] = "none" /\ req[c].worker = conn => ~Mismatch(c, View)
=============================================================================
