----------------------------- MODULE PtcRuntime -----------------------------
(***************************************************************************)
(* Programmatic tool calling: PtcRuntime drives an interpreter daemon      *)
(* through one short-lived client process per request                      *)
(* (src/tools/intrinsic/toolsets/ptc/src/runtime.cpp).                     *)
(*                                                                         *)
(* The daemon is another program and outlives its clients: it may have     *)
(* been running before, it may be restarted (which begins a new epoch), it *)
(* refuses source of another epoch, and it goes on with an execution whose *)
(* client is gone.  A client answers truthfully, but its answer may be     *)
(* lost: it dies, its output is cut or late, or it cannot tell itself.     *)
(***************************************************************************)
EXTENDS Integers, FiniteSets

CONSTANTS MaxExecutions, MaxEpoch

ASSUME PtcBounds == MaxExecutions \in Nat /\ MaxEpoch \in Nat

VARIABLES
    pcDaemon,      \* [running, ours, fit, epoch]: the daemon of the directory
    pcRunning,     \* the execution the daemon is working on, 0 for none
    pcCommitted,   \* executions the daemon has committed
    pcSubmitted,   \* executions whose source reached the daemon
    pcStep,        \* where the runtime is
    pcInitialized, \* initialized_
    pcTouched,     \* touched_
    pcEpoch,       \* epoch_, 0 when empty
    pcNext,        \* executions requested so far; the id of the last one
    pcReports,     \* what the model was told of each execution
    pcStopped      \* daemons stopped by shutdown: [ours, inspected]

pcVars == <<pcDaemon, pcRunning, pcCommitted, pcSubmitted, pcStep, pcInitialized,
            pcTouched, pcEpoch, pcNext, pcReports, pcStopped>>

PcInit ==
    /\ pcDaemon \in [running : BOOLEAN, ours : {FALSE}, fit : BOOLEAN, joined : {FALSE},
                     epoch : {0}]
    /\ pcRunning = 0 /\ pcCommitted = {} /\ pcSubmitted = {}
    /\ pcStep = "status"
    /\ pcInitialized = FALSE /\ pcTouched = FALSE
    /\ pcEpoch = 0 /\ pcNext = 0
    /\ pcReports = [e \in {} |-> ""]
    /\ pcStopped = {}

KeepDaemon == UNCHANGED <<pcDaemon, pcRunning, pcCommitted, pcSubmitted, pcStopped>>

-----------------------------------------------------------------------------
(* initialize *)

\* A plausible slip: a running daemon counts as touched from the first probe.
MutantTouchedBy(running) == TRUE
TouchedBy(running) == ~running

\* The capability and status probes; the worker ends the runtime when one throws.
ProbeStatus ==
    /\ pcStep = "status"
    /\ \/ pcTouched' = TouchedBy(pcDaemon.running) /\ pcStep' = "inspect"
       \/ UNCHANGED pcTouched /\ pcStep' = "broken"
    /\ UNCHANGED <<pcInitialized, pcEpoch, pcNext, pcReports>> /\ KeepDaemon

\* The session inspection starts a daemon that is not running.
Inspected == IF pcDaemon.running THEN [pcDaemon EXCEPT !.joined = pcDaemon.fit]
             ELSE [running |-> TRUE, ours |-> TRUE, fit |-> TRUE, joined |-> TRUE,
                   epoch |-> pcDaemon.epoch + 1]

\* inspect_session: answered and understood, or not; a session that asks for
\* recovery is refused after the daemon has been touched.
InspectSession(step, done) ==
    /\ pcStep = step
    /\ pcDaemon' = Inspected
    /\ \/ /\ Inspected.fit
          /\ pcTouched' = TRUE
          /\ pcEpoch' = Inspected.epoch
          /\ pcInitialized' = TRUE
          /\ pcStep' = done
       \/ /\ Inspected.fit
          /\ pcTouched' = TRUE
          /\ pcStep' = IF step = "inspect" THEN "broken" ELSE done
          /\ UNCHANGED <<pcEpoch, pcInitialized>>
       \/ /\ pcStep' = IF step = "inspect" THEN "broken" ELSE done
          /\ UNCHANGED <<pcTouched, pcEpoch, pcInitialized>>
    /\ UNCHANGED <<pcRunning, pcCommitted, pcSubmitted, pcNext, pcReports, pcStopped>>

-----------------------------------------------------------------------------
(* execute *)

RenderReply(what) == pcReports' = [e \in DOMAIN pcReports \cup {pcNext'} |->
                                      IF e = pcNext' THEN what ELSE pcReports[e]]

\* Stopped before anything happened, or not initialized: nothing is submitted.
ExecuteRefused ==
    /\ pcStep = "ready"
    /\ pcNext < MaxExecutions
    /\ pcNext' = pcNext + 1
    /\ \/ RenderReply("cancelled")
       \/ ~pcInitialized /\ RenderReply("unknown")
    /\ UNCHANGED <<pcStep, pcInitialized, pcTouched, pcEpoch>> /\ KeepDaemon

ExecuteBegin ==
    /\ pcStep = "ready"
    /\ pcInitialized
    /\ pcNext < MaxExecutions
    /\ pcNext' = pcNext + 1
    /\ pcStep' = "calling"
    /\ UNCHANGED <<pcInitialized, pcTouched, pcEpoch, pcReports>> /\ KeepDaemon

\* The client hands the source over, if the daemon takes it.
Accepts == pcDaemon.running /\ pcRunning = 0 /\ pcEpoch \in {0, pcDaemon.epoch}

Submit ==
    /\ pcStep = "calling"
    /\ Accepts
    /\ pcSubmitted' = pcSubmitted \cup {pcNext}
    /\ pcRunning' = pcNext
    /\ pcStep' = "submitted"
    /\ UNCHANGED <<pcDaemon, pcCommitted, pcInitialized, pcTouched, pcEpoch, pcNext,
                   pcReports, pcStopped>>

DaemonCommits ==
    /\ pcRunning # 0
    /\ pcCommitted' = pcCommitted \cup {pcRunning}
    /\ pcRunning' = 0
    /\ UNCHANGED <<pcDaemon, pcSubmitted, pcStep, pcInitialized, pcTouched, pcEpoch,
                   pcNext, pcReports, pcStopped>>

DaemonRollsBack ==
    /\ pcRunning # 0
    /\ pcRunning' = 0
    /\ UNCHANGED <<pcDaemon, pcCommitted, pcSubmitted, pcStep, pcInitialized, pcTouched,
                   pcEpoch, pcNext, pcReports, pcStopped>>

\* Somebody else restarts the daemon; what it was doing is lost.
DaemonRestarts ==
    /\ pcDaemon.running
    /\ pcDaemon.epoch < MaxEpoch
    /\ pcDaemon' = [pcDaemon EXCEPT !.epoch = @ + 1]
    /\ pcRunning' = 0
    /\ UNCHANGED <<pcCommitted, pcSubmitted, pcStep, pcInitialized, pcTouched, pcEpoch,
                   pcNext, pcReports, pcStopped>>

\* A plausible slip: any answer at the boundary refreshes the session.
MutantAfterBoundary(status) == "refresh"

\* Exit code 2 disables the runtime; only an explicit refusal refreshes it.
AfterBoundary(status) == IF status = "none" THEN "refresh" ELSE "ready"

\* render_ptc_response accepts a refusal: no source was submitted.
ReplyRefused ==
    /\ pcStep = "calling"
    /\ ~Accepts
    /\ UNCHANGED pcNext
    /\ RenderReply("none")
    /\ pcInitialized' = FALSE
    /\ pcStep' = AfterBoundary("none")
    /\ UNCHANGED <<pcTouched, pcEpoch>> /\ KeepDaemon

\* A completed execution of this epoch, or a failed one.
ReplyFinished ==
    /\ pcStep = "submitted"
    /\ pcRunning # pcNext
    /\ pcEpoch \in {0, pcDaemon.epoch}
    /\ UNCHANGED pcNext
    /\ RenderReply(IF pcNext \in pcCommitted THEN "committed" ELSE "uncommitted")
    /\ pcEpoch' = pcDaemon.epoch
    /\ pcStep' = "ready"
    /\ UNCHANGED <<pcInitialized, pcTouched>> /\ KeepDaemon

\* The client cannot tell what became of the source.
ReplyUnknown ==
    /\ pcStep \in {"calling", "submitted"}
    /\ UNCHANGED pcNext
    /\ RenderReply("unknown")
    /\ pcInitialized' = FALSE
    /\ pcStep' = AfterBoundary("unknown")
    /\ UNCHANGED <<pcTouched, pcEpoch>> /\ KeepDaemon

\* A plausible slip: an exception is reported like a failed execution.
MutantFailureReport == "uncommitted"
FailureReport == "unknown"

\* Any exception: admission or input failed, deadline, truncated capture, an
\* unparsable, inconsistent or foreign envelope.
CallThrows ==
    /\ pcStep \in {"calling", "submitted"}
    /\ UNCHANGED pcNext
    /\ RenderReply(FailureReport)
    /\ pcInitialized' = FALSE
    /\ pcStep' = "ready"
    /\ UNCHANGED <<pcTouched, pcEpoch>> /\ KeepDaemon

-----------------------------------------------------------------------------
(* shutdown *)

ShutdownRuntime ==
    /\ pcStep \in {"ready", "broken"}
    /\ pcInitialized' = FALSE
    /\ pcStep' = "gone"
    /\ \/ /\ pcTouched
          /\ pcTouched' = FALSE
          /\ pcDaemon' = [pcDaemon EXCEPT !.running = FALSE]
          /\ pcStopped' = IF pcDaemon.running
                          THEN pcStopped \cup {[ours |-> pcDaemon.ours,
                                                joined |-> pcDaemon.joined]}
                          ELSE pcStopped
          /\ pcRunning' = 0
       \/ UNCHANGED <<pcTouched, pcDaemon, pcStopped, pcRunning>>
    /\ UNCHANGED <<pcCommitted, pcSubmitted, pcEpoch, pcNext, pcReports>>

PcNext ==
    \/ ProbeStatus \/ InspectSession("inspect", "ready") \/ InspectSession("refresh", "ready")
    \/ ExecuteRefused \/ ExecuteBegin \/ Submit
    \/ DaemonCommits \/ DaemonRollsBack \/ DaemonRestarts
    \/ ReplyRefused \/ ReplyFinished \/ ReplyUnknown \/ CallThrows
    \/ ShutdownRuntime

PcSpec == PcInit /\ [][PcNext]_pcVars

-----------------------------------------------------------------------------
(* Properties *)

\* The model is never told that source did not take effect when it did or still
\* may: an execution reported cancelled, refused or uncommitted is neither
\* committed nor running, and one reported committed is: also when the daemon
\* finishes after the client's deadline, and across its restarts.
HonestReport ==
    \A e \in DOMAIN pcReports :
        /\ pcReports[e] \in {"cancelled", "none", "uncommitted"} =>
              e \notin pcCommitted /\ pcRunning # e
        /\ pcReports[e] \in {"cancelled", "none"} => e \notin pcSubmitted
        /\ pcReports[e] = "committed" => e \in pcCommitted

\* After an execution with an unknown outcome this runtime submits nothing more.
UnknownStopsSubmission ==
    [][(\E e \in DOMAIN pcReports : pcReports[e] = "unknown" /\ e \in pcSubmitted)
         => pcSubmitted' = pcSubmitted]_pcVars

\* Shutdown stops a daemon this runtime started or has joined, never one it only
\* found there and could not use.
NoForeignStop == \A d \in pcStopped : d.ours \/ d.joined
=============================================================================
