----------------------------- MODULE HostProofs -----------------------------
(***************************************************************************)
(* Proofs about the components that host a session's work (MCHost), for    *)
(* every value of their constants.                                         *)
(***************************************************************************)
EXTENDS MCHost, FiniteSetTheorems, SequenceTheorems, WellFoundedInduction, TLAPS

(***************************************************************************)
(* Programmatic tool calling.  The daemon outlives its clients, so what    *)
(* the runtime says must rest on what it knows: ids are fresh, the source  *)
(* of the current one was or was not handed over, and after an outcome     *)
(* that is unknown nothing leads back to a submission.                     *)
(***************************************************************************)
PcTypes ==
    /\ pcNext \in Nat
    /\ pcSubmitted \subseteq 1..pcNext
    /\ pcCommitted \subseteq pcSubmitted
    /\ pcRunning \in pcSubmitted \cup {0}
    /\ DOMAIN pcReports \subseteq 1..pcNext
    /\ pcDaemon \in [running : BOOLEAN, ours : BOOLEAN, fit : BOOLEAN, joined : BOOLEAN, epoch : Nat]
    /\ pcInitialized \in BOOLEAN
    /\ pcTouched \in BOOLEAN

\* The execution that is going on has no report yet, and its source is where the
\* step says.
PcCurrent ==
    /\ pcStep \in {"calling", "submitted"} => pcNext > 0 /\ pcNext \notin DOMAIN pcReports
    /\ pcStep = "calling" => pcNext \notin pcSubmitted
    /\ pcStep = "submitted" => pcNext \in pcSubmitted

\* After an unknown outcome the runtime is not initialized and stays so.
PcSealed ==
    (\E e \in DOMAIN pcReports : pcReports[e] = "unknown" /\ e \in pcSubmitted) =>
        pcInitialized = FALSE /\ pcStep \in {"ready", "gone"}

\* What the runtime may stop is its own, or joined and usable; the steps before the
\* first execution have none behind them.
PcMarks ==
    /\ pcTouched /\ pcDaemon.running => pcDaemon.ours \/ (pcDaemon.joined /\ pcDaemon.fit)
    /\ pcStep = "status" => ~pcTouched
    /\ pcStep \in {"status", "inspect"} => pcNext = 0

PcInv == PcTypes /\ PcCurrent /\ PcSealed /\ PcMarks /\ HonestReport /\ NoForeignStop

LEMMA InitPc == PcInit => PcInv
  <1>. SUFFICES ASSUME PcInit PROVE PcInv
    OBVIOUS
  <1>1. DOMAIN pcReports = {}
    BY DEF PcInit
  <1>2. PcTypes
    <2>1. pcDaemon \in [running : BOOLEAN, ours : BOOLEAN, fit : BOOLEAN, joined : BOOLEAN,
                        epoch : Nat]
      <3>1. {FALSE} \subseteq BOOLEAN /\ {0} \subseteq Nat
        OBVIOUS
      <3>2. pcDaemon \in [running : BOOLEAN, ours : {FALSE}, fit : BOOLEAN, joined : {FALSE},
                          epoch : {0}]
        BY DEF PcInit
      <3>. QED  BY <3>1, <3>2
    <2>. QED  BY <1>1, <2>1 DEF PcInit, PcTypes
  <1>3. PcCurrent /\ PcSealed /\ PcMarks /\ HonestReport /\ NoForeignStop
    BY <1>1 DEF PcInit, PcCurrent, PcSealed, PcMarks, HonestReport, NoForeignStop
  <1>. QED  BY <1>2, <1>3 DEF PcInv

\* The probes and the inspections: nothing is executed, and a daemon is marked as
\* touched only when it is fit or was started here.
LEMMA ProbePc ==
    ASSUME PcInv, ProbeStatus \/ InspectSession("inspect", "ready") \/ InspectSession("refresh",
                                                                                      "ready")
    PROVE  PcInv' /\ pcSubmitted' = pcSubmitted
  <1>0. /\ UNCHANGED <<pcRunning, pcCommitted, pcSubmitted, pcNext, pcReports, pcStopped>>
        /\ pcStep \in {"status", "inspect", "refresh"}
        /\ PcTypes /\ PcCurrent /\ PcSealed /\ PcMarks /\ HonestReport /\ NoForeignStop
    BY DEF ProbeStatus, InspectSession, KeepDaemon, PcInv
  <1>a. ProbeStatus => pcTouched' = FALSE \/ (pcTouched' = TRUE /\ ~pcDaemon.running)
    <2>1. CASE pcDaemon.running
      <3>1. TouchedBy(pcDaemon.running) = FALSE
        BY <2>1 DEF TouchedBy
      <3>. QED  BY <1>0, <3>1, Zenon DEF ProbeStatus, PcMarks, PcTypes
    <2>2. CASE ~pcDaemon.running
      <3>1. TouchedBy(pcDaemon.running) = TRUE
        BY <2>2 DEF TouchedBy
      <3>. QED  BY <1>0, <2>2, <3>1, Zenon DEF ProbeStatus, PcMarks, PcTypes
    <2>. QED  BY <2>1, <2>2
  <1>b. pcDaemon' \in [running : BOOLEAN, ours : BOOLEAN, fit : BOOLEAN, joined : BOOLEAN,
                       epoch : Nat]
    <2>1. pcDaemon' = pcDaemon \/ pcDaemon' = Inspected
      BY DEF ProbeStatus, InspectSession, KeepDaemon
    <2>2. [pcDaemon EXCEPT !.joined = pcDaemon.fit]
             \in [running : BOOLEAN, ours : BOOLEAN, fit : BOOLEAN, joined : BOOLEAN, epoch : Nat]
      BY <1>0 DEF PcTypes
    <2>3. [running |-> TRUE, ours |-> TRUE, fit |-> TRUE, joined |-> TRUE,
           epoch |-> pcDaemon.epoch + 1]
             \in [running : BOOLEAN, ours : BOOLEAN, fit : BOOLEAN, joined : BOOLEAN, epoch : Nat]
      BY <1>0 DEF PcTypes
    <2>. QED  BY <1>0, <2>1, <2>2, <2>3 DEF PcTypes, Inspected
  <1>c. pcInitialized' \in BOOLEAN /\ pcTouched' \in BOOLEAN
    BY <1>0, <1>a DEF PcTypes, ProbeStatus, InspectSession
  <1>1. PcTypes'
    BY <1>0, <1>b, <1>c DEF PcTypes
  <1>2. pcStep' \in {"inspect", "broken", "ready"} /\ (pcStep' = "inspect" => pcNext = 0)
    BY <1>0 DEF ProbeStatus, InspectSession, PcMarks
  <1>3. ~\E e \in DOMAIN pcReports : pcReports[e] = "unknown" /\ e \in pcSubmitted
    BY <1>0 DEF PcSealed
  <1>4. PcCurrent' /\ PcSealed' /\ HonestReport' /\ NoForeignStop'
    BY <1>0, <1>2, <1>3 DEF PcCurrent, PcSealed, HonestReport, NoForeignStop
  <1>5. PcMarks'
    <2>1. CASE ProbeStatus
      <3>1. UNCHANGED pcDaemon /\ pcStep' \in {"inspect", "broken"}
        BY <2>1 DEF ProbeStatus, KeepDaemon
      <3>. QED  BY <1>0, <1>a, <1>2, <2>1, <3>1 DEF PcMarks
    <2>2. CASE ~ProbeStatus
      <3>1. /\ pcDaemon' = Inspected
            /\ Inspected.fit \/ pcTouched' = pcTouched
            /\ pcStep' \in {"broken", "ready"}
        BY <2>2 DEF InspectSession
      <3>2. CASE pcDaemon.running
        BY <1>0, <3>1, <3>2 DEF Inspected, PcMarks, PcTypes
      <3>3. CASE ~pcDaemon.running
        BY <1>0, <3>1, <3>3 DEF Inspected, PcMarks
      <3>. QED  BY <3>2, <3>3
    <2>. QED  BY <2>1, <2>2
  <1>. QED  BY <1>0, <1>1, <1>4, <1>5 DEF PcInv

\* The daemon's own steps change what it works on and what it has committed.
LEMMA DaemonPc ==
    ASSUME PcInv, DaemonCommits \/ DaemonRollsBack \/ DaemonRestarts
    PROVE  PcInv' /\ pcSubmitted' = pcSubmitted
  <1>0. /\ UNCHANGED <<pcSubmitted, pcStep, pcInitialized, pcTouched, pcEpoch, pcNext, pcReports,
                     pcStopped>>
        /\ pcRunning' = 0
        /\ pcCommitted' = pcCommitted \/ (pcRunning # 0 /\ pcCommitted' = pcCommitted \cup {pcRunning})
        /\ PcTypes /\ PcCurrent /\ PcSealed /\ PcMarks /\ HonestReport /\ NoForeignStop
    BY DEF DaemonCommits, DaemonRollsBack, DaemonRestarts, PcInv
  <1>1. /\ pcDaemon' \in [running : BOOLEAN, ours : BOOLEAN, fit : BOOLEAN, joined : BOOLEAN,
                          epoch : Nat]
        /\ pcDaemon'.running = pcDaemon.running /\ pcDaemon'.ours = pcDaemon.ours
        /\ pcDaemon'.joined = pcDaemon.joined /\ pcDaemon'.fit = pcDaemon.fit
    BY <1>0 DEF DaemonCommits, DaemonRollsBack, DaemonRestarts, PcTypes
  <1>2. PcTypes'
    BY <1>0, <1>1 DEF PcTypes
  <1>3. PcCurrent' /\ PcSealed' /\ PcMarks' /\ NoForeignStop'
    BY <1>0, <1>1 DEF PcCurrent, PcSealed, PcMarks, NoForeignStop
  <1>4. HonestReport'
    BY <1>0 DEF HonestReport, PcTypes
  <1>. QED  BY <1>0, <1>2, <1>3, <1>4 DEF PcInv

\* A report names the execution that was going on and leaves the others alone.
LEMMA RenderedReply ==
    ASSUME NEW what, RenderReply(what)
    PROVE  /\ DOMAIN pcReports' = DOMAIN pcReports \cup {pcNext'}
           /\ pcReports'[pcNext'] = what
           /\ \A e \in DOMAIN pcReports : e # pcNext' => pcReports'[e] = pcReports[e]
  BY DEF RenderReply

\* An execution that ends with this report keeps the reports honest, if it is
\* unknown, or known to have or not to have taken effect.
LEMMA RepliedPc ==
    ASSUME PcInv, NEW what, RenderReply(what), UNCHANGED pcNext, KeepDaemon, UNCHANGED pcTouched,
           pcStep \in {"calling", "submitted"}, pcStep' \in {"ready", "refresh"},
           pcInitialized' \in {FALSE, pcInitialized},
           what = "unknown" => pcInitialized' = FALSE /\ pcStep' = "ready",
           what \in {"cancelled", "none"} => pcStep = "calling",
           what = "uncommitted" => pcNext \notin pcCommitted /\ pcRunning # pcNext,
           what = "committed" => pcNext \in pcCommitted
    PROVE  PcInv' /\ pcSubmitted' = pcSubmitted
  <1>0. /\ UNCHANGED <<pcDaemon, pcRunning, pcCommitted, pcSubmitted, pcStopped, pcNext,
                       pcTouched>>
        /\ pcInitialized' \in BOOLEAN /\ PcTypes /\ PcCurrent /\ PcSealed /\ PcMarks /\ HonestReport /\ NoForeignStop
        /\ DOMAIN pcReports' = DOMAIN pcReports \cup {pcNext}
        /\ pcReports'[pcNext] = what
        /\ \A e \in DOMAIN pcReports : e # pcNext => pcReports'[e] = pcReports[e]
        /\ pcNext \notin DOMAIN pcReports
    BY RenderedReply DEF KeepDaemon, PcInv, PcCurrent, PcTypes
  <1>b. pcNext \in 1..pcNext
    BY <1>0 DEF PcTypes, PcCurrent
  <1>1. PcTypes'
    BY <1>0, <1>b DEF PcTypes
  <1>2. HonestReport'
    <2>. SUFFICES ASSUME NEW e \in DOMAIN pcReports'
                  PROVE  /\ pcReports'[e] \in {"cancelled", "none", "uncommitted"} =>
                               e \notin pcCommitted /\ pcRunning # e
                         /\ pcReports'[e] \in {"cancelled", "none"} => e \notin pcSubmitted
                         /\ pcReports'[e] = "committed" => e \in pcCommitted
      BY <1>0 DEF HonestReport
    <2>1. CASE e = pcNext
      BY <1>0, <1>b, <2>1 DEF PcCurrent, PcTypes
    <2>2. CASE e # pcNext
      BY <1>0, <2>2 DEF HonestReport
    <2>. QED  BY <2>1, <2>2
  <1>3. PcSealed'
    BY <1>0 DEF PcSealed
  <1>4. PcCurrent' /\ PcMarks' /\ NoForeignStop'
    BY <1>0 DEF PcCurrent, PcMarks, NoForeignStop
  <1>. QED  BY <1>0, <1>1, <1>2, <1>3, <1>4 DEF PcInv

\* A request begins, is refused on the spot, or hands its source over.
LEMMA ExecutePc ==
    ASSUME PcInv, ExecuteRefused \/ ExecuteBegin \/ Submit
    PROVE  /\ PcInv'
           /\ (\E e \in DOMAIN pcReports : pcReports[e] = "unknown" /\ e \in pcSubmitted) =>
                 pcSubmitted' = pcSubmitted
  <1>0. /\ PcTypes /\ PcCurrent /\ PcSealed /\ PcMarks /\ HonestReport /\ NoForeignStop
        /\ pcNext \in Nat
    BY DEF PcInv, PcTypes
  <1>1. CASE ExecuteRefused
    <2>1. /\ UNCHANGED <<pcDaemon, pcRunning, pcCommitted, pcSubmitted, pcStopped, pcTouched,
                         pcStep,
                         pcInitialized>>
          /\ pcNext' = pcNext + 1 /\ pcStep = "ready"
          /\ RenderReply("cancelled") \/ RenderReply("unknown")
      BY <1>1 DEF ExecuteRefused, KeepDaemon
    <2>2. /\ DOMAIN pcReports' = DOMAIN pcReports \cup {pcNext + 1}
          /\ \A e \in DOMAIN pcReports : pcReports'[e] = pcReports[e]
          /\ pcReports'[pcNext + 1] \in {"cancelled", "unknown"}
      <3>1. PICK what \in {"cancelled", "unknown"} : RenderReply(what)
        BY <2>1
      <3>2. pcNext + 1 \notin DOMAIN pcReports
        BY <1>0 DEF PcTypes
      <3>. QED  BY <2>1, <3>1, <3>2, RenderedReply
    <2>3. pcNext + 1 \notin pcSubmitted /\ pcRunning # pcNext + 1 /\ pcNext + 1 \notin pcCommitted
      BY <1>0 DEF PcTypes
    <2>4. PcTypes'
      BY <1>0, <2>1, <2>2 DEF PcTypes
    <2>5. HonestReport'
      BY <1>0, <2>1, <2>2, <2>3 DEF HonestReport
    <2>6. PcSealed'
      BY <1>0, <2>1, <2>2, <2>3 DEF PcSealed
    <2>7. PcCurrent' /\ PcMarks' /\ NoForeignStop'
      BY <1>0, <2>1 DEF PcCurrent, PcMarks, NoForeignStop
    <2>. QED  BY <2>1, <2>4, <2>5, <2>6, <2>7 DEF PcInv
  <1>2. CASE ExecuteBegin
    <2>1. /\ UNCHANGED <<pcDaemon, pcRunning, pcCommitted, pcSubmitted, pcStopped, pcTouched,
                         pcInitialized, pcReports>>
          /\ pcNext' = pcNext + 1 /\ pcStep = "ready" /\ pcStep' = "calling" /\ pcInitialized
      BY <1>2 DEF ExecuteBegin, KeepDaemon
    <2>2. PcTypes'
      BY <1>0, <2>1 DEF PcTypes
    <2>3. PcCurrent' /\ PcMarks' /\ NoForeignStop' /\ HonestReport'
      BY <1>0, <2>1 DEF PcTypes, PcCurrent, PcMarks, NoForeignStop, HonestReport
    <2>4. PcSealed'
      BY <1>0, <2>1 DEF PcSealed, PcTypes
    <2>. QED  BY <2>1, <2>2, <2>3, <2>4 DEF PcInv
  <1>3. CASE Submit
    <2>1. /\ UNCHANGED <<pcDaemon, pcCommitted, pcStopped, pcTouched, pcInitialized, pcReports,
                         pcNext>>
          /\ pcStep = "calling" /\ pcStep' = "submitted"
          /\ pcSubmitted' = pcSubmitted \cup {pcNext} /\ pcRunning' = pcNext
      BY <1>3 DEF Submit
    <2>2. /\ ~\E e \in DOMAIN pcReports : pcReports[e] = "unknown" /\ e \in pcSubmitted
          /\ pcNext \notin DOMAIN pcReports /\ pcNext \in 1..pcNext
      BY <1>0, <2>1 DEF PcSealed, PcCurrent
    <2>3. PcTypes'
      BY <1>0, <2>1, <2>2 DEF PcTypes
    <2>4. PcCurrent' /\ PcMarks' /\ NoForeignStop'
      BY <1>0, <2>1 DEF PcCurrent, PcMarks, NoForeignStop
    <2>5. HonestReport' /\ PcSealed'
      BY <1>0, <2>1, <2>2 DEF HonestReport, PcSealed
    <2>. QED  BY <2>2, <2>3, <2>4, <2>5 DEF PcInv
  <1>. QED  BY <1>1, <1>2, <1>3

\* The replies: each says what is known, and the one that knows nothing seals.
LEMMA ReplyPc ==
    ASSUME PcInv, ReplyRefused \/ ReplyFinished \/ ReplyUnknown \/ CallThrows
    PROVE  PcInv' /\ pcSubmitted' = pcSubmitted
  <1>1. CASE ReplyRefused
    BY <1>1, RepliedPc DEF ReplyRefused, AfterBoundary
  <1>2. CASE ReplyFinished
    BY <1>2, RepliedPc DEF ReplyFinished
  <1>3. CASE ReplyUnknown
    BY <1>3, RepliedPc DEF ReplyUnknown, AfterBoundary
  <1>4. CASE CallThrows
    BY <1>4, RepliedPc DEF CallThrows, FailureReport
  <1>. QED  BY <1>1, <1>2, <1>3, <1>4

\* Shutdown stops what the marks allow.
LEMMA ShutdownPc == PcInv /\ ShutdownRuntime => PcInv' /\ pcSubmitted' = pcSubmitted
  <1>. SUFFICES ASSUME PcInv, ShutdownRuntime PROVE PcInv' /\ pcSubmitted' = pcSubmitted
    OBVIOUS
  <1>0. /\ PcTypes /\ PcCurrent /\ PcSealed /\ PcMarks /\ HonestReport /\ NoForeignStop
        /\ UNCHANGED <<pcCommitted, pcSubmitted, pcNext, pcReports>>
        /\ pcInitialized' = FALSE /\ pcStep' = "gone" /\ pcRunning' \in {0, pcRunning}
    BY DEF PcInv, ShutdownRuntime
  <1>1. /\ pcDaemon' \in [running : BOOLEAN, ours : BOOLEAN, fit : BOOLEAN, joined : BOOLEAN,
                          epoch : Nat]
        /\ pcTouched' \in BOOLEAN
        /\ pcTouched' = FALSE \/ UNCHANGED <<pcTouched, pcDaemon>>
    BY <1>0 DEF ShutdownRuntime, PcTypes
  <1>2. PcTypes'
    BY <1>0, <1>1 DEF PcTypes
  <1>3. PcCurrent' /\ PcSealed' /\ PcMarks' /\ HonestReport'
    BY <1>0, <1>1 DEF PcCurrent, PcSealed, PcMarks, HonestReport, PcTypes
  <1>4. NoForeignStop'
    <2>1. \/ pcStopped' = pcStopped
          \/ /\ pcTouched /\ pcDaemon.running
             /\ pcStopped' = pcStopped \cup {[ours |-> pcDaemon.ours, joined |-> pcDaemon.joined]}
      BY DEF ShutdownRuntime
    <2>. QED  BY <1>0, <2>1 DEF NoForeignStop, PcMarks
  <1>. QED  BY <1>0, <1>2, <1>3, <1>4 DEF PcInv

LEMMA NextPc ==
    ASSUME PcInv, [PcNext]_pcVars
    PROVE  /\ PcInv'
           /\ (\E e \in DOMAIN pcReports : pcReports[e] = "unknown" /\ e \in pcSubmitted) =>
                 pcSubmitted' = pcSubmitted
  <1>1. CASE UNCHANGED pcVars
    <2>1. PcTypes' /\ PcCurrent' /\ PcSealed' /\ PcMarks'
      BY <1>1 DEF PcInv, PcTypes, PcCurrent, PcSealed, PcMarks, pcVars
    <2>2. HonestReport' /\ NoForeignStop'
      BY <1>1 DEF PcInv, HonestReport, NoForeignStop, pcVars
    <2>. QED  BY <1>1, <2>1, <2>2 DEF PcInv, pcVars
  <1>. QED  BY <1>1, ProbePc, DaemonPc, ExecutePc, ReplyPc, ShutdownPc DEF PcNext

\* A program is never reported as not run when it may have run, nothing is submitted
\* behind an unknown outcome, and no foreign daemon is stopped (runtime.cpp), however
\* often the daemon restarts and whatever the clients lose.
THEOREM ProgramsReportedHonestly == HostSpec => ProgramReportsHonest
  <1>. DEFINE Inv == part = "ptc" => PcInv
              Sealed == (\E e \in DOMAIN pcReports : pcReports[e] = "unknown" /\ e \in pcSubmitted)
                          => pcSubmitted' = pcSubmitted
  <1>1. HostInit => Inv
    BY InitPc DEF HostInit
  <1>2. Inv /\ [HostNext]_HostVars => Inv' /\ [Sealed]_pcVars
    <2>. SUFFICES ASSUME Inv, [HostNext]_HostVars PROVE Inv' /\ [Sealed]_pcVars
      OBVIOUS
    <2>1. CASE part = "ptc"
      <3>1. [PcNext]_pcVars /\ part' = part
        BY <2>1 DEF HostNext, HostVars, Others
      <3>. QED  BY <2>1, <3>1, NextPc
    <2>2. CASE part # "ptc"
      <3>1. UNCHANGED pcVars /\ part' = part
        BY <2>2 DEF HostNext, HostVars, Others
      <3>. QED  BY <2>2, <3>1
    <2>. QED  BY <2>1, <2>2
  <1>3. Inv => (part = "ptc" => HonestReport /\ NoForeignStop)
    BY DEF PcInv
  <1>. QED
    BY <1>1, <1>2, <1>3, PTL DEF HostSpec, ProgramReportsHonest, UnknownStopsSubmission

(***************************************************************************)
(* Event buses.  A walk goes over a snapshot that others make stale.  What *)
(* is served next lies behind what was served in the order of the tickets, *)
(* because a ticket never changes once taken; and a handler that is still  *)
(* owed the event is in the registry before the snapshot, and ahead of the *)
(* walk or behind it after.                                                *)
(***************************************************************************)
Slot == [handler : Handlers, group : Nat, holder : Nat]

\* A slot stands where its subscription counted.
Placed(s) == s \in Slot /\ s.group > 0 /\ evTicket[s.handler].group = s.group

Increasing(q) == \A i, j \in 1..Len(q) : i < j => q[i].group < q[j].group

EvTypes ==
    /\ evNext \in Nat \ {0}
    /\ evHolder \in Nat \ {0}
    /\ evTicket \in [Handlers -> [group : Nat, holder : Nat]]
    /\ \A h \in Handlers : evTicket[h] # NoTicket => evTicket[h].group > 0
    /\ IsFiniteSet(evSlots)
    /\ \A s \in evSlots : Placed(s)
    /\ DOMAIN evWalk = Publishers
    /\ DOMAIN evDue = Publishers

Walking(w) ==
    /\ w \in [pc : {"new", "found", "walk", "run", "threw", "done"}, mode : {"none", "propagate", "capture"},
              holder : Nat, left : Seq(Slot), value : Seq(Slot), errors : Seq(Slot)]
    /\ \A i \in 1..Len(w.left) : Placed(w.left[i])
    /\ \A i \in 1..Len(w.value) : Placed(w.value[i])
    /\ Increasing(w.left)
    /\ Increasing(w.value)
    /\ \A i \in 1..Len(w.value), j \in 1..Len(w.left) : w.value[i].group < w.left[j].group
    /\ w.pc = "run" => w.left # <<>>
    /\ w.pc = "done" => w.left = <<>>
    /\ w.pc \in {"new", "found"} => w.value = <<>>

\* The handlers D that were connected when the publication began and still are.
Holds(q, h) == \E i \in 1..Len(q) : q[i].handler = h
Owed(w, D) ==
    /\ D \cap evDead = {}
    /\ w.pc = "found" => \A h \in D : \E s \in evSlots : s.handler = h /\ s.holder = w.holder
    /\ w.pc \in {"walk", "run", "done"} =>
          \A h \in D : Holds(w.left, h) \/ Holds(w.value, h) \/ Holds(w.errors, h)

EvInv ==
    /\ EvTypes
    /\ \A p \in Publishers : Walking(evWalk[p]) /\ Owed(evWalk[p], evDue[p])

LEMMA EmptyWalk == Walking(NoWalk)
  <1>1. <<>> \in Seq(Slot) /\ Len(<<>>) = 0
    OBVIOUS
  <1>2. /\ NoWalk.pc = "new" /\ NoWalk.mode = "none" /\ NoWalk.holder = 0 /\ NoWalk.left = <<>>
        /\ NoWalk.value = <<>> /\ NoWalk.errors = <<>>
    BY DEF NoWalk
  <1>3. NoWalk \in [pc : {"new", "found", "walk", "run", "threw", "done"},
                    mode : {"none", "propagate", "capture"}, holder : Nat, left : Seq(Slot),
                    value : Seq(Slot), errors : Seq(Slot)]
    BY <1>1 DEF NoWalk
  <1>. QED  BY <1>1, <1>2, <1>3 DEF Walking, Increasing

LEMMA InitEv == EvInit => EvInv
  <1>. SUFFICES ASSUME EvInit PROVE EvInv
    OBVIOUS
  <1>1. EvTypes
    BY FS_EmptySet DEF EvInit, EvTypes, NoTicket
  <1>2. ASSUME NEW p \in Publishers PROVE Walking(evWalk[p]) /\ Owed(evWalk[p], evDue[p])
    <2>1. evWalk[p] = NoWalk /\ evDue[p] = {}
      BY DEF EvInit
    <2>. QED  BY <2>1, EmptyWalk DEF Owed
  <1>. QED  BY <1>1, <1>2 DEF EvInv

\* What the steps of a walk do to the sequence of what is left.
LEMMA TailFacts ==
    ASSUME NEW S, NEW q \in Seq(S), q # <<>>
    PROVE  /\ Tail(q) \in Seq(S) /\ Len(q) \in Nat \ {0} /\ Len(Tail(q)) = Len(q) - 1
           /\ \A i \in 1..Len(Tail(q)) : Tail(q)[i] = q[i + 1] /\ i + 1 \in 1..Len(q)
           /\ Head(q) = q[1] /\ Head(q) \in S
           /\ \A i \in 1..Len(q) : i = 1 \/ (i - 1 \in 1..Len(Tail(q)) /\ Tail(q)[i - 1] = q[i])
  <1>1. Tail(q) \in Seq(S) /\ Len(q) \in Nat \ {0} /\ Len(Tail(q)) = Len(q) - 1
    OBVIOUS
  <1>2. Head(q) = q[1] /\ Head(q) \in S
    BY <1>1
  <1>3. \A i \in 1..Len(Tail(q)) : Tail(q)[i] = q[i + 1] /\ i + 1 \in 1..Len(q)
    BY <1>1
  <1>4. \A i \in 1..Len(q) : i = 1 \/ (i - 1 \in 1..Len(Tail(q)) /\ Tail(q)[i - 1] = q[i])
    BY <1>1
  <1>. QED  BY <1>1, <1>2, <1>3, <1>4

LEMMA AppendFacts ==
    ASSUME NEW S, NEW q \in Seq(S), NEW x \in S
    PROVE  /\ Append(q, x) \in Seq(S) /\ Len(q) \in Nat /\ Len(Append(q, x)) = Len(q) + 1
           /\ \A i \in 1..Len(q) : Append(q, x)[i] = q[i]
           /\ Append(q, x)[Len(q) + 1] = x
  OBVIOUS

LEMMA IncreasingTail ==
    ASSUME NEW q \in Seq(Slot), q # <<>>, Increasing(q)
    PROVE  Increasing(Tail(q))
  <1>. SUFFICES ASSUME NEW i \in 1..Len(Tail(q)), NEW j \in 1..Len(Tail(q)), i < j
                PROVE  Tail(q)[i].group < Tail(q)[j].group
    BY DEF Increasing
  <1>1. /\ Tail(q)[i] = q[i + 1] /\ i + 1 \in 1..Len(q)
        /\ Tail(q)[j] = q[j + 1] /\ j + 1 \in 1..Len(q)
    BY TailFacts
  <1>2. i + 1 < j + 1
    OBVIOUS
  <1>. QED  BY <1>1, <1>2 DEF Increasing

LEMMA IncreasingAppend ==
    ASSUME NEW q \in Seq(Slot), Increasing(q), NEW x \in Slot,
           \A i \in 1..Len(q) : q[i].group < x.group
    PROVE  Increasing(Append(q, x))
  <1>. DEFINE r == Append(q, x)
  <1>1. /\ Len(q) \in Nat /\ Len(r) = Len(q) + 1 /\ r[Len(q) + 1] = x
        /\ \A i \in 1..Len(q) : r[i] = q[i]
    BY AppendFacts
  <1>. HIDE DEF r
  <1>. SUFFICES ASSUME NEW i \in 1..Len(r), NEW j \in 1..Len(r), i < j
                PROVE  r[i].group < r[j].group
    BY DEF Increasing, r
  <1>2. i \in 1..Len(q)
    BY <1>1
  <1>3. CASE j = Len(q) + 1
    BY <1>1, <1>2, <1>3
  <1>4. CASE j \in 1..Len(q)
    BY <1>1, <1>2, <1>4 DEF Increasing
  <1>5. j = Len(q) + 1 \/ j \in 1..Len(q)
    BY <1>1
  <1>. QED  BY <1>3, <1>4, <1>5

\* A skipped handler is dead, hence owed nothing.
LEMMA SkipWalk ==
    ASSUME NEW w, Walking(w), w.left # <<>>, NEW D, Owed(w, D),
           w.pc = "walk", Head(w.left).handler \in evDead
    PROVE  Walking([w EXCEPT !.left = Tail(@)]) /\ Owed([w EXCEPT !.left = Tail(@)], D)
  <1>. DEFINE v == [w EXCEPT !.left = Tail(@)]
  <1>0. w.left \in Seq(Slot)
    BY DEF Walking
  <1>1. /\ Tail(w.left) \in Seq(Slot) /\ Len(w.left) \in Nat \ {0} /\ Len(Tail(w.left)) = Len(w.left) - 1
        /\ \A i \in 1..Len(Tail(w.left)) : Tail(w.left)[i] = w.left[i + 1] /\ i + 1 \in 1..Len(w.left)
        /\ Head(w.left) = w.left[1]
        /\ \A i \in 1..Len(w.left) :
              i = 1 \/ (i - 1 \in 1..Len(Tail(w.left)) /\ Tail(w.left)[i - 1] = w.left[i])
    BY <1>0, TailFacts
  <1>2. /\ v.pc = w.pc /\ v.mode = w.mode /\ v.holder = w.holder /\ v.left = Tail(w.left)
        /\ v.value = w.value /\ v.errors = w.errors
        /\ v \in [pc : {"new", "found", "walk", "run", "threw", "done"},
                  mode : {"none", "propagate", "capture"}, holder : Nat, left : Seq(Slot),
                  value : Seq(Slot), errors : Seq(Slot)]
    BY <1>1 DEF Walking
  <1>. HIDE DEF v
  <1>3. Increasing(v.left)
    BY <1>0, <1>2, IncreasingTail DEF Walking
  <1>4. Walking(v)
    BY <1>1, <1>2, <1>3 DEF Walking
  <1>5. ASSUME NEW h \in D, Holds(w.left, h) PROVE Holds(v.left, h)
    <2>1. PICK i \in 1..Len(w.left) : w.left[i].handler = h
      BY <1>5 DEF Holds
    <2>2. i # 1
      BY <1>1, <1>5, <2>1 DEF Owed
    <2>3. i - 1 \in 1..Len(v.left) /\ v.left[i - 1].handler = h
      BY <1>1, <1>2, <2>1, <2>2
    <2>. QED  BY <2>3 DEF Holds
  <1>6. Owed(v, D)
    BY <1>2, <1>5 DEF Owed
  <1>. QED  BY <1>4, <1>6 DEF v

\* The walk after a handler returned, and after one threw and was captured.
Returned(w) == [w EXCEPT !.pc = "walk", !.left = Tail(@), !.value = Append(@, Head(w.left))]
Captured(w) == [w EXCEPT !.pc = "walk", !.left = Tail(@), !.errors = Append(@, Head(w.left))]

\* A handler that returned, or threw and was captured, has been served.
LEMMA ServeWalk ==
    ASSUME NEW w, Walking(w), NEW D, Owed(w, D), w.pc = "run",
           NEW v, v = Returned(w) \/ v = Captured(w)
    PROVE  Walking(v) /\ Owed(v, D)
  <1>0. w.left \in Seq(Slot) /\ w.left # <<>> /\ w.value \in Seq(Slot) /\ w.errors \in Seq(Slot)
    BY DEF Walking
  <1>1. /\ Tail(w.left) \in Seq(Slot) /\ Len(w.left) \in Nat \ {0} /\ Len(Tail(w.left)) = Len(w.left) - 1
        /\ \A i \in 1..Len(Tail(w.left)) : Tail(w.left)[i] = w.left[i + 1] /\ i + 1 \in 1..Len(w.left)
        /\ Head(w.left) = w.left[1] /\ Head(w.left) \in Slot
        /\ \A i \in 1..Len(w.left) :
              i = 1 \/ (i - 1 \in 1..Len(Tail(w.left)) /\ Tail(w.left)[i - 1] = w.left[i])
    BY <1>0, TailFacts
  <1>2. /\ v.pc = "walk" /\ v.mode = w.mode /\ v.holder = w.holder /\ v.left = Tail(w.left)
        /\ \/ v.value = Append(w.value, Head(w.left)) /\ v.errors = w.errors
           \/ v.value = w.value /\ v.errors = Append(w.errors, Head(w.left))
    BY <1>1 DEF Walking, Returned, Captured
  <1>3. \A q \in {w.value, w.errors} :
           /\ Append(q, Head(w.left)) \in Seq(Slot) /\ Len(q) \in Nat
           /\ Len(Append(q, Head(w.left))) = Len(q) + 1
           /\ \A i \in 1..Len(q) : Append(q, Head(w.left))[i] = q[i]
           /\ Append(q, Head(w.left))[Len(q) + 1] = Head(w.left)
    BY <1>0, <1>1, AppendFacts
  <1>4. v \in [pc : {"new", "found", "walk", "run", "threw", "done"},
               mode : {"none", "propagate", "capture"}, holder : Nat, left : Seq(Slot),
               value : Seq(Slot), errors : Seq(Slot)]
    <2>1. /\ Append(w.value, Head(w.left)) \in Seq(Slot)
          /\ Append(w.errors, Head(w.left)) \in Seq(Slot)
      BY <1>3
    <2>2. CASE v = Returned(w)
      BY <1>1, <2>1, <2>2 DEF Walking, Returned
    <2>3. CASE v = Captured(w)
      BY <1>1, <2>1, <2>3 DEF Walking, Captured
    <2>. QED  BY <2>2, <2>3
  <1>5. Increasing(v.left) /\ \A i \in 1..Len(v.left) : Placed(v.left[i])
    <2>1. Increasing(v.left)
      BY <1>0, <1>2, IncreasingTail DEF Walking
    <2>2. \A i \in 1..Len(v.left) : Placed(v.left[i])
      BY <1>1, <1>2 DEF Walking
    <2>. QED  BY <2>1, <2>2
  <1>6. /\ Increasing(v.value) /\ \A i \in 1..Len(v.value) : Placed(v.value[i])
        /\ \A i \in 1..Len(v.value), j \in 1..Len(v.left) : v.value[i].group < v.left[j].group
    <2>1. CASE v.value = w.value
      BY <1>1, <1>2, <2>1 DEF Walking
    <2>2. CASE v.value = Append(w.value, Head(w.left))
      <3>1. \A i \in 1..Len(v.value) :
               \/ i \in 1..Len(w.value) /\ v.value[i] = w.value[i]
               \/ i = Len(w.value) + 1 /\ v.value[i] = w.left[1]
        <4>1. /\ Len(w.value) \in Nat /\ Len(v.value) = Len(w.value) + 1
              /\ \A i \in 1..Len(w.value) : v.value[i] = w.value[i]
              /\ v.value[Len(w.value) + 1] = w.left[1]
          BY <1>1, <1>3, <2>2
        <4>. QED  BY <4>1
      <3>2. 1 \in 1..Len(w.left)
        BY <1>1
      <3>3. Increasing(v.value)
        <4>1. \A i \in 1..Len(w.value) : w.value[i].group < Head(w.left).group
          BY <1>1, <3>2 DEF Walking
        <4>2. Increasing(w.value)
          BY DEF Walking
        <4>. QED  BY <1>0, <1>1, <2>2, <4>1, <4>2, IncreasingAppend
      <3>4. \A i \in 1..Len(v.value) : Placed(v.value[i])
        BY <3>1, <3>2 DEF Walking
      <3>5. \A i \in 1..Len(v.value), j \in 1..Len(v.left) : v.value[i].group < v.left[j].group
        <4>. SUFFICES ASSUME NEW i \in 1..Len(v.value), NEW j \in 1..Len(v.left)
                      PROVE  v.value[i].group < v.left[j].group
          OBVIOUS
        <4>1. v.left[j] = w.left[j + 1] /\ j + 1 \in 1..Len(w.left) /\ 1 < j + 1
          BY <1>1, <1>2
        <4>. QED  BY <3>1, <3>2, <4>1 DEF Walking, Increasing
      <3>. QED  BY <3>3, <3>4, <3>5
    <2>. QED  BY <1>2, <2>1, <2>2
  <1>7. Walking(v)
    BY <1>2, <1>4, <1>5, <1>6 DEF Walking
  <1>8. ASSUME NEW h \in D PROVE Holds(v.left, h) \/ Holds(v.value, h) \/ Holds(v.errors, h)
    <2>1. CASE Holds(w.left, h)
      <3>1. PICK i \in 1..Len(w.left) : w.left[i].handler = h
        BY <2>1 DEF Holds
      <3>2. CASE i = 1
        <4>1. \A q \in {w.value, w.errors} : Holds(Append(q, Head(w.left)), h)
          <5>. SUFFICES ASSUME NEW q \in {w.value, w.errors} PROVE Holds(Append(q, Head(w.left)), h)
            OBVIOUS
          <5>1. /\ Len(q) + 1 \in 1..Len(Append(q, Head(w.left)))
                /\ Append(q, Head(w.left))[Len(q) + 1].handler = h
            BY <1>1, <1>3, <3>1, <3>2
          <5>. QED  BY <5>1 DEF Holds
        <4>. QED  BY <1>2, <4>1
      <3>3. CASE i # 1
        <4>1. i - 1 \in 1..Len(v.left) /\ v.left[i - 1].handler = h
          BY <1>1, <1>2, <3>1, <3>3
        <4>. QED  BY <4>1 DEF Holds
      <3>. QED  BY <3>2, <3>3
    <2>2. CASE Holds(w.value, h) \/ Holds(w.errors, h)
      <3>1. \A q \in {w.value, w.errors} : Holds(q, h) => Holds(Append(q, Head(w.left)), h)
        BY <1>3 DEF Holds
      <3>. QED  BY <1>2, <2>2, <3>1
    <2>. QED  BY <2>1, <2>2 DEF Owed
  <1>9. Owed(v, D)
    BY <1>2, <1>8 DEF Owed
  <1>. QED  BY <1>7, <1>9

\* A walk does not notice what others do: the places taken stay, and who is owed
\* the event stays connected.
LEMMA WalkFrame ==
    ASSUME NEW w, Walking(w), \A s : Placed(s) => Placed(s)'
    PROVE  Walking(w)'
  <1>1. /\ \A i \in 1..Len(w.left) : Placed(w.left[i])'
        /\ \A i \in 1..Len(w.value) : Placed(w.value[i])'
    BY DEF Walking
  <1>. QED  BY <1>1 DEF Walking, Increasing, Slot

LEMMA OwedFrame ==
    ASSUME NEW w, NEW D, Owed(w, D), NEW E \in SUBSET D, E \cap evDead' = {},
           \A s \in evSlots : s.handler \notin evDead' => s \in evSlots'
    PROVE  Owed(w, E)'
  <1>1. w.pc = "found" => \A h \in E : \E s \in evSlots' : s.handler = h /\ s.holder = w.holder
    <2>. SUFFICES ASSUME w.pc = "found", NEW h \in E
                  PROVE  \E s \in evSlots' : s.handler = h /\ s.holder = w.holder
      OBVIOUS
    <2>1. PICK s \in evSlots : s.handler = h /\ s.holder = w.holder
      BY DEF Owed
    <2>. QED  BY <2>1
  <1>2. w.pc \in {"walk", "run", "done"} =>
           \A h \in E : Holds(w.left, h) \/ Holds(w.value, h) \/ Holds(w.errors, h)
    BY DEF Owed
  <1>. QED  BY <1>1, <1>2 DEF Owed, Holds

\* A step of one publication alone.
LEMMA WalkStep ==
    ASSUME EvInv, NEW p \in Publishers, NEW v, Walking(v), Owed(v, evDue[p]),
           evWalk' = [evWalk EXCEPT ![p] = v],
           UNCHANGED <<evBus, evHolder, evNext, evTicket, evSlots, evDead, evDue>>
    PROVE  EvInv'
  <1>1. EvTypes'
    BY DEF EvInv, EvTypes, Placed
  <1>2. \A s : Placed(s) => Placed(s)'
    BY DEF Placed
  <1>3. ASSUME NEW k \in Publishers PROVE (Walking(evWalk[k]) /\ Owed(evWalk[k], evDue[k]))'
    <2>1. evWalk'[k] = IF k = p THEN v ELSE evWalk[k]
      BY DEF EvInv, EvTypes
    <2>2. Walking(evWalk'[k]) /\ Owed(evWalk'[k], evDue[k])
      BY <2>1 DEF EvInv
    <2>3. evDue[k] \cap evDead' = {}
      BY <2>2 DEF Owed
    <2>4. Walking(evWalk[k])'
      BY <1>2, <2>2, WalkFrame
    <2>5. Owed(evWalk[k], evDue[k])'
      BY <2>2 DEF Owed, Holds
    <2>. QED  BY <2>4, <2>5
  <1>. QED  BY <1>1, <1>3 DEF EvInv

\* The places taken before stay, for only a handler without one takes one.
LEMMA TakePlaceEv ==
    ASSUME EvInv, NEW h \in Handlers, TakePlace(h)
    PROVE  EvInv'
  <1>. DEFINE new == [handler |-> h, group |-> evNext, holder |-> evHolder]
              kept == {s \in evSlots : s.handler \notin evDead \/ s.holder # evHolder}
  <1>0. /\ evNext \in Nat \ {0} /\ evHolder \in Nat \ {0}
        /\ evTicket \in [Handlers -> [group : Nat, holder : Nat]]
        /\ IsFiniteSet(evSlots) /\ \A s \in evSlots : Placed(s)
    BY DEF EvInv, EvTypes
  <1>1. \A s : Placed(s) => Placed(s)'
    <2>. SUFFICES ASSUME NEW s, Placed(s) PROVE Placed(s)'
      OBVIOUS
    <2>1. s.handler \in Handlers /\ s.group \in Nat /\ s.group > 0
      BY DEF Placed, Slot
    <2>2. evTicket[h].group = 0
      BY DEF TakePlace, NoTicket
    <2>3. s.handler # h
      BY <2>1, <2>2 DEF Placed
    <2>4. evTicket'[s.handler] = evTicket[s.handler]
      BY <1>0, <2>1, <2>3 DEF TakePlace
    <2>. QED  BY <2>4 DEF Placed, Slot
  <1>2. /\ evTicket' \in [Handlers -> [group : Nat, holder : Nat]]
        /\ evTicket'[h] = [group |-> evNext, holder |-> evHolder]
        /\ \A k \in Handlers : evTicket'[k] # NoTicket => evTicket'[k].group > 0
    BY <1>0 DEF TakePlace, EvInv, EvTypes
  <1>3. ASSUME NEW s, s = new PROVE Placed(s)'
    BY <1>0, <1>2, <1>3 DEF Placed, Slot
  <1>4. evSlots' = kept \cup {new} \/ evSlots' = evSlots
    BY DEF TakePlace
  <1>5. IsFiniteSet(evSlots') /\ \A s \in evSlots' : Placed(s)'
    <2>1. IsFiniteSet(kept) /\ IsFiniteSet(kept \cup {new})
      BY <1>0, FS_Subset, FS_AddElement
    <2>2. \A s \in kept \cup {new} : Placed(s)'
      BY <1>0, <1>1, <1>3
    <2>. QED  BY <1>0, <1>1, <1>4, <2>1, <2>2
  <1>6. EvTypes'
    BY <1>0, <1>2, <1>5 DEF EvTypes, EvInv, TakePlace
  <1>7. \A s \in evSlots : s.handler \notin evDead' => s \in evSlots'
    BY <1>4 DEF TakePlace
  <1>8. ASSUME NEW p \in Publishers PROVE (Walking(evWalk[p]) /\ Owed(evWalk[p], evDue[p]))'
    <2>1. evWalk'[p] = evWalk[p] /\ evDue'[p] = evDue[p] /\ evDead' = evDead
      BY DEF TakePlace
    <2>2. Walking(evWalk'[p]) /\ Owed(evWalk'[p], evDue'[p])
      BY <2>1 DEF EvInv
    <2>3. evDue'[p] \cap evDead' = {}
      BY <2>1, <2>2 DEF Owed
    <2>4. Walking(evWalk[p])'
      BY <1>1, <2>2, WalkFrame
    <2>5. Owed(evWalk[p], evDue[p])'
      BY <1>7, <2>2, <2>3, OwedFrame
    <2>. QED  BY <2>4, <2>5
  <1>. QED  BY <1>6, <1>8 DEF EvInv

LEMMA ConnectEv ==
    ASSUME EvInv, NEW h \in Handlers, Connect(h)
    PROVE  EvInv'
  <1>. DEFINE new == [handler |-> h, group |-> SlotGroup(h), holder |-> evTicket[h].holder]
  <1>0. /\ evTicket \in [Handlers -> [group : Nat, holder : Nat]]
        /\ IsFiniteSet(evSlots) /\ \A s \in evSlots : Placed(s)
        /\ evTicket[h].group > 0
    BY DEF EvInv, EvTypes, Connect, NoTicket
  <1>1. \A s : Placed(s) => Placed(s)'
    BY DEF Connect, Placed
  <1>2. ASSUME NEW s, s = new PROVE Placed(s)
    BY <1>0, <1>2 DEF Placed, Slot, SlotGroup
  <1>3. evSlots' = evSlots \cup {new}
    BY DEF Connect
  <1>4. IsFiniteSet(evSlots') /\ \A s \in evSlots' : Placed(s)'
    BY <1>0, <1>1, <1>2, <1>3, FS_AddElement
  <1>5. EvTypes'
    BY <1>4 DEF EvTypes, EvInv, Connect
  <1>6. ASSUME NEW p \in Publishers PROVE (Walking(evWalk[p]) /\ Owed(evWalk[p], evDue[p]))'
    <2>1. evWalk'[p] = evWalk[p] /\ evDue'[p] = evDue[p] /\ evDead' = evDead
      BY DEF Connect
    <2>2. Walking(evWalk'[p]) /\ Owed(evWalk'[p], evDue'[p])
      BY <2>1 DEF EvInv
    <2>3. evDue'[p] \cap evDead' = {}
      BY <2>1, <2>2 DEF Owed
    <2>4. Walking(evWalk[p])'
      BY <1>1, <2>2, WalkFrame
    <2>5. Owed(evWalk[p], evDue[p])'
      BY <1>3, <2>2, <2>3, OwedFrame
    <2>. QED  BY <2>4, <2>5
  <1>. QED  BY <1>5, <1>6 DEF EvInv

\* Who is disconnected is owed nothing any more.
LEMMA ForgetEv ==
    ASSUME EvInv, NEW dead, evDead' = evDead \cup dead, Forget(dead), evHolder' \in Nat \ {0},
           UNCHANGED <<evBus, evNext, evTicket, evSlots, evWalk>>
    PROVE  EvInv'
  <1>1. \A s : Placed(s) => Placed(s)'
    BY DEF Placed
  <1>2. EvTypes'
    BY <1>1 DEF EvTypes, EvInv, Forget
  <1>3. ASSUME NEW p \in Publishers PROVE (Walking(evWalk[p]) /\ Owed(evWalk[p], evDue[p]))'
    <2>1. evWalk'[p] = evWalk[p] /\ evDue'[p] = evDue[p] \ dead
      BY DEF Forget
    <2>2. Walking(evWalk'[p]) /\ Owed(evWalk'[p], evDue[p])
      BY <2>1 DEF EvInv
    <2>3. evDue'[p] \in SUBSET evDue[p] /\ evDue'[p] \cap evDead' = {}
      BY <2>1, <2>2 DEF Owed
    <2>4. Walking(evWalk[p])'
      BY <1>1, <2>2, WalkFrame
    <2>5. Owed(evWalk[p], evDue[p])'
      BY <2>2, <2>3, OwedFrame
    <2>. QED  BY <2>4, <2>5
  <1>. QED  BY <1>2, <1>3 DEF EvInv

LEMMA BeginPublishEv ==
    ASSUME EvInv, NEW p \in Publishers, NEW mode \in {"propagate", "capture"}, BeginPublish(p, mode)
    PROVE  EvInv'
  <1>. DEFINE v == [NoWalk EXCEPT !.pc = "found", !.mode = mode, !.holder = evHolder]
  <1>1. EvTypes' /\ \A s : Placed(s) => Placed(s)'
    BY DEF EvInv, EvTypes, BeginPublish, Placed
  <1>2. /\ v.pc = "found" /\ v.holder = evHolder /\ v.left = <<>> /\ v.value = <<>>
        /\ v \in [pc : {"new", "found", "walk", "run", "threw", "done"},
                  mode : {"none", "propagate", "capture"}, holder : Nat, left : Seq(Slot),
                  value : Seq(Slot), errors : Seq(Slot)]
    <2>1. evHolder \in Nat
      BY DEF EvInv, EvTypes
    <2>2. NoWalk \in [pc : {"new", "found", "walk", "run", "threw", "done"},
                      mode : {"none", "propagate", "capture"}, holder : Nat, left : Seq(Slot),
                      value : Seq(Slot),
                      errors : Seq(Slot)] /\ NoWalk.left = <<>> /\ NoWalk.value = <<>>
      BY EmptyWalk DEF Walking, NoWalk
    <2>. QED  BY <2>1, <2>2
  <1>3. evWalk'[p] = v /\ evDue'[p] = Registered \ evDead /\ evDead' = evDead /\ evSlots' = evSlots
    BY DEF EvInv, EvTypes, BeginPublish
  <1>4. Walking(v)
    <2>1. Len(<<>>) = 0
      OBVIOUS
    <2>. HIDE DEF v
    <2>. QED  BY <1>2, <2>1 DEF Walking, Increasing
  <1>5. Owed(v, Registered \ evDead)
    <2>1. \A h \in Registered : \E s \in evSlots : s.handler = h /\ s.holder = evHolder
      BY DEF Registered
    <2>2. v.pc = "found" /\ v.holder = evHolder
      BY <1>2
    <2>. QED  BY <2>1, <2>2 DEF Owed
  <1>. HIDE DEF v
  <1>6. ASSUME NEW k \in Publishers PROVE (Walking(evWalk[k]) /\ Owed(evWalk[k], evDue[k]))'
    <2>1. CASE k = p
      <3>1. Walking(evWalk'[k]) /\ Owed(evWalk'[k], evDue'[k])
        BY <1>3, <1>4, <1>5, <2>1
      <3>2. Walking(evWalk[k])'
        BY <1>1, <3>1, WalkFrame
      <3>3. Owed(evWalk[k], evDue[k])'
        BY <1>3, <3>1 DEF Owed, Holds
      <3>. QED  BY <3>2, <3>3
    <2>2. CASE k # p
      <3>1. evWalk'[k] = evWalk[k] /\ evDue'[k] = evDue[k]
        BY <2>2 DEF EvInv, EvTypes, BeginPublish
      <3>2. Walking(evWalk'[k]) /\ Owed(evWalk'[k], evDue'[k])
        BY <3>1 DEF EvInv
      <3>3. Walking(evWalk[k])'
        BY <1>1, <3>2, WalkFrame
      <3>4. Owed(evWalk[k], evDue[k])'
        BY <1>3, <3>2 DEF Owed, Holds
      <3>. QED  BY <3>3, <3>4
    <2>. QED  BY <2>1, <2>2
  <1>. QED  BY <1>1, <1>6 DEF EvInv

\* The snapshot holds every slot of the holder, so everyone who is owed the event.
LEMMA SnapshotEv ==
    ASSUME EvInv, NEW p \in Publishers, Snapshot(p)
    PROVE  EvInv'
  <1>. DEFINE w == evWalk[p]
              S == {s \in evSlots : s.holder = w.holder}
  <1>1. PICK q \in InOrder(S) : evWalk' = [evWalk EXCEPT ![p].pc = "walk", ![p].left = q]
    BY DEF Snapshot
  <1>. DEFINE v == [w EXCEPT !.pc = "walk", !.left = q]
  <1>2. evWalk' = [evWalk EXCEPT ![p] = v]
    BY <1>1 DEF EvInv, EvTypes
  <1>3. Walking(w) /\ Owed(w, evDue[p]) /\ w.pc = "found"
    BY DEF EvInv, Snapshot
  <1>4. Cardinality(S) \in Nat
    BY FS_Subset, FS_CardinalityType DEF EvInv, EvTypes
  <1>5. /\ q \in [1..Cardinality(S) -> S] /\ Range(q) = S
        /\ \A i, j \in DOMAIN q : i < j => q[i].group < q[j].group
    BY <1>1 DEF InOrder
  <1>6. \A s \in S : Placed(s) /\ s \in Slot
    BY DEF EvInv, EvTypes, Placed
  <1>. HIDE DEF S, w
  <1>7. q \in Seq(Slot) /\ Len(q) = Cardinality(S) /\ DOMAIN q = 1..Len(q)
    <2>1. q \in [1..Cardinality(S) -> Slot]
      BY <1>5, <1>6
    <2>. QED  BY <1>4, <2>1
  <1>8. /\ v.pc = "walk" /\ v.left = q /\ v.value = <<>>
        /\ v \in [pc : {"new", "found", "walk", "run", "threw", "done"},
                  mode : {"none", "propagate", "capture"}, holder : Nat, left : Seq(Slot),
                  value : Seq(Slot), errors : Seq(Slot)]
    BY <1>3, <1>7 DEF Walking
  <1>9. Walking(v)
    <2>1. Increasing(q) /\ \A i \in 1..Len(q) : Placed(q[i])
      BY <1>5, <1>6, <1>7 DEF Increasing
    <2>2. Len(<<>>) = 0
      OBVIOUS
    <2>. HIDE DEF v
    <2>3. 1..Len(v.value) = {}
      BY <1>8, <2>2
    <2>4. Increasing(v.value)
      BY <2>3 DEF Increasing
    <2>. QED  BY <1>8, <2>1, <2>3, <2>4 DEF Walking
  <1>10. ASSUME NEW h \in evDue[p] PROVE Holds(v.left, h)
    <2>1. PICK s \in S : s.handler = h
      BY <1>3 DEF Owed, S
    <2>2. PICK i \in DOMAIN q : q[i] = s
      BY <1>5 DEF Range
    <2>. QED  BY <1>7, <1>8, <2>1, <2>2 DEF Holds
  <1>11. Owed(v, evDue[p])
    <2>. HIDE DEF v
    <2>. QED  BY <1>3, <1>8, <1>10 DEF Owed
  <1>. QED
    BY <1>2, <1>9, <1>11, WalkStep DEF Snapshot

LEMMA SkipEv ==
    ASSUME EvInv, NEW p \in Publishers, Skip(p)
    PROVE  EvInv'
  <1>1. evWalk' = [evWalk EXCEPT ![p] = [evWalk[p] EXCEPT !.left = Tail(@)]]
    BY DEF Skip
  <1>2. /\ Walking([evWalk[p] EXCEPT !.left = Tail(@)])
        /\ Owed([evWalk[p] EXCEPT !.left = Tail(@)], evDue[p])
    BY SkipWalk DEF EvInv, Skip
  <1>. QED  BY <1>1, <1>2, WalkStep DEF Skip

\* Steps that only move the program counter.
LEMMA MarkEv ==
    ASSUME EvInv, NEW p \in Publishers, StartHandler(p) \/ EndPublish(p)
    PROVE  EvInv'
  <1>. DEFINE w == evWalk[p]
  <1>1. PICK pc \in {"run", "done"} :
           /\ evWalk' = [evWalk EXCEPT ![p] = [w EXCEPT !.pc = pc]]
           /\ pc = "run" => w.left # <<>>
           /\ pc = "done" => w.left = <<>>
    BY DEF StartHandler, EndPublish
  <1>. DEFINE v == [w EXCEPT !.pc = pc]
  <1>2. Walking(w) /\ Owed(w, evDue[p]) /\ w.pc = "walk"
    BY DEF EvInv, StartHandler, EndPublish
  <1>. HIDE DEF w
  <1>3. /\ v.pc = pc /\ v.left = w.left /\ v.value = w.value /\ v.errors = w.errors
        /\ v.holder = w.holder
        /\ v \in [pc : {"new", "found", "walk", "run", "threw", "done"},
                  mode : {"none", "propagate", "capture"}, holder : Nat, left : Seq(Slot),
                  value : Seq(Slot), errors : Seq(Slot)]
    BY <1>2 DEF Walking
  <1>4. Walking(v) /\ Owed(v, evDue[p])
    <2>. HIDE DEF v
    <2>1. Walking(v)
      BY <1>1, <1>2, <1>3 DEF Walking
    <2>2. Owed(v, evDue[p])
      BY <1>1, <1>2, <1>3 DEF Owed
    <2>. QED  BY <2>1, <2>2
  <1>. QED  BY <1>1, <1>4, WalkStep DEF StartHandler, EndPublish

LEMMA HandlerReturnsEv ==
    ASSUME EvInv, NEW p \in Publishers, HandlerReturns(p)
    PROVE  EvInv'
  <1>. DEFINE w == evWalk[p]
              v == Returned(w)
  <1>1. evWalk' = [evWalk EXCEPT ![p] = v]
    BY DEF HandlerReturns, Returned
  <1>2. Walking(w) /\ Owed(w, evDue[p]) /\ w.pc = "run"
    BY DEF EvInv, HandlerReturns
  <1>3. Walking(v) /\ Owed(v, evDue[p])
    BY <1>2, ServeWalk
  <1>. QED  BY <1>1, <1>3, WalkStep DEF HandlerReturns

LEMMA HandlerThrowsEv ==
    ASSUME EvInv, NEW p \in Publishers, HandlerThrows(p)
    PROVE  EvInv'
  <1>. DEFINE w == evWalk[p]
              v == AfterThrow(w)
  <1>1. evWalk' = [evWalk EXCEPT ![p] = v]
    BY DEF HandlerThrows
  <1>2. Walking(w) /\ Owed(w, evDue[p]) /\ w.pc = "run"
    BY DEF EvInv, HandlerThrows
  <1>. HIDE DEF w
  <1>3. Walking(v) /\ Owed(v, evDue[p])
    <2>1. CASE w.mode = "capture"
      <3>1. v = Captured(w)
        BY <2>1 DEF AfterThrow, Captured
      <3>. QED  BY <1>2, <3>1, ServeWalk
    <2>2. CASE w.mode # "capture"
      <3>1. v = [w EXCEPT !.pc = "threw", !.left = <<>>, !.errors = Append(@, Head(w.left))]
        BY <2>2 DEF AfterThrow
      <3>2. Append(w.errors, Head(w.left)) \in Seq(Slot) /\ <<>> \in Seq(Slot) /\ Len(<<>>) = 0
        BY <1>2, AppendFacts, TailFacts DEF Walking
      <3>3. /\ v.pc = "threw" /\ v.left = <<>> /\ v.value = w.value
            /\ v \in [pc : {"new", "found", "walk", "run", "threw", "done"},
                      mode : {"none", "propagate", "capture"}, holder : Nat, left : Seq(Slot),
                      value : Seq(Slot), errors : Seq(Slot)]
        BY <1>2, <3>1, <3>2 DEF Walking
      <3>. HIDE DEF v
      <3>4. Walking(v)
        BY <1>2, <3>2, <3>3 DEF Walking, Increasing
      <3>5. Owed(v, evDue[p])
        BY <1>2, <3>3 DEF Owed
      <3>. QED  BY <3>4, <3>5
    <2>. QED  BY <2>1, <2>2
  <1>. QED  BY <1>1, <1>3, WalkStep DEF HandlerThrows

LEMMA NextEv ==
    ASSUME EvInv, [EvNext]_evVars
    PROVE  EvInv'
  <1>1. CASE UNCHANGED evVars
    <2>1. EvTypes' /\ \A s : Placed(s) => Placed(s)'
      BY <1>1 DEF EvInv, EvTypes, Placed, evVars
    <2>2. ASSUME NEW p \in Publishers PROVE (Walking(evWalk[p]) /\ Owed(evWalk[p], evDue[p]))'
      <3>1. /\ evWalk'[p] = evWalk[p] /\ evDue'[p] = evDue[p] /\ evDead' = evDead
            /\ evSlots' = evSlots
        BY <1>1 DEF evVars
      <3>2. Walking(evWalk'[p]) /\ Owed(evWalk'[p], evDue'[p])
        BY <3>1 DEF EvInv
      <3>3. Walking(evWalk[p])'
        BY <2>1, <3>2, WalkFrame
      <3>4. Owed(evWalk[p], evDue[p])'
        BY <3>1, <3>2 DEF Owed, Holds
      <3>. QED  BY <3>3, <3>4
    <2>. QED  BY <2>1, <2>2 DEF EvInv
  <1>2. ASSUME NEW h \in Handlers, Disconnect(h) PROVE EvInv'
    BY <1>2, ForgetEv DEF Disconnect, EvInv, EvTypes
  <1>3. ASSUME ClearBus PROVE EvInv'
    <2>1. evHolder' \in Nat \ {0}
      BY <1>3 DEF ClearBus, EvInv, EvTypes
    <2>. QED  BY <1>3, <2>1, ForgetEv DEF ClearBus
  <1>. QED
    BY <1>1, <1>2, <1>3, TakePlaceEv, ConnectEv, BeginPublishEv, SnapshotEv, SkipEv, MarkEv,
       HandlerReturnsEv, HandlerThrowsEv DEF EvNext

\* The invariant gives the two promises of a publication.
LEMMA EvInvServes == EvInv => ServedInOrder /\ LiveHandlersServed
  <1>. SUFFICES ASSUME EvInv, NEW p \in Publishers
                PROVE  /\ \A i, j \in DOMAIN evWalk[p].value :
                             i < j => evTicket[evWalk[p].value[i].handler].group
                                        < evTicket[evWalk[p].value[j].handler].group
                       /\ evWalk[p].pc = "done" =>
                             \A h \in evDue[p] :
                                \E s \in Range(evWalk[p].value) \cup Range(evWalk[p].errors) : s.handler = h
    BY DEF ServedInOrder, LiveHandlersServed
  <1>. DEFINE w == evWalk[p]
  <1>1. Walking(w) /\ Owed(w, evDue[p])
    BY DEF EvInv
  <1>. HIDE DEF w
  <1>2. w.value \in Seq(Slot) /\ w.errors \in Seq(Slot) /\ w.left \in Seq(Slot)
    BY <1>1 DEF Walking
  <1>3. DOMAIN w.value = 1..Len(w.value) /\ DOMAIN w.errors = 1..Len(w.errors) /\ Len(<<>>) = 0
    BY <1>2
  <1>4. \A i, j \in DOMAIN w.value :
           i < j => evTicket[w.value[i].handler].group < evTicket[w.value[j].handler].group
    BY <1>1, <1>3 DEF Walking, Increasing, Placed
  <1>5. ASSUME w.pc = "done", NEW h \in evDue[p]
        PROVE  \E s \in Range(w.value) \cup Range(w.errors) : s.handler = h
    <2>1. ~Holds(w.left, h)
      BY <1>1, <1>3, <1>5 DEF Walking, Holds
    <2>2. Holds(w.value, h) \/ Holds(w.errors, h)
      BY <1>1, <1>5, <2>1 DEF Owed
    <2>. QED  BY <1>3, <2>2 DEF Holds, Range
  <1>. QED  BY <1>4, <1>5 DEF w

\* Subscribers are served in the order their subscribe() calls were made, and none that
\* stays connected through a publication is left out of it, however the handlers and
\* the publications of other threads come, go and throw (event_bus.hpp,
\* async_event_bus.hpp).
THEOREM SubscribersAlwaysServed == HostSpec => []SubscribersServed
  <1>. DEFINE Inv == part = "buses" => EvInv
  <1>1. HostInit => Inv
    BY InitEv DEF HostInit
  <1>2. Inv /\ [HostNext]_HostVars => Inv'
    <2>. SUFFICES ASSUME Inv, [HostNext]_HostVars PROVE Inv'
      OBVIOUS
    <2>1. CASE part = "buses"
      <3>1. [EvNext]_evVars /\ part' = part
        BY <2>1 DEF HostNext, HostVars, Others
      <3>. QED  BY <2>1, <3>1, NextEv
    <2>2. CASE part # "buses"
      <3>1. part' = part
        BY DEF HostNext, HostVars, Others
      <3>. QED  BY <2>2, <3>1
    <2>. QED  BY <2>1, <2>2
  <1>3. Inv => SubscribersServed
    BY EvInvServes DEF SubscribersServed
  <1>. QED  BY <1>1, <1>2, <1>3, PTL DEF HostSpec

-----------------------------------------------------------------------------
(* Dynamic extensions (module Plugins).  The name table is an index of the *)
(* dispatcher's contexts, so the modules counted by load_models and the    *)
(* names it serves correspond one to one; and a toolset lives, not dying,  *)
(* while it is loaded or a tool of it exists, so a tool, which holds no    *)
(* library handle itself, finds its code mapped.                           *)

LEMMA LeastNumber ==
    ASSUME NEW S, S \subseteq Nat, S # {}
    PROVE  \E m \in S : \A k \in S : m <= k
  <1>. DEFINE R == {ss \in Nat \X Nat : ss[1] < ss[2]}
  <1>1. IsWellFoundedOn(R, Nat)
    BY NatLessThanWellFounded, Zenon DEF OpToRel
  <1>2. \A k, m \in Nat : k < m => <<k, m>> \in R
    OBVIOUS
  <1>. HIDE DEF R
  <1>3. PICK m \in S : \A k \in S : <<k, m>> \notin R
    BY <1>1, WFMin
  <1>4. ASSUME NEW k \in S PROVE m <= k
    <2>1. ~(k < m) /\ k \in Nat /\ m \in Nat
      BY <1>2, <1>3
    <2>. QED  BY <2>1
  <1>. QED  BY <1>4

\* The name table of the dispatcher is an index of its contexts.
PlIndex(contexts, byName) ==
    /\ \A n \in DOMAIN byName : byName[n] \in Range(contexts) /\ Module[byName[n]].name = n
    /\ \A f \in Range(contexts) : Module[f].name \in DOMAIN byName
PlOutcomes(warmed) ==
    /\ warmed \in [Files -> {"no", "valid", "invalid"}]
    /\ \A f \in Files : /\ warmed[f] = "valid" => Module[f].factory
                        /\ warmed[f] = "invalid" => ~Module[f].factory
PlShaped == \A o \in plObjects : o = [kind |-> o.kind, file |-> o.file, n |-> o.n, dying |-> o.dying]

\* A toolset lives while it is loaded or a tool of it exists.
PlPinned ==
    \A f : f \in Range(plExtensions) \/ (\E t \in plObjects : t.kind = "tool" /\ t.file = f)
           => Object("toolset", f, 0) \in plObjects

PlInv ==
    /\ plContexts \in Seq(Files) /\ PlIndex(plContexts, plByName) /\ PlOutcomes(plWarmed)
    /\ PlShaped /\ (\E S : plExtensions \in Seq(S)) /\ PlPinned
    /\ UsableCountsNames

LEMMA InitPl == PlInit => PlInv
  <1>. SUFFICES ASSUME PlInit PROVE PlInv
    OBVIOUS
  <1>0. <<>> \in Seq(Files) /\ <<>> \in Seq({}) /\ Range(<<>>) = {}
    BY DEF Range
  <1>1. plContexts \in Seq(Files) /\ PlIndex(plContexts, plByName) /\ PlOutcomes(plWarmed)
    BY <1>0 DEF PlInit, PlIndex, PlOutcomes
  <1>2. PlShaped /\ PlPinned /\ UsableCountsNames
    BY <1>0 DEF PlInit, PlShaped, PlPinned, UsableCountsNames
  <1>3. \E S : plExtensions \in Seq(S)
    BY <1>0 DEF PlInit
  <1>. QED  BY <1>1, <1>2, <1>3 DEF PlInv

LEMMA RangeConcat ==
    ASSUME NEW S, NEW s \in Seq(S), NEW t \in Seq(S)
    PROVE  s \o t \in Seq(S) /\ Range(s \o t) = Range(s) \cup Range(t)
  <1>. DEFINE u == s \o t
  <1>1. u \in Seq(S) /\ Len(u) = Len(s) + Len(t)
    OBVIOUS
  <1>2. \A i \in 1..Len(u) : u[i] = IF i <= Len(s) THEN s[i] ELSE t[i - Len(s)]
    OBVIOUS
  <1>3. DOMAIN u = 1..Len(u) /\ DOMAIN s = 1..Len(s) /\ DOMAIN t = 1..Len(t) /\ Len(s) \in Nat /\ Len(t) \in Nat
    BY <1>1
  <1>. HIDE DEF u
  <1>4. ASSUME NEW i \in DOMAIN u PROVE u[i] \in Range(s) \cup Range(t)
    <2>1. CASE i <= Len(s)
      <3>1. i \in DOMAIN s /\ u[i] = s[i]
        BY <1>1, <1>2, <1>3, <2>1
      <3>. QED  BY <3>1 DEF Range
    <2>2. CASE ~(i <= Len(s))
      <3>1. i - Len(s) \in DOMAIN t /\ u[i] = t[i - Len(s)]
        BY <1>1, <1>2, <1>3, <2>2
      <3>. QED  BY <3>1 DEF Range
    <2>. QED  BY <2>1, <2>2
  <1>5. \A x \in Range(s) : x \in Range(u)
    BY <1>1, <1>2, <1>3 DEF Range
  <1>6. ASSUME NEW i \in DOMAIN t PROVE t[i] \in Range(u)
    <2>1. i + Len(s) \in DOMAIN u /\ u[i + Len(s)] = t[i]
      BY <1>1, <1>2, <1>3
    <2>. QED  BY <2>1 DEF Range
  <1>7. \A x \in Range(t) : x \in Range(u)
    BY <1>6 DEF Range
  <1>8. \A x \in Range(u) : x \in Range(s) \cup Range(t)
    BY <1>4 DEF Range
  <1>. QED  BY <1>1, <1>5, <1>7, <1>8 DEF u

LEMMA PlScanned ==
    ASSUME NEW d, NEW files \in Scans(d)
    PROVE  files \in Seq(Files)
  <1>. DEFINE found == {f \in Files : Module[f].dir = d /\ Loads(f)}
  <1>1. IsFiniteSet(found)
    BY PluginBounds, FS_Subset
  <1>2. Cardinality(found) \in Nat
    BY <1>1, FS_CardinalityType
  <1>3. files \in [1..Cardinality(found) -> found]
    BY DEF Scans, SetToSeqs
  <1>4. found \subseteq Files
    OBVIOUS
  <1>. DEFINE n == Cardinality(found)
  <1>. HIDE DEF found
  <1>5. n \in Nat /\ files \in [1..n -> Files]
    BY <1>2, <1>3, <1>4
  <1>. HIDE DEF n
  <1>. QED  BY <1>5

LEMMA PlIndexed ==
    ASSUME NEW contexts \in Seq(Files), NEW byName, NEW files \in Seq(Files), PlIndex(contexts, byName)
    PROVE  /\ PlIndex(contexts \o files, Indexed(byName, files))
           /\ \A n \in DOMAIN byName : n \in DOMAIN Indexed(byName, files)
                                       /\ Indexed(byName, files)[n] = byName[n]
  <1>. DEFINE new == Indexed(byName, files)
  <1>1. DOMAIN new = DOMAIN byName \cup {Module[f].name : f \in Range(files)}
    BY DEF Indexed
  <1>2. \A n \in DOMAIN byName : new[n] = byName[n]
    BY DEF Indexed
  <1>3. DOMAIN files = 1..Len(files) /\ Len(files) \in Nat
    OBVIOUS
  <1>4. ASSUME NEW n \in DOMAIN new, n \notin DOMAIN byName
        PROVE  new[n] \in Range(files) /\ Module[new[n]].name = n
    <2>. DEFINE First(i) == /\ Module[files[i]].name = n
                            /\ \A j \in 1 .. i - 1 : Module[files[j]].name # n
                hits == {i \in DOMAIN files : Module[files[i]].name = n}
    <2>1. hits # {} /\ hits \subseteq Nat
      BY <1>1, <1>3, <1>4 DEF Range
    <2>2. PICK i \in hits : \A k \in hits : i <= k
      BY <2>1, LeastNumber
    <2>3. i \in DOMAIN files /\ First(i)
      BY <1>3, <2>2
    <2>4. new[n] = files[CHOOSE k \in DOMAIN files : First(k)]
      BY <1>4 DEF Indexed
    <2>5. \E k \in DOMAIN files : First(k)
      BY <2>3
    <2>6. (CHOOSE k \in DOMAIN files : First(k)) \in DOMAIN files /\ First(CHOOSE k \in DOMAIN files : First(k))
      BY <2>5
    <2>. QED  BY <2>4, <2>6 DEF Range
  <1>5. Range(contexts \o files) = Range(contexts) \cup Range(files)
    BY RangeConcat
  <1>. HIDE DEF new
  <1>6. PlIndex(contexts \o files, new)
    <2>1. \A n \in DOMAIN new : new[n] \in Range(contexts \o files) /\ Module[new[n]].name = n
      BY <1>2, <1>4, <1>5 DEF PlIndex
    <2>2. \A f \in Range(contexts \o files) : Module[f].name \in DOMAIN new
      BY <1>1, <1>5 DEF PlIndex
    <2>. QED  BY <2>1, <2>2 DEF PlIndex
  <1>. QED  BY <1>1, <1>2, <1>6 DEF new

\* The routable, verified modules, and the names create_model can serve.
CountedFiles(contexts, byName, warmed) == {f \in Routable(contexts, byName) : Verified(warmed, f)}
ServedNames(byName) == {n \in DOMAIN byName : Module[byName[n]].abi /\ Module[byName[n]].factory}

LEMMA PlCounted ==
    ASSUME NEW contexts \in Seq(Files), NEW byName, NEW warmed, PlIndex(contexts, byName),
           \A f \in Routable(contexts, byName) : Verified(warmed, f) <=> Module[f].abi /\ Module[f].factory
    PROVE  Cardinality(CountedFiles(contexts, byName, warmed)) = Cardinality(ServedNames(byName))
  <1>. DEFINE A == CountedFiles(contexts, byName, warmed)
              B == ServedNames(byName)
              h == [f \in A |-> Module[f].name]
  <1>0. Range(contexts) \subseteq Files
    BY DEF Range
  <1>1. A \in SUBSET Files
    BY <1>0 DEF CountedFiles, Routable
  <1>2. IsFiniteSet(A)
    BY <1>1, PluginBounds, FS_Subset
  <1>3. \A f \in A : h[f] \in B /\ byName[h[f]] = f
    BY DEF PlIndex, CountedFiles, ServedNames, Routable
  <1>4. \A n \in B : byName[n] \in A /\ h[byName[n]] = n
    BY DEF PlIndex, CountedFiles, ServedNames, Routable
  <1>5. h \in Bijection(A, B)
    <2>. HIDE DEF A, B
    <2>1. h \in [A -> B]
      BY <1>3
    <2>2. \A f, g \in A : h[f] = h[g] => f = g
      BY <1>3
    <2>3. \A n \in B : \E f \in A : h[f] = n
      BY <1>4
    <2>. HIDE DEF h
    <2>. QED  BY <2>1, <2>2, <2>3 DEF Bijection, Injection, Surjection, IsInjective
  <1>6. Cardinality(B) = Cardinality(A)
    <2>. HIDE DEF A, B, h
    <2>1. ExistsBijection(A, B)
      BY <1>5 DEF ExistsBijection
    <2>. QED  BY <1>2, <2>1, FS_Bijection
  <1>. QED  BY <1>6

-----------------------------------------------------------------------------
\* New objects that are no tools disturb no toolset.
LEMMA PlMinted ==
    ASSUME NEW N, plObjects' = plObjects \cup N, plExtensions' = plExtensions, PlShaped, PlPinned,
           \A o \in N : /\ o = [kind |-> o.kind, file |-> o.file, n |-> o.n, dying |-> o.dying]
                        /\ o.kind # "tool"
    PROVE  PlShaped' /\ PlPinned'
  <1>1. PlShaped'
    BY DEF PlShaped
  <1>2. PlPinned'
    <2>. SUFFICES ASSUME NEW f,
                         \/ f \in Range(plExtensions)
                         \/ \E t \in plObjects' : t.kind = "tool" /\ t.file = f
                  PROVE  Object("toolset", f, 0) \in plObjects'
      BY DEF PlPinned, Object
    <2>1. f \in Range(plExtensions) \/ \E t \in plObjects : t.kind = "tool" /\ t.file = f
      OBVIOUS
    <2>. QED  BY <2>1 DEF PlPinned
  <1>. QED  BY <1>1, <1>2

\* load_extensions' result is a sequence, whatever its loaders accept.
PlTyped == \E S : plExtensions \in Seq(S)

\* What the dispatcher's part of the state says is a matter of its variables alone.
LEMMA PlDispatcherKept ==
    ASSUME PlInv, UNCHANGED <<plContexts, plByName, plUsable>>
    PROVE  plContexts' \in Seq(Files) /\ PlIndex(plContexts', plByName') /\ UsableCountsNames'
  BY DEF PlInv, UsableCountsNames

\* A step moves no provider name to another module.
RouteKept == \A n \in DOMAIN plByName : n \in DOMAIN plByName' => plByName'[n] = plByName[n]

LEMMA LoadProvidersPl ==
    ASSUME PlInv, NEW d \in Directories, LoadProviders(d)
    PROVE  PlInv' /\ RouteKept
  <1>1. PICK files \in Scans(d) :
          LET contexts == plContexts \o files
              byName   == Indexed(plByName, files)
              counted  == Routable(contexts, byName)
              warmed   == [f \in Files |-> IF f \in counted /\ Module[f].abi
                                           THEN Warm(plWarmed, f) ELSE plWarmed[f]]
          IN  /\ plContexts' = contexts
              /\ plByName' = byName
              /\ plWarmed' = warmed
              /\ plUsable' = Cardinality({f \in counted : Verified(warmed, f)})
              /\ plObjects' = plObjects \cup ContextsOf(Range(files))
    BY DEF LoadProviders
  <1>. DEFINE contexts == plContexts \o files
              byName   == Indexed(plByName, files)
              counted  == Routable(contexts, byName)
              warmed   == [f \in Files |-> IF f \in counted /\ Module[f].abi
                                           THEN Warm(plWarmed, f) ELSE plWarmed[f]]
              N        == ContextsOf(Range(files))
  <1>2. /\ plContexts' = contexts /\ plByName' = byName /\ plWarmed' = warmed
        /\ plUsable' = Cardinality({f \in counted : Verified(warmed, f)})
        /\ plObjects' = plObjects \cup N
    BY <1>1
  <1>3. plExtensions' = plExtensions
    BY DEF LoadProviders
  <1>4. files \in Seq(Files)
    BY PlScanned
  <1>5. contexts \in Seq(Files)
    BY <1>4, RangeConcat DEF PlInv
  <1>6. PlIndex(contexts, byName) /\ \A n \in DOMAIN plByName : byName[n] = plByName[n]
    BY <1>4, PlIndexed DEF PlInv
  <1>7. counted \subseteq Files
    BY <1>5 DEF Routable, Range
  <1>8. PlOutcomes(plWarmed) /\ PlShaped /\ PlPinned /\ PlTyped
    BY DEF PlInv, PlTyped
  <1>9. \A o \in N : /\ o = [kind |-> o.kind, file |-> o.file, n |-> o.n, dying |-> o.dying]
                     /\ o.kind # "tool"
    BY DEF ContextsOf, Object
  <1>. HIDE DEF contexts, byName, counted, N
  <1>10. PlOutcomes(warmed)
    BY <1>7, <1>8 DEF PlOutcomes, Warm
  <1>11. \A f \in counted : Verified(warmed, f) <=> Module[f].abi /\ Module[f].factory
    BY <1>7, <1>8 DEF PlOutcomes, Warm, Verified
  <1>. HIDE DEF warmed
  <1>12. Cardinality(CountedFiles(contexts, byName, warmed)) = Cardinality(ServedNames(byName))
    <2>1. \A f \in Routable(contexts, byName) : Verified(warmed, f) <=> Module[f].abi /\ Module[f].factory
      BY <1>11 DEF counted
    <2>. QED  BY <1>5, <1>6, <2>1, PlCounted
  <1>13. UsableCountsNames'
    <2>1. plUsable' = Cardinality(CountedFiles(contexts, byName, warmed))
      BY <1>2 DEF CountedFiles, counted
    <2>2. plUsable' = Cardinality(ServedNames(byName))
      BY <1>12, <2>1
    <2>3. UsableCountsNames' <=> (plContexts' # <<>> => plUsable' = Cardinality(ServedNames(plByName')))
      BY DEF UsableCountsNames, ServedNames
    <2>. QED  BY <1>2, <2>2, <2>3
  <1>14. PlShaped' /\ PlPinned'
    BY <1>2, <1>3, <1>8, <1>9, PlMinted
  <1>15. PlTyped'
    BY <1>3, <1>8 DEF PlTyped
  <1>. QED  BY <1>2, <1>5, <1>6, <1>10, <1>13, <1>14, <1>15 DEF PlInv, PlTyped, RouteKept

LEMMA CreateModelPl ==
    ASSUME PlInv, NEW name, CreateModel(name)
    PROVE  PlInv' /\ RouteKept
  <1>. DEFINE f == plByName[name]
              N == {o \in {Object("model", f, Cardinality(Models))} : plObjects' # plObjects}
  <1>1. UNCHANGED <<plContexts, plByName, plUsable, plExtensions>> /\ name \in DOMAIN plByName
    BY DEF CreateModel
  <1>2. plObjects' = plObjects \cup N
    BY DEF CreateModel
  <1>3. \A o \in N : /\ o = [kind |-> o.kind, file |-> o.file, n |-> o.n, dying |-> o.dying]
                     /\ o.kind # "tool"
    BY DEF Object
  <1>4. plWarmed' = plWarmed \/ plWarmed' = [plWarmed EXCEPT ![f] = Warm(plWarmed, f)]
    BY DEF CreateModel
  <1>5. PlOutcomes(plWarmed) /\ PlShaped /\ PlPinned /\ PlTyped
    BY DEF PlInv, PlTyped
  <1>. HIDE DEF f, N
  <1>6. PlOutcomes(plWarmed')
    BY <1>4, <1>5 DEF PlOutcomes, Warm
  <1>7. PlShaped' /\ PlPinned'
    BY <1>1, <1>2, <1>3, <1>5, PlMinted
  <1>8. plContexts' \in Seq(Files) /\ PlIndex(plContexts', plByName') /\ UsableCountsNames'
    BY <1>1, PlDispatcherKept
  <1>9. PlTyped'
    BY <1>1, <1>5 DEF PlTyped
  <1>. QED  BY <1>1, <1>6, <1>7, <1>8, <1>9 DEF PlInv, PlTyped, RouteKept

LEMMA ClearDispatcherPl == PlInv /\ ClearDispatcher => PlInv' /\ RouteKept
  <1>. SUFFICES ASSUME PlInv, ClearDispatcher PROVE PlInv' /\ RouteKept
    OBVIOUS
  <1>1. /\ plContexts' = <<>> /\ DOMAIN plByName' = {}
        /\ UNCHANGED <<plWarmed, plObjects, plExtensions>>
    BY DEF ClearDispatcher
  <1>2. <<>> \in Seq(Files) /\ Range(<<>>) = {}
    BY DEF Range
  <1>3. plContexts' \in Seq(Files) /\ PlIndex(plContexts', plByName') /\ UsableCountsNames'
    BY <1>1, <1>2 DEF PlIndex, UsableCountsNames
  <1>4. PlOutcomes(plWarmed)' /\ PlShaped' /\ PlPinned' /\ PlTyped'
    BY <1>1 DEF PlInv, PlOutcomes, PlShaped, PlPinned, PlTyped, Object
  <1>. QED  BY <1>1, <1>3, <1>4 DEF PlInv, PlTyped, RouteKept

LEMMA ScanExtensionsPl == PlInv /\ ScanExtensions => PlInv' /\ RouteKept
  <1>. SUFFICES ASSUME PlInv, ScanExtensions PROVE PlInv' /\ RouteKept
    OBVIOUS
  <1>. DEFINE N == {[o EXCEPT !.kind = "extension_context"] : o \in ContextsOf(Range(plLoader'))}
  <1>1. /\ UNCHANGED <<plContexts, plByName, plWarmed, plUsable, plExtensions>>
        /\ plObjects' = plObjects \cup N
    <2>1. plObjects' = plObjects \cup N
      BY Zenon DEF ScanExtensions
    <2>2. UNCHANGED <<plScanned, plContexts, plByName, plWarmed, plUsable, plQueue, plExtensions>>
      BY Zenon DEF ScanExtensions
    <2>. HIDE DEF N
    <2>. QED  BY <2>1, <2>2
  <1>2. \A o \in N : /\ o = [kind |-> o.kind, file |-> o.file, n |-> o.n, dying |-> o.dying]
                     /\ o.kind # "tool"
    <2>. SUFFICES ASSUME NEW o \in N
                  PROVE  /\ o = [kind |-> o.kind, file |-> o.file, n |-> o.n, dying |-> o.dying]
                         /\ o.kind # "tool"
      OBVIOUS
    <2>1. PICK c \in Range(plLoader') : o = [Object("context", c, 0) EXCEPT !.kind = "extension_context"]
      BY DEF ContextsOf
    <2>2. o = [kind |-> "extension_context", file |-> c, n |-> 0, dying |-> FALSE]
      BY <2>1 DEF Object
    <2>. QED  BY <2>2
  <1>. HIDE DEF N
  <1>3. PlShaped' /\ PlPinned'
    BY <1>1, <1>2, PlMinted DEF PlInv
  <1>4. plContexts' \in Seq(Files) /\ PlIndex(plContexts', plByName') /\ UsableCountsNames'
    BY <1>1, PlDispatcherKept
  <1>5. PlOutcomes(plWarmed)' /\ PlTyped'
    BY <1>1 DEF PlInv, PlOutcomes, PlTyped
  <1>. QED  BY <1>1, <1>3, <1>4, <1>5 DEF PlInv, PlTyped, RouteKept

LEMMA ConstructNextPl == PlInv /\ ConstructNext => PlInv' /\ RouteKept
  <1>. SUFFICES ASSUME PlInv, ConstructNext PROVE PlInv' /\ RouteKept
    OBVIOUS
  <1>1. UNCHANGED <<plContexts, plByName, plWarmed, plUsable>>
    BY DEF ConstructNext
  <1>2. plContexts' \in Seq(Files) /\ PlIndex(plContexts', plByName') /\ UsableCountsNames'
    BY <1>1, PlDispatcherKept
  <1>3. PlOutcomes(plWarmed)'
    BY <1>1 DEF PlInv, PlOutcomes
  <1>4. CASE UNCHANGED <<plObjects, plExtensions>>
    <2>1. PlShaped' /\ PlPinned' /\ PlTyped'
      BY <1>4 DEF PlInv, PlShaped, PlPinned, PlTyped, Object
    <2>. QED  BY <1>1, <1>2, <1>3, <2>1 DEF PlInv, PlTyped, RouteKept
  <1>5. CASE ~UNCHANGED <<plObjects, plExtensions>>
    <2>1. PICK f : /\ plExtensions' = Append(plExtensions, f)
                   /\ plObjects' = plObjects \cup {Object("toolset", f, 0)}
      BY <1>5 DEF ConstructNext
    <2>2. PICK S : plExtensions \in Seq(S)
      BY DEF PlInv
    <2>3. plExtensions' \in Seq(S \cup {f}) /\ Range(plExtensions') \subseteq Range(plExtensions) \cup {f}
      BY <2>1, <2>2 DEF Range
    <2>4. PlShaped'
      BY <2>1 DEF PlInv, PlShaped, Object
    <2>5. PlPinned'
      <3>. SUFFICES ASSUME NEW g,
                           \/ g \in Range(plExtensions')
                           \/ \E t \in plObjects' : t.kind = "tool" /\ t.file = g
                    PROVE  Object("toolset", g, 0) \in plObjects'
        BY DEF PlPinned, Object
      <3>1. Object("toolset", f, 0).kind = "toolset"
        BY DEF Object
      <3>2. \/ g = f \/ g \in Range(plExtensions)
            \/ \E t \in plObjects : t.kind = "tool" /\ t.file = g
        BY <2>1, <2>3, <3>1
      <3>. QED  BY <2>1, <3>2 DEF PlInv, PlPinned
    <2>6. PlTyped'
      BY <2>3 DEF PlTyped
    <2>. QED  BY <1>1, <1>2, <1>3, <2>4, <2>5, <2>6 DEF PlInv, PlTyped, RouteKept
  <1>. QED  BY <1>4, <1>5

\* Extensions that leave the list, and the loader's own steps, take no object away.
LEMMA PlReleased ==
    ASSUME PlInv, UNCHANGED <<plContexts, plByName, plWarmed, plUsable, plObjects>>,
           PlTyped', Range(plExtensions') \subseteq Range(plExtensions)
    PROVE  PlInv' /\ RouteKept
  <1>1. plContexts' \in Seq(Files) /\ PlIndex(plContexts', plByName') /\ UsableCountsNames'
    BY PlDispatcherKept
  <1>2. PlOutcomes(plWarmed)' /\ PlShaped'
    BY DEF PlInv, PlOutcomes, PlShaped
  <1>3. PlPinned'
    BY DEF PlInv, PlPinned, Object
  <1>. QED  BY <1>1, <1>2, <1>3 DEF PlInv, PlTyped, RouteKept

LEMMA LoaderPl ==
    ASSUME PlInv, BeginExtensions \/ LoaderReturns \/ LoaderThrows \/ DropExtension
    PROVE  PlInv' /\ RouteKept
  <1>1. UNCHANGED <<plContexts, plByName, plWarmed, plUsable, plObjects>>
    BY DEF BeginExtensions, LoaderReturns, LoaderThrows, DropExtension
  <1>2. PICK S : plExtensions \in Seq(S)
    BY DEF PlInv
  <1>3. \/ plExtensions' = plExtensions \/ plExtensions' = <<>>
        \/ plExtensions # <<>> /\ plExtensions' = Tail(plExtensions)
    BY DEF BeginExtensions, LoaderReturns, LoaderThrows, DropExtension
  <1>4. plExtensions' \in Seq(S)
    <2>1. CASE plExtensions # <<>> /\ plExtensions' = Tail(plExtensions)
      BY <1>2, <2>1
    <2>2. CASE plExtensions' = plExtensions
      BY <1>2, <2>2
    <2>3. CASE plExtensions' = <<>>
      BY <2>3
    <2>. QED  BY <1>3, <2>1, <2>2, <2>3
  <1>5. Range(plExtensions') \subseteq Range(plExtensions)
    BY <1>2, <1>3 DEF Range
  <1>6. PlTyped'
    BY <1>4 DEF PlTyped
  <1>. QED  BY <1>1, <1>5, <1>6, PlReleased

LEMMA PrepareToolPl ==
    ASSUME PlInv, NEW f, PrepareTool(f)
    PROVE  PlInv' /\ RouteKept
  <1>1. /\ UNCHANGED <<plContexts, plByName, plWarmed, plUsable, plExtensions>>
        /\ f \in Range(plExtensions) /\ plObjects' = plObjects \cup {Object("tool", f, 0)}
    BY DEF PrepareTool
  <1>2. plContexts' \in Seq(Files) /\ PlIndex(plContexts', plByName') /\ UsableCountsNames'
    BY <1>1, PlDispatcherKept
  <1>3. PlOutcomes(plWarmed)' /\ PlTyped'
    BY <1>1 DEF PlInv, PlOutcomes, PlTyped
  <1>4. PlShaped'
    BY <1>1 DEF PlInv, PlShaped, Object
  <1>5. PlPinned'
    <2>. SUFFICES ASSUME NEW g,
                         \/ g \in Range(plExtensions)
                         \/ \E t \in plObjects' : t.kind = "tool" /\ t.file = g
                  PROVE  Object("toolset", g, 0) \in plObjects'
      BY <1>1 DEF PlPinned, Object
    <2>1. Object("tool", f, 0).file = f
      BY DEF Object
    <2>2. \/ g \in Range(plExtensions)
          \/ \E t \in plObjects : t.kind = "tool" /\ t.file = g
      BY <1>1, <2>1
    <2>. QED  BY <1>1, <2>2 DEF PlInv, PlPinned
  <1>. QED  BY <1>1, <1>2, <1>3, <1>4, <1>5 DEF PlInv, PlTyped, RouteKept

LEMMA PlMarked ==
    ASSUME NEW k, NEW f, NEW n, NEW b, NEW t, NEW o,
           o = [kind |-> k, file |-> f, n |-> n, dying |-> b]
    PROVE  [o EXCEPT !.dying = t] = [kind |-> k, file |-> f, n |-> n, dying |-> t]
  OBVIOUS

LEMMA LetGoPl ==
    ASSUME PlInv, NEW o \in plObjects, Destroy(o) \/ ReleaseHandle(o)
    PROVE  PlInv' /\ RouteKept
  <1>1. UNCHANGED <<plContexts, plByName, plWarmed, plUsable, plExtensions>>
    BY DEF Destroy, ReleaseHandle
  <1>2. plContexts' \in Seq(Files) /\ PlIndex(plContexts', plByName') /\ UsableCountsNames'
    BY <1>1, PlDispatcherKept
  <1>3. PlOutcomes(plWarmed)' /\ PlTyped'
    BY <1>1 DEF PlInv, PlOutcomes, PlTyped
  <1>4. o = [kind |-> o.kind, file |-> o.file, n |-> o.n, dying |-> o.dying]
    BY DEF PlInv, PlShaped
  <1>. DEFINE dead == [o EXCEPT !.dying = TRUE]
  <1>5. dead = [kind |-> o.kind, file |-> o.file, n |-> o.n, dying |-> TRUE]
    <2>1. PICK k, f, n, b : o = [kind |-> k, file |-> f, n |-> n, dying |-> b]
      BY <1>4, Zenon
    <2>2. o.kind = k /\ o.file = f /\ o.n = n
      BY <2>1
    <2>3. \A t : [o EXCEPT !.dying = t] = [kind |-> k, file |-> f, n |-> n, dying |-> t]
      BY <2>1, PlMarked
    <2>. QED  BY <2>2, <2>3, Zenon
  <1>6. dead.kind = o.kind /\ dead.file = o.file /\ dead.n = o.n /\ dead.dying = TRUE
    BY <1>5
  <1>. HIDE DEF dead
  <1>7. plObjects \ {o} \subseteq plObjects' /\ plObjects' \subseteq plObjects \cup {dead}
    BY DEF Destroy, ReleaseHandle, dead
  <1>8. PlShaped'
    BY <1>5, <1>6, <1>7 DEF PlInv, PlShaped
  <1>9. PlPinned'
    <2>. SUFFICES ASSUME NEW g,
                         \/ g \in Range(plExtensions)
                         \/ \E t \in plObjects' : t.kind = "tool" /\ t.file = g
                  PROVE  Object("toolset", g, 0) \in plObjects'
      BY <1>1 DEF PlPinned, Object
    <2>1. \/ g \in Range(plExtensions)
          \/ \E t \in plObjects : t.kind = "tool" /\ t.file = g
      BY <1>6, <1>7
    <2>2. Object("toolset", g, 0) \in plObjects
      BY <2>1 DEF PlInv, PlPinned
    <2>3. ASSUME Object("toolset", g, 0) = o PROVE FALSE
      <3>1. o.kind = "toolset" /\ o.file = g /\ o.dying = FALSE
        BY <2>3 DEF Object
      <3>2. Owned(o)
        BY <2>1, <3>1 DEF Owned
      <3>. QED  BY <3>1, <3>2 DEF Destroy, ReleaseHandle
    <2>. QED  BY <1>7, <2>2, <2>3
  <1>. QED  BY <1>1, <1>2, <1>3, <1>8, <1>9 DEF PlInv, PlTyped, RouteKept

LEMMA NextPl == PlInv /\ [PlNext]_plVars => PlInv' /\ RouteKept
  <1>. SUFFICES ASSUME PlInv, [PlNext]_plVars PROVE PlInv' /\ RouteKept
    OBVIOUS
  <1>1. CASE UNCHANGED plVars
    <2>1. PlTyped' /\ Range(plExtensions') \subseteq Range(plExtensions)
      BY <1>1 DEF PlInv, PlTyped, plVars
    <2>. QED  BY <1>1, <2>1, PlReleased DEF plVars
  <1>. QED
    BY <1>1, LoadProvidersPl, CreateModelPl, ClearDispatcherPl, ScanExtensionsPl, ConstructNextPl,
       LoaderPl, PrepareToolPl, LetGoPl DEF PlNext

\* The toolset a tool pins keeps the library mapped; every other object does so itself.
LEMMA PlInvMaps == PlInv => CodeStaysMapped /\ UsableCountsNames
  <1>. SUFFICES ASSUME PlInv, NEW o \in plObjects PROVE Mapped(o.file)
    BY DEF PlInv, CodeStaysMapped
  <1>1. CASE o.kind = "tool"
    <2>1. Object("toolset", o.file, 0) \in plObjects
      BY <1>1 DEF PlInv, PlPinned
    <2>2. Object("toolset", o.file, 0).file = o.file /\ Object("toolset", o.file, 0).kind = "toolset"
      BY DEF Object
    <2>. QED  BY <2>1, <2>2 DEF Mapped, HoldsHandle
  <1>2. CASE o.kind # "tool"
    BY <1>2 DEF Mapped, HoldsHandle
  <1>. QED  BY <1>1, <1>2

\* Extensions and providers in whatever order directories are scanned, models
\* are minted and owners let go: a library stays mapped while an object with
\* code in it exists, the number of usable providers that load_models returns
\* is the number of names create_model can serve, and a name never moves to
\* another module while its dispatcher lives.
THEOREM PluginRoutesAlwaysSound == HostSpec => PluginRoutesSound
  <1>. DEFINE Inv == part = "plugins" => PlInv
              Sound == part = "plugins" => CodeStaysMapped /\ UsableCountsNames
  <1>1. HostInit => Inv
    BY InitPl DEF HostInit
  <1>2. Inv /\ [HostNext]_HostVars => Inv' /\ [RouteKept]_plVars
    <2>. SUFFICES ASSUME Inv, [HostNext]_HostVars PROVE Inv' /\ [RouteKept]_plVars
      OBVIOUS
    <2>1. CASE part = "plugins"
      <3>1. [PlNext]_plVars /\ part' = part
        BY <2>1 DEF HostNext, HostVars, Others
      <3>. QED  BY <2>1, <3>1, NextPl
    <2>2. CASE part # "plugins"
      <3>1. part' = part /\ UNCHANGED plVars
        BY <2>2 DEF HostNext, HostVars, Others
      <3>. QED  BY <2>2, <3>1
    <2>. QED  BY <2>1, <2>2
  <1>3. Inv => Sound
    BY PlInvMaps
  <1>. HIDE DEF Inv, Sound
  <1>4. HostSpec => []Sound /\ [][RouteKept]_plVars
    BY <1>1, <1>2, <1>3, PTL DEF HostSpec
  <1>. QED
    BY <1>4 DEF PluginRoutesSound, RouteStable, RouteKept, Sound

(***************************************************************************)
(* The event outbox.  Bytes are reserved when an event is admitted and     *)
(* again when the transport takes it, and released in three places; the    *)
(* invariant ties every counter to the queue it is kept for and bounds     *)
(* what outbox and transport hold together, the event both count counted   *)
(* once.  How many lifecycle events may be held is a matter of where the   *)
(* request in hand is, because a new one waits until everything is gone.   *)
(***************************************************************************)
\* f is the table of the partial sums of s.
IsSum(f, s) == /\ f \in [0..Len(s) -> Nat] /\ f[0] = 0
               /\ \A i \in 1..Len(s) : f[i] = f[i - 1] + s[i]

LEMMA SumExists ==
    ASSUME NEW s \in Seq(Nat)
    PROVE  \E f : IsSum(f, s)
  <1>. DEFINE P(n) == \E f \in [0..n -> Nat] : f[0] = 0 /\ \A i \in 1..n : f[i] = f[i - 1] + s[i]
              Bad  == {n \in 0..Len(s) : ~P(n)}
  <1>0. Len(s) \in Nat /\ \A i \in 1..Len(s) : s[i] \in Nat
    OBVIOUS
  <1>1. SUFFICES ASSUME Bad # {} PROVE FALSE
    <2>1. Bad = {}
      BY <1>1
    <2>3. P(Len(s))
      <3>. HIDE DEF P
      <3>. QED  BY <1>0, <2>1
    <2>. QED  BY <2>3 DEF IsSum
  <1>2. PICK m \in Bad : \A k \in Bad : m <= k
    <2>1. Bad \subseteq Nat
      BY <1>0
    <2>. HIDE DEF Bad
    <2>. QED  BY <1>1, <2>1, LeastNumber
  <1>3. CASE m = 0
    <2>. DEFINE z == [i \in 0..0 |-> 0]
    <2>1. z \in [0..0 -> Nat] /\ z[0] = 0 /\ \A i \in 1..0 : z[i] = z[i - 1] + s[i]
      OBVIOUS
    <2>. HIDE DEF z
    <2>2. P(0)
      BY <2>1
    <2>. QED  BY <1>2, <1>3, <2>2
  <1>4. CASE m # 0
    <2>1. m - 1 \in 0..Len(s) /\ m \in 1..Len(s) /\ P(m - 1)
      <3>. HIDE DEF P
      <3>1. m \in 1..Len(s) /\ m - 1 \in 0..Len(s) /\ ~(m <= m - 1)
        BY <1>0, <1>2, <1>4
      <3>. QED  BY <1>2, <3>1
    <2>2. PICK f \in [0..(m - 1) -> Nat] : f[0] = 0 /\ \A i \in 1..(m - 1) : f[i] = f[i - 1] + s[i]
      BY <2>1
    <2>. DEFINE g == [i \in 0..m |-> IF i = m THEN f[m - 1] + s[m] ELSE f[i]]
    <2>3. g \in [0..m -> Nat] /\ g[0] = 0
      BY <1>0, <2>1, <2>2
    <2>4. ASSUME NEW i \in 1..m PROVE g[i] = g[i - 1] + s[i]
      <3>1. CASE i = m
        <4>1. g[i] = f[m - 1] + s[m] /\ g[i - 1] = f[m - 1]
          BY <1>0, <2>1, <3>1
        <4>. HIDE DEF g
        <4>. QED  BY <3>1, <4>1
      <3>2. CASE i # m
        <4>1. i \in 1..(m - 1) /\ i - 1 \in 0..m /\ i - 1 # m
          BY <1>0, <2>1, <3>2
        <4>2. g[i] = f[i] /\ g[i - 1] = f[i - 1]
          BY <1>0, <2>1, <3>2, <4>1
        <4>. HIDE DEF g
        <4>. QED  BY <2>2, <4>1, <4>2
      <3>. QED  BY <3>1, <3>2
    <2>. HIDE DEF g
    <2>5. P(m)
      BY <2>3, <2>4
    <2>. QED  BY <1>2, <2>5
  <1>. QED  BY <1>3, <1>4

LEMMA SumAt ==
    ASSUME NEW s \in Seq(Nat), NEW f, IsSum(f, s), NEW i \in 1..Len(s)
    PROVE  /\ f[i] = f[i - 1] + s[i] /\ f[i] \in Nat /\ f[i - 1] \in Nat /\ s[i] \in Nat
           /\ i - 1 \in 0..Len(s)
  <1>1. Len(s) \in Nat /\ i - 1 \in 0..Len(s) /\ i \in 0..Len(s) /\ s[i] \in Nat
    OBVIOUS
  <1>2. f[i] \in Nat /\ f[i - 1] \in Nat
    BY <1>1 DEF IsSum
  <1>3. f[i] = f[i - 1] + s[i]
    BY DEF IsSum
  <1>. QED  BY <1>1, <1>2, <1>3

LEMMA SumIs ==
    ASSUME NEW s \in Seq(Nat), NEW f, IsSum(f, s)
    PROVE  Bytes(s) = f[Len(s)] /\ Bytes(s) \in Nat
  <1>. DEFINE N == Len(s)
              Q(g) == g = [n \in 0..N |-> IF n = 0 THEN 0 ELSE g[n - 1] + s[n]]
              c == CHOOSE g : Q(g)
              Bad == {n \in 0..N : c[n] # f[n]}
  <1>0. N \in Nat /\ \A i \in 1..N : s[i] \in Nat
    OBVIOUS
  <1>1. Q(f)
    BY <1>0 DEF IsSum
  <1>2. Q(c)
    <2>. HIDE DEF Q
    <2>. QED  BY <1>1
  <1>3. Bytes(s) = c[N]
    BY DEF Bytes
  <1>. HIDE DEF c
  <1>4. \A n \in 0..N : c[n] = IF n = 0 THEN 0 ELSE c[n - 1] + s[n]
    BY <1>2
  <1>5. ASSUME Bad # {} PROVE FALSE
    <2>1. PICK m \in Bad : \A k \in Bad : m <= k
      <3>1. Bad \subseteq Nat
        BY <1>0
      <3>. HIDE DEF Bad
      <3>. QED  BY <1>5, <3>1, LeastNumber
    <2>2. m # 0
      BY <1>0, <1>4, <2>1 DEF IsSum
    <2>3. m - 1 \in 0..N /\ m \in 1..N /\ m - 1 \notin Bad
      BY <1>0, <2>1, <2>2
    <2>4. c[m] = c[m - 1] + s[m] /\ f[m] = f[m - 1] + s[m] /\ c[m - 1] = f[m - 1]
      BY <1>4, <2>2, <2>3 DEF IsSum
    <2>. QED  BY <2>1, <2>4
  <1>6. c[N] = f[N]
    BY <1>0, <1>5
  <1>7. f[N] \in Nat
    BY <1>0 DEF IsSum
  <1>. QED  BY <1>3, <1>6, <1>7

LEMMA SumCovers ==
    ASSUME NEW s \in Seq(Nat), NEW f, IsSum(f, s), NEW j \in 1..Len(s), NEW i \in j..Len(s)
    PROVE  f[i] >= s[j]
  <1>. DEFINE Bad == {k \in j..Len(s) : ~(f[k] >= s[j])}
  <1>0. Len(s) \in Nat /\ \A k \in 1..Len(s) : s[k] \in Nat
    OBVIOUS
  <1>1. SUFFICES ASSUME Bad # {} PROVE FALSE
    OBVIOUS
  <1>2. PICK m \in Bad : \A k \in Bad : m <= k
    <2>1. Bad \subseteq Nat
      BY <1>0
    <2>. HIDE DEF Bad
    <2>. QED  BY <1>1, <2>1, LeastNumber
  <1>3. m \in 1..Len(s) /\ f[m] = f[m - 1] + s[m] /\ f[m - 1] \in Nat /\ s[m] \in Nat /\ s[j] \in Nat
    <2>1. m \in 1..Len(s)
      BY <1>0, <1>2
    <2>. QED  BY <1>0, <2>1, SumAt
  <1>4. m # j
    BY <1>2, <1>3
  <1>5. m - 1 \in j..Len(s) /\ m - 1 \notin Bad
    BY <1>0, <1>2, <1>4
  <1>6. f[m - 1] >= s[j] /\ ~(f[m] >= s[j])
    BY <1>2, <1>5
  <1>7. \A x, y, z \in Nat : x >= z => x + y >= z
    OBVIOUS
  <1>. QED  BY <1>3, <1>6, <1>7

LEMMA BytesNat == \A s \in Seq(Nat) : Bytes(s) \in Nat
  BY SumExists, SumIs

LEMMA BytesEmpty == Bytes(<<>>) = 0
  <1>. DEFINE z == [i \in 0..0 |-> 0]
  <1>1. <<>> \in Seq(Nat) /\ Len(<<>>) = 0
    OBVIOUS
  <1>2. IsSum(z, <<>>)
    BY <1>1 DEF IsSum
  <1>. HIDE DEF z
  <1>3. Bytes(<<>>) = z[0]
    BY <1>1, <1>2, SumIs
  <1>. QED  BY <1>1, <1>2, <1>3 DEF IsSum

LEMMA BytesAppend ==
    ASSUME NEW s \in Seq(Nat), NEW b \in Nat
    PROVE  Bytes(Append(s, b)) = Bytes(s) + b
  <1>. DEFINE t == Append(s, b)
              N == Len(s)
  <1>1. t \in Seq(Nat) /\ Len(t) = N + 1 /\ t[N + 1] = b /\ (\A i \in 1..N : t[i] = s[i]) /\ N \in Nat
    OBVIOUS
  <1>2. PICK f : IsSum(f, s)
    BY SumExists
  <1>. DEFINE g == [i \in 0..(N + 1) |-> IF i = N + 1 THEN f[N] + b ELSE f[i]]
  <1>. HIDE DEF t
  <1>3. IsSum(g, t)
    <2>0. (\A i \in 0..N : f[i] \in Nat) /\ f[0] = 0
      BY <1>2 DEF IsSum
    <2>1. g \in [0..Len(t) -> Nat] /\ g[0] = 0
      BY <1>1, <2>0
    <2>2. \A i \in 1..Len(t) : g[i] = g[i - 1] + t[i]
      BY <1>1, <1>2 DEF IsSum
    <2>. HIDE DEF g
    <2>. QED  BY <2>1, <2>2 DEF IsSum
  <1>4. g[N + 1] = f[N] + b
    BY <1>1
  <1>. HIDE DEF g
  <1>5. Bytes(t) = g[N + 1] /\ Bytes(s) = f[N]
    BY <1>1, <1>2, <1>3, SumIs
  <1>. QED  BY <1>4, <1>5 DEF t

LEMMA BytesTail ==
    ASSUME NEW s \in Seq(Nat), s # <<>>
    PROVE  Bytes(Tail(s)) = Bytes(s) - s[1] /\ s[1] \in Nat /\ s[1] <= Bytes(s)
  <1>. DEFINE t == Tail(s)
              N == Len(s)
  <1>1. t \in Seq(Nat) /\ Len(t) = N - 1 /\ (\A i \in 1..(N - 1) : t[i] = s[i + 1]) /\ N \in Nat \ {0}
    OBVIOUS
  <1>2. PICK f : IsSum(f, s)
    BY SumExists
  <1>3. s[1] \in Nat /\ \A i \in 1..N : f[i] >= s[1]
    BY <1>1, <1>2, SumCovers
  <1>. DEFINE g == [i \in 0..(N - 1) |-> f[i + 1] - s[1]]
  <1>. HIDE DEF t
  <1>4. IsSum(g, t)
    <2>1. ASSUME NEW i \in 0..(N - 1) PROVE f[i + 1] - s[1] \in Nat
      <3>1. i + 1 \in 1..N
        BY <1>1
      <3>2. f[i + 1] \in Nat /\ f[i + 1] >= s[1]
        BY <1>2, <1>3, <3>1, SumAt
      <3>. QED  BY <1>3, <3>2
    <2>2. f[1] = s[1]
      BY <1>1, <1>2, <1>3 DEF IsSum
    <2>3. g \in [0..Len(t) -> Nat] /\ g[0] = 0
      <3>1. g \in [0..(N - 1) -> Nat]
        BY <2>1
      <3>2. g[0] = f[0 + 1] - s[1]
        BY <1>1
      <3>3. 0 + 1 = 1 /\ s[1] - s[1] = 0
        BY <1>3
      <3>. QED  BY <1>1, <2>2, <3>1, <3>2, <3>3
    <2>4. ASSUME NEW i \in 1..Len(t) PROVE g[i] = g[i - 1] + t[i]
      <3>1. g[i] = f[i + 1] - s[1] /\ g[i - 1] = f[i] - s[1]
        BY <1>1
      <3>2. i + 1 \in 1..N /\ (i + 1) - 1 = i
        BY <1>1
      <3>3. f[i + 1] = f[i] + s[i + 1] /\ f[i] \in Nat /\ s[i + 1] \in Nat
        BY <1>2, <3>2, SumAt
      <3>4. t[i] = s[i + 1]
        BY <1>1
      <3>5. \A x, y, z \in Nat : (x + y) - z = (x - z) + y
        OBVIOUS
      <3>. HIDE DEF g
      <3>. QED  BY <1>3, <3>1, <3>3, <3>4, <3>5
    <2>. HIDE DEF g
    <2>. QED  BY <2>3, <2>4 DEF IsSum
  <1>5. g[N - 1] = f[N] - s[1]
    BY <1>1
  <1>. HIDE DEF g
  <1>6. Bytes(t) = g[N - 1] /\ Bytes(s) = f[N] /\ f[N] >= s[1]
    BY <1>1, <1>2, <1>3, <1>4, SumIs
  <1>7. Bytes(s) \in Nat
    BY BytesNat
  <1>. QED  BY <1>3, <1>5, <1>6, <1>7 DEF t

LEMMA BytesReplace ==
    ASSUME NEW s \in Seq(Nat), NEW j \in 1..Len(s), NEW b \in Nat
    PROVE  Bytes([s EXCEPT ![j] = b]) = Bytes(s) - s[j] + b /\ s[j] \in Nat /\ s[j] <= Bytes(s)
  <1>. DEFINE t == [s EXCEPT ![j] = b]
              N == Len(s)
  <1>1. t \in Seq(Nat) /\ Len(t) = N /\ (\A i \in 1..N : t[i] = IF i = j THEN b ELSE s[i]) /\ N \in Nat
    OBVIOUS
  <1>2. PICK f : IsSum(f, s)
    BY SumExists
  <1>3. s[j] \in Nat /\ (\A i \in j..N : f[i] >= s[j]) /\ (\A i \in 0..N : f[i] \in Nat)
    <2>1. s[j] \in Nat
      OBVIOUS
    <2>2. \A i \in j..N : f[i] >= s[j]
      BY <1>2, SumCovers
    <2>3. \A i \in 0..N : f[i] \in Nat
      BY <1>2 DEF IsSum
    <2>. QED  BY <2>1, <2>2, <2>3
  <1>. DEFINE g == [i \in 0..N |-> IF i < j THEN f[i] ELSE f[i] - s[j] + b]
  <1>. HIDE DEF t
  <1>4. IsSum(g, t)
    <2>1. ASSUME NEW i \in 0..N PROVE (IF i < j THEN f[i] ELSE f[i] - s[j] + b) \in Nat
      <3>1. f[i] \in Nat /\ s[j] \in Nat
        BY <1>3
      <3>2. ~(i < j) => f[i] >= s[j]
        BY <1>1, <1>3
      <3>3. \A x, y, z \in Nat : x >= y => x - y + z \in Nat
        OBVIOUS
      <3>. QED  BY <3>1, <3>2, <3>3
    <2>3. g \in [0..Len(t) -> Nat] /\ g[0] = 0
      BY <1>1, <1>2, <2>1 DEF IsSum
    <2>4. ASSUME NEW i \in 1..Len(t) PROVE g[i] = g[i - 1] + t[i]
      <3>1. f[i] = f[i - 1] + s[i] /\ f[i] \in Nat /\ f[i - 1] \in Nat /\ s[i] \in Nat
        BY <1>1, <1>2, SumAt
      <3>2. CASE i < j
        BY <1>1, <3>1, <3>2
      <3>3. CASE i = j
        <4>1. g[i] = f[i] - s[i] + b /\ g[i - 1] = f[i - 1] /\ t[i] = b
          BY <1>1, <3>3
        <4>. HIDE DEF g
        <4>2. \A x, y, z \in Nat : (x + y) - y + z = x + z
          OBVIOUS
        <4>3. (f[i - 1] + s[i]) - s[i] + b = f[i - 1] + b
          BY <3>1, <4>2
        <4>. QED  BY <3>1, <4>1, <4>3, Zenon
      <3>4. CASE i > j
        <4>1. g[i] = f[i] - s[j] + b /\ g[i - 1] = f[i - 1] - s[j] + b /\ t[i] = s[i]
          <5>1. i \in 0..N /\ i - 1 \in 0..N /\ ~(i < j) /\ ~(i - 1 < j) /\ i # j
            BY <1>1, <3>4
          <5>. QED  BY <1>1, <5>1
        <4>. HIDE DEF g
        <4>3. (f[i - 1] + s[i]) - s[j] + b = (f[i - 1] - s[j] + b) + s[i]
          <5>. DEFINE x == f[i - 1]
                      y == s[i]
                      z == s[j]
          <5>1. x \in Nat /\ y \in Nat /\ z \in Nat
            BY <1>3, <3>1
          <5>. HIDE DEF x, y, z
          <5>2. (x + y) - z + b = (x - z + b) + y
            BY <5>1
          <5>. QED  BY <5>2 DEF x, y, z
        <4>. QED  BY <3>1, <4>1, <4>3, Zenon
      <3>. QED  BY <1>1, <3>2, <3>3, <3>4
    <2>. HIDE DEF g
    <2>. QED  BY <2>3, <2>4 DEF IsSum
  <1>5. g[N] = f[N] - s[j] + b
    BY <1>1
  <1>. HIDE DEF g
  <1>6. Bytes(t) = g[N] /\ Bytes(s) = f[N] /\ f[N] >= s[j]
    BY <1>1, <1>2, <1>3, <1>4, SumIs
  <1>7. Bytes(s) \in Nat
    BY BytesNat
  <1>. QED  BY <1>3, <1>5, <1>6, <1>7 DEF t

-----------------------------------------------------------------------------
LEMMA QuotientUnique ==
    ASSUME NEW q \in Int, NEW p \in Int, NEW r \in Int, NEW t \in Int, NEW w \in Nat \ {0},
           w * q + r + w = w * p + t, r \in 0..(w - 1), t \in 0..(w - 1)
    PROVE  r = t
  <1>0. w * (p - q) = w * p - w * q
    OBVIOUS
  <1>1. CASE p - q >= 2
    <2>1. w * (p - q) >= w * 2
      BY <1>1
    <2>. QED  BY <1>0, <2>1
  <1>2. CASE p - q <= 0
    <2>1. w * (p - q) <= 0
      BY <1>2
    <2>. QED  BY <1>0, <2>1
  <1>3. CASE p - q = 1
    <2>1. p = q + 1
      BY <1>3
    <2>2. w * (q + 1) = w * q + w
      OBVIOUS
    <2>. QED  BY <2>1, <2>2
  <1>. QED  BY <1>1, <1>2, <1>3

LEMMA Turned ==
    ASSUME NEW x \in Int, NEW w \in Nat \ {0}
    PROVE  (x + w) % w = x % w
  <1>. DEFINE q == x \div w
              r == x % w
              p == (x + w) \div w
              t == (x + w) % w
  <1>1. x = w * q + r
    OBVIOUS
  <1>2. x + w = w * p + t
    OBVIOUS
  <1>3. r \in 0..(w - 1) /\ r \in Int
    OBVIOUS
  <1>4. t \in 0..(w - 1) /\ t \in Int
    OBVIOUS
  <1>5. q \in Int /\ p \in Int
    OBVIOUS
  <1>. HIDE DEF q, r, p, t
  <1>6. w * q + r + w = w * p + t
    BY <1>1, <1>2
  <1>7. r = t
    BY <1>3, <1>4, <1>5, <1>6, QuotientUnique
  <1>. QED  BY <1>7 DEF r, t

\* One more number drawn moves every earlier one a place back.
LEMMA CountBack ==
    ASSUME NEW n \in 0..(Wrap - 1), NEW d \in Nat
    PROVE  /\ Count(n) \in 0..(Wrap - 1) /\ Count(n) % Wrap = Count(n)
           /\ (Count(n) - (d + 1)) % Wrap = (n - d) % Wrap
  <1>0. Wrap \in Nat \ {0} /\ n \in Nat
    BY OutboxConstants
  <1>1. CASE n + 1 < Wrap
    <2>1. Count(n) = n + 1
      BY <1>0, <1>1 DEF Count
    <2>2. (n + 1) - (d + 1) = n - d
      BY <1>0
    <2>3. Count(n) % Wrap = Count(n)
      BY <1>0, <1>1, <2>1
    <2>. QED  BY <1>0, <1>1, <2>1, <2>2, <2>3
  <1>2. CASE n + 1 = Wrap
    <2>1. Count(n) = 0
      BY <1>0, <1>2 DEF Count
    <2>2. 0 % Wrap = 0
      BY <1>0
    <2>3. n - d = (0 - (d + 1)) + Wrap /\ 0 - (d + 1) \in Int
      BY <1>0, <1>2
    <2>4. ((0 - (d + 1)) + Wrap) % Wrap = (0 - (d + 1)) % Wrap
      BY <1>0, <2>3, Turned
    <2>5. 0 \in 0..(Wrap - 1)
      BY <1>0
    <2>. QED  BY <2>1, <2>2, <2>3, <2>4, <2>5
  <1>. QED  BY <1>0, <1>1, <1>2

-----------------------------------------------------------------------------
(* The ledger and the queue it is kept for. *)

SizesOf(q) == [i \in 1..Len(q) |-> q[i].bytes]
OfKind(q, k) == {i \in 1..Len(q) : q[i].kind = k}
Numbered(q, n) == \A i \in 1..Len(q) : q[i].seq = (n - (Len(q) - i)) % Wrap

Accounted(q, u, c, n) ==
    /\ q \in Seq(Entry) /\ u \in Nat /\ u = Bytes(SizesOf(q))
    /\ c \in [Kinds -> Nat] /\ \A k \in Kinds : c[k] = Cardinality(OfKind(q, k))
    /\ n \in 0..(Wrap - 1) /\ Numbered(q, n)

LEMMA SequencesEqual ==
    ASSUME NEW S, NEW x \in Seq(S), NEW y \in Seq(S), Len(x) = Len(y), \A i \in 1..Len(x) : x[i] = y[i]
    PROVE  x = y
  OBVIOUS

LEMMA SequenceOf ==
    ASSUME NEW S, NEW T, S \subseteq T, NEW x \in Seq(S)
    PROVE  x \in Seq(T)
  OBVIOUS

LEMMA AppendHead ==
    ASSUME NEW S, NEW x \in Seq(S), NEW e \in S
    PROVE  Append(x, e) # <<>> /\ (x # <<>> => Append(x, e)[1] = x[1])
  <1>1. Append(x, e) # <<>>
    <2>1. Len(Append(x, e)) = Len(x) + 1 /\ Len(x) \in Nat /\ Len(<<>>) = 0
      OBVIOUS
    <2>2. Len(x) + 1 # 0
      BY <2>1
    <2>. QED  BY <2>1, <2>2
  <1>2. ASSUME x # <<>> PROVE Append(x, e)[1] = x[1]
    <2>1. 1 \in 1..Len(x)
      BY <1>2
    <2>. QED  BY <2>1
  <1>. QED  BY <1>1, <1>2

LEMMA SequenceExcept ==
    ASSUME NEW S, NEW x \in Seq(S), NEW j \in 1..Len(x), NEW b \in S
    PROVE  /\ [x EXCEPT ![j] = b] \in Seq(S) /\ Len([x EXCEPT ![j] = b]) = Len(x)
           /\ \A i \in 1..Len(x) : [x EXCEPT ![j] = b][i] = IF i = j THEN b ELSE x[i]
  OBVIOUS

LEMMA SizesTyped ==
    ASSUME NEW q \in Seq(Entry)
    PROVE  /\ SizesOf(q) \in Seq(Nat) /\ Len(SizesOf(q)) = Len(q) /\ Len(q) \in Nat
           /\ \A i \in 1..Len(q) : SizesOf(q)[i] = q[i].bytes /\ q[i] \in Entry /\ q[i].bytes \in Nat
  <1>0. Len(q) \in Nat /\ \A i \in 1..Len(q) : q[i] \in Entry
    OBVIOUS
  <1>1. Len(q) \in Nat /\ \A i \in 1..Len(q) : q[i] \in Entry /\ q[i].bytes \in Nat
    <2>1. \A e \in Entry : e.bytes \in Nat
      BY DEF Entry
    <2>. QED  BY <1>0, <2>1
  <1>. DEFINE n == Len(q)
              f == [i \in 1..n |-> q[i].bytes]
  <1>2. f \in [1..n -> Nat]
    BY <1>1
  <1>3. \A i \in 1..n : f[i] = q[i].bytes
    OBVIOUS
  <1>4. f = SizesOf(q)
    BY DEF SizesOf
  <1>. HIDE DEF f
  <1>5. f \in Seq(Nat) /\ Len(f) = n
    <2>. HIDE DEF n
    <2>1. n \in Nat
      BY <1>1 DEF n
    <2>2. f \in Seq(Nat)
      BY <1>2, <2>1
    <2>3. DOMAIN f = 1..n /\ DOMAIN f = 1..Len(f) /\ Len(f) \in Nat
      BY <1>2, <2>1, <2>2
    <2>. QED  BY <2>1, <2>2, <2>3
  <1>. QED  BY <1>1, <1>3, <1>4, <1>5

LEMMA KindsFinite ==
    ASSUME NEW q \in Seq(Entry), NEW k
    PROVE  IsFiniteSet(OfKind(q, k)) /\ Cardinality(OfKind(q, k)) \in Nat
  <1>1. Len(q) \in Nat
    OBVIOUS
  <1>2. IsFiniteSet(1..Len(q))
    BY <1>1, FS_Interval
  <1>3. OfKind(q, k) \subseteq 1..Len(q)
    BY DEF OfKind
  <1>4. IsFiniteSet(OfKind(q, k))
    BY <1>2, <1>3, FS_Subset
  <1>. QED  BY <1>4, FS_CardinalityType

LEMMA QueueAppend ==
    ASSUME NEW q, NEW u, NEW c, NEW n, Accounted(q, u, c, n), NEW e \in Entry, e.seq = Count(n)
    PROVE  Accounted(Append(q, e), u + e.bytes, [c EXCEPT ![e.kind] = @ + 1], Count(n))
  <1>. DEFINE t == Append(q, e)
              m == Len(q)
  <1>0. q \in Seq(Entry) /\ n \in 0..(Wrap - 1) /\ u \in Nat
    BY DEF Accounted
  <1>1. t \in Seq(Entry) /\ Len(t) = m + 1 /\ t[m + 1] = e /\ (\A i \in 1..m : t[i] = q[i]) /\ m \in Nat
    BY <1>0
  <1>2. e.kind \in Kinds /\ e.bytes \in Nat
    BY DEF Entry
  <1>3. SizesOf(t) = Append(SizesOf(q), e.bytes)
    <2>1. SizesOf(t) \in Seq(Nat) /\ SizesOf(q) \in Seq(Nat) /\ Len(SizesOf(q)) = m /\ Len(SizesOf(t)) = m + 1
      BY <1>0, <1>1, SizesTyped
    <2>2. \A i \in 1..(m + 1) : SizesOf(t)[i] = IF i = m + 1 THEN e.bytes ELSE SizesOf(q)[i]
      <3>1. \A i \in 1..(m + 1) : SizesOf(t)[i] = t[i].bytes
        BY <1>1, SizesTyped
      <3>2. \A i \in 1..m : SizesOf(q)[i] = q[i].bytes
        BY <1>0, SizesTyped
      <3>. HIDE DEF t
      <3>. QED  BY <1>1, <3>1, <3>2
    <2>. DEFINE x == SizesOf(t)
                y == Append(SizesOf(q), e.bytes)
    <2>3. y \in Seq(Nat) /\ Len(y) = m + 1
          /\ \A i \in 1..(m + 1) : y[i] = IF i = m + 1 THEN e.bytes ELSE SizesOf(q)[i]
      BY <1>1, <1>2, <2>1
    <2>. HIDE DEF y, t
    <2>. QED  BY <1>1, <2>1, <2>2, <2>3 DEF y
  <1>. HIDE DEF t
  <1>4. u + e.bytes \in Nat /\ u + e.bytes = Bytes(SizesOf(t))
    <2>1. u = Bytes(SizesOf(q)) /\ SizesOf(q) \in Seq(Nat)
      BY <1>0, SizesTyped DEF Accounted
    <2>2. Bytes(Append(SizesOf(q), e.bytes)) = Bytes(SizesOf(q)) + e.bytes
      BY <1>2, <2>1, BytesAppend
    <2>. QED  BY <1>0, <1>2, <1>3, <2>1, <2>2
  <1>. DEFINE d == [c EXCEPT ![e.kind] = @ + 1]
  <1>5. d \in [Kinds -> Nat] /\ \A k \in Kinds : d[k] = Cardinality(OfKind(t, k))
    <2>1. c \in [Kinds -> Nat] /\ \A k \in Kinds : c[k] = Cardinality(OfKind(q, k))
      BY DEF Accounted
    <2>2. d \in [Kinds -> Nat] /\ \A k \in Kinds : d[k] = IF k = e.kind THEN c[k] + 1 ELSE c[k]
      BY <1>2, <2>1
    <2>. HIDE DEF d
    <2>3. ASSUME NEW k \in Kinds PROVE d[k] = Cardinality(OfKind(t, k))
      <3>1. CASE k = e.kind
        <4>1. OfKind(t, k) = OfKind(q, k) \cup {m + 1} /\ m + 1 \notin OfKind(q, k)
          BY <1>1, <3>1 DEF OfKind
        <4>2. IsFiniteSet(OfKind(q, k))
          BY <1>0, KindsFinite
        <4>3. Cardinality(OfKind(q, k) \cup {m + 1}) = Cardinality(OfKind(q, k)) + 1
          BY <4>1, <4>2, FS_AddElement
        <4>. QED  BY <2>1, <2>2, <3>1, <4>1, <4>3
      <3>2. CASE k # e.kind
        <4>1. OfKind(t, k) = OfKind(q, k)
          BY <1>1, <3>2 DEF OfKind
        <4>. QED  BY <2>1, <2>2, <3>2, <4>1
      <3>. QED  BY <3>1, <3>2
    <2>. QED  BY <2>2, <2>3
  <1>6. Count(n) \in 0..(Wrap - 1) /\ Numbered(t, Count(n))
    <2>0. Count(n) \in 0..(Wrap - 1) /\ Count(n) % Wrap = Count(n)
      BY <1>0, CountBack
    <2>. SUFFICES ASSUME NEW i \in 1..(m + 1)
                  PROVE  t[i].seq = (Count(n) - ((m + 1) - i)) % Wrap
      BY <1>1, <2>0 DEF Numbered
    <2>1. CASE i = m + 1
      <3>1. Count(n) - ((m + 1) - i) = Count(n)
        BY <1>1, <2>0, <2>1, OutboxConstants
      <3>. QED  BY <1>1, <2>0, <2>1, <3>1
    <2>2. CASE i # m + 1
      <3>1. i \in 1..m /\ m - i \in Nat /\ (m + 1) - i = (m - i) + 1
        BY <1>1, <2>2
      <3>2. t[i].seq = (n - (m - i)) % Wrap
        BY <1>1, <3>1 DEF Accounted, Numbered
      <3>3. (Count(n) - ((m - i) + 1)) % Wrap = (n - (m - i)) % Wrap
        BY <1>0, <3>1, CountBack
      <3>. QED  BY <3>1, <3>2, <3>3
    <2>. QED  BY <2>1, <2>2
  <1>. QED  BY <1>1, <1>4, <1>5, <1>6 DEF Accounted, t

LEMMA QueueTail ==
    ASSUME NEW q, NEW u, NEW c, NEW n, Accounted(q, u, c, n), q # <<>>
    PROVE  /\ Accounted(Tail(q), u - Head(q).bytes, [c EXCEPT ![Head(q).kind] = @ - 1], n)
           /\ Head(q) = q[1] /\ q[1] \in Entry /\ q[1].bytes <= u
  <1>. DEFINE t == Tail(q)
              m == Len(q)
              e == q[1]
  <1>0. q \in Seq(Entry) /\ n \in 0..(Wrap - 1) /\ u \in Nat /\ Head(q) = e /\ e \in Entry
    BY DEF Accounted
  <1>1. t \in Seq(Entry) /\ Len(t) = m - 1 /\ (\A i \in 1..(m - 1) : t[i] = q[i + 1]) /\ m \in Nat \ {0}
    BY <1>0
  <1>2. e.kind \in Kinds /\ e.bytes \in Nat
    BY <1>0 DEF Entry
  <1>3. SizesOf(t) = Tail(SizesOf(q)) /\ SizesOf(q) \in Seq(Nat) /\ SizesOf(q) # <<>> /\ SizesOf(q)[1] = e.bytes
    <2>1. SizesOf(t) \in Seq(Nat) /\ SizesOf(q) \in Seq(Nat) /\ Len(SizesOf(q)) = m /\ Len(SizesOf(t)) = m - 1
      <3>. HIDE DEF t
      <3>. QED  BY <1>0, <1>1, SizesTyped
    <2>2. \A i \in 1..m : SizesOf(q)[i] = q[i].bytes
      BY <1>0, SizesTyped
    <2>3. \A i \in 1..(m - 1) : SizesOf(t)[i] = SizesOf(q)[i + 1]
      <3>1. \A i \in 1..(m - 1) : SizesOf(t)[i] = t[i].bytes
        BY <1>1, SizesTyped
      <3>. HIDE DEF t
      <3>. QED  BY <1>1, <2>2, <3>1
    <2>. DEFINE x == SizesOf(q)
                y == Tail(x)
    <2>4. x # <<>> /\ x[1] = e.bytes
      BY <1>1, <2>1, <2>2
    <2>. HIDE DEF x, t
    <2>5. y \in Seq(Nat) /\ Len(y) = m - 1 /\ \A i \in 1..(m - 1) : y[i] = x[i + 1]
      BY <1>1, <2>1, <2>4 DEF x
    <2>. HIDE DEF y
    <2>6. SizesOf(t) = y
      <3>1. \A i \in 1..(m - 1) : SizesOf(t)[i] = y[i]
        BY <2>3, <2>5 DEF x
      <3>. QED  BY <2>1, <2>5, <3>1, SequencesEqual
    <2>. QED  BY <2>1, <2>4, <2>6 DEF x, y
  <1>. HIDE DEF t
  <1>4. u - e.bytes \in Nat /\ u - e.bytes = Bytes(SizesOf(t)) /\ e.bytes <= u
    <2>1. u = Bytes(SizesOf(q))
      BY DEF Accounted
    <2>2. Bytes(Tail(SizesOf(q))) = Bytes(SizesOf(q)) - SizesOf(q)[1] /\ SizesOf(q)[1] <= Bytes(SizesOf(q))
      BY <1>3, BytesTail
    <2>3. Bytes(SizesOf(t)) = u - e.bytes /\ e.bytes <= u
      BY <1>3, <2>1, <2>2
    <2>. HIDE DEF e
    <2>. QED  BY <1>0, <1>2, <2>3
  <1>. DEFINE d == [c EXCEPT ![e.kind] = @ - 1]
  <1>5. d \in [Kinds -> Nat] /\ \A k \in Kinds : d[k] = Cardinality(OfKind(t, k))
    <2>1. c \in [Kinds -> Nat] /\ \A k \in Kinds : c[k] = Cardinality(OfKind(q, k))
      BY DEF Accounted
    <2>2. DOMAIN d = Kinds /\ \A k \in Kinds : d[k] = IF k = e.kind THEN c[k] - 1 ELSE c[k]
      BY <1>2, <2>1
    <2>2a. d = [k \in Kinds |-> d[k]]
      BY <2>1
    <2>. HIDE DEF d
    <2>3. ASSUME NEW k \in Kinds PROVE d[k] = Cardinality(OfKind(t, k)) /\ d[k] \in Nat
      <3>. DEFINE A == OfKind(q, k) \ {1}
                  B == OfKind(t, k)
                  h == [i \in A |-> i - 1]
      <3>1. IsFiniteSet(OfKind(q, k)) /\ IsFiniteSet(A) /\ Cardinality(OfKind(q, k)) \in Nat
        BY <1>0, KindsFinite, FS_Subset
      <3>2. Cardinality(B) = Cardinality(A) /\ Cardinality(B) \in Nat
        <4>1. \A i \in A : i \in Nat /\ i - 1 \in B
          BY <1>1 DEF OfKind
        <4>2. \A j \in B : j \in Nat /\ j + 1 \in A
          BY <1>1 DEF OfKind
        <4>. HIDE DEF A, B
        <4>3. h \in [A -> B]
          BY <4>1
        <4>4. \A i, j \in A : h[i] = h[j] => i = j
          BY <4>1
        <4>5. \A j \in B : \E i \in A : h[i] = j
          <5>1. \A j \in B : j + 1 \in A /\ h[j + 1] = j
            BY <4>2
          <5>. QED  BY <5>1
        <4>. HIDE DEF h
        <4>6. h \in Bijection(A, B)
          BY <4>3, <4>4, <4>5 DEF Bijection, Injection, Surjection, IsInjective
        <4>7. ExistsBijection(A, B)
          BY <4>6 DEF ExistsBijection
        <4>. QED  BY <3>1, <4>7, FS_Bijection, FS_CardinalityType
      <3>3. CASE k = e.kind
        <4>1. 1 \in OfKind(q, k)
          BY <1>1, <3>3 DEF OfKind
        <4>2. Cardinality(A) = Cardinality(OfKind(q, k)) - 1
          BY <3>1, <4>1, FS_RemoveElement
        <4>. QED  BY <2>1, <2>2, <3>2, <3>3, <4>2
      <3>4. CASE k # e.kind
        <4>1. A = OfKind(q, k)
          BY <1>1, <3>4 DEF OfKind
        <4>. QED  BY <2>1, <2>2, <3>1, <3>2, <3>4, <4>1
      <3>. QED  BY <3>3, <3>4
    <2>. QED  BY <2>2a, <2>3
  <1>6. Numbered(t, n)
    <2>. SUFFICES ASSUME NEW i \in 1..(m - 1)
                  PROVE  t[i].seq = (n - ((m - 1) - i)) % Wrap
      BY <1>1 DEF Numbered
    <2>1. i + 1 \in 1..m /\ (m - 1) - i = m - (i + 1)
      BY <1>1
    <2>2. q[i + 1].seq = (n - (m - (i + 1))) % Wrap
      BY <2>1 DEF Accounted, Numbered
    <2>. QED  BY <1>1, <2>1, <2>2
  <1>. QED  BY <1>0, <1>1, <1>4, <1>5, <1>6 DEF Accounted, t

Resized(q, j, b) == [q EXCEPT ![j].bytes = b]
Recounted(q, j, b, u) == u - q[j].bytes + b

LEMMA QueueReplace ==
    ASSUME NEW q, NEW u, NEW c, NEW n, Accounted(q, u, c, n), NEW j \in 1..Len(q), NEW b \in 1..EventMax,
           NEW t, t = Resized(q, j, b), NEW v, v = Recounted(q, j, b, u)
    PROVE  /\ Accounted(t, v, c, n) /\ t # <<>> /\ (j # 1 => t[1] = q[1])
           /\ q[j].bytes \in Nat /\ q[j].bytes <= u
  <1>. DEFINE m == Len(q)
  <1>0. q \in Seq(Entry) /\ u \in Nat /\ m \in Nat /\ b \in Nat /\ q[j] \in Entry
    BY OutboxConstants DEF Accounted
  <1>1. [q[j] EXCEPT !.bytes = b] \in Entry
    BY <1>0 DEF Entry
  <1>2. /\ [q[j] EXCEPT !.bytes = b].kind = q[j].kind /\ [q[j] EXCEPT !.bytes = b].seq = q[j].seq
        /\ [q[j] EXCEPT !.bytes = b].bytes = b
    BY <1>0 DEF Entry
  <1>. DEFINE e == [q[j] EXCEPT !.bytes = b]
  <1>3. t = [q EXCEPT ![j] = e]
    BY <1>0 DEF Resized
  <1>. HIDE DEF e
  <1>4. t \in Seq(Entry) /\ Len(t) = m /\ \A i \in 1..m : t[i] = IF i = j THEN e ELSE q[i]
    BY <1>0, <1>1, <1>3 DEF e
  <1>5. SizesOf(t) = [SizesOf(q) EXCEPT ![j] = b] /\ SizesOf(q) \in Seq(Nat) /\ Len(SizesOf(q)) = m
        /\ SizesOf(q)[j] = q[j].bytes
    <2>1. SizesOf(t) \in Seq(Nat) /\ SizesOf(q) \in Seq(Nat) /\ Len(SizesOf(q)) = m /\ Len(SizesOf(t)) = m
      BY <1>0, <1>4, SizesTyped
    <2>2. \A i \in 1..m : SizesOf(q)[i] = q[i].bytes /\ SizesOf(t)[i] = t[i].bytes
      BY <1>0, <1>4, SizesTyped
    <2>3. \A i \in 1..m : SizesOf(t)[i] = IF i = j THEN b ELSE SizesOf(q)[i]
      <3>1. e.bytes = b
        BY <1>2 DEF e
      <3>. QED  BY <1>4, <2>2, <3>1
    <2>. DEFINE x == SizesOf(q)
                y == [x EXCEPT ![j] = b]
    <2>4. y \in Seq(Nat) /\ Len(y) = m /\ \A i \in 1..m : y[i] = IF i = j THEN b ELSE x[i]
      BY <1>0, <2>1, SequenceExcept
    <2>. HIDE DEF y
    <2>5. SizesOf(t) = y
      <3>1. \A i \in 1..m : SizesOf(t)[i] = y[i]
        BY <2>3, <2>4
      <3>. QED  BY <2>1, <2>4, <3>1, SequencesEqual
    <2>. QED  BY <2>1, <2>2, <2>5 DEF y
  <1>6. v \in Nat /\ v = Bytes(SizesOf(t)) /\ q[j].bytes \in Nat /\ q[j].bytes <= u
    <2>1. u = Bytes(SizesOf(q))
      BY DEF Accounted
    <2>2. /\ Bytes([SizesOf(q) EXCEPT ![j] = b]) = Bytes(SizesOf(q)) - SizesOf(q)[j] + b
          /\ SizesOf(q)[j] \in Nat /\ SizesOf(q)[j] <= Bytes(SizesOf(q))
      <3>. DEFINE x == SizesOf(q)
      <3>1. x \in Seq(Nat) /\ j \in 1..Len(x)
        BY <1>5
      <3>. HIDE DEF x
      <3>2. Bytes([x EXCEPT ![j] = b]) = Bytes(x) - x[j] + b /\ x[j] \in Nat /\ x[j] <= Bytes(x)
        BY <1>0, <3>1, BytesReplace
      <3>. QED  BY <3>2 DEF x
    <2>. DEFINE o == q[j].bytes
    <2>3. Bytes(SizesOf(t)) = u - o + b /\ o <= u /\ o \in Nat
      BY <1>5, <2>1, <2>2
    <2>. HIDE DEF o
    <2>4. u - o + b \in Nat
      BY <1>0, <2>3
    <2>. QED  BY <2>3, <2>4 DEF o, Recounted
  <1>7. \A k : OfKind(t, k) = OfKind(q, k)
    BY <1>2, <1>4 DEF OfKind, e
  <1>8. Numbered(t, n)
    BY <1>2, <1>4 DEF Numbered, Accounted, e
  <1>9. t # <<>> /\ q # <<>> /\ (j # 1 => t[1] = q[1])
    BY <1>0, <1>4
  <1>. QED  BY <1>4, <1>6, <1>7, <1>8, <1>9 DEF Accounted

-----------------------------------------------------------------------------
(* The invariant. *)

\* What the other variables can be.
ObTypes ==
    /\ windowErrors \in Nat
    /\ paused \in BOOLEAN /\ closed \in BOOLEAN /\ extra \in BOOLEAN /\ storageFailed \in BOOLEAN
    /\ stopping \in BOOLEAN /\ refused \in BOOLEAN
    /\ wire \in Seq(1..EventMax) /\ client \in {"up", "stopped"} /\ host \in Hosts

ObLedger ==
    /\ Accounted(queue, used, count, sequence)
    /\ omitted \in 0..(Wrap - 1) /\ omitted = unreported
    /\ inFlight \in BOOLEAN /\ (inFlight => queue # <<>>)

\* What outbox and transport hold, the event whose bytes both count counted once.
Doubled == IF sender = "reserved" THEN queue[1].bytes ELSE 0
Net == used + Bytes(wire) - Doubled
Lifecycles == count["lifecycle"]

ObSender ==
    /\ sender \in {"idle", "sending", "reserved", "done"}
    /\ inFlight <=> sender \in {"sending", "reserved"}
    /\ overflowed = FALSE

ObInv == ObTypes /\ ObLedger /\ ObSender /\ Net <= Capacity

\* What a step does to the head of the queue and to what is held.
FrozenStep == inFlight /\ inFlight' => queue'[1] = queue[1]
Quietly == (Net' <= Net \/ Net' <= Soft) /\ Lifecycles' <= Lifecycles
WithOneMore == Net' <= Net + EventMax /\ Lifecycles' <= Lifecycles + 1

\* The write queue is left alone, or the client was stopped.
WireKept == wire' = wire \/ wire' = <<>>

LEMMA WireTyped ==
    ASSUME NEW w \in Seq(1..EventMax)
    PROVE  w \in Seq(Nat) /\ Bytes(w) \in Nat
  <1>1. 1..EventMax \subseteq Nat
    OBVIOUS
  <1>2. w \in Seq(Nat)
    BY <1>1, SequenceOf
  <1>. QED  BY <1>2, BytesNat

LEMMA ConstantsTyped ==
    /\ Soft \in Nat /\ EventMax \in Nat /\ LifecycleSlots \in Nat /\ Capacity \in Nat /\ Soft <= Capacity
    /\ Wrap \in Nat \ {0} /\ EventMax >= 1
  <1>1. Soft \in Nat /\ EventMax \in Nat \ {0} /\ LifecycleSlots \in Nat /\ Wrap \in Nat \ {0}
    BY OutboxConstants
  <1>2. (LifecycleSlots + 1) * EventMax \in Nat
    BY <1>1
  <1>. DEFINE p == (LifecycleSlots + 1) * EventMax
  <1>3. Capacity = Soft + p
    BY DEF Capacity
  <1>. HIDE DEF p
  <1>4. Capacity \in Nat /\ Soft <= Capacity
    BY <1>1, <1>2, <1>3 DEF p
  <1>. QED  BY <1>1, <1>4

LEMMA HeldTyped ==
    ASSUME ObInv
    PROVE  /\ used \in Nat /\ Bytes(wire) \in Nat /\ Doubled \in Nat /\ Doubled <= used /\ Doubled <= EventMax
           /\ Net \in Nat /\ Net <= Capacity /\ Lifecycles \in Nat
           /\ queue # <<>> => queue[1] \in Entry /\ Head(queue) = queue[1] /\ queue[1].bytes <= used
  <1>1. used \in Nat /\ Bytes(wire) \in Nat /\ Lifecycles \in Nat
    BY WireTyped DEF ObInv, ObTypes, ObLedger, Accounted, Lifecycles, Kinds
  <1>2. queue # <<>> => queue[1] \in Entry /\ Head(queue) = queue[1] /\ queue[1].bytes <= used
    BY QueueTail DEF ObInv, ObLedger
  <1>3. \A e \in Entry : e.bytes \in Nat /\ e.bytes <= EventMax
    BY ConstantsTyped DEF Entry
  <1>4. sender = "reserved" => queue # <<>>
    BY DEF ObInv, ObSender, ObLedger
  <1>5. Doubled \in Nat /\ Doubled <= used /\ Doubled <= EventMax
    BY <1>1, <1>2, <1>3, <1>4, ConstantsTyped DEF Doubled
  <1>6. Net \in Nat
    BY <1>1, <1>5 DEF Net
  <1>. QED  BY <1>1, <1>2, <1>5, <1>6 DEF ObInv

\* Omissions and settlements keep the counter and the history alike.
LEMMA OmissionKept ==
    ASSUME ObLedger, NoteOmission
    PROVE  omitted' \in 0..(Wrap - 1) /\ omitted' = unreported'
  <1>1. Count(omitted) \in 0..(Wrap - 1)
    BY CountBack DEF ObLedger
  <1>. QED  BY <1>1 DEF NoteOmission, ObLedger

LEMMA SettleKept ==
    ASSUME ObLedger, NEW settlement, Settle(settlement)
    PROVE  omitted' \in 0..(Wrap - 1) /\ omitted' = unreported'
  <1>1. CASE settlement
    <2>1. unreported' = (unreported - omitted) % Wrap /\ omitted' = 0
      BY <1>1 DEF Settle
    <2>2. unreported - omitted = 0 /\ 0 % Wrap = 0 /\ 0 \in 0..(Wrap - 1)
      BY ConstantsTyped DEF ObLedger
    <2>. QED  BY <2>1, <2>2
  <1>2. CASE ~settlement
    BY <1>2 DEF Settle, ObLedger
  <1>. QED  BY <1>1, <1>2

\* The effect of one admission on ledger and bytes.
LEMMA AdmitEffect ==
    ASSUME ObInv, NEW kind \in Kinds, NEW name \in Names \cup {"-"}, NEW b \in 1..EventMax,
           NEW settlement, Admit(kind, name, b, settlement)
    PROVE  /\ ObLedger' /\ inFlight' = inFlight
           /\ inFlight => queue'[1] = queue[1]
           /\ \/ UNCHANGED <<used, count>>
              \/ used' + Bytes(wire) <= Soft /\ count'["lifecycle"] = count["lifecycle"]
              \/ /\ kind = "lifecycle" /\ used' = used + b /\ used' + Bytes(wire) <= Capacity
                 /\ count'["lifecycle"] = count["lifecycle"] + 1
  <1>0. inFlight' = inFlight /\ ObLedger
    BY DEF Admit, ObInv
  <1>1. CASE Admission(kind, name, b) = "added"
    <2>1. Add(kind, name, b) /\ Settle(settlement)
      BY <1>1 DEF Admit
    <2>2. Room(kind, b)
      BY <1>1 DEF Admission
    <2>. DEFINE e == [kind |-> kind, name |-> name, bytes |-> b, seq |-> Count(sequence)]
    <2>3. Count(sequence) \in 0..(Wrap - 1)
      BY CountBack DEF ObInv, ObLedger, Accounted
    <2>4. e \in Entry /\ e.seq = Count(sequence) /\ e.kind = kind /\ e.bytes = b
      BY <2>3 DEF Entry
    <2>5. /\ queue' = Append(queue, e) /\ used' = used + e.bytes
          /\ count' = [count EXCEPT ![e.kind] = @ + 1] /\ sequence' = Count(sequence)
      BY <2>1 DEF Add
    <2>. HIDE DEF e
    <2>6. Accounted(queue', used', count', sequence')
      BY <1>0, <2>4, <2>5, QueueAppend DEF ObLedger
    <2>7. queue \in Seq(Entry) /\ queue' # <<>> /\ (inFlight => queue'[1] = queue[1])
      <3>1. queue \in Seq(Entry) /\ (inFlight => queue # <<>>)
        BY <1>0 DEF ObLedger, Accounted
      <3>2. Append(queue, e) # <<>> /\ (queue # <<>> => Append(queue, e)[1] = queue[1])
        BY <2>4, <3>1, AppendHead
      <3>. QED  BY <2>5, <3>1, <3>2
    <2>8. ObLedger'
      BY <1>0, <2>1, <2>6, <2>7, SettleKept DEF ObLedger
    <2>9. used + Bytes(wire) + b <= Limit(kind)
      BY <2>2 DEF Room, Fits, QueuedWriteBytes
    <2>10. used \in Nat /\ Bytes(wire) \in Nat /\ b \in Nat /\ count \in [Kinds -> Nat]
      BY HeldTyped DEF ObInv, ObLedger, Accounted
    <2>11. used' = used + b /\ used' + Bytes(wire) <= Limit(kind)
      BY <2>4, <2>5, <2>9, <2>10, ConstantsTyped DEF Limit
    <2>12. "lifecycle" \in Kinds
           /\ count'["lifecycle"] = IF kind = "lifecycle" THEN count["lifecycle"] + 1 ELSE count["lifecycle"]
      BY <2>4, <2>5, <2>10 DEF Kinds
    <2>. QED  BY <1>0, <2>7, <2>8, <2>11, <2>12 DEF Limit
  <1>2. CASE Admission(kind, name, b) = "replaced"
    <2>. DEFINE j == Min(Older(kind, name))
    <2>1. Replace(j, b) /\ NoteOmission
      BY <1>2 DEF Admit
    <2>2. Replaces(kind, name, b)
      BY <1>2 DEF Admission
    <2>3. Older(kind, name) # {} /\ Fits(used - queue[j].bytes, b, Soft)
      BY <2>2 DEF Replaces
    <2>4. Len(queue) \in Nat
      BY <1>0 DEF ObLedger, Accounted
    <2>5. Older(kind, name) \subseteq Nat /\ Older(kind, name) \subseteq 1..Len(queue)
          /\ (inFlight => 1 \notin Older(kind, name))
      BY <1>0, <2>4 DEF Older, ObLedger
    <2>6. j \in Older(kind, name)
      <3>1. \E m \in Older(kind, name) : \A k \in Older(kind, name) : m <= k
        BY <2>3, <2>5, LeastNumber
      <3>. QED  BY <3>1 DEF Min
    <2>7. j \in 1..Len(queue) /\ (inFlight => j # 1)
      BY <2>5, <2>6
    <2>. HIDE DEF j
    <2>8. /\ queue' = [queue EXCEPT ![j].bytes = b] /\ used' = used - queue[j].bytes + b
          /\ UNCHANGED <<count, sequence>>
      BY <2>1 DEF Replace
    <2>9. Accounted(queue', used', count', sequence') /\ queue' # <<>> /\ (j # 1 => queue'[1] = queue[1])
          /\ queue[j].bytes \in Nat /\ queue[j].bytes <= used
      <3>1. Accounted(queue, used, count, sequence)
        BY <1>0 DEF ObLedger
      <3>2. /\ Accounted(queue', used', count, sequence) /\ queue' # <<>>
            /\ j # 1 => queue'[1] = queue[1]
            /\ queue[j].bytes \in Nat /\ queue[j].bytes <= used
        <4>1. queue' = Resized(queue, j, b) /\ used' = Recounted(queue, j, b, used)
          BY <2>8 DEF Resized, Recounted
        <4>. QED  BY <2>7, <3>1, <4>1, QueueReplace
      <3>3. count' = count /\ sequence' = sequence
        BY <2>8
      <3>. QED  BY <2>8, <3>2, <3>3, Zenon
    <2>10. ObLedger'
      BY <1>0, <2>1, <2>9, OmissionKept DEF ObLedger
    <2>11. used - queue[j].bytes + Bytes(wire) + b <= Soft
      BY <2>3 DEF Fits, QueuedWriteBytes
    <2>12. used \in Nat /\ Bytes(wire) \in Nat /\ b \in Nat
      BY HeldTyped
    <2>. DEFINE o == queue[j].bytes
    <2>13. o \in Nat /\ used' = used - o + b /\ used - o + Bytes(wire) + b <= Soft
      BY <2>8, <2>9, <2>11
    <2>. HIDE DEF o
    <2>14. used' + Bytes(wire) <= Soft
      BY <2>12, <2>13, ConstantsTyped
    <2>. QED  BY <1>0, <2>7, <2>8, <2>9, <2>10, <2>14
  <1>3. CASE Admission(kind, name, b) \notin {"added", "replaced"}
    <2>1. UNCHANGED <<queue, used, count, sequence>>
      BY <1>3 DEF Admit
    <2>2. NoteOmission \/ UNCHANGED <<omitted, unreported>>
      BY <1>3 DEF Admit
    <2>3. omitted' \in 0..(Wrap - 1) /\ omitted' = unreported'
      BY <1>0, <2>2, OmissionKept DEF ObLedger
    <2>4. ObLedger'
      BY <1>0, <2>1, <2>3 DEF ObLedger
    <2>. QED  BY <1>0, <2>1, <2>4
  <1>. QED  BY <1>1, <1>2, <1>3

-----------------------------------------------------------------------------
(* The steps. *)

\* A step that leaves ledger and sender alone.
LEMMA LedgerKept ==
    ASSUME ObInv, UNCHANGED <<queue, inFlight, used, count, sequence, omitted, unreported,
                              sender, overflowed>>,
           WireKept, ObTypes'
    PROVE  ObInv' /\ FrozenStep /\ Quietly
  <1>1. ObLedger' /\ ObSender' /\ FrozenStep
    BY DEF ObInv, ObLedger, ObSender, FrozenStep
  <1>2. Doubled' = Doubled /\ Lifecycles' = Lifecycles /\ used' = used
    BY DEF Doubled, Lifecycles
  <1>3. Bytes(wire') <= Bytes(wire) /\ Bytes(wire') \in Nat
    BY HeldTyped, BytesEmpty DEF WireKept
  <1>4. Net' <= Net /\ Net' <= Capacity
    <2>1. used \in Nat /\ Bytes(wire) \in Nat /\ Doubled \in Nat /\ Net <= Capacity /\ Capacity \in Nat
      BY HeldTyped, ConstantsTyped
    <2>2. Net' = used + Bytes(wire') - Doubled /\ Net = used + Bytes(wire) - Doubled
      BY <1>2 DEF Net
    <2>. QED  BY <1>3, <2>1, <2>2
  <1>. QED  BY <1>1, <1>2, <1>4, HeldTyped DEF ObInv, Quietly

\* A step that admits an event.
LEMMA AdmitKept ==
    ASSUME ObInv, NEW kind \in Kinds, NEW name \in Names \cup {"-"}, NEW b \in 1..EventMax,
           NEW settlement, Admit(kind, name, b, settlement), UNCHANGED <<sender, overflowed>>,
           WireKept, ObTypes'
    PROVE  /\ ObInv' /\ FrozenStep
           /\ Quietly \/ (kind = "lifecycle" /\ WithOneMore)
  <1>1. /\ ObLedger' /\ inFlight' = inFlight
        /\ inFlight => queue'[1] = queue[1]
        /\ \/ UNCHANGED <<used, count>>
           \/ used' + Bytes(wire) <= Soft /\ count'["lifecycle"] = count["lifecycle"]
           \/ /\ kind = "lifecycle" /\ used' = used + b /\ used' + Bytes(wire) <= Capacity
              /\ count'["lifecycle"] = count["lifecycle"] + 1
    BY AdmitEffect
  <1>2. ObSender' /\ FrozenStep
    BY <1>1 DEF ObInv, ObSender, FrozenStep
  <1>3. Doubled' = Doubled
    BY <1>1 DEF Doubled, ObInv, ObSender
  <1>4. Bytes(wire') <= Bytes(wire) /\ Bytes(wire') \in Nat
    BY HeldTyped, BytesEmpty DEF WireKept
  <1>5. used' \in Nat
    BY <1>1 DEF ObLedger, Accounted
  <1>6. Net' = used' + Bytes(wire') - Doubled /\ Net = used + Bytes(wire) - Doubled
    BY <1>3 DEF Net
  <1>7. Lifecycles \in Nat /\ Lifecycles = count["lifecycle"] /\ Lifecycles' = count'["lifecycle"]
    BY HeldTyped DEF Lifecycles
  <1>t. /\ used \in Nat /\ Bytes(wire) \in Nat /\ Doubled \in Nat /\ Net <= Capacity /\ Capacity \in Nat
        /\ Soft \in Nat /\ Soft <= Capacity /\ EventMax \in Nat /\ b \in Nat /\ b <= EventMax
    BY HeldTyped, ConstantsTyped
  <1>8. Net' <= Capacity
    <2>1. \/ used' = used \/ used' + Bytes(wire) <= Soft \/ used' + Bytes(wire) <= Capacity
      BY <1>1
    <2>2. used' + Bytes(wire) <= Capacity \/ used' = used
      BY <1>t, <1>5, <2>1
    <2>. QED  BY <1>4, <1>5, <1>6, <1>t, <2>2
  <1>9. Quietly \/ (kind = "lifecycle" /\ WithOneMore)
    <2>1. CASE UNCHANGED <<used, count>>
      BY <1>4, <1>6, <1>7, <1>t, <2>1 DEF Quietly
    <2>2. CASE used' + Bytes(wire) <= Soft /\ count'["lifecycle"] = count["lifecycle"]
      <3>1. Net' <= Soft
        BY <1>4, <1>5, <1>6, <1>t, <2>2
      <3>. QED  BY <1>7, <2>2, <3>1 DEF Quietly
    <2>3. CASE /\ kind = "lifecycle" /\ used' = used + b
               /\ count'["lifecycle"] = count["lifecycle"] + 1
      <3>1. Net' <= Net + EventMax
        BY <1>4, <1>6, <1>t, <2>3
      <3>. QED  BY <1>7, <2>3, <3>1 DEF WithOneMore
    <2>. QED  BY <1>1, <2>1, <2>2, <2>3
  <1>. QED  BY <1>1, <1>2, <1>8, <1>9 DEF ObInv

LEMMA BeginSendOb == ObInv /\ BeginSend => ObInv' /\ FrozenStep /\ Quietly
  <1>. SUFFICES ASSUME ObInv, BeginSend PROVE ObInv' /\ FrozenStep /\ Quietly
    OBVIOUS
  <1>1. /\ UNCHANGED <<queue, used, count, sequence, omitted, unreported, wire, overflowed>>
        /\ sender = "idle" /\ sender' = "sending" /\ inFlight' = TRUE /\ queue # <<>>
    BY DEF BeginSend
  <1>2. ObTypes'
    BY DEF BeginSend, producer, ObInv, ObTypes
  <1>3. ObLedger' /\ ObSender' /\ FrozenStep
    BY <1>1 DEF ObInv, ObLedger, ObSender, FrozenStep
  <1>4. Doubled' = 0 /\ Doubled = 0
    BY <1>1 DEF Doubled
  <1>5. Net' = Net /\ Lifecycles' = Lifecycles
    BY <1>1, <1>4 DEF Net, Lifecycles
  <1>. QED  BY <1>2, <1>3, <1>5, HeldTyped DEF ObInv, Quietly

LEMMA EnqueueOb == ObInv /\ Enqueue => ObInv' /\ FrozenStep /\ Quietly
  <1>. SUFFICES ASSUME ObInv, Enqueue PROVE ObInv' /\ FrozenStep /\ Quietly
    OBVIOUS
  <1>1. /\ UNCHANGED <<queue, inFlight, used, count, sequence, omitted, unreported, overflowed>>
        /\ sender = "sending" /\ sender' = "reserved" /\ wire' = Append(wire, Head(queue).bytes)
    BY DEF Enqueue, ledger
  <1>2. queue # <<>>
    BY <1>1 DEF ObInv, ObSender, ObLedger
  <1>3. queue[1] \in Entry /\ Head(queue) = queue[1]
    BY <1>2, HeldTyped
  <1>4. queue[1].bytes \in 1..EventMax /\ queue[1].bytes \in Nat
    BY <1>3 DEF Entry
  <1>5. ObTypes'
    <2>1. wire' \in Seq(1..EventMax)
      BY <1>1, <1>3, <1>4 DEF ObInv, ObTypes
    <2>. QED  BY <2>1 DEF Enqueue, producer, ledger, ObInv, ObTypes
  <1>6. ObLedger' /\ ObSender' /\ FrozenStep
    BY <1>1 DEF ObInv, ObLedger, ObSender, FrozenStep
  <1>7. Doubled' = queue[1].bytes /\ Doubled = 0
    BY <1>1 DEF Doubled
  <1>8. Bytes(wire') = Bytes(wire) + queue[1].bytes
    BY <1>1, <1>3, <1>4, WireTyped, BytesAppend DEF ObInv, ObTypes
  <1>9. Net' = Net /\ Lifecycles' = Lifecycles
    <2>. DEFINE o == queue[1].bytes
    <2>1. o \in Nat /\ Net' = used + (Bytes(wire) + o) - o /\ Net = used + Bytes(wire) - 0
      BY <1>1, <1>4, <1>7, <1>8 DEF Net
    <2>. HIDE DEF o
    <2>. QED  BY <1>1, <2>1, HeldTyped DEF Lifecycles
  <1>. QED  BY <1>5, <1>6, <1>9, HeldTyped DEF ObInv, Quietly

\* What complete_send() releases, whatever the send came to.
LEMMA CompleteKept ==
    ASSUME ObInv, CompleteSend, sender \in {"sending", "reserved"}, sender' \in {"idle", "done"},
           overflowed' = overflowed, WireKept, ObTypes'
    PROVE  ObInv' /\ FrozenStep /\ Quietly
  <1>1. /\ queue' = Tail(queue) /\ used' = used - Head(queue).bytes
        /\ count' = [count EXCEPT ![Head(queue).kind] = @ - 1]
        /\ inFlight' = FALSE /\ UNCHANGED <<sequence, omitted, unreported>>
    BY DEF CompleteSend
  <1>2. queue # <<>>
    BY DEF ObInv, ObSender, ObLedger
  <1>3. Accounted(queue', used', count', sequence')
    BY <1>1, <1>2, QueueTail DEF ObInv, ObLedger
  <1>4. ObLedger' /\ ObSender' /\ FrozenStep
    BY <1>1, <1>3 DEF ObInv, ObLedger, ObSender, FrozenStep
  <1>5. Head(queue) = queue[1] /\ queue[1] \in Entry /\ queue[1].bytes <= used
    BY <1>2, HeldTyped
  <1>6. queue[1].bytes \in Nat /\ queue[1].kind \in Kinds
    BY <1>5 DEF Entry
  <1>7. Bytes(wire') <= Bytes(wire) /\ Bytes(wire') \in Nat
    BY HeldTyped, BytesEmpty DEF WireKept
  <1>8. Doubled' = 0 /\ (Doubled = 0 \/ Doubled = queue[1].bytes)
    BY DEF Doubled
  <1>9. Net' <= Net /\ Net' <= Capacity
    <2>. DEFINE o == queue[1].bytes
    <2>1. o \in Nat /\ o <= used /\ used' = used - o /\ Net' = used' + Bytes(wire') - 0
          /\ Net = used + Bytes(wire) - Doubled /\ (Doubled = 0 \/ Doubled = o)
      BY <1>1, <1>5, <1>6, <1>8 DEF Net
    <2>. HIDE DEF o
    <2>2. used \in Nat /\ Bytes(wire) \in Nat /\ Doubled \in Nat /\ Net <= Capacity /\ Capacity \in Nat
      BY HeldTyped, ConstantsTyped
    <2>. QED  BY <1>7, <2>1, <2>2
  <1>10. Lifecycles' <= Lifecycles
    <2>1. count \in [Kinds -> Nat] /\ "lifecycle" \in Kinds
      BY DEF ObInv, ObLedger, Accounted, Kinds
    <2>2. count'["lifecycle"] = IF Head(queue).kind = "lifecycle" THEN count["lifecycle"] - 1 ELSE count["lifecycle"]
      BY <1>1, <1>5, <1>6, <2>1
    <2>. QED  BY <2>1, <2>2 DEF Lifecycles
  <1>. QED  BY <1>4, <1>9, <1>10 DEF ObInv, Quietly

LEMMA SentOb == ObInv /\ Sent => ObInv' /\ FrozenStep /\ Quietly
  <1>. SUFFICES ASSUME ObInv, Sent PROVE ObInv' /\ FrozenStep /\ Quietly
    OBVIOUS
  <1>1. ObTypes'
    BY DEF Sent, producer, ObInv, ObTypes
  <1>2. CompleteSend /\ sender = "reserved" /\ sender' = "idle" /\ WireKept /\ overflowed' = overflowed
    BY DEF Sent, WireKept
  <1>. QED  BY <1>1, <1>2, CompleteKept

LEMMA EmptyWire == <<>> \in Seq(1..EventMax)
  OBVIOUS

LEMMA SendThrowsOb == ObInv /\ SendThrows => ObInv' /\ FrozenStep /\ Quietly
  <1>. SUFFICES ASSUME ObInv, SendThrows PROVE ObInv' /\ FrozenStep /\ Quietly
    OBVIOUS
  <1>1. CompleteSend /\ sender \in {"sending", "reserved"} /\ sender' = "done"
    BY DEF SendThrows
  <1>2. overflowed' = overflowed
    <2>1. SUFFICES ASSUME sender = "sending", QueuedWriteBytes + Head(queue).bytes > Capacity PROVE FALSE
      BY DEF SendThrows
    <2>2. queue # <<>>
      BY <2>1 DEF ObInv, ObSender, ObLedger
    <2>3. Head(queue) = queue[1] /\ queue[1] \in Entry /\ queue[1].bytes <= used
      BY <2>2, HeldTyped
    <2>. DEFINE o == queue[1].bytes
    <2>4. o \in Nat
      BY <2>3 DEF Entry
    <2>5. Doubled = 0 /\ Bytes(wire) + o > Capacity /\ o <= used
      BY <2>1, <2>3 DEF Doubled, QueuedWriteBytes
    <2>. HIDE DEF o
    <2>6. used + Bytes(wire) <= Capacity
      BY <2>5, HeldTyped DEF Net
    <2>. QED  BY <2>4, <2>5, <2>6, HeldTyped, ConstantsTyped
  <1>3. WireKept
    BY DEF SendThrows, Fail, StopClient, WireKept
  <1>4. ObTypes'
    <2>1. UNCHANGED <<host, extra, storageFailed, windowErrors, paused, refused>>
      BY DEF SendThrows
    <2>2. stopping' \in BOOLEAN /\ closed' \in BOOLEAN /\ client' \in {"up", "stopped"} /\ wire' \in Seq(1..EventMax)
      BY EmptyWire DEF SendThrows, Fail, StopClient, ObInv, ObTypes
    <2>. QED  BY <2>1, <2>2 DEF ObInv, ObTypes
  <1>. QED  BY <1>1, <1>2, <1>3, <1>4, CompleteKept

LEMMA SenderReturnsOb == ObInv /\ SenderReturns => ObInv' /\ FrozenStep /\ Quietly
  <1>. SUFFICES ASSUME ObInv, SenderReturns PROVE ObInv' /\ FrozenStep /\ Quietly
    OBVIOUS
  <1>1. /\ UNCHANGED <<queue, inFlight, used, count, sequence, omitted, unreported, wire,
                       overflowed>>
        /\ sender = "idle" /\ sender' = "done"
    BY DEF SenderReturns, ledger
  <1>2. ObTypes'
    BY DEF SenderReturns, ledger, producer, ObInv, ObTypes
  <1>3. ObLedger' /\ ObSender' /\ FrozenStep
    BY <1>1 DEF ObInv, ObLedger, ObSender, FrozenStep
  <1>4. Net' = Net /\ Lifecycles' = Lifecycles
    BY <1>1 DEF Net, Lifecycles, Doubled
  <1>. QED  BY <1>2, <1>3, <1>4, HeldTyped DEF ObInv, Quietly

LEMMA WrittenOb == ObInv /\ Written => ObInv' /\ FrozenStep /\ Quietly
  <1>. SUFFICES ASSUME ObInv, Written PROVE ObInv' /\ FrozenStep /\ Quietly
    OBVIOUS
  <1>1. /\ UNCHANGED <<queue, inFlight, used, count, sequence, omitted, unreported, sender,
                       overflowed>>
        /\ wire # <<>> /\ wire' = Tail(wire)
    BY DEF Written, ledger
  <1>2. ObTypes'
    <2>1. wire' \in Seq(1..EventMax)
      BY <1>1 DEF ObInv, ObTypes
    <2>. QED  BY <2>1 DEF Written, ledger, producer, ObInv, ObTypes
  <1>3. ObLedger' /\ ObSender' /\ FrozenStep
    BY <1>1 DEF ObInv, ObLedger, ObSender, FrozenStep
  <1>4. Bytes(wire') <= Bytes(wire) /\ Bytes(wire') \in Nat
    <2>1. wire \in Seq(Nat) /\ wire' \in Seq(1..EventMax)
      BY <1>2, WireTyped DEF ObInv, ObTypes
    <2>2. Bytes(wire') = Bytes(wire) - wire[1] /\ wire[1] \in Nat /\ Bytes(wire') \in Nat /\ Bytes(wire) \in Nat
      BY <1>1, <2>1, BytesTail, WireTyped, HeldTyped
    <2>. QED  BY <2>2
  <1>5. Doubled' = Doubled /\ Lifecycles' = Lifecycles /\ used' = used
    BY <1>1 DEF Doubled, Lifecycles
  <1>6. Net' <= Net /\ Net' <= Capacity
    <2>1. used \in Nat /\ Bytes(wire) \in Nat /\ Doubled \in Nat /\ Net <= Capacity /\ Capacity \in Nat
      BY HeldTyped, ConstantsTyped
    <2>2. Net' = used + Bytes(wire') - Doubled /\ Net = used + Bytes(wire) - Doubled
      BY <1>5 DEF Net
    <2>. QED  BY <1>4, <2>1, <2>2
  <1>. QED  BY <1>2, <1>3, <1>5, <1>6, HeldTyped DEF ObInv, Quietly

LEMMA InitOb == Init => ObInv
  <1>. SUFFICES ASSUME Init PROVE ObInv
    OBVIOUS
  <1>1. ObTypes
    BY EmptyWire DEF Init, ObTypes, Hosts
  <1>2. ObSender /\ Doubled = 0
    BY DEF Init, ObSender, Doubled
  <1>3. Accounted(<<>>, 0, [k \in Kinds |-> 0], 0)
    <2>1. <<>> \in Seq(Entry) /\ Len(<<>>) = 0
      OBVIOUS
    <2>2. SizesOf(<<>>) \in Seq(Nat) /\ Len(SizesOf(<<>>)) = 0
      BY <2>1, SizesTyped
    <2>3. SizesOf(<<>>) = <<>>
      BY <2>2
    <2>4. \A k \in Kinds : OfKind(<<>>, k) = {} /\ Cardinality({}) = 0
      BY <2>1, FS_EmptySet DEF OfKind
    <2>5. 0 \in 0..(Wrap - 1) /\ Numbered(<<>>, 0)
      BY <2>1, ConstantsTyped DEF Numbered
    <2>6. [k \in Kinds |-> 0] \in [Kinds -> Nat] /\ \A k \in Kinds : [j \in Kinds |-> 0][k] = Cardinality(OfKind(<<>>, k))
      BY <2>4
    <2>. QED  BY <2>1, <2>3, <2>5, <2>6, BytesEmpty DEF Accounted
  <1>4. ObLedger
    <2>1. 0 \in 0..(Wrap - 1)
      BY ConstantsTyped
    <2>2. queue = <<>> /\ used = 0 /\ count = [k \in Kinds |-> 0] /\ sequence = 0 /\ omitted = 0
          /\ unreported = 0 /\ inFlight = FALSE
      BY DEF Init
    <2>3. Accounted(queue, used, count, sequence)
      BY <1>3, <2>2, Zenon
    <2>. QED  BY <2>1, <2>2, <2>3 DEF ObLedger
  <1>5. Net <= Capacity
    <2>1. used = 0 /\ Bytes(wire) = 0
      BY BytesEmpty DEF Init
    <2>. QED  BY <1>2, <2>1, ConstantsTyped DEF Net
  <1>. QED  BY <1>1, <1>2, <1>4, <1>5 DEF ObInv

LEMMA TransportFailsOb == ObInv /\ TransportFails => ObInv' /\ FrozenStep /\ Quietly
  <1>. SUFFICES ASSUME ObInv, TransportFails PROVE ObInv' /\ FrozenStep /\ Quietly
    OBVIOUS
  <1>1. ObTypes'
    BY EmptyWire DEF TransportFails, Fail, StopClient, ObInv, ObTypes
  <1>2. UNCHANGED <<queue, inFlight, used, count, sequence, omitted, unreported, sender,
                    overflowed>> /\ WireKept
    BY DEF TransportFails, Fail, StopClient, WireKept
  <1>. QED  BY <1>1, <1>2, LedgerKept

\* Steps of consume() and of the shutdown that publish nothing.
Silent == \/ Payload \/ WaitOver \/ StorageFails \/ Shutdown \/ NextThrows
          \/ CloseOutbox \/ Deadline \/ Gone

LEMMA SilentOb == ObInv /\ Silent => ObInv' /\ FrozenStep /\ Quietly
  <1>. SUFFICES ASSUME ObInv, Silent PROVE ObInv' /\ FrozenStep /\ Quietly
    OBVIOUS
  <1>1. UNCHANGED <<queue, inFlight, used, count, sequence, omitted, unreported, sender,
                    overflowed>>
    BY DEF Silent, Payload, WaitOver, StorageFails, Shutdown, NextThrows, CloseOutbox, Deadline,
    Gone,
           ledger, transport
  <1>2. WireKept
    BY DEF Silent, Payload, WaitOver, StorageFails, Shutdown, NextThrows, CloseOutbox, Deadline,
    Gone,
           ledger, transport, StopClient, WireKept
  <1>3. ObTypes'
    <2>1. client' \in {"up", "stopped"} /\ wire' \in Seq(1..EventMax)
      BY EmptyWire DEF Silent, Payload, WaitOver, StorageFails, Shutdown, NextThrows,
      CloseOutbox, Deadline, Gone,
             ledger, transport, StopClient, ObInv, ObTypes
    <2>2. host' \in Hosts
      BY DEF Silent, Payload, WaitOver, StorageFails, Shutdown, NextThrows, CloseOutbox,
      Deadline, Gone,
             producer, ObInv, ObTypes, Hosts
    <2>3. windowErrors' = windowErrors /\ extra' = extra /\ refused' = refused
      BY DEF Silent, Payload, WaitOver, StorageFails, Shutdown, NextThrows, CloseOutbox,
      Deadline, Gone, producer
    <2>4. paused' \in BOOLEAN /\ closed' \in BOOLEAN /\ storageFailed' \in BOOLEAN /\ stopping' \in BOOLEAN
      BY DEF Silent, Payload, WaitOver, StorageFails, Shutdown, NextThrows, CloseOutbox,
      Deadline, Gone,
             ledger, producer, ObInv, ObTypes
    <2>. QED  BY <2>1, <2>2, <2>3, <2>4 DEF ObInv, ObTypes
  <1>. QED  BY <1>1, <1>2, <1>3, LedgerKept

\* A query dropped before its reply is built.
LEMMA DroppedOb ==
    ASSUME ObInv, NoteOmission, UNCHANGED <<queue, inFlight, used, count, sequence>>,
           UNCHANGED <<transport, windowErrors, paused, closed, extra, storageFailed, stopping,
                       refused, host>>
    PROVE  ObInv' /\ FrozenStep /\ Quietly
  <1>1. ObTypes' /\ ObSender' /\ FrozenStep
    BY DEF ObInv, ObTypes, ObSender, FrozenStep, transport
  <1>2. omitted' \in 0..(Wrap - 1) /\ omitted' = unreported'
    BY OmissionKept DEF ObInv
  <1>3. ObLedger'
    BY <1>2 DEF ObInv, ObLedger
  <1>4. Net' = Net /\ Lifecycles' = Lifecycles
    BY DEF Net, Lifecycles, Doubled, transport
  <1>. QED  BY <1>1, <1>3, <1>4, HeldTyped DEF ObInv, Quietly

LEMMA RunEventOb == ASSUME NEW b \in Sizes PROVE ObInv /\ RunEvent(b) => ObInv' /\ FrozenStep /\ Quietly
  <1>. SUFFICES ASSUME ObInv, RunEvent(b) PROVE ObInv' /\ FrozenStep /\ Quietly
    OBVIOUS
  <1>1. ObTypes'
    BY DEF RunEvent, quiet, transport, ObInv, ObTypes
  <1>2. UNCHANGED <<sender, overflowed>> /\ WireKept /\ b \in 1..EventMax
    BY DEF RunEvent, quiet, transport, WireKept, Sizes
  <1>3. \E k \in {"ordinary", "metadata"}, n \in Names \cup {"-"} : Admit(k, n, b, FALSE)
    BY DEF RunEvent
  <1>. QED  BY <1>1, <1>2, <1>3, AdmitKept DEF Kinds

LEMMA QueryOb == ASSUME NEW b \in Sizes PROVE ObInv /\ Query(b) => ObInv' /\ FrozenStep /\ Quietly
  <1>. SUFFICES ASSUME ObInv, Query(b) PROVE ObInv' /\ FrozenStep /\ Quietly
    OBVIOUS
  <1>1. ObTypes'
    BY DEF Query, quiet, transport, ObInv, ObTypes
  <1>2. UNCHANGED <<sender, overflowed>> /\ WireKept /\ b \in 1..EventMax
    BY DEF Query, quiet, transport, WireKept, Sizes
  <1>3. CASE Congested
    <2>1. NoteOmission /\ UNCHANGED <<queue, inFlight, used, count, sequence>>
      BY <1>3 DEF Query
    <2>2. UNCHANGED <<transport, windowErrors, paused, closed, extra, storageFailed, stopping,
                      refused, host>>
      BY DEF Query, quiet
    <2>. QED  BY <2>1, <2>2, DroppedOb
  <1>4. CASE ~Congested
    <2>1. Admit("ordinary", "-", b, FALSE) /\ "-" \in Names \cup {"-"} /\ "ordinary" \in Kinds
      BY <1>4 DEF Query, Kinds
    <2>. QED  BY <1>1, <1>2, <2>1, AdmitKept
  <1>. QED  BY <1>3, <1>4

LEMMA FeedbackOb == ASSUME NEW b \in Sizes PROVE ObInv /\ Feedback(b) => ObInv' /\ FrozenStep /\ Quietly
  <1>. SUFFICES ASSUME ObInv, Feedback(b) PROVE ObInv' /\ FrozenStep /\ Quietly
    OBVIOUS
  <1>1. ObTypes'
    BY DEF Feedback, quiet, transport, ObInv, ObTypes
  <1>2. UNCHANGED <<sender, overflowed>> /\ WireKept /\ b \in 1..EventMax
    BY DEF Feedback, quiet, transport, WireKept, Sizes
  <1>3. Admit("ordinary", "-", b, FALSE) /\ "-" \in Names \cup {"-"} /\ "ordinary" \in Kinds
    BY DEF Feedback, Kinds
  <1>. QED  BY <1>1, <1>2, <1>3, AdmitKept

LEMMA ControlOb ==
    ASSUME NEW b \in Sizes, NEW n \in Names
    PROVE  ObInv /\ Control(n, b) => ObInv' /\ FrozenStep /\ Quietly
  <1>. SUFFICES ASSUME ObInv, Control(n, b) PROVE ObInv' /\ FrozenStep /\ Quietly
    OBVIOUS
  <1>1. ObTypes'
    BY DEF Control, quiet, transport, ObInv, ObTypes
  <1>2. UNCHANGED <<sender, overflowed>> /\ WireKept /\ b \in 1..EventMax
    BY DEF Control, quiet, transport, WireKept, Sizes
  <1>3. Admit("metadata", n, b, FALSE) /\ n \in Names \cup {"-"} /\ "metadata" \in Kinds
    BY DEF Control, Kinds
  <1>. QED  BY <1>1, <1>2, <1>3, AdmitKept

LEMMA ControlErrorOb ==
    ASSUME NEW b \in Sizes, NEW n \in Names
    PROVE  ObInv /\ ControlError(n, b) => /\ ObInv' /\ FrozenStep
                                          /\ Quietly \/ WithOneMore
                                          /\ ~storageFailed => Quietly
  <1>. SUFFICES ASSUME ObInv, ControlError(n, b)
                PROVE  ObInv' /\ FrozenStep /\ (Quietly \/ WithOneMore) /\ (~storageFailed => Quietly)
    OBVIOUS
  <1>1. ObTypes'
    <2>1. UNCHANGED <<host, extra, storageFailed, paused>>
      BY DEF ControlError
    <2>2. refused' \in BOOLEAN /\ closed' \in BOOLEAN /\ stopping' \in BOOLEAN
      BY Zenon DEF ControlError, Fail, ObInv, ObTypes
    <2>4. windowErrors' \in Nat
      <3>1. windowErrors' = windowErrors \/ windowErrors' = windowErrors + 1
        BY Zenon DEF ControlError
      <3>2. windowErrors \in Nat
        BY DEF ObInv, ObTypes
      <3>. QED  BY <3>1, <3>2
    <2>3. client' \in {"up", "stopped"} /\ wire' \in Seq(1..EventMax)
      BY EmptyWire DEF ControlError, Fail, StopClient, ObInv, ObTypes
    <2>. QED  BY <2>1, <2>2, <2>3, <2>4 DEF ObInv, ObTypes
  <1>2. UNCHANGED <<sender, overflowed>> /\ WireKept /\ b \in 1..EventMax
    BY DEF ControlError, Fail, StopClient, WireKept, Sizes
  <1>3. CASE ~storageFailed
    <2>1. Admit("metadata", n, b, FALSE) /\ n \in Names \cup {"-"} /\ "metadata" \in Kinds
      BY <1>3 DEF ControlError, Kinds
    <2>. QED  BY <1>1, <1>2, <2>1, AdmitKept
  <1>4. CASE storageFailed
    <2>1. Admit("lifecycle", "-", b, FALSE) /\ "-" \in Names \cup {"-"} /\ "lifecycle" \in Kinds
      BY <1>4 DEF ControlError, Kinds
    <2>. QED  BY <1>1, <1>2, <1>4, <2>1, AdmitKept
  <1>. QED  BY <1>3, <1>4 DEF ObInv, ObTypes

\* What a lifecycle event of consume() leaves typed.
LEMMA LifecycleOb ==
    ASSUME NEW b \in Sizes, NEW from, NEW to \in Hosts, NEW settlement, ObInv,
           Lifecycle(from, to, b, settlement), UNCHANGED <<untouched, storageFailed>>,
                                                           extra' \in BOOLEAN
    PROVE  ObInv' /\ FrozenStep /\ (Quietly \/ WithOneMore)
  <1>1. ObTypes'
    <2>1. UNCHANGED <<windowErrors, paused, storageFailed>> /\ extra' \in BOOLEAN
      BY DEF untouched
    <2>2. host' \in Hosts /\ refused' \in BOOLEAN /\ closed' \in BOOLEAN /\ stopping' \in BOOLEAN
      BY DEF Lifecycle, Fail, StopClient, ObInv, ObTypes, Hosts
    <2>3. client' \in {"up", "stopped"} /\ wire' \in Seq(1..EventMax)
      BY EmptyWire DEF Lifecycle, Fail, StopClient, ObInv, ObTypes
    <2>. QED  BY <2>1, <2>2, <2>3 DEF ObInv, ObTypes
  <1>2. UNCHANGED <<sender, overflowed>> /\ WireKept /\ b \in 1..EventMax
    BY DEF Lifecycle, Fail, StopClient, WireKept, Sizes, untouched
  <1>3. Admit("lifecycle", "-", b, settlement) /\ "-" \in Names \cup {"-"} /\ "lifecycle" \in Kinds
    BY DEF Lifecycle, Kinds
  <1>. QED  BY <1>1, <1>2, <1>3, AdmitKept

LEMMA RejectedOb == ASSUME NEW b \in Sizes PROVE ObInv /\ Rejected(b) => ObInv' /\ FrozenStep /\ Quietly
  <1>. SUFFICES ASSUME ObInv, Rejected(b) PROVE ObInv' /\ FrozenStep /\ Quietly
    OBVIOUS
  <1>1. ObTypes'
    BY DEF Rejected, transport, ObInv, ObTypes, Hosts
  <1>2. UNCHANGED <<sender, overflowed>> /\ WireKept /\ b \in 1..EventMax
    BY DEF Rejected, transport, WireKept, Sizes
  <1>3. Admit("ordinary", "-", b, FALSE) /\ "-" \in Names \cup {"-"} /\ "ordinary" \in Kinds
    BY DEF Rejected, Kinds
  <1>. QED  BY <1>1, <1>2, <1>3, AdmitKept

\* The lifecycle of one request, up to the diagnostic that ends the worker.
LEMMA ProducedOb ==
    ASSUME NEW b \in Sizes, ObInv,
           \/ Ready(b) \/ InputAdmitted(b) \/ RunStarted(b) \/ RunFinished(b)
           \/ RunMilestone(b) \/ TerminalError(b)
    PROVE  ObInv' /\ FrozenStep /\ (Quietly \/ WithOneMore)
  <1>1. CASE Ready(b)
    BY <1>1, LifecycleOb DEF Ready, Hosts, ObInv, ObTypes
  <1>2. CASE InputAdmitted(b)
    BY <1>2, LifecycleOb DEF InputAdmitted, Hosts
  <1>3. CASE RunStarted(b)
    BY <1>3, LifecycleOb DEF RunStarted, Hosts, ObInv, ObTypes
  <1>4. CASE RunFinished(b)
    <2>1. (IF stopping THEN "ended" ELSE "next") \in Hosts
      BY DEF Hosts
    <2>. QED  BY <1>4, <2>1, LifecycleOb DEF RunFinished, ObInv, ObTypes
  <1>5. CASE RunMilestone(b)
    <2>1. ObTypes'
      BY <1>5 DEF RunMilestone, transport, ObInv, ObTypes
    <2>2. UNCHANGED <<sender, overflowed>> /\ WireKept /\ b \in 1..EventMax
      BY <1>5 DEF RunMilestone, transport, WireKept, Sizes
    <2>3. Admit("lifecycle", "-", b, FALSE) /\ "-" \in Names \cup {"-"} /\ "lifecycle" \in Kinds
      BY <1>5 DEF RunMilestone, Kinds
    <2>. QED  BY <2>1, <2>2, <2>3, AdmitKept
  <1>6. CASE TerminalError(b)
    <2>1. ObTypes'
      BY <1>6 DEF TerminalError, transport, ObInv, ObTypes, Hosts
    <2>2. UNCHANGED <<sender, overflowed>> /\ WireKept /\ b \in 1..EventMax
      BY <1>6 DEF TerminalError, transport, WireKept, Sizes
    <2>3. Admit("lifecycle", "-", b, TRUE) /\ "-" \in Names \cup {"-"} /\ "lifecycle" \in Kinds
      BY <1>6 DEF TerminalError, Kinds
    <2>. QED  BY <2>1, <2>2, <2>3, AdmitKept
  <1>. QED  BY <1>1, <1>2, <1>3, <1>4, <1>5, <1>6


LEMMA NextOb == ObInv /\ [Next]_vars => ObInv' /\ FrozenStep
  <1>. SUFFICES ASSUME ObInv, [Next]_vars PROVE ObInv' /\ FrozenStep
    OBVIOUS
  <1>1. CASE UNCHANGED vars
    <2>1. ObTypes' /\ ObLedger' /\ ObSender'
      BY <1>1 DEF vars, ledger, transport, producer, ObInv, ObTypes, ObLedger, ObSender
    <2>2. Net' = Net /\ FrozenStep
      BY <1>1 DEF vars, ledger, transport, producer, Net, Doubled, FrozenStep
    <2>. QED  BY <2>1, <2>2 DEF ObInv
  <1>2. CASE Sending \/ Written \/ TransportFails
    BY <1>2, BeginSendOb, EnqueueOb, SentOb, SendThrowsOb, SenderReturnsOb, WrittenOb,
    TransportFailsOb DEF Sending
  <1>3. CASE Noise
    BY <1>3, RunEventOb, QueryOb, FeedbackOb, ControlOb, ControlErrorOb DEF Noise
  <1>4. CASE Silent
    BY <1>4, SilentOb
  <1>5. ASSUME NEW b \in Sizes, Rejected(b) PROVE ObInv' /\ FrozenStep
    BY <1>5, RejectedOb
  <1>6. ASSUME NEW b \in Sizes,
               \/ Ready(b) \/ InputAdmitted(b) \/ RunStarted(b) \/ RunFinished(b)
               \/ RunMilestone(b) \/ TerminalError(b)
        PROVE  ObInv' /\ FrozenStep
    BY <1>6, ProducedOb
  <1>. QED  BY <1>1, <1>2, <1>3, <1>4, <1>5, <1>6 DEF Next, Admitting, Ending, Silent

\* The accounts the outbox keeps, from the invariant.
LEMMA ObInvAgrees == ObInv => OutboxTypeOK /\ LedgerAgrees /\ SendsFit /\ SequenceUnbroken
  <1>. SUFFICES ASSUME ObInv PROVE OutboxTypeOK /\ LedgerAgrees /\ SendsFit /\ SequenceUnbroken
    OBVIOUS
  <1>1. /\ queue \in Seq(Entry) /\ used \in Nat /\ used = Bytes(SizesOf(queue)) /\ count \in [Kinds -> Nat]
        /\ \A k \in Kinds : count[k] = Cardinality(OfKind(queue, k))
        /\ sequence \in 0..(Wrap - 1) /\ Numbered(queue, sequence)
    BY DEF ObInv, ObLedger, Accounted
  <1>2. /\ omitted \in 0..(Wrap - 1) /\ omitted = unreported
        /\ inFlight \in BOOLEAN /\ (inFlight => queue # <<>>)
    BY DEF ObInv, ObLedger
  <1>3. OutboxTypeOK
    <2>1. windowErrors \in Nat
      BY DEF ObInv, ObTypes
    <2>2. {inFlight, paused, closed, extra, storageFailed, stopping, refused, overflowed} \subseteq BOOLEAN
      BY <1>2 DEF ObInv, ObTypes, ObSender
    <2>3. {used, windowErrors} \subseteq Nat /\ {sequence, omitted, unreported} \subseteq 0..(Wrap - 1)
      BY <1>1, <1>2, <2>1
    <2>4. /\ sender \in {"idle", "sending", "reserved", "done"} /\ wire \in Seq(1..EventMax)
          /\ client \in {"up", "stopped"} /\ host \in Hosts
      BY DEF ObInv, ObTypes, ObSender
    <2>. QED  BY <1>1, <2>2, <2>3, <2>4 DEF OutboxTypeOK
  <1>4. LedgerAgrees
    <2>1. inFlight <=> sender \in {"sending", "reserved"}
      BY DEF ObInv, ObSender
    <2>. QED  BY <1>1, <1>2, <2>1, Zenon DEF LedgerAgrees, SizesOf, OfKind
  <1>5. SendsFit /\ SequenceUnbroken
    BY <1>1 DEF ObInv, ObSender, SendsFit, SequenceUnbroken, Numbered
  <1>. QED  BY <1>3, <1>4, <1>5

-----------------------------------------------------------------------------
(* The reserve: how much of it the lifecycle of the current request has used. *)

Producing == host \in {"boot", "admit", "started", "run", "failing"}

\* The lifecycle events that may still be held: wait_for_admission() has drained
\* every earlier one.
Load == IF host \in {"boot", "admit"} THEN 0
        ELSE IF host = "started" THEN 1
        ELSE (IF extra THEN 3 ELSE 2) + windowErrors

Within(net, lifecycles, l) == net <= Soft + l * EventMax /\ lifecycles <= l

ObWindow ==
    /\ storageFailed => \/ host = "failing"
                        \/ stopping /\ host \in {"ended", "closing", "gone"}
    /\ ~storageFailed => windowErrors = 0 /\ host # "failing"
    /\ windowErrors <= MaxWindowErrors

ObReserve == ObWindow /\ refused = FALSE /\ (Producing => Within(Net, Lifecycles, Load))

LEMMA ProductMonotone ==
    ASSUME NEW l \in Nat, NEW m \in Nat, l <= m
    PROVE  /\ l * EventMax \in Nat /\ m * EventMax \in Nat /\ l * EventMax <= m * EventMax
           /\ (l + 1) * EventMax = l * EventMax + EventMax
  <1>. DEFINE d == m - l
  <1>1. d \in Nat /\ m = l + d /\ EventMax \in Nat
    BY ConstantsTyped
  <1>. HIDE DEF d
  <1>2. d * EventMax \in Nat /\ l * EventMax \in Nat
    BY <1>1
  <1>3. (l + d) * EventMax = l * EventMax + d * EventMax
    BY <1>1
  <1>4. (l + 1) * EventMax = l * EventMax + EventMax
    BY <1>1
  <1>. DEFINE x == l * EventMax
              y == d * EventMax
              z == m * EventMax
  <1>5. x \in Nat /\ y \in Nat /\ z = x + y
    BY <1>1, <1>2, <1>3
  <1>. HIDE DEF x, y, z
  <1>6. z \in Nat /\ x <= z
    BY <1>5
  <1>. QED  BY <1>2, <1>4, <1>6 DEF x, z

LEMMA WithinQuietly ==
    ASSUME NEW n \in Nat, NEW c \in Nat, NEW l \in Nat, NEW n2 \in Nat, NEW c2 \in Nat, NEW m \in Nat,
           l <= m, Within(n, c, l), n2 <= n \/ n2 <= Soft, c2 <= c
    PROVE  Within(n2, c2, m)
  <1>. DEFINE x == l * EventMax
              z == m * EventMax
  <1>1. x \in Nat /\ z \in Nat /\ x <= z
    BY ProductMonotone
  <1>2. n <= Soft + x /\ c <= l
    BY DEF Within
  <1>. HIDE DEF x, z
  <1>3. n2 <= Soft + z /\ c2 <= m
    BY <1>1, <1>2, ConstantsTyped
  <1>. QED  BY <1>3 DEF Within, z

LEMMA WithinOneMore ==
    ASSUME NEW n \in Nat, NEW c \in Nat, NEW l \in Nat, NEW n2 \in Nat, NEW c2 \in Nat, NEW m \in Nat,
           l + 1 <= m, Within(n, c, l), n2 <= n + EventMax, c2 <= c + 1
    PROVE  Within(n2, c2, m)
  <1>. DEFINE x == l * EventMax
              y == (l + 1) * EventMax
              z == m * EventMax
  <1>1. x \in Nat /\ y = x + EventMax
    <2>1. l <= l
      OBVIOUS
    <2>. QED  BY <2>1, ProductMonotone
  <1>2. y \in Nat /\ z \in Nat /\ y <= z
    <2>1. l + 1 \in Nat
      OBVIOUS
    <2>. QED  BY <2>1, ProductMonotone
  <1>3. n <= Soft + x /\ c <= l
    BY DEF Within
  <1>. HIDE DEF x, y, z
  <1>4. n2 <= Soft + z /\ c2 <= m
    BY <1>1, <1>2, <1>3, ConstantsTyped
  <1>. QED  BY <1>4 DEF Within, z

\* One more lifecycle event finds a slot and the bytes kept for it.
LEMMA LifecycleFits ==
    ASSUME ObInv, NEW l \in Nat, Within(Net, Lifecycles, l), l + 1 <= LifecycleSlots, NEW b \in Sizes
    PROVE  Admission("lifecycle", "-", b) # "refused"
  <1>1. Room("lifecycle", b)
    <2>1. count["lifecycle"] < LifecycleSlots
      <3>1. Lifecycles <= l /\ Lifecycles \in Nat /\ LifecycleSlots \in Nat
        BY HeldTyped, ConstantsTyped DEF Within
      <3>2. Lifecycles < LifecycleSlots
        BY <3>1
      <3>. QED  BY <3>2 DEF Lifecycles
    <2>2. used + Bytes(wire) + b <= Capacity
      <3>. DEFINE x == l * EventMax
                  y == (l + 1) * EventMax
                  s == LifecycleSlots * EventMax
                  z == (LifecycleSlots + 1) * EventMax
      <3>1. x \in Nat /\ y = x + EventMax
        <4>1. l <= l
          OBVIOUS
        <4>. QED  BY <4>1, ProductMonotone
      <3>2. y \in Nat /\ s \in Nat /\ y <= s
        <4>1. l + 1 \in Nat /\ LifecycleSlots \in Nat
          BY ConstantsTyped
        <4>. QED  BY <4>1, ProductMonotone
      <3>3. z = s + EventMax
        <4>1. LifecycleSlots \in Nat /\ LifecycleSlots <= LifecycleSlots
          BY ConstantsTyped
        <4>. QED  BY <4>1, ProductMonotone
      <3>4. Net <= Soft + x /\ Capacity = Soft + z
        BY DEF Within, Capacity
      <3>. HIDE DEF x, y, s, z
      <3>5. /\ used \in Nat /\ Bytes(wire) \in Nat /\ Doubled \in Nat /\ Doubled <= EventMax
            /\ Net = used + Bytes(wire) - Doubled /\ b \in Nat /\ b <= EventMax
        BY HeldTyped, ConstantsTyped DEF Net, Sizes
      <3>. QED  BY <3>1, <3>2, <3>3, <3>4, <3>5, ConstantsTyped
    <2>. QED  BY <2>1, <2>2 DEF Room, Slots, Limit, Fits, QueuedWriteBytes
  <1>. QED  BY <1>1 DEF Admission

LEMMA LoadTyped ==
    ASSUME ObInv
    PROVE  /\ Load \in Nat /\ windowErrors \in Nat
           /\ host \notin {"boot", "admit", "started"} => Load <= 3 + windowErrors
           /\ host = "run" \/ host = "failing" =>
                 Load = (IF extra THEN 3 ELSE 2) + windowErrors
  BY DEF ObInv, ObTypes, Load

HeldNaturals == Net \in Nat /\ Lifecycles \in Nat /\ Load \in Nat

LEMMA Held == ObInv => HeldNaturals
  BY HeldTyped, LoadTyped DEF HeldNaturals

LEMMA HeldNext == ObInv' => HeldNaturals'
  BY Held, PTL

\* A step that adds no lifecycle event keeps within the load, if that does not fall.
LEMMA ReserveQuietly ==
    ASSUME ObInv, ObInv', ObReserve, Quietly, ObWindow', refused' = refused,
           Producing' => Producing /\ Load <= Load'
    PROVE  ObReserve'
  <1>. SUFFICES ASSUME Producing' PROVE Within(Net, Lifecycles, Load)'
    BY DEF ObReserve
  <1>1. Within(Net, Lifecycles, Load) /\ Load <= Load'
    BY DEF ObReserve
  <1>2. /\ Net \in Nat /\ Lifecycles \in Nat /\ Load \in Nat /\ Net' \in Nat /\ Lifecycles' \in Nat
        /\ Load' \in Nat
    BY Held, HeldNext DEF HeldNaturals
  <1>3. (Net' <= Net \/ Net' <= Soft) /\ Lifecycles' <= Lifecycles
    BY DEF Quietly
  <1>4. Within(Net', Lifecycles', Load')
    BY <1>1, <1>2, <1>3, WithinQuietly
  <1>. QED  BY <1>4

\* A lifecycle event is counted in the load.
LEMMA ReserveOneMore ==
    ASSUME ObInv, ObInv', ObReserve, Quietly \/ WithOneMore, ObWindow', refused' = refused,
           Producing' => Producing /\ Load + 1 <= Load'
    PROVE  ObReserve'
  <1>. SUFFICES ASSUME Producing' PROVE Within(Net, Lifecycles, Load)'
    BY DEF ObReserve
  <1>1. Within(Net, Lifecycles, Load) /\ Load + 1 <= Load'
    BY DEF ObReserve
  <1>2. /\ Net \in Nat /\ Lifecycles \in Nat /\ Load \in Nat /\ Net' \in Nat /\ Lifecycles' \in Nat
        /\ Load' \in Nat
    BY Held, HeldNext DEF HeldNaturals
  <1>3. CASE Quietly
    <2>1. (Net' <= Net \/ Net' <= Soft) /\ Lifecycles' <= Lifecycles
      BY <1>3 DEF Quietly
    <2>2. Load <= Load'
      BY <1>1, <1>2
    <2>3. Within(Net', Lifecycles', Load')
      BY <1>1, <1>2, <2>1, <2>2, WithinQuietly
    <2>. QED  BY <2>3
  <1>4. CASE WithOneMore
    <2>1. Net' <= Net + EventMax /\ Lifecycles' <= Lifecycles + 1
      BY <1>4 DEF WithOneMore
    <2>2. Within(Net', Lifecycles', Load')
      BY <1>1, <1>2, <2>1, WithinOneMore
    <2>. QED  BY <2>2
  <1>. QED  BY <1>3, <1>4


\* A step that touches neither the request nor the failure window.
LEMMA ReserveFrame ==
    ASSUME ObInv, ObInv', ObReserve, Quietly, stopping => stopping',
           UNCHANGED <<host, extra, windowErrors, storageFailed, refused>>
    PROVE  ObReserve'
  <1>1. ObWindow'
    BY DEF ObReserve, ObWindow
  <1>2. Producing' = Producing /\ Load' = Load /\ Load \in Nat
    BY LoadTyped DEF Producing, Load
  <1>. QED  BY <1>1, <1>2, ReserveQuietly

\* A step after which consume() publishes nothing more.
LEMMA ReserveLeft ==
    ASSUME ObReserve, ObWindow', ~Producing', refused' = refused
    PROVE  ObReserve'
  BY DEF ObReserve

\* What the request in hand has published fits beside one more event.
LEMMA RoomForOneMore ==
    ASSUME LifecycleSlots >= MaxWindowErrors + 4, ObInv, ObReserve, Producing, NEW b \in Sizes
    PROVE  Admission("lifecycle", "-", b) # "refused"
  <1>1. Load \in Nat /\ Load <= 3 + windowErrors /\ windowErrors \in Nat
    BY LoadTyped DEF Load
  <1>2. windowErrors <= MaxWindowErrors /\ MaxWindowErrors \in Nat /\ LifecycleSlots \in Nat
    BY OutboxConstants DEF ObReserve, ObWindow
  <1>3. Load + 1 <= LifecycleSlots
    BY <1>1, <1>2
  <1>4. Within(Net, Lifecycles, Load)
    BY DEF ObReserve
  <1>. QED  BY <1>1, <1>3, <1>4, LifecycleFits

\* wait_for_admission() ends with nothing held.
LEMMA NothingHeld ==
    ASSUME ObInv, queue = <<>>, wire = <<>>
    PROVE  Net = 0 /\ Lifecycles = 0
  <1>1. Accounted(queue, used, count, sequence)
    BY DEF ObInv, ObLedger
  <1>2. Len(queue) = 0 /\ queue \in Seq(Entry)
    BY <1>1 DEF Accounted
  <1>3. SizesOf(queue) = <<>>
    <2>1. SizesOf(queue) \in Seq(Nat) /\ Len(SizesOf(queue)) = 0
      BY <1>2, SizesTyped
    <2>. QED  BY <2>1
  <1>4. used = 0 /\ Bytes(wire) = 0
    BY <1>1, <1>3, BytesEmpty DEF Accounted
  <1>5. Lifecycles = 0
    <2>1. OfKind(queue, "lifecycle") = {} /\ "lifecycle" \in Kinds
      BY <1>2 DEF OfKind, Kinds
    <2>2. Lifecycles = Cardinality(OfKind(queue, "lifecycle"))
      BY <1>1, <2>1 DEF Accounted, Lifecycles
    <2>. QED  BY <2>1, <2>2, FS_EmptySet
  <1>6. Doubled = 0
    BY <1>4, HeldTyped
  <1>. QED  BY <1>4, <1>5, <1>6 DEF Net

LEMMA InitReserve == Init => ObReserve
  <1>. SUFFICES ASSUME Init PROVE ObReserve
    OBVIOUS
  <1>1. ObWindow /\ refused = FALSE /\ Load = 0
    BY OutboxConstants DEF Init, ObWindow, Load
  <1>2. Net = 0 /\ Lifecycles = 0
    BY InitOb, NothingHeld DEF Init
  <1>3. Within(0, 0, 0)
    BY ConstantsTyped DEF Within
  <1>. QED  BY <1>1, <1>2, <1>3 DEF ObReserve

LEMMA SilentReserve == ObInv /\ ObReserve /\ Silent => ObReserve'
  <1>. SUFFICES ASSUME ObInv, ObReserve, Silent PROVE ObReserve'
    OBVIOUS
  <1>1. ObInv' /\ Quietly
    BY SilentOb
  <1>2. CASE Payload \/ NextThrows \/ CloseOutbox \/ Gone
    <2>1. ObWindow' /\ ~Producing' /\ refused' = refused
      BY <1>2 DEF Payload, NextThrows, CloseOutbox, Gone, ObReserve, ObWindow, Producing
    <2>. QED  BY <2>1, ReserveLeft
  <1>3. CASE Shutdown \/ Deadline
    <2>1. /\ stopping => stopping'
          /\ UNCHANGED <<host, extra, windowErrors, storageFailed, refused>>
      BY <1>3 DEF Shutdown, Deadline, producer
    <2>. QED  BY <1>1, <2>1, ReserveFrame
  <1>4. CASE StorageFails
    <2>1. /\ host = "run" /\ host' = "failing" /\ storageFailed' = TRUE
          /\ UNCHANGED <<extra, windowErrors, refused>>
      BY <1>4 DEF StorageFails
    <2>2. ObWindow' /\ Producing /\ Load' = Load /\ Load \in Nat
      BY <2>1, LoadTyped DEF ObReserve, ObWindow, Producing, Load
    <2>. QED  BY <1>1, <2>1, <2>2, ReserveQuietly
  <1>5. CASE WaitOver /\ stopping
    <2>1. ObWindow' /\ ~Producing' /\ refused' = refused
      BY <1>5 DEF WaitOver, ObReserve, ObWindow, Producing
    <2>. QED  BY <2>1, ReserveLeft
  <1>6. CASE WaitOver /\ ~stopping
    <2>1. /\ host = "waiting" /\ host' = "admit" /\ queue = <<>> /\ wire = <<>>
          /\ UNCHANGED <<queue, used, count, wire, sender, windowErrors, storageFailed, stopping,
                         refused>>
      BY <1>6 DEF WaitOver, ledger, transport
    <2>2. Net = 0 /\ Lifecycles = 0
      BY <2>1, NothingHeld
    <2>3. Net' = Net /\ Lifecycles' = Lifecycles
      BY <2>1 DEF Net, Lifecycles, Doubled
    <2>4. ObWindow' /\ refused' = FALSE /\ Load' = 0
      BY <2>1 DEF ObReserve, ObWindow, Load
    <2>5. Within(0, 0, 0)
      BY ConstantsTyped DEF Within
    <2>6. Within(Net', Lifecycles', Load')
      BY <2>2, <2>3, <2>4, <2>5
    <2>. QED  BY <2>4, <2>6 DEF ObReserve
  <1>. QED  BY <1>2, <1>3, <1>4, <1>5, <1>6 DEF Silent

\* An event of consume(): admitted, or the outbox is closed and consume() ends.
LEMMA LifecycleReserve ==
    ASSUME LifecycleSlots >= MaxWindowErrors + 4, ObInv, ObInv', ObReserve, Quietly \/ WithOneMore,
           NEW b \in Sizes, NEW from \in {"boot", "admit", "started", "run"}, NEW to, NEW settlement,
           Lifecycle(from, to, b, settlement), UNCHANGED <<windowErrors, storageFailed>>,
           to \in {"next", "ended", "started", "run"},
           host' = to => (Producing' => Load + 1 <= Load')
    PROVE  ObReserve'
  <1>1. host = from /\ Producing
    BY DEF Lifecycle, Producing
  <1>2. Admission("lifecycle", "-", b) # "refused"
    BY <1>1, RoomForOneMore
  <1>3. (host' = to \/ host' = "ended") /\ UNCHANGED <<refused, stopping>>
    BY <1>2 DEF Lifecycle
  <1>4. ~storageFailed
    BY <1>1 DEF ObReserve, ObWindow
  <1>5. ObWindow'
    BY <1>3, <1>4 DEF ObReserve, ObWindow
  <1>6. CASE host' = to
    BY <1>1, <1>3, <1>5, <1>6, ReserveOneMore
  <1>7. CASE host' = "ended"
    <2>1. ~Producing'
      BY <1>7 DEF Producing
    <2>. QED  BY <1>3, <1>5, <2>1, ReserveLeft
  <1>. QED  BY <1>3, <1>6, <1>7

LEMMA ProducedReserve ==
    ASSUME LifecycleSlots >= MaxWindowErrors + 4, ObInv, ObReserve, NEW b \in Sizes,
           \/ Ready(b) \/ InputAdmitted(b) \/ RunStarted(b) \/ RunFinished(b)
           \/ RunMilestone(b) \/ TerminalError(b)
    PROVE  ObReserve'
  <1>0. ObInv' /\ (Quietly \/ WithOneMore)
    BY ProducedOb
  <1>t. Load \in Nat /\ windowErrors \in Nat
    BY LoadTyped
  <1>1. CASE Ready(b)
    <2>1. Lifecycle("boot", "next", b, FALSE) /\ UNCHANGED <<windowErrors, storageFailed>>
      BY <1>1 DEF Ready, untouched
    <2>2. host' = "next" => ~Producing'
      BY DEF Producing
    <2>. QED  BY <1>0, <2>1, <2>2, LifecycleReserve
  <1>2. CASE InputAdmitted(b)
    <2>1. Lifecycle("admit", "started", b, FALSE) /\ UNCHANGED <<windowErrors, storageFailed>>
      BY <1>2 DEF InputAdmitted, untouched
    <2>2. host' = "started" => Load + 1 <= Load'
      BY <2>1 DEF Load, Lifecycle
    <2>. QED  BY <1>0, <2>1, <2>2, LifecycleReserve
  <1>3. CASE RunStarted(b)
    <2>1. Lifecycle("started", "run", b, FALSE) /\ UNCHANGED <<windowErrors, storageFailed>>
      BY <1>3 DEF RunStarted, untouched
    <2>2. host = "started"
      BY <2>1 DEF Lifecycle
    <2>3. host' = "run" => Load + 1 <= Load'
      BY <1>t, <2>1, <2>2 DEF Load
    <2>. QED  BY <1>0, <2>1, <2>3, LifecycleReserve
  <1>4. CASE RunFinished(b)
    <2>. DEFINE to == IF stopping THEN "ended" ELSE "next"
    <2>1. Lifecycle("run", to, b, TRUE) /\ UNCHANGED <<windowErrors,
                                                       storageFailed>> /\ to \in {"ended", "next"}
      BY <1>4 DEF RunFinished, untouched
    <2>2. host' = to => ~Producing'
      BY DEF Producing
    <2>. HIDE DEF to
    <2>. QED  BY <1>0, <2>1, <2>2, LifecycleReserve
  <1>5. CASE RunMilestone(b)
    <2>1. /\ host = "run" /\ extra = FALSE /\ extra' = TRUE
          /\ UNCHANGED <<host, windowErrors, storageFailed, stopping>>
          /\ refused' = (refused \/ Admission("lifecycle", "-", b) = "refused")
      BY <1>5 DEF RunMilestone, ObInv, ObTypes
    <2>2. Producing /\ ObWindow'
      BY <2>1 DEF ObReserve, ObWindow, Producing
    <2>3. refused' = refused
      BY <2>1, <2>2, RoomForOneMore DEF ObReserve
    <2>4. Load + 1 <= Load'
      BY <1>t, <2>1 DEF Load
    <2>. QED  BY <1>0, <2>2, <2>3, <2>4, ReserveOneMore
  <1>6. CASE TerminalError(b)
    <2>1. /\ host = "failing" /\ host' = "ended" /\ stopping' = TRUE
          /\ UNCHANGED <<windowErrors, storageFailed>>
          /\ refused' = (refused \/ Admission("lifecycle", "-", b) = "refused")
      BY <1>6 DEF TerminalError
    <2>2. Producing /\ ObWindow' /\ ~Producing'
      BY <2>1 DEF ObReserve, ObWindow, Producing
    <2>3. refused' = refused
      BY <2>1, <2>2, RoomForOneMore DEF ObReserve
    <2>. QED  BY <2>2, <2>3, ReserveLeft
  <1>. QED  BY <1>1, <1>2, <1>3, <1>4, <1>5, <1>6

LEMMA ControlErrorReserve ==
    ASSUME LifecycleSlots >= MaxWindowErrors + 4, ObInv, ObReserve, NEW b \in Sizes, NEW n \in Names,
           ControlError(n, b)
    PROVE  ObReserve'
  <1>0. ObInv' /\ (Quietly \/ WithOneMore) /\ (~storageFailed => Quietly)
    BY ControlErrorOb
  <1>1. CASE ~storageFailed
    <2>1. UNCHANGED <<host, extra, windowErrors, storageFailed, stopping, refused>>
      BY <1>1 DEF ControlError
    <2>. QED  BY <1>0, <1>1, <2>1, ReserveFrame
  <1>2. CASE storageFailed
    <2>1. /\ ~stopping /\ UNCHANGED <<host, extra, storageFailed>>
          /\ windowErrors < MaxWindowErrors /\ windowErrors' = windowErrors + 1
          /\ \/ Admission("lifecycle", "-", b) = "refused"
             \/ UNCHANGED <<refused, stopping>>
      BY <1>2, Zenon DEF ControlError
    <2>2. host = "failing" /\ Producing
      BY <1>2, <2>1 DEF ObReserve, ObWindow, Producing
    <2>3. UNCHANGED <<refused, stopping>>
      BY <2>1, <2>2, RoomForOneMore
    <2>4. windowErrors \in Nat /\ MaxWindowErrors \in Nat
      BY LoadTyped, OutboxConstants
    <2>5. ObWindow'
      BY <1>2, <2>1, <2>2, <2>4 DEF ObReserve, ObWindow
    <2>6. Load + 1 <= Load'
      BY <2>1, <2>2, <2>4 DEF Load
    <2>. QED  BY <1>0, <2>2, <2>3, <2>5, <2>6, ReserveOneMore
  <1>. QED  BY <1>1, <1>2

LEMMA NextReserve ==
    ASSUME LifecycleSlots >= MaxWindowErrors + 4
    PROVE  ObInv /\ ObReserve /\ [Next]_vars => ObReserve'
  <1>. SUFFICES ASSUME ObInv, ObReserve, [Next]_vars PROVE ObReserve'
    OBVIOUS
  <1>0. ObInv'
    BY NextOb
  <1>1. CASE UNCHANGED vars
    <2>1. UNCHANGED <<host, extra, windowErrors, storageFailed, refused, stopping>> /\ Net' = Net
          /\ Lifecycles' = Lifecycles
      BY <1>1 DEF vars, ledger, transport, producer, Net, Doubled, Lifecycles
    <2>2. Quietly
      BY <2>1, HeldTyped DEF Quietly
    <2>. QED  BY <1>0, <2>1, <2>2, ReserveFrame
  <1>2. CASE Sending \/ Written \/ TransportFails
    <2>1. Quietly
      BY <1>2, BeginSendOb, EnqueueOb, SentOb, SendThrowsOb, SenderReturnsOb, WrittenOb,
      TransportFailsOb DEF Sending
    <2>2. UNCHANGED <<host, extra, windowErrors, storageFailed,
                      refused>> /\ (stopping => stopping')
      BY <1>2 DEF Sending, BeginSend, Enqueue, Sent, SendThrows, SenderReturns, Written,
      TransportFails,
                  Fail, producer
    <2>. QED  BY <1>0, <2>1, <2>2, ReserveFrame
  <1>3. CASE Noise
    <2>1. ASSUME NEW b \in Sizes, RunEvent(b) \/ Query(b) \/ Feedback(b) \/ \E n \in Names : Control(n, b)
          PROVE  ObReserve'
      <3>1. Quietly
        BY <2>1, RunEventOb, QueryOb, FeedbackOb, ControlOb
      <3>2. UNCHANGED <<host, extra, windowErrors, storageFailed, refused, stopping>>
        BY <2>1 DEF RunEvent, Query, Feedback, Control, quiet
      <3>. QED  BY <1>0, <3>1, <3>2, ReserveFrame
    <2>. QED  BY <1>3, <2>1, ControlErrorReserve DEF Noise
  <1>4. CASE Silent
    BY <1>4, SilentReserve
  <1>5. ASSUME NEW b \in Sizes, Rejected(b) PROVE ObReserve'
    <2>1. ObWindow' /\ ~Producing' /\ refused' = refused
      BY <1>5 DEF Rejected, ObReserve, ObWindow, Producing
    <2>. QED  BY <2>1, ReserveLeft
  <1>6. ASSUME NEW b \in Sizes,
               \/ Ready(b) \/ InputAdmitted(b) \/ RunStarted(b) \/ RunFinished(b)
               \/ RunMilestone(b) \/ TerminalError(b)
        PROVE  ObReserve'
    BY <1>6, ProducedReserve
  <1>. QED  BY <1>1, <1>2, <1>3, <1>4, <1>5, <1>6 DEF Next, Admitting, Ending, Silent

OutboxAccounts == OutboxTypeOK /\ LedgerAgrees /\ SendsFit /\ SequenceUnbroken

\* For every capacity, byte budget and event size: the byte and slot counters agree
\* with the queue whatever was replaced, sent, lost or closed, no send exceeds the
\* transport, the numbers leave no gap and what is being sent is not edited
\* (core/event_outbox.hpp, send_events()).
THEOREM OutboxAlwaysAccounts ==
    HostSpec => [](part = "outbox" => OutboxAccounts) /\ InFlightFrozen
  <1>. DEFINE Inv == part = "outbox" => ObInv
              Sound == part = "outbox" => OutboxAccounts
  <1>1. HostInit => Inv
    BY InitOb DEF HostInit
  <1>2. Inv /\ [HostNext]_HostVars => Inv' /\ [FrozenStep]_vars
    <2>. SUFFICES ASSUME Inv, [HostNext]_HostVars PROVE Inv' /\ [FrozenStep]_vars
      OBVIOUS
    <2>1. CASE part = "outbox"
      <3>1. [Next]_vars /\ part' = part
        BY <2>1 DEF HostNext, HostVars, Others
      <3>. QED  BY <2>1, <3>1, NextOb
    <2>2. CASE part # "outbox"
      <3>1. part' = part /\ UNCHANGED vars
        BY <2>2 DEF HostNext, HostVars, Others
      <3>. QED  BY <2>2, <3>1
    <2>. QED  BY <2>1, <2>2
  <1>3. Inv => Sound
    BY ObInvAgrees DEF OutboxAccounts
  <1>. HIDE DEF Inv, Sound
  <1>4. HostSpec => []Sound /\ [][FrozenStep]_vars
    BY <1>1, <1>2, <1>3, PTL DEF HostSpec
  <1>. QED
    BY <1>4 DEF InFlightFrozen, FrozenStep, Sound

\* The reserve is enough: with a slot for each of the four lifecycle events of a
\* request and for every malformed signal that a commit failure can be met with,
\* an open outbox never refuses an event the transcript must retain (publish()).
\* Run outbox_error_flood shows that with fewer slots it may.
THEOREM OutboxAlwaysKeepsAccounts ==
    ASSUME LifecycleSlots >= MaxWindowErrors + 4
    PROVE  HostSpec => OutboxKeepsAccounts
  <1>. DEFINE Inv == part = "outbox" => ObInv /\ ObReserve
              Sound == part = "outbox" => /\ OutboxTypeOK /\ LedgerAgrees /\ LifecycleAdmitted
                                          /\ SendsFit /\ SequenceUnbroken
  <1>1. HostInit => Inv
    BY InitOb, InitReserve DEF HostInit
  <1>2. Inv /\ [HostNext]_HostVars => Inv' /\ [FrozenStep]_vars
    <2>. SUFFICES ASSUME Inv, [HostNext]_HostVars PROVE Inv' /\ [FrozenStep]_vars
      OBVIOUS
    <2>1. CASE part = "outbox"
      <3>1. [Next]_vars /\ part' = part
        BY <2>1 DEF HostNext, HostVars, Others
      <3>. QED  BY <2>1, <3>1, NextOb, NextReserve
    <2>2. CASE part # "outbox"
      <3>1. part' = part /\ UNCHANGED vars
        BY <2>2 DEF HostNext, HostVars, Others
      <3>. QED  BY <2>2, <3>1
    <2>. QED  BY <2>1, <2>2
  <1>3. Inv => Sound
    BY ObInvAgrees DEF ObReserve, LifecycleAdmitted
  <1>. HIDE DEF Inv, Sound
  <1>4. HostSpec => []Sound /\ [][FrozenStep]_vars
    BY <1>1, <1>2, <1>3, PTL DEF HostSpec
  <1>. QED
    BY <1>4 DEF OutboxKeepsAccounts, InFlightFrozen, FrozenStep, Sound

(***************************************************************************)
(* Tool calls.  The table is an index of the listed sets: a name leads to  *)
(* the one listed set that offers it.  A call that is not answered has no  *)
(* foreign call to its name yet, and one that is has the record its own    *)
(* code led to; what is in flight was settled, and a serial call is alone. *)
(***************************************************************************)
Offers(s) == Range(SupportedNames(s))
Distinct(s) == \A i, j \in DOMAIN SupportedNames(s) : i # j => SupportedNames(s)[i] # SupportedNames(s)[j]

TcRoutes ==
    /\ tcList \in Seq(DOMAIN ToolSets)
    /\ \A k, l \in DOMAIN tcList : tcList[k] = tcList[l] => k = l
    /\ \A k \in DOMAIN tcList : Distinct(tcList[k])
    /\ \A k \in DOMAIN tcList : \A n \in Offers(tcList[k]) : n \in DOMAIN tcTable /\ tcTable[n] = tcList[k]
    /\ \A n \in DOMAIN tcTable : \E k \in DOMAIN tcList : tcTable[n] = tcList[k] /\ n \in Offers(tcList[k])

Queries == [id : STRING, name : STRING, args : {"object", "null", "array"},
            value : {"good", "bad", "null", "absent"}, type : Types \cup {"raw"}]
CallPlaces == {"new", "settled", "checking", "invoking", "answered"}

TcTypes ==
    /\ tcCalls \in [DOMAIN tcCalls -> Queries]
    /\ tcAt \in [DOMAIN tcCalls -> CallPlaces]
    /\ DOMAIN tcRecords = DOMAIN tcCalls
    /\ DOMAIN tcCauses = DOMAIN tcCalls

TcFiled ==
    \A i \in DOMAIN tcCalls :
        /\ tcAt[i] = "answered" => tcRecords[i].id = tcCalls[i].id /\ tcRecords[i].cause = tcCauses[i]
        /\ tcAt[i] # "answered" => tcCauses[i] = ""

TcAlone ==
    \A i, j \in InFlight : i # j => MayRunInParallel(tcCalls[i].type) /\ MayRunInParallel(tcCalls[j].type)

TcInv == TcRoutes /\ TcTypes /\ TcFiled /\ TcAlone /\ SettledComplete /\ RecordsAnswerCalls

LEMMA RemoveAtIs ==
    ASSUME NEW S, NEW s \in Seq(S), NEW k \in 1 .. Len(s)
    PROVE  /\ RemoveAt(s, k) \in Seq(S)
           /\ Len(RemoveAt(s, k)) = Len(s) - 1
           /\ \A j \in 1 .. Len(s) - 1 : RemoveAt(s, k)[j] = IF j < k THEN s[j] ELSE s[j + 1]
  <1>. DEFINE a == SubSeq(s, 1, k - 1)
              b == SubSeq(s, k + 1, Len(s))
  <1>0. Len(s) \in Nat /\ k \in Nat /\ k >= 1 /\ k <= Len(s)
    OBVIOUS
  <1>1. a \in Seq(S) /\ Len(a) = k - 1 /\ \A j \in 1 .. k - 1 : a[j] = s[j]
    BY <1>0
  <1>2. b \in Seq(S) /\ Len(b) = Len(s) - k /\ \A j \in 1 .. Len(s) - k : b[j] = s[k + j]
    BY <1>0
  <1>3. RemoveAt(s, k) = a \o b
    BY DEF RemoveAt
  <1>. HIDE DEF a, b
  <1>a. /\ a \o b \in Seq(S) /\ Len(a \o b) = Len(a) + Len(b)
        /\ \A i \in 1 .. Len(a) + Len(b) : (a \o b)[i] = IF i <= Len(a) THEN a[i] ELSE b[i - Len(a)]
    BY <1>1, <1>2, ConcatProperties, Zenon
  <1>4. a \o b \in Seq(S) /\ Len(a \o b) = Len(s) - 1
    BY <1>0, <1>1, <1>2, <1>a
  <1>5. ASSUME NEW j \in 1 .. Len(s) - 1
        PROVE (a \o b)[j] = IF j < k THEN s[j] ELSE s[j + 1]
    <2>1. CASE j < k
      BY <1>0, <1>1, <1>2, <2>1
    <2>2. CASE ~(j < k)
      <3>1. j - (k - 1) \in 1 .. Len(s) - k /\ k + (j - (k - 1)) = j + 1
        BY <1>0, <2>2
      <3>2. (a \o b)[j] = b[j - (k - 1)]
        BY <1>0, <1>1, <1>2, <2>2
      <3>. QED  BY <1>2, <2>2, <3>1, <3>2
    <2>. QED  BY <2>1, <2>2
  <1>. QED  BY <1>3, <1>4, <1>5

LEMMA InitTc == TcInit => TcInv
  <1>. SUFFICES ASSUME TcInit PROVE TcInv
    OBVIOUS
  <1>1. TcRoutes
    BY DEF TcInit, TcRoutes, NoTable
  <1>2. TcTypes /\ TcFiled /\ SettledComplete /\ RecordsAnswerCalls
    BY DEF TcInit, TcTypes, TcFiled, SettledComplete, RecordsAnswerCalls
  <1>3. TcAlone
    BY DEF TcInit, TcAlone, InFlight
  <1>. QED  BY <1>1, <1>2, <1>3 DEF TcInv

LEMMA AddSetTc ==
    ASSUME TcInv, NEW s \in DOMAIN ToolSets, AddSet(s)
    PROVE  TcRoutes'
  <1>1. Distinct(s) /\ \A n \in Offers(s) : n \notin DOMAIN tcTable
    BY Zenon DEF AddSet, Admissible, Distinct, Offers, Range
  <1>2. DOMAIN tcTable' = DOMAIN tcTable \cup Offers(s)
    BY DEF AddSet, Offers
  <1>3. \A n \in DOMAIN tcTable : tcTable'[n] = tcTable[n]
    BY DEF AddSet
  <1>4. \A n \in Offers(s) : tcTable'[n] = s
    BY <1>1 DEF AddSet, Offers
  <1>5. tcList \in Seq(DOMAIN ToolSets) /\ tcList' = Append(tcList, s) /\ Len(tcList) \in Nat
    BY DEF TcInv, TcRoutes, AddSet
  <1>6. /\ tcList' \in Seq(DOMAIN ToolSets) /\ DOMAIN tcList = 1 .. Len(tcList)
        /\ DOMAIN tcList' = 1 .. Len(tcList) + 1
        /\ tcList'[Len(tcList) + 1] = s
        /\ \A k \in DOMAIN tcList : k \in DOMAIN tcList' /\ tcList'[k] = tcList[k]
    BY <1>5
  <1>7. \A k \in DOMAIN tcList' : k \in DOMAIN tcList \/ k = Len(tcList) + 1
    BY <1>5, <1>6
  <1>8. \A k \in DOMAIN tcList : tcList[k] # s
    BY DEF AddSet, Range
  <1>9. \A k, l \in DOMAIN tcList' : tcList'[k] = tcList'[l] => k = l
    BY <1>6, <1>7, <1>8 DEF TcInv, TcRoutes
  <1>10. \A k \in DOMAIN tcList' : Distinct(tcList'[k])
    BY <1>1, <1>6, <1>7 DEF TcInv, TcRoutes
  <1>11. \A k \in DOMAIN tcList' : \A n \in Offers(tcList'[k]) : n \in DOMAIN tcTable' /\ tcTable'[n] = tcList'[k]
    BY <1>2, <1>3, <1>4, <1>6, <1>7 DEF TcInv, TcRoutes
  <1>12. \A n \in DOMAIN tcTable' : \E k \in DOMAIN tcList' : tcTable'[n] = tcList'[k] /\ n \in Offers(tcList'[k])
    <2>. SUFFICES ASSUME NEW n \in DOMAIN tcTable'
                  PROVE \E k \in DOMAIN tcList' : tcTable'[n] = tcList'[k] /\ n \in Offers(tcList'[k])
      OBVIOUS
    <2>1. CASE n \in DOMAIN tcTable
      <3>1. PICK k \in DOMAIN tcList : tcTable[n] = tcList[k] /\ n \in Offers(tcList[k])
        BY <2>1 DEF TcInv, TcRoutes
      <3>. QED  BY <1>3, <1>6, <2>1, <3>1
    <2>2. CASE n \in Offers(s)
      <3>1. Len(tcList) + 1 \in DOMAIN tcList'
        BY <1>5, <1>6
      <3>. QED  BY <1>4, <1>6, <2>2, <3>1
    <2>. QED  BY <1>2, <2>1, <2>2
  <1>. QED
    BY <1>6, <1>9, <1>10, <1>11, <1>12 DEF TcRoutes, Distinct, Offers, SupportedNames, GetTools

LEMMA RemoveSetTc ==
    ASSUME TcInv, NEW name \in DOMAIN tcTable, RemoveSet(name)
    PROVE  TcRoutes'
  <1>1. PICK g \in DOMAIN tcList : tcList[g] = tcTable[name] /\ tcList' = RemoveAt(tcList, g)
    BY DEF RemoveSet
  <1>2. tcList \in Seq(DOMAIN ToolSets) /\ Len(tcList) \in Nat /\ DOMAIN tcList = 1 .. Len(tcList)
    BY DEF TcInv, TcRoutes
  <1>3. /\ tcList' \in Seq(DOMAIN ToolSets) /\ Len(tcList') = Len(tcList) - 1
        /\ \A j \in 1 .. Len(tcList) - 1 : tcList'[j] = IF j < g THEN tcList[j] ELSE tcList[j + 1]
    <2>1. g \in 1 .. Len(tcList)
      BY <1>2
    <2>2. /\ RemoveAt(tcList, g) \in Seq(DOMAIN ToolSets)
          /\ Len(RemoveAt(tcList, g)) = Len(tcList) - 1
          /\ \A j \in 1 .. Len(tcList) - 1 :
                 RemoveAt(tcList, g)[j] = IF j < g THEN tcList[j] ELSE tcList[j + 1]
      BY <1>2, <2>1, RemoveAtIs, Zenon
    <2>. QED  BY <1>1, <2>2, Zenon
  <1>4. DOMAIN tcList' = 1 .. Len(tcList) - 1
    BY <1>3
  <1>. DEFINE Old(j) == IF j < g THEN j ELSE j + 1
  <1>5. \A j \in DOMAIN tcList' : Old(j) \in DOMAIN tcList \ {g} /\ tcList'[j] = tcList[Old(j)]
    BY <1>1, <1>2, <1>3, <1>4
  <1>6. \A j, m \in DOMAIN tcList' : Old(j) = Old(m) => j = m
    BY <1>1, <1>2, <1>4
  <1>7. \A k \in DOMAIN tcList \ {g} : \E j \in DOMAIN tcList' : Old(j) = k
    <2>. SUFFICES ASSUME NEW k \in DOMAIN tcList, k # g PROVE \E j \in DOMAIN tcList' : Old(j) = k
      OBVIOUS
    <2>1. CASE k < g
      <3>1. k \in DOMAIN tcList' /\ Old(k) = k
        BY <1>1, <1>2, <1>4, <2>1
      <3>. QED  BY <3>1
    <2>2. CASE ~(k < g)
      <3>1. k - 1 \in DOMAIN tcList' /\ Old(k - 1) = k
        BY <1>1, <1>2, <1>4, <2>2
      <3>. QED  BY <3>1
    <2>. QED  BY <2>1, <2>2
  <1>. HIDE DEF Old
  <1>8. /\ DOMAIN tcTable' = {n \in DOMAIN tcTable : tcTable[n] # tcList[g]}
        /\ \A n \in DOMAIN tcTable' : tcTable'[n] = tcTable[n]
    BY <1>1 DEF RemoveSet, Untabled
  <1>9. \A k, l \in DOMAIN tcList : tcList[k] = tcList[l] => k = l
    BY DEF TcInv, TcRoutes
  <1>10. \A k, l \in DOMAIN tcList' : tcList'[k] = tcList'[l] => k = l
    BY <1>5, <1>6, <1>9
  <1>11. \A k \in DOMAIN tcList' : Distinct(tcList'[k])
    BY <1>5 DEF TcInv, TcRoutes
  <1>12. \A k \in DOMAIN tcList' : \A n \in Offers(tcList'[k]) : n \in DOMAIN tcTable' /\ tcTable'[n] = tcList'[k]
    <2>. SUFFICES ASSUME NEW k \in DOMAIN tcList', NEW n \in Offers(tcList'[k])
                  PROVE n \in DOMAIN tcTable' /\ tcTable'[n] = tcList'[k]
      OBVIOUS
    <2>1. n \in DOMAIN tcTable /\ tcTable[n] = tcList[Old(k)]
      BY <1>5 DEF TcInv, TcRoutes
    <2>2. tcList[Old(k)] # tcList[g]
      BY <1>1, <1>5, <1>9
    <2>. QED  BY <1>5, <1>8, <2>1, <2>2
  <1>13. \A n \in DOMAIN tcTable' : \E k \in DOMAIN tcList' : tcTable'[n] = tcList'[k] /\ n \in Offers(tcList'[k])
    <2>. SUFFICES ASSUME NEW n \in DOMAIN tcTable'
                  PROVE \E k \in DOMAIN tcList' : tcTable'[n] = tcList'[k] /\ n \in Offers(tcList'[k])
      OBVIOUS
    <2>1. PICK k \in DOMAIN tcList : tcTable[n] = tcList[k] /\ n \in Offers(tcList[k])
      BY <1>8 DEF TcInv, TcRoutes
    <2>2. k # g
      BY <1>8, <2>1
    <2>3. PICK j \in DOMAIN tcList' : Old(j) = k
      BY <1>7, <2>2
    <2>. QED  BY <1>5, <1>8, <2>1, <2>3
  <1>. QED
    BY <1>3, <1>10, <1>11, <1>12, <1>13 DEF TcRoutes, Distinct, Offers, SupportedNames, GetTools

LEMMA RegistryTc ==
    ASSUME TcInv, NoBatch, KeepBatch, TcRoutes'
    PROVE  TcInv'
  <1>1. TcTypes' /\ TcFiled' /\ SettledComplete' /\ RecordsAnswerCalls'
    <2>1. TcTypes'
      BY DEF TcInv, KeepBatch, TcTypes
    <2>2. TcFiled'
      BY Zenon DEF TcInv, KeepBatch, TcFiled
    <2>3. SettledComplete' /\ RecordsAnswerCalls'
      BY DEF TcInv, NoBatch, KeepBatch, SettledComplete, RecordsAnswerCalls
    <2>. QED  BY <2>1, <2>2, <2>3
  <1>2. TcAlone'
    BY DEF TcInv, KeepBatch, TcAlone, InFlight, MayRunInParallel
  <1>. QED  BY <1>1, <1>2 DEF TcInv

\* What a step of a call leaves alone.
LEMMA TableTc ==
    ASSUME TcInv, KeepTable
    PROVE  TcRoutes' /\ RecordsAnswerCalls'
  <1>1. TcRoutes'
    BY DEF TcInv, KeepTable, TcRoutes, Distinct, Offers, SupportedNames, GetTools
  <1>2. RecordsAnswerCalls'
    BY DEF TcInv, KeepTable, RecordsAnswerCalls
  <1>. QED  BY <1>1, <1>2

LEMMA BeginBatchTc ==
    ASSUME TcInv, BeginBatch
    PROVE  TcInv'
  <1>1. PICK batch \in Batches :
          /\ tcCalls' = [i \in DOMAIN batch |->
                [id |-> batch[i].id, name |-> batch[i].name, args |-> batch[i].args,
                 value |-> batch[i].value, type |-> "raw"]]
          /\ tcAt' = [i \in DOMAIN batch |-> "new"]
          /\ tcRecords' = [i \in DOMAIN batch |-> Unfiled]
          /\ tcCauses' = [i \in DOMAIN batch |-> ""]
    BY Zenon DEF BeginBatch
  <1>2. \A i \in DOMAIN batch : batch[i] \in [id : STRING, name : STRING, args : {"object", "null", "array"},
                                             value : {"good", "bad", "null", "absent"}]
    <2>. DEFINE Wanted == [id : STRING, name : STRING, args : {"object", "null", "array"},
                          value : {"good", "bad", "null", "absent"}]
    <2>1. batch \in Seq(Wanted)
      BY ToolCallBounds, Zenon
    <2>. HIDE DEF Wanted
    <2>2. \A i \in DOMAIN batch : batch[i] \in Wanted
      BY <2>1
    <2>. QED  BY <2>2, Zenon DEF Wanted
  <1>3. /\ DOMAIN tcCalls' = DOMAIN batch /\ DOMAIN tcAt' = DOMAIN batch
        /\ DOMAIN tcRecords' = DOMAIN batch /\ DOMAIN tcCauses' = DOMAIN batch
    BY <1>1, Zenon
  <1>4. tcCalls' \in [DOMAIN batch -> Queries]
    <2>1. \A i \in DOMAIN batch : [id |-> batch[i].id, name |-> batch[i].name, args |-> batch[i].args,
                 value |-> batch[i].value, type |-> "raw"] \in Queries
      BY <1>2 DEF Queries
    <2>. QED  BY <1>1, <2>1, Zenon
  <1>5. tcAt' \in [DOMAIN batch -> CallPlaces] /\ \A i \in DOMAIN batch : tcAt'[i] = "new"
    <2>1. "new" \in CallPlaces
      BY DEF CallPlaces
    <2>. QED  BY <1>1, <2>1, Zenon
  <1>6. TcTypes'
    BY <1>3, <1>4, <1>5 DEF TcTypes
  <1>7. TcFiled'
    <2>1. \A i \in DOMAIN batch : tcCauses'[i] = ""
      BY <1>1, Zenon
    <2>2. \A i \in DOMAIN batch : ~(tcAt'[i] = "answered")
      BY <1>5
    <2>. QED  BY <1>3, <2>1, <2>2, Zenon DEF TcFiled
  <1>8. TcAlone' /\ SettledComplete'
    BY <1>3, <1>5 DEF TcAlone, InFlight, SettledComplete
  <1>9. RecordsAnswerCalls'
    <2>1. tcResults' = <<>>
      BY Zenon DEF BeginBatch
    <2>. QED  BY <2>1 DEF RecordsAnswerCalls
  <1>10. TcRoutes'
    <2>1. UNCHANGED <<tcList, tcTable>>
      BY Zenon DEF BeginBatch
    <2>. QED  BY <2>1 DEF TcInv, TcRoutes, Distinct, Offers, SupportedNames, GetTools
  <1>. QED  BY <1>6, <1>7, <1>8, <1>9, <1>10 DEF TcInv

\* Filing a record ends a call: it is the call's own, with the cause that was named.
LEMMA FileTc ==
    ASSUME TcInv, NEW i \in DOMAIN tcCalls, NEW record, NEW cause, FileRecord(i, record, cause),
           UNCHANGED tcCalls, KeepTable, tcAt[i] # "answered",
           record.id = tcCalls[i].id, record.cause = cause
    PROVE  TcInv'
  <1>1. TcTypes /\ DOMAIN tcAt = DOMAIN tcCalls
    BY DEF TcInv, TcTypes
  <1>2. /\ DOMAIN tcAt' = DOMAIN tcCalls /\ tcAt'[i] = "answered"
        /\ \A j \in DOMAIN tcCalls : j # i => tcAt'[j] = tcAt[j]
    <2>1. tcAt' = [tcAt EXCEPT ![i] = "answered"]
      BY Zenon DEF FileRecord
    <2>. QED  BY <1>1, <2>1
  <1>3. /\ DOMAIN tcRecords' = DOMAIN tcCalls /\ tcRecords'[i] = record
        /\ \A j \in DOMAIN tcCalls : j # i => tcRecords'[j] = tcRecords[j]
    BY <1>1, Zenon DEF FileRecord, TcTypes
  <1>4. tcCauses[i] = ""
    BY Zenon DEF TcInv, TcFiled
  <1>5. /\ DOMAIN tcCauses' = DOMAIN tcCalls
        /\ \A j \in DOMAIN tcCalls : j # i => tcCauses'[j] = tcCauses[j]
    BY <1>1, Zenon DEF FileRecord, TcTypes
  <1>6. tcCauses'[i] = cause
    <2>1. tcCauses'[i] = IF cause = "" THEN tcCauses[i] ELSE cause
      BY <1>1, Zenon DEF FileRecord, TcTypes
    <2>. QED  BY <1>4, <2>1, Zenon
  <1>7. tcCalls' = tcCalls
    OBVIOUS
  <1>8. TcTypes'
    <2>1. tcAt' = [tcAt EXCEPT ![i] = "answered"]
      BY Zenon DEF FileRecord
    <2>. QED  BY <1>1, <1>2, <1>3, <1>5, <1>7, <2>1 DEF TcTypes, CallPlaces
  <1>9. TcFiled'
    <2>1. \A j \in DOMAIN tcCalls : j # i =>
             /\ tcAt'[j] = "answered" => tcRecords'[j].id = tcCalls[j].id /\ tcRecords'[j].cause = tcCauses'[j]
             /\ tcAt'[j] # "answered" => tcCauses'[j] = ""
      BY <1>2, <1>3, <1>5, Zenon DEF TcInv, TcFiled
    <2>. QED  BY <1>2, <1>3, <1>6, <1>7, <2>1, Zenon DEF TcFiled
  <1>10. TcAlone'
    BY <1>1, <1>2, <1>7 DEF TcInv, TcAlone, InFlight, MayRunInParallel
  <1>11. SettledComplete'
    <2>1. tcTable' = tcTable
      BY DEF KeepTable
    <2>. QED  BY <1>2, <1>7, <2>1 DEF TcInv, SettledComplete, Intrinsic
  <1>. QED  BY <1>8, <1>9, <1>10, <1>11, TableTc DEF TcInv

\* Moving a call on, without a record.
LEMMA MoveTc ==
    ASSUME TcInv, NEW i \in DOMAIN tcCalls, NEW at \in CallPlaces, at # "answered", tcAt[i] # "answered",
           tcAt' = [tcAt EXCEPT ![i] = at], UNCHANGED <<tcRecords, tcCauses>>, KeepTable,
           tcCalls' \in [DOMAIN tcCalls -> Queries],
           \A j \in DOMAIN tcCalls : tcCalls'[j].id = tcCalls[j].id
    PROVE  /\ TcTypes' /\ TcFiled' /\ TcRoutes' /\ RecordsAnswerCalls' /\ DOMAIN tcCalls' = DOMAIN tcCalls
           /\ DOMAIN tcAt = DOMAIN tcCalls /\ DOMAIN tcAt' = DOMAIN tcCalls
           /\ tcAt'[i] = at /\ \A j \in DOMAIN tcCalls : j # i => tcAt'[j] = tcAt[j]
  <1>1. TcTypes /\ DOMAIN tcAt = DOMAIN tcCalls /\ DOMAIN tcCalls' = DOMAIN tcCalls
    BY DEF TcInv, TcTypes
  <1>2. /\ DOMAIN tcAt' = DOMAIN tcCalls /\ tcAt'[i] = at
        /\ \A j \in DOMAIN tcCalls : j # i => tcAt'[j] = tcAt[j]
    BY <1>1
  <1>3. TcTypes'
    BY <1>1, <1>2 DEF TcTypes
  <1>4. TcFiled'
    BY <1>1, <1>2, Zenon DEF TcInv, TcFiled
  <1>. QED  BY <1>1, <1>2, <1>3, <1>4, TableTc

LEMMA PrepareTc ==
    ASSUME TcInv, NEW i \in DOMAIN tcCalls, Prepare(i)
    PROVE  TcInv'
  <1>1. PICK tc \in Prepared(i), type \in Types :
            tcCalls' = [tcCalls EXCEPT ![i] = [tc EXCEPT !.type = type]]
    BY DEF Prepare
  <1>2. PICK q \in Queries : q = tcCalls[i]
    BY DEF TcInv, TcTypes
  <1>3. Intrinsic(i) => ~BadArgument(q)
    BY <1>2 DEF Prepare
  <1>4. SettleArgument(q) \in Queries /\ SettleArgument(q).id = q.id /\ SettleArgument(q).name = q.name
    BY DEF SettleArgument, Queries
  <1>5. ~BadArgument(q) => SettleArgument(q).args = "object" /\ SettleArgument(q).value = "good"
    BY DEF SettleArgument, BadArgument, FindArgument, Queries
  <1>6. PICK r \in Queries : r = tc
    BY <1>2, <1>4 DEF Prepared
  <1>a. /\ r.id = q.id /\ r.name = q.name
        /\ Intrinsic(i) => r.args = "object" /\ r.value = "good"
    <2>1. CASE Intrinsic(i)
      <3>1. r = SettleArgument(q)
        BY <1>2, <1>6, <2>1 DEF Prepared
      <3>. QED  BY <1>3, <1>4, <1>5, <2>1, <3>1
    <2>2. CASE ~Intrinsic(i)
      <3>1. r = q \/ r = SettleArgument(q)
        BY <1>2, <1>6, <2>2 DEF Prepared
      <3>. QED  BY <1>4, <2>2, <3>1
    <2>. QED  BY <2>1, <2>2
  <1>7. PICK t : t = [r EXCEPT !.type = type]
    OBVIOUS
  <1>b. t \in Queries /\ t.id = r.id /\ t.name = r.name /\ t.args = r.args /\ t.value = r.value
    BY <1>6, <1>7 DEF Queries
  <1>8. /\ t \in Queries /\ t.id = q.id /\ t.name = q.name
        /\ Intrinsic(i) => t.args = "object" /\ t.value = "good"
    BY <1>a, <1>b
  <1>9. tcCalls' = [tcCalls EXCEPT ![i] = t]
    BY <1>1, <1>6, <1>7
  <1>10. tcCalls \in [DOMAIN tcCalls -> Queries]
    BY DEF TcInv, TcTypes
  <1>11. /\ tcCalls' \in [DOMAIN tcCalls -> Queries] /\ tcCalls'[i] = t
         /\ \A j \in DOMAIN tcCalls : j # i => tcCalls'[j] = tcCalls[j]
    BY <1>8, <1>9, <1>10
  <1>12. \A j \in DOMAIN tcCalls : tcCalls'[j].id = tcCalls[j].id
    BY <1>2, <1>8, <1>11
  <1>13. tcAt[i] = "new" /\ "settled" \in CallPlaces
    BY DEF Prepare, SettleTurn, CallPlaces
  <1>14. /\ TcTypes' /\ TcFiled' /\ TcRoutes' /\ RecordsAnswerCalls' /\ DOMAIN tcCalls' = DOMAIN tcCalls
         /\ DOMAIN tcAt = DOMAIN tcCalls /\ DOMAIN tcAt' = DOMAIN tcCalls
         /\ tcAt'[i] = "settled" /\ \A j \in DOMAIN tcCalls : j # i => tcAt'[j] = tcAt[j]
    BY <1>11, <1>12, <1>13, MoveTc DEF Prepare
  <1>15. TcAlone'
    <2>1. InFlight' = InFlight /\ i \notin InFlight
      BY <1>13, <1>14 DEF InFlight
    <2>. QED  BY <1>11, <1>14, <2>1 DEF TcInv, TcAlone, MayRunInParallel, InFlight
  <1>16. SettledComplete'
    <2>1. tcTable' = tcTable
      BY DEF Prepare, KeepTable
    <2>2. \A j \in DOMAIN tcCalls : tcCalls'[j].name = tcCalls[j].name
      BY <1>2, <1>8, <1>11
    <2>3. \A j \in DOMAIN tcCalls : tcTable'[tcCalls'[j].name] = tcTable[tcCalls[j].name]
      BY <2>1, <2>2
    <2>. QED  BY <1>2, <1>8, <1>11, <1>14, <2>3 DEF TcInv, SettledComplete, Intrinsic
  <1>. QED  BY <1>14, <1>15, <1>16 DEF TcInv

LEMMA StartTc ==
    ASSUME TcInv, NEW i \in DOMAIN tcCalls, Start(i)
    PROVE  TcInv'
  <1>1. tcAt[i] = "settled" /\ "checking" \in CallPlaces /\ tcCalls' = tcCalls
    BY DEF Start, CallPlaces
  <1>2. /\ TcTypes' /\ TcFiled' /\ TcRoutes' /\ RecordsAnswerCalls' /\ DOMAIN tcCalls' = DOMAIN tcCalls
        /\ DOMAIN tcAt = DOMAIN tcCalls /\ DOMAIN tcAt' = DOMAIN tcCalls
        /\ tcAt'[i] = "checking" /\ \A j \in DOMAIN tcCalls : j # i => tcAt'[j] = tcAt[j]
    BY <1>1, MoveTc DEF Start, TcInv, TcTypes
  <1>3. InFlight' = InFlight \cup {i}
    BY <1>2 DEF InFlight
  <1>4. TcAlone'
    <2>1. CASE MayRunInParallel(tcCalls[i].type)
      <3>1. \A j \in InFlight : MayRunInParallel(tcCalls[j].type)
        BY <2>1 DEF Start
      <3>. QED  BY <1>1, <1>3, <2>1, <3>1 DEF TcInv, TcAlone, MayRunInParallel
    <2>2. CASE ~MayRunInParallel(tcCalls[i].type)
      <3>1. InFlight = {}
        BY <2>2 DEF Start
      <3>. QED  BY <1>3, <3>1 DEF TcAlone
    <2>. QED  BY <2>1, <2>2
  <1>5. SettledComplete'
    <2>1. tcTable' = tcTable
      BY DEF Start, KeepTable
    <2>. QED  BY <1>1, <1>2, <2>1 DEF TcInv, SettledComplete, Intrinsic
  <1>. QED  BY <1>2, <1>4, <1>5 DEF TcInv

LEMMA PassTc ==
    ASSUME TcInv, NEW i \in DOMAIN tcCalls, Pass(i)
    PROVE  TcInv'
  <1>1. tcAt[i] = "checking" /\ "invoking" \in CallPlaces /\ tcCalls' = tcCalls
    BY DEF Pass, CallPlaces
  <1>2. /\ TcTypes' /\ TcFiled' /\ TcRoutes' /\ RecordsAnswerCalls' /\ DOMAIN tcCalls' = DOMAIN tcCalls
        /\ DOMAIN tcAt = DOMAIN tcCalls /\ DOMAIN tcAt' = DOMAIN tcCalls
        /\ tcAt'[i] = "invoking" /\ \A j \in DOMAIN tcCalls : j # i => tcAt'[j] = tcAt[j]
    BY <1>1, MoveTc DEF Pass, TcInv, TcTypes
  <1>3. InFlight' = InFlight
    BY <1>1, <1>2 DEF InFlight
  <1>4. TcAlone'
    BY <1>1, <1>3 DEF TcInv, TcAlone, MayRunInParallel
  <1>5. SettledComplete'
    <2>1. tcTable' = tcTable
      BY DEF Pass, KeepTable
    <2>. QED  BY <1>1, <1>2, <2>1 DEF TcInv, SettledComplete, Intrinsic
  <1>. QED  BY <1>2, <1>4, <1>5 DEF TcInv

\* The failures that answer a call: each layer leaves the call's own id and the
\* cause that was named first.
NoCall == ""
Blamed(id, own) == IF id \in {NoCall, own} THEN NoCall ELSE id
FailureOf(own, stage, cause) == [stage |-> stage, id |-> own, cause |-> cause]
RecordOf(own, stage, cause) == [id |-> own, stage |-> stage, cause |-> cause]

LEMMA EffectiveIs ==
    ASSUME NEW f, NEW own
    PROVE  EffectiveCause(f, own) = IF f.id # NoCall /\ f.id # own THEN f.id ELSE f.cause
  BY Zenon DEF EffectiveCause, NoCall

LEMMA CorrelatedIs ==
    ASSUME NEW id, NEW stage, NEW own
    PROVE  /\ CorrelatedTo(Failure(stage, id), own) = FailureOf(own, stage, Blamed(id, own))
           /\ \A c : CorrelatedTo(FailureOf(own, stage, c), own) = FailureOf(own, stage, c)
           /\ \A c : ToInvokeReturn(FailureOf(own, stage, c)) = RecordOf(own, stage, c)
  <1>1. Failure(stage, id) = [stage |-> stage, id |-> id, cause |-> NoCall]
    BY Zenon DEF Failure, NoCall
  <1>2. PICK f : f = Failure(stage, id)
    OBVIOUS
  <1>3. f.id = id /\ f.stage = stage /\ f.cause = NoCall
    BY <1>1, <1>2
  <1>4. EffectiveCause(f, own) = Blamed(id, own)
    BY <1>3, EffectiveIs DEF Blamed
  <1>5. CorrelatedTo(f, own) = FailureOf(own, stage, Blamed(id, own))
    BY <1>3, <1>4 DEF CorrelatedTo, FailureOf
  <1>6. ASSUME NEW c
        PROVE /\ CorrelatedTo(FailureOf(own, stage, c), own) = FailureOf(own, stage, c)
              /\ ToInvokeReturn(FailureOf(own, stage, c)) = RecordOf(own, stage, c)
    <2>1. PICK g : g = FailureOf(own, stage, c)
      OBVIOUS
    <2>2. g.id = own /\ g.stage = stage /\ g.cause = c
      BY <2>1 DEF FailureOf
    <2>3. EffectiveCause(g, own) = c
      BY <2>2, EffectiveIs
    <2>4. CorrelatedTo(g, own) = FailureOf(own, stage, c)
      BY <2>2, <2>3 DEF CorrelatedTo, FailureOf
    <2>5. ToInvokeReturn(g) = RecordOf(own, stage, c)
      BY <2>2, <2>3 DEF ToInvokeReturn, RecordOf
    <2>. QED  BY <2>1, <2>4, <2>5
  <1>. QED  BY <1>2, <1>5, <1>6

LEMMA CorrelateIs ==
    ASSUME NEW id, NEW stage, NEW own
    PROVE  /\ \A c : Correlate(RecordOf(own, stage, c), own) = RecordOf(own, stage, c)
           /\ Correlate(RecordOf(id, stage, NoCall), own) = RecordOf(own, stage, Blamed(id, own))
  <1>2. ASSUME NEW a, NEW c, NEW b, b = IF a # NoCall /\ a # own THEN a ELSE c
        PROVE Correlate(RecordOf(a, stage, c), own) = RecordOf(own, stage, b)
    <2>1. PICK f : f = RecordOf(a, stage, c)
      OBVIOUS
    <2>2. f.id = a /\ f.cause = c
      BY <2>1 DEF RecordOf
    <2>3. Correlate(f, own) =
              [f EXCEPT !.cause = IF f.id # NoCall /\ f.id # own THEN f.id ELSE f.cause, !.id = own]
      BY Zenon DEF Correlate, NoCall
    <2>4. (IF f.id # NoCall /\ f.id # own THEN f.id ELSE f.cause) = b
      BY <1>2, <2>2
    <2>5. Correlate(f, own) = [f EXCEPT !.cause = b, !.id = own]
      BY <2>3, <2>4, Zenon
    <2>6. [f EXCEPT !.cause = b, !.id = own] = RecordOf(own, stage, b)
      <3>1. PICK g : g = [f EXCEPT !.cause = b]
        BY Zenon
      <3>2. g = RecordOf(a, stage, b)
        BY <2>1, <3>1 DEF RecordOf
      <3>3. [g EXCEPT !.id = own] = RecordOf(own, stage, b)
        BY <3>2 DEF RecordOf
      <3>. QED  BY <3>1, <3>3, Zenon
    <2>. QED  BY <2>1, <2>5, <2>6
  <1>3. \A c : Correlate(RecordOf(own, stage, c), own) = RecordOf(own, stage, c)
    BY <1>2
  <1>4. Correlate(RecordOf(id, stage, NoCall), own) = RecordOf(own, stage, Blamed(id, own))
    BY <1>2 DEF Blamed
  <1>. QED  BY <1>3, <1>4

\* Filing such a record, with what the code of the call said of another one.
LEMMA AnswerTc ==
    ASSUME TcInv, NEW i \in DOMAIN tcCalls, NEW stage, NEW cause,
           FileRecord(i, RecordOf(tcCalls[i].id, stage, cause), cause),
           UNCHANGED tcCalls, KeepTable, SettleTurn(i) \/ i \in InFlight \/ tcAt[i] = "invoking"
    PROVE  TcInv'
  <1>1. tcAt[i] # "answered"
    BY DEF SettleTurn, InFlight
  <1>2. /\ RecordOf(tcCalls[i].id, stage, cause).id = tcCalls[i].id
        /\ RecordOf(tcCalls[i].id, stage, cause).cause = cause
    BY DEF RecordOf
  <1>. QED  BY <1>1, <1>2, FileTc, Zenon

\* A failure that names no other call.
LEMMA OwnFailure ==
    ASSUME NEW own, NEW stage
    PROVE  ToInvokeReturn(Failure(stage, own)) = RecordOf(own, stage, NoCall)
  <1>1. Failure(stage, own) = FailureOf(own, stage, NoCall)
    BY Zenon DEF Failure, FailureOf, NoCall
  <1>. QED  BY <1>1, CorrelatedIs

LEMMA AnswersTc ==
    ASSUME TcInv, NEW i \in DOMAIN tcCalls,
           Undispatched(i) \/ PrepareThrows(i) \/ PrepareBreaks(i)
              \/ ExecuteFails(i) \/ ExecuteReturns(i) \/ ExecuteBreaks(i)
    PROVE  TcInv'
  <1>. DEFINE own == tcCalls[i].id
  <1>0. \A id : Foreign(i, id) = Blamed(id, own)
    BY Zenon DEF Foreign, Blamed, NoCall
  <1>1. CASE Undispatched(i)
    <2>1. FileRecord(i, ToInvokeReturn(Failure("Dispatch", own)), NoCall) /\ UNCHANGED tcCalls /\ KeepTable
          /\ SettleTurn(i)
      BY <1>1, Zenon DEF Undispatched, NoCall
    <2>. QED  BY <2>1, OwnFailure, AnswerTc
  <1>2. CASE PrepareBreaks(i)
    <2>1. FileRecord(i, ToInvokeReturn(Failure("Unknown", own)), NoCall) /\ UNCHANGED tcCalls /\ KeepTable
          /\ SettleTurn(i)
      BY <1>2, Zenon DEF PrepareBreaks, BrokenSet, NoCall
    <2>. QED  BY <2>1, OwnFailure, AnswerTc
  <1>3. CASE ExecuteBreaks(i)
    <2>1. FileRecord(i, ToInvokeReturn(Failure("Unknown", own)), NoCall) /\ UNCHANGED tcCalls /\ KeepTable
          /\ i \in InFlight
      BY <1>3, Zenon DEF ExecuteBreaks, BrokenSet, NoCall
    <2>. QED  BY <2>1, OwnFailure, AnswerTc
  <1>4. CASE PrepareThrows(i)
    <2>1. PICK id : FileRecord(i, ToInvokeReturn(CorrelatedTo(
                        CorrelatedTo(Failure("ArgumentParse", id), own), own)), Foreign(i, id))
      BY <1>4, Zenon DEF PrepareThrows
    <2>2. UNCHANGED tcCalls /\ KeepTable /\ SettleTurn(i)
      BY <1>4, Zenon DEF PrepareThrows
    <2>3. CorrelatedTo(Failure("ArgumentParse", id), own) = FailureOf(own, "ArgumentParse", Blamed(id, own))
      BY CorrelatedIs
    <2>4. CorrelatedTo(CorrelatedTo(Failure("ArgumentParse", id), own), own) =
              FailureOf(own, "ArgumentParse", Blamed(id, own))
      BY <2>3, CorrelatedIs
    <2>5. ToInvokeReturn(CorrelatedTo(CorrelatedTo(Failure("ArgumentParse", id), own), own)) =
              RecordOf(own, "ArgumentParse", Blamed(id, own))
      BY <2>4, CorrelatedIs
    <2>6. FileRecord(i, RecordOf(own, "ArgumentParse", Blamed(id, own)), Blamed(id, own))
      BY <1>0, <2>1, <2>5, Zenon
    <2>. QED  BY <2>2, <2>6, AnswerTc, Zenon
  <1>5. CASE ExecuteFails(i)
    <2>1. PICK id, stage : FileRecord(i, Correlate(ToInvokeReturn(CorrelatedTo(Failure(stage, id), own)), own),
                                      Foreign(i, id))
      BY <1>5, Zenon DEF ExecuteFails
    <2>2. UNCHANGED tcCalls /\ KeepTable /\ i \in InFlight
      BY <1>5, Zenon DEF ExecuteFails
    <2>3. CorrelatedTo(Failure(stage, id), own) = FailureOf(own, stage, Blamed(id, own))
      BY CorrelatedIs
    <2>4. ToInvokeReturn(CorrelatedTo(Failure(stage, id), own)) = RecordOf(own, stage, Blamed(id, own))
      BY <2>3, CorrelatedIs
    <2>5. Correlate(ToInvokeReturn(CorrelatedTo(Failure(stage, id), own)), own) =
              RecordOf(own, stage, Blamed(id, own))
      BY <2>4, CorrelateIs
    <2>6. FileRecord(i, RecordOf(own, stage, Blamed(id, own)), Blamed(id, own))
      BY <1>0, <2>1, <2>5, Zenon
    <2>. QED  BY <2>2, <2>6, AnswerTc, Zenon
  <1>6. CASE ExecuteReturns(i)
    <2>1. PICK id : FileRecord(i, Correlate(Correlate([id |-> id, stage |-> "ok", cause |-> NoCall], own), own),
                               Foreign(i, id))
      BY <1>6, Zenon DEF ExecuteReturns, NoCall
    <2>2. UNCHANGED tcCalls /\ KeepTable /\ tcAt[i] = "invoking"
      BY <1>6, Zenon DEF ExecuteReturns
    <2>3. Correlate([id |-> id, stage |-> "ok", cause |-> NoCall], own) = RecordOf(own, "ok", Blamed(id, own))
      <3>1. [id |-> id, stage |-> "ok", cause |-> NoCall] = RecordOf(id, "ok", NoCall)
        BY DEF RecordOf
      <3>. QED  BY <3>1, CorrelateIs
    <2>4. Correlate(Correlate([id |-> id, stage |-> "ok", cause |-> NoCall], own), own) =
              RecordOf(own, "ok", Blamed(id, own))
      BY <2>3, CorrelateIs
    <2>5. FileRecord(i, RecordOf(own, "ok", Blamed(id, own)), Blamed(id, own))
      BY <1>0, <2>1, <2>4, Zenon
    <2>. QED  BY <2>2, <2>5, AnswerTc, Zenon
  <1>. QED  BY <1>1, <1>2, <1>3, <1>4, <1>5, <1>6, Zenon

LEMMA AssembleTc ==
    ASSUME TcInv, AssembleResults
    PROVE  TcInv'
  <1>1. /\ tcResults' = [i \in DOMAIN tcCalls |->
                            [record |-> tcRecords[i], asked |-> tcCalls[i].id, named |-> tcCauses[i]]]
        /\ tcCalls' = <<>> /\ tcAt' = <<>> /\ tcRecords' = <<>> /\ tcCauses' = <<>>
        /\ UNCHANGED <<tcList, tcTable>>
    BY DEF AssembleResults
  <1>2. \A i \in DOMAIN tcCalls : tcAt[i] = "answered"
    BY DEF AssembleResults, TcInv, TcTypes
  <1>3. \A i \in DOMAIN tcCalls : tcRecords[i].id = tcCalls[i].id /\ tcRecords[i].cause = tcCauses[i]
    BY <1>2, Zenon DEF TcInv, TcFiled
  <1>4. RecordsAnswerCalls'
    BY <1>1, <1>3 DEF RecordsAnswerCalls
  <1>5. TcTypes' /\ SettledComplete'
    BY <1>1 DEF TcTypes, SettledComplete
  <1>6. TcFiled'
    <2>1. DOMAIN tcCalls' = {}
      BY <1>1
    <2>. QED  BY <2>1, Zenon DEF TcFiled
  <1>7. TcAlone'
    BY <1>1 DEF TcAlone, InFlight
  <1>8. TcRoutes'
    BY <1>1 DEF TcInv, TcRoutes, Distinct, Offers, SupportedNames, GetTools
  <1>. QED  BY <1>4, <1>5, <1>6, <1>7, <1>8 DEF TcInv

LEMMA NextTc == TcInv /\ [TcNext]_tcVars => TcInv'
  <1>. SUFFICES ASSUME TcInv, [TcNext]_tcVars PROVE TcInv'
    OBVIOUS
  <1>1. CASE UNCHANGED tcVars
    <2>1. UNCHANGED <<tcList, tcTable>> /\ UNCHANGED <<tcBatches, tcCalls, tcAt, tcRecords,
                      tcCauses, tcResults>>
      BY <1>1 DEF tcVars
    <2>2. TcRoutes'
      BY <2>1 DEF TcInv, TcRoutes, Distinct, Offers, SupportedNames, GetTools
    <2>3. TcTypes' /\ SettledComplete' /\ RecordsAnswerCalls'
      BY <2>1 DEF TcInv, TcTypes, SettledComplete, Intrinsic, RecordsAnswerCalls
    <2>4. TcFiled'
      BY <2>1, Zenon DEF TcInv, TcFiled
    <2>5. TcAlone'
      BY <2>1 DEF TcInv, TcAlone, InFlight, MayRunInParallel
    <2>. QED  BY <2>2, <2>3, <2>4, <2>5 DEF TcInv
  <1>2. ASSUME NEW s \in DOMAIN ToolSets, AddSet(s) PROVE TcInv'
    BY <1>2, AddSetTc, RegistryTc DEF AddSet
  <1>3. ASSUME NEW n \in DOMAIN tcTable, RemoveSet(n) PROVE TcInv'
    BY <1>3, RemoveSetTc, RegistryTc DEF RemoveSet
  <1>4. CASE ClearRegistry
    <2>1. tcList' = <<>> /\ tcTable' = NoTable /\ NoBatch /\ KeepBatch
      BY <1>4 DEF ClearRegistry
    <2>2. DOMAIN tcTable' = {}
      BY <2>1, Zenon DEF NoTable
    <2>3. TcRoutes'
      BY <2>1, <2>2 DEF TcRoutes
    <2>. QED  BY <2>1, <2>3, RegistryTc
  <1>5. CASE BeginBatch
    BY <1>5, BeginBatchTc
  <1>6. ASSUME NEW i \in DOMAIN tcCalls, Prepare(i) PROVE TcInv'
    BY <1>6, PrepareTc
  <1>7. ASSUME NEW i \in DOMAIN tcCalls, Start(i) PROVE TcInv'
    BY <1>7, StartTc
  <1>8. ASSUME NEW i \in DOMAIN tcCalls, Pass(i) PROVE TcInv'
    BY <1>8, PassTc
  <1>9. ASSUME NEW i \in DOMAIN tcCalls,
               Undispatched(i) \/ PrepareThrows(i) \/ PrepareBreaks(i) \/ ExecuteFails(i) \/ ExecuteReturns(i) \/ ExecuteBreaks(i)
        PROVE TcInv'
    BY <1>9, AnswersTc
  <1>10. CASE AssembleResults
    BY <1>10, AssembleTc
  <1>. QED
    BY <1>1, <1>2, <1>3, <1>4, <1>5, <1>6, <1>7, <1>8, <1>9, <1>10, Zenon DEF TcNext

LEMMA TcFacts ==
    ASSUME TcInv
    PROVE  CatalogueRoutes /\ RecordsAnswerCalls /\ SerialRunsAlone /\ SettledComplete
  <1>. DEFINE at == UNION {{k} \X DOMAIN SupportedNames(tcList[k]) : k \in DOMAIN tcList}
  <1>1. \A c \in at : \E k \in DOMAIN tcList : \E i \in DOMAIN SupportedNames(tcList[k]) : c = <<k, i>>
    OBVIOUS
  <1>2. \A k \in DOMAIN tcList : \A i \in DOMAIN SupportedNames(tcList[k]) : <<k, i>> \in at
    OBVIOUS
  <1>. HIDE DEF at
  <1>3. Catalogue = [c \in at |-> SupportedNames(tcList[c[1]])[c[2]]]
    BY DEF Catalogue, at
  <1>4. \A k \in DOMAIN tcList : \A i \in DOMAIN SupportedNames(tcList[k]) :
            /\ Catalogue[<<k, i>>] = SupportedNames(tcList[k])[i]
            /\ Catalogue[<<k, i>>] \in DOMAIN tcTable /\ tcTable[Catalogue[<<k, i>>]] = tcList[k]
    <2>. SUFFICES ASSUME NEW k \in DOMAIN tcList, NEW i \in DOMAIN SupportedNames(tcList[k])
                  PROVE  /\ Catalogue[<<k, i>>] = SupportedNames(tcList[k])[i]
                         /\ Catalogue[<<k, i>>] \in DOMAIN tcTable /\ tcTable[Catalogue[<<k, i>>]] = tcList[k]
      BY Zenon
    <2>1. Catalogue[<<k, i>>] = SupportedNames(tcList[k])[i]
      BY <1>2, <1>3
    <2>2. SupportedNames(tcList[k])[i] \in Offers(tcList[k])
      BY DEF Offers, Range
    <2>. QED  BY <2>1, <2>2 DEF TcInv, TcRoutes
  <1>5. Range(Catalogue) = DOMAIN tcTable
    <2>1. \A c \in at : Catalogue[c] \in DOMAIN tcTable
      BY <1>1, <1>4
    <2>2. ASSUME NEW n \in DOMAIN tcTable PROVE \E c \in at : Catalogue[c] = n
      <3>1. PICK k \in DOMAIN tcList : n \in Offers(tcList[k])
        BY DEF TcInv, TcRoutes
      <3>2. PICK i \in DOMAIN SupportedNames(tcList[k]) : n = SupportedNames(tcList[k])[i]
        BY <3>1 DEF Offers, Range
      <3>. QED  BY <1>2, <1>4, <3>2
    <2>3. DOMAIN Catalogue = at
      BY <1>3
    <2>. QED  BY <2>1, <2>2, <2>3 DEF Range
  <1>6. \A c, d \in DOMAIN Catalogue : c # d => Catalogue[c] # Catalogue[d]
    <2>. SUFFICES ASSUME NEW c \in at, NEW d \in at, Catalogue[c] = Catalogue[d] PROVE c = d
      BY <1>3
    <2>1. PICK k \in DOMAIN tcList : \E i \in DOMAIN SupportedNames(tcList[k]) : c = <<k, i>>
      BY <1>1
    <2>2. PICK i \in DOMAIN SupportedNames(tcList[k]) : c = <<k, i>>
      BY <2>1
    <2>3. PICK l \in DOMAIN tcList : \E j \in DOMAIN SupportedNames(tcList[l]) : d = <<l, j>>
      BY <1>1
    <2>4. PICK j \in DOMAIN SupportedNames(tcList[l]) : d = <<l, j>>
      BY <2>3
    <2>5. tcList[k] = tcList[l]
      BY <1>4, <2>2, <2>4
    <2>6. k = l
      BY <2>5 DEF TcInv, TcRoutes
    <2>7. Distinct(tcList[k]) /\ SupportedNames(tcList[k])[i] = SupportedNames(tcList[k])[j]
      BY <1>4, <2>2, <2>4, <2>6 DEF TcInv, TcRoutes
    <2>8. i = j
      BY <2>4, <2>6, <2>7 DEF Distinct
    <2>. QED  BY <2>2, <2>4, <2>6, <2>8
  <1>7. \A n \in DOMAIN tcTable : tcTable[n] \in Range(tcList) /\ n \in Range(SupportedNames(tcTable[n]))
    <2>. TAKE n \in DOMAIN tcTable
    <2>1. PICK k \in DOMAIN tcList : tcTable[n] = tcList[k] /\ n \in Offers(tcList[k])
      BY DEF TcInv, TcRoutes
    <2>. QED  BY <2>1 DEF Range, Offers
  <1>8. SerialRunsAlone
    BY DEF TcInv, TcAlone, SerialRunsAlone, MayRunInParallel
  <1>. QED  BY <1>5, <1>6, <1>7, <1>8 DEF TcInv, CatalogueRoutes

(***************************************************************************)
(* The schema of a tool.  Every property has a value: one it lists, or one *)
(* of its bounds, which are a number of its kind when they are stated.     *)
(***************************************************************************)
TsInv ==
    /\ tsProperty \in Properties \/ tsProperty = Plain
    /\ tsVerdict = "accepted" => RequireArgumentSchema

LEMMA PlainOk == PropertyOk(Plain)
  <1>1. /\ Plain.clauses.low.stated = FALSE /\ Plain.clauses.high.stated = FALSE
        /\ Plain.clauses.enum.stated = FALSE /\ Plain.default.stated = FALSE
    BY DEF Plain, Clauses, None
  <1>. QED  BY <1>1, Zenon DEF PropertyOk

LEMMA InitTs == TsInit => TsInv
  BY DEF TsInit, TsInv

LEMMA NextTs == TsInv /\ [TsNext]_tsVars => TsInv'
  <1>. SUFFICES ASSUME TsInv, [TsNext]_tsVars PROVE TsInv'
    OBVIOUS
  <1>1. UNCHANGED <<tsProperty, tsSchema>>
    BY DEF TsNext, LoadDeclaration, tsVars
  <1>2. RequireArgumentSchema' <=> RequireArgumentSchema
    BY <1>1 DEF RequireArgumentSchema, PropertyOf, CheckProperty, CheckClauses, AgainstClauses,
    BoundOk,
                CheckRequiredList, CheckBranch, CheckExclusion
  <1>3. tsVerdict' = "accepted" => RequireArgumentSchema
    BY DEF TsNext, LoadDeclaration, tsVars, TsInv
  <1>. QED  BY <1>1, <1>2, <1>3 DEF TsInv

\* A value that passes the checks is one a provider may send.
LEMMA AgainstIsInstance ==
    ASSUME NEW p, NEW v, ValueOk(v), AgainstClauses(v, p.clauses), v.n \in Numbers(p)
    PROVE  v \in Instances(p)
  <1>1. v \in [kind : {p.clauses.kind}, n : Numbers(p)]
    BY DEF ValueOk, AgainstClauses
  <1>2. p.clauses.kind # "integer" => v.n >= 0
    BY DEF ValueOk, AgainstClauses
  <1>. QED  BY <1>1, <1>2 DEF Instances, AgainstClauses

LEMMA PropertyHasInstance ==
    ASSUME NEW p, PropertyOk(p), CheckProperty(p)
    PROVE  Instances(p) # {}
  <1>. DEFINE c == p.clauses
  <1>1. CheckClauses(c)
    BY Zenon DEF CheckProperty
  <1>2. CASE c.enum.stated
    <2>1. PICK v \in c.enum.values : AgainstClauses(v, c) /\ ValueOk(v)
      <3>1. c.enum.values # {} /\ \A v \in c.enum.values : AgainstClauses(v, c) /\ ValueOk(v)
        BY <1>1, <1>2, Zenon DEF CheckClauses, PropertyOk
      <3>. QED  BY <3>1, Zenon
    <2>2. v.n \in Numbers(p)
      BY <1>2, <2>1 DEF Numbers
    <2>. QED  BY <2>1, <2>2, AgainstIsInstance
  <1>3. CASE ~c.enum.stated
    <2>1. ASSUME NEW n \in Numbers(p), n \in Int, c.kind # "integer" => n >= 0,
                 c.low.stated => n >= c.low.n, c.high.stated => n <= c.high.n
          PROVE  Instances(p) # {}
      <3>1. Value(c.kind, n) \in Instances(p)
        BY <1>3, <2>1 DEF Instances, Value
      <3>. QED  BY <3>1
    <2>2. /\ c.kind # "integer" => LowKey(c.kind) \notin {"minimum", "maximum"}
          /\ c.kind # "integer" => HighKey(c.kind) \notin {"minimum", "maximum"}
      BY Zenon DEF LowKey, HighKey
    <2>3. c.low.stated => c.low.n \in Int /\ (c.kind # "integer" => c.low.n >= 0)
      <3>1. c.low.stated => c.low.n \in Int
        BY Zenon DEF PropertyOk
      <3>. QED  BY <1>1, <2>2, <3>1 DEF CheckClauses, BoundOk
    <2>4. c.high.stated => c.high.n \in Int /\ (c.kind # "integer" => c.high.n >= 0)
      <3>1. c.high.stated => c.high.n \in Int
        BY Zenon DEF PropertyOk
      <3>. QED  BY <1>1, <2>2, <3>1 DEF CheckClauses, BoundOk
    <2>5. c.low.stated /\ c.high.stated => c.low.n <= c.high.n
      BY <1>1, Zenon DEF CheckClauses
    <2>6. CASE c.low.stated
      <3>1. c.low.n \in Numbers(p)
        BY <2>6 DEF Numbers
      <3>. QED  BY <2>1, <2>3, <2>5, <2>6, <3>1
    <2>7. CASE ~c.low.stated /\ c.high.stated
      <3>1. c.high.n \in Numbers(p)
        BY <2>7 DEF Numbers
      <3>. QED  BY <2>1, <2>4, <2>7, <3>1
    <2>8. CASE ~c.low.stated /\ ~c.high.stated
      <3>1. 0 \in Numbers(p)
        BY DEF Numbers
      <3>. QED  BY <2>1, <2>8, <3>1
    <2>. QED  BY <2>6, <2>7, <2>8
  <1>. QED  BY <1>2, <1>3

LEMMA TsFacts ==
    ASSUME TsInv
    PROVE  AcceptedSchemasAdmitCalls
  <1>. SUFFICES ASSUME RequireArgumentSchema
                PROVE  /\ \A name \in Declared : Instances(PropertyOf(name)) # {}
                       /\ tsProperty.default.stated => tsProperty.default.value \in Instances(tsProperty)
                       /\ tsProperty.clauses.enum.stated =>
                             tsProperty.clauses.enum.values \subseteq Instances(tsProperty)
                       /\ \A branch \in tsSchema.branches : \E sent \in SUBSET Declared :
                             /\ tsSchema.required \cup branch.required \subseteq sent
                             /\ branch.excluded \cap sent = {}
    BY Zenon DEF TsInv, AcceptedSchemasAdmitCalls
  <1>1. PropertyOk(tsProperty)
    BY PlainOk, SchemaBounds, Zenon DEF TsInv
  <1>2. \A name \in Declared : PropertyOk(PropertyOf(name)) /\ CheckProperty(PropertyOf(name))
    BY <1>1, PlainOk, Zenon DEF RequireArgumentSchema, PropertyOf
  <1>3. CheckProperty(tsProperty)
    BY <1>2, Zenon DEF Declared, PropertyOf
  <1>4. \A name \in Declared : Instances(PropertyOf(name)) # {}
    BY <1>2, PropertyHasInstance, Zenon
  <1>5. tsProperty.default.stated => tsProperty.default.value \in Instances(tsProperty)
    <2>. SUFFICES ASSUME tsProperty.default.stated PROVE tsProperty.default.value \in Instances(tsProperty)
      OBVIOUS
    <2>1. AgainstClauses(tsProperty.default.value, tsProperty.clauses) /\ ValueOk(tsProperty.default.value)
      BY <1>1, <1>3, Zenon DEF CheckProperty, PropertyOk
    <2>2. tsProperty.default.value.n \in Numbers(tsProperty)
      BY DEF Numbers
    <2>. QED  BY <2>1, <2>2, AgainstIsInstance
  <1>6. tsProperty.clauses.enum.stated => tsProperty.clauses.enum.values \subseteq Instances(tsProperty)
    <2>. SUFFICES ASSUME tsProperty.clauses.enum.stated, NEW v \in tsProperty.clauses.enum.values
                  PROVE  v \in Instances(tsProperty)
      BY Zenon
    <2>1. AgainstClauses(v, tsProperty.clauses) /\ ValueOk(v)
      BY <1>1, <1>3, Zenon DEF CheckProperty, CheckClauses, PropertyOk
    <2>2. v.n \in Numbers(tsProperty)
      BY DEF Numbers
    <2>. QED  BY <2>1, <2>2, AgainstIsInstance
  <1>7. ASSUME NEW branch \in tsSchema.branches
        PROVE  \E sent \in SUBSET Declared :
                   /\ tsSchema.required \cup branch.required \subseteq sent
                   /\ branch.excluded \cap sent = {}
    <2>1. tsSchema.required \cup branch.required \in SUBSET Declared
      BY Zenon DEF RequireArgumentSchema, CheckBranch, CheckRequiredList
    <2>2. branch.excluded \cap (tsSchema.required \cup branch.required) = {}
      <3>1. branch.excluded \cap (branch.required \cup tsSchema.required) = {}
        BY Zenon DEF RequireArgumentSchema, CheckBranch, CheckExclusion
      <3>. QED  BY <3>1
    <2>. QED  BY <2>1, <2>2, Zenon
  <1>. QED  BY <1>4, <1>5, <1>6, <1>7, Zenon

\* Tool calls, whatever the sets, the batches and what the tools' code does: the
\* published catalogue is what dispatch resolves, after any registrations and
\* removals; the record of a call carries its id and the foreign call its code spoke
\* of first; a serial call is alone in flight; what runs has complete arguments; and
\* a schema load_tool_declaration accepts admits a call.
THEOREM CallsAlwaysAnswered == HostSpec => []CallsAnswered
  <1>. DEFINE Inv == /\ part = "tools" => TcInv
                     /\ part = "schema" => TsInv
  <1>1. HostInit => Inv
    BY InitTc, InitTs DEF HostInit
  <1>2. Inv /\ [HostNext]_HostVars => Inv'
    <2>. SUFFICES ASSUME Inv, [HostNext]_HostVars PROVE Inv'
      OBVIOUS
    <2>1. CASE part = "tools"
      <3>1. [TcNext]_tcVars /\ part' = part
        BY <2>1 DEF HostNext, HostVars, Others
      <3>. QED  BY <2>1, <3>1, NextTc
    <2>2. CASE part = "schema"
      <3>1. [TsNext]_tsVars /\ part' = part
        BY <2>2 DEF HostNext, HostVars, Others
      <3>. QED  BY <2>2, <3>1, NextTs
    <2>3. CASE part \notin {"tools", "schema"}
      <3>1. part' = part
        BY <2>3 DEF HostNext, HostVars, Others
      <3>. QED  BY <2>3, <3>1
    <2>. QED  BY <2>1, <2>2, <2>3
  <1>3. Inv => CallsAnswered
    BY TcFacts, TsFacts DEF CallsAnswered
  <1>. QED
    BY <1>1, <1>2, <1>3, PTL DEF HostSpec
=============================================================================
