--------------------------- MODULE ProcessProofs ---------------------------
(***************************************************************************)
(* Proofs about the processes a session's tools start (the parts "handle"  *)
(* and "sessions" of MCHost), for every value of their constants.          *)
(***************************************************************************)
EXTENDS MCHost, FiniteSetTheorems, SequenceTheorems, WellFoundedInduction, TLAPS

(***************************************************************************)
(* One child process.                                                      *)
(***************************************************************************)
PumpPlaces == {"none", "read", "done", "woken", "asleep", "write", "eof"}
ShutPlaces == {"idle", "stop", "drain", "join", "watch", "ok", "threw"}
Ends == {"Open", "Eof", "Stopped", "Failed"}
Phases == {"NotStarted", "Open", "EndRequested", "Ended", "Unsupported", "PeerClosed", "Stopped", "Failed"}
Caught == [kept : Nat, cut : BOOLEAN, end : Ends]
Fed == [phase : Phases, queue : Seq(Nat), flight : Nat, accepting : BOOLEAN, ending : BOOLEAN,
        stopped : BOOLEAN]
AllCallers == Callers \cup {"start"}

HpTypes ==
    /\ tty \in BOOLEAN /\ child \in {"alive", "zombie", "reaped"} /\ heir \in BOOLEAN
    /\ pump \in [Pumps -> PumpPlaces]
    /\ watcher \in {"none", "first", "wait", "close", "done"} /\ waiter \in {"no", "active", "over"}
    /\ final \in BOOLEAN /\ shut \in [AllCallers -> ShutPlaces]
    /\ capture \in [AllStreams -> Caught]

\* What each place of a shutdown has behind it.
HpFence ==
    /\ pump["input"] = "none" => \A p \in Pumps : pump[p] = "none"
    /\ \A c \in AllCallers : shut[c] # "idle" => pump["input"] # "none" \/ shut["start"] # "idle"
    /\ \A c \in AllCallers : shut[c] \in {"join", "watch", "ok", "threw"} => Complete
    /\ \A c \in AllCallers : shut[c] \in {"watch", "ok", "threw"} => ActiveTasks = {}
    /\ \A c \in AllCallers : shut[c] \in {"ok", "threw"} => ~WatcherActive /\ waiter # "active"
    /\ \A c \in AllCallers : shut[c] = "ok" => child = "reaped" /\ final

\* What no step but the start undoes.
PumpStays ==
    /\ tty' = tty
    /\ pump' \in [Pumps -> PumpPlaces]
    /\ \A p \in Pumps : /\ pump[p] \in {"none", "done"} => pump'[p] = pump[p]
                        /\ pump'[p] = "none" => pump[p] = "none"
CaptureStays ==
    /\ capture' \in [AllStreams -> Caught]
    /\ \A s \in AllStreams : capture[s].end # "Open" => capture'[s].end # "Open"
ChildStays ==
    /\ child' \in {"alive", "zombie", "reaped"} /\ heir' \in BOOLEAN
    /\ child = "reaped" => child' = "reaped"
    /\ Closed => Closed'
WatchStays ==
    /\ final' \in BOOLEAN /\ (final => final')
    /\ watcher' \in {"none", "first", "wait", "close", "done"} /\ waiter' \in {"no", "active", "over"}
    /\ ~WatcherActive => ~WatcherActive'
    /\ waiter' = "active" => waiter = "active" \/ WatcherActive
Settles == PumpStays /\ CaptureStays /\ ChildStays /\ WatchStays

LEMMA PumpsTyped == "input" \in Pumps /\ Streams \subseteq AllStreams /\ Streams \subseteq Pumps
  BY DEF Pumps, Streams, AllStreams

LEMMA SettledFence ==
    ASSUME HpTypes, HpFence, Settles, shut' = shut
    PROVE  HpTypes' /\ HpFence'
  <1>1. Pumps' = Pumps /\ Streams' = Streams
    BY DEF Settles, PumpStays, Pumps, Streams
  <1>2. HpTypes'
    BY <1>1 DEF HpTypes, Settles, PumpStays, CaptureStays, ChildStays, WatchStays
  <1>3. Complete => Complete'
    BY <1>1, PumpsTyped DEF Complete, Settles, CaptureStays
  <1>4. ActiveTasks = {} => ActiveTasks' = {}
    BY <1>1 DEF ActiveTasks, Settles, PumpStays
  <1>5. pump'["input"] = "none" => \A p \in Pumps' : pump'[p] = "none"
    BY <1>1, PumpsTyped DEF HpFence, Settles, PumpStays
  <1>6. pump["input"] # "none" => pump'["input"] # "none"
    BY PumpsTyped DEF Settles, PumpStays
  <1>7. ~WatcherActive /\ waiter # "active" => ~WatcherActive' /\ waiter' # "active"
    BY DEF Settles, WatchStays
  <1>8. child = "reaped" /\ final => child' = "reaped" /\ final'
    BY DEF Settles, ChildStays, WatchStays
  <1>. QED  BY <1>2, <1>3, <1>4, <1>5, <1>6, <1>7, <1>8 DEF HpFence

\* The steps of the input pump leave every other task alone.
LEMMA InputTaskPump ==
    ASSUME HpTypes, InputTask
    PROVE  /\ UNCHANGED <<tty, childVars, outputVars, watchVars, shut>>
           /\ pump["input"] \notin {"none", "done"}
           /\ \E x \in PumpPlaces \ {"none"} : pump' = [pump EXCEPT !["input"] = x]
  <1>1. UNCHANGED <<tty, childVars, outputVars, watchVars, shut>>
    BY DEF InputTask, WriterWakes, WriteEnds, EofWritten
  <1>2. pump["input"] \in {"woken", "write", "eof"}
    BY DEF InputTask, WriterWakes, WriteEnds, EofWritten
  <1>. DEFINE Moved == \E x \in PumpPlaces \ {"none"} : pump' = [pump EXCEPT !["input"] = x]
  <1>3. \A j : (InputOver(j) => Moved) /\ (InputFailed(j) => Moved)
    BY DEF InputOver, InputFailed, PumpPlaces
  <1>4. \A j, x : InputGoesOn(j, x) /\ x \in PumpPlaces \ {"none"} => Moved
    BY DEF InputGoesOn
  <1>. HIDE DEF Moved
  <1>5. \A j : WriterTop(j) => Moved
    BY <1>3, <1>4 DEF WriterTop, EndTerminal, EndPipe, PumpPlaces
  <1>6. Moved
    BY <1>3, <1>5 DEF InputTask, WriterWakes, WriteEnds, EofWritten
  <1>. QED  BY <1>1, <1>2, <1>6 DEF Moved

\* A part of the handle that a step leaves alone.
LEMMA PumpAlone == HpTypes /\ UNCHANGED <<tty, pump>> => PumpStays
  BY DEF HpTypes, PumpStays
LEMMA CaptureAlone == HpTypes /\ UNCHANGED capture => CaptureStays
  BY DEF HpTypes, CaptureStays
LEMMA ChildAlone == HpTypes /\ UNCHANGED <<child, heir>> => ChildStays
  BY DEF HpTypes, ChildStays, Closed
LEMMA WatchAlone == HpTypes /\ UNCHANGED <<final, watcher, waiter>> => WatchStays
  BY DEF HpTypes, WatchStays, WatcherActive

LEMMA InputTaskSettles == HpTypes /\ InputTask => Settles /\ shut' = shut
  <1>. SUFFICES ASSUME HpTypes, InputTask PROVE Settles /\ shut' = shut
    OBVIOUS
  <1>1. PICK x \in PumpPlaces \ {"none"} : pump' = [pump EXCEPT !["input"] = x]
    BY InputTaskPump
  <1>2. UNCHANGED <<tty, childVars, outputVars, watchVars, shut>> /\ pump["input"] \notin {"none", "done"}
    BY InputTaskPump
  <1>3. PumpStays
    BY <1>1, <1>2, PumpsTyped DEF HpTypes, PumpStays
  <1>4. UNCHANGED <<capture, child, heir, final, watcher, waiter, shut>>
    BY <1>2 DEF childVars, outputVars, watchVars
  <1>. QED  BY <1>3, <1>4, CaptureAlone, ChildAlone, WatchAlone DEF Settles

\* Waking the writer, and ending captures, settle nothing that was settled otherwise.
LEMMA WokenTyped ==
    ASSUME HpTypes
    PROVE  /\ Woken(pump) \in [Pumps -> PumpPlaces]
           /\ \A p \in Pumps : /\ pump[p] \in {"none", "done"} => Woken(pump)[p] = pump[p]
                               /\ Woken(pump)[p] = "none" => pump[p] = "none"
                               /\ p # "input" => Woken(pump)[p] = pump[p]
                               /\ Woken(pump)[p] = "done" => pump[p] = "done"
  BY PumpsTyped DEF HpTypes, Woken, PumpPlaces

Finished(F, S, e) ==
    /\ F \in [AllStreams -> Caught]
    /\ \A s \in AllStreams :
         /\ capture[s].end # "Open" => F[s] = capture[s]
         /\ s \in S => F[s].end # "Open"
         /\ s \in S /\ capture[s].end = "Open" =>
               /\ F[s].end = e /\ F[s].kept = capture[s].kept
               /\ F[s].cut = (capture[s].cut \/ e \in {"Stopped", "Failed"})
         /\ s \notin S => F[s] = capture[s]

LEMMA FinishTyped ==
    ASSUME HpTypes, NEW S, NEW e \in Ends \ {"Open"}, NEW F, F = Finish(capture, S, e)
    PROVE  Finished(F, S, e)
  <1>1. \A s \in AllStreams : capture[s] \in Caught
    BY DEF HpTypes
  <1>. DEFINE X(r) == [r EXCEPT !.end = e, !.cut = @ \/ e \in {"Stopped", "Failed"}]
  <1>3. F = [s \in AllStreams |-> IF s \in S /\ capture[s].end = "Open" THEN X(capture[s]) ELSE capture[s]]
    BY Zenon DEF Finish
  <1>4. \A r \in Caught : X(r) \in Caught /\ X(r).end = e /\ X(r).kept = r.kept
                          /\ X(r).cut = (r.cut \/ e \in {"Stopped", "Failed"})
    BY DEF Caught
  <1>. HIDE DEF X
  <1>5. F \in [AllStreams -> Caught]
    BY <1>1, <1>3, <1>4
  <1>6. \A s \in AllStreams : /\ s \in S /\ capture[s].end = "Open" => F[s] = X(capture[s])
                              /\ ~(s \in S /\ capture[s].end = "Open") => F[s] = capture[s]
    BY <1>3
  <1>7. e # "Open"
    OBVIOUS
  <1>8. ASSUME NEW s \in AllStreams
        PROVE  /\ capture[s].end # "Open" => F[s] = capture[s]
               /\ s \in S => F[s].end # "Open"
               /\ s \in S /\ capture[s].end = "Open" =>
                     /\ F[s].end = e /\ F[s].kept = capture[s].kept
                     /\ F[s].cut = (capture[s].cut \/ e \in {"Stopped", "Failed"})
               /\ s \notin S => F[s] = capture[s]
    BY <1>1, <1>4, <1>6, <1>7
  <1>. QED  BY <1>5, <1>8 DEF Finished

LEMMA PumpWoken == HpTypes /\ tty' = tty /\ (pump' = pump \/ pump' = Woken(pump)) => PumpStays
  BY WokenTyped DEF HpTypes, PumpStays

\* The end of an output pump.
LEMMA OverTyped ==
    ASSUME HpTypes, NEW s \in Streams, NEW e \in (Ends \ {"Open"}) \cup {"none"}, OutputOver(s, e),
           pump[s] = "read", tty' = tty
    PROVE  /\ PumpStays /\ CaptureStays
           /\ \A p \in Pumps \ {s, "input"} : pump'[p] = pump[p]
           /\ pump'[s] = "done" /\ (pump'["input"] = "done" => pump["input"] = "done")
  <1>1. s \in Pumps /\ s # "input" /\ s \in AllStreams
    BY PumpsTyped DEF Streams
  <1>2. pump' = [pump EXCEPT ![s] = "done"] \/ pump' = [Woken(pump) EXCEPT ![s] = "done"]
    BY DEF OutputOver
  <1>3. /\ pump' \in [Pumps -> PumpPlaces] /\ pump'[s] = "done"
        /\ \A p \in Pumps \ {s} : pump'[p] = pump[p] \/ pump'[p] = Woken(pump)[p]
    BY <1>1, <1>2, WokenTyped DEF HpTypes, PumpPlaces
  <1>4. PumpStays
    BY <1>1, <1>3, WokenTyped DEF PumpStays
  <1>5. CaptureStays
    <2>1. CASE e = "none"
      BY <2>1, CaptureAlone DEF OutputOver
    <2>2. CASE e # "none"
      <3>1. Finished(capture', {s}, e)
        BY <2>2, FinishTyped DEF OutputOver
      <3>. QED  BY <3>1 DEF CaptureStays, Finished
    <2>. QED  BY <2>1, <2>2
  <1>6. \A p \in Pumps \ {s, "input"} : pump'[p] = pump[p]
    BY <1>3, WokenTyped
  <1>7. pump'["input"] = "done" => pump["input"] = "done"
    BY <1>1, <1>3, WokenTyped, PumpsTyped
  <1>. QED  BY <1>3, <1>4, <1>5, <1>6, <1>7

\* What the capture holds after more bytes.
LEMMA KeepTyped ==
    ASSUME HpTypes, NEW s \in AllStreams, NEW n \in Nat, CaptureLimit > 0 => Retained(capture) <= CaptureLimit
    PROVE  LET room == IF CaptureLimit = 0 THEN n ELSE CaptureLimit - Retained(capture)
               m == IF n < room THEN n ELSE room
           IN  /\ m \in Nat /\ m <= n
               /\ Keep(s, n) \in [AllStreams -> Caught]
               /\ Keep(s, n)[s].kept = capture[s].kept + m
               /\ Keep(s, n)[s].cut = (capture[s].cut \/ m # n)
               /\ Keep(s, n)[s].end = capture[s].end
               /\ \A r \in AllStreams \ {s} : Keep(s, n)[r] = capture[r]
               /\ Retained(Keep(s, n)) = Retained(capture) + m
               /\ CaptureLimit > 0 => Retained(Keep(s, n)) <= CaptureLimit
               /\ m # n => CaptureLimit > 0 /\ Retained(Keep(s, n)) = CaptureLimit
  <1>. DEFINE total == Retained(capture)
              room == IF CaptureLimit = 0 THEN n ELSE CaptureLimit - total
              m == IF n < room THEN n ELSE room
              K == Keep(s, n)
  <1>0. CaptureLimit \in Nat
    BY HandleConstants
  <1>1. \A r \in AllStreams : capture[r] \in Caught /\ capture[r].kept \in Nat
    BY DEF HpTypes, Caught
  <1>2. total \in Nat
    BY <1>1 DEF Retained, AllStreams
  <1>3. m \in Nat /\ m <= n /\ (CaptureLimit > 0 => total + m <= CaptureLimit)
        /\ (m # n => CaptureLimit > 0 /\ total + m = CaptureLimit)
    <2>. HIDE DEF total
    <2>. QED  BY <1>0, <1>2 DEF total
  <1>4. K = [capture EXCEPT ![s].kept = @ + m, ![s].cut = @ \/ m # n]
    BY DEF Keep
  <1>. HIDE DEF m, K
  <1>5. /\ K \in [AllStreams -> Caught] /\ K[s].kept = capture[s].kept + m
        /\ K[s].cut = (capture[s].cut \/ m # n) /\ K[s].end = capture[s].end
        /\ \A r \in AllStreams \ {s} : K[r] = capture[r]
    <2>. DEFINE v == capture[s].kept + m
                w == capture[s].cut \/ m # n
                x == [[capture[s] EXCEPT !.kept = v] EXCEPT !.cut = w]
    <2>1. v \in Nat /\ w \in BOOLEAN
      BY <1>1, <1>3 DEF Caught
    <2>2. capture \in [AllStreams -> Caught]
      BY DEF HpTypes
    <2>. HIDE DEF v, w
    <2>3. x \in Caught /\ x.kept = v /\ x.cut = w /\ x.end = capture[s].end
      BY <1>1, <2>1 DEF Caught
    <2>4. K = [capture EXCEPT ![s] = x]
      BY <1>4, <2>2 DEF v, w
    <2>. HIDE DEF x
    <2>5. K \in [AllStreams -> Caught] /\ K[s] = x /\ \A r \in AllStreams \ {s} : K[r] = capture[r]
      BY <2>2, <2>3, <2>4
    <2>. QED  BY <2>3, <2>5 DEF v, w
  <1>6. Retained(K) = total + m
    BY <1>1, <1>3, <1>5 DEF Retained, AllStreams
  <1>7. (CaptureLimit > 0 => Retained(K) <= CaptureLimit) /\ (m # n => CaptureLimit > 0 /\ Retained(K) = CaptureLimit)
    BY <1>3, <1>6
  <1>. QED  BY <1>3, <1>5, <1>6, <1>7 DEF m, K

\* Captures and what was read for them.
HpCapture ==
    /\ written \in [AllStreams -> Nat] /\ drained \in [AllStreams -> Nat]
    /\ \A s \in AllStreams : drained[s] <= written[s]
    /\ CaptureLimit > 0 => Retained(capture) <= CaptureLimit
    /\ \A s \in AllStreams : ~capture[s].cut => capture[s].kept = drained[s]
    /\ \A s \in AllStreams : capture[s].cut /\ capture[s].end \in {"Open", "Eof"} =>
                                CaptureLimit > 0 /\ Retained(capture) = CaptureLimit
    /\ \A s \in AllStreams : capture[s].end = "Eof" =>
                                /\ drained[s] = written[s] /\ Closed
                                /\ s \in Streams /\ pump[s] = "done"

LEMMA CaptureFrame ==
    ASSUME HpCapture, Settles, UNCHANGED <<written, drained, capture>>
    PROVE  HpCapture'
  <1>1. Pumps' = Pumps /\ Streams' = Streams
    BY DEF Settles, PumpStays, Pumps, Streams
  <1>2. \A s \in AllStreams : capture'[s].end = "Eof" =>
            drained'[s] = written'[s] /\ Closed' /\ s \in Streams' /\ pump'[s] = "done"
    BY <1>1, PumpsTyped DEF HpCapture, Settles, PumpStays, ChildStays
  <1>3. Retained(capture') = Retained(capture)
    OBVIOUS
  <1>. QED  BY <1>2, <1>3 DEF HpCapture

LEMMA CaptureForced ==
    ASSUME HpTypes, HpCapture, Settles, UNCHANGED <<written, drained>>, NEW S,
                                                    NEW e \in {"Stopped", "Failed"},
           capture' = Finish(capture, S, e)
    PROVE  HpCapture'
  <1>1. Pumps' = Pumps /\ Streams' = Streams
    BY DEF Settles, PumpStays, Pumps, Streams
  <1>2. \A s \in AllStreams : /\ capture'[s].kept = capture[s].kept
                              /\ capture'[s] = capture[s] \/ (capture'[s].cut /\ capture'[s].end = e)
    <2>1. e \in Ends \ {"Open"} /\ (e \in {"Stopped", "Failed"}) = TRUE
      BY DEF Ends
    <2>2. \A s \in AllStreams :
            /\ capture[s].end # "Open" => capture'[s] = capture[s]
            /\ s \in S /\ capture[s].end = "Open" =>
                  /\ capture'[s].end = e /\ capture'[s].kept = capture[s].kept
                  /\ capture'[s].cut = (capture[s].cut \/ e \in {"Stopped", "Failed"})
            /\ s \notin S => capture'[s] = capture[s]
      BY <2>1, FinishTyped DEF Finished
    <2>. QED  BY <2>1, <2>2
  <1>3. Retained(capture') = Retained(capture)
    BY <1>2 DEF Retained, AllStreams
  <1>4. \A s \in AllStreams : capture'[s].end = "Eof" =>
            drained'[s] = written'[s] /\ Closed' /\ s \in Streams' /\ pump'[s] = "done"
    BY <1>1, <1>2, PumpsTyped DEF HpCapture, Settles, PumpStays, ChildStays
  <1>5. \A s \in AllStreams : ~capture'[s].cut => capture'[s].kept = drained'[s]
    BY <1>2 DEF HpCapture
  <1>6. \A s \in AllStreams : capture'[s].cut /\ capture'[s].end \in {"Open", "Eof"} =>
                                CaptureLimit > 0 /\ Retained(capture') = CaptureLimit
    BY <1>2, <1>3 DEF HpCapture
  <1>. QED  BY <1>3, <1>4, <1>5, <1>6 DEF HpCapture

HpInv == HpTypes /\ HpFence /\ HpCapture

\* A step that leaves shutdowns and captures alone.
LEMMA CalmStep ==
    ASSUME HpInv, Settles, UNCHANGED <<shut, written, drained, capture>>
    PROVE  HpInv'
  BY SettledFence, CaptureFrame DEF HpInv

LEMMA ChildMoves ==
    ASSUME HpTypes, \/ Running /\ Killed
                    \/ child' = Probed /\ heir' = heir
                    \/ UNCHANGED <<child, heir>>
                    \/ child = "alive" /\ child' = "zombie" /\ heir' \in BOOLEAN
                    \/ child' = child /\ heir' = FALSE
    PROVE  ChildStays
  <1>1. child' \in {"alive", "zombie", "reaped"} /\ (child = "reaped" => child' = "reaped")
    BY DEF HpTypes, Running, Killed, Probed
  <1>2. heir' \in BOOLEAN
    BY DEF HpTypes, Running, Killed
  <1>3. child # "alive" => child' # "alive"
    BY DEF HpTypes, Running, Killed, Probed
  <1>4. child # "alive" /\ heir = FALSE => heir' = FALSE
    BY DEF HpTypes, Running, Killed
  <1>5. heir \in BOOLEAN
    BY DEF HpTypes
  <1>. QED  BY <1>1, <1>2, <1>3, <1>4, <1>5, Zenon DEF ChildStays, Closed

LEMMA ChildExitsHp == HpInv /\ ChildExits => HpInv'
  <1>. SUFFICES ASSUME HpInv, ChildExits PROVE HpInv'
    OBVIOUS
  <1>1. UNCHANGED <<tty, pump, final, watcher, waiter, shut, written, drained, capture>>
    BY DEF ChildExits, outputVars, watchVars
  <1>2. ChildStays
    BY ChildMoves DEF ChildExits, HpInv
  <1>. QED  BY <1>1, <1>2, CalmStep, PumpAlone, CaptureAlone, WatchAlone DEF HpInv, Settles

LEMMA HeirExitsHp == HpInv /\ HeirExits => HpInv'
  <1>. SUFFICES ASSUME HpInv, HeirExits PROVE HpInv'
    OBVIOUS
  <1>1. UNCHANGED <<tty, pump, final, watcher, waiter, shut, written, drained, capture>>
    BY DEF HeirExits, outputVars, watchVars
  <1>2. ChildStays
    BY ChildMoves DEF HeirExits, HpInv
  <1>. QED  BY <1>1, <1>2, CalmStep, PumpAlone, CaptureAlone, WatchAlone DEF HpInv, Settles

LEMMA ProbeHp == HpInv /\ (Probe \/ PidfdReports) => HpInv'
  <1>. SUFFICES ASSUME HpInv, Probe \/ PidfdReports PROVE HpInv'
    OBVIOUS
  <1>1. UNCHANGED <<tty, pump, waiter, shut, written, drained, capture>>
    BY DEF Probe, PidfdReports, outputVars, Rearm, Record, WatcherFails
  <1>2. ChildStays
    BY ChildMoves DEF Probe, PidfdReports, Record, WatcherFails, Rearm, HpInv
  <1>3. WatchStays
    BY <1>1 DEF Probe, PidfdReports, Record, WatcherFails, Rearm, HpInv, HpTypes, WatchStays,
    WatcherActive
  <1>. QED  BY <1>1, <1>2, <1>3, CalmStep, PumpAlone, CaptureAlone DEF HpInv, Settles

LEMMA WatcherClosesHp == HpInv /\ WatcherCloses => HpInv'
  <1>. SUFFICES ASSUME HpInv, WatcherCloses PROVE HpInv'
    OBVIOUS
  <1>1. UNCHANGED <<tty, child, heir, shut, written, drained,
                    capture>> /\ (pump' = pump \/ pump' = Woken(pump))
    BY DEF WatcherCloses, outputVars, childVars
  <1>2. WatchStays
    BY DEF WatcherCloses, HpInv, HpTypes, WatchStays, WatcherActive
  <1>. QED  BY <1>1, <1>2, CalmStep, PumpWoken, CaptureAlone, ChildAlone DEF HpInv, Settles

LEMMA WaiterHp == HpInv /\ (AwaitInitial \/ InitialOver \/ WindowOver) => HpInv'
  <1>. SUFFICES ASSUME HpInv, AwaitInitial \/ InitialOver \/ WindowOver PROVE HpInv'
    OBVIOUS
  <1>1. UNCHANGED <<tty, pump, shut, written, drained, capture>>
    BY DEF AwaitInitial, InitialOver, WindowOver, outputVars, childVars
  <1>2. ChildStays
    BY ChildMoves DEF AwaitInitial, InitialOver, WindowOver, childVars, HpInv
  <1>3. WatchStays
    BY DEF AwaitInitial, InitialOver, WindowOver, Waiting, HpInv, HpTypes, WatchStays,
    WatcherActive
  <1>. QED  BY <1>1, <1>2, <1>3, CalmStep, PumpAlone, CaptureAlone DEF HpInv, Settles

LEMMA SignalHp == ASSUME NEW kill PROVE HpInv /\ SignalChild(kill) => HpInv'
  <1>. SUFFICES ASSUME HpInv, SignalChild(kill) PROVE HpInv'
    OBVIOUS
  <1>1. UNCHANGED <<tty, pump, final, watcher, waiter, shut, written, drained, capture>>
    BY DEF SignalChild, outputVars, watchVars
  <1>2. ChildStays
    BY ChildMoves DEF SignalChild, HpInv
  <1>. QED  BY <1>1, <1>2, CalmStep, PumpAlone, CaptureAlone, WatchAlone DEF HpInv, Settles

LEMMA InputHp == HpInv /\ (InputTask \/ WriteInput \/ CloseInput) => HpInv'
  <1>. SUFFICES ASSUME HpInv, InputTask \/ WriteInput \/ CloseInput PROVE HpInv'
    OBVIOUS
  <1>1. CASE InputTask
    <2>1. UNCHANGED <<written, drained, capture>>
      BY <1>1, InputTaskPump DEF HpInv, outputVars, childVars
    <2>. QED  BY <1>1, <2>1, InputTaskSettles, CalmStep DEF HpInv
  <1>2. CASE WriteInput \/ CloseInput
    <2>1. UNCHANGED <<tty, child, heir, final, watcher, waiter, shut, written, drained, capture>>
          /\ (pump' = pump \/ pump' = Woken(pump))
      BY <1>2 DEF WriteInput, CloseInput, outputVars, childVars, watchVars
    <2>. QED
      BY <2>1, CalmStep, PumpWoken, CaptureAlone, ChildAlone, WatchAlone DEF HpInv, Settles
  <1>. QED  BY <1>1, <1>2

LEMMA ChildWritesHp == ASSUME NEW s PROVE HpInv /\ ChildWrites(s) => HpInv'
  <1>. SUFFICES ASSUME HpInv, ChildWrites(s) PROVE HpInv'
    OBVIOUS
  <1>1. UNCHANGED <<tty, pump, child, heir, final, watcher, waiter, shut, drained, capture>>
    BY DEF ChildWrites, outputVars, watchVars
  <1>2. Settles
    BY <1>1, PumpAlone, CaptureAlone, ChildAlone, WatchAlone DEF HpInv, Settles
  <1>3. HpTypes' /\ HpFence'
    BY <1>1, <1>2, SettledFence DEF HpInv
  <1>4. s \in AllStreams /\ ~Closed /\ written' = [written EXCEPT ![s] = @ + 1]
    BY PumpsTyped DEF ChildWrites, Closed
  <1>5. written' \in [AllStreams -> Nat] /\ \A r \in AllStreams : drained'[r] <= written'[r]
    BY <1>1, <1>4 DEF HpInv, HpCapture
  <1>6. \A r \in AllStreams : capture'[r].end # "Eof"
    BY <1>1, <1>4 DEF HpInv, HpCapture
  <1>7. HpCapture'
    BY <1>1, <1>5, <1>6 DEF HpInv, HpCapture
  <1>. QED  BY <1>3, <1>7 DEF HpInv

\* One caller of shutdown() moves on.
LEMMA FenceMoves ==
    ASSUME HpTypes, HpFence, Settles, NEW c \in AllCallers, NEW x \in ShutPlaces \ {"idle"},
           shut' = [shut EXCEPT ![c] = x],
           pump["input"] # "none" \/ shut'["start"] # "idle",
           x \in {"join", "watch", "ok", "threw"} => Complete',
           x \in {"watch", "ok", "threw"} => ActiveTasks' = {},
           x \in {"ok", "threw"} => ~WatcherActive' /\ waiter' # "active",
           x = "ok" => child' = "reaped" /\ final'
    PROVE  HpTypes' /\ HpFence'
  <1>1. Pumps' = Pumps /\ Streams' = Streams
    BY DEF Settles, PumpStays, Pumps, Streams
  <1>2. shut' \in [AllCallers -> ShutPlaces] /\ shut'[c] = x /\ (\A d \in AllCallers \ {c} : shut'[d] = shut[d])
    BY DEF HpTypes
  <1>3. HpTypes'
    BY <1>1, <1>2 DEF HpTypes, Settles, PumpStays, CaptureStays, ChildStays, WatchStays
  <1>4. Complete => Complete'
    BY <1>1, PumpsTyped DEF Complete, Settles, CaptureStays
  <1>5. ActiveTasks = {} => ActiveTasks' = {}
    BY <1>1 DEF ActiveTasks, Settles, PumpStays
  <1>6. pump'["input"] = "none" => \A p \in Pumps' : pump'[p] = "none"
    BY <1>1, PumpsTyped DEF HpFence, Settles, PumpStays
  <1>7. pump["input"] # "none" => pump'["input"] # "none"
    BY PumpsTyped DEF Settles, PumpStays
  <1>8. ~WatcherActive /\ waiter # "active" => ~WatcherActive' /\ waiter' # "active"
    BY DEF Settles, WatchStays
  <1>9. child = "reaped" /\ final => child' = "reaped" /\ final'
    BY DEF Settles, ChildStays, WatchStays
  <1>10. pump'["input"] # "none" \/ shut'["start"] # "idle"
    BY <1>7
  <1>. QED  BY <1>2, <1>3, <1>4, <1>5, <1>6, <1>8, <1>9, <1>10 DEF HpFence

LEMMA BeginShutdownHp == ASSUME NEW c \in AllCallers PROVE HpInv /\ BeginShutdown(c) => HpInv'
  <1>. SUFFICES ASSUME HpInv, BeginShutdown(c) PROVE HpInv'
    OBVIOUS
  <1>1. UNCHANGED <<tty, pump, child, heir, final, watcher, waiter, written, drained, capture>>
    BY DEF BeginShutdown, outputVars, watchVars, childVars
  <1>2. Settles
    BY <1>1, PumpAlone, CaptureAlone, ChildAlone, WatchAlone DEF HpInv, Settles
  <1>3. shut' = [shut EXCEPT ![c] = "stop"] /\ (pump["input"] # "none" \/ shut["start"] \in {"ok", "threw"})
        /\ shut[c] = "idle"
    BY DEF BeginShutdown, At
  <1>4. pump["input"] # "none" \/ shut'["start"] # "idle"
    BY <1>3 DEF HpInv, HpTypes, AllCallers
  <1>5. HpTypes' /\ HpFence'
    BY <1>2, <1>3, <1>4, FenceMoves DEF HpInv, ShutPlaces
  <1>. QED  BY <1>1, <1>2, <1>5, CaptureFrame DEF HpInv

\* A shutdown that is under way was begun after the start.
LEMMA Begun ==
    ASSUME HpInv, NEW c \in AllCallers, shut[c] # "idle", NEW x \in ShutPlaces \ {"idle"},
           shut' = [shut EXCEPT ![c] = x]
    PROVE  pump["input"] # "none" \/ shut'["start"] # "idle"
  BY DEF HpInv, HpFence, HpTypes, AllCallers

LEMMA ShutStopsHp == ASSUME NEW c \in AllCallers PROVE HpInv /\ ShutStops(c) => HpInv'
  <1>. SUFFICES ASSUME HpInv, ShutStops(c) PROVE HpInv'
    OBVIOUS
  <1>1. UNCHANGED <<tty, final, watcher, waiter, written, drained,
                    capture>> /\ pump' = Woken(pump)
    BY DEF ShutStops, outputVars
  <1>2. ChildStays
    <2>1. \/ Running /\ Killed
          \/ child' = Probed /\ heir' = heir
          \/ UNCHANGED <<child, heir>>
      BY DEF ShutStops
    <2>. QED  BY <2>1, ChildMoves DEF HpInv
  <1>3. Settles
    BY <1>1, <1>2, PumpWoken, CaptureAlone, WatchAlone DEF HpInv, Settles
  <1>4. shut' = [shut EXCEPT ![c] = "drain"] /\ shut[c] = "stop" /\ "drain" \in ShutPlaces \ {"idle"}
    BY DEF ShutStops, At, ShutPlaces
  <1>5. pump["input"] # "none" \/ shut'["start"] # "idle"
    BY <1>4, Begun
  <1>6. HpTypes' /\ HpFence'
    BY <1>3, <1>4, <1>5, FenceMoves DEF HpInv
  <1>. QED  BY <1>1, <1>3, <1>6, CaptureFrame DEF HpInv

LEMMA ShutAbortsHp == ASSUME NEW c \in AllCallers PROVE HpInv /\ ShutAborts(c) => HpInv'
  <1>. SUFFICES ASSUME HpInv, ShutAborts(c) PROVE HpInv'
    OBVIOUS
  <1>1. UNCHANGED <<tty, child, heir, final, watcher, waiter, written,
                    drained>> /\ pump' = Woken(pump)
        /\ capture' = Finish(capture, Streams, "Stopped")
    BY DEF ShutAborts, Abort, childVars, watchVars
  <1>2. "Stopped" \in Ends \ {"Open"}
    BY DEF Ends
  <1>3. Finished(capture', Streams, "Stopped")
    BY <1>1, <1>2, FinishTyped DEF HpInv
  <1>4. CaptureStays
    BY <1>3 DEF Finished, CaptureStays
  <1>5. Settles
    BY <1>1, <1>4, PumpWoken, ChildAlone, WatchAlone DEF HpInv, Settles
  <1>6. shut' = [shut EXCEPT ![c] = "join"] /\ shut[c] = "drain" /\ "join" \in ShutPlaces \ {"idle"}
    BY DEF ShutAborts, At, ShutPlaces
  <1>7. pump["input"] # "none" \/ shut'["start"] # "idle"
    BY <1>6, Begun
  <1>8. Complete'
    BY <1>1, <1>3, PumpsTyped DEF Complete, Finished, Streams
  <1>9. HpTypes' /\ HpFence'
    BY <1>5, <1>6, <1>7, <1>8, FenceMoves DEF HpInv
  <1>. QED  BY <1>1, <1>5, <1>9, CaptureForced DEF HpInv

LEMMA ShutJoinsHp == ASSUME NEW c \in AllCallers PROVE HpInv /\ ShutJoins(c) => HpInv'
  <1>. SUFFICES ASSUME HpInv, ShutJoins(c) PROVE HpInv'
    OBVIOUS
  <1>1. UNCHANGED <<tty, pump, child, heir, final, watcher, waiter, written, drained, capture>>
    BY DEF ShutJoins, outputVars, childVars
  <1>2. Settles
    BY <1>1, PumpAlone, CaptureAlone, ChildAlone, WatchAlone DEF HpInv, Settles
  <1>3. shut' = [shut EXCEPT ![c] = "watch"] /\ shut[c] = "join" /\ "watch" \in ShutPlaces \ {"idle"}
    BY DEF ShutJoins, At, ShutPlaces
  <1>4. pump["input"] # "none" \/ shut'["start"] # "idle"
    BY <1>3, Begun
  <1>5. Complete' /\ ActiveTasks' = {}
    BY <1>1, <1>3 DEF ShutJoins, ActiveTasks, Complete, Streams, Pumps, HpInv, HpFence
  <1>6. HpTypes' /\ HpFence'
    BY <1>2, <1>3, <1>4, <1>5, FenceMoves DEF HpInv
  <1>. QED  BY <1>1, <1>2, <1>6, CaptureFrame DEF HpInv

LEMMA ShutRecoversHp == ASSUME NEW c \in AllCallers PROVE HpInv /\ ShutRecovers(c) => HpInv'
  <1>. SUFFICES ASSUME HpInv, ShutRecovers(c) PROVE HpInv'
    OBVIOUS
  <1>1. UNCHANGED <<tty, pump, watcher, waiter, written, drained, capture>>
    BY DEF ShutRecovers, outputVars
  <1>2. ChildStays
    <2>1. \/ Running /\ Killed
          \/ child' = Probed /\ heir' = heir
          \/ UNCHANGED <<child, heir>>
      BY DEF ShutRecovers
    <2>. QED  BY <2>1, ChildMoves DEF HpInv
  <1>3. ~WatcherActive /\ waiter # "active" /\ shut[c] = "watch"
    BY DEF ShutRecovers
  <1>4. WatchStays
    <2>0. final' = TRUE \/ final' = final
      BY DEF ShutRecovers
    <2>1. final' \in BOOLEAN /\ (final => final')
      BY <2>0, Zenon DEF HpInv, HpTypes
    <2>2. /\ watcher' \in {"none", "first", "wait", "close", "done"} /\ waiter' \in {"no", "active", "over"}
          /\ ~WatcherActive => ~WatcherActive'
          /\ waiter' = "active" => waiter = "active" \/ WatcherActive
      BY <1>1 DEF WatcherActive, HpInv, HpTypes
    <2>. QED  BY <2>1, <2>2 DEF WatchStays
  <1>5. Settles
    BY <1>1, <1>2, <1>4, PumpAlone, CaptureAlone DEF HpInv, Settles
  <1>. DEFINE x == IF lifecycleFailure' THEN "threw" ELSE "ok"
  <1>6. shut' = [shut EXCEPT ![c] = x] /\ x \in {"ok", "threw"} /\ x \in ShutPlaces \ {"idle"}
    BY DEF ShutRecovers, ShutPlaces
  <1>7. x = "ok" => child' = "reaped" /\ final'
    BY DEF ShutRecovers, HpInv, HpTypes, Running, Killed, Probed
  <1>8. Complete' /\ ActiveTasks' = {} /\ ~WatcherActive' /\ waiter' # "active"
    BY <1>1, <1>3 DEF ActiveTasks, Complete, Streams, Pumps, WatcherActive, HpInv, HpFence
  <1>. HIDE DEF x
  <1>9. pump["input"] # "none" \/ shut'["start"] # "idle"
    BY <1>3, <1>6, Begun
  <1>10. HpTypes' /\ HpFence'
    BY <1>5, <1>6, <1>7, <1>8, <1>9, FenceMoves DEF HpInv
  <1>. QED  BY <1>1, <1>5, <1>10, CaptureFrame DEF HpInv

LEMMA StartFailsHp == HpInv /\ StartFails => HpInv'
  <1>. SUFFICES ASSUME HpInv, StartFails PROVE HpInv'
    OBVIOUS
  <1>1. UNCHANGED <<tty, pump, child, heir, final, watcher, waiter, written, drained>>
        /\ capture' = Finish(capture, Streams, "Stopped")
    BY DEF StartFails, childVars
  <1>2. "Stopped" \in Ends \ {"Open"}
    BY DEF Ends
  <1>3. Finished(capture', Streams, "Stopped")
    BY <1>1, <1>2, FinishTyped DEF HpInv
  <1>4. CaptureStays
    BY <1>3 DEF Finished, CaptureStays
  <1>5. Settles
    BY <1>1, <1>4, PumpAlone, ChildAlone, WatchAlone DEF HpInv, Settles
  <1>6. shut' = [shut EXCEPT !["start"] = "stop"] /\ "stop" \in ShutPlaces \ {"idle"} /\ "start" \in AllCallers
    BY DEF StartFails, ShutPlaces, AllCallers
  <1>7. shut'["start"] # "idle"
    BY <1>6 DEF HpInv, HpTypes
  <1>8. HpTypes' /\ HpFence'
    BY <1>5, <1>6, <1>7, FenceMoves DEF HpInv
  <1>. QED  BY <1>1, <1>5, <1>8, CaptureForced DEF HpInv

LEMMA StartIoHp == HpInv /\ StartIo => HpInv'
  <1>. SUFFICES ASSUME HpInv, StartIo PROVE HpInv'
    OBVIOUS
  <1>1. UNCHANGED <<tty, child, heir, final, waiter, written, drained, capture,
                    shut>> /\ watcher' = "first"
        /\ pump' = [p \in Pumps |-> IF p = "input" THEN "woken" ELSE "read"]
    BY DEF StartIo, childVars, outputVars
  <1>2. \A c \in AllCallers : shut[c] = "idle"
    BY DEF StartIo, HpInv, HpFence
  <1>3. Pumps' = Pumps /\ Streams' = Streams /\ Closed' = Closed
    BY <1>1 DEF Pumps, Streams, Closed
  <1>4. pump' \in [Pumps -> PumpPlaces] /\ pump'["input"] # "none"
    BY <1>1, PumpsTyped DEF PumpPlaces
  <1>5. HpTypes'
    BY <1>1, <1>3, <1>4 DEF HpInv, HpTypes
  <1>6. HpFence'
    BY <1>1, <1>2, <1>4 DEF HpFence
  <1>7. \A s \in AllStreams : capture[s].end # "Eof"
    <2>1. \A p \in Pumps : pump[p] # "done"
      BY DEF StartIo, HpInv, HpFence
    <2>. QED  BY <2>1, PumpsTyped DEF HpInv, HpCapture
  <1>8. HpCapture'
    BY <1>1, <1>7 DEF HpInv, HpCapture
  <1>. QED  BY <1>5, <1>6, <1>8 DEF HpInv

LEMMA ReadHp == ASSUME NEW s \in AllStreams PROVE HpInv /\ OutputTask(s) => HpInv'
  <1>. SUFFICES ASSUME HpInv, OutputTask(s) PROVE HpInv'
    OBVIOUS
  <1>0. s \in Streams /\ Read(s) /\ pump[s] = "read" /\ s \in Pumps
    BY PumpsTyped DEF OutputTask, Read
  <1>1. UNCHANGED <<tty, child, heir, final, watcher, waiter, written, shut>>
    BY <1>0 DEF Read, childVars, watchVars
  <1>2. CASE /\ drained[s] < written[s] /\ drained' = [drained EXCEPT ![s] = written[s]]
             /\ capture' = Keep(s, written[s] - drained[s]) /\ pump' = pump
    <2>. DEFINE n == written[s] - drained[s]
                room == IF CaptureLimit = 0 THEN n ELSE CaptureLimit - Retained(capture)
                m == IF n < room THEN n ELSE room
    <2>1. n \in Nat /\ written[s] \in Nat /\ drained[s] \in Nat /\ drained[s] + n = written[s]
      BY <1>2 DEF HpInv, HpCapture
    <2>2. /\ m \in Nat /\ m <= n
          /\ capture' \in [AllStreams -> Caught]
          /\ capture'[s].kept = capture[s].kept + m
          /\ capture'[s].cut = (capture[s].cut \/ m # n)
          /\ capture'[s].end = capture[s].end
          /\ \A r \in AllStreams \ {s} : capture'[r] = capture[r]
          /\ Retained(capture') = Retained(capture) + m
          /\ CaptureLimit > 0 => Retained(capture') <= CaptureLimit
          /\ m # n => CaptureLimit > 0 /\ Retained(capture') = CaptureLimit
      <3>1. CaptureLimit > 0 => Retained(capture) <= CaptureLimit
        BY DEF HpInv, HpCapture
      <3>. HIDE DEF n
      <3>. QED  BY <1>2, <2>1, <3>1, KeepTyped DEF HpInv, n
    <2>. HIDE DEF n, m
    <2>3. Settles
      <3>1. CaptureStays
        BY <2>2 DEF CaptureStays
      <3>. QED  BY <1>1, <1>2, <3>1, PumpAlone, ChildAlone, WatchAlone DEF HpInv, Settles
    <2>4. HpTypes' /\ HpFence'
      BY <1>1, <2>3, SettledFence DEF HpInv
    <2>5. drained' \in [AllStreams -> Nat] /\ drained'[s] = written[s] /\ \A r \in AllStreams \ {s} : drained'[r] = drained[r]
      BY <1>2, <2>1 DEF HpInv, HpCapture
    <2>6. \A r \in AllStreams : drained'[r] <= written'[r]
      BY <1>1, <2>1, <2>5 DEF HpInv, HpCapture
    <2>7. \A r \in AllStreams : ~capture'[r].cut => capture'[r].kept = drained'[r]
      <3>1. ~capture[s].cut => capture[s].kept = drained[s]
        BY DEF HpInv, HpCapture
      <3>2. ~capture'[s].cut => capture'[s].kept = drained'[s]
        <4>1. ~capture'[s].cut => ~capture[s].cut /\ m = n
          BY <2>2
        <4>. QED  BY <2>1, <2>2, <2>5, <3>1, <4>1
      <3>. QED  BY <2>2, <2>5, <3>2 DEF HpInv, HpCapture
    <2>8. \A r \in AllStreams : capture'[r].cut /\ capture'[r].end \in {"Open", "Eof"} =>
                                CaptureLimit > 0 /\ Retained(capture') = CaptureLimit
      <3>1. ASSUME NEW r \in AllStreams, capture[r].cut, capture[r].end \in {"Open", "Eof"}
            PROVE  CaptureLimit > 0 /\ Retained(capture') = CaptureLimit
        <4>1. CaptureLimit > 0 /\ Retained(capture) = CaptureLimit
          BY <3>1 DEF HpInv, HpCapture
        <4>. DEFINE t == Retained(capture')
        <4>2. t = CaptureLimit + m /\ t <= CaptureLimit
          BY <2>2, <4>1
        <4>. HIDE DEF t
        <4>3. t = CaptureLimit
          BY <2>2, <4>2, HandleConstants
        <4>. QED  BY <4>1, <4>3 DEF t
      <3>2. ASSUME NEW r \in AllStreams, capture'[r].cut, capture'[r].end \in {"Open", "Eof"}, ~capture[r].cut
            PROVE  m # n
        BY <2>2, <3>2
      <3>3. \A r \in AllStreams : capture'[r].end = capture[r].end
        BY <2>2
      <3>. QED  BY <2>2, <3>1, <3>2, <3>3
    <2>9. \A r \in AllStreams : capture'[r].end = "Eof" =>
                                drained'[r] = written'[r] /\ Closed' /\ r \in Streams' /\ pump'[r] = "done"
      <3>1. capture[s].end # "Eof"
        BY <1>0 DEF HpInv, HpCapture
      <3>2. Streams' = Streams /\ Closed' = Closed
        BY <1>1 DEF Streams, Closed
      <3>. QED  BY <1>1, <1>2, <2>2, <2>5, <3>1, <3>2 DEF HpInv, HpCapture
    <2>10. HpCapture'
      BY <1>1, <2>2, <2>5, <2>6, <2>7, <2>8, <2>9 DEF HpInv, HpCapture
    <2>. QED  BY <2>4, <2>10 DEF HpInv
  <1>3. CASE \E e \in {"none", "Eof", "Failed"} : OutputOver(s, e) /\ (e = "Eof" => drained[s] = written[s] /\ Closed)
    <2>1. PICK e \in {"none", "Eof", "Failed"} : OutputOver(s, e) /\ (e = "Eof" => drained[s] = written[s] /\ Closed)
      BY <1>3
    <2>2. PumpStays /\ CaptureStays /\ pump'[s] = "done"
      BY <1>0, <1>1, <2>1, OverTyped DEF HpInv, Ends
    <2>3. Settles
      BY <1>1, <2>2, ChildAlone, WatchAlone DEF HpInv, Settles
    <2>4. HpTypes' /\ HpFence'
      BY <1>1, <2>3, SettledFence DEF HpInv
    <2>5. drained' = drained
      BY <2>1 DEF OutputOver
    <2>6. CASE e = "none"
      BY <1>1, <2>1, <2>3, <2>4, <2>5, <2>6, CaptureFrame DEF OutputOver, HpInv
    <2>7. CASE e = "Failed"
      BY <1>1, <2>1, <2>3, <2>4, <2>5, <2>7, CaptureForced DEF OutputOver, HpInv
    <2>8. CASE e = "Eof"
      <3>1. Finished(capture', {s}, "Eof")
        BY <2>1, <2>8, FinishTyped DEF OutputOver, Ends, HpInv
      <3>2. \A r \in AllStreams : /\ capture'[r].kept = capture[r].kept
                                  /\ capture'[r].end = "Eof" => capture[r].end = "Eof" \/ r = s
                                  /\ capture'[r].end \in {"Open", "Eof"} => capture[r].end \in {"Open", "Eof"}
        <4>1. \A r \in AllStreams : capture'[r] = capture[r] \/ (r = s /\ capture'[r].end = "Eof" /\ capture[r].end = "Open" /\ capture'[r].kept = capture[r].kept)
          BY <3>1 DEF Finished
        <4>. QED  BY <4>1
      <3>3. \A r \in AllStreams : capture'[r].cut <=> capture[r].cut
        BY <3>1 DEF Finished, HpInv, HpTypes, Caught
      <3>4. Retained(capture') = Retained(capture)
        BY <3>2 DEF Retained, AllStreams
      <3>5. Streams' = Streams /\ Closed' = Closed /\ Pumps' = Pumps
        BY <1>1 DEF Streams, Closed, Pumps
      <3>6. \A r \in AllStreams : capture'[r].end = "Eof" =>
                                drained'[r] = written'[r] /\ Closed' /\ r \in Streams' /\ pump'[r] = "done"
        <4>1. \A r \in AllStreams : capture[r].end = "Eof" => pump'[r] = "done"
          BY <2>2, PumpsTyped DEF PumpStays, HpInv, HpCapture
        <4>. QED  BY <1>0, <1>1, <2>1, <2>2, <2>5, <2>8, <3>2, <3>5, <4>1 DEF HpInv, HpCapture
      <3>7. HpCapture'
        BY <1>1, <2>5, <3>2, <3>3, <3>4, <3>6 DEF HpInv, HpCapture
      <3>. QED  BY <2>4, <3>7 DEF HpInv
    <2>. QED  BY <2>6, <2>7, <2>8
  <1>. QED  BY <1>0, <1>2, <1>3 DEF Read

LEMMA InitHp == HandleInit => HpInv
  <1>. SUFFICES ASSUME HandleInit PROVE HpInv
    OBVIOUS
  <1>1. HpTypes
    BY DEF HandleInit, HpTypes, PumpPlaces, ShutPlaces, AllCallers, Caught, Ends
  <1>2. HpFence
    BY PumpsTyped DEF HandleInit, HpFence, AllCallers
  <1>3. \A s \in AllStreams : written[s] = 0 /\ drained[s] = 0 /\ capture[s].kept = 0 /\ capture[s].cut = FALSE
                              /\ capture[s].end = "Open"
    BY DEF HandleInit
  <1>4. Retained(capture) = 0
    BY <1>3 DEF Retained, AllStreams
  <1>5. written \in [AllStreams -> Nat] /\ drained \in [AllStreams -> Nat]
    BY DEF HandleInit
  <1>6. HpCapture
    BY <1>3, <1>4, <1>5, HandleConstants DEF HpCapture
  <1>. QED  BY <1>1, <1>2, <1>6 DEF HpInv

LEMMA NextHp == HpInv /\ [HandleNext]_handleVars => HpInv'
  <1>. SUFFICES ASSUME HpInv, [HandleNext]_handleVars PROVE HpInv'
    OBVIOUS
  <1>1. CASE UNCHANGED handleVars
    <2>1. UNCHANGED <<tty, pump, child, heir, final, watcher, waiter, shut, written, drained,
                      capture>>
      BY <1>1 DEF handleVars, childVars, outputVars, watchVars
    <2>. QED
      BY <2>1, CalmStep, PumpAlone, CaptureAlone, ChildAlone, WatchAlone DEF HpInv, Settles
  <1>2. ASSUME NEW c \in Callers \cup {"start"}, BeginShutdown(c) \/ ShutdownStep(c) PROVE HpInv'
    BY <1>2, BeginShutdownHp, ShutStopsHp, ShutAbortsHp, ShutJoinsHp, ShutRecoversHp
    DEF ShutdownStep, AllCallers
  <1>3. ASSUME NEW s \in AllStreams, OutputTask(s) \/ ChildWrites(s) PROVE HpInv'
    BY <1>3, ReadHp, ChildWritesHp
  <1>. QED
    BY <1>1, <1>2, <1>3, StartIoHp, StartFailsHp, InputHp, ChildExitsHp, HeirExitsHp, ProbeHp,
             WatcherClosesHp, WaiterHp, SignalHp DEF HandleNext, Watcher

LEMMA HpFacts == HpInv => JoinFence /\ CaptureTruth
  <1>. SUFFICES ASSUME HpInv PROVE JoinFence /\ CaptureTruth
    OBVIOUS
  <1>1. DOMAIN shut = AllCallers
    BY DEF HpInv, HpTypes
  <1>2. JoinFence
    BY <1>1 DEF HpInv, HpFence, JoinFence
  <1>3. CaptureTruth
    BY PumpsTyped DEF HpInv, HpCapture, CaptureTruth
  <1>. QED  BY <1>2, <1>3

(***************************************************************************)
(* The input of the child.                                                 *)
(***************************************************************************)
\* What is still to be written: the queue continues what the child has received
\* and what is in flight.
Run(q, n, m) == m = n + Len(q) /\ \A k \in 1 .. Len(q) : q[k] = n + k

Continues(i, p, d, a) ==
    /\ p # "write" => Run(i.queue, Len(d), Len(a))
    /\ p = "write" => i.flight = Len(d) + 1 /\ Run(i.queue, Len(d) + 1, Len(a))
    /\ p = "eof" => i.queue = <<>> /\ i.ending

LEMMA RunAppends ==
    ASSUME NEW q \in Seq(Nat), NEW n \in Nat, NEW m \in Nat, Run(q, n, m)
    PROVE  Append(q, m + 1) \in Seq(Nat) /\ Run(Append(q, m + 1), n, m + 1)
  BY DEF Run

LEMMA RunHeads ==
    ASSUME NEW q \in Seq(Nat), NEW n \in Nat, NEW m \in Nat, Run(q, n, m), q # <<>>
    PROVE  Head(q) = n + 1 /\ Tail(q) \in Seq(Nat) /\ Run(Tail(q), n + 1, m)
  BY DEF Run

InSound(i, p, d, a) ==
    /\ i \in Fed /\ d \in Seq(Nat) /\ a \in Seq(Nat)
    /\ \A j \in 1 .. Len(a) : a[j] = j
    /\ \A j \in 1 .. Len(d) : d[j] = j
    /\ Len(d) <= Len(a)
    /\ i.stopped \/ i.ending \/ p \in {"none", "done"} => ~i.accepting
    /\ i.phase = "Ended" => Len(d) = Len(a) /\ p = "done"
    /\ p = "none" => i.phase \notin {"Open", "EndRequested", "Ended"} /\ ~i.ending
    /\ ~i.stopped /\ p # "done" => Continues(i, p, d, a)

\* The writer's place after a wake.
Wakes(p, q) == q = p \/ (p = "asleep" /\ q = "woken")

LEMMA SoundWakes ==
    ASSUME NEW i, NEW p, NEW q, NEW d, NEW a, InSound(i, p, d, a), Wakes(p, q)
    PROVE  InSound(i, q, d, a)
  BY DEF InSound, Wakes, Continues

\* The writer is over.
LEMMA SoundOver ==
    ASSUME NEW i, NEW p, NEW d, NEW a, InSound(i, p, d, a), NEW j \in Fed, ~j.accepting,
           j.phase = "Ended" => Len(d) = Len(a)
    PROVE  InSound(j, "done", d, a)
  BY DEF InSound

\* abort_input().
LEMMA SoundAborts ==
    ASSUME NEW i, NEW p, NEW d, NEW a, InSound(i, p, d, a), NEW j \in Fed, ~j.accepting, j.stopped,
           j.ending = i.ending, j.phase \in {i.phase, "Stopped", "Failed", "PeerClosed"}
    PROVE  InSound(j, p, d, a)
  BY DEF InSound

LEMMA AbortedTyped ==
    ASSUME NEW i \in Fed, NEW over \in BOOLEAN, NEW j, j = AbortedInput(i, over)
    PROVE  /\ j \in Fed /\ ~j.accepting /\ j.stopped
           /\ j.ending = i.ending /\ j.phase \in {i.phase, "Stopped", "Failed"}
  <1>. DEFINE f == IF ~over THEN "Failed" ELSE IF HandleEnding(i.phase) THEN "Stopped" ELSE i.phase
              e == <<>>
  <1>1. f \in Phases /\ f \in {i.phase, "Stopped", "Failed"} /\ e \in Seq(Nat)
    BY DEF Fed, Phases
  <1>2. j = [[[[i EXCEPT !.stopped = TRUE] EXCEPT !.accepting = FALSE] EXCEPT !.queue = e] EXCEPT !.phase = f]
    BY DEF AbortedInput, Fed
  <1>. HIDE DEF f, e
  <1>. QED  BY <1>1, <1>2 DEF Fed

LEMMA SoundAborted ==
    ASSUME NEW i, NEW p, NEW q, NEW d, NEW a, InSound(i, p, d, a), Wakes(p, q), NEW over \in BOOLEAN
    PROVE  InSound(AbortedInput(i, over), q, d, a) /\ AbortedInput(i, over).stopped
  <1>. DEFINE j == AbortedInput(i, over)
  <1>1. i \in Fed
    BY DEF InSound
  <1>2. /\ j \in Fed /\ ~j.accepting /\ j.stopped
        /\ j.ending = i.ending /\ j.phase \in {i.phase, "Stopped", "Failed"}
    BY <1>1, AbortedTyped
  <1>. HIDE DEF j
  <1>3. InSound(j, p, d, a)
    BY <1>2, SoundAborts
  <1>. QED  BY <1>2, <1>3, SoundWakes DEF j

\* request_input_end().
LEMMA SoundEnded ==
    ASSUME NEW i, NEW p, NEW q, NEW d, NEW a, InSound(i, p, d, a), Wakes(p, q)
    PROVE  InSound(EndedInput(i), q, d, a) /\ EndedInput(i).stopped = i.stopped
  <1>1. i \in Fed
    BY DEF InSound
  <1>2. CASE i.phase # "Open" \/ pipesStopping
    BY <1>2, SoundWakes DEF EndedInput
  <1>3. CASE i.phase = "Open" /\ ~pipesStopping
    <2>. DEFINE j == EndedInput(i)
    <2>1. /\ j \in Fed /\ ~j.accepting /\ j.ending /\ j.queue = i.queue /\ j.flight = i.flight
          /\ j.stopped = i.stopped /\ j.phase = "EndRequested"
      BY <1>1, <1>3 DEF EndedInput, Fed, Phases
    <2>. HIDE DEF j
    <2>2. p # "none"
      BY <1>3 DEF InSound
    <2>3. InSound(j, p, d, a)
      BY <2>1, <2>2 DEF InSound, Continues
    <2>. QED  BY <2>1, <2>3, SoundWakes DEF j
  <1>. QED  BY <1>2, <1>3

LEMMA NumbersAppend ==
    ASSUME NEW d \in Seq(Nat), \A j \in 1 .. Len(d) : d[j] = j
    PROVE  LET e == Append(d, Len(d) + 1) IN
           e \in Seq(Nat) /\ Len(e) = Len(d) + 1 /\ \A j \in 1 .. Len(e) : e[j] = j
  OBVIOUS

\* write_input().
LEMMA SoundEnqueued ==
    ASSUME NEW i, NEW p, NEW q, NEW d, NEW a, InSound(i, p, d, a), Wakes(p, q), i.accepting
    PROVE  InSound(Enqueued(i, Len(a) + 1), q, d, Append(a, Len(a) + 1))
           /\ Enqueued(i, Len(a) + 1).stopped = i.stopped
  <1>. DEFINE n == Len(a)
              b == Append(a, n + 1)
              u == Append(i.queue, n + 1)
              j == Enqueued(i, n + 1)
  <1>1. i \in Fed /\ i.queue \in Seq(Nat) /\ a \in Seq(Nat) /\ n \in Nat /\ d \in Seq(Nat) /\ Len(d) \in Nat
        /\ Len(d) <= n
    BY DEF InSound, Fed
  <1>2. b \in Seq(Nat) /\ Len(b) = n + 1 /\ \A k \in 1 .. Len(b) : b[k] = k
    BY <1>1, NumbersAppend DEF InSound
  <1>4. u \in Seq(Nat)
    BY <1>1
  <1>. HIDE DEF u
  <1>3. /\ j \in Fed /\ j.accepting = i.accepting /\ j.ending = i.ending /\ j.flight = i.flight
        /\ j.stopped = i.stopped /\ j.phase = i.phase /\ j.queue = u
    <2>1. j = [i EXCEPT !.queue = u]
      BY <1>1 DEF Enqueued, u, Fed
    <2>. QED  BY <1>1, <1>4, <2>1 DEF Fed
  <1>5. p \notin {"none", "done"} /\ ~i.stopped /\ ~i.ending /\ i.phase # "Ended"
    BY DEF InSound
  <1>6. Continues(i, p, d, a)
    BY <1>5 DEF InSound
  <1>. HIDE DEF n, b, j
  <1>7. Continues(j, p, d, b)
    <2>1. p # "eof"
      BY <1>5, <1>6 DEF Continues
    <2>2. CASE p # "write"
      <3>1. Run(u, Len(d), n + 1)
        BY <1>1, <1>6, <2>2, RunAppends DEF Continues, n, u
      <3>. QED  BY <1>2, <1>3, <2>1, <2>2, <3>1 DEF Continues
    <2>3. CASE p = "write"
      <3>1. Run(u, Len(d) + 1, n + 1) /\ i.flight = Len(d) + 1
        BY <1>1, <1>6, <2>3, RunAppends DEF Continues, n, u
      <3>. QED  BY <1>2, <1>3, <2>1, <2>3, <3>1 DEF Continues
    <2>. QED  BY <2>2, <2>3
  <1>8. Len(d) <= Len(b)
    BY <1>1, <1>2
  <1>9. InSound(j, p, d, b)
    BY <1>1, <1>2, <1>3, <1>5, <1>7, <1>8 DEF InSound
  <1>. QED  BY <1>3, <1>9, SoundWakes DEF j, b, n

\* The outcomes of the input pump.
LEMMA OverSound ==
    ASSUME HpTypes, NEW i, NEW p, NEW d, InSound(i, p, d, accepted), NEW j \in Fed, ~j.accepting,
           j.stopped = i.stopped, j.phase = "Ended" => Len(d) = Len(accepted), InputOver(j)
    PROVE  InSound(input', pump'["input"], d, accepted) /\ input'.stopped = i.stopped /\ pump'["input"] # "none"
  <1>1. input' = j /\ pump'["input"] = "done"
    BY PumpsTyped DEF InputOver, HpTypes
  <1>. QED  BY <1>1, SoundOver

LEMMA FailedSound ==
    ASSUME HpTypes, NEW i, NEW p, NEW d, InSound(i, p, d, accepted), InputFailed(i)
    PROVE  InSound(input', pump'["input"], d, accepted) /\ input'.stopped = i.stopped /\ pump'["input"] # "none"
  <1>. DEFINE e == <<>>
              j == [[[i EXCEPT !.phase = "Failed"] EXCEPT !.accepting = FALSE] EXCEPT !.queue = e]
  <1>1. input' = j /\ pump'["input"] = "done"
    BY PumpsTyped DEF InputFailed, HpTypes
  <1>2. i \in Fed /\ e \in Seq(Nat)
    BY DEF InSound
  <1>. HIDE DEF e
  <1>3. j \in Fed /\ ~j.accepting /\ j.stopped = i.stopped /\ j.phase = "Failed"
    BY <1>2 DEF Fed, Phases
  <1>. HIDE DEF j
  <1>. QED  BY <1>1, <1>3, SoundOver

LEMMA TopSound ==
    ASSUME HpTypes, NEW i, NEW p \in {"woken", "asleep"}, NEW d, InSound(i, p, d, accepted), pipesStopping => i.stopped,
           WriterTop(i)
    PROVE  InSound(input', pump'["input"], d, accepted) /\ input'.stopped = i.stopped /\ pump'["input"] # "none"
  <1>1. i \in Fed /\ i.queue \in Seq(Nat) /\ d \in Seq(Nat) /\ Len(d) \in Nat /\ accepted \in Seq(Nat) /\ Len(accepted) \in Nat
        /\ Len(d) <= Len(accepted)
    BY DEF InSound, Fed
  <1>2. CASE (pipesStopping \/ i.stopped) /\ InputOver(i)
    <2>1. ~i.accepting /\ i.phase # "Ended"
      BY <1>2 DEF InSound
    <2>. QED  BY <1>1, <1>2, <2>1, OverSound
  <1>3. CASE ~i.stopped
    <2>0. Continues(i, p, d, accepted) /\ Run(i.queue, Len(d), Len(accepted))
      BY <1>3 DEF InSound, Continues
    <2>1. CASE i.queue # <<>> /\ InputGoesOn([i EXCEPT !.queue = Tail(@), !.flight = Head(i.queue)], "write")
      <3>. DEFINE t == Tail(i.queue)
                  h == Head(i.queue)
                  j == [[i EXCEPT !.queue = t] EXCEPT !.flight = h]
      <3>1. h = Len(d) + 1 /\ t \in Seq(Nat) /\ Run(t, Len(d) + 1, Len(accepted)) /\ h \in Nat
        <4>1. h = Len(d) + 1 /\ t \in Seq(Nat) /\ Run(t, Len(d) + 1, Len(accepted))
          BY <1>1, <2>0, <2>1, RunHeads, Zenon
        <4>. HIDE DEF h, t
        <4>. QED  BY <1>1, <4>1
      <3>2. input' = j /\ pump'["input"] = "write"
        BY <1>1, <2>1, PumpsTyped DEF InputGoesOn, HpTypes, Fed
      <3>. HIDE DEF t, h
      <3>3. j \in Fed /\ j.accepting = i.accepting /\ j.stopped = i.stopped /\ j.phase = i.phase /\ j.queue = t /\ j.flight = h
            /\ j.ending = i.ending
        BY <1>1, <3>1 DEF Fed
      <3>. HIDE DEF j
      <3>4. Continues(j, "write", d, accepted)
        BY <3>1, <3>3 DEF Continues
      <3>5. InSound(j, "write", d, accepted)
        BY <3>3, <3>4 DEF InSound
      <3>. QED  BY <3>2, <3>3, <3>5
    <2>2. CASE i.queue = <<>> /\ ~i.ending /\ InputGoesOn(i, "asleep")
      <3>1. input' = i /\ pump'["input"] = "asleep"
        BY <2>2, PumpsTyped DEF InputGoesOn, HpTypes
      <3>2. InSound(i, "asleep", d, accepted)
        BY <2>0 DEF InSound, Continues
      <3>. QED  BY <3>1, <3>2
    <2>3. CASE i.queue = <<>> /\ i.ending /\ (EndTerminal(i) \/ EndPipe(i))
      <3>1. ~i.accepting /\ Len(d) = Len(accepted)
        <4>1. Len(i.queue) = 0 /\ ~i.accepting
          BY <2>3 DEF InSound
        <4>. QED  BY <1>1, <2>0, <4>1 DEF Run
      <3>2. ASSUME InputGoesOn(i, "eof")
            PROVE  InSound(input', pump'["input"], d, accepted) /\ input'.stopped = i.stopped /\ pump'["input"] # "none"
        <4>1. input' = i /\ pump'["input"] = "eof"
          BY <3>2, PumpsTyped DEF InputGoesOn, HpTypes
        <4>2. Continues(i, "eof", d, accepted)
          BY <2>0, <2>3 DEF Continues
        <4>3. InSound(i, "eof", d, accepted)
          BY <4>2 DEF InSound
        <4>. QED  BY <4>1, <4>3
      <3>3. ASSUME NEW f \in {"Ended", "Unsupported"}, InputOver([i EXCEPT !.phase = f])
            PROVE  InSound(input', pump'["input"], d, accepted) /\ input'.stopped = i.stopped /\ pump'["input"] # "none"
        <4>. DEFINE j == [i EXCEPT !.phase = f]
        <4>1. j \in Fed /\ ~j.accepting /\ j.stopped = i.stopped
          BY <1>1, <3>1 DEF Fed, Phases
        <4>2. InputOver(j)
          BY <3>3
        <4>. HIDE DEF j
        <4>. QED  BY <3>1, <4>1, <4>2, OverSound
      <3>. QED  BY <2>3, <3>2, <3>3, FailedSound DEF EndTerminal, EndPipe
    <2>. QED  BY <1>2, <1>3, <2>1, <2>2, <2>3 DEF WriterTop
  <1>. QED  BY <1>2, <1>3 DEF WriterTop

\* The input, and what stands for a writer that was never started.
InInv ==
    /\ InSound(input, pump["input"], delivered, accepted)
    /\ pipesStopping => input.stopped
    /\ pump["input"] = "none" => watcher = "none" /\ (shut["start"] = "idle" => ~input.stopped)

LEMMA InputTaskIn == HpInv /\ InInv /\ InputTask => InInv'
  <1>. SUFFICES ASSUME HpInv, InInv, InputTask PROVE InInv'
    OBVIOUS
  <1>1. HpTypes /\ InSound(input, pump["input"], delivered, accepted) /\ (pipesStopping => input.stopped)
        /\ input \in Fed
    BY DEF HpInv, InInv, InSound
  <1>. DEFINE Good(d) == InSound(input', pump'["input"], d, accepted) /\ input'.stopped = input.stopped
                         /\ pump'["input"] # "none"
  <1>2. accepted' = accepted /\ pipesStopping' = pipesStopping
    BY DEF InputTask, WriterWakes, WriteEnds, EofWritten
  <1>3. CASE WriterWakes
    <2>1. Good(delivered) /\ delivered' = delivered
      BY <1>1, <1>3, TopSound DEF WriterWakes
    <2>. QED  BY <1>1, <1>2, <2>1 DEF InInv
  <1>4. ASSUME (pipesStopping \/ input.stopped) /\ InputOver(input) /\ delivered' = delivered, pump["input"] # "done"
        PROVE  InInv'
    <2>1. ~input.accepting /\ input.phase # "Ended"
      BY <1>1, <1>4 DEF InSound
    <2>2. Good(delivered)
      BY <1>1, <1>4, <2>1, OverSound
    <2>. QED  BY <1>1, <1>2, <1>4, <2>2 DEF InInv
  <1>5. ASSUME InputFailed(input), delivered' = delivered PROVE InInv'
    <2>1. Good(delivered)
      BY <1>1, <1>5, FailedSound
    <2>. QED  BY <1>1, <1>2, <1>5, <2>1 DEF InInv
  <1>6. CASE WriteEnds
    <2>1. CASE /\ ~pipesStopping /\ ~input.stopped /\ delivered' = Append(delivered, input.flight)
               /\ WriterTop([input EXCEPT !.flight = 0])
      <3>. DEFINE i == [input EXCEPT !.flight = 0]
                  m == Len(delivered) + 1
      <3>1. /\ i \in Fed /\ i.accepting = input.accepting /\ i.stopped = input.stopped /\ i.phase = input.phase
            /\ i.queue = input.queue /\ i.ending = input.ending
        BY <1>1 DEF Fed
      <3>2. Continues(input, "write", delivered, accepted) /\ pump["input"] = "write"
        BY <1>1, <1>6, <2>1 DEF InSound, WriteEnds
      <3>3. input.flight = m /\ Run(input.queue, m, Len(accepted)) /\ delivered \in Seq(Nat)
            /\ \A j \in 1 .. Len(delivered) : delivered[j] = j
        BY <1>1, <3>2 DEF Continues, InSound
      <3>4. delivered' \in Seq(Nat) /\ Len(delivered') = m /\ \A j \in 1 .. Len(delivered') : delivered'[j] = j
        BY <2>1, <3>3, NumbersAppend
      <3>. HIDE DEF i, m
      <3>5. m <= Len(accepted)
        <4>1. m \in Nat /\ Len(accepted) \in Nat /\ Len(input.queue) \in Nat
          BY <1>1, <3>4 DEF Fed, InSound
        <4>. QED  BY <3>3, <4>1 DEF Run
      <3>6. InSound(i, "woken", delivered', accepted)
        <4>1. Continues(i, "woken", delivered', accepted)
          BY <3>1, <3>3, <3>4 DEF Continues
        <4>. QED  BY <1>1, <3>1, <3>2, <3>4, <3>5, <4>1 DEF InSound
      <3>7. WriterTop(i)
        BY <2>1 DEF i
      <3>8. Good(delivered')
        BY <1>1, <2>1, <3>1, <3>6, <3>7, TopSound
      <3>. QED  BY <1>1, <1>2, <3>8 DEF InInv
    <2>2. CASE InputOver([input EXCEPT !.phase = "PeerClosed", !.accepting = FALSE, !.queue = <<>>]) /\ delivered' = delivered
      <3>. DEFINE e == <<>>
                  i == [[[input EXCEPT !.phase = "PeerClosed"] EXCEPT !.accepting = FALSE] EXCEPT !.queue = e]
      <3>0. e \in Seq(Nat) /\ InputOver(i)
        BY <2>2
      <3>. HIDE DEF e
      <3>1. i \in Fed /\ ~i.accepting /\ i.stopped = input.stopped /\ i.phase = "PeerClosed"
        BY <1>1, <3>0 DEF Fed, Phases
      <3>. HIDE DEF i
      <3>2. Good(delivered)
        BY <1>1, <3>0, <3>1, OverSound
      <3>. QED  BY <1>1, <1>2, <2>2, <3>2 DEF InInv
    <2>. QED  BY <1>4, <1>5, <1>6, <2>1, <2>2 DEF WriteEnds
  <1>7. CASE EofWritten
    <2>1. ASSUME NEW f \in {"Ended", "PeerClosed"}, ~pipesStopping, ~input.stopped, InputOver([input EXCEPT !.phase = f])
          PROVE  InInv'
      <3>. DEFINE i == [input EXCEPT !.phase = f]
      <3>1. Continues(input, "eof", delivered, accepted) /\ pump["input"] = "eof" /\ delivered' = delivered
        BY <1>1, <1>7, <2>1 DEF InSound, EofWritten
      <3>2. ~input.accepting /\ Run(<<>>, Len(delivered), Len(accepted))
        BY <1>1, <3>1 DEF Continues, InSound
      <3>3. i \in Fed /\ ~i.accepting /\ i.stopped = input.stopped
        BY <1>1, <3>2 DEF Fed, Phases
      <3>4. Len(delivered) = Len(accepted)
        <4>1. Len(delivered) \in Nat /\ Len(accepted) \in Nat
          BY <1>1 DEF InSound
        <4>. QED  BY <3>2, <4>1 DEF Run
      <3>5. InputOver(i)
        BY <2>1
      <3>. HIDE DEF i
      <3>6. Good(delivered)
        BY <1>1, <3>3, <3>4, <3>5, OverSound
      <3>. QED  BY <1>1, <1>2, <3>1, <3>6 DEF InInv
    <2>. QED  BY <1>4, <1>5, <1>7, <2>1 DEF EofWritten
  <1>. QED  BY <1>3, <1>6, <1>7 DEF InputTask

LEMMA WakesInput == HpTypes => Wakes(pump["input"], Woken(pump)["input"])
  BY PumpsTyped DEF HpTypes, Woken, Wakes

LEMMA InFrame ==
    ASSUME InInv, UNCHANGED <<input, delivered, accepted, pipesStopping, pump>>, pump["input"] = "none" => watcher' = watcher,
           shut'["start"] = "idle" => shut["start"] = "idle"
    PROVE  InInv'
  BY DEF InInv

\* A step that changes the input without moving the writer.
LEMMA InMoves ==
    ASSUME UNCHANGED <<delivered, accepted>>,
           InSound(input', pump'["input"], delivered, accepted), pipesStopping' => input'.stopped,
           pump'["input"] # "none" \/ (watcher' = "none" /\ shut'["start"] # "idle")
    PROVE  InInv'
  BY DEF InInv

LEMMA ShutIn == ASSUME NEW c \in AllCallers PROVE HpInv /\ InInv /\ (BeginShutdown(c) \/ ShutdownStep(c)) => InInv'
  <1>. SUFFICES ASSUME HpInv, InInv, BeginShutdown(c) \/ ShutdownStep(c) PROVE InInv'
    OBVIOUS
  <1>1. PICK x \in ShutPlaces \ {"idle"} : shut' = [shut EXCEPT ![c] = x]
    BY DEF BeginShutdown, ShutdownStep, ShutStops, ShutAborts, ShutJoins, ShutRecovers, At,
    ShutPlaces
  <1>2. shut'["start"] = "idle" => shut["start"] = "idle"
    BY <1>1 DEF HpInv, HpTypes, AllCallers
  <1>3. CASE BeginShutdown(c) \/ ShutJoins(c) \/ ShutRecovers(c)
    <2>1. UNCHANGED <<input, delivered, accepted, pipesStopping, pump, watcher>>
      BY <1>3 DEF BeginShutdown, ShutJoins, ShutRecovers, inputVars, taskVars, watchVars
    <2>. QED  BY <1>2, <2>1, InFrame
  <1>4. CASE ShutStops(c) \/ ShutAborts(c)
    <2>1. UNCHANGED <<delivered, accepted, watcher>> /\ pump' = Woken(pump) /\ shut[c] # "idle"
      BY <1>4 DEF ShutStops, ShutAborts, At, Abort, watchVars
    <2>2. \E over \in BOOLEAN : input' = AbortedInput(input, over)
      BY <1>4 DEF ShutStops, ShutAborts, Abort
    <2>3. InSound(input', pump'["input"], delivered, accepted) /\ input'.stopped
      BY <2>1, <2>2, SoundAborted, WakesInput DEF HpInv, InInv
    <2>4. pump["input"] # "none" \/ shut'["start"] # "idle"
      BY <1>1, <2>1, Begun
    <2>5. pump["input"] # "none" => pump'["input"] # "none"
      BY <2>1, WokenTyped, PumpsTyped DEF HpInv
    <2>6. pump["input"] = "none" => watcher' = "none"
      BY <2>1 DEF InInv
    <2>. QED  BY <2>1, <2>3, <2>4, <2>5, <2>6, InMoves
  <1>. QED  BY <1>3, <1>4 DEF ShutdownStep

LEMMA StartIn == HpInv /\ InInv /\ (StartIo \/ StartFails) => InInv'
  <1>. SUFFICES ASSUME HpInv, InInv, StartIo \/ StartFails PROVE InInv'
    OBVIOUS
  <1>1. CASE StartFails
    <2>1. UNCHANGED <<delivered, accepted, watcher, pump>> /\ shut' = [shut EXCEPT !["start"] = "stop"]
          /\ input' = AbortedInput(input, TRUE) /\ pump["input"] = "none"
      BY <1>1 DEF StartFails
    <2>2. shut'["start"] # "idle"
      BY <2>1 DEF HpInv, HpTypes, AllCallers
    <2>3. InSound(input', pump'["input"], delivered, accepted) /\ input'.stopped
      BY <2>1, SoundAborted DEF Wakes, InInv
    <2>4. watcher' = "none"
      BY <2>1 DEF InInv
    <2>. QED  BY <2>1, <2>2, <2>3, <2>4, InMoves
  <1>2. CASE StartIo
    <2>1. UNCHANGED <<delivered, accepted, pipesStopping>> /\ pump["input"] = "none" /\ shut["start"] = "idle"
          /\ input' = [input EXCEPT !.accepting = TRUE, !.phase = "Open"] /\ pump'["input"] = "woken"
      BY <1>2, PumpsTyped DEF StartIo, taskVars
    <2>2. InSound(input, "none", delivered, accepted) /\ ~input.stopped /\ (pipesStopping => input.stopped)
      BY <2>1 DEF InInv
    <2>3. input \in Fed /\ ~input.ending /\ Continues(input, "none", delivered, accepted)
      BY <2>2 DEF InSound
    <2>4. input' \in Fed /\ input'.stopped = input.stopped /\ input'.ending = input.ending
          /\ input'.queue = input.queue /\ input'.phase = "Open" /\ input'.flight = input.flight
      BY <2>1, <2>3 DEF Fed, Phases
    <2>5. Continues(input', "woken", delivered, accepted)
      BY <2>3, <2>4 DEF Continues
    <2>6. InSound(input', "woken", delivered, accepted)
      BY <2>2, <2>3, <2>4, <2>5 DEF InSound
    <2>. QED  BY <2>1, <2>2, <2>4, <2>6, InMoves
  <1>. QED  BY <1>1, <1>2

LEMMA FeedIn == HpInv /\ InInv /\ (WriteInput \/ CloseInput \/ WatcherCloses) => InInv'
  <1>. SUFFICES ASSUME HpInv, InInv, WriteInput \/ CloseInput \/ WatcherCloses PROVE InInv'
    OBVIOUS
  <1>1. InSound(input, pump["input"], delivered, accepted) /\ (pipesStopping => input.stopped) /\ HpTypes
    BY DEF InInv, HpInv
  <1>2. UNCHANGED <<pipesStopping, shut, delivered>>
    BY DEF WriteInput, CloseInput, WatcherCloses, taskVars
  <1>3. pump' = pump \/ pump' = Woken(pump)
    BY DEF WriteInput, CloseInput, WatcherCloses
  <1>4. Wakes(pump["input"], pump'["input"])
    BY <1>1, <1>3, WakesInput DEF Wakes
  <1>5. pump'["input"] = "none" <=> pump["input"] = "none"
    BY <1>4 DEF Wakes
  <1>6. pump["input"] = "none" => watcher' = watcher
    BY DEF WriteInput, CloseInput, WatcherCloses, watchVars, InInv
  <1>7. CASE WriteInput
    <2>1. CASE ~final /\ input.accepting
      <3>1. accepted' = Append(accepted, Len(accepted) + 1) /\ input' = Enqueued(input, Len(accepted) + 1)
        BY <1>7, <2>1 DEF WriteInput
      <3>2. InSound(input', pump'["input"], delivered, accepted') /\ input'.stopped = input.stopped
        BY <1>1, <1>4, <2>1, <3>1, SoundEnqueued
      <3>. QED  BY <1>1, <1>2, <1>5, <1>6, <3>2 DEF InInv
    <2>2. CASE ~(~final /\ input.accepting)
      <3>1. UNCHANGED <<accepted, input, pump>>
        BY <1>7, <2>2 DEF WriteInput
      <3>. QED  BY <1>2, <1>6, <3>1, InFrame
    <2>. QED  BY <2>1, <2>2
  <1>8. CASE (CloseInput \/ WatcherCloses) /\ input' = EndedInput(input)
    <2>1. accepted' = accepted
      <3>1. CloseInput => accepted' = accepted
        BY DEF CloseInput
      <3>2. WatcherCloses => accepted' = accepted
        BY DEF WatcherCloses
      <3>. QED  BY <1>8, <3>1, <3>2
    <2>2. InSound(input', pump'["input"], delivered, accepted) /\ input'.stopped = input.stopped
      BY <1>1, <1>4, <1>8, SoundEnded
    <2>. QED  BY <1>1, <1>2, <1>5, <1>6, <2>1, <2>2 DEF InInv
  <1>9. CASE WatcherCloses /\ input' = AbortedInput(input, TRUE)
    <2>1. accepted' = accepted /\ watcher = "close"
      BY <1>9 DEF WatcherCloses
    <2>2. InSound(input', pump'["input"], delivered, accepted) /\ input'.stopped
      BY <1>1, <1>4, <1>9, SoundAborted
    <2>3. pump["input"] # "none"
      BY <2>1 DEF InInv
    <2>. QED  BY <1>2, <1>5, <2>1, <2>2, <2>3, InMoves
  <1>10. CASE CloseInput
    <2>1. input' = EndedInput(input)
      BY <1>10 DEF CloseInput
    <2>. QED  BY <1>8, <1>10, <2>1
  <1>11. CASE WatcherCloses
    <2>1. input' = IF tty THEN AbortedInput(input, TRUE) ELSE EndedInput(input)
      BY <1>11 DEF WatcherCloses
    <2>2. CASE tty
      <3>1. input' = AbortedInput(input, TRUE)
        BY <2>1, <2>2
      <3>. QED  BY <1>9, <1>11, <3>1
    <2>3. CASE ~tty
      <3>1. input' = EndedInput(input)
        BY <2>1, <2>3
      <3>. QED  BY <1>8, <1>11, <3>1
    <2>. QED  BY <2>2, <2>3
  <1>. QED  BY <1>7, <1>10, <1>11

LEMMA ReadIn == ASSUME NEW s \in AllStreams PROVE HpInv /\ InInv /\ OutputTask(s) => InInv'
  <1>. SUFFICES ASSUME HpInv, InInv, OutputTask(s) PROVE InInv'
    OBVIOUS
  <1>0. s \in Streams /\ Read(s) /\ pump[s] = "read" /\ s \in Pumps /\ s # "input"
    BY PumpsTyped DEF OutputTask, Read, AllStreams
  <1>1. UNCHANGED <<tty, delivered, accepted, pipesStopping, watcher, shut>>
    BY <1>0 DEF Read, watchVars
  <1>2. pump["input"] # "none"
    BY <1>0 DEF HpInv, HpFence
  <1>3. CASE UNCHANGED <<pump, input>>
    BY <1>1, <1>3, InFrame
  <1>4. ASSUME NEW e, OutputOver(s, e) PROVE InInv'
    <2>1. CASE ~tty
      <3>1. input' = input /\ pump' = [pump EXCEPT ![s] = "done"]
        BY <1>4, <2>1 DEF OutputOver
      <3>2. pump'["input"] = pump["input"]
        BY <1>0, <3>1, PumpsTyped DEF HpInv, HpTypes
      <3>. QED  BY <1>1, <1>2, <3>1, <3>2 DEF InInv
    <2>2. CASE tty
      <3>. DEFINE j == AbortedInput(input, TRUE)
                  f == IF e # "Failed" /\ input.phase \in {"Open", "EndRequested"} THEN "PeerClosed" ELSE j.phase
      <3>1. input' = [j EXCEPT !.phase = f] /\ pump' = [Woken(pump) EXCEPT ![s] = "done"]
        BY <1>4, <2>2 DEF OutputOver
      <3>2. pump'["input"] = Woken(pump)["input"]
        BY <1>0, <3>1, PumpsTyped, WokenTyped DEF HpInv
      <3>3. Wakes(pump["input"], pump'["input"]) /\ pump'["input"] # "none"
        BY <1>2, <3>2, WakesInput DEF HpInv, Wakes
      <3>4. input \in Fed
        BY DEF InInv, InSound
      <3>5. j \in Fed /\ ~j.accepting /\ j.stopped /\ j.ending = input.ending /\ j.phase \in {input.phase, "Stopped", "Failed"}
        BY <3>4, AbortedTyped
      <3>6. f \in Phases /\ f \in {input.phase, "Stopped", "Failed", "PeerClosed"}
        BY <3>5 DEF Fed, Phases
      <3>. HIDE DEF j, f
      <3>7. input' \in Fed /\ ~input'.accepting /\ input'.stopped /\ input'.ending = input.ending /\ input'.phase = f
        BY <3>1, <3>5, <3>6 DEF Fed
      <3>8. InSound(input', pump["input"], delivered, accepted)
        BY <3>6, <3>7, SoundAborts DEF InInv
      <3>9. InSound(input', pump'["input"], delivered, accepted)
        BY <3>3, <3>8, SoundWakes
      <3>. QED  BY <1>1, <3>3, <3>7, <3>9, InMoves
    <2>. QED  BY <2>1, <2>2 DEF HpInv, HpTypes
  <1>. QED  BY <1>0, <1>3, <1>4 DEF Read

LEMMA NextIn == HpInv /\ InInv /\ [HandleNext]_handleVars => InInv'
  <1>. SUFFICES ASSUME HpInv, InInv, [HandleNext]_handleVars PROVE InInv'
    OBVIOUS
  <1>1. CASE UNCHANGED handleVars
    <2>1. UNCHANGED <<input, delivered, accepted, pipesStopping, pump, watcher, shut>>
      BY <1>1 DEF handleVars, inputVars, taskVars, watchVars
    <2>. QED  BY <2>1, InFrame
  <1>2. ASSUME NEW c \in Callers \cup {"start"}, BeginShutdown(c) \/ ShutdownStep(c) PROVE InInv'
    BY <1>2, ShutIn DEF AllCallers
  <1>3. ASSUME NEW s \in AllStreams, OutputTask(s) PROVE InInv'
    BY <1>3, ReadIn
  <1>4. ASSUME \/ \E s \in AllStreams : ChildWrites(s)
               \/ ChildExits \/ HeirExits \/ Probe \/ PidfdReports \/ AwaitInitial \/ InitialOver \/ WindowOver
               \/ \E kill \in BOOLEAN : SignalChild(kill)
        PROVE  InInv'
    <2>1. UNCHANGED <<input, delivered, accepted, pipesStopping, pump, shut>>
      BY <1>4 DEF ChildWrites, ChildExits, HeirExits, Probe, PidfdReports, AwaitInitial,
      InitialOver, WindowOver,
                  SignalChild, inputVars, taskVars
    <2>2. watcher' = watcher \/ watcher \in {"first", "wait"}
      BY <1>4 DEF ChildWrites, ChildExits, HeirExits, Probe, PidfdReports, AwaitInitial,
      InitialOver, WindowOver,
                  SignalChild, watchVars
    <2>. QED  BY <2>1, <2>2, InFrame DEF InInv
  <1>. QED  BY <1>1, <1>2, <1>3, <1>4, StartIn, InputTaskIn, FeedIn DEF HandleNext, Watcher

LEMMA InitIn == HandleInit => InInv
  <1>. SUFFICES ASSUME HandleInit PROVE InInv
    OBVIOUS
  <1>1. input \in Fed /\ delivered \in Seq(Nat) /\ accepted \in Seq(Nat) /\ Len(delivered) = 0 /\ Len(accepted) = 0
        /\ pump["input"] = "none"
    BY PumpsTyped DEF HandleInit, Fed, Phases
  <1>2. Continues(input, "none", delivered, accepted)
    BY DEF HandleInit, Continues, Run
  <1>3. InSound(input, "none", delivered, accepted)
    BY <1>1, <1>2 DEF HandleInit, InSound
  <1>. QED  BY <1>1, <1>3 DEF HandleInit, InInv

LEMMA InFacts == InInv => InputInOrder
  <1>. SUFFICES ASSUME InInv PROVE InputInOrder
    OBVIOUS
  <1>. DEFINE n == Len(delivered)
  <1>1. /\ delivered \in Seq(Nat) /\ accepted \in Seq(Nat) /\ n \in Nat /\ Len(accepted) \in Nat
        /\ n <= Len(accepted) /\ (input.phase = "Ended" => n = Len(accepted))
        /\ (\A j \in 1 .. Len(accepted) : accepted[j] = j) /\ (\A j \in 1 .. n : delivered[j] = j)
    BY DEF InInv, InSound
  <1>2. SubSeq(accepted, 1, n) \in Seq(Nat) /\ Len(SubSeq(accepted, 1, n)) = n
        /\ \A j \in 1 .. n : SubSeq(accepted, 1, n)[j] = j
    BY <1>1
  <1>3. delivered = SubSeq(accepted, 1, n)
    BY <1>1, <1>2, SeqEqual
  <1>4. n = Len(accepted) => delivered = accepted
    BY <1>1, SeqEqual
  <1>. QED  BY <1>1, <1>3, <1>4 DEF InputInOrder

(***************************************************************************)
(* The session table.                                                      *)
(***************************************************************************)
SessionPlaces == {"idle", "launch", "start", "initial", "rollback", "erase", "report", "answer", "release",
                  "remove", "next", "fence", "take", "settle"}
Spawning == SessionPlaces \ {"next", "fence", "take", "settle"}
Cells == Ids \X (1 .. MaxBytes)
Handles == [child : {"none", "alive", "gone"}, exited : BOOLEAN, ended : BOOLEAN, bytes : 0 .. MaxBytes,
         failed : BOOLEAN]
Frames == [place : SessionPlaces, id : 0 .. MaxIds, reserved : BOOLEAN, finished : BOOLEAN, drained : BOOLEAN,
           full : BOOLEAN, output : BOOLEAN, release : BOOLEAN, finish : BOOLEAN, todo : SUBSET Ids,
           got : SUBSET Cells, whole : SUBSET Cells]
Known == 1 .. nextId - 1
Over(i) == handle[i].child = "gone" /\ handle[i].ended
Whole(f) == \A b \in 1 .. handle[f.id].bytes : <<f.id, b>> \in f.whole

\* What the place of a call says of its session: the fence of a release is behind it,
\* and what it read is all there was.
FrameOk(f) ==
    /\ f \in Frames
    /\ f.place \in {"launch", "start"} => f.reserved
    /\ f.reserved => f.place \in {"launch", "start", "rollback", "erase"}
    /\ f.todo \subseteq Known
    /\ f.place \notin {"idle", "launch", "next"} => f.id \in Known
    /\ f.place \in Spawning => f.got = {}
    /\ f.place \in {"erase", "remove"} => Over(f.id)
    /\ f.place \in {"take", "settle"} /\ f.finish => Over(f.id)
    /\ f.place \in {"launch", "start"} => ~f.drained
    /\ f.place = "report" /\ f.drained => handle[f.id].ended
    /\ f.place \in {"release", "remove"} => handle[f.id].ended /\ Whole(f)
    /\ f.full => f.todo = {}
    /\ f.place = "settle" /\ f.finish /\ f.output =>
          IF f.full THEN Whole(f) ELSE cursor[f.id] = handle[f.id].bytes

PsTypes ==
    /\ handle \in [Ids -> Handles] /\ cursor \in [Ids -> 0 .. MaxBytes]
    /\ nextId \in Nat /\ nextId >= 1 /\ nextId <= MaxIds + 1
    /\ sessions \subseteq Known
    /\ \A i \in Ids : i >= nextId => handle[i].child = "none" /\ cursor[i] = 0 /\ releases[i] = 0
    /\ \A i \in Known : handle[i].child # "none"
    /\ \A i \in Ids : cursor[i] <= handle[i].bytes
    /\ releases \in [Ids -> Nat]
    /\ DOMAIN call = Calls
    /\ \A c \in Calls : FrameOk(call[c])

\* What happens to the handles and cursors of known sessions.
Grows ==
    /\ handle' \in [Ids -> Handles] /\ cursor' \in [Ids -> 0 .. MaxBytes]
    /\ nextId' \in Nat /\ nextId' >= nextId /\ nextId' <= MaxIds + 1
    /\ \A i \in Ids : i >= nextId' => handle'[i].child = "none" /\ cursor'[i] = 0
    /\ \A i \in Known' : handle'[i].child # "none"
    /\ \A i \in Ids : cursor'[i] <= handle'[i].bytes
    /\ \A i \in Known :
          /\ handle[i].child = "gone" => handle'[i].child = "gone"
          /\ handle[i].ended => handle'[i].ended /\ handle'[i].bytes = handle[i].bytes
          /\ cursor'[i] >= cursor[i]

LEMMA KnownIds == PsTypes => Known \subseteq Ids
  BY SessionConstants DEF PsTypes, Known, Ids

LEMMA RangeGrows == ASSUME NEW m \in Nat, NEW n \in Nat, n >= m PROVE 1 .. m - 1 \subseteq 1 .. n - 1
  OBVIOUS

LEMMA FrameStays ==
    ASSUME PsTypes, Grows, NEW f, FrameOk(f)
    PROVE  FrameOk(f)'
  <1>1. Known \subseteq Known' /\ Known \subseteq Ids
    <2>1. nextId \in Nat /\ nextId' \in Nat /\ nextId' >= nextId
      BY DEF PsTypes, Grows
    <2>2. Known = 1 .. nextId - 1 /\ Known' = 1 .. nextId' - 1
      BY DEF Known
    <2>3. 1 .. nextId - 1 \subseteq 1 .. nextId' - 1
      BY <2>1, RangeGrows
    <2>4. Known \subseteq Ids
      BY KnownIds
    <2>. QED  BY <2>2, <2>3, <2>4
  <1>2. \A i \in Known : Over(i) => Over(i)'
    BY DEF Grows, Over
  <1>3. f.id \in Known /\ handle[f.id].ended => handle'[f.id].ended /\ handle'[f.id].bytes = handle[f.id].bytes
    BY DEF Grows
  <1>4. f.id \in Known /\ handle[f.id].ended /\ Whole(f) => Whole(f)'
    BY <1>3 DEF Whole
  <1>5. f.id \in Known /\ handle[f.id].ended /\ cursor[f.id] = handle[f.id].bytes => cursor'[f.id] = handle'[f.id].bytes
    <2>. SUFFICES ASSUME f.id \in Known, handle[f.id].ended, cursor[f.id] = handle[f.id].bytes
                  PROVE  cursor'[f.id] = handle'[f.id].bytes
      OBVIOUS
    <2>1. cursor[f.id] \in Nat /\ cursor'[f.id] \in Nat
      BY <1>1, SessionConstants DEF PsTypes, Grows
    <2>2. cursor'[f.id] >= cursor[f.id] /\ cursor'[f.id] <= handle'[f.id].bytes /\ handle'[f.id].bytes = cursor[f.id]
      BY <1>1, <1>3 DEF Grows
    <2>. QED  BY <2>1, <2>2
  <1>6. f.place \in {"take", "settle"} /\ f.finish => f.id \in Known /\ handle[f.id].ended
    BY DEF FrameOk, Over
  <1>. QED  BY <1>1, <1>2, <1>3, <1>4, <1>5, <1>6 DEF FrameOk

\* One call moves on.
LEMMA CallMoves ==
    ASSUME PsTypes, Grows, NEW c \in Calls, NEW f, call' = [call EXCEPT ![c] = f], FrameOk(f)',
           sessions' \subseteq Known', releases' \in [Ids -> Nat], \A i \in Ids : i >= nextId' => releases'[i] = 0
    PROVE  PsTypes' /\ call'[c] = f /\ \A d \in Calls \ {c} : call'[d] = call[d]
  <1>1. DOMAIN call' = Calls /\ call'[c] = f /\ \A d \in Calls \ {c} : call'[d] = call[d]
    BY DEF PsTypes
  <1>2. \A d \in Calls : FrameOk(call[d])'
    <2>1. \A d \in Calls \ {c} : FrameOk(call[d])
      BY DEF PsTypes
    <2>. QED  BY <1>1, <2>1, FrameStays
  <1>3. nextId' >= 1
    BY DEF PsTypes, Grows
  <1>. QED  BY <1>1, <1>2, <1>3 DEF PsTypes, Grows

LEMMA AllStay ==
    ASSUME PsTypes, Grows, call' = call,
           sessions' \subseteq Known', releases' \in [Ids -> Nat], \A i \in Ids : i >= nextId' => releases'[i] = 0
    PROVE  PsTypes'
  <1>2. \A d \in Calls : FrameOk(call[d])'
    BY FrameStays DEF PsTypes
  <1>3. nextId' >= 1
    BY DEF PsTypes, Grows
  <1>. QED  BY <1>2, <1>3 DEF PsTypes, Grows

\* The steps of the handles.
LEMMA GrowsAlone == PsTypes /\ UNCHANGED <<handle, cursor, nextId>> => Grows
  <1>. SUFFICES ASSUME PsTypes, UNCHANGED <<handle, cursor, nextId>> PROVE Grows
    OBVIOUS
  <1>1. \A i \in Known : i \in Ids /\ cursor[i] \in Nat
    BY KnownIds, SessionConstants DEF PsTypes
  <1>2. nextId' >= nextId
    BY DEF PsTypes
  <1>3. Known' = Known
    BY DEF Known
  <1>. QED  BY <1>1, <1>2, <1>3 DEF PsTypes, Grows

LEMMA HandleGrows ==
    ASSUME PsTypes, NEW i \in Ids, NEW h \in Handles, handle' = [handle EXCEPT ![i] = h],
           UNCHANGED <<cursor, nextId>>, handle[i].child # "none", h.child # "none",
           handle[i].child = "gone" => h.child = "gone",
           handle[i].ended => h.ended /\ h.bytes = handle[i].bytes,
           h.bytes >= handle[i].bytes
    PROVE  Grows /\ i \in Known
  <1>1. handle' \in [Ids -> Handles] /\ handle'[i] = h /\ \A j \in Ids \ {i} : handle'[j] = handle[j]
    BY DEF PsTypes
  <1>2. i \in Known
    <2>1. nextId \in Nat /\ i \in Nat /\ i >= 1 /\ ~(i >= nextId)
      BY SessionConstants DEF PsTypes, Ids
    <2>. QED  BY <2>1 DEF Known
  <1>3. \A j \in Ids : cursor'[j] <= handle'[j].bytes
    <2>1. cursor[i] \in Nat /\ handle[i].bytes \in Nat /\ h.bytes \in Nat /\ cursor[i] <= handle[i].bytes
      BY SessionConstants DEF PsTypes, Handles
    <2>2. cursor[i] <= h.bytes
      BY <2>1
    <2>. QED  BY <1>1, <2>2 DEF PsTypes
  <1>4. \A j \in Known : j \in Ids /\ cursor[j] \in Nat
    BY KnownIds, SessionConstants DEF PsTypes
  <1>5. \A j \in Ids : j >= nextId' => handle'[j].child = "none" /\ cursor'[j] = 0
    <2>1. ~(i >= nextId)
      BY DEF PsTypes
    <2>. QED  BY <1>1, <2>1 DEF PsTypes
  <1>6. \A j \in Known : /\ handle[j].child = "gone" => handle'[j].child = "gone"
                         /\ handle[j].ended => handle'[j].ended /\ handle'[j].bytes = handle[j].bytes
                         /\ cursor'[j] >= cursor[j]
    BY <1>1, <1>4
  <1>7. cursor' \in [Ids -> 0 .. MaxBytes] /\ nextId' \in Nat /\ nextId' >= nextId /\ nextId' <= MaxIds + 1
    BY DEF PsTypes
  <1>8. \A j \in Known' : handle'[j].child # "none"
    BY <1>1, <1>4 DEF PsTypes, Known
  <1>. QED  BY <1>1, <1>2, <1>3, <1>5, <1>6, <1>7, <1>8 DEF Grows

\* shutdown() of a handle that was launched.
LEMMA DrainedGrows ==
    ASSUME PsTypes, NEW i \in Known, NEW h \in Drained(handle[i]), handle' = [handle EXCEPT ![i] = h],
           UNCHANGED <<cursor, nextId>>
    PROVE  /\ Grows /\ Over(i)'
           /\ \A j \in Ids : (handle'[j].child = "none" <=> handle[j].child = "none")
                             /\ (Over(j) => Over(j)') /\ (handle[j].ended => handle'[j].bytes = handle[j].bytes)
  <1>0. i \in Ids
    BY KnownIds
  <1>. DEFINE g == handle[i]
              top == IF g.ended THEN g.bytes ELSE MaxBytes
  <1>1. PICK n \in g.bytes .. top : h = Down(g, n)
    BY DEF Drained
  <1>2. g \in Handles /\ g.bytes \in Nat /\ g.bytes <= MaxBytes /\ MaxBytes \in Nat
    BY <1>0, SessionConstants DEF PsTypes, Handles
  <1>3. n \in 0 .. MaxBytes /\ n >= g.bytes /\ (g.ended => n = g.bytes)
    <2>. HIDE DEF g
    <2>1. CASE g.ended
      BY <1>2, <2>1
    <2>2. CASE ~g.ended
      BY <1>2, <2>2
    <2>. QED  BY <2>1, <2>2
  <1>. HIDE DEF g, top
  <1>4. h \in Handles /\ h.child = "gone" /\ h.ended /\ h.bytes = n
    BY <1>1, <1>2, <1>3 DEF Down, Handles
  <1>5. Grows
    BY <1>0, <1>3, <1>4, HandleGrows DEF g, PsTypes
  <1>6. handle'[i] = h /\ \A j \in Ids \ {i} : handle'[j] = handle[j]
    BY <1>0 DEF PsTypes
  <1>7. Over(i)'
    BY <1>4, <1>6 DEF Over
  <1>8. ASSUME NEW j \in Ids
        PROVE (handle'[j].child = "none" <=> handle[j].child = "none") /\ (Over(j) => Over(j)')
               /\ (handle[j].ended => handle'[j].bytes = handle[j].bytes)
    BY <1>3, <1>4, <1>6 DEF Over, g, PsTypes
  <1>. QED  BY <1>5, <1>7, <1>8

LEMMA WritesPs ==
    ASSUME NEW i \in Ids, PsTypes, Writes(i) \/ Lives(i)
    PROVE  /\ PsTypes' /\ Grows
           /\ UNCHANGED <<sessions, pendingSpawns, nextId, cursor, call, historyVars>>
  <1>1. UNCHANGED <<sessions, pendingSpawns, nextId, cursor, call, historyVars>>
    BY DEF Writes, Lives, storeVars
  <1>2. handle[i] \in Handles /\ MaxBytes \in Nat
    BY SessionConstants DEF PsTypes
  <1>3. ASSUME Writes(i) PROVE Grows
    <2>. DEFINE n == handle[i].bytes + 1
                h == [handle[i] EXCEPT !.bytes = n]
    <2>1. n \in 0 .. MaxBytes /\ n >= handle[i].bytes /\ handle[i].child # "none" /\ ~handle[i].ended
      BY <1>2, <1>3 DEF Writes, Handles
    <2>2. handle' = [handle EXCEPT ![i] = h]
      BY <1>3 DEF Writes
    <2>. HIDE DEF n
    <2>3. h \in Handles /\ h.bytes = n /\ h.child = handle[i].child /\ h.ended = handle[i].ended
      BY <1>2, <2>1 DEF Handles
    <2>. HIDE DEF h
    <2>4. Grows
      BY <1>1, <2>1, <2>2, <2>3, HandleGrows
    <2>. QED  BY <2>4
  <1>4. ASSUME Lives(i) PROVE Grows
    <2>. DEFINE P(h) == /\ h \in Handles /\ handle' = [handle EXCEPT ![i] = h] /\ handle[i].child # "none" /\ h.child # "none"
                        /\ handle[i].child = "gone" => h.child = "gone"
                        /\ handle[i].ended => h.ended /\ h.bytes = handle[i].bytes
                        /\ h.bytes >= handle[i].bytes
    <2>0. handle[i].bytes >= handle[i].bytes
      BY <1>2 DEF Handles
    <2>1. CASE handle[i].child = "alive" /\ handle' = [handle EXCEPT ![i].child = "gone"]
      <3>1. P([handle[i] EXCEPT !.child = "gone"])
        BY <1>2, <2>0, <2>1 DEF Handles
      <3>. QED  BY <1>1, <3>1, HandleGrows
    <2>2. CASE handle[i].child = "gone" /\ handle' = [handle EXCEPT ![i].exited = TRUE]
      <3>1. P([handle[i] EXCEPT !.exited = TRUE])
        BY <1>2, <2>0, <2>2 DEF Handles
      <3>. QED  BY <1>1, <3>1, HandleGrows
    <2>3. CASE handle[i].child = "gone" /\ ~handle[i].ended /\ handle' = [handle EXCEPT ![i].ended = TRUE]
      <3>1. P([handle[i] EXCEPT !.ended = TRUE])
        BY <1>2, <2>0, <2>3 DEF Handles
      <3>. QED  BY <1>1, <3>1, HandleGrows
    <2>4. CASE handle[i].child # "none" /\ handle' = [handle EXCEPT ![i].failed = TRUE]
      <3>1. P([handle[i] EXCEPT !.failed = TRUE])
        BY <1>2, <2>0, <2>4 DEF Handles
      <3>. QED  BY <1>1, <3>1, HandleGrows
    <2>. QED  BY <1>4, <2>1, <2>2, <2>3, <2>4 DEF Lives
  <1>5. Grows
    BY <1>3, <1>4
  <1>6. sessions' \subseteq Known' /\ releases' \in [Ids -> Nat] /\ \A j \in Ids : j >= nextId' => releases'[j] = 0
    BY <1>1 DEF PsTypes, Known, historyVars
  <1>. QED  BY <1>1, <1>5, <1>6, AllStay

(* Capacity: the reservations are the spawns under way. *)
Reserved == {c \in Calls : call[c].reserved}
PsCapacity ==
    /\ IsFiniteSet(Reserved) /\ pendingSpawns = Cardinality(Reserved)
    /\ IsFiniteSet(sessions) /\ Cardinality(sessions) + pendingSpawns <= MaxSessions

\* A known child that is not over is in the table or belongs to a spawn.
Starting(f) == f.place \in {"start", "rollback"}
PsReach ==
    \A i \in Known : i \in sessions \/ Over(i) \/ \E c \in Calls : Starting(call[c]) /\ call[c].id = i

LEMMA ReservedMoves ==
    ASSUME PsTypes, NEW c \in Calls, NEW f, call' = [call EXCEPT ![c] = f]
    PROVE  Reserved' = IF f.reserved THEN Reserved \cup {c} ELSE Reserved \ {c}
  BY DEF Reserved, PsTypes

LEMMA ReservedTyped ==
    ASSUME PsTypes, NEW c \in Calls
    PROVE  call[c].reserved \in BOOLEAN /\ (call[c].reserved <=> c \in Reserved)
  BY DEF PsTypes, FrameOk, Frames, Reserved

LEMMA CapacityStays ==
    ASSUME PsTypes, PsCapacity, NEW c \in Calls, NEW f, call' = [call EXCEPT ![c] = f],
           f.reserved = call[c].reserved, pendingSpawns' = pendingSpawns, sessions' \subseteq sessions
    PROVE  PsCapacity'
  <1>1. Reserved' = Reserved
    <2>1. Reserved' = IF f.reserved THEN Reserved \cup {c} ELSE Reserved \ {c}
      BY ReservedMoves
    <2>2. f.reserved \in BOOLEAN /\ (f.reserved <=> c \in Reserved)
      BY ReservedTyped
    <2>3. CASE f.reserved
      BY <2>1, <2>2, <2>3
    <2>4. CASE ~f.reserved
      BY <2>1, <2>2, <2>4
    <2>. QED  BY <2>2, <2>3, <2>4
  <1>2. IsFiniteSet(sessions') /\ Cardinality(sessions') <= Cardinality(sessions) /\ Cardinality(sessions) \in Nat
        /\ Cardinality(sessions') \in Nat
    BY FS_Subset, FS_CardinalityType DEF PsCapacity
  <1>3. pendingSpawns \in Nat
    BY FS_CardinalityType DEF PsCapacity
  <1>. QED  BY <1>1, <1>2, <1>3, SessionConstants DEF PsCapacity

\* A slot is reserved.
LEMMA CapacityTakes ==
    ASSUME PsTypes, PsCapacity, NEW c \in Calls, NEW f, call' = [call EXCEPT ![c] = f],
           f.reserved, ~call[c].reserved, pendingSpawns' = pendingSpawns + 1, sessions' = sessions,
           ~(Cardinality(sessions) + pendingSpawns >= MaxSessions)
    PROVE  PsCapacity'
  <1>1. Reserved' = Reserved \cup {c} /\ c \notin Reserved
    BY ReservedMoves, ReservedTyped
  <1>2. IsFiniteSet(Reserved') /\ Cardinality(Reserved') = Cardinality(Reserved) + 1
    BY <1>1, FS_AddElement DEF PsCapacity
  <1>3. pendingSpawns \in Nat /\ Cardinality(sessions) \in Nat
    BY FS_CardinalityType DEF PsCapacity
  <1>. QED  BY <1>2, <1>3, SessionConstants DEF PsCapacity

\* A slot is given back, or becomes a session.
LEMMA CapacityGives ==
    ASSUME PsTypes, PsCapacity, NEW c \in Calls, NEW f, call' = [call EXCEPT ![c] = f],
           ~f.reserved, call[c].reserved, pendingSpawns' = pendingSpawns - 1,
           sessions' \subseteq sessions \/ \E i : sessions' = sessions \cup {i}
    PROVE  PsCapacity'
  <1>1. Reserved' = Reserved \ {c} /\ c \in Reserved
    BY ReservedMoves, ReservedTyped
  <1>2. IsFiniteSet(Reserved') /\ Cardinality(Reserved') = Cardinality(Reserved) - 1
    BY <1>1, FS_RemoveElement DEF PsCapacity
  <1>3. pendingSpawns \in Nat /\ Cardinality(sessions) \in Nat /\ Cardinality(Reserved') \in Nat
    BY <1>2, FS_CardinalityType DEF PsCapacity
  <1>4. IsFiniteSet(sessions') /\ Cardinality(sessions') \in Nat /\ Cardinality(sessions') <= Cardinality(sessions) + 1
    <2>1. CASE sessions' \subseteq sessions
      <3>1. IsFiniteSet(sessions') /\ Cardinality(sessions') <= Cardinality(sessions) /\ Cardinality(sessions') \in Nat
        BY <2>1, FS_Subset, FS_CardinalityType DEF PsCapacity
      <3>. QED  BY <1>3, <3>1
    <2>2. CASE \E i : sessions' = sessions \cup {i}
      <3>1. PICK i : sessions' = sessions \cup {i}
        BY <2>2
      <3>2. IsFiniteSet(sessions') /\ (Cardinality(sessions') = Cardinality(sessions) \/ Cardinality(sessions') = Cardinality(sessions) + 1)
        BY <3>1, FS_AddElement DEF PsCapacity
      <3>. QED  BY <1>3, <3>2
    <2>. QED  BY <2>1, <2>2
  <1>. QED  BY <1>2, <1>3, <1>4, SessionConstants DEF PsCapacity

LEMMA ReachMoves ==
    ASSUME PsTypes, PsReach, Grows, nextId' = nextId, NEW c \in Calls, NEW f, call' = [call EXCEPT ![c] = f],
           \A i \in Known : Starting(call[c]) /\ call[c].id = i => (Starting(f) /\ f.id = i) \/ i \in sessions' \/ Over(i)',
           \A i \in sessions : i \in sessions' \/ Over(i)'
    PROVE  PsReach'
  <1>1. Known' = Known
    BY DEF Known
  <1>2. call'[c] = f /\ \A d \in Calls \ {c} : call'[d] = call[d]
    BY DEF PsTypes
  <1>3. \A i \in Known : Over(i) => Over(i)'
    BY DEF Grows, Over
  <1>4. ASSUME NEW i \in Known, NEW d \in Calls, Starting(call[d]), call[d].id = i
        PROVE  i \in sessions' \/ Over(i)' \/ \E e \in Calls : Starting(call'[e]) /\ call'[e].id = i
    <2>1. CASE d = c
      BY <1>2, <1>4, <2>1
    <2>2. CASE d # c
      BY <1>2, <1>4, <2>2
    <2>. QED  BY <2>1, <2>2
  <1>. QED  BY <1>1, <1>3, <1>4 DEF PsReach

(* Output: what was consumed was handed out once or is still with one call. *)
HandedOut(i, b) == handed[<<i, b>>] = 1
Took(c, i, b) == <<i, b>> \in call[c].got
Consumed(i, b) == HandedOut(i, b) \/ \E c \in Calls : Took(c, i, b)
AboutToShow(f) == f.place = "next" /\ f.todo = {}
Pending(i, b) == \E c \in Calls : AboutToShow(call[c]) /\ <<i, b>> \in call[c].whole
Covered(i, b) == Consumed(i, b) \/ <<i, b>> \in shown \/ Pending(i, b)

PsOutput ==
    /\ handed \in [Cells -> {0, 1}]
    /\ \A i \in Ids : cursor[i] % 2 = 1 => handle[i].ended
    /\ \A i \in Ids, b \in 1 .. MaxBytes : HandedOut(i, b) => b <= cursor[i]
    /\ \A c \in Calls, i \in Ids, b \in 1 .. MaxBytes : Took(c, i, b) => b <= cursor[i] /\ ~HandedOut(i, b)
    /\ \A c, d \in Calls, i \in Ids, b \in 1 .. MaxBytes : Took(c, i, b) /\ Took(d, i, b) => d = c
    /\ \A i \in Ids, b \in 1 .. MaxBytes : b <= cursor[i] /\ i \notin lost => Consumed(i, b)
    /\ \A i \in Ids : releases[i] > 0 =>
          /\ handle[i].ended
          /\ i \notin dropped \cup lost => \A b \in 1 .. handle[i].bytes : Covered(i, b)

\* What a step releases is ended and covered.
NewReleases ==
    \A i \in Ids : releases'[i] > 0 =>
        \/ releases[i] > 0
        \/ handle'[i].ended /\ (i \notin (dropped \cup lost)' => \A b \in 1 .. handle'[i].bytes : Covered(i, b)')

LEMMA EndsStay ==
    ASSUME PsTypes, Grows, PsOutput, cursor' = cursor
    PROVE  /\ \A i \in Ids : cursor'[i] % 2 = 1 => handle'[i].ended
           /\ \A i \in Ids : releases[i] > 0 => handle'[i].ended /\ handle'[i].bytes = handle[i].bytes
  <1>1. ASSUME NEW i \in Ids, i >= nextId PROVE releases[i] = 0 /\ cursor[i] = 0
    BY <1>1 DEF PsTypes
  <1>2. ASSUME NEW i \in Ids, ~(i >= nextId) PROVE i \in Known
    BY <1>2, SessionConstants DEF PsTypes, Known, Ids
  <1>3. \A i \in Known : handle[i].ended => handle'[i].ended /\ handle'[i].bytes = handle[i].bytes
    BY DEF Grows
  <1>4. 0 % 2 # 1 /\ ~(0 > 0)
    OBVIOUS
  <1>5. \A i \in Ids : (cursor[i] % 2 = 1 \/ releases[i] > 0) => i \in Known /\ handle[i].ended
    BY <1>1, <1>2, <1>4 DEF PsOutput
  <1>. QED  BY <1>3, <1>5

LEMMA ReleasesStay ==
    ASSUME PsTypes, Grows, PsOutput, cursor' = cursor, NewReleases, dropped \subseteq dropped', lost \subseteq lost',
           \A i \in Ids, b \in 1 .. MaxBytes : Covered(i, b) => Covered(i, b)' \/ i \in lost'
    PROVE  \A i \in Ids : releases'[i] > 0 =>
              /\ handle'[i].ended
              /\ i \notin (dropped \cup lost)' => \A b \in 1 .. handle'[i].bytes : Covered(i, b)'
  <1>1. ASSUME NEW i \in Ids, releases[i] > 0
        PROVE  handle'[i].ended /\ (i \notin (dropped \cup lost)' => \A b \in 1 .. handle'[i].bytes : Covered(i, b)')
    <2>1. handle'[i].ended /\ handle'[i].bytes = handle[i].bytes
      BY <1>1, EndsStay
    <2>2. i \notin dropped \cup lost => \A b \in 1 .. handle[i].bytes : Covered(i, b)
      BY <1>1 DEF PsOutput
    <2>3. \A b \in 1 .. handle[i].bytes : b \in 1 .. MaxBytes
      <3>1. handle[i].bytes \in Nat /\ handle[i].bytes <= MaxBytes
        BY SessionConstants DEF PsTypes, Handles
      <3>. QED  BY <3>1, SessionConstants
    <2>4. ASSUME i \notin (dropped \cup lost)', NEW b \in 1 .. handle'[i].bytes PROVE Covered(i, b)'
      <3>1. i \notin dropped \cup lost /\ i \notin lost' /\ b \in 1 .. handle[i].bytes
        BY <2>1, <2>4
      <3>. QED  BY <2>2, <2>3, <3>1
    <2>. QED  BY <2>1, <2>4
  <1>. QED  BY <1>1 DEF NewReleases

\* A step that consumes nothing and answers nobody.
LEMMA OutputQuiet ==
    ASSUME PsTypes, Grows, PsOutput, UNCHANGED <<cursor, handed, shown, lost>>,
                                                 dropped \subseteq dropped', NewReleases,
           NEW c \in Calls, NEW f, call' = [call EXCEPT ![c] = f], f.got = call[c].got,
           call[c].place = "next" => call[c].todo # {}
    PROVE  PsOutput'
  <1>1. call'[c] = f /\ \A d \in Calls \ {c} : call'[d] = call[d]
    BY DEF PsTypes
  <1>2. \A d \in Calls : \A i, b : (Took(d, i, b)' <=> Took(d, i, b)) /\ (HandedOut(i, b)' <=> HandedOut(i, b))
    BY <1>1 DEF Took, HandedOut
  <1>3. \A i, b : Consumed(i, b)' <=> Consumed(i, b)
    BY <1>2 DEF Consumed
  <1>4. \A i, b : Covered(i, b) => Covered(i, b)'
    <2>1. \A d \in Calls : AboutToShow(call[d]) => call'[d] = call[d]
      BY <1>1 DEF AboutToShow
    <2>2. \A i, b : Pending(i, b) => Pending(i, b)'
      BY <2>1 DEF Pending
    <2>. QED  BY <1>3, <2>2 DEF Covered
  <1>5. \A i \in Ids : releases'[i] > 0 =>
              /\ handle'[i].ended
              /\ i \notin (dropped \cup lost)' => \A b \in 1 .. handle'[i].bytes : Covered(i, b)'
    BY <1>4, ReleasesStay
  <1>6. \A i \in Ids : cursor'[i] % 2 = 1 => handle'[i].ended
    BY EndsStay
  <1>. QED  BY <1>2, <1>3, <1>5, <1>6 DEF PsOutput

LEMMA OutputFrame ==
    ASSUME PsTypes, Grows, PsOutput, UNCHANGED <<cursor, handed, shown, lost, call, releases>>,
                                                 dropped \subseteq dropped'
    PROVE  PsOutput'
  <1>0. \A c, i, b : (Took(c, i, b)' <=> Took(c, i, b)) /\ (HandedOut(i, b)' <=> HandedOut(i, b))
    BY DEF Took, HandedOut
  <1>1. \A i, b : Consumed(i, b)' <=> Consumed(i, b)
    BY <1>0 DEF Consumed
  <1>2. \A i, b : Pending(i, b)' <=> Pending(i, b)
    BY DEF Pending
  <1>3. \A i, b : Covered(i, b) => Covered(i, b)'
    BY <1>1, <1>2 DEF Covered
  <1>4. NewReleases
    BY DEF NewReleases
  <1>5. \A i \in Ids : releases'[i] > 0 =>
              /\ handle'[i].ended
              /\ i \notin (dropped \cup lost)' => \A b \in 1 .. handle'[i].bytes : Covered(i, b)'
    BY <1>3, <1>4, ReleasesStay
  <1>6. \A i \in Ids : cursor'[i] % 2 = 1 => handle'[i].ended
    BY EndsStay
  <1>7. /\ \A i \in Ids, b \in 1 .. MaxBytes : HandedOut(i, b)' => b <= cursor'[i]
        /\ \A c \in Calls, i \in Ids, b \in 1 .. MaxBytes : Took(c, i, b)' => b <= cursor'[i] /\ ~HandedOut(i, b)'
    BY <1>0 DEF PsOutput
  <1>8. \A c, d \in Calls, i \in Ids, b \in 1 .. MaxBytes : Took(c, i, b)' /\ Took(d, i, b)' => d = c
    BY <1>0 DEF PsOutput
  <1>9. \A i \in Ids, b \in 1 .. MaxBytes : b <= cursor'[i] /\ i \notin lost' => Consumed(i, b)'
    BY <1>1 DEF PsOutput
  <1>. QED  BY <1>5, <1>6, <1>7, <1>8, <1>9 DEF PsOutput

\* A call is over: what it took is handed out, or lost.
LEMMA OutputSettles ==
    ASSUME PsTypes, Grows, PsOutput, NEW c \in Calls, cursor' = cursor, dropped \subseteq dropped', lost \subseteq lost',
           NewReleases, handed' \in [Cells -> {0, 1}],
           \A d \in Calls : \A i, b : Took(d, i, b)' <=> d # c /\ Took(d, i, b),
           \A i \in Ids, b \in 1 .. MaxBytes : /\ HandedOut(i, b) => HandedOut(i, b)'
                                               /\ HandedOut(i, b)' => HandedOut(i, b) \/ Took(c, i, b)
                                               /\ Took(c, i, b) => HandedOut(i, b)' \/ i \in lost',
           \A i, b : Pending(i, b) => Pending(i, b)' \/ <<i, b>> \in shown',
           shown \subseteq shown'
    PROVE  PsOutput'
  <1>1. \A i \in Ids, b \in 1 .. MaxBytes : Consumed(i, b) => Consumed(i, b)' \/ i \in lost'
    BY DEF Consumed
  <1>2. \A i \in Ids, b \in 1 .. MaxBytes : Covered(i, b) => Covered(i, b)' \/ i \in lost'
    BY <1>1 DEF Covered
  <1>3. \A i \in Ids : releases'[i] > 0 =>
              /\ handle'[i].ended
              /\ i \notin (dropped \cup lost)' => \A b \in 1 .. handle'[i].bytes : Covered(i, b)'
    BY <1>2, ReleasesStay
  <1>4. \A i \in Ids : cursor'[i] % 2 = 1 => handle'[i].ended
    BY EndsStay
  <1>5. \A i \in Ids, b \in 1 .. MaxBytes : HandedOut(i, b)' => b <= cursor'[i]
    BY DEF PsOutput
  <1>6. \A d \in Calls, i \in Ids, b \in 1 .. MaxBytes : Took(d, i, b)' => b <= cursor'[i] /\ ~HandedOut(i, b)'
    BY DEF PsOutput
  <1>7. \A e, d \in Calls, i \in Ids, b \in 1 .. MaxBytes : Took(e, i, b)' /\ Took(d, i, b)' => d = e
    BY DEF PsOutput
  <1>8. \A i \in Ids, b \in 1 .. MaxBytes : b <= cursor'[i] /\ i \notin lost' => Consumed(i, b)'
    BY <1>1 DEF PsOutput
  <1>. QED  BY <1>3, <1>4, <1>5, <1>6, <1>7, <1>8 DEF PsOutput

LEMMA IdleMoves ==
    ASSUME PsTypes, NEW c \in Calls, Goes(c, Idle)
    PROVE  /\ call'[c] = Idle /\ \A d \in Calls \ {c} : call'[d] = call[d]
           /\ \A d \in Calls : \A i, b : Took(d, i, b)' <=> d # c /\ Took(d, i, b)
  <1>1. call'[c] = Idle /\ (\A d \in Calls \ {c} : call'[d] = call[d]) /\ Idle.got = {}
    BY DEF PsTypes, Goes, Idle
  <1>2. \A d \in Calls : \A i, b : Took(d, i, b)' <=> d # c /\ Took(d, i, b)
    BY <1>1 DEF Took
  <1>. QED  BY <1>1, <1>2

LEMMA OutputReturns ==
    ASSUME PsTypes, Grows, PsOutput, NEW c \in Calls, Returns(c, call[c]), UNCHANGED <<cursor, dropped>>, NewReleases
    PROVE  PsOutput'
  <1>. DEFINE g == call[c].got
  <1>1. /\ call'[c] = Idle /\ \A d \in Calls \ {c} : call'[d] = call[d]
        /\ \A d \in Calls : \A i, b : Took(d, i, b)' <=> d # c /\ Took(d, i, b)
    BY IdleMoves DEF Returns
  <1>2. lost' = lost /\ shown' = shown \cup call[c].whole
    BY DEF Returns
  <1>3. handed \in [Cells -> {0, 1}] /\ DOMAIN handed = Cells
    BY DEF PsOutput
  <1>4. handed' = [x \in Cells |-> handed[x] + (IF x \in g THEN 1 ELSE 0)]
    BY <1>3 DEF Returns
  <1>5. \A x \in Cells : x \in g => handed[x] = 0
    <2>1. \A i \in Ids, b \in 1 .. MaxBytes : Took(c, i, b) => ~HandedOut(i, b)
      BY DEF PsOutput
    <2>2. \A x \in Cells : x \in g => handed[x] # 1
      BY <2>1 DEF Cells, Took, HandedOut
    <2>. QED  BY <1>3, <2>2
  <1>. HIDE DEF g
  <1>7. handed' \in [Cells -> {0, 1}] /\ \A x \in Cells : handed'[x] = 1 <=> handed[x] = 1 \/ x \in g
    <2>1. \A x \in Cells : handed'[x] = handed[x] + (IF x \in g THEN 1 ELSE 0)
      BY <1>4
    <2>2. ASSUME NEW x \in Cells PROVE handed'[x] \in {0, 1} /\ (handed'[x] = 1 <=> handed[x] = 1 \/ x \in g)
      <3>1. CASE x \in g
        BY <1>5, <2>1, <3>1
      <3>2. CASE x \notin g
        <4>1. handed[x] \in {0, 1}
          BY <1>3
        <4>. QED  BY <2>1, <3>2, <4>1
      <3>. QED  BY <3>1, <3>2
    <2>. QED  BY <1>4, <2>2
  <1>8. \A i \in Ids, b \in 1 .. MaxBytes : HandedOut(i, b)' <=> HandedOut(i, b) \/ Took(c, i, b)
    BY <1>7 DEF Cells, HandedOut, Took, g
  <1>11. \A i, b : Pending(i, b) => Pending(i, b)' \/ <<i, b>> \in shown'
    BY <1>1, <1>2 DEF Pending
  <1>. QED  BY <1>1, <1>2, <1>7, <1>8, <1>11, OutputSettles

LEMMA OutputThrows ==
    ASSUME PsTypes, Grows, PsOutput, NEW c \in Calls, Throws(c), UNCHANGED <<cursor, dropped,
                                                                             releases>>,
           call[c].place # "next"
    PROVE  PsOutput'
  <1>. DEFINE g == call[c].got
  <1>1. /\ call'[c] = Idle /\ \A d \in Calls \ {c} : call'[d] = call[d]
        /\ \A d \in Calls : \A i, b : Took(d, i, b)' <=> d # c /\ Took(d, i, b)
    BY IdleMoves DEF Throws
  <1>2. handed' = handed /\ shown' = shown /\ lost' = lost \cup {x[1] : x \in g}
    BY DEF Throws
  <1>. HIDE DEF g
  <1>3. \A i, b : <<i, b>> \in g => i \in lost'
    BY <1>2
  <1>4. \A i, b : HandedOut(i, b)' <=> HandedOut(i, b)
    BY <1>2 DEF HandedOut
  <1>5. \A i, b : Took(c, i, b) => i \in lost'
    BY <1>3 DEF Took, g
  <1>6. \A i, b : Pending(i, b) => Pending(i, b)'
    <2>1. \A d \in Calls : AboutToShow(call[d]) => call'[d] = call[d]
      BY <1>1 DEF AboutToShow
    <2>. QED  BY <2>1 DEF Pending
  <1>7. NewReleases
    BY DEF NewReleases
  <1>8. handed' \in [Cells -> {0, 1}]
    BY <1>2 DEF PsOutput
  <1>. QED  BY <1>1, <1>2, <1>4, <1>5, <1>6, <1>7, <1>8, OutputSettles

\* text_prefix(): what is taken ends at a character, or at the end.
LEMMA TakenTyped ==
    ASSUME NEW h \in Handles, NEW n \in Nat, n <= h.bytes, n % 2 = 1 => h.ended
    PROVE  LET to == Taken(h, n) IN
           to \in 0 .. MaxBytes /\ n <= to /\ to <= h.bytes /\ (to % 2 = 1 => h.ended) /\ (h.ended => to = h.bytes)
  <1>. DEFINE m == h.bytes
              to == Taken(h, n)
  <1>1. m \in Nat /\ m <= MaxBytes /\ MaxBytes \in Nat /\ n <= m
    BY SessionConstants DEF Handles
  <1>2. CASE h.ended \/ m % 2 = 0
    <2>1. to = m
      BY <1>2 DEF Taken
    <2>2. m % 2 = 1 => h.ended
      <3>. HIDE DEF m
      <3>1. m % 2 = 0 => m % 2 # 1
        BY <1>1
      <3>. QED  BY <1>2, <3>1
    <2>. HIDE DEF m, to
    <2>. QED  BY <1>1, <2>1, <2>2 DEF to, m
  <1>3. CASE ~h.ended /\ m % 2 # 0
    <2>1. to = m - 1
      BY <1>3 DEF Taken
    <2>2. n % 2 # 1
      BY <1>3
    <2>. HIDE DEF m, to
    <2>3. m % 2 = 1 /\ m >= 1 /\ (m - 1) % 2 = 0
      BY <1>1, <1>3
    <2>4. n # m
      BY <2>2, <2>3
    <2>5. to \in 0 .. MaxBytes /\ n <= to /\ to <= m /\ to % 2 # 1
      BY <1>1, <2>1, <2>3, <2>4
    <2>. QED  BY <1>3, <2>5 DEF to, m
  <1>. QED  BY <1>2, <1>3 DEF m

\* read_output(): the cursor and what the call has so far move together.
LEMMA OutputTakes ==
    ASSUME PsTypes, PsOutput, NEW c \in Calls, NEW f, call' = [call EXCEPT ![c] = f], NEW k \in Known, NEW to \in 0 .. MaxBytes,
           cursor[k] <= to, to <= handle[k].bytes, to % 2 = 1 => handle[k].ended, cursor' = [cursor EXCEPT ![k] = to],
           f.got = call[c].got \cup {<<k, b>> : b \in cursor[k] + 1 .. to}, ~AboutToShow(call[c]),
           UNCHANGED <<handle, nextId, handed, shown, dropped, lost, releases>>
    PROVE  Grows /\ PsOutput'
  <1>0. k \in Ids /\ Known \subseteq Ids
    BY KnownIds
  <1>1. cursor' \in [Ids -> 0 .. MaxBytes] /\ cursor'[k] = to /\ \A i \in Ids \ {k} : cursor'[i] = cursor[i]
    BY <1>0 DEF PsTypes
  <1>2. \A i \in Ids : cursor[i] \in Nat /\ cursor'[i] \in Nat /\ cursor'[i] >= cursor[i] /\ cursor'[i] <= handle[i].bytes
    <2>1. \A i \in Ids : cursor[i] \in Nat /\ cursor[i] <= handle[i].bytes
      BY SessionConstants DEF PsTypes
    <2>2. to \in Nat
      BY SessionConstants
    <2>. QED  BY <1>1, <2>1, <2>2
  <1>3. Grows
    <2>1. nextId \in Nat /\ nextId' = nextId /\ nextId' >= nextId /\ nextId' <= MaxIds + 1 /\ Known' = Known
      BY DEF PsTypes, Known
    <2>2. \A i \in Ids : i >= nextId => handle[i].child = "none" /\ cursor'[i] = 0
      <3>1. ~(k >= nextId)
        BY <1>0 DEF PsTypes
      <3>. QED  BY <1>1, <3>1 DEF PsTypes
    <2>. QED  BY <1>0, <1>1, <1>2, <2>1, <2>2 DEF PsTypes, Grows
  <1>4. call'[c] = f /\ \A d \in Calls \ {c} : call'[d] = call[d]
    BY DEF PsTypes
  <1>5. \A i, b : HandedOut(i, b)' <=> HandedOut(i, b)
    BY DEF HandedOut
  <1>6. \A d \in Calls : \A i, b : d # c => (Took(d, i, b)' <=> Took(d, i, b))
    BY <1>4 DEF Took
  <1>7. \A i, b : Took(c, i, b)' <=> Took(c, i, b) \/ (i = k /\ b \in cursor[k] + 1 .. to)
    BY <1>4 DEF Took
  <1>8. \A i, b : Consumed(i, b) => Consumed(i, b)'
    BY <1>5, <1>6, <1>7 DEF Consumed
  <1>9. \A i, b : Covered(i, b) => Covered(i, b)'
    <2>1. \A d \in Calls : AboutToShow(call[d]) => call'[d] = call[d]
      BY <1>4
    <2>2. \A i, b : Pending(i, b) => Pending(i, b)'
      BY <2>1 DEF Pending
    <2>. QED  BY <1>8, <2>2 DEF Covered
  <1>10. \A i \in Ids : releases'[i] > 0 =>
              /\ handle'[i].ended
              /\ i \notin (dropped \cup lost)' => \A b \in 1 .. handle'[i].bytes : Covered(i, b)'
    BY <1>9 DEF PsOutput
  <1>11. \A i \in Ids : cursor'[i] % 2 = 1 => handle'[i].ended
    BY <1>1 DEF PsOutput
  <1>12. \A i \in Ids, b \in 1 .. MaxBytes : b <= cursor[i] => b <= cursor'[i]
    BY <1>2
  <1>13. \A b : b \in cursor[k] + 1 .. to => b <= cursor'[k] /\ ~(b <= cursor[k])
    BY <1>0, <1>1, <1>2
  <1>14. \A i \in Ids, b \in 1 .. MaxBytes : HandedOut(i, b)' => b <= cursor'[i]
    BY <1>5, <1>12 DEF PsOutput
  <1>15. \A d \in Calls, i \in Ids, b \in 1 .. MaxBytes : Took(d, i, b)' => b <= cursor'[i] /\ ~HandedOut(i, b)'
    <2>1. \A d \in Calls, i \in Ids, b \in 1 .. MaxBytes : Took(d, i, b) => b <= cursor'[i] /\ ~HandedOut(i, b)'
      BY <1>5, <1>12 DEF PsOutput
    <2>2. \A b \in 1 .. MaxBytes : b \in cursor[k] + 1 .. to => b <= cursor'[k] /\ ~HandedOut(k, b)'
      BY <1>0, <1>5, <1>13 DEF PsOutput
    <2>. QED  BY <1>6, <1>7, <2>1, <2>2
  <1>16. \A e, d \in Calls, i \in Ids, b \in 1 .. MaxBytes : Took(e, i, b)' /\ Took(d, i, b)' => d = e
    <2>1. \A e, d \in Calls, i \in Ids, b \in 1 .. MaxBytes : Took(e, i, b) /\ Took(d, i, b) => d = e
      BY DEF PsOutput
    <2>2. \A d \in Calls, b \in 1 .. MaxBytes : b \in cursor[k] + 1 .. to => ~Took(d, k, b)
      BY <1>0, <1>13 DEF PsOutput
    <2>. QED  BY <1>6, <1>7, <2>1, <2>2
  <1>17. \A i \in Ids, b \in 1 .. MaxBytes : b <= cursor'[i] /\ i \notin lost' => Consumed(i, b)'
    <2>1. \A i \in Ids, b \in 1 .. MaxBytes : b <= cursor[i] /\ i \notin lost => Consumed(i, b)
      BY DEF PsOutput
    <2>2. \A b \in 1 .. MaxBytes : b <= cursor'[k] => b <= cursor[k] \/ b \in cursor[k] + 1 .. to
      BY <1>0, <1>1, <1>2
    <2>3. \A b \in 1 .. MaxBytes : b \in cursor[k] + 1 .. to => Consumed(k, b)'
      BY <1>7 DEF Consumed
    <2>. QED  BY <1>1, <1>8, <2>1, <2>2, <2>3
  <1>18. handed' \in [Cells -> {0, 1}]
    BY DEF PsOutput
  <1>. QED  BY <1>3, <1>10, <1>11, <1>14, <1>15, <1>16, <1>17, <1>18 DEF PsOutput

PsInv == PsTypes /\ PsCapacity /\ PsReach /\ PsOutput

\* A step of the handles, or of the calls that change no frame.
LEMMA HandlesMove ==
    ASSUME PsInv, Grows, UNCHANGED <<sessions, pendingSpawns, nextId, cursor, call, historyVars>>
    PROVE  PsInv'
  <1>1. UNCHANGED <<handed, shown, dropped, lost, releases>> /\ Known' = Known
    BY DEF historyVars, Known
  <1>2. PsTypes'
    <2>1. sessions' \subseteq Known' /\ releases' \in [Ids -> Nat] /\ \A j \in Ids : j >= nextId' => releases'[j] = 0
      BY <1>1 DEF PsInv, PsTypes
    <2>. QED  BY <2>1, AllStay DEF PsInv
  <1>3. PsCapacity'
    BY DEF PsInv, PsCapacity, Reserved
  <1>4. PsReach'
    <2>1. \A i \in Known : Over(i) => Over(i)'
      BY DEF Grows, Over
    <2>. QED  BY <1>1, <2>1 DEF PsInv, PsReach
  <1>5. PsOutput'
    BY <1>1, OutputFrame DEF PsInv
  <1>. QED  BY <1>2, <1>3, <1>4, <1>5 DEF PsInv

\* A call moves on and nothing else does.
LEMMA FrameMoves ==
    ASSUME PsInv, Grows, NEW c \in Calls, NEW f, call' = [call EXCEPT ![c] = f], FrameOk(f)',
           f.reserved = call[c].reserved, f.got = call[c].got, ~AboutToShow(call[c]),
           \A i \in Known : Starting(call[c]) /\ call[c].id = i => (Starting(f) /\ f.id = i) \/ i \in sessions \/ Over(i)',
           UNCHANGED <<sessions, pendingSpawns, nextId, cursor, historyVars>>
    PROVE  PsInv'
  <1>1. UNCHANGED <<handed, shown, dropped, lost, releases>> /\ Known' = Known
    BY DEF historyVars, Known
  <1>2. PsTypes'
    <2>1. sessions' \subseteq Known' /\ releases' \in [Ids -> Nat] /\ \A j \in Ids : j >= nextId' => releases'[j] = 0
      BY <1>1 DEF PsInv, PsTypes
    <2>. QED  BY <2>1, CallMoves DEF PsInv
  <1>3. PsCapacity'
    BY CapacityStays DEF PsInv
  <1>4. PsReach'
    BY ReachMoves DEF PsInv
  <1>5. PsOutput'
    <2>1. NewReleases
      BY <1>1 DEF NewReleases
    <2>2. call[c].place = "next" => call[c].todo # {}
      BY DEF AboutToShow
    <2>. QED  BY <1>1, <2>1, <2>2, OutputQuiet DEF PsInv
  <1>. QED  BY <1>2, <1>3, <1>4, <1>5 DEF PsInv

Alike(f, g) ==
    /\ f \in Frames
    /\ f.id = g.id /\ f.reserved = g.reserved /\ f.finished = g.finished /\ f.drained = g.drained
    /\ f.full = g.full /\ f.output = g.output /\ f.release = g.release /\ f.finish = g.finish
    /\ f.todo = g.todo /\ f.got = g.got /\ f.whole = g.whole

LEMMA FramePlaced ==
    ASSUME NEW g \in Frames, NEW p \in SessionPlaces, NEW f, f = [g EXCEPT !.place = p]
    PROVE  Alike(f, g) /\ f.place = p
  BY DEF Alike, Frames

LEMMA IdleOk == Idle \in Frames /\ FrameOk(Idle)
  <1>1. Idle \in Frames
    BY SessionConstants DEF Idle, Frames, SessionPlaces, Cells, Ids
  <1>. QED  BY <1>1 DEF FrameOk, Idle

LEMMA IdleOkNext == FrameOk(Idle)'
  BY IdleOk, PTL

LEMMA HandlesPs == ASSUME NEW i \in Ids, PsInv, Writes(i) \/ Lives(i) PROVE PsInv'
  BY WritesPs, HandlesMove DEF PsInv

LEMMA SendProcessPs == ASSUME NEW c \in Calls, PsInv, SendProcess(c) PROVE PsInv'
  <1>1. PICK i \in sessions : handle[i].child = "alive" /\ handle' = [handle EXCEPT ![i].child = "gone"]
    BY DEF SendProcess
  <1>2. i \in Ids /\ handle[i] \in Handles
    BY KnownIds DEF PsInv, PsTypes
  <1>. DEFINE h == [handle[i] EXCEPT !.child = "gone"]
  <1>3. h \in Handles /\ h.child = "gone" /\ h.ended = handle[i].ended /\ h.bytes = handle[i].bytes /\ h.bytes >= handle[i].bytes
    BY <1>2 DEF Handles
  <1>4. UNCHANGED <<sessions, pendingSpawns, nextId, cursor, call, historyVars>>
    BY DEF SendProcess, storeVars
  <1>5. handle' = [handle EXCEPT ![i] = h]
    BY <1>1
  <1>. HIDE DEF h
  <1>6. Grows
    BY <1>1, <1>2, <1>3, <1>4, <1>5, HandleGrows DEF PsInv
  <1>. QED  BY <1>4, <1>6, HandlesMove

LEMMA ReservePs == ASSUME NEW c \in Calls, PsInv, Reserve(c) PROVE PsInv'
  <1>1. UNCHANGED <<handle, sessions, nextId, cursor, historyVars, handed, shown, dropped, lost,
                    releases>> /\ Known' = Known
    BY DEF Reserve, historyVars, Known
  <1>2. Grows
    BY <1>1, GrowsAlone DEF PsInv
  <1>3. CASE UNCHANGED <<pendingSpawns, call>>
    BY <1>1, <1>2, <1>3, HandlesMove
  <1>4. CASE /\ ~(Cardinality(sessions) + pendingSpawns >= MaxSessions)
             /\ pendingSpawns' = pendingSpawns + 1
             /\ Goes(c, [Idle EXCEPT !.place = "launch", !.reserved = TRUE])
    <2>1. PICK f : f = [Idle EXCEPT !.place = "launch", !.reserved = TRUE]
      OBVIOUS
    <2>2. call' = [call EXCEPT ![c] = f]
      BY <1>4, <2>1 DEF Goes
    <2>3. f \in Frames /\ f.place = "launch" /\ f.reserved /\ f.todo = {} /\ f.got = {} /\ ~f.full /\ ~f.drained
      BY <2>1, IdleOk DEF Idle, Frames, SessionPlaces
    <2>4. FrameOk(f)'
      BY <2>3 DEF FrameOk
    <2>5. call[c].place = "idle" /\ FrameOk(call[c])
      BY DEF Reserve, AtPlace, PsInv, PsTypes
    <2>6. ~call[c].reserved /\ call[c].got = {} /\ ~Starting(call[c])
      BY <2>5 DEF FrameOk, Spawning, SessionPlaces, Starting
    <2>7. PsTypes'
      <3>1. sessions' \subseteq Known' /\ releases' \in [Ids -> Nat] /\ \A j \in Ids : j >= nextId' => releases'[j] = 0
        BY <1>1 DEF PsInv, PsTypes
      <3>. QED  BY <1>2, <2>2, <2>4, <3>1, CallMoves DEF PsInv
    <2>8. PsCapacity'
      BY <1>1, <1>4, <2>2, <2>3, <2>6, CapacityTakes DEF PsInv
    <2>9. PsReach'
      BY <1>1, <1>2, <2>2, <2>6, ReachMoves DEF PsInv
    <2>10. PsOutput'
      <3>1. NewReleases
        BY <1>1 DEF NewReleases
      <3>. QED  BY <1>1, <1>2, <2>2, <2>3, <2>5, <2>6, <3>1, OutputQuiet DEF PsInv
    <2>. QED  BY <2>7, <2>8, <2>9, <2>10 DEF PsInv
  <1>. QED  BY <1>3, <1>4 DEF Reserve

LEMMA InitialWaitPs == ASSUME NEW c \in Calls, PsInv, InitialWait(c) PROVE PsInv'
  <1>1. UNCHANGED <<handle, sessions, pendingSpawns, nextId, cursor,
                    historyVars>> /\ Known' = Known
    BY DEF InitialWait, storeVars, Known
  <1>2. Grows
    BY <1>1, GrowsAlone DEF PsInv
  <1>3. PICK g : g = call[c]
    OBVIOUS
  <1>4. FrameOk(g) /\ g.place = "initial"
    BY <1>3 DEF PsInv, PsTypes, InitialWait, AtPlace
  <1>5. FrameOk(g)'
    BY <1>2, <1>4, FrameStays DEF PsInv
  <1>6. g \in Frames /\ g.got = {} /\ ~g.reserved /\ g.id \in Known' /\ g.todo \subseteq Known' /\ (g.full => g.todo = {})
    BY <1>1, <1>4 DEF FrameOk, Spawning, SessionPlaces
  <1>7. CASE Moves(c, "rollback")
    <2>1. PICK f : f = [g EXCEPT !.place = "rollback"]
      OBVIOUS
    <2>2. call' = [call EXCEPT ![c] = f]
      BY <1>3, <1>7, <2>1 DEF Moves, Goes
    <2>3. Alike(f, g) /\ f.place = "rollback"
      BY <1>6, <2>1, FramePlaced DEF SessionPlaces
    <2>4. FrameOk(f)'
      BY <1>6, <2>3 DEF FrameOk, Alike
    <2>. QED
      BY <1>1, <1>2, <1>3, <1>4, <2>2, <2>3, <2>4, FrameMoves DEF Alike, Starting, AboutToShow
  <1>. DEFINE x == handle[call[c].id].exited
              y == x /\ handle[call[c].id].ended
  <1>8. CASE Goes(c, [call[c] EXCEPT !.place = "report", !.finished = x, !.drained = y])
    <2>1. PICK f : f = [g EXCEPT !.place = "report", !.finished = x, !.drained = y]
      OBVIOUS
    <2>2. call' = [call EXCEPT ![c] = f]
      BY <1>3, <1>8, <2>1 DEF Goes
    <2>3. x \in BOOLEAN /\ y \in BOOLEAN
      <3>1. handle[g.id] \in Handles
        BY <1>1, <1>6, KnownIds DEF PsInv, PsTypes
      <3>. QED  BY <1>3, <3>1 DEF Handles
    <2>5. y => handle'[g.id].ended
      BY <1>1, <1>3
    <2>. HIDE DEF x, y
    <2>4. f \in Frames /\ f.place = "report" /\ f.drained = y /\ f.id = g.id /\ f.reserved = g.reserved /\ f.todo = g.todo
          /\ f.got = g.got /\ f.full = g.full
      BY <1>6, <2>1, <2>3 DEF Frames, SessionPlaces
    <2>6. FrameOk(f)'
      BY <1>6, <2>4, <2>5 DEF FrameOk
    <2>. QED  BY <1>1, <1>2, <1>3, <1>4, <2>2, <2>4, <2>6, FrameMoves DEF Starting, AboutToShow
  <1>. QED  BY <1>7, <1>8, Zenon DEF InitialWait

\* A call that is over, with or without an answer.
LEMMA ReturnsMove ==
    ASSUME PsInv, Grows, NEW c \in Calls, Returns(c, call[c]), ~call[c].reserved, ~Starting(call[c]),
           UNCHANGED <<pendingSpawns, nextId, cursor, dropped>>, sessions' \subseteq sessions,
           \A i \in sessions : i \in sessions' \/ Over(i)',
           NewReleases, releases' \in [Ids -> Nat], \A i \in Ids : i >= nextId => releases'[i] = 0
    PROVE  PsInv'
  <1>1. call' = [call EXCEPT ![c] = Idle]
    BY DEF Returns, Goes
  <1>2. ~Idle.reserved /\ Idle.reserved = FALSE /\ FrameOk(call[c])
    BY DEF Idle, PsInv, PsTypes
  <1>3. call[c].reserved = Idle.reserved
    BY <1>2 DEF FrameOk, Frames
  <1>4. PsTypes'
    <2>1. sessions' \subseteq Known'
      BY DEF PsInv, PsTypes, Known
    <2>. QED  BY <1>1, <2>1, CallMoves, IdleOkNext DEF PsInv
  <1>5. PsCapacity'
    BY <1>1, <1>3, CapacityStays DEF PsInv
  <1>6. PsReach'
    BY <1>1, ReachMoves DEF PsInv
  <1>7. PsOutput'
    BY OutputReturns DEF PsInv
  <1>. QED  BY <1>4, <1>5, <1>6, <1>7 DEF PsInv

LEMMA ThrowsMove ==
    ASSUME PsInv, Grows, NEW c \in Calls, Throws(c), ~call[c].reserved, ~Starting(call[c]), call[c].place # "next",
           UNCHANGED <<sessions, pendingSpawns, nextId, cursor, dropped, releases>>
    PROVE  PsInv'
  <1>1. call' = [call EXCEPT ![c] = Idle]
    BY DEF Throws, Goes
  <1>2. ~Idle.reserved /\ Idle.reserved = FALSE /\ FrameOk(call[c])
    BY DEF Idle, PsInv, PsTypes
  <1>3. call[c].reserved = Idle.reserved
    BY <1>2 DEF FrameOk, Frames
  <1>4. PsTypes'
    <2>1. sessions' \subseteq Known' /\ releases' \in [Ids -> Nat] /\ \A j \in Ids : j >= nextId' => releases'[j] = 0
      BY DEF PsInv, PsTypes, Known
    <2>. QED  BY <1>1, <2>1, CallMoves, IdleOkNext DEF PsInv
  <1>5. PsCapacity'
    BY <1>1, <1>3, CapacityStays DEF PsInv
  <1>6. PsReach'
    BY <1>1, ReachMoves DEF PsInv
  <1>7. PsOutput'
    BY OutputThrows DEF PsInv
  <1>. QED  BY <1>4, <1>5, <1>6, <1>7 DEF PsInv

LEMMA LaunchPs == ASSUME NEW c \in Calls, PsInv, Launch(c) PROVE PsInv'
  <1>1. UNCHANGED <<sessions, cursor, historyVars, handed, shown, dropped, lost, releases>>
    BY DEF Launch, historyVars
  <1>2. PICK g : g = call[c]
    OBVIOUS
  <1>3. FrameOk(g) /\ g.place = "launch"
    BY <1>2 DEF PsInv, PsTypes, Launch, AtPlace
  <1>4. g \in Frames /\ g.reserved /\ g.got = {} /\ ~g.drained /\ g.todo \subseteq Known /\ (g.full => g.todo = {})
    BY <1>3 DEF FrameOk, Spawning, SessionPlaces
  <1>5. NewReleases
    BY <1>1 DEF NewReleases
  <1>6. nextId \in Nat /\ nextId >= 1 /\ nextId <= MaxIds /\ MaxIds \in Nat /\ nextId \in Ids /\ Known \subseteq Ids
    BY KnownIds, SessionConstants DEF PsInv, PsTypes, Launch, Ids
  <1>7. CASE /\ handle' = [handle EXCEPT ![nextId] = [NoHandle EXCEPT !.child = "alive"]]
             /\ nextId' = nextId + 1
             /\ Goes(c, [call[c] EXCEPT !.place = "start", !.id = nextId])
             /\ UNCHANGED pendingSpawns
    <2>1. PICK n : n = nextId
      OBVIOUS
    <2>2. PICK f : f = [g EXCEPT !.place = "start", !.id = n]
      OBVIOUS
    <2>3. call' = [call EXCEPT ![c] = f]
      BY <1>2, <1>7, <2>1, <2>2 DEF Goes
    <2>. DEFINE h == [NoHandle EXCEPT !.child = "alive"]
    <2>4. h \in Handles /\ h.child = "alive" /\ h.bytes = 0
      <3>1. NoHandle \in Handles /\ NoHandle.bytes = 0
        BY SessionConstants DEF NoHandle, Handles
      <3>. QED  BY <3>1 DEF Handles
    <2>5. handle' \in [Ids -> Handles] /\ handle'[n].child = "alive" /\ handle'[n].bytes = 0
          /\ \A i \in Ids \ {n} : handle'[i] = handle[i]
      BY <1>6, <1>7, <2>1, <2>4 DEF PsInv, PsTypes
    <2>6. Known' = Known \cup {n} /\ n \notin Known /\ n \in Ids /\ nextId' = n + 1 /\ n \in Nat
      <3>1. Known = 1 .. n - 1 /\ Known' = 1 .. n
        BY <1>6, <1>7, <2>1 DEF Known
      <3>. QED  BY <1>6, <1>7, <2>1, <3>1
    <2>7. Grows
      <3>1. nextId' \in Nat /\ nextId' >= nextId /\ nextId' <= MaxIds + 1
        BY <1>6, <2>1, <2>6
      <3>2. cursor[n] = 0 /\ \A i \in Ids : i >= n => handle[i].child = "none" /\ cursor[i] = 0
        BY <1>6, <2>1 DEF PsInv, PsTypes
      <3>3. \A i \in Ids : i >= nextId' => i >= n /\ i # n
        BY <1>6, <2>6 DEF Ids
      <3>4. \A i \in Ids : i >= nextId' => handle'[i].child = "none" /\ cursor'[i] = 0
        BY <1>1, <2>5, <3>2, <3>3
      <3>5. \A i \in Known' : handle'[i].child # "none"
        BY <1>6, <2>5, <2>6 DEF PsInv, PsTypes
      <3>6. \A i \in Ids : cursor'[i] <= handle'[i].bytes
        BY <1>1, <2>5, <3>2 DEF PsInv, PsTypes
      <3>7. \A i \in Known : handle'[i] = handle[i] /\ cursor'[i] >= cursor[i]
        <4>1. \A i \in Ids : cursor[i] \in Nat
          BY SessionConstants DEF PsInv, PsTypes
        <4>2. \A i \in Known : i \in Ids /\ i # n
          BY <1>6, <2>6
        <4>. QED  BY <1>1, <2>5, <4>1, <4>2
      <3>8. cursor' \in [Ids -> 0 .. MaxBytes]
        BY <1>1 DEF PsInv, PsTypes
      <3>. QED  BY <2>5, <3>1, <3>4, <3>5, <3>6, <3>7, <3>8 DEF Grows
    <2>8. /\ f \in Frames /\ f.place = "start" /\ f.id = n /\ f.reserved = g.reserved /\ f.todo = g.todo
          /\ f.got = g.got /\ f.full = g.full /\ f.drained = g.drained
      <3>1. n \in 0 .. MaxIds
        BY <1>6, <2>1
      <3>. QED  BY <1>4, <2>2, <3>1 DEF Frames, SessionPlaces
    <2>9. FrameOk(f)'
      BY <1>4, <2>6, <2>8 DEF FrameOk
    <2>10. PsTypes' /\ call'[c] = f /\ \A d \in Calls \ {c} : call'[d] = call[d]
      <3>1. sessions' \subseteq Known' /\ releases' \in [Ids -> Nat]
        BY <1>1, <2>6 DEF PsInv, PsTypes
      <3>2. \A j \in Ids : j >= nextId' => releases'[j] = 0
        <4>1. \A j \in Ids : j >= nextId' => j >= nextId
          BY <1>6, <2>1, <2>6 DEF Ids
        <4>. QED  BY <1>1, <4>1 DEF PsInv, PsTypes
      <3>. QED  BY <2>3, <2>7, <2>9, <3>1, <3>2, CallMoves DEF PsInv
    <2>11. PsCapacity'
      BY <1>1, <1>2, <1>7, <2>3, <2>8, CapacityStays DEF PsInv
    <2>12. PsReach'
      <3>1. \A i \in Known : Over(i) => Over(i)'
        BY <2>7 DEF Grows, Over
      <3>2. \A d \in Calls : Starting(call[d]) => d # c
        BY <1>2, <1>3 DEF Starting
      <3>3. Starting(call'[c]) /\ call'[c].id = n
        BY <2>8, <2>10 DEF Starting
      <3>4. \A i \in Known : (\E d \in Calls : Starting(call[d]) /\ call[d].id = i)
                               => (\E d \in Calls : Starting(call'[d]) /\ call'[d].id = i)
        BY <2>10, <3>2
      <3>. QED  BY <1>1, <2>6, <3>1, <3>3, <3>4 DEF PsInv, PsReach
    <2>13. PsOutput'
      BY <1>1, <1>2, <1>3, <1>5, <2>3, <2>7, <2>8, OutputQuiet DEF PsInv
    <2>. QED  BY <2>10, <2>11, <2>12, <2>13 DEF PsInv
  <1>8. CASE pendingSpawns' = pendingSpawns - 1 /\ Goes(c, Idle) /\ UNCHANGED <<handle, nextId>>
    <2>1. call' = [call EXCEPT ![c] = Idle] /\ ~Idle.reserved /\ Idle.got = {}
      BY <1>8 DEF Goes, Idle
    <2>2. Grows
      BY <1>1, <1>8, GrowsAlone DEF PsInv
    <2>3. PsTypes'
      <3>1. sessions' \subseteq Known' /\ releases' \in [Ids -> Nat] /\ \A j \in Ids : j >= nextId' => releases'[j] = 0
        BY <1>1, <1>8 DEF PsInv, PsTypes, Known
      <3>. QED  BY <2>1, <2>2, <3>1, CallMoves, IdleOkNext DEF PsInv
    <2>4. PsCapacity'
      BY <1>1, <1>2, <1>4, <1>8, <2>1, CapacityGives DEF PsInv
    <2>5. PsReach'
      BY <1>1, <1>2, <1>3, <1>8, <2>1, <2>2, ReachMoves DEF PsInv, Starting
    <2>6. PsOutput'
      BY <1>1, <1>2, <1>3, <1>4, <1>5, <2>1, <2>2, OutputQuiet DEF PsInv
    <2>. QED  BY <2>3, <2>4, <2>5, <2>6 DEF PsInv
  <1>. QED  BY <1>7, <1>8, Zenon DEF Launch

LEMMA StartAndPublishPs == ASSUME NEW c \in Calls, PsInv, StartAndPublish(c) PROVE PsInv'
  <1>1. UNCHANGED <<handle, nextId, cursor, historyVars, handed, shown, dropped, lost,
                    releases>> /\ Known' = Known
    BY DEF StartAndPublish, historyVars, Known
  <1>2. Grows
    BY <1>1, GrowsAlone DEF PsInv
  <1>3. PICK g : g = call[c]
    OBVIOUS
  <1>4. FrameOk(g) /\ g.place = "start"
    BY <1>3 DEF PsInv, PsTypes, StartAndPublish, AtPlace
  <1>5. /\ g \in Frames /\ g.reserved /\ g.got = {} /\ ~g.drained /\ g.todo \subseteq Known /\ (g.full => g.todo = {})
        /\ g.id \in Known
    BY <1>4 DEF FrameOk, Spawning, SessionPlaces
  <1>6. CASE Moves(c, "rollback") /\ UNCHANGED <<sessions, pendingSpawns>>
    <2>1. PICK f : f = [g EXCEPT !.place = "rollback"]
      OBVIOUS
    <2>2. call' = [call EXCEPT ![c] = f]
      BY <1>3, <1>6, <2>1 DEF Moves, Goes
    <2>3. Alike(f, g) /\ f.place = "rollback"
      BY <1>5, <2>1, FramePlaced DEF SessionPlaces
    <2>4. FrameOk(f)'
      BY <1>1, <1>5, <2>3 DEF FrameOk, Alike
    <2>. QED
      BY <1>1, <1>2, <1>3, <1>4, <1>6, <2>2, <2>3, <2>4, FrameMoves
      DEF Alike, Starting, AboutToShow
  <1>7. CASE Publish(c)
    <2>. DEFINE Onto(p) == call' = [call EXCEPT ![c] = [call[c] EXCEPT !.place = p, !.reserved = FALSE]]
    <2>1. PICK p \in {"initial", "report"} : Onto(p)
      <3>1. PICK window \in BOOLEAN : Onto(IF window THEN "initial" ELSE "report")
        BY <1>7, Zenon DEF Publish, Goes
      <3>2. CASE window
        BY <3>1, <3>2, Zenon
      <3>3. CASE ~window
        BY <3>1, <3>3, Zenon
      <3>. QED  BY <3>2, <3>3
    <2>3. PICK f : f = [g EXCEPT !.place = p, !.reserved = FALSE]
      OBVIOUS
    <2>4. call' = [call EXCEPT ![c] = f]
      BY <1>3, <2>1, <2>3
    <2>5. /\ f \in Frames /\ f.place \in {"initial", "report"} /\ ~f.reserved /\ f.got = g.got /\ f.drained = g.drained
          /\ f.todo = g.todo /\ f.full = g.full /\ f.id = g.id
      BY <1>5, <2>3 DEF Frames, SessionPlaces
    <2>6. FrameOk(f)'
      BY <1>1, <1>5, <2>5 DEF FrameOk
    <2>7. sessions' = sessions \cup {g.id} /\ pendingSpawns' = pendingSpawns - 1
      BY <1>3, <1>7 DEF Publish
    <2>8. PsTypes'
      <3>1. sessions' \subseteq Known' /\ releases' \in [Ids -> Nat] /\ \A j \in Ids : j >= nextId' => releases'[j] = 0
        BY <1>1, <1>5, <2>7 DEF PsInv, PsTypes
      <3>. QED  BY <1>2, <2>4, <2>6, <3>1, CallMoves DEF PsInv
    <2>9. PsCapacity'
      BY <1>3, <1>5, <2>4, <2>5, <2>7, CapacityGives DEF PsInv
    <2>10. PsReach'
      BY <1>1, <1>2, <1>3, <2>4, <2>7, ReachMoves DEF PsInv
    <2>11. PsOutput'
      <3>1. NewReleases
        BY <1>1 DEF NewReleases
      <3>. QED  BY <1>1, <1>2, <1>3, <1>4, <2>4, <2>5, <3>1, OutputQuiet DEF PsInv
    <2>. QED  BY <2>8, <2>9, <2>10, <2>11 DEF PsInv
  <1>. QED  BY <1>6, <1>7 DEF StartAndPublish

LEMMA RollbackPs == ASSUME NEW c \in Calls, PsInv, Rollback(c) PROVE PsInv'
  <1>3. PICK g : g = call[c]
    OBVIOUS
  <1>4. FrameOk(g) /\ g.place \in {"rollback", "erase"}
    BY <1>3 DEF PsInv, PsTypes, Rollback, AtPlace
  <1>5. g \in Frames /\ g.got = {} /\ g.todo \subseteq Known /\ (g.full => g.todo = {}) /\ g.id \in Known
    BY <1>4 DEF FrameOk, Spawning, SessionPlaces
  <1>6. CASE /\ g.place = "rollback"
             /\ \E h \in Drained(handle[g.id]) : handle' = [handle EXCEPT ![g.id] = h]
             /\ Moves(c, "erase")
             /\ UNCHANGED <<storeVars, historyVars, made>>
    <2>0. UNCHANGED <<sessions, pendingSpawns, nextId, cursor, historyVars>> /\ Known' = Known
      BY <1>6 DEF storeVars, Known
    <2>1. PICK f : f = [g EXCEPT !.place = "erase"]
      OBVIOUS
    <2>2. call' = [call EXCEPT ![c] = f]
      BY <1>3, <1>6, <2>1 DEF Moves, Goes
    <2>3. Alike(f, g) /\ f.place = "erase"
      BY <1>5, <2>1, FramePlaced DEF SessionPlaces
    <2>4. Grows /\ Over(g.id)'
      BY <1>5, <1>6, <2>0, DrainedGrows DEF PsInv
    <2>5. FrameOk(f)'
      BY <1>4, <1>5, <2>0, <2>3, <2>4 DEF FrameOk, Alike
    <2>. QED
      BY <1>3, <1>4, <1>6, <2>0, <2>2, <2>3, <2>4, <2>5, FrameMoves
      DEF Alike, Starting, AboutToShow
  <1>7. CASE /\ g.place = "erase"
             /\ sessions' = sessions \ {g.id}
             /\ pendingSpawns' = IF g.reserved THEN pendingSpawns - 1 ELSE pendingSpawns
             /\ dropped' = dropped \cup {g.id}
             /\ Goes(c, Idle)
             /\ UNCHANGED <<handle, nextId, cursor, handed, shown, lost, releases, made>>
    <2>1. call' = [call EXCEPT ![c] = Idle] /\ Idle.reserved = FALSE /\ Idle.got = {}
      BY <1>7 DEF Goes, Idle
    <2>2. Grows /\ Known' = Known
      BY <1>7, GrowsAlone DEF PsInv, Known
    <2>3. Over(g.id) /\ \A i \in Known : Over(i) => Over(i)'
      BY <1>4, <1>7, <2>2 DEF FrameOk, Grows, Over
    <2>4. PsTypes'
      <3>1. sessions' \subseteq Known' /\ releases' \in [Ids -> Nat] /\ \A j \in Ids : j >= nextId' => releases'[j] = 0
        BY <1>7, <2>2 DEF PsInv, PsTypes
      <3>. QED  BY <2>1, <2>2, <3>1, CallMoves, IdleOkNext DEF PsInv
    <2>5. PsCapacity'
      <3>1. CASE g.reserved
        <4>1. pendingSpawns' = pendingSpawns - 1 /\ sessions' \subseteq sessions /\ ~Idle.reserved
          BY <1>7, <2>1, <3>1
        <4>. QED  BY <1>3, <2>1, <3>1, <4>1, CapacityGives DEF PsInv
      <3>2. CASE ~g.reserved
        <4>1. pendingSpawns' = pendingSpawns /\ sessions' \subseteq sessions
          BY <1>7, <3>2
        <4>2. Idle.reserved = g.reserved
          BY <1>5, <2>1, <3>2 DEF Frames
        <4>. QED  BY <1>3, <2>1, <4>1, <4>2, CapacityStays DEF PsInv
      <3>. QED  BY <3>1, <3>2
    <2>6. PsReach'
      <3>1. ~Starting(call[c]) /\ nextId' = nextId /\ \A i \in sessions : i \in sessions' \/ Over(i)'
        BY <1>3, <1>5, <1>7, <2>3 DEF Starting
      <3>. QED  BY <2>1, <2>2, <3>1, ReachMoves DEF PsInv
    <2>7. PsOutput'
      <3>1. NewReleases
        BY <1>7 DEF NewReleases
      <3>2. UNCHANGED <<cursor, handed, shown, lost>> /\ dropped \subseteq dropped' /\ call[c].place # "next" /\ Idle.got = call[c].got
        BY <1>3, <1>5, <1>7, <2>1
      <3>. QED  BY <2>1, <2>2, <3>1, <3>2, OutputQuiet DEF PsInv
    <2>. QED  BY <2>4, <2>5, <2>6, <2>7 DEF PsInv
  <1>. QED  BY <1>3, <1>6, <1>7, Zenon DEF Rollback, AtPlace

LEMMA TakenFrom ==
    ASSUME PsInv, NEW i \in Known
    PROVE  /\ handle[i] \in Handles /\ handle[i].bytes \in 0 .. MaxBytes /\ handle[i].ended \in BOOLEAN
           /\ Taken(handle[i], cursor[i]) \in 0 .. MaxBytes /\ cursor[i] \in Nat
           /\ cursor[i] <= Taken(handle[i], cursor[i]) /\ Taken(handle[i], cursor[i]) <= handle[i].bytes
           /\ Taken(handle[i], cursor[i]) % 2 = 1 => handle[i].ended
           /\ handle[i].ended => Taken(handle[i], cursor[i]) = handle[i].bytes
  <1>1. i \in Ids /\ handle[i] \in Handles /\ cursor[i] \in Nat /\ cursor[i] <= handle[i].bytes
    BY KnownIds, SessionConstants DEF PsInv, PsTypes
  <1>2. cursor[i] % 2 = 1 => handle[i].ended
    BY <1>1 DEF PsInv, PsOutput
  <1>3. handle[i].bytes \in 0 .. MaxBytes /\ handle[i].ended \in BOOLEAN
    BY <1>1 DEF Handles
  <1>. QED  BY <1>1, <1>2, <1>3, TakenTyped

\* The bytes of one session, up to some place.
Upto(i, m, n) == {<<i, b>> : b \in m .. n}

LEMMA UptoTyped ==
    ASSUME NEW i \in Ids, NEW m \in Nat, m >= 1, NEW n \in 0 .. MaxBytes
    PROVE  Upto(i, m, n) \subseteq Cells
  <1>1. \A b \in m .. n : b \in 1 .. MaxBytes
    BY SessionConstants
  <1>. QED  BY <1>1 DEF Upto, Cells

LEMMA ReportPs == ASSUME NEW c \in Calls, PsInv, Report(c) PROVE PsInv'
  <1>0. AtPlace(c, "report") /\ UNCHANGED <<handle, storeVars, dropped, releases, made>>
    BY Zenon DEF Report
  <1>1. UNCHANGED <<handle, sessions, pendingSpawns, nextId, cursor, dropped,
                    releases>> /\ Known' = Known
    <2>. QED  BY <1>0 DEF storeVars, Known
  <1>2. Grows
    BY <1>1, GrowsAlone DEF PsInv
  <1>3. PICK g : g = call[c]
    OBVIOUS
  <1>4. FrameOk(g) /\ g.place = "report"
    BY <1>0, <1>3 DEF PsInv, PsTypes, AtPlace
  <1>5. /\ g \in Frames /\ ~g.reserved /\ g.got = {} /\ g.todo \subseteq Known /\ (g.full => g.todo = {}) /\ g.id \in Known
        /\ (g.drained => handle[g.id].ended)
    BY <1>4 DEF FrameOk, Spawning, SessionPlaces
  <1>6. CASE Returns(c, call[c])
    <2>1. NewReleases /\ releases' \in [Ids -> Nat] /\ \A j \in Ids : j >= nextId => releases'[j] = 0
      BY <1>1 DEF NewReleases, PsInv, PsTypes
    <2>2. ~call[c].reserved /\ ~Starting(call[c])
      BY <1>3, <1>4, <1>5 DEF Starting
    <2>. QED  BY <1>1, <1>2, <1>6, <2>1, <2>2, ReturnsMove
  <1>. DEFINE w == Upto(call[c].id, 1, Taken(handle[call[c].id], 0))
              Onto(p) == call' = [call EXCEPT ![c] = [call[c] EXCEPT !.whole = w, !.place = p]]
  <1>7. CASE (\E p \in {"release", "answer"} : Onto(p) /\ (p = "release" => call[c].drained)) /\ UNCHANGED <<handed, shown, lost>>
    <2>1. PICK p \in {"release", "answer"} : Onto(p) /\ (p = "release" => call[c].drained)
      BY <1>7
    <2>2. w \subseteq Cells /\ (g.drained => \A b \in 1 .. handle[g.id].bytes : <<g.id, b>> \in w)
      <3>1. Taken(handle[g.id], 0) = Taken(handle[g.id], cursor[g.id])
        BY DEF Taken
      <3>2. w = Upto(g.id, 1, Taken(handle[g.id], cursor[g.id])) /\ g.id \in Ids
        BY <1>3, <1>5, <3>1, KnownIds DEF PsInv
      <3>3. g.drained => Taken(handle[g.id], cursor[g.id]) = handle[g.id].bytes
        BY <1>5, TakenFrom
      <3>4. Taken(handle[g.id], cursor[g.id]) \in 0 .. MaxBytes
        BY <1>5, TakenFrom
      <3>5. w \subseteq Cells
        BY <3>2, <3>4, UptoTyped
      <3>. QED  BY <3>2, <3>3, <3>5 DEF Upto
    <2>. HIDE DEF w
    <2>3. PICK f : f = [g EXCEPT !.whole = w, !.place = p]
      OBVIOUS
    <2>4. call' = [call EXCEPT ![c] = f]
      BY <1>3, <2>1, <2>3
    <2>5. /\ f \in Frames /\ f.place = p /\ f.whole = w /\ f.id = g.id /\ f.reserved = g.reserved /\ f.todo = g.todo
          /\ f.got = g.got /\ f.full = g.full /\ f.drained = g.drained
      BY <1>5, <2>2, <2>3 DEF Frames, SessionPlaces
    <2>6. p = "release" => (handle[f.id].ended /\ Whole(f))'
      BY <1>1, <1>3, <1>5, <2>1, <2>2, <2>5 DEF Whole
    <2>7. FrameOk(f)'
      BY <1>1, <1>5, <2>1, <2>5, <2>6 DEF FrameOk
    <2>8. UNCHANGED historyVars
      BY <1>1, <1>7 DEF historyVars
    <2>. QED
      BY <1>1, <1>2, <1>3, <1>4, <2>4, <2>5, <2>7, <2>8, FrameMoves DEF Starting, AboutToShow
  <1>8. CASE /\ \E auto \in BOOLEAN : Onto(IF auto /\ call[c].drained THEN "release" ELSE "answer")
             /\ UNCHANGED <<handed, shown, lost>>
    <2>1. PICK auto \in BOOLEAN : Onto(IF auto /\ call[c].drained THEN "release" ELSE "answer")
      BY <1>8, Zenon
    <2>2. CASE auto /\ call[c].drained
      <3>1. Onto("release")
        BY <2>1, <2>2, Zenon
      <3>. QED  BY <1>7, <1>8, <2>2, <3>1
    <2>3. CASE ~(auto /\ call[c].drained)
      <3>1. Onto("answer")
        BY <2>1, <2>3, Zenon
      <3>. QED  BY <1>7, <1>8, <3>1
    <2>. QED  BY <2>2, <2>3
  <1>. QED  BY <1>6, <1>8, Zenon DEF Report, Goes, Upto

LEMMA ReleasePs == ASSUME NEW c \in Calls, PsInv, Release(c) PROVE PsInv'
  <1>1. UNCHANGED <<sessions, pendingSpawns, nextId, cursor, dropped, releases>> /\ Known' = Known
    BY DEF Release, storeVars, Known
  <1>3. PICK g : g = call[c]
    OBVIOUS
  <1>4. FrameOk(g) /\ g.place = "release"
    BY <1>3 DEF PsInv, PsTypes, Release, AtPlace
  <1>5. /\ g \in Frames /\ ~g.reserved /\ g.got = {} /\ g.todo \subseteq Known /\ (g.full => g.todo = {}) /\ g.id \in Known
        /\ handle[g.id].ended /\ Whole(g)
    BY <1>4 DEF FrameOk, Spawning, SessionPlaces
  <1>6. ASSUME NEW p \in {"answer", "remove"}, Moves(c, p), Grows, p = "remove" => Over(g.id)',
               UNCHANGED <<lost, handed, shown>>
        PROVE  PsInv'
    <2>1. PICK f : f = [g EXCEPT !.place = p]
      OBVIOUS
    <2>2. call' = [call EXCEPT ![c] = f]
      BY <1>3, <1>6, <2>1 DEF Moves, Goes
    <2>3. Alike(f, g) /\ f.place = p
      BY <1>5, <2>1, FramePlaced DEF SessionPlaces
    <2>4. FrameOk(g)'
      BY <1>4, <1>6, FrameStays DEF PsInv
    <2>5. (handle[g.id].ended /\ Whole(g))'
      BY <1>4, <2>4 DEF FrameOk
    <2>6. Whole(f)'
      BY <2>3, <2>5 DEF Whole, Alike
    <2>7. FrameOk(f)'
      BY <1>1, <1>5, <1>6, <2>3, <2>5, <2>6 DEF FrameOk, Alike
    <2>8. UNCHANGED historyVars
      BY <1>1, <1>6 DEF historyVars
    <2>. QED
      BY <1>1, <1>3, <1>4, <1>6, <2>2, <2>3, <2>7, <2>8, FrameMoves
      DEF Alike, Starting, AboutToShow
  <1>7. CASE Moves(c, "answer") /\ UNCHANGED <<handle, lost, handed, shown>>
    BY <1>1, <1>6, <1>7, GrowsAlone DEF PsInv
  <1>8. CASE /\ \E h \in Drained(handle[g.id]) : handle' = [handle EXCEPT ![g.id] = h]
             /\ \/ Throws(c)
                \/ Moves(c, "remove") /\ UNCHANGED <<lost, handed, shown>>
    <2>1. Grows /\ Over(g.id)'
      BY <1>1, <1>5, <1>8, DrainedGrows DEF PsInv
    <2>2. CASE Throws(c)
      BY <1>1, <1>3, <1>4, <1>5, <2>1, <2>2, ThrowsMove DEF Starting
    <2>3. CASE Moves(c, "remove") /\ UNCHANGED <<lost, handed, shown>>
      BY <1>6, <2>1, <2>3
    <2>. QED  BY <1>8, <2>2, <2>3
  <1>. QED  BY <1>3, <1>7, <1>8, Zenon DEF Release

LEMMA LeastNumber ==
    ASSUME NEW S, S \subseteq Nat, S # {}
    PROVE  \E m \in S : \A k \in S : m <= k
  <1>. DEFINE R == {ss \in Nat \X Nat : ss[1] < ss[2]}
  <1>1. IsWellFoundedOn(R, Nat)
    BY NatLessThanWellFounded, Zenon DEF OpToRel
  <1>2. \A k, m \in Nat : k < m => <<k, m>> \in R
    OBVIOUS
  <1>. HIDE DEF R
  <1>3. PICK m \in S : \A k \in S : <<k, m>> \notin R
    BY <1>1, WFMin
  <1>4. ASSUME NEW k \in S PROVE m <= k
    <2>1. ~(k < m) /\ k \in Nat /\ m \in Nat
      BY <1>2, <1>3
    <2>. QED  BY <2>1
  <1>. QED  BY <1>4

LEMMA AnswerPs == ASSUME NEW c \in Calls, PsInv, Answer(c) PROVE PsInv'
  <1>0. /\ call[c].place \in {"answer", "remove"} /\ Returns(c, call[c])
        /\ UNCHANGED <<handle, pendingSpawns, nextId, cursor, dropped, made>>
        /\ IF AtPlace(c, "remove") THEN RemoveSession(call[c].id) ELSE UNCHANGED <<sessions, releases>>
    BY Zenon DEF Answer
  <1>2. Grows
    BY <1>0, GrowsAlone DEF PsInv
  <1>3. PICK g : g = call[c]
    OBVIOUS
  <1>4. FrameOk(g) /\ g.place \in {"answer", "remove"}
    BY <1>0, <1>3 DEF PsInv, PsTypes
  <1>5. /\ g \in Frames /\ ~g.reserved /\ g.id \in Known /\ g.id \in Ids /\ ~Starting(g)
        /\ (g.place = "remove" => Over(g.id) /\ Whole(g) /\ handle[g.id].ended)
    BY <1>4, KnownIds DEF FrameOk, Starting, PsInv
  <1>6. shown' = shown \cup g.whole
    BY <1>0, <1>3 DEF Returns
  <1>7. CASE UNCHANGED <<sessions, releases>>
    <2>1. NewReleases /\ releases' \in [Ids -> Nat] /\ \A j \in Ids : j >= nextId => releases'[j] = 0
      BY <1>7 DEF NewReleases, PsInv, PsTypes
    <2>. QED  BY <1>0, <1>2, <1>3, <1>5, <1>7, <2>1, ReturnsMove
  <1>8. CASE g.place = "remove" /\ RemoveSession(g.id)
    <2>1. sessions' = sessions \ {g.id}
      BY <1>8 DEF RemoveSession
    <2>2. /\ releases' \in [Ids -> Nat] /\ \A j \in Ids \ {g.id} : releases'[j] = releases[j]
      <3>0. releases \in [Ids -> Nat]
        BY DEF PsInv, PsTypes
      <3>1. CASE g.id \in sessions
        <4>1. releases' = [releases EXCEPT ![g.id] = @ + 1]
          BY <1>8, <3>1 DEF RemoveSession
        <4>2. releases[g.id] + 1 \in Nat
          BY <1>5, <3>0
        <4>. QED  BY <1>5, <3>0, <4>1, <4>2
      <3>2. CASE g.id \notin sessions
        <4>1. releases' = releases
          BY <1>8, <3>2 DEF RemoveSession
        <4>. QED  BY <3>0, <4>1
      <3>. QED  BY <3>1, <3>2
    <2>3. \A b \in 1 .. handle'[g.id].bytes : <<g.id, b>> \in shown'
      BY <1>0, <1>5, <1>6, <1>8 DEF Whole
    <2>4. NewReleases
      <3>1. handle'[g.id].ended /\ \A b \in 1 .. handle'[g.id].bytes : Covered(g.id, b)'
        BY <1>0, <1>5, <1>8, <2>3 DEF Covered
      <3>. QED  BY <2>2, <3>1 DEF NewReleases
    <2>5. \A i \in sessions : i \in sessions' \/ Over(i)'
      BY <1>0, <1>5, <1>8, <2>1 DEF Over
    <2>6. \A j \in Ids : j >= nextId => releases'[j] = 0
      <3>1. ~(g.id >= nextId)
        BY <1>5 DEF PsInv, PsTypes
      <3>. QED  BY <2>2, <3>1 DEF PsInv, PsTypes
    <2>. QED  BY <1>0, <1>2, <1>3, <1>5, <2>1, <2>2, <2>4, <2>5, <2>6, ReturnsMove
  <1>. QED  BY <1>0, <1>3, <1>7, <1>8, Zenon DEF AtPlace

\* read_session(): on to the fence or the read of a session in the table.
LEMMA FindMoves ==
    ASSUME PsInv, NEW c \in Calls, ~call[c].reserved, ~Starting(call[c]), ~AboutToShow(call[c]), NEW i \in Known,
           NEW frame \in Frames, frame.reserved = FALSE, frame.got = call[c].got, frame.todo \subseteq Known,
           frame.full => frame.todo = {}, Find(c, i, frame),
           UNCHANGED <<handle, sessions, pendingSpawns, nextId, cursor, historyVars>>
    PROVE  PsInv'
  <1>1. Grows /\ Known' = Known
    BY GrowsAlone DEF PsInv, Known
  <1>2. call[c].reserved = FALSE
    BY DEF PsInv, PsTypes, FrameOk, Frames
  <1>3. i \in Ids /\ i \in 0 .. MaxIds
    <2>1. i \in Ids
      BY KnownIds DEF PsInv
    <2>. QED  BY <2>1, SessionConstants DEF Ids
  <1>4. PICK fin : fin = (frame.release /\ handle[i].exited)
    OBVIOUS
  <1>5. fin \in BOOLEAN
    BY <1>4
  <1>6. ASSUME NEW p \in {"fence", "take"}, p = "take" => ~fin,
               call' = [call EXCEPT ![c] = [frame EXCEPT !.id = i, !.finish = fin, !.place = p]]
        PROVE  PsInv'
    <2>1. PICK f : f = [frame EXCEPT !.id = i, !.finish = fin, !.place = p]
      OBVIOUS
    <2>2. call' = [call EXCEPT ![c] = f]
      BY <1>6, <2>1
    <2>3. /\ f \in Frames /\ f.place = p /\ f.id = i /\ f.finish = fin /\ f.reserved = frame.reserved
          /\ f.todo = frame.todo /\ f.got = frame.got /\ f.full = frame.full
      BY <1>3, <1>5, <2>1 DEF Frames, SessionPlaces
    <2>4. FrameOk(f)'
      BY <1>1, <1>6, <2>3 DEF FrameOk, Spawning
    <2>. QED  BY <1>1, <1>2, <2>2, <2>3, <2>4, FrameMoves
  <1>7. ASSUME call' = [call EXCEPT ![c] = [frame EXCEPT !.place = "next"]]
        PROVE  PsInv'
    <2>1. PICK f : f = [frame EXCEPT !.place = "next"]
      OBVIOUS
    <2>2. call' = [call EXCEPT ![c] = f]
      BY <1>7, <2>1
    <2>3. Alike(f, frame) /\ f.place = "next"
      BY <2>1, FramePlaced DEF SessionPlaces
    <2>4. FrameOk(f)'
      BY <1>1, <2>3 DEF FrameOk, Alike, Spawning
    <2>. QED  BY <1>1, <1>2, <2>2, <2>3, <2>4, FrameMoves DEF Alike
  <1>8. CASE i \in sessions
    <2>1. call' = [call EXCEPT ![c] = [frame EXCEPT !.id = i, !.finish = fin, !.place = IF fin THEN "fence" ELSE "take"]]
      BY <1>4, <1>8, Zenon DEF Find, Goes
    <2>2. CASE fin
      <3>1. call' = [call EXCEPT ![c] = [frame EXCEPT !.id = i, !.finish = fin, !.place = "fence"]]
        BY <2>1, <2>2, Zenon
      <3>. QED  BY <1>6, <3>1
    <2>3. CASE ~fin
      <3>1. call' = [call EXCEPT ![c] = [frame EXCEPT !.id = i, !.finish = fin, !.place = "take"]]
        BY <2>1, <2>3, Zenon
      <3>. QED  BY <1>6, <2>3, <3>1
    <2>. QED  BY <2>2, <2>3
  <1>9. CASE i \notin sessions
    BY <1>7, <1>9, Zenon DEF Find, Goes
  <1>. QED  BY <1>8, <1>9

LEMMA ReadProcessPs == ASSUME NEW c \in Calls, PsInv, ReadProcess(c) PROVE PsInv'
  <1>1. UNCHANGED <<handle, sessions, pendingSpawns, nextId, cursor, historyVars>>
    BY Zenon DEF ReadProcess, storeVars
  <1>2. call[c].place = "idle" /\ FrameOk(call[c])
    BY DEF ReadProcess, AtPlace, PsInv, PsTypes
  <1>3. ~call[c].reserved /\ call[c].got = {} /\ ~Starting(call[c]) /\ ~AboutToShow(call[c])
    BY <1>2 DEF FrameOk, Spawning, SessionPlaces, Starting, AboutToShow
  <1>4. PICK i \in Known, full \in BOOLEAN, release \in BOOLEAN :
          Find(c, i, [Idle EXCEPT !.full = full, !.release = release, !.output = TRUE])
    BY Zenon DEF ReadProcess, Known
  <1>5. PICK frame : frame = [Idle EXCEPT !.full = full, !.release = release, !.output = TRUE]
    OBVIOUS
  <1>6. frame \in Frames /\ frame.reserved = FALSE /\ frame.got = {} /\ frame.todo = {}
    BY <1>5, IdleOk DEF Idle, Frames
  <1>. QED  BY <1>1, <1>3, <1>4, <1>5, <1>6, FindMoves

LEMMA PollProcessPs == ASSUME NEW c \in Calls, PsInv, PollProcess(c) PROVE PsInv'
  <1>1. UNCHANGED <<handle, sessions, pendingSpawns, nextId, cursor,
                    historyVars>> /\ Known' = Known
    BY DEF PollProcess, storeVars, Known
  <1>2. call[c].place = "idle" /\ FrameOk(call[c])
    BY DEF PollProcess, AtPlace, PsInv, PsTypes
  <1>3. call[c].reserved = FALSE /\ call[c].got = {} /\ ~Starting(call[c]) /\ ~AboutToShow(call[c])
    BY <1>2 DEF FrameOk, Frames, Spawning, SessionPlaces, Starting, AboutToShow
  <1>4. PICK output \in BOOLEAN, release \in BOOLEAN :
          call' = [call EXCEPT ![c] = [Idle EXCEPT !.place = "next", !.output = output, !.release = release, !.todo = sessions]]
    BY Zenon DEF PollProcess, Goes
  <1>5. PICK f : f = [Idle EXCEPT !.place = "next", !.output = output, !.release = release, !.todo = sessions]
    OBVIOUS
  <1>6. sessions \subseteq Known /\ sessions \subseteq Ids
    BY KnownIds DEF PsInv, PsTypes
  <1>7. f \in Frames /\ f.place = "next" /\ f.reserved = FALSE /\ f.got = {} /\ f.todo = sessions /\ ~f.full
    BY <1>5, <1>6, IdleOk DEF Idle, Frames, SessionPlaces
  <1>8. FrameOk(f)'
    BY <1>1, <1>6, <1>7 DEF FrameOk
  <1>9. Grows
    BY <1>1, GrowsAlone DEF PsInv
  <1>. QED  BY <1>1, <1>3, <1>4, <1>5, <1>7, <1>8, <1>9, FrameMoves

LEMMA NextReadPs == ASSUME NEW c \in Calls, PsInv, NextRead(c) PROVE PsInv'
  <1>. DEFINE i == CHOOSE x \in call[c].todo : \A y \in call[c].todo : x <= y
  <1>0. /\ AtPlace(c, "next") /\ UNCHANGED <<handle, storeVars, dropped, releases, made>>
        /\ IF call[c].todo = {} THEN Returns(c, call[c])
           ELSE Find(c, i, [call[c] EXCEPT !.todo = @ \ {i}]) /\ UNCHANGED <<handed, shown, lost>>
    BY Zenon DEF NextRead
  <1>1. UNCHANGED <<handle, sessions, pendingSpawns, nextId, cursor, dropped, releases>>
    BY <1>0, Zenon DEF storeVars
  <1>2. PICK g : g = call[c]
    OBVIOUS
  <1>3. FrameOk(g) /\ g.place = "next"
    BY <1>0, <1>2 DEF AtPlace, PsInv, PsTypes
  <1>4. g \in Frames /\ g.reserved = FALSE /\ g.todo \subseteq Known /\ (g.full => g.todo = {}) /\ ~Starting(g)
    BY <1>3 DEF FrameOk, Frames, Starting
  <1>5. CASE g.todo = {}
    <2>1. Returns(c, call[c])
      BY <1>0, <1>2, <1>5
    <2>2. NewReleases /\ releases' \in [Ids -> Nat] /\ \A j \in Ids : j >= nextId => releases'[j] = 0
      BY <1>1 DEF NewReleases, PsInv, PsTypes
    <2>3. Grows
      BY <1>1, GrowsAlone DEF PsInv
    <2>. QED  BY <1>1, <1>2, <1>4, <2>1, <2>2, <2>3, ReturnsMove
  <1>6. CASE g.todo # {}
    <2>1. g.todo \subseteq Nat
      BY <1>4, SessionConstants DEF Known, PsInv, PsTypes
    <2>2. \E x \in g.todo : \A y \in g.todo : x <= y
      BY <1>6, <2>1, LeastNumber
    <2>3. i \in g.todo
      BY <1>2, <2>2
    <2>. HIDE DEF i
    <2>4. PICK f : f = [g EXCEPT !.todo = g.todo \ {i}]
      OBVIOUS
    <2>5. Find(c, i, f) /\ UNCHANGED <<handed, shown, lost>>
      BY <1>0, <1>2, <1>6, <2>4, Zenon
    <2>6. f \in Frames /\ f.reserved = FALSE /\ f.got = g.got /\ f.todo = g.todo \ {i} /\ f.full = g.full
      BY <1>4, <2>4 DEF Frames
    <2>7. UNCHANGED historyVars
      BY <1>1, <2>5 DEF historyVars
    <2>8. ~AboutToShow(g) /\ i \in Known /\ f.todo \subseteq Known /\ (f.full => f.todo = {})
      BY <1>4, <1>6, <2>3, <2>6 DEF AboutToShow
    <2>. QED  BY <1>1, <1>2, <1>4, <2>5, <2>6, <2>7, <2>8, FindMoves
  <1>. QED  BY <1>5, <1>6

LEMMA FencePs == ASSUME NEW c \in Calls, PsInv, Fence(c) PROVE PsInv'
  <1>1. UNCHANGED <<sessions, pendingSpawns, nextId, cursor, dropped, releases>> /\ Known' = Known
    BY DEF Fence, storeVars, Known
  <1>2. PICK g : g = call[c]
    OBVIOUS
  <1>3. FrameOk(g) /\ g.place = "fence"
    BY <1>2 DEF PsInv, PsTypes, Fence, AtPlace
  <1>4. g \in Frames /\ ~g.reserved /\ g.todo \subseteq Known /\ (g.full => g.todo = {}) /\ g.id \in Known
    BY <1>3 DEF FrameOk
  <1>5. Grows /\ Over(g.id)'
    <2>1. PICK h \in Drained(handle[g.id]) : handle' = [handle EXCEPT ![g.id] = h]
      BY <1>2, Zenon DEF Fence
    <2>. QED  BY <1>1, <1>4, <2>1, DrainedGrows DEF PsInv
  <1>6. CASE Throws(c)
    BY <1>1, <1>2, <1>3, <1>4, <1>5, <1>6, ThrowsMove DEF Starting
  <1>7. CASE Moves(c, "take") /\ UNCHANGED <<handed, shown, lost>>
    <2>1. PICK f : f = [g EXCEPT !.place = "take"]
      OBVIOUS
    <2>2. call' = [call EXCEPT ![c] = f]
      BY <1>2, <1>7, <2>1 DEF Moves, Goes
    <2>3. Alike(f, g) /\ f.place = "take"
      BY <1>4, <2>1, FramePlaced DEF SessionPlaces
    <2>4. FrameOk(f)'
      BY <1>1, <1>4, <1>5, <2>3 DEF FrameOk, Alike, Spawning
    <2>5. UNCHANGED historyVars
      BY <1>1, <1>7 DEF historyVars
    <2>. QED
      BY <1>1, <1>2, <1>3, <1>5, <2>2, <2>3, <2>4, <2>5, FrameMoves
      DEF Alike, Starting, AboutToShow
  <1>. QED  BY <1>6, <1>7, Zenon DEF Fence

LEMMA TakePs == ASSUME NEW c \in Calls, PsInv, Take(c) PROVE PsInv'
  <1>1. PICK g : g = call[c]
    OBVIOUS
  <1>2. PICK k : k = g.id
    OBVIOUS
  <1>3. PICK to : to = Taken(handle[k], cursor[k])
    OBVIOUS
  <1>. DEFINE P(gg, kk, tt) ==
                /\ gg.place = "take" /\ UNCHANGED <<handle, sessions, pendingSpawns, nextId,
                                                    historyVars, made>>
                /\ \/ ~gg.output /\ Moves(c, "settle") /\ UNCHANGED cursor
                   \/ /\ gg.output /\ gg.full
                      /\ call' = [call EXCEPT ![c] = [gg EXCEPT !.place = "settle", !.whole = gg.whole \cup Upto(kk, 1, tt)]]
                      /\ UNCHANGED cursor
                   \/ /\ gg.output /\ ~gg.full
                      /\ call' = [call EXCEPT ![c] = [gg EXCEPT !.place = "settle", !.got = gg.got \cup Upto(kk, cursor[kk] + 1, tt)]]
                      /\ cursor' = [cursor EXCEPT ![kk] = tt]
  <1>4. P(g, k, to)
    <2>1. P(call[c], call[c].id, Taken(handle[call[c].id], cursor[call[c].id]))
      BY Zenon DEF Take, AtPlace, Goes, Upto
    <2>2. k = call[c].id /\ to = Taken(handle[call[c].id], cursor[call[c].id])
      BY <1>1, <1>2, <1>3
    <2>. HIDE DEF P
    <2>. QED  BY <1>1, <2>1, <2>2
  <1>5. FrameOk(g)
    BY <1>1 DEF PsInv, PsTypes
  <1>6. /\ g \in Frames /\ ~g.reserved /\ g.todo \subseteq Known /\ (g.full => g.todo = {}) /\ k \in Known
        /\ (g.finish => Over(k)) /\ ~AboutToShow(g) /\ ~Starting(g)
    BY <1>2, <1>4, <1>5 DEF FrameOk, AboutToShow, Starting
  <1>7. /\ to \in 0 .. MaxBytes /\ cursor[k] \in Nat /\ cursor[k] <= to /\ to <= handle[k].bytes
        /\ (to % 2 = 1 => handle[k].ended) /\ (g.finish => to = handle[k].bytes) /\ k \in Ids
    BY <1>3, <1>6, TakenFrom, KnownIds DEF Over, PsInv
  <1>8. Known' = Known /\ UNCHANGED <<handed, shown, dropped, lost, releases>>
    BY <1>4 DEF Known, historyVars
  <1>9. CASE ~g.output /\ Moves(c, "settle") /\ UNCHANGED cursor
    <2>1. PICK f : f = [g EXCEPT !.place = "settle"]
      OBVIOUS
    <2>2. call' = [call EXCEPT ![c] = f]
      BY <1>1, <1>9, <2>1 DEF Moves, Goes
    <2>3. Alike(f, g) /\ f.place = "settle"
      BY <1>6, <2>1, FramePlaced DEF SessionPlaces
    <2>4. Grows
      BY <1>4, <1>9, GrowsAlone DEF PsInv
    <2>5. g.finish => Over(k)'
      BY <1>4, <1>6 DEF Over
    <2>6. FrameOk(f)'
      BY <1>2, <1>6, <1>8, <1>9, <2>3, <2>5 DEF FrameOk, Alike, Spawning
    <2>. QED  BY <1>1, <1>4, <1>6, <1>9, <2>2, <2>3, <2>4, <2>6, FrameMoves DEF Alike
  <1>10. CASE /\ g.output /\ g.full /\ UNCHANGED cursor
              /\ call' = [call EXCEPT ![c] = [g EXCEPT !.place = "settle", !.whole = g.whole \cup Upto(k, 1, to)]]
    <2>0. PICK w : w = g.whole \cup Upto(k, 1, to)
      OBVIOUS
    <2>1. PICK f : f = [g EXCEPT !.place = "settle", !.whole = w]
      OBVIOUS
    <2>2. call' = [call EXCEPT ![c] = f]
      BY <1>10, <2>0, <2>1
    <2>3. w \subseteq Cells
      BY <1>6, <1>7, <2>0, UptoTyped DEF Frames
    <2>4. /\ f \in Frames /\ f.place = "settle" /\ f.id = k /\ f.finish = g.finish /\ f.full = g.full /\ f.reserved = g.reserved
          /\ f.todo = g.todo /\ f.got = g.got /\ f.whole = w
      BY <1>2, <1>6, <2>1, <2>3 DEF Frames, SessionPlaces
    <2>5. Grows
      BY <1>4, <1>10, GrowsAlone DEF PsInv
    <2>6. g.finish => (Over(k) /\ Whole(f))'
      BY <1>4, <1>6, <1>7, <2>0, <2>4 DEF Over, Whole, Upto
    <2>7. FrameOk(f)'
      BY <1>6, <1>8, <1>10, <2>4, <2>6 DEF FrameOk, Spawning
    <2>. QED  BY <1>1, <1>4, <1>6, <1>10, <2>2, <2>4, <2>5, <2>7, FrameMoves
  <1>11. CASE /\ g.output /\ ~g.full
              /\ call' = [call EXCEPT ![c] = [g EXCEPT !.place = "settle", !.got = g.got \cup Upto(k, cursor[k] + 1, to)]]
              /\ cursor' = [cursor EXCEPT ![k] = to]
    <2>0. PICK w : w = g.got \cup Upto(k, cursor[k] + 1, to)
      OBVIOUS
    <2>1. PICK f : f = [g EXCEPT !.place = "settle", !.got = w]
      OBVIOUS
    <2>2. call' = [call EXCEPT ![c] = f]
      BY <1>11, <2>0, <2>1
    <2>3. w \subseteq Cells
      <3>1. cursor[k] + 1 \in Nat /\ cursor[k] + 1 >= 1
        BY <1>7
      <3>. QED  BY <1>6, <1>7, <2>0, <3>1, UptoTyped DEF Frames
    <2>4. /\ f \in Frames /\ f.place = "settle" /\ f.id = k /\ f.finish = g.finish /\ f.full = g.full /\ f.reserved = g.reserved
          /\ f.todo = g.todo /\ f.got = w
      BY <1>2, <1>6, <2>1, <2>3 DEF Frames, SessionPlaces
    <2>5. Grows /\ PsOutput'
      <3>1. f.got = call[c].got \cup {<<k, b>> : b \in cursor[k] + 1 .. to}
        BY <1>1, <2>0, <2>4 DEF Upto
      <3>2. PsTypes /\ PsOutput /\ UNCHANGED <<handle, nextId, handed, shown, dropped, lost, releases>> /\ ~AboutToShow(call[c])
        BY <1>1, <1>4, <1>6, <1>8 DEF PsInv
      <3>3. cursor' = [cursor EXCEPT ![k] = to]
        BY <1>11
      <3>. QED  BY <1>6, <1>7, <2>2, <3>1, <3>2, <3>3, OutputTakes, Zenon
    <2>6. g.finish => Over(k)' /\ (cursor[k] = handle[k].bytes)'
      <3>1. cursor'[k] = to
        BY <1>7, <1>11 DEF PsInv, PsTypes
      <3>. QED  BY <1>2, <1>4, <1>6, <1>7, <3>1 DEF Over
    <2>7. FrameOk(f)'
      BY <1>6, <1>8, <1>11, <2>4, <2>6 DEF FrameOk, Spawning
    <2>8. PsTypes'
      <3>1. sessions' \subseteq Known' /\ releases' \in [Ids -> Nat] /\ \A j \in Ids : j >= nextId' => releases'[j] = 0
        BY <1>4, <1>8 DEF PsInv, PsTypes
      <3>. QED  BY <2>2, <2>5, <2>7, <3>1, CallMoves DEF PsInv
    <2>9. PsCapacity'
      BY <1>1, <1>4, <2>2, <2>4, CapacityStays DEF PsInv
    <2>10. PsReach'
      BY <1>1, <1>4, <1>6, <2>2, <2>5, ReachMoves DEF PsInv
    <2>. QED  BY <2>5, <2>8, <2>9, <2>10 DEF PsInv
  <1>. QED  BY <1>4, <1>9, <1>10, <1>11

LEMMA SettleReadPs == ASSUME NEW c \in Calls, PsInv, SettleRead(c) PROVE PsInv'
  <1>1. PICK g : g = call[c]
    OBVIOUS
  <1>2. PICK k : k = g.id
    OBVIOUS
  <1>3. /\ g.place = "settle" /\ Moves(c, "next")
        /\ IF g.finish THEN RemoveSession(k) ELSE UNCHANGED <<sessions, releases>>
        /\ dropped' = IF g.finish /\ ~g.output THEN dropped \cup {k} ELSE dropped
        /\ UNCHANGED <<handle, pendingSpawns, nextId, cursor, handed, shown, lost, made>>
    BY <1>1, <1>2, Zenon DEF SettleRead, AtPlace
  <1>4. FrameOk(g)
    BY <1>1 DEF PsInv, PsTypes
  <1>5. /\ g \in Frames /\ ~g.reserved /\ g.todo \subseteq Known /\ (g.full => g.todo = {}) /\ k \in Known /\ k \in Ids
        /\ (g.finish => Over(k)) /\ ~AboutToShow(g) /\ ~Starting(g)
    BY <1>2, <1>3, <1>4, KnownIds DEF FrameOk, AboutToShow, Starting, PsInv
  <1>6. Grows /\ Known' = Known
    BY <1>3, GrowsAlone DEF PsInv, Known
  <1>7. PICK f : f = [g EXCEPT !.place = "next"]
    OBVIOUS
  <1>8. call' = [call EXCEPT ![c] = f]
    BY <1>1, <1>3, <1>7 DEF Moves, Goes
  <1>9. Alike(f, g) /\ f.place = "next"
    BY <1>5, <1>7, FramePlaced DEF SessionPlaces
  <1>10. FrameOk(f)'
    BY <1>5, <1>6, <1>9 DEF FrameOk, Alike, Spawning
  <1>11. /\ releases' \in [Ids -> Nat] /\ (\A j \in Ids : j # k \/ ~g.finish => releases'[j] = releases[j])
         /\ sessions' \subseteq sessions /\ (\A j \in sessions : j \in sessions' \/ (j = k /\ g.finish))
    <2>0. releases \in [Ids -> Nat]
      BY DEF PsInv, PsTypes
    <2>1. CASE g.finish /\ k \in sessions
      <3>1. releases' = [releases EXCEPT ![k] = @ + 1] /\ sessions' = sessions \ {k}
        BY <1>3, <2>1 DEF RemoveSession
      <3>2. releases[k] + 1 \in Nat
        BY <1>5, <2>0
      <3>. QED  BY <1>5, <2>0, <2>1, <3>1, <3>2
    <2>2. CASE g.finish /\ k \notin sessions
      <3>1. releases' = releases /\ sessions' = sessions \ {k}
        BY <1>3, <2>2 DEF RemoveSession
      <3>. QED  BY <2>0, <2>2, <3>1
    <2>3. CASE ~g.finish
      BY <1>3, <2>0, <2>3
    <2>. QED  BY <2>1, <2>2, <2>3
  <1>12. dropped \subseteq dropped' /\ (g.finish /\ ~g.output => k \in dropped')
    BY <1>3
  <1>13. g.finish => handle'[k].ended /\ Over(k)'
    BY <1>3, <1>5 DEF Over
  <1>14. ASSUME g.finish, k \notin (dropped \cup lost)', NEW b \in 1 .. handle'[k].bytes PROVE Covered(k, b)'
    <2>0. call'[c] = f /\ \A d \in Calls \ {c} : call'[d] = call[d]
      BY <1>8 DEF PsInv, PsTypes
    <2>1. g.output /\ k \notin lost /\ b \in 1 .. handle[k].bytes
      BY <1>3, <1>12, <1>14
    <2>2. CASE g.full
      <3>1. Whole(g)
        BY <1>3, <1>4, <1>14, <2>1, <2>2 DEF FrameOk
      <3>2. <<k, b>> \in f.whole /\ AboutToShow(f)
        BY <1>2, <1>5, <1>9, <2>1, <2>2, <3>1 DEF Whole, Alike, AboutToShow
      <3>3. Pending(k, b)'
        BY <2>0, <3>2 DEF Pending
      <3>. QED  BY <3>3 DEF Covered
    <2>3. CASE ~g.full
      <3>1. cursor[k] = handle[k].bytes
        BY <1>2, <1>3, <1>4, <1>14, <2>1, <2>3 DEF FrameOk
      <3>2. b \in 1 .. MaxBytes /\ b <= cursor[k]
        <4>1. handle[k].bytes \in 0 .. MaxBytes
          BY <1>5, TakenFrom
        <4>. QED  BY <2>1, <3>1, <4>1, SessionConstants
      <3>3. Consumed(k, b)
        BY <1>5, <2>1, <3>2 DEF PsInv, PsOutput
      <3>4. \A d \in Calls : Took(d, k, b) => Took(d, k, b)'
        BY <1>1, <1>9, <2>0 DEF Took, Alike
      <3>5. HandedOut(k, b) => HandedOut(k, b)'
        BY <1>3 DEF HandedOut
      <3>6. Consumed(k, b)'
        BY <3>3, <3>4, <3>5 DEF Consumed
      <3>. QED  BY <3>6 DEF Covered
    <2>. QED  BY <2>2, <2>3
  <1>15. NewReleases
    BY <1>11, <1>13, <1>14 DEF NewReleases
  <1>16. PsTypes'
    <2>1. \A j \in Ids : j >= nextId' => releases'[j] = 0
      <3>1. ~(k >= nextId)
        BY <1>5 DEF PsInv, PsTypes
      <3>. QED  BY <1>3, <1>11, <3>1 DEF PsInv, PsTypes
    <2>2. sessions' \subseteq Known'
      BY <1>6, <1>11 DEF PsInv, PsTypes
    <2>. QED  BY <1>6, <1>8, <1>10, <1>11, <2>1, <2>2, CallMoves DEF PsInv
  <1>17. PsCapacity'
    BY <1>1, <1>3, <1>8, <1>9, <1>11, CapacityStays DEF PsInv, Alike
  <1>18. PsReach'
    BY <1>1, <1>3, <1>5, <1>6, <1>8, <1>11, <1>13, ReachMoves DEF PsInv
  <1>19. PsOutput'
    BY <1>1, <1>3, <1>6, <1>8, <1>9, <1>12, <1>15, OutputQuiet DEF PsInv, Alike
  <1>. QED  BY <1>16, <1>17, <1>18, <1>19 DEF PsInv

LEMMA StoreShutdownPs == PsInv /\ StoreShutdown => PsInv'
  <1>. SUFFICES ASSUME PsInv, StoreShutdown PROVE PsInv'
    OBVIOUS
  <1>1. /\ UNCHANGED <<pendingSpawns, nextId, cursor, call, handed, shown, lost,
                       releases>> /\ Known' = Known
        /\ sessions' = {} /\ dropped' = dropped \cup sessions
    BY DEF StoreShutdown, Known
  <1>2. sessions \subseteq Known /\ Known \subseteq Ids
    BY KnownIds DEF PsInv, PsTypes
  <1>3. \A i \in Ids : handle'[i] = IF i \in sessions THEN Down(handle[i], handle[i].bytes) ELSE handle[i]
    BY DEF StoreShutdown
  <1>4. \A i \in Ids : /\ handle[i] \in Handles /\ handle'[i] \in Handles /\ handle'[i].bytes = handle[i].bytes
                       /\ (i \in sessions => handle'[i].child = "gone" /\ handle'[i].ended)
                       /\ (i \notin sessions => handle'[i] = handle[i])
    <2>. SUFFICES ASSUME NEW i \in Ids
                  PROVE  /\ handle[i] \in Handles /\ handle'[i] \in Handles /\ handle'[i].bytes = handle[i].bytes
                         /\ (i \in sessions => handle'[i].child = "gone" /\ handle'[i].ended)
                         /\ (i \notin sessions => handle'[i] = handle[i])
      OBVIOUS
    <2>1. handle[i] \in Handles
      BY DEF PsInv, PsTypes
    <2>2. CASE i \in sessions
      <3>1. handle'[i] = Down(handle[i], handle[i].bytes)
        BY <1>3, <2>2
      <3>. QED  BY <2>1, <2>2, <3>1 DEF Down, Handles
    <2>3. CASE i \notin sessions
      BY <1>3, <2>1, <2>3
    <2>. QED  BY <2>2, <2>3
  <1>5. handle' \in [Ids -> Handles]
    <2>1. handle' = [i \in Ids |-> handle'[i]]
      BY DEF StoreShutdown
    <2>. QED  BY <1>4, <2>1
  <1>6. Grows
    <2>1. \A i \in Known : /\ handle[i].child = "gone" => handle'[i].child = "gone"
                           /\ handle[i].ended => handle'[i].ended /\ handle'[i].bytes = handle[i].bytes
      BY <1>2, <1>4
    <2>2. \A i \in Known : cursor'[i] >= cursor[i]
      <3>1. \A i \in Known : cursor[i] \in Nat
        BY <1>2, SessionConstants DEF PsInv, PsTypes
      <3>. QED  BY <1>1, <3>1
    <2>3. \A i \in Ids : cursor'[i] <= handle'[i].bytes
      BY <1>1, <1>4 DEF PsInv, PsTypes
    <2>4. \A i \in Ids : i >= nextId' => handle'[i].child = "none" /\ cursor'[i] = 0
      <3>1. \A i \in Ids : i >= nextId => handle[i].child = "none" /\ cursor[i] = 0
        BY DEF PsInv, PsTypes
      <3>2. \A i \in sessions : handle[i].child # "none"
        BY <1>2 DEF PsInv, PsTypes
      <3>. QED  BY <1>1, <1>4, <3>1, <3>2
    <2>5. \A i \in Known' : handle'[i].child # "none"
      <3>1. \A i \in Known : handle[i].child # "none"
        BY DEF PsInv, PsTypes
      <3>. QED  BY <1>1, <1>2, <1>4, <3>1
    <2>6. cursor' \in [Ids -> 0 .. MaxBytes] /\ nextId' \in Nat /\ nextId' >= nextId /\ nextId' <= MaxIds + 1
      BY <1>1 DEF PsInv, PsTypes
    <2>. QED  BY <1>5, <2>1, <2>2, <2>3, <2>4, <2>5, <2>6 DEF Grows
  <1>7. PsTypes'
    <2>1. sessions' \subseteq Known' /\ releases' \in [Ids -> Nat] /\ \A j \in Ids : j >= nextId' => releases'[j] = 0
      BY <1>1 DEF PsInv, PsTypes
    <2>. QED  BY <1>1, <1>6, <2>1, AllStay DEF PsInv
  <1>8. PsCapacity'
    <2>1. IsFiniteSet(sessions') /\ Cardinality(sessions') = 0 /\ Cardinality(sessions) \in Nat
      BY <1>1, FS_EmptySet, FS_CardinalityType DEF PsInv, PsCapacity
    <2>2. Reserved' = Reserved
      BY <1>1 DEF Reserved
    <2>3. pendingSpawns \in Nat
      BY FS_CardinalityType DEF PsInv, PsCapacity
    <2>. QED  BY <1>1, <2>1, <2>2, <2>3, SessionConstants DEF PsInv, PsCapacity
  <1>9. PsReach'
    <2>1. \A d \in Calls : ~Starting(call[d])
      BY DEF StoreShutdown, AtPlace, Starting
    <2>2. \A i \in Known : i \in sessions \/ Over(i)
      BY <2>1 DEF PsInv, PsReach
    <2>3. \A i \in Known : Over(i)'
      BY <1>2, <1>4, <2>2 DEF Over
    <2>. QED  BY <1>1, <2>3 DEF PsReach
  <1>10. PsOutput'
    BY <1>1, <1>6, OutputFrame DEF PsInv
  <1>. QED  BY <1>7, <1>8, <1>9, <1>10 DEF PsInv

LEMMA InitPs == SessionInit => PsInv
  <1>. SUFFICES ASSUME SessionInit PROVE PsInv
    OBVIOUS
  <1>1. /\ handle = [i \in Ids |-> NoHandle] /\ sessions = {} /\ pendingSpawns = 0 /\ nextId = 1
        /\ cursor = [i \in Ids |-> 0] /\ call = [c \in Calls |-> Idle] /\ handed = [x \in Cells |-> 0]
        /\ releases = [i \in Ids |-> 0]
    BY DEF SessionInit, Cells
  <1>2. Known = {}
    BY <1>1 DEF Known
  <1>3. NoHandle \in Handles /\ NoHandle.child = "none" /\ NoHandle.bytes = 0
    BY SessionConstants DEF NoHandle, Handles
  <1>4. Idle.got = {} /\ Idle.reserved = FALSE
    BY DEF Idle
  <1>5. PsTypes
    <2>1. handle \in [Ids -> Handles] /\ cursor \in [Ids -> 0 .. MaxBytes] /\ releases \in [Ids -> Nat]
      BY <1>1, <1>3, SessionConstants
    <2>2. nextId \in Nat /\ nextId >= 1 /\ nextId <= MaxIds + 1
      BY <1>1, SessionConstants
    <2>3. \A i \in Ids : handle[i].child = "none" /\ cursor[i] = 0 /\ releases[i] = 0 /\ cursor[i] <= handle[i].bytes
      BY <1>1, <1>3
    <2>4. DOMAIN call = Calls /\ \A c \in Calls : FrameOk(call[c])
      BY <1>1, IdleOk
    <2>. QED  BY <1>1, <1>2, <2>1, <2>2, <2>3, <2>4 DEF PsTypes
  <1>6. PsCapacity
    <2>1. Reserved = {}
      BY <1>1, <1>4 DEF Reserved
    <2>2. IsFiniteSet({}) /\ Cardinality({}) = 0
      BY FS_EmptySet
    <2>. QED  BY <1>1, <2>1, <2>2, SessionConstants DEF PsCapacity
  <1>7. PsReach
    BY <1>2 DEF PsReach
  <1>8. PsOutput
    <2>1. \A i \in Ids, b \in 1 .. MaxBytes : ~HandedOut(i, b)
      BY <1>1 DEF HandedOut, Cells
    <2>2. \A c \in Calls : \A i, b : ~Took(c, i, b)
      BY <1>1, <1>4 DEF Took
    <2>3. \A i \in Ids : cursor[i] = 0 /\ ~(cursor[i] % 2 = 1) /\ ~(releases[i] > 0)
      BY <1>1
    <2>4. \A i \in Ids, b \in 1 .. MaxBytes : ~(b <= cursor[i])
      BY <2>3, SessionConstants
    <2>5. handed \in [Cells -> {0, 1}]
      BY <1>1
    <2>. QED  BY <2>1, <2>2, <2>3, <2>4, <2>5 DEF PsOutput
  <1>. QED  BY <1>5, <1>6, <1>7, <1>8 DEF PsInv

LEMMA NextPs == PsInv /\ [SessionNext]_sessionVars => PsInv'
  <1>. SUFFICES ASSUME PsInv, [SessionNext]_sessionVars PROVE PsInv'
    OBVIOUS
  <1>1. CASE UNCHANGED sessionVars
    <2>1. UNCHANGED <<handle, sessions, pendingSpawns, nextId, cursor, call, historyVars>>
      BY <1>1 DEF sessionVars, storeVars
    <2>. QED  BY <2>1, GrowsAlone, HandlesMove DEF PsInv
  <1>2. CASE \E i \in Ids : Writes(i) \/ Lives(i)
    BY <1>2, HandlesPs
  <1>3. CASE StoreShutdown
    BY <1>3, StoreShutdownPs
  <1>4. ASSUME NEW c \in Calls,
               \/ Reserve(c) \/ Launch(c) \/ StartAndPublish(c) \/ InitialWait(c) \/ Rollback(c) \/ Report(c)
               \/ Release(c) \/ Answer(c)
               \/ ReadProcess(c) \/ PollProcess(c) \/ NextRead(c) \/ Fence(c) \/ Take(c) \/ SettleRead(c)
               \/ SendProcess(c)
        PROVE  PsInv'
    BY <1>4, ReservePs, LaunchPs, StartAndPublishPs, InitialWaitPs, RollbackPs, ReportPs,
       ReleasePs, AnswerPs,
       ReadProcessPs, PollProcessPs, NextReadPs, FencePs, TakePs, SettleReadPs, SendProcessPs
  <1>. QED  BY <1>1, <1>2, <1>3, <1>4 DEF SessionNext

LEMMA PsFacts == PsInv => CapacityHolds /\ NoOrphan /\ OutputOnce
  <1>. SUFFICES ASSUME PsInv PROVE CapacityHolds /\ NoOrphan /\ OutputOnce
    OBVIOUS
  <1>1. CapacityHolds
    BY DEF PsInv, PsCapacity, CapacityHolds, Reserved
  <1>2. ASSUME NEW i \in Ids PROVE i >= nextId \/ i \in Known
    BY SessionConstants DEF PsInv, PsTypes, Known, Ids
  <1>3. NoOrphan
    <2>1. \A i \in Ids : handle[i].child # "none" => i \in Known
      BY <1>2 DEF PsInv, PsTypes
    <2>. QED  BY <2>1 DEF PsInv, PsReach, Over, NoOrphan
  <1>4. OutputOnce
    <2>1. handed \in [Cells -> {0, 1}]
      BY DEF PsInv, PsOutput
    <2>2. \A x \in DOMAIN handed : handed[x] <= 1
      BY <2>1
    <2>3. \A i \in Ids : cursor[i] % 2 = 1 => handle[i].ended
      BY DEF PsInv, PsOutput
    <2>4. ASSUME NEW i \in Ids, releases[i] > 0, i \notin dropped \cup lost, NEW b \in 1 .. handle[i].bytes
          PROVE  handed[<<i, b>>] = 1 \/ <<i, b>> \in shown \/ \E c \in Calls : <<i, b>> \in call[c].got \cup call[c].whole
      <3>1. Covered(i, b)
        BY <2>4 DEF PsInv, PsOutput
      <3>. QED  BY <3>1 DEF Covered, Consumed, Pending, HandedOut, Took
    <2>. QED  BY <2>2, <2>3, <2>4 DEF OutputOnce
  <1>. QED  BY <1>1, <1>3, <1>4

\* The process side, however many children, tool calls and bytes there are: what a
\* process handle started is joined before shutdown() answers, the captured streams
\* and the input are the child's, in order (ProcessHandle); the session table keeps
\* its capacity, a child that runs can be reached, and a byte of output is handed
\* out once and not lost with a release (ProcessSessionStore).
THEOREM ProcessesAlwaysAccounted == HostSpec => []ProcessesAccounted
  <1>. DEFINE Inv == /\ part = "handle" => HpInv /\ InInv
                     /\ part = "sessions" => PsInv
  <1>1. HostInit => Inv
    BY InitHp, InitIn, InitPs DEF HostInit
  <1>2. Inv /\ [HostNext]_HostVars => Inv'
    <2>. SUFFICES ASSUME Inv, [HostNext]_HostVars PROVE Inv'
      OBVIOUS
    <2>1. CASE part = "handle"
      <3>1. [HandleNext]_handleVars /\ part' = part
        BY <2>1 DEF HostNext, HostVars, Others
      <3>. QED  BY <2>1, <3>1, NextHp, NextIn
    <2>2. CASE part = "sessions"
      <3>1. [SessionNext]_sessionVars /\ part' = part
        BY <2>2 DEF HostNext, HostVars, Others
      <3>. QED  BY <2>2, <3>1, NextPs
    <2>3. CASE part \notin {"handle", "sessions"}
      <3>1. part' = part
        BY <2>3 DEF HostNext, HostVars, Others
      <3>. QED  BY <2>3, <3>1
    <2>. QED  BY <2>1, <2>2, <2>3
  <1>3. Inv => ProcessesAccounted
    BY HpFacts, InFacts, PsFacts DEF ProcessesAccounted
  <1>. QED
    BY <1>1, <1>2, <1>3, PTL DEF HostSpec
=============================================================================
