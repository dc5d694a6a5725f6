---------------------------- MODULE ProcessHandle ----------------------------
(***************************************************************************)
(* One child process under process::ProcessHandle                          *)
(* (src/process/src/process_handle.cpp) with its I/O environment: anonymous *)
(* pipes or a POSIX terminal (src/process_io/src/).  Everything runs on one *)
(* strand, so an action lasts from one suspension to the next.             *)
(*                                                                         *)
(* Output bytes are counted, not kept: written by the child, read from the *)
(* pipe, kept in the capture.  Any operating-system call may fail.         *)
(* Boost.Process is seen through its use: running() reaps a dead child,     *)
(* terminate() kills and reaps, and the wait on the pidfd can miss an exit *)
(* (the arm race that the probe timer is for).                             *)
(* start() and shutdown() never overlap: ProcessSessionStore publishes a   *)
(* session only when its startup is over.                                  *)
(***************************************************************************)
EXTENDS Naturals, Sequences, FiniteSets

CONSTANTS
    Callers,       \* concurrent callers of shutdown()
    CaptureLimit,  \* spec.max_output_bytes, shared by the streams; 0 is no limit
    MaxEvents      \* bound: bytes written by the child, inputs admitted, failing
                   \* system calls and shutdowns, together

ASSUME HandleConstants ==
    /\ CaptureLimit \in Nat
    /\ MaxEvents \in Nat

VARIABLES
    tty,           \* terminal or pipes; fixed at launch
    child,         \* "alive", "zombie" or "reaped"
    heir,          \* a descendant holds the inherited output open
    written, drained,   \* bytes per stream: by the child, read from the pipe
    capture,       \* per stream: bytes kept, truncated, end
    pump,          \* place of the input pump and of each output pump
    input,         \* phase, queue, bytes in flight and flags of the input side
    delivered,     \* history: inputs the child's end has received
    accepted,      \* history: inputs admitted
    pipesStopping, pipeFailure,
    watcher,       \* place in background_await_task()
    waiter,        \* place in await_initial_execution()
    final,         \* _final_status and the exited() latch
    stopWatcher, lifecycleFailure,
    shut,          \* place of each caller in shutdown_on_strand()
    faults

childVars == <<child, heir, written>>
outputVars == <<drained, capture>>
inputVars == <<input, delivered, accepted>>
taskVars == <<pipesStopping, pipeFailure>>
watchVars == <<watcher, waiter, final, stopWatcher, lifecycleFailure>>
handleVars == <<tty, childVars, outputVars, pump, inputVars, taskVars, watchVars, shut,
                faults>>

AllStreams == {"stdout", "stderr", "terminal"}
Streams == IF tty THEN {"terminal"} ELSE {"stdout", "stderr"}
Pumps == Streams \cup {"input"}

Bounded ==
    written["stdout"] + written["stderr"] + written["terminal"] + Len(accepted) + faults
        + Cardinality({c \in Callers : shut[c] # "idle"}) < MaxEvents
Fault == Bounded /\ faults' = faults + 1
NoFault == UNCHANGED faults

(***************************************************************************)
(* CaptureBuffer.                                                          *)
(***************************************************************************)
Retained(c) == c["stdout"].kept + c["stderr"].kept + c["terminal"].kept

\* append(): what does not fit the shared budget is dropped and marked.
Keep(s, n) ==
    LET room == IF CaptureLimit = 0 THEN n ELSE CaptureLimit - Retained(capture)
        count == IF n < room THEN n ELSE room
    IN  [capture EXCEPT ![s].kept = @ + count, ![s].cut = @ \/ count # n]

\* finish(): the first end stays; a forced or failed one means loss.
Finish(c, S, end) ==
    [s \in AllStreams |->
        IF s \in S /\ c[s].end = "Open"
          THEN [c[s] EXCEPT !.end = end, !.cut = @ \/ end \in {"Stopped", "Failed"}]
          ELSE c[s]]

Complete == \A s \in Streams : capture[s].end # "Open"

(***************************************************************************)
(* Input: one writer drains the queue in order.                            *)
(***************************************************************************)
HandleEnding(phase) == phase \in {"NotStarted", "Open", "EndRequested"}

\* abort_input(): stop admission, drop the queue, close the descriptor, wake
\* the writer.  Output capture goes on.
AbortedInput(i, closed) ==
    [i EXCEPT !.stopped = TRUE, !.accepting = FALSE, !.queue = <<>>,
              !.phase = IF ~closed THEN "Failed" ELSE IF HandleEnding(@) THEN "Stopped" ELSE @]

Woken(p) == IF p["input"] = "asleep" THEN [p EXCEPT !["input"] = "woken"] ELSE p

\* completed(Task::Input): errors are kept before the task stops counting.
InputOver(i) ==
    /\ pump' = [pump EXCEPT !["input"] = "done"]
    /\ \/ input' = i /\ NoFault /\ UNCHANGED pipeFailure
       \/ input' = i /\ ~i.stopped /\ Fault /\ pipeFailure' = TRUE   \* close fails

InputFailed(i) ==
    /\ pump' = [pump EXCEPT !["input"] = "done"]
    /\ input' = [i EXCEPT !.phase = "Failed", !.accepting = FALSE, !.queue = <<>>]
    /\ pipeFailure' = TRUE
    /\ Fault

InputGoesOn(i, place) ==
    /\ input' = i
    /\ pump' = [pump EXCEPT !["input"] = place]
    /\ NoFault
    /\ UNCHANGED pipeFailure

\* All input is delivered: the pipe is closed.
EndPipe(i) == InputOver([i EXCEPT !.phase = "Ended"]) \/ InputFailed(i)

\* eof_request(): the terminal's settings of this moment decide whether it has an
\* end of file; reading them may fail.
EndTerminal(i) ==
    InputGoesOn(i, "eof") \/ InputOver([i EXCEPT !.phase = "Unsupported"]) \/ InputFailed(i)

\* The writer's loop, from its head to the next suspension.
WriterTop(i) ==
    \/ (pipesStopping \/ i.stopped) /\ InputOver(i)
    \/ /\ ~pipesStopping /\ ~i.stopped
       /\ \/ /\ i.queue # <<>>
             /\ InputGoesOn([i EXCEPT !.queue = Tail(@), !.flight = Head(i.queue)], "write")
          \/ i.queue = <<>> /\ ~i.ending /\ InputGoesOn(i, "asleep")
          \/ /\ i.queue = <<>> /\ i.ending
             /\ IF tty THEN EndTerminal(i) ELSE EndPipe(i)

WriterWakes ==
    /\ pump["input"] = "woken"
    /\ WriterTop(input)
    /\ UNCHANGED <<tty, childVars, outputVars, delivered, accepted, pipesStopping,
                   watchVars, shut>>

\* A pending write ends: all bytes accepted by the kernel, the peer is gone, or
\* an error.  After a stop the outcome is not looked at.
WriteEnds ==
    /\ pump["input"] = "write"
    /\ \/ (pipesStopping \/ input.stopped) /\ InputOver(input) /\ UNCHANGED delivered
       \/ /\ ~pipesStopping /\ ~input.stopped
          /\ \/ /\ child = "alive"
                /\ delivered' = Append(delivered, input.flight)
                /\ WriterTop([input EXCEPT !.flight = 0])
             \/ /\ InputOver([input EXCEPT !.phase = "PeerClosed", !.accepting = FALSE,
                                          !.queue = <<>>])
                /\ UNCHANGED delivered
             \/ InputFailed(input) /\ UNCHANGED delivered
    /\ UNCHANGED <<tty, childVars, outputVars, accepted, pipesStopping, watchVars, shut>>

\* The terminal's EOF characters are written after the queue.
EofWritten ==
    /\ pump["input"] = "eof"
    /\ \/ (pipesStopping \/ input.stopped) /\ InputOver(input)
       \/ /\ ~pipesStopping /\ ~input.stopped
          /\ \/ \E p \in {"Ended", "PeerClosed"} : InputOver([input EXCEPT !.phase = p])
             \/ InputFailed(input)
    /\ UNCHANGED <<tty, childVars, outputVars, delivered, accepted, pipesStopping,
                   watchVars, shut>>

Enqueued(i, x) == [i EXCEPT !.queue = Append(@, x)]

\* write_input(): admitted in order, unless the child was seen gone.
WriteInput ==
    /\ Bounded
    /\ IF ~final /\ input.accepting
         THEN /\ accepted' = Append(accepted, Len(accepted) + 1)
              /\ input' = Enqueued(input, Len(accepted) + 1)
              /\ pump' = Woken(pump)
         ELSE UNCHANGED <<accepted, input, pump>>
    /\ UNCHANGED <<tty, childVars, outputVars, delivered, taskVars, watchVars, shut, faults>>

\* Mutant of EndedInput: the end overtakes what is still queued.
MutantEndedInput(i) ==
    IF i.phase # "Open" \/ pipesStopping THEN i
    ELSE [i EXCEPT !.accepting = FALSE, !.ending = TRUE, !.phase = "EndRequested", !.queue = <<>>]

\* request_input_end(): no input is admitted after it; the queue is finished.
EndedInput(i) ==
    IF i.phase # "Open" \/ pipesStopping THEN i
    ELSE [i EXCEPT !.accepting = FALSE, !.ending = TRUE, !.phase = "EndRequested"]

CloseInput ==
    /\ input' = EndedInput(input)
    /\ pump' = IF input' = input THEN pump ELSE Woken(pump)
    /\ UNCHANGED <<tty, childVars, outputVars, delivered, accepted, taskVars, watchVars,
                   shut, faults>>

(***************************************************************************)
(* Output pumps: drained to the end even when the capture is full.         *)
(***************************************************************************)
Closed == child # "alive" /\ ~heir

\* completed(Task::Output): a failed stream is marked before the task stops
\* counting; the end of a terminal also ends its input.
OutputOver(s, end) ==
    /\ capture' = IF end = "none" THEN capture ELSE Finish(capture, {s}, end)
    /\ pipeFailure' = (pipeFailure \/ end = "Failed")
    /\ IF tty
         THEN /\ input' = [AbortedInput(input, TRUE) EXCEPT
                              !.phase = IF end # "Failed" /\ input.phase \in {"Open", "EndRequested"}
                                          THEN "PeerClosed" ELSE @]
              /\ pump' = [Woken(pump) EXCEPT ![s] = "done"]
         ELSE /\ pump' = [pump EXCEPT ![s] = "done"]
              /\ UNCHANGED input
    /\ UNCHANGED drained

\* Mutant of Read: the pump ends with the child, before the pipe is empty.
MutantRead(s) ==
    /\ pump[s] = "read"
    /\ \/ /\ ~pipesStopping /\ drained[s] < written[s]
          /\ drained' = written
          /\ capture' = Keep(s, written[s] - drained[s])
          /\ UNCHANGED <<pump, input, pipeFailure>>
       \/ pipesStopping /\ OutputOver(s, "none")
       \/ ~pipesStopping /\ Closed /\ OutputOver(s, "Eof")
    /\ NoFault
    /\ UNCHANGED <<tty, childVars, delivered, accepted, pipesStopping, watchVars, shut>>

\* One read: what is there, the end of file, an error, or an aborted read.
Read(s) ==
    /\ pump[s] = "read"
    /\ \/ /\ ~pipesStopping /\ drained[s] < written[s]
          /\ drained' = [drained EXCEPT ![s] = written[s]]
          /\ capture' = Keep(s, written[s] - drained[s])
          /\ UNCHANGED <<pump, input, pipeFailure>>
          /\ NoFault
       \/ pipesStopping /\ OutputOver(s, "none") /\ NoFault
       \/ ~pipesStopping /\ drained[s] = written[s] /\ Closed /\ OutputOver(s, "Eof") /\ NoFault
       \/ ~pipesStopping /\ OutputOver(s, "Failed") /\ Fault
    /\ UNCHANGED <<tty, childVars, delivered, accepted, pipesStopping, watchVars, shut>>

ActiveTasks == {p \in Pumps : pump[p] \notin {"none", "done"}}

\* abort(): forced ends are recorded before the descriptors close.
Abort ==
    /\ pipesStopping' = TRUE
    /\ capture' = Finish(capture, Streams, "Stopped")
    /\ pump' = Woken(pump)
    /\ \/ input' = AbortedInput(input, TRUE) /\ NoFault /\ UNCHANGED pipeFailure
       \/ ~input.stopped /\ input' = AbortedInput(input, FALSE) /\ Fault /\ pipeFailure' = TRUE

(***************************************************************************)
(* Startup.                                                                *)
(***************************************************************************)
\* start_background_io_tasks(): all pumps and the watcher, or none of them.
StartIo ==
    /\ pump["input"] = "none"
    /\ shut["start"] = "idle"
    /\ input' = [input EXCEPT !.accepting = TRUE, !.phase = "Open"]
    /\ pump' = [p \in Pumps |-> IF p = "input" THEN "woken" ELSE "read"]
    /\ watcher' = "first"
    /\ UNCHANGED <<tty, childVars, outputVars, delivered, accepted, taskVars, waiter, final,
                   stopWatcher, lifecycleFailure, shut, faults>>

\* A failure aborts what exists and runs the shutdown before it is reported.
StartFails ==
    /\ pump["input"] = "none"
    /\ shut["start"] = "idle"
    /\ Fault
    /\ pipesStopping' = TRUE
    /\ capture' = Finish(capture, Streams, "Stopped")
    /\ input' = AbortedInput(input, TRUE)
    /\ pipeFailure' = TRUE
    /\ lifecycleFailure' = TRUE
    /\ shut' = [shut EXCEPT !["start"] = "stop"]
    /\ UNCHANGED <<tty, childVars, drained, pump, delivered, accepted, watcher, waiter,
                   final, stopWatcher>>

(***************************************************************************)
(* The child, seen through Boost.Process.                                  *)
(***************************************************************************)
Running == child = "alive"
Probed == IF child = "zombie" THEN "reaped" ELSE child

ChildWrites(s) ==
    /\ child = "alive" \/ heir
    /\ s \in Streams
    /\ Bounded
    /\ written' = [written EXCEPT ![s] = @ + 1]
    /\ UNCHANGED <<tty, child, heir, outputVars, pump, inputVars, taskVars, watchVars,
                   shut, faults>>

\* The exit may fall into the arm race and be missed by the pidfd.
ChildExits ==
    /\ child = "alive"
    /\ child' = "zombie"
    /\ heir' \in BOOLEAN
    /\ UNCHANGED <<tty, written, outputVars, pump, inputVars, taskVars, watchVars, shut,
                   faults>>

HeirExits ==
    /\ heir
    /\ heir' = FALSE
    /\ UNCHANGED <<tty, child, written, outputVars, pump, inputVars, taskVars,
                   watchVars, shut, faults>>

\* terminate(): the kill and the reaping are one synchronous call.
Killed ==
    /\ child' = "reaped"
    /\ heir' \in BOOLEAN

(***************************************************************************)
(* background_await_task().                                                *)
(***************************************************************************)
Record ==
    /\ child' = Probed
    /\ final' = TRUE
    /\ watcher' = "close"

\* A failed observation is not an exit: it is kept, and the kill that follows is
\* best effort.
WatcherFails ==
    /\ Fault
    /\ lifecycleFailure' = TRUE
    /\ watcher' = "done"
    /\ \/ Running /\ Killed
       \/ UNCHANGED <<child, heir>>
    /\ UNCHANGED final

Rearm ==
    /\ Running
    /\ watcher' = IF stopWatcher THEN "done" ELSE "wait"
    /\ UNCHANGED <<child, final>>

\* Mutant of Probe: the first probe is the only one.
MutantProbe ==
    /\ watcher = "first"
    /\ (~Running /\ Record) \/ Rearm
    /\ UNCHANGED <<tty, heir, written, outputVars, pump, inputVars, taskVars, waiter,
                   stopWatcher, lifecycleFailure, shut, faults>>

\* The first probe, and the re-probe that bounds an exit missed by the pidfd.
Probe ==
    /\ watcher \in {"first", "wait"}
    /\ \/ ((~Running /\ Record) \/ Rearm) /\ NoFault /\ UNCHANGED <<heir, lifecycleFailure>>
       \/ WatcherFails
    /\ UNCHANGED <<tty, written, outputVars, pump, inputVars, taskVars, waiter, stopWatcher, shut>>

\* The exit edge reached the armed wait.
PidfdReports ==
    /\ watcher = "wait"
    /\ ~Running /\ Record
    /\ UNCHANGED <<tty, heir, written, outputVars, pump, inputVars, taskVars, waiter,
                   stopWatcher, lifecycleFailure, shut, faults>>

\* A dead child reads no input: the terminal's is cancelled, a pipe's ended.
WatcherCloses ==
    /\ watcher = "close"
    /\ watcher' = "done"
    /\ input' = IF tty THEN AbortedInput(input, TRUE) ELSE EndedInput(input)
    /\ pump' = IF input' = input THEN pump ELSE Woken(pump)
    /\ UNCHANGED <<tty, childVars, outputVars, delivered, accepted, taskVars, waiter, final,
                   stopWatcher, lifecycleFailure, shut, faults>>

WatcherActive == watcher \notin {"none", "done"}

(***************************************************************************)
(* await_initial_execution() and the signals.                              *)
(***************************************************************************)
Waiting == ~final /\ WatcherActive /\ ~stopWatcher /\ ~lifecycleFailure

AwaitInitial ==
    /\ pump["input"] # "none" /\ waiter = "no"
    /\ waiter' = IF Waiting THEN "active" ELSE "over"
    /\ UNCHANGED <<tty, childVars, outputVars, pump, inputVars, taskVars, watcher, final,
                   stopWatcher, lifecycleFailure, shut, faults>>

\* The wait ends with the child, with the watcher or with a shutdown.
InitialOver ==
    /\ waiter = "active" /\ ~Waiting
    /\ waiter' = "over"
    /\ UNCHANGED <<tty, childVars, outputVars, pump, inputVars, taskVars, watcher, final,
                   stopWatcher, lifecycleFailure, shut, faults>>

\* The window is over: only a child that may not be detached is killed, and a
\* failing kill reaches the caller.
WindowOver ==
    /\ waiter = "active" /\ Waiting
    /\ waiter' = "over"
    /\ \/ UNCHANGED <<child, heir>> /\ NoFault                  \* detach_on_timeout
       \/ Running /\ Killed /\ NoFault
       \/ ~Running /\ child' = Probed /\ UNCHANGED heir /\ NoFault
       \/ UNCHANGED <<child, heir>> /\ Fault
    /\ UNCHANGED <<tty, written, outputVars, pump, inputVars, taskVars, watcher,
                   final, stopWatcher, lifecycleFailure, shut>>

\* terminate() and request_exit() of a caller: no signal after the recorded end,
\* and a failing probe or signal reaches the caller only.
SignalChild(kill) ==
    /\ ~final
    /\ pump["input"] # "none"
    /\ IF Running /\ kill THEN Killed ELSE child' = Probed /\ UNCHANGED heir
    /\ UNCHANGED <<tty, written, outputVars, pump, inputVars, taskVars, watchVars,
                   shut, faults>>

(***************************************************************************)
(* shutdown_on_strand().                                                   *)
(***************************************************************************)
At(c, from, to) == shut[c] = from /\ shut' = [shut EXCEPT ![c] = to]

BeginShutdown(c) ==
    /\ c \in Callers
    /\ Bounded
    /\ pump["input"] # "none" \/ shut["start"] \in {"ok", "threw"}
    /\ At(c, "idle", "stop")
    /\ UNCHANGED <<tty, childVars, outputVars, pump, inputVars, taskVars, watchVars, faults>>

\* Stop the watcher, cancel the input, kill: one stretch on the strand.  What
\* fails is remembered; the joins follow in any case.
ShutStops(c) ==
    /\ At(c, "stop", "drain")
    /\ stopWatcher' = TRUE
    /\ pump' = Woken(pump)
    /\ \/ /\ input' = AbortedInput(input, TRUE)
          /\ lifecycleFailure' = (lifecycleFailure \/ pipeFailure)
          /\ IF ~final /\ Running THEN Killed
             ELSE child' = (IF final THEN child ELSE Probed) /\ UNCHANGED heir
          /\ NoFault
          /\ UNCHANGED pipeFailure
       \/ /\ input' = AbortedInput(input, TRUE)
          /\ ~final
          /\ lifecycleFailure' = TRUE
          /\ Fault
          /\ UNCHANGED <<child, heir, pipeFailure>>
       \/ /\ ~input.stopped
          /\ input' = AbortedInput(input, FALSE)
          /\ pipeFailure' = TRUE
          /\ lifecycleFailure' = (lifecycleFailure \/ pipeFailure)
          /\ IF ~final /\ Running THEN Killed
             ELSE child' = (IF final THEN child ELSE Probed) /\ UNCHANGED heir
          /\ Fault
    /\ UNCHANGED <<tty, written, outputVars, delivered, accepted, pipesStopping,
                   watcher, waiter, final>>

\* Mutant of ShutAborts: the join waits for the end of the output.
MutantShutAborts(c) ==
    /\ At(c, "drain", "join")
    /\ UNCHANGED <<tty, childVars, drained, delivered, accepted, watchVars, pipesStopping, capture,
                   pump, input, pipeFailure, faults>>

\* drain_until() ends, complete or after 100 ms, and the I/O is aborted.
ShutAborts(c) ==
    /\ At(c, "drain", "join")
    /\ Abort
    /\ UNCHANGED <<tty, childVars, drained, delivered, accepted, watchVars>>

\* Mutant of ShutJoins: the tasks are not awaited.
MutantShutJoins(c) ==
    /\ At(c, "join", "watch")
    /\ lifecycleFailure' = (lifecycleFailure \/ pipeFailure)
    /\ UNCHANGED <<tty, childVars, outputVars, pump, inputVars, pipesStopping, pipeFailure, watcher,
                   waiter, final, stopWatcher, faults>>

ShutJoins(c) ==
    /\ At(c, "join", "watch")
    /\ ActiveTasks = {}
    /\ lifecycleFailure' = (lifecycleFailure \/ pipeFailure)
    /\ UNCHANGED <<tty, childVars, outputVars, pump, inputVars, pipesStopping, pipeFailure, watcher,
                   waiter, final, stopWatcher, faults>>

\* Watcher and initial wait are over; what they left is recovered here.
ShutRecovers(c) ==
    /\ shut[c] = "watch"
    /\ ~WatcherActive
    /\ waiter # "active"
    /\ \/ /\ IF Running THEN Killed ELSE child' = Probed /\ UNCHANGED heir
          /\ final' = TRUE
          /\ UNCHANGED lifecycleFailure
          /\ NoFault
       \/ /\ lifecycleFailure' = TRUE
          /\ Fault
          /\ UNCHANGED <<child, heir, final>>
    /\ shut' = [shut EXCEPT ![c] = IF lifecycleFailure' THEN "threw" ELSE "ok"]
    /\ UNCHANGED <<tty, written, outputVars, pump, inputVars, taskVars, watcher,
                   waiter, stopWatcher>>

(***************************************************************************)
(* The specification.                                                      *)
(***************************************************************************)
HandleInit ==
    /\ tty \in BOOLEAN
    /\ child = "alive"
    /\ heir = FALSE
    /\ written = [s \in AllStreams |-> 0]
    /\ drained = [s \in AllStreams |-> 0]
    /\ capture = [s \in AllStreams |-> [kept |-> 0, cut |-> FALSE, end |-> "Open"]]
    /\ pump = [p \in Pumps |-> "none"]
    /\ input = [phase |-> "NotStarted", queue |-> <<>>, flight |-> 0, accepting |-> FALSE,
                ending |-> FALSE, stopped |-> FALSE]
    /\ delivered = <<>>
    /\ accepted = <<>>
    /\ pipesStopping = FALSE
    /\ pipeFailure = FALSE
    /\ watcher = "none"
    /\ waiter = "no"
    /\ final = FALSE
    /\ stopWatcher = FALSE
    /\ lifecycleFailure = FALSE
    /\ shut = [c \in Callers \cup {"start"} |-> "idle"]
    /\ faults = 0

InputTask == WriterWakes \/ WriteEnds \/ EofWritten
OutputTask(s) == s \in Streams /\ Read(s)
Watcher == Probe \/ WatcherCloses
ShutdownStep(c) ==
    ShutStops(c) \/ ShutAborts(c) \/ ShutJoins(c) \/ ShutRecovers(c)

HandleNext ==
    \/ StartIo
    \/ StartFails
    \/ InputTask
    \/ \E s \in AllStreams : OutputTask(s) \/ ChildWrites(s)
    \/ ChildExits
    \/ HeirExits
    \/ Watcher
    \/ PidfdReports
    \/ AwaitInitial
    \/ InitialOver
    \/ WindowOver
    \/ \E kill \in BOOLEAN : SignalChild(kill)
    \/ WriteInput
    \/ CloseInput
    \/ \E c \in Callers \cup {"start"} : BeginShutdown(c) \/ ShutdownStep(c)

\* The strand runs what is ready, timers fire, and an aborted operation ends.
\* Nothing is assumed of the child, of its descendants or of a pending write.
HandleFairness ==
    /\ WF_handleVars(WriterWakes)
    /\ WF_handleVars((pipesStopping \/ input.stopped) /\ (WriteEnds \/ EofWritten))
    /\ \A s \in AllStreams : WF_handleVars(OutputTask(s))
    /\ WF_handleVars(Watcher)
    /\ WF_handleVars(InitialOver)
    /\ \A c \in Callers \cup {"start"} : WF_handleVars(ShutdownStep(c))

HandleSpec == HandleInit /\ [][HandleNext]_handleVars /\ HandleFairness

(***************************************************************************)
(* Properties.                                                             *)
(***************************************************************************)
\* When any shutdown() has returned or thrown, no task of the handle is left,
\* every capture has its end, and a success means a reaped child and a recorded
\* end, whatever the other callers, the descendants and the failing calls did.
JoinFence ==
    \A c \in DOMAIN shut :
        shut[c] \in {"ok", "threw"} =>
            /\ ActiveTasks = {} /\ ~WatcherActive /\ waiter # "active"
            /\ Complete
            /\ shut[c] = "ok" => child = "reaped" /\ final

\* A capture never keeps more than the shared budget; a stream that ended by EOF
\* and is not marked as truncated holds every byte written, and EOF with
\* truncation only happens when the budget is used up.
CaptureTruth ==
    /\ CaptureLimit > 0 => Retained(capture) <= CaptureLimit
    /\ \A s \in Streams :
          capture[s].end = "Eof" =>
              IF capture[s].cut THEN CaptureLimit > 0 /\ Retained(capture) = CaptureLimit
                                ELSE capture[s].kept = written[s]

\* The child receives the admitted inputs in order and without a gap, and the
\* input only counts as ended when it has received all of them.
InputInOrder ==
    /\ Len(delivered) <= Len(accepted)
    /\ delivered = SubSeq(accepted, 1, Len(delivered))
    /\ input.phase = "Ended" => delivered = accepted

\* A shutdown ends even when a descendant holds the output open, a call fails or
\* another shutdown runs.
ShutdownEnds == \A c \in Callers : shut[c] = "stop" ~> shut[c] \in {"ok", "threw"}

\* An exit is recorded even when its edge falls into the arm race of the pidfd,
\* unless the observation itself failed.
ExitObserved == (WatcherActive /\ child # "alive") ~> (final \/ lifecycleFailure)
=============================================================================
