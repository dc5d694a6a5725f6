----------------------------- MODULE EventOutbox -----------------------------
(***************************************************************************)
(* How the worker's events reach the transport.  core/event_outbox.hpp is  *)
(* the admission ledger, core/event_admission.hpp its classes, and         *)
(* application.cpp its users: consume() produces the lifecycle of each     *)
(* request, hooks and control tasks produce the rest, send_events() moves  *)
(* the front event into the byte-bounded write queue of                    *)
(* intercom/stable_websocket_client.hpp.  Everything but the socket runs   *)
(* on one strand, so a step lasts from one suspension to the next.         *)
(*                                                                         *)
(* An event is its class, the identity that lets metadata replace older    *)
(* metadata, its encoded size and its sequence number.  The four omission  *)
(* counters of the code are treated alike and added up here.  Counters     *)
(* wrap at Wrap, as uint64_t does.                                        *)
(***************************************************************************)
EXTENDS Integers, Sequences, FiniteSetsExt

CONSTANTS
    OrdinaryCapacity,   \* config.event_capacity
    LifecycleSlots,     \* lifecycle_slots
    MetadataSlots,      \* metadata_slots
    Soft,               \* soft_bytes
    EventMax,           \* display_event_max_bytes
    HistoryMax,         \* history_event_max_bytes
    WriteCapacity,      \* StableWebSocketOptions::write_capacity
    Names,              \* (event, request_id, run_id) of metadata
    MaxWindowErrors,    \* malformed control signals while a commit failure settles
    Wrap               \* the counters wrap here (2^64 in the code)

ASSUME OutboxConstants ==
    /\ {OrdinaryCapacity, LifecycleSlots, MetadataSlots, EventMax, HistoryMax,
        WriteCapacity, Wrap} \subseteq Nat \ {0}
    /\ {Soft, MaxWindowErrors} \subseteq Nat
    /\ HistoryMax <= EventMax

VARIABLES
    queue, inFlight, used, count, sequence, omitted, paused, closed,  \* EventOutbox
    sender, wire, client,          \* send_events() and the write queue
    host, extra, storageFailed, windowErrors, stopping,    \* consume()
    unreported,     \* history: omissions no admitted settlement has carried
    refused,        \* history: a lifecycle event was refused by an open outbox
    overflowed      \* history: the write queue ran out of bytes

ledger == <<queue, inFlight, used, count, sequence, omitted, closed, unreported>>
transport == <<sender, wire, client, overflowed>>
producer == <<host, extra, storageFailed, windowErrors, stopping, paused, refused>>
vars == <<ledger, transport, producer>>

Kinds == {"ordinary", "metadata", "lifecycle"}
Entry == [kind : Kinds, name : Names \cup {"-"}, bytes : 1..EventMax, seq : 0..Wrap - 1]
Hosts == {"boot", "next", "waiting", "admit", "started", "run", "failing", "ended",
          "closing", "gone"}
\* consume() reaches its next suspension before any other task of the strand runs.
Suspended == host \notin {"admit", "started"}

\* default_write_byte_capacity: the reserve covers every lifecycle slot and the
\* event being sent, which the outbox and the transport both count.
Capacity == Soft + (LifecycleSlots + 1) * EventMax
Bytes(s) == LET sum[n \in 0..Len(s)] == IF n = 0 THEN 0 ELSE sum[n - 1] + s[n] IN sum[Len(s)]
QueuedWriteBytes == Bytes(wire)

(***************************************************************************)
(* EventOutbox.                                                            *)
(***************************************************************************)
\* Mutant of Fits: the bytes already handed to the transport are forgotten.
MutantIgnoresTransport(own, added, limit) == own + added <= limit

Fits(own, added, limit) == own + QueuedWriteBytes + added <= limit

\* Mutant of Limit: lifecycle events have no byte reserve.
MutantNoReserve(kind) == Soft

Limit(kind) == IF kind = "lifecycle" THEN Capacity ELSE Soft
Slots(kind) == CASE kind = "lifecycle" -> LifecycleSlots
                 [] kind = "metadata"  -> MetadataSlots
                 [] OTHER              -> OrdinaryCapacity

\* Mutant of Older: the entry being sent may be replaced.
MutantReplacesInFlight(kind, name) ==
    {i \in 1..Len(queue) :
        kind = "metadata" /\ queue[i].kind = kind /\ queue[i].name = name}

\* Entries newer metadata may replace: never the one that is being sent.
Older(kind, name) ==
    {i \in (IF inFlight THEN 2 ELSE 1)..Len(queue) :
        kind = "metadata" /\ queue[i].kind = kind /\ queue[i].name = name}
Replaces(kind, name, b) ==
    /\ Older(kind, name) # {}
    /\ Fits(used - queue[Min(Older(kind, name))].bytes, b, Soft)

\* Mutant of Muted: a waiting request silences nobody.
MutantNeverMuted(kind) == FALSE

\* pause_noncritical(): while a request waits, only lifecycle events enter.
Muted(kind) == paused /\ kind # "lifecycle"
Room(kind, b) == count[kind] < Slots(kind) /\ Fits(used, b, Limit(kind))

Admission(kind, name, b) ==
    IF closed THEN "closed"
    ELSE IF Muted(kind) THEN "omitted"
    ELSE IF Replaces(kind, name, b) THEN "replaced"
    ELSE IF Room(kind, b) THEN "added"
    ELSE IF kind = "lifecycle" THEN "refused" ELSE "omitted"

Count(n) == (n + 1) % Wrap

\* Mutant of NoteOmission: the omission counter is wider than the settlement's field.
MutantOmissionUnwrapped == /\ omitted' = omitted + 1
                           /\ unreported' = Count(unreported)

\* note_omission(), and the event nobody will see.
NoteOmission == /\ omitted' = Count(omitted)
                /\ unreported' = Count(unreported)

Add(kind, name, b) ==
    /\ queue' = Append(queue, [kind |-> kind, name |-> name, bytes |-> b, seq |-> Count(sequence)])
    /\ used' = used + b
    /\ count' = [count EXCEPT ![kind] = @ + 1]
    /\ sequence' = Count(sequence)

\* Mutant of Replace: a replacement draws a sequence number of its own.
MutantReplaceRenumbers(i, b) ==
    /\ queue' = [queue EXCEPT ![i].bytes = b, ![i].seq = Count(sequence)]
    /\ used' = used - queue[i].bytes + b
    /\ sequence' = Count(sequence)
    /\ UNCHANGED count

\* The replacement keeps the sequence number and the place of the older event.
Replace(i, b) ==
    /\ queue' = [queue EXCEPT ![i].bytes = b]
    /\ used' = used - queue[i].bytes + b
    /\ UNCHANGED <<count, sequence>>

\* An admitted settlement carries the omission counter and clears it.
Settle(settlement) ==
    IF settlement
      THEN /\ unreported' = (unreported - omitted) % Wrap
           /\ omitted' = 0
      ELSE UNCHANGED <<omitted, unreported>>

Admit(kind, name, b, settlement) ==
    /\ CASE Admission(kind, name, b) = "added" ->
                Add(kind, name, b) /\ Settle(settlement)
         [] Admission(kind, name, b) = "replaced" ->
                Replace(Min(Older(kind, name)), b) /\ NoteOmission
         [] Admission(kind, name, b) = "omitted" ->
                NoteOmission /\ UNCHANGED <<queue, used, count, sequence>>
         [] OTHER ->
                UNCHANGED <<queue, used, count, sequence, omitted, unreported>>
    /\ UNCHANGED inFlight

BeginSend ==
    /\ sender = "idle"
    /\ queue # <<>>
    /\ Suspended
    /\ inFlight' = TRUE
    /\ sender' = "sending"
    /\ UNCHANGED <<queue, used, count, sequence, omitted, closed, unreported, wire, client,
                   overflowed, producer>>

\* Mutant of CompleteSend: the slot of the event is not released.
MutantKeepsSlot ==
    /\ queue' = Tail(queue)
    /\ used' = used - Head(queue).bytes
    /\ inFlight' = FALSE
    /\ UNCHANGED <<count, sequence, omitted, unreported>>

CompleteSend ==
    /\ queue' = Tail(queue)
    /\ used' = used - Head(queue).bytes
    /\ count' = [count EXCEPT ![Head(queue).kind] = @ - 1]
    /\ inFlight' = FALSE
    /\ UNCHANGED <<sequence, omitted, unreported>>

(***************************************************************************)
(* The write queue of the stable client, and send_events().                *)
(***************************************************************************)
\* client.stop(): admission closes and queued messages are discarded.
StopClient == /\ client' = "stopped"
              /\ wire' = <<>>

\* fail(): every supervisor is woken.
Fail == /\ stopping' = TRUE
        /\ closed' = TRUE
        /\ StopClient

\* enqueue() reserves the bytes at once, then waits for a place in the channel.
Enqueue ==
    /\ sender = "sending"
    /\ client = "up"
    /\ QueuedWriteBytes + Head(queue).bytes <= Capacity
    /\ wire' = Append(wire, Head(queue).bytes)
    /\ sender' = "reserved"
    /\ UNCHANGED <<client, overflowed, ledger, producer>>

Sent ==
    /\ sender = "reserved"
    /\ client = "up"
    /\ Len(wire) <= WriteCapacity
    /\ Suspended
    /\ CompleteSend
    /\ sender' = "idle"
    /\ UNCHANGED <<closed, wire, client, overflowed, producer>>

\* The reservation is released, the sender ends and, unless the worker is
\* stopping already, it fails.
SendThrows ==
    /\ sender \in {"sending", "reserved"}
    /\ Suspended
    /\ \/ client = "stopped" /\ UNCHANGED overflowed
       \/ /\ client = "up"
          /\ sender = "sending"
          /\ QueuedWriteBytes + Head(queue).bytes > Capacity
          /\ overflowed' = TRUE
    /\ CompleteSend
    /\ sender' = "done"
    /\ IF stopping THEN UNCHANGED <<stopping, closed, client, wire>> ELSE Fail
    /\ UNCHANGED <<host, extra, storageFailed, windowErrors, paused, refused>>

SenderReturns ==
    /\ sender = "idle"
    /\ queue = <<>>
    /\ closed
    /\ Suspended
    /\ sender' = "done"
    /\ UNCHANGED <<wire, client, overflowed, ledger, producer>>

\* The socket took a message, or it was lost in a broken session: its bytes return.
Written ==
    /\ wire # <<>>
    /\ wire' = Tail(wire)
    /\ UNCHANGED <<sender, client, overflowed, ledger, producer>>

\* The transport ends by itself: a protocol fault or an invalid envelope.
TransportFails ==
    /\ client = "up"
    /\ Suspended
    /\ Fail
    /\ UNCHANGED <<queue, inFlight, used, count, sequence, omitted, unreported, sender,
                   overflowed, host, extra, storageFailed, windowErrors, paused, refused>>

(***************************************************************************)
(* Events that are not part of a request's lifecycle.                      *)
(***************************************************************************)
quiet == <<transport, closed, host, extra, storageFailed, stopping, paused>>

\* Previews and metadata of the running request; its hooks live as long as it.
RunEvent(b) ==
    /\ host = "run"
    /\ \/ Admit("ordinary", "-", b, FALSE)
       \/ \E n \in Names : Admit("metadata", n, b, FALSE)
    /\ UNCHANGED <<quiet, windowErrors, refused>>

\* A query is dropped before its reply is built when the reply might not fit.
Congested == \/ paused
             \/ count["ordinary"] >= OrdinaryCapacity
             \/ ~Fits(used, HistoryMax, Soft)

Query(b) ==
    /\ Suspended
    /\ client = "up"
    /\ ~closed
    /\ IF Congested
         THEN NoteOmission /\ UNCHANGED <<queue, inFlight, used, count, sequence>>
         ELSE Admit("ordinary", "-", b, FALSE)
    /\ UNCHANGED <<quiet, windowErrors, refused>>

\* The receive queues overflowed: a rejection is reported without preflight.
Feedback(b) ==
    /\ Suspended
    /\ ~stopping
    /\ Admit("ordinary", "-", b, FALSE)
    /\ UNCHANGED <<quiet, windowErrors, refused>>

\* process_control() answers status and options with metadata.
Control(n, b) ==
    /\ Suspended
    /\ ~stopping
    /\ Admit("metadata", n, b, FALSE)
    /\ UNCHANGED <<quiet, windowErrors, refused>>

\* Its reply to a malformed signal is an error event: metadata as long as storage
\* is sound, lifecycle afterwards.  A refusal ends the task, which fails the worker.
ControlError(n, b) ==
    /\ Suspended
    /\ ~stopping
    /\ \/ /\ ~storageFailed
          /\ Admit("metadata", n, b, FALSE)
          /\ UNCHANGED <<windowErrors, refused, closed, stopping, client, wire>>
       \/ /\ storageFailed
          /\ windowErrors < MaxWindowErrors
          /\ windowErrors' = windowErrors + 1
          /\ Admit("lifecycle", "-", b, FALSE)
          /\ IF Admission("lifecycle", "-", b) = "refused"
               THEN refused' = TRUE /\ Fail
               ELSE UNCHANGED <<refused, closed, stopping, client, wire>>
    /\ UNCHANGED <<sender, overflowed, host, extra, storageFailed, paused>>

(***************************************************************************)
(* consume(): the lifecycle of the requests.                               *)
(***************************************************************************)
\* publish() throws when a lifecycle event is not admitted; the exception leaves
\* consume(), and an open outbox that refused it has failed its purpose.
Lifecycle(from, to, b, settlement) ==
    /\ host = from
    /\ Admit("lifecycle", "-", b, settlement)
    /\ CASE Admission("lifecycle", "-", b) = "added" ->
                host' = to /\ UNCHANGED <<refused, stopping, closed, client, wire>>
         [] Admission("lifecycle", "-", b) = "refused" ->
                host' = "ended" /\ refused' = TRUE /\ Fail
         [] OTHER ->
                host' = "ended" /\ UNCHANGED <<refused, stopping, closed, client, wire>>

untouched == <<sender, overflowed, windowErrors, paused>>

Ready(b) ==
    /\ Lifecycle("boot", "next", b, FALSE)
    /\ UNCHANGED <<untouched, extra, storageFailed>>

Payload ==
    /\ host = "next"
    /\ ~stopping
    /\ host' = "waiting"
    /\ paused' = TRUE
    /\ UNCHANGED <<ledger, transport, extra, storageFailed, windowErrors, stopping, refused>>

\* wait_for_admission() ends: the backlog is gone, or the worker is stopping.
WaitOver ==
    /\ host = "waiting"
    /\ stopping \/ (queue = <<>> /\ wire = <<>>)
    /\ paused' = FALSE
    /\ host' = IF stopping THEN "ended" ELSE "admit"
    /\ UNCHANGED <<ledger, transport, extra, storageFailed, windowErrors, stopping, refused>>

Rejected(b) ==
    /\ host = "admit"
    /\ Admit("ordinary", "-", b, FALSE)
    /\ host' = "next"
    /\ UNCHANGED <<transport, closed, extra, storageFailed, windowErrors, stopping, paused, refused>>

InputAdmitted(b) ==
    /\ Lifecycle("admit", "started", b, FALSE)
    /\ extra' = FALSE
    /\ UNCHANGED <<untouched, storageFailed>>

RunStarted(b) ==
    /\ Lifecycle("started", "run", b, FALSE)
    /\ UNCHANGED <<untouched, extra, storageFailed>>

\* input_committed of a task, or compact_finished of a manual compaction: at most
\* one per request.  A refusal only fails the run.
RunMilestone(b) ==
    /\ host = "run"
    /\ ~extra
    /\ extra' = TRUE
    /\ Admit("lifecycle", "-", b, FALSE)
    /\ refused' = (refused \/ Admission("lifecycle", "-", b) = "refused")
    /\ UNCHANGED <<transport, closed, host, storageFailed, windowErrors, stopping, paused>>

\* A required write failed.  Behind a failed compaction commit the staged file and
\* the archive are still cleaned up, and other tasks run meanwhile.
StorageFails ==
    /\ host = "run"
    /\ storageFailed' = TRUE
    /\ host' = "failing"
    /\ UNCHANGED <<ledger, transport, extra, windowErrors, stopping, paused, refused>>

RunFinished(b) ==
    /\ Lifecycle("run", IF stopping THEN "ended" ELSE "next", b, TRUE)
    /\ UNCHANGED <<untouched, extra, storageFailed>>

\* The terminal diagnostic of a storage failure: stopping is set before it is emitted.
TerminalError(b) ==
    /\ host = "failing"
    /\ Admit("lifecycle", "-", b, TRUE)
    /\ host' = "ended"
    /\ stopping' = TRUE
    /\ refused' = (refused \/ Admission("lifecycle", "-", b) = "refused")
    /\ UNCHANGED <<transport, closed, extra, storageFailed, windowErrors, paused>>

(***************************************************************************)
(* Shutdown.                                                               *)
(***************************************************************************)
Active == host \in {"run", "failing"}

\* shutdown(): an idle client is stopped, a running request is left to drain.
Shutdown ==
    /\ ~stopping
    /\ Suspended
    /\ stopping' = TRUE
    /\ IF Active THEN UNCHANGED <<client, wire>> ELSE StopClient
    /\ UNCHANGED <<ledger, sender, overflowed, host, extra, storageFailed, windowErrors,
                   paused, refused>>

\* The closed payload queue wakes next(), and consume() returns.
NextThrows ==
    /\ host = "next"
    /\ stopping
    /\ host' = "ended"
    /\ UNCHANGED <<ledger, transport, extra, storageFailed, windowErrors, stopping, paused, refused>>

CloseOutbox ==
    /\ host = "ended"
    /\ host' = "closing"
    /\ stopping' = TRUE
    /\ closed' = TRUE
    /\ UNCHANGED <<queue, inFlight, used, count, sequence, omitted, unreported, transport,
                   extra, storageFailed, windowErrors, paused, refused>>

\* Mutant of Deadline: it is armed once the sender has been joined.
MutantLateDeadline ==
    /\ host = "closing"
    /\ client = "up"
    /\ sender = "done"
    /\ StopClient
    /\ UNCHANGED <<ledger, sender, overflowed, producer>>

\* The 500 ms deadline on the final drain.
Deadline ==
    /\ host = "closing"
    /\ client = "up"
    /\ StopClient
    /\ UNCHANGED <<ledger, sender, overflowed, producer>>

\* The sender is joined, then the written bytes or the deadline.
Gone ==
    /\ host = "closing"
    /\ sender = "done"
    /\ wire = <<>>
    /\ host' = "gone"
    /\ UNCHANGED <<ledger, transport, extra, storageFailed, windowErrors, stopping, paused, refused>>

(***************************************************************************)
(* The specification.                                                      *)
(***************************************************************************)
Init ==
    /\ queue = <<>> /\ inFlight = FALSE /\ used = 0 /\ count = [k \in Kinds |-> 0]
    /\ sequence = 0 /\ omitted = 0 /\ unreported = 0 /\ paused = FALSE /\ closed = FALSE
    /\ sender = "idle" /\ wire = <<>> /\ client = "up" /\ overflowed = FALSE
    /\ host = "boot" /\ extra = FALSE /\ storageFailed = FALSE /\ windowErrors = 0
    /\ stopping = FALSE /\ refused = FALSE

Sizes == 1..EventMax

Sending == BeginSend \/ Enqueue \/ Sent \/ SendThrows \/ SenderReturns

Noise == \E b \in Sizes :
    \/ RunEvent(b)
    \/ Query(b)
    \/ Feedback(b)
    \/ \E n \in Names : Control(n, b) \/ ControlError(n, b)

Admitting == WaitOver \/ \E b \in Sizes : Rejected(b) \/ InputAdmitted(b) \/ RunStarted(b)
Ending == \/ \E b \in Sizes : RunFinished(b) \/ TerminalError(b)
          \/ NextThrows \/ CloseOutbox \/ Gone

Next ==
    \/ Sending \/ Written \/ TransportFails
    \/ Noise
    \/ \E b \in Sizes : Ready(b) \/ RunMilestone(b)
    \/ Payload \/ Admitting
    \/ StorageFails \/ Ending \/ Shutdown \/ Deadline

Spec == Init /\ [][Next]_vars

\* The strand runs its tasks, timers fire, and a run ends (Worker shows it does).
StrandFairness ==
    /\ WF_vars(Sending)
    /\ WF_vars(Admitting)
    /\ WF_vars(Ending)
    /\ WF_vars(\E b \in Sizes : Ready(b))
    /\ WF_vars(Deadline)

\* The peer may stop reading for ever.
StallSpec == Spec /\ StrandFairness

(***************************************************************************)
(* Properties.                                                             *)
(***************************************************************************)
\* Every variable stays in its type.
OutboxTypeOK ==
    /\ queue \in Seq(Entry)
    /\ count \in [Kinds -> Nat]
    /\ {used, windowErrors} \subseteq Nat
    /\ {sequence, omitted, unreported} \subseteq 0..Wrap - 1
    /\ {inFlight, paused, closed, extra, storageFailed, stopping, refused, overflowed}
          \subseteq BOOLEAN
    /\ sender \in {"idle", "sending", "reserved", "done"}
    /\ wire \in Seq(1..EventMax)
    /\ client \in {"up", "stopped"}
    /\ host \in Hosts

\* Reservations are released exactly once: the byte and slot counters agree with
\* the queue whatever was replaced, sent, lost or closed, and the event in flight
\* still holds its own.  Nothing is omitted silently or reported twice: the counter
\* waiting for the next settlement is the omissions no settlement has carried.
LedgerAgrees ==
    /\ omitted = unreported
    /\ used = Bytes([i \in 1..Len(queue) |-> queue[i].bytes])
    /\ \A k \in Kinds : count[k] = Cardinality({i \in 1..Len(queue) : queue[i].kind = k})
    /\ inFlight => queue # <<>>
    /\ inFlight <=> sender \in {"sending", "reserved"}

\* The reserve holds: an open outbox never refuses an event the transcript must
\* retain, however previews, queries and metadata congest it and however slowly
\* the peer reads (event_outbox.hpp: new runs wait, "bounding lifecycle production").
LifecycleAdmitted == ~refused

\* The outbox never admits more than the transport can take, so a send never
\* fails for want of bytes and congestion alone never ends the worker.
SendsFit == ~overflowed

\* The peer can detect a lost event: admitted events are numbered without a gap in
\* the order they are sent, also when metadata was replaced in place.
SequenceUnbroken ==
    \A i \in 1..Len(queue) : queue[i].seq = (sequence - (Len(queue) - i)) % Wrap

\* The event being written is not edited under the sender.
InFlightFrozen ==
    [][inFlight /\ inFlight' => queue'[1] = queue[1]]_vars

\* A waiting request is served, although clients keep polling, if the peer reads or
\* the session breaks and a later one is connected (wait_for_admission()).
AdmissionProgress == WF_vars(Written) => (host = "waiting" ~> host # "waiting")

\* A stopping worker goes away, also when the peer never reads again.
ShutdownCompletes == stopping ~> host = "gone"
=============================================================================
