------------------------------ MODULE IoClient ------------------------------
(***************************************************************************)
(* The worker's connection to the Hub: io::Client (src/io/src/client.cpp)  *)
(* over StableWebSocketClient (src/intercom/include/intercom/              *)
(* stable_websocket_client.hpp).  One coroutine connects, runs a session   *)
(* of a reader and a writer task, joins both and connects again; on_text() *)
(* routes every frame into one of four bounded queues, each with a worker  *)
(* of its own: signals on a thread, queries and rejection feedback on the  *)
(* executor, payloads for the one subscriber.  stop() comes from any       *)
(* thread, and run() is the fence behind which nothing may still run.      *)
(*                                                                         *)
(* The strand's handlers are atomic between their suspension points.       *)
(* Message bodies are left out; byte accounting is in EventOutbox.         *)
(***************************************************************************)
EXTENDS Integers, Sequences, FiniteSets

CONSTANTS
    PayloadCapacity, SignalCapacity, QueryCapacity, \* ClientOptions
    HandlerErrors,      \* what on_text() may throw: "plain", "system_error"
    MaxFrames,          \* bound: frames the Hub sends
    MaxConnects         \* bound: connections opened

ASSUME IoAssumption ==
    {PayloadCapacity, SignalCapacity, QueryCapacity} \subseteq Nat \ {0}

VARIABLES
    ioRun,          \* where run() stands
    ioReader,       \* read_messages of this session: "off", "reading", "done"
    ioWriter,       \* write_messages: "off", "waiting", "writing", "done"
    ioResults,      \* TaskResults reported by the two, in order
    ioAborted,      \* the tasks of this session that were cancelled
    ioOutgoing,     \* messages admitted and not taken by a writer
    ioStopping,     \* Control::stopping
    ioStopPosted,   \* request_stop() is posted to the strand
    ioClosed,       \* State::stopping: the inbound queues are closed
    ioQueue,        \* [signals, payloads, queries, feedback -> length]
    ioWorker,       \* [signal, query, feedback -> "off", "wait", "busy", "done"]
    ioFailure,      \* run() will throw
    ioConnects,     \* connections opened
    ioSeen,         \* history: frames received, by the queue they are for
    ioServed,       \* history: items the queues' readers took
    ioUnreported,   \* unreported_rejections()
    ioFault         \* history: on_text() threw, or a frame was binary, before any stop

ioVars == <<ioRun, ioReader, ioWriter, ioResults, ioAborted, ioOutgoing, ioStopping, ioStopPosted,
            ioClosed, ioQueue, ioWorker, ioFailure, ioConnects, ioSeen, ioServed, ioUnreported, ioFault>>

ioSession == <<ioReader, ioWriter, ioResults, ioAborted>>
ioInbound == <<ioQueue, ioSeen, ioServed, ioUnreported>>
ioStops == <<ioStopping, ioStopPosted, ioClosed>>

Queues == {"signals", "payloads", "queries", "feedback"}
IoWorkers == {"signal", "query", "feedback"}
CapacityOf == [signals |-> SignalCapacity, payloads |-> PayloadCapacity,
               queries |-> QueryCapacity, feedback |-> QueryCapacity]
Serves == [signal |-> "signals", query |-> "queries", feedback |-> "feedback"]

IoInit ==
    /\ ioRun = "new" /\ ioReader = "off" /\ ioWriter = "off"
    /\ ioResults = <<>> /\ ioAborted = {} /\ ioOutgoing = 0
    /\ ioStopping = FALSE /\ ioStopPosted = FALSE /\ ioClosed = FALSE
    /\ ioQueue = [q \in Queues |-> 0]
    /\ ioWorker = [w \in IoWorkers |-> "off"]
    /\ ioFailure = FALSE /\ ioConnects = 0
    /\ ioSeen = [q \in Queues |-> 0]
    /\ ioServed = [q \in Queues |-> 0]
    /\ ioUnreported = 0 /\ ioFault = FALSE

-----------------------------------------------------------------------------
(* run(), on the client's strand. *)

\* Client::run(): the workers start unless the client is stopped already.
StartRun ==
    /\ ioRun = "new"
    /\ ioRun' = "starting"
    /\ ioWorker' = IF ioClosed THEN ioWorker ELSE [w \in IoWorkers |-> "wait"]
    /\ UNCHANGED <<ioSession, ioInbound, ioStops, ioOutgoing, ioFailure, ioConnects, ioFault>>

\* run_on_strand(): a stop that reached the strand first ends it at once.
EnterStrand ==
    /\ ioRun = "starting"
    /\ ioRun' = IF ioStopping THEN "ended" ELSE "connecting"
    /\ UNCHANGED <<ioSession, ioInbound, ioStops, ioOutgoing, ioWorker, ioFailure, ioConnects, ioFault>>

\* connect_websocket() and run_session() up to its first suspension.
Connected ==
    /\ ioRun = "connecting" /\ ioConnects < MaxConnects
    /\ ioConnects' = ioConnects + 1
    /\ IF ioStopping
       THEN ioRun' = "ended" /\ UNCHANGED ioSession
       ELSE /\ ioRun' = "session"
            /\ ioReader' = "reading" /\ ioWriter' = "waiting"
            /\ ioResults' = <<>> /\ ioAborted' = {}
    /\ UNCHANGED <<ioInbound, ioStops, ioOutgoing, ioWorker, ioFailure, ioFault>>

\* Every failure to connect is retried, and a stop cancels the attempt.
ConnectFails ==
    /\ ioRun = "connecting"
    /\ ioRun' = IF ioStopping THEN "ended" ELSE "backoff"
    /\ UNCHANGED <<ioSession, ioInbound, ioStops, ioOutgoing, ioWorker, ioFailure, ioConnects, ioFault>>

BackoffEnds ==
    /\ ioRun = "backoff"
    /\ ioRun' = IF ioStopping THEN "ended" ELSE "connecting"
    /\ UNCHANGED <<ioSession, ioInbound, ioStops, ioOutgoing, ioWorker, ioFailure, ioConnects, ioFault>>

\* The tasks a cancellation reaches.
\* Mutant of CancelledTasks: only the socket is closed, so a writer that waits for a message stays.
MutantCancelledTasks == {"reader"}
CancelledTasks == {"reader", "writer"}

\* run_session(): the first task to end has the other one cancelled.
FirstResult ==
    /\ ioRun = "session" /\ ioResults # <<>>
    /\ ioRun' = "joining_tasks"
    /\ ioAborted' = CancelledTasks
    /\ UNCHANGED <<ioReader, ioWriter, ioResults, ioInbound, ioStops, ioOutgoing, ioWorker, ioFailure,
                   ioConnects, ioFault>>

\* A protocol or handler fault of either task ends run().
\* Mutant of Fatal: only the first result is examined.
MutantFatal(results) == results[1] # "transport"
Fatal(results) == \E i \in DOMAIN results : results[i] # "transport"

\* The exception goes through run_on_strand's handlers: one of the transport's
\* own type is taken for a failed connection and retried.
Escapes(results) == \E i \in DOMAIN results : results[i] \in {"protocol", "plain"}

\* request_stop(): the queued messages are discarded and every wait is cancelled.
RequestStopNow ==
    /\ ioStopping' = TRUE
    /\ ioOutgoing' = 0
    /\ ioAborted' = IF ioRun = "session" THEN CancelledTasks ELSE ioAborted

SecondResult ==
    /\ ioRun = "joining_tasks" /\ Len(ioResults) = 2
    /\ ioReader' = "off" /\ ioWriter' = "off" /\ ioResults' = <<>>
    /\ IF ~ioStopping /\ Fatal(ioResults) /\ Escapes(ioResults)
       THEN ioRun' = "ended" /\ ioFailure' = TRUE /\ RequestStopNow
       ELSE /\ ioRun' = IF ioStopping THEN "ended" ELSE "backoff"
            /\ UNCHANGED <<ioFailure, ioStopping, ioOutgoing, ioAborted>>
    /\ UNCHANGED <<ioInbound, ioStopPosted, ioClosed, ioWorker, ioConnects, ioFault>>

\* run() behind the transport: the queues close and the workers are joined.
CloseQueues ==
    /\ ioRun = "ended"
    /\ ioRun' = "joining_workers"
    /\ ioClosed' = TRUE
    /\ UNCHANGED <<ioSession, ioInbound, ioStopping, ioStopPosted, ioOutgoing, ioWorker, ioFailure,
                   ioConnects, ioFault>>

\* Mutant of Joined: one completion is awaited for the two workers of the executor.
MutantJoined == ioWorker.signal \in {"off", "done"} /\ \E w \in {"query", "feedback"} : ioWorker[w] \in {"off", "done"}
Joined == \A w \in IoWorkers : ioWorker[w] \in {"off", "done"}

RunReturns ==
    /\ ioRun = "joining_workers" /\ Joined
    /\ ioRun' = "returned"
    /\ UNCHANGED <<ioSession, ioInbound, ioStops, ioOutgoing, ioWorker, ioFailure, ioConnects, ioFault>>

-----------------------------------------------------------------------------
(* The reader: read_messages() and on_text(). *)

ReportResult(what) == ioResults' = Append(ioResults, what)

\* A channel with room takes the item; a closed or full one does not.
Takes(q) == ~ioClosed /\ ioQueue[q] < CapacityOf[q]
PutItem(q) == ioQueue' = [ioQueue EXCEPT ![q] = @ + 1]
Saw(q) == ioSeen' = [ioSeen EXCEPT ![q] = @ + 1]

\* queue_feedback(): a full mailbox is only counted.
\* Mutant of QueueFeedback: the overflow of the mailbox is not counted.
MutantQueueFeedback ==
    IF Takes("feedback") THEN PutItem("feedback") /\ UNCHANGED ioUnreported
    ELSE UNCHANGED <<ioQueue, ioUnreported>>
QueueFeedback ==
    IF Takes("feedback") THEN PutItem("feedback") /\ UNCHANGED ioUnreported
    ELSE ioUnreported' = ioUnreported + 1 /\ UNCHANGED ioQueue

Frames == ioSeen.signals + ioSeen.payloads + ioSeen.queries
Reads == ioReader = "reading" /\ Frames < MaxFrames /\ "reader" \notin ioAborted

\* A closed client drops the frame.
DropFrame ==
    /\ Reads /\ ioClosed
    /\ \E q \in Queues \ {"feedback"} : Saw(q)
    /\ UNCHANGED <<ioSession, ioQueue, ioServed, ioUnreported, ioRun, ioStops, ioOutgoing, ioWorker,
                   ioFailure, ioConnects, ioFault>>

\* Payloads and queries: admitted, or rejected with feedback.  An oversized
\* query is rejected whatever the room.
RouteItem(q, oversized) ==
    /\ Reads /\ ~ioClosed
    /\ q \in {"payloads", "queries"} /\ (oversized => q = "queries")
    /\ Saw(q)
    /\ IF Takes(q) /\ ~oversized THEN PutItem(q) /\ UNCHANGED ioUnreported
       ELSE QueueFeedback
    /\ UNCHANGED <<ioSession, ioServed, ioRun, ioStops, ioOutgoing, ioWorker, ioFailure, ioConnects, ioFault>>

\* A signal that finds no room ends the client: it is never dropped.
\* Mutant of SignalOverflow: the frame is dropped like a payload.
MutantSignalOverflow == UNCHANGED <<ioReader, ioResults, ioFault>>
SignalOverflow == ioReader' = "done" /\ ReportResult("plain") /\ ioFault' = (ioFault \/ ~ioStopping)

RouteSignal ==
    /\ Reads /\ ~ioClosed /\ Saw("signals")
    /\ IF Takes("signals") THEN PutItem("signals") /\ UNCHANGED <<ioReader, ioResults, ioFault>>
       ELSE SignalOverflow /\ UNCHANGED ioQueue
    /\ UNCHANGED <<ioWriter, ioAborted, ioServed, ioUnreported, ioRun, ioStops, ioOutgoing, ioWorker,
                   ioFailure, ioConnects>>

\* A malformed envelope, another throwing handler, or a binary frame.
ReaderFaults(what) ==
    /\ ioReader = "reading" /\ "reader" \notin ioAborted
    /\ what \in HandlerErrors \cup {"protocol"} /\ (what # "protocol" => ~ioClosed)
    /\ ioReader' = "done" /\ ReportResult(what)
    /\ ioFault' = (ioFault \/ ~ioStopping)
    /\ UNCHANGED <<ioWriter, ioAborted, ioInbound, ioRun, ioStops, ioOutgoing, ioWorker, ioFailure, ioConnects>>

\* The connection fails or was aborted.
ReadFails ==
    /\ ioReader = "reading"
    /\ ioReader' = "done" /\ ReportResult("transport")
    /\ UNCHANGED <<ioWriter, ioAborted, ioInbound, ioRun, ioStops, ioOutgoing, ioWorker, ioFailure,
                   ioConnects, ioFault>>

-----------------------------------------------------------------------------
(* The writer: write_messages(). *)

WriterTakes ==
    /\ ioWriter = "waiting" /\ ioOutgoing > 0
    /\ ioWriter' = "writing" /\ ioOutgoing' = ioOutgoing - 1
    /\ UNCHANGED <<ioReader, ioResults, ioAborted, ioInbound, ioRun, ioStops, ioWorker, ioFailure,
                   ioConnects, ioFault>>

Writes ==
    /\ ioWriter = "writing" /\ "writer" \notin ioAborted
    /\ ioWriter' = "waiting"
    /\ UNCHANGED <<ioReader, ioResults, ioAborted, ioInbound, ioRun, ioStops, ioOutgoing, ioWorker,
                   ioFailure, ioConnects, ioFault>>

\* A write that fails, a cancelled wait, or the end of a closed channel.
AdmissionClosed == ioStopPosted \/ ioStopping
WriterEnds ==
    /\ \/ ioWriter = "writing"
       \/ ioWriter = "waiting" /\ ("writer" \in ioAborted \/ (AdmissionClosed /\ ioOutgoing = 0))
    /\ ioWriter' = "done" /\ ReportResult("transport")
    /\ UNCHANGED <<ioReader, ioAborted, ioInbound, ioRun, ioStops, ioOutgoing, ioWorker, ioFailure,
                   ioConnects, ioFault>>

\* send(): the worker's own messages, one waiting at a time.
Send ==
    /\ ~AdmissionClosed /\ ioOutgoing = 0 /\ ioRun # "returned"
    /\ ioOutgoing' = 1
    /\ UNCHANGED <<ioSession, ioInbound, ioRun, ioStops, ioWorker, ioFailure, ioConnects, ioFault>>

-----------------------------------------------------------------------------
(* The workers and the payload subscriber. *)

\* process_signals(), process_queries(), process_feedback(): an item is taken; a
\* closed queue, or one found closed behind the item, ends the worker.
WorkerTakes(w) ==
    /\ ioWorker[w] = "wait" /\ ioQueue[Serves[w]] > 0
    /\ ioQueue' = [ioQueue EXCEPT ![Serves[w]] = @ - 1]
    /\ IF ioClosed THEN /\ ioWorker' = [ioWorker EXCEPT ![w] = "done"]
                        /\ UNCHANGED ioServed
       ELSE /\ ioWorker' = [ioWorker EXCEPT ![w] = "busy"]
            /\ ioServed' = [ioServed EXCEPT ![Serves[w]] = @ + 1]
    /\ UNCHANGED <<ioSession, ioSeen, ioUnreported, ioRun, ioStops, ioOutgoing, ioFailure, ioConnects, ioFault>>

WorkerEnds(w) ==
    /\ ioWorker[w] = "wait" /\ ioClosed /\ ioQueue[Serves[w]] = 0
    /\ ioWorker' = [ioWorker EXCEPT ![w] = "done"]
    /\ UNCHANGED <<ioSession, ioInbound, ioRun, ioStops, ioOutgoing, ioFailure, ioConnects, ioFault>>

HandlerEnds(w) ==
    /\ ioWorker[w] = "busy"
    /\ ioWorker' = [ioWorker EXCEPT ![w] = "wait"]
    /\ UNCHANGED <<ioSession, ioInbound, ioRun, ioStops, ioOutgoing, ioFailure, ioConnects, ioFault>>

\* A listener that throws ends its worker and stops the transport; run() throws it.
ListenerThrows(w) ==
    /\ ioWorker[w] = "busy"
    /\ ioWorker' = [ioWorker EXCEPT ![w] = "done"]
    /\ ioStopPosted' = TRUE /\ ioFailure' = TRUE
    /\ UNCHANGED <<ioSession, ioInbound, ioRun, ioStopping, ioClosed, ioOutgoing, ioConnects, ioFault>>

\* PayloadSubscription::next(): the host takes a payload when it is ready for one.
NextPayload ==
    /\ ioQueue.payloads > 0
    /\ ioQueue' = [ioQueue EXCEPT !.payloads = @ - 1]
    /\ ioServed' = [ioServed EXCEPT !.payloads = @ + 1]
    /\ UNCHANGED <<ioSession, ioSeen, ioUnreported, ioRun, ioStops, ioOutgoing, ioWorker, ioFailure,
                   ioConnects, ioFault>>

-----------------------------------------------------------------------------
(* Stopping, from any thread. *)

\* Client::stop() closes the queues too; the run's stop token only the transport.
StopIo(queues) ==
    /\ ~(ioStopPosted /\ (queues => ioClosed))
    /\ ioRun # "returned"
    /\ ioClosed' = (ioClosed \/ queues)
    /\ ioStopPosted' = TRUE
    /\ UNCHANGED <<ioSession, ioInbound, ioRun, ioStopping, ioOutgoing, ioWorker, ioFailure, ioConnects, ioFault>>

RequestStop ==
    /\ ioStopPosted /\ ~ioStopping
    /\ RequestStopNow
    /\ UNCHANGED <<ioReader, ioWriter, ioResults, ioInbound, ioRun, ioStopPosted, ioClosed, ioWorker,
                   ioFailure, ioConnects, ioFault>>

IoDone == ioRun = "returned" /\ UNCHANGED ioVars

Transport ==
    \/ StartRun \/ EnterStrand \/ Connected \/ ConnectFails \/ BackoffEnds
    \/ FirstResult \/ SecondResult \/ CloseQueues \/ RunReturns

IoNext ==
    \/ Transport \/ RequestStop
    \/ DropFrame \/ RouteSignal \/ ReadFails
    \/ \E q \in {"payloads", "queries"}, big \in BOOLEAN : RouteItem(q, big)
    \/ \E what \in HandlerErrors \cup {"protocol"} : ReaderFaults(what)
    \/ Send \/ WriterTakes \/ Writes \/ WriterEnds
    \/ \E w \in IoWorkers : WorkerTakes(w) \/ WorkerEnds(w) \/ HandlerEnds(w) \/ ListenerThrows(w)
    \/ NextPayload
    \/ \E queues \in BOOLEAN : StopIo(queues)
    \/ IoDone

IoSpec == IoInit /\ [][IoNext]_ioVars

\* Every local step is taken: connecting has deadlines, an aborted socket fails its
\* operations, a listener returns.  Frames, sends, stops and the subscriber are not owed.
IoFairness ==
    /\ WF_ioVars(Transport) /\ WF_ioVars(RequestStop)
    /\ WF_ioVars("reader" \in ioAborted /\ ReadFails)
    /\ WF_ioVars(WriterTakes \/ Writes) /\ WF_ioVars(WriterEnds)
    /\ \A w \in IoWorkers : WF_ioVars(WorkerTakes(w) \/ WorkerEnds(w) \/ HandlerEnds(w))
IoLiveSpec == IoSpec /\ IoFairness

-----------------------------------------------------------------------------
(* Properties *)

\* Once run() has returned nothing of the client is running: both session tasks
\* ended and were joined, the workers are joined and the queues are closed
\* (io/client.hpp: "every incoming queue is closed and all routing workers have been joined").
RunIsFence ==
    ioRun = "returned" =>
        /\ ioClosed /\ ioReader = "off" /\ ioWriter = "off"
        /\ \A w \in IoWorkers : ioWorker[w] \in {"off", "done"}

\* No frame vanishes while the client is open: a signal is queued, handled or the
\* client is ending; every other frame is queued, taken, or a rejection that is
\* queued, published or counted.
FramesAccounted ==
    ~ioClosed =>
        /\ ~ioFault => ioSeen.signals = ioServed.signals + ioQueue.signals
        /\ ioSeen.payloads + ioSeen.queries =
             ioServed.payloads + ioQueue.payloads + ioServed.queries + ioQueue.queries
             + ioServed.feedback + ioQueue.feedback + ioUnreported

\* A throwing message handler or a binary frame is not retried with another
\* connection, whichever task of the session ended first, and run() reports it
\* unless a stop came first (stable_websocket_client.hpp: "A throwing handler is an
\* application error and ends run(); it is not retried by opening another connection.")
HandlerFaultEndsRun ==
    ioFault => /\ ioRun \notin {"backoff", "connecting"}
               /\ ioRun = "returned" => ioFailure \/ ioStopPosted

\* run() never hangs: a stop, a fatal fault or a throwing listener ends it, a session
\* that lost one task is joined (its writer may be waiting for a message that never
\* comes), and an admitted signal is handled, whatever the payload subscriber, the
\* query listeners and the connection do, unless the client closes.
RunMovesOn ==
    /\ (ioRun # "new" /\ ioStopPosted) ~> ioRun = "returned"
    /\ ioRun = "joining_tasks" ~> ioRun # "joining_tasks"
    /\ ioQueue.signals > 0 ~> (ioQueue.signals = 0 \/ ioClosed)
=============================================================================
