--------------------------- MODULE ModelExchange ---------------------------
(***************************************************************************)
(* One model call of src/endpoint: the retry engines complete and fetch    *)
(* over complete_once / fetch_once, the producer (ModelResponseReader::    *)
(* pump driving sse_request or http_request), the consumer (next and       *)
(* consume), the rendezvous channel between them, and the parallel group   *)
(* that joins both.  The network may refuse, reject, truncate, fault or    *)
(* stay silent; the caller may cancel, a hook may throw, the consumer may  *)
(* abort.                                                                  *)
(*                                                                         *)
(* Producer and consumer run on one private strand, so a step is what a    *)
(* coroutine does between two awaits.  A delta is <<attempt, number>>, the *)
(* terminal one has number 0 added as its third component.                 *)
(***************************************************************************)
EXTENDS Integers, Sequences, FiniteSets, SequencesExt

CONSTANTS
    MaxRetryAttempts,     \* _max_retry_attempts
    InitialBackoff,       \* _initial_backoff
    MaxBackoff,           \* _max_backoff, before the constructor's clamp
    MaxDeltas,            \* deltas a server sends in one attempt
    MaxCalls,             \* calls made on one engine and one reader
    Drivers               \* of "sse", "http" and "fetch"

ASSUME ExchangeBounds ==
    /\ MaxRetryAttempts \in Nat /\ MaxDeltas \in Nat /\ MaxCalls \in Nat
    /\ InitialBackoff \in Nat \ {0} /\ MaxBackoff \in Nat
    /\ Drivers \subseteq {"sse", "http", "fetch"}

VARIABLES
    mxDriver,     \* which engine and driver this instance uses
    mxCall,       \* where operator() is
    mxCalls,      \* calls made so far
    mxAttempt,    \* the loop variable
    mxBackoff,    \* _backoff
    mxSlept,      \* the waits of this call
    mxStarted,    \* connects begun in this call
    mxCancelled,  \* the caller's cancellation state
    mxFailure,    \* the exception being classified
    mxResult,     \* what the call returned or threw
    mxProd,       \* the producer coroutine
    mxCons,       \* the consumer coroutine
    mxReader,     \* ModelResponseReader's own flags and accumulators
    mxHandler,    \* the handler's state and its channel
    mxSeen        \* deltas the hooks saw in this attempt

mxVars == <<mxDriver, mxCall, mxCalls, mxAttempt, mxBackoff, mxSlept, mxStarted,
            mxCancelled, mxFailure, mxResult, mxProd, mxCons, mxReader,
            mxHandler, mxSeen>>

None == [kind |-> "none"]
NoDelta == <<>>

\* HttpRequestException: the stage, the HTTP status (0: none) and the class of
\* the transport error code.
Http(stage, status, code) ==
    [kind |-> "http", stage |-> stage, status |-> status, code |-> code]
\* A non-HTTP exception: a hook's or _accumulate's own.
HookFault == [kind |-> "hook"]
Aborted == [kind |-> "operation_aborted"]
Response(deltas) == [kind |-> "response", deltas |-> deltas]

\* Error codes of a failed connect, as retry_policy tells them apart.
ConnectCodes == {"host_not_found_try_again", "host_not_found", "refused",
                 "tls_truncated", "tls_verify", "other"}
Statuses == {429, 503, 401}

FreshReader == [done |-> FALSE, selfAborted |-> FALSE, faulted |-> FALSE,
                abort |-> FALSE, error |-> None, acc |-> <<>>, response |-> <<>>]
FreshHandler == [state |-> "RUNNING", closed |-> FALSE, offer |-> NoDelta]
NoProducer == [at |-> "none", queue |-> <<>>, ec |-> "none", sent |-> 0,
               ended |-> FALSE, stop |-> FALSE]
NoConsumer == [at |-> "none", hand |-> NoDelta, error |-> None]

ClampedMax == IF MaxBackoff > InitialBackoff THEN MaxBackoff ELSE InitialBackoff

MxInit ==
    /\ mxDriver \in Drivers
    /\ mxCall = "idle"
    /\ mxCalls = 0
    /\ mxAttempt = 0
    /\ mxBackoff = InitialBackoff
    /\ mxSlept = <<>>
    /\ mxStarted = 0
    /\ mxCancelled = FALSE
    /\ mxFailure = None
    /\ mxResult = None
    /\ mxProd = NoProducer
    /\ mxCons = NoConsumer
    /\ mxReader = FreshReader
    /\ mxHandler = FreshHandler
    /\ mxSeen = <<>>

-----------------------------------------------------------------------------
(* retry_policy. *)

\* _recoverable: the provider's answer first, then the stage and the code.
Recoverable(f) ==
    IF f.status # 0
    THEN f.status \in {429, 408} \/ f.status \in 500 .. 599
    ELSE \/ f.stage \in {"Write", "Read", "HandleResponse"}
         \/ /\ f.stage = "Connect"
            /\ f.code \in {"host_not_found_try_again", "refused", "tls_truncated"}

\* fetch::_recoverable: a decoder's own fault never becomes a retry.
FetchRecoverable(f) ==
    /\ ~ (f.stage = "HandleResponse" /\ f.status = 0)
    /\ Recoverable(f)

\* _sleep advances the backoff after the wait.
Doubled(backoff) == IF backoff <= ClampedMax \div 2 THEN 2 * backoff ELSE ClampedMax

-----------------------------------------------------------------------------
(* The call. *)

\* A plausible slip: a second call keeps the first one's exhausted backoff.
MutantBegin ==
    /\ mxCall \in {"idle", "returned"}
    /\ mxCalls < MaxCalls
    /\ mxCalls' = mxCalls + 1
    /\ mxCall' = "attempt"
    /\ mxAttempt' = 0
    /\ mxSlept' = <<>>
    /\ mxStarted' = 0
    /\ mxCancelled' = FALSE
    /\ mxFailure' = None
    /\ mxResult' = None
    /\ UNCHANGED <<mxDriver, mxBackoff, mxProd, mxCons, mxReader, mxHandler, mxSeen>>

\* operator(): every call starts from the initial backoff.
Begin ==
    /\ mxCall \in {"idle", "returned"}
    /\ mxCalls < MaxCalls
    /\ mxCalls' = mxCalls + 1
    /\ mxCall' = "attempt"
    /\ mxAttempt' = 0
    /\ mxBackoff' = InitialBackoff
    /\ mxSlept' = <<>>
    /\ mxStarted' = 0
    /\ mxCancelled' = FALSE
    /\ mxFailure' = None
    /\ mxResult' = None
    /\ UNCHANGED <<mxDriver, mxProd, mxCons, mxReader, mxHandler, mxSeen>>

Throw(result) == mxCall' = "returned" /\ mxResult' = result

\* A plausible slip: the base clears its flags and forgets the accumulators.
MutantCleared ==
    IF mxDriver = "fetch" THEN UNCHANGED <<mxReader, mxHandler, mxSeen>>
    ELSE /\ mxReader' = [FreshReader EXCEPT !.acc = mxReader.acc]
         /\ mxHandler' = FreshHandler /\ mxSeen' = <<>>

\* The top of the loop: reader->clear() (handler and channel with it), then
\* complete_once, whose first await throws when the call was cancelled.
Cleared ==
    IF mxDriver = "fetch" THEN UNCHANGED <<mxReader, mxHandler, mxSeen>>
    ELSE mxReader' = FreshReader /\ mxHandler' = FreshHandler /\ mxSeen' = <<>>

Attempt ==
    /\ mxCall = "attempt"
    /\ Cleared
    /\ IF mxCancelled
       THEN Throw(Aborted) /\ UNCHANGED <<mxStarted>>
       ELSE /\ mxCall' = "connect"
            /\ mxStarted' = mxStarted + 1
            /\ UNCHANGED mxResult
    /\ mxProd' = NoProducer
    /\ mxCons' = NoConsumer
    /\ UNCHANGED <<mxDriver, mxCalls, mxAttempt, mxBackoff, mxSlept,
                   mxCancelled, mxFailure>>

FailCall(f) == mxCall' = "classify" /\ mxFailure' = f

\* connect(): every failure is folded into Stage::Connect.  A success spawns
\* the two siblings (complete_once) or goes on in line (fetch_once).
Connect ==
    /\ mxCall = "connect"
    /\ \/ /\ \E code \in IF mxCancelled THEN {"operation_aborted"} ELSE ConnectCodes :
                FailCall(Http("Connect", 0, code))
          /\ UNCHANGED <<mxProd, mxCons>>
       \/ /\ ~ mxCancelled
          /\ mxCall' = IF mxDriver = "fetch" THEN "write" ELSE "exchange"
          /\ mxProd' = IF mxDriver = "fetch" THEN NoProducer
                       ELSE [NoProducer EXCEPT !.at = "write"]
          /\ mxCons' = IF mxDriver = "fetch" THEN NoConsumer
                       ELSE [NoConsumer EXCEPT !.at = "next"]
          /\ UNCHANGED mxFailure
    /\ UNCHANGED <<mxDriver, mxCalls, mxAttempt, mxBackoff, mxSlept, mxStarted,
                   mxCancelled, mxResult, mxReader, mxHandler, mxSeen>>

-----------------------------------------------------------------------------
(* The producer: pump around a driver. *)

Stopping == mxCancelled \/ mxProd.stop

\* finish(): record the state and close the channel; a waiting sender is
\* released with the close.
Finished(handler, state) == [handler EXCEPT !.state = state, !.closed = TRUE]

\* pump()'s catch: remember the exception, abort the consumer; the spawned
\* wrapper logs it and ends normally.
PumpFault(stage, status, code) ==
    /\ mxProd' = [mxProd EXCEPT !.at = "ended", !.ended = TRUE, !.queue = <<>>]
    /\ mxReader' = [mxReader EXCEPT !.error = Http(stage, status, code)]
    /\ mxHandler' = [Finished(mxHandler, "ERROR") EXCEPT !.offer = NoDelta]

\* A plausible slip: only a fault ends the stream for the consumer.
MutantPumpExit ==
    /\ mxProd' = [mxProd EXCEPT !.at = "ended", !.ended = TRUE]
    /\ UNCHANGED <<mxHandler, mxReader>>

\* pump()'s clean exit: finish unless the reader already has.
PumpExit ==
    /\ mxProd' = [mxProd EXCEPT !.at = "ended", !.ended = TRUE]
    /\ mxHandler' = IF mxHandler.state = "RUNNING" THEN Finished(mxHandler, "ERROR")
                                                   ELSE mxHandler
    /\ UNCHANGED mxReader

ProducerKeeps == UNCHANGED <<mxDriver, mxCall, mxCalls, mxAttempt, mxBackoff,
                             mxSlept, mxStarted, mxCancelled, mxFailure,
                             mxResult, mxCons, mxSeen>>

Move(at) == /\ mxProd' = [mxProd EXCEPT !.at = at]
            /\ UNCHANGED <<mxReader, mxHandler>>

\* A cancelled await throws operation_aborted, wrapped with the stage.
Interrupted ==
    /\ mxCall = "exchange"
    /\ Stopping
    /\ \E at \in {"write", "header", "body", "shutdown"} :
         /\ mxProd.at = at
         /\ PumpFault(CASE at = "write" -> "Write" [] at = "header" -> "Read"
                        [] OTHER -> "HandleResponse",
                      0, "operation_aborted")
    /\ ProducerKeeps

WriteRequest ==
    /\ mxCall = "exchange" /\ mxProd.at = "write"
    /\ ~ Stopping
    /\ \/ Move("header")
       \/ PumpFault("Write", 0, "transport")
    /\ ProducerKeeps

\* The deltas a read delivers, numbered on from the ones before: any number
\* up to the bound, the last possibly the terminal event.
DeltaRun(n, terminal) ==
    [i \in 1 .. n |-> <<mxAttempt, mxProd.sent + i, IF terminal /\ i = n THEN 0 ELSE 1>>]

\* sse_request: the header alone, so that a rejection never reaches the
\* handler; its body is drained into the message.
ReadHeader ==
    /\ mxCall = "exchange" /\ mxProd.at = "header" /\ mxDriver = "sse"
    /\ ~ Stopping
    /\ \/ Move("body")
       \/ PumpFault("Read", 0, "transport")
       \/ \E status \in Statuses : PumpFault("HandleResponse", status, "none")
    /\ ProducerKeeps

\* One read_some: some events, and how the read ended.  put() then sends them
\* one by one before the read's own end is looked at.
ReadSome ==
    /\ mxCall = "exchange" /\ mxProd.at = "body"
    /\ ~ Stopping
    /\ \E n \in 0 .. MaxDeltas - mxProd.sent, terminal \in BOOLEAN,
          ec \in {"more", "closed", "error", "garbled"} :
         /\ n = 0 => ~ terminal /\ ec # "more"
         /\ mxProd' = [mxProd EXCEPT !.at = "put",
                                     !.queue = DeltaRun(n, terminal),
                                     !.sent = @ + n,
                                     !.ec = ec]
    /\ UNCHANGED <<mxReader, mxHandler>>
    /\ ProducerKeeps

\* http_request: the whole response is read before the handler sees any of
\* it; a timeout of the read and any other fault are Stage::Read.
ReadResponse ==
    /\ mxCall = "exchange" /\ mxProd.at = "header" /\ mxDriver = "http"
    /\ ~ Stopping
    /\ \/ \E n \in 0 .. MaxDeltas, terminal \in BOOLEAN, ec \in {"closed", "garbled"} :
            /\ n = 0 => ~ terminal
            /\ mxProd' = [mxProd EXCEPT !.at = "shutdown",
                                        !.queue = DeltaRun(n, terminal),
                                        !.sent = n,
                                        !.ec = ec]
            /\ UNCHANGED <<mxReader, mxHandler>>
       \/ PumpFault("Read", 0, "timeout")
       \/ \E status \in Statuses : PumpFault("HandleResponse", status, "none")
    /\ ProducerKeeps

\* put(): offer the next event and wait for the consumer to take it.
Offer ==
    /\ mxCall = "exchange" /\ mxProd.at = "put" /\ mxProd.queue # <<>>
    /\ ~ mxHandler.closed
    /\ mxHandler' = [mxHandler EXCEPT !.offer = Head(mxProd.queue)]
    /\ mxProd' = [mxProd EXCEPT !.at = "send", !.queue = Tail(@)]
    /\ UNCHANGED mxReader
    /\ ProducerKeeps

\* A send on a closed or cancelled channel throws SSEAborted: a cooperative
\* stop that still shuts the stream down, or ends the bounded driver.
PutAborted ==
    /\ mxCall = "exchange"
    /\ \/ mxProd.at = "put" /\ mxProd.queue # <<>> /\ mxHandler.closed
       \/ mxProd.at = "send" /\ mxHandler.offer # NoDelta
                             /\ (mxHandler.closed \/ Stopping)
    /\ IF mxDriver = "sse"
       THEN /\ mxProd' = [mxProd EXCEPT !.at = "shutdown", !.queue = <<>>, !.ec = "closed"]
            /\ mxHandler' = [mxHandler EXCEPT !.offer = NoDelta]
            /\ UNCHANGED mxReader
       ELSE /\ mxProd' = [mxProd EXCEPT !.at = "ended", !.ended = TRUE, !.queue = <<>>]
            /\ mxHandler' = [IF mxHandler.state = "RUNNING" THEN Finished(mxHandler, "ERROR")
                             ELSE mxHandler EXCEPT !.offer = NoDelta]
            /\ UNCHANGED mxReader
    /\ ProducerKeeps

\* The consumer took the delta: the send completes.
SentRequest ==
    /\ mxCall = "exchange" /\ mxProd.at = "send" /\ mxHandler.offer = NoDelta
    /\ Move("put")
    /\ ProducerKeeps

\* The chunk is published: now the end of the read decides.  A decoder fault
\* (garbled) drove the handler to ERROR inside put().
PutDone ==
    /\ mxCall = "exchange" /\ mxProd.at = "put" /\ mxProd.queue = <<>>
    /\ CASE mxProd.ec = "more"    -> Move("body")
         [] mxProd.ec = "closed"  -> IF mxDriver = "sse" THEN Move("shutdown") ELSE PumpExit
         [] mxProd.ec = "error"   -> PumpFault("HandleResponse", 0, "transport")
         [] mxProd.ec = "garbled" -> PumpFault("HandleResponse", 0, "decode")
    /\ ProducerKeeps

\* stream.shutdown(): best effort.  The TLS flavour waits for the peer, who
\* may answer whenever it likes.
ShutStream ==
    /\ mxCall = "exchange" /\ mxProd.at = "shutdown"
    /\ ~ Stopping
    /\ IF mxDriver = "sse" THEN PumpExit ELSE Move("put")
    /\ ProducerKeeps

-----------------------------------------------------------------------------
(* The consumer: consume() around next(). *)

ConsumerKeeps == UNCHANGED <<mxDriver, mxCall, mxCalls, mxAttempt, mxBackoff,
                             mxSlept, mxStarted, mxCancelled, mxFailure, mxResult>>

\* A plausible slip: the group waits for the producer's own end.
MutantConsumerEnds(error) ==
    /\ mxCons' = [mxCons EXCEPT !.at = "ended", !.error = error, !.hand = NoDelta]
    /\ UNCHANGED mxProd

\* The group's condition: the consumer's end, of either kind, stops the
\* producer; a producer's normal end stops nobody.
ConsumerEnds(error) ==
    /\ mxCons' = [mxCons EXCEPT !.at = "ended", !.error = error, !.hand = NoDelta]
    /\ mxProd' = [mxProd EXCEPT !.stop = TRUE]

\* consume()'s loop: done ends it; a cancelled coroutine throws at the await.
NextDelta ==
    /\ mxCall = "exchange" /\ mxCons.at = "next"
    /\ IF mxCancelled THEN ConsumerEnds(Aborted)
       ELSE IF mxReader.done THEN ConsumerEnds(None)
       ELSE mxCons' = [mxCons EXCEPT !.at = "get"] /\ UNCHANGED mxProd
    /\ UNCHANGED <<mxReader, mxHandler, mxSeen>>
    /\ ConsumerKeeps

\* get() takes the offered delta.
Take ==
    /\ mxCall = "exchange" /\ mxCons.at = "get"
    /\ mxHandler.offer # NoDelta
    /\ mxCons' = [mxCons EXCEPT !.at = "fold", !.hand = mxHandler.offer]
    /\ mxHandler' = [mxHandler EXCEPT !.offer = NoDelta]
    /\ UNCHANGED <<mxReader, mxProd, mxSeen>>
    /\ ConsumerKeeps

\* A closed (or cancelled) get() is a lifecycle end, absorbed by next().
TakeAborted ==
    /\ mxCall = "exchange" /\ mxCons.at = "get"
    /\ (mxHandler.closed /\ mxHandler.offer = NoDelta) \/ mxCancelled
    /\ mxReader' = [mxReader EXCEPT !.abort = TRUE, !.done = TRUE]
    /\ ConsumerEnds(None)
    /\ UNCHANGED <<mxHandler, mxSeen>>
    /\ ConsumerKeeps

Terminal(delta) == delta[3] = 0

\* next() after get(): accumulate first, and on the terminal delta assemble
\* and finish before any hook runs.  A throwing _accumulate is a fault.
ConsumerFault ==
    /\ mxReader' = [mxReader EXCEPT !.faulted = TRUE, !.done = TRUE]
    /\ mxHandler' = Finished(mxHandler, "ERROR")
    /\ ConsumerEnds(IF mxCancelled THEN Aborted ELSE HookFault)

Fold ==
    /\ mxCall = "exchange" /\ mxCons.at = "fold"
    /\ LET acc == Append(mxReader.acc, mxCons.hand)
       IN  IF Terminal(mxCons.hand)
           THEN /\ mxReader' = [mxReader EXCEPT !.acc = acc, !.response = acc, !.done = TRUE]
                /\ mxHandler' = Finished(mxHandler, "DONE")
           ELSE /\ mxReader' = [mxReader EXCEPT !.acc = acc]
                /\ UNCHANGED mxHandler
    /\ mxCons' = [mxCons EXCEPT !.at = "hooks"]
    /\ UNCHANGED <<mxProd, mxSeen>>
    /\ ConsumerKeeps

FoldFault ==
    /\ mxCall = "exchange" /\ mxCons.at = "fold"
    /\ ConsumerFault
    /\ UNCHANGED mxSeen
    /\ ConsumerKeeps

\* The hooks run to the end, or one throws (a cancelled await included).
Hooks ==
    /\ mxCall = "exchange" /\ mxCons.at = "hooks"
    /\ mxCons' = [mxCons EXCEPT !.at = "next", !.hand = NoDelta]
    /\ mxSeen' = Append(mxSeen, mxCons.hand)
    /\ UNCHANGED <<mxReader, mxHandler, mxProd>>
    /\ ConsumerKeeps

HookThrows ==
    /\ mxCall = "exchange" /\ mxCons.at = "hooks"
    /\ ConsumerFault
    /\ UNCHANGED mxSeen
    /\ ConsumerKeeps

\* abort(): serialized with next(), so while it is suspended.
AbortReader ==
    /\ mxCall = "exchange" /\ mxCons.at \in {"get", "hooks"}
    /\ mxReader' = IF mxReader.done THEN mxReader
                   ELSE [mxReader EXCEPT !.selfAborted = TRUE, !.abort = TRUE, !.done = TRUE]
    /\ mxHandler' = Finished(mxHandler, "ERROR")
    /\ UNCHANGED <<mxProd, mxCons, mxSeen>>
    /\ ConsumerKeeps

-----------------------------------------------------------------------------
(* Back in the engine. *)

\* A plausible slip: the consumer's own abort is not told from a lost stream.
MutantAbortState ==
    IF ~ mxReader.done THEN "Streaming"
    ELSE IF mxReader.faulted \/ mxReader.abort THEN "Faulted"
    ELSE "Completed"

\* A plausible slip: the handler's state is taken for the stream's.
MutantEndState ==
    IF ~ mxReader.done THEN "Streaming"
    ELSE IF mxReader.selfAborted THEN "Aborted"
    ELSE IF mxHandler.state = "DONE" THEN "Completed"
    ELSE "Faulted"

\* end_state(): from the reader's own flags, never from the handler, whose
\* state a late producer fault overwrites.
EndState ==
    IF ~ mxReader.done THEN "Streaming"
    ELSE IF mxReader.faulted THEN "Faulted"
    ELSE IF mxReader.selfAborted THEN "Aborted"
    ELSE IF mxReader.abort THEN "Faulted"
    ELSE "Completed"

\* The join of the parallel group, complete_once's verdict and the success
\* path of operator().
Join ==
    /\ mxCall = "exchange"
    /\ mxProd.ended /\ mxCons.at = "ended"
    /\ \/ mxCancelled /\ Throw(Aborted) /\ UNCHANGED mxFailure
       \/ /\ ~ mxCancelled /\ mxCons.error # None
          /\ Throw(mxCons.error) /\ UNCHANGED mxFailure
       \/ /\ ~ mxCancelled /\ mxCons.error = None
          /\ CASE EndState = "Completed" ->
                    Throw(Response(mxReader.response)) /\ UNCHANGED mxFailure
               [] EndState = "Aborted" ->
                    Throw(Http("Unknown", 0, "none")) /\ UNCHANGED mxFailure
               [] OTHER ->
                    /\ FailCall(IF mxReader.error # None THEN mxReader.error
                                ELSE Http("Read", 0, "none"))
                    /\ UNCHANGED mxResult
    /\ UNCHANGED <<mxDriver, mxCalls, mxAttempt, mxBackoff, mxSlept, mxStarted,
                   mxCancelled, mxProd, mxCons, mxReader, mxHandler, mxSeen>>

ClassifyKeeps == UNCHANGED <<mxDriver, mxCalls, mxAttempt, mxBackoff, mxSlept,
                             mxStarted, mxCancelled, mxFailure, mxProd, mxCons,
                             mxReader, mxHandler, mxSeen>>

\* The failure is final, or the engine backs off and goes round.
Decide(verdict) ==
    IF verdict /\ mxAttempt < MaxRetryAttempts
    THEN mxCall' = "sleep" /\ UNCHANGED mxResult
    ELSE Throw(mxFailure)

\* complete's catch of HttpRequestException: cancellation first, then the
\* verdict and the budget.
Classify ==
    /\ mxCall = "classify" /\ mxDriver # "fetch"
    /\ IF mxCancelled THEN Throw(Aborted) ELSE Decide(Recoverable(mxFailure))
    /\ ClassifyKeeps

\* fetch's: a cancelled exchange is a failure like any other here, and the
\* wait that follows a recoverable one is what throws.
FetchClassify ==
    /\ mxCall = "classify" /\ mxDriver = "fetch"
    /\ Decide(FetchRecoverable(mxFailure))
    /\ ClassifyKeeps

\* _sleep(): a cancelled wait propagates, a finished one advances the backoff.
Sleep ==
    /\ mxCall = "sleep"
    /\ IF mxCancelled
       THEN Throw(Aborted) /\ UNCHANGED <<mxAttempt, mxBackoff, mxSlept>>
       ELSE /\ mxCall' = "attempt"
            /\ mxAttempt' = mxAttempt + 1
            /\ mxSlept' = Append(mxSlept, mxBackoff)
            /\ mxBackoff' = Doubled(mxBackoff)
            /\ UNCHANGED mxResult
    /\ UNCHANGED <<mxDriver, mxCalls, mxStarted, mxCancelled, mxFailure, mxProd,
                   mxCons, mxReader, mxHandler, mxSeen>>

\* The caller cancels: at any time while the call runs.
Cancel ==
    /\ mxCall \notin {"idle", "returned"}
    /\ ~ mxCancelled
    /\ mxCancelled' = TRUE
    /\ UNCHANGED <<mxDriver, mxCall, mxCalls, mxAttempt, mxBackoff, mxSlept,
                   mxStarted, mxFailure, mxResult, mxProd, mxCons, mxReader,
                   mxHandler, mxSeen>>

-----------------------------------------------------------------------------
(* fetch_once: one coroutine. *)

FetchKeeps == UNCHANGED <<mxDriver, mxCalls, mxAttempt, mxBackoff, mxSlept,
                          mxStarted, mxCancelled, mxProd, mxCons, mxReader,
                          mxHandler, mxSeen>>

FetchWrite ==
    /\ mxCall = "write"
    /\ \/ ~ mxCancelled /\ mxCall' = "read" /\ UNCHANGED mxFailure
       \/ FailCall(Http("Write", 0, "transport"))
    /\ UNCHANGED mxResult
    /\ FetchKeeps

\* No status gate below: the answer comes back whole, and a non-200 is turned
\* into a failure that carries its status.
FetchRead ==
    /\ mxCall = "read"
    /\ \/ FailCall(Http("Read", 0, "timeout")) /\ UNCHANGED mxResult
       \/ /\ ~ mxCancelled
          /\ \/ \E status \in Statuses :
                   FailCall(Http("HandleResponse", status, "none")) /\ UNCHANGED mxResult
             \/ FailCall(Http("HandleResponse", 0, "decode")) /\ UNCHANGED mxResult
             \/ Throw(HookFault) /\ UNCHANGED mxFailure
             \/ Throw(Response(<<>>)) /\ UNCHANGED mxFailure
    /\ FetchKeeps

-----------------------------------------------------------------------------
Producer ==
    \/ Interrupted \/ WriteRequest \/ ReadHeader \/ ReadSome \/ ReadResponse
    \/ Offer \/ PutAborted \/ SentRequest \/ PutDone \/ ShutStream

Consumer ==
    \/ NextDelta \/ Take \/ TakeAborted \/ Fold \/ FoldFault \/ Hooks \/ HookThrows

Engine == Attempt \/ Connect \/ Join \/ Classify \/ Sleep

Fetcher == FetchWrite \/ FetchRead \/ FetchClassify

MxNext == Begin \/ Producer \/ Consumer \/ AbortReader \/ Engine \/ Fetcher \/ Cancel

\* What the process itself does for certain: every coroutine step that waits
\* for nobody else, every wait that carries a deadline (connect, write, the
\* bounded read), hooks that return, and the backoff timer.  A server owes
\* nothing: reading the header's body and the TLS close may never end.
MxFairness ==
    /\ WF_mxVars(Engine)
    /\ WF_mxVars(Consumer)
    /\ WF_mxVars(Fetcher)
    /\ WF_mxVars(Interrupted \/ WriteRequest \/ ReadHeader \/ ReadResponse
                 \/ Offer \/ PutAborted \/ SentRequest \/ PutDone)

MxSpec == MxInit /\ [][MxNext]_mxVars
MxLiveSpec == MxSpec /\ MxFairness

-----------------------------------------------------------------------------
(* Properties. *)

Numbers(deltas) == [i \in DOMAIN deltas |-> deltas[i][2]]
Ascending(deltas) == Numbers(deltas) = [i \in DOMAIN deltas |-> i]

\* What a call returns is one attempt's stream, whole: the deltas of the
\* attempt that reached the terminal event, each once and in order, with no
\* trace of an earlier attempt or of an earlier call on the same reader
\* (complete's reader->clear(), next(), _assemble).
ResponseIsOneStream ==
    mxResult.kind = "response" /\ mxDriver # "fetch" =>
        LET d == mxResult.deltas
        IN  /\ d # <<>> /\ Terminal(Last(d))
            /\ \A i \in DOMAIN d : d[i][1] = mxAttempt /\ (i < Len(d) => ~ Terminal(d[i]))
            /\ Ascending(d)

\* The hooks see every delta of the attempt exactly once, in arrival order,
\* and never one that is not folded into the accumulators (next()).
HooksInStep ==
    /\ Ascending(mxSeen)
    /\ IsPrefix(mxSeen, mxReader.acc)
    /\ Len(mxReader.acc) <= Len(mxSeen) + 1

\* A completed stream is never thrown away: once the terminal event was
\* folded without fault or abort, the call returns that response, although
\* stopping the producer makes it fail late, records an end_error() and
\* overwrites the handler's state (end_state(), StopWhenConsumed).  Only the
\* caller's own cancellation outranks it.
CompletedIsReturned ==
    mxReader.done /\ ~ mxReader.faulted /\ ~ mxReader.abort /\ ~ mxCancelled =>
        /\ mxCall \notin {"classify", "sleep"}
        /\ mxCall = "returned" => mxResult.kind = "response"

\* Twice a wait, unless that is more than the cap.
CappedDouble(wait) == IF 2 * wait <= ClampedMax THEN 2 * wait ELSE ClampedMax

\* The waits between attempts double from the initial backoff and are capped,
\* in every call, and there are never more attempts than the budget allows
\* (_sleep, the loop bound).
BackoffSchedule ==
    /\ mxStarted <= MaxRetryAttempts + 1 /\ Len(mxSlept) <= MaxRetryAttempts
    /\ \A i \in DOMAIN mxSlept :
         mxSlept[i] = IF i = 1 THEN InitialBackoff ELSE CappedDouble(mxSlept[i - 1])

\* No new request after the caller cancelled, after the consumer aborted, or
\* after a hook threw: those ends are never retried, whatever the failure
\* looks like to the verdict.
NoRequestAfterStop ==
    [][mxStarted' > mxStarted =>
         /\ ~ mxCancelled
         /\ ~ mxReader.selfAborted \/ mxAttempt = 0
         /\ ~ mxReader.faulted \/ mxAttempt = 0]_mxVars

\* The call ends: once the caller cancelled, and once the terminal event was
\* folded even when the server keeps the connection open for ever.  Whatever
\* ended the producer, its end reaches the consumer and ends the exchange.
CallEnds ==
    /\ mxCancelled ~> mxCall \in {"returned", "idle"}
    /\ mxProd.ended ~> mxCall # "exchange"
    /\ (mxReader.response # <<>> /\ mxCall = "exchange") ~> mxCall # "exchange"
=============================================================================
