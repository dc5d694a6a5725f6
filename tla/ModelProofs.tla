---------------------------- MODULE ModelProofs ----------------------------
(***************************************************************************)
(* Proofs about the components on the way between a session and the        *)
(* services it talks to (MCModel), for every value of the constants.       *)
(***************************************************************************)
EXTENDS MCModel, TLAPS

(***************************************************************************)
(* Remote calls of the Hub.  What the caller is told is decided from the   *)
(* reply and the flags at the moment of return, while the request may      *)
(* still be travelling.  So the invariant ties what the Hub did to how far *)
(* the attempt got: nothing is at the Hub that was not sent, nothing was   *)
(* sent by an attempt that failed to connect, and only a request declared  *)
(* idempotent is started again after it may have been.                     *)
(***************************************************************************)
RcTypes ==
    /\ rcUse \in {"mutation", "read", "confirm", "fetch", "safe_fetch"}
    /\ rcPc \in {"idle", "connecting", "writing", "reading", "closing", "ended", "joining",
                 "returned"}
    /\ rcTimer \in {"off", "armed", "done"}
    /\ rcSent \in BOOLEAN
    /\ rcArrived \in BOOLEAN
    /\ rcActive \in BOOLEAN
    /\ rcStop \in BOOLEAN
    /\ rcExpired \in BOOLEAN
    /\ rcReply \in {"none", "done", "refused", "unsure", "garbled"}
    /\ rcCarried \in Nat

\* How far this attempt's request can be.
RcReach ==
    /\ rcArrived => rcSent
    /\ rcReply # "none" => rcArrived
    /\ rcPc \in {"idle", "connecting"} \/ rcFailure \in {"connect", "aborted"} => ~rcSent
    /\ rcPc \in {"idle"} \cup Pending => rcFailure = "none"

\* What the Hub has done for one that is sent once.
RcOnce ==
    rcUse # "safe_fetch" =>
        /\ rcReply = "none" => rcCarried = 0
        /\ rcReply = "done" => rcCarried = 1
        /\ rcCarried \in {0, 1}

RcSays ==
    /\ rcPc = "returned" <=> rcSaid # "none"
    /\ rcSaid = "done" => rcReply = "done" /\ ~rcExpired /\ ~rcStop /\ ~Fetching
    /\ rcUse = "mutation" => rcSaid # "repeatable"
    /\ rcPc = "returned" /\ ~Fetching => rcTimer = "done"
    /\ rcPc = "joining" => ~Fetching

RcInv == RcTypes /\ RcReach /\ RcOnce /\ RcSays

LEMMA InitRc == RcInit => RcInv
  <1>. SUFFICES ASSUME RcInit PROVE RcInv
    OBVIOUS
  <1>1. RcTypes
    BY DEF RcInit, RcTypes
  <1>2. RcReach
    BY DEF RcInit, RcReach, Pending
  <1>3. RcOnce
    BY DEF RcInit, RcOnce
  <1>4. RcSays
    BY DEF RcInit, RcSays, Fetching
  <1>. QED  BY <1>1, <1>2, <1>3, <1>4 DEF RcInv

LEMMA ExchangeRc ==
    ASSUME RcInv, BeginExchange \/ RefuseArguments \/ RefuseRequest \/ ConnectedOnce \/ WriteDone
                    \/ ReadReply \/ CloseDone \/ SettleExchange
                    \/ \E how \in {"connect", "transport", "protocol"} : OperationFails(how)
    PROVE  RcInv'
  <1>1. CASE BeginExchange
    <2>1. RcTypes'
      BY <1>1 DEF RcInv, RcTypes, BeginExchange, rcHub, Fetching
    <2>2. RcReach'
      BY <1>1 DEF RcInv, RcTypes, RcReach, Pending, BeginExchange, rcHub, Fetching
    <2>3. RcOnce'
      BY <1>1 DEF RcInv, RcTypes, RcReach, Pending, RcOnce, BeginExchange, rcHub, Fetching
    <2>4. RcSays'
      BY <1>1 DEF RcInv, RcTypes, RcReach, Pending, RcSays, BeginExchange, rcHub, Fetching
    <2>. QED  BY <2>1, <2>2, <2>3, <2>4 DEF RcInv
  <1>2. CASE RefuseArguments
    <2>1. RcTypes'
      BY <1>2 DEF RcInv, RcTypes, RefuseArguments, rcHub
    <2>2. RcReach'
      BY <1>2 DEF RcInv, RcTypes, RcReach, Pending, RefuseArguments, rcHub
    <2>3. RcOnce'
      BY <1>2 DEF RcInv, RcTypes, RcReach, Pending, RcOnce, RefuseArguments, rcHub
    <2>4. RcSays'
      BY <1>2 DEF RcInv, RcTypes, RcReach, Pending, RcSays, RefuseArguments, rcHub, Fetching
    <2>. QED  BY <2>1, <2>2, <2>3, <2>4 DEF RcInv
  <1>3. CASE RefuseRequest
    <2>1. RcTypes'
      BY <1>3 DEF RcInv, RcTypes, RefuseRequest, rcHub, FailureText
    <2>2. RcReach'
      BY <1>3 DEF RcInv, RcTypes, RcReach, Pending, RefuseRequest, rcHub, FailureText
    <2>3. RcOnce'
      BY <1>3 DEF RcInv, RcTypes, RcReach, Pending, RcOnce, RefuseRequest, rcHub, FailureText
    <2>4. RcSays'
      BY <1>3 DEF RcInv, RcTypes, RcReach, Pending, RcSays, RefuseRequest, rcHub, FailureText,
                  Fetching
    <2>. QED  BY <2>1, <2>2, <2>3, <2>4 DEF RcInv
  <1>4. CASE ConnectedOnce
    <2>1. RcTypes'
      BY <1>4 DEF RcInv, RcTypes, ConnectedOnce, rcControl
    <2>2. RcReach'
      BY <1>4 DEF RcInv, RcTypes, RcReach, Pending, ConnectedOnce, rcControl
    <2>3. RcOnce'
      BY <1>4 DEF RcInv, RcTypes, RcReach, Pending, RcOnce, ConnectedOnce, rcControl
    <2>4. RcSays'
      BY <1>4 DEF RcInv, RcTypes, RcReach, Pending, RcSays, ConnectedOnce, rcControl, Fetching
    <2>. QED  BY <2>1, <2>2, <2>3, <2>4 DEF RcInv
  <1>5. CASE WriteDone
    <2>1. RcTypes'
      BY <1>5 DEF RcInv, RcTypes, WriteDone, rcHub, rcControl
    <2>2. RcReach'
      BY <1>5 DEF RcInv, RcTypes, RcReach, Pending, WriteDone, rcHub, rcControl
    <2>3. RcOnce'
      BY <1>5 DEF RcInv, RcTypes, RcReach, Pending, RcOnce, WriteDone, rcHub, rcControl
    <2>4. RcSays'
      BY <1>5 DEF RcInv, RcTypes, RcReach, Pending, RcSays, WriteDone, rcHub, rcControl, Fetching
    <2>. QED  BY <2>1, <2>2, <2>3, <2>4 DEF RcInv
  <1>6. CASE ReadReply
    <2>1. RcTypes'
      BY <1>6 DEF RcInv, RcTypes, ReadReply, rcHub, rcControl
    <2>2. RcReach'
      BY <1>6 DEF RcInv, RcTypes, RcReach, Pending, ReadReply, rcHub, rcControl
    <2>3. RcOnce'
      BY <1>6 DEF RcInv, RcTypes, RcReach, Pending, RcOnce, ReadReply, rcHub, rcControl
    <2>4. RcSays'
      BY <1>6 DEF RcInv, RcTypes, RcReach, Pending, RcSays, ReadReply, rcHub, rcControl, Fetching
    <2>. QED  BY <2>1, <2>2, <2>3, <2>4 DEF RcInv
  <1>7. CASE CloseDone
    <2>1. RcTypes'
      BY <1>7 DEF RcInv, RcTypes, CloseDone, rcHub, rcControl
    <2>2. RcReach'
      BY <1>7 DEF RcInv, RcTypes, RcReach, Pending, CloseDone, rcHub, rcControl
    <2>3. RcOnce'
      BY <1>7 DEF RcInv, RcTypes, RcReach, Pending, RcOnce, CloseDone, rcHub, rcControl
    <2>4. RcSays'
      BY <1>7 DEF RcInv, RcTypes, RcReach, Pending, RcSays, CloseDone, rcHub, rcControl, Fetching
    <2>. QED  BY <2>1, <2>2, <2>3, <2>4 DEF RcInv
  <1>8. CASE SettleExchange
    <2>1. RcTypes'
      BY <1>8 DEF RcInv, RcTypes, SettleExchange, rcHub
    <2>2. RcReach'
      BY <1>8 DEF RcInv, RcTypes, RcReach, Pending, SettleExchange, rcHub
    <2>3. RcOnce'
      BY <1>8 DEF RcInv, RcTypes, RcReach, Pending, RcOnce, SettleExchange, rcHub
    <2>4. RcSays'
      BY <1>8 DEF RcInv, RcTypes, RcReach, Pending, RcSays, SettleExchange, rcHub, Fetching
    <2>. QED  BY <2>1, <2>2, <2>3, <2>4 DEF RcInv
  <1>9. ASSUME NEW how \in {"connect", "transport", "protocol"}, OperationFails(how) PROVE RcInv'
    <2>1. RcTypes'
      BY <1>9 DEF RcInv, RcTypes, Pending, OperationFails, rcHub, rcControl
    <2>2. RcReach'
      BY <1>9 DEF RcInv, RcTypes, RcReach, Pending, OperationFails, rcHub, rcControl
    <2>3. RcOnce'
      BY <1>9 DEF RcInv, RcTypes, RcReach, Pending, RcOnce, OperationFails, rcHub, rcControl
    <2>4. RcSays'
      BY <1>9 DEF RcInv, RcTypes, RcReach, Pending, RcSays, OperationFails, rcHub, rcControl,
                  Fetching
    <2>. QED  BY <2>1, <2>2, <2>3, <2>4 DEF RcInv
  <1>. QED  BY <1>1, <1>2, <1>3, <1>4, <1>5, <1>6, <1>7, <1>8, <1>9

LEMMA HubRc ==
    ASSUME RcInv, RequestArrives \/ LateCarry
                    \/ \E a \in {"done", "refused", "unsure", "garbled"}, c \in BOOLEAN : HubAnswers(a, c)
    PROVE  RcInv'
  <1>1. CASE RequestArrives
    <2>1. RcTypes'
      BY <1>1 DEF RcInv, RcTypes, RequestArrives, rcControl
    <2>2. RcReach'
      BY <1>1 DEF RcInv, RcTypes, RcReach, Pending, RequestArrives, rcControl
    <2>3. RcOnce'
      BY <1>1 DEF RcInv, RcTypes, RcReach, Pending, RcOnce, RequestArrives, rcControl
    <2>4. RcSays'
      BY <1>1 DEF RcInv, RcTypes, RcReach, Pending, RcSays, RequestArrives, rcControl, Fetching
    <2>. QED  BY <2>1, <2>2, <2>3, <2>4 DEF RcInv
  <1>2. CASE LateCarry
    <2>1. RcTypes'
      BY <1>2 DEF RcInv, RcTypes, LateCarry, rcControl
    <2>2. RcReach'
      BY <1>2 DEF RcInv, RcTypes, RcReach, Pending, LateCarry, rcControl
    <2>3. RcOnce'
      BY <1>2 DEF RcInv, RcTypes, RcReach, Pending, RcOnce, LateCarry, rcControl
    <2>4. RcSays'
      BY <1>2 DEF RcInv, RcTypes, RcReach, Pending, RcSays, LateCarry, rcControl, Fetching
    <2>. QED  BY <2>1, <2>2, <2>3, <2>4 DEF RcInv
  <1>3. ASSUME NEW a \in {"done", "refused", "unsure", "garbled"}, NEW c \in BOOLEAN, HubAnswers(a,
                                                                                                 c)
        PROVE  RcInv'
    <2>1. RcTypes'
      BY <1>3 DEF RcInv, RcTypes, HubAnswers, rcControl
    <2>2. RcReach'
      BY <1>3 DEF RcInv, RcTypes, RcReach, Pending, HubAnswers, rcControl
    <2>3. RcOnce'
      BY <1>3 DEF RcInv, RcTypes, RcReach, Pending, RcOnce, HubAnswers, rcControl
    <2>4. RcSays'
      BY <1>3 DEF RcInv, RcTypes, RcReach, Pending, RcSays, HubAnswers, rcControl, Fetching
    <2>. QED  BY <2>1, <2>2, <2>3, <2>4 DEF RcInv
  <1>. QED  BY <1>1, <1>2, <1>3

LEMMA ClockRc ==
    ASSUME RcInv, TimerHandler \/ RequestCallStop \/ StopCallback
    PROVE  RcInv'
  <1>1. CASE TimerHandler
    <2>1. RcTypes'
      BY <1>1 DEF RcInv, RcTypes, TimerHandler, rcHub, DeadlineHits
    <2>2. RcReach'
      BY <1>1 DEF RcInv, RcTypes, RcReach, Pending, TimerHandler, rcHub, DeadlineHits
    <2>3. RcOnce'
      BY <1>1 DEF RcInv, RcTypes, RcReach, Pending, RcOnce, TimerHandler, rcHub, DeadlineHits
    <2>4. RcSays'
      BY <1>1 DEF RcInv, RcTypes, RcReach, Pending, RcSays, TimerHandler, rcHub, DeadlineHits,
                  Fetching
    <2>. QED  BY <2>1, <2>2, <2>3, <2>4 DEF RcInv
  <1>2. CASE RequestCallStop
    <2>1. RcTypes'
      BY <1>2 DEF RcInv, RcTypes, RequestCallStop, rcHub
    <2>2. RcReach'
      BY <1>2 DEF RcInv, RcTypes, RcReach, Pending, RequestCallStop, rcHub
    <2>3. RcOnce'
      BY <1>2 DEF RcInv, RcTypes, RcReach, Pending, RcOnce, RequestCallStop, rcHub
    <2>4. RcSays'
      BY <1>2 DEF RcInv, RcTypes, RcReach, Pending, RcSays, RequestCallStop, rcHub, Fetching
    <2>. QED  BY <2>1, <2>2, <2>3, <2>4 DEF RcInv
  <1>3. CASE StopCallback
    <2>1. RcTypes'
      BY <1>3 DEF RcInv, RcTypes, StopCallback, rcHub
    <2>2. RcReach'
      BY <1>3 DEF RcInv, RcTypes, RcReach, Pending, StopCallback, rcHub
    <2>3. RcOnce'
      BY <1>3 DEF RcInv, RcTypes, RcReach, Pending, RcOnce, StopCallback, rcHub
    <2>4. RcSays'
      BY <1>3 DEF RcInv, RcTypes, RcReach, Pending, RcSays, StopCallback, rcHub, Fetching
    <2>. QED  BY <2>1, <2>2, <2>3, <2>4 DEF RcInv
  <1>. QED  BY <1>1, <1>2, <1>3

LEMMA ReturnRc ==
    ASSUME RcInv, ReturnCall \/ \E transient \in BOOLEAN : FetchEnds(transient)
    PROVE  RcInv'
  <1>1. CASE ReturnCall
    <2>1. RcTypes'
      BY <1>1 DEF RcInv, RcTypes, ReturnCall, rcHub, rcControl
    <2>2. RcReach'
      BY <1>1 DEF RcInv, RcTypes, RcReach, Pending, ReturnCall, rcHub, rcControl
    <2>3. RcOnce'
      BY <1>1 DEF RcInv, RcTypes, RcReach, Pending, RcOnce, ReturnCall, rcHub, rcControl
    <2>4. RcSays'
      <3>1. /\ FailureText \in {"may_have_committed", "repeatable"}
            /\ rcUse = "mutation" => FailureText = "may_have_committed"
        BY DEF FailureText
      <3>2. /\ ReplyText \in {"done", "inspect_first", "repeatable", FailureText}
            /\ ReplyText = "done" => rcReply = "done" \/ FailureText = "done"
            /\ rcUse = "mutation" => ReplyText \in {"done", "inspect_first", FailureText}
        BY DEF ReplyText
      <3>3. Verdict = "reply" => ~rcExpired /\ ~rcStop
        BY DEF Verdict
      <3>4. /\ rcSaid' # "none"
            /\ rcUse = "mutation" => rcSaid' # "repeatable"
            /\ rcSaid' = "done" => Verdict = "reply" /\ rcReply = "done"
        BY <1>1, <3>1, <3>2 DEF ReturnCall
      <3>5. /\ rcPc' = "returned" /\ rcPc = "joining" /\ rcTimer' = "done" /\ rcUse' = rcUse
            /\ rcExpired' = rcExpired /\ rcStop' = rcStop /\ rcReply' = rcReply
        BY <1>1 DEF ReturnCall, rcHub, rcControl, TimerJoined
      <3>. QED
        BY <3>3, <3>4, <3>5 DEF RcInv, RcSays, Fetching
    <2>. QED  BY <2>1, <2>2, <2>3, <2>4 DEF RcInv
  <1>2. ASSUME NEW transient \in BOOLEAN, FetchEnds(transient) PROVE RcInv'
    <2>1. RcTypes'
      BY <1>2 DEF RcInv, RcTypes, FetchEnds, rcControl, RetriesFetch, Fetching
    <2>2. RcReach'
      BY <1>2 DEF RcInv, RcTypes, RcReach, Pending, FetchEnds, rcControl, RetriesFetch, Fetching
    <2>3. RcOnce'
      BY <1>2 DEF RcInv, RcTypes, RcReach, Pending, RcOnce, FetchEnds, rcControl, RetriesFetch,
                  Fetching
    <2>4. RcSays'
      BY <1>2 DEF RcInv, RcTypes, RcReach, Pending, RcSays, FetchEnds, rcControl, RetriesFetch,
                  Fetching
    <2>. QED  BY <2>1, <2>2, <2>3, <2>4 DEF RcInv
  <1>. QED  BY <1>1, <1>2

LEMMA NextRc ==
    ASSUME RcInv, [RcNext]_rcVars
    PROVE  RcInv'
  <1>1. CASE UNCHANGED rcVars
    BY <1>1 DEF RcInv, RcTypes, RcReach, Pending, RcOnce, RcSays, Fetching, rcVars
  <1>. QED
    BY <1>1, ExchangeRc, HubRc, ClockRc, ReturnRc DEF RcNext, RcLocal, RcDone

LEMMA RcInvHonest == RcInv => HonestOutcome /\ NoResend /\ ExchangeFence
  BY DEF RcInv, RcTypes, RcOnce, RcSays, HonestOutcome, NoResend, ExchangeFence, Fetching

(***************************************************************************)
(* The connection to the Hub.  A stop can reach the strand at every        *)
(* suspension point of a session, so the fence of run() and the accounts   *)
(* of the frames rest on where the session stands: outside of one both     *)
(* tasks are off, within a stopping one the reader is cancelled (and takes *)
(* no frame it could lose), and a fault stays among the results until the  *)
(* join examines them.                                                     *)
(***************************************************************************)
Running == {"session", "joining_tasks"}
RunOver == {"ended", "joining_workers", "returned"}
IoOutcomes == {"transport", "protocol", "plain"}

\* What on_text() throws is not of the transport's own exception type.
PlainHandlers == HandlerErrors \subseteq {"plain"}

IoTypes ==
    /\ ioRun \in {"new", "starting", "connecting", "backoff"} \cup Running \cup RunOver
    /\ ioReader \in {"off", "reading", "done"}
    /\ ioWriter \in {"off", "waiting", "writing", "done"}
    /\ ioResults \in Seq(IoOutcomes)
    /\ ioStopping \in BOOLEAN
    /\ ioStopPosted \in BOOLEAN
    /\ ioClosed \in BOOLEAN
    /\ ioFailure \in BOOLEAN
    /\ ioFault \in BOOLEAN
    /\ ioQueue \in [Queues -> Nat]
    /\ ioSeen \in [Queues -> Nat]
    /\ ioServed \in [Queues -> Nat]
    /\ ioUnreported \in Nat
    /\ ioWorker \in [IoWorkers -> {"off", "wait", "busy", "done"}]

IoSessions ==
    /\ ioRun \notin Running => ioReader = "off" /\ ioWriter = "off" /\ ioResults = <<>>
    /\ ioRun = "joining_tasks" => ioAborted = CancelledTasks
    /\ ioReader = "reading" /\ ioStopping => "reader" \in ioAborted
    /\ ioRun \in {"joining_workers", "returned"} => ioClosed
    /\ ioRun = "returned" => Joined

IoFaults ==
    /\ ioFault => ioRun \in Running \cup RunOver
    /\ ioFault /\ ioRun \in Running => ioStopping \/ Fatal(ioResults)
    /\ ioFault /\ ioRun \in RunOver => ioFailure \/ ioStopPosted
    /\ ioStopping => ioStopPosted \/ ioFailure

IoInv == IoTypes /\ IoSessions /\ FramesAccounted /\ IoFaults

LEMMA NoResults == <<>> \in Seq(IoOutcomes)
  OBVIOUS

LEMMA InitIo == IoInit => IoInv
  <1>. SUFFICES ASSUME IoInit PROVE IoInv
    OBVIOUS
  <1>1. IoTypes
    BY NoResults DEF IoInit, IoTypes, Running, RunOver
  <1>2. IoSessions
    BY DEF IoInit, IoSessions, Running
  <1>3. FramesAccounted
    BY DEF IoInit, FramesAccounted, Queues
  <1>4. IoFaults
    BY DEF IoInit, IoFaults
  <1>. QED  BY <1>1, <1>2, <1>3, <1>4 DEF IoInv

\* A result reported stays among the results.
LEMMA FatalAppend ==
    ASSUME NEW r \in Seq(IoOutcomes), NEW w \in IoOutcomes
    PROVE  /\ Append(r, w) \in Seq(IoOutcomes)
           /\ Fatal(r) \/ w # "transport" => Fatal(Append(r, w))
  <1>1. Append(r, w) \in Seq(IoOutcomes) /\ Len(r) \in Nat /\ Len(Append(r, w)) = Len(r) + 1
    OBVIOUS
  <1>2. ASSUME Fatal(r) PROVE Fatal(Append(r, w))
    <2>1. PICK i \in DOMAIN r : r[i] # "transport"
      BY <1>2 DEF Fatal
    <2>2. i \in DOMAIN Append(r, w) /\ Append(r, w)[i] = r[i]
      BY <1>1
    <2>. QED  BY <2>1, <2>2 DEF Fatal
  <1>3. ASSUME w # "transport" PROVE Fatal(Append(r, w))
    <2>1. Len(r) + 1 \in DOMAIN Append(r, w) /\ Append(r, w)[Len(r) + 1] = w
      BY <1>1
    <2>. QED  BY <1>3, <2>1 DEF Fatal
  <1>. QED  BY <1>1, <1>2, <1>3

LEMMA FatalEscapes ==
    ASSUME NEW r \in Seq(IoOutcomes), Fatal(r)
    PROVE  Escapes(r)
  <1>1. PICK i \in DOMAIN r : r[i] # "transport"
    BY DEF Fatal
  <1>2. r[i] \in IoOutcomes
    OBVIOUS
  <1>. QED  BY <1>1, <1>2 DEF Escapes, IoOutcomes

\* Counting one item more, and one less.
LEMMA CountUp ==
    ASSUME NEW f \in [Queues -> Nat], NEW q \in Queues, NEW g, g = [f EXCEPT ![q] = @ + 1]
    PROVE  g \in [Queues -> Nat] /\ g[q] = f[q] + 1 /\ \A k \in Queues \ {q} : g[k] = f[k]
  OBVIOUS

\* The components of the counters, and of the accounts.
Amounts(f) == f.signals \in Nat /\ f.payloads \in Nat /\ f.queries \in Nat /\ f.feedback \in Nat

LEMMA AmountsAre == ASSUME IoTypes PROVE Amounts(ioSeen) /\ Amounts(ioQueue) /\ Amounts(ioServed)
  <1>1. ASSUME NEW f \in [Queues -> Nat] PROVE Amounts(f)
    BY <1>1 DEF Amounts, Queues
  <1>. QED  BY <1>1 DEF IoTypes

\* One frame more is one item more in a queue, or one rejection counted.
LEMMA RoutedFrame ==
    ASSUME FramesAccounted, Amounts(ioSeen), Amounts(ioQueue), Amounts(ioServed),
    ioUnreported \in Nat,
           ioServed' = ioServed, ioClosed' = ioClosed, ioFault' = ioFault,
           ioSeen'.signals = ioSeen.signals, ioQueue'.signals = ioQueue.signals,
           \/ ioSeen'.payloads = ioSeen.payloads + 1 /\ ioSeen'.queries = ioSeen.queries
           \/ ioSeen'.payloads = ioSeen.payloads /\ ioSeen'.queries = ioSeen.queries + 1,
           Amounts(ioQueue'), ioUnreported' \in Nat,
           ioQueue'.payloads + ioQueue'.queries + ioQueue'.feedback + ioUnreported'
             = ioQueue.payloads + ioQueue.queries + ioQueue.feedback + ioUnreported + 1
    PROVE  FramesAccounted'
  <1>. SUFFICES ASSUME ~ioClosed PROVE FramesAccounted'
    BY DEF FramesAccounted
  <1>1. /\ ~ioFault => ioSeen.signals = ioServed.signals + ioQueue.signals
        /\ ioSeen.payloads + ioSeen.queries =
             ioServed.payloads + ioQueue.payloads + ioServed.queries + ioQueue.queries
             + ioServed.feedback + ioQueue.feedback + ioUnreported
    BY DEF FramesAccounted
  <1>2. ioSeen'.payloads + ioSeen'.queries =
             ioServed.payloads + ioQueue'.payloads + ioServed.queries + ioQueue'.queries
             + ioServed.feedback + ioQueue'.feedback + ioUnreported'
    <2>1. ioSeen'.payloads + ioSeen'.queries = ioSeen.payloads + ioSeen.queries + 1
      BY DEF Amounts
    <2>. DEFINE X == ioServed.payloads + ioServed.queries + ioServed.feedback
                Q == ioQueue.payloads + ioQueue.queries + ioQueue.feedback + ioUnreported
                R == ioQueue'.payloads + ioQueue'.queries + ioQueue'.feedback + ioUnreported'
    <2>2. ioSeen.payloads + ioSeen.queries = X + Q /\ X \in Nat /\ Q \in Nat
      BY <1>1 DEF Amounts
    <2>3. /\ ioServed.payloads + ioQueue'.payloads + ioServed.queries + ioQueue'.queries
               + ioServed.feedback + ioQueue'.feedback + ioUnreported' = X + R
          /\ R \in Nat
      BY DEF Amounts
    <2>4. R = Q + 1
      OBVIOUS
    <2>. HIDE DEF X, Q, R
    <2>. QED  BY <2>1, <2>2, <2>3, <2>4
  <1>. QED  BY <1>1, <1>2 DEF FramesAccounted

LEMMA CountDown ==
    ASSUME NEW f \in [Queues -> Nat], NEW q \in Queues, f[q] > 0, NEW g, g = [f EXCEPT ![q] = @ - 1]
    PROVE  g \in [Queues -> Nat] /\ g[q] = f[q] - 1 /\ \A k \in Queues \ {q} : g[k] = f[k]
  OBVIOUS

LEMMA ConnectIo ==
    ASSUME PlainHandlers, IoInv, StartRun \/ EnterStrand \/ Connected \/ ConnectFails \/ BackoffEnds
    PROVE  IoInv'
  <1>1. CASE StartRun
    <2>1. IoTypes'
      BY <1>1 DEF IoInv, IoTypes, Running, RunOver, StartRun, ioSession, ioInbound, ioStops,
      IoWorkers
    <2>2. IoSessions'
      BY <1>1 DEF IoInv, IoTypes, IoSessions, Running, Joined, StartRun, ioSession, ioInbound,
                  ioStops
    <2>3. FramesAccounted'
      BY <1>1 DEF IoInv, IoTypes, FramesAccounted, Queues, StartRun, ioSession, ioInbound, ioStops
    <2>4. IoFaults'
      BY <1>1 DEF IoInv, IoTypes, IoSessions, IoFaults, Running, RunOver, StartRun, ioSession,
                  ioInbound, ioStops
    <2>. QED  BY <2>1, <2>2, <2>3, <2>4 DEF IoInv
  <1>2. CASE EnterStrand
    <2>1. IoTypes'
      BY <1>2 DEF IoInv, IoTypes, Running, RunOver, EnterStrand, ioSession, ioInbound, ioStops
    <2>2. IoSessions'
      BY <1>2 DEF IoInv, IoTypes, IoSessions, Running, Joined, EnterStrand, ioSession, ioInbound,
                  ioStops
    <2>3. FramesAccounted'
      BY <1>2 DEF IoInv, IoTypes, FramesAccounted, Queues, EnterStrand, ioSession, ioInbound,
                  ioStops
    <2>4. IoFaults'
      BY <1>2 DEF IoInv, IoTypes, IoSessions, IoFaults, Running, RunOver, EnterStrand, ioSession,
                  ioInbound, ioStops
    <2>. QED  BY <2>1, <2>2, <2>3, <2>4 DEF IoInv
  <1>3. CASE Connected
    <2>1. IoTypes'
      BY <1>3, NoResults DEF IoInv, IoTypes, Running, RunOver, Connected, ioSession, ioInbound,
      ioStops
    <2>2. IoSessions'
      BY <1>3 DEF IoInv, IoTypes, IoSessions, Running, Joined, Connected, ioSession, ioInbound,
                  ioStops
    <2>3. FramesAccounted'
      BY <1>3 DEF IoInv, IoTypes, FramesAccounted, Queues, Connected, ioSession, ioInbound,
      ioStops
    <2>4. IoFaults'
      BY <1>3 DEF IoInv, IoTypes, IoSessions, IoFaults, Running, RunOver, Connected, ioSession,
                  ioInbound, ioStops
    <2>. QED  BY <2>1, <2>2, <2>3, <2>4 DEF IoInv
  <1>4. CASE ConnectFails
    <2>1. IoTypes'
      BY <1>4 DEF IoInv, IoTypes, Running, RunOver, ConnectFails, ioSession, ioInbound, ioStops
    <2>2. IoSessions'
      BY <1>4 DEF IoInv, IoTypes, IoSessions, Running, Joined, ConnectFails, ioSession, ioInbound,
                  ioStops
    <2>3. FramesAccounted'
      BY <1>4 DEF IoInv, IoTypes, FramesAccounted, Queues, ConnectFails, ioSession, ioInbound,
                  ioStops
    <2>4. IoFaults'
      BY <1>4 DEF IoInv, IoTypes, IoSessions, IoFaults, Running, RunOver, ConnectFails, ioSession,
                  ioInbound, ioStops
    <2>. QED  BY <2>1, <2>2, <2>3, <2>4 DEF IoInv
  <1>5. CASE BackoffEnds
    <2>1. IoTypes'
      BY <1>5 DEF IoInv, IoTypes, Running, RunOver, BackoffEnds, ioSession, ioInbound, ioStops
    <2>2. IoSessions'
      BY <1>5 DEF IoInv, IoTypes, IoSessions, Running, Joined, BackoffEnds, ioSession, ioInbound,
                  ioStops
    <2>3. FramesAccounted'
      BY <1>5 DEF IoInv, IoTypes, FramesAccounted, Queues, BackoffEnds, ioSession, ioInbound,
                  ioStops
    <2>4. IoFaults'
      BY <1>5 DEF IoInv, IoTypes, IoSessions, IoFaults, Running, RunOver, BackoffEnds, ioSession,
                  ioInbound, ioStops
    <2>. QED  BY <2>1, <2>2, <2>3, <2>4 DEF IoInv
  <1>. QED  BY <1>1, <1>2, <1>3, <1>4, <1>5

LEMMA JoinIo ==
    ASSUME PlainHandlers, IoInv, FirstResult \/ SecondResult \/ CloseQueues \/ RunReturns
    PROVE  IoInv'
  <1>1. CASE FirstResult
    <2>1. IoTypes'
      BY <1>1 DEF IoInv, IoTypes, Running, RunOver, FirstResult, ioSession, ioInbound, ioStops
    <2>2. IoSessions'
      BY <1>1 DEF IoInv, IoTypes, IoSessions, Running, Joined, FirstResult, ioSession, ioInbound,
                  ioStops, CancelledTasks
    <2>3. FramesAccounted'
      BY <1>1 DEF IoInv, IoTypes, FramesAccounted, Queues, FirstResult, ioSession, ioInbound,
                  ioStops
    <2>4. IoFaults'
      BY <1>1 DEF IoInv, IoTypes, IoSessions, IoFaults, Running, RunOver, FirstResult, ioSession,
                  ioInbound, ioStops
    <2>. QED  BY <2>1, <2>2, <2>3, <2>4 DEF IoInv
  <1>2. CASE SecondResult
    <2>1. IoTypes'
      BY <1>2, NoResults DEF IoInv, IoTypes, Running, RunOver, SecondResult, ioSession, ioInbound,
                             ioStops, RequestStopNow
    <2>2. IoSessions'
      BY <1>2 DEF IoInv, IoTypes, IoSessions, Running, Joined, SecondResult, ioSession, ioInbound,
                  ioStops, RequestStopNow
    <2>3. FramesAccounted'
      BY <1>2 DEF IoInv, IoTypes, FramesAccounted, Queues, SecondResult, ioSession, ioInbound,
                  ioStops, RequestStopNow
    <2>4. IoFaults'
      BY <1>2, FatalEscapes DEF IoInv, IoTypes, IoSessions, IoFaults, Running, RunOver,
      SecondResult,
                                ioSession, ioInbound, ioStops, RequestStopNow
    <2>. QED  BY <2>1, <2>2, <2>3, <2>4 DEF IoInv
  <1>3. CASE CloseQueues
    <2>1. IoTypes'
      BY <1>3 DEF IoInv, IoTypes, Running, RunOver, CloseQueues, ioSession, ioInbound, ioStops
    <2>2. IoSessions'
      BY <1>3 DEF IoInv, IoTypes, IoSessions, Running, Joined, CloseQueues, ioSession, ioInbound,
                  ioStops
    <2>3. FramesAccounted'
      BY <1>3 DEF IoInv, IoTypes, FramesAccounted, Queues, CloseQueues, ioSession, ioInbound,
                  ioStops
    <2>4. IoFaults'
      BY <1>3 DEF IoInv, IoTypes, IoSessions, IoFaults, Running, RunOver, CloseQueues, ioSession,
                  ioInbound, ioStops
    <2>. QED  BY <2>1, <2>2, <2>3, <2>4 DEF IoInv
  <1>4. CASE RunReturns
    <2>1. IoTypes'
      BY <1>4 DEF IoInv, IoTypes, Running, RunOver, RunReturns, ioSession, ioInbound, ioStops
    <2>2. IoSessions'
      BY <1>4 DEF IoInv, IoTypes, IoSessions, Running, Joined, RunReturns, ioSession, ioInbound,
                  ioStops, Joined
    <2>3. FramesAccounted'
      BY <1>4 DEF IoInv, IoTypes, FramesAccounted, Queues, RunReturns, ioSession, ioInbound,
      ioStops
    <2>4. IoFaults'
      BY <1>4 DEF IoInv, IoTypes, IoSessions, IoFaults, Running, RunOver, RunReturns, ioSession,
                  ioInbound, ioStops
    <2>. QED  BY <2>1, <2>2, <2>3, <2>4 DEF IoInv
  <1>. QED  BY <1>1, <1>2, <1>3, <1>4

LEMMA ReadIo ==
    ASSUME PlainHandlers, IoInv, DropFrame \/ RouteSignal \/ ReadFails
                     \/ (\E q \in {"payloads", "queries"}, big \in BOOLEAN : RouteItem(q, big))
                     \/ \E what \in HandlerErrors \cup {"protocol"} : ReaderFaults(what)
    PROVE  IoInv'
  <1>1. CASE DropFrame
    <2>1. IoTypes'
      BY <1>1 DEF IoInv, IoTypes, Running, RunOver, DropFrame, ioSession, ioInbound, ioStops, Saw,
                  Reads, Queues
    <2>2. IoSessions'
      BY <1>1 DEF IoInv, IoTypes, IoSessions, Running, Joined, DropFrame, ioSession, ioInbound,
                  ioStops, Reads
    <2>3. FramesAccounted'
      BY <1>1 DEF IoInv, IoTypes, FramesAccounted, Queues, DropFrame, ioSession, ioInbound,
                  ioStops, Saw, Reads
    <2>4. IoFaults'
      BY <1>1 DEF IoInv, IoTypes, IoSessions, IoFaults, Running, RunOver, DropFrame, ioSession,
                  ioInbound, ioStops, Reads
    <2>. QED  BY <2>1, <2>2, <2>3, <2>4 DEF IoInv
  <1>2. CASE RouteSignal
    <2>1. IoTypes'
      <3>1. /\ ioSeen' \in [Queues -> Nat] /\ ioSeen'["signals"] = ioSeen["signals"] + 1
            /\ \A k \in Queues \ {"signals"} : ioSeen'[k] = ioSeen[k]
        BY <1>2, CountUp DEF IoInv, IoTypes, RouteSignal, Saw, Queues
      <3>2. ioQueue' = ioQueue \/ \E k \in Queues : ioQueue' = [ioQueue EXCEPT ![k] = @ + 1]
        BY <1>2 DEF RouteSignal, PutItem, Queues
      <3>3. ioQueue' \in [Queues -> Nat]
        BY <3>2, CountUp DEF IoInv, IoTypes
      <3>4. ioResults' = ioResults \/ ioResults' = Append(ioResults, "plain")
        BY <1>2 DEF RouteSignal, SignalOverflow, ReportResult
      <3>5. ioResults' \in Seq(IoOutcomes)
        BY <3>4, FatalAppend DEF IoInv, IoTypes, IoOutcomes
      <3>. QED
        BY <1>2, <3>1, <3>3, <3>5 DEF IoInv, IoTypes, RouteSignal, SignalOverflow, ioStops
    <2>2. IoSessions'
      BY <1>2 DEF IoInv, IoTypes, IoSessions, Running, Joined, RouteSignal, ioSession, ioInbound,
                  ioStops, Reads, SignalOverflow, CancelledTasks
    <2>3. FramesAccounted'
      <3>1. /\ ioSeen' \in [Queues -> Nat] /\ ioSeen'["signals"] = ioSeen["signals"] + 1
            /\ \A k \in Queues \ {"signals"} : ioSeen'[k] = ioSeen[k]
        BY <1>2, CountUp DEF IoInv, IoTypes, RouteSignal, Saw, Queues
      <3>2. ioServed' = ioServed /\ ioUnreported' = ioUnreported /\ ioClosed' = ioClosed
        BY <1>2 DEF RouteSignal, ioStops
      <3>0. FramesAccounted /\ Amounts(ioSeen) /\ Amounts(ioQueue) /\ Amounts(ioServed)
            /\ ioUnreported \in Nat
        BY AmountsAre DEF IoInv, IoTypes
      <3>5. ioSeen'.signals = ioSeen.signals + 1 /\ ioSeen'.payloads = ioSeen.payloads
            /\ ioSeen'.queries = ioSeen.queries
        BY <3>1 DEF Queues
      <3>3. CASE Takes("signals")
        <4>1. ioQueue'["signals"] = ioQueue["signals"] + 1 /\ ioFault' = ioFault
              /\ \A k \in Queues \ {"signals"} : ioQueue'[k] = ioQueue[k]
          BY <1>2, <3>3, CountUp DEF IoInv, IoTypes, RouteSignal, PutItem, Queues
        <4>2. ioQueue'.signals = ioQueue.signals + 1 /\ ioQueue'.payloads = ioQueue.payloads
              /\ ioQueue'.queries = ioQueue.queries /\ ioQueue'.feedback = ioQueue.feedback
          BY <4>1 DEF Queues
        <4>. QED  BY <3>0, <3>2, <3>5, <4>1, <4>2 DEF FramesAccounted, Amounts
      <3>4. CASE ~Takes("signals")
        <4>1. ioQueue' = ioQueue /\ ioFault'
          BY <1>2, <3>4 DEF IoInv, IoTypes, IoSessions, RouteSignal, SignalOverflow, Reads
        <4>. QED  BY <3>0, <3>2, <3>5, <4>1 DEF FramesAccounted, Amounts
      <3>. QED  BY <3>3, <3>4
    <2>4. IoFaults'
      BY <1>2, FatalAppend DEF IoInv, IoTypes, IoSessions, IoFaults, Running, RunOver,
      RouteSignal,
                               ioSession, ioInbound, ioStops, Reads, SignalOverflow, ReportResult,
                               IoOutcomes
    <2>. QED  BY <2>1, <2>2, <2>3, <2>4 DEF IoInv
  <1>3. CASE ReadFails
    <2>1. IoTypes'
      BY <1>3, FatalAppend DEF IoInv, IoTypes, Running, RunOver, ReadFails, ioSession, ioInbound,
                               ioStops, ReportResult, IoOutcomes
    <2>2. IoSessions'
      BY <1>3 DEF IoInv, IoTypes, IoSessions, Running, Joined, ReadFails, ioSession, ioInbound,
                  ioStops
    <2>3. FramesAccounted'
      BY <1>3 DEF IoInv, IoTypes, FramesAccounted, Queues, ReadFails, ioSession, ioInbound,
      ioStops
    <2>4. IoFaults'
      BY <1>3, FatalAppend DEF IoInv, IoTypes, IoSessions, IoFaults, Running, RunOver, ReadFails,
                               ioSession, ioInbound, ioStops, ReportResult, IoOutcomes
    <2>. QED  BY <2>1, <2>2, <2>3, <2>4 DEF IoInv
  <1>4. ASSUME NEW q \in {"payloads", "queries"}, NEW big \in BOOLEAN, RouteItem(q,
                                                                                 big) PROVE IoInv'
    <2>1. IoTypes'
      <3>1. /\ ioSeen' \in [Queues -> Nat] /\ ioSeen'[q] = ioSeen[q] + 1
            /\ \A k \in Queues \ {q} : ioSeen'[k] = ioSeen[k]
        BY <1>4, CountUp DEF IoInv, IoTypes, RouteItem, Saw, Queues
      <3>2. ioQueue' = ioQueue \/ \E k \in Queues : ioQueue' = [ioQueue EXCEPT ![k] = @ + 1]
        BY <1>4 DEF RouteItem, PutItem, Queues, QueueFeedback
      <3>3. ioQueue' \in [Queues -> Nat]
        BY <3>2, CountUp DEF IoInv, IoTypes
      <3>4. ioUnreported' \in Nat
        BY <1>4 DEF IoInv, IoTypes, RouteItem, QueueFeedback
      <3>. QED
        BY <1>4, <3>1, <3>3, <3>4 DEF IoInv, IoTypes, RouteItem, ioSession, ioStops
    <2>2. IoSessions'
      BY <1>4 DEF IoInv, IoTypes, IoSessions, Running, Joined, RouteItem, ioSession, ioInbound,
                  ioStops, Reads
    <2>3. FramesAccounted'
      <3>1. /\ ioSeen' \in [Queues -> Nat] /\ ioSeen'[q] = ioSeen[q] + 1
            /\ \A k \in Queues \ {q} : ioSeen'[k] = ioSeen[k]
        BY <1>4, CountUp DEF IoInv, IoTypes, RouteItem, Saw, Queues
      <3>2. ioServed' = ioServed /\ ioClosed' = ioClosed /\ ioFault' = ioFault
        BY <1>4 DEF RouteItem, ioStops
      <3>3. \/ ioQueue' = ioQueue /\ ioUnreported' = ioUnreported + 1
            \/ /\ ioUnreported' = ioUnreported
               /\ \E k \in {q, "feedback"} : ioQueue' = [ioQueue EXCEPT ![k] = @ + 1]
        BY <1>4 DEF RouteItem, PutItem, QueueFeedback
      <3>0. FramesAccounted /\ Amounts(ioSeen) /\ Amounts(ioQueue) /\ Amounts(ioServed)
            /\ ioUnreported \in Nat
        BY AmountsAre DEF IoInv, IoTypes
      <3>6. /\ ioSeen'.signals = ioSeen.signals
            /\ \/ ioSeen'.payloads = ioSeen.payloads + 1 /\ ioSeen'.queries = ioSeen.queries
               \/ ioSeen'.payloads = ioSeen.payloads /\ ioSeen'.queries = ioSeen.queries + 1
        BY <3>1 DEF Queues
      <3>4. CASE ioQueue' = ioQueue /\ ioUnreported' = ioUnreported + 1
        <4>1. /\ Amounts(ioQueue') /\ ioUnreported' \in Nat /\ ioQueue'.signals = ioQueue.signals
              /\ ioQueue'.payloads + ioQueue'.queries + ioQueue'.feedback + ioUnreported'
                   = ioQueue.payloads + ioQueue.queries + ioQueue.feedback + ioUnreported + 1
          BY <3>0, <3>4 DEF Amounts
        <4>. QED  BY <3>0, <3>2, <3>6, <4>1, RoutedFrame
      <3>5. ASSUME NEW k \in {q, "feedback"}, ioQueue' = [ioQueue EXCEPT ![k] = @ + 1],
                   ioUnreported' = ioUnreported
            PROVE  FramesAccounted'
        <4>1. k \in Queues /\ k # "signals" /\ q # "signals"
          BY DEF Queues
        <4>2. ioQueue'[k] = ioQueue[k] + 1 /\ \A l \in Queues \ {k} : ioQueue'[l] = ioQueue[l]
          BY <3>5, <4>1, CountUp DEF IoInv, IoTypes
        <4>3. /\ ioQueue'.signals = ioQueue.signals
              /\ ioQueue'.payloads + ioQueue'.queries + ioQueue'.feedback + ioUnreported'
                   = ioQueue.payloads + ioQueue.queries + ioQueue.feedback + ioUnreported + 1
              /\ Amounts(ioQueue')
          <5>1. CASE k = "payloads"
            BY <3>0, <3>5, <4>2, <5>1 DEF Queues, Amounts
          <5>2. CASE k = "queries"
            BY <3>0, <3>5, <4>2, <5>2 DEF Queues, Amounts
          <5>3. CASE k = "feedback"
            BY <3>0, <3>5, <4>2, <5>3 DEF Queues, Amounts
          <5>. QED  BY <5>1, <5>2, <5>3
        <4>. QED  BY <3>0, <3>2, <3>5, <3>6, <4>3, RoutedFrame
      <3>. QED  BY <3>3, <3>4, <3>5
    <2>4. IoFaults'
      BY <1>4 DEF IoInv, IoTypes, IoSessions, IoFaults, Running, RunOver, RouteItem, ioSession,
                  ioInbound, ioStops, Reads
    <2>. QED  BY <2>1, <2>2, <2>3, <2>4 DEF IoInv
  <1>5. ASSUME NEW what \in HandlerErrors \cup {"protocol"}, ReaderFaults(what) PROVE IoInv'
    <2>1. IoTypes'
      BY <1>5, FatalAppend DEF IoInv, IoTypes, Running, RunOver, ReaderFaults, ioSession,
      ioInbound,
                               ioStops, ReportResult, IoOutcomes, PlainHandlers
    <2>2. IoSessions'
      BY <1>5 DEF IoInv, IoTypes, IoSessions, Running, Joined, ReaderFaults, ioSession, ioInbound,
                  ioStops
    <2>3. FramesAccounted'
      BY <1>5 DEF IoInv, IoTypes, FramesAccounted, Queues, ReaderFaults, ioSession, ioInbound,
                  ioStops
    <2>4. IoFaults'
      BY <1>5, FatalAppend DEF IoInv, IoTypes, IoSessions, IoFaults, Running, RunOver,
      ReaderFaults,
                               ioSession, ioInbound, ioStops, ReportResult, IoOutcomes,
                               PlainHandlers
    <2>. QED  BY <2>1, <2>2, <2>3, <2>4 DEF IoInv
  <1>. QED  BY <1>1, <1>2, <1>3, <1>4, <1>5

LEMMA WriteIo ==
    ASSUME PlainHandlers, IoInv, WriterTakes \/ Writes \/ WriterEnds \/ Send
    PROVE  IoInv'
  <1>1. CASE WriterTakes
    <2>1. IoTypes'
      BY <1>1 DEF IoInv, IoTypes, Running, RunOver, WriterTakes, ioSession, ioInbound, ioStops
    <2>2. IoSessions'
      BY <1>1 DEF IoInv, IoTypes, IoSessions, Running, Joined, WriterTakes, ioSession, ioInbound,
                  ioStops
    <2>3. FramesAccounted'
      BY <1>1 DEF IoInv, IoTypes, FramesAccounted, Queues, WriterTakes, ioSession, ioInbound,
                  ioStops
    <2>4. IoFaults'
      BY <1>1 DEF IoInv, IoTypes, IoSessions, IoFaults, Running, RunOver, WriterTakes, ioSession,
                  ioInbound, ioStops
    <2>. QED  BY <2>1, <2>2, <2>3, <2>4 DEF IoInv
  <1>2. CASE Writes
    <2>1. IoTypes'
      BY <1>2 DEF IoInv, IoTypes, Running, RunOver, Writes, ioSession, ioInbound, ioStops
    <2>2. IoSessions'
      BY <1>2 DEF IoInv, IoTypes, IoSessions, Running, Joined, Writes, ioSession, ioInbound,
      ioStops
    <2>3. FramesAccounted'
      BY <1>2 DEF IoInv, IoTypes, FramesAccounted, Queues, Writes, ioSession, ioInbound, ioStops
    <2>4. IoFaults'
      BY <1>2 DEF IoInv, IoTypes, IoSessions, IoFaults, Running, RunOver, Writes, ioSession,
                  ioInbound, ioStops
    <2>. QED  BY <2>1, <2>2, <2>3, <2>4 DEF IoInv
  <1>3. CASE WriterEnds
    <2>1. IoTypes'
      BY <1>3, FatalAppend DEF IoInv, IoTypes, Running, RunOver, WriterEnds, ioSession, ioInbound,
                               ioStops, ReportResult, IoOutcomes
    <2>2. IoSessions'
      BY <1>3 DEF IoInv, IoTypes, IoSessions, Running, Joined, WriterEnds, ioSession, ioInbound,
                  ioStops
    <2>3. FramesAccounted'
      BY <1>3 DEF IoInv, IoTypes, FramesAccounted, Queues, WriterEnds, ioSession, ioInbound,
      ioStops
    <2>4. IoFaults'
      BY <1>3, FatalAppend DEF IoInv, IoTypes, IoSessions, IoFaults, Running, RunOver, WriterEnds,
                               ioSession, ioInbound, ioStops, ReportResult, IoOutcomes
    <2>. QED  BY <2>1, <2>2, <2>3, <2>4 DEF IoInv
  <1>4. CASE Send
    <2>1. IoTypes'
      BY <1>4 DEF IoInv, IoTypes, Running, RunOver, Send, ioSession, ioInbound, ioStops
    <2>2. IoSessions'
      BY <1>4 DEF IoInv, IoTypes, IoSessions, Running, Joined, Send, ioSession, ioInbound, ioStops
    <2>3. FramesAccounted'
      BY <1>4 DEF IoInv, IoTypes, FramesAccounted, Queues, Send, ioSession, ioInbound, ioStops
    <2>4. IoFaults'
      BY <1>4 DEF IoInv, IoTypes, IoSessions, IoFaults, Running, RunOver, Send, ioSession,
      ioInbound,
                  ioStops
    <2>. QED  BY <2>1, <2>2, <2>3, <2>4 DEF IoInv
  <1>. QED  BY <1>1, <1>2, <1>3, <1>4

LEMMA ServeIo ==
    ASSUME PlainHandlers, IoInv, NextPayload \/ \E w \in IoWorkers :
                     WorkerTakes(w) \/ WorkerEnds(w) \/ HandlerEnds(w) \/ ListenerThrows(w)
    PROVE  IoInv'
  <1>1. CASE NextPayload
    <2>1. IoTypes'
      <3>1. /\ ioQueue' \in [Queues -> Nat] /\ ioQueue'["payloads"] = ioQueue["payloads"] - 1
            /\ \A k \in Queues \ {"payloads"} : ioQueue'[k] = ioQueue[k]
        BY <1>1, CountDown DEF IoInv, IoTypes, NextPayload, Queues
      <3>2. /\ ioServed' \in [Queues -> Nat] /\ ioServed'["payloads"] = ioServed["payloads"] + 1
            /\ \A k \in Queues \ {"payloads"} : ioServed'[k] = ioServed[k]
        BY <1>1, CountUp DEF IoInv, IoTypes, NextPayload, Queues
      <3>. QED  BY <1>1, <3>1, <3>2 DEF IoInv, IoTypes, NextPayload, ioSession, ioStops
    <2>2. IoSessions'
      BY <1>1 DEF IoInv, IoTypes, IoSessions, Running, Joined, NextPayload, ioSession, ioInbound,
                  ioStops
    <2>3. FramesAccounted'
      <3>1. /\ ioQueue' \in [Queues -> Nat] /\ ioQueue'["payloads"] = ioQueue["payloads"] - 1
            /\ \A k \in Queues \ {"payloads"} : ioQueue'[k] = ioQueue[k]
        BY <1>1, CountDown DEF IoInv, IoTypes, NextPayload, Queues
      <3>2. /\ ioServed' \in [Queues -> Nat] /\ ioServed'["payloads"] = ioServed["payloads"] + 1
            /\ \A k \in Queues \ {"payloads"} : ioServed'[k] = ioServed[k]
        BY <1>1, CountUp DEF IoInv, IoTypes, NextPayload, Queues
      <3>3. FramesAccounted /\ Amounts(ioSeen) /\ Amounts(ioQueue) /\ Amounts(ioServed)
            /\ ioUnreported \in Nat
        BY AmountsAre DEF IoInv, IoTypes
      <3>4. /\ ioQueue'.signals = ioQueue.signals /\ ioQueue'.payloads = ioQueue.payloads - 1
            /\ ioQueue'.queries = ioQueue.queries /\ ioQueue'.feedback = ioQueue.feedback
            /\ ioServed'.signals = ioServed.signals /\ ioServed'.payloads = ioServed.payloads + 1
            /\ ioServed'.queries = ioServed.queries /\ ioServed'.feedback = ioServed.feedback
        BY <3>1, <3>2 DEF Queues
      <3>5. ioSeen' = ioSeen /\ ioUnreported' = ioUnreported /\ ioClosed' = ioClosed /\ ioFault' = ioFault
        BY <1>1 DEF NextPayload, ioStops
      <3>. QED
        BY <3>3, <3>4, <3>5 DEF FramesAccounted, Amounts
    <2>4. IoFaults'
      BY <1>1 DEF IoInv, IoTypes, IoSessions, IoFaults, Running, RunOver, NextPayload, ioSession,
                  ioInbound, ioStops
    <2>. QED  BY <2>1, <2>2, <2>3, <2>4 DEF IoInv
  <1>2. ASSUME NEW w \in IoWorkers, WorkerTakes(w) PROVE IoInv'
    <2>1. IoTypes'
      <3>0. Serves[w] \in Queues \ {"payloads"}
        BY <1>2 DEF Serves, IoWorkers, Queues
      <3>1. /\ ioQueue' \in [Queues -> Nat] /\ ioQueue'[Serves[w]] = ioQueue[Serves[w]] - 1
            /\ \A k \in Queues \ {Serves[w]} : ioQueue'[k] = ioQueue[k]
        BY <1>2, <3>0, CountDown DEF IoInv, IoTypes, WorkerTakes
      <3>2. ioServed' \in [Queues -> Nat]
        <4>1. ioServed' = ioServed \/ ioServed' = [ioServed EXCEPT ![Serves[w]] = @ + 1]
          BY <1>2 DEF WorkerTakes
        <4>. QED  BY <3>0, <4>1, CountUp DEF IoInv, IoTypes
      <3>3. ioWorker' \in [IoWorkers -> {"off", "wait", "busy", "done"}]
        BY <1>2 DEF IoInv, IoTypes, WorkerTakes
      <3>4. UNCHANGED <<ioRun, ioReader, ioWriter, ioResults, ioStopping, ioStopPosted, ioClosed,
                        ioFailure, ioFault, ioSeen, ioUnreported>>
        BY <1>2 DEF WorkerTakes, ioSession, ioStops
      <3>. QED  BY <3>1, <3>2, <3>3, <3>4 DEF IoInv, IoTypes
    <2>2. IoSessions'
      BY <1>2 DEF IoInv, IoTypes, IoSessions, Running, Joined, WorkerTakes, ioSession, ioInbound,
                  ioStops
    <2>3. FramesAccounted'
      <3>0. Serves[w] \in Queues \ {"payloads"}
        BY <1>2 DEF Serves, IoWorkers, Queues
      <3>1. /\ ioQueue' \in [Queues -> Nat] /\ ioQueue'[Serves[w]] = ioQueue[Serves[w]] - 1
            /\ \A k \in Queues \ {Serves[w]} : ioQueue'[k] = ioQueue[k]
        BY <1>2, <3>0, CountDown DEF IoInv, IoTypes, WorkerTakes
      <3>2. CASE ioClosed
        BY <1>2, <3>2 DEF FramesAccounted, WorkerTakes, ioStops
      <3>3. CASE ~ioClosed
        <4>1. /\ ioServed'[Serves[w]] = ioServed[Serves[w]] + 1
              /\ \A k \in Queues \ {Serves[w]} : ioServed'[k] = ioServed[k]
          BY <1>2, <3>0, <3>3, CountUp DEF IoInv, IoTypes, WorkerTakes
        <4>2. FramesAccounted /\ Amounts(ioSeen) /\ Amounts(ioQueue) /\ Amounts(ioServed)
              /\ ioUnreported \in Nat
          BY AmountsAre DEF IoInv, IoTypes
        <4>3. /\ ioSeen' = ioSeen /\ ioUnreported' = ioUnreported
              /\ ioClosed' = ioClosed /\ ioFault' = ioFault
          BY <1>2 DEF WorkerTakes, ioStops
        <4>4. ASSUME NEW k \in Queues, ioServed[k] \in Nat, ioQueue[k] \in Nat
              PROVE  \/ ioServed'[k] = ioServed[k] /\ ioQueue'[k] = ioQueue[k]
                     \/ ioServed'[k] = ioServed[k] + 1 /\ ioQueue'[k] = ioQueue[k] - 1
          BY <3>1, <4>1
        <4>5. \A k \in {"signals", "payloads", "queries", "feedback"} :
                 \/ ioServed'[k] = ioServed[k] /\ ioQueue'[k] = ioQueue[k]
                 \/ ioServed'[k] = ioServed[k] + 1 /\ ioQueue'[k] = ioQueue[k] - 1
          BY <4>2, <4>4 DEF Queues, Amounts
        <4>. QED  BY <4>2, <4>3, <4>5 DEF FramesAccounted, Amounts
      <3>. QED  BY <3>2, <3>3
    <2>4. IoFaults'
      BY <1>2 DEF IoInv, IoTypes, IoSessions, IoFaults, Running, RunOver, WorkerTakes, ioSession,
                  ioInbound, ioStops
    <2>. QED  BY <2>1, <2>2, <2>3, <2>4 DEF IoInv
  <1>3. ASSUME NEW w \in IoWorkers, WorkerEnds(w) PROVE IoInv'
    <2>1. IoTypes'
      BY <1>3 DEF IoInv, IoTypes, Running, RunOver, WorkerEnds, ioSession, ioInbound, ioStops
    <2>2. IoSessions'
      BY <1>3 DEF IoInv, IoTypes, IoSessions, Running, Joined, WorkerEnds, ioSession, ioInbound,
                  ioStops
    <2>3. FramesAccounted'
      BY <1>3 DEF IoInv, IoTypes, FramesAccounted, Queues, WorkerEnds, ioSession, ioInbound,
      ioStops
    <2>4. IoFaults'
      BY <1>3 DEF IoInv, IoTypes, IoSessions, IoFaults, Running, RunOver, WorkerEnds, ioSession,
                  ioInbound, ioStops
    <2>. QED  BY <2>1, <2>2, <2>3, <2>4 DEF IoInv
  <1>4. ASSUME NEW w \in IoWorkers, HandlerEnds(w) PROVE IoInv'
    <2>1. IoTypes'
      BY <1>4 DEF IoInv, IoTypes, Running, RunOver, HandlerEnds, ioSession, ioInbound, ioStops
    <2>2. IoSessions'
      BY <1>4 DEF IoInv, IoTypes, IoSessions, Running, Joined, HandlerEnds, ioSession, ioInbound,
                  ioStops
    <2>3. FramesAccounted'
      BY <1>4 DEF IoInv, IoTypes, FramesAccounted, Queues, HandlerEnds, ioSession, ioInbound,
                  ioStops
    <2>4. IoFaults'
      BY <1>4 DEF IoInv, IoTypes, IoSessions, IoFaults, Running, RunOver, HandlerEnds, ioSession,
                  ioInbound, ioStops
    <2>. QED  BY <2>1, <2>2, <2>3, <2>4 DEF IoInv
  <1>5. ASSUME NEW w \in IoWorkers, ListenerThrows(w) PROVE IoInv'
    <2>1. IoTypes'
      BY <1>5 DEF IoInv, IoTypes, Running, RunOver, ListenerThrows, ioSession, ioInbound, ioStops
    <2>2. IoSessions'
      BY <1>5 DEF IoInv, IoTypes, IoSessions, Running, Joined, ListenerThrows, ioSession,
                  ioInbound, ioStops
    <2>3. FramesAccounted'
      BY <1>5 DEF IoInv, IoTypes, FramesAccounted, Queues, ListenerThrows, ioSession, ioInbound,
                  ioStops
    <2>4. IoFaults'
      BY <1>5 DEF IoInv, IoTypes, IoSessions, IoFaults, Running, RunOver, ListenerThrows,
      ioSession,
                  ioInbound, ioStops
    <2>. QED  BY <2>1, <2>2, <2>3, <2>4 DEF IoInv
  <1>. QED  BY <1>1, <1>2, <1>3, <1>4, <1>5

LEMMA StopsIo ==
    ASSUME PlainHandlers, IoInv, RequestStop \/ \E queues \in BOOLEAN : StopIo(queues)
    PROVE  IoInv'
  <1>1. CASE RequestStop
    <2>1. IoTypes'
      BY <1>1 DEF IoInv, IoTypes, Running, RunOver, RequestStop, ioSession, ioInbound, ioStops,
                  RequestStopNow
    <2>2. IoSessions'
      BY <1>1 DEF IoInv, IoTypes, IoSessions, Running, Joined, RequestStop, ioSession, ioInbound,
                  ioStops, RequestStopNow, CancelledTasks
    <2>3. FramesAccounted'
      BY <1>1 DEF IoInv, IoTypes, FramesAccounted, Queues, RequestStop, ioSession, ioInbound,
                  ioStops, RequestStopNow
    <2>4. IoFaults'
      BY <1>1 DEF IoInv, IoTypes, IoSessions, IoFaults, Running, RunOver, RequestStop, ioSession,
                  ioInbound, ioStops, RequestStopNow
    <2>. QED  BY <2>1, <2>2, <2>3, <2>4 DEF IoInv
  <1>2. ASSUME NEW queues \in BOOLEAN, StopIo(queues) PROVE IoInv'
    <2>1. IoTypes'
      BY <1>2 DEF IoInv, IoTypes, Running, RunOver, StopIo, ioSession, ioInbound, ioStops
    <2>2. IoSessions'
      BY <1>2 DEF IoInv, IoTypes, IoSessions, Running, Joined, StopIo, ioSession, ioInbound,
      ioStops
    <2>3. FramesAccounted'
      BY <1>2 DEF IoInv, IoTypes, FramesAccounted, Queues, StopIo, ioSession, ioInbound, ioStops
    <2>4. IoFaults'
      BY <1>2 DEF IoInv, IoTypes, IoSessions, IoFaults, Running, RunOver, StopIo, ioSession,
                  ioInbound, ioStops
    <2>. QED  BY <2>1, <2>2, <2>3, <2>4 DEF IoInv
  <1>. QED  BY <1>1, <1>2

LEMMA NextIo ==
    ASSUME PlainHandlers, IoInv, [IoNext]_ioVars
    PROVE  IoInv'
  <1>1. CASE UNCHANGED ioVars
    BY <1>1 DEF IoInv, IoTypes, IoSessions, FramesAccounted, IoFaults, Joined, ioVars
  <1>. QED
    BY <1>1, ConnectIo, JoinIo, ReadIo, WriteIo, ServeIo, StopsIo DEF IoNext, Transport, IoDone

LEMMA IoInvFence == IoInv => RunIsFence /\ FramesAccounted /\ HandlerFaultEndsRun
  BY DEF IoInv, IoTypes, IoSessions, IoFaults, RunIsFence, HandlerFaultEndsRun, Joined, Running,
         RunOver

\* The traffic with the Hub is accounted for, whatever the order of frames, faults,
\* deadlines and stops (client.cpp, stable_websocket_client.hpp, cancellable_exchange.cpp,
\* fetch.hpp), provided that no message handler throws an exception of the transport's
\* own type.
THEOREM HubTrafficAlwaysAccounted ==
    ASSUME PlainHandlers
    PROVE  ModelSpec => []HubTrafficAccounted
  <1>. DEFINE Inv == (part = "connection" => IoInv) /\ (part = "remote" => RcInv)
  <1>1. ModelInit => Inv
    BY InitIo, InitRc DEF ModelInit
  <1>2. Inv /\ [ModelNext]_ModelVars => Inv'
    <2>. SUFFICES ASSUME Inv, [ModelNext]_ModelVars PROVE Inv'
      OBVIOUS
    <2>1. part' = part
      BY DEF ModelNext, ModelVars, Others
    <2>2. CASE part = "connection"
      <3>1. [IoNext]_ioVars
        BY <2>2 DEF ModelNext, ModelVars, Others
      <3>. QED  BY <2>1, <2>2, <3>1, NextIo
    <2>3. CASE part = "remote"
      <3>1. [RcNext]_rcVars
        BY <2>3 DEF ModelNext, ModelVars, Others
      <3>. QED  BY <2>1, <2>3, <3>1, NextRc
    <2>4. CASE part \notin {"connection", "remote"}
      BY <2>1, <2>4
    <2>. QED  BY <2>2, <2>3, <2>4
  <1>3. Inv => HubTrafficAccounted
    BY IoInvFence, RcInvHonest DEF HubTrafficAccounted
  <1>. QED  BY <1>1, <1>2, <1>3, PTL DEF ModelSpec

(***************************************************************************)
(* Supervision of a session's worker.  That a session never has two        *)
(* workers rests on a chain: a worker that is alive is the one the journal *)
(* has an open dispatch for (managed launches), or the one the session's   *)
(* record says is running (plain ones); a start is refused while there is  *)
(* such a dispatch or record; and whatever closes it (an exit event, the   *)
(* poll, a stop, the restore) has seen the end of that very worker.  A     *)
(* start holds the reservation until it has spawned, so no stop runs beside*)
(* it, and its number is new to everyone who remembers numbers.            *)
(***************************************************************************)
Starting == {"prepare", "capture", "ready", "marked"}
Dispatching == {"ready", "marked", "spawned"}

SpPlaces == Starting \cup {"none", "spawned", "remove"}
SpStates == {"none", "starting", "running", "stopping", "ended"}
Dispatches == {"none", "prepared", "pending", "completed"}
Tasks == [at : SpPlaces, was : BOOLEAN]
Stops == [at : {"none", "probe", "grace", "term", "kill"}, life : 0..MaxStarts, sure : BOOLEAN]
Records == [state : SpStates, adopted : BOOLEAN, child : BOOLEAN, done : BOOLEAN]
Journals == [life : 0..MaxStarts, dispatch : Dispatches, removing : BOOLEAN]
Documents == [life : 0..MaxStarts, process : 0..MaxStarts]

SpTypes ==
    /\ spProcess \in 0..MaxStarts /\ spLife \in 0..MaxStarts
    /\ spRecord \in [StartIds -> Records]
    /\ spAlloc \in Journals
    /\ spLaunch \in {"plain", "local", "remote"}
    /\ spHub \in {"up", "stopping", "down", "deleted"}
    /\ spTask \in Tasks
    /\ spStarts \in 0..MaxStarts
    /\ spClosing \in BOOLEAN
    /\ spStop \in Stops
    /\ spSaved \in Documents
    /\ spCommand \in [StartIds -> {"none", "up", "dead"}]
    /\ spExit \in [StartIds -> {"none", "ok", "bad"}]
    /\ spWorker \in [StartIds -> {"none", "coming", "up", "dead"}]
    /\ spReused \subseteq StartIds
    /\ spTold \subseteq StartIds
    /\ spHit \in BOOLEAN /\ spBlind \in BOOLEAN

\* Who holds the reservation, and the numbers in use.
SpHeld ==
    /\ spHub \in {"down", "deleted"} => spTask = NoTask /\ spStop = NoStop
    /\ spTask.at = "none" => spTask = NoTask
    /\ spTask # NoTask => spStop = NoStop
    /\ spTask.at \in Starting \cup {"spawned"} => spLife = spStarts /\ spStarts > 0
    /\ spTask.at \in {"marked", "spawned"} => spProcess = spLife
    /\ spTask.at = "marked" => spRecord[spLife].state = "starting" /\ ~spRecord[spLife].done
    /\ spStop.at # "none" => spStop.life > 0
    /\ spAlloc.life <= spStarts /\ spProcess <= spStarts /\ spSaved.process <= spStarts
    /\ spSaved.life <= spStarts /\ spLife <= spStarts /\ spStop.life <= spStarts

\* A start that has spawned nothing yet.
Fresh(i) == spCommand[i] = "none" /\ spExit[i] = "none" /\ spWorker[i] = "none" /\ i \notin spTold
Unspawned(i) == i > spStarts \/ (i = spStarts /\ spTask.at \in Starting)

\* What was spawned, and what an exit says about it.
SpTargets ==
    /\ \A i \in StartIds :
          /\ Unspawned(i) => Fresh(i)
          /\ spCommand[i] = "none" <=> spWorker[i] = "none"
          /\ spLaunch # "remote" => (Live(i) <=> spCommand[i] = "up")
          /\ spRecord[i].child => spCommand[i] # "none"
          /\ spExit[i] # "none" => spCommand[i] = "dead"
          /\ spExit[i] = "ok" => ~Live(i)
          /\ i \in spReused => spCommand[i] = "dead"
          /\ spLaunch # "remote" /\ Ended(i) => spCommand[i] # "up"
    /\ spSaved.process # 0 => spCommand[spSaved.process] # "none"
    /\ ~spHit

\* The journal of a start under way.
SpJournal ==
    /\ ~Managed => spAlloc.life = 0 /\ ~spAlloc.removing
    /\ spAlloc.life = 0 => spAlloc.dispatch = "none"
    /\ spTask.at \in {"prepare", "capture"} => Managed
    /\ spTask.at \in Dispatching \cup {"capture"} =>
          ~spAlloc.removing /\ (Managed => spAlloc.life = spLife)
    /\ spTask.at \in {"marked", "spawned"} /\ Managed => Unconfirmed(spAlloc)

\* Whose the worker is.
Nobody == \A i \in StartIds : ~Live(i)
SpOwned ==
    /\ \A i \in StartIds : Managed /\ Live(i) => spAlloc.life = i /\ Unconfirmed(spAlloc)
    /\ \A i \in StartIds : ~Managed /\ Live(i) /\ spHub # "down" =>
          spHub # "deleted" /\ spProcess = i /\ spRecord[i].state \in {"running", "stopping"}
    /\ \A i, j \in StartIds : Live(i) /\ Live(j) => i = j
    /\ spTask.at \in Starting => Nobody
    /\ spTask.at = "remove" /\ ~Managed => Nobody
    /\ \A i \in spTold : ~Live(i)
    /\ \A i \in StartIds : spLaunch = "remote" /\ spRecord[i].done => ~Live(i)
    /\ spStop.at = "probe" /\ spStop.sure => ~Live(spStop.life)

SpInv == SpTypes /\ SpHeld /\ SpTargets /\ SpJournal /\ (~spBlind => SpOwned)

LEMMA Nothing ==
    NoTask \in Tasks /\ NoStop \in Stops /\ NoProcessRecord \in Records /\ NoAllocation \in Journals
  BY SupervisorAssumption
  DEF NoTask, NoStop, NoProcessRecord, NoAllocation, Tasks, Stops, Records, Journals, SpPlaces,
      SpStates, Dispatches

\* Fields of a record, replaced one at a time.
LEMMA RecordFields ==
    ASSUME NEW r \in Records, NEW s \in SpStates, NEW q, q = [r EXCEPT !.state = s]
    PROVE  /\ q \in Records /\ q.state = s /\ q.child = r.child /\ q.adopted = r.adopted
           /\ q.done = r.done
  BY DEF Records

\* What the end of a record's process changes in the record and in the journal.
EndRecorded(i, when) ==
    /\ spRecord' \in [StartIds -> Records] /\ spAlloc' \in Journals
    /\ \A j \in StartIds \ {i} : spRecord'[j] = spRecord[j]
    /\ spRecord'[i].state = "ended" /\ spRecord'[i].child = spRecord[i].child
    /\ spRecord'[i].adopted = spRecord[i].adopted
    /\ spAlloc'.life = spAlloc.life /\ spAlloc'.removing = spAlloc.removing
    /\ \/ spAlloc' = spAlloc /\ spRecord'[i].done = spRecord[i].done
       \/ when /\ Managed /\ spAlloc.life = i /\ ~spAlloc.removing
          /\ spAlloc'.dispatch = "completed" /\ spRecord'[i].done

LEMMA CompletesFacts ==
    ASSUME SpTypes, NEW i \in StartIds, NEW when, Completes(i, when)
    PROVE  EndRecorded(i, when)
  <1>. DEFINE r == spRecord[i]
              done == spAlloc.life = i /\ ~spAlloc.removing
              r1 == [r EXCEPT !.state = "ended", !.done = @ \/ done]
              r2 == [r EXCEPT !.state = "ended"]
  <1>1. r \in Records /\ spAlloc \in Journals /\ spRecord \in [StartIds -> Records]
    BY DEF SpTypes
  <1>2. /\ r1 \in Records /\ r1.state = "ended" /\ r1.child = r.child /\ r1.adopted = r.adopted
        /\ r1.done = (r.done \/ done)
        /\ r2 \in Records /\ r2.state = "ended" /\ r2.child = r.child /\ r2.adopted = r.adopted
        /\ r2.done = r.done
    BY <1>1 DEF Records, SpStates
  <1>3. \/ when /\ Managed /\ spAlloc' = Completed(spAlloc, i) /\ spRecord' = [spRecord EXCEPT ![i] = r1]
        \/ spAlloc' = spAlloc /\ spRecord' = [spRecord EXCEPT ![i] = r2]
    BY DEF Completes
  <1>4. /\ Completed(spAlloc, i) \in Journals
        /\ Completed(spAlloc, i).life = spAlloc.life /\ Completed(spAlloc, i).removing = spAlloc.removing
        /\ IF done THEN Completed(spAlloc, i).dispatch = "completed" ELSE Completed(spAlloc, i) = spAlloc
    BY <1>1 DEF Completed, Journals, Dispatches
  <1>5. done \in BOOLEAN /\ r.done \in BOOLEAN
    BY <1>1 DEF Records
  <1>. HIDE DEF r1, r2
  <1>6. CASE spAlloc' = spAlloc /\ spRecord' = [spRecord EXCEPT ![i] = r2]
    BY <1>1, <1>2, <1>6 DEF EndRecorded
  <1>7. CASE when /\ Managed /\ spAlloc' = Completed(spAlloc, i) /\ spRecord' = [spRecord EXCEPT ![i] = r1]
    BY <1>1, <1>2, <1>4, <1>5, <1>7 DEF EndRecorded
  <1>. QED  BY <1>3, <1>6, <1>7

\* What hub.json can say after a step.
LEMMA DocumentFacts ==
    ASSUME SpTypes
    PROVE  /\ SessionDocument \in Documents /\ SessionDocument.life = spLife
           /\ \/ SessionDocument.process = 0
              \/ /\ SessionDocument.process = spProcess /\ spProcess # 0
                 /\ spCommand[spProcess] # "none"
  BY SupervisorAssumption DEF SpTypes, SessionDocument, Documents

Noted ==
    /\ spSaved' \in Documents
    /\ \/ spSaved' = spSaved
       \/ /\ spSaved'.life = spLife'
          /\ \/ spSaved'.process = 0
             \/ /\ spSaved'.process = spProcess' /\ spProcess' # 0
                /\ spCommand'[spProcess'] # "none"

LEMMA NotifyFacts ==
    ASSUME spLife' \in 0..MaxStarts, spProcess' \in 0..MaxStarts, spSaved \in Documents, Notify
    PROVE  Noted
  BY SupervisorAssumption DEF Noted, Notify, SessionDocument, Documents

\* What a signal does to start i.
Signalled(i) ==
    /\ spCommand' \in [StartIds -> {"none", "up", "dead"}]
    /\ spExit' \in [StartIds -> {"none", "ok", "bad"}]
    /\ spWorker' \in [StartIds -> {"none", "coming", "up", "dead"}]
    /\ spReused' = spReused
    /\ spHit' = (spHit \/ (spCommand[i] = "up" /\ i \in spReused))
    /\ \A j \in StartIds \ {i} : /\ spCommand'[j] = spCommand[j] /\ spExit'[j] = spExit[j]
                                 /\ spWorker'[j] = spWorker[j]
    /\ \/ spCommand'[i] = spCommand[i] /\ spExit'[i] = spExit[i] /\ spWorker'[i] = spWorker[i]
       \/ /\ spCommand[i] = "up" /\ spCommand'[i] = "dead" /\ spWorker'[i] = "dead"
          /\ spExit'[i] \in {"bad", spExit[i]}

LEMMA SignalFacts ==
    ASSUME SpTypes, NEW i \in StartIds, NEW kills \in BOOLEAN, Signal(i, kills)
    PROVE  Signalled(i)
  BY DEF SpTypes, Signal, Target, Signalled


LEMMA InitSp == SpInit => SpInv
  <1>. SUFFICES ASSUME SpInit PROVE SpInv
    OBVIOUS
  <1>. USE SupervisorAssumption
  <1>1. spSaved \in Documents
    BY DEF SpInit, Documents
  <1>2. SpTypes
    <2>1. /\ spProcess \in 0..MaxStarts /\ spLife \in 0..MaxStarts /\ spStarts \in 0..MaxStarts
          /\ spLaunch \in {"plain", "local", "remote"}
      BY DEF SpInit
    <2>2. /\ spRecord \in [StartIds -> Records] /\ spAlloc \in Journals /\ spTask \in Tasks
          /\ spStop \in Stops
      BY Nothing DEF SpInit
    <2>. QED  BY <1>1, <2>1, <2>2 DEF SpInit, SpTypes
  <1>3. SpHeld /\ SpTargets /\ SpJournal
    BY DEF SpInit, SpHeld, SpTargets, SpJournal, Starting, Fresh, Live, Ended,
           Managed, Unconfirmed, NoTask, NoStop, NoProcessRecord, NoAllocation
  <1>4. SpOwned
    BY DEF SpInit, SpOwned, Live, Nobody, NoStop
  <1>. QED  BY <1>2, <1>3, <1>4 DEF SpInv

LEMMA StartWorkerSp ==
    ASSUME SpInv, StartWorker
    PROVE  SpInv'
  <1>. USE SupervisorAssumption
  <1>1. SpTypes'
    <2>1. spTask' \in Tasks
      BY DEF StartWorker, Tasks, SpPlaces, Starting, NoTask
    <2>2. spStarts' \in 0..MaxStarts /\ spLife' \in 0..MaxStarts
      BY DEF SpInv, SpTypes, StartWorker
    <2>. QED  BY Nothing, <2>1, <2>2 DEF SpInv, SpTypes, StartWorker, spDisk, spTarget, spHistory
  <1>2. SpHeld'
    BY DEF SpInv, SpTypes, SpHeld, Journals, Documents, StartWorker, spDisk, NoStop
  <1>3. SpTargets'
    BY DEF SpInv, SpTypes, SpTargets, StartIds, Fresh, Unspawned, Live, Ended, StartWorker,
       spDisk, spTarget, spHistory
  <1>4. SpJournal'
    BY DEF SpInv, SpTypes, SpJournal, Dispatching, Managed, StartWorker, spDisk
  <1>5. ~spBlind' => SpOwned'
    BY DEF SpInv, SpTypes, SpOwned, StartIds, Live, Nobody, StartWorker, IsRunning, spTarget,
       spHistory
  <1>. QED  BY <1>1, <1>2, <1>3, <1>4, <1>5 DEF SpInv

LEMMA PrepareManagedSp ==
    ASSUME SpInv, PrepareManaged
    PROVE  SpInv'
  <1>. USE SupervisorAssumption
  <1>1. SpTypes'
    <2>1. spTask' \in Tasks
      BY DEF SpInv, SpTypes, PrepareManaged, Tasks, SpPlaces, Starting
    <2>2. spAlloc' \in Journals
      BY DEF SpInv, SpTypes, PrepareManaged, Journals, Dispatches
    <2>. QED  BY Nothing, <2>1, <2>2 DEF SpInv, SpTypes, PrepareManaged, spTarget, spHistory
  <1>2. SpHeld'
    BY DEF SpInv, SpTypes, SpHeld, Starting, PrepareManaged, NoTask
  <1>3. SpTargets'
    BY DEF SpInv, SpTypes, SpTargets, Starting, Fresh, Unspawned, Live, Ended, PrepareManaged,
       spTarget, spHistory
  <1>4. SpJournal'
    BY DEF SpInv, SpTypes, SpHeld, SpJournal, Starting, Managed, PrepareManaged
  <1>5. ~spBlind' => SpOwned'
    BY DEF SpInv, SpTypes, SpOwned, Starting, Live, Nobody, PrepareManaged, spTarget, spHistory
  <1>. QED  BY <1>1, <1>2, <1>3, <1>4, <1>5 DEF SpInv

LEMMA CaptureSp ==
    ASSUME SpInv, Capture
    PROVE  SpInv'
  <1>. USE SupervisorAssumption
  <1>1. SpTypes'
    <2>1. spTask' \in Tasks
      BY DEF SpInv, SpTypes, Capture, Tasks, SpPlaces, Starting
    <2>. QED  BY Nothing, <2>1 DEF SpInv, SpTypes, Capture, spDisk, spTarget, spHistory
  <1>2. SpHeld'
    BY DEF SpInv, SpTypes, SpHeld, Starting, Capture, spDisk, NoTask
  <1>3. SpTargets'
    BY DEF SpInv, SpTypes, SpTargets, Starting, Fresh, Unspawned, Live, Ended, Capture, spDisk,
       spTarget, spHistory
  <1>4. SpJournal'
    BY DEF SpInv, SpTypes, SpJournal, Managed, Capture, spDisk
  <1>5. ~spBlind' => SpOwned'
    BY DEF SpInv, SpTypes, SpOwned, Starting, Live, Nobody, Capture, spTarget, spHistory
  <1>. QED  BY <1>1, <1>2, <1>3, <1>4, <1>5 DEF SpInv

LEMMA PreparationFailsSp ==
    ASSUME SpInv, PreparationFails
    PROVE  SpInv'
  <1>. USE SupervisorAssumption
  <1>1. SpTypes'
    <2>. QED  BY Nothing DEF SpInv, SpTypes, PreparationFails, spDisk, spTarget, spHistory
  <1>2. SpHeld'
    BY DEF SpInv, SpTypes, SpHeld, Starting, PreparationFails, spDisk, NoTask
  <1>3. SpTargets'
    BY DEF SpInv, SpTypes, SpTargets, Starting, Fresh, Unspawned, Live, Ended, PreparationFails,
       spDisk, spTarget, spHistory
  <1>4. SpJournal'
    BY DEF SpInv, SpTypes, SpJournal, Dispatching, Managed, PreparationFails, spDisk, NoTask
  <1>5. ~spBlind' => SpOwned'
    BY DEF SpInv, SpTypes, SpOwned, Starting, Live, Nobody, PreparationFails, spTarget, spHistory
  <1>. QED  BY <1>1, <1>2, <1>3, <1>4, <1>5 DEF SpInv

LEMMA MarkDispatchSp ==
    ASSUME SpInv, MarkDispatch
    PROVE  SpInv'
  <1>. USE SupervisorAssumption
  <1>1. SpTypes'
    <2>1. spTask' \in Tasks
      BY DEF SpInv, SpTypes, MarkDispatch, Tasks, SpPlaces, Starting
    <2>2. spAlloc' \in Journals
      BY DEF SpInv, SpTypes, MarkDispatch, Journals, Dispatches
    <2>3. [NoProcessRecord EXCEPT !.state = "starting"] \in Records
      BY DEF NoProcessRecord, Records, SpStates
    <2>4. spRecord' \in [StartIds -> Records]
      BY <2>3 DEF SpInv, SpTypes, MarkDispatch
    <2>. QED
      BY Nothing, <2>1, <2>2, <2>3, <2>4 DEF SpInv, SpTypes, MarkDispatch, spTarget, spHistory
  <1>2. SpHeld'
    BY DEF SpInv, SpTypes, SpHeld, StartIds, Starting, MarkDispatch, NoProcessRecord, NoTask
  <1>3. SpTargets'
    BY DEF SpInv, SpTypes, SpTargets, Starting, Fresh, Unspawned, Live, Ended, MarkDispatch,
       NoProcessRecord, spTarget, spHistory
  <1>4. SpJournal'
    BY DEF SpInv, SpTypes, SpHeld, SpJournal, Starting, Dispatching, Managed, Unconfirmed,
       MarkDispatch
  <1>5. ~spBlind' => SpOwned'
    BY DEF SpInv, SpTypes, SpOwned, Starting, Live, Nobody, MarkDispatch, spTarget, spHistory
  <1>. QED  BY <1>1, <1>2, <1>3, <1>4, <1>5 DEF SpInv

LEMMA DispatchFailsSp ==
    ASSUME SpInv, DispatchFails
    PROVE  SpInv'
  <1>. USE SupervisorAssumption
  <1>a. spLife \in StartIds
    BY DEF SpInv, SpTypes, SpHeld, DispatchFails, StartIds, Starting
  <1>b. EndRecorded(spLife, TRUE)
    BY <1>a, CompletesFacts DEF SpInv, DispatchFails
  <1>d. /\ spTask.at \in {"ready", "marked"} /\ spHub # "down" /\ spProcess' = spLife /\ spTask' = NoTask
        /\ UNCHANGED <<spLaunch, spHub, spStarts, spLife, spClosing, spStop, spCommand, spExit,
                       spWorker, spReused, spDeaths, spTold, spHit, spBlind>>
    BY DEF DispatchFails, spTarget, spHistory
  <1>e. spProcess' \in 0..MaxStarts /\ spLife' \in 0..MaxStarts /\ spSaved \in Documents
    BY <1>d DEF SpInv, SpTypes
  <1>c. Noted
    BY <1>e, NotifyFacts DEF DispatchFails
  <1>1. SpTypes'
    BY <1>a, <1>b, <1>d, <1>e, <1>c, Nothing DEF SpInv, SpTypes, EndRecorded, Noted
  <1>2. SpHeld'
    BY <1>a, <1>b, <1>d, <1>e, <1>c DEF SpInv, SpTypes, SpHeld, Starting, EndRecorded, Noted,
       NoTask
  <1>3. SpTargets'
    BY <1>a, <1>b, <1>d, <1>e, <1>c DEF SpInv, SpTypes, SpHeld, SpTargets, Starting, Fresh,
       Unspawned, Live, Ended, EndRecorded, Noted
  <1>4. SpJournal'
    BY <1>a, <1>b, <1>d, <1>e, <1>c DEF SpInv, SpTypes, SpJournal, StartIds, Dispatching,
       Managed, EndRecorded, NoTask
  <1>5. ~spBlind' => SpOwned'
    BY <1>a, <1>b, <1>d, <1>e, <1>c DEF SpInv, SpTypes, SpOwned, Starting, Live, Nobody
  <1>. QED  BY <1>1, <1>2, <1>3, <1>4, <1>5 DEF SpInv

LEMMA SpawnSp ==
    ASSUME SpInv, Spawn
    PROVE  SpInv'
  <1>. USE SupervisorAssumption
  <1>a. spLife \in StartIds
    BY DEF SpInv, SpTypes, SpHeld, Spawn, StartIds, Starting
  <1>d. /\ spTask.at = "marked" /\ spHub # "down" /\ spTask' \in Tasks /\ spTask'.at = "spawned"
        /\ UNCHANGED <<spLaunch, spHub, spStarts, spLife, spClosing, spProcess, spStop, spAlloc,
                       spSaved, spExit, spReused, spDeaths, spTold, spHit, spBlind>>
        /\ spCommand' = [spCommand EXCEPT ![spLife] = "up"]
        /\ spWorker' = [spWorker EXCEPT ![spLife] = "coming"]
    BY DEF SpInv, SpTypes, Tasks, SpPlaces, Spawn, spDisk, spHistory
  <1>b. /\ spRecord' \in [StartIds -> Records]
        /\ \A j \in StartIds \ {spLife} : spRecord'[j] = spRecord[j]
        /\ spRecord'[spLife].state = "running" /\ spRecord'[spLife].done = spRecord[spLife].done
    <2>. DEFINE r == spRecord[spLife]
                q == [r EXCEPT !.state = "running", !.child = TRUE]
    <2>1. r \in Records /\ spRecord \in [StartIds -> Records]
      BY <1>a DEF SpInv, SpTypes
    <2>2. q \in Records /\ q.state = "running" /\ q.done = r.done
      BY <2>1 DEF Records, SpStates
    <2>3. spRecord' = [spRecord EXCEPT ![spLife] = q]
      BY DEF Spawn
    <2>. HIDE DEF q
    <2>. QED  BY <1>a, <2>1, <2>2, <2>3
  <1>1. SpTypes'
    BY <1>a, <1>d, <1>b, Nothing DEF SpInv, SpTypes
  <1>2. SpHeld'
    BY <1>a, <1>d, <1>b DEF SpInv, SpTypes, SpHeld, Starting, NoTask
  <1>3. SpTargets'
    BY <1>a, <1>d, <1>b DEF SpInv, SpTypes, SpHeld, SpTargets, Starting, Fresh, Unspawned, Live,
       Ended
  <1>4. SpJournal'
    BY <1>a, <1>d, <1>b DEF SpInv, SpTypes, SpJournal, Dispatching, Managed
  <1>5. ~spBlind' => SpOwned'
    BY <1>a, <1>d, <1>b DEF SpInv, SpTypes, SpHeld, SpTargets, SpJournal, SpOwned, Starting,
       Dispatching, Fresh, Unspawned, Live, Managed, NoTask, NoStop
  <1>. QED  BY <1>1, <1>2, <1>3, <1>4, <1>5 DEF SpInv

LEMMA StartedSp ==
    ASSUME SpInv, Started
    PROVE  SpInv'
  <1>. USE SupervisorAssumption
  <1>1. SpTypes'
    <2>1. spProcess' \in 0..MaxStarts /\ spLife' \in 0..MaxStarts /\ spSaved \in Documents
      BY DEF SpInv, SpTypes, Started
    <2>2. spSaved' \in Documents
      BY <2>1, NotifyFacts DEF Started, Noted
    <2>. QED  BY Nothing, <2>1, <2>2 DEF SpInv, SpTypes, Started, spTarget, spHistory
  <1>2. SpHeld'
    BY DEF SpInv, SpTypes, SpHeld, Started, Notify, SessionDocument, NoTask
  <1>3. SpTargets'
    BY DEF SpInv, SpTypes, SpTargets, Starting, Fresh, Unspawned, Live, Ended, Started, Notify,
       SessionDocument, spTarget, spHistory, NoTask
  <1>4. SpJournal'
    BY DEF SpInv, SpTypes, SpJournal, Dispatching, Managed, Started, NoTask
  <1>5. ~spBlind' => SpOwned'
    BY DEF SpInv, SpTypes, SpOwned, Starting, Live, Managed, Started, spTarget, spHistory, NoTask
  <1>. QED  BY <1>1, <1>2, <1>3, <1>4, <1>5 DEF SpInv

LEMMA StopSp ==
    ASSUME SpInv, Stop
    PROVE  SpInv'
  <1>. USE SupervisorAssumption
  <1>d. /\ LoopTurn /\ spTask = NoTask /\ spStop = NoStop /\ spClosing' = TRUE
        /\ UNCHANGED <<spLaunch, spHub, spTask, spStarts, spLife, spProcess, spAlloc, spCommand,
                       spExit, spWorker, spReused, spDeaths, spHit, spBlind>>
    BY DEF Stop, spTarget
  <1>b. /\ spRecord' \in [StartIds -> Records]
        /\ \A j \in StartIds :
              /\ spRecord'[j].done = spRecord[j].done /\ spRecord'[j].child = spRecord[j].child
              /\ spRecord'[j] = spRecord[j] \/ (j = spProcess /\ spRecord'[j].state = "stopping")
    <2>1. CASE spProcess \in StartIds /\ spRecord' = [spRecord EXCEPT ![spProcess].state = "stopping"]
      <3>. DEFINE q == [spRecord[spProcess] EXCEPT !.state = "stopping"]
      <3>1. /\ q \in Records /\ q.state = "stopping" /\ q.done = spRecord[spProcess].done
            /\ q.child = spRecord[spProcess].child
        BY <2>1, RecordFields DEF SpInv, SpTypes, SpStates
      <3>2. spRecord' = [spRecord EXCEPT ![spProcess] = q] /\ spRecord \in [StartIds -> Records]
        BY <2>1 DEF SpInv, SpTypes
      <3>. HIDE DEF q
      <3>. QED  BY <2>1, <3>1, <3>2
    <2>2. CASE UNCHANGED spRecord
      BY <2>2 DEF SpInv, SpTypes
    <2>. QED  BY <2>1, <2>2 DEF Stop, SpInv, SpTypes
  <1>e. spProcess' \in 0..MaxStarts /\ spLife' \in 0..MaxStarts /\ spSaved \in Documents
    BY <1>d DEF SpInv, SpTypes
  <1>c. Noted
    BY <1>e, NotifyFacts DEF Stop, Noted
  <1>f. \/ spStop' = NoStop /\ spTold' = spTold
        \/ /\ spAlloc.life # 0 /\ spTold' = spTold
           /\ spStop' = [at |-> "probe", life |-> spAlloc.life, sure |-> ~Unconfirmed(spAlloc)]
        \/ /\ spAlloc.life # 0 /\ ~Unconfirmed(spAlloc) /\ spStop' = NoStop
           /\ spTold' = spTold \cup {spAlloc.life}
        \/ /\ spProcess # 0 /\ Ended(spProcess) /\ spLaunch # "remote" /\ spStop' = NoStop
           /\ spTold' = spTold \cup {spProcess}
        \/ /\ spProcess # 0 /\ spTold' = spTold
           /\ spStop' = [at |-> "grace", life |-> spProcess, sure |-> FALSE]
    BY <1>d DEF Stop, Over
  <1>g. spStop' \in Stops /\ spTold' \subseteq StartIds
    <2>1. spProcess \in 0..MaxStarts /\ spAlloc.life \in 0..MaxStarts /\ spTold \subseteq StartIds
      BY DEF SpInv, SpTypes, Journals
    <2>2. ASSUME NEW l \in 0..MaxStarts, NEW s \in BOOLEAN
          PROVE  /\ [at |-> "probe", life |-> l, sure |-> s] \in Stops
                 /\ [at |-> "grace", life |-> l, sure |-> FALSE] \in Stops
      BY DEF Stops
    <2>3. spStop' \in Stops
      BY <1>f, <2>1, <2>2, Nothing
    <2>4. spTold' \subseteq StartIds
      <3>1. ASSUME NEW l \in 0..MaxStarts, l # 0 PROVE l \in StartIds
        BY <3>1 DEF StartIds
      <3>. QED  BY <1>f, <2>1, <3>1
    <2>. QED  BY <2>3, <2>4
  <1>h. \A j \in StartIds : Ended(j)' => Ended(j)
    BY <1>b DEF Ended
  <1>1. SpTypes'
    BY <1>d, <1>b, <1>c, <1>e, <1>f, <1>g, <1>h, Nothing DEF SpInv, SpTypes, Noted
  <1>2. SpHeld'
    BY <1>d, <1>b, <1>c, <1>e, <1>f, <1>g, <1>h DEF SpInv, SpTypes, SpHeld, Stops, LoopTurn, Noted
  <1>3. SpTargets'
    BY <1>d, <1>b, <1>c, <1>e, <1>f, <1>g, <1>h
    DEF SpInv, SpTypes, SpHeld, SpTargets, StartIds, Starting, Fresh, Unspawned, Live, SpStates,
        Noted, NoTask
  <1>4. SpJournal'
    BY <1>d, <1>b, <1>c, <1>e, <1>f, <1>g, <1>h DEF SpInv, SpTypes, SpJournal, Managed
  <1>5. ~spBlind' => SpOwned'
    BY <1>d, <1>b, <1>c, <1>e, <1>f, <1>g, <1>h
    DEF SpInv, SpTypes, SpTargets, SpJournal, SpOwned, StartIds, Live, Managed, Nobody, Stops
  <1>. QED  BY <1>1, <1>2, <1>3, <1>4, <1>5 DEF SpInv

LEMMA ForceKillSp ==
    ASSUME SpInv, ForceKill
    PROVE  SpInv'
  <1>. USE SupervisorAssumption
  <1>d. /\ LoopTurn /\ spTask = NoTask /\ spStop = NoStop /\ spClosing' = TRUE
        /\ spProcess # 0 /\ ~Ended(spProcess) /\ spLaunch # "remote"
        /\ Signal(spProcess, TRUE)
        /\ UNCHANGED <<spLaunch, spHub, spTask, spStarts, spLife, spProcess, spAlloc, spDeaths,
                       spTold, spBlind>>
    BY DEF ForceKill
  <1>b. /\ spRecord' \in [StartIds -> Records]
        /\ \A j \in StartIds :
              /\ spRecord'[j].done = spRecord[j].done /\ spRecord'[j].child = spRecord[j].child
              /\ spRecord'[j] = spRecord[j] \/ (j = spProcess /\ spRecord'[j].state = "stopping")
    <2>1. CASE spProcess \in StartIds /\ spRecord' = [spRecord EXCEPT ![spProcess].state = "stopping"]
      <3>. DEFINE q == [spRecord[spProcess] EXCEPT !.state = "stopping"]
      <3>1. /\ q \in Records /\ q.state = "stopping" /\ q.done = spRecord[spProcess].done
            /\ q.child = spRecord[spProcess].child
        BY <2>1, RecordFields DEF SpInv, SpTypes, SpStates
      <3>2. spRecord' = [spRecord EXCEPT ![spProcess] = q] /\ spRecord \in [StartIds -> Records]
        BY <2>1 DEF SpInv, SpTypes
      <3>. HIDE DEF q
      <3>. QED  BY <2>1, <3>1, <3>2
    <2>2. CASE UNCHANGED spRecord
      BY <2>2 DEF SpInv, SpTypes
    <2>. QED  BY <2>1, <2>2 DEF ForceKill, SpInv, SpTypes
  <1>e. spProcess' \in 0..MaxStarts /\ spLife' \in 0..MaxStarts /\ spSaved \in Documents
    BY <1>d DEF SpInv, SpTypes
  <1>c. Noted
    BY <1>e, NotifyFacts DEF ForceKill
  <1>f. /\ spStop' = [at |-> "kill", life |-> spProcess, sure |-> FALSE]
        /\ spStop' \in Stops
    BY DEF SpInv, SpTypes, ForceKill, Stops
  <1>s. Signalled(spProcess) /\ spProcess \in StartIds
    <2>1. spProcess \in StartIds
      BY <1>d DEF SpInv, SpTypes, StartIds
    <2>. QED  BY <1>d, <2>1, SignalFacts DEF SpInv
  <1>g. /\ \A j \in StartIds : Live(j)' => Live(j)
        /\ \A j \in StartIds : Ended(j)' => Ended(j)
    BY <1>b, <1>s DEF Signalled, Live, Ended
  <1>1. SpTypes'
    BY <1>d, <1>b, <1>c, <1>e, <1>f, <1>s, <1>g, Nothing DEF SpInv, SpTypes, Noted, Signalled
  <1>2. SpHeld'
    BY <1>d, <1>b, <1>c, <1>e, <1>f, <1>s, <1>g DEF SpInv, SpTypes, SpHeld, LoopTurn, Noted
  <1>3. SpTargets'
    BY <1>d, <1>b, <1>c, <1>e, <1>f, <1>s, <1>g
    DEF SpInv, SpTypes, SpHeld, SpTargets, StartIds, Starting, Fresh, Unspawned, Live, Ended,
        Tasks, Stops, Journals, Documents, SpPlaces, SpStates, Noted, Signalled
  <1>4. SpJournal'
    BY <1>d, <1>b, <1>c, <1>e, <1>f, <1>s, <1>g DEF SpInv, SpTypes, SpJournal, Managed
  <1>5. ~spBlind' => SpOwned'
    BY <1>d, <1>b, <1>c, <1>e, <1>f, <1>s, <1>g
    DEF SpInv, SpTypes, SpOwned, Managed, Nobody, Stops, Documents, NoTask
  <1>. QED  BY <1>1, <1>2, <1>3, <1>4, <1>5 DEF SpInv

LEMMA SeesExitSp ==
    ASSUME SpInv, SeesExit
    PROVE  SpInv'
  <1>. USE SupervisorAssumption
  <1>a. spStop.life \in StartIds /\ spTask = NoTask
    BY DEF SpInv, SpTypes, SpHeld, SeesExit, StartIds, Stops, NoStop
  <1>b. EndRecorded(spStop.life, spLaunch # "remote" /\ spRecord[spStop.life].adopted /\ ~Ended(spStop.life))
    BY <1>a, CompletesFacts DEF SpInv, SeesExit
  <1>d. /\ LoopTurn /\ spStop.at \in {"grace", "term", "kill"}
        /\ spStop' = NoStop /\ spTold' = spTold \cup {spStop.life}
        /\ UNCHANGED <<spLaunch, spHub, spTask, spStarts, spLife, spClosing, spProcess, spExit,
                       spWorker, spReused, spDeaths, spHit, spBlind>>
    BY DEF SeesExit, Over
  <1>g. /\ spLaunch = "remote" => LeaseFree /\ spRecord[spStop.life].done
        /\ spLaunch # "remote" /\ spRecord[spStop.life].adopted => ProcessGone(spStop.life)
        /\ spLaunch # "remote" /\ ~spRecord[spStop.life].adopted => Ended(spStop.life)
    BY DEF SeesExit
  <1>h. \/ spCommand' = spCommand
        \/ /\ spLaunch = "remote" /\ spRecord[spStop.life].child
           /\ spCommand' = [spCommand EXCEPT ![spStop.life] = "dead"]
    BY DEF SpInv, SpTypes, SeesExit
  <1>i. spStop' \in Stops /\ spTold' \subseteq StartIds
    BY <1>a, <1>d, Nothing DEF SpInv, SpTypes
  <1>e. spProcess' \in 0..MaxStarts /\ spLife' \in 0..MaxStarts /\ spSaved \in Documents
    BY <1>d DEF SpInv, SpTypes
  <1>c. Noted
    BY <1>e, NotifyFacts DEF SeesExit
  <1>1. SpTypes'
    BY <1>a, <1>b, <1>d, <1>g, <1>h, <1>i, <1>e, <1>c, Nothing
    DEF SpInv, SpTypes, EndRecorded, Noted
  <1>2. SpHeld'
    BY <1>a, <1>b, <1>d, <1>g, <1>h, <1>i, <1>e, <1>c
    DEF SpInv, SpTypes, SpHeld, EndRecorded, Noted, NoTask, NoStop
  <1>3. SpTargets'
    BY <1>a, <1>b, <1>d, <1>g, <1>h, <1>i, <1>e, <1>c
    DEF SpInv, SpTypes, SpHeld, SpTargets, StartIds, Starting, Fresh, Unspawned, Live, Ended,
        Tasks, Documents, LoopTurn, EndRecorded, Noted, NoTask, NoStop, ProcessGone
  <1>4. SpJournal'
    BY <1>a, <1>b, <1>d, <1>g, <1>h, <1>i, <1>e, <1>c
    DEF SpInv, SpTypes, SpHeld, SpJournal, Managed, EndRecorded, NoTask
  <1>5. ~spBlind' => SpOwned'
    <2>. SUFFICES ASSUME ~spBlind' PROVE SpOwned'
      OBVIOUS
    <2>1. SpOwned
      BY <1>d DEF SpInv
    <2>2. ~Live(spStop.life)
      BY <1>a, <1>g, <2>1 DEF SpInv, SpTypes, SpOwned, SpTargets, ProcessGone
    <2>3. \A j \in StartIds : Live(j) => j # spStop.life /\ spRecord'[j] = spRecord[j]
      BY <1>b, <2>2 DEF EndRecorded
    <2>4. \A j \in StartIds : Managed /\ Live(j) => spAlloc'.life = j /\ Unconfirmed(spAlloc')
      BY <1>b, <2>1, <2>3 DEF SpOwned, EndRecorded
    <2>5. \A j \in StartIds : spLaunch = "remote" /\ spRecord'[j].done => ~Live(j)
      BY <2>1, <2>3 DEF SpOwned
    <2>. QED
      BY <1>a, <1>d, <2>1, <2>2, <2>3, <2>4, <2>5
      DEF SpOwned, Live, Nobody, Managed, NoStop
  <1>. QED  BY <1>1, <1>2, <1>3, <1>4, <1>5 DEF SpInv

LEMMA TimesOutSp ==
    ASSUME SpInv, TimesOut
    PROVE  SpInv'
  <1>. USE SupervisorAssumption
  <1>a. spStop.life \in StartIds /\ spTask = NoTask
    BY DEF SpInv, SpTypes, SpHeld, TimesOut, StartIds, Stops, NoStop
  <1>d. /\ LoopTurn /\ spStop.at \in {"grace", "term", "kill"}
        /\ UNCHANGED <<spLaunch, spHub, spTask, spStarts, spLife, spClosing, spProcess, spRecord,
                       spAlloc, spSaved, spDeaths, spTold, spBlind>>
    BY DEF TimesOut, spDisk
  <1>f. \/ spStop' = NoStop /\ UNCHANGED <<spCommand, spExit, spWorker, spReused, spHit>>
        \/ /\ spLaunch # "remote" /\ spStop' \in Stops /\ spStop'.life = spStop.life
           /\ spStop'.at \in {"term", "kill"} /\ \E kills \in BOOLEAN : Signal(spStop.life, kills)
    BY DEF SpInv, SpTypes, Stops, TimesOut, spDisk, spTarget, spHistory
  <1>g. \/ spStop' = NoStop /\ UNCHANGED <<spCommand, spExit, spWorker, spReused, spHit>>
        \/ /\ spLaunch # "remote" /\ spStop' \in Stops /\ spStop'.life = spStop.life
           /\ spStop'.at \in {"term", "kill"} /\ Signalled(spStop.life)
    BY <1>a, <1>f, SignalFacts DEF SpInv
  <1>1. SpTypes'
    BY <1>a, <1>d, <1>g, Nothing DEF SpInv, SpTypes, Signalled
  <1>2. SpHeld'
    BY <1>a, <1>d, <1>g DEF SpInv, SpTypes, SpHeld, NoStop
  <1>3. SpTargets'
    BY <1>a, <1>d, <1>g DEF SpInv, SpTypes, SpTargets, StartIds, Fresh, Unspawned, Live, Ended,
       Stops, Documents, NoTask, Signalled
  <1>4. SpJournal'
    BY <1>a, <1>d, <1>g DEF SpInv, SpTypes, SpJournal, Managed
  <1>5. ~spBlind' => SpOwned'
    BY <1>a, <1>d, <1>g DEF SpInv, SpTypes, SpOwned, Live, Managed, Nobody, SpPlaces, SpStates,
       Dispatches, NoStop, Signalled
  <1>. QED  BY <1>1, <1>2, <1>3, <1>4, <1>5 DEF SpInv

LEMMA ProbeIdleSp ==
    ASSUME SpInv, ProbeIdle
    PROVE  SpInv'
  <1>. USE SupervisorAssumption
  <1>a. spStop.life \in StartIds /\ spTask = NoTask
    BY DEF SpInv, SpTypes, SpHeld, ProbeIdle, StartIds, Stops, NoStop
  <1>d. /\ spStop.at = "probe" /\ spStop' = NoStop
        /\ spTold' = spTold \/ (spStop.sure = TRUE /\ spTold' = spTold \cup {spStop.life})
        /\ UNCHANGED <<spLaunch, spHub, spTask, spStarts, spLife, spClosing, spProcess, spRecord,
                       spAlloc, spSaved, spCommand, spExit, spWorker, spReused, spDeaths, spHit,
                       spBlind>>
    BY DEF ProbeIdle, Over, spDisk, spTarget
  <1>1. SpTypes'
    BY <1>a, <1>d, Nothing DEF SpInv, SpTypes
  <1>2. SpHeld'
    BY <1>a, <1>d DEF SpInv, SpTypes, SpHeld, NoStop
  <1>3. SpTargets'
    BY <1>a, <1>d DEF SpInv, SpTypes, SpHeld, SpTargets, StartIds, Starting, Fresh, Unspawned,
       Live, Ended, NoTask
  <1>4. SpJournal'
    BY <1>a, <1>d DEF SpInv, SpTypes, SpJournal, Managed
  <1>5. ~spBlind' => SpOwned'
    BY <1>a, <1>d DEF SpInv, SpOwned, Live, Nobody, NoStop, Managed
  <1>. QED  BY <1>1, <1>2, <1>3, <1>4, <1>5 DEF SpInv

LEMMA RemoveStorageSp ==
    ASSUME SpInv, RemoveStorage
    PROVE  SpInv'
  <1>. USE SupervisorAssumption
  <1>d. /\ spTask = NoTask /\ spStop = NoStop /\ spHub = "up"
        /\ IsRunning => spAlloc.life # 0
        /\ spTask' \in Tasks /\ spTask'.at = "remove" /\ spClosing' = TRUE
        /\ UNCHANGED <<spLaunch, spHub, spStarts, spLife, spProcess, spRecord, spStop, spSaved,
                       spCommand, spExit, spWorker, spReused, spDeaths, spTold, spHit, spBlind>>
    BY DEF SpInv, SpTypes, Tasks, SpPlaces, RemoveStorage, spTarget, spHistory
  <1>a. /\ spAlloc' \in Journals /\ spAlloc'.life = spAlloc.life /\ spAlloc'.dispatch = spAlloc.dispatch
        /\ spAlloc'.removing = (spAlloc.life # 0)
    BY DEF SpInv, SpTypes, Journals, RemoveStorage
  <1>1. SpTypes'
    BY <1>d, <1>a, Nothing DEF SpInv, SpTypes
  <1>2. SpHeld'
    BY <1>d, <1>a DEF SpInv, SpTypes, SpHeld, Starting
  <1>3. SpTargets'
    BY <1>d, <1>a DEF SpInv, SpTypes, SpTargets, Starting, Fresh, Unspawned, Live, Ended
  <1>4. SpJournal'
    BY <1>d, <1>a DEF SpInv, SpTypes, SpJournal, Dispatching, Managed
  <1>5. ~spBlind' => SpOwned'
    BY <1>d, <1>a DEF SpInv, SpTypes, SpJournal, SpOwned, StartIds, Starting, Live, Managed,
       Unconfirmed, Nobody, IsRunning
  <1>. QED  BY <1>1, <1>2, <1>3, <1>4, <1>5 DEF SpInv

LEMMA RemoveFailsSp ==
    ASSUME SpInv, RemoveFails
    PROVE  SpInv'
  <1>. USE SupervisorAssumption
  <1>1. SpTypes'
    <2>1. spClosing' \in BOOLEAN
      BY DEF SpInv, SpTypes, RemoveFails, Tasks
    <2>. QED  BY Nothing, <2>1 DEF SpInv, SpTypes, RemoveFails, spDisk, spTarget, spHistory
  <1>2. SpHeld'
    BY DEF SpInv, SpTypes, SpHeld, Starting, RemoveFails, spDisk, NoTask
  <1>3. SpTargets'
    BY DEF SpInv, SpTypes, SpTargets, Starting, Fresh, Unspawned, Live, Ended, RemoveFails,
       spDisk, spTarget, spHistory, NoTask
  <1>4. SpJournal'
    BY DEF SpInv, SpTypes, SpJournal, Dispatching, Managed, RemoveFails, spDisk, NoTask
  <1>5. ~spBlind' => SpOwned'
    BY DEF SpInv, SpTypes, SpOwned, Starting, Live, Managed, RemoveFails, spDisk, spTarget,
       spHistory, NoTask
  <1>. QED  BY <1>1, <1>2, <1>3, <1>4, <1>5 DEF SpInv

LEMMA RemovedSp ==
    ASSUME SpInv, Removed
    PROVE  SpInv'
  <1>. USE SupervisorAssumption
  <1>1. SpTypes'
    <2>. QED  BY Nothing DEF SpInv, SpTypes, Removed, spHistory
  <1>2. SpHeld'
    BY DEF SpInv, SpTypes, SpHeld, Starting, Removed, NoAllocation, NoTask
  <1>3. SpTargets'
    BY DEF SpInv, SpTypes, SpTargets, StartIds, Starting, Fresh, Unspawned, Live, Ended,
       Documents, Removed, SpJournal, Managed, spHistory, NoTask
  <1>4. SpJournal'
    BY DEF SpInv, SpTypes, SpJournal, Dispatching, NoAllocation, Removed, NoTask
  <1>5. ~spBlind' => SpOwned'
    BY DEF SpInv, SpTypes, SpHeld, SpOwned, StartIds, Live, Nobody, Removed, spHistory, NoTask,
       NoStop
  <1>. QED  BY <1>1, <1>2, <1>3, <1>4, <1>5 DEF SpInv

LEMMA SaveSp ==
    ASSUME SpInv, Save
    PROVE  SpInv'
  <1>. USE SupervisorAssumption
  <1>1. SpTypes'
    <2>1. spSaved' \in Documents
      BY DocumentFacts DEF SpInv, Save
    <2>. QED  BY Nothing, <2>1 DEF SpInv, SpTypes, Save, spTarget, spHistory
  <1>2. SpHeld'
    BY DEF SpInv, SpTypes, SpHeld, Save, SessionDocument
  <1>3. SpTargets'
    BY DEF SpInv, SpTypes, SpTargets, Fresh, Unspawned, Live, Ended, Save, SessionDocument,
       spTarget, spHistory
  <1>4. SpJournal'
    BY DEF SpInv, SpTypes, SpJournal, Managed, Save
  <1>5. ~spBlind' => SpOwned'
    BY DEF SpInv, SpTypes, SpOwned, Live, Managed, Nobody, Save, spTarget, spHistory
  <1>. QED  BY <1>1, <1>2, <1>3, <1>4, <1>5 DEF SpInv

LEMMA StopAllSp ==
    ASSUME SpInv, StopAll
    PROVE  SpInv'
  <1>. USE SupervisorAssumption
  <1>1. SpTypes'
    <2>. QED  BY Nothing DEF SpInv, SpTypes, StopAll, spDisk, spTarget, spHistory
  <1>2. SpHeld'
    BY DEF SpInv, SpTypes, SpHeld, StopAll, spDisk
  <1>3. SpTargets'
    BY DEF SpInv, SpTypes, SpTargets, Fresh, Unspawned, Live, Ended, StopAll, spDisk, spTarget,
       spHistory
  <1>4. SpJournal'
    BY DEF SpInv, SpTypes, SpJournal, Managed, StopAll, spDisk
  <1>5. ~spBlind' => SpOwned'
    BY DEF SpInv, SpTypes, SpOwned, Live, Managed, Nobody, StopAll, spDisk, spTarget, spHistory
  <1>. QED  BY <1>1, <1>2, <1>3, <1>4, <1>5 DEF SpInv

LEMMA HubEndsSp ==
    ASSUME SpInv, HubEnds
    PROVE  SpInv'
  <1>. USE SupervisorAssumption
  <1>a. SessionDocument \in Documents
    BY DocumentFacts DEF SpInv
  <1>b. spSaved' = SessionDocument
    BY DEF HubEnds
  <1>c. /\ spSaved' \in Documents /\ 0 \in 0..MaxStarts
        /\ spRecord' \in [StartIds -> Records]
    BY <1>a, <1>b, Nothing DEF HubEnds, LoseMemory
  <1>1. SpTypes'
    BY <1>c, Nothing DEF SpInv, SpTypes, HubEnds, LoseMemory, spHistory
  <1>2. SpHeld'
    BY <1>a, <1>b, <1>c DEF SpInv, SpTypes, SpHeld, Starting, NoTask, HubEnds, LoseMemory,
       SessionDocument
  <1>3. SpTargets'
    BY <1>a, <1>b, <1>c DEF SpInv, SpTypes, SpTargets, Fresh, Unspawned, Live, Ended,
       NoProcessRecord, HubEnds, LoseMemory, SessionDocument, spHistory
  <1>4. SpJournal'
    BY <1>a, <1>b, <1>c DEF SpInv, SpTypes, SpJournal, Dispatching, Managed, NoTask, HubEnds,
       LoseMemory
  <1>5. ~spBlind' => SpOwned'
    BY <1>a, <1>b, <1>c DEF SpInv, SpTypes, SpOwned, Live, Managed, Nobody, NoProcessRecord,
       HubEnds, LoseMemory, spHistory
  <1>. QED  BY <1>1, <1>2, <1>3, <1>4, <1>5 DEF SpInv

LEMMA HubDiesSp ==
    ASSUME SpInv, HubDies
    PROVE  SpInv'
  <1>. USE SupervisorAssumption
  <1>d. /\ spHub' = "down" /\ spTask' = NoTask /\ spStop' = NoStop /\ spLife' = 0 /\ spClosing' = FALSE
        /\ spProcess' = 0 /\ spRecord' = [i \in StartIds |-> NoProcessRecord]
        /\ spExit' = [i \in StartIds |-> "none"]
        /\ UNCHANGED <<spLaunch, spStarts, spAlloc, spSaved, spCommand, spWorker, spReused,
                       spTold, spHit, spBlind>>
    BY DEF HubDies, LoseMemory, spHistory
  <1>e. 0 \in 0..MaxStarts /\ spRecord' \in [StartIds -> Records]
    BY <1>d, Nothing
  <1>1. SpTypes'
    BY <1>d, <1>e, Nothing DEF SpInv, SpTypes
  <1>2. SpHeld'
    BY <1>d, <1>e DEF SpInv, SpTypes, SpHeld, Starting, NoTask, NoStop
  <1>3. SpTargets'
    BY <1>d, <1>e DEF SpInv, SpTypes, SpTargets, Starting, Fresh, Unspawned, Live, Ended, NoTask,
       NoProcessRecord
  <1>4. SpJournal'
    BY <1>d, <1>e DEF SpInv, SpTypes, SpJournal, Dispatching, Managed, NoTask
  <1>5. ~spBlind' => SpOwned'
    BY <1>d, <1>e DEF SpInv, SpTypes, SpOwned, Starting, Live, Managed, NoTask, NoStop,
       NoProcessRecord
  <1>. QED  BY <1>1, <1>2, <1>3, <1>4, <1>5 DEF SpInv

LEMMA ChildExitSp ==
    ASSUME SpInv, NEW i \in StartIds, ChildExit(i)
    PROVE  SpInv'
  <1>. USE SupervisorAssumption
  <1>b. EndRecorded(i, ObservesEnd(i))
    BY CompletesFacts DEF SpInv, ChildExit
  <1>d. /\ LoopTurn /\ spRecord[i].child /\ spExit[i] # "none" /\ spExit' = [spExit EXCEPT ![i] = "none"]
        /\ UNCHANGED <<spLaunch, spHub, spTask, spStarts, spLife, spClosing, spProcess, spStop,
                       spCommand, spWorker, spReused, spDeaths, spTold, spHit, spBlind>>
    BY DEF ChildExit, spHistory
  <1>e. spProcess' \in 0..MaxStarts /\ spLife' \in 0..MaxStarts /\ spSaved \in Documents
    BY <1>d DEF SpInv, SpTypes
  <1>c. Noted
    BY <1>e, NotifyFacts DEF ChildExit
  <1>1. SpTypes'
    BY <1>b, <1>d, <1>e, <1>c, Nothing DEF SpInv, SpTypes, EndRecorded, Noted
  <1>2. SpHeld'
    BY <1>b, <1>d, <1>e, <1>c DEF SpInv, SpTypes, SpHeld, LoopTurn, EndRecorded, Noted
  <1>3. SpTargets'
    BY <1>b, <1>d, <1>e, <1>c DEF SpInv, SpTypes, SpTargets, Fresh, Unspawned, Live, Ended,
       EndRecorded, Noted
  <1>4. SpJournal'
    BY <1>b, <1>d, <1>e, <1>c DEF SpInv, SpTypes, SpJournal, StartIds, Managed, LoopTurn,
       EndRecorded
  <1>5. ~spBlind' => SpOwned'
    BY <1>b, <1>d, <1>e, <1>c DEF SpInv, SpTypes, SpTargets, SpOwned, Live, Managed, Nobody,
       Stops, Dispatches, EndRecorded, ObservesEnd
  <1>. QED  BY <1>1, <1>2, <1>3, <1>4, <1>5 DEF SpInv

LEMMA MonitorSp ==
    ASSUME SpInv, NEW i \in StartIds, Monitor(i)
    PROVE  SpInv'
  <1>. USE SupervisorAssumption
  <1>b. EndRecorded(i, TRUE)
    BY CompletesFacts DEF SpInv, Monitor
  <1>d. /\ LoopTurn /\ spLaunch # "remote" /\ ~Ended(i) /\ ProcessGone(i)
        /\ UNCHANGED <<spLaunch, spHub, spTask, spStarts, spLife, spClosing, spProcess, spStop,
                       spCommand, spWorker, spReused, spExit, spDeaths, spTold, spHit, spBlind>>
    BY DEF Monitor, spTarget, spHistory
  <1>e. spProcess' \in 0..MaxStarts /\ spLife' \in 0..MaxStarts /\ spSaved \in Documents
    BY <1>d DEF SpInv, SpTypes
  <1>c. Noted
    BY <1>e, NotifyFacts DEF Monitor
  <1>1. SpTypes'
    BY <1>b, <1>d, <1>e, <1>c, Nothing DEF SpInv, SpTypes, EndRecorded, Noted
  <1>2. SpHeld'
    BY <1>b, <1>d, <1>e, <1>c DEF SpInv, SpTypes, SpHeld, LoopTurn, EndRecorded, Noted
  <1>3. SpTargets'
    BY <1>b, <1>d, <1>e, <1>c DEF SpInv, SpTypes, SpTargets, Fresh, Unspawned, Live, Ended,
       Records, SpPlaces, Dispatches, EndRecorded, Noted, NoTask, NoStop, ProcessGone
  <1>4. SpJournal'
    BY <1>b, <1>d, <1>e, <1>c DEF SpInv, SpTypes, SpJournal, StartIds, Managed, LoopTurn,
       EndRecorded
  <1>5. ~spBlind' => SpOwned'
    BY <1>b, <1>d, <1>e, <1>c DEF SpInv, SpTypes, SpTargets, SpOwned, Live, Managed, Nobody,
       EndRecorded, ProcessGone
  <1>. QED  BY <1>1, <1>2, <1>3, <1>4, <1>5 DEF SpInv

LEMMA WorkerUpSp ==
    ASSUME SpInv, NEW i \in StartIds, WorkerUp(i)
    PROVE  SpInv'
  <1>. USE SupervisorAssumption
  <1>1. SpTypes'
    <2>. QED  BY Nothing DEF SpInv, SpTypes, WorkerUp, spDisk, spHistory
  <1>2. SpHeld'
    BY DEF SpInv, SpTypes, SpHeld, WorkerUp, spDisk
  <1>3. SpTargets'
    BY DEF SpInv, SpTypes, SpTargets, Fresh, Unspawned, Live, Ended, WorkerUp, spDisk, spHistory
  <1>4. SpJournal'
    BY DEF SpInv, SpTypes, SpJournal, Managed, WorkerUp, spDisk
  <1>5. ~spBlind' => SpOwned'
    BY DEF SpInv, SpTypes, SpOwned, Live, Managed, Nobody, WorkerUp, spDisk, spHistory
  <1>. QED  BY <1>1, <1>2, <1>3, <1>4, <1>5 DEF SpInv

LEMMA SupervisedEndsSp ==
    ASSUME SpInv, NEW i \in StartIds, SupervisedEnds(i)
    PROVE  SpInv'
  <1>. USE SupervisorAssumption
  <1>1. SpTypes'
    <2>. QED  BY Nothing DEF SpInv, SpTypes, SupervisedEnds, spDisk, spHistory
  <1>2. SpHeld'
    BY DEF SpInv, SpTypes, SpHeld, SupervisedEnds, spDisk
  <1>3. SpTargets'
    BY DEF SpInv, SpTypes, SpTargets, StartIds, Fresh, Unspawned, Live, Ended, Documents,
       SupervisedEnds, spDisk, spHistory
  <1>4. SpJournal'
    BY DEF SpInv, SpTypes, SpJournal, Managed, SupervisedEnds, spDisk
  <1>5. ~spBlind' => SpOwned'
    BY DEF SpInv, SpTypes, SpOwned, Live, Nobody, SupervisedEnds, spHistory
  <1>. QED  BY <1>1, <1>2, <1>3, <1>4, <1>5 DEF SpInv

LEMMA TransportEndsSp ==
    ASSUME SpInv, NEW i \in StartIds, TransportEnds(i)
    PROVE  SpInv'
  <1>. USE SupervisorAssumption
  <1>1. SpTypes'
    <2>. QED  BY Nothing DEF SpInv, SpTypes, TransportEnds, spDisk, spHistory
  <1>2. SpHeld'
    BY DEF SpInv, SpTypes, SpHeld, TransportEnds, spDisk
  <1>3. SpTargets'
    BY DEF SpInv, SpTypes, SpTargets, Fresh, Unspawned, Live, TransportEnds, spDisk, spHistory
  <1>4. SpJournal'
    BY DEF SpInv, SpTypes, SpJournal, Managed, TransportEnds, spDisk
  <1>5. ~spBlind' => SpOwned'
    BY DEF SpInv, SpTypes, SpOwned, Live, Managed, Nobody, TransportEnds, spDisk, spHistory
  <1>. QED  BY <1>1, <1>2, <1>3, <1>4, <1>5 DEF SpInv

LEMMA PidReusedSp ==
    ASSUME SpInv, NEW i \in StartIds, PidReused(i)
    PROVE  SpInv'
  <1>. USE SupervisorAssumption
  <1>1. SpTypes'
    <2>. QED  BY Nothing DEF SpInv, SpTypes, PidReused, spDisk, spHistory
  <1>2. SpHeld'
    BY DEF SpInv, SpTypes, SpHeld, PidReused, spDisk
  <1>3. SpTargets'
    BY DEF SpInv, SpTypes, SpTargets, Fresh, Unspawned, Live, Ended, PidReused, spDisk, spHistory
  <1>4. SpJournal'
    BY DEF SpInv, SpTypes, SpJournal, Managed, PidReused, spDisk
  <1>5. ~spBlind' => SpOwned'
    BY DEF SpInv, SpTypes, SpOwned, Live, Managed, Nobody, PidReused, spDisk, spHistory
  <1>. QED  BY <1>1, <1>2, <1>3, <1>4, <1>5 DEF SpInv

LEMMA RestoreSp ==
    ASSUME SpInv, Restore
    PROVE  SpInv'
  <1>. USE SupervisorAssumption
  <1>. DEFINE p == spSaved.process
              lost == spLaunch = "remote" /\ Unconfirmed(spAlloc)
              held == IF lost THEN "stopping" ELSE "running"
  <1>1. PICK known \in BOOLEAN :
          /\ spHub = "down" /\ spHub' = "up"
          /\ \/ spAlloc' = spAlloc
             \/ Settles(p, known) /\ spAlloc' = Completed(spAlloc, spAlloc.life)
          /\ spProcess' = IF lost THEN spAlloc.life ELSE IF Adopts(p, known) THEN p ELSE 0
          /\ spRecord' = [j \in StartIds |->
                IF j = spProcess'
                THEN [state |-> held, adopted |-> TRUE, child |-> FALSE,
                      done |-> ~Unconfirmed(spAlloc')]
                ELSE NoProcessRecord]
          /\ spLife' = IF Unconfirmed(spAlloc') THEN spAlloc'.life ELSE spSaved.life
          /\ spClosing' \in BOOLEAN
          /\ spBlind' = \/ spBlind
                        \/ spLaunch = "plain" /\ spProcess' = 0 /\ \E j \in StartIds : Live(j)
                        \/ Settles(p, known) /\ p # spAlloc.life /\ spSaved.life = spAlloc.life
          /\ UNCHANGED <<spLaunch, spTask, spStarts, spStop, spSaved, spCommand, spExit, spWorker,
                         spReused, spTold, spHit>>
    <2>1. PICK known \in BOOLEAN, published \in BOOLEAN : RestoreWith(known, published)
      BY DEF Restore
    <2>. QED  BY <2>1 DEF RestoreWith, spTarget
  <1>2. /\ p \in 0..MaxStarts /\ spAlloc.life \in 0..MaxStarts
        /\ p # 0 => spCommand[p] # "none"
    BY DEF SpInv, SpTypes, SpTargets, Documents, Journals
  <1>3. Settles(p, known) =>
            /\ Unconfirmed(spAlloc) /\ spLaunch = "local" /\ spSaved.life = spAlloc.life
            /\ p \in StartIds /\ spCommand[p] = "dead"
    BY <1>2 DEF Settles, Mismatch, ProcessGone, StartIds
  <1>4. Adopts(p, known) => p \in StartIds /\ spCommand[p] \in {"up"}
    BY <1>2 DEF SpInv, SpTypes, Adopts, ProcessGone, StartIds
  <1>5. /\ spAlloc' \in Journals /\ spAlloc'.life = spAlloc.life
        /\ spAlloc'.removing = spAlloc.removing
        /\ ~Settles(p, known) => spAlloc' = spAlloc
        /\ ~Unconfirmed(spAlloc) => ~Unconfirmed(spAlloc')
    <2>1. /\ Completed(spAlloc, spAlloc.life) \in Journals
          /\ Completed(spAlloc, spAlloc.life).life = spAlloc.life
          /\ Completed(spAlloc, spAlloc.life).removing = spAlloc.removing
      BY DEF SpInv, SpTypes, Journals, Dispatches, Completed
    <2>. QED  BY <1>1, <1>3, <2>1 DEF SpInv, SpTypes
  <1>6. /\ spProcess' \in 0..MaxStarts /\ spLife' \in 0..MaxStarts
        /\ spProcess' <= spStarts /\ spLife' <= spStarts
    BY <1>1, <1>2, <1>5 DEF SpInv, SpTypes, SpHeld, Documents
  <1>7. /\ spRecord' \in [StartIds -> Records]
        /\ \A j \in StartIds : /\ spRecord'[j].state \in {"none", "running", "stopping"}
                               /\ ~spRecord'[j].child
                               /\ spRecord'[j].done => ~Unconfirmed(spAlloc')
        /\ spProcess' # 0 => spRecord'[spProcess'].state = held
    <2>. DEFINE r == [state |-> held, adopted |-> TRUE, child |-> FALSE,
                      done |-> ~Unconfirmed(spAlloc')]
    <2>1. /\ r \in Records /\ r.state \in {"running", "stopping"} /\ r.state = held /\ ~r.child
          /\ r.done => ~Unconfirmed(spAlloc')
      BY DEF Records, SpStates
    <2>2. /\ NoProcessRecord.state = "none" /\ ~NoProcessRecord.child /\ ~NoProcessRecord.done
      BY DEF NoProcessRecord
    <2>3. spRecord' = [j \in StartIds |-> IF j = spProcess' THEN r ELSE NoProcessRecord]
      BY <1>1
    <2>. HIDE DEF r, held
    <2>. QED  BY <1>6, <2>1, <2>2, <2>3, Nothing DEF StartIds
  <1>8. spTask = NoTask /\ spStop = NoStop
    BY <1>1 DEF SpInv, SpHeld
  <1>9. SpTypes'
    BY <1>1, <1>5, <1>6, <1>7 DEF SpInv, SpTypes
  <1>10. SpHeld'
    BY <1>1, <1>5, <1>6, <1>8 DEF SpInv, SpTypes, SpHeld, Starting, NoTask
  <1>11. SpTargets'
    BY <1>1, <1>7 DEF SpInv, SpTargets, Fresh, Unspawned, Live, Ended
  <1>12. SpJournal'
    BY <1>1, <1>3, <1>5, <1>8 DEF SpInv, SpJournal, Managed, Unconfirmed, Dispatching, NoTask
  <1>13. ASSUME ~spBlind' PROVE SpOwned'
    <2>1. SpOwned
      BY <1>1, <1>13 DEF SpInv
    <2>2. ASSUME NEW j \in StartIds, Live(j) PROVE Managed => spAlloc.life = j /\ Unconfirmed(spAlloc')
      <3>1. CASE Settles(p, known) /\ Managed
        <4>1. p = spAlloc.life /\ spAlloc.life = j
          BY <1>1, <1>3, <1>13, <2>1, <2>2, <3>1 DEF SpOwned
        <4>2. spCommand[j] = "up"
          BY <1>3, <2>2, <3>1 DEF SpInv, SpTargets
        <4>. QED  BY <1>3, <3>1, <4>1, <4>2
      <3>2. CASE ~Settles(p, known)
        BY <1>5, <2>1, <2>2, <3>2 DEF SpOwned
      <3>. QED  BY <3>1, <3>2
    <2>3. ASSUME NEW j \in StartIds, Live(j), ~Managed
          PROVE  spProcess' = j /\ spRecord'[j].state \in {"running", "stopping"}
      <3>1. spProcess' # 0 /\ spProcess' = p /\ Adopts(p, known)
        BY <1>1, <1>13, <2>3 DEF Managed
      <3>2. Live(p) /\ p \in StartIds
        BY <1>4, <2>3, <3>1 DEF SpInv, SpTargets, Managed
      <3>3. p = j
        BY <2>1, <2>3, <3>2 DEF SpOwned
      <3>. QED  BY <1>7, <3>1, <3>3
    <2>4. ASSUME NEW j \in StartIds, spLaunch = "remote", spRecord'[j].done PROVE ~Live(j)
      BY <1>7, <2>2, <2>4 DEF Managed
    <2>. QED
      BY <1>1, <1>5, <1>8, <2>1, <2>2, <2>3, <2>4
      DEF SpOwned, Live, Nobody, Managed
  <1>. QED  BY <1>9, <1>10, <1>11, <1>12, <1>13 DEF SpInv

LEMMA NextSp ==
    ASSUME SpInv, [SpNext]_spVars
    PROVE  SpInv'
  <1>1. CASE UNCHANGED spVars
    <2>1. UNCHANGED <<spLaunch, spHub, spTask, spStarts, spLife, spClosing, spProcess, spRecord,
                      spStop, spAlloc, spSaved, spCommand, spExit, spWorker, spReused, spTold,
                      spHit, spBlind>>
      BY <1>1 DEF spVars, spDisk, spTarget, spHistory
    <2>2. SpTypes' /\ SpHeld' /\ SpJournal'
      BY <2>1 DEF SpInv, SpTypes, SpHeld, SpJournal, Managed
    <2>3. SpTargets' /\ (~spBlind' => SpOwned')
      BY <2>1 DEF SpInv, SpTargets, SpOwned, Fresh, Unspawned, Live, Ended, Nobody, Managed
    <2>. QED  BY <2>2, <2>3 DEF SpInv
  <1>2. CASE \E i \in StartIds : ChildExit(i) \/ Monitor(i) \/ WorkerUp(i) \/ SupervisedEnds(i)
                                 \/ TransportEnds(i) \/ PidReused(i)
    BY <1>2, ChildExitSp, MonitorSp, WorkerUpSp, SupervisedEndsSp, TransportEndsSp, PidReusedSp
  <1>3. CASE StartWorker \/ PrepareManaged \/ Capture \/ PreparationFails \/ MarkDispatch
             \/ DispatchFails \/ Spawn \/ Started
    BY <1>3, StartWorkerSp, PrepareManagedSp, CaptureSp, PreparationFailsSp, MarkDispatchSp,
       DispatchFailsSp, SpawnSp, StartedSp
  <1>4. CASE \/ Stop \/ ForceKill \/ SeesExit \/ TimesOut \/ ProbeIdle
             \/ RemoveStorage \/ RemoveFails \/ Removed
    BY <1>4, StopSp, ForceKillSp, SeesExitSp, TimesOutSp, ProbeIdleSp, RemoveStorageSp,
       RemoveFailsSp, RemovedSp
  <1>5. CASE Save \/ StopAll \/ HubEnds \/ HubDies \/ Restore
    BY <1>5, SaveSp, StopAllSp, HubEndsSp, HubDiesSp, RestoreSp
  <1>. QED  BY <1>1, <1>2, <1>3, <1>4, <1>5 DEF SpNext

\* What the invariant says of the parts that the run checks.
LEMMA SpInvSupervised ==
    ASSUME SpInv
    PROVE  /\ SupervisorTypeOK /\ OneWorker /\ StopsAreTrue
           /\ spBlind \/ SettledIsOver
           /\ NoDispatchAfterRemoval /\ NoStrangerSignalled
  <1>1. SupervisorTypeOK
    BY DEF SpInv, SpTypes, SupervisorTypeOK, Records, Journals, SpStates, Dispatches
  <1>2. OneWorker /\ StopsAreTrue
    BY DEF SpInv, SpOwned, OneWorker, StopsAreTrue
  <1>3. spBlind \/ SettledIsOver
    BY SupervisorAssumption DEF SpInv, SpTypes, SpOwned, SpJournal, SettledIsOver, Unconfirmed,
       Managed,
       Live, StartIds, Journals, Dispatches
  <1>4. NoDispatchAfterRemoval /\ NoStrangerSignalled
    BY DEF SpInv, SpJournal, SpTargets, Dispatching, NoDispatchAfterRemoval, NoStrangerSignalled
  <1>. QED  BY <1>1, <1>2, <1>3, <1>4

\* A session has at most one live worker, a stop that reports success has seen that
\* worker's end, an allocation settled in the journal has nobody left in it, no dispatch
\* follows the removal of its storage, and no process that is not the session's is
\* signalled: for every number of starts and of Hub deaths, every launch mode and every
\* interleaving of start, stop, exit, poll, save and restore (hub supervisor.cpp).
THEOREM WorkersAlwaysSupervised ==
    ModelSpec => []WorkersSupervised
  <1>. DEFINE Inv == part = "supervisor" => SpInv
  <1>1. ModelInit => Inv
    BY InitSp DEF ModelInit
  <1>2. Inv /\ [ModelNext]_ModelVars => Inv'
    <2>. SUFFICES ASSUME Inv, [ModelNext]_ModelVars PROVE Inv'
      OBVIOUS
    <2>1. part' = part
      BY DEF ModelNext, ModelVars, Others
    <2>2. CASE part = "supervisor"
      <3>1. [SpNext]_spVars
        BY <2>2 DEF ModelNext, ModelVars, Others
      <3>. QED  BY <2>1, <2>2, <3>1, NextSp
    <2>. QED  BY <2>1, <2>2
  <1>3. Inv => WorkersSupervised
    BY SpInvSupervised DEF WorkersSupervised
  <1>. QED  BY <1>1, <1>2, <1>3, PTL DEF ModelSpec

(***************************************************************************)
(* The manager service.  A claim is decided by looks at other records, and *)
(* published by a process that may die at any step; so the invariant says  *)
(* what each request holds at its step, and what it may rely on because of *)
(* that: the top of the tree until its claim is published, so that nobody  *)
(* claims the directory around its own; an exclusive lease after that, so  *)
(* that the record is where its own last step left it.  A removal never    *)
(* meets a record inside the directory it deletes.                         *)
(***************************************************************************)
MgConfigs == {j.refresh : j \in HubRequests} \cup {NoConfig}
MgLives == {j.life : j \in HubRequests} \cup {NoLife}
MgSources == {j.source : j \in HubRequests} \cup {NoSource}
MgStartups == [life : MgLives, revision : Nat, config : MgConfigs]
MgRecords == [status : {"absent", "preparing", "ready", "removing", "removed"}, revision : Nat,
              config : MgConfigs, refresh : MgConfigs, startup : MgStartups, source : MgSources]
MgPcs == {"free", "tree", "lease", "prepare", "clean_fork", "create", "reference", "ready",
          "refresh", "capture_startup", "remove", "delete", "retire", "inspect"}
MgJobs == [pc : MgPcs, op : {"none", "prepare", "clean_fork", "remove", "capture_startup", "inspect"},
           dir : Allocs \cup {NoAlloc}, refresh : MgConfigs, expected : Nat, life : MgLives,
           source : MgSources]
MgLock(whos, places) == [who : whos, at : places, mode : {"shared", "exclusive"}]

MgTypes ==
    /\ mgWithin \in Layouts
    /\ mgRecord \in [Allocs -> MgRecords]
    /\ mgRoot \subseteq Allocs
    /\ mgRef \in [Allocs -> BOOLEAN]
    /\ mgTree \subseteq MgLock(Managers, Allocs \cup {Top})
    /\ mgLease \subseteq MgLock(Managers \cup Incarnations, Allocs)
    /\ mgJob \in [Managers -> MgJobs]
    /\ mgWorker \in [Allocs -> Incarnations \cup {NoLife}]

\* A lock is held by one, or shared.
MgLocks(locks) ==
    \A k, l \in locks : k.at = l.at /\ k.who # l.who => k.mode = "shared" /\ l.mode = "shared"

\* What a request is, at its step.
MgShape(j) ==
    j.pc # "free" =>
        /\ j.op \in {"prepare", "clean_fork", "remove", "capture_startup", "inspect"}
        /\ j.dir \in Allocs
        /\ IF j.op = "clean_fork" THEN IsSource(j.source) ELSE j.source = NoSource
        /\ j.pc = "tree" => Mutation(j.op)
        /\ j.pc \in {"prepare", "clean_fork", "remove", "capture_startup", "inspect"} => j.op = j.pc
        /\ j.pc \in {"create", "reference", "ready", "refresh"} => Preparing(j.op)
        /\ j.pc \in {"delete", "retire"} => j.op = "remove"

\* What it holds: the top of the tree while it may still claim, and its lease.
MgHolds(m, j) ==
    /\ j.pc \in {"lease", "prepare", "clean_fork"} /\ Preparing(j.op) =>
           /\ \E l \in mgTree : l.who = m /\ l.at = Top
           /\ mgWithin[j.dir] = NoAlloc => [who |-> m, at |-> Top, mode |-> "exclusive"] \in mgTree
    /\ j.pc \notin {"free", "tree", "lease"} =>
           [who |-> m, at |-> j.dir, mode |-> LeaseMode(j.op)] \in mgLease

\* What it may rely on.
MgSees(j) ==
    /\ j.pc \in {"lease", "prepare", "clean_fork"} /\ Preparing(j.op) => ~Nested(j.dir)
    /\ j.pc \in {"prepare", "clean_fork"} /\ mgWithin[j.dir] # NoAlloc => mgWithin[j.dir] \in mgRoot
    /\ j.pc \in {"create", "reference", "ready"} => mgRecord[j.dir].status = "preparing"
    /\ j.pc \in {"reference", "ready"} => j.dir \in mgRoot
    /\ j.pc = "ready" => mgRef[j.dir]
    /\ j.pc = "remove" => mgRecord[j.dir] # NoRecord
    /\ j.pc \in {"delete", "retire"} => mgRecord[j.dir].status = "removing"

MgAllJobs == \A m \in Managers : MgShape(mgJob[m]) /\ MgHolds(m, mgJob[m]) /\ MgSees(mgJob[m])

\* An absent record is blank, and the directory around a recorded one exists.
MgBlank == \A d \in Allocs : mgRecord[d].status = "absent" => mgRecord[d] = NoRecord
MgOuter == \A d \in Allocs : mgRecord[d] # NoRecord /\ mgWithin[d] # NoAlloc => mgWithin[d] \in mgRoot

\* A worker holds its lease, and a lifecycle is one worker's.
MgLeased ==
    \A d \in Allocs : mgWorker[d] # NoLife =>
        /\ [who |-> mgWorker[d], at |-> d, mode |-> "shared"] \in mgLease
        /\ mgWorker[d] \in mgUsed
        /\ \A e \in Allocs : mgWorker[e] = mgWorker[d] => e = d

MgStarted == \A d \in Allocs : mgRecord[d].startup # NoStartup => <<d, mgRecord[d].startup>> \in mgCaptured

MgInv ==
    /\ MgTypes /\ MgLocks(mgTree) /\ MgLocks(mgLease) /\ MgAllJobs
    /\ MgBlank /\ MgOuter /\ NoNesting
    /\ ReadyIsWhole /\ MgLeased /\ MgStarted /\ ForkFromCapture

LEMMA MgNothing ==
    /\ NoRecord \in MgRecords /\ NoRecord.status = "absent" /\ NoRecord.revision = 0
    /\ NoRecord.startup = NoStartup /\ NoRecord.source = NoSource
    /\ NoStartup \in MgStartups /\ NoStartup.life = NoLife /\ NoStartup.revision = 0
    /\ NoSource \in MgSources
    /\ NoJob \in MgJobs /\ NoJob.pc = "free"
  <1>1. NoStartup \in MgStartups /\ NoStartup.life = NoLife /\ NoStartup.revision = 0
    BY DEF NoStartup, MgStartups, MgLives, MgConfigs
  <1>2. NoSource \in MgSources
    BY DEF MgSources
  <1>3. /\ NoRecord \in MgRecords /\ NoRecord.status = "absent" /\ NoRecord.revision = 0
        /\ NoRecord.startup = NoStartup /\ NoRecord.source = NoSource
    BY <1>1, <1>2 DEF NoRecord, MgRecords, MgConfigs
  <1>4. NoJob \in MgJobs /\ NoJob.pc = "free"
    BY <1>2 DEF NoJob, MgJobs, MgPcs, MgConfigs, MgLives
  <1>. QED  BY <1>1, <1>2, <1>3, <1>4

LEMMA MgRequested ==
    ASSUME NEW j \in HubRequests
    PROVE  /\ j \in MgJobs /\ j.op \in {"prepare", "clean_fork", "remove", "capture_startup", "inspect"}
           /\ j.dir \in Allocs
           /\ IF j.op = "clean_fork" THEN IsSource(j.source) ELSE j.source = NoSource
  <1>1. IsRequest(j)
    BY MgConstants
  <1>2. j.refresh \in MgConfigs /\ j.life \in MgLives /\ j.source \in MgSources
    BY DEF MgConfigs, MgLives, MgSources
  <1>3. /\ j = [pc |-> "free", op |-> j.op, dir |-> j.dir, refresh |-> j.refresh,
                expected |-> j.expected, life |-> j.life, source |-> j.source]
        /\ j.op \in {"prepare", "clean_fork", "remove", "capture_startup", "inspect"}
        /\ j.dir \in Allocs /\ j.expected \in Nat
    BY <1>1 DEF IsRequest
  <1>4. j \in MgJobs
    BY <1>2, <1>3 DEF MgJobs, MgPcs
  <1>. QED  BY <1>1, <1>3, <1>4 DEF IsRequest

LEMMA InitMg == MgInit => MgInv
  <1>. SUFFICES ASSUME MgInit PROVE MgInv
    OBVIOUS
  <1>1. MgTypes
    BY MgNothing DEF MgInit, MgTypes
  <1>2. MgLocks(mgTree) /\ MgLocks(mgLease)
    BY DEF MgInit, MgLocks
  <1>3. MgAllJobs
    BY MgNothing DEF MgInit, MgAllJobs, MgShape, MgHolds, MgSees
  <1>4. MgBlank /\ MgOuter /\ NoNesting
    BY MgNothing DEF MgInit, MgBlank, MgOuter, NoNesting
  <1>5. ReadyIsWhole /\ MgLeased /\ MgStarted /\ ForkFromCapture
    BY MgNothing DEF MgInit, ReadyIsWhole, MgLeased, MgStarted, ForkFromCapture
  <1>. QED  BY <1>1, <1>2, <1>3, <1>4, <1>5 DEF MgInv

LEMMA MgUnlock ==
    ASSUME NEW locks, NEW m, MgLocks(locks)
    PROVE  MgLocks(Unlocked(locks, m))
  BY DEF MgLocks, Unlocked

LEMMA MgLockOne ==
    ASSUME NEW locks, NEW m, NEW at, NEW mode \in {"shared", "exclusive"}, MgLocks(locks),
           Grants(locks, at, mode)
    PROVE  MgLocks(locks \cup {[who |-> m, at |-> at, mode |-> mode]})
  BY DEF MgLocks, Grants

\* Two that hold a lease on one directory share it.
LEMMA MgAlone ==
    ASSUME MgInv, NEW m \in Managers, NEW n \in Managers, m # n,
           mgJob[m].pc \notin {"free", "tree", "lease"}, Mutation(mgJob[m].op),
           mgJob[n].pc \notin {"free", "tree", "lease"}
    PROVE  mgJob[m].dir # mgJob[n].dir
  <1>. DEFINE k == [who |-> m, at |-> mgJob[m].dir, mode |-> LeaseMode(mgJob[m].op)]
              l == [who |-> n, at |-> mgJob[n].dir, mode |-> LeaseMode(mgJob[n].op)]
  <1>1. k \in mgLease /\ l \in mgLease
    BY DEF MgInv, MgAllJobs, MgHolds
  <1>2. k.mode = "exclusive"
    BY DEF LeaseMode
  <1>3. k.at = l.at /\ k.who # l.who => k.mode = "shared"
    BY <1>1 DEF MgInv, MgLocks
  <1>. QED  BY <1>2, <1>3

LEMMA MgNoWorker ==
    ASSUME MgInv, NEW m \in Managers,
           mgJob[m].pc \notin {"free", "tree", "lease"}, Mutation(mgJob[m].op)
    PROVE  mgWorker[mgJob[m].dir] = NoLife
  <1>. DEFINE d == mgJob[m].dir
              k == [who |-> m, at |-> d, mode |-> LeaseMode(mgJob[m].op)]
              l == [who |-> mgWorker[d], at |-> d, mode |-> "shared"]
  <1>. SUFFICES ASSUME mgWorker[d] # NoLife PROVE FALSE
    OBVIOUS
  <1>0. d \in Allocs
    BY DEF MgInv, MgAllJobs, MgShape
  <1>1. k \in mgLease /\ l \in mgLease
    BY <1>0 DEF MgInv, MgAllJobs, MgHolds, MgLeased
  <1>2. k.mode = "exclusive"
    BY DEF LeaseMode
  <1>3. mgWorker[d] \in Incarnations
    BY <1>0 DEF MgInv, MgTypes
  <1>4. k.who # l.who
    BY <1>3, MgConstants
  <1>. QED  BY <1>1, <1>2, <1>4 DEF MgInv, MgLocks

\* What the other requests hold stays theirs.
LEMMA MgOthersHold ==
    ASSUME MgInv, NEW m, NEW n \in Managers, n # m,
           mgJob'[n] = mgJob[n], mgWithin' = mgWithin,
           \A l \in mgTree : l.who # m => l \in mgTree',
           \A l \in mgLease : l.who # m => l \in mgLease'
    PROVE  MgShape(mgJob'[n]) /\ MgHolds(n, mgJob[n])'
  <1>. DEFINE j == mgJob[n]
  <1>1. MgShape(j) /\ MgHolds(n, j)
    BY DEF MgInv, MgAllJobs
  <1>2. (\E l \in mgTree : l.who = n /\ l.at = Top) => \E l \in mgTree' : l.who = n /\ l.at = Top
    OBVIOUS
  <1>3. \A p : [who |-> n, at |-> Top, mode |-> p] \in mgTree => [who |-> n, at |-> Top, mode |-> p] \in mgTree'
    OBVIOUS
  <1>4. \A p, d : [who |-> n, at |-> d, mode |-> p] \in mgLease => [who |-> n, at |-> d, mode |-> p] \in mgLease'
    OBVIOUS
  <1>. QED  BY <1>1, <1>2, <1>3, <1>4 DEF MgHolds

\* What they rely on stays true.
LEMMA MgOthersSee ==
    ASSUME MgInv, NEW n \in Managers, mgJob'[n] = mgJob[n], mgWithin' = mgWithin,
           mgRoot \subseteq mgRoot', \A e \in Allocs : mgRef[e] => mgRef'[e],
           \A e \in Allocs : mgRecord'[e] = NoRecord <=> mgRecord[e] = NoRecord,
           mgJob[n].pc \notin {"free", "tree", "lease"} =>
               mgRecord'[mgJob[n].dir] = mgRecord[mgJob[n].dir]
    PROVE  MgSees(mgJob[n])'
  <1>. DEFINE j == mgJob[n]
  <1>1. MgShape(j) /\ MgSees(j)
    BY DEF MgInv, MgAllJobs
  <1>2. CASE j.pc = "free"
    BY <1>2 DEF MgSees
  <1>3. CASE j.pc # "free"
    <2>1. j.dir \in Allocs
      BY <1>1, <1>3 DEF MgShape
    <2>2. mgWithin[j.dir] # NoAlloc => mgWithin[j.dir] \in Allocs
      BY <2>1, MgConstants DEF MgInv, MgTypes
    <2>3. Nested(j.dir)' <=> Nested(j.dir)
      BY <2>2 DEF Nested
    <2>. QED  BY <1>1, <1>3, <2>1, <2>3 DEF MgSees
  <1>. QED  BY <1>2, <1>3

\* One request moves on, and the others keep what they have.
LEMMA MgJobsKeep ==
    ASSUME MgInv, NEW m \in Managers, mgJob' = [mgJob EXCEPT ![m] = mgJob'[m]], mgWithin' = mgWithin,
           \A l \in mgTree : l.who # m => l \in mgTree',
           \A l \in mgLease : l.who # m => l \in mgLease',
           mgRoot \subseteq mgRoot', \A e \in Allocs : mgRef[e] => mgRef'[e],
           \A e \in Allocs : mgRecord'[e] = NoRecord <=> mgRecord[e] = NoRecord,
           \A n \in Managers : n # m /\ mgJob[n].pc \notin {"free", "tree", "lease"} =>
               mgRecord'[mgJob[n].dir] = mgRecord[mgJob[n].dir],
           MgShape(mgJob'[m]), MgHolds(m, mgJob[m])', MgSees(mgJob[m])'
    PROVE  MgAllJobs'
  <1>0. \A n \in Managers : n # m => mgJob'[n] = mgJob[n]
    BY DEF MgInv, MgTypes
  <1>1. ASSUME NEW n \in Managers, n # m
        PROVE  MgShape(mgJob'[n]) /\ MgHolds(n, mgJob[n])' /\ MgSees(mgJob[n])'
    BY <1>0, <1>1, MgOthersHold, MgOthersSee
  <1>2. ASSUME NEW n \in Managers
        PROVE  MgShape(mgJob'[n]) /\ MgHolds(n, mgJob[n])' /\ MgSees(mgJob[n])'
    BY <1>0, <1>1
  <1>. QED  BY <1>2 DEF MgAllJobs

\* A step that leaves the records, the directories and the workers alone.
LEMMA MgRest ==
    ASSUME MgInv,
           UNCHANGED <<mgWithin, mgRecord, mgWorker, mgUsed, mgCaptured>>,
           mgRoot \subseteq mgRoot', \A e \in Allocs : mgRef[e] => mgRef'[e],
           \A l \in mgLease : l.who \in Incarnations => l \in mgLease'
    PROVE  /\ MgBlank' /\ MgOuter' /\ NoNesting'
           /\ ReadyIsWhole' /\ MgLeased' /\ MgStarted' /\ ForkFromCapture'
  <1>1. MgBlank' /\ MgOuter' /\ NoNesting'
    BY DEF MgInv, MgBlank, MgOuter, NoNesting
  <1>2. ReadyIsWhole' /\ MgStarted' /\ ForkFromCapture'
    BY DEF MgInv, ReadyIsWhole, MgStarted, ForkFromCapture
  <1>3. MgLeased'
    <2>1. ASSUME NEW d \in Allocs, mgWorker[d] # NoLife
          PROVE  [who |-> mgWorker[d], at |-> d, mode |-> "shared"] \in mgLease'
      <3>1. [who |-> mgWorker[d], at |-> d, mode |-> "shared"] \in mgLease
        BY <2>1 DEF MgInv, MgLeased
      <3>2. mgWorker[d] \in Incarnations
        BY <2>1 DEF MgInv, MgTypes
      <3>. QED  BY <3>1, <3>2
    <2>. QED  BY <2>1 DEF MgInv, MgLeased
  <1>. QED  BY <1>1, <1>2, <1>3

\* The process ends, and nothing else changes.
LEMMA MgEnds ==
    ASSUME MgInv, NEW m \in Managers, Done(m),
           UNCHANGED <<mgWithin, mgRecord, mgRoot, mgRef, mgWorker, mgUsed, mgCaptured>>
    PROVE  MgInv'
  <1>1. /\ mgJob' = [mgJob EXCEPT ![m] = NoJob]
        /\ mgTree' = Unlocked(mgTree, m) /\ mgLease' = Unlocked(mgLease, m)
    BY DEF Done
  <1>2. MgTypes'
    BY <1>1, MgNothing DEF MgInv, MgTypes, Unlocked
  <1>3. MgLocks(mgTree') /\ MgLocks(mgLease')
    BY <1>1, MgUnlock DEF MgInv
  <1>4. MgAllJobs'
    <2>1. \A l \in mgTree : l.who # m => l \in mgTree'
      BY <1>1 DEF Unlocked
    <2>2. \A l \in mgLease : l.who # m => l \in mgLease'
      BY <1>1 DEF Unlocked
    <2>3. mgJob'[m] = NoJob
      BY <1>1 DEF MgInv, MgTypes
    <2>4. MgShape(mgJob'[m]) /\ MgHolds(m, mgJob[m])' /\ MgSees(mgJob[m])'
      BY <2>3, MgNothing DEF MgShape, MgHolds, MgSees
    <2>. QED  BY <1>1, <2>1, <2>2, <2>3, <2>4, MgJobsKeep
  <1>5. \A l \in mgLease : l.who \in Incarnations => l \in mgLease'
    BY <1>1, MgConstants DEF Unlocked
  <1>. QED  BY <1>2, <1>3, <1>4, <1>5, MgRest DEF MgInv

LEMMA MgProceeds ==
    ASSUME MgInv, NEW m \in Managers, NEW pc \in MgPcs, Proceed(m, pc)
    PROVE  /\ mgJob' = [mgJob EXCEPT ![m] = mgJob'[m]] /\ mgJob' \in [Managers -> MgJobs]
           /\ mgJob'[m].pc = pc /\ mgJob'[m].op = mgJob[m].op /\ mgJob'[m].dir = mgJob[m].dir
           /\ mgJob'[m].source = mgJob[m].source
  BY DEF MgInv, MgTypes, MgJobs, Proceed

\* A request moves on without a change of locks.
LEMMA MgMoves ==
    ASSUME MgInv, NEW m \in Managers, NEW pc \in MgPcs, Proceed(m, pc), UNCHANGED <<mgTree,
                                                                                    mgLease,
                                                                                    mgWithin>>,
           mgRoot \subseteq mgRoot', \A e \in Allocs : mgRef[e] => mgRef'[e],
           \A e \in Allocs : mgRecord'[e] = NoRecord <=> mgRecord[e] = NoRecord,
           \A n \in Managers : n # m /\ mgJob[n].pc \notin {"free", "tree", "lease"} =>
               mgRecord'[mgJob[n].dir] = mgRecord[mgJob[n].dir],
           mgJob[m].pc \notin {"free", "tree", "lease"},
           pc \notin {"free", "tree", "lease", "prepare", "clean_fork"},
           MgShape(mgJob'[m]), MgSees(mgJob[m])'
    PROVE  MgAllJobs'
  <1>1. MgHolds(m, mgJob[m])'
    BY MgProceeds DEF MgInv, MgAllJobs, MgHolds
  <1>. QED  BY <1>1, MgProceeds, MgJobsKeep

LEMMA RequestMg ==
    ASSUME MgInv, NEW m \in Managers, NEW job \in HubRequests, Request(m, job)
    PROVE  MgInv'
  <1>. DEFINE j == [job EXCEPT !.pc = IF Mutation(job.op) THEN "tree" ELSE "lease"]
  <1>1. /\ mgJob' = [mgJob EXCEPT ![m] = j]
        /\ UNCHANGED <<mgRecord, mgRoot, mgRef, mgTree, mgLease, mgWithin, mgWorker, mgDeaths,
                       mgUsed, mgCaptured>>
    BY DEF Request, outside
  <1>2. /\ j \in MgJobs /\ j.op = job.op /\ j.dir = job.dir /\ j.source = job.source
        /\ j.pc = IF Mutation(job.op) THEN "tree" ELSE "lease"
    BY MgRequested DEF MgJobs, MgPcs
  <1>3. mgJob'[m] = j
    BY <1>1 DEF MgInv, MgTypes
  <1>4. MgTypes'
    BY <1>1, <1>2 DEF MgInv, MgTypes
  <1>5. MgShape(j)
    BY <1>2, MgRequested DEF MgShape
  <1>6. MgHolds(m, mgJob[m])' /\ MgSees(mgJob[m])'
    BY <1>2, <1>3 DEF MgHolds, MgSees, Preparing, Mutation
  <1>7. MgAllJobs'
    BY <1>1, <1>3, <1>5, <1>6, MgJobsKeep
  <1>8. MgLocks(mgTree') /\ MgLocks(mgLease')
    BY <1>1 DEF MgInv
  <1>. QED  BY <1>1, <1>4, <1>7, <1>8, MgRest DEF MgInv

LEMMA TakeTreeMg ==
    ASSUME MgInv, NEW m \in Managers, TakeTree(m)
    PROVE  MgInv'
  <1>. DEFINE d == mgJob[m].dir
              chain == TreeChain(m, d)
              top == [who |-> m, at |-> Top, mode |-> "exclusive"]
              root == [who |-> m, at |-> Top, mode |-> "shared"]
              outer == [who |-> m, at |-> mgWithin[d], mode |-> "exclusive"]
  <1>0. mgJob[m].pc = "tree" /\ MgShape(mgJob[m]) /\ d \in Allocs
    BY DEF TakeTree, JobAt, MgInv, MgAllJobs, MgShape
  <1>1. UNCHANGED <<mgRecord, mgRoot, mgRef, mgWithin, mgWorker, mgUsed, mgCaptured>>
    BY DEF TakeTree, outside
  <1>2. CASE Done(m)
    BY <1>1, <1>2, MgEnds
  <1>3. CASE /\ \A l \in chain : Grants(mgTree, l.at, l.mode)
             /\ Fenced(d) /\ mgTree' = mgTree \cup chain /\ Proceed(m, "lease") /\ UNCHANGED mgLease
    <2>1. /\ mgJob' = [mgJob EXCEPT ![m] = mgJob'[m]] /\ mgJob' \in [Managers -> MgJobs]
          /\ mgJob'[m].pc = "lease" /\ mgJob'[m].op = mgJob[m].op /\ mgJob'[m].dir = d
          /\ mgJob'[m].source = mgJob[m].source
      BY <1>3, MgProceeds DEF MgPcs
    <2>2. mgWithin[d] # NoAlloc => mgWithin[d] \in Allocs
      BY <1>0, MgConstants DEF MgInv, MgTypes
    <2>3. \/ chain = {top}
          \/ mgWithin[d] # NoAlloc /\ chain = {root, outer}
      BY DEF TreeChain, Parent
    <2>4. chain \subseteq MgLock(Managers, Allocs \cup {Top})
      BY <2>2, <2>3 DEF MgLock
    <2>5. MgTypes'
      BY <1>1, <1>3, <2>1, <2>4 DEF MgInv, MgTypes
    <2>6. MgLocks(mgTree')
      <3>1. CASE chain = {top}
        <4>1. Grants(mgTree, Top, "exclusive")
          BY <1>3, <3>1
        <4>. QED  BY <1>3, <3>1, <4>1, MgLockOne DEF MgInv
      <3>2. CASE mgWithin[d] # NoAlloc /\ chain = {root, outer}
        <4>1. Grants(mgTree, Top, "shared") /\ Grants(mgTree, mgWithin[d], "exclusive")
          BY <1>3, <3>2
        <4>2. MgLocks(mgTree \cup {root})
          BY <4>1, MgLockOne DEF MgInv
        <4>3. Top # mgWithin[d]
          BY <2>2, <3>2, MgConstants
        <4>4. Grants(mgTree \cup {root}, mgWithin[d], "exclusive")
          BY <4>1, <4>3 DEF Grants
        <4>5. MgLocks((mgTree \cup {root}) \cup {outer})
          BY <4>2, <4>4, MgLockOne
        <4>6. mgTree' = (mgTree \cup {root}) \cup {outer}
          BY <1>3, <3>2
        <4>. QED  BY <4>5, <4>6
      <3>. QED  BY <2>3, <3>1, <3>2
    <2>7. MgShape(mgJob'[m])
      BY <1>0, <2>1 DEF MgShape
    <2>8. MgHolds(m, mgJob[m])'
      <3>1. \E l \in mgTree' : l.who = m /\ l.at = Top
        <4>1. top \in mgTree' \/ root \in mgTree'
          BY <1>3, <2>3
        <4>2. top.who = m /\ top.at = Top /\ root.who = m /\ root.at = Top
          OBVIOUS
        <4>. QED  BY <4>1, <4>2
      <3>2. mgWithin[d] = NoAlloc => top \in mgTree'
        BY <1>3, <2>3
      <3>. QED  BY <1>1, <2>1, <3>1, <3>2 DEF MgHolds
    <2>9. MgSees(mgJob[m])'
      BY <1>1, <1>3, <2>1 DEF MgSees, Fenced, Nested
    <2>10. MgAllJobs'
      BY <1>1, <1>3, <2>1, <2>7, <2>8, <2>9, MgJobsKeep
    <2>11. MgLocks(mgLease')
      BY <1>3 DEF MgInv
    <2>. QED  BY <1>1, <1>3, <2>5, <2>6, <2>10, <2>11, MgRest DEF MgInv
  <1>. QED  BY <1>2, <1>3 DEF TakeTree

LEMMA TakeLeaseMg ==
    ASSUME MgInv, NEW m \in Managers, TakeLease(m)
    PROVE  MgInv'
  <1>. DEFINE j == mgJob[m]
              d == mgJob[m].dir
              lock == [who |-> m, at |-> d, mode |-> LeaseMode(j.op)]
  <1>0. j.pc = "lease" /\ MgShape(j) /\ MgHolds(m, j) /\ MgSees(j) /\ d \in Allocs
    BY DEF TakeLease, JobAt, MgInv, MgAllJobs, MgShape
  <1>1. UNCHANGED <<mgRecord, mgRef, mgWithin, mgWorker, mgUsed, mgCaptured>>
    BY DEF TakeLease, outside
  <1>2. CASE Done(m) /\ UNCHANGED mgRoot
    BY <1>1, <1>2, MgEnds
  <1>3. CASE /\ mgRecord[d] # NoRecord \/ Preparing(j.op)
             /\ Grants(mgLease, d, LeaseMode(j.op))
             /\ mgLease' = mgLease \cup {lock}
             /\ mgRoot' = IF mgWithin[d] = NoAlloc THEN mgRoot ELSE mgRoot \cup {mgWithin[d]}
             /\ Proceed(m, j.op) /\ UNCHANGED mgTree
    <2>0. j.op \in {"prepare", "clean_fork", "remove", "capture_startup", "inspect"}
      BY <1>0 DEF MgShape
    <2>1. /\ mgJob' = [mgJob EXCEPT ![m] = mgJob'[m]] /\ mgJob' \in [Managers -> MgJobs]
          /\ mgJob'[m].pc = j.op /\ mgJob'[m].op = j.op /\ mgJob'[m].dir = d
          /\ mgJob'[m].source = j.source
      BY <1>3, <2>0, MgProceeds DEF MgPcs
    <2>2. mgWithin[d] # NoAlloc => mgWithin[d] \in Allocs
      BY <1>0, MgConstants DEF MgInv, MgTypes
    <2>3. LeaseMode(j.op) \in {"shared", "exclusive"}
      BY DEF LeaseMode
    <2>4. lock \in MgLock(Managers \cup Incarnations, Allocs)
      BY <1>0, <2>3 DEF MgLock
    <2>5. MgTypes'
      BY <1>1, <1>3, <2>1, <2>2, <2>4 DEF MgInv, MgTypes
    <2>6. MgLocks(mgTree') /\ MgLocks(mgLease')
      BY <1>3, <2>3, MgLockOne DEF MgInv
    <2>7. MgShape(mgJob'[m])
      BY <1>0, <2>0, <2>1 DEF MgShape
    <2>8. MgHolds(m, mgJob[m])'
      BY <1>0, <1>1, <1>3, <2>0, <2>1 DEF MgHolds, Preparing
    <2>9. MgSees(mgJob[m])'
      BY <1>0, <1>1, <1>3, <2>0, <2>1 DEF MgSees, Nested, Preparing
    <2>10. mgRoot \subseteq mgRoot'
      BY <1>3
    <2>11. MgAllJobs'
      BY <1>1, <1>3, <2>1, <2>7, <2>8, <2>9, <2>10, MgJobsKeep
    <2>. QED  BY <1>1, <1>3, <2>5, <2>6, <2>10, <2>11, MgRest DEF MgInv
  <1>. QED  BY <1>2, <1>3 DEF TakeLease

\* An existing record is replaced under the exclusive lease.
LEMMA MgReplaces ==
    ASSUME MgInv, NEW m \in Managers, NEW r \in MgRecords,
           mgJob[m].pc \notin {"free", "tree", "lease"}, Mutation(mgJob[m].op),
           mgRecord[mgJob[m].dir] # NoRecord, r.status # "absent",
           mgRecord' = [mgRecord EXCEPT ![mgJob[m].dir] = r],
           UNCHANGED <<mgWithin, mgRoot, mgRef, mgWorker, mgUsed>>,
                       mgCaptured \subseteq mgCaptured',
           r.status = "ready" => mgJob[m].dir \in mgRoot /\ mgRef[mgJob[m].dir],
           r.startup # NoStartup => <<mgJob[m].dir, r.startup>> \in mgCaptured',
           r.source # NoSource /\ r.status # "removed" =>
               <<r.source.dir, [life |-> r.source.life, revision |-> r.source.revision,
                                config |-> r.config]>> \in mgCaptured',
           \A l \in mgLease : l.who \in Incarnations => l \in mgLease'
    PROVE  /\ mgRecord' \in [Allocs -> MgRecords]
           /\ \A e \in Allocs : mgRecord'[e] = NoRecord <=> mgRecord[e] = NoRecord
           /\ \A n \in Managers : n # m /\ mgJob[n].pc \notin {"free", "tree", "lease"} =>
                  mgRecord'[mgJob[n].dir] = mgRecord[mgJob[n].dir]
           /\ MgBlank' /\ MgOuter' /\ NoNesting'
           /\ ReadyIsWhole' /\ MgLeased' /\ MgStarted' /\ ForkFromCapture'
  <1>. DEFINE d == mgJob[m].dir
  <1>0. d \in Allocs /\ r # NoRecord
    BY MgNothing DEF MgInv, MgAllJobs, MgShape
  <1>1. /\ mgRecord' \in [Allocs -> MgRecords] /\ mgRecord'[d] = r
        /\ \A e \in Allocs : e # d => mgRecord'[e] = mgRecord[e]
    BY <1>0 DEF MgInv, MgTypes
  <1>2. \A e \in Allocs : mgRecord'[e] = NoRecord <=> mgRecord[e] = NoRecord
    BY <1>0, <1>1
  <1>3. ASSUME NEW n \in Managers, n # m, mgJob[n].pc \notin {"free", "tree", "lease"}
        PROVE  mgRecord'[mgJob[n].dir] = mgRecord[mgJob[n].dir]
    <2>1. mgJob[n].dir # d
      BY <1>3, MgAlone
    <2>2. mgJob[n].dir \in Allocs
      BY <1>3 DEF MgInv, MgAllJobs, MgShape
    <2>. QED  BY <1>1, <2>1, <2>2
  <1>4. MgBlank'
    BY <1>1 DEF MgInv, MgBlank
  <1>5. MgOuter'
    BY <1>2 DEF MgInv, MgOuter
  <1>6. NoNesting'
    <2>1. \A e \in Allocs : mgWithin[e] # NoAlloc => mgWithin[e] \in Allocs
      BY MgConstants DEF MgInv, MgTypes
    <2>. QED  BY <1>2, <2>1 DEF MgInv, NoNesting
  <1>7. ReadyIsWhole'
    <2>1. mgWorker[d] = NoLife
      BY MgNoWorker
    <2>. QED  BY <1>1, <2>1 DEF MgInv, ReadyIsWhole
  <1>8. MgLeased'
    <2>1. ASSUME NEW e \in Allocs, mgWorker[e] # NoLife
          PROVE  [who |-> mgWorker[e], at |-> e, mode |-> "shared"] \in mgLease'
      <3>1. [who |-> mgWorker[e], at |-> e, mode |-> "shared"] \in mgLease
        BY <2>1 DEF MgInv, MgLeased
      <3>2. mgWorker[e] \in Incarnations
        BY <2>1 DEF MgInv, MgTypes
      <3>. QED  BY <3>1, <3>2
    <2>. QED  BY <2>1 DEF MgInv, MgLeased
  <1>9. MgStarted'
    BY <1>1 DEF MgInv, MgStarted
  <1>10. ForkFromCapture'
    BY <1>1 DEF MgInv, ForkFromCapture
  <1>. QED  BY <1>1, <1>2, <1>3, <1>4, <1>5, <1>6, <1>7, <1>8, <1>9, <1>10

\* The process ends as it replaces the record.
LEMMA MgEndsWith ==
    ASSUME MgInv, NEW m \in Managers, NEW r \in MgRecords, Done(m),
           mgJob[m].pc \notin {"free", "tree", "lease"}, Mutation(mgJob[m].op),
           mgRecord[mgJob[m].dir] # NoRecord, r.status # "absent",
           mgRecord' = [mgRecord EXCEPT ![mgJob[m].dir] = r],
           UNCHANGED <<mgWithin, mgRoot, mgRef, mgWorker, mgUsed>>,
                       mgCaptured \subseteq mgCaptured',
           r.status = "ready" => mgJob[m].dir \in mgRoot /\ mgRef[mgJob[m].dir],
           r.startup # NoStartup => <<mgJob[m].dir, r.startup>> \in mgCaptured',
           r.source # NoSource /\ r.status # "removed" =>
               <<r.source.dir, [life |-> r.source.life, revision |-> r.source.revision,
                                config |-> r.config]>> \in mgCaptured'
    PROVE  MgInv'
  <1>1. /\ mgJob' = [mgJob EXCEPT ![m] = NoJob]
        /\ mgTree' = Unlocked(mgTree, m) /\ mgLease' = Unlocked(mgLease, m)
    BY DEF Done
  <1>2. \A l \in mgLease : l.who \in Incarnations => l \in mgLease'
    BY <1>1, MgConstants DEF Unlocked
  <1>3. /\ mgRecord' \in [Allocs -> MgRecords]
        /\ \A e \in Allocs : mgRecord'[e] = NoRecord <=> mgRecord[e] = NoRecord
        /\ \A n \in Managers : n # m /\ mgJob[n].pc \notin {"free", "tree", "lease"} =>
               mgRecord'[mgJob[n].dir] = mgRecord[mgJob[n].dir]
        /\ MgBlank' /\ MgOuter' /\ NoNesting'
        /\ ReadyIsWhole' /\ MgLeased' /\ MgStarted' /\ ForkFromCapture'
    BY <1>2, MgReplaces
  <1>4. MgTypes'
    BY <1>1, <1>3, MgNothing DEF MgInv, MgTypes, Unlocked
  <1>5. MgLocks(mgTree') /\ MgLocks(mgLease')
    BY <1>1, MgUnlock DEF MgInv
  <1>6. MgAllJobs'
    <2>1. \A l \in mgTree : l.who # m => l \in mgTree'
      BY <1>1 DEF Unlocked
    <2>2. \A l \in mgLease : l.who # m => l \in mgLease'
      BY <1>1 DEF Unlocked
    <2>3. mgJob'[m] = NoJob
      BY <1>1 DEF MgInv, MgTypes
    <2>4. MgShape(mgJob'[m]) /\ MgHolds(m, mgJob[m])' /\ MgSees(mgJob[m])'
      BY <2>3, MgNothing DEF MgShape, MgHolds, MgSees
    <2>. QED  BY <1>1, <1>3, <2>1, <2>2, <2>3, <2>4, MgJobsKeep
  <1>. QED  BY <1>3, <1>4, <1>5, <1>6 DEF MgInv

\* The process goes on as it replaces the record.
LEMMA MgGoesOnWith ==
    ASSUME MgInv, NEW m \in Managers, NEW r \in MgRecords, NEW pc \in MgPcs, Proceed(m, pc),
           mgJob[m].pc \notin {"free", "tree", "lease"}, Mutation(mgJob[m].op),
           pc \notin {"free", "tree", "lease", "prepare", "clean_fork"},
           mgRecord[mgJob[m].dir] # NoRecord, r.status # "absent",
           mgRecord' = [mgRecord EXCEPT ![mgJob[m].dir] = r],
           UNCHANGED <<mgWithin, mgRoot, mgRef, mgWorker, mgUsed, mgTree, mgLease, mgCaptured>>,
           r.status = "ready" => mgJob[m].dir \in mgRoot /\ mgRef[mgJob[m].dir],
           r.startup # NoStartup => <<mgJob[m].dir, r.startup>> \in mgCaptured,
           r.source # NoSource /\ r.status # "removed" =>
               <<r.source.dir, [life |-> r.source.life, revision |-> r.source.revision,
                                config |-> r.config]>> \in mgCaptured,
           MgShape(mgJob'[m]), MgSees(mgJob[m])'
    PROVE  MgInv'
  <1>1. /\ mgRecord' \in [Allocs -> MgRecords]
        /\ \A e \in Allocs : mgRecord'[e] = NoRecord <=> mgRecord[e] = NoRecord
        /\ \A n \in Managers : n # m /\ mgJob[n].pc \notin {"free", "tree", "lease"} =>
               mgRecord'[mgJob[n].dir] = mgRecord[mgJob[n].dir]
        /\ MgBlank' /\ MgOuter' /\ NoNesting'
        /\ ReadyIsWhole' /\ MgLeased' /\ MgStarted' /\ ForkFromCapture'
    BY MgReplaces
  <1>2. MgTypes'
    BY <1>1, MgProceeds DEF MgInv, MgTypes
  <1>3. MgAllJobs'
    BY <1>1, MgMoves
  <1>4. MgLocks(mgTree') /\ MgLocks(mgLease')
    BY DEF MgInv
  <1>. QED  BY <1>1, <1>2, <1>3, <1>4 DEF MgInv

\* The facts of a request past its lease.
LEMMA MgAt ==
    ASSUME MgInv, NEW m \in Managers, mgJob[m].pc # "free"
    PROVE  /\ MgShape(mgJob[m]) /\ MgHolds(m, mgJob[m]) /\ MgSees(mgJob[m])
           /\ mgJob[m] \in MgJobs /\ mgJob[m].dir \in Allocs
           /\ mgRecord[mgJob[m].dir] \in MgRecords
           /\ mgRecord[mgJob[m].dir].status = "absent" <=> mgRecord[mgJob[m].dir] = NoRecord
  <1>1. MgShape(mgJob[m]) /\ MgHolds(m, mgJob[m]) /\ MgSees(mgJob[m]) /\ mgJob[m].dir \in Allocs
    BY DEF MgInv, MgAllJobs, MgShape
  <1>. QED  BY <1>1, MgNothing DEF MgInv, MgTypes, MgBlank

LEMMA ResumeMg ==
    ASSUME MgInv, NEW m \in Managers, Resume(m)
    PROVE  MgInv'
  <1>. DEFINE j == mgJob[m]
              d == mgJob[m].dir
              r == mgRecord[d]
              pc == IF r.status = "ready" THEN "refresh" ELSE "create"
  <1>1. /\ Preparing(j.pc) /\ r # NoRecord
        /\ UNCHANGED <<mgRecord, mgRoot, mgRef, mgWithin, mgWorker, mgUsed, mgCaptured>>
    BY DEF Resume, outside
  <1>2. CASE Done(m)
    BY <1>1, <1>2, MgEnds
  <1>3. CASE ~Retired(r) /\ Proceed(m, pc) /\ UNCHANGED <<mgTree, mgLease>>
    <2>1. j.pc \in {"prepare", "clean_fork"}
      BY <1>1 DEF Preparing
    <2>2. MgShape(j) /\ MgSees(j) /\ d \in Allocs /\ r \in MgRecords /\ r.status # "absent"
      BY <1>1, <2>1, MgAt
    <2>3. r.status \in {"preparing", "ready"}
      BY <1>3, <2>2 DEF MgRecords, Retired
    <2>4. pc \in MgPcs /\ pc \in {"refresh", "create"}
      BY DEF MgPcs
    <2>5. /\ mgJob' = [mgJob EXCEPT ![m] = mgJob'[m]] /\ mgJob' \in [Managers -> MgJobs]
          /\ mgJob'[m].pc = pc /\ mgJob'[m].op = j.op /\ mgJob'[m].dir = d
          /\ mgJob'[m].source = j.source
      BY <1>3, <2>4, MgProceeds
    <2>6. MgShape(mgJob'[m])
      BY <2>1, <2>2, <2>4, <2>5 DEF MgShape, Preparing
    <2>7. MgSees(mgJob[m])'
      BY <1>1, <2>3, <2>4, <2>5 DEF MgSees
    <2>8. MgAllJobs'
      BY <1>1, <1>3, <2>1, <2>4, <2>6, <2>7, MgMoves
    <2>9. MgTypes'
      BY <1>1, <1>3, <2>5 DEF MgInv, MgTypes
    <2>. QED  BY <1>1, <1>3, <2>8, <2>9, MgRest DEF MgInv
  <1>. QED  BY <1>2, <1>3 DEF Resume

LEMMA CreateDirectoriesMg ==
    ASSUME MgInv, NEW m \in Managers, CreateDirectories(m)
    PROVE  MgInv'
  <1>. DEFINE j == mgJob[m]
  <1>1. /\ j.pc = "create" /\ mgRoot' = mgRoot \cup {j.dir} /\ Proceed(m, "reference")
        /\ UNCHANGED <<mgRecord, mgRef, mgTree, mgLease, mgWithin, mgWorker, mgUsed, mgCaptured>>
    BY DEF CreateDirectories, JobAt, outside
  <1>2. MgShape(j) /\ MgSees(j) /\ j.dir \in Allocs
    BY <1>1, MgAt
  <1>3. /\ mgJob' = [mgJob EXCEPT ![m] = mgJob'[m]] /\ mgJob' \in [Managers -> MgJobs]
        /\ mgJob'[m].pc = "reference" /\ mgJob'[m].op = j.op /\ mgJob'[m].dir = j.dir
        /\ mgJob'[m].source = j.source
    BY <1>1, MgProceeds DEF MgPcs
  <1>4. MgShape(mgJob'[m]) /\ MgSees(mgJob[m])'
    BY <1>1, <1>2, <1>3 DEF MgShape, MgSees
  <1>5. MgAllJobs'
    BY <1>1, <1>4, MgMoves DEF MgPcs
  <1>6. MgTypes'
    BY <1>1, <1>2, <1>3 DEF MgInv, MgTypes
  <1>. QED  BY <1>1, <1>5, <1>6, MgRest DEF MgInv

LEMMA WriteReferenceMg ==
    ASSUME MgInv, NEW m \in Managers, WriteReference(m)
    PROVE  MgInv'
  <1>. DEFINE j == mgJob[m]
  <1>1. /\ j.pc = "reference" /\ mgRef' = [mgRef EXCEPT ![j.dir] = TRUE] /\ Proceed(m, "ready")
        /\ UNCHANGED <<mgRecord, mgRoot, mgTree, mgLease, mgWithin, mgWorker, mgUsed, mgCaptured>>
    BY DEF WriteReference, JobAt, outside
  <1>2. MgShape(j) /\ MgSees(j) /\ j.dir \in Allocs
    BY <1>1, MgAt
  <1>3. /\ mgJob' = [mgJob EXCEPT ![m] = mgJob'[m]] /\ mgJob' \in [Managers -> MgJobs]
        /\ mgJob'[m].pc = "ready" /\ mgJob'[m].op = j.op /\ mgJob'[m].dir = j.dir
        /\ mgJob'[m].source = j.source
    BY <1>1, MgProceeds DEF MgPcs
  <1>4. mgRef' \in [Allocs -> BOOLEAN] /\ mgRef'[j.dir] /\ \A e \in Allocs : mgRef[e] => mgRef'[e]
    BY <1>1, <1>2 DEF MgInv, MgTypes
  <1>5. MgShape(mgJob'[m]) /\ MgSees(mgJob[m])'
    BY <1>1, <1>2, <1>3, <1>4 DEF MgShape, MgSees
  <1>6. MgAllJobs'
    BY <1>1, <1>4, <1>5, MgMoves DEF MgPcs
  <1>7. MgTypes'
    BY <1>1, <1>3, <1>4 DEF MgInv, MgTypes
  <1>. QED  BY <1>1, <1>4, <1>6, <1>7, MgRest DEF MgInv

\* The captures a record rests on.
LEMMA MgCaptures ==
    ASSUME MgInv, NEW d \in Allocs
    PROVE  /\ mgRecord[d].startup # NoStartup => <<d, mgRecord[d].startup>> \in mgCaptured
           /\ mgRecord[d].source # NoSource /\ mgRecord[d].status # "removed" =>
                 <<mgRecord[d].source.dir,
                   [life |-> mgRecord[d].source.life, revision |-> mgRecord[d].source.revision,
                    config |-> mgRecord[d].config]>> \in mgCaptured
  BY DEF MgInv, MgStarted, ForkFromCapture

LEMMA PublishReadyMg ==
    ASSUME MgInv, NEW m \in Managers, PublishReady(m)
    PROVE  MgInv'
  <1>. DEFINE j == mgJob[m]
              d == mgJob[m].dir
              r == [mgRecord[d] EXCEPT !.status = "ready"]
  <1>1. /\ j.pc = "ready" /\ mgRecord' = [mgRecord EXCEPT ![d] = r] /\ Proceed(m, "refresh")
        /\ UNCHANGED <<mgRoot, mgRef, mgTree, mgLease, mgWithin, mgWorker, mgUsed, mgCaptured>>
    BY DEF PublishReady, PublishRecord, JobAt, outside
  <1>2. MgShape(j) /\ MgSees(j) /\ d \in Allocs /\ mgRecord[d] \in MgRecords
    BY <1>1, MgAt
  <1>3. Mutation(j.op) /\ d \in mgRoot /\ mgRef[d] /\ mgRecord[d].status = "preparing"
    BY <1>1, <1>2 DEF MgShape, MgSees, Preparing, Mutation
  <1>4. mgRecord[d] # NoRecord
    BY <1>3, MgNothing
  <1>5. /\ r \in MgRecords /\ r.status = "ready" /\ r.startup = mgRecord[d].startup
        /\ r.source = mgRecord[d].source /\ r.config = mgRecord[d].config
    BY <1>2 DEF MgRecords
  <1>6. /\ mgJob'[m].pc = "refresh" /\ mgJob'[m].op = j.op /\ mgJob'[m].dir = d
        /\ mgJob'[m].source = j.source
    BY <1>1, MgProceeds DEF MgPcs
  <1>7. MgShape(mgJob'[m]) /\ MgSees(mgJob[m])'
    BY <1>1, <1>2, <1>6 DEF MgShape, MgSees
  <1>8. /\ r.startup # NoStartup => <<d, r.startup>> \in mgCaptured
        /\ r.source # NoSource /\ r.status # "removed" =>
               <<r.source.dir, [life |-> r.source.life, revision |-> r.source.revision,
                                config |-> r.config]>> \in mgCaptured
    BY <1>2, <1>3, <1>5, MgCaptures
  <1>9. "refresh" \in MgPcs
    BY DEF MgPcs
  <1>. QED  BY <1>1, <1>3, <1>4, <1>5, <1>7, <1>8, <1>9, MgGoesOnWith

MgWith(r, c) == [r EXCEPT !.refresh = c, !.revision = @ + 1]
LEMMA MgRefreshed ==
    ASSUME NEW r \in MgRecords, NEW c \in MgConfigs
    PROVE  /\ MgWith(r, c) \in MgRecords /\ MgWith(r, c).status = r.status
           /\ MgWith(r, c).startup = r.startup /\ MgWith(r, c).source = r.source
           /\ MgWith(r, c).config = r.config /\ MgWith(r, c).revision = r.revision + 1
  <1>. DEFINE p == [r EXCEPT !.refresh = c]
              q == [p EXCEPT !.revision = r.revision + 1]
  <1>1. /\ p \in MgRecords /\ p.status = r.status /\ p.startup = r.startup
        /\ p.source = r.source /\ p.config = r.config /\ p.revision = r.revision
    BY DEF MgRecords
  <1>2. r.revision + 1 \in Nat
    BY DEF MgRecords
  <1>. HIDE DEF p
  <1>3. /\ q \in MgRecords /\ q.status = p.status /\ q.startup = p.startup
        /\ q.source = p.source /\ q.config = p.config /\ q.revision = r.revision + 1
    BY <1>1, <1>2 DEF MgRecords
  <1>. QED  BY <1>1, <1>3 DEF p, MgWith

LEMMA ApplyRefreshMg ==
    ASSUME MgInv, NEW m \in Managers, ApplyRefresh(m)
    PROVE  MgInv'
  <1>. DEFINE j == mgJob[m]
              d == mgJob[m].dir
              r == MgWith(mgRecord[d], j.refresh)
  <1>1. /\ j.pc = "refresh" /\ Done(m)
        /\ UNCHANGED <<mgRoot, mgRef, mgWithin, mgWorker, mgUsed, mgCaptured>>
    BY DEF ApplyRefresh, JobAt, outside
  <1>2. CASE UNCHANGED mgRecord
    BY <1>1, <1>2, MgEnds
  <1>3. CASE mgRecord[d].status = "ready" /\ mgRef[d] /\ mgRecord' = [mgRecord EXCEPT ![d] = r]
    <2>1. MgShape(j) /\ j \in MgJobs /\ d \in Allocs /\ mgRecord[d] \in MgRecords
      BY <1>1, MgAt
    <2>2. Mutation(j.op)
      BY <1>1, <2>1 DEF MgShape, Preparing, Mutation
    <2>3. d \in mgRoot /\ mgRecord[d] # NoRecord
      BY <1>3, <2>1, MgNothing DEF MgInv, ReadyIsWhole
    <2>4. j.refresh \in MgConfigs
      BY <2>1 DEF MgJobs
    <2>5. /\ r \in MgRecords /\ r.status = "ready" /\ r.startup = mgRecord[d].startup
          /\ r.source = mgRecord[d].source /\ r.config = mgRecord[d].config
      BY <1>3, <2>1, <2>4, MgRefreshed
    <2>6. /\ r.startup # NoStartup => <<d, r.startup>> \in mgCaptured
          /\ r.source # NoSource /\ r.status # "removed" =>
                 <<r.source.dir, [life |-> r.source.life, revision |-> r.source.revision,
                                  config |-> r.config]>> \in mgCaptured
      BY <1>3, <2>1, <2>5, MgCaptures
    <2>7. mgCaptured' = mgCaptured /\ j.pc \notin {"free", "tree", "lease"}
      BY <1>1
    <2>. QED  BY <1>1, <1>3, <2>2, <2>3, <2>5, <2>6, <2>7, MgEndsWith
  <1>. QED  BY <1>2, <1>3 DEF ApplyRefresh, PublishRecord, MgWith

LEMMA CaptureStartupMg ==
    ASSUME MgInv, NEW m \in Managers, CaptureStartup(m)
    PROVE  MgInv'
  <1>. DEFINE j == mgJob[m]
              d == mgJob[m].dir
              startup == [life |-> j.life, revision |-> mgRecord[d].revision,
                          config |-> Effective(mgRecord[d])]
              r == [mgRecord[d] EXCEPT !.startup = startup]
  <1>1. /\ j.pc = "capture_startup" /\ Done(m)
        /\ UNCHANGED <<mgRoot, mgRef, mgWithin, mgWorker, mgUsed>>
    BY DEF CaptureStartup, JobAt
  <1>2. CASE UNCHANGED <<mgRecord, mgCaptured>>
    BY <1>1, <1>2, MgEnds
  <1>3. CASE /\ mgRecord[d].status = "ready" /\ mgRef[d] /\ mgRecord' = [mgRecord EXCEPT ![d] = r]
             /\ mgCaptured' = mgCaptured \cup {<<d, startup>>}
    <2>1. MgShape(j) /\ j \in MgJobs /\ d \in Allocs /\ mgRecord[d] \in MgRecords
      BY <1>1, MgAt
    <2>2. Mutation(j.op)
      BY <1>1, <2>1 DEF MgShape, Mutation
    <2>3. d \in mgRoot /\ mgRecord[d] # NoRecord
      BY <1>3, <2>1, MgNothing DEF MgInv, ReadyIsWhole
    <2>4. startup \in MgStartups
      BY <2>1 DEF MgJobs, MgRecords, MgStartups, Effective
    <2>5. /\ r \in MgRecords /\ r.status = "ready" /\ r.startup = startup
          /\ r.source = mgRecord[d].source /\ r.config = mgRecord[d].config
      BY <1>3, <2>1, <2>4 DEF MgRecords
    <2>6. <<d, r.startup>> \in mgCaptured' /\ mgCaptured \subseteq mgCaptured'
      BY <1>3, <2>5
    <2>7. r.source # NoSource /\ r.status # "removed" =>
                 <<r.source.dir, [life |-> r.source.life, revision |-> r.source.revision,
                                  config |-> r.config]>> \in mgCaptured'
      BY <1>3, <2>1, <2>5, <2>6, MgCaptures
    <2>8. j.pc \notin {"free", "tree", "lease"}
      BY <1>1
    <2>. QED  BY <1>1, <1>3, <2>2, <2>3, <2>5, <2>6, <2>7, <2>8, MgEndsWith
  <1>. QED  BY <1>2, <1>3 DEF CaptureStartup, PublishRecord

LEMMA BeginRemovalMg ==
    ASSUME MgInv, NEW m \in Managers, BeginRemoval(m)
    PROVE  MgInv'
  <1>. DEFINE j == mgJob[m]
              d == mgJob[m].dir
              r == [mgRecord[d] EXCEPT !.status = "removing"]
  <1>1. j.pc = "remove" /\ UNCHANGED <<mgRoot, mgRef, mgWithin, mgWorker, mgUsed, mgCaptured>>
    BY DEF BeginRemoval, JobAt, outside
  <1>2. CASE Done(m) /\ UNCHANGED mgRecord
    BY <1>1, <1>2, MgEnds
  <1>3. CASE /\ mgRecord[d].status # "removed" /\ mgRecord' = [mgRecord EXCEPT ![d] = r]
             /\ Proceed(m, "delete") /\ UNCHANGED <<mgTree, mgLease>>
    <2>1. MgShape(j) /\ MgSees(j) /\ d \in Allocs /\ mgRecord[d] \in MgRecords
      BY <1>1, MgAt
    <2>2. Mutation(j.op) /\ mgRecord[d] # NoRecord
      BY <1>1, <2>1 DEF MgShape, MgSees, Mutation
    <2>3. /\ r \in MgRecords /\ r.status = "removing" /\ r.startup = mgRecord[d].startup
          /\ r.source = mgRecord[d].source /\ r.config = mgRecord[d].config
      BY <2>1 DEF MgRecords
    <2>4. /\ mgJob'[m].pc = "delete" /\ mgJob'[m].op = j.op /\ mgJob'[m].dir = d
          /\ mgJob'[m].source = j.source
      BY <1>3, MgProceeds DEF MgPcs
    <2>5. mgRecord'[d] = r
      BY <1>3, <2>1 DEF MgInv, MgTypes
    <2>6. MgShape(mgJob'[m]) /\ MgSees(mgJob[m])'
      BY <1>1, <2>1, <2>3, <2>4, <2>5 DEF MgShape, MgSees
    <2>7. /\ r.startup # NoStartup => <<d, r.startup>> \in mgCaptured
          /\ r.source # NoSource /\ r.status # "removed" =>
                 <<r.source.dir, [life |-> r.source.life, revision |-> r.source.revision,
                                  config |-> r.config]>> \in mgCaptured
      BY <1>3, <2>1, <2>3, MgCaptures
    <2>8. "delete" \in MgPcs
      BY DEF MgPcs
    <2>. QED  BY <1>1, <1>3, <2>2, <2>3, <2>6, <2>7, <2>8, MgGoesOnWith
  <1>. QED  BY <1>2, <1>3 DEF BeginRemoval, PublishRecord

LEMMA RetireMg ==
    ASSUME MgInv, NEW m \in Managers, Retire(m)
    PROVE  MgInv'
  <1>. DEFINE j == mgJob[m]
              d == mgJob[m].dir
              r == [NoRecord EXCEPT !.status = "removed", !.revision = mgRecord[d].revision,
                                    !.source = mgRecord[d].source]
  <1>1. /\ j.pc = "retire" /\ mgRecord' = [mgRecord EXCEPT ![d] = r] /\ Done(m)
        /\ UNCHANGED <<mgRoot, mgRef, mgWithin, mgWorker, mgUsed, mgCaptured>>
    BY DEF Retire, PublishRecord, JobAt, outside
  <1>2. MgShape(j) /\ MgSees(j) /\ d \in Allocs /\ mgRecord[d] \in MgRecords
    BY <1>1, MgAt
  <1>3. Mutation(j.op) /\ mgRecord[d].status = "removing"
    BY <1>1, <1>2 DEF MgShape, MgSees, Mutation
  <1>4. mgRecord[d] # NoRecord
    BY <1>3, MgNothing
  <1>5. r \in MgRecords /\ r.status = "removed" /\ r.startup = NoStartup
    BY <1>2, MgNothing DEF MgRecords
  <1>. QED  BY <1>1, <1>3, <1>4, <1>5, MgEndsWith

\* Allocations nest once.
LEMMA MgLayout ==
    ASSUME MgInv, NEW d \in Allocs, mgWithin[d] # NoAlloc
    PROVE  mgWithin[d] \in Allocs /\ mgWithin[mgWithin[d]] = NoAlloc /\ mgWithin[d] # d
  <1>1. mgWithin \in Layouts
    BY DEF MgInv, MgTypes
  <1>2. mgWithin[d] \in Allocs
    BY <1>1, MgConstants
  <1>3. mgWithin[mgWithin[d]] = NoAlloc
    BY <1>1, MgConstants
  <1>. QED  BY <1>2, <1>3

LEMMA ClaimMg ==
    ASSUME MgInv, NEW m \in Managers, Claim(m)
    PROVE  MgInv'
  <1>. DEFINE j == mgJob[m]
              d == mgJob[m].dir
              s == mgJob[m].source
              config == IF j.op = "clean_fork" THEN ForkConfiguration(s) ELSE j.refresh
              r == [NoRecord EXCEPT !.status = "preparing", !.revision = 1, !.config = config,
                                    !.refresh = config, !.source = s]
  <1>1. /\ Preparing(j.pc) /\ mgRecord[d] = NoRecord
        /\ UNCHANGED <<mgRoot, mgRef, mgWithin, mgWorker, mgUsed, mgCaptured>>
    BY DEF Claim, outside
  <1>2. CASE Done(m) /\ UNCHANGED mgRecord
    BY <1>1, <1>2, MgEnds
  <1>3. CASE /\ d \notin mgRoot /\ (j.op = "clean_fork" => SourceReady(m, s))
             /\ mgRecord' = [mgRecord EXCEPT ![d] = r] /\ UNCHANGED <<mgJob, mgTree, mgLease>>
    <2>1. j.pc \in {"prepare", "clean_fork"}
      BY <1>1 DEF Preparing
    <2>2. MgShape(j) /\ MgHolds(m, j) /\ MgSees(j) /\ j \in MgJobs /\ d \in Allocs
      BY <2>1, MgAt
    <2>3. /\ Preparing(j.op) /\ Mutation(j.op)
          /\ IF j.op = "clean_fork" THEN IsSource(s) ELSE s = NoSource
      BY <2>1, <2>2 DEF MgShape, Preparing, Mutation
    <2>4. config \in MgConfigs /\ s \in MgSources
      <3>1. j.refresh \in MgConfigs /\ s \in MgSources
        BY <2>2 DEF MgJobs
      <3>2. CASE j.op = "clean_fork"
        <4>1. s.dir \in Allocs
          BY <2>3, <3>2 DEF IsSource
        <4>2. mgRecord[s.dir] \in MgRecords
          BY <4>1 DEF MgInv, MgTypes
        <4>. QED  BY <3>1, <3>2, <4>2 DEF ForkConfiguration, MgRecords, MgStartups
      <3>. QED  BY <3>1, <3>2
    <2>5. /\ r \in MgRecords /\ r.status = "preparing" /\ r.startup = NoStartup
          /\ r.source = s /\ r.config = config
      <3>. HIDE DEF config
      <3>. QED  BY <2>4, MgNothing DEF MgRecords
    <2>6. r # NoRecord
      BY <2>5, MgNothing
    <2>. HIDE DEF r, config
    <2>7. /\ mgRecord' \in [Allocs -> MgRecords] /\ mgRecord'[d] = r
          /\ \A e \in Allocs : e # d => mgRecord'[e] = mgRecord[e]
      BY <1>3, <2>2, <2>5 DEF MgInv, MgTypes
    <2>8. MgTypes'
      BY <1>1, <1>3, <2>7 DEF MgInv, MgTypes
    <2>9. mgWithin[d] # NoAlloc => /\ mgWithin[d] \in Allocs /\ mgWithin[d] # d
                                   /\ mgRecord[mgWithin[d]] = NoRecord /\ mgWithin[d] \in mgRoot
      BY <2>1, <2>2, <2>3, MgLayout DEF MgSees, Nested
    <2>10. \A e \in Allocs : mgWithin[e] = d => mgRecord[e] = NoRecord /\ e # d
      BY <1>3, <2>2, MgLayout, MgConstants DEF MgInv, MgOuter
    <2>11. ASSUME NEW n \in Managers PROVE MgSees(mgJob[n])'
      <3>. DEFINE i == mgJob[n]
      <3>0. i = mgJob'[n] /\ MgShape(i) /\ MgSees(i) /\ MgHolds(n, i)
        BY <1>3 DEF MgInv, MgAllJobs
      <3>1. CASE i.pc = "free"
        BY <1>3, <3>1 DEF MgSees
      <3>2. CASE n = m
        <4>1. ~Nested(d)'
          BY <1>1, <1>3, <2>7, <2>9 DEF Nested
        <4>. QED  BY <1>1, <1>3, <2>1, <3>0, <3>2, <4>1 DEF MgSees
      <3>3. CASE n # m /\ i.pc # "free"
        <4>1. i.dir \in Allocs
          BY <3>0, <3>3 DEF MgShape
        <4>2. i.pc \notin {"tree", "lease"} => mgRecord'[i.dir] = mgRecord[i.dir]
          BY <2>1, <2>3, <2>7, <3>3, <4>1, MgAlone
        <4>3. ASSUME i.pc \in {"lease", "prepare", "clean_fork"}, Preparing(i.op)
              PROVE  mgWithin[i.dir] # d
          <5>. SUFFICES ASSUME mgWithin[i.dir] = d PROVE FALSE
            OBVIOUS
          <5>1. mgWithin[d] = NoAlloc
            BY <2>2, <4>1, MgLayout, MgConstants
          <5>. DEFINE k == [who |-> m, at |-> Top, mode |-> "exclusive"]
          <5>2. k \in mgTree
            BY <2>1, <2>2, <2>3, <5>1 DEF MgHolds
          <5>3. PICK l \in mgTree : l.who = n /\ l.at = Top
            BY <3>0, <4>3 DEF MgHolds
          <5>4. k.at = Top /\ k.who = m /\ k.mode = "exclusive"
            OBVIOUS
          <5>. HIDE DEF k
          <5>5. k.mode = "shared"
            BY <3>3, <5>2, <5>3, <5>4 DEF MgInv, MgLocks
          <5>. QED  BY <5>4, <5>5
        <4>4. i.pc \in {"lease", "prepare", "clean_fork"} /\ Preparing(i.op) => ~Nested(i.dir)'
          <5>1. mgWithin[i.dir] # NoAlloc => mgWithin[i.dir] \in Allocs
            BY <4>1, MgLayout
          <5>. QED  BY <1>1, <2>7, <3>0, <4>3, <5>1 DEF MgSees, Nested
        <4>. QED  BY <1>1, <1>3, <3>0, <3>3, <4>2, <4>4 DEF MgSees
      <3>. QED  BY <3>1, <3>2, <3>3
    <2>12. MgAllJobs'
      <3>1. \A n \in Managers : MgShape(mgJob'[n]) /\ MgHolds(n, mgJob[n])'
        BY <1>1, <1>3 DEF MgInv, MgAllJobs, MgHolds
      <3>. QED  BY <2>11, <3>1 DEF MgAllJobs
    <2>13. MgBlank'
      BY <2>5, <2>7 DEF MgInv, MgBlank
    <2>14. MgOuter'
      BY <1>1, <2>7, <2>9 DEF MgInv, MgOuter
    <2>15. NoNesting'
      <3>1. ASSUME NEW e \in Allocs, mgWithin[e] # NoAlloc
            PROVE  mgRecord'[e] = NoRecord \/ mgRecord'[mgWithin[e]] = NoRecord
        <4>1. mgWithin[e] \in Allocs
          BY <3>1, MgLayout
        <4>. QED  BY <2>7, <2>9, <2>10, <3>1, <4>1 DEF MgInv, NoNesting
      <3>. QED  BY <1>1, <3>1 DEF NoNesting
    <2>16. ReadyIsWhole'
      <3>1. mgWorker[d] = NoLife
        BY <2>1, <2>3, MgNoWorker
      <3>. QED  BY <1>1, <2>5, <2>7, <3>1 DEF MgInv, ReadyIsWhole
    <2>17. MgLeased'
      BY <1>1, <1>3 DEF MgInv, MgLeased
    <2>18. MgStarted'
      BY <1>1, <2>5, <2>7 DEF MgInv, MgStarted
    <2>19. r.source # NoSource => <<s.dir, [life |-> s.life, revision |-> s.revision, config |-> r.config]>>
                                    \in mgCaptured
      <3>. SUFFICES ASSUME r.source # NoSource
                    PROVE  <<s.dir, [life |-> s.life, revision |-> s.revision, config |-> r.config]>>
                              \in mgCaptured
        OBVIOUS
      <3>. DEFINE st == mgRecord[s.dir].startup
      <3>1. j.op = "clean_fork" /\ IsSource(s) /\ SourceReady(m, s)
        BY <1>3, <2>3, <2>5
      <3>2. s.dir \in Allocs /\ s.life # NoLife
        BY <3>1 DEF IsSource
      <3>3. st.life = s.life /\ st.revision = s.revision
        BY <3>1 DEF SourceReady
      <3>4. r.config = st.config
        BY <2>5, <3>1 DEF config, ForkConfiguration
      <3>5. st \in MgStartups
        BY <3>2 DEF MgInv, MgTypes, MgRecords
      <3>6. st = [life |-> s.life, revision |-> s.revision, config |-> r.config]
        BY <3>3, <3>4, <3>5 DEF MgStartups
      <3>7. st # NoStartup
        BY <3>2, <3>3, MgNothing
      <3>8. <<s.dir, st>> \in mgCaptured
        BY <3>2, <3>7 DEF MgInv, MgStarted
      <3>. QED  BY <3>6, <3>8
    <2>20. ForkFromCapture'
      BY <1>1, <2>5, <2>7, <2>19 DEF MgInv, ForkFromCapture
    <2>21. MgLocks(mgTree') /\ MgLocks(mgLease')
      BY <1>3 DEF MgInv
    <2>. QED  BY <2>8, <2>12, <2>13, <2>14, <2>15, <2>16, <2>17, <2>18, <2>20, <2>21 DEF MgInv
  <1>. QED  BY <1>2, <1>3 DEF Claim, PublishRecord

\* A removal finds no record in the directories it takes along.
LEMMA MgErases ==
    ASSUME MgInv, NEW m \in Managers, DeleteTree(m)
    PROVE  /\ mgJob[m].pc = "delete" /\ mgRecord[mgJob[m].dir].status = "removing"
           /\ mgJob[m].dir \in Allocs /\ mgRecord[mgJob[m].dir] # NoRecord
           /\ \A e \in Allocs : mgWithin[e] = mgJob[m].dir => mgRecord[e] = NoRecord
           /\ mgRecord' = mgRecord
  <1>. DEFINE d == mgJob[m].dir
  <1>1. mgJob[m].pc = "delete" /\ mgRecord' = [x \in Allocs |-> IF x \in Inner(d) THEN NoRecord ELSE mgRecord[x]]
    BY DEF DeleteTree, JobAt
  <1>2. MgShape(mgJob[m]) /\ MgSees(mgJob[m]) /\ d \in Allocs
    BY <1>1, MgAt
  <1>3. mgRecord[d].status = "removing"
    BY <1>1, <1>2 DEF MgSees
  <1>4. mgRecord[d] # NoRecord
    BY <1>3, MgNothing
  <1>5. \A e \in Allocs : mgWithin[e] = d => mgRecord[e] = NoRecord
    BY <1>2, <1>4, MgConstants DEF MgInv, NoNesting
  <1>6. mgRecord' = mgRecord
    BY <1>1, <1>5 DEF MgInv, MgTypes, Inner
  <1>. QED  BY <1>1, <1>2, <1>3, <1>4, <1>5, <1>6

LEMMA DeleteTreeMg ==
    ASSUME MgInv, NEW m \in Managers, DeleteTree(m)
    PROVE  MgInv'
  <1>. DEFINE j == mgJob[m]
              d == mgJob[m].dir
  <1>1. /\ j.pc = "delete" /\ mgRecord[d].status = "removing" /\ d \in Allocs
        /\ mgRecord[d] # NoRecord /\ mgRecord' = mgRecord
        /\ \A e \in Allocs : mgWithin[e] = d => mgRecord[e] = NoRecord
    BY MgErases
  <1>2. /\ mgRoot' = mgRoot \ ({d} \cup Inner(d))
        /\ mgRef' = [x \in Allocs |-> mgRef[x] /\ x # d /\ x \notin Inner(d)]
        /\ Proceed(m, "retire")
        /\ UNCHANGED <<mgTree, mgLease, mgWithin, mgWorker, mgUsed, mgCaptured>>
    BY DEF DeleteTree, outside
  <1>3. /\ mgJob' = [mgJob EXCEPT ![m] = mgJob'[m]] /\ mgJob' \in [Managers -> MgJobs]
        /\ mgJob'[m].pc = "retire" /\ mgJob'[m].op = j.op /\ mgJob'[m].dir = d
        /\ mgJob'[m].source = j.source
    BY <1>2, MgProceeds DEF MgPcs
  <1>4. ASSUME NEW e \in Allocs, mgRecord[e] # NoRecord, e # d
        PROVE  (e \in mgRoot' <=> e \in mgRoot) /\ (mgRef'[e] <=> mgRef[e])
    BY <1>1, <1>2, <1>4 DEF Inner
  <1>5. MgShape(j) /\ MgHolds(m, j)
    BY <1>1, MgAt
  <1>6. MgTypes'
    BY <1>1, <1>2, <1>3 DEF MgInv, MgTypes
  <1>7. ASSUME NEW e \in Allocs, mgWithin[e] # NoAlloc, mgWithin[e] # d
        PROVE  mgWithin[e] \in mgRoot' <=> mgWithin[e] \in mgRoot
    BY <1>1, <1>2, <1>7, MgLayout, MgConstants DEF Inner
  <1>8. MgAllJobs'
    <2>1. MgShape(mgJob'[m]) /\ MgHolds(m, mgJob[m])' /\ MgSees(mgJob[m])'
      BY <1>1, <1>2, <1>3, <1>5 DEF MgShape, MgHolds, MgSees
    <2>2. ASSUME NEW n \in Managers, n # m
          PROVE  MgShape(mgJob'[n]) /\ MgHolds(n, mgJob[n])' /\ MgSees(mgJob[n])'
      <3>. DEFINE i == mgJob[n]
      <3>1. mgJob'[n] = i
        BY <1>3, <2>2 DEF MgInv, MgTypes
      <3>2. MgShape(i) /\ MgHolds(n, i) /\ MgSees(i)
        BY DEF MgInv, MgAllJobs
      <3>3. MgHolds(n, mgJob[n])'
        BY <1>2, <3>1, <3>2 DEF MgHolds
      <3>4. CASE i.pc = "free"
        BY <3>1, <3>2, <3>3, <3>4 DEF MgSees
      <3>5. CASE i.pc # "free"
        <4>1. i.dir \in Allocs
          BY <3>2, <3>5 DEF MgShape
        <4>2. Nested(i.dir)' <=> Nested(i.dir)
          BY <1>1, <1>2, <3>1 DEF Nested
        <4>3. i.pc \in {"prepare", "clean_fork"} /\ mgWithin[i.dir] # NoAlloc => mgWithin[i.dir] \in mgRoot'
          <5>. SUFFICES ASSUME i.pc \in {"prepare", "clean_fork"}, mgWithin[i.dir] # NoAlloc
                        PROVE  mgWithin[i.dir] \in mgRoot'
            OBVIOUS
          <5>1. Preparing(i.op)
            BY <3>2 DEF MgShape, Preparing
          <5>2. mgWithin[i.dir] # d /\ mgWithin[i.dir] \in mgRoot
            BY <1>1, <3>2, <5>1 DEF MgSees, Nested
          <5>. QED  BY <1>7, <4>1, <5>2
        <4>4. i.pc \in {"reference", "ready"} => i.dir \in mgRoot'
          BY <1>1, <1>4, <1>5, <2>2, <3>2, <4>1, MgAlone, MgNothing DEF MgSees, MgShape, Mutation
        <4>5. i.pc = "ready" => mgRef'[i.dir]
          BY <1>1, <1>4, <1>5, <2>2, <3>2, <4>1, MgAlone, MgNothing DEF MgSees, MgShape, Mutation
        <4>6. MgSees(mgJob[n])'
          BY <1>1, <1>2, <3>1, <3>2, <4>2, <4>3, <4>4, <4>5 DEF MgSees
        <4>. QED  BY <3>1, <3>2, <3>3, <4>6
      <3>. QED  BY <3>4, <3>5
    <2>. QED  BY <2>1, <2>2 DEF MgAllJobs
  <1>9. MgBlank' /\ NoNesting' /\ MgStarted' /\ ForkFromCapture' /\ MgLeased'
    BY <1>1, <1>2 DEF MgInv, MgBlank, NoNesting, MgStarted, ForkFromCapture, MgLeased
  <1>10. MgOuter'
    BY <1>1, <1>2, <1>7 DEF MgInv, MgOuter
  <1>11. ReadyIsWhole'
    <2>1. \A e \in Allocs : mgRecord[e].status = "ready" => e # d /\ mgRecord[e] # NoRecord
      BY <1>1, MgNothing
    <2>. QED  BY <1>1, <1>2, <1>4, <2>1 DEF MgInv, ReadyIsWhole
  <1>12. MgLocks(mgTree') /\ MgLocks(mgLease')
    BY <1>2 DEF MgInv
  <1>. QED  BY <1>6, <1>8, <1>9, <1>10, <1>11, <1>12 DEF MgInv

LEMMA WorkerStartsMg ==
    ASSUME MgInv, NEW d \in Allocs, NEW l \in Incarnations, WorkerStarts(d, l)
    PROVE  MgInv'
  <1>. DEFINE lock == [who |-> l, at |-> d, mode |-> "shared"]
  <1>1. /\ mgWorker[d] = NoLife /\ l \notin mgUsed /\ mgRecord[d].status = "ready"
        /\ Grants(mgLease, d, "shared")
        /\ mgWorker' = [mgWorker EXCEPT ![d] = l] /\ mgUsed' = mgUsed \cup {l}
        /\ mgLease' = mgLease \cup {lock}
        /\ UNCHANGED <<mgRecord, mgRoot, mgRef, mgTree, mgJob, mgCaptured, mgWithin>>
    BY DEF WorkerStarts
  <1>2. lock \in MgLock(Managers \cup Incarnations, Allocs)
    BY DEF MgLock
  <1>3. MgTypes'
    BY <1>1, <1>2 DEF MgInv, MgTypes
  <1>4. MgLocks(mgTree') /\ MgLocks(mgLease')
    BY <1>1, MgLockOne DEF MgInv
  <1>5. MgAllJobs'
    <2>1. \A n \in Managers : MgShape(mgJob'[n]) /\ MgHolds(n, mgJob[n])'
      BY <1>1 DEF MgInv, MgAllJobs, MgHolds
    <2>2. \A n \in Managers : MgSees(mgJob[n])'
      BY <1>1 DEF MgInv, MgAllJobs, MgSees, Nested
    <2>. QED  BY <2>1, <2>2 DEF MgAllJobs
  <1>6. MgBlank' /\ MgOuter' /\ NoNesting' /\ MgStarted' /\ ForkFromCapture'
    BY <1>1 DEF MgInv, MgBlank, MgOuter, NoNesting, MgStarted, ForkFromCapture
  <1>7. mgWorker'[d] = l /\ \A e \in Allocs : e # d => mgWorker'[e] = mgWorker[e]
    BY <1>1 DEF MgInv, MgTypes
  <1>8. ReadyIsWhole'
    BY <1>1, <1>7 DEF MgInv, ReadyIsWhole
  <1>9. MgLeased'
    <2>1. l # NoLife
      BY MgConstants
    <2>2. \A e \in Allocs : e # d => mgWorker[e] # l
      BY <1>1, <2>1 DEF MgInv, MgLeased
    <2>. QED  BY <1>1, <1>7, <2>1, <2>2 DEF MgInv, MgLeased
  <1>. QED  BY <1>3, <1>4, <1>5, <1>6, <1>8, <1>9 DEF MgInv

LEMMA LeaseholderEndsMg ==
    ASSUME MgInv, NEW d \in Allocs, LeaseholderEnds(d)
    PROVE  MgInv'
  <1>1. /\ mgWorker[d] # NoLife /\ mgWorker' = [mgWorker EXCEPT ![d] = NoLife]
        /\ mgLease' = Unlocked(mgLease, mgWorker[d])
        /\ UNCHANGED <<mgRecord, mgRoot, mgRef, mgTree, mgJob, mgUsed, mgCaptured, mgWithin>>
    BY DEF LeaseholderEnds
  <1>2. mgWorker[d] \in Incarnations
    BY <1>1 DEF MgInv, MgTypes
  <1>3. MgTypes'
    BY <1>1 DEF MgInv, MgTypes, Unlocked
  <1>4. MgLocks(mgTree') /\ MgLocks(mgLease')
    BY <1>1, MgUnlock DEF MgInv
  <1>5. MgAllJobs'
    <2>1. \A n \in Managers : n # mgWorker[d]
      BY <1>2, MgConstants
    <2>2. \A n \in Managers : MgShape(mgJob'[n]) /\ MgHolds(n, mgJob[n])'
      BY <1>1, <2>1 DEF MgInv, MgAllJobs, MgHolds, Unlocked
    <2>3. \A n \in Managers : MgSees(mgJob[n])'
      BY <1>1 DEF MgInv, MgAllJobs, MgSees, Nested
    <2>. QED  BY <2>2, <2>3 DEF MgAllJobs
  <1>6. MgBlank' /\ MgOuter' /\ NoNesting' /\ MgStarted' /\ ForkFromCapture'
    BY <1>1 DEF MgInv, MgBlank, MgOuter, NoNesting, MgStarted, ForkFromCapture
  <1>7. mgWorker'[d] = NoLife /\ \A e \in Allocs : e # d => mgWorker'[e] = mgWorker[e]
    BY <1>1 DEF MgInv, MgTypes
  <1>8. ReadyIsWhole'
    BY <1>1, <1>7 DEF MgInv, ReadyIsWhole
  <1>9. MgLeased'
    <2>1. \A e \in Allocs : e # d /\ mgWorker[e] # NoLife => mgWorker[e] # mgWorker[d]
      BY <1>1 DEF MgInv, MgLeased
    <2>2. \A e \in Allocs : e # d /\ mgWorker[e] # NoLife =>
              [who |-> mgWorker[e], at |-> e, mode |-> "shared"] \in mgLease'
      BY <1>1, <2>1 DEF MgInv, MgLeased, Unlocked
    <2>. QED  BY <1>1, <1>7, <2>1, <2>2 DEF MgInv, MgLeased
  <1>. QED  BY <1>3, <1>4, <1>5, <1>6, <1>8, <1>9 DEF MgInv

LEMMA NextMg ==
    ASSUME MgInv, [MgNext]_mgVars
    PROVE  MgInv'
  <1>1. CASE UNCHANGED mgVars
    <2>1. UNCHANGED <<mgWithin, mgRecord, mgRoot, mgRef, mgTree, mgLease, mgJob, mgWorker, mgUsed,
                      mgCaptured>>
      BY <1>1 DEF mgVars
    <2>2. MgTypes' /\ MgLocks(mgTree') /\ MgLocks(mgLease')
      BY <2>1 DEF MgInv, MgTypes
    <2>3. MgAllJobs'
      BY <2>1 DEF MgInv, MgAllJobs, MgHolds, MgSees, Nested
    <2>. QED  BY <2>1, <2>2, <2>3, MgRest DEF MgInv
  <1>2. ASSUME NEW m \in Managers, NEW job \in HubRequests, Request(m, job) PROVE MgInv'
    BY <1>2, RequestMg
  <1>3. ASSUME NEW m \in Managers,
               \/ TakeTree(m) \/ TakeLease(m) \/ Claim(m) \/ Resume(m)
               \/ CreateDirectories(m) \/ WriteReference(m) \/ PublishReady(m) \/ ApplyRefresh(m)
               \/ CaptureStartup(m) \/ BeginRemoval(m) \/ DeleteTree(m) \/ Retire(m)
        PROVE  MgInv'
    BY <1>3, TakeTreeMg, TakeLeaseMg, ClaimMg, ResumeMg, CreateDirectoriesMg, WriteReferenceMg,
       PublishReadyMg, ApplyRefreshMg, CaptureStartupMg, BeginRemovalMg, DeleteTreeMg, RetireMg
  <1>4. ASSUME NEW m \in Managers, Inspect(m) \/ ManagerDies(m) PROVE MgInv'
    <2>1. Done(m) /\ UNCHANGED <<mgWithin, mgRecord, mgRoot, mgRef, mgWorker, mgUsed, mgCaptured>>
      BY <1>4 DEF Inspect, ManagerDies, outside
    <2>. QED  BY <2>1, MgEnds
  <1>5. ASSUME NEW d \in Allocs, NEW l \in Incarnations, WorkerStarts(d, l) PROVE MgInv'
    BY <1>5, WorkerStartsMg
  <1>6. ASSUME NEW d \in Allocs, LeaseholderEnds(d) PROVE MgInv'
    BY <1>6, LeaseholderEndsMg
  <1>. QED  BY <1>1, <1>2, <1>3, <1>4, <1>5, <1>6 DEF MgNext

\* What no step does to a record: revive it, or take its revision back.
MgKept(before, after) ==
    /\ before.status \in {"removing", "removed"} => after.status \in {"removing", "removed"}
    /\ after.revision >= before.revision

LEMMA MgKeptSame == ASSUME NEW r \in MgRecords PROVE MgKept(r, r)
  BY DEF MgKept, MgRecords

LEMMA MgReplacedOne ==
    ASSUME MgInv, NEW e \in Allocs, NEW r, mgRecord' = [mgRecord EXCEPT ![e] = r],
           MgKept(mgRecord[e], r)
    PROVE  \A d \in Allocs : MgKept(mgRecord[d], mgRecord'[d])
  <1>1. mgRecord'[e] = r /\ \A d \in Allocs : d # e => mgRecord'[d] = mgRecord[d]
    BY DEF MgInv, MgTypes
  <1>2. \A d \in Allocs : MgKept(mgRecord[d], mgRecord[d])
    BY MgKeptSame DEF MgInv, MgTypes
  <1>. QED  BY <1>1, <1>2

LEMMA MgRetires ==
    ASSUME MgInv, [MgNext]_mgVars
    PROVE  \A d \in Allocs : MgKept(mgRecord[d], mgRecord'[d])
  <1>1. CASE mgRecord' = mgRecord
    BY <1>1, MgKeptSame DEF MgInv, MgTypes
  <1>2. ASSUME NEW m \in Managers, Claim(m), mgRecord' # mgRecord
        PROVE  \A d \in Allocs : MgKept(mgRecord[d], mgRecord'[d])
    <2>. DEFINE j == mgJob[m]
                config == IF j.op = "clean_fork" THEN ForkConfiguration(j.source) ELSE j.refresh
                r == [NoRecord EXCEPT !.status = "preparing", !.revision = 1, !.config = config,
                                      !.refresh = config, !.source = j.source]
    <2>1. j.pc \in {"prepare", "clean_fork"} /\ mgRecord[j.dir] = NoRecord /\ mgRecord' = [mgRecord EXCEPT ![j.dir] = r]
      BY <1>2 DEF Claim, PublishRecord, Preparing
    <2>2. r.revision = 1
      BY MgNothing DEF MgRecords
    <2>. HIDE DEF r
    <2>3. MgKept(NoRecord, r)
      BY <2>2, MgNothing DEF MgKept
    <2>. QED  BY <2>1, <2>3, MgAt, MgReplacedOne
  <1>3. ASSUME NEW m \in Managers, PublishReady(m)
        PROVE  \A d \in Allocs : MgKept(mgRecord[d], mgRecord'[d])
    <2>. DEFINE d == mgJob[m].dir
                r == [mgRecord[d] EXCEPT !.status = "ready"]
    <2>1. mgJob[m].pc = "ready" /\ mgRecord' = [mgRecord EXCEPT ![d] = r]
      BY <1>3 DEF PublishReady, PublishRecord, JobAt
    <2>2. d \in Allocs /\ mgRecord[d] \in MgRecords /\ mgRecord[d].status = "preparing"
      BY <2>1, MgAt DEF MgSees
    <2>3. MgKept(mgRecord[d], r)
      BY <2>2 DEF MgKept, MgRecords
    <2>. QED  BY <2>1, <2>2, <2>3, MgReplacedOne
  <1>4. ASSUME NEW m \in Managers, ApplyRefresh(m), mgRecord' # mgRecord
        PROVE  \A d \in Allocs : MgKept(mgRecord[d], mgRecord'[d])
    <2>. DEFINE j == mgJob[m]
                d == mgJob[m].dir
                r == MgWith(mgRecord[d], j.refresh)
    <2>1. j.pc = "refresh" /\ mgRecord[d].status = "ready" /\ mgRecord' = [mgRecord EXCEPT ![d] = r]
      BY <1>4 DEF ApplyRefresh, PublishRecord, JobAt, MgWith
    <2>2. d \in Allocs /\ mgRecord[d] \in MgRecords /\ j \in MgJobs
      BY <2>1, MgAt
    <2>3. r.revision = mgRecord[d].revision + 1 /\ mgRecord[d].revision \in Nat
      BY <2>2, MgRefreshed DEF MgJobs, MgRecords
    <2>. HIDE DEF r
    <2>4. MgKept(mgRecord[d], r)
      BY <2>1, <2>3 DEF MgKept
    <2>. QED  BY <2>1, <2>2, <2>4, MgReplacedOne
  <1>5. ASSUME NEW m \in Managers, CaptureStartup(m), mgRecord' # mgRecord
        PROVE  \A d \in Allocs : MgKept(mgRecord[d], mgRecord'[d])
    <2>. DEFINE j == mgJob[m]
                d == mgJob[m].dir
                startup == [life |-> j.life, revision |-> mgRecord[d].revision,
                            config |-> Effective(mgRecord[d])]
                r == [mgRecord[d] EXCEPT !.startup = startup]
    <2>1. j.pc = "capture_startup" /\ mgRecord[d].status = "ready" /\ mgRecord' = [mgRecord EXCEPT ![d] = r]
      BY <1>5 DEF CaptureStartup, PublishRecord, JobAt
    <2>2. d \in Allocs /\ mgRecord[d] \in MgRecords
      BY <2>1, MgAt
    <2>3. MgKept(mgRecord[d], r)
      BY <2>1, <2>2 DEF MgKept, MgRecords
    <2>. QED  BY <2>1, <2>2, <2>3, MgReplacedOne
  <1>6. ASSUME NEW m \in Managers, BeginRemoval(m), mgRecord' # mgRecord
        PROVE  \A d \in Allocs : MgKept(mgRecord[d], mgRecord'[d])
    <2>. DEFINE d == mgJob[m].dir
                r == [mgRecord[d] EXCEPT !.status = "removing"]
    <2>1. mgJob[m].pc = "remove" /\ mgRecord' = [mgRecord EXCEPT ![d] = r]
      BY <1>6 DEF BeginRemoval, PublishRecord, JobAt
    <2>2. d \in Allocs /\ mgRecord[d] \in MgRecords
      BY <2>1, MgAt
    <2>3. MgKept(mgRecord[d], r)
      BY <2>2 DEF MgKept, MgRecords
    <2>. QED  BY <2>1, <2>2, <2>3, MgReplacedOne
  <1>7. ASSUME NEW m \in Managers, Retire(m)
        PROVE  \A d \in Allocs : MgKept(mgRecord[d], mgRecord'[d])
    <2>. DEFINE d == mgJob[m].dir
                r == [NoRecord EXCEPT !.status = "removed", !.revision = mgRecord[d].revision,
                                      !.source = mgRecord[d].source]
    <2>1. mgJob[m].pc = "retire" /\ mgRecord' = [mgRecord EXCEPT ![d] = r]
      BY <1>7 DEF Retire, PublishRecord, JobAt
    <2>2. d \in Allocs /\ mgRecord[d] \in MgRecords
      BY <2>1, MgAt
    <2>3. r.status = "removed" /\ r.revision = mgRecord[d].revision
      BY <2>2, MgNothing DEF MgRecords
    <2>4. mgRecord[d].revision \in Nat
      BY <2>2 DEF MgRecords
    <2>. HIDE DEF r
    <2>5. MgKept(mgRecord[d], r)
      BY <2>3, <2>4 DEF MgKept
    <2>. QED  BY <2>1, <2>2, <2>5, MgReplacedOne
  <1>8. ASSUME NEW m \in Managers,
               \/ TakeTree(m) \/ TakeLease(m) \/ Resume(m) \/ CreateDirectories(m) \/ WriteReference(m)
               \/ Inspect(m) \/ ManagerDies(m)
        PROVE  mgRecord' = mgRecord
    BY <1>8 DEF TakeTree, TakeLease, Resume, CreateDirectories, WriteReference, Inspect,
    ManagerDies
  <1>9. ASSUME NEW m \in Managers, DeleteTree(m) PROVE mgRecord' = mgRecord
    BY <1>9, MgErases
  <1>10. ASSUME NEW m \in Managers, NEW job \in HubRequests, Request(m, job) PROVE mgRecord' = mgRecord
    BY <1>10 DEF Request
  <1>11. ASSUME NEW d \in Allocs, NEW l \in Incarnations, WorkerStarts(d, l) PROVE mgRecord' = mgRecord
    BY <1>11 DEF WorkerStarts
  <1>12. ASSUME NEW d \in Allocs, LeaseholderEnds(d) PROVE mgRecord' = mgRecord
    BY <1>12 DEF LeaseholderEnds
  <1>13. CASE UNCHANGED mgVars
    BY <1>1, <1>13 DEF mgVars
  <1>. QED
    BY <1>1, <1>2, <1>3, <1>4, <1>5, <1>6, <1>7, <1>8, <1>9, <1>10, <1>11, <1>12, <1>13 DEF MgNext

\* An allocation that says it is ready is whole, and stays so under a running worker;
\* none comes to lie inside another; a fork has the configuration its parent's worker
\* was started with; and a retired path is not used again: for every number of manager
\* processes, of requests and of deaths between any two of their steps, over
\* directories nested once (service.cpp, directory_tree_lock.cpp).
THEOREM AllocationsAlwaysSound == ModelSpec => AllocationsSound
  <1>. DEFINE Inv == part = "allocations" => MgInv
  <1>1. ModelInit => Inv
    BY InitMg DEF ModelInit
  <1>2. Inv /\ [ModelNext]_ModelVars => Inv'
    <2>. SUFFICES ASSUME Inv, [ModelNext]_ModelVars PROVE Inv'
      OBVIOUS
    <2>1. part' = part
      BY DEF ModelNext, ModelVars, Others
    <2>2. CASE part = "allocations"
      <3>1. [MgNext]_mgVars
        BY <2>2 DEF ModelNext, ModelVars, Others
      <3>. QED  BY <2>1, <2>2, <3>1, NextMg
    <2>. QED  BY <2>1, <2>2
  <1>3. Inv => (part = "allocations" => ReadyIsWhole /\ NoNesting /\ ForkFromCapture)
    BY DEF MgInv
  <1>4. Inv /\ [ModelNext]_ModelVars =>
          [\A d \in Allocs :
              /\ mgRecord[d].status \in {"removing", "removed"} =>
                     mgRecord'[d].status \in {"removing", "removed"}
              /\ mgRecord'[d].revision >= mgRecord[d].revision]_mgVars
    <2>. SUFFICES ASSUME Inv, [ModelNext]_ModelVars, ~UNCHANGED mgVars
                  PROVE  \A d \in Allocs :
                            /\ mgRecord[d].status \in {"removing", "removed"} =>
                                   mgRecord'[d].status \in {"removing", "removed"}
                            /\ mgRecord'[d].revision >= mgRecord[d].revision
      OBVIOUS
    <2>1. part = "allocations" /\ MgNext
      BY DEF ModelNext, ModelVars, Others
    <2>. QED  BY <2>1, MgRetires DEF MgKept
  <1>. QED  BY <1>1, <1>2, <1>3, <1>4, PTL DEF ModelSpec, AllocationsSound, RetiredForEver

(***************************************************************************)
(* One model call.  A delta is at one place of a pipeline (the server's    *)
(* chunk, the rendezvous, the consumer's hand, the accumulators), and its  *)
(* number says how many are before it; that is what makes the response one *)
(* attempt's stream.  The flags of the reader say how the stream ended,    *)
(* whoever closed the channel meanwhile.                                   *)
(***************************************************************************)
Deltas == Nat \X Nat \X {0, 1}

Producers ==
    [at : {"none", "write", "header", "body", "put", "send", "shutdown", "ended"},
     queue : Seq(Deltas), ec : {"none", "more", "closed", "error", "garbled"},
     sent : Nat, ended : BOOLEAN, stop : BOOLEAN]
Consumers ==
    [at : {"none", "next", "get", "fold", "hooks", "ended"},
     hand : Deltas \cup {NoDelta}, error : {None, HookFault, Aborted}]
HttpFaults ==
    [kind : {"http"}, stage : {"Write", "Read", "HandleResponse"}, status : Nat,
     code : {"operation_aborted", "transport", "timeout", "decode", "none"}]
Readers ==
    [done : BOOLEAN, selfAborted : BOOLEAN, faulted : BOOLEAN, abort : BOOLEAN,
     error : {None} \cup HttpFaults, acc : Seq(Deltas), response : Seq(Deltas)]
Handlers ==
    [state : {"RUNNING", "DONE", "ERROR"}, closed : BOOLEAN, offer : Deltas \cup {NoDelta}]

MxTypes ==
    /\ mxDriver \in {"sse", "http", "fetch"}
    /\ mxCall \in {"idle", "attempt", "connect", "exchange", "write", "read", "classify",
                   "sleep", "returned"}
    /\ mxCancelled \in BOOLEAN
    /\ mxProd \in Producers /\ mxCons \in Consumers
    /\ mxReader \in Readers /\ mxHandler \in Handlers
    /\ mxSeen \in Seq(Deltas)

\* The loop of operator(): attempts, waits and connects go together.
MxCounts ==
    /\ mxAttempt \in Nat /\ mxStarted \in Nat /\ mxBackoff \in Nat /\ mxSlept \in Seq(Nat)
    /\ Len(mxSlept) = mxAttempt /\ mxAttempt <= MaxRetryAttempts
    /\ mxCall \in {"idle", "attempt"} => mxStarted <= mxAttempt
    /\ mxStarted <= mxAttempt + 1
    /\ mxCall = "sleep" => mxAttempt < MaxRetryAttempts
    /\ mxBackoff = IF mxSlept = <<>> THEN InitialBackoff ELSE CappedDouble(mxSlept[Len(mxSlept)])
    /\ BackoffSchedule

\* What the reader's flags say, and where the call may be with them.
MxFlags ==
    /\ mxReader.selfAborted => mxReader.done /\ mxReader.abort
    /\ mxReader.faulted => mxReader.done
    /\ mxCall \in {"classify", "sleep"} \/ (mxCall = "attempt" /\ mxAttempt > 0) =>
          ~mxReader.selfAborted /\ ~mxReader.faulted
    /\ mxDriver = "fetch" =>
          /\ mxCall # "exchange"
          /\ mxReader = FreshReader /\ mxSeen = <<>> /\ mxHandler = FreshHandler
    /\ mxDriver # "fetch" => mxCall \notin {"write", "read"}
    /\ mxCall = "connect" =>
          mxReader = FreshReader /\ mxSeen = <<>> /\ mxHandler = FreshHandler
    /\ mxCall = "exchange" => mxCons.at # "none" /\ mxProd.at # "none"
    /\ mxCall = "exchange" /\ mxCons.at # "ended" => ~mxReader.faulted
    /\ mxCall = "exchange" /\ mxCons.at = "ended" =>
          /\ mxCons.error = None => ~mxReader.faulted
          /\ mxCons.error # None => mxReader.faulted \/ mxCancelled
    /\ mxCall # "returned" => mxResult.kind # "response"
    /\ mxFailure.kind # "response"
    /\ CompletedIsReturned

\* A stream from its first delta on; its last one ends it.
Numbered(s, attempt, base) ==
    \A i \in 1 .. Len(s) : s[i][1] = attempt /\ s[i][2] = base + i
Unended(s) == \A i \in 1 .. Len(s) : i < Len(s) => s[i][3] # 0
WholeStream(s) == Len(s) > 0 /\ s[Len(s)][3] = 0 /\ Unended(s) /\ Numbered(s, mxAttempt, 0)

\* Deltas before the one that is offered, and before those still in the chunk.
Folded == Len(mxReader.acc) + IF mxCons.at = "fold" THEN 1 ELSE 0
Offered == IF mxHandler.offer = NoDelta THEN 0 ELSE 1

PipeHand ==
    mxCons.at = "fold" =>
        /\ mxCons.hand # NoDelta
        /\ mxCons.hand[1] = mxAttempt /\ mxCons.hand[2] = Len(mxReader.acc) + 1
PipeOffer ==
    mxHandler.offer # NoDelta =>
        /\ mxProd.at = "send"
        /\ mxHandler.offer[1] = mxAttempt /\ mxHandler.offer[2] = Folded + 1
PipeSent ==
    /\ mxProd.at \in {"write", "header", "body", "put", "send"}
       \/ (mxProd.at = "shutdown" /\ mxDriver = "http") =>
          Folded + Offered + Len(mxProd.queue) = mxProd.sent
    /\ mxProd.at \in {"write", "header"} => mxProd.sent = 0
    /\ mxProd.at \in {"write", "header", "body"} => mxProd.queue = <<>>
MxPipe ==
    /\ PipeHand /\ PipeOffer /\ PipeSent
    /\ Numbered(mxProd.queue, mxAttempt, Folded + Offered)

\* What the accumulators hold during the exchange.
MxFold ==
    /\ Numbered(mxReader.acc, mxAttempt, 0) /\ Unended(mxReader.acc)
    /\ mxReader.response # <<>> => WholeStream(mxReader.response)
    /\ mxReader.done /\ ~mxReader.faulted /\ ~mxReader.abort => mxReader.response # <<>>
    /\ Len(mxReader.acc) > 0 /\ mxReader.acc[Len(mxReader.acc)][3] = 0 =>
          mxReader.done /\ mxCons.at \in {"hooks", "next", "ended"}
    /\ mxCons.at \in {"next", "get", "fold"} => mxSeen = mxReader.acc
    /\ mxCons.at = "hooks" => mxReader.acc = Append(mxSeen, mxCons.hand)

\* The hooks are at most one delta behind, at any time.
MxBehind ==
    /\ \A i \in 1 .. Len(mxReader.acc) : mxReader.acc[i][2] = i
    /\ \/ mxSeen = mxReader.acc
       \/ Len(mxReader.acc) > 0 /\ mxReader.acc = Append(mxSeen, mxReader.acc[Len(mxReader.acc)])

\* What is published was read: its end is known.
MxRead == mxProd.at \in {"put", "send", "shutdown"} => mxProd.ec # "none"

MxInv ==
    /\ MxTypes /\ MxRead /\ MxCounts /\ MxFlags /\ MxBehind
    /\ mxCall = "exchange" => MxFold
    /\ mxCall = "exchange" /\ mxCons.at # "ended" => MxPipe
    /\ ResponseIsOneStream

LEMMA NoDeltaIsNone == NoDelta \notin Deltas
  BY DEF NoDelta, Deltas

LEMMA NoDeltas == <<>> \in Seq(Deltas) /\ Len(<<>>) = 0
  OBVIOUS

LEMMA FreshTyped ==
    /\ NoProducer \in Producers /\ NoConsumer \in Consumers
    /\ FreshReader \in Readers /\ FreshHandler \in Handlers
  <1>1. NoProducer \in Producers
    BY DEF NoProducer, Producers
  <1>2. NoConsumer \in Consumers
    BY DEF NoConsumer, Consumers
  <1>3. FreshReader \in Readers
    BY DEF FreshReader, Readers
  <1>4. FreshHandler \in Handlers
    BY DEF FreshHandler, Handlers
  <1>. QED  BY <1>1, <1>2, <1>3, <1>4

LEMMA InitMx == MxInit => MxInv
  <1>. SUFFICES ASSUME MxInit PROVE MxInv
    OBVIOUS
  <1>1. MxTypes
    <2>1. mxDriver \in {"sse", "http", "fetch"}
      BY ExchangeBounds DEF MxInit
    <2>. QED  BY <2>1, FreshTyped, NoDeltas DEF MxInit, MxTypes
  <1>2. MxCounts
    BY ExchangeBounds DEF MxInit, MxCounts, BackoffSchedule
  <1>3. MxFlags
    BY DEF MxInit, MxFlags, FreshReader, CompletedIsReturned, None
  <1>4. MxBehind
    BY DEF MxInit, MxBehind, FreshReader
  <1>5. ResponseIsOneStream
    BY DEF MxInit, ResponseIsOneStream, None
  <1>6. MxRead
    BY DEF MxInit, MxRead, NoProducer
  <1>. QED  BY <1>1, <1>2, <1>3, <1>4, <1>5, <1>6 DEF MxInv, MxInit

\* The flags and the accumulators: the reader without the error it may report.
SameStream(r) ==
    /\ r.done = mxReader.done /\ r.selfAborted = mxReader.selfAborted
    /\ r.faulted = mxReader.faulted /\ r.abort = mxReader.abort
    /\ r.acc = mxReader.acc /\ r.response = mxReader.response

LEMMA PipeNats ==
    ASSUME MxInv
    PROVE  /\ Folded \in Nat /\ Offered \in {0, 1} /\ Len(mxReader.acc) \in Nat
           /\ Len(mxProd.queue) \in Nat /\ mxProd.sent \in Nat /\ mxAttempt \in Nat
           /\ mxProd.queue \in Seq(Deltas) /\ mxReader.acc \in Seq(Deltas)
  BY DEF MxInv, MxTypes, MxCounts, Folded, Offered, Readers, Producers

\* The producer touches the chunk, the rendezvous and the error, and nothing else.
LEMMA ProducerFrame ==
    ASSUME MxInv, mxCall = "exchange", ProducerKeeps, mxProd' \in Producers,
           mxReader' \in Readers, mxHandler' \in Handlers, SameStream(mxReader'),
           mxProd'.at # "none", MxRead',
           mxCons.at # "ended" /\ MxPipe /\ Folded' = Folded =>
              PipeOffer' /\ PipeSent' /\ Numbered(mxProd.queue, mxAttempt, Folded + Offered)'
    PROVE  MxInv'
  <1>1. MxCounts'
    BY DEF MxInv, MxCounts, BackoffSchedule, ProducerKeeps
  <1>2. MxFlags'
    BY DEF MxInv, MxFlags, ProducerKeeps, SameStream, CompletedIsReturned
  <1>3. MxBehind'
    BY DEF MxInv, MxBehind, ProducerKeeps, SameStream
  <1>4. MxFold'
    BY DEF MxInv, MxFold, ProducerKeeps, SameStream, Numbered, Unended, WholeStream
  <1>5. ResponseIsOneStream'
    BY DEF MxInv, ResponseIsOneStream, ProducerKeeps, SameStream, MxFlags
  <1>6. MxTypes'
    BY DEF MxInv, MxTypes, ProducerKeeps
  <1>7. Folded' = Folded
    BY DEF Folded, ProducerKeeps, SameStream
  <1>8. mxCons.at # "ended" /\ MxPipe => MxPipe'
    BY <1>7 DEF MxPipe, PipeHand, ProducerKeeps, SameStream
  <1>. QED  BY <1>1, <1>2, <1>3, <1>4, <1>5, <1>6, <1>8 DEF MxInv, ProducerKeeps

\* pump()'s catch, whatever the fault.
PumpFaults ==
    /\ mxProd' = [mxProd EXCEPT !.at = "ended", !.ended = TRUE, !.queue = <<>>]
    /\ \E f \in HttpFaults : mxReader' = [mxReader EXCEPT !.error = f]
    /\ mxHandler' = [Finished(mxHandler, "ERROR") EXCEPT !.offer = NoDelta]

LEMMA PumpFaultMx ==
    ASSUME MxInv, mxCall = "exchange", ProducerKeeps, PumpFaults
    PROVE  MxInv'
  <1>1. mxProd' \in Producers /\ mxProd'.at = "ended" /\ mxProd'.queue = <<>> /\ MxRead'
    <2>1. mxProd' = [mxProd EXCEPT !.at = "ended", !.ended = TRUE, !.queue = <<>>]
      BY DEF PumpFaults
    <2>. QED  BY <2>1, NoDeltas DEF MxInv, MxTypes, Producers, MxRead
  <1>2. mxHandler' \in Handlers /\ mxHandler'.offer = NoDelta
    BY DEF MxInv, MxTypes, PumpFaults, Finished, Handlers
  <1>3. mxReader' \in Readers /\ SameStream(mxReader')
    <2>1. PICK f \in HttpFaults : mxReader' = [mxReader EXCEPT !.error = f]
      BY DEF PumpFaults
    <2>2. f \in {None} \cup HttpFaults
      OBVIOUS
    <2>. HIDE DEF HttpFaults
    <2>. QED  BY <2>1, <2>2 DEF MxInv, MxTypes, Readers, SameStream
  <1>4. PipeOffer' /\ PipeSent' /\ Numbered(mxProd.queue, mxAttempt, Folded + Offered)'
    BY <1>1, <1>2 DEF PipeOffer, PipeSent, Numbered
  <1>. QED  BY <1>1, <1>2, <1>3, <1>4, ProducerFrame

LEMMA FaultsTyped ==
    /\ Http("Write", 0, "operation_aborted") \in HttpFaults
    /\ Http("Read", 0, "operation_aborted") \in HttpFaults
    /\ Http("HandleResponse", 0, "operation_aborted") \in HttpFaults
    /\ Http("Write", 0, "transport") \in HttpFaults
    /\ Http("Read", 0, "transport") \in HttpFaults
    /\ Http("Read", 0, "timeout") \in HttpFaults
    /\ Http("HandleResponse", 0, "transport") \in HttpFaults
    /\ Http("HandleResponse", 0, "decode") \in HttpFaults
    /\ \A status \in Statuses : Http("HandleResponse", status, "none") \in HttpFaults
  BY DEF Http, HttpFaults, Statuses

LEMMA MoveMx ==
    ASSUME MxInv, mxCall = "exchange", ProducerKeeps,
           NEW at \in {"header", "body", "put", "shutdown"}, Move(at),
           \/ mxProd.at = "write" /\ at = "header"
           \/ mxProd.at = "header" /\ at = "body"
           \/ mxProd.at = "put" /\ mxProd.queue = <<>> /\ at \in {"body", "shutdown"}
           \/ mxProd.at = "send" /\ mxHandler.offer = NoDelta /\ at = "put"
           \/ mxProd.at = "shutdown" /\ mxDriver = "http" /\ at = "put"
    PROVE  MxInv'
  <1>1. /\ mxProd' \in Producers /\ mxProd'.at = at
        /\ mxProd'.queue = mxProd.queue /\ mxProd'.sent = mxProd.sent
        /\ mxProd'.ec = mxProd.ec
    BY DEF MxInv, MxTypes, Move, Producers
  <1>2. ASSUME MxPipe, Folded' = Folded
        PROVE  PipeOffer' /\ PipeSent' /\ Numbered(mxProd.queue, mxAttempt, Folded + Offered)'
    <2>1. Offered' = Offered
      BY DEF Offered, Move
    <2>2. PipeOffer'
      BY <1>1, <1>2 DEF MxPipe, PipeOffer, Move, ProducerKeeps
    <2>3. PipeSent'
      BY <1>1, <1>2, <2>1 DEF MxPipe, PipeSent, ProducerKeeps
    <2>4. Numbered(mxProd.queue, mxAttempt, Folded + Offered)'
      BY <1>1, <1>2, <2>1 DEF MxPipe, Numbered, ProducerKeeps
    <2>. QED  BY <2>2, <2>3, <2>4
  <1>3. MxRead'
    BY <1>1 DEF MxInv, MxRead
  <1>. QED  BY <1>1, <1>2, <1>3, ProducerFrame DEF Move, SameStream, MxInv, MxTypes

LEMMA PumpExitMx ==
    ASSUME MxInv, mxCall = "exchange", ProducerKeeps, mxProd.at # "send", PumpExit
    PROVE  MxInv'
  <1>1. mxProd' \in Producers /\ mxProd'.queue = mxProd.queue /\ mxProd'.at = "ended" /\ MxRead'
    BY DEF MxInv, MxTypes, PumpExit, Producers, MxRead
  <1>2. mxHandler' \in Handlers /\ mxHandler'.offer = mxHandler.offer
    BY DEF MxInv, MxTypes, PumpExit, Finished, Handlers
  <1>3. ASSUME MxPipe, Folded' = Folded
        PROVE  PipeOffer' /\ PipeSent' /\ Numbered(mxProd.queue, mxAttempt, Folded + Offered)'
    <2>1. Offered' = Offered
      BY <1>2 DEF Offered
    <2>2. PipeOffer' /\ PipeSent'
      BY <1>1, <1>2, <1>3 DEF MxPipe, PipeOffer, PipeSent
    <2>3. Numbered(mxProd.queue, mxAttempt, Folded + Offered)'
      BY <1>1, <1>3, <2>1 DEF MxPipe, Numbered, ProducerKeeps
    <2>. QED  BY <2>2, <2>3
  <1>. QED  BY <1>1, <1>2, <1>3, ProducerFrame DEF PumpExit, SameStream, MxInv, MxTypes

LEMMA InterruptedMx == ASSUME MxInv, Interrupted PROVE MxInv'
  <1>1. PICK at \in {"write", "header", "body", "shutdown"} :
              PumpFault(CASE at = "write" -> "Write" [] at = "header" -> "Read"
                          [] OTHER -> "HandleResponse", 0, "operation_aborted")
    BY DEF Interrupted
  <1>2. PumpFaults
    <2>1. CASE at = "write"
      BY <1>1, <2>1, FaultsTyped DEF PumpFault, PumpFaults
    <2>2. CASE at = "header"
      BY <1>1, <2>2, FaultsTyped DEF PumpFault, PumpFaults
    <2>3. CASE at \in {"body", "shutdown"}
      BY <1>1, <2>3, FaultsTyped DEF PumpFault, PumpFaults
    <2>. QED  BY <2>1, <2>2, <2>3
  <1>. QED  BY <1>2, PumpFaultMx DEF Interrupted

LEMMA WriteRequestMx == ASSUME MxInv, WriteRequest PROVE MxInv'
  <1>1. CASE Move("header")
    BY <1>1, MoveMx DEF WriteRequest
  <1>2. CASE PumpFault("Write", 0, "transport")
    <2>1. PumpFaults
      BY <1>2, FaultsTyped DEF PumpFault, PumpFaults
    <2>. QED  BY <2>1, PumpFaultMx DEF WriteRequest
  <1>. QED  BY <1>1, <1>2 DEF WriteRequest

LEMMA ReadHeaderMx == ASSUME MxInv, ReadHeader PROVE MxInv'
  <1>1. CASE Move("body")
    BY <1>1, MoveMx DEF ReadHeader
  <1>2. CASE PumpFault("Read", 0, "transport")
    <2>1. PumpFaults
      BY <1>2, FaultsTyped DEF PumpFault, PumpFaults
    <2>. QED  BY <2>1, PumpFaultMx DEF ReadHeader
  <1>3. ASSUME NEW status \in Statuses, PumpFault("HandleResponse", status, "none")
        PROVE  MxInv'
    <2>1. PumpFaults
      BY <1>3, FaultsTyped DEF PumpFault, PumpFaults
    <2>. QED  BY <2>1, PumpFaultMx DEF ReadHeader
  <1>. QED  BY <1>1, <1>2, <1>3 DEF ReadHeader

\* A chunk read from the network goes on where the last one ended.
LEMMA RunNumbered ==
    ASSUME MxInv, NEW n \in Nat, NEW terminal \in BOOLEAN
    PROVE  /\ DeltaRun(n, terminal) \in Seq(Deltas) /\ Len(DeltaRun(n, terminal)) = n
           /\ Numbered(DeltaRun(n, terminal), mxAttempt, mxProd.sent)
  <1>1. mxAttempt \in Nat /\ mxProd.sent \in Nat
    BY PipeNats
  <1>2. ASSUME NEW i \in 1 .. n
        PROVE  <<mxAttempt, mxProd.sent + i, IF terminal /\ i = n THEN 0 ELSE 1>> \in Deltas
    BY <1>1 DEF Deltas
  <1>3. DeltaRun(n, terminal) \in Seq(Deltas) /\ Len(DeltaRun(n, terminal)) = n
    BY <1>2 DEF DeltaRun
  <1>4. Numbered(DeltaRun(n, terminal), mxAttempt, mxProd.sent)
    BY <1>3 DEF Numbered, DeltaRun
  <1>. QED  BY <1>3, <1>4

LEMMA ChunkMx ==
    ASSUME MxInv, mxCall = "exchange", ProducerKeeps, UNCHANGED <<mxReader, mxHandler>>,
           NEW run \in Seq(Deltas), Numbered(run, mxAttempt, mxProd.sent),
           NEW ec \in {"more", "closed", "error", "garbled"},
           NEW at \in {"put", "shutdown"}, NEW total \in Nat,
           mxProd' = [mxProd EXCEPT !.at = at, !.queue = run, !.sent = total, !.ec = ec],
           mxCons.at # "ended" =>
              /\ (mxProd.at = "body" /\ at = "put") \/ mxProd.at = "header"
              /\ total = mxProd.sent + Len(run)
    PROVE  MxInv'
  <1>1. Len(run) \in Nat
    OBVIOUS
  <1>2. mxProd' \in Producers /\ mxProd'.at = at /\ mxProd'.queue = run /\ mxProd'.sent = total
        /\ mxProd'.ec = ec
    BY DEF MxInv, MxTypes, Producers
  <1>3. ASSUME mxCons.at # "ended", MxPipe, Folded' = Folded
        PROVE  PipeOffer' /\ PipeSent' /\ Numbered(mxProd.queue, mxAttempt, Folded + Offered)'
    <2>1. Offered' = Offered /\ Offered = 0 /\ mxHandler.offer = NoDelta
      BY <1>3 DEF Offered, MxPipe, PipeOffer
    <2>2. Folded + Offered = mxProd.sent
      BY <1>3, NoDeltas, PipeNats DEF MxPipe, PipeSent
    <2>3. PipeOffer'
      BY <2>1 DEF PipeOffer
    <2>4. PipeSent'
      BY <1>1, <1>2, <1>3, <2>1, <2>2 DEF PipeSent
    <2>5. Numbered(mxProd.queue, mxAttempt, Folded + Offered)'
      BY <1>1, <1>2, <1>3, <2>1, <2>2 DEF Numbered, ProducerKeeps
    <2>. QED  BY <2>3, <2>4, <2>5
  <1>4. mxReader' \in Readers /\ mxHandler' \in Handlers /\ SameStream(mxReader')
    BY DEF SameStream, MxInv, MxTypes
  <1>5. mxProd'.at # "none" /\ MxRead'
    BY <1>2 DEF MxRead
  <1>. QED  BY <1>2, <1>3, <1>4, <1>5, ProducerFrame, Zenon

LEMMA ReadSomeMx == ASSUME MxInv, ReadSome PROVE MxInv'
  <1>0. /\ mxCall = "exchange" /\ mxProd.at = "body" /\ ProducerKeeps
        /\ UNCHANGED <<mxReader, mxHandler>>
    BY Zenon DEF ReadSome
  <1>1. PICK n \in 0 .. MaxDeltas - mxProd.sent, terminal \in BOOLEAN,
             ec \in {"more", "closed", "error", "garbled"} :
             mxProd' = [mxProd EXCEPT !.at = "put", !.queue = DeltaRun(n, terminal),
                                      !.sent = @ + n, !.ec = ec]
    BY Zenon DEF ReadSome
  <1>2. n \in Nat /\ mxProd.sent + n \in Nat
    BY ExchangeBounds, PipeNats
  <1>. DEFINE run == DeltaRun(n, terminal)
  <1>3. mxProd' = [mxProd EXCEPT !.at = "put", !.queue = run, !.sent = mxProd.sent + n, !.ec = ec]
    BY <1>1
  <1>4. run \in Seq(Deltas) /\ Len(run) = n /\ Numbered(run, mxAttempt, mxProd.sent)
    BY <1>2, RunNumbered, Zenon
  <1>. HIDE DEF run
  <1>. QED  BY <1>0, <1>2, <1>3, <1>4, ChunkMx, Zenon

LEMMA ReadResponseMx == ASSUME MxInv, ReadResponse PROVE MxInv'
  <1>0. /\ mxCall = "exchange" /\ mxProd.at = "header" /\ ProducerKeeps
    BY Zenon DEF ReadResponse
  <1>1. ASSUME NEW n \in 0 .. MaxDeltas, NEW terminal \in BOOLEAN, NEW ec \in {"closed", "garbled"},
               mxProd' = [mxProd EXCEPT !.at = "shutdown", !.queue = DeltaRun(n, terminal),
                                        !.sent = n, !.ec = ec],
               UNCHANGED <<mxReader, mxHandler>>
        PROVE  MxInv'
    <2>1. mxCons.at # "ended" => mxProd.sent = 0
      BY <1>0 DEF MxInv, MxPipe, PipeSent
    <2>2. n \in Nat
      BY ExchangeBounds
    <2>3. mxCons.at # "ended" => n = mxProd.sent + n
      BY <2>1, <2>2
    <2>4. ec \in {"more", "closed", "error", "garbled"}
      OBVIOUS
    <2>. DEFINE run == DeltaRun(n, terminal)
    <2>5. run \in Seq(Deltas) /\ Len(run) = n /\ Numbered(run, mxAttempt, mxProd.sent)
      BY <2>2, RunNumbered, Zenon
    <2>6. mxProd' = [mxProd EXCEPT !.at = "shutdown", !.queue = run, !.sent = n, !.ec = ec]
      BY <1>1
    <2>. HIDE DEF run
    <2>7. mxCons.at # "ended" =>
            /\ (mxProd.at = "body" /\ "shutdown" = "put") \/ mxProd.at = "header"
            /\ n = mxProd.sent + Len(run)
      BY <1>0, <2>3, <2>5
    <2>8. UNCHANGED <<mxReader, mxHandler>> /\ "shutdown" \in {"put", "shutdown"}
      BY <1>1
    <2>. QED  BY <1>0, <2>2, <2>4, <2>5, <2>6, <2>7, <2>8, ChunkMx, Zenon
  <1>2. CASE PumpFault("Read", 0, "timeout")
    <2>1. PumpFaults
      BY <1>2, FaultsTyped DEF PumpFault, PumpFaults
    <2>. QED  BY <2>1, PumpFaultMx, <1>0
  <1>3. ASSUME NEW status \in Statuses, PumpFault("HandleResponse", status, "none")
        PROVE  MxInv'
    <2>1. PumpFaults
      BY <1>3, FaultsTyped DEF PumpFault, PumpFaults
    <2>. QED  BY <2>1, PumpFaultMx, <1>0
  <1>. QED  BY <1>1, <1>2, <1>3, Zenon DEF ReadResponse

LEMMA OfferMx == ASSUME MxInv, Offer PROVE MxInv'
  <1>0. mxCall = "exchange" /\ ProducerKeeps /\ mxProd.at = "put" /\ mxProd.queue # <<>>
    BY DEF Offer
  <1>. DEFINE q == mxProd.queue
  <1>1. q \in Seq(Deltas) /\ Head(q) \in Deltas /\ Tail(q) \in Seq(Deltas)
        /\ Len(Tail(q)) = Len(q) - 1 /\ Len(q) \in Nat \ {0} /\ Head(q) = q[1]
        /\ \A i \in 1 .. Len(Tail(q)) : Tail(q)[i] = q[i + 1]
    BY <1>0, PipeNats
  <1>. DEFINE h == Head(q)  t == Tail(q)
  <1>2. mxProd' = [mxProd EXCEPT !.at = "send", !.queue = t]
        /\ mxHandler' = [mxHandler EXCEPT !.offer = h]
    BY DEF Offer
  <1>3. h \in Deltas /\ t \in Seq(Deltas)
    BY <1>1
  <1>. HIDE DEF h, t
  <1>4. /\ mxProd' \in Producers /\ mxProd'.at = "send" /\ mxProd'.queue = t
        /\ mxProd'.sent = mxProd.sent /\ mxProd'.ec = mxProd.ec
    BY <1>2, <1>3 DEF MxInv, MxTypes, Producers
  <1>a. MxRead'
    BY <1>0, <1>4 DEF MxInv, MxRead
  <1>5. mxHandler' \in Handlers /\ mxHandler'.offer = h /\ h # NoDelta
    BY <1>2, <1>3, NoDeltaIsNone DEF MxInv, MxTypes, Handlers
  <1>6. mxReader' \in Readers /\ SameStream(mxReader')
    BY DEF SameStream, MxInv, MxTypes, Offer
  <1>7. ASSUME MxPipe, Folded' = Folded
        PROVE  PipeOffer' /\ PipeSent' /\ Numbered(mxProd.queue, mxAttempt, Folded + Offered)'
    <2>1. Offered = 0 /\ Offered' = 1
      BY <1>0, <1>5, <1>7 DEF Offered, MxPipe, PipeOffer
    <2>2. h[1] = mxAttempt /\ h[2] = Folded + 1
      BY <1>1, <1>7, <2>1, PipeNats DEF MxPipe, Numbered, h
    <2>3. PipeOffer'
      BY <1>4, <1>5, <1>7, <2>2, <1>0 DEF PipeOffer, ProducerKeeps
    <2>4. PipeSent'
      <3>1. Len(t) = Len(q) - 1 /\ Len(q) \in Nat \ {0}
        BY <1>1 DEF t
      <3>2. Folded + Offered + Len(q) = mxProd.sent
        BY <1>0, <1>7 DEF PipeSent, MxPipe
      <3>3. Folded' + Offered' + Len(t) = mxProd.sent
        BY <1>7, <2>1, <3>1, <3>2, PipeNats
      <3>. QED  BY <1>4, <3>3 DEF PipeSent
    <2>5. Numbered(t, mxAttempt, Folded + 1)
      <3>1. ASSUME NEW i \in 1 .. Len(t) PROVE t[i][1] = mxAttempt /\ t[i][2] = Folded + 1 + i
        <4>1. i + 1 \in 1 .. Len(q) /\ t[i] = q[i + 1]
          BY <1>1 DEF t
        <4>2. q[i + 1][1] = mxAttempt /\ q[i + 1][2] = Folded + Offered + (i + 1)
          BY <1>7, <4>1 DEF MxPipe, Numbered
        <4>3. Folded \in Nat /\ i \in Nat
          BY PipeNats
        <4>. QED  BY <2>1, <4>1, <4>2, <4>3
      <3>. QED  BY <3>1 DEF Numbered
    <2>6. Numbered(mxProd.queue, mxAttempt, Folded + Offered)'
      BY <1>0, <1>4, <1>7, <2>1, <2>5 DEF Numbered, ProducerKeeps
    <2>. QED  BY <2>3, <2>4, <2>6
  <1>. QED  BY <1>0, <1>4, <1>a, <1>5, <1>6, <1>7, ProducerFrame

LEMMA PutAbortedMx == ASSUME MxInv, PutAborted PROVE MxInv'
  <1>0. mxCall = "exchange" /\ ProducerKeeps
    BY DEF PutAborted
  <1>1. CASE mxDriver = "sse"
    <2>1. mxProd' = [mxProd EXCEPT !.at = "shutdown", !.queue = <<>>, !.ec = "closed"]
      BY <1>1 DEF PutAborted
    <2>2. mxProd' \in Producers /\ mxProd'.at = "shutdown" /\ mxProd'.queue = <<>> /\ MxRead'
      BY <2>1, NoDeltas DEF MxInv, MxTypes, Producers, MxRead
    <2>3. mxHandler' \in Handlers /\ mxHandler'.offer = NoDelta
      BY <1>1 DEF MxInv, MxTypes, Handlers, PutAborted
    <2>4. mxReader' \in Readers /\ SameStream(mxReader')
      BY <1>1 DEF SameStream, MxInv, MxTypes, PutAborted
    <2>5. PipeOffer' /\ PipeSent' /\ Numbered(mxProd.queue, mxAttempt, Folded + Offered)'
      BY <1>0, <1>1, <2>2, <2>3 DEF PipeOffer, PipeSent, Numbered, ProducerKeeps
    <2>. QED  BY <1>0, <2>2, <2>3, <2>4, <2>5, ProducerFrame
  <1>2. CASE mxDriver # "sse"
    <2>1. mxProd' = [mxProd EXCEPT !.at = "ended", !.ended = TRUE, !.queue = <<>>]
      BY <1>2 DEF PutAborted
    <2>2. mxProd' \in Producers /\ mxProd'.at = "ended" /\ mxProd'.queue = <<>> /\ MxRead'
      BY <2>1, NoDeltas DEF MxInv, MxTypes, Producers, MxRead
    <2>3. mxHandler' \in Handlers /\ mxHandler'.offer = NoDelta
      BY <1>2 DEF MxInv, MxTypes, Handlers, PutAborted, Finished
    <2>4. mxReader' \in Readers /\ SameStream(mxReader')
      BY <1>2 DEF SameStream, MxInv, MxTypes, PutAborted
    <2>5. PipeOffer' /\ PipeSent' /\ Numbered(mxProd.queue, mxAttempt, Folded + Offered)'
      BY <1>0, <2>2, <2>3 DEF PipeOffer, PipeSent, Numbered, ProducerKeeps
    <2>. QED  BY <1>0, <2>2, <2>3, <2>4, <2>5, ProducerFrame
  <1>. QED  BY <1>1, <1>2

LEMMA SentRequestMx == ASSUME MxInv, SentRequest PROVE MxInv'
  BY MoveMx DEF SentRequest

LEMMA PutDoneMx == ASSUME MxInv, PutDone PROVE MxInv'
  <1>0. mxCall = "exchange" /\ ProducerKeeps /\ mxProd.at = "put" /\ mxProd.queue = <<>>
    BY DEF PutDone
  <1>1. CASE Move("body")
    BY <1>0, <1>1, MoveMx
  <1>2. CASE Move("shutdown")
    BY <1>0, <1>2, MoveMx
  <1>3. CASE PumpExit
    BY <1>0, <1>3, PumpExitMx
  <1>4. CASE PumpFault("HandleResponse", 0, "transport")
    <2>1. PumpFaults
      BY <1>4, FaultsTyped DEF PumpFault, PumpFaults
    <2>. QED  BY <1>0, <2>1, PumpFaultMx
  <1>5. CASE PumpFault("HandleResponse", 0, "decode")
    <2>1. PumpFaults
      BY <1>5, FaultsTyped DEF PumpFault, PumpFaults
    <2>. QED  BY <1>0, <2>1, PumpFaultMx
  <1>6. mxProd.ec \in {"more", "closed", "error", "garbled"}
    BY <1>0 DEF MxInv, MxTypes, MxRead, Producers
  <1>. QED  BY <1>1, <1>2, <1>3, <1>4, <1>5, <1>6 DEF PutDone

LEMMA ShutStreamMx == ASSUME MxInv, ShutStream PROVE MxInv'
  <1>0. mxCall = "exchange" /\ ProducerKeeps /\ mxProd.at = "shutdown"
    BY DEF ShutStream
  <1>1. CASE mxDriver = "sse"
    BY <1>0, <1>1, PumpExitMx DEF ShutStream
  <1>2. CASE mxDriver # "sse"
    <2>1. mxDriver = "http"
      BY <1>0, <1>2 DEF MxInv, MxTypes, MxFlags
    <2>. QED  BY <1>0, <1>2, <2>1, MoveMx DEF ShutStream
  <1>. QED  BY <1>1, <1>2

\* The consumer touches no more of the producer than its stop flag, and
\* nothing of the call.
SameChunk(p) ==
    p.at = mxProd.at /\ p.queue = mxProd.queue /\ p.sent = mxProd.sent /\ p.ec = mxProd.ec

LEMMA ConsumerFrame ==
    ASSUME MxInv, mxCall = "exchange", ConsumerKeeps,
           mxProd' \in Producers, SameChunk(mxProd'),
           mxCons' \in Consumers, mxCons'.at # "none",
           mxReader' \in Readers, mxHandler' \in Handlers, mxSeen' \in Seq(Deltas),
           mxReader'.selfAborted => mxReader'.done /\ mxReader'.abort,
           mxReader'.faulted => mxReader'.done,
           mxCons'.at # "ended" => ~mxReader'.faulted,
           mxCons'.at = "ended" =>
              /\ mxCons'.error = None => ~mxReader'.faulted
              /\ mxCons'.error # None => mxReader'.faulted \/ mxCancelled,
           MxBehind', MxFold', mxCons'.at # "ended" => MxPipe'
    PROVE  MxInv'
  <1>1. MxCounts'
    BY DEF MxInv, MxCounts, BackoffSchedule, ConsumerKeeps
  <1>2. MxFlags'
    BY DEF MxInv, MxFlags, ConsumerKeeps, SameChunk, CompletedIsReturned
  <1>3. ResponseIsOneStream'
    BY DEF MxInv, ResponseIsOneStream, ConsumerKeeps, MxFlags
  <1>4. MxTypes'
    BY DEF MxInv, MxTypes, ConsumerKeeps
  <1>5. MxRead'
    BY DEF MxInv, MxRead, SameChunk
  <1>. QED  BY <1>1, <1>2, <1>3, <1>4, <1>5 DEF MxInv, ConsumerKeeps

\* ConsumerEnds.
LEMMA EndsTyped ==
    ASSUME MxInv, NEW error \in {None, HookFault, Aborted}, ConsumerEnds(error)
    PROVE  /\ mxCons' \in Consumers /\ mxCons'.at = "ended" /\ mxCons'.error = error
           /\ mxProd' \in Producers /\ SameChunk(mxProd')
  <1>1. mxCons' = [mxCons EXCEPT !.at = "ended", !.error = error, !.hand = NoDelta]
    BY DEF ConsumerEnds
  <1>2. mxCons \in Consumers /\ mxProd \in Producers
    BY DEF MxInv, MxTypes
  <1>3. mxCons' \in Consumers /\ mxCons'.at = "ended" /\ mxCons'.error = error
    BY <1>1, <1>2 DEF Consumers
  <1>4. mxProd' = [mxProd EXCEPT !.stop = TRUE]
    BY DEF ConsumerEnds
  <1>5. mxProd' \in Producers /\ SameChunk(mxProd')
    BY <1>2, <1>4 DEF Producers, SameChunk
  <1>. QED  BY <1>3, <1>5

\* What the exchange's accumulators keep when the consumer stops, whatever the flags.
LEMMA StopKeepsFold ==
    ASSUME MxInv, mxCall = "exchange", ConsumerKeeps, mxSeen' = mxSeen,
           mxReader'.acc = mxReader.acc, mxReader'.response = mxReader.response,
           mxReader.done => mxReader'.done,
           mxReader'.faulted \/ mxReader'.abort
             \/ (mxReader'.done = mxReader.done /\ mxReader'.faulted = mxReader.faulted
                  /\ mxReader'.abort = mxReader.abort),
           mxCons'.at = "ended" \/ mxCons' = mxCons
    PROVE  MxFold' /\ MxBehind'
  <1>1. MxBehind'
    BY DEF MxInv, MxBehind
  <1>2. MxFold'
    BY DEF MxInv, MxFold, ConsumerKeeps, Numbered, Unended, WholeStream
  <1>. QED  BY <1>1, <1>2

LEMMA NextDeltaMx == ASSUME MxInv, NextDelta PROVE MxInv'
  <1>0. /\ mxCall = "exchange" /\ ConsumerKeeps /\ mxCons.at = "next"
        /\ UNCHANGED <<mxReader, mxHandler, mxSeen>>
    BY DEF NextDelta
  <1>1. /\ mxReader' \in Readers /\ mxHandler' \in Handlers /\ mxSeen' \in Seq(Deltas)
        /\ mxReader'.selfAborted => mxReader'.done /\ mxReader'.abort
        /\ ~mxReader'.faulted
    BY <1>0 DEF MxInv, MxTypes, MxFlags
  <1>2. ASSUME NEW error \in {None, Aborted}, ConsumerEnds(error), error # None => mxCancelled
        PROVE  MxInv'
    <2>1. /\ mxCons' \in Consumers /\ mxCons'.at = "ended" /\ mxCons'.error = error
          /\ mxProd' \in Producers /\ SameChunk(mxProd')
      BY <1>2, EndsTyped
    <2>2. MxFold' /\ MxBehind'
      BY <1>0, <2>1, StopKeepsFold
    <2>. QED  BY <1>0, <1>1, <1>2, <2>1, <2>2, ConsumerFrame
  <1>3. ASSUME mxCons' = [mxCons EXCEPT !.at = "get"], UNCHANGED mxProd, ~mxReader.done
        PROVE  MxInv'
    <2>1. mxCons' \in Consumers /\ mxCons'.at = "get"
      BY <1>3 DEF MxInv, MxTypes, Consumers
    <2>2. MxBehind'
      BY <1>0 DEF MxInv, MxBehind
    <2>3. MxFold'
      BY <1>0, <1>3, <2>1 DEF MxInv, MxFold, ConsumerKeeps, Numbered, Unended, WholeStream
    <2>4. Folded' = Folded /\ Offered' = Offered
      BY <1>0, <2>1 DEF Folded, Offered
    <2>5. MxPipe'
      BY <1>0, <1>3, <2>1, <2>4 DEF MxInv, MxPipe, PipeHand, PipeOffer, PipeSent, Numbered,
                                    ConsumerKeeps
    <2>6. mxProd' \in Producers /\ SameChunk(mxProd')
      BY <1>3 DEF MxInv, MxTypes, SameChunk
    <2>. QED  BY <1>0, <1>1, <2>1, <2>2, <2>3, <2>5, <2>6, ConsumerFrame
  <1>4. CASE mxCancelled
    BY <1>2, <1>4 DEF NextDelta
  <1>5. CASE ~mxCancelled /\ mxReader.done
    BY <1>2, <1>5 DEF NextDelta
  <1>6. CASE ~mxCancelled /\ ~mxReader.done
    BY <1>3, <1>6 DEF NextDelta
  <1>. QED  BY <1>4, <1>5, <1>6

LEMMA TakeMx == ASSUME MxInv, Take PROVE MxInv'
  <1>0. /\ mxCall = "exchange" /\ ConsumerKeeps /\ mxCons.at = "get"
        /\ UNCHANGED <<mxReader, mxProd, mxSeen>> /\ mxHandler.offer # NoDelta
    BY DEF Take
  <1>1. mxHandler \in Handlers /\ mxHandler.offer \in Deltas
    BY <1>0 DEF MxInv, MxTypes, Handlers
  <1>2. mxCons' \in Consumers /\ mxCons'.at = "fold" /\ mxCons'.hand = mxHandler.offer
    BY <1>1 DEF MxInv, MxTypes, Consumers, Take
  <1>3. mxHandler' \in Handlers /\ mxHandler'.offer = NoDelta
    BY <1>1 DEF Handlers, Take
  <1>4. /\ mxReader' \in Readers /\ mxSeen' \in Seq(Deltas)
        /\ mxReader'.selfAborted => mxReader'.done /\ mxReader'.abort
        /\ ~mxReader'.faulted
        /\ mxProd' \in Producers /\ SameChunk(mxProd')
    BY <1>0 DEF MxInv, MxTypes, MxFlags, SameChunk
  <1>5. MxBehind'
    BY <1>0 DEF MxInv, MxBehind
  <1>6. MxFold'
    BY <1>0, <1>2 DEF MxInv, MxFold, ConsumerKeeps, Numbered, Unended, WholeStream
  <1>7. MxPipe
    BY <1>0 DEF MxInv
  <1>8. /\ Folded = Len(mxReader.acc) /\ Folded' = Folded + 1 /\ Offered = 1 /\ Offered' = 0
        /\ Folded' + Offered' = Folded + Offered
    BY <1>0, <1>2, <1>3, PipeNats DEF Folded, Offered
  <1>9. MxPipe'
    <2>1. PipeHand'
      BY <1>0, <1>2, <1>7, <1>8 DEF MxPipe, PipeHand, PipeOffer, ConsumerKeeps
    <2>2. PipeOffer' /\ PipeSent'
      BY <1>0, <1>3, <1>7, <1>8 DEF MxPipe, PipeOffer, PipeSent, ConsumerKeeps
    <2>3. Numbered(mxProd.queue, mxAttempt, Folded + Offered)'
      BY <1>0, <1>7, <1>8 DEF MxPipe, Numbered, ConsumerKeeps
    <2>. QED  BY <2>1, <2>2, <2>3 DEF MxPipe
  <1>. QED  BY <1>0, <1>2, <1>3, <1>4, <1>5, <1>6, <1>9, ConsumerFrame

LEMMA TakeAbortedMx == ASSUME MxInv, TakeAborted PROVE MxInv'
  <1>0. /\ mxCall = "exchange" /\ ConsumerKeeps /\ mxCons.at = "get"
        /\ UNCHANGED <<mxHandler, mxSeen>>
        /\ mxReader' = [mxReader EXCEPT !.abort = TRUE, !.done = TRUE]
    BY DEF TakeAborted
  <1>1. /\ mxCons' \in Consumers /\ mxCons'.at = "ended" /\ mxCons'.error = None
        /\ mxProd' \in Producers /\ SameChunk(mxProd')
    BY EndsTyped DEF TakeAborted
  <1>2. mxReader \in Readers
    BY DEF MxInv, MxTypes
  <1>3. /\ mxReader' \in Readers /\ mxReader'.acc = mxReader.acc
        /\ mxReader'.response = mxReader.response /\ mxReader'.done /\ mxReader'.abort
        /\ mxReader'.faulted = mxReader.faulted
    BY <1>0, <1>2 DEF Readers
  <1>4. ~mxReader.faulted /\ mxHandler' \in Handlers /\ mxSeen' \in Seq(Deltas)
    BY <1>0 DEF MxInv, MxFlags, MxTypes
  <1>5. MxFold' /\ MxBehind'
    BY <1>0, <1>1, <1>3, StopKeepsFold
  <1>. QED  BY <1>0, <1>1, <1>3, <1>4, <1>5, ConsumerFrame

LEMMA ConsumerFaultMx ==
    ASSUME MxInv, mxCall = "exchange", ConsumerKeeps, ConsumerFault, mxSeen' = mxSeen
    PROVE  MxInv'
  <1>0. mxReader' = [mxReader EXCEPT !.faulted = TRUE, !.done = TRUE]
    BY DEF ConsumerFault
  <1>1. PICK error \in {HookFault, Aborted} : ConsumerEnds(error)
    BY DEF ConsumerFault
  <1>2. error # None
    BY DEF HookFault, Aborted, None
  <1>3. /\ mxCons' \in Consumers /\ mxCons'.at = "ended" /\ mxCons'.error # None
        /\ mxProd' \in Producers /\ SameChunk(mxProd')
    BY <1>1, <1>2, EndsTyped
  <1>4. mxReader \in Readers
    BY DEF MxInv, MxTypes
  <1>5. /\ mxReader' \in Readers /\ mxReader'.acc = mxReader.acc
        /\ mxReader'.response = mxReader.response /\ mxReader'.done /\ mxReader'.faulted
        /\ mxReader'.abort = mxReader.abort /\ mxReader'.selfAborted = mxReader.selfAborted
    BY <1>0, <1>4 DEF Readers
  <1>6. mxHandler' \in Handlers /\ mxSeen' \in Seq(Deltas)
    BY DEF MxInv, MxTypes, ConsumerFault, Finished, Handlers
  <1>7. mxReader.selfAborted => mxReader.abort
    BY DEF MxInv, MxFlags
  <1>8. MxFold' /\ MxBehind'
    BY <1>3, <1>5, StopKeepsFold
  <1>. QED  BY <1>3, <1>5, <1>6, <1>7, <1>8, ConsumerFrame

LEMMA FoldFaultMx == ASSUME MxInv, FoldFault \/ HookThrows PROVE MxInv'
  BY ConsumerFaultMx DEF FoldFault, HookThrows

\* The delta in hand goes on where the accumulators end.
LEMMA FoldMx == ASSUME MxInv, Fold PROVE MxInv'
  <1>0. /\ mxCall = "exchange" /\ ConsumerKeeps /\ mxCons.at = "fold"
        /\ UNCHANGED <<mxProd, mxSeen>> /\ mxCons' = [mxCons EXCEPT !.at = "hooks"]
    BY DEF Fold
  <1>. DEFINE hand == mxCons.hand
              acc == Append(mxReader.acc, hand)
              n == Len(mxReader.acc)
  <1>1. /\ mxReader \in Readers /\ mxHandler \in Handlers /\ mxCons \in Consumers
        /\ mxReader.acc \in Seq(Deltas) /\ n \in Nat /\ mxAttempt \in Nat
    BY PipeNats DEF MxInv, MxTypes
  <1>2. hand \in Deltas /\ hand[1] = mxAttempt /\ hand[2] = n + 1
    BY <1>0, <1>1 DEF MxInv, MxPipe, PipeHand, Consumers
  <1>3. /\ acc \in Seq(Deltas) /\ Len(acc) = n + 1 /\ acc[n + 1] = hand
        /\ \A i \in 1 .. n : acc[i] = mxReader.acc[i]
    BY <1>1, <1>2
  <1>4. /\ mxCons' \in Consumers /\ mxCons'.at = "hooks" /\ mxCons'.hand = hand
    BY <1>0, <1>1 DEF Consumers
  <1>5. MxFold /\ MxPipe /\ MxBehind
    BY <1>0 DEF MxInv
  <1>6. Numbered(acc, mxAttempt, 0)
    <2>1. ASSUME NEW i \in 1 .. Len(acc) PROVE acc[i][1] = mxAttempt /\ acc[i][2] = 0 + i
      <3>1. CASE i = n + 1
        BY <1>2, <1>3, <3>1
      <3>2. CASE i \in 1 .. n
        BY <1>3, <1>5, <3>2 DEF MxFold, Numbered
      <3>. QED  BY <1>1, <1>3, <3>1, <3>2
    <2>. HIDE DEF acc
    <2>. QED  BY <2>1 DEF Numbered
  <1>7. Unended(acc)
    <2>1. ASSUME NEW i \in 1 .. Len(acc), i < Len(acc) PROVE acc[i][3] # 0
      <3>1. i \in 1 .. n /\ acc[i] = mxReader.acc[i]
        BY <1>1, <1>3, <2>1
      <3>2. CASE i = n
        BY <1>0, <1>5, <3>1, <3>2 DEF MxFold
      <3>3. CASE i < n
        BY <1>5, <3>1, <3>3 DEF MxFold, Unended
      <3>. QED  BY <1>1, <3>1, <3>2, <3>3
    <2>. HIDE DEF acc
    <2>. QED  BY <2>1 DEF Unended
  <1>8. acc = Append(mxSeen, hand) /\ mxReader.acc = mxSeen
    BY <1>0, <1>5 DEF MxFold
  <1>9. /\ mxReader' \in Readers /\ mxHandler' \in Handlers /\ mxReader'.acc = acc
        /\ mxReader'.faulted = mxReader.faulted /\ mxReader'.abort = mxReader.abort
        /\ mxReader'.selfAborted = mxReader.selfAborted
        /\ mxHandler'.offer = mxHandler.offer
        /\ hand[3] = 0 => mxReader'.done /\ mxReader'.response = acc
        /\ hand[3] # 0 => mxReader'.done = mxReader.done /\ mxReader'.response = mxReader.response
    <2>1. CASE hand[3] = 0
      <3>1. /\ mxReader' = [mxReader EXCEPT !.acc = acc, !.response = acc, !.done = TRUE]
            /\ mxHandler' = Finished(mxHandler, "DONE")
        BY <2>1 DEF Fold, Terminal
      <3>. HIDE DEF acc
      <3>. QED  BY <1>1, <1>3, <2>1, <3>1 DEF Readers, Handlers, Finished
    <2>2. CASE hand[3] # 0
      <3>1. /\ mxReader' = [mxReader EXCEPT !.acc = acc] /\ UNCHANGED mxHandler
        BY <2>2 DEF Fold, Terminal
      <3>. HIDE DEF acc
      <3>. QED  BY <1>1, <1>3, <2>2, <3>1 DEF Readers
    <2>. QED  BY <2>1, <2>2
  <1>. HIDE DEF acc, hand, n
  <1>10. (WholeStream(acc) /\ acc # <<>>) \/ hand[3] # 0
    BY <1>1, <1>3, <1>6, <1>7 DEF WholeStream
  <1>11. ~mxReader.faulted /\ (mxReader.selfAborted => mxReader.done /\ mxReader.abort)
    BY <1>0 DEF MxInv, MxFlags
  <1>12. MxBehind'
    <2>1. \A i \in 1 .. Len(acc) : acc[i][2] = i
      BY <1>1, <1>3, <1>6 DEF Numbered
    <2>. QED  BY <1>0, <1>1, <1>3, <1>8, <1>9, <2>1 DEF MxBehind
  <1>13. MxFold'
    <2>1. Numbered(mxReader.acc, mxAttempt, 0)' /\ Unended(mxReader.acc)'
      BY <1>0, <1>6, <1>7, <1>9 DEF ConsumerKeeps, Numbered, Unended
    <2>2. (mxReader.response # <<>> => WholeStream(mxReader.response))'
      BY <1>0, <1>5, <1>9, <1>10 DEF MxFold, WholeStream, ConsumerKeeps, Numbered, Unended
    <2>3. (mxReader.done /\ ~mxReader.faulted /\ ~mxReader.abort => mxReader.response # <<>>)'
      BY <1>5, <1>9, <1>10 DEF MxFold
    <2>4. (Len(mxReader.acc) > 0 /\ mxReader.acc[Len(mxReader.acc)][3] = 0 =>
              mxReader.done /\ mxCons.at \in {"hooks", "next", "ended"})'
      BY <1>3, <1>4, <1>9
    <2>5. (mxCons.at = "hooks" => mxReader.acc = Append(mxSeen, mxCons.hand))'
      BY <1>0, <1>4, <1>8, <1>9
    <2>. QED  BY <1>4, <2>1, <2>2, <2>3, <2>4, <2>5 DEF MxFold
  <1>14. MxPipe'
    <2>1. Folded' = Folded /\ Offered' = Offered
      BY <1>0, <1>1, <1>3, <1>4, <1>9 DEF Folded, Offered, n
    <2>. QED  BY <1>0, <1>4, <1>5, <1>9, <2>1 DEF MxPipe, PipeHand, PipeOffer, PipeSent, Numbered,
                                                  ConsumerKeeps
  <1>15. /\ mxProd' \in Producers /\ SameChunk(mxProd') /\ mxSeen' \in Seq(Deltas)
         /\ mxReader'.selfAborted => mxReader'.done /\ mxReader'.abort
    BY <1>0, <1>9, <1>11 DEF MxInv, MxTypes, SameChunk
  <1>. QED  BY <1>0, <1>4, <1>9, <1>11, <1>12, <1>13, <1>14, <1>15, ConsumerFrame

LEMMA HooksMx == ASSUME MxInv, Hooks PROVE MxInv'
  <1>0. /\ mxCall = "exchange" /\ ConsumerKeeps /\ mxCons.at = "hooks"
        /\ UNCHANGED <<mxReader, mxHandler, mxProd>>
        /\ mxSeen' = Append(mxSeen, mxCons.hand)
    BY DEF Hooks
  <1>1. mxSeen' = mxReader.acc /\ MxFold /\ MxPipe
    BY <1>0 DEF MxInv, MxFold
  <1>2. mxCons' \in Consumers /\ mxCons'.at = "next"
    BY DEF MxInv, MxTypes, Consumers, Hooks
  <1>3. /\ mxReader' \in Readers /\ mxSeen' \in Seq(Deltas) /\ mxHandler' \in Handlers
        /\ mxReader'.selfAborted => mxReader'.done /\ mxReader'.abort
        /\ ~mxReader'.faulted
        /\ mxProd' \in Producers /\ SameChunk(mxProd')
    BY <1>0, <1>1, PipeNats DEF MxInv, MxTypes, MxFlags, SameChunk
  <1>4. MxBehind'
    BY <1>0, <1>1 DEF MxInv, MxBehind
  <1>5. MxFold'
    BY <1>0, <1>1, <1>2 DEF MxFold, ConsumerKeeps, Numbered, Unended, WholeStream
  <1>6. MxPipe'
    <2>1. Folded' = Folded /\ Offered' = Offered
      BY <1>0, <1>2 DEF Folded, Offered
    <2>. QED  BY <1>0, <1>1, <1>2, <2>1 DEF MxPipe, PipeHand, PipeOffer, PipeSent, Numbered,
                                            ConsumerKeeps
  <1>. QED  BY <1>0, <1>2, <1>3, <1>4, <1>5, <1>6, ConsumerFrame

LEMMA AbortReaderMx == ASSUME MxInv, AbortReader PROVE MxInv'
  <1>0. /\ mxCall = "exchange" /\ ConsumerKeeps /\ mxCons.at \in {"get", "hooks"}
        /\ UNCHANGED <<mxProd, mxCons, mxSeen>> /\ mxHandler' = Finished(mxHandler, "ERROR")
    BY DEF AbortReader
  <1>1. mxHandler' \in Handlers /\ mxHandler'.offer = mxHandler.offer
    BY <1>0 DEF MxInv, MxTypes, Handlers, Finished
  <1>2. mxReader \in Readers /\ ~mxReader.faulted
        /\ (mxReader.selfAborted => mxReader.done /\ mxReader.abort)
    BY <1>0 DEF MxInv, MxTypes, MxFlags
  <1>3. /\ mxReader' \in Readers /\ ~mxReader'.faulted /\ mxReader'.done
        /\ mxReader'.selfAborted => mxReader'.abort
        /\ mxReader'.acc = mxReader.acc /\ mxReader'.response = mxReader.response
        /\ mxReader' = mxReader \/ mxReader'.abort
    BY <1>2 DEF Readers, AbortReader
  <1>4. MxFold' /\ MxBehind'
    BY <1>0, <1>3, StopKeepsFold
  <1>5. MxPipe'
    <2>1. Folded' = Folded /\ Offered' = Offered
      BY <1>0, <1>1, <1>3 DEF Folded, Offered
    <2>. QED
      BY <1>0, <1>1, <1>3, <2>1 DEF MxInv, MxPipe, PipeHand, PipeOffer, PipeSent, Numbered,
                                            ConsumerKeeps
  <1>6. /\ mxProd' \in Producers /\ SameChunk(mxProd') /\ mxCons' \in Consumers
        /\ mxCons'.at \in {"get", "hooks"} /\ mxSeen' \in Seq(Deltas)
    BY <1>0 DEF MxInv, MxTypes, SameChunk
  <1>. QED  BY <1>0, <1>1, <1>3, <1>4, <1>5, <1>6, ConsumerFrame

\* A step of the engine that leaves the exchange alone and does not enter it.
LEMMA EngineFrame ==
    ASSUME MxInv, UNCHANGED <<mxDriver, mxProd, mxCons, mxReader, mxHandler, mxSeen>>,
           mxCall' \in {"idle", "attempt", "write", "read", "classify", "sleep", "returned"},
           mxCancelled' \in BOOLEAN, MxCounts', MxFlags', ResponseIsOneStream'
    PROVE  MxInv'
  <1>1. MxTypes'
    BY DEF MxInv, MxTypes
  <1>2. MxRead' /\ MxBehind'
    BY DEF MxInv, MxRead, MxBehind
  <1>. QED  BY <1>1, <1>2 DEF MxInv

LEMMA BeginMx == ASSUME MxInv, Begin PROVE MxInv'
  <1>1. MxCounts'
    BY ExchangeBounds DEF MxCounts, BackoffSchedule, Begin
  <1>2. MxFlags'
    BY DEF MxInv, MxFlags, Begin, CompletedIsReturned, None
  <1>3. ResponseIsOneStream'
    BY DEF ResponseIsOneStream, Begin, None
  <1>4. mxCancelled' \in BOOLEAN
    BY DEF Begin
  <1>. QED  BY <1>1, <1>2, <1>3, <1>4, EngineFrame DEF Begin

LEMMA FreshFlags ==
    /\ ~FreshReader.done /\ ~FreshReader.selfAborted /\ ~FreshReader.faulted
    /\ ~FreshReader.abort /\ FreshReader.acc = <<>> /\ FreshReader.response = <<>>
    /\ FreshHandler.offer = NoDelta
  BY DEF FreshReader, FreshHandler

LEMMA AttemptMx == ASSUME MxInv, Attempt PROVE MxInv'
  <1>1. /\ mxReader' = FreshReader /\ mxHandler' = FreshHandler /\ mxSeen' = <<>>
        /\ mxProd' = NoProducer /\ mxCons' = NoConsumer
    BY DEF MxInv, MxFlags, Attempt, Cleared
  <1>2. /\ mxCall = "attempt" /\ mxCall' \in {"returned", "connect"}
        /\ mxResult'.kind # "response" /\ mxFailure' = mxFailure
    BY DEF MxInv, MxFlags, Attempt, Throw, Aborted
  <1>3. MxTypes' /\ MxRead' /\ MxBehind'
    <2>1. MxTypes'
      BY <1>1, <1>2, FreshTyped, NoDeltas DEF MxInv, MxTypes, Attempt
    <2>2. MxRead'
      BY <1>1 DEF MxRead, NoProducer
    <2>3. MxBehind'
      BY <1>1, FreshFlags DEF MxBehind
    <2>. QED  BY <2>1, <2>2, <2>3
  <1>4. MxCounts'
    BY <1>2, ExchangeBounds DEF MxInv, MxCounts, Attempt, BackoffSchedule, Throw
  <1>5. MxFlags'
    BY <1>1, <1>2, FreshFlags DEF MxInv, MxFlags, CompletedIsReturned
  <1>6. ResponseIsOneStream'
    BY <1>2 DEF ResponseIsOneStream
  <1>. QED  BY <1>2, <1>3, <1>4, <1>5, <1>6 DEF MxInv

LEMMA ConnectMx == ASSUME MxInv, Connect PROVE MxInv'
  <1>0. /\ mxCall = "connect" /\ mxReader = FreshReader /\ mxSeen = <<>>
        /\ mxHandler = FreshHandler /\ mxResult' = mxResult /\ mxResult.kind # "response"
        /\ UNCHANGED <<mxDriver, mxCalls, mxAttempt, mxBackoff, mxSlept, mxStarted,
                       mxCancelled, mxResult, mxReader, mxHandler, mxSeen>>
    BY DEF MxInv, MxFlags, Connect
  <1>1. ResponseIsOneStream'
    BY <1>0 DEF ResponseIsOneStream
  <1>2. ASSUME NEW code, FailCall(Http("Connect", 0, code)), UNCHANGED <<mxProd, mxCons>>
        PROVE  MxInv'
    <2>1. mxCall' = "classify" /\ mxFailure'.kind = "http"
      BY <1>2 DEF FailCall, Http
    <2>2. MxCounts'
      BY <1>0, <2>1 DEF MxInv, MxCounts, BackoffSchedule
    <2>3. MxFlags'
      BY <1>0, <2>1, FreshFlags DEF MxInv, MxFlags, CompletedIsReturned
    <2>4. mxCancelled' \in BOOLEAN
      BY <1>0 DEF MxInv, MxTypes
    <2>. QED  BY <1>0, <1>1, <1>2, <2>1, <2>2, <2>3, <2>4, EngineFrame
  <1>3. ASSUME mxDriver = "fetch", mxCall' = "write", mxProd' = NoProducer, mxCons' = NoConsumer,
               UNCHANGED mxFailure
        PROVE  MxInv'
    <2>1. MxCounts'
      BY <1>0, <1>3 DEF MxInv, MxCounts, BackoffSchedule
    <2>2. MxFlags'
      BY <1>0, <1>3, FreshFlags DEF MxInv, MxFlags, CompletedIsReturned
    <2>3. MxTypes'
      BY <1>0, <1>3, FreshTyped DEF MxInv, MxTypes
    <2>4. MxRead' /\ MxBehind'
      BY <1>0, <1>3 DEF MxInv, MxRead, MxBehind, NoProducer
    <2>. QED  BY <1>1, <1>3, <2>1, <2>2, <2>3, <2>4 DEF MxInv
  <1>4. ASSUME mxDriver # "fetch", mxCall' = "exchange", UNCHANGED mxFailure,
               mxProd' = [NoProducer EXCEPT !.at = "write"],
               mxCons' = [NoConsumer EXCEPT !.at = "next"]
        PROVE  MxInv'
    <2>1. /\ mxProd' \in Producers /\ mxProd'.at = "write" /\ mxProd'.queue = <<>>
          /\ mxProd'.sent = 0
      BY <1>4, FreshTyped DEF NoProducer, Producers
    <2>2. mxCons' \in Consumers /\ mxCons'.at = "next"
      BY <1>4, FreshTyped DEF NoConsumer, Consumers
    <2>3. MxCounts'
      BY <1>0, <1>4 DEF MxInv, MxCounts, BackoffSchedule
    <2>4. MxFlags'
      BY <1>0, <1>4, <2>1, <2>2, FreshFlags DEF MxInv, MxFlags, CompletedIsReturned
    <2>5. MxTypes'
      BY <1>0, <1>4, <2>1, <2>2 DEF MxInv, MxTypes
    <2>6. MxRead' /\ MxBehind'
      BY <1>0, <2>1 DEF MxInv, MxRead, MxBehind
    <2>7. MxFold'
      BY <1>0, <2>2, FreshFlags, NoDeltas DEF MxFold, Numbered, Unended
    <2>8. Folded' = 0 /\ Offered' = 0
      BY <1>0, <2>2, FreshFlags, NoDeltas DEF Folded, Offered
    <2>9. MxPipe'
      BY <1>0, <2>1, <2>2, <2>8, FreshFlags, NoDeltas
      DEF MxPipe, PipeHand, PipeOffer, PipeSent, Numbered
    <2>. QED  BY <1>1, <2>3, <2>4, <2>5, <2>6, <2>7, <2>9 DEF MxInv
  <1>5. CASE mxDriver = "fetch"
    BY <1>2, <1>3, <1>5 DEF Connect
  <1>6. CASE mxDriver # "fetch"
    BY <1>2, <1>4, <1>6 DEF Connect
  <1>. QED  BY <1>5, <1>6

LEMMA WholeAnswers ==
    ASSUME MxInv, mxReader.response # <<>>, mxCall = "exchange", UNCHANGED <<mxAttempt,
                                                                             mxDriver>>,
           mxResult' = Response(mxReader.response)
    PROVE  ResponseIsOneStream'
  <1>. DEFINE d == mxReader.response
  <1>1. WholeStream(d) /\ d \in Seq(Deltas)
    BY DEF MxInv, MxFold, MxTypes, Readers
  <1>2. mxResult'.deltas = d
    BY DEF Response
  <1>. HIDE DEF d
  <1>3. d # <<>> /\ Terminal(Last(d))
    BY <1>1 DEF WholeStream, Terminal, Last
  <1>4. \A i \in DOMAIN d : d[i][1] = mxAttempt /\ (i < Len(d) => ~Terminal(d[i]))
    BY <1>1 DEF WholeStream, Terminal, Numbered, Unended
  <1>5. Ascending(d)
    BY <1>1 DEF WholeStream, Numbered, Ascending, Numbers
  <1>. QED  BY <1>2, <1>3, <1>4, <1>5 DEF ResponseIsOneStream

LEMMA JoinMx == ASSUME MxInv, Join PROVE MxInv'
  <1>0. /\ mxCall = "exchange" /\ mxCons.at = "ended"
        /\ UNCHANGED <<mxDriver, mxCalls, mxAttempt, mxBackoff, mxSlept, mxStarted,
                       mxCancelled, mxProd, mxCons, mxReader, mxHandler, mxSeen>>
    BY DEF Join
  <1>1. /\ mxCons.error = None => ~mxReader.faulted
        /\ mxCons.error # None => mxReader.faulted \/ mxCancelled
        /\ mxReader.selfAborted => mxReader.done /\ mxReader.abort
        /\ mxDriver # "fetch" /\ mxFailure.kind # "response" /\ mxResult.kind # "response"
        /\ mxCancelled' \in BOOLEAN
    BY <1>0 DEF MxInv, MxFlags, MxTypes
  <1>2. ASSUME mxCall' \in {"returned", "classify"} PROVE MxCounts'
    BY <1>0, <1>2 DEF MxInv, MxCounts, BackoffSchedule
  <1>3. ASSUME mxCall' = "returned", mxResult'.kind # "response", UNCHANGED mxFailure,
               mxCancelled \/ mxReader.faulted \/ mxReader.abort
        PROVE  MxInv'
    <2>1. MxFlags'
      BY <1>0, <1>1, <1>3 DEF MxInv, MxFlags, CompletedIsReturned
    <2>2. ResponseIsOneStream'
      BY <1>3 DEF ResponseIsOneStream
    <2>. QED  BY <1>0, <1>1, <1>2, <1>3, <2>1, <2>2, EngineFrame
  <1>4. CASE mxCancelled /\ Throw(Aborted) /\ UNCHANGED mxFailure
    BY <1>3, <1>4 DEF Throw, Aborted
  <1>5. CASE ~mxCancelled /\ mxCons.error # None /\ Throw(mxCons.error) /\ UNCHANGED mxFailure
    <2>1. mxCons.error \in {HookFault, Aborted}
      BY <1>5 DEF MxInv, MxTypes, Consumers
    <2>2. mxCons.error.kind # "response"
      BY <2>1 DEF HookFault, Aborted
    <2>. QED  BY <1>1, <1>3, <1>5, <2>2 DEF Throw
  <1>6. CASE /\ ~mxCancelled /\ mxCons.error = None /\ EndState = "Completed"
             /\ Throw(Response(mxReader.response)) /\ UNCHANGED mxFailure
    <2>1. mxReader.done /\ ~mxReader.faulted /\ ~mxReader.abort
      BY <1>6 DEF EndState
    <2>2. mxReader.response # <<>>
      BY <1>0, <2>1 DEF MxInv, MxFold
    <2>3. /\ mxCall' = "returned" /\ mxResult' = Response(mxReader.response)
          /\ mxResult'.kind = "response"
      BY <1>6 DEF Throw, Response
    <2>4. ResponseIsOneStream'
      BY <1>0, <2>2, <2>3, WholeAnswers
    <2>5. MxFlags'
      BY <1>0, <1>1, <1>6, <2>3 DEF MxInv, MxFlags, CompletedIsReturned
    <2>. QED  BY <1>0, <1>1, <1>2, <2>3, <2>4, <2>5, EngineFrame
  <1>7. CASE /\ ~mxCancelled /\ mxCons.error = None /\ EndState = "Aborted"
             /\ Throw(Http("Unknown", 0, "none")) /\ UNCHANGED mxFailure
    <2>1. mxReader.abort
      BY <1>1, <1>7 DEF EndState
    <2>. QED  BY <1>3, <1>7, <2>1 DEF Throw, Http
  <1>8. CASE /\ ~mxCancelled /\ mxCons.error = None /\ EndState \notin {"Completed", "Aborted"}
             /\ FailCall(IF mxReader.error # None THEN mxReader.error ELSE Http("Read", 0, "none"))
             /\ UNCHANGED mxResult
    <2>1. ~mxReader.faulted /\ ~mxReader.selfAborted /\ (~mxReader.done \/ mxReader.abort)
      BY <1>1, <1>8 DEF EndState
    <2>2. mxReader.error \in {None} \cup HttpFaults
      BY DEF MxInv, MxTypes, Readers
    <2>3. mxCall' = "classify" /\ mxFailure'.kind = "http"
      BY <1>8, <2>2 DEF FailCall, Http, HttpFaults
    <2>4. MxFlags'
      BY <1>0, <1>1, <1>8, <2>1, <2>3 DEF MxInv, MxFlags, CompletedIsReturned
    <2>5. ResponseIsOneStream'
      BY <1>1, <1>8 DEF ResponseIsOneStream
    <2>. QED  BY <1>0, <1>1, <1>2, <2>3, <2>4, <2>5, EngineFrame
  <1>. QED  BY <1>4, <1>5, <1>6, <1>7, <1>8 DEF Join

LEMMA DecideMx ==
    ASSUME MxInv, mxCall = "classify", ClassifyKeeps,
           \/ mxCall' = "sleep" /\ UNCHANGED mxResult /\ mxAttempt < MaxRetryAttempts
           \/ mxCall' = "returned" /\ mxResult'.kind # "response"
    PROVE  MxInv'
  <1>1. MxCounts'
    BY DEF MxInv, MxCounts, BackoffSchedule, ClassifyKeeps
  <1>2. MxFlags'
    BY DEF MxInv, MxFlags, CompletedIsReturned, ClassifyKeeps
  <1>3. ResponseIsOneStream'
    BY DEF MxInv, MxFlags, ResponseIsOneStream
  <1>4. mxCancelled' \in BOOLEAN
    BY DEF MxInv, MxTypes, ClassifyKeeps
  <1>. QED  BY <1>1, <1>2, <1>3, <1>4, EngineFrame DEF ClassifyKeeps

LEMMA ClassifyMx == ASSUME MxInv, Classify \/ FetchClassify PROVE MxInv'
  <1>1. mxFailure.kind # "response" /\ Aborted.kind # "response"
    BY DEF MxInv, MxFlags, Aborted
  <1>. QED  BY <1>1, DecideMx DEF Classify, FetchClassify, Decide, Throw

LEMMA DoubledCapped == ASSUME NEW b \in Nat PROVE Doubled(b) = CappedDouble(b) /\ Doubled(b) \in Nat
  BY ExchangeBounds DEF Doubled, CappedDouble, ClampedMax

LEMMA SleepMx == ASSUME MxInv, Sleep PROVE MxInv'
  <1>0. /\ mxCall = "sleep" /\ mxCancelled' \in BOOLEAN
        /\ UNCHANGED <<mxDriver, mxCalls, mxStarted, mxCancelled, mxFailure, mxProd,
                       mxCons, mxReader, mxHandler, mxSeen>>
    BY DEF MxInv, MxTypes, Sleep
  <1>1. CASE mxCancelled
    <2>1. /\ mxCall' = "returned" /\ mxResult'.kind # "response"
          /\ UNCHANGED <<mxAttempt, mxBackoff, mxSlept>>
      BY <1>1 DEF Sleep, Throw, Aborted
    <2>2. MxCounts'
      BY <1>0, <2>1 DEF MxInv, MxCounts, BackoffSchedule
    <2>3. MxFlags'
      BY <1>0, <1>1, <2>1 DEF MxInv, MxFlags, CompletedIsReturned
    <2>4. ResponseIsOneStream'
      BY <2>1 DEF ResponseIsOneStream
    <2>. QED  BY <1>0, <2>1, <2>2, <2>3, <2>4, EngineFrame
  <1>2. CASE ~mxCancelled
    <2>1. /\ mxCall' = "attempt" /\ mxAttempt' = mxAttempt + 1 /\ mxResult' = mxResult
          /\ mxSlept' = Append(mxSlept, mxBackoff) /\ mxBackoff' = Doubled(mxBackoff)
      BY <1>2 DEF Sleep
    <2>. DEFINE n == Len(mxSlept)
    <2>2. /\ mxSlept \in Seq(Nat) /\ n \in Nat /\ mxBackoff \in Nat /\ n = mxAttempt
          /\ mxAttempt < MaxRetryAttempts /\ mxStarted \in Nat /\ mxStarted <= mxAttempt + 1
          /\ mxBackoff = IF n = 0 THEN InitialBackoff ELSE CappedDouble(mxSlept[n])
      BY <1>0 DEF MxInv, MxCounts
    <2>3. /\ mxSlept' \in Seq(Nat) /\ Len(mxSlept') = n + 1 /\ mxSlept'[n + 1] = mxBackoff
          /\ \A i \in 1 .. n : mxSlept'[i] = mxSlept[i]
      BY <2>1, <2>2
    <2>4. BackoffSchedule'
      <3>1. mxStarted' <= MaxRetryAttempts + 1 /\ Len(mxSlept') <= MaxRetryAttempts
        BY <1>0, <2>2, <2>3, ExchangeBounds
      <3>2. ASSUME NEW i \in DOMAIN mxSlept'
            PROVE  mxSlept'[i] = IF i = 1 THEN InitialBackoff ELSE CappedDouble(mxSlept'[i - 1])
        <4>1. i \in 1 .. n + 1
          BY <2>3
        <4>2. CASE i = n + 1
          BY <2>2, <2>3, <4>2
        <4>3. CASE i \in 1 .. n
          <5>1. mxSlept[i] = IF i = 1 THEN InitialBackoff ELSE CappedDouble(mxSlept[i - 1])
            BY <2>2, <4>3 DEF MxInv, MxCounts, BackoffSchedule
          <5>2. i # 1 => i - 1 \in 1 .. n
            <6>1. n \in Nat
              BY <2>2
            <6>. HIDE DEF n
            <6>. QED  BY <4>3, <6>1
          <5>. QED  BY <2>3, <4>3, <5>1, <5>2
        <4>. QED  BY <2>2, <4>1, <4>2, <4>3
      <3>. QED  BY <3>1, <3>2 DEF BackoffSchedule, CappedDouble, ClampedMax
    <2>5. MxCounts'
      <3>1. mxBackoff' = CappedDouble(mxBackoff) /\ mxBackoff' \in Nat
        BY <2>1, <2>2, DoubledCapped
      <3>2. mxSlept' # <<>>
        BY <2>2, <2>3
      <3>3. mxSlept'[Len(mxSlept')] = mxBackoff
        BY <2>3
      <3>4. (mxBackoff = IF mxSlept = <<>> THEN InitialBackoff
                         ELSE CappedDouble(mxSlept[Len(mxSlept)]))'
        BY <3>1, <3>2, <3>3 DEF CappedDouble, ClampedMax
      <3>5. /\ mxAttempt' \in Nat /\ mxStarted' \in Nat /\ Len(mxSlept') = mxAttempt'
            /\ mxAttempt' <= MaxRetryAttempts /\ mxStarted' <= mxAttempt'
        BY <1>0, <2>1, <2>2, <2>3, ExchangeBounds
      <3>6. mxStarted' <= mxAttempt' + 1
        <4>1. mxAttempt \in Nat /\ mxStarted \in Nat
          BY <2>2
        <4>. QED  BY <1>0, <2>1, <2>2, <4>1
      <3>7. mxCall' # "sleep" /\ mxSlept' \in Seq(Nat)
        BY <2>1, <2>3
      <3>. QED  BY <2>4, <3>1, <3>4, <3>5, <3>6, <3>7, Zenon DEF MxCounts
    <2>6. MxFlags'
      BY <1>0, <2>1 DEF MxInv, MxFlags, CompletedIsReturned
    <2>7. ResponseIsOneStream'
      BY <1>0, <2>1 DEF MxInv, MxFlags, ResponseIsOneStream
    <2>. QED  BY <1>0, <2>1, <2>5, <2>6, <2>7, EngineFrame
  <1>. QED  BY <1>1, <1>2

LEMMA CancelMx == ASSUME MxInv, Cancel PROVE MxInv'
  <1>1. MxTypes' /\ MxRead' /\ MxBehind'
    BY DEF MxInv, MxTypes, MxRead, MxBehind, Cancel
  <1>2. MxCounts'
    BY DEF MxInv, MxCounts, BackoffSchedule, Cancel
  <1>3. MxFlags'
    BY DEF MxInv, MxFlags, CompletedIsReturned, Cancel
  <1>4. ResponseIsOneStream'
    BY DEF MxInv, ResponseIsOneStream, Cancel
  <1>5. MxFold => MxFold'
    BY DEF MxFold, Cancel, Numbered, Unended, WholeStream
  <1>6. MxPipe => MxPipe'
    BY DEF MxPipe, PipeHand, PipeOffer, PipeSent, Numbered, Folded, Offered, Cancel
  <1>. QED  BY <1>1, <1>2, <1>3, <1>4, <1>5, <1>6 DEF MxInv, Cancel

LEMMA FetchMx == ASSUME MxInv, FetchWrite \/ FetchRead PROVE MxInv'
  <1>0. mxCall \in {"write", "read"} /\ FetchKeeps
    BY DEF FetchWrite, FetchRead
  <1>1. mxDriver = "fetch" /\ mxReader = FreshReader /\ mxResult.kind # "response"
    BY <1>0 DEF MxInv, MxFlags
  <1>2. /\ mxCall' \in {"read", "classify", "returned"}
        /\ mxCall' # "returned" => mxResult' = mxResult
        /\ mxFailure' = mxFailure \/ mxFailure'.kind = "http"
    BY DEF FetchWrite, FetchRead, FailCall, Throw, Http
  <1>3. MxCounts'
    BY <1>0, <1>2 DEF MxInv, MxCounts, BackoffSchedule, FetchKeeps
  <1>4. MxFlags'
    BY <1>0, <1>1, <1>2, FreshFlags DEF MxInv, MxFlags, CompletedIsReturned, FetchKeeps
  <1>5. ResponseIsOneStream'
    BY <1>0, <1>1 DEF ResponseIsOneStream, FetchKeeps
  <1>6. mxCancelled' \in BOOLEAN
    BY <1>0 DEF MxInv, MxTypes, FetchKeeps
  <1>. QED  BY <1>0, <1>2, <1>3, <1>4, <1>5, <1>6, EngineFrame DEF FetchKeeps

LEMMA StutterMx == ASSUME MxInv, UNCHANGED mxVars PROVE MxInv'
  <1>1. MxTypes' /\ MxRead' /\ MxBehind'
    BY DEF MxInv, MxTypes, MxRead, MxBehind, mxVars
  <1>2. MxCounts'
    BY DEF MxInv, MxCounts, BackoffSchedule, mxVars
  <1>3. MxFlags'
    BY DEF MxInv, MxFlags, CompletedIsReturned, mxVars
  <1>4. ResponseIsOneStream'
    BY DEF MxInv, ResponseIsOneStream, mxVars
  <1>5. MxFold => MxFold'
    BY DEF MxFold, mxVars, Numbered, Unended, WholeStream
  <1>6. MxPipe => MxPipe'
    BY DEF MxPipe, PipeHand, PipeOffer, PipeSent, Numbered, Folded, Offered, mxVars
  <1>. QED  BY <1>1, <1>2, <1>3, <1>4, <1>5, <1>6 DEF MxInv, mxVars

LEMMA StepMx == ASSUME MxInv, [MxNext]_mxVars PROVE MxInv'
  <1>1. CASE Producer
    BY <1>1, InterruptedMx, WriteRequestMx, ReadHeaderMx, ReadSomeMx, ReadResponseMx, OfferMx,
       PutAbortedMx, SentRequestMx, PutDoneMx, ShutStreamMx DEF Producer
  <1>2. CASE Consumer
    BY <1>2, NextDeltaMx, TakeMx, TakeAbortedMx, FoldMx, FoldFaultMx, HooksMx DEF Consumer
  <1>3. CASE Engine
    BY <1>3, AttemptMx, ConnectMx, JoinMx, ClassifyMx, SleepMx DEF Engine
  <1>4. CASE Fetcher
    BY <1>4, FetchMx, ClassifyMx DEF Fetcher
  <1>5. CASE Begin \/ AbortReader \/ Cancel
    BY <1>5, BeginMx, AbortReaderMx, CancelMx
  <1>6. CASE UNCHANGED mxVars
    BY <1>6, StutterMx
  <1>. QED  BY <1>1, <1>2, <1>3, <1>4, <1>5, <1>6 DEF MxNext

LEMMA HooksMxInStep == ASSUME MxInv PROVE HooksInStep
  <1>. DEFINE acc == mxReader.acc
              seen == mxSeen
  <1>1. /\ acc \in Seq(Deltas) /\ seen \in Seq(Deltas) /\ Len(acc) \in Nat /\ Len(seen) \in Nat
        /\ \A i \in 1 .. Len(acc) : acc[i][2] = i
        /\ seen = acc \/ (Len(acc) > 0 /\ acc = Append(seen, acc[Len(acc)]))
    BY PipeNats DEF MxInv, MxTypes, MxBehind
  <1>. HIDE DEF acc, seen
  <1>2. /\ Len(seen) <= Len(acc) /\ Len(acc) <= Len(seen) + 1
        /\ \A i \in 1 .. Len(seen) : seen[i] = acc[i]
    <2>1. CASE seen = acc
      BY <1>1, <2>1
    <2>2. CASE Len(acc) > 0 /\ acc = Append(seen, acc[Len(acc)])
      <3>. DEFINE last == acc[Len(acc)]
      <3>1. last \in Deltas /\ acc = Append(seen, last)
        BY <1>1, <2>2
      <3>. HIDE DEF last
      <3>2. /\ Len(acc) = Len(seen) + 1 /\ \A i \in 1 .. Len(seen) : acc[i] = seen[i]
        BY <1>1, <3>1
      <3>. QED  BY <1>1, <3>2
    <2>. QED  BY <1>1, <2>1, <2>2
  <1>3. Ascending(seen)
    BY <1>1, <1>2 DEF Ascending, Numbers
  <1>4. IsPrefix(seen, acc)
    <2>1. SubSeq(seen, 1, Len(seen)) = SubSeq(acc, 1, Len(seen))
      BY <1>1, <1>2
    <2>. QED  BY <1>2, <2>1 DEF IsPrefix
  <1>. QED  BY <1>2, <1>3, <1>4 DEF HooksInStep, acc, seen

\* Only an attempt sends a request, and the engine comes round to a second one by way
\* of a failure that is none of the ends that are final.
LEMMA RequestsMx ==
    ASSUME MxInv, MxNext, mxStarted' > mxStarted
    PROVE  /\ ~mxCancelled
           /\ ~mxReader.selfAborted \/ mxAttempt = 0
           /\ ~mxReader.faulted \/ mxAttempt = 0
  <1>1. mxStarted \in Nat /\ mxAttempt \in Nat
    BY DEF MxInv, MxCounts
  <1>2. ASSUME mxStarted' = mxStarted \/ mxStarted' = 0 PROVE FALSE
    BY <1>1, <1>2
  <1>3. ~Producer
    <2>1. Producer => ProducerKeeps
      BY Zenon DEF Producer, Interrupted, WriteRequest, ReadHeader, ReadSome, ReadResponse, Offer,
                   PutAborted, SentRequest, PutDone, ShutStream
    <2>. QED  BY <1>2, <2>1 DEF ProducerKeeps
  <1>4. ~Consumer /\ ~AbortReader
    BY <1>2 DEF Consumer, NextDelta, Take, TakeAborted, Fold, FoldFault, Hooks, HookThrows,
                AbortReader, ConsumerKeeps
  <1>5. ~Begin /\ ~Cancel /\ ~Fetcher
    BY <1>2 DEF Begin, Cancel, Fetcher, FetchWrite, FetchRead, FetchClassify, FetchKeeps,
                ClassifyKeeps
  <1>6. ~Connect /\ ~Join /\ ~Classify /\ ~Sleep
    BY <1>2 DEF Connect, Join, Classify, Sleep, ClassifyKeeps
  <1>7. Attempt
    BY <1>3, <1>4, <1>5, <1>6 DEF MxNext, Engine
  <1>8. ~mxCancelled
    BY <1>2, <1>7 DEF Attempt
  <1>9. mxAttempt > 0 => ~mxReader.selfAborted /\ ~mxReader.faulted
    BY <1>7 DEF MxInv, MxFlags, Attempt
  <1>. QED  BY <1>1, <1>8, <1>9

\* A call of the model answers with one attempt's stream, whole and in order; its
\* hooks see every delta once, after it was folded; a completed stream is never thrown
\* away for the fault its own end provokes; the waits double up to the cap; and no
\* request follows a cancellation, an abort or a throwing hook: for every number of
\* attempts, of deltas and of calls, every interleaving of producer, consumer, engine
\* and canceller, and whatever the network does (complete, pump, next, end_state).
THEOREM AnswersAlwaysWhole == ModelSpec => OneWholeAnswer
  <1>. DEFINE Inv == part = "exchange" => MxInv
  <1>1. ModelInit => Inv
    BY InitMx DEF ModelInit
  <1>2. Inv /\ [ModelNext]_ModelVars => Inv'
    <2>. SUFFICES ASSUME Inv, [ModelNext]_ModelVars PROVE Inv'
      OBVIOUS
    <2>1. part' = part
      BY DEF ModelNext, ModelVars, Others
    <2>2. CASE part = "exchange"
      <3>1. [MxNext]_mxVars
        BY <2>2 DEF ModelNext, ModelVars, Others
      <3>. QED  BY <2>1, <2>2, <3>1, StepMx
    <2>. QED  BY <2>1, <2>2
  <1>3. Inv => (part = "exchange" => /\ ResponseIsOneStream /\ HooksInStep
                                     /\ CompletedIsReturned /\ BackoffSchedule)
    BY HooksMxInStep DEF MxInv, MxFlags, MxCounts
  <1>4. Inv /\ [ModelNext]_ModelVars =>
          [mxStarted' > mxStarted =>
             /\ ~ mxCancelled
             /\ ~ mxReader.selfAborted \/ mxAttempt = 0
             /\ ~ mxReader.faulted \/ mxAttempt = 0]_mxVars
    <2>. SUFFICES ASSUME Inv, [ModelNext]_ModelVars, ~UNCHANGED mxVars, mxStarted' > mxStarted
                  PROVE  /\ ~ mxCancelled
                         /\ ~ mxReader.selfAborted \/ mxAttempt = 0
                         /\ ~ mxReader.faulted \/ mxAttempt = 0
      OBVIOUS
    <2>1. part = "exchange" /\ MxNext
      BY DEF ModelNext, ModelVars, Others
    <2>. QED  BY <2>1, RequestsMx
  <1>. QED  BY <1>1, <1>2, <1>3, <1>4, PTL DEF ModelSpec, OneWholeAnswer, NoRequestAfterStop
=============================================================================
