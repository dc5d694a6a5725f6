----------------------------- MODULE RemoteCall -----------------------------
(***************************************************************************)
(* One request and its reply over a WebSocket of its own, and what the     *)
(* tools built on it tell the model:                                       *)
(*   - cancellable_exchange (src/intercom/src/cancellable_exchange.cpp):   *)
(*     no retry, an overall deadline and a stop token, joined on return;   *)
(*   - intercom::fetch (src/intercom/include/intercom/fetch.hpp): retries  *)
(*     what may be re-sent;                                                *)
(*   - the remote tools of the Hub (src/tools/intrinsic/toolsets/          *)
(*     hub_remote_call/src): a mutation whose reply is lost may have been  *)
(*     carried out.                                                        *)
(* The Hub carries a request out once it has arrived, whatever becomes of  *)
(* the connection.  A message is only what it asks for.                    *)
(***************************************************************************)
EXTENDS Integers

CONSTANTS MaxRetries    \* retry_policy::_max_retry_attempts of a fetch

ASSUME RetriesAssumption == MaxRetries \in Nat

VARIABLES
    rcUse,      \* "mutation", "read" (a remote tool), "confirm", "fetch", "safe_fetch" (idempotent)
    rcPc,       \* where the exchange stands
    rcTimer,    \* the deadline: "off", "armed", "done"
    rcActive,   \* Operation::active
    rcExpired,  \* Operation::expired
    rcStop,     \* the stop token was requested
    rcAborted,  \* the strand has aborted the stream
    rcFailure,  \* how the exchange failed: "none", "connect", "transport", "protocol", "aborted"
    rcSent,     \* bytes of the request of this attempt may be on their way
    rcArrived,  \* the request of this attempt is at the Hub
    rcReply,    \* the Hub's answer to it: "none", "done", "refused", "unsure", "garbled"
    rcCarried,  \* times the Hub carried the request out
    rcAttempt,  \* attempts made
    rcSaid      \* what the caller is told: "none" while the call runs

rcVars == <<rcUse, rcPc, rcTimer, rcActive, rcExpired, rcStop, rcAborted, rcFailure, rcSent,
            rcArrived, rcReply, rcCarried, rcAttempt, rcSaid>>
rcHub == <<rcSent, rcArrived, rcReply, rcCarried>>
rcControl == <<rcTimer, rcActive, rcExpired, rcStop, rcAborted>>

Fetching == rcUse \in {"fetch", "safe_fetch"}

RcInit ==
    /\ rcUse \in {"mutation", "read", "confirm", "fetch", "safe_fetch"}
    /\ rcPc = "idle" /\ rcTimer = "off" /\ rcActive = TRUE
    /\ rcExpired = FALSE /\ rcStop = FALSE /\ rcAborted = FALSE
    /\ rcFailure = "none" /\ rcSent = FALSE /\ rcArrived = FALSE /\ rcReply = "none"
    /\ rcCarried = 0 /\ rcAttempt = 0 /\ rcSaid = "none"

\* What SubagentToolBase::invoke makes of the verdict.  The plan tool's whole-document
\* replacement may be repeated like a read, and so may a confirmation.
\* A failed mutation, an unreadable reply and a refusal never say that it may be repeated.
\* Mutant of FailureText: a request that failed before its reply counts as not made.
MutantFailureText == "repeatable"
FailureText == IF rcUse = "mutation" THEN "may_have_committed" ELSE "repeatable"
ReplyText ==
    CASE rcReply = "done" -> "done"
      [] rcReply = "garbled" -> FailureText
      [] OTHER -> IF rcUse = "mutation" THEN "inspect_first" ELSE "repeatable"

-----------------------------------------------------------------------------
(* The exchange. *)

\* The deadline is armed; a stop already requested ends the exchange at once.
BeginExchange ==
    /\ rcPc = "idle"
    /\ rcAttempt' = 1
    /\ rcTimer' = IF Fetching THEN "off" ELSE "armed"
    /\ IF rcStop THEN rcPc' = "ended" /\ rcFailure' = "aborted"
                 ELSE rcPc' = "connecting" /\ UNCHANGED rcFailure
    /\ UNCHANGED <<rcUse, rcActive, rcExpired, rcStop, rcAborted, rcHub, rcSaid>>

\* ensure_arguments() and the checks of request() refuse before anything is sent; the
\* second is reported like any failed exchange.
RefuseArguments ==
    /\ rcPc = "idle" /\ rcUse \in {"mutation", "read"}
    /\ rcPc' = "returned" /\ rcTimer' = "done" /\ rcSaid' = "bad_argument"
    /\ UNCHANGED <<rcUse, rcActive, rcExpired, rcStop, rcAborted, rcFailure, rcHub, rcAttempt>>
RefuseRequest ==
    /\ rcPc = "idle" /\ rcUse \in {"mutation", "read"}
    /\ rcPc' = "returned" /\ rcTimer' = "done" /\ rcSaid' = FailureText
    /\ UNCHANGED <<rcUse, rcActive, rcExpired, rcStop, rcAborted, rcFailure, rcHub, rcAttempt>>

Pending == {"connecting", "writing", "reading", "closing"}

\* connect_websocket() returned; the flags are read again before anything is sent.
ConnectedOnce ==
    /\ rcPc = "connecting"
    /\ IF rcStop \/ rcExpired THEN rcPc' = "ended" /\ rcFailure' = "aborted" /\ UNCHANGED rcSent
       ELSE rcPc' = "writing" /\ rcSent' = TRUE /\ UNCHANGED rcFailure
    /\ UNCHANGED <<rcUse, rcControl, rcArrived, rcReply, rcCarried, rcAttempt, rcSaid>>

\* The request may be at the Hub before the write completes, and after the exchange
\* has failed or returned.
RequestArrives ==
    /\ rcSent /\ ~rcArrived
    /\ rcArrived' = TRUE
    /\ UNCHANGED <<rcUse, rcPc, rcControl, rcFailure, rcSent, rcReply, rcCarried, rcAttempt, rcSaid>>

WriteDone ==
    /\ rcPc = "writing"
    /\ rcPc' = "reading"
    /\ UNCHANGED <<rcUse, rcControl, rcFailure, rcHub, rcAttempt, rcSaid>>

\* The Hub answers: carried out, refused, refused without knowing, or not understood.
HubAnswers(answer, carried) ==
    /\ rcArrived /\ rcReply = "none"
    /\ carried = (answer = "done") \/ answer \in {"unsure", "garbled"}
    /\ rcReply' = answer
    /\ rcCarried' = rcCarried + (IF carried THEN 1 ELSE 0)
    /\ UNCHANGED <<rcUse, rcPc, rcControl, rcFailure, rcSent, rcArrived, rcAttempt, rcSaid>>

ReadReply ==
    /\ rcPc = "reading" /\ rcReply # "none"
    /\ rcPc' = "closing"
    /\ UNCHANGED <<rcUse, rcControl, rcFailure, rcHub, rcAttempt, rcSaid>>

\* close() swallows the peer's errors.
CloseDone ==
    /\ rcPc = "closing"
    /\ rcPc' = "ended"
    /\ UNCHANGED <<rcUse, rcControl, rcFailure, rcHub, rcAttempt, rcSaid>>

\* A pending operation fails, by itself or because the stream was aborted.
OperationFails(how) ==
    /\ rcPc \in Pending
    /\ how \in IF rcPc = "connecting" THEN {"connect", "protocol"} ELSE {"transport", "protocol"}
    /\ rcPc' = "ended" /\ rcFailure' = how
    /\ UNCHANGED <<rcUse, rcControl, rcHub, rcAttempt, rcSaid>>

\* The timer's handler, on the strand: it aborts an exchange that is still active.
\* Mutant of DeadlineHits: the stream is not aborted.
MutantDeadlineHits == rcExpired' = rcActive /\ UNCHANGED rcAborted
DeadlineHits == rcExpired' = rcActive /\ rcAborted' = (rcAborted \/ rcActive)
TimerHandler ==
    /\ rcTimer = "armed"
    /\ DeadlineHits
    /\ rcTimer' = "done"
    /\ UNCHANGED <<rcUse, rcPc, rcActive, rcStop, rcFailure, rcHub, rcAttempt, rcSaid>>

\* The stop token (only the confirmation passes one), and its callback on the strand.
RequestCallStop ==
    /\ rcUse = "confirm" /\ ~rcStop /\ rcSaid = "none"
    /\ rcStop' = TRUE
    /\ UNCHANGED <<rcUse, rcPc, rcTimer, rcActive, rcExpired, rcAborted, rcFailure, rcHub, rcAttempt, rcSaid>>
StopCallback ==
    /\ rcStop /\ ~rcAborted /\ rcActive /\ rcPc # "idle"
    /\ rcAborted' = TRUE
    /\ UNCHANGED <<rcUse, rcPc, rcTimer, rcActive, rcExpired, rcStop, rcFailure, rcHub, rcAttempt, rcSaid>>

-----------------------------------------------------------------------------
(* The end of cancellable_exchange: active falls, the timer is cancelled and joined. *)

SettleExchange ==
    /\ rcPc = "ended" /\ ~Fetching
    /\ rcPc' = "joining" /\ rcActive' = FALSE
    /\ UNCHANGED <<rcUse, rcTimer, rcExpired, rcStop, rcAborted, rcFailure, rcHub, rcAttempt, rcSaid>>

\* The order of the three tests.
\* Mutant of Verdict: a reply that was read is returned whatever came since.
MutantVerdict == IF rcFailure = "none" THEN "reply" ELSE "failed"
Verdict == IF rcExpired \/ rcStop \/ rcFailure # "none" THEN "failed" ELSE "reply"

\* Mutant of TimerJoined: the cancelled timer is not awaited.
MutantTimerJoined == TRUE
TimerJoined == rcTimer = "done"

ReturnCall ==
    /\ rcPc = "joining" /\ TimerJoined
    /\ rcPc' = "returned"
    /\ rcSaid' = IF Verdict = "reply" THEN ReplyText ELSE FailureText
    /\ UNCHANGED <<rcUse, rcControl, rcFailure, rcHub, rcAttempt>>

-----------------------------------------------------------------------------
(* intercom::fetch *)

\* is_recoverable(): a failed connect may be repeated; later only an idempotent
\* request may, and only after a transient transport error.
\* Mutant of RetriesFetch: the idempotent flag is not consulted.
MutantRetriesFetch(transient) == transient /\ rcFailure \in {"connect", "transport"}
RetriesFetch(transient) ==
    /\ transient
    /\ \/ rcFailure = "connect"
       \/ rcFailure = "transport" /\ rcUse = "safe_fetch"

FetchEnds(transient) ==
    /\ rcPc = "ended" /\ Fetching
    /\ IF rcFailure # "none" /\ RetriesFetch(transient) /\ rcAttempt <= MaxRetries
       THEN /\ rcPc' = "connecting" /\ rcAttempt' = rcAttempt + 1
            /\ rcFailure' = "none" /\ rcSent' = FALSE /\ rcArrived' = FALSE /\ rcReply' = "none"
            /\ UNCHANGED rcSaid
       ELSE /\ rcPc' = "returned"
            /\ rcSaid' = IF rcFailure = "none" THEN "reply" ELSE "failed"
            /\ UNCHANGED <<rcAttempt, rcFailure, rcSent, rcArrived, rcReply>>
    /\ UNCHANGED <<rcUse, rcControl, rcCarried>>

\* An earlier attempt's request may still be carried out after the next one began.
LateCarry ==
    /\ rcUse = "safe_fetch" /\ rcAttempt > 1 /\ rcCarried < rcAttempt
    /\ rcCarried' = rcCarried + 1
    /\ UNCHANGED <<rcUse, rcPc, rcControl, rcFailure, rcSent, rcArrived, rcReply, rcAttempt, rcSaid>>

RcDone == rcPc = "returned" /\ UNCHANGED rcVars

RcLocal ==
    \/ BeginExchange \/ SettleExchange \/ ReturnCall
    \/ \E transient \in BOOLEAN : FetchEnds(transient)

RcNext ==
    \/ RcLocal
    \/ RefuseArguments \/ RefuseRequest
    \/ ConnectedOnce \/ RequestArrives \/ WriteDone \/ ReadReply \/ CloseDone
    \/ \E a \in {"done", "refused", "unsure", "garbled"}, c \in BOOLEAN : HubAnswers(a, c)
    \/ \E how \in {"connect", "transport", "protocol"} : OperationFails(how)
    \/ TimerHandler \/ RequestCallStop \/ StopCallback \/ LateCarry
    \/ RcDone

RcSpec == RcInit /\ [][RcNext]_rcVars

\* The strand runs, the deadline passes and an aborted operation fails; the Hub owes nothing.
RcFairness ==
    /\ WF_rcVars(RcLocal) /\ WF_rcVars(TimerHandler)
    /\ WF_rcVars(rcAborted /\ \E how \in {"connect", "transport", "protocol"} : OperationFails(how))
RcLiveSpec == RcSpec /\ RcFairness

-----------------------------------------------------------------------------
(* Properties *)

\* The model is never told that a mutation may be repeated when the Hub carried it
\* out, and never that one is done which was not.
HonestOutcome ==
    /\ rcSaid = "done" => rcCarried = 1
    /\ rcUse = "mutation" /\ rcCarried > 0 => rcSaid # "repeatable"

\* A request that was not declared idempotent is carried out at most once, however
\* many attempts were made (fetch.hpp: "never re-sends after the request may have been acted on").
NoResend == rcCarried > 1 => rcUse = "safe_fetch"

\* The exchange is over when it returns: its timer handler has run, so nothing is
\* left to touch the operation, and a reply that came after the deadline or the stop
\* is void (cancellable_exchange.hpp: "Timeout/stop invalidates any late result").
ExchangeFence ==
    rcPc = "returned" /\ ~Fetching =>
        /\ rcTimer = "done"
        /\ rcExpired \/ rcStop => rcSaid # "done"

\* An exchange ends by its deadline at the latest, whatever the Hub does.
ExchangeEnds == (rcPc # "idle" /\ ~Fetching) ~> rcPc = "returned"
=============================================================================
