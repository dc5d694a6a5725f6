------------------------- MODULE ConfirmationProofs -------------------------
(***************************************************************************)
(* Proofs about Confirmation, for every number of workers, confirmations,  *)
(* runs, reconnections and restarts of the Hub: what the worker concludes, *)
(* what the operator sees, and that no approval arrives late.              *)
(***************************************************************************)
EXTENDS Confirmation, TLAPS

(***************************************************************************)
(* The inductive invariant.  An approval is handed on from one place to    *)
(* the next (said, the answer on the wire, the reply that was read, the    *)
(* decision); each place holds it only while the one before still does,    *)
(* which needs that an exchange that has answered never starts again.      *)
(***************************************************************************)
\* The exchange of one confirmation, as the Hub keeps it.
HubSide(c) ==
    /\ sock[c] = "none" => pc[c] = "none"
    /\ wire[c] # "none" => pc[c] \in {"closing", "done"}
    /\ wire[c] = "approved" => said[c] = "approved"
    /\ panel[c] = "shown" <=> pc[c] = "open"
    /\ pc[c] = "open" => c \in prompts
    /\ pc[c] = "open" => conn # None \/ ~Headless

\* The same confirmation, as the worker keeps it.
WorkerSide(c) ==
    /\ ask[c] = "none" => sock[c] = "none" /\ ~expired[c]
    /\ reply[c] = "approved" => wire[c] = "approved"
    /\ ask[c] = "replied" => ~expired[c]
    /\ decision[c] = "approved" =>
          /\ ask[c] = "settled" /\ ~expired[c]
          /\ said[c] = "approved"
          /\ sock[c] = "none" \/ wire[c] = "approved"

ConfirmInv ==
    /\ ConfirmTypeOK
    /\ prompts \subseteq Confirmations
    /\ expired \in [Confirmations -> BOOLEAN]
    /\ said \in [Confirmations -> {"none", "approved", "denied"}]
    /\ closing => Headless
    /\ \A c \in Confirmations : HubSide(c)
    /\ \A c \in Confirmations : WorkerSide(c)

\* Nothing was asked yet.
LEMMA InitConfirm == Init => ConfirmInv
  <1>. SUFFICES ASSUME Init PROVE ConfirmInv
    OBVIOUS
  <1>1. ConfirmTypeOK
    BY ConfirmationConstants DEF Init, ConfirmTypeOK, ConfirmationConstants
  <1>2. \A c \in Confirmations : HubSide(c) /\ WorkerSide(c)
    BY DEF Init, HubSide, WorkerSide
  <1>. QED  BY <1>1, <1>2 DEF Init, ConfirmInv

(***************************************************************************)
(* The Hub: what an exchange may do to its confirmation.                   *)
(***************************************************************************)
\* A record of Stays, Answer, Opened, ... that keeps what HubSide says, takes no
\* answer back and approves nothing in a session that is being stopped.
Fine(c, r) ==
    /\ r.pc \in {"none", "hold", "authorize", "open", "closing", "done"}
    /\ r.wire \in {"none", "approved", "denied"}
    /\ r.prompt \in BOOLEAN
    /\ r.panel \in {"none", "shown", "settled"}
    /\ r.said \in {"none", "approved", "denied"}
    /\ r.prompt => r.pc \in {"open", "closing"}
    /\ r.panel = "shown" <=> r.pc = "open"
    /\ r.pc = "open" => r.prompt /\ (conn # None \/ ~Headless)
    /\ r.wire # "none" => r.pc \in {"closing", "done"}
    /\ r.wire = "approved" => r.said = "approved"
    /\ wire[c] = "approved" => r.wire = "approved"
    /\ sock[c] = "none" => r.pc = "none" /\ r.said = said[c]
    /\ closing /\ r.wire = "approved" => wire[c] = "approved"

\* What the invariant says of one confirmation, in the form the lemmas need.
LEMMA OneConfirmation ==
    ASSUME ConfirmInv, NEW c \in Confirmations
    PROVE  /\ pc[c] \in {"none", "hold", "authorize", "open", "closing", "done"}
           /\ wire[c] \in {"none", "approved", "denied"}
           /\ panel[c] \in {"none", "shown", "settled"}
           /\ said[c] \in {"none", "approved", "denied"}
           /\ c \in prompts => pc[c] \in {"open", "closing"}
           /\ HubSide(c)
  BY DEF ConfirmInv, ConfirmTypeOK

LEMMA StaysFields ==
    ASSUME NEW c
    PROVE  /\ Stays(c).pc = pc[c] /\ Stays(c).wire = wire[c] /\ Stays(c).panel = panel[c]
           /\ Stays(c).prompt \in BOOLEAN /\ (Stays(c).prompt <=> c \in prompts)
           /\ Stays(c).said = said[c]
  <1>1. Stays(c).prompt = (c \in prompts)
    BY DEF Stays
  <1>2. Stays(c).prompt \in BOOLEAN /\ (Stays(c).prompt <=> c \in prompts)
    <2>1. CASE c \in prompts
      <3>1. (c \in prompts) = TRUE
        BY <2>1
      <3>2. Stays(c).prompt = TRUE
        BY <1>1, <3>1, Zenon
      <3>. QED  BY <2>1, <3>2
    <2>2. CASE c \notin prompts
      <3>1. (c \in prompts) = FALSE
        BY <2>2
      <3>2. Stays(c).prompt = FALSE
        BY <1>1, <3>1, Zenon
      <3>. QED  BY <2>2, <3>2
    <2>. QED  BY <2>1, <2>2
  <1>3. /\ Stays(c).pc = pc[c] /\ Stays(c).wire = wire[c] /\ Stays(c).panel = panel[c]
        /\ Stays(c).said = said[c]
    BY DEF Stays
  <1>. QED  BY <1>2, <1>3

LEMMA StaysFine == ASSUME ConfirmInv, NEW c \in Confirmations PROVE Fine(c, Stays(c))
  BY OneConfirmation, StaysFields DEF Fine, HubSide

\* An exchange that has begun may be retired at any time.
LEMMA RetiredFine ==
    ASSUME ConfirmInv, NEW c \in Confirmations, sock[c] # "none"
    PROVE  Fine(c, Retired(c))
  <1>1. /\ Retired(c).pc = "done" /\ Retired(c).wire = wire[c] /\ Retired(c).prompt = FALSE
        /\ Retired(c).panel = (IF panel[c] = "shown" THEN "settled" ELSE panel[c])
        /\ Retired(c).said = said[c]
    BY DEF Retired, Stays
  <1>. QED  BY <1>1, OneConfirmation DEF Fine, HubSide

\* A denial may be sent as long as no answer was and nothing is shown.
LEMMA DeniedFine ==
    ASSUME ConfirmInv, NEW c \in Confirmations, sock[c] # "none", pc[c] \in {"none", "hold", "authorize"}
    PROVE  Fine(c, Answer(c, "denied"))
  <1>1. /\ Answer(c, "denied").pc = "closing"
        /\ Answer(c, "denied").prompt = Stays(c).prompt
        /\ Answer(c, "denied").wire = (IF sawClose[c] THEN wire[c] ELSE "denied")
        /\ Answer(c, "denied").panel = panel[c] /\ Answer(c, "denied").said = said[c]
    BY DEF Answer, Stays
  <1>. QED  BY <1>1, OneConfirmation, StaysFields DEF Fine, HubSide

\* Waiting for the identity or for the run.
LEMMA WaitingFine ==
    ASSUME ConfirmInv, NEW c \in Confirmations, sock[c] # "none", pc[c] \in {"none", "hold", "authorize"},
           NEW at \in {"hold", "authorize"}
    PROVE  Fine(c, [Stays(c) EXCEPT !.pc = at])
  <1>. DEFINE r == [Stays(c) EXCEPT !.pc = at]
  <1>1. /\ r.pc = at /\ r.wire = wire[c] /\ r.prompt = Stays(c).prompt
        /\ r.panel = panel[c] /\ r.said = said[c]
    BY DEF Stays
  <1>. QED  BY <1>1, OneConfirmation, StaysFields DEF Fine, HubSide

\* An answer of the operator or of the policy, outside a session being stopped.
LEMMA AnsweredFine ==
    ASSUME ConfirmInv, NEW c \in Confirmations, sock[c] # "none",
           pc[c] \in {"none", "hold", "authorize", "open"}, ~closing,
           NEW d \in {"approved", "denied"}
    PROVE  Fine(c, Answered(c, d))
  <1>1. /\ Answered(c, d).pc = "closing" /\ Answered(c, d).prompt = TRUE
        /\ Answered(c, d).wire = (IF sawClose[c] THEN wire[c] ELSE d)
        /\ Answered(c, d).panel = "settled" /\ Answered(c, d).said = d
    BY DEF Answered, Answer, Stays
  <1>. QED  BY <1>1, OneConfirmation DEF Fine, HubSide

\* A prompt is opened only for a session that is connected, if it is a subagent's.
LEMMA OpenedFine ==
    ASSUME ConfirmInv, NEW c \in Confirmations, sock[c] # "none",
           pc[c] \in {"none", "hold", "authorize"}, ~closing, conn # None \/ ~Headless
    PROVE  Fine(c, Opened(c))
  <1>1. CASE kind \in {"approve", "deny"}
    <2>1. Opened(c) = Answered(c, "approved") \/ Opened(c) = Answered(c, "denied")
      BY <1>1 DEF Opened
    <2>. QED  BY <2>1, AnsweredFine
  <1>2. CASE kind \notin {"approve", "deny"}
    <2>1. /\ Opened(c).pc = "open" /\ Opened(c).wire = wire[c] /\ Opened(c).prompt = TRUE
          /\ Opened(c).panel = "shown" /\ Opened(c).said = said[c]
      BY <1>2 DEF Opened, Stays
    <2>. QED  BY <2>1, OneConfirmation DEF Fine, HubSide
  <1>. QED  BY <1>1, <1>2

\* Admission and judgement, of a view whose connection and stop flag are the registry's.
LEMMA AdmittedFine ==
    ASSUME ConfirmInv, NEW c \in Confirmations, sock[c] # "none",
           pc[c] \in {"none", "hold", "authorize"}, NEW v,
           v.closing = closing, v.connected => conn # None
    PROVE  Fine(c, Admitted(c, v))
  <1>0. closing => Headless
    BY DEF ConfirmInv
  <1>1. CASE Admitted(c, v) = Answer(c, "denied")
    BY <1>1, DeniedFine
  <1>2. CASE Admitted(c, v) = [Stays(c) EXCEPT !.pc = "authorize"]
    BY <1>2, WaitingFine
  <1>3. CASE ~Headless /\ v.connected /\ Admitted(c, v) = Opened(c)
    BY <1>0, <1>3, OpenedFine
  <1>4. CASE Headless /\ Authorized(c, v) /\ Admitted(c, v) = Opened(c)
    BY <1>4, OpenedFine DEF Authorized
  <1>. QED  BY <1>1, <1>2, <1>3, <1>4 DEF Admitted

LEMMA JudgeFine ==
    ASSUME ConfirmInv, NEW c \in Confirmations, sock[c] # "none",
           pc[c] \in {"none", "hold", "authorize"}, NEW v,
           v.closing = closing, v.connected => conn # None
    PROVE  Fine(c, Judge(c, v))
  <1>1. CASE Judge(c, v) = [Stays(c) EXCEPT !.pc = "hold"]
    BY <1>1, WaitingFine
  <1>2. CASE Judge(c, v) = Answer(c, "denied")
    BY <1>2, DeniedFine
  <1>3. CASE Judge(c, v) = Admitted(c, v)
    BY <1>3, AdmittedFine
  <1>. QED  BY <1>1, <1>2, <1>3 DEF Judge

\* Effects that are fine for every confirmation keep the invariant.
LEMMA EffectConfirm ==
    ASSUME ConfirmInv, NEW e, Effect(e), \A c \in Confirmations : Fine(c, e[c]),
           UNCHANGED <<workerVars, askVars, kind>>, closing' => Headless,
           sock' \in [Confirmations -> {"none", "open", "closed"}],
           \A c \in Confirmations : sock'[c] = "none" <=> sock[c] = "none",
           half' => conn' # None,
           \A c \in Confirmations : e[c].pc = "open" => conn' # None \/ ~Headless
    PROVE  /\ ConfirmInv'
           /\ closing => \A c \in Confirmations : wire'[c] = "approved" => wire[c] = "approved"
  <1>1. /\ \A c \in Confirmations :
              /\ pc'[c] = e[c].pc /\ wire'[c] = e[c].wire /\ panel'[c] = e[c].panel
              /\ said'[c] = e[c].said
        /\ prompts' = {c \in Confirmations : e[c].prompt}
    BY DEF Effect
  <1>2. /\ pc' \in [Confirmations -> {"none", "hold", "authorize", "open", "closing", "done"}]
        /\ wire' \in [Confirmations -> {"none", "approved", "denied"}]
        /\ panel' \in [Confirmations -> {"none", "shown", "settled"}]
        /\ said' \in [Confirmations -> {"none", "approved", "denied"}]
    BY DEF Effect, Fine
  <1>3. prompts' \subseteq Confirmations /\ \A c \in prompts' : pc'[c] \in {"open", "closing"}
    BY <1>1 DEF Fine
  <1>4. ConfirmTypeOK'
    BY <1>2, <1>3 DEF ConfirmInv, ConfirmTypeOK, workerVars, askVars
  <1>5. \A c \in Confirmations : HubSide(c)'
    <2>. SUFFICES ASSUME NEW c \in Confirmations PROVE HubSide(c)'
      OBVIOUS
    <2>1. Fine(c, e[c]) /\ Headless' = Headless
      BY DEF Headless
    <2>2. e[c].prompt => c \in prompts'
      BY <1>1
    <2>. QED  BY <1>1, <2>1, <2>2 DEF HubSide, Fine
  <1>6. \A c \in Confirmations : WorkerSide(c)'
    <2>. SUFFICES ASSUME NEW c \in Confirmations PROVE WorkerSide(c)'
      OBVIOUS
    <2>1. Fine(c, e[c]) /\ WorkerSide(c) /\ UNCHANGED <<ask, reply, expired, decision>>
      BY DEF ConfirmInv, askVars
    <2>. QED  BY <1>1, <2>1 DEF WorkerSide, Fine
  <1>7. closing => \A c \in Confirmations : wire'[c] = "approved" => wire[c] = "approved"
    BY <1>1 DEF Fine
  <1>8. expired' \in [Confirmations -> BOOLEAN] /\ (closing' => Headless')
    BY DEF ConfirmInv, askVars, Headless
  <1>. QED  BY <1>2, <1>3, <1>4, <1>5, <1>6, <1>7, <1>8 DEF ConfirmInv

\* The exchange of one confirmation moves; the sockets that exist still do.
LEMMA OnlyConfirm ==
    ASSUME ConfirmInv, NEW c \in Confirmations, NEW r, Fine(c, r), Only(c, r), sock[c] # "none",
           UNCHANGED <<workerVars, askVars, sessionVars, bounds>>,
           sock' \in {sock, [sock EXCEPT ![c] = "closed"]}
    PROVE  /\ ConfirmInv'
           /\ closing => \A x \in Confirmations : wire'[x] = "approved" => wire[x] = "approved"
  <1>. DEFINE e == [x \in Confirmations |-> IF x = c THEN r ELSE Stays(x)]
  <1>1. Effect(e) /\ \A x \in Confirmations : Fine(x, e[x])
    BY StaysFine DEF Only
  <1>2. /\ sock' \in [Confirmations -> {"none", "open", "closed"}]
        /\ \A x \in Confirmations : sock'[x] = "none" <=> sock[x] = "none"
    BY DEF ConfirmInv, ConfirmTypeOK
  <1>3. /\ half' = half /\ conn' = conn /\ closing' = closing /\ kind' = kind
        /\ half => conn # None
        /\ closing => Headless
    BY DEF sessionVars, bounds, ConfirmInv, ConfirmTypeOK
  <1>4. \A x \in Confirmations : e[x].pc = "open" => conn' # None \/ ~Headless
    BY <1>1, <1>3 DEF Fine
  <1>. HIDE DEF e
  <1>. QED  BY <1>1, <1>2, <1>3, <1>4, EffectConfirm

\* The steps of one exchange in the Hub.
LEMMA HubConfirm ==
    ASSUME ConfirmInv, NEW c \in Confirmations, HubStep(c)
    PROVE  /\ ConfirmInv'
           /\ closing => \A x \in Confirmations : wire'[x] = "approved" => wire[x] = "approved"
  <1>0. /\ pc[c] # "none" => sock[c] # "none"
        /\ View.closing = closing /\ (View.connected => conn # None)
        /\ closing => Headless
    BY DEF ConfirmInv, HubSide, View
  <1>1. CASE Receive(c)
    <2>1. pc[c] = "none" /\ sock[c] # "none" /\ sock' = sock
          /\ UNCHANGED <<workerVars, askVars, sessionVars, bounds>>
      BY <1>1 DEF Receive, exchangeUnchanged
    <2>2. Only(c, Answer(c, "denied")) \/ Only(c, Judge(c, View))
      BY <1>1 DEF Receive
    <2>3. Fine(c, Answer(c, "denied")) /\ Fine(c, Judge(c, View))
      BY <1>0, <2>1, DeniedFine, JudgeFine
    <2>. QED  BY <2>1, <2>2, <2>3, OnlyConfirm
  <1>2. CASE HoldExpires(c)
    <2>1. Fine(c, Answer(c, "denied"))
      BY <1>0, <1>2, DeniedFine DEF HoldExpires
    <2>. QED  BY <1>0, <1>2, <2>1, OnlyConfirm DEF HoldExpires, exchangeUnchanged
  <1>3. CASE Poll(c)
    <2>1. Fine(c, Admitted(c, View))
      BY <1>0, <1>3, AdmittedFine DEF Poll
    <2>. QED  BY <1>0, <1>3, <2>1, OnlyConfirm DEF Poll, exchangeUnchanged
  <1>4. CASE PromptDeadline(c) \/ CloseDone(c)
    <2>1. pc[c] # "none" /\ Only(c, Retired(c)) /\ sock' \in {sock, [sock EXCEPT ![c] = "closed"]}
          /\ UNCHANGED <<workerVars, askVars, sessionVars, bounds>>
      BY <1>4 DEF PromptDeadline, CloseDone, exchangeUnchanged
    <2>. QED  BY <1>0, <2>1, RetiredFine, OnlyConfirm
  <1>5. CASE SeeClose(c)
    <2>1. pc[c] # "none" /\ (Only(c, Stays(c)) \/ Only(c, Retired(c))) /\ sock' = sock
          /\ UNCHANGED <<workerVars, askVars, sessionVars, bounds>>
      BY <1>5 DEF SeeClose
    <2>. QED  BY <1>0, <2>1, StaysFine, RetiredFine, OnlyConfirm
  <1>6. CASE Terminate(c)
    <2>1. /\ UNCHANGED <<workerVars, askVars, sessionVars, bounds, wire, exchangeVars>>
          /\ sock' = [sock EXCEPT ![c] = "closed"] /\ sock[c] = "open"
      BY <1>6 DEF Terminate, exchangeUnchanged
    <2>2. ConfirmTypeOK'
      BY <2>1 DEF ConfirmInv, ConfirmTypeOK, workerVars, askVars, sessionVars, exchangeVars
    <2>3. sock \in [Confirmations -> {"none", "open", "closed"}]
      BY DEF ConfirmInv, ConfirmTypeOK
    <2>4. \A x \in Confirmations : (HubSide(x) => HubSide(x)') /\ (WorkerSide(x) => WorkerSide(x)')
      BY <2>1, <2>3 DEF HubSide, WorkerSide, workerVars, askVars, sessionVars, exchangeVars, bounds, Headless
    <2>. QED
      BY <2>1, <2>2, <2>4 DEF ConfirmInv, askVars, sessionVars, exchangeVars, bounds, Headless
  <1>7. ASSUME NEW d \in {"approved", "denied"}, Operator(c, d)
        PROVE  /\ ConfirmInv'
               /\ closing => \A x \in Confirmations : wire'[x] = "approved" => wire[x] = "approved"
    <2>1. pc[c] = "open" /\ sock' \in {sock, [sock EXCEPT ![c] = "closed"]}
          /\ UNCHANGED <<workerVars, askVars, sessionVars, bounds>>
      BY <1>7 DEF Operator, exchangeUnchanged
    <2>2. CASE Headless /\ ~Authorized(c, View)
      <3>1. Only(c, Retired(c))
        BY <1>7, <2>2 DEF Operator
      <3>. QED  BY <1>0, <2>1, <3>1, RetiredFine, OnlyConfirm
    <2>3. CASE ~(Headless /\ ~Authorized(c, View))
      <3>1. Only(c, Answered(c, d)) /\ ~closing
        BY <1>0, <1>7, <2>3 DEF Operator, Authorized
      <3>. QED  BY <1>0, <2>1, <3>1, AnsweredFine, OnlyConfirm
    <2>. QED  BY <2>2, <2>3
  <1>. QED  BY <1>1, <1>2, <1>3, <1>4, <1>5, <1>6, <1>7 DEF HubStep

\* An envelope, a lost event connection, a stop of the subagent, a Hub restart.
LEMMA SessionConfirm ==
    ASSUME ConfirmInv, Hear \/ Detach \/ Freeze \/ HubRestart
    PROVE  /\ ConfirmInv'
           /\ closing => \A x \in Confirmations : wire'[x] = "approved" => wire[x] = "approved"
  <1>0. /\ \A c \in Confirmations : pc[c] # "none" => sock[c] # "none"
        /\ View.closing = closing /\ (View.connected => conn # None)
        /\ closing => Headless
        /\ half => conn # None
        /\ sock \in [Confirmations -> {"none", "open", "closed"}]
    BY DEF ConfirmInv, ConfirmTypeOK, HubSide, View
  <1>. DEFINE withdrawn == [c \in Confirmations |-> IF pc[c] = "open" THEN Retired(c) ELSE Stays(c)]
  <1>a. \A c \in Confirmations : Fine(c, withdrawn[c]) /\ withdrawn[c].pc # "open"
    <2>. SUFFICES ASSUME NEW c \in Confirmations PROVE Fine(c, withdrawn[c]) /\ withdrawn[c].pc # "open"
      OBVIOUS
    <2>1. CASE pc[c] = "open"
      <3>1. Retired(c).pc = "done"
        BY DEF Retired, Stays
      <3>. QED  BY <1>0, <2>1, <3>1, RetiredFine
    <2>2. CASE pc[c] # "open"
      BY <2>2, StaysFine, StaysFields
    <2>. QED  BY <2>1, <2>2
  <1>b. ASSUME RetireOpen
        PROVE  /\ Effect(withdrawn)
               /\ sock' \in [Confirmations -> {"none", "open", "closed"}]
               /\ \A c \in Confirmations : sock'[c] = "none" <=> sock[c] = "none"
    BY <1>0, <1>b DEF RetireOpen
  <1>1. CASE Hear
    <2>. DEFINE v == [View EXCEPT !.identity = identity', !.active = active']
                e == [c \in Confirmations |-> IF pc[c] = "hold" THEN Judge(c, v) ELSE Stays(c)]
    <2>1. Effect(e) /\ UNCHANGED <<workerVars, askVars, kind, sock, conn, half, closing>>
      BY <1>1 DEF Hear, bounds
    <2>2. v.closing = closing /\ (v.connected => conn # None)
      BY <1>0 DEF View
    <2>. HIDE DEF v
    <2>3. \A c \in Confirmations : Fine(c, e[c])
      BY <1>0, <2>2, StaysFine, JudgeFine
    <2>4. \A c \in Confirmations : e[c].pc = "open" => conn' # None \/ ~Headless
      BY <2>1, <2>3 DEF Fine
    <2>. HIDE DEF e
    <2>. QED  BY <1>0, <2>1, <2>3, <2>4, EffectConfirm
  <1>2. CASE Detach
    <2>1. UNCHANGED <<workerVars, askVars, kind, closing>> /\ half' = FALSE
      BY <1>2 DEF Detach, bounds
    <2>2. CASE Headless
      <3>1. RetireOpen
        BY <1>2, <2>2 DEF Detach
      <3>. HIDE DEF withdrawn
      <3>. QED  BY <1>0, <1>a, <1>b, <2>1, <2>2, <3>1, EffectConfirm
    <2>3. CASE ~Headless
      <3>1. UNCHANGED <<sock, wire, exchangeVars>>
        BY <1>2, <2>3 DEF Detach
      <3>2. ConfirmTypeOK'
        BY <2>1, <3>1 DEF ConfirmInv, ConfirmTypeOK, workerVars, askVars, exchangeVars
      <3>3. \A c \in Confirmations : (HubSide(c) => HubSide(c)') /\ (WorkerSide(c) => WorkerSide(c)')
        BY <2>1, <2>3, <3>1 DEF HubSide, WorkerSide, askVars, exchangeVars, Headless
      <3>. QED
        BY <1>0, <2>1, <3>1, <3>2, <3>3 DEF ConfirmInv, askVars, exchangeVars, Headless
    <2>. QED  BY <2>2, <2>3
  <1>3. CASE Freeze
    <2>1. /\ UNCHANGED <<workerVars, askVars, kind, conn, half>> /\ Headless /\ RetireOpen
      BY <1>3 DEF Freeze, bounds
    <2>. HIDE DEF withdrawn
    <2>. QED  BY <1>0, <1>a, <1>b, <2>1, EffectConfirm
  <1>4. CASE HubRestart
    <2>. DEFINE e == [c \in Confirmations |-> IF sock[c] # "none" THEN Retired(c) ELSE Stays(c)]
    <2>1. /\ UNCHANGED <<workerVars, askVars, kind, closing>> /\ ~Headless /\ half' = FALSE /\ Effect(e)
          /\ sock' = [c \in Confirmations |-> IF sock[c] = "open" THEN "closed" ELSE sock[c]]
      BY <1>4 DEF HubRestart
    <2>2. \A c \in Confirmations : Fine(c, e[c])
      BY StaysFine, RetiredFine
    <2>3. /\ sock' \in [Confirmations -> {"none", "open", "closed"}]
          /\ \A c \in Confirmations : sock'[c] = "none" <=> sock[c] = "none"
      BY <1>0, <2>1
    <2>. HIDE DEF e
    <2>. QED  BY <1>0, <2>1, <2>2, <2>3, EffectConfirm
  <1>. QED  BY <1>1, <1>2, <1>3, <1>4

(***************************************************************************)
(* The worker.                                                             *)
(***************************************************************************)
\* A step that touches neither the exchanges nor the confirmations.
LEMMA ProcessConfirm ==
    ASSUME ConfirmInv, \/ \E w \in Workers : StartWorker(w)
                       \/ \E m \in Modes : StartRun(m)
                       \/ FinishRun \/ CloseAdmission \/ RequestStop \/ Attach \/ HalfClose
    PROVE  ConfirmInv' /\ UNCHANGED <<wire, decision>>
  <1>0. ConfirmTypeOK /\ MaxRuns \in Nat
    BY ConfirmationConstants DEF ConfirmInv, ConfirmationConstants
  <1>1. /\ UNCHANGED <<askVars, sock, wire, exchangeVars, closing, kind>>
        /\ conn' = conn \/ conn' # None
    BY DEF StartWorker, StartRun, FinishRun, CloseAdmission, RequestStop, Attach, HalfClose,
       sessionVars, bounds
  <1>2. /\ alive' \in Workers \cup {None} /\ gone' = gone /\ alive' \notin gone
        /\ half' => conn' # None
    BY <1>0, ConfirmationConstants
       DEF StartWorker, StartRun, FinishRun, CloseAdmission, RequestStop, Attach, HalfClose,
           ConfirmTypeOK, ConfirmationConstants, workerVars, sessionVars
  <1>3. run' \in 0..MaxRuns /\ runs' \in 0..MaxRuns
    BY <1>0 DEF StartWorker, StartRun, FinishRun, CloseAdmission, RequestStop, Attach, HalfClose,
       ConfirmTypeOK, workerVars
  <1>4. ConfirmTypeOK'
    BY <1>0, <1>1, <1>2, <1>3 DEF ConfirmTypeOK, askVars, exchangeVars
  <1>5. \A c \in Confirmations : (HubSide(c) => HubSide(c)') /\ (WorkerSide(c) => WorkerSide(c)')
    BY <1>1 DEF HubSide, WorkerSide, askVars, exchangeVars, Headless
  <1>. QED  BY <1>1, <1>4, <1>5 DEF ConfirmInv, askVars, exchangeVars, Headless

\* The death of the process settles nothing.
LEMMA CrashConfirm ==
    ASSUME ConfirmInv, NEW silent \in BOOLEAN, Crash(silent)
    PROVE  ConfirmInv' /\ UNCHANGED <<wire, decision>>
  <1>0. /\ ConfirmTypeOK /\ MaxRuns \in Nat
        /\ UNCHANGED <<reply, expired, decision, wire, sessionVars, exchangeVars, kind, runs>>
    BY ConfirmationConstants DEF ConfirmInv, Crash, ConfirmationConstants, bounds
  <1>1. /\ ask' = [c \in Confirmations |-> IF ask[c] \in {"none", "settled"} THEN ask[c] ELSE "lost"]
        /\ sock' = [c \in Confirmations |-> IF sock[c] = "open" /\ ~silent THEN "closed" ELSE sock[c]]
        /\ alive \in Workers /\ alive' = None /\ gone' = gone \cup {alive} /\ run' = 0
    BY <1>0 DEF Crash, ConfirmTypeOK
  <1>2. ConfirmTypeOK'
    BY <1>0, <1>1, ConfirmationConstants DEF ConfirmTypeOK, ConfirmationConstants, sessionVars, exchangeVars
  <1>3. \A c \in Confirmations : (HubSide(c) => HubSide(c)') /\ (WorkerSide(c) => WorkerSide(c)')
    BY <1>0, <1>1 DEF HubSide, WorkerSide, sessionVars, exchangeVars, Headless, ConfirmTypeOK
  <1>. QED  BY <1>0, <1>2, <1>3 DEF ConfirmInv, sessionVars, exchangeVars, Headless

\* confirm(), step by step: an approval is settled only behind one that was said.
LEMMA WorkerConfirm ==
    ASSUME ConfirmInv, NEW c \in Confirmations, WorkerStep(c)
    PROVE  /\ ConfirmInv' /\ wire' = wire
           /\ \A x \in Confirmations :
                 decision[x] # "approved" /\ decision'[x] = "approved" => ~stopping
  <1>0. /\ ConfirmTypeOK /\ HubSide(c) /\ WorkerSide(c)
        /\ expired \in [Confirmations -> BOOLEAN]
        /\ said \in [Confirmations -> {"none", "approved", "denied"}]
        /\ UNCHANGED <<workerVars, wire, sessionVars, pc, prompts, panel, kind>>
    BY DEF ConfirmInv, WorkerStep, Ask, Read, Closed, Broken, ExchangeOver, Expire, Supervise,
       Decided, exchangeVars, bounds
  <1>a. ASSUME Ask(c)
        PROVE  /\ UNCHANGED <<reply, expired>>
               /\ \/ /\ sock' = sock /\ ask' = [ask EXCEPT ![c] = "settled"]
                     /\ \E d \in {"approved", "denied"} : decision' = [decision EXCEPT ![c] = d]
                     /\ \E d \in {"approved", said[c]} : said' = [said EXCEPT ![c] = d]
                  \/ /\ ask' = [ask EXCEPT ![c] = "waiting"] /\ sock' = [sock EXCEPT ![c] = "open"]
                     /\ UNCHANGED <<decision, said>>
    BY <1>a DEF Ask, Settle
  <1>1. \A x \in Confirmations :
           x # c => /\ ask'[x] = ask[x] /\ reply'[x] = reply[x] /\ expired'[x] = expired[x]
                    /\ decision'[x] = decision[x] /\ sock'[x] = sock[x] /\ said'[x] = said[x]
    <2>1. CASE Ask(c)
      BY <1>0, <1>a, <2>1 DEF ConfirmTypeOK
    <2>2. CASE Read(c)
      BY <1>0, <2>2 DEF Read, exchangeVars, ConfirmTypeOK
    <2>3. CASE Closed(c) \/ Broken(c)
      BY <1>0, <2>3 DEF Closed, Broken, ExchangeOver, exchangeVars, ConfirmTypeOK
    <2>4. CASE Expire(c)
      BY <1>0, <2>4 DEF Expire, exchangeVars, ConfirmTypeOK
    <2>5. CASE Supervise(c)
      BY <1>0, <2>5 DEF Supervise, Settle, exchangeVars, ConfirmTypeOK
    <2>6. CASE Decided(c)
      BY <1>0, <2>6 DEF Decided, Settle, exchangeVars, ConfirmTypeOK
    <2>. QED  BY <2>1, <2>2, <2>3, <2>4, <2>5, <2>6 DEF WorkerStep
  <1>2. /\ ask' \in [Confirmations -> {"none", "waiting", "read", "ended", "replied", "settled", "lost"}]
        /\ reply' \in [Confirmations -> {"none", "approved", "denied", "broken"}]
        /\ decision' \in [Confirmations -> {"none", "approved", "denied"}]
        /\ sock' \in [Confirmations -> {"none", "open", "closed"}]
        /\ expired' \in [Confirmations -> BOOLEAN]
        /\ said' \in [Confirmations -> {"none", "approved", "denied"}]
    <2>1. CASE Ask(c)
      BY <1>0, <1>a, <2>1 DEF ConfirmTypeOK
    <2>2. CASE Read(c)
      BY <1>0, <2>2 DEF Read, exchangeVars, ConfirmTypeOK
    <2>3. CASE Closed(c) \/ Broken(c)
      BY <1>0, <2>3 DEF Closed, Broken, ExchangeOver, exchangeVars, ConfirmTypeOK
    <2>4. CASE Expire(c)
      BY <1>0, <2>4 DEF Expire, exchangeVars, ConfirmTypeOK
    <2>5. CASE Supervise(c)
      BY <1>0, <2>5 DEF Supervise, Settle, exchangeVars, ConfirmTypeOK
    <2>6. CASE Decided(c)
      BY <1>0, <2>6 DEF Decided, Settle, exchangeVars, ConfirmTypeOK
    <2>. QED  BY <2>1, <2>2, <2>3, <2>4, <2>5, <2>6 DEF WorkerStep
  <1>3. HubSide(c)' /\ WorkerSide(c)' /\ (decision[c] # "approved" /\ decision'[c] = "approved" => ~stopping)
    <2>1. CASE Ask(c)
      BY <1>0, <2>1 DEF Ask, Settle, SettleApproval, HubSide, WorkerSide, ConfirmTypeOK, Headless,
         sessionVars
    <2>2. CASE Read(c)
      BY <1>0, <2>2 DEF Read, exchangeVars, HubSide, WorkerSide, ConfirmTypeOK, Headless, sessionVars
    <2>3. CASE Closed(c) \/ Broken(c)
      BY <1>0, <2>3 DEF Closed, Broken, ExchangeOver, exchangeVars, HubSide, WorkerSide, ConfirmTypeOK,
         Headless, sessionVars
    <2>4. CASE Expire(c)
      BY <1>0, <2>4 DEF Expire, exchangeVars, HubSide, WorkerSide, ConfirmTypeOK, Headless, sessionVars
    <2>5. CASE Supervise(c)
      BY <1>0, <2>5 DEF Supervise, Rejected, Settle, exchangeVars, HubSide, WorkerSide, ConfirmTypeOK,
         Headless, sessionVars
    <2>6. CASE Decided(c)
      BY <1>0, <2>6 DEF Decided, Settle, SettleApproval, exchangeVars, HubSide, WorkerSide, ConfirmTypeOK,
         Headless, sessionVars
    <2>. QED  BY <2>1, <2>2, <2>3, <2>4, <2>5, <2>6 DEF WorkerStep
  <1>4. ASSUME NEW x \in Confirmations, x # c
        PROVE  (HubSide(x) => HubSide(x)') /\ (WorkerSide(x) => WorkerSide(x)')
    BY <1>0, <1>1, <1>4 DEF HubSide, WorkerSide, Headless, sessionVars
  <1>5. ConfirmTypeOK'
    BY <1>0, <1>2 DEF ConfirmTypeOK, workerVars, sessionVars
  <1>6. \A x \in Confirmations : HubSide(x)' /\ WorkerSide(x)'
    BY <1>3, <1>4 DEF ConfirmInv
  <1>7. \A x \in Confirmations : decision[x] # "approved" /\ decision'[x] = "approved" => ~stopping
    BY <1>1, <1>3
  <1>. QED  BY <1>0, <1>2, <1>5, <1>6, <1>7 DEF ConfirmInv, Headless, sessionVars

(***************************************************************************)
(* The theorems.                                                           *)
(***************************************************************************)
\* Every step keeps the invariant, approves nothing in a cancelled run and sends no
\* approval to a session that is being stopped.
LEMMA NextConfirm ==
    ASSUME ConfirmInv, [Next]_vars
    PROVE  /\ ConfirmInv'
           /\ \A c \in Confirmations :
                 decision[c] # "approved" /\ decision'[c] = "approved" => ~stopping
           /\ closing => \A c \in Confirmations : wire'[c] = "approved" => wire[c] = "approved"
  <1>1. ASSUME NEW c \in Confirmations, HubStep(c) PROVE decision' = decision
    BY <1>1 DEF HubStep, Receive, HoldExpires, Poll, PromptDeadline, SeeClose, CloseDone, Terminate,
       Operator, exchangeUnchanged, askVars
  <1>2. ASSUME Hear \/ Detach \/ Freeze \/ HubRestart PROVE decision' = decision
    BY <1>2 DEF Hear, Detach, Freeze, HubRestart, askVars
  <1>3. CASE UNCHANGED vars
    <2>1. ConfirmTypeOK'
      BY <1>3 DEF ConfirmInv, ConfirmTypeOK, vars, workerVars, askVars, sessionVars, exchangeVars
    <2>2. \A c \in Confirmations : (HubSide(c) => HubSide(c)') /\ (WorkerSide(c) => WorkerSide(c)')
      BY <1>3 DEF HubSide, WorkerSide, Headless, vars, askVars, sessionVars, exchangeVars, bounds
    <2>. QED
      BY <1>3, <2>1, <2>2 DEF ConfirmInv, Headless, vars, askVars, sessionVars, exchangeVars, bounds
  <1>4. ASSUME NEW c \in Confirmations, WorkerStep(c) \/ HubStep(c)
        PROVE  /\ ConfirmInv'
               /\ \A x \in Confirmations :
                     decision[x] # "approved" /\ decision'[x] = "approved" => ~stopping
               /\ closing => \A x \in Confirmations : wire'[x] = "approved" => wire[x] = "approved"
    BY <1>1, <1>4, HubConfirm, WorkerConfirm
  <1>. QED  BY <1>2, <1>3, <1>4, SessionConfirm, ProcessConfirm, CrashConfirm DEF Next

\* The hand-over of approvals and the accounting of prompts hold at every moment.
THEOREM ConfirmInvariant == Spec => []ConfirmInv
  <1>1. ConfirmInv /\ [Next]_vars => ConfirmInv'
    BY NextConfirm
  <1>. QED  BY <1>1, InitConfirm, PTL DEF Spec

\* A call is approved only if this very confirmation was approved in time; a prompt on
\* the panel can be answered; a subagent without a channel has none (confirm(),
\* exchange(), onConnection()).
THEOREM AnswersAlwaysHonest == Spec => []AnswersHonest
  <1>1. ConfirmInv => AnswersHonest
    <2>. SUFFICES ASSUME ConfirmInv PROVE AnswersHonest
      OBVIOUS
    <2>1. ConfirmTypeOK /\ \A c \in Confirmations : HubSide(c) /\ WorkerSide(c)
      BY DEF ConfirmInv
    <2>2. FailClosed
      BY <2>1 DEF FailClosed, WorkerSide
    <2>3. PromptAccounting /\ NoPromptWithoutChannel
      BY <2>1 DEF PromptAccounting, NoPromptWithoutChannel, HubSide
    <2>. QED  BY <2>1, <2>2, <2>3 DEF AnswersHonest
  <1>. QED  BY <1>1, ConfirmInvariant, PTL

\* No call of a cancelled run is approved (settle_approval()), and no approval is sent
\* to a subagent that was frozen (freezeSession()).
THEOREM ApprovalsNeverLate == Spec => NoLateApproval
  <1>1. ConfirmInv /\ [Next]_vars =>
          /\ [\A c \in Confirmations :
                decision[c] # "approved" /\ decision'[c] = "approved" => ~stopping]_vars
          /\ [closing => \A c \in Confirmations :
                           wire'[c] = "approved" => wire[c] = "approved"]_vars
    BY NextConfirm
  <1>. QED
    BY <1>1, ConfirmInvariant, PTL DEF Spec, NoLateApproval, NoApprovalAfterCancel, FrozenNeverApproves
=============================================================================
