-------------------------- MODULE ContextStatistic --------------------------
(***************************************************************************)
(* ContextStatisticHook: the token totals kept in the session state, and   *)
(* the checkpoint that says which committed responses they include.  The   *)
(* loop numbers every committed response; the hook brings the totals up to *)
(* date before a request, after a step and after a run, inside edits that  *)
(* a later subscriber may roll back, while pruning subscribers and         *)
(* compaction remove history and a crash falls back to the saved state.    *)
(*                                                                         *)
(* A session state is a record: the loop's commit counter, the steps still *)
(* retained, the hook's slot of external_status, and the history variable  *)
(* "log" of all responses that led to this state, which the code does not  *)
(* have.  Three such states exist: the live one, the one on disk and the   *)
(* private draft of a compaction.                                          *)
(* Window, ratio, estimate and average of the slot are only displayed and  *)
(* left out.                                                               *)
(***************************************************************************)
EXTENDS Integers, Sequences, SequencesExt, FiniteSetsExt

CONSTANTS Costs,        \* token costs a provider may report, without the total
          TokenMax,     \* the largest token count, UINT64_MAX in the code
          MaxCommits    \* bound: responses committed in one lineage

ASSUME TokenAssumption == TokenMax \in Nat \ {0} /\ MaxCommits \in Nat

VARIABLES csLive, csDisk, csDraft,  \* the session states
          csRun,                    \* "live", "draft" or "" : which one a run uses
          csAt,                     \* where that run is
          csError                   \* the last error the hook has thrown, or ""

csVars == <<csLive, csDisk, csDraft, csRun, csAt, csError>>

NoCost == [prompt |-> 0, generated |-> 0, cache_hit |-> -1]
NoStatus == [accounted |-> -1]
Kinds == {"prompt", "generated", "cache_hit", "total"}

(* A status, or the exception that prevented one.                          *)
Thrown(what) == [accounted |-> -2, what |-> what]
Failed(status) == status.accounted = -2

add_checked(left, right) == IF right > TokenMax - left THEN -1 ELSE left + right

clear_last(status) == [status EXCEPT !.last = [k \in Kinds |-> -1]]

empty_status == [accounted |-> 0, sampled |-> 0, in_run |-> 0,
                 last |-> [k \in Kinds |-> -1],
                 largest |-> [k \in Kinds |-> 0], sum |-> [k \in Kinds |-> 0]]

(* The four figures of one exchange.                                       *)
Figures(cost) ==
  [k \in Kinds |-> IF k = "total" THEN add_checked(cost.prompt, cost.generated)
                                  ELSE cost[k]]

account(status, cost) ==
  LET figures == Figures(cost)
      sum == [k \in Kinds |-> add_checked(status.sum[k], figures[k])]
  IN IF Failed(status) THEN status
     ELSE IF cost = NoCost THEN clear_last(status)
     ELSE IF cost.cache_hit > cost.prompt THEN Thrown("cache hits exceed prompt")
     ELSE IF figures["total"] = -1 \/ -1 \in {sum[k] : k \in Kinds}
          THEN Thrown("overflow")
     ELSE [status EXCEPT !.last = figures, !.sum = sum, !.sampled = @ + 1,
             !.largest = [k \in Kinds |-> Max({@[k], figures[k]})]]

(* A retained step of the history; step.seq = 0 in states written before    *)
(* responses were numbered.                                                 *)
BootstrapStep(status, step) ==
  IF Failed(status) THEN status
  ELSE IF step.seq # 0 /\ step.seq # status.accounted + 1
       THEN Thrown("pruned before bootstrap")
  ELSE LET next == account(status, step.cost)
       IN IF Failed(next) \/ step.seq = 0 THEN next
          ELSE [next EXCEPT !.accounted = step.seq]

bootstrap(s) ==
  LET status == FoldLeft(BootstrapStep, empty_status, s.steps)
  IN IF ~Failed(status) /\ status.accounted # s.committed
     THEN Thrown("missing at bootstrap") ELSE status

MutantReconcileStep(status, step) ==
  IF Failed(status) \/ step.seq = 0 THEN status
  ELSE LET next == account(status, step.cost)
       IN IF Failed(next) THEN next ELSE [next EXCEPT !.accounted = step.seq]

ReconcileStep(status, step) ==
  IF Failed(status) \/ step.seq = 0 \/ step.seq <= status.accounted THEN status
  ELSE IF step.seq # status.accounted + 1 THEN Thrown("accounting gap")
  ELSE LET next == account(status, step.cost)
       IN IF Failed(next) THEN next ELSE [next EXCEPT !.accounted = step.seq]

reconcile(status, s) ==
  LET next == FoldLeft(ReconcileStep, status, s.steps)
  IN IF status.accounted > s.committed THEN Thrown("checkpoint ahead")
     ELSE IF ~Failed(next) /\ next.accounted # s.committed
     THEN Thrown("pruned before accounting") ELSE next

(* The slot itself, or nothing when the hook has never written it.          *)
external_status(s) == s.status

read_statistics(s) ==
  LET status == external_status(s)
  IN IF status = NoStatus THEN bootstrap(s)
     ELSE IF \/ status.sum["cache_hit"] > status.sum["prompt"]
             \/ add_checked(status.sum["prompt"], status.sum["generated"])
                  # status.sum["total"]
     THEN Thrown("inconsistent") ELSE reconcile(status, s)

sync_external_status(s, status) == [s EXCEPT !.status = status]

(* The state after the hook's part of an edit event.                        *)
update(s) ==
  sync_external_status(s, [read_statistics(s) EXCEPT !.in_run = s.exchanges])

-----------------------------------------------------------------------------
The(which) == IF which = "draft" THEN csDraft ELSE csLive

Use(s) == IF csRun = "draft" THEN csDraft' = s /\ UNCHANGED csLive
                             ELSE csLive' = s /\ UNCHANGED csDraft

(* The state a hook of the current run sees.                                *)
Current == The(csRun)

Goto(at) == csAt' = at

Session(steps) == [committed |-> 0, exchanges |-> 0, steps |-> steps,
                   status |-> NoStatus, log |-> steps]

(* A new session, or one of the earlier format whose steps have no numbers.  *)
CsInit ==
  /\ \E legacy \in SeqOf({[seq |-> 0, cost |-> c] : c \in Costs \cup {NoCost}}, 1) :
       csLive = Session(legacy)
  /\ csDisk = csLive /\ csDraft = Session(<<>>)
  /\ csRun = "" /\ csAt = "idle" /\ csError = ""

(* Admission keeps the commit counter and forgets the previous run's progress. *)
Admit(which) ==
  /\ csAt = "idle"
  /\ csRun' = which /\ Goto("request") /\ csError' = ""
  /\ IF which = "draft" THEN csDraft' = [csLive EXCEPT !.exchanges = 0] /\ UNCHANGED csLive
     ELSE csLive' = [csLive EXCEPT !.exchanges = 0] /\ UNCHANGED csDraft
  /\ UNCHANGED csDisk

(* BeforeModel edits a candidate: the totals are committed only when every  *)
(* later subscriber returned and no cancellation was seen.                  *)
BeforeModel(kept) ==
  LET status == read_statistics(Current)
  IN /\ csAt = "request"
     /\ kept => ~Failed(status)
     /\ IF kept
        THEN /\ Use(sync_external_status(Current,
                      IF Current.exchanges = 0 THEN [status EXCEPT !.in_run = 0]
                      ELSE status))
             /\ Goto("model") /\ UNCHANGED csError
        ELSE /\ Goto("finish") /\ UNCHANGED <<csLive, csDraft>>
             /\ csError' = IF Failed(status) THEN status.what ELSE csError
     /\ UNCHANGED <<csDisk, csRun>>

ModelFails ==
  /\ csAt = "model" /\ Goto("finish")
  /\ UNCHANGED <<csLive, csDisk, csDraft, csRun, csError>>

(* The response, its number and the counter are committed together.         *)
integrate_response(s, cost) ==
  LET step == [seq |-> s.committed + 1, cost |-> cost]
  IN [s EXCEPT !.committed = @ + 1, !.exchanges = @ + 1,
               !.steps = Append(@, step), !.log = Append(@, step)]

(* A response with calls leads to a step boundary; one without calls, or a   *)
(* batch that fails, or any call inside a compaction, ends the run.          *)
ModelReplies(cost, next) ==
  /\ csAt = "model" /\ Current.committed < MaxCommits
  /\ next = "step" => csRun = "live"
  /\ Use(integrate_response(Current, cost)) /\ Goto(next)
  /\ UNCHANGED <<csDisk, csRun, csError>>

(* What the subscribers behind the statistics hook do to its edit.  A pruning *)
(* subscriber removes the oldest retained step; the last one stays.          *)
Later == {"nothing", "throws", "prunes"}

Pruned(s, later) ==
  IF later = "prunes" /\ Len(s.steps) > 1 THEN [s EXCEPT !.steps = Tail(@)] ELSE s

(* edit_state: the whole event is kept or rolled back.                       *)
Edited(s, later) ==
  IF Failed(read_statistics(s)) \/ later = "throws" THEN s
  ELSE Pruned(update(s), later)

EditError(s) ==
  IF Failed(read_statistics(s)) THEN read_statistics(s).what ELSE csError

on_step_finished(later) ==
  /\ csAt = "step"
  /\ Use(Edited(Current, later)) /\ csError' = EditError(Current)
  /\ Goto(IF Failed(read_statistics(Current)) \/ later = "throws" THEN "finish" ELSE "stepped")
  /\ UNCHANGED <<csDisk, csRun>>

(* BeforeTools and ResultsReady: the host saves the state in mid-step.       *)
SaveInStep ==
  /\ csAt = "step" /\ csDisk # csLive /\ csDisk' = csLive
  /\ UNCHANGED <<csLive, csDraft, csRun, csAt, csError>>

(* StepFinished: the host saves, then the run goes on or stops.              *)
StepFinished(next) ==
  /\ csAt = "stepped" /\ Goto(next)
  /\ csDisk' = csLive
  /\ UNCHANGED <<csLive, csDraft, csRun, csError>>

on_run_finished(later) ==
  /\ csAt = "finish"
  /\ csRun = "draft" => later = "nothing"
  /\ Use(Edited(Current, later)) /\ csError' = EditError(Current)
  /\ Goto(IF Failed(read_statistics(Current)) \/ later = "throws" THEN "failed"
          ELSE "finished")
  /\ UNCHANGED <<csDisk, csRun>>

(* RunFinished of an ordinary run: the host saves.                           *)
RunFinished ==
  /\ csRun = "live" /\ csAt \in {"finished", "failed"}
  /\ csDisk' = csLive /\ csRun' = "" /\ Goto("idle")
  /\ UNCHANGED <<csLive, csDraft, csError>>

MutantReplacement == [csLive EXCEPT !.committed = csDraft.committed,
                        !.exchanges = csDraft.exchanges,
                        !.steps = <<>>, !.log = csDraft.log]

(* The state that takes the place of the compacted one: no history, the      *)
(* draft's commit counter and the draft's totals.                            *)
Replacement == [csLive EXCEPT !.committed = csDraft.committed,
                  !.exchanges = csDraft.exchanges,
                  !.steps = <<>>, !.status = external_status(csDraft),
                  !.log = csDraft.log]

(* A compaction whose run did not complete leaves the session as it was.     *)
AbandonCompaction ==
  /\ csRun = "draft" /\ csAt \in {"finished", "failed"}
  /\ csRun' = "" /\ Goto("idle") /\ csDraft' = Session(<<>>)
  /\ UNCHANGED <<csLive, csDisk, csError>>

(* The hook edits the replacement once more.  commit_compaction publishes it  *)
(* before the live state follows; its failure after the publication leaves    *)
(* the two apart and ends the host.                                           *)
CommitCompaction(reported) ==
  LET edited == Edited(Replacement, "nothing")
      refused == Failed(read_statistics(Replacement))
  IN /\ csRun = "draft" /\ csAt = "finished" /\ csDraft.exchanges = 1
     /\ csError' = EditError(Replacement)
     /\ csDisk' = IF refused THEN csDisk ELSE edited
     /\ csLive' = IF refused \/ ~reported THEN csLive ELSE edited
     /\ csRun' = "" /\ Goto(IF refused \/ reported THEN "idle" ELSE "down")
     /\ csDraft' = Session(<<>>)

(* The process dies, or is stopped, and starts again from the saved state.    *)
Restart ==
  /\ csLive' = csDisk /\ csDraft' = Session(<<>>)
  /\ csRun' = "" /\ Goto("idle") /\ csError' = ""
  /\ UNCHANGED csDisk

CsNext ==
  \/ \E which \in {"live", "draft"} : Admit(which)
  \/ \E kept \in BOOLEAN : BeforeModel(kept)
  \/ ModelFails
  \/ \E cost \in Costs \cup {NoCost}, next \in {"step", "finish"} : ModelReplies(cost, next)
  \/ \E later \in Later : on_step_finished(later) \/ on_run_finished(later)
  \/ SaveInStep
  \/ \E next \in {"request", "finish"} : StepFinished(next)
  \/ RunFinished
  \/ AbandonCompaction
  \/ \E reported \in BOOLEAN : CommitCompaction(reported)
  \/ Restart

CsSpec == CsInit /\ [][CsNext]_csVars

-----------------------------------------------------------------------------
States == {csLive, csDisk, csDraft}

(* The responses of a state's past that its checkpoint covers.               *)
Covered(s) == SelectSeq(s.log, LAMBDA step : step.seq <= s.status.accounted)
Sampled(s) == SelectSeq(Covered(s), LAMBDA step : step.cost # NoCost)
SumOf(s, kind) ==
  FoldLeft(LAMBDA sum, step : sum + Figures(step.cost)[kind], 0, Sampled(s))

(* In every session state, the totals are those of exactly the responses up  *)
(* to the checkpoint, each counted once and none left out, whatever was       *)
(* rolled back, pruned, compacted away or restored (account, reconcile).      *)
CountedExactlyOnce ==
  \A s \in States : s.status # NoStatus =>
    /\ s.status.sampled = Len(Sampled(s))
    /\ \A k \in Kinds : s.status.sum[k] = SumOf(s, k)

(* A response leaves the history only after the saved totals include it, so   *)
(* the hook never meets a gap it could not fill: the "pruned" and "gap" errors *)
(* of bootstrap and reconcile are unreachable with the hook registered first. *)
PrunedOnlyWhenCounted ==
  /\ \A s \in States : \A i \in 1 .. Len(s.log) :
       s.log[i].seq > s.status.accounted => s.log[i] \in ToSet(s.steps)
  /\ csError \in {"", "cache hits exceed prompt", "overflow"}
=============================================================================
