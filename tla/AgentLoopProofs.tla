-------------------------- MODULE AgentLoopProofs --------------------------
(***************************************************************************)
(* Proofs about AgentLoop, for every set of calls and every bound.         *)
(***************************************************************************)
EXTENDS AgentLoop, SequenceTheorems, FiniteSetTheorems, TLAPS

\* A partial result map is a function from some set of calls to outcomes.
LEMMA PartialIntro ==
    ASSUME NEW D \in SUBSET Calls, NEW f \in [D -> How]
    PROVE  f \in Partial
  BY DEF Partial

\* What membership in Partial gives back.
LEMMA PartialElim ==
    ASSUME NEW f \in Partial
    PROVE  DOMAIN f \subseteq Calls /\ f \in [DOMAIN f -> How]
  BY DEF Partial

\* The empty result map is a result map.
LEMMA NoResultsType == NoResults \in Partial /\ DOMAIN NoResults = {}
  <1>1. NoResults \in [{} -> How]
    BY DEF NoResults
  <1>. QED  BY <1>1, PartialIntro DEF NoResults

\* Filing the answer of one call extends a result map by that call.
LEMMA FileType ==
    ASSUME NEW r \in Partial, NEW c \in Calls, NEW how \in How
    PROVE  LET f == [d \in DOMAIN r \cup {c} |-> IF d = c THEN how ELSE r[d]]
           IN  f \in Partial /\ DOMAIN f = DOMAIN r \cup {c}
  <1>. DEFINE f == [d \in DOMAIN r \cup {c} |-> IF d = c THEN how ELSE r[d]]
  <1>1. DOMAIN r \subseteq Calls /\ r \in [DOMAIN r -> How]
    BY PartialElim
  <1>2. f \in [DOMAIN r \cup {c} -> How]
    BY <1>1
  <1>. QED  BY <1>1, <1>2, PartialIntro

\* The skipped batch answers exactly the calls it is given.
LEMMA SkippedType ==
    ASSUME NEW C \in SUBSET Calls
    PROVE  Skipped(C) \in Partial /\ DOMAIN Skipped(C) = C
  <1>1. Skipped(C) \in [C -> How]
    BY DEF Skipped, How
  <1>. QED  BY <1>1, PartialIntro DEF Skipped

\* Projection replaces the results of the last entry and nothing else.
LEMMA ProjectedType ==
    ASSUME NEW s \in Seq(Entry), NEW p \in Partial
    PROVE  LET t == ProjectedOnto(s, p)
           IN  /\ t \in Seq(Entry)
               /\ Len(t) = Len(s)
               /\ \A i \in 1..Len(s) : t[i].seq = s[i].seq /\ t[i].calls = s[i].calls
               /\ \A i \in 1..Len(s) : t[i].rets = IF i = Len(s) THEN p ELSE s[i].rets
  <1>. DEFINE t == ProjectedOnto(s, p)
  <1>1. \A i \in 1..Len(s) : s[i] \in Entry
    OBVIOUS
  <1>2. CASE s = <<>>
    <2>1. t = s
      BY <1>2 DEF ProjectedOnto
    <2>. QED  BY <2>1, <1>2
  <1>3. CASE s # <<>>
    <2>1. Len(s) \in 1..Len(s)
      BY <1>3
    <2>2. Answer(s[Len(s)], p) \in Entry
      BY <1>1, <2>1 DEF Answer, Entry
    <2>3. t \in Seq(Entry) /\ Len(t) = Len(s)
      BY <2>2, <2>1 DEF ProjectedOnto
    <2>4. \A i \in 1..Len(s) : t[i] = IF i = Len(s) THEN Answer(s[i], p) ELSE s[i]
      BY <2>1 DEF ProjectedOnto
    <2>5. ASSUME NEW i \in 1..Len(s)
          PROVE  /\ t[i].seq = s[i].seq
                 /\ t[i].calls = s[i].calls
                 /\ t[i].rets = IF i = Len(s) THEN p ELSE s[i].rets
      <3>1. CASE i = Len(s)
        <4>1. t[i] = Answer(s[i], p)
          BY <2>4, <3>1
        <4>. QED  BY <4>1, <3>1 DEF Answer
      <3>2. CASE i # Len(s)
        <4>1. t[i] = s[i]
          BY <2>4, <3>2
        <4>. QED  BY <4>1, <3>2
      <3>. QED  BY <3>1, <3>2
    <2>. QED  BY <2>3, <2>5
  <1>. QED  BY <1>2, <1>3

\* The ranks of a set of positions: each rank up to its size belongs to one of them,
\* and ranks are ordered as the positions are.
LEMMA Ranks ==
    ASSUME NEW n \in Nat, NEW K \in SUBSET (1..n)
    PROVE  /\ Cardinality(K) \in Nat
           /\ K # {} => Cardinality(K) # 0
           /\ \A j, k \in K : j < k => Rank(K, j) < Rank(K, k)
           /\ \A k \in K : Rank(K, k) \in 1..Cardinality(K)
           /\ \A i \in 1..Cardinality(K) : \E k \in K : Rank(K, k) = i
  <1>0. \A k \in K : k \in Nat
    OBVIOUS
  <1>1. IsFiniteSet(K)
    <2>1. IsFiniteSet(1..n)
      BY FS_Interval
    <2>. QED  BY <2>1, FS_Subset
  <1>2. Cardinality(K) \in Nat /\ (K # {} => Cardinality(K) # 0)
    BY <1>1, FS_CardinalityType, FS_EmptySet
  <1>3. ASSUME NEW k \in K
        PROVE  IsFiniteSet({j \in K : j <= k}) /\ Rank(K, k) \in Nat /\ Rank(K, k) <= Cardinality(K)
    <2>1. {j \in K : j <= k} \in SUBSET K
      OBVIOUS
    <2>. QED  BY <1>1, <2>1, FS_Subset, FS_CardinalityType DEF Rank
  <1>4. ASSUME NEW j \in K, NEW k \in K, j < k PROVE Rank(K, j) < Rank(K, k)
    <2>. DEFINE J == {i \in K : i <= j}
                L == {i \in K : i <= k}
    <2>0. j \in Nat /\ k \in Nat
      BY <1>0
    <2>1. J \in SUBSET L /\ k \in L /\ k \notin J
      <3>1. \A i \in K : i <= j => i <= k
        BY <1>0, <1>4, <2>0
      <3>2. k <= k /\ ~(k <= j)
        BY <1>4, <2>0
      <3>. QED  BY <3>1, <3>2
    <2>2. IsFiniteSet(L) /\ IsFiniteSet(J) /\ Cardinality(J) <= Cardinality(L)
          /\ Cardinality(J) # Cardinality(L)
      BY <1>3, <2>1, FS_Subset
    <2>3. Cardinality(J) \in Nat /\ Cardinality(L) \in Nat
      BY <2>2, FS_CardinalityType
    <2>. QED  BY <2>2, <2>3 DEF Rank
  <1>5. \A k \in K : Rank(K, k) # 0
    <2>. SUFFICES ASSUME NEW k \in K PROVE Rank(K, k) # 0
      OBVIOUS
    <2>1. k \in {j \in K : j <= k}
      OBVIOUS
    <2>. QED  BY <1>3, <2>1, FS_EmptySet DEF Rank
  <1>6. \A k \in K : Rank(K, k) \in 1..Cardinality(K)
    <2>. SUFFICES ASSUME NEW k \in K PROVE Rank(K, k) \in 1..Cardinality(K)
      OBVIOUS
    <2>1. Rank(K, k) \in Nat /\ Rank(K, k) <= Cardinality(K) /\ Rank(K, k) # 0
      BY <1>3, <1>5
    <2>. QED  BY <1>2, <2>1
  <1>. DEFINE rank == [k \in K |-> Rank(K, k)]
              N == 1..Cardinality(K)
  <1>7. rank \in Injection(K, N)
    <2>1. rank \in [K -> N]
      BY <1>6
    <2>2. \A j, k \in K : j # k => rank[j] # rank[k]
      <3>. SUFFICES ASSUME NEW j \in K, NEW k \in K, j # k PROVE Rank(K, j) # Rank(K, k)
        OBVIOUS
      <3>1. j < k \/ k < j
        BY <1>0
      <3>2. Rank(K, j) \in Nat /\ Rank(K, k) \in Nat
        BY <1>3
      <3>3. Rank(K, j) < Rank(K, k) \/ Rank(K, k) < Rank(K, j)
        BY <1>4, <3>1
      <3>. QED  BY <3>2, <3>3
    <2>. QED  BY <2>1, <2>2 DEF Injection, IsInjective
  <1>8. IsFiniteSet(N) /\ Cardinality(N) = Cardinality(K)
    BY <1>2, FS_Interval
  <1>9. rank \in Surjection(K, N)
    BY <1>7, <1>8, FS_Injection
  <1>10. \A i \in N : \E k \in K : Rank(K, k) = i
    BY <1>9 DEF Surjection
  <1>. QED  BY <1>2, <1>4, <1>6, <1>10

\* Entry i of what an edit keeps is entry From(K, i) of the original.
From(K, i) == CHOOSE k \in K : Rank(K, k) = i

\* What an edit makes of a conversation: its entries are old ones in their order,
\* behind a turn.
LEMMA KeptType ==
    ASSUME NEW s \in Seq(Entry), NEW K \in SUBSET (1..Len(s)), K # {}
    PROVE  LET t == Kept(s, K)
           IN  /\ t \in Seq(Entry)
               /\ t # <<>>
               /\ \A i \in 1..Len(t) : From(K, i) \in 1..Len(s)
               /\ \A i \in 1..Len(t) : t[i] = IF i = 1 THEN UserEntry ELSE s[From(K, i)]
               /\ \A i, j \in 1..Len(t) : i < j => From(K, i) < From(K, j)
  <1>. DEFINE t == Kept(s, K)
              N == 1..Cardinality(K)
  <1>a. Len(s) \in Nat
    OBVIOUS
  <1>0. /\ Cardinality(K) \in Nat /\ Cardinality(K) # 0
        /\ \A j, k \in K : j < k => Rank(K, j) < Rank(K, k)
        /\ \A i \in N : \E k \in K : Rank(K, k) = i
        /\ \A k \in K : Rank(K, k) \in N
    BY <1>a, Ranks
  <1>1. \A i \in N : From(K, i) \in K /\ Rank(K, From(K, i)) = i
    BY <1>0 DEF From
  <1>2. t = [i \in N |-> IF i = 1 THEN UserEntry ELSE s[From(K, i)]]
    BY DEF Kept, From
  <1>3. UserEntry \in Entry
    BY NoResultsType DEF UserEntry, Entry
  <1>4. t \in [N -> Entry]
    <2>1. \A i \in N : From(K, i) \in 1..Len(s)
      BY <1>1
    <2>2. \A k \in 1..Len(s) : s[k] \in Entry
      OBVIOUS
    <2>. QED  BY <1>2, <1>3, <2>1, <2>2
  <1>5. t \in Seq(Entry) /\ Len(t) = Cardinality(K)
    BY <1>0, <1>4
  <1>6. ASSUME NEW i \in N, NEW j \in N, i < j PROVE From(K, i) < From(K, j)
    <2>1. From(K, i) \in K /\ From(K, j) \in K /\ Rank(K, From(K, i)) = i /\ Rank(K, From(K, j)) = j
      BY <1>1
    <2>2. From(K, i) # From(K, j)
      BY <1>6, <2>1
    <2>3. ~(From(K, j) < From(K, i))
      <3>1. From(K, j) < From(K, i) => j < i
        BY <1>0, <2>1
      <3>. QED  BY <1>0, <1>6, <3>1
    <2>4. From(K, i) \in Nat /\ From(K, j) \in Nat
      <3>1. \A k \in K : k \in Nat
        OBVIOUS
      <3>. QED  BY <2>1, <3>1
    <2>. QED  BY <2>2, <2>3, <2>4
  <1>7. \A i \in N : From(K, i) \in 1..Len(s)
    BY <1>1
  <1>. HIDE DEF t
  <1>8. \A i \in N : t[i] = IF i = 1 THEN UserEntry ELSE s[From(K, i)]
    BY <1>2
  <1>9. t # <<>>
    BY <1>0, <1>5
  <1>. QED  BY <1>5, <1>6, <1>7, <1>8, <1>9 DEF t

(***************************************************************************)
(* The inductive invariant.  TypeOK alone is not inductive: a batch is     *)
(* known to belong to the last entry only because of the phase the         *)
(* coroutine set before it suspended.                                      *)
(***************************************************************************)
\* The last step carries calls nobody has answered yet.
OpenLast == /\ turns # <<>>
            /\ Last.seq = committed
            /\ Last.seq # 0
            /\ Last.calls # {}
            /\ DOMAIN Last.rets = {}

\* The coroutine's position determines the recovery marker.
PhaseAt ==
    /\ pc \in {"admit", "started", "input", "head", "context", "committed", "edit", "ckptStep", "decide"}
          => phase = "Ready"
    /\ pc = "model" => phase = "Model"
    /\ pc \in {"ckptTools", "dispatch", "tools"} => phase = "Tools"
    /\ pc \in {"ckptResults", "project"} => phase = "Projection"
    /\ pc = "recover" => phase \in {"Ready", "Projection"}
    /\ pc \in {"idle", "entry", "ckptRun"} => phase # "Model"
    /\ pc # "tools" => DOMAIN records = {} /\ running = {}
    /\ pc = "finish" => res \in RunStatuses

\* Only the last step may be open, and only where the marker says so.
Shape ==
    /\ \A i \in 1..Len(turns) : i < Len(turns) => Answered(turns[i])
    /\ phase \in {"Tools", "Blocked", "Projection"} => OpenLast
    /\ phase \in {"Ready", "Model"} /\ pc # "committed" /\ turns # <<>> => Answered(Last)
    /\ pc = "committed" =>
          turns # <<>> /\ Last.seq = committed /\ Last.seq # 0 /\ DOMAIN Last.rets = {}
    /\ phase = "Projection" => DOMAIN pending = Last.calls
    /\ phase # "Projection" => DOMAIN pending = {}

\* A batch files one result per call of the last step.
Batch ==
    /\ running \cap DOMAIN records = {}
    /\ pc = "tools" => running \cup DOMAIN records \subseteq Last.calls

Control == TypeOK /\ PhaseAt /\ Shape /\ Batch

\* The invariant holds before the first invocation.
LEMMA InitControl == Init => Control
  <1>. SUFFICES ASSUME Init PROVE Control
    OBVIOUS
  <1>1. StateType
    BY NoResultsType DEF Init, StateType, RunStatuses, Phases
  <1>2. FrameType
    BY NoResultsType DEF Init, FrameType, RunStatuses, Outcomes, Locations
  <1>3. FlagType /\ EffectType
    BY DEF Init, FlagType, EffectType
  <1>4. PhaseAt
    BY NoResultsType DEF Init, PhaseAt
  <1>5. Shape
    BY NoResultsType DEF Init, Shape
  <1>6. Batch
    BY NoResultsType DEF Init, Batch
  <1>. QED  BY <1>1, <1>2, <1>3, <1>4, <1>5, <1>6 DEF Control, TypeOK

\* The last entry of a conversation is an entry of it.
LEMMA LastType ==
    ASSUME StateType, turns # <<>>
    PROVE  /\ Last \in Entry
           /\ Last.calls \subseteq Calls
           /\ Len(turns) \in 1..Len(turns)
  <1>1. Len(turns) \in 1..Len(turns)
    BY DEF StateType
  <1>2. turns[Len(turns)] \in Entry
    BY <1>1 DEF StateType
  <1>. QED  BY <1>1, <1>2 DEF Last, Entry

\* Every step keeps the persisted state well typed.
LEMMA NextStateType == Control /\ Next => StateType'
  <1>. SUFFICES ASSUME Control, Next PROVE StateType'
    OBVIOUS
  <1>. USE NoResultsType
  <1>0. StateType /\ FrameType /\ PhaseAt /\ Shape
    BY DEF Control, TypeOK
  <1>1. CASE UNCHANGED stateVars
    BY <1>0, <1>1 DEF stateVars, StateType
  <1>2. CASE Recover /\ Project
    <2>1. Projected \in Seq(Entry)
      BY <1>0, ProjectedType DEF StateType, Projected
    <2>. QED  BY <1>0, <1>2, <2>1 DEF StateType, Project, Phases
  <1>3. CASE Admit
    BY <1>0, <1>3 DEF StateType, Admit, stateVars, RunStatuses, Phases
  <1>4. CASE Input
    <2>1. UserEntry \in Entry
      BY DEF UserEntry, Entry
    <2>2. turns' \in Seq(Entry)
      BY <1>0, <1>4, <2>1 DEF StateType, Input
    <2>. QED  BY <1>0, <1>4, <2>2 DEF StateType, Input
  <1>5. CASE Context \/ ModelAborted \/ Committed
    BY <1>0, <1>5 DEF StateType, Context, ModelAborted, Committed, Phases
  <1>6. ASSUME NEW C \in SUBSET Calls, NEW t \in BOOLEAN, ModelResponded(C, t)
        PROVE  StateType'
    <2>1. Step(committed + 1, C) \in Entry
      BY <1>0 DEF StateType, Step, Entry
    <2>2. turns' \in Seq(Entry)
      BY <1>0, <1>6, <2>1 DEF StateType, ModelResponded
    <2>. QED  BY <1>0, <1>6, <2>2 DEF StateType, ModelResponded, Phases
  <1>7. CASE Dispatch /\ ResultsReturned(Skipped(Last.calls))
    <2>1. Skipped(Last.calls) \in Partial
      BY <1>0, <1>7, LastType, SkippedType DEF Dispatch, PhaseAt, Shape, OpenLast
    <2>. QED  BY <1>0, <1>7, <2>1 DEF StateType, ResultsReturned, Phases
  <1>8. CASE ToolsJoin
    BY <1>0, <1>8 DEF StateType, FrameType, ToolsJoin, ResultsReturned, Phases
  <1>9. CASE StepProjected
    <2>1. Projected \in Seq(Entry)
      BY <1>0, ProjectedType DEF StateType, Projected
    <2>. QED  BY <1>0, <1>9, <2>1 DEF StateType, StepProjected, Project, stateVars, Phases
  <1>10. CASE Finish
    <2>1. ASSUME Edit(turns) PROVE turns' \in Seq(Entry)
      <3>1. PICK K \in SUBSET (1..Len(turns)) : K # {} /\ turns' = Kept(turns, K)
        BY <2>1 DEF Edit
      <3>. QED  BY <1>0, <3>1, KeptType DEF StateType
    <2>2. turns' \in Seq(Entry)
      BY <1>0, <1>10, <2>1 DEF StateType, Finish
    <2>3. phase' \in Phases
      BY <1>0, <1>10 DEF StateType, Finish, Settled, Phases
    <2>. QED  BY <1>0, <1>10, <2>2, <2>3 DEF StateType, Finish, PhaseAt, RunStatuses
  <1>11. CASE StepEdited
    <2>1. ASSUME Edit(turns) PROVE turns' \in Seq(Entry)
      <3>1. PICK K \in SUBSET (1..Len(turns)) : K # {} /\ turns' = Kept(turns, K)
        BY <2>1 DEF Edit
      <3>. QED  BY <1>0, <3>1, KeptType DEF StateType
    <2>2. turns' \in Seq(Entry)
      BY <1>0, <1>11, <2>1 DEF StateType, StepEdited
    <2>. QED  BY <1>0, <1>11, <2>2 DEF StateType, StepEdited
  <1>. QED
    BY <1>1, <1>2, <1>3, <1>4, <1>5, <1>6, <1>7, <1>8, <1>9, <1>10, <1>11
       DEF Next, Body, Model, Tools, Checkpoints, Invoke, Validate, Recover, Start, LoopHead,
           ModelFailed, BeforeTools, Dispatch, ToolEnter, ToolReturn, ToolReject, ToolsThrow,
           ResultsReady, StepFinished, Decide, RunFinished, RequestStop

\* Every step keeps the frame of the invocation well typed.
LEMMA NextFrameType == Control /\ Next => FrameType' /\ FlagType' /\ EffectType'
  <1>. SUFFICES ASSUME Control, Next PROVE FrameType' /\ FlagType' /\ EffectType'
    OBVIOUS
  <1>. USE NoResultsType
  <1>0. StateType /\ FrameType /\ FlagType /\ EffectType /\ PhaseAt /\ Shape
    BY DEF Control, TypeOK
  <1>1. ASSUME NEW m \in {"user", "none", "bad"}, Invoke(m)
        PROVE  FrameType' /\ FlagType' /\ EffectType'
    BY <1>0, <1>1 DEF Invoke, FrameType, FlagType, EffectType, effectVars, Locations
  <1>2. CASE Body
    <2>1. pc' \in Locations
      BY <1>0, <1>2 DEF FrameType, Body, Validate, Recover, Admit, Start, Input, LoopHead, Context,
         Committed, Dispatch, ResultsReturned, StepProjected, StepEdited, Decide, Finish, Refuse, Fail, Leave,
         Locations
    <2>2. res' \in Outcomes
      BY <1>0, <1>2 DEF FrameType, Body, Validate, Recover, Admit, Start, Input, LoopHead, Context,
         Committed, Dispatch, ResultsReturned, StepProjected, StepEdited, Decide, Finish, Refuse, Fail, Leave,
         Outcomes, RunStatuses
    <2>3. /\ UNCHANGED <<message, running, records, entered, replayed, stop, large>>
          /\ hookError' \in {hookError, TRUE, FALSE}
      BY <1>2 DEF Body, Validate, Recover, Admit, Start, Input, LoopHead, Context,
         Committed, Dispatch, StepProjected, StepEdited, Decide, Finish, effectVars
    <2>. QED  BY <1>0, <2>1, <2>2, <2>3 DEF FrameType, FlagType, EffectType
  <1>3. CASE Model
    BY <1>0, <1>3 DEF Model, ModelAborted, ModelFailed, ModelResponded, Fail, Leave,
       FrameType, FlagType, EffectType, effectVars, Locations, Outcomes, RunStatuses
  <1>4. CASE Tools
    <2>1. ASSUME NEW c \in Calls, ToolEnter(c) PROVE FrameType' /\ FlagType' /\ EffectType'
      BY <1>0, <2>1 DEF ToolEnter, FrameType, FlagType, EffectType, StateType
    <2>2. ASSUME NEW c \in Calls, ToolReturn(c) PROVE FrameType' /\ FlagType' /\ EffectType'
      <3>1. records' \in Partial
        BY <1>0, <2>2, FileType DEF ToolReturn, File, FrameType, How
      <3>. QED  BY <1>0, <2>2, <3>1 DEF ToolReturn, FrameType, FlagType, EffectType, effectVars
    <2>3. ASSUME NEW c \in Calls, ToolReject(c) PROVE FrameType' /\ FlagType' /\ EffectType'
      <3>1. records' \in Partial
        BY <1>0, <2>3, FileType DEF ToolReject, File, FrameType, How
      <3>. QED  BY <1>0, <2>3, <3>1 DEF ToolReject, FrameType, FlagType, EffectType, effectVars
    <2>4. CASE ToolsJoin \/ ToolsThrow
      BY <1>0, <2>4 DEF ToolsJoin, ToolsThrow, ResultsReturned, Fail, FrameType, FlagType,
         EffectType, effectVars, Locations, Outcomes, RunStatuses
    <2>. QED  BY <1>4, <2>1, <2>2, <2>3, <2>4 DEF Tools
  <1>5. ASSUME NEW ok \in BOOLEAN, Checkpoints(ok)
        PROVE  FrameType' /\ FlagType' /\ EffectType'
    <2>1. pc' \in Locations /\ res' \in Outcomes
      BY <1>0, <1>5 DEF Checkpoints, BeforeTools, ResultsReady, StepFinished, RunFinished, Fail,
         FrameType, Locations, Outcomes, RunStatuses
    <2>2. /\ UNCHANGED <<message, running, records, entered, replayed, hookError, large>>
          /\ stop' \in {stop, TRUE}
      BY <1>5 DEF Checkpoints, BeforeTools, ResultsReady, StepFinished, RunFinished, AwaitHost,
         effectVars
    <2>. QED  BY <1>0, <2>1, <2>2 DEF FrameType, FlagType, EffectType
  <1>6. CASE RequestStop
    BY <1>0, <1>6 DEF RequestStop, FrameType, FlagType, EffectType, effectVars
  <1>. QED  BY <1>1, <1>2, <1>3, <1>4, <1>5, <1>6 DEF Next

\* The recovery marker follows the coroutine's position.
LEMMA NextPhaseAt == Control /\ Next => PhaseAt'
  <1>. SUFFICES ASSUME Control, Next PROVE PhaseAt'
    OBVIOUS
  <1>. USE NoResultsType
  <1>0. StateType /\ FrameType /\ FlagType /\ PhaseAt /\ Shape /\ Batch
    BY DEF Control, TypeOK
  <1>1. ASSUME NEW m \in {"user", "none", "bad"}, Invoke(m) PROVE PhaseAt'
    BY <1>0, <1>1 DEF Invoke, PhaseAt, stateVars
  <1>2. CASE Validate
    BY <1>0, <1>2 DEF Validate, Refuse, Uncertain, PhaseAt, StateType, Phases, stateVars, BadRequest
  <1>3. CASE Recover
    BY <1>0, <1>3 DEF Recover, Project, Refuse, PhaseAt, stateVars
  <1>4. CASE Admit \/ Start
    BY <1>0, <1>4 DEF Admit, Start, Refuse, Fail, PhaseAt, stateVars, RunStatuses
  <1>5. CASE Input \/ LoopHead \/ Context
    BY <1>0, <1>5 DEF Input, LoopHead, Context, Leave, Fail, PhaseAt, stateVars, RunStatuses
  <1>6. CASE Model
    BY <1>0, <1>6 DEF Model, ModelAborted, ModelFailed, ModelResponded, Leave, Fail, PhaseAt,
       stateVars, RunStatuses
  <1>7. CASE Committed
    BY <1>0, <1>7 DEF Committed, Leave, Fail, PhaseAt, RunStatuses
  <1>8. ASSUME NEW ok \in BOOLEAN, Checkpoints(ok) PROVE PhaseAt'
    BY <1>0, <1>8 DEF Checkpoints, BeforeTools, ResultsReady, StepFinished, RunFinished, Fail,
       PhaseAt, stateVars, RunStatuses
  <1>9. CASE Dispatch
    BY <1>0, <1>9 DEF Dispatch, ResultsReturned, Fail, PhaseAt, stateVars, RunStatuses
  <1>10. CASE ToolsJoin
    <2>1. running = {}
      BY <1>0, <1>10 DEF ToolsJoin, Batch
    <2>. QED  BY <1>0, <1>10, <2>1 DEF ToolsJoin, ResultsReturned, Fail, PhaseAt, RunStatuses
  <1>11. CASE ToolsThrow
    BY <1>0, <1>11 DEF ToolsThrow, Fail, PhaseAt, stateVars, RunStatuses
  <1>12. ASSUME NEW c \in Calls, ToolEnter(c) \/ ToolReturn(c) \/ ToolReject(c) PROVE PhaseAt'
    BY <1>0, <1>12 DEF ToolEnter, ToolReturn, ToolReject, PhaseAt, stateVars
  <1>13. CASE StepProjected \/ StepEdited
    BY <1>0, <1>13 DEF StepProjected, StepEdited, Project, Fail, PhaseAt, stateVars, RunStatuses
  <1>14. CASE Decide
    BY <1>0, <1>14 DEF Decide, Leave, PhaseAt, stateVars, RunStatuses
  <1>15. CASE Finish
    BY <1>0, <1>15 DEF Finish, Settled, PhaseAt, StateType, Phases
  <1>16. CASE RequestStop
    BY <1>0, <1>16 DEF RequestStop, PhaseAt, stateVars
  <1>. QED
    BY <1>1, <1>2, <1>3, <1>4, <1>5, <1>6, <1>7, <1>8, <1>9, <1>10, <1>11, <1>12, <1>13, <1>14,
       <1>15, <1>16 DEF Next, Body, Tools

\* A batch only files results of the calls it was given.
LEMMA NextBatch == Control /\ Next => Batch'
  <1>. SUFFICES ASSUME Control, Next PROVE Batch'
    OBVIOUS
  <1>. USE NoResultsType
  <1>0. StateType /\ FrameType /\ PhaseAt /\ Shape /\ Batch
    BY DEF Control, TypeOK
  <1>1. CASE Dispatch
    BY <1>0, <1>1 DEF Dispatch, ResultsReturned, Fail, PhaseAt, Batch
  <1>2. ASSUME NEW c \in Calls, ToolEnter(c) PROVE Batch'
    BY <1>0, <1>2 DEF ToolEnter, Batch, stateVars, Last
  <1>3. ASSUME NEW c \in Calls, ToolReturn(c) \/ ToolReject(c) PROVE Batch'
    <2>1. DOMAIN records' = DOMAIN records \cup {c}
      BY <1>3 DEF ToolReturn, ToolReject, File
    <2>. QED  BY <1>0, <1>3, <2>1 DEF ToolReturn, ToolReject, Batch, stateVars, Last
  <1>4. CASE ToolsJoin \/ ToolsThrow
    BY <1>0, <1>4 DEF ToolsJoin, ToolsThrow, ResultsReturned, Fail, Batch
  <1>5. CASE RequestStop
    BY <1>0, <1>5 DEF RequestStop, Batch, stateVars, Last
  <1>6. ASSUME pc # "tools", UNCHANGED <<running, records>>, pc' # "tools" PROVE Batch'
    BY <1>0, <1>6 DEF PhaseAt, Batch
  <1>7. ASSUME NEW m \in {"user", "none", "bad"}, Invoke(m) PROVE Batch'
    BY <1>7 DEF Invoke, Batch
  <1>8. Body /\ ~Dispatch => pc # "tools" /\ pc' # "tools" /\ UNCHANGED <<running, records>>
    BY DEF Body, Validate, Recover, Admit, Start, Input, LoopHead, Context, Committed,
       StepProjected, StepEdited, Decide, Finish, Refuse, Fail, Leave
  <1>9. Model => pc # "tools" /\ pc' # "tools" /\ UNCHANGED <<running, records>>
    BY DEF Model, ModelAborted, ModelFailed, ModelResponded, Fail, Leave
  <1>10. ASSUME NEW ok \in BOOLEAN, Checkpoints(ok)
         PROVE  pc # "tools" /\ pc' # "tools" /\ UNCHANGED <<running, records>>
    BY <1>10 DEF Checkpoints, BeforeTools, ResultsReady, StepFinished, RunFinished, Fail
  <1>. QED
    BY <1>1, <1>2, <1>3, <1>4, <1>5, <1>6, <1>7, <1>8, <1>9, <1>10 DEF Next, Tools

\* A settled conversation with its last entry still open, or closed, is all the
\* structure any step needs to know; these are the three ways it can change.
LEMMA AppendShape ==
    ASSUME NEW s \in Seq(Entry), NEW e \in Entry,
           \A i \in 1..Len(s) : Answered(s[i])
    PROVE  /\ Len(Append(s, e)) = Len(s) + 1
           /\ Append(s, e)[Len(s) + 1] = e
           /\ \A i \in 1..Len(s) + 1 : i < Len(s) + 1 => Answered(Append(s, e)[i])
  OBVIOUS

\* Projection answers every entry.
LEMMA ProjectedShape ==
    ASSUME Control, phase = "Projection"
    PROVE  /\ Len(Projected) = Len(turns)
           /\ Projected \in Seq(Entry)
           /\ \A i \in 1..Len(Projected) : Answered(Projected[i])
  <1>. DEFINE t == Projected
  <1>0. StateType /\ Shape /\ OpenLast /\ DOMAIN pending = Last.calls
    BY DEF Control, TypeOK, Shape
  <1>1. /\ t \in Seq(Entry)
        /\ Len(t) = Len(turns)
        /\ \A i \in 1..Len(turns) : t[i].seq = turns[i].seq /\ t[i].calls = turns[i].calls
        /\ \A i \in 1..Len(turns) : t[i].rets = IF i = Len(turns) THEN pending ELSE turns[i].rets
    BY <1>0, ProjectedType DEF StateType, Projected
  <1>2. ASSUME NEW i \in 1..Len(t) PROVE Answered(t[i])
    <2>1. CASE i = Len(turns)
      BY <1>0, <1>1, <2>1 DEF Answered, Last
    <2>2. CASE i # Len(turns)
      <3>1. Answered(turns[i])
        BY <1>0, <1>1, <2>2 DEF Shape, StateType
      <3>. QED  BY <1>1, <2>2, <3>1 DEF Answered
    <2>. QED  BY <2>1, <2>2
  <1>. QED  BY <1>1, <1>2

\* An edit keeps an answered conversation answered.
LEMMA KeptShape ==
    ASSUME NEW s \in Seq(Entry), NEW K \in SUBSET (1..Len(s)), K # {},
           \A i \in 1..Len(s) : Answered(s[i])
    PROVE  \A i \in 1..Len(Kept(s, K)) : Answered(Kept(s, K)[i])
  <1>1. Answered(UserEntry)
    BY NoResultsType DEF Answered, UserEntry
  <1>. QED  BY <1>1, KeptType

\* Where no step is open every entry is answered, and conversely.
LEMMA ClosedShape ==
    ASSUME StateType, Shape, phase \in {"Ready", "Model"}, pc # "committed"
    PROVE  \A i \in 1..Len(turns) : Answered(turns[i])
  <1>. SUFFICES ASSUME NEW i \in 1..Len(turns) PROVE Answered(turns[i])
    OBVIOUS
  <1>1. CASE i < Len(turns)
    BY <1>1 DEF Shape
  <1>2. CASE i = Len(turns)
    BY <1>2 DEF Shape, Last, StateType
  <1>. QED  BY <1>1, <1>2 DEF StateType

\* The same after a step: an answered conversation has the shape of a closed one.
LEMMA ClosedShapeNext ==
    ASSUME StateType', phase' \in {"Ready", "Model"}, pc' # "committed", DOMAIN pending' = {},
           \A i \in 1..Len(turns') : Answered(turns'[i])
    PROVE  Shape'
  <1>1. turns' # <<>> => Len(turns') \in 1..Len(turns')
    BY DEF StateType
  <1>. QED  BY <1>1 DEF Shape, Last

\* Only the last step is ever open, and only behind its recovery marker.
LEMMA NextShape == Control /\ Next => Shape'
  <1>. SUFFICES ASSUME Control, Next PROVE Shape'
    OBVIOUS
  <1>. USE NoResultsType
  <1>0. StateType /\ FrameType /\ PhaseAt /\ Shape /\ Batch /\ StateType'
    BY NextStateType DEF Control, TypeOK
  <1>1. ASSUME UNCHANGED stateVars, pc # "committed", pc' # "committed" PROVE Shape'
    BY <1>0, <1>1 DEF Shape, OpenLast, Last, stateVars
  <1>2. CASE Recover /\ phase = "Projection" /\ Project
    <2>1. \A i \in 1..Len(turns') : Answered(turns'[i])
      BY <1>2, ProjectedShape DEF Project, Recover
    <2>. QED  BY <1>0, <1>2, <2>1, ClosedShapeNext DEF Project, Recover, Refuse
  <1>3. CASE Admit
    <2>1. \A i \in 1..Len(turns) : Answered(turns[i])
      BY <1>0, <1>3, ClosedShape DEF Admit, PhaseAt
    <2>2. CASE stop
      BY <1>1, <1>3, <2>2 DEF Admit, Refuse
    <2>3. CASE ~stop
      BY <1>0, <1>3, <2>1, <2>3, ClosedShapeNext DEF Admit
    <2>. QED  BY <2>2, <2>3
  <1>4. CASE Input
    <2>1. \A i \in 1..Len(turns) : Answered(turns[i])
      BY <1>0, <1>4, ClosedShape DEF Input, PhaseAt
    <2>2. UserEntry \in Entry /\ Answered(UserEntry)
      BY DEF UserEntry, Entry, Answered
    <2>3. \A i \in 1..Len(turns') : Answered(turns'[i])
      <3>1. CASE turns' = turns
        BY <2>1, <3>1
      <3>2. CASE turns' = Append(turns, UserEntry)
        BY <1>0, <2>1, <2>2, <3>2 DEF StateType
      <3>. QED  BY <1>4, <3>1, <3>2 DEF Input
    <2>. QED  BY <1>0, <1>4, <2>3, ClosedShapeNext DEF Input, Fail, PhaseAt, Shape
  <1>5. CASE Context \/ ModelAborted
    <2>1. \A i \in 1..Len(turns) : Answered(turns[i])
      BY <1>0, <1>5, ClosedShape DEF Context, ModelAborted, PhaseAt
    <2>. QED  BY <1>0, <1>5, <2>1, ClosedShapeNext DEF Context, ModelAborted, Leave, PhaseAt, Shape
  <1>6. ASSUME NEW C \in SUBSET Calls, NEW t \in BOOLEAN, ModelResponded(C, t) PROVE Shape'
    <2>. DEFINE e == Step(committed + 1, C)
    <2>1. \A i \in 1..Len(turns) : Answered(turns[i])
      BY <1>0, <1>6, ClosedShape DEF ModelResponded, PhaseAt
    <2>2. e \in Entry /\ e.seq = committed + 1 /\ DOMAIN e.rets = {} /\ committed \in Nat
      BY <1>0 DEF Step, Entry, StateType
    <2>3. turns' = Append(turns, e) /\ turns \in Seq(Entry)
      BY <1>0, <1>6 DEF ModelResponded, StateType
    <2>4. /\ Len(turns') = Len(turns) + 1
          /\ turns'[Len(turns) + 1] = e
          /\ \A i \in 1..Len(turns) + 1 : i < Len(turns) + 1 => Answered(turns'[i])
      BY <2>1, <2>2, <2>3, AppendShape
    <2>5. turns' # <<>> /\ Last' = e
      BY <2>3, <2>4 DEF Last
    <2>6. phase' = "Ready" /\ pc' = "committed" /\ committed' = committed + 1 /\ pending' = pending
      BY <1>6 DEF ModelResponded
    <2>7. DOMAIN pending = {}
      BY <1>0, <1>6 DEF ModelResponded, PhaseAt, Shape
    <2>. QED  BY <2>2, <2>4, <2>5, <2>6, <2>7 DEF Shape
  <1>7. CASE Committed
    BY <1>0, <1>7 DEF Committed, HasCalls, Leave, Fail, Shape, OpenLast, Last, PhaseAt, Answered
  <1>8. CASE Dispatch /\ ResultsReturned(Skipped(Last.calls))
    <2>1. OpenLast /\ DOMAIN Skipped(Last.calls) = Last.calls
      BY <1>0, <1>8 DEF Dispatch, PhaseAt, Shape, Skipped
    <2>. QED  BY <1>0, <1>8, <2>1 DEF ResultsReturned, Fail, Shape, OpenLast, Last
  <1>9. CASE ToolsJoin
    <2>1. OpenLast
      BY <1>0, <1>9 DEF ToolsJoin, PhaseAt, Shape
    <2>. QED  BY <1>0, <1>9, <2>1 DEF ToolsJoin, ResultsReturned, Fail, Shape, OpenLast, Last
  <1>10. CASE StepProjected
    <2>1. CASE UNCHANGED stateVars
      BY <1>1, <1>10, <2>1 DEF StepProjected, Fail
    <2>2. /\ Projected \in Seq(Entry)
          /\ \A i \in 1..Len(Projected) : Answered(Projected[i])
      BY <1>0, <1>10, ProjectedShape DEF StepProjected, PhaseAt
    <2>3. CASE Project
      BY <1>0, <1>10, <2>2, <2>3, ClosedShapeNext DEF Project, StepProjected, Fail
    <2>. QED  BY <1>10, <2>1, <2>3 DEF StepProjected
  <1>11. CASE Finish
    <2>1. CASE Settled = "Ready"
      <3>1. \A i \in 1..Len(turns) : Answered(turns[i])
        BY <1>0, <1>11, <2>1, ClosedShape DEF Finish, Settled, StateType, Phases
      <3>2. \A i \in 1..Len(turns') : Answered(turns'[i])
        <4>1. ASSUME Edit(turns) PROVE \A i \in 1..Len(turns') : Answered(turns'[i])
          <5>1. PICK K \in SUBSET (1..Len(turns)) : K # {} /\ turns' = Kept(turns, K)
            BY <4>1 DEF Edit
          <5>. QED  BY <1>0, <3>1, <5>1, KeptShape DEF StateType
        <4>. QED  BY <1>11, <3>1, <4>1 DEF Finish
      <3>3. DOMAIN pending' = {}
        BY <1>0, <1>11, <2>1 DEF Finish, Shape, Settled
      <3>. QED  BY <1>0, <1>11, <2>1, <3>2, <3>3, ClosedShapeNext DEF Finish
    <2>2. CASE Settled # "Ready"
      <3>1. turns' = turns /\ pending' = pending /\ committed' = committed /\ pc' = "ckptRun"
        BY <1>11, <2>2 DEF Finish
      <3>2. phase' \in {"Blocked", "Projection"} /\ (phase' = "Projection" <=> phase = "Projection")
            /\ phase \in {"Tools", "Blocked", "Projection"}
        BY <1>0, <1>11, <2>2 DEF Finish, Settled, StateType, Phases
      <3>. QED  BY <1>0, <3>1, <3>2 DEF Shape, OpenLast, Last
    <2>. QED  BY <2>1, <2>2
  <1>12. CASE RequestStop
    BY <1>0, <1>12 DEF RequestStop, Shape, OpenLast, Last, stateVars
  <1>13. CASE StepEdited
    <2>1. \A i \in 1..Len(turns) : Answered(turns[i])
      BY <1>0, <1>13, ClosedShape DEF StepEdited, PhaseAt
    <2>2. ASSUME Edit(turns) PROVE \A i \in 1..Len(turns') : Answered(turns'[i])
      <3>1. PICK K \in SUBSET (1..Len(turns)) : K # {} /\ turns' = Kept(turns, K)
        BY <2>2 DEF Edit
      <3>. QED  BY <1>0, <2>1, <3>1, KeptShape DEF StateType
    <2>3. \A i \in 1..Len(turns') : Answered(turns'[i])
      BY <1>13, <2>1, <2>2 DEF StepEdited
    <2>. QED  BY <1>0, <1>13, <2>3, ClosedShapeNext DEF StepEdited, Fail, PhaseAt, Shape
  <1>. QED
    BY <1>1, <1>2, <1>3, <1>4, <1>5, <1>6, <1>7, <1>8, <1>9, <1>10, <1>11, <1>12, <1>13
       DEF Next, Body, Model, Tools, Checkpoints, Invoke, Validate, Recover, Start, LoopHead,
           ModelFailed, BeforeTools, Dispatch, ToolEnter, ToolReturn, ToolReject, ToolsThrow,
           ResultsReady, StepFinished, Decide, RunFinished, Refuse, Fail, Leave

\* The control invariant is inductive.
LEMMA NextControl == Control /\ [Next]_loopVars => Control'
  <1>1. Control /\ Next => Control'
    BY NextStateType, NextFrameType, NextPhaseAt, NextShape, NextBatch DEF Control, TypeOK
  <1>2. Control /\ UNCHANGED loopVars => Control'
    BY DEF Control, TypeOK, StateType, FrameType, FlagType, EffectType, PhaseAt, Shape, Batch,
       OpenLast, Last, loopVars, stateVars, frameVars, effectVars
  <1>. QED  BY <1>1, <1>2

\* Position, recovery marker and structure agree throughout loop::run.
THEOREM ControlInvariant == Spec => []Control
  BY InitControl, NextControl, PTL DEF Spec

\* Type correctness of loop::run, for every set of calls and every bound.
THEOREM TypeCorrect == Spec => []TypeOK
  BY ControlInvariant, PTL DEF Control

(***************************************************************************)
(* Commit identities and effects.                                          *)
(***************************************************************************)
\* Commit sequences grow along s and none is ahead of n.
Ordered(s, n) ==
    /\ \A i \in 1..Len(s) : s[i].seq <= n
    /\ \A i, j \in 1..Len(s) :
          i < j /\ s[i].seq # 0 /\ s[j].seq # 0 => s[i].seq < s[j].seq

\* The results in s are true, and only calls of a step were entered for it.
Honest(s) ==
    \A i \in 1..Len(s) :
        /\ Truthful(s[i].seq, s[i].rets)
        /\ \A c \in Calls : <<s[i].seq, c>> \in entered => c \in s[i].calls

\* What is known about the effects of the step that is being settled.
Current ==
    /\ \A e \in entered : e[1] <= committed /\ e[1] # 0
    /\ pc \in {"committed", "ckptTools", "dispatch"} =>
          \A c \in Calls : <<committed, c>> \notin entered
    /\ pc = "tools" =>
          \A c \in Calls : <<committed, c>> \in entered <=>
                            c \in running \/ (c \in DOMAIN records /\ records[c] = "ran")
    /\ Truthful(committed, pending)

Ledger == Ordered(turns, committed) /\ Honest(turns) /\ Current /\ replayed = {}

\* An edit keeps order and honesty.
LEMMA KeptLedger ==
    ASSUME NEW s \in Seq(Entry), NEW n \in Nat, NEW K \in SUBSET (1..Len(s)), K # {},
           Ordered(s, n), Honest(s), \A e \in entered : e[1] # 0
    PROVE  Ordered(Kept(s, K), n) /\ Honest(Kept(s, K))
  <1>. DEFINE t == Kept(s, K)
              F(i) == From(K, i)
  <1>1. /\ \A i \in 1..Len(t) : F(i) \in 1..Len(s) /\ t[i] = IF i = 1 THEN UserEntry ELSE s[F(i)]
        /\ \A i, j \in 1..Len(t) : i < j => F(i) < F(j)
    BY KeptType
  <1>. HIDE DEF t, F
  <1>2. UserEntry.seq = 0 /\ DOMAIN UserEntry.rets = {} /\ \A c \in Calls : <<0, c>> \notin entered
    BY NoResultsType DEF UserEntry
  <1>3. Honest(t)
    <2>. SUFFICES ASSUME NEW i \in 1..Len(t)
                  PROVE  /\ Truthful(t[i].seq, t[i].rets)
                         /\ \A c \in Calls : <<t[i].seq, c>> \in entered => c \in t[i].calls
      BY DEF Honest
    <2>1. CASE i = 1
      BY <1>1, <1>2, <2>1 DEF Truthful
    <2>2. CASE i # 1
      BY <1>1, <2>2 DEF Honest
    <2>. QED  BY <2>1, <2>2
  <1>4. Ordered(t, n)
    <2>1. \A i \in 1..Len(t) : t[i].seq <= n /\ (i = 1 => t[i].seq = 0)
      BY <1>1, <1>2 DEF Ordered
    <2>2. ASSUME NEW i \in 1..Len(t), NEW j \in 1..Len(t), i < j, t[i].seq # 0, t[j].seq # 0
          PROVE  t[i].seq < t[j].seq
      <3>1. i # 1 /\ j # 1
        BY <2>1, <2>2
      <3>2. t[i] = s[F(i)] /\ t[j] = s[F(j)] /\ F(i) < F(j)
            /\ F(i) \in 1..Len(s) /\ F(j) \in 1..Len(s)
        BY <1>1, <2>2, <3>1
      <3>. QED  BY <2>2, <3>2 DEF Ordered
    <2>. QED  BY <2>1, <2>2 DEF Ordered
  <1>. QED  BY <1>3, <1>4 DEF t

\* Projecting the buffered results keeps order and honesty.
LEMMA ProjectedLedger ==
    ASSUME Control, Ledger, phase = "Projection"
    PROVE  Ordered(Projected, committed) /\ Honest(Projected)
  <1>. DEFINE t == Projected
  <1>0. StateType /\ OpenLast
    BY DEF Control, TypeOK, Shape
  <1>1. /\ t \in Seq(Entry)
        /\ Len(t) = Len(turns)
        /\ \A i \in 1..Len(turns) : t[i].seq = turns[i].seq /\ t[i].calls = turns[i].calls
        /\ \A i \in 1..Len(turns) : t[i].rets = IF i = Len(turns) THEN pending ELSE turns[i].rets
    BY <1>0, ProjectedType DEF StateType, Projected
  <1>2. Ordered(t, committed)
    BY <1>1 DEF Ledger, Ordered
  <1>3. ASSUME NEW i \in 1..Len(t) PROVE Truthful(t[i].seq, t[i].rets)
    <2>1. CASE i = Len(turns)
      BY <1>0, <1>1, <2>1 DEF Ledger, Current, OpenLast, Last
    <2>2. CASE i # Len(turns)
      BY <1>1, <2>2 DEF Ledger, Honest
    <2>. QED  BY <2>1, <2>2
  <1>4. Honest(t)
    BY <1>1, <1>3 DEF Ledger, Honest
  <1>. QED  BY <1>2, <1>4

\* Appending an unanswered entry that no effect belongs to keeps both.
LEMMA AppendLedger ==
    ASSUME NEW s \in Seq(Entry), NEW n \in Nat, NEW m \in Nat, NEW e \in Entry,
           Ordered(s, n), Honest(s), n <= m, e.seq = 0 \/ (e.seq = m /\ n < m),
           DOMAIN e.rets = {}, \A c \in Calls : <<e.seq, c>> \notin entered
    PROVE  Ordered(Append(s, e), m) /\ Honest(Append(s, e))
  <1>. DEFINE t == Append(s, e)
  <1>1. /\ Len(t) = Len(s) + 1
        /\ t[Len(s) + 1] = e
        /\ \A i \in 1..Len(s) : t[i] = s[i]
    OBVIOUS
  <1>2. \A i \in 1..Len(t) : i \in 1..Len(s) \/ i = Len(s) + 1
    BY <1>1
  <1>a. ASSUME NEW i \in 1..Len(s) PROVE s[i].seq \in Nat
    <2>1. s[i] \in Entry
      OBVIOUS
    <2>. QED  BY <2>1 DEF Entry
  <1>3. \A i \in 1..Len(s) : s[i].seq \in Nat /\ s[i].seq <= n
    BY <1>a DEF Ordered
  <1>4. Honest(t)
    BY <1>1, <1>2 DEF Honest, Truthful
  <1>5. ASSUME NEW i \in 1..Len(t) PROVE t[i].seq <= m
    <2>1. CASE i \in 1..Len(s)
      BY <1>1, <1>3, <2>1
    <2>2. CASE i = Len(s) + 1
      BY <1>1, <2>2
    <2>. QED  BY <1>2, <2>1, <2>2
  <1>6. ASSUME NEW i \in 1..Len(t), NEW j \in 1..Len(t), i < j, t[i].seq # 0, t[j].seq # 0
        PROVE  t[i].seq < t[j].seq
    <2>1. i \in 1..Len(s)
      BY <1>1, <1>2, <1>6
    <2>2. CASE j \in 1..Len(s)
      BY <1>1, <1>6, <2>1, <2>2 DEF Ordered
    <2>3. CASE j = Len(s) + 1
      BY <1>1, <1>3, <1>6, <2>1, <2>3
    <2>. QED  BY <1>2, <2>2, <2>3
  <1>. QED  BY <1>4, <1>5, <1>6 DEF Ordered

\* Effects and identities are consistent before the first invocation.
LEMMA InitLedger == Init => Ledger
  BY NoResultsType DEF Init, Ledger, Ordered, Honest, Current, Truthful

\* A step that leaves conversation, counter, buffer and effects alone, and does
\* not enter the part of run() that settles a batch, keeps the ledger.
LEMMA QuietLedger ==
    ASSUME Control, Ledger, UNCHANGED <<turns, committed, entered, replayed>>,
           pc' \notin {"committed", "ckptTools", "dispatch", "tools"},
           pending' = pending \/ DOMAIN pending' = {}
    PROVE  Ledger'
  <1>1. Ordered(turns, committed)' /\ Honest(turns)' /\ replayed' = {}
    BY DEF Ledger, Ordered, Honest, Truthful
  <1>2. Current'
    BY DEF Ledger, Current, Truthful
  <1>. QED  BY <1>1, <1>2 DEF Ledger

\* A step that replaces the conversation by an ordered and honest one.
LEMMA EditLedger ==
    ASSUME Control, Ledger, UNCHANGED <<committed, entered, replayed>>,
           Ordered(turns', committed), Honest(turns'),
           pc' \notin {"committed", "ckptTools", "dispatch", "tools"},
           pending' = pending \/ DOMAIN pending' = {}
    PROVE  Ledger'
  <1>1. Ordered(turns', committed') /\ replayed' = {}
    BY DEF Ledger
  <1>2. \A i \in 1..Len(turns') :
          /\ \A c \in DOMAIN turns'[i].rets : turns'[i].rets[c] = "ran" <=> <<turns'[i].seq, c>> \in entered'
          /\ \A c \in Calls : <<turns'[i].seq, c>> \in entered' => c \in turns'[i].calls
    BY DEF Honest, Truthful
  <1>3. Current'
    BY DEF Ledger, Current, Truthful
  <1>. QED  BY <1>1, <1>2, <1>3 DEF Ledger, Ordered, Honest, Truthful

\* Entering a call is new for its step: the sequence of the last step is used by
\* no other entry, and the call was neither running nor filed.
LEMMA EnterLedger ==
    ASSUME Control, Ledger, NEW c \in Calls, ToolEnter(c)
    PROVE  Ledger'
  <1>0. StateType /\ FrameType /\ OpenLast /\ DOMAIN pending = {} /\ Batch
    BY DEF Control, TypeOK, PhaseAt, Shape, ToolEnter
  <1>1. /\ turns' = turns /\ committed' = committed /\ pending' = pending /\ pc' = "tools"
        /\ records' = records /\ running' = running \cup {c} /\ pc = "tools"
        /\ entered' = entered \cup {<<committed, c>>}
        /\ c \in Last.calls /\ c \notin DOMAIN records /\ c \notin running
    BY DEF ToolEnter, stateVars
  <1>2. <<committed, c>> \notin entered
    BY <1>1 DEF Ledger, Current
  <1>3. replayed' = {}
    BY <1>2 DEF ToolEnter, Ledger
  <1>4. Ordered(turns', committed')
    BY <1>1 DEF Ledger
  <1>5. ASSUME NEW i \in 1..Len(turns), i # Len(turns) PROVE turns[i].seq # committed
    <2>1. Len(turns) \in 1..Len(turns) /\ i < Len(turns)
      BY <1>0, <1>5, LastType DEF StateType, OpenLast
    <2>a. turns[i] \in Entry
      BY <1>0 DEF StateType
    <2>2. turns[i].seq \in Nat
      BY <2>a DEF Entry
    <2>3. committed # 0 /\ turns[Len(turns)].seq = committed
      BY <1>0 DEF OpenLast, Last
    <2>4. turns[i].seq # 0 => turns[i].seq < committed
      BY <2>1, <2>3 DEF Ledger, Ordered
    <2>. QED  BY <1>0, <2>2, <2>3, <2>4 DEF StateType
  <1>6. Honest(turns)'
    <2>. SUFFICES ASSUME NEW i \in 1..Len(turns)
                  PROVE  /\ \A d \in DOMAIN turns[i].rets :
                                turns[i].rets[d] = "ran" <=> <<turns[i].seq, d>> \in entered'
                         /\ \A d \in Calls : <<turns[i].seq, d>> \in entered' => d \in turns[i].calls
      BY <1>1 DEF Honest, Truthful
    <2>1. CASE i = Len(turns)
      BY <1>0, <1>1, <2>1 DEF OpenLast, Last, Ledger, Honest
    <2>2. CASE i # Len(turns)
      <3>1. \A d : <<turns[i].seq, d>> \in entered' <=> <<turns[i].seq, d>> \in entered
        BY <1>1, <1>5, <2>2
      <3>. QED  BY <3>1 DEF Ledger, Honest, Truthful
    <2>. QED  BY <2>1, <2>2
  <1>7. Current'
    <2>1. \A e \in entered' : e[1] <= committed' /\ e[1] # 0
      BY <1>0, <1>1 DEF Ledger, Current, OpenLast, StateType
    <2>2. \A d \in Calls : <<committed', d>> \in entered' <=>
                             d \in running' \/ (d \in DOMAIN records' /\ records'[d] = "ran")
      BY <1>1 DEF Ledger, Current
    <2>3. Truthful(committed, pending)'
      BY <1>0, <1>1 DEF Truthful
    <2>. QED  BY <1>1, <2>1, <2>2, <2>3 DEF Current
  <1>. QED  BY <1>3, <1>4, <1>6, <1>7 DEF Ledger

\* Filing an answer keeps what the running batch knows about its effects.
LEMMA FiledLedger ==
    ASSUME Control, Ledger, NEW c \in Calls, ToolReturn(c) \/ ToolReject(c)
    PROVE  Ledger'
  <1>0. FrameType /\ DOMAIN pending = {} /\ Batch
    BY DEF Control, TypeOK, PhaseAt, Shape, ToolReturn, ToolReject
  <1>1. /\ turns' = turns /\ committed' = committed /\ pending' = pending /\ entered' = entered
        /\ replayed' = replayed /\ pc = "tools" /\ pc' = "tools"
    BY DEF ToolReturn, ToolReject, stateVars, effectVars
  <1>2. Ordered(turns, committed)' /\ Honest(turns)' /\ replayed' = {}
    BY <1>1 DEF Ledger, Ordered, Honest, Truthful
  <1>3. \A d \in Calls : <<committed, d>> \in entered <=>
                           d \in running' \/ (d \in DOMAIN records' /\ records'[d] = "ran")
    <2>1. CASE ToolReturn(c)
      <3>1. c \in running /\ running' = running \ {c}
            /\ records' = [d \in DOMAIN records \cup {c} |-> IF d = c THEN "ran" ELSE records[d]]
        BY <2>1 DEF ToolReturn, File
      <3>. QED  BY <1>0, <1>1, <3>1 DEF Ledger, Current
    <2>2. CASE ToolReject(c)
      <3>1. c \notin running /\ c \notin DOMAIN records /\ running' = running
            /\ records' = [d \in DOMAIN records \cup {c} |-> IF d = c THEN "rejected" ELSE records[d]]
        BY <2>2 DEF ToolReject, File
      <3>. QED  BY <1>0, <1>1, <3>1 DEF Ledger, Current
    <2>. QED  BY <2>1, <2>2
  <1>4. Current'
    BY <1>1, <1>3 DEF Ledger, Current, Truthful
  <1>. QED  BY <1>2, <1>4 DEF Ledger

\* Every step keeps effects and identities consistent.
LEMMA NextLedger == Control /\ Ledger /\ Next => Ledger'
  <1>. SUFFICES ASSUME Control, Ledger, Next PROVE Ledger'
    OBVIOUS
  <1>. USE NoResultsType
  <1>0. StateType /\ FrameType /\ PhaseAt /\ Shape /\ Batch
    BY DEF Control, TypeOK
  <1>1. CASE Validate \/ Admit \/ Start \/ LoopHead \/ Context \/ Decide
    BY <1>1, QuietLedger DEF Validate, Admit, Start, LoopHead, Context, Decide, Refuse, Fail, Leave,
       stateVars, effectVars
  <1>2. CASE Recover
    <2>1. CASE UNCHANGED stateVars
      BY <1>2, <2>1, QuietLedger DEF Recover, Refuse, stateVars, effectVars
    <2>2. CASE phase = "Projection" /\ Project
      BY <1>2, <2>2, ProjectedLedger, EditLedger DEF Recover, Project, Refuse, effectVars
    <2>. QED  BY <1>2, <2>1, <2>2 DEF Recover
  <1>3. CASE Input
    <2>1. CASE turns' = turns
      BY <1>3, <2>1, QuietLedger DEF Input, Fail, effectVars
    <2>2. CASE turns' = Append(turns, UserEntry)
      <3>1. UserEntry \in Entry /\ UserEntry.seq = 0 /\ DOMAIN UserEntry.rets = {}
        BY DEF UserEntry, Entry
      <3>a. turns \in Seq(Entry) /\ committed \in Nat /\ committed <= committed
        BY <1>0 DEF StateType
      <3>2. \A c \in Calls : <<UserEntry.seq, c>> \notin entered
        BY <3>1 DEF Ledger, Current
      <3>3. Ordered(turns', committed) /\ Honest(turns')
        BY <2>2, <3>1, <3>2, <3>a, AppendLedger DEF Ledger
      <3>. QED  BY <1>3, <3>3, EditLedger DEF Input, Fail, effectVars
    <2>. QED  BY <1>3, <2>1, <2>2 DEF Input
  <1>4. CASE ModelAborted \/ ModelFailed
    BY <1>4, QuietLedger DEF ModelAborted, ModelFailed, Leave, Fail, stateVars, effectVars
  <1>5. ASSUME NEW C \in SUBSET Calls, NEW t \in BOOLEAN, ModelResponded(C, t) PROVE Ledger'
    <2>. DEFINE e == Step(committed + 1, C)
    <2>1. e \in Entry /\ e.seq = committed + 1 /\ DOMAIN e.rets = {} /\ committed \in Nat
      BY <1>0 DEF Step, Entry, StateType
    <2>2. ASSUME NEW c \in Calls PROVE <<committed + 1, c>> \notin entered
      <3>1. <<committed + 1, c>> \in entered => committed + 1 <= committed
        BY DEF Ledger, Current
      <3>. QED  BY <2>1, <3>1
    <2>3. /\ turns' = Append(turns, e) /\ committed' = committed + 1 /\ pc' = "committed"
          /\ entered' = entered /\ replayed' = replayed /\ pending' = pending
      BY <1>5 DEF ModelResponded, effectVars
    <2>4. Ordered(turns', committed + 1) /\ Honest(turns')
      BY <1>0, <2>1, <2>2, <2>3, AppendLedger DEF Ledger, StateType
    <2>5. DOMAIN pending = {}
      BY <1>0, <1>5 DEF ModelResponded, PhaseAt, Shape
    <2>6. \A x \in entered : x[1] \in Nat /\ x[1] <= committed /\ x[1] # 0
      BY DEF Ledger, Current, Control, TypeOK, EffectType
    <2>7. Current'
      BY <2>1, <2>2, <2>3, <2>5, <2>6 DEF Current, Truthful
    <2>8. Honest(turns)'
      BY <2>3, <2>4 DEF Honest, Truthful
    <2>. QED  BY <2>3, <2>4, <2>7, <2>8 DEF Ledger, Ordered
  <1>6. CASE Committed
    <2>1. UNCHANGED <<turns, committed, entered, replayed, pending>>
          /\ pc = "committed" /\ pc' \in {"ckptTools", "finish"}
      BY <1>6 DEF Committed, Leave, Fail, effectVars
    <2>. QED  BY <2>1 DEF Ledger, Ordered, Honest, Current, Truthful
  <1>7. ASSUME NEW ok \in BOOLEAN, Checkpoints(ok) PROVE Ledger'
    <2>1. UNCHANGED <<turns, committed, entered, replayed, pending>>
          /\ (pc' = "dispatch" => pc = "ckptTools")
          /\ pc' \notin {"committed", "ckptTools", "tools"}
      BY <1>7 DEF Checkpoints, BeforeTools, ResultsReady, StepFinished, RunFinished, Fail,
         stateVars, effectVars
    <2>. QED  BY <2>1 DEF Ledger, Ordered, Honest, Current, Truthful
  <1>8. CASE Dispatch
    <2>1. UNCHANGED <<turns, committed, entered, replayed, running, records>> /\ pc = "dispatch"
      BY <1>8 DEF Dispatch, ResultsReturned, stateVars, effectVars
    <2>2. \A c \in Calls : <<committed, c>> \notin entered
      BY <2>1 DEF Ledger, Current
    <2>3. Ordered(turns, committed)' /\ Honest(turns)' /\ replayed' = {}
      BY <2>1 DEF Ledger, Ordered, Honest, Truthful
    <2>4. CASE pc' = "tools" /\ pending' = pending
      <3>1. DOMAIN records = {} /\ running = {}
        BY <1>0, <2>1 DEF PhaseAt
      <3>2. Current'
        BY <2>1, <2>2, <2>4, <3>1 DEF Ledger, Current, Truthful
      <3>. QED  BY <2>3, <3>2 DEF Ledger
    <2>5. CASE pc' # "tools" /\ pending' = Skipped(Last.calls)
                /\ pc' \notin {"committed", "ckptTools", "dispatch"}
      <3>1. Last.calls \subseteq Calls
        BY <1>0, <2>1, LastType DEF PhaseAt, Shape, OpenLast
      <3>2. \A c \in DOMAIN pending' : pending'[c] = "skipped" /\ c \in Calls
        BY <2>5, <3>1 DEF Skipped
      <3>3. Truthful(committed, pending)'
        BY <2>1, <2>2, <3>2 DEF Truthful
      <3>4. Current'
        BY <2>1, <2>5, <3>3 DEF Ledger, Current
      <3>. QED  BY <2>3, <3>4 DEF Ledger
    <2>. QED  BY <1>8, <2>4, <2>5 DEF Dispatch, ResultsReturned, Fail, stateVars
  <1>9. CASE ToolsJoin
    <2>1. UNCHANGED <<turns, committed, entered, replayed>> /\ pc = "tools" /\ pending' = records
          /\ pc' \in {"ckptResults", "finish"}
      BY <1>9 DEF ToolsJoin, ResultsReturned, Fail, effectVars
    <2>2. running = {} /\ DOMAIN records \subseteq Calls
      BY <1>0, <1>9, PartialElim DEF ToolsJoin, Batch, FrameType
    <2>3. Truthful(committed, pending)'
      BY <2>1, <2>2 DEF Ledger, Current, Truthful
    <2>4. Ordered(turns, committed)' /\ Honest(turns)' /\ replayed' = {}
      BY <2>1 DEF Ledger, Ordered, Honest, Truthful
    <2>5. Current'
      BY <2>1, <2>3 DEF Ledger, Current
    <2>. QED  BY <2>4, <2>5 DEF Ledger
  <1>10. CASE ToolsThrow
    BY <1>10, QuietLedger DEF ToolsThrow, Fail, stateVars, effectVars
  <1>11. CASE StepProjected
    <2>1. CASE UNCHANGED stateVars
      BY <1>11, <2>1, QuietLedger DEF StepProjected, Fail, stateVars, effectVars
    <2>2. Ordered(Projected, committed) /\ Honest(Projected) /\ Projected \in Seq(Entry)
      BY <1>0, <1>11, ProjectedLedger, ProjectedShape DEF StepProjected, PhaseAt
    <2>3. CASE Project
      BY <1>11, <2>2, <2>3, EditLedger DEF StepProjected, Project, Fail, effectVars
    <2>. QED  BY <1>11, <2>1, <2>3 DEF StepProjected
  <1>12. CASE Finish \/ StepEdited
    <2>1. CASE turns' = turns
      BY <1>12, <2>1, QuietLedger DEF Finish, StepEdited, Fail, effectVars
    <2>2. CASE Edit(turns)
      <3>0. PICK K \in SUBSET (1..Len(turns)) : K # {} /\ turns' = Kept(turns, K)
        BY <2>2 DEF Edit
      <3>1. Ordered(turns', committed) /\ Honest(turns')
        BY <1>0, <3>0, KeptLedger DEF StateType, Ledger, Current
      <3>. QED  BY <1>12, <3>1, EditLedger DEF Finish, StepEdited, Fail, effectVars
    <2>. QED  BY <1>12, <2>1, <2>2 DEF Finish, StepEdited
  <1>13. CASE RequestStop
    BY <1>13 DEF RequestStop, Ledger, Ordered, Honest, Current, Truthful, stateVars, effectVars
  <1>14. ASSUME NEW m \in {"user", "none", "bad"}, Invoke(m) PROVE Ledger'
    BY <1>14, QuietLedger DEF Invoke, stateVars, effectVars
  <1>. QED
    BY <1>1, <1>2, <1>3, <1>4, <1>5, <1>6, <1>7, <1>8, <1>9, <1>10, <1>11, <1>12, <1>13, <1>14,
       EnterLedger, FiledLedger DEF Next, Body, Model, Tools

\* The ledger is invariant.
THEOREM LedgerInvariant == Spec => []Ledger
  <1>1. Control /\ Ledger /\ [Next]_loopVars => Ledger'
    <2>1. Ledger /\ UNCHANGED loopVars => Ledger'
      BY DEF Ledger, Ordered, Honest, Current, Truthful, loopVars, stateVars, frameVars, effectVars
    <2>. QED  BY <2>1, NextLedger
  <1>. QED  BY <1>1, InitLedger, ControlInvariant, PTL DEF Spec

\* No tool function is entered twice for one committed call.
THEOREM NeverReplayed == Spec => []NoReplay
  BY LedgerInvariant, PTL DEF Ledger, NoReplay

\* Commit sequences identify the responses of a conversation.
THEOREM CommitIdentityHolds == Spec => []CommitIdentity
  <1>1. Ledger => CommitIdentity
    BY DEF Ledger, Ordered, CommitIdentity
  <1>. QED  BY <1>1, LedgerInvariant, PTL

\* Results in the history, in the buffer and in a running batch are true.
THEOREM ResultsAreHonest == Spec => []HonestResults
  <1>1. Control /\ Ledger => HonestResults
    <2>. SUFFICES ASSUME Control, Ledger PROVE HonestResults
      OBVIOUS
    <2>1. Truthful(committed, records)
      <3>0. PhaseAt /\ FrameType /\ Batch
        BY DEF Control, TypeOK
      <3>1. CASE pc = "tools"
        <4>1. DOMAIN records \subseteq Calls /\ running \cap DOMAIN records = {}
          BY <3>0, PartialElim DEF FrameType, Batch
        <4>. QED  BY <3>1, <4>1 DEF Ledger, Current, Truthful
      <3>2. CASE pc # "tools"
        BY <3>0, <3>2 DEF PhaseAt, Truthful
      <3>. QED  BY <3>1, <3>2
    <2>. QED  BY <2>1 DEF HonestResults, Ledger, Honest, Current
  <1>. QED  BY <1>1, ControlInvariant, LedgerInvariant, PTL

\* Every effect has a result, a buffered result or an uncertainty marker.
THEOREM EffectsAreAccounted == Spec => []EffectsAccounted
  <1>1. Control /\ Ledger => EffectsAccounted
    <2>. SUFFICES ASSUME Control, Ledger, NEW i \in 1..Len(turns), NEW c \in Calls,
                         <<turns[i].seq, c>> \in entered
                  PROVE  \/ c \in DOMAIN turns[i].rets
                         \/ /\ i = Len(turns)
                            /\ phase \in {"Tools", "Blocked"} \/ c \in DOMAIN pending
      BY DEF EffectsAccounted
    <2>0. StateType /\ Shape /\ PhaseAt /\ c \in turns[i].calls
      BY DEF Control, TypeOK, Ledger, Honest
    <2>1. CASE i < Len(turns)
      BY <2>0, <2>1 DEF Shape, Answered
    <2>2. CASE i = Len(turns)
      <3>1. turns # <<>> /\ Last = turns[i]
        BY <2>0, <2>2 DEF Last, StateType
      <3>2. CASE phase \in {"Tools", "Blocked"}
        BY <2>2, <3>2
      <3>3. CASE phase = "Projection"
        BY <2>0, <2>2, <3>1, <3>3 DEF Shape
      <3>4. CASE phase \in {"Ready", "Model"} /\ pc # "committed"
        BY <2>0, <3>1, <3>4 DEF Shape, Answered
      <3>5. CASE pc = "committed"
        <4>1. turns[i].seq = committed
          BY <2>0, <3>1, <3>5 DEF Shape
        <4>. QED  BY <3>5, <4>1 DEF Ledger, Current
      <3>. QED  BY <2>0, <3>2, <3>3, <3>4, <3>5 DEF StateType, Phases
    <2>. QED  BY <2>0, <2>1, <2>2 DEF StateType
  <1>. QED  BY <1>1, ControlInvariant, LedgerInvariant, PTL

\* loop::run never leaves a conversation that its own recovery rejects.
THEOREM AlwaysReopenable == Spec => []Reopenable
  <1>1. Control => Reopenable
    <2>. SUFFICES ASSUME Control, pc \in {"idle", "recover"} PROVE Recoverable
      BY DEF Reopenable
    <2>0. StateType /\ Shape /\ PhaseAt
      BY DEF Control, TypeOK
    <2>1. phase = "Projection" <=> DOMAIN pending # {}
      BY <2>0 DEF Shape, OpenLast
    <2>2. ASSUME NEW i \in 1..Len(turns), ~Answered(turns[i])
          PROVE  /\ i = Len(turns)
                 /\ phase \in {"Tools", "Blocked", "Projection"}
                 /\ DOMAIN turns[i].rets = {}
                 /\ phase = "Projection" => DOMAIN pending = turns[i].calls
      <3>1. i = Len(turns) /\ turns # <<>> /\ Last = turns[i]
        BY <2>0, <2>2 DEF Shape, StateType, Last
      <3>2. phase \notin {"Ready", "Model"}
        BY <2>0, <2>2, <3>1 DEF Shape
      <3>. QED  BY <2>0, <3>1, <3>2 DEF Shape, OpenLast, StateType, Phases
    <2>. QED  BY <2>1, <2>2 DEF Recoverable, ValidStructure
  <1>. QED  BY <1>1, ControlInvariant, PTL

\* The next invocation of loop::run can go on with whatever this one leaves.
THEOREM AlwaysContinuable == Spec => []Continuable
  BY TypeCorrect, AlwaysReopenable, CommitIdentityHolds, PTL DEF Continuable

\* No step of loop::run removes an unsettled step from the conversation.
THEOREM UnsettledStay == Spec => OnlySettledRemoved
  <1>. DEFINE NoneLost == \A i \in 1..Len(turns) :
                  ~Answered(turns[i]) => \E j \in 1..Len(turns') : turns'[j].seq = turns[i].seq
  <1>1. turns' = turns => NoneLost
    OBVIOUS
  <1>2. ASSUME Control, Next PROVE NoneLost
    <2>0. StateType /\ Shape /\ PhaseAt
      BY <1>2 DEF Control, TypeOK
    <2>1. ASSUME phase \in {"Ready", "Model"}, pc # "committed" PROVE NoneLost
      BY <2>0, <2>1, ClosedShape
    <2>2. ASSUME phase = "Projection", Project PROVE NoneLost
      <3>1. /\ Len(Projected) = Len(turns)
            /\ \A i \in 1..Len(turns) : Projected[i].seq = turns[i].seq
        BY <2>0, ProjectedType DEF StateType, Projected
      <3>. QED  BY <2>2, <3>1 DEF Project
    <2>4. CASE turns' # turns
      BY <1>2, <2>0, <2>1, <2>2, <2>4
         DEF Next, Body, Model, Tools, Checkpoints, Invoke, Validate, Recover, Admit, Start, Input,
             LoopHead, Context, Committed, Dispatch, StepProjected, StepEdited, Decide, Finish, Settled,
             ModelAborted, ModelFailed, ModelResponded, ToolEnter, ToolReturn, ToolReject, ToolsJoin,
             ToolsThrow, ResultsReturned, BeforeTools, ResultsReady, StepFinished, RunFinished,
             RequestStop, PhaseAt, stateVars
    <2>. QED  BY <1>1, <2>4
  <1>3. Control /\ [Next]_loopVars => [NoneLost]_loopVars
    BY <1>2
  <1>. QED  BY <1>3, ControlInvariant, PTL DEF Spec, OnlySettledRemoved

\* Between invocations a status a host may build on comes with a settled state,
\* and an admitted invocation only leaves its loop normally from such a state.
Outcome ==
    /\ pc \in {"idle", "entry", "recover", "admit", "ckptRun"} /\ status \in RunStatuses \ {"Failed"}
          => phase = "Ready"
    /\ pc = "finish" /\ res # "Failed" => phase = "Ready"

\* A persisted outcome other than failed or running promises a settled history.
THEOREM CleanExits == Spec => []CleanExit
  <1>1. Init => Outcome
    BY DEF Init, Outcome
  <1>2. Control /\ Outcome /\ Next => Outcome'
    <2>. SUFFICES ASSUME Control, Outcome, Next PROVE Outcome'
      OBVIOUS
    <2>0. PhaseAt /\ StateType
      BY DEF Control, TypeOK
    <2>1. CASE Body
      <3>1. CASE Validate \/ Recover \/ Admit \/ Start
        BY <2>0, <3>1 DEF Validate, Recover, Admit, Start, Project, Refuse, Fail, Outcome, stateVars
      <3>2. CASE Input \/ LoopHead \/ Context \/ Committed \/ Decide
        BY <2>0, <3>2 DEF Input, LoopHead, Context, Committed, Decide, Leave, Fail, Outcome, PhaseAt,
           stateVars
      <3>3. CASE Dispatch \/ StepProjected \/ StepEdited
        BY <2>0, <3>3 DEF Dispatch, ResultsReturned, StepProjected, StepEdited, Fail, Outcome, stateVars
      <3>4. CASE Finish
        BY <2>0, <3>4 DEF Finish, Settled, Outcome, RunStatuses
      <3>. QED  BY <2>1, <3>1, <3>2, <3>3, <3>4 DEF Body
    <2>2. CASE Model
      BY <2>0, <2>2 DEF Model, ModelAborted, ModelFailed, ModelResponded, Leave, Fail, Outcome
    <2>3. CASE Tools
      BY <2>0, <2>3 DEF Tools, ToolEnter, ToolReturn, ToolReject, ToolsJoin, ToolsThrow,
         ResultsReturned, Fail, Outcome, stateVars
    <2>4. ASSUME NEW ok \in BOOLEAN, Checkpoints(ok) PROVE Outcome'
      BY <2>0, <2>4 DEF Checkpoints, BeforeTools, ResultsReady, StepFinished, RunFinished, Fail,
         Outcome, stateVars
    <2>5. ASSUME NEW m \in {"user", "none", "bad"}, Invoke(m) PROVE Outcome'
      BY <2>5 DEF Invoke, Outcome, stateVars
    <2>6. CASE RequestStop
      BY <2>6 DEF RequestStop, Outcome, stateVars
    <2>. QED  BY <2>1, <2>2, <2>3, <2>4, <2>5, <2>6 DEF Next
  <1>3. Outcome /\ UNCHANGED loopVars => Outcome'
    BY DEF Outcome, loopVars, stateVars, frameVars
  <1>4. Control /\ Outcome => CleanExit
    BY ClosedShape DEF Control, TypeOK, Outcome, CleanExit
  <1>. QED  BY <1>1, <1>2, <1>3, <1>4, ControlInvariant, PTL DEF Spec
=============================================================================
