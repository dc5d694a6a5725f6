----------------------------- MODULE ToolCalls -----------------------------
(***************************************************************************)
(* Tools: the schemas they may declare, the registry over sets of them and *)
(* one batch of calls: registration, settling, the checkpoints of a call   *)
(* and the record that answers it                                          *)
(*   src/tools/include/tools/{registry,toolsets,invoke_exception}.hpp      *)
(*   src/tools/intrinsic/src/{tool_base,toolset_base,tool_declaration}.cpp *)
(*                                                                         *)
(* Module AgentLoop has the batch as the loop sees it; here are the parts  *)
(* inside a call, where every hook is the tool author's code: it may       *)
(* succeed, refuse, throw anything, or speak of a call of its own making.  *)
(***************************************************************************)
EXTENDS Integers, Sequences, FiniteSets, SequencesExt

CONSTANTS
    ToolSets,      \* set -> [intrinsic, tools : Seq([name, builds])]
    Batches,       \* batches a model may ask for: Seq([id, name, args])
    Types,         \* InvokeType values a tool may declare
    MaxBatches

ASSUME ToolCallBounds ==
    /\ MaxBatches \in Nat
    /\ Batches \subseteq Seq([id : STRING, name : STRING, args : {"object", "null", "array"},
                             value : {"good", "bad", "null", "absent"}])
    /\ \A b \in Batches : Len(b) > 0

VARIABLES
    tcList,      \* _toolset_list
    tcTable,     \* _lookup_table: name -> set
    tcBatches,   \* batches begun
    tcCalls,     \* the batch: each query as it stands
    tcAt,        \* per call: where it is
    tcRecords,   \* per call: the record filed for it
    tcCauses,    \* per call: the foreign call its own code last spoke of
    tcResults    \* what execute returned

tcVars == <<tcList, tcTable, tcBatches, tcCalls, tcAt, tcRecords, tcCauses, tcResults>>

NoTable == [n \in {} |-> ""]
Unfiled == [id |-> "", stage |-> "", cause |-> ""]

TcInit ==
    /\ tcList = <<>>
    /\ tcTable = NoTable
    /\ tcBatches = 0
    /\ tcCalls = <<>> /\ tcAt = <<>> /\ tcRecords = <<>> /\ tcCauses = <<>>
    /\ tcResults = <<>>

-----------------------------------------------------------------------------
(* Registration *)

NamesOf(tools) == [i \in DOMAIN tools |-> tools[i].name]

\* register_tools: an unnamed tool, a second one of a name and one that refuses
\* to build are left out of the catalogue and of the set's table alike.
RegisterTools(tools) ==
    FoldLeft(LAMBDA kept, t :
                IF t.name = "" \/ t.name \in Range(NamesOf(kept)) \/ ~t.builds
                THEN kept ELSE Append(kept, t),
             <<>>, tools)

\* get_tools: an extension's set advertises what it likes.
GetTools(s) == IF ToolSets[s].intrinsic THEN RegisterTools(ToolSets[s].tools)
               ELSE ToolSets[s].tools
SupportedNames(s) == NamesOf(GetTools(s))

\* A plausible slip: the names of the set itself are not compared.
MutantAdmissible(s) ==
    \A i \in DOMAIN SupportedNames(s) :
        SupportedNames(s)[i] # "" /\ SupportedNames(s)[i] \notin DOMAIN tcTable

\* add: the whole set is checked before anything is registered.
Admissible(s) ==
    LET names == SupportedNames(s)
    IN  /\ \A i \in DOMAIN names : names[i] # "" /\ names[i] \notin DOMAIN tcTable
        /\ \A i, j \in DOMAIN names : i # j => names[i] # names[j]

NoBatch == tcCalls = <<>>
KeepBatch == UNCHANGED <<tcBatches, tcCalls, tcAt, tcRecords, tcCauses, tcResults>>

AddSet(s) ==
    /\ NoBatch
    /\ s \notin Range(tcList)
    /\ Admissible(s)
    /\ tcList' = Append(tcList, s)
    /\ tcTable' = [n \in DOMAIN tcTable \cup Range(SupportedNames(s)) |->
                       IF n \in DOMAIN tcTable THEN tcTable[n] ELSE s]
    /\ KeepBatch

\* A plausible slip: only the name asked for leaves the table.
MutantUntabled(name) == DOMAIN tcTable \ {name}
Untabled(name) == {n \in DOMAIN tcTable : tcTable[n] # tcTable[name]}

\* remove: the set that provides the name, with every name it offered.  A set
\* with a name is in the list once.
RemoveSet(name) ==
    /\ NoBatch
    /\ name \in DOMAIN tcTable
    /\ \E k \in DOMAIN tcList : tcList[k] = tcTable[name] /\ tcList' = RemoveAt(tcList, k)
    /\ tcTable' = [n \in Untabled(name) |-> tcTable[n]]
    /\ KeepBatch

ClearRegistry ==
    /\ NoBatch
    /\ tcList # <<>>
    /\ tcList' = <<>> /\ tcTable' = NoTable
    /\ KeepBatch

-----------------------------------------------------------------------------
(* Arguments.  `args` is what the call carries, `value` the one property   *)
(* the tool declares with a default.                                       *)

\* find_argument: a JSON null counts as absent.
FindArgument(call) == call.args = "object" /\ call.value \notin {"absent", "null"}

\* A plausible slip: a null is left where it is.
MutantSettleArgument(call) ==
    IF call.value = "null" THEN call
    ELSE [call EXCEPT !.args = "object", !.value = "good"]

\* settle_*: read and check first, then write the default where none was sent;
\* write_argument turns absent arguments into an object.
SettleArgument(call) ==
    IF FindArgument(call) THEN call
    ELSE [call EXCEPT !.args = "object", !.value = "good"]

\* optional_* refuses a value of another kind, write_argument arguments that
\* are no object.
BadArgument(call) ==
    IF FindArgument(call) THEN call.value = "bad" ELSE call.args = "array"

-----------------------------------------------------------------------------
(* Failures.  An exception names the call it is about, or none; once it    *)
(* answers another call, the one it named becomes its cause.               *)

Failure(stage, id) == [stage |-> stage, id |-> id, cause |-> ""]

EffectiveCause(failure, id) ==
    IF failure.id # "" /\ failure.id # id THEN failure.id ELSE failure.cause

\* A plausible slip: only a failure that names no call takes the caller's.
MutantCorrelatedTo(failure, id) ==
    [failure EXCEPT !.id = IF @ = "" THEN id ELSE @]

CorrelatedTo(failure, id) ==
    [stage |-> failure.stage, id |-> id, cause |-> EffectiveCause(failure, id)]

ToInvokeReturn(failure) ==
    [id |-> failure.id, stage |-> failure.stage,
     cause |-> EffectiveCause(failure, failure.id)]

\* A plausible slip: the cause is rewritten by every layer that correlates.
MutantCorrelate(record, id) ==
    [record EXCEPT !.id = id, !.cause = IF record.id # id THEN record.id ELSE ""]

\* correlate, of a record a tool or a set produced.
Correlate(record, id) ==
    [record EXCEPT !.cause = IF record.id # "" /\ record.id # id THEN record.id ELSE @,
                   !.id = id]

\* What a hook throws: an InvokeException of its own, naming no call, the call
\* at hand or one it made itself, or anything else.
Named(i) == {"", tcCalls[i].id, "nested"}
Foreign(i, id) == IF id \in {"", tcCalls[i].id} THEN "" ELSE id

-----------------------------------------------------------------------------
(* One batch *)

BeginBatch ==
    /\ NoBatch
    /\ tcBatches < MaxBatches
    /\ \E batch \in Batches :
          /\ tcCalls' = [i \in DOMAIN batch |->
                [id |-> batch[i].id, name |-> batch[i].name, args |-> batch[i].args,
                 value |-> batch[i].value, type |-> "raw"]]
          /\ tcAt' = [i \in DOMAIN batch |-> "new"]
          /\ tcRecords' = [i \in DOMAIN batch |-> Unfiled]
          /\ tcCauses' = [i \in DOMAIN batch |-> ""]
    /\ tcBatches' = tcBatches + 1
    /\ tcResults' = <<>>
    /\ UNCHANGED <<tcList, tcTable>>

KeepTable == UNCHANGED <<tcList, tcTable, tcBatches, tcResults>>

FileRecord(i, record, cause) ==
    /\ tcAt' = [tcAt EXCEPT ![i] = "answered"]
    /\ tcRecords' = [tcRecords EXCEPT ![i] = record]
    /\ tcCauses' = [tcCauses EXCEPT ![i] = IF cause = "" THEN @ ELSE cause]

\* Calls are settled in the order of the batch, without a suspension between
\* them, and all of them before one runs.
SettleTurn(i) == tcAt[i] = "new" /\ \A j \in 1 .. i - 1 : tcAt[j] # "new"
AllSettled == \A i \in DOMAIN tcAt : tcAt[i] # "new"

\* The registry knows no set of that name, or its set no tool.
Undispatched(i) ==
    /\ SettleTurn(i)
    /\ tcCalls[i].name \notin DOMAIN tcTable
    /\ FileRecord(i, ToInvokeReturn(Failure("Dispatch", tcCalls[i].id)), "")
    /\ UNCHANGED tcCalls /\ KeepTable

\* The set a call is routed to: an intrinsic one settles the arguments and checks
\* them, an extension's hook rewrites what it likes.
Intrinsic(i) == ToolSets[tcTable[tcCalls[i].name]].intrinsic
Prepared(i) ==
    IF Intrinsic(i) THEN {SettleArgument(tcCalls[i])}
    ELSE {tcCalls[i], SettleArgument(tcCalls[i])}

\* prepare succeeds: arguments and attributes are written in place.
Prepare(i) ==
    /\ SettleTurn(i)
    /\ tcCalls[i].name \in DOMAIN tcTable
    /\ Intrinsic(i) => ~BadArgument(tcCalls[i])
    /\ \E call \in Prepared(i), type \in Types :
          tcCalls' = [tcCalls EXCEPT ![i] = [call EXCEPT !.type = type]]
    /\ tcAt' = [tcAt EXCEPT ![i] = "settled"]
    /\ UNCHANGED <<tcRecords, tcCauses>> /\ KeepTable

\* prepare throws: a bad argument names no call; a hook may throw what it likes,
\* and what is no InvokeException is reported at the stage that was running.
PrepareThrows(i) ==
    /\ SettleTurn(i)
    /\ tcCalls[i].name \in DOMAIN tcTable
    /\ \E id \in IF Intrinsic(i) /\ BadArgument(tcCalls[i]) THEN {""} ELSE Named(i) :
          FileRecord(i, ToInvokeReturn(CorrelatedTo(
                            CorrelatedTo(Failure("ArgumentParse", id), tcCalls[i].id),
                            tcCalls[i].id)), Foreign(i, id))
    /\ UNCHANGED tcCalls /\ KeepTable

\* broken_set: a set that overrides a phase and throws what it must not.
BrokenSet(i) == ToInvokeReturn(Failure("Unknown", tcCalls[i].id))

PrepareBreaks(i) ==
    /\ SettleTurn(i)
    /\ tcCalls[i].name \in DOMAIN tcTable
    /\ ~Intrinsic(i)
    /\ FileRecord(i, BrokenSet(i), "")
    /\ UNCHANGED tcCalls /\ KeepTable

-----------------------------------------------------------------------------
(* The schedule *)

\* A plausible slip: only an unsettled type is kept out.
MutantMayRunInParallel(type) == type # "raw"
MayRunInParallel(type) == type \in {"ReadOnly", "ParallWrite"}

InFlight == {i \in DOMAIN tcAt : tcAt[i] \in {"checking", "invoking"}}
Unstarted(parallel) == {i \in DOMAIN tcAt :
                          tcAt[i] = "settled" /\ MayRunInParallel(tcCalls[i].type) = parallel}

\* Serial calls one at a time and in order, then the rest together.
Start(i) ==
    /\ tcAt # <<>> /\ AllSettled
    /\ tcAt[i] = "settled"
    /\ IF MayRunInParallel(tcCalls[i].type)
       THEN /\ Unstarted(FALSE) = {}
            /\ \A j \in InFlight : MayRunInParallel(tcCalls[j].type)
       ELSE /\ InFlight = {}
            /\ \A j \in Unstarted(FALSE) : i <= j
    /\ tcAt' = [tcAt EXCEPT ![i] = "checking"]
    /\ UNCHANGED <<tcCalls, tcRecords, tcCauses>> /\ KeepTable

\* security_check passes, and invoke is entered.
Pass(i) ==
    /\ tcAt[i] = "checking"
    /\ tcAt' = [tcAt EXCEPT ![i] = "invoking"]
    /\ UNCHANGED <<tcCalls, tcRecords, tcCauses>> /\ KeepTable

StageOf(i) == IF tcAt[i] = "checking" THEN "SecurityCheck" ELSE "Invoke"

\* A refusal, or a throw out of a hook; run_settled correlates once more.
ExecuteFails(i) ==
    /\ i \in InFlight
    /\ \E id \in Named(i), stage \in {StageOf(i), "ResultCheck"} :
          /\ stage = "ResultCheck" => tcAt[i] = "invoking"
          /\ FileRecord(i, Correlate(ToInvokeReturn(CorrelatedTo(Failure(stage, id),
                                                                 tcCalls[i].id)),
                                     tcCalls[i].id),
                        Foreign(i, id))
    /\ UNCHANGED tcCalls /\ KeepTable

\* check_result's record, which the tool may have built around another call.
ExecuteReturns(i) ==
    /\ tcAt[i] = "invoking"
    /\ \E id \in Named(i) :
          FileRecord(i, Correlate(Correlate([id |-> id, stage |-> "ok", cause |-> ""],
                                            tcCalls[i].id), tcCalls[i].id),
                     Foreign(i, id))
    /\ UNCHANGED tcCalls /\ KeepTable

\* execute of a set that breaks its contract.
ExecuteBreaks(i) ==
    /\ i \in InFlight
    /\ ~Intrinsic(i)
    /\ FileRecord(i, BrokenSet(i), "")
    /\ UNCHANGED tcCalls /\ KeepTable

\* The join: records in the order of the calls.
AssembleResults ==
    /\ tcCalls # <<>>
    /\ \A i \in DOMAIN tcAt : tcAt[i] = "answered"
    /\ tcResults' = [i \in DOMAIN tcCalls |->
                        [record |-> tcRecords[i], asked |-> tcCalls[i].id,
                         named |-> tcCauses[i]]]
    /\ tcCalls' = <<>> /\ tcAt' = <<>> /\ tcRecords' = <<>> /\ tcCauses' = <<>>
    /\ UNCHANGED <<tcList, tcTable, tcBatches>>

TcNext ==
    \/ \E s \in DOMAIN ToolSets : AddSet(s)
    \/ \E n \in DOMAIN tcTable : RemoveSet(n)
    \/ ClearRegistry
    \/ BeginBatch
    \/ \E i \in DOMAIN tcCalls :
          \/ Undispatched(i) \/ Prepare(i) \/ PrepareThrows(i) \/ PrepareBreaks(i)
          \/ Start(i) \/ Pass(i)
          \/ ExecuteFails(i) \/ ExecuteReturns(i) \/ ExecuteBreaks(i)
    \/ AssembleResults

TcSpec == TcInit /\ [][TcNext]_tcVars

-----------------------------------------------------------------------------
(* Properties *)

\* get_tools: set by set, name by name; an entry is at <<set's place, its own>>.
Catalogue ==
    [at \in UNION {{k} \X DOMAIN SupportedNames(tcList[k]) : k \in DOMAIN tcList} |->
        SupportedNames(tcList[at[1]])[at[2]]]

\* What the model is shown is what can be routed, name by name and each name
\* once: after any sequence of accepted and refused registrations, removals and
\* clears, with sets that hold tools nobody could name, tell apart or build.
CatalogueRoutes ==
    /\ Range(Catalogue) = DOMAIN tcTable
    /\ \A i, j \in DOMAIN Catalogue : i # j => Catalogue[i] # Catalogue[j]
    /\ \A n \in DOMAIN tcTable : /\ tcTable[n] \in Range(tcList)
                                 /\ n \in Range(SupportedNames(tcTable[n]))

\* A record answers the call at its position, whatever call the code behind it
\* spoke of, and that other call stays readable as the cause through every layer.
RecordsAnswerCalls ==
    \A i \in DOMAIN tcResults :
        /\ tcResults[i].record.id = tcResults[i].asked
        /\ tcResults[i].record.cause = tcResults[i].named

\* While a call that declared SerialWrite is in flight, no other one is.
SerialRunsAlone ==
    \A i, j \in InFlight : i # j => {tcCalls[i].type, tcCalls[j].type} \subseteq
                                        {"ReadOnly", "ParallWrite"}

\* What is scheduled, asked about and run by an intrinsic set carries complete
\* arguments: an object with a value of the declared kind.  (What an extension's
\* own set makes of its arguments is its affair.)
SettledComplete ==
    \A i \in DOMAIN tcCalls :
        tcAt[i] \in {"settled", "checking", "invoking"} /\ Intrinsic(i) =>
            tcCalls[i].args = "object" /\ tcCalls[i].value = "good"

(***************************************************************************)
(* load_tool_declaration: which argument schemas a tool may be advertised  *)
(* with.  A schema that is accepted goes to the provider verbatim.         *)
(*                                                                         *)
(* A value is its kind and a number: an integer's value, the code points   *)
(* of a string or the elements of an array, so that minimum, minLength and *)
(* minItems are one kind of clause with three spellings.  Patterns,        *)
(* descriptions and the vocabulary of keywords are left out.               *)
(***************************************************************************)
CONSTANTS
    Properties,    \* candidate property schemas
    Schemas,       \* candidate sets of required names and of alternatives
    DepthLimit     \* levels of nested objects

\* A bound has a keyword and a number; a length or a count is no negative value.
ValueOk(v) == v = [kind |-> v.kind, n |-> v.n] /\ v.n \in Int /\ (v.kind # "integer" => v.n >= 0)
PropertyOk(p) ==
    /\ \A bound \in {p.clauses.low, p.clauses.high} : bound.stated => bound.n \in Int /\ bound.key # ""
    /\ p.clauses.enum.stated => \A v \in p.clauses.enum.values : ValueOk(v)
    /\ p.default.stated => ValueOk(p.default.value)

ASSUME SchemaBounds == DepthLimit \in Nat /\ \A p \in Properties : PropertyOk(p)

VARIABLES
    tsProperty,    \* the property under "p"; "q" is a plain integer
    tsSchema,      \* [required, branches]
    tsVerdict      \* "unread", "accepted" or "rejected"

tsVars == <<tsProperty, tsSchema, tsVerdict>>

None == [stated |-> FALSE]
Value(kind, n) == [kind |-> kind, n |-> n]
Clauses(kind, low, high, enum) == [kind |-> kind, low |-> low, high |-> high, enum |-> enum]
Bound(key, n) == [stated |-> TRUE, key |-> key, n |-> n]
Listed(values) == [stated |-> TRUE, values |-> values]
Plain == [clauses |-> Clauses("integer", None, None, None), default |-> None, nest |-> 0]
Declared == {"p", "q"}
PropertyOf(name) == IF name = "p" THEN tsProperty ELSE Plain

TsInit ==
    /\ \/ tsProperty \in Properties /\ tsSchema = [required |-> {}, branches |-> {}]
       \/ tsProperty = Plain /\ tsSchema \in Schemas
    /\ tsVerdict = "unread"

-----------------------------------------------------------------------------
(* check_clauses and check_value_against_clauses                            *)

\* Which bound a kind takes; an object takes none.
LowKey(kind) == CASE kind = "integer" -> "minimum" [] kind = "string" -> "minLength"
                  [] kind = "array" -> "minItems" [] OTHER -> ""
HighKey(kind) == CASE kind = "integer" -> "maximum" [] kind = "string" -> "maxLength"
                   [] OTHER -> ""

\* A length or a count is not negative.
BoundOk(bound, key) ==
    bound.stated => bound.key = key /\ (key \in {"minimum", "maximum"} \/ bound.n >= 0)

\* A plausible slip: only the lower bound is compared.
MutantAgainstClauses(value, c) ==
    value.kind = c.kind /\ (c.low.stated => value.n >= c.low.n)

AgainstClauses(value, c) ==
    /\ value.kind = c.kind
    /\ c.enum.stated => value \in c.enum.values
    /\ c.low.stated => value.n >= c.low.n
    /\ c.high.stated => value.n <= c.high.n

CheckClauses(c) ==
    /\ c.enum.stated => c.enum.values # {}
    /\ BoundOk(c.low, LowKey(c.kind))
    /\ BoundOk(c.high, HighKey(c.kind))
    /\ c.low.stated /\ c.high.stated => c.low.n <= c.high.n
    /\ c.enum.stated => \A v \in c.enum.values : AgainstClauses(v, c)

\* check_property: structured values take no enum and no default; a default has
\* to be a value a caller could send; nesting is bounded.
CheckProperty(p) ==
    /\ p.nest > 0 => p.clauses.kind = "object" /\ p.nest <= DepthLimit
    /\ CheckClauses(p.clauses)
    /\ p.clauses.kind = "object" => ~p.clauses.enum.stated /\ ~p.default.stated
    /\ p.default.stated => AgainstClauses(p.default.value, p.clauses)

-----------------------------------------------------------------------------
(* require_argument_schema and check_branch                                 *)

CheckRequiredList(names) == names \subseteq Declared

\* A plausible slip: an excluded name is compared with the branch alone.
MutantCheckExclusion(branch, root) ==
    CheckRequiredList(branch.excluded) /\ branch.excluded \cap branch.required = {}

\* not: each alternative excludes one declared property that nothing requires.
CheckExclusion(branch, root) ==
    /\ CheckRequiredList(branch.excluded)
    /\ branch.excluded \cap (branch.required \cup root) = {}

CheckBranch(branch, root) ==
    /\ CheckRequiredList(branch.required)
    /\ CheckExclusion(branch, root)
    /\ branch.required \subseteq root => branch.excluded # {}

RequireArgumentSchema ==
    /\ \A name \in Declared : CheckProperty(PropertyOf(name))
    /\ CheckRequiredList(tsSchema.required)
    /\ \A branch \in tsSchema.branches : CheckBranch(branch, tsSchema.required)

\* load_tool_declaration, and try_load_tool_declaration, after which a tool
\* whose declaration was rejected has no name and is not registered.
LoadDeclaration ==
    /\ tsVerdict = "unread"
    /\ tsVerdict' = IF RequireArgumentSchema THEN "accepted" ELSE "rejected"
    /\ UNCHANGED <<tsProperty, tsSchema>>

TsNext == LoadDeclaration
TsSpec == TsInit /\ [][TsNext]_tsVars

-----------------------------------------------------------------------------
(* Properties *)

\* The numbers a property speaks of; bounds that can be met are met by one of them.
Numbers(p) ==
    {0} \cup (IF p.clauses.low.stated THEN {p.clauses.low.n} ELSE {})
        \cup (IF p.clauses.high.stated THEN {p.clauses.high.n} ELSE {})
        \cup (IF p.clauses.enum.stated THEN {v.n : v \in p.clauses.enum.values} ELSE {})
        \cup (IF p.default.stated THEN {p.default.value.n} ELSE {})

\* What JSON Schema makes of a property: values of these numbers that a provider
\* may send.
Instances(p) ==
    {v \in [kind : {p.clauses.kind}, n : Numbers(p)] :
        /\ p.clauses.kind # "integer" => v.n >= 0
        /\ p.clauses.enum.stated => v \in p.clauses.enum.values
        /\ p.clauses.low.stated => v.n >= p.clauses.low.n
        /\ p.clauses.high.stated => v.n <= p.clauses.high.n}

\* An accepted schema can be met by a call: every property has a value of its
\* kind within its clauses, everything it lists or falls back to is such a value,
\* and each alternative can be satisfied together with the root's requirements.
AcceptedSchemasAdmitCalls ==
    tsVerdict = "accepted" =>
        /\ \A name \in Declared : Instances(PropertyOf(name)) # {}
        /\ tsProperty.default.stated => tsProperty.default.value \in Instances(tsProperty)
        /\ tsProperty.clauses.enum.stated =>
              tsProperty.clauses.enum.values \subseteq Instances(tsProperty)
        /\ \A branch \in tsSchema.branches : \E sent \in SUBSET Declared :
              /\ tsSchema.required \cup branch.required \subseteq sent
              /\ branch.excluded \cap sent = {}
=============================================================================
