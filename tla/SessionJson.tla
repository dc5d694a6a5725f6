----------------------------- MODULE SessionJson -----------------------------
(***************************************************************************)
(* The JSON form of a session: the to_json/from_json pairs of dataclass/   *)
(* model_io.hpp, and load/persistence.cpp, which checks the shape of a     *)
(* snapshot before it decodes it.  A document may come from an older       *)
(* release or from another hand: optional fields missing or null, content  *)
(* as a single object, parts without a modality, names nobody knows, a     *)
(* record where something else stands.                                     *)
(*                                                                         *)
(* A JSON value is a record with its kind.  What a decoder returns is a    *)
(* set: the value read, or the empty set when it throws.  An optional      *)
(* field is a sequence of at most one element.  A prompt is its sections,  *)
(* see PromptTemplate.                                                     *)
(***************************************************************************)
EXTENDS Integers, Sequences, SequencesExt, FiniteSets, TLC

CONSTANT Sessions     \* the session states saved

VARIABLES sjState,    \* the state that was saved
          sjDoc,      \* the document on disk
          sjHow,      \* what happened to it since: "none" or a kind of damage
          sjPath,     \* where
          sjRead,     \* what load_state made of it
          sjLoaded

sjVars == <<sjState, sjDoc, sjHow, sjPath, sjRead, sjLoaded>>

Unset == <<>>
Str(v) == [kind |-> "string", v |-> v]
Num(v) == [kind |-> "number", v |-> v]
Null == [kind |-> "null"]
Obj(f) == [kind |-> "object", f |-> f]
Arr(s) == [kind |-> "array", s |-> s]

-----------------------------------------------------------------------------
(* Writing.                                                                 *)

Opaque(json) == json

(* An optional member is left out when it is empty.                         *)
With(j, key, member, Write(_)) ==
  IF member = Unset THEN j ELSE Obj(j.f @@ (key :> Write(member[1])))

WriteAll(list, Write(_)) == Arr([i \in DOMAIN list |-> Write(list[i])])

ContentJson(c) ==
  With(Obj([type |-> Str(c.type), raw |-> Str(c.raw), modality |-> Str(c.modality)]),
       "extras", c.extras, Opaque)

InvokeQueryJson(q) ==
  With(Obj([type |-> Str(q.type), security |-> Str(q.security), id |-> Str(q.id),
            name |-> Str(q.name), arguments |-> q.arguments]), "extras", q.extras, Opaque)

InvokeReturnJson(r) ==
  With(Obj([query |-> InvokeQueryJson(r.query), output |-> ContentJson(r.output)]),
       "extras", r.extras, Opaque)

TokenCostJson(c) == Obj([prompt |-> Num(c.prompt), generated |-> Num(c.generated),
                         cache_hit |-> Num(c.cache_hit)])

QueriesJson(list) == WriteAll(list, InvokeQueryJson)

MutantCallsMember(invokes) == IF invokes = <<<<>>>> THEN Unset ELSE invokes

(* "No calls" and "an empty list of calls" are different messages.           *)
CallsMember(invokes) == invokes

MessageItemJson(m) ==
  LET plain == Obj([type |-> Str(m.type), role |-> Str(m.role),
                    content |-> WriteAll(m.content, ContentJson)])
      a == With(With(plain, "reasoning", m.reasoning, ContentJson),
                "action_status", m.action_status, ContentJson)
      b == With(a, "invokes", CallsMember(m.invokes), QueriesJson)
      c == With(b, "cost", m.cost, TokenCostJson)
      d == With(c, "invoke_return", m.invoke_return, InvokeReturnJson)
  IN With(d, "extras", m.extras, Opaque)

MessagesJson(list) == WriteAll(list, MessageItemJson)

(* The commit sequence is left out when it is zero.                          *)
AgentLoopStepJson(s) ==
  LET plain == Obj([model_response |-> MessageItemJson(s.model_response),
                    retain_priority |-> Str(s.retain_priority)])
      a == IF s.commit_sequence = 0 THEN plain
           ELSE Obj(plain.f @@ ("commit_sequence" :> Num(s.commit_sequence)))
  IN With(With(a, "invoke_returns", s.invoke_returns, MessagesJson), "extras", s.extras, Opaque)

UserLoopStepJson(u) ==
  With(Obj([user_input |-> MessageItemJson(u.user_input),
            agent_loop_step |-> WriteAll(u.agent_loop_step, AgentLoopStepJson),
            retain_priority |-> Str(u.retain_priority)]), "extras", u.extras, Opaque)

InvocableJson(v) ==
  With(With(Obj([name |-> Str(v.name), description |-> Str(v.description),
                 argument_schema |-> v.argument_schema]), "remote_type", v.remote_type, Str),
       "extras", v.extras, Opaque)

MetaInfoJson(m) ==
  With(Obj([schema_version |-> Num(m.schema_version), session_id |-> Str(m.session_id),
            created_at |-> Str(m.created_at), updated_at |-> Str(m.updated_at),
            status |-> Str(m.status)]), "error", m.error, Opaque)

LoopProgressJson(p) ==
  Obj([status |-> Str(p.status), phase |-> Str(p.phase),
       completed_exchanges |-> Num(p.completed_exchanges),
       committed_response_sequence |-> Num(p.committed_response_sequence),
       error |-> Str(p.error),
       pending_results |-> WriteAll(p.pending_results, InvokeReturnJson)])

AgentInputStateJson(s) ==
  LET plain == Obj([meta |-> MetaInfoJson(s.meta),
                    system_prompt |-> Obj([sections |-> Arr(s.system_prompt)]),
                    tools |-> WriteAll(s.tools, InvocableJson),
                    turns |-> WriteAll(s.turns, UserLoopStepJson)])
  IN With(With(plain, "extras", s.extras, Opaque), "loop", s.loop, LoopProgressJson)

-----------------------------------------------------------------------------
(* Reading.                                                                 *)

Has(j, key) == j.kind = "object" /\ key \in DOMAIN j.f

(* All members, or nothing if reading one of them throws.                    *)
Whole(f) ==
  IF \E k \in DOMAIN f : f[k] = {} THEN {}
  ELSE {[k \in DOMAIN f |-> CHOOSE x \in f[k] : TRUE]}

ReadText(j) == IF j.kind = "string" THEN {j.v} ELSE {}
Count(j) == IF j.kind = "number" THEN {j.v} ELSE {}
AnyJson(j) == {j}

(* find(): a missing key keeps the default, also when j is no object at all.  *)
Member(j, key, Read(_), default) == IF Has(j, key) THEN Read(j.f[key]) ELSE {default}

(* at(): a missing key throws.                                               *)
Required(j, key, Read(_)) == IF Has(j, key) THEN Read(j.f[key]) ELSE {}

(* detail::read_optional: null reads as absent.                              *)
read_optional(j, key, Read(_)) ==
  IF Has(j, key) /\ j.f[key] # Null THEN {<<x>> : x \in Read(j.f[key])} ELSE {Unset}

List(j, Read(_)) ==
  IF j.kind # "array" THEN {} ELSE Whole([i \in DOMAIN j.s |-> Read(j.s[i])])

(* NLOHMANN_JSON_SERIALIZE_ENUM: what is not in the list reads as its head.   *)
Lenient(names, j) ==
  {IF j.kind = "string" /\ j.v \in ToSet(names) THEN j.v ELSE Head(names)}

(* The hand-written pairs refuse an unknown name.                            *)
Strict(names, j) == IF j.kind = "string" /\ j.v \in names THEN {j.v} ELSE {}

ContentType(j) == Lenient(<<"text", "binary", "external_ref">>, j)
InvokeType(j) == Lenient(<<"read_only", "parall_write", "serial_write">>, j)

MutantInvokeSecurity(j) == Lenient(<<"trusted", "require_confirm", "default_deny">>, j)

InvokeSecurity(j) == Lenient(<<"default_deny", "require_confirm", "trusted">>, j)

MessageItemType(j) == Lenient(<<"user_input", "model_response", "invoke_return">>, j)
RetainPriority(j) == Lenient(<<"normal", "discardable", "pinned">>, j)
SessionStatus(j) == Lenient(<<"active", "completed", "failed">>, j)
Modality(j) == Strict({"text", "image", "audio", "video", "document"}, j)
LoopStatus(j) == Strict({"idle", "running", "completed", "cancelled",
                         "exchange_limit", "failed", "auto_compact_required"}, j)
LoopPhase(j) == Strict({"ready", "model", "tools", "projection", "blocked"}, j)

legacy_provider_file_part(extras) ==
  extras # Unset /\ Has(extras[1], "type") /\ extras[1].f["type"] = Str("input_file")

(* The category of a part written before parts were labelled: what both       *)
(* adapters of that time made of it, or a refusal where they differed.        *)
Unlabelled(type, extras) ==
  IF type = "text" THEN {"text"}
  ELSE IF type = "external_ref" /\ ~legacy_provider_file_part(extras) THEN {"image"}
  ELSE {}

ReadContent(j) ==
  LET type == Member(j, "type", ContentType, "text")
      extras == read_optional(j, "extras", AnyJson)
      modality == IF Has(j, "modality") THEN Modality(j.f["modality"])
                  ELSE UNION {Unlabelled(t, e) : t \in type, e \in extras}
  IN Whole([type |-> type, raw |-> Member(j, "raw", ReadText, ""), extras |-> extras,
            modality |-> modality])

NewContent == [type |-> "text", raw |-> "", extras |-> Unset, modality |-> "text"]

NewQuery == [type |-> "read_only", security |-> "default_deny", id |-> "", name |-> "",
             arguments |-> Obj(<<>>), extras |-> Unset]

ReadQuery(j) ==
  Whole([type |-> Member(j, "type", InvokeType, NewQuery.type),
         security |-> Member(j, "security", InvokeSecurity, NewQuery.security),
         id |-> Member(j, "id", ReadText, ""), name |-> Member(j, "name", ReadText, ""),
         arguments |-> Member(j, "arguments", AnyJson, NewQuery.arguments),
         extras |-> read_optional(j, "extras", AnyJson)])

ReadReturn(j) ==
  Whole([query |-> Member(j, "query", ReadQuery, NewQuery),
         output |-> Member(j, "output", ReadContent, NewContent),
         extras |-> read_optional(j, "extras", AnyJson)])

ReadCost(j) ==
  Whole([prompt |-> Member(j, "prompt", Count, 0),
         generated |-> Member(j, "generated", Count, 0),
         cache_hit |-> Member(j, "cache_hit", Count, 0)])

ReadQueries(j) == List(j, ReadQuery)

(* Content as a list, as the single object of former times, or null.          *)
ReadParts(j) ==
  IF j.kind = "array" THEN List(j, ReadContent)
  ELSE IF j = Null THEN {<<>>} ELSE {<<c>> : c \in ReadContent(j)}

NewMessage == [type |-> "user_input", role |-> "", content |-> <<>>, reasoning |-> Unset,
               action_status |-> Unset, invokes |-> Unset, cost |-> Unset, invoke_return |-> Unset, extras |-> Unset]

ReadMessage(j) ==
  Whole([type |-> Member(j, "type", MessageItemType, "user_input"),
         role |-> Member(j, "role", ReadText, ""),
         content |-> Member(j, "content", ReadParts, <<>>),
         reasoning |-> read_optional(j, "reasoning", ReadContent),
         action_status |-> read_optional(j, "action_status", ReadContent),
         invokes |-> read_optional(j, "invokes", ReadQueries),
         cost |-> read_optional(j, "cost", ReadCost),
         invoke_return |-> read_optional(j, "invoke_return", ReadReturn),
         extras |-> read_optional(j, "extras", AnyJson)])

ReadMessages(j) == List(j, ReadMessage)

ReadStep(j) ==
  Whole([model_response |-> Member(j, "model_response", ReadMessage, NewMessage),
         invoke_returns |-> read_optional(j, "invoke_returns", ReadMessages),
         extras |-> read_optional(j, "extras", AnyJson),
         commit_sequence |-> Member(j, "commit_sequence", Count, 0),
         retain_priority |-> Member(j, "retain_priority", RetainPriority, "normal")])

ReadSteps(j) == List(j, ReadStep)

ReadTurn(j) ==
  Whole([user_input |-> Member(j, "user_input", ReadMessage, NewMessage),
         agent_loop_step |-> Member(j, "agent_loop_step", ReadSteps, <<>>),
         extras |-> read_optional(j, "extras", AnyJson),
         retain_priority |-> Member(j, "retain_priority", RetainPriority, "normal")])

ReadTool(j) ==
  Whole([name |-> Member(j, "name", ReadText, ""),
         description |-> Member(j, "description", ReadText, ""),
         argument_schema |-> Member(j, "argument_schema", AnyJson, Obj(<<>>)),
         remote_type |-> read_optional(j, "remote_type", ReadText),
         extras |-> read_optional(j, "extras", AnyJson)])

NewMeta == [schema_version |-> 1, session_id |-> "", created_at |-> "", updated_at |-> "",
            status |-> "active", error |-> Unset]

ReadMeta(j) ==
  Whole([schema_version |-> Member(j, "schema_version", Count, 1),
         session_id |-> Member(j, "session_id", ReadText, ""),
         created_at |-> Member(j, "created_at", ReadText, ""),
         updated_at |-> Member(j, "updated_at", ReadText, ""),
         status |-> Member(j, "status", SessionStatus, "active"),
         error |-> read_optional(j, "error", AnyJson)])

(* The recovery record is complete or refused, the commit counter excepted,    *)
(* which earlier releases did not write.                                       *)
ReadLoop(j) ==
  LET Results(v) == List(v, ReadReturn)
  IN Whole([status |-> Required(j, "status", LoopStatus),
            phase |-> Required(j, "phase", LoopPhase),
            completed_exchanges |-> Required(j, "completed_exchanges", Count),
            committed_response_sequence |->
              Member(j, "committed_response_sequence", Count, 0),
            error |-> Required(j, "error", ReadText),
            pending_results |-> Required(j, "pending_results", Results)])

ReadState(j) ==
  LET Tools(v) == List(v, ReadTool)
      Turns(v) == List(v, ReadTurn)
      Sections(v) == IF Has(v, "sections") /\ v.f["sections"].kind = "array"
                     THEN {v.f["sections"].s} ELSE {<<>>}
  IN Whole([loop |-> read_optional(j, "loop", ReadLoop),
            meta |-> Member(j, "meta", ReadMeta, NewMeta),
            system_prompt |-> Member(j, "system_prompt", Sections, <<>>),
            tools |-> Member(j, "tools", Tools, <<>>),
            turns |-> Member(j, "turns", Turns, <<>>),
            extras |-> read_optional(j, "extras", AnyJson)])

-----------------------------------------------------------------------------
(* load/persistence.cpp: the shape of a snapshot.                            *)

MutantRequireObject(j) == j.kind # "null"

require_object(j) == j.kind = "object"

optional_record(j, key, Check(_)) == Has(j, key) /\ j.f[key] # Null => Check(j.f[key])

record_array(j, Check(_)) == j.kind = "array" /\ \A i \in DOMAIN j.s : Check(j.s[i])

check_result(j) ==
  /\ require_object(j)
  /\ optional_record(j, "query", require_object)
  /\ optional_record(j, "output", require_object)

check_message(j) ==
  LET Parts(v) == require_object(v) \/ record_array(v, require_object)
      Calls(v) == record_array(v, require_object)
  IN /\ require_object(j)
     /\ optional_record(j, "content", Parts)
     /\ \A key \in {"reasoning", "action_status", "cost"} : optional_record(j, key, require_object)
     /\ optional_record(j, "invoke_return", check_result)
     /\ optional_record(j, "invokes", Calls)

check_snapshot(j) ==
  LET Results(v) == record_array(v, check_message)
      Step(v) == /\ require_object(v)
                 /\ optional_record(v, "model_response", check_message)
                 /\ optional_record(v, "invoke_returns", Results)
      Steps(v) == record_array(v, Step)
      Turn(v) == /\ require_object(v)
                 /\ optional_record(v, "user_input", check_message)
                 /\ optional_record(v, "agent_loop_step", Steps)
      Sections(v) == record_array(v, require_object)
      Loop(v) == /\ require_object(v) /\ Has(v, "pending_results")
                 /\ record_array(v.f["pending_results"], check_result)
  IN /\ require_object(j)
     /\ \A key \in {"meta", "system_prompt", "tools", "turns"} : Has(j, key)
     /\ require_object(j.f["meta"]) /\ require_object(j.f["system_prompt"])
     /\ optional_record(j.f["system_prompt"], "sections", Sections)
     /\ record_array(j.f["tools"], require_object)
     /\ record_array(j.f["turns"], Turn)
     /\ optional_record(j, "loop", Loop)

decode_state(j) == IF check_snapshot(j) THEN ReadState(j) ELSE {}

-----------------------------------------------------------------------------
(* Places in a document.  The payloads the program does not interpret are     *)
(* leaves.                                                                    *)

OpaqueKeys == {"extras", "arguments", "argument_schema", "sections", "error"}
Key(k) == [key |-> k, index |-> 0]
Index(i) == [key |-> "", index |-> i]

Child(j, place) == IF place.index = 0 THEN j.f[place.key] ELSE j.s[place.index]
SetChild(j, place, v) == IF place.index = 0 THEN [j EXCEPT !.f[place.key] = v]
                         ELSE [j EXCEPT !.s[place.index] = v]
Children(j) == CASE j.kind = "object" -> {Key(k) : k \in DOMAIN j.f}
                 [] j.kind = "array" -> {Index(i) : i \in DOMAIN j.s}
                 [] OTHER -> {}

At(j, path) == FoldLeft(Child, j, path)

(* A snapshot nests no deeper than a result's query in a message of a turn:   *)
(* turns, turn, steps, step, results, message, result, query, its members.    *)
MaxDepth == 9
Deeper(j, paths) ==
  UNION {{Append(p, c) : c \in Children(At(j, p))} :
           p \in {q \in paths : q = <<>> \/ Last(q).key \notin OpaqueKeys}}
Places(j) ==
  LET level[n \in 0..MaxDepth] == IF n = 0 THEN {<<>>} ELSE Deeper(j, level[n - 1])
  IN  UNION {level[n] : n \in 1..MaxDepth}

(* The value at a path is replaced from the inside out.                       *)
WithMember(j, path, v) ==
  LET outer(i) == At(j, SubSeq(path, 1, i - 1))
      step(i, inner) == SetChild(outer(i), path[i], inner)
  IN  FoldRight(step, [i \in DOMAIN path |-> i], v)

Without(j, key) == Obj([k \in DOMAIN j.f \ {key} |-> j.f[k]])

(* What an older release, or another hand, may have left in the document.      *)
Damaged(j, path, how) ==
  CASE how = "foreign" -> WithMember(j, path, Str("?"))
    [] how = "null" -> WithMember(j, path, Null)
    [] how = "missing" -> WithMember(j, Front(path), Without(At(j, Front(path)), Last(path).key))
    [] how = "single" -> WithMember(j, path, At(j, path).s[1])

Applies(j, path, how) ==
  CASE how = "missing" -> Last(path).index = 0
    [] how = "single" -> Last(path).key = "content" /\ Len(At(j, path).s) = 1
    [] OTHER -> TRUE

SjInit ==
  /\ sjState \in Sessions
  /\ sjDoc = Obj(<<>>) /\ sjHow = "none" /\ sjPath = <<>> /\ sjRead = {} /\ sjLoaded = FALSE

(* save_state with the JSON format.                                           *)
SaveState ==
  /\ sjDoc = Obj(<<>>) /\ sjDoc' = AgentInputStateJson(sjState)
  /\ UNCHANGED <<sjState, sjHow, sjPath, sjRead, sjLoaded>>

Alter(path, how) ==
  /\ sjHow = "none" /\ ~sjLoaded /\ Applies(sjDoc, path, how)
  /\ sjDoc' = Damaged(sjDoc, path, how) /\ sjHow' = how /\ sjPath' = path
  /\ UNCHANGED <<sjState, sjRead, sjLoaded>>

load_state ==
  /\ sjDoc # Obj(<<>>) /\ ~sjLoaded /\ sjRead' = decode_state(sjDoc) /\ sjLoaded' = TRUE
  /\ UNCHANGED <<sjState, sjDoc, sjHow, sjPath>>

SjNext ==
  \/ SaveState
  \/ \E path \in Places(sjDoc), how \in {"foreign", "null", "missing", "single"} :
       Alter(path, how)
  \/ load_state

SjSpec == SjInit /\ [][SjNext]_sjVars

-----------------------------------------------------------------------------
(* json(x).get<X>() reproduces x, through the older form of content as well;   *)
(* and whatever else a load accepts, one save settles: the next load reads the *)
(* same state again, so a migration happens once.                              *)
ReadsBack ==
  sjLoaded =>
    /\ sjHow \in {"none", "single"} => sjRead = {sjState}
    /\ \A s \in sjRead : decode_state(AgentInputStateJson(s)) = {s}

(* Nothing that was written is replaced by a default without a refusal: not a  *)
(* record or a list where something else stands now, not the recovery phase,   *)
(* the outcome or the category of a part under an unknown name; and a trust    *)
(* level nobody knows denies (check_snapshot, the strict and lenient enums).    *)
NothingSilentlyDefaulted ==
  sjLoaded /\ sjHow = "foreign" =>
    LET was == At(AgentInputStateJson(sjState), sjPath)
        key == Last(sjPath).key
        asked == {q.security : q \in UNION {{r.query : r \in ToSet(l.pending_results)} :
                                            l \in UNION {ToSet(s.loop) : s \in sjRead}}}
    IN /\ was.kind \in {"object", "array"} /\ key \notin OpaqueKeys => sjRead = {}
       /\ key \in {"phase", "modality"} => sjRead = {}
       /\ key = "security" /\ Head(sjPath).key = "loop" => asked = {"default_deny"}
=============================================================================
