----------------------------- MODULE WireCodec -----------------------------
(***************************************************************************)
(* The worker's wire language: the records of protocol/wire.hpp, the       *)
(* codec that writes and reads them from their field lists (codec.hpp),    *)
(* and the JSON Schema that is published from the same lists               *)
(* (manifest.cpp).  Two programs interpret one table: what the codec of a  *)
(* worker accepts, and what a hub that validates with the published schema *)
(* accepts, should be the same documents.                                  *)
(*                                                                         *)
(* A JSON value is a record with its kind k.  A read yields a set: the     *)
(* value read, or the empty set when it throws ValidationError.  A member  *)
(* of a record read is a sequence of at most one value, an enumerator is   *)
(* its position in the declared list.  The constraints no record of        *)
(* wire.hpp declares (lengths, minimum and maximum, empty_object,          *)
(* non_empty) are left out, and so are summaries and error texts.          *)
(***************************************************************************)
EXTENDS Integers, Sequences, SequencesExt, FiniteSets, TLC

CONSTANTS WireRecords,     \* the records whose documents are followed
          MaxAlterations   \* how often a document is altered, for records with rules

VARIABLES wcRecord,        \* the record a document is meant for
          wcDoc,           \* the document under way
          wcAltered,       \* alterations so far
          wcRead,          \* what record_from_json made of it
          wcAgain,         \* what record_from_json made of the document written from that
          wcStage          \* "draft", "read", "again"

wcVars == <<wcRecord, wcDoc, wcAltered, wcRead, wcAgain, wcStage>>

JText(t) == [k |-> "string", t |-> t]
JNumber(n) == [k |-> "number", n |-> n]
JFloat(whole) == [k |-> "float", whole |-> whole]
JBool(b) == [k |-> "boolean", b |-> b]
JNull == [k |-> "null"]
JArray(s) == [k |-> "array", s |-> s]
JObject(m) == [k |-> "object", m |-> m]

HasKey(j, name) == j.k = "object" /\ name \in DOMAIN j.m

-----------------------------------------------------------------------------
(* The field builders.  A std::optional member is optional, anything else  *)
(* required; required() and nullable_value() override.                     *)
Plain(name, kind, of) ==
    [name |-> name, kind |-> kind, of |-> of, alternative |-> "", optional |-> FALSE,
     required |-> TRUE, nullable |-> FALSE, object_only |-> FALSE, constant |-> ""]
text(name) == Plain(name, "text", "")
integer(name) == Plain(name, "integer", "")
boolean(name) == Plain(name, "boolean", "")
opaque(name) == Plain(name, "any", "")
enumeration(E, name) == Plain(name, "enumeration", E)
record(R, name) == Plain(name, "record", R)
records(R, name) == Plain(name, "records", R)
texts(name) == Plain(name, "texts", "")
text_or_record(R, name) == Plain(name, "text_or_record", R)
projected_batch(R, marker, name) ==
    [Plain(name, "projected_batch", R) EXCEPT !.alternative = marker]
Optional(f) == [f EXCEPT !.optional = TRUE, !.required = FALSE]
required(f) == [f EXCEPT !.required = TRUE]
nullable_value(f) == [f EXCEPT !.nullable = TRUE]
object_only(f) == [f EXCEPT !.object_only = TRUE]
constant(f, spelling) == [f EXCEPT !.constant = spelling]

TextFields(names) == [i \in DOMAIN names |-> text(names[i])]
IntegerFields(names) == [i \in DOMAIN names |-> integer(names[i])]
OptionalIntegerFields(names) == [i \in DOMAIN names |-> Optional(integer(names[i]))]

(* EnumTraits: the spellings, in the order of the enumerators.               *)
RequestEnums ==
    [EnvelopeType |-> <<"event", "payload", "signal", "confirmation_request",
                        "confirmation_response", "tool_request", "tool_response">>,
     InputOperation |-> <<"message", "continue", "compact", "history", "answer">>,
     SignalOperation |-> <<"status", "options", "cancel", "shutdown">>,
     ContentType |-> <<"text", "binary", "external_ref">>,
     Modality |-> <<"text", "image", "audio", "video", "document">>,
     MessageType |-> <<"user_input", "model_response", "invoke_return">>,
     CallScheduling |-> <<"read_only", "parall_write", "serial_write">>,
     CallSecurity |-> <<"default_deny", "require_confirm", "trusted">>,
     ConfirmationDecision |-> <<"approved", "denied">>]

EventEnums ==
    [EventName |-> <<"ready", "status", "options", "history", "answer", "answer_error",
                     "history_error", "input_admitted", "input_rejected", "run_started",
                     "input_committed", "model_response", "tool_calls", "tool_results",
                     "persisted", "compact_finished", "export_error", "error",
                     "run_finished">>,
     LoopStatus |-> <<"idle", "running", "completed", "cancelled", "exchange_limit",
                      "failed", "auto_compact_required">>,
     LoopPhase |-> <<"ready", "model", "tools", "projection", "blocked">>,
     RunStatus |-> <<"completed", "cancelled", "exchange_limit", "failed">>,
     PersistBoundary |-> <<"before_tools", "results_ready", "step_finished",
                           "run_finished", "compact", "cancelled", "shutdown">>,
     StorageKind |-> <<"json", "sqlite">>,
     RejectionCode |-> <<"invalid_options", "payload_queue_full">>,
     FailureStage |-> <<"model_request", "other">>,
     ToolStatus |-> <<"succeeded", "rejected">>]

Enums == RequestEnums @@ EventEnums

(* wire_fields(), in the order of the declarations.                          *)
ContentFields ==
    [Content |-> <<enumeration("ContentType", "type"), enumeration("Modality", "modality"),
                   text("raw"), Optional(opaque("extras")), Optional(boolean("truncated")),
                   Optional(integer("bytes")), Optional(boolean("omitted"))>>,
     Usage |-> IntegerFields(<<"prompt", "generated", "cache_hit">>),
     AnswerSource |-> <<text("worker_id"), integer("turn"), integer("step"),
                        text("commit_sequence"), text("fingerprint")>>,
     ExecutionIdentity |-> TextFields(<<"worker_id", "request_id", "run_id">>)]

CallFields ==
    [Call |-> <<text("id"), text("name"), nullable_value(opaque("arguments")),
                enumeration("CallScheduling", "type"), enumeration("CallSecurity", "security"),
                Optional(opaque("extras"))>>,
     Result |-> <<record("Call", "query"), record("Content", "output"),
                  Optional(opaque("extras"))>>,
     RequestContent |-> <<enumeration("ContentType", "type"),
                          enumeration("Modality", "modality"), text("raw"),
                          object_only(Optional(opaque("extras")))>>]

ProjectionFields ==
    [ResponseProjection |->
        <<integer("index"), enumeration("MessageType", "type"), text("role"),
          records("Content", "content"), integer("tool_calls"), integer("omitted_parts"),
          Optional(record("Content", "reasoning")), Optional(text("commit_sequence")),
          Optional(record("AnswerSource", "answer_source")), Optional(record("Usage", "cost")),
          Optional(projected_batch("Call", "OmissionMarker", "invokes"))>>,
     ToolResultMessage |->
        <<enumeration("MessageType", "type"), text("role"), records("Content", "content"),
          Optional(integer("omitted_parts")), Optional(record("Result", "invoke_return")),
          Optional(opaque("extras"))>>]

OptionFields ==
    [OptionChoice |-> <<text("name"), texts("options")>>,
     OptionCategory |-> <<records("OptionChoice", "available"), opaque("current")>>,
     OptionsData |-> <<Optional(record("OptionCategory", "model")),
                       Optional(record("OptionCategory", "tools")),
                       Optional(record("OptionCategory", "confirmation"))>>,
     EventQueue |-> OptionalIntegerFields(<<"count", "bytes", "transport_bytes">>),
     MemoryRetention |-> <<integer("max_archives")>>,
     AutoCompact |-> IntegerFields(<<"attempts", "succeeded", "limit", "threshold">>)]

StatusFields ==
    [LoopProgress |->
        <<enumeration("LoopStatus", "status"), enumeration("LoopPhase", "phase"),
          integer("completed_exchanges"), integer("committed_response_sequence"),
          text("error"), opaque("pending_results")>>,
     StatusData |->
        <<boolean("active"), boolean("stopping"), boolean("storage_failed"),
          integer("rejected_payloads")>>
        \o OptionalIntegerFields(<<"rejected_queries", "unreported_rejections">>)
        \o <<Optional(record("EventQueue", "event_queue")),
             Optional(record("MemoryRetention", "memory_retention")),
             Optional(record("AutoCompact", "auto_compact")), texts("capabilities"),
             Optional(record("LoopProgress", "loop"))>>]

RequestFields ==
    [PayloadRequest |->
        <<enumeration("InputOperation", "operation"), text("request_id"),
          Optional(records("RequestContent", "content")),
          object_only(Optional(opaque("options")))>>
        \o OptionalIntegerFields(<<"start", "step", "limit">>)
        \o <<Optional(record("AnswerSource", "source"))>>
        \o OptionalIntegerFields(<<"part", "offset">>),
     SignalRequest |-> <<enumeration("SignalOperation", "operation"),
                         Optional(text("run_id"))>>]

ConfirmationFields ==
    [ConfirmationRequest |->
        TextFields(<<"worker_id", "session_id", "run_id", "confirmation_id">>)
        \o <<record("Call", "call")>>,
     ConfirmationResponse |->
        TextFields(<<"worker_id", "session_id", "run_id", "confirmation_id">>)
        \o <<enumeration("ConfirmationDecision", "decision"), Optional(text("reason"))>>]

ToolFields ==
    [ToolError |-> TextFields(<<"code", "message">>),
     ToolRequest |-> TextFields(<<"worker_id", "session_id", "run_id", "request_id">>)
                     \o <<object_only(opaque("arguments"))>>,
     ToolResponse |-> TextFields(<<"worker_id", "session_id", "run_id", "request_id", "route">>)
                      \o <<enumeration("ToolStatus", "status"),
                           Optional(record("ToolError", "error")),
                           object_only(Optional(opaque("result")))>>]

HistoryFields ==
    [HistoryStep |->
        <<integer("index"), records("Content", "content"), integer("tool_calls"),
          integer("omitted_parts"), Optional(record("Content", "reasoning")),
          Optional(text("commit_sequence")), Optional(record("AnswerSource", "answer_source")),
          Optional(record("ExecutionIdentity", "execution"))>>,
     HistoryTurn |->
        <<integer("index"), records("Content", "user"), records("HistoryStep", "steps"),
          integer("omitted_user_parts"), integer("omitted_steps"),
          Optional(record("ExecutionIdentity", "source")), Optional(text("internal_input"))>>,
     HistoryPage |->
        <<text("request_id")>>
        \o IntegerFields(<<"revision", "start", "step", "next", "next_step", "total">>)
        \o <<records("HistoryTurn", "turns")>>,
     AnswerPage |->
        <<text("request_id"), record("AnswerSource", "source"), integer("part"),
          integer("offset"), text("raw"), enumeration("ContentType", "type"),
          enumeration("Modality", "modality")>>
        \o IntegerFields(<<"bytes", "next_offset", "next_part", "total_parts">>)
        \o <<boolean("done")>>]

FeedbackFields ==
    [EmptyData |-> <<>>,
     QueryErrorData |-> <<nullable_value(opaque("request_id")), text("message"),
                          Optional(text("code"))>>,
     InputAdmittedData |-> <<Optional(enumeration("InputOperation", "operation"))>>,
     InputRejectedData |-> <<nullable_value(opaque("request_id")), text("message"),
                             Optional(enumeration("InputOperation", "operation")),
                             Optional(enumeration("RejectionCode", "code"))>>]

StorageFields ==
    [ArchiveRef |-> <<text("session_id"), text("archive_id"),
                      enumeration("StorageKind", "storage_kind"), boolean("restorable")>>,
     ArchiveCleanup |-> IntegerFields(<<"removed_archives", "removed_bytes">>),
     OmissionSummary |-> <<boolean("display_omitted"), integer("bytes"), text("reason")>>,
     CompactFinishedData |->
        <<text_or_record("OmissionSummary", "summary"), Optional(text("memory_file")),
          Optional(record("ArchiveRef", "archive")), integer("removed_turns"),
          integer("revision"), boolean("durable"), Optional(text("origin")),
          Optional(integer("cycle")), Optional(text("call_id")),
          Optional(record("ArchiveCleanup", "archive_cleanup")),
          Optional(text("archive_cleanup_error"))>>,
     PersistedData |->
        <<enumeration("PersistBoundary", "boundary"), enumeration("StorageKind", "backend"),
          required(nullable_value(Optional(integer("revision")))), text("operation_id")>>]

OutcomeFields ==
    [ExportErrorData |-> TextFields(<<"operation", "message">>),
     FailureData |-> <<enumeration("FailureStage", "stage"), text("operation"),
                       boolean("can_continue")>>,
     RunOutcomeData |->
        <<enumeration("RunStatus", "status"), text("error"), integer("exchanges")>>
        \o OptionalIntegerFields(<<"task_exchanges", "compact_exchanges">>)
        \o <<Optional(record("AutoCompact", "auto_compact")), boolean("durable"),
             Optional(record("FailureData", "failure"))>>
        \o OptionalIntegerFields(<<"omitted_display_events", "omitted_query_events",
                              "omitted_feedback_events", "coalesced_metadata_events",
                              "rejected_queries", "unreported_rejections">>),
     ErrorData |->
        <<text("message"), Optional(boolean("durable")), Optional(opaque("primary_outcome")),
          Optional(text("storage_error"))>>
        \o OptionalIntegerFields(<<"rejected_queries", "unreported_rejections">>),
     OmissionMarker |-> <<boolean("display_omitted"), integer("omitted_items")>>]

EnvelopeOf(type, data) ==
    <<constant(enumeration("EnvelopeType", "type"), type), record(data, "data")>>
EnvelopeFields ==
    [EventEnvelope |->
        <<constant(enumeration("EnvelopeType", "type"), "event"),
          enumeration("EventName", "event")>>
        \o TextFields(<<"session_id", "worker_id", "request_id", "run_id">>)
        \o <<integer("sequence"), opaque("data")>>,
     PayloadEnvelope |-> EnvelopeOf("payload", "PayloadRequest"),
     SignalEnvelope |-> EnvelopeOf("signal", "SignalRequest"),
     ConfirmationRequestEnvelope |-> EnvelopeOf("confirmation_request", "ConfirmationRequest"),
     ConfirmationResponseEnvelope |-> EnvelopeOf("confirmation_response", "ConfirmationResponse"),
     ToolRequestEnvelope |-> EnvelopeOf("tool_request", "ToolRequest"),
     ToolResponseEnvelope |-> EnvelopeOf("tool_response", "ToolResponse")]

wire_fields ==
    ContentFields @@ CallFields @@ ProjectionFields @@ OptionFields @@ StatusFields
    @@ RequestFields @@ ConfirmationFields @@ ToolFields @@ HistoryFields
    @@ FeedbackFields @@ StorageFields @@ OutcomeFields @@ EnvelopeFields

(* wire_rules(), wire_forbidden_fields(), wire_unknown_fields().             *)
Rule(field, equals, requires, forbids, closed, ignores) ==
    [when |-> field, equals |-> equals, requires |-> requires, forbids |-> forbids,
     closed |-> closed, ignores |-> ignores]
message_ignored == {"start", "step", "limit", "source", "part", "offset"}
PayloadRules ==
    {Rule("operation", "message", {"content"}, {}, FALSE, message_ignored),
     Rule("operation", "continue", {}, {"content"}, FALSE, message_ignored),
     Rule("operation", "compact", {}, {"content"}, FALSE, message_ignored),
     Rule("operation", "history", {}, {"content", "options"}, FALSE,
          {"source", "part", "offset"}),
     Rule("operation", "answer", {"source"},
          {"content", "options", "start", "step", "limit"}, TRUE, {})}
SignalRules ==
    {Rule("operation", "cancel", {"run_id"}, {}, FALSE, {})}
    \cup {Rule("operation", o, {}, {"run_id"}, FALSE, {}) : o \in {"status", "options", "shutdown"}}
ToolResponseRules ==
    {Rule("status", "succeeded", {"result"}, {"error"}, FALSE, {}),
     Rule("status", "rejected", {"error"}, {"result"}, FALSE, {})}
rules(R) ==
    CASE R = "PayloadRequest" -> PayloadRules
      [] R = "SignalRequest" -> SignalRules
      [] R = "ToolResponse" -> ToolResponseRules
      [] OTHER -> {}
forbidden_fields(R) ==
    IF R = "PayloadRequest" THEN {"role", "invokes", "invoke_return", "type", "text"} ELSE {}
unknown_policy(R) == IF R = "AnswerSource" THEN "reject" ELSE "ignore"

(* The declarations of each record by name.                                  *)
ByName(fs) == [name \in {fs[i].name : i \in DOMAIN fs} |->
                  fs[CHOOSE i \in DOMAIN fs : fs[i].name = name]]
EachByName(tables) == [R \in DOMAIN tables |-> ByName(tables[R])]
Declared == EachByName(wire_fields)

-----------------------------------------------------------------------------
(* codec.hpp.  from_json recurs on the documents a document contains;        *)
(* `inner` is the codec one level down, and D the declarations.             *)
MaxNesting == 8
MembersOf(j) == CASE j.k = "object" -> Range(j.m) [] j.k = "array" -> Range(j.s) [] OTHER -> {}
Contained(j) ==
    LET Within[n \in 0..MaxNesting] ==
            IF n = 0 THEN {j}
            ELSE LET outer == Within[n - 1] IN outer \cup UNION {MembersOf(i) : i \in outer}
    IN  Within[MaxNesting]

enum_to(E, i) == Enums[E][i]
enum_from(E, spelling) ==
    LET hits == {i \in DOMAIN Enums[E] : Enums[E][i] = spelling}
    IN  IF hits = {} THEN {} ELSE {CHOOSE i \in hits : \A j \in hits : i <= j}

(* Every one read, or nothing.                                               *)
AllRead(f) == IF \E i \in DOMAIN f : f[i] = {} THEN {}
              ELSE {[i \in DOMAIN f |-> CHOOSE x \in f[i] : TRUE]}

IsMarker(item) == HasKey(item, "display_omitted")

(* A marker stands last or nowhere.                                          *)
validate_projected_batch(inner(_, _), R, marker, j) ==
    j.k = "array" /\ \A i \in DOMAIN j.s :
        IF IsMarker(j.s[i]) THEN i = Len(j.s) /\ inner(marker, j.s[i]) # {}
        ELSE inner(R, j.s[i]) # {}

validate_text_or_record(inner(_, _), R, j) == j.k = "string" \/ inner(R, j) # {}

check_constraints(f, j) ==
    /\ f.object_only => j.k = "object"
    /\ f.constant # "" /\ j.k = "string" => j.t = f.constant

(* All wire integers are uint64; a JSON integer may be stored signed.        *)
decode_text(j) == IF j.k = "string" THEN {j.t} ELSE {}
decode_scalar(f, j) ==
    CASE f.kind = "any" -> {j}
      [] f.kind = "text" -> decode_text(j)
      [] f.kind = "boolean" -> IF j.k = "boolean" THEN {j.b} ELSE {}
      [] f.kind = "integer" -> IF j.k = "number" /\ j.n >= 0 THEN {j.n} ELSE {}
      [] f.kind = "enumeration" -> UNION {enum_from(f.of, t) : t \in decode_text(j)}
decode_list(One(_), j) ==
    IF j.k = "array" THEN AllRead([i \in DOMAIN j.s |-> One(j.s[i])]) ELSE {}
decode_one(inner(_, _), f, j) ==
    CASE f.kind = "record" -> inner(f.of, j)
      [] f.kind = "records" -> decode_list(LAMBDA item : inner(f.of, item), j)
      [] f.kind = "texts" -> decode_list(decode_text, j)
      [] f.kind = "text_or_record" ->
            IF validate_text_or_record(inner, f.of, j) THEN {j} ELSE {}
      [] f.kind = "projected_batch" ->
            IF validate_projected_batch(inner, f.of, f.alternative, j) THEN {j} ELSE {}
      [] OTHER -> decode_scalar(f, j)

(* rule_matches(): the selector has been read when a field that a rule may   *)
(* ignore is reached, it is declared before them.                            *)
Selects(rule, j) == HasKey(j, rule.when) /\ j.m[rule.when] = JText(rule.equals)
Active(R, j) == {rule \in rules(R) : Selects(rule, j)}
ignored_field(R, j, name) == \E rule \in Active(R, j) : name \in rule.ignores
closed_scope(R, j) == unknown_policy(R) = "reject" \/ \E rule \in Active(R, j) : rule.closed

(* The early returns and refusals of read_field() before the value itself.   *)
field_state(R, j, f) ==
    IF ignored_field(R, j, f.name) THEN "ignored"
    ELSE IF f.name \notin DOMAIN j.m THEN (IF f.required THEN "refused" ELSE "unset")
    ELSE IF j.m[f.name] # JNull THEN (IF check_constraints(f, j.m[f.name]) THEN "given" ELSE "refused")
    ELSE IF ~f.nullable THEN "refused"
    ELSE IF f.kind = "any" /\ ~f.optional THEN "null" ELSE "unset"

(* A member that is absent is <<>>.                                          *)
read_field(inner(_, _), R, j, f) ==
    LET state == field_state(R, j, f)
    IN  CASE state = "refused" -> {}
          [] state \in {"ignored", "unset"} -> {<<>>}
          [] state = "null" -> {<<JNull>>}
          [] state = "given" -> {<<x>> : x \in decode_one(inner, f, j.m[f.name])}

Present(member) == member # <<>>
RulesHold(R, j, members) ==
    \A rule \in Active(R, j) : /\ \A name \in rule.requires : Present(members[name])
                               /\ \A name \in rule.forbids : ~Present(members[name])

read_record(inner(_, _), fields, R, j) ==
    IF j.k # "object" THEN {}
    ELSE LET read == AllRead([name \in DOMAIN fields |-> read_field(inner, R, j, fields[name])])
         IN  {[of |-> R, members |-> members] : members \in
                {m \in read : /\ DOMAIN j.m \cap forbidden_fields(R) = {}
                              /\ closed_scope(R, j) => DOMAIN j.m \subseteq DOMAIN fields
                              /\ RulesHold(R, j, m)}}

encode_scalar(f, x) ==
    CASE f.kind \in {"any", "text_or_record", "projected_batch"} -> x
      [] f.kind = "text" -> JText(x)
      [] f.kind = "boolean" -> JBool(x)
      [] f.kind = "integer" -> JNumber(x)
      [] f.kind = "enumeration" -> JText(enum_to(f.of, x))
encode_one(inner(_), f, x) ==
    CASE f.kind = "record" -> inner(x)
      [] f.kind = "records" -> JArray([i \in DOMAIN x |-> inner(x[i])])
      [] f.kind = "texts" -> JArray([i \in DOMAIN x |-> JText(x[i])])
      [] OTHER -> encode_scalar(f, x)

(* Required and nullable: the key is always there.                           *)
Written(fields, r) ==
    {name \in DOMAIN fields : Present(r.members[name]) \/ (fields[name].required /\ fields[name].nullable)}
write_record(inner(_), D, r) ==
    JObject([name \in Written(D[r.of], r) |->
                IF Present(r.members[name])
                THEN encode_one(inner, D[r.of][name], r.members[name][1])
                ELSE JNull])

ReadWith(D, R, j) ==
    LET read[S \in DOMAIN D, i \in Contained(j)] ==
            read_record(LAMBDA T, k : read[T, k], D[S], S, i)
    IN  read[R, j]
record_from_json(R, j) == ReadWith(Declared, R, j)

(* to_json is unfolded as deep as records nest.                              *)
Write0(r) == JNull
Write1(D, r) == write_record(Write0, D, r)
Write2(D, r) == write_record(LAMBDA q : Write1(D, q), D, r)
Write3(D, r) == write_record(LAMBDA q : Write2(D, q), D, r)
Write4(D, r) == write_record(LAMBDA q : Write3(D, q), D, r)
record_to_json(r) == Write4(Declared, r)

(* validate_event_data(): the record, or batch of records, each event carries. *)
EventData(event) ==
    CASE event \in {"ready", "status"} -> "StatusData"
      [] event = "options" -> "OptionsData"
      [] event = "history" -> "HistoryPage"
      [] event = "answer" -> "AnswerPage"
      [] event \in {"answer_error", "history_error"} -> "QueryErrorData"
      [] event = "input_admitted" -> "InputAdmittedData"
      [] event = "input_rejected" -> "InputRejectedData"
      [] event \in {"run_started", "input_committed"} -> "EmptyData"
      [] event = "model_response" -> "ResponseProjection"
      [] event = "tool_calls" -> "Call"
      [] event = "tool_results" -> "ToolResultMessage"
      [] event = "persisted" -> "PersistedData"
      [] event = "compact_finished" -> "CompactFinishedData"
      [] event = "export_error" -> "ExportErrorData"
      [] event = "error" -> "ErrorData"
      [] event = "run_finished" -> "RunOutcomeData"

validate_event_data(event, data) ==
    IF event \in {"tool_calls", "tool_results"}
    THEN validate_projected_batch(record_from_json, EventData(event), "OmissionMarker", data)
    ELSE record_from_json(EventData(event), data) # {}

-----------------------------------------------------------------------------
(* manifest.cpp: the schema published for a field, as its keywords, and for  *)
(* a record.  or_text and or_null stand for the two uses of anyOf, marker    *)
(* for the if/then/else, contains and trailing-marker keywords of a batch.   *)
OpenSchema == [type |-> "", ref |-> "", const |-> "", items |-> "", marker |-> "",
               or_text |-> FALSE, or_null |-> FALSE]
schema_type(f) ==
    LET type ==
        CASE f.kind = "any" -> IF f.object_only THEN "object" ELSE ""
          [] f.kind = "text" -> "string"
          [] f.kind \in {"integer", "boolean"} -> f.kind
          [] f.kind \in {"records", "texts", "projected_batch"} -> "array"
          [] OTHER -> ""
    IN  [OpenSchema EXCEPT
            !.type = type,
            !.ref = IF f.kind \in {"enumeration", "record", "text_or_record"} THEN f.of ELSE "",
            !.items = CASE f.kind \in {"records", "projected_batch"} -> f.of
                        [] f.kind = "texts" -> "string"
                        [] OTHER -> "",
            !.marker = f.alternative,
            !.const = f.constant,
            !.or_text = f.kind = "text_or_record",
            !.or_null = f.nullable]

(* A field that some rule ignores is typed only by the branches.             *)
json_schema(R, fields) ==
    LET properties == [name \in DOMAIN fields |-> schema_type(fields[name])]
        Untyped(names) == [name \in DOMAIN fields |->
                              IF name \in names THEN OpenSchema ELSE properties[name]]
    IN  [required |-> {name \in DOMAIN fields : fields[name].required},
         closed |-> unknown_policy(R) = "reject",
         properties |-> Untyped(UNION {rule.ignores : rule \in rules(R)}),
         not |-> forbidden_fields(R),
         conditions |-> {[when |-> rule.when, equals |-> rule.equals,
                          properties |-> Untyped(rule.ignores), required |-> rule.requires,
                          not |-> rule.forbids, closed |-> rule.closed] : rule \in rules(R)}]

(* What a validator makes of such keywords (JSON Schema 2020-12).  A float   *)
(* with a whole value is an integer to it.                                   *)
HasType(type, j) == IF type = "integer" THEN \/ j.k = "number" /\ j.n >= 0
                                             \/ j.k = "float" /\ j.whole
                    ELSE type = "" \/ j.k = type
Valid(def(_, _), s, j) ==
    \/ s.or_null /\ j = JNull
    \/ s.or_text /\ j.k = "string"
    \/ /\ HasType(s.type, j)
       /\ s.ref # "" => def(s.ref, j)
       /\ s.const # "" => j = JText(s.const)
       /\ s.items # "" /\ j.k = "array" => \A i \in DOMAIN j.s :
             CASE s.items = "string" -> j.s[i].k = "string"
               [] s.marker # "" /\ IsMarker(j.s[i]) -> i = Len(j.s) /\ def(s.marker, j.s[i])
               [] OTHER -> def(s.items, j.s[i])
Scope(def(_, _), s, j) ==
    /\ s.required \subseteq DOMAIN j.m /\ s.not \cap DOMAIN j.m = {}
    /\ s.closed => DOMAIN j.m \subseteq DOMAIN s.properties
    /\ \A name \in DOMAIN j.m \cap DOMAIN s.properties : Valid(def, s.properties[name], j.m[name])
Definition(def(_, _), D, name, j) ==
    IF name \in DOMAIN Enums THEN j.k = "string" /\ j.t \in Range(Enums[name])
    ELSE LET s == json_schema(name, D[name])
             Holds(c) == c.when \in DOMAIN j.m /\ j.m[c.when] = JText(c.equals)
         IN  j.k = "object" /\ \A c \in {s} \cup {c \in s.conditions : Holds(c)} : Scope(def, c, j)

AdmittedBy(D, name, j) ==
    LET admits[n \in DOMAIN D \cup DOMAIN Enums, i \in Contained(j)] ==
            Definition(LAMBDA m, k : admits[m, k], D, n, i)
    IN  admits[name, j]
Admits(name, j) == AdmittedBy(Declared, name, j)

(* event_data_registry(): what the manifest says an event carries.           *)
event_data_registry ==
    [ready |-> "StatusData", status |-> "StatusData", options |-> "OptionsData",
     history |-> "HistoryPage", answer |-> "AnswerPage", answer_error |-> "QueryErrorData",
     history_error |-> "QueryErrorData", input_admitted |-> "InputAdmittedData",
     input_rejected |-> "InputRejectedData", run_started |-> "EmptyData",
     input_committed |-> "EmptyData", model_response |-> "ResponseProjection",
     tool_calls |-> "Call", tool_results |-> "ToolResultMessage",
     persisted |-> "PersistedData", compact_finished |-> "CompactFinishedData",
     export_error |-> "ExportErrorData", error |-> "ErrorData",
     run_finished |-> "RunOutcomeData"]
registered_array == {"tool_calls", "tool_results"}

-----------------------------------------------------------------------------
(* Documents: what a peer may send.  A document starts with the members its  *)
(* record requires, or with all of them, and is altered member by member:    *)
(* dropped, replaced by a value of another kind, added although unknown or   *)
(* forbidden, and so on inside the records it contains.                      *)
Sample(inner(_), f) ==
    CASE f.kind = "text" -> JText("x")
      [] f.kind = "integer" -> JNumber(1)
      [] f.kind = "boolean" -> JBool(TRUE)
      [] f.kind = "any" -> JObject(<<>>)
      [] f.kind = "enumeration" -> JText(IF f.constant # "" THEN f.constant ELSE Enums[f.of][1])
      [] f.kind = "record" -> inner(f.of)
      [] f.kind = "records" -> JArray(<<inner(f.of)>>)
      [] f.kind = "texts" -> JArray(<<JText("x")>>)
      [] f.kind = "text_or_record" -> inner(f.of)
      [] f.kind = "projected_batch" -> JArray(<<inner(f.of), inner(f.alternative)>>)
Filled(inner(_), fields, names) == JObject([name \in names |-> Sample(inner, fields[name])])
RequiredKeys(fields) == {name \in DOMAIN fields : fields[name].required}
BareDocs(D) ==
    LET bare[R \in DOMAIN D] == Filled(LAMBDA S : bare[S], D[R], RequiredKeys(D[R]))
    IN  bare
FullDocs(D, bare) == [R \in DOMAIN D |-> Filled(LAMBDA S : bare[S], D[R], DOMAIN D[R])]

(* The declarations with the two documents of each record.                   *)
Exemplify(D) == [fields |-> D, bare |-> BareDocs(D), full |-> FullDocs(D, BareDocs(D))]
Exemplars == Exemplify(Declared)

Strays == {JNull, JText("x"), JNumber(1), JNumber(-1), JFloat(TRUE), JFloat(FALSE),
           JBool(TRUE), JArray(<<>>), JObject(<<>>)}
StrayBatches(E, R) ==
    LET one == E.bare[R]
        marker == E.bare["OmissionMarker"]
    IN  {JArray(s) : s \in {<<one>>, <<marker>>, <<JNull>>, <<marker, one>>, <<one, marker>>,
                            <<marker, marker>>}}
StraysFor(E, f) ==
    Strays
    \cup CASE f.kind = "enumeration" -> {JText(s) : s \in Range(Enums[f.of])}
           [] f.kind = "record" -> {E.full[f.of]}
           [] f.kind = "records" -> {JArray(<<E.full[f.of]>>), JArray(<<E.bare[f.of], JNull>>)}
           [] f.kind = "texts" -> {JArray(<<JText("x"), JNumber(1)>>)}
           [] f.kind = "text_or_record" -> {E.full[f.of]}
           [] f.kind = "projected_batch" -> StrayBatches(E, f.of)
           [] OTHER -> {}
Putting(j, name, v) == JObject((name :> v) @@ j.m)
Dropping(j, name) == JObject([n \in DOMAIN j.m \ {name} |-> j.m[n]])

WithStray(E, R, j) ==
    UNION {{Putting(j, f.name, v) : v \in StraysFor(E, f)} : f \in Range(E.fields[R])}
WithExtra(R, j) == {Putting(j, name, JNull) : name \in {"zzz"} \cup forbidden_fields(R)}
WithDropped(E, R, j) == {Dropping(j, name) : name \in DOMAIN E.fields[R] \cap DOMAIN j.m}
Alterations(E, R, j) == WithStray(E, R, j) \cup WithExtra(R, j) \cup WithDropped(E, R, j)

(* Inside a member that is a record, or the first of a list of records.      *)
AlteredInside(E, R, j) ==
    LET Nested(kind) == {f \in Range(E.fields[R]) : f.kind = kind /\ HasKey(j, f.name)}
    IN  UNION {{Putting(j, f.name, v) : v \in Alterations(E, f.of, j.m[f.name])} :
                  f \in {g \in Nested("record") : j.m[g.name].k = "object"}}
        \cup UNION {{Putting(j, f.name, JArray(<<v>>)) :
                        v \in Alterations(E, f.of, j.m[f.name].s[1])} :
                  f \in {g \in Nested("records") :
                            j.m[g.name].k = "array" /\ Len(j.m[g.name].s) = 1}}
Altered(E, R, j, deep) == Alterations(E, R, j) \cup (IF deep THEN AlteredInside(E, R, j) ELSE {})

Conditional == {R \in WireRecords : rules(R) # {}}
MayAlter(R) == IF R \in Conditional THEN MaxAlterations ELSE 1

Both(E, R) == {E.bare[R], E.full[R]}
WcInit ==
    /\ wcRecord \in WireRecords
    /\ wcDoc \in Both(Exemplars, wcRecord)
    /\ wcAltered = 0 /\ wcRead = {} /\ wcAgain = {} /\ wcStage = "draft"

AlterDocument ==
    /\ wcStage = "draft" /\ wcAltered < MayAlter(wcRecord)
    /\ wcDoc' \in Altered(Exemplars, wcRecord, wcDoc, wcAltered = 0)
    /\ wcAltered' = wcAltered + 1
    /\ UNCHANGED <<wcRecord, wcRead, wcAgain, wcStage>>

Carried(E, R) == Both(E, R) \cup StrayBatches(E, R) \cup {JArray(<<>>), JText("x")}
(* An event with the data of any event: what its envelope's codec passes on. *)
Announce ==
    /\ wcStage = "draft" /\ wcAltered = 0 /\ wcRecord = "EventEnvelope"
    /\ \E event \in DOMAIN event_data_registry, carried \in Range(event_data_registry) :
          \E data \in Carried(Exemplars, carried) :
             wcDoc' = Putting(Putting(wcDoc, "event", JText(event)), "data", data)
    /\ wcAltered' = MayAlter(wcRecord)
    /\ UNCHANGED <<wcRecord, wcRead, wcAgain, wcStage>>

Receive ==
    /\ wcStage = "draft"
    /\ wcRead' = record_from_json(wcRecord, wcDoc) /\ wcStage' = "read"
    /\ UNCHANGED <<wcRecord, wcDoc, wcAltered, wcAgain>>

(* The record is written by record_to_json and read by the other side.              *)
Forward ==
    /\ wcStage = "read" /\ wcRead # {}
    /\ LET r == CHOOSE r \in wcRead : TRUE
       IN  wcDoc' = record_to_json(r)
    /\ wcAgain' = record_from_json(wcRecord, wcDoc') /\ wcStage' = "again"
    /\ UNCHANGED <<wcRecord, wcAltered, wcRead>>

WcNext == AlterDocument \/ Announce \/ Receive \/ Forward
WcSpec == WcInit /\ [][WcNext]_wcVars

-----------------------------------------------------------------------------
(* Where the schema admits more than the codec, by the words of the table:   *)
(* null for an open value, and 1.0 for an integer.                           *)
LooseAt(inner(_, _), fields, j) ==
    \E f \in {g \in Range(fields) : HasKey(j, g.name)} :
        LET v == j.m[f.name]
        IN  \/ f.kind = "any" /\ v = JNull
            \/ f.kind = "integer" /\ v.k = "float"
            \/ f.kind \in {"record", "text_or_record"} /\ v.k = "object" /\ inner(f.of, v)
            \/ /\ f.kind \in {"records", "projected_batch"} /\ v.k = "array"
               /\ \E i \in DOMAIN v.s : v.s[i].k = "object" /\ inner(f.of, v.s[i])
LooseWith(D, R, j) ==
    LET loose[S \in DOMAIN D, i \in Contained(j)] ==
            LooseAt(LAMBDA T, k : loose[T, k], D[S], i)
    IN  loose[R, j]
Loose(R, j) == LooseWith(Declared, R, j)

\* The worker's codec and the published schema describe one language: a document the
\* codec reads, or writes, is valid, and a valid one is read, but for the two
\* loosenesses named above (codec.hpp record_from_json against manifest.cpp json_schema).
CodecMeetsSchema ==
    /\ wcStage = "read" => /\ wcRead # {} => Admits(wcRecord, wcDoc)
                           /\ Admits(wcRecord, wcDoc) => wcRead # {} \/ Loose(wcRecord, wcDoc)
    /\ wcStage = "again" => Admits(wcRecord, wcDoc)

\* What one side writes of what it read, the other reads as the same record: unknown
\* and ignored members are gone, a null that is a value is still there, an absent
\* optional is still absent (codec.hpp record_to_json, record_from_json).
ForwardedUnchanged == wcStage = "again" => wcAgain = wcRead

\* The data of an event that the worker's validation passes is what the manifest's
\* registry says the event carries, and the other way round but for the same two
\* loosenesses (wire.cpp validate_event_data against event_data_registry).
EventsCarryWhatIsRegistered ==
    wcRecord = "EventEnvelope" /\ wcStage = "read" /\ wcRead # {} =>
        LET event == wcDoc.m["event"].t
            data == wcDoc.m["data"]
            R == event_data_registry[event]
            batch == schema_type(projected_batch(R, "OmissionMarker", "data"))
            valid == IF event \in registered_array THEN Valid(Admits, batch, data)
                     ELSE Admits(R, data)
        IN  validate_event_data(event, data) <=> valid
=============================================================================
