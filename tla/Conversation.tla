---------------------------- MODULE Conversation ----------------------------
(***************************************************************************)
(* A conversation with a provider: LLMModel's generation knobs and         *)
(* integrate (src/llm/include/llm/models.hpp), the two wire adapters'      *)
(* build and converse (compat/*/src/model.cpp) and their interpreters,     *)
(* which map the whole conversation to one request (interpreter.cpp).      *)
(*                                                                         *)
(* A content part is its modality, its encoding and whether it is a        *)
(* refusal.  A tool result remembers, for the properties, which call it    *)
(* answers; the program knows only the id in its record, if it has one.    *)
(* The exchange itself is module ModelExchange's; here it succeeds, with a *)
(* response of any shape, or fails.                                        *)
(***************************************************************************)
EXTENDS Integers, Sequences, FiniteSets, SequencesExt

CONSTANTS
    Dialects,      \* subset of {"chat", "responses"}
    UserParts,     \* content parts of user input
    ToolParts,     \* content parts of tool results
    MaxResponses,  \* model responses in one conversation
    MaxPatches     \* accepted generation patches

ASSUME ConversationBounds ==
    /\ Dialects \subseteq {"chat", "responses"}
    /\ MaxResponses \in Nat /\ MaxPatches \in Nat

VARIABLES
    cvDialect,     \* which adapter
    cvBuilt,       \* _built
    cvGeneration,  \* _generation: its knobs, each the patch that set it
    cvSteps,       \* the turns of the conversation, in order
    cvFlight       \* the exchange in flight: its snapshot and its request

cvVars == <<cvDialect, cvBuilt, cvGeneration, cvSteps, cvFlight>>

Part(modality, encoding) == [modality |-> modality, encoding |-> encoding]
NoFlight == [state |-> "idle", generation |-> <<>>, request |-> <<>>]

CvInit ==
    /\ cvDialect \in Dialects
    /\ cvBuilt = FALSE
    /\ cvGeneration = [object |-> FALSE, model |-> 0, effort |-> 0]
    /\ cvSteps = <<>>
    /\ cvFlight = NoFlight

-----------------------------------------------------------------------------
(* Generation knobs *)

\* build(): a configuration without an endpoint or a model name builds nothing
\* and the model stays unusable; a second build() changes nothing.
BuildModel ==
    /\ ~cvBuilt
    /\ cvBuilt' = TRUE
    /\ cvGeneration' = [object |-> TRUE, model |-> 1, effort |-> 1]
    /\ UNCHANGED <<cvDialect, cvSteps, cvFlight>>

\* apply_generation_patch: merged on a copy and committed only when every check
\* passes.  0 is a removed or empty value; a patch with a host-owned key or one
\* that is not an object throws before it is merged.
SetGeneration ==
    /\ cvGeneration.object
    /\ cvGeneration.model + cvGeneration.effort < MaxPatches + 2
    /\ \E model, effort \in BOOLEAN :
          /\ model \/ effort
          /\ cvGeneration' = [cvGeneration EXCEPT
                                 !.model = IF model THEN @ + 1 ELSE @,
                                 !.effort = IF effort THEN @ + 1 ELSE @]
    /\ UNCHANGED <<cvDialect, cvBuilt, cvSteps, cvFlight>>

-----------------------------------------------------------------------------
(* integrate: where an item of each type goes.                              *)

\* A turn's user input, a step's model response, or a tool result of the last
\* step; a result with no step to belong to opens an empty one.
User(part) == [item |-> "user", part |-> part]
AssistantEntry(r) == [item |-> "response", response |-> r, returns |-> <<>>]

LastIsResponse == cvSteps # <<>> /\ Last(cvSteps).item = "response"

IntegrateUser ==
    /\ cvFlight.state # "flying"
    /\ cvSteps = <<>> \/ LastIsResponse
    /\ \E part \in UserParts : cvSteps' = Append(cvSteps, User(part))
    /\ UNCHANGED <<cvDialect, cvBuilt, cvGeneration, cvFlight>>

Responses(n) ==
    [calls : {<<>>, <<<<n, 1>>>>, <<<<n, 1>>, <<n, 2>>>>},
     text : {"none", "text", "refusal", "both"},
     captured : BOOLEAN]

\* converse returned a response: only a Completed status does.
IntegrateResponse ==
    /\ cvFlight.state = "flying"
    /\ LET n == Cardinality({i \in DOMAIN cvSteps : cvSteps[i].item = "response"}) + 1
       IN  /\ n <= MaxResponses
           /\ \E r \in Responses(n) :
                 /\ r.captured => cvDialect = "responses"
                 /\ cvSteps' = Append(cvSteps, AssistantEntry(r))
    /\ cvFlight' = NoFlight
    /\ UNCHANGED <<cvDialect, cvBuilt, cvGeneration>>

\* Any other status, and any transport failure, throws out of converse.
ConverseThrows ==
    /\ cvFlight.state = "flying"
    /\ cvFlight' = NoFlight
    /\ UNCHANGED <<cvDialect, cvBuilt, cvGeneration, cvSteps>>

\* The results of the last response's calls arrive in call order, one for each
\* call or, when the run was interrupted, for some of them; a result carries the
\* record of its call or it does not.
IntegrateReturn ==
    /\ cvFlight.state # "flying"
    /\ LastIsResponse
    /\ LET last  == Last(cvSteps)
           calls == last.response.calls
           next  == IF last.returns = <<>> THEN 1
                    ELSE Last(last.returns).position + 1
       IN  \E i \in next .. Len(calls), recorded \in BOOLEAN, part \in ToolParts :
              cvSteps' = [cvSteps EXCEPT ![Len(cvSteps)].returns = Append(@,
                            [answers |-> calls[i], position |-> i,
                             recorded |-> recorded, part |-> part])]
    /\ UNCHANGED <<cvDialect, cvBuilt, cvGeneration, cvFlight>>

-----------------------------------------------------------------------------
(* The support matrices: require_input_part and require_text_position.      *)

TextPosition(part) == part.modality = "text" /\ part.encoding # "binary"

ChatInput(part) ==
    \/ TextPosition(part)
    \/ part.modality = "image" /\ part.encoding = "external_ref"

ResponsesInput(part) ==
    \/ TextPosition(part)
    \/ part.modality = "image" /\ part.encoding = "external_ref"
    \/ part.modality = "document" /\ part.encoding \in {"external_ref", "binary"}

InputPart(part) == IF cvDialect = "chat" THEN ChatInput(part) ELSE ResponsesInput(part)

\* A plausible slip: tool results are checked like user content.
MutantToolPosition(part) == InputPart(part)

\* Tool output is one string on the chat wire and an input list on the other.
ToolPosition(part) ==
    IF cvDialect = "chat" THEN TextPosition(part) ELSE ResponsesInput(part)

\* require_supported_conversation, before anything is mapped.
Supported ==
    \A i \in DOMAIN cvSteps :
        /\ cvSteps[i].item = "user" => InputPart(cvSteps[i].part)
        /\ cvSteps[i].item = "response" =>
              \A k \in DOMAIN cvSteps[i].returns : ToolPosition(cvSteps[i].returns[k].part)

-----------------------------------------------------------------------------
(* The mapping.  A wire entry: its position, its kind, the part it renders *)
(* and, for a result, the call id it is bound to (<<>>: the key is omitted).           *)

Entry(at, kind, part, call) ==
    [at |-> at, kind |-> kind, part |-> part, call |-> call]
Text == Part("text", "text")
Refusal == Part("refusal", "text")

\* user_content_part and input_content_part: the modality decides the kind.
UserEntry(part) ==
    Entry("user", CASE part.modality = "image" -> "image"
            [] part.modality = "document" -> "file"
            [] OTHER -> "text", part, <<>>)

\* A plausible slip: the readable fallback is replayed as ordinary text.
MutantSpoken(r) ==
    IF r.text = "refusal" THEN <<Entry("spoken", "text", Refusal, <<>>)>>
    ELSE IF r.text = "none" THEN <<>> ELSE <<Entry("spoken", "text", Text, <<>>)>>

\* The chat adapter's assistant_message keeps a refusal out of the text; the
\* other adapter re-emits captured items verbatim and renders a message of its
\* own only when there are none, where a refusal-only response is the text it
\* was assembled as.
Spoken(r) ==
    LET text    == IF r.text \in {"text", "both"} THEN <<Entry("spoken", "text", Text, <<>>)>>
                   ELSE <<>>
        refusal == IF r.text \in {"refusal", "both"}
                   THEN <<Entry("spoken", "refusal", Refusal, <<>>)>> ELSE <<>>
    IN  IF cvDialect = "responses" /\ ~r.captured /\ r.text = "refusal"
        THEN <<Entry("spoken", "text", Refusal, <<>>)>>
        ELSE text \o refusal

Invokes(r) == [i \in DOMAIN r.calls |-> Entry("call", "call", Text, r.calls[i])]

\* A plausible slip: results are aligned with the calls whatever their number.
MutantBinding(step, k) ==
    IF step.returns[k].recorded THEN step.returns[k].answers
    ELSE IF k <= Len(step.response.calls) THEN step.response.calls[k]
    ELSE <<>>

\* emit_tool_results: the record's id, else the position when the results map
\* one to one onto the calls, else nothing.
Binding(step, k) ==
    IF step.returns[k].recorded THEN step.returns[k].answers
    ELSE IF Len(step.returns) = Len(step.response.calls) THEN step.response.calls[k]
    ELSE <<>>

ResultEntry(step, k) ==
    LET part == step.returns[k].part
        kind == IF cvDialect = "chat" \/ TextPosition(part) THEN "text"
                ELSE UserEntry(part).kind
    IN  Entry("result", kind, part, Binding(step, k))

StepEntries(step) ==
    IF step.item = "user" THEN <<UserEntry(step.part)>>
    ELSE Spoken(step.response) \o Invokes(step.response)
         \o [k \in DOMAIN step.returns |-> ResultEntry(step, k)]

BuildRequest == FoldLeft(LAMBDA acc, step : acc \o StepEntries(step), <<>>, cvSteps)

\* converse: the knobs are read once, before the first suspension; a
\* conversation the dialect cannot carry is refused before anything is built.
Converse ==
    /\ cvBuilt
    /\ cvFlight.state # "flying"
    /\ cvSteps # <<>>
    /\ cvFlight' = IF Supported
                   THEN [state |-> "flying", generation |-> <<cvGeneration>>,
                         request |-> BuildRequest]
                   ELSE [NoFlight EXCEPT !.state = "refused"]
    /\ UNCHANGED <<cvDialect, cvBuilt, cvGeneration, cvSteps>>

CvNext == \/ BuildModel \/ SetGeneration \/ IntegrateUser \/ IntegrateResponse
          \/ ConverseThrows \/ IntegrateReturn \/ Converse

CvSpec == CvInit /\ [][CvNext]_cvVars

-----------------------------------------------------------------------------
(* Properties *)

Requested == cvFlight.state = "flying"
ResponseSteps == {i \in DOMAIN cvSteps : cvSteps[i].item = "response"}

\* A tool result is sent under the id of the call it answers or under none,
\* never under another call's: also when some results of a step are missing,
\* and when only some of them carry their record.
ResultsBindRight ==
    Requested => \A i \in ResponseSteps : \A k \in DOMAIN cvSteps[i].returns :
        Binding(cvSteps[i], k) \in {<<>>, cvSteps[i].returns[k].answers}

\* No part of the conversation changes its category on the wire: what is sent
\* as text was text, a picture or a document never travels as the characters of
\* its reference or of its encoding, wherever in the conversation it sits.
CategoryKept ==
    Requested => \A n \in DOMAIN cvFlight.request :
        LET e == cvFlight.request[n]
        IN  e.kind = "text" /\ e.part # Refusal =>
                TextPosition(e.part)

\* The chat adapter never replays a refusal as ordinary assistant text.
RefusalStaysRefusal ==
    Requested /\ cvDialect = "chat" =>
        \A n \in DOMAIN cvFlight.request :
            cvFlight.request[n].part = Refusal => cvFlight.request[n].kind = "refusal"
=============================================================================
