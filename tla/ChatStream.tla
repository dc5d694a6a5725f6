----------------------------- MODULE ChatStream -----------------------------
(***************************************************************************)
(* llm::chat_completions: ChatCompletionsStreamHandler::_handle_message    *)
(* decodes one chunk, ChatCompletionsReader accumulates its fragments by   *)
(* tool-call index and assembles and validates the message at the end      *)
(* (src/llm/compat/chat_completions/src/stream_handler.cpp, reader.cpp).   *)
(*                                                                         *)
(* The server streams the calls of a plan, fragment by fragment, in any    *)
(* interleaving of the indices; plans with a missing id or name or with a  *)
(* repeated id are the malformed ones.  One reader serves a call and its   *)
(* retries: endpoint::complete clears it before every attempt.             *)
(***************************************************************************)
EXTENDS Integers, Sequences, FiniteSets

CONSTANTS
    CallIndexes,     \* received tool-call indices
    CallIds,         \* ids a server assigns; "" when it sends none
    FinishReasons,   \* finish_reason values, "" when absent
    MaxAttempts      \* attempts of one call

ASSUME ChatBounds == CallIndexes \subseteq Nat /\ MaxAttempts \in Nat \ {0}

VARIABLES
    ccPlan,       \* what the server means to send: a call per index
    ccWire,       \* fragments sent of each call, and the text increments
    ccReader,     \* the accumulators of the reader
    ccStatus,     \* _status
    ccResponse,   \* _response
    ccEnd,        \* how the stream ended
    ccFault,      \* the exception next() rethrew
    ccAttempt,    \* _attempt
    ccCleared,    \* _cleared_once
    ccBegun,      \* attempts the engine has begun
    ccStrict      \* the dialect's strict_chunk_transform()

ccVars == <<ccPlan, ccWire, ccReader, ccStatus, ccResponse, ccEnd, ccFault,
            ccAttempt, ccCleared, ccBegun, ccStrict>>

NoCalls == [i \in {} |-> [id |-> "", name |-> "", arguments |-> 0]]
FreshFold == [content |-> 0, calls |-> NoCalls, finish |-> "", error |-> FALSE]
NoMessage == [content |-> 0, calls |-> NoCalls, finish |-> "", error |-> FALSE,
              published |-> FALSE]

\* A call is sent as its id, its name and two argument fragments, in this order.
Fragments == 4
Plans == UNION {[s -> [id : CallIds, name : {"", "f"}]] : s \in SUBSET CallIndexes}
NothingSent(plan) == [content |-> 0, calls |-> [i \in DOMAIN plan |-> 0]]

CcInit ==
    /\ ccPlan \in Plans
    /\ ccWire = NothingSent(ccPlan)
    /\ ccReader = FreshFold
    /\ ccStatus = "Streaming"
    /\ ccResponse = NoMessage
    /\ ccEnd = "idle"
    /\ ccFault = ""
    /\ ccAttempt = 0
    /\ ccCleared = FALSE
    /\ ccBegun = 0
    /\ ccStrict \in BOOLEAN

\* A plausible slip: the calls of an abandoned attempt stay in the map.
MutantReaderCleared == [FreshFold EXCEPT !.calls = ccReader.calls]
ReaderCleared == FreshFold

\* A plausible slip: the initial reset counts as a retry.
MutantNextAttempt == ccAttempt + 1
NextAttempt == IF ccCleared THEN ccAttempt + 1 ELSE ccAttempt

\* clear(): everything but the attempt counter, which counts the rewinds.
ClearReader ==
    /\ ccAttempt' = NextAttempt
    /\ ccCleared' = TRUE
    /\ ccReader' = ReaderCleared
    /\ ccResponse' = NoMessage
    /\ ccStatus' = "Streaming"

BeginAttempt ==
    /\ ccEnd # "streaming"
    /\ ccBegun < MaxAttempts
    /\ ClearReader
    /\ ccPlan' \in {ccPlan, NoCalls}
    /\ ccWire' = NothingSent(ccPlan')
    /\ ccEnd' = "streaming"
    /\ ccFault' = ""
    /\ ccBegun' = ccBegun + 1
    /\ UNCHANGED ccStrict

-----------------------------------------------------------------------------
(* Chunks.  _accumulate adds the fragments of choice 0 to their slots.      *)

KeepReply == UNCHANGED <<ccStatus, ccResponse, ccEnd, ccFault, ccAttempt,
                         ccCleared, ccBegun, ccStrict, ccPlan>>

Blank == [id |-> "", name |-> "", arguments |-> 0]
CallState(i) == IF i \in DOMAIN ccReader.calls THEN ccReader.calls[i] ELSE Blank
WithCall(i, call) ==
    [ccReader EXCEPT !.calls = [k \in DOMAIN @ \cup {i} |->
                                    IF k = i THEN call ELSE @[k]]]

\* The effect of fragment n of call i: id and name are appended (each is sent
\* whole here), argument fragments accumulate in order.
Fragment(i, n) ==
    CASE n = 0 -> [CallState(i) EXCEPT !.id = ccPlan[i].id]
      [] n = 1 -> [CallState(i) EXCEPT !.name = ccPlan[i].name]
      [] OTHER -> [CallState(i) EXCEPT !.arguments = @ + 1]

CallChunk(i) ==
    /\ ccEnd = "streaming"
    /\ ccWire.calls[i] < Fragments
    /\ ccReader' = WithCall(i, Fragment(i, ccWire.calls[i]))
    /\ ccWire' = [ccWire EXCEPT !.calls[i] = @ + 1]
    /\ KeepReply

ContentChunk ==
    /\ ccEnd = "streaming"
    /\ ccWire.content = 0
    /\ ccReader' = [ccReader EXCEPT !.content = @ + 1]
    /\ ccWire' = [ccWire EXCEPT !.content = 1]
    /\ KeepReply

FinishKept(reason) == IF reason # "" THEN reason ELSE ccReader.finish

\* The chunk that carries finish_reason; a usage-only chunk has none and follows.
FinishChunk ==
    /\ ccEnd = "streaming"
    /\ \E reason \in FinishReasons :
          ccReader' = [ccReader EXCEPT !.finish = FinishKept(reason)]
    /\ UNCHANGED ccWire /\ KeepReply

-----------------------------------------------------------------------------
(* The end of a stream: _assemble and its validation.                       *)

Fails(reason) ==
    /\ ccStatus' = "Failed"
    /\ ccFault' = reason
    /\ ccEnd' = "ended"
    /\ UNCHANGED ccResponse

\* A plausible slip: only the presence of an id is checked.
MutantAssemblyValid == \A i \in DOMAIN ccReader.calls : ccReader.calls[i].id # ""

AssemblyValid ==
    /\ \A i \in DOMAIN ccReader.calls :
          ccReader.calls[i].id # "" /\ ccReader.calls[i].name # ""
    /\ \A i, j \in DOMAIN ccReader.calls :
          i # j => ccReader.calls[i].id # ccReader.calls[j].id

\* Unsuccessful terminals keep their status and the partial assembly.
Publish(status, reader) ==
    /\ ccStatus' = status
    /\ ccEnd' = "ended"
    /\ ccResponse' = [content |-> reader.content, calls |-> reader.calls,
                      finish |-> reader.finish, error |-> reader.error,
                      published |-> TRUE]
    /\ UNCHANGED ccFault

DoneStatus(finish) ==
    CASE finish = "length" -> "LengthLimited"
      [] finish = "content_filter" -> "ContentFiltered"
      [] finish \in {"stop", "tool_calls", "function_call"} -> "Completed"
      [] OTHER -> "Failed"

KeepStream == UNCHANGED <<ccPlan, ccWire, ccAttempt, ccCleared, ccBegun, ccStrict>>

\* "[DONE]"
DoneFrame ==
    /\ ccEnd = "streaming"
    /\ IF DoneStatus(ccReader.finish) = "Completed" /\ ~AssemblyValid
       THEN Fails("assembly")
       ELSE Publish(DoneStatus(ccReader.finish), ccReader)
    /\ UNCHANGED ccReader /\ KeepStream

\* A chunk with an error object.
ErrorChunk ==
    /\ ccEnd = "streaming"
    /\ ccReader' = [ccReader EXCEPT !.error = TRUE]
    /\ Publish("Failed", ccReader')
    /\ KeepStream

\* The dialect rejects a chunk: a strict one fails the stream on the consumer
\* side, a lenient one drops the chunk.
RejectedChunk ==
    /\ ccEnd = "streaming"
    /\ ccStrict
    /\ Fails("protocol")
    /\ UNCHANGED ccReader /\ KeepStream

\* The connection ends without "[DONE]": nothing is assembled.
StreamCut ==
    /\ ccEnd = "streaming"
    /\ ccEnd' = "ended"
    /\ UNCHANGED <<ccReader, ccStatus, ccResponse, ccFault>> /\ KeepStream

CcStatus == IF ccStatus = "Streaming" /\ ccEnd = "ended" THEN "Aborted" ELSE ccStatus

CcNext ==
    \/ BeginAttempt
    \/ \E i \in DOMAIN ccPlan : CallChunk(i)
    \/ ContentChunk \/ FinishChunk \/ DoneFrame \/ ErrorChunk \/ RejectedChunk
    \/ StreamCut

CcSpec == CcInit /\ [][CcNext]_ccVars

-----------------------------------------------------------------------------
(* Properties *)

Begun == {i \in DOMAIN ccPlan : ccWire.calls[i] > 0}

\* A message reported Completed holds exactly the calls of this attempt, each
\* under its own index with its id, its name and as many argument fragments as
\* were sent, with distinct non-empty ids: whatever the interleaving of indices,
\* and whatever an earlier attempt on the same reader left behind.
CompletedCallsSound ==
    CcStatus = "Completed" =>
        /\ ccResponse.published
        /\ DOMAIN ccResponse.calls = Begun
        /\ \A i \in Begun :
              /\ ccResponse.calls[i].id = ccPlan[i].id /\ ccPlan[i].id # ""
              /\ ccResponse.calls[i].name = ccPlan[i].name /\ ccPlan[i].name # ""
              /\ ccResponse.calls[i].arguments = (IF ccWire.calls[i] > 2
                                                  THEN ccWire.calls[i] - 2 ELSE 0)
              /\ \A j \in Begun \ {i} : ccPlan[i].id # ccPlan[j].id

\* attempt() is 0 for the initial exchange and k for its k-th retry, which is
\* how an observer of increments tells a replay from a fresh read.
AttemptIsRetryNumber == ccEnd = "streaming" => ccAttempt = ccBegun - 1
=============================================================================
