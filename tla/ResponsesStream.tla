-------------------------- MODULE ResponsesStream --------------------------
(***************************************************************************)
(* llm::responses: ResponsesStreamHandler::_handle_message decodes one SSE *)
(* event of a Responses-API stream, ResponsesReader folds it into per-item *)
(* slots and assembles the slots into one message at the terminal event    *)
(* (src/llm/compat/responses/src/stream_handler.cpp and reader.cpp).       *)
(*                                                                         *)
(* The environment is a server that streams up to MaxItems output items.   *)
(* An item's text is cut into content parts and increments; a token is     *)
(* <<item, part, n>>.  Servers differ in how an increment names its item   *)
(* (item_id, output_index, both or neither) and in which lifecycle events  *)
(* they send; events of different items interleave.  Placeholders, unknown *)
(* events, unparsable data and the queued, created and in_progress         *)
(* milestones change no slot, and are not steps of the model.              *)
(***************************************************************************)
EXTENDS Integers, Sequences, FiniteSets, SequencesExt, FiniteSetsExt

CONSTANTS
    MaxItems,       \* output items of one response
    ItemShapes,     \* the items a server produces: [type, chan, lens]
    Terminals       \* the terminal events it uses

TerminalNames == {"response.completed", "response.incomplete",
                  "response.failed", "response.cancelled", "error"}

ASSUME ResponsesBounds ==
    MaxItems \in Nat \ {0} /\ Terminals \subseteq TerminalNames

Chan == {"text", "refusal", "summary", "arguments"}
MaxParts == 2
Styles == {"both", "id", "index", "none"}
VARIABLES
    rrItems,      \* the items of this stream, with their naming style
    rrWire,       \* what the server has sent of each item
    rrSlots,      \* _items
    rrNext,       \* _next_arrival
    rrStatus,     \* _status
    rrResponse,   \* _response
    rrEnd         \* how the stream ended, as the server meant it

rrVars == <<rrItems, rrWire, rrSlots, rrNext, rrStatus, rrResponse,
            rrEnd>>

Unstamped == -1
EmptySlot == [type    |-> "", output |-> 0, arrival |-> Unstamped,
              parts   |-> [c \in Chan |-> [p \in 0 .. MaxParts - 1 |-> <<>>]],
              named   |-> FALSE,       \* call_id and name are known
              done    |-> FALSE]       \* done_item captured
NoResponse == [visible |-> <<>>, refusal |-> <<>>, thought |-> <<>>,
               calls |-> <<>>, items |-> 0]
NoEnd == [name |-> "", output |-> FALSE]
NoSlots == [k \in {} |-> EmptySlot]
Untouched == [added |-> FALSE, sent |-> 0, done |-> "no"]

ResponsesMessage == UNION {[1 .. n -> [shape : ItemShapes, style : Styles]] :
                               n \in 1 .. MaxItems}

RrInit ==
    /\ rrItems \in ResponsesMessage
    /\ rrWire = [i \in DOMAIN rrItems |-> Untouched]
    /\ rrSlots = NoSlots
    /\ rrNext = 0
    /\ rrStatus = "Streaming"
    /\ rrResponse = NoResponse
    /\ rrEnd = NoEnd

-----------------------------------------------------------------------------
(* What an item says: its parts and the increments that spell them.        *)

Lens(i) == rrItems[i].shape.lens
PartText(i, p) == [n \in 1 .. Lens(i)[p + 1] |-> <<i, p, n>>]
Spelled(i) == FoldLeft(LAMBDA acc, p : acc \o PartText(i, p - 1), <<>>,
                       [p \in DOMAIN Lens(i) |-> p])

-----------------------------------------------------------------------------
(* _item: the slot of an event that names item i by id, by output_index,   *)
(* by both or by neither.  An event with both folds the slot that only     *)
(* indexed increments have opened into the one keyed by the id.            *)

Names(style) == [id |-> style \in {"both", "id"},
                 index |-> style \in {"both", "index"}]
Lifecycle == [id |-> TRUE, index |-> TRUE]

OrphanKey(i) == <<"@output", i>>
SlotKey(i, name) == IF name.id THEN <<"id", i>>
                    ELSE IF name.index THEN OrphanKey(i) ELSE <<"@orphan", 0>>

SlotAt(slots, key) == IF key \in DOMAIN slots THEN slots[key] ELSE EmptySlot
WithSlot(slots, key, slot) ==
    [k \in DOMAIN slots \cup {key} |-> IF k = key THEN slot ELSE slots[k]]
WithoutSlot(slots, key) == [k \in DOMAIN slots \ {key} |-> slots[k]]

Stamped(slot, arrival) ==
    IF slot.arrival = Unstamped THEN [slot EXCEPT !.arrival = arrival] ELSE slot

\* A plausible slip: the increments of the orphan are kept under both keys.
MutantAdopted(slots, i) == slots

\* _adopt_orphan, after which the orphan is erased.
Adopted(slots, i) ==
    LET key    == <<"id", i>>
        slot   == SlotAt(slots, key)
        orphan == slots[OrphanKey(i)]
    IN  WithoutSlot(WithSlot(slots, key,
                [slot EXCEPT
                    !.parts = [c \in Chan |-> [p \in 0 .. MaxParts - 1 |->
                                   slot.parts[c][p] \o orphan.parts[c][p]]],
                    !.type = IF @ = "" THEN orphan.type ELSE @,
                    !.named = @ \/ orphan.named,
                    !.arrival = IF @ = Unstamped THEN orphan.arrival ELSE @]),
                OrphanKey(i))

\* The map after _item, which opens, adopts, stamps and places the slot it returns.
ItemOpened(state, i, name) ==
    LET key    == SlotKey(i, name)
        adopts == name.id /\ name.index /\ OrphanKey(i) \in DOMAIN state.slots
        base   == IF adopts THEN Adopted(state.slots, i) ELSE state.slots
        old    == SlotAt(base, key)
        slot   == Stamped(old, state.next)
        placed == IF ~adopts /\ name.index
                  THEN [slot EXCEPT !.output = i - 1] ELSE slot
    IN  [slots |-> WithSlot(base, key, placed),
         next  |-> IF old.arrival = Unstamped THEN state.next + 1 ELSE state.next]

\* The caller's update of that slot.
Touch(state, i, name, Update(_)) ==
    [ItemOpened(state, i, name) EXCEPT !.slots[SlotKey(i, name)] = Update(@)]

Reader == [slots |-> rrSlots, next |-> rrNext]
Store(state) == rrSlots' = state.slots /\ rrNext' = state.next

-----------------------------------------------------------------------------
(* _accumulate: increments append.                                         *)

Increment(slot, chan, p, token) == [slot EXCEPT !.parts[chan][p] = Append(@, token)]

\* _accumulate_marker: a part's `.done` payload is complete and overwrites its
\* own part only.
Overwrite(slot, i, p) ==
    [slot EXCEPT !.parts[rrItems[i].shape.chan][p] = PartText(i, p)]

\* _accumulate_output_item: the item's type, a call's identity, and every part
\* the payload carries; an absent field overwrites nothing.
ItemPayload(slot, i, full, authoritative) ==
    LET shape == rrItems[i].shape
        known == IF full
                 THEN [p \in 0 .. MaxParts - 1 |->
                          IF p < Len(Lens(i)) THEN PartText(i, p)
                          ELSE slot.parts[shape.chan][p]]
                 ELSE slot.parts[shape.chan]
    IN  [slot EXCEPT !.type = shape.type,
                     !.named = @ \/ shape.type = "function_call",
                     !.parts[shape.chan] = known,
                     !.done = @ \/ authoritative]

\* The response object's output array: every item, by its position.
Output(state) ==
    FoldLeft(LAMBDA acc, i : Touch(acc, i, Lifecycle,
                                   LAMBDA s : ItemPayload(s, i, TRUE, TRUE)),
             state, [i \in DOMAIN rrItems |-> i])

Open == rrEnd = NoEnd
UnchangedReader == UNCHANGED <<rrStatus, rrResponse>>

SendIncrement(i) ==
    /\ Open
    /\ rrWire[i].sent < Len(Spelled(i))
    /\ rrWire[i].done = "no"
    /\ LET token == Spelled(i)[rrWire[i].sent + 1]
       IN  Store(Touch(Reader, i, Names(rrItems[i].style),
                       LAMBDA s : Increment(s, rrItems[i].shape.chan, token[2], token)))
    /\ rrWire' = [rrWire EXCEPT ![i].sent = @ + 1]
    /\ UnchangedReader /\ UNCHANGED <<rrItems, rrEnd>>

\* response.*.done for the part being sent, or for the one just completed: the
\* increments still missing of that part are not sent any more.
SendPartDone(i) ==
    /\ Open
    /\ rrWire[i].done = "no"
    /\ \E p \in 0 .. Len(Lens(i)) - 1 :
          LET before == FoldLeft(LAMBDA acc, q : acc + Lens(i)[q], 0,
                                 [q \in 1 .. p |-> q])
          IN  /\ rrWire[i].sent \in before .. before + Lens(i)[p + 1]
              /\ rrWire' = [rrWire EXCEPT ![i].sent = before + Lens(i)[p + 1]]
              /\ Store(Touch(Reader, i, Names(rrItems[i].style),
                             LAMBDA s : Overwrite(s, i, p)))
    /\ UnchangedReader /\ UNCHANGED <<rrItems, rrEnd>>

\* response.output_item.added carries the item without its content.
SendItemAdded(i) ==
    /\ Open
    /\ ~rrWire[i].added /\ rrWire[i].done = "no"
    /\ Store(Touch(Reader, i, Lifecycle,
                   LAMBDA s : ItemPayload(s, i, FALSE, FALSE)))
    /\ rrWire' = [rrWire EXCEPT ![i].added = TRUE]
    /\ UnchangedReader /\ UNCHANGED <<rrItems, rrEnd>>

\* response.output_item.done, with the content or (a lean server) without it.
SendItemDone(i) ==
    /\ Open
    /\ rrWire[i].done = "no"
    /\ \E full \in BOOLEAN :
          /\ full \/ rrWire[i].sent = Len(Spelled(i))
          /\ Store(Touch(Reader, i, Lifecycle,
                         LAMBDA s : ItemPayload(s, i, full, TRUE)))
          /\ rrWire' = [rrWire EXCEPT ![i].done = IF full THEN "full" ELSE "lean"]
    /\ UnchangedReader /\ UNCHANGED <<rrItems, rrEnd>>

-----------------------------------------------------------------------------
(* _assemble                                                                *)

\* A plausible slip: the order in which the slots were opened.
MutantBefore(slots, a, b) == slots[a].arrival < slots[b].arrival

Before(slots, a, b) == \/ slots[a].output < slots[b].output
                       \/ /\ slots[a].output = slots[b].output
                          /\ slots[a].arrival < slots[b].arrival
OrderedItems(slots) ==
    SetToSortSeq(DOMAIN slots, LAMBDA a, b : Before(slots, a, b))

JoinedSummary(slot, chan) == slot.parts[chan][0] \o slot.parts[chan][1]

\* An untyped slot is routed by what it accumulated.
Routed(slot) ==
    CASE slot.type # "" -> slot.type
      [] slot.named \/ JoinedSummary(slot, "arguments") # <<>> -> "function_call"
      [] JoinedSummary(slot, "summary") # <<>> -> "reasoning"
      [] JoinedSummary(slot, "text") \o JoinedSummary(slot, "refusal") # <<>> -> "message"
      [] OTHER -> "nothing"

Assemble(slots) ==
    LET ordered == OrderedItems(slots)
        routed(kind) == SelectSeq(ordered, LAMBDA k : Routed(slots[k]) = kind)
        all(kind, chan) == FoldLeft(LAMBDA acc, k : acc \o JoinedSummary(slots[k], chan),
                                    <<>>, routed(kind))
        text    == all("message", "text")
        refusal == all("message", "refusal")
        spoken  == all("reasoning", "text")
    IN  [visible |-> IF text = <<>> THEN refusal ELSE text,
         refusal |-> IF text = <<>> THEN <<>> ELSE refusal,
         thought |-> IF spoken # <<>> THEN spoken ELSE all("reasoning", "summary"),
         calls   |-> [c \in DOMAIN routed("function_call") |->
                        LET s == slots[routed("function_call")[c]]
                        IN  [named |-> s.named, arguments |-> JoinedSummary(s, "arguments")]],
         items   |-> Cardinality({k \in DOMAIN slots : slots[k].done})]

StatusNamed(type) ==
    CASE type = "response.completed" -> "Completed"
      [] type = "response.incomplete" -> "Incomplete"
      [] type = "response.failed" -> "Failed"
      [] type = "response.cancelled" -> "Cancelled"
      [] type = "error" -> "Errored"

\* A terminal event.  With a response object its output array and its status
\* count; the terminal's own name decides only while no status is
\* known.
SendTerminal ==
    /\ Open
    /\ \E name \in Terminals, output, status \in BOOLEAN :
          /\ name = "error" => ~output /\ ~status
          /\ LET state == IF output THEN Output(Reader) ELSE Reader
             IN  /\ Store(state)
                 /\ rrStatus' = IF status \/ rrStatus = "Streaming"
                                THEN StatusNamed(name) ELSE rrStatus
                 /\ rrResponse' = Assemble(state.slots)
          /\ rrEnd' = [name |-> name, output |-> output]
    /\ UNCHANGED <<rrItems, rrWire>>

\* An `event:`-only frame names a terminal without any payload.
SendBareTerminal ==
    /\ Open
    /\ \E name \in Terminals :
          /\ rrStatus' = StatusNamed(name)
          /\ rrEnd' = [name |-> name, output |-> FALSE]
    /\ rrResponse' = Assemble(rrSlots)
    /\ UNCHANGED <<rrItems, rrWire, rrSlots, rrNext>>

\* The connection ends without a terminal event: nothing is assembled.
Truncated ==
    /\ Open
    /\ rrEnd' = [name |-> "aborted", output |-> FALSE]
    /\ UnchangedReader
    /\ UNCHANGED <<rrItems, rrWire, rrSlots, rrNext>>

\* status(): Aborted is reported, never stored.
Status == IF rrStatus = "Streaming" /\ rrEnd # NoEnd THEN "Aborted" ELSE rrStatus

\* A plausible slip: the status survives the reuse of the reader.
MutantReaderClear ==
    /\ rrSlots' = NoSlots
    /\ rrNext' = 0
    /\ rrResponse' = NoResponse
    /\ UNCHANGED rrStatus

\* clear(), and the retried request's stream.
ReaderClear ==
    /\ rrSlots' = NoSlots
    /\ rrNext' = 0
    /\ rrResponse' = NoResponse
    /\ rrStatus' = "Streaming"

NextStream ==
    /\ rrEnd # NoEnd
    /\ ReaderClear
    /\ rrWire' = [i \in DOMAIN rrItems |-> Untouched]
    /\ rrEnd' = NoEnd
    /\ UNCHANGED rrItems

RrNext ==
    \/ \E i \in DOMAIN rrItems :
          SendIncrement(i) \/ SendPartDone(i) \/ SendItemAdded(i) \/ SendItemDone(i)
    \/ SendTerminal \/ SendBareTerminal \/ Truncated
    \/ NextStream

RrSpec == RrInit /\ [][RrNext]_rrVars

-----------------------------------------------------------------------------
(* Properties *)

Assembled == rrEnd.name \in TerminalNames
Authoritative(i) == rrEnd.output \/ rrWire[i].done = "full"

\* The item's bytes reached one slot, whichever way they came.
Traceable(i) ==
    LET style == rrItems[i].style
    IN  \/ Authoritative(i) /\ style # "none"
        \/ style \in {"both", "id"}
        \/ /\ style = "index"
           /\ ~rrWire[i].added /\ rrWire[i].done = "no"

Of(i, tokens) == SelectSeq(tokens, LAMBDA t : t[1] = i)
CallsOf(i) == SelectSeq(rrResponse.calls, LAMBDA c : Of(i, c.arguments) # <<>>)
SentOf(i) == IF Authoritative(i) THEN Spelled(i)
             ELSE SubSeq(Spelled(i), 1, rrWire[i].sent)
Placed(i) ==
    CASE rrItems[i].shape.type = "message" ->
            Of(i, rrResponse.visible) \o Of(i, rrResponse.refusal)
      [] rrItems[i].shape.type = "reasoning" -> Of(i, rrResponse.thought)
      [] OTHER -> FoldLeft(LAMBDA acc, c : acc \o c.arguments, <<>>, CallsOf(i))

\* Whatever mixture of increments, part and item completions and a closing
\* output array a server sends, and however the items interleave, each item's
\* text is in the assembled message exactly once, complete as far as it was
\* sent, in the channel of the item's type, and a call's arguments in one call.
TextExactlyOnce ==
    Assembled => \A i \in DOMAIN rrItems :
        Traceable(i) => Placed(i) = SentOf(i) /\ Len(CallsOf(i)) <= 1

Positions(tokens) == [n \in DOMAIN tokens |-> tokens[n][1]]
CallItems == [c \in DOMAIN SelectSeq(rrResponse.calls, LAMBDA c : c.arguments # <<>>) |->
                SelectSeq(rrResponse.calls, LAMBDA d : d.arguments # <<>>)[c].arguments[1][1]]
AscendingKeys(s) == \A a, b \in DOMAIN s : a < b => s[a] <= s[b]
InWireOrder == AscendingKeys(Positions(rrResponse.visible)) /\ AscendingKeys(CallItems)

Indexed(i) == \/ rrItems[i].style = "both"
              \/ rrItems[i].style = "id" /\ (rrWire[i].added \/ rrWire[i].done # "no"
                                              \/ rrEnd.output)

\* Items whose increments carry their ids are assembled in the order of their
\* output indices, whatever order the events arrived in.
NamedItemsInOrder ==
    Assembled /\ (\A i \in DOMAIN rrItems : Indexed(i)) => InWireOrder

\* The status a caller reads is that of this stream's own terminal event, also
\* when a reader is reused after a failed attempt and when the terminal event
\* carries no response object.
StatusIsThisStreams ==
    rrEnd # NoEnd =>
        Status = IF rrEnd.name = "aborted" THEN "Aborted" ELSE StatusNamed(rrEnd.name)
=============================================================================
