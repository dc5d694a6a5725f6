----------------------------- MODULE SseFraming -----------------------------
(***************************************************************************)
(* The put side of endpoint::SSEResponseHandler                            *)
(* (src/endpoint/include/endpoint/request.hpp): a byte stream that arrives *)
(* in chunks cut anywhere is framed into lines, the lines into events, and *)
(* the consumed lines are trimmed to a rolling window while line numbers   *)
(* stay absolute.  A dropped connection is suspended and reset to a line   *)
(* checkpoint; clear() rewinds the handler for a fresh stream.             *)
(*                                                                         *)
(* A byte is one of the five characters that the framing tells apart.      *)
(***************************************************************************)
EXTENDS Integers, Sequences, FiniteSets, SequencesExt, FiniteSetsExt

CONSTANTS
    LineWindow,      \* _line_window: consumed lines kept behind the cursor
    MaxChunk,        \* bytes in one put()
    MaxBytes         \* bytes of all connections together

ASSUME SseBounds == LineWindow \in Nat /\ MaxChunk \in Nat \ {0} /\ MaxBytes \in Nat

NL == "nl"
CR == "cr"
Colon == ":"
Space == " "
Letter == "x"
Byte == {NL, CR, Colon, Space, Letter}

\* LineInfo: the field name and the value; a blank line is the empty name.
BlankLine == [field |-> <<>>, value |-> <<>>]

VARIABLES
    sseBuffer,       \* _buffer
    sseLines,        \* _lines
    sseNext,         \* _next_line, an absolute line number (from 0)
    sseBase,         \* _base, the absolute number of the first retained line
    sseState,        \* _state
    ssePublished,    \* events sent since the framing last started afresh
    sseBytes,        \* the bytes put() received since then
    sseHistory,      \* every line ever committed, by absolute number
    sseTotal         \* bytes received so far, over all connections

sseVars == <<sseBuffer, sseLines, sseNext, sseBase, sseState,
             ssePublished, sseBytes, sseHistory, sseTotal>>

SseInit ==
    /\ sseBuffer = <<>>
    /\ sseLines = <<>>
    /\ sseNext = 0
    /\ sseBase = 0
    /\ sseState = "RUNNING"
    /\ ssePublished = <<>>
    /\ sseBytes = <<>>
    /\ sseHistory = <<>>
    /\ sseTotal = 0

-----------------------------------------------------------------------------
(* _split_line: every terminated line leaves the buffer. *)

WithoutCR(line) ==
    IF line # <<>> /\ Last(line) = CR THEN Front(line) ELSE line

ColonAt(line) == CHOOSE i \in DOMAIN line :
                    line[i] = Colon /\ \A j \in 1 .. i - 1 : line[j] # Colon

\* Exactly one space after the colon is skipped; a line without a colon is
\* all name.
Field(line) ==
    IF \A i \in DOMAIN line : line[i] # Colon
    THEN [field |-> line, value |-> <<>>]
    ELSE LET rest == SubSeq(line, ColonAt(line) + 1, Len(line))
         IN  [field |-> SubSeq(line, 1, ColonAt(line) - 1),
              value |-> IF rest # <<>> /\ Head(rest) = Space THEN Tail(rest)
                                                             ELSE rest]

\* What one terminated line adds to _lines: a comment adds nothing.
Parsed(line) ==
    IF line = <<>> THEN <<BlankLine>>
    ELSE IF Head(line) = Colon THEN <<>>
    ELSE <<Field(line)>>

SplitLine(buffer) ==
    FoldLeft(LAMBDA acc, byte :
                IF byte = NL
                THEN [rest  |-> <<>>,
                      lines |-> acc.lines \o Parsed(WithoutCR(acc.rest))]
                ELSE [acc EXCEPT !.rest = Append(@, byte)],
             [rest |-> <<>>, lines |-> <<>>], buffer)

(* _next_message, repeated by put(): blank lines before an event are        *)
(* consumed as they are stepped over, an event is consumed with its         *)
(* delimiter, and an unterminated event stays behind the cursor.            *)
FirstFrom(lines, from, blank) ==
    LET hits == {i \in from .. Len(lines) : (lines[i] = BlankLine) = blank}
    IN  IF hits = {} THEN Len(lines) + 1 ELSE Min(hits)

\* A plausible slip: the blank lines stepped over are not committed.
MutantNextMessage(lines, cursor) ==
    LET first == FirstFrom(lines, cursor + 1, FALSE)
        last  == FirstFrom(lines, first, TRUE)
    IN  IF last > Len(lines)
        THEN [message |-> <<>>, cursor |-> cursor]
        ELSE [message |-> SubSeq(lines, first, last - 1), cursor |-> last]

NextMessage(lines, cursor) ==
    LET first == FirstFrom(lines, cursor + 1, FALSE)
        last  == FirstFrom(lines, first, TRUE)
    IN  IF last > Len(lines)
        THEN [message |-> <<>>, cursor |-> first - 1]
        ELSE [message |-> SubSeq(lines, first, last - 1), cursor |-> last]

Messages(lines, cursor) ==
    LET from[c \in 0 .. Len(lines)] ==
            LET step == NextMessage(lines, c)
            IN  IF step.message = <<>> THEN [out |-> <<>>, cursor |-> step.cursor]
                ELSE LET later == from[step.cursor]
                     IN  [out |-> <<step.message>> \o later.out, cursor |-> later.cursor]
    IN  from[cursor]

(* _trim: the number of lines dropped when `consumed` lie behind the cursor. *)
Trimmed(consumed) == IF consumed > LineWindow THEN consumed - LineWindow ELSE 0

-----------------------------------------------------------------------------
(* put(): frame the chunk and publish every completed event; trim last.  The *)
(* channel side of the publication is module ModelExchange's.                *)
Put(chunk) ==
    /\ sseState = "RUNNING"
    /\ LET split  == SplitLine(sseBuffer \o chunk)
           lines  == sseLines \o split.lines
           framed == Messages(lines, sseNext - sseBase)
           drop   == Trimmed(framed.cursor)
       IN  /\ sseBuffer' = split.rest
           /\ sseLines' = SubSeq(lines, drop + 1, Len(lines))
           /\ sseNext' = sseBase + framed.cursor
           /\ sseBase' = sseBase + drop
           /\ ssePublished' = ssePublished \o framed.out
           /\ sseHistory' = sseHistory \o split.lines
    /\ sseBytes' = sseBytes \o chunk
    /\ sseTotal' = sseTotal + Len(chunk)
    /\ UNCHANGED sseState

\* A decoder that throws on some event of the chunk: the events before it are
\* published, the handler is driven to ERROR and nothing is trimmed.
PutFault(chunk) ==
    /\ sseState = "RUNNING"
    /\ LET split  == SplitLine(sseBuffer \o chunk)
           lines  == sseLines \o split.lines
           framed == Messages(lines, sseNext - sseBase)
       IN  /\ framed.out # <<>>
           /\ sseBuffer' = split.rest
           /\ sseLines' = lines
           /\ sseNext' = sseBase + NextMessage(lines, sseNext - sseBase).cursor
           /\ sseHistory' = sseHistory \o split.lines
    /\ sseState' = "ERROR"
    /\ sseBytes' = sseBytes \o chunk
    /\ sseTotal' = sseTotal + Len(chunk)
    /\ UNCHANGED <<sseBase, ssePublished>>

\* suspend(RESUMABLE): put-side bookkeeping; the recommended restart line is
\* the cursor.
RestartIndex == sseNext
Suspend ==
    /\ sseState = "RUNNING"
    /\ sseState' = "RESUMABLE"
    /\ UNCHANGED <<sseBuffer, sseLines, sseNext, sseBase, ssePublished,
                   sseBytes, sseHistory, sseTotal>>

InWindow(index) == index >= sseBase /\ index <= sseBase + Len(sseLines)

\* A plausible slip: the unterminated line survives the reconnect.
MutantResetTo(index) ==
    /\ sseState = "RESUMABLE"
    /\ InWindow(index)
    /\ sseLines' = SubSeq(sseLines, 1, index - sseBase)
    /\ sseNext' = index
    /\ sseState' = "RUNNING"
    /\ ssePublished' = <<>>
    /\ sseBytes' = <<>>
    /\ sseHistory' = SubSeq(sseHistory, 1, index)
    /\ UNCHANGED <<sseBase, sseBuffer, sseTotal>>

\* reset(index): keep the lines before the checkpoint, drop the rest and the
\* partial line; an index outside the window throws and changes nothing.
ResetTo(index) ==
    /\ sseState = "RESUMABLE"
    /\ InWindow(index)
    /\ sseBuffer' = <<>>
    /\ sseLines' = SubSeq(sseLines, 1, index - sseBase)
    /\ sseNext' = index
    /\ sseState' = "RUNNING"
    /\ ssePublished' = <<>>
    /\ sseBytes' = <<>>
    /\ sseHistory' = SubSeq(sseHistory, 1, index)
    /\ UNCHANGED <<sseBase, sseTotal>>

\* clear(): the just-constructed state.
Clear ==
    /\ sseState \in {"ERROR", "RESUMABLE"}
    /\ sseBuffer' = <<>>
    /\ sseLines' = <<>>
    /\ sseNext' = 0
    /\ sseBase' = 0
    /\ sseState' = "RUNNING"
    /\ ssePublished' = <<>>
    /\ sseBytes' = <<>>
    /\ sseHistory' = <<>>
    /\ UNCHANGED sseTotal

Chunk == UNION {[1 .. n -> Byte] : n \in 1 .. MaxChunk}

SseNext ==
    \/ \E chunk \in Chunk :
         /\ sseTotal + Len(chunk) <= MaxBytes
         /\ Put(chunk) \/ PutFault(chunk)
    \/ Suspend
    \/ \E index \in {RestartIndex, sseBase} : ResetTo(index)
    \/ Clear

SseSpec == SseInit /\ [][SseNext]_sseVars

-----------------------------------------------------------------------------
(* The reference: what the event stream grammar makes of a whole text.      *)

LineEnds(text) == SetToSortSeq({i \in DOMAIN text : text[i] = NL}, <)

TextLinesOf(text) ==
    LET ends == LineEnds(text)
    IN  [k \in DOMAIN ends |->
            WithoutCR(SubSeq(text, IF k = 1 THEN 1 ELSE ends[k - 1] + 1, ends[k] - 1))]

\* The lines that are not comments, an event being a maximal run of
\* non-blank ones that a blank line ends.
EventsOf(text) ==
    LET kept == SelectSeq(TextLinesOf(text), LAMBDA l : l = <<>> \/ Head(l) # Colon)
        starts == {i \in DOMAIN kept :
                      /\ kept[i] # <<>>
                      /\ i = 1 \/ kept[i - 1] = <<>>
                      /\ \E j \in i .. Len(kept) : kept[j] = <<>>}
        event(i) == SubSeq(kept, i, Min({j \in i .. Len(kept) : kept[j] = <<>>}) - 1)
        order == SetToSortSeq(starts, <)
    IN  [k \in DOMAIN order |->
            [l \in DOMAIN event(order[k]) |-> Field(event(order[k])[l])]]

-----------------------------------------------------------------------------
(* Properties. *)

\* Wherever the network cuts the bytes into chunks, and after any reconnect
\* to a retained checkpoint, the handler publishes exactly the events of the
\* text it received since it last started afresh: no event of the old
\* connection's partial tail, none lost, none split (_split_line,
\* _next_message, reset).
EventsMatchText ==
    sseState \in {"RUNNING", "RESUMABLE"} => ssePublished = EventsOf(sseBytes)

\* An idle or long-lived stream keeps a bounded footprint: after every put()
\* at most the window is retained behind the cursor and no delimiter waits
\* ahead of it, while absolute line numbers still name the same lines
\* (_trim, _base).
WindowHolds ==
    /\ sseState = "RUNNING" =>
         /\ sseNext - sseBase <= LineWindow
         /\ \A i \in sseNext - sseBase + 1 .. Len(sseLines) : sseLines[i] # BlankLine
    /\ sseBase <= sseNext /\ sseNext <= sseBase + Len(sseLines)
    /\ \A i \in DOMAIN sseLines : sseLines[i] = sseHistory[sseBase + i]
=============================================================================
