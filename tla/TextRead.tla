------------------------------ MODULE TextRead ------------------------------
(***************************************************************************)
(* The streaming reads of src/textedit/src/stream_read.cpp: one scan of a  *)
(* file in pieces of any size, which carries an unfinished terminator from *)
(* piece to piece, reports rows to a sink, and renders what the sink kept  *)
(* within the output budget.  The reads of a text in memory                *)
(* (bounded_read.cpp, read.cpp) are the reference: what a read returns is  *)
(* not to depend on how the file arrived.                                  *)
(*                                                                         *)
(* A label of the output is as long as in the code for one-digit numbers   *)
(* and carries the numbers it shows.                                       *)
(***************************************************************************)
EXTENDS TextLines, FiniteSetsExt

CONSTANTS
    ReadBytes,      \* the bytes of the texts
    MaxText,        \* bound on the length of a text (below 10: one-digit labels)
    ReadBudgets     \* output budgets; the code takes up to SIZE_MAX

VARIABLES
    request,        \* the read that was asked for
    received,       \* bytes read from the file
    carry,          \* the end of the last window, undecided
    lineNo,         \* ScanTotals::lines - 1
    sink,           \* what the selection keeps
    reply           \* the result

readVars == <<request, received, carry, lineNo, sink, reply>>

LineFormats == {"plain", "index", "range"}
ByteFormats == {"bytes", "hex"}
Slack == 3
NoReply == [none |-> TRUE]
OutOfRange == [outOfRange |-> TRUE]

Least(a, b) == Min({a, b})
Missing == -1   \* an std::optional without a value

(***************************************************************************)
(* The sinks.  All keep what they need in one record.                      *)
(***************************************************************************)
\* What a selection retains: the budget, and the rest of the last scalar.
Cap(r) ==
    CASE r.format = "hex" -> r.budget \div 4 + Slack
      [] r.format \in {"plain", "bytes"} -> r.budget + Slack
      [] OTHER -> r.budget

NewSink ==
    [bytes |-> <<>>, start |-> Missing, end |-> Missing, rows |-> <<>>, selected |-> FALSE,
     length |-> 0, clipped |-> FALSE, clip |-> [length |-> 0, terminator |-> 0], recorded |-> FALSE,
     stored |-> 0]

BeginRow(k, line, start) ==
    LET r == request
        opened == IF line = r.first THEN [k EXCEPT !.start = start] ELSE k
        ended == /\ opened.start # Missing /\ opened.end = Missing
                 /\ line >= r.first /\ line - r.first = r.count
    IN  IF r.format \in ByteFormats THEN k
        ELSE [opened EXCEPT !.end = IF ended THEN start ELSE @,
                            !.selected = line >= r.first /\ line - r.first < r.count,
                            !.length = 0]

\* PlainSelectionSink::keep().
KeepPlain(k, piece) ==
    IF k.start = Missing \/ k.end # Missing THEN k
    ELSE [k EXCEPT !.bytes = @ \o Sub(piece, 0, Least(Cap(request) - Len(@), Len(piece)))]

\* ByteSelectionSink::keep().
KeepBytes(k, offset, piece) ==
    LET skip == IF offset <= request.first THEN request.first - offset ELSE 0
        position == IF offset <= request.first THEN 0 ELSE offset - request.first
        take == Least(Len(piece) - skip, request.count - position)
        room == Cap(request) - Len(k.bytes)
    IN  IF skip >= Len(piece) \/ position >= request.count THEN k
        ELSE [k EXCEPT !.bytes = @ \o Sub(piece, skip, Least(take, room))]

\* RowSelectionSink::content(): a row is cut at the cap and its length goes on.
KeepRow(k, piece) ==
    LET take == Least(Cap(request) - k.stored, Len(piece))
    IN  IF ~k.selected \/ k.recorded THEN k
        ELSE IF k.clipped THEN [k EXCEPT !.length = @ + Len(piece)]
        ELSE [k EXCEPT !.length = @ + Len(piece), !.bytes = @ \o Sub(piece, 0, take),
                       !.stored = @ + take, !.clipped = take # Len(piece)]

\* RowSelectionSink::terminator() and the last row in finish(): a stored row also
\* costs its separator.
EndRow(k, width) ==
    LET kept == [k EXCEPT !.rows = Append(@, [content |-> k.bytes, terminator |-> width]),
                          !.bytes = <<>>, !.stored = @ + 1]
        cut == [k EXCEPT !.clipped = TRUE, !.recorded = TRUE,
                         !.clip = [length |-> k.length, terminator |-> width]]
        settled == CASE ~k.selected \/ k.recorded -> k
                     [] k.selected /\ ~k.recorded /\ ~k.clipped /\ k.stored < Cap(request) -> kept
                     [] OTHER -> cut
    IN  [settled EXCEPT !.selected = FALSE, !.length = 0]

Content(k, offset, piece) ==
    CASE request.format \in ByteFormats -> KeepBytes(k, offset, piece)
      [] request.format = "plain" -> KeepPlain(k, piece)
      [] OTHER -> KeepRow(k, piece)

Terminator(k, offset, piece) ==
    CASE request.format \in ByteFormats -> KeepBytes(k, offset, piece)
      [] request.format = "plain" -> KeepPlain(k, piece)
      [] OTHER -> EndRow(k, Len(piece))

FinishSink(k, total) ==
    LET last == IF request.format \in {"index", "range"} THEN EndRow(k, 0) ELSE k
    IN  [last EXCEPT !.start = IF @ = Missing THEN total ELSE @,
                     !.end = IF @ = Missing \/ k.start = Missing THEN total ELSE @]

(***************************************************************************)
(* scan_file().                                                            *)
(***************************************************************************)
\* One window: [sink, line, carry].  base is the offset of the window in the file.
RECURSIVE ScanWindow(_, _, _, _, _, _)
ScanWindow(w, base, scanned, at, k, line) ==
    LET flushed == IF at > scanned
                   THEN Content(k, base + scanned, Sub(w, scanned, at - scanned)) ELSE k
        probe == ProbeBreak(w, at)
        next == at + probe.width
    IN  IF at >= Len(w) \/ probe.incomplete
        THEN [sink |-> flushed, line |-> line, carry |-> From(w, at)]
        ELSE IF probe.width = 0 THEN ScanWindow(w, base, scanned, at + 1, k, line)
        ELSE ScanWindow(w, base, next, next,
                        BeginRow(Terminator(flushed, base + at, Sub(w, at, probe.width)),
                                 line + 1, base + next),
                        line + 1)

\* Mutant of ScanChunk: the carried bytes are not part of the next window.
MutantScanChunk(n) ==
    LET text == request.text
        scan == ScanWindow(Sub(text, received, n), received, 0, 0, sink, lineNo)
    IN  /\ received + n <= Len(text)
        /\ received' = received + n
        /\ sink' = scan.sink
        /\ lineNo' = scan.line
        /\ carry' = scan.carry
        /\ UNCHANGED <<request, reply>>

\* One read of the file, n bytes.
ScanChunk(n) ==
    LET text == request.text
        w == carry \o Sub(text, received, n)
        scan == ScanWindow(w, received - Len(carry), 0, 0, sink, lineNo)
    IN  /\ received + n <= Len(text)
        /\ received' = received + n
        /\ sink' = scan.sink
        /\ lineNo' = scan.line
        /\ carry' = scan.carry
        /\ UNCHANGED <<request, reply>>

\* What end of file makes of the carried bytes: a lone CR is a terminator, an
\* unfinished sequence is content.
AtEnd ==
    LET base == received - Len(carry)
        width == LineBreakWidth(carry, 0)
    IN  CASE carry = <<>> -> [sink |-> sink, line |-> lineNo]
          [] carry # <<>> /\ width # 0 ->
                [sink |-> BeginRow(Terminator(sink, base, Sub(carry, 0, width)), lineNo + 1,
                                   base + width),
                 line |-> lineNo + 1]
          [] OTHER -> [sink |-> Content(sink, base, carry), line |-> lineNo]

(***************************************************************************)
(* Rendering.                                                              *)
(***************************************************************************)
\* The gutter of a row, as long as its digits and its frame.
Label(format, line, from, to) ==
    IF format = "index" THEN [i \in 1..4 |-> <<"line", line>>]
    ELSE [i \in 1..8 |-> <<"range", from, to>>]

\* render_row() over the stored rows and the clipped one, as one pass that stops
\* once the writer is full.
RECURSIVE RenderRows(_, _, _, _, _)
RenderRows(w, rows, row, offset, k) ==
    LET isClip == row > Len(rows)
        shown == IF isClip THEN k.bytes ELSE rows[row].content
        length == IF isClip THEN k.clip.length ELSE Len(shown)
        terminator == IF isClip THEN k.clip.terminator ELSE rows[row].terminator
        broken == IF row = 1 THEN w ELSE Written(w, <<"LF">>)
        labelled == Written(broken, Label(request.format, request.first + row - 1, offset,
                                          offset + length + terminator))
        full == Written(labelled, shown)
    IN  CASE isClip /\ ~k.clipped -> w
          [] broken.truncated -> broken
          [] ~broken.truncated /\ labelled.truncated -> labelled
          [] ~labelled.truncated /\ ~broken.truncated /\ isClip -> [full EXCEPT !.truncated = TRUE]
          [] OTHER -> IF full.truncated THEN full
                      ELSE RenderRows(full, rows, row + 1, offset + length + terminator, k)

Reply(w, total, lines, start, end) ==
    [totalBytes |-> total, totalLines |-> lines, start |-> start, end |-> end,
     atEnd |-> end = total, text |-> w.out, truncated |-> w.truncated, replaced |-> w.replaced]

LinesReply(k, lines) ==
    LET r == request
        read == Least(r.count, lines - r.first)
        w == NewWriter(r.budget)
        shown == CASE r.format = "plain" -> Written(w, k.bytes)
                   [] r.format # "plain" /\ read = 0 -> w
                   [] OTHER -> RenderRows(w, k.rows, 1, k.start, k)
    IN  IF r.first > lines THEN OutOfRange
        ELSE Reply(shown, received, lines, k.start, k.end) @@
             [read |-> read, lastLine |-> r.first + read = lines]

BytesReply(k, lines) ==
    LET r == request
        wanted == Least(r.count, received - r.first)
        w == IF r.format = "hex" THEN HexWritten(NewWriter(r.budget), k.bytes)
             ELSE Written(NewWriter(r.budget), k.bytes)
        marked == [w EXCEPT !.truncated = @ \/ Len(k.bytes) < wanted]
    IN  IF r.first > received THEN OutOfRange
        ELSE Reply(marked, received, lines, r.first, r.first + wanted)

\* read_lines_stream() and read_bytes_stream() after the scan.
Answer ==
    /\ reply = NoReply
    /\ received = Len(request.text)
    /\ LET end == AtEnd
           k == FinishSink(end.sink, received)
           lines == end.line + 1
       IN  reply' = IF request.format \in ByteFormats THEN BytesReply(k, lines)
                    ELSE LinesReply(k, lines)
    /\ UNCHANGED <<request, received, carry, lineNo, sink>>

Requests(texts) ==
    [text : texts, format : LineFormats \cup ByteFormats, first : 0..2, count : 0..2,
     budget : ReadBudgets]

ReadInit ==
    /\ request \in Requests(UNION {[1..n -> ReadBytes] : n \in 0..MaxText})
    /\ received = 0
    /\ carry = <<>>
    /\ lineNo = 0
    /\ sink = BeginRow(NewSink, 0, 0)
    /\ reply = NoReply

ReadNext ==
    \/ reply = NoReply /\ \E n \in 1..MaxText : ScanChunk(n)
    \/ Answer

(***************************************************************************)
(* The reads of a text in memory.                                          *)
(***************************************************************************)
RECURSIVE ShownLines(_, _, _, _, _, _)
ShownLines(w, s, format, line, end, offset) ==
    LET stop == FindLineEnd(s, offset)
        broken == IF line = request.first THEN w ELSE Written(w, <<"LF">>)
        labelled == Written(broken, Label(format, line, offset, stop.next))
        full == Written(labelled, Sub(s, offset, stop.content - offset))
    IN  CASE line >= end -> w
          [] line < end /\ broken.truncated -> broken
          [] line < end /\ ~broken.truncated /\ labelled.truncated -> labelled
          [] OTHER -> IF full.truncated THEN full
                      ELSE ShownLines(full, s, format, line + 1, end, stop.next)

\* read_lines_bounded().
ReadLinesBounded(r) ==
    LET s == r.text
        lines == CountLines(s)
        read == Least(r.count, lines - r.first)
        start == LineStartAt(s, r.first)
        end == LineStartAt(s, r.first + read)
        w == NewWriter(r.budget)
        shown == CASE read = 0 -> w
                   [] read # 0 /\ r.format = "plain" -> Written(w, Sub(s, start, end - start))
                   [] OTHER -> ShownLines(w, s, r.format, r.first, r.first + read, start)
    IN  IF r.first > lines THEN OutOfRange
        ELSE Reply(shown, Len(s), lines, start, end) @@
             [read |-> read, lastLine |-> r.first + read = lines]

\* read_bytes_bounded().
ReadBytesBounded(r) ==
    LET s == r.text
        wanted == Least(r.count, Len(s) - r.first)
        w == IF r.format = "hex" THEN HexWritten(NewWriter(r.budget), Sub(s, r.first, wanted))
             ELSE Written(NewWriter(r.budget), Sub(s, r.first, wanted))
    IN  IF r.first > Len(s) THEN OutOfRange
        ELSE Reply(w, Len(s), CountLines(s), r.first, r.first + wanted)

\* A streamed read returns what the read of the same text in memory does: rows,
\* offsets, labels, repaired characters and the truncation mark, wherever the reads
\* of the file cut lines, terminators and characters, and whatever the sink could
\* not keep (scan_file(), the sinks, read_lines_stream(), read_bytes_stream()).
StreamReadsAgree ==
    reply # NoReply =>
        reply = IF request.format \in ByteFormats THEN ReadBytesBounded(request)
                ELSE ReadLinesBounded(request)
=============================================================================
