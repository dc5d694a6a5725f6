----------------------------- MODULE EditPreview -----------------------------
(***************************************************************************)
(* The preview of a streaming edit                                         *)
(* (src/textedit/src/stream_edit_preview.hpp, stream_edit_scan.hpp,        *)
(* rows.hpp).  The verification pass reports the source in pieces of any   *)
(* size; two row trackers follow the text before and after the edit as     *)
(* continuous streams and keep bounded rows around the change.  The edit   *)
(* of a text in memory (edit.cpp) renders the same excerpt from the whole  *)
(* text and is the reference.  The limits of the code are constants here,  *)
(* small enough for every one to bite.                                     *)
(***************************************************************************)
EXTENDS TextLines, FiniteSetsExt

CONSTANTS
    PreviewBytes,   \* the bytes of the texts
    MaxPreview,     \* bound on the length of a text
    PreviewNews,    \* new_text
    ContextMax,     \* kMaxContextLines, 20
    ShownHalf,      \* kMaxShownLines / 2, 24
    DisplayBytes,   \* kMaxLineDisplayBytes, 512
    FocusBack,      \* bytes shown before the focus, 128
    ScalarSlack     \* room for a whole scalar, 4

\* A deletion has no last changed byte, and the rows after it are kept among the
\* first of the span: 20 rows of context fit in 24.
ASSUME PreviewLimits == ContextMax < ShownHalf

VARIABLES
    change,         \* the edit: text, match, old, new, context
    reported,       \* source bytes reported so far
    sides,          \* the tracked source and the tracked result
    suffixHead,     \* the first bytes after the span
    preview         \* the rendered preview

previewVars == <<change, reported, sides, suffixHead, preview>>

RowWindow == DisplayBytes + ScalarSlack
FocusTail == FocusBack + ScalarSlack
SuffixCapture == RowWindow + ScalarSlack
NoStop == 99
NoPreview == [none |-> TRUE]

Lesser(a, b) == IF a < b THEN a ELSE b
Greater(a, b) == IF a > b THEN a ELSE b
Chopped(s, n) == SubSeq(s, 1, Lesser(n, Len(s)))
LastOf(s, n) == SubSeq(s, Greater(1, Len(s) - n + 1), Len(s))

(***************************************************************************)
(* RowTracker inside PreviewSide.                                          *)
(***************************************************************************)
NewSide(middle, match) ==
    [offset |-> 0, start |-> 0, line |-> 0, length |-> 0, pending |-> 0, head |-> <<>>,
     tail |-> <<>>, carry |-> <<>>,
     before |-> <<>>, first |-> <<>>, last |-> <<>>, after |-> <<>>,
     middle |-> middle, spanFed |-> FALSE, located |-> FALSE, position |-> [line |-> 0],
     nextStop |-> match, lastStop |-> IF middle = <<>> THEN NoStop ELSE match + Len(middle) - 1,
     lastChanged |-> 0, lastTaken |-> FALSE]

\* Collector: the rows kept are the last before the match, the first and the last of
\* the changed span, and the first after it.
Completed(s) ==
    LET row == [line |-> s.line, start |-> s.start, length |-> s.length, head |-> s.head,
                from |-> 0, window |-> <<>>]
    IN  CASE ~s.located -> [s EXCEPT !.before = LastOf(Append(@, row), ContextMax)]
          [] s.located /\ s.lastTaken /\ s.line > s.lastChanged ->
                [s EXCEPT !.after = Chopped(Append(@, row), ContextMax)]
          [] s.located /\ ~(s.lastTaken /\ s.line > s.lastChanged) /\ Len(s.first) < ShownHalf ->
                [s EXCEPT !.first = Append(@, row)]
          [] OTHER -> [s EXCEPT !.last = LastOf(Append(@, row), ShownHalf)]

\* complete_row().
CompleteRow(s) ==
    [Completed(s) EXCEPT !.line = @ + 1, !.start = s.offset + 1, !.length = 0, !.head = <<>>,
                         !.tail = <<>>]

\* push() and push_final(): a row ends with the last byte of its terminator.
Push(s, byte, width) ==
    LET content == s.pending = 0 /\ width = 0
        left == IF s.pending = 0 THEN width ELSE s.pending
        grown == IF ~content THEN s
                 ELSE [s EXCEPT !.length = @ + 1, !.head = Chopped(Append(@, byte), RowWindow),
                                !.tail = LastOf(Append(@, byte), FocusTail)]
        ended == IF left = 1 THEN CompleteRow(grown) ELSE grown
    IN  [ended EXCEPT !.pending = IF left > 0 THEN left - 1 ELSE 0, !.offset = @ + 1]

\* feed_until(): two bytes of lookahead stay in the carry.
RECURSIVE FeedUntil(_, _, _)
FeedUntil(s, w, at) ==
    IF at < Len(w) - 2 /\ s.offset < s.nextStop
    THEN FeedUntil(Push(s, w[at + 1], IF s.pending = 0 THEN ProbeBreak(w, at).width ELSE 0), w, at + 1)
    ELSE [s EXCEPT !.carry = From(w, at)]

\* Mutant of FinishUntil: the end of the file is treated like the middle, where an
\* unfinished terminator is undecided.
RECURSIVE MutantFinishUntil(_)
MutantFinishUntil(s) ==
    IF s.carry # <<>> /\ s.offset < s.nextStop
    THEN MutantFinishUntil([Push(s, s.carry[1],
                                 IF s.pending = 0 THEN ProbeBreak(s.carry, 0).width ELSE 0)
                            EXCEPT !.carry = Tail(@)])
    ELSE s

\* finish_until(): at the end a lone CR is a terminator.
RECURSIVE FinishUntil(_)
FinishUntil(s) ==
    IF s.carry # <<>> /\ s.offset < s.nextStop
    THEN FinishUntil([Push(s, s.carry[1],
                           IF s.pending = 0 THEN LineBreakWidth(s.carry, 0) ELSE 0)
                      EXCEPT !.carry = Tail(@)])
    ELSE s

\* advance(): the snapshot at the match, then the line of the last changed byte.
Advance(s) ==
    IF ~s.located
    THEN [s EXCEPT !.located = TRUE, !.nextStop = s.lastStop,
                   !.position = [line |-> s.line, start |-> s.start, length |-> s.length,
                                 tail |-> s.tail]]
    ELSE [s EXCEPT !.nextStop = NoStop, !.lastTaken = @ \/ s.lastStop # NoStop,
                   !.lastChanged = IF ~s.lastTaken /\ s.lastStop # NoStop THEN s.line ELSE @]

\* start().
Started(middle, match) ==
    IF match = 0 THEN Advance(NewSide(middle, match)) ELSE NewSide(middle, match)

\* PreviewSide::feed().
RECURSIVE FeedSide(_, _)
FeedSide(s, bytes) ==
    LET fed == FeedUntil(s, s.carry \o bytes, 0)
    IN  IF fed.nextStop = NoStop \/ fed.offset # fed.nextStop THEN fed ELSE FeedSide(Advance(fed), <<>>)

\* PreviewSide::finish(): the last row ends with the text.
RECURSIVE FinishSide(_)
FinishSide(s) ==
    LET near == IF s.nextStop # NoStop /\ s.offset < s.nextStop THEN FinishUntil(s) ELSE s
    IN  IF near.nextStop # NoStop /\ near.offset = near.nextStop THEN FinishSide(Advance(near))
        ELSE Completed(FinishUntil([near EXCEPT !.nextStop = NoStop]))

(***************************************************************************)
(* PreviewCapture.                                                         *)
(***************************************************************************)
FeedBoth(pair, bytes) == [side \in DOMAIN pair |-> FeedSide(pair[side], bytes)]

\* begin_span(): the span and its replacement are in memory.
BeginSpan(pair) ==
    [side \in DOMAIN pair |->
        IF pair[side].spanFed THEN pair[side]
        ELSE [FeedSide(pair[side], pair[side].middle) EXCEPT !.spanFed = TRUE]]

\* observe(): the bytes of the span are left out of a piece that holds them.
Observe(n) ==
    LET c == change
        end == c.match + Len(c.old)
        bytes == Sub(c.text, reported, n)
        take == IF reported < c.match THEN Lesser(n, c.match - reported) ELSE 0
        ahead == IF take > 0 THEN FeedBoth(sides, Sub(bytes, 0, take)) ELSE sides
        used == take + (IF reported + take < end THEN Lesser(end - (reported + take), n - take) ELSE 0)
        tail == From(bytes, used)
        room == SuffixCapture - Len(suffixHead)
    IN  /\ preview = NoPreview
        /\ reported + n <= Len(c.text)
        /\ sides' = IF used >= n THEN ahead ELSE FeedBoth(BeginSpan(ahead), tail)
        /\ suffixHead' = IF used >= n THEN suffixHead ELSE suffixHead \o Chopped(tail, room)
        /\ reported' = reported + n
        /\ UNCHANGED <<change, preview>>

\* verify_against_source() does not report the span.
SkipSpan ==
    /\ change.old # change.new
    /\ reported = change.match
    /\ reported' = reported + Len(change.old)
    /\ UNCHANGED <<change, sides, suffixHead, preview>>

\* focus_window_start().
FocusStart(length, column) ==
    IF length > DisplayBytes /\ column > FocusBack THEN column - FocusBack ELSE 0

\* A piece of a row that lies at an offset, cut to [from, end).
Clip(piece, offset, from, end) ==
    LET begin == Greater(from, offset)
        stop == Lesser(end, offset + Len(piece))
    IN  IF begin < stop THEN Sub(piece, begin - offset, stop - begin) ELSE <<>>

\* window_of(): the row's tail held at the match, the span, and what came after it.
WindowOf(s, row, from) ==
    LET match == change.match
        end == Lesser(row.length, from + RowWindow)
        inside == row.start < match
        held == IF inside THEN Lesser(s.position.length, Len(s.position.tail)) ELSE 0
        middleFrom == IF inside THEN 0 ELSE row.start - match
        middleAt == IF inside THEN s.position.length ELSE 0
    IN  Clip(LastOf(s.position.tail, held), s.position.length - held, from, end) \o
        Clip(From(s.middle, Lesser(middleFrom, Len(s.middle))), middleAt, from, end) \o
        Clip(suffixHead,
             IF inside THEN middleAt + Len(s.middle) ELSE Len(s.middle) - middleFrom, from, end)

\* focus_windows(): the first and the last changed row get a window of their own.
Focused(s, row) ==
    LET lastByte == IF s.middle = <<>> THEN change.match ELSE change.match + Len(s.middle) - 1
        focus == CASE row.line = s.position.line -> change.match - row.start
                   [] row.line # s.position.line /\ row.line = s.lastChanged /\ lastByte >= row.start ->
                        lastByte - row.start
                   [] OTHER -> 0
        from == FocusStart(row.length, focus)
    IN  IF from = 0 THEN row ELSE [row EXCEPT !.from = from, !.window = WindowOf(s, row, from)]

\* range_for() and excerpt_range().
ExcerptRange(total, first, last, context) ==
    [first |-> IF first > context THEN first - context ELSE 0,
     last |-> last + Lesser(context, total - 1 - last), changedFirst |-> first, changedLast |-> last]

\* table() and merge_rows(): the captured rows, by line.
Table(s, last, context) ==
    LET first == s.position.line
        before == LastOf(SelectSeq(s.before, LAMBDA row : row.line < first), context)
        after == Chopped(SelectSeq(s.after, LAMBDA row : row.line > last), context)
        rows == s.first \o s.last \o before \o after
        lines == {rows[i].line : i \in DOMAIN rows}
    IN  [line \in lines |-> rows[Min({i \in DOMAIN rows : rows[i].line = line})]]

\* TableCursor::content(), and TextViewCursor's, whose rows have the whole text.
RowContent(row, from) ==
    IF "text" \in DOMAIN row THEN Chopped(From(row.text, from), RowWindow)
    ELSE CASE from = 0 -> row.head
           [] from # 0 /\ from = row.from -> row.window
           [] OTHER -> <<>>

\* append_line() and render_excerpt(): a row is its number, its marker, the bytes
\* skipped, the bytes shown and whether the line is clipped.
ShownRow(range, number, row, start, bytes) ==
    LET column == CASE number = range.changedFirst /\ start >= row.start -> start - row.start
                    [] /\ number # range.changedFirst /\ number = range.changedLast /\ bytes > 0
                       /\ start + bytes - 1 >= row.start -> start + bytes - 1 - row.start
                    [] OTHER -> 0
        from == FocusStart(row.length, column)
        w == Written(NewWriter(DisplayBytes), RowContent(row, from))
    IN  [number |-> number, changed |-> number \in range.changedFirst..range.changedLast,
         skipped |-> from, shown |-> w.out,
         clipped |-> w.truncated \/ from + w.consumed < row.length]

Excerpt(rows, range, start, bytes) ==
    LET omit == range.last - range.first + 1 > 2 * ShownHalf
        lines == IF omit THEN (range.first..range.first + ShownHalf - 1)
                              \cup (range.last - ShownHalf + 1..range.last)
                 ELSE range.first..range.last
        shown == {ShownRow(range, line, rows[line], start, bytes) : line \in lines}
    IN  IF lines \subseteq DOMAIN rows
        THEN [rows |-> shown, truncated |-> omit \/ \E row \in shown : row.clipped \/ row.skipped > 0]
        ELSE [missing |-> lines \ DOMAIN rows]

\* finish(), take() and the rendering of str_replace_file().
Side(s) ==
    LET last == IF s.lastTaken THEN s.lastChanged ELSE s.position.line
        settled == [s EXCEPT !.lastChanged = last]
        focused == [settled EXCEPT !.first = [i \in DOMAIN @ |-> Focused(settled, @[i])],
                                   !.last = [i \in DOMAIN @ |-> Focused(settled, @[i])]]
        range == ExcerptRange(s.line + 1, s.position.line, last, change.context)
    IN  [position |-> [line |-> s.position.line, column |-> change.match - s.position.start],
         range |-> range,
         excerpt |-> Excerpt(Table(focused, last, change.context), range,
                             change.match, Len(s.middle))]

Take ==
    /\ preview = NoPreview
    /\ reported = Len(change.text)
    /\ LET fed == BeginSpan(sides)
           ended == [side \in DOMAIN fed |-> FinishSide(fed[side])]
       IN  preview' = [side \in DOMAIN ended |-> Side(ended[side])]
    /\ UNCHANGED <<change, reported, sides, suffixHead>>

Texts == UNION {[1..n -> PreviewBytes] : n \in 1..MaxPreview}

PreviewInit ==
    /\ \E text \in Texts, news \in PreviewNews, context \in {0, ContextMax} :
          \E match \in 0..Len(text) - 1 : \E size \in 1..Len(text) - match :
             LET old == Sub(text, match, size)
                 new == IF news = <<"same">> THEN old ELSE news
             IN  /\ change = [text |-> text, match |-> match, old |-> old, new |-> new,
                              context |-> context]
                 /\ sides = [source |-> Started(old, match), edited |-> Started(new, match)]
    /\ reported = 0
    /\ suffixHead = <<>>
    /\ preview = NoPreview

PreviewNext ==
    \/ \E n \in 1..MaxPreview :
          /\ \/ change.old = change.new
             \/ reported + n <= change.match
             \/ reported >= change.match + Len(change.old)
          /\ Observe(n)
    \/ SkipSpan
    \/ Take

(***************************************************************************)
(* prepare_str_replace(): the excerpt of a text in memory.                 *)
(***************************************************************************)
\* TextViewCursor.
TextRows(s) ==
    [line \in 0..CountLines(s) - 1 |->
        LET start == LineStartAt(s, line)
            end == FindLineEnd(s, start).content
        IN  [start |-> start, length |-> end - start, text |-> Sub(s, start, end - start)]]

PreparedWhole(s, match, bytes, context) ==
    LET first == PositionOf(s, match).line
        last == IF bytes = 0 THEN first ELSE PositionOf(s, match + bytes - 1).line
        range == ExcerptRange(CountLines(s), first, last, context)
    IN  [position |-> PositionOf(s, match), range |-> range,
         excerpt |-> Excerpt(TextRows(s), range, match, bytes)]

\* The preview of a streaming edit is the one an edit of the text in memory shows:
\* positions, ranges, the rows with their focus windows and the truncation mark, for
\* a terminator across the edge of the span, rows longer than any buffer and
\* reads cut anywhere (PreviewCapture, RowTracker, "this in-memory variant is the
\* reference for str_replace_file's previews").
PreviewsAgree ==
    LET c == change
        after == Sub(c.text, 0, c.match) \o c.new \o From(c.text, c.match + Len(c.old))
    IN  preview # NoPreview =>
            /\ preview.source = PreparedWhole(c.text, c.match, Len(c.old), c.context)
            /\ preview.edited = PreparedWhole(after, c.match, Len(c.new), c.context)
=============================================================================
