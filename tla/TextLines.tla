------------------------------ MODULE TextLines ------------------------------
(***************************************************************************)
(* Logical lines and display text (src/textedit/src/line_break.hpp,        *)
(* line_index.cpp, display.hpp).  A text is a sequence of bytes; of the    *)
(* 256 byte values the alphabet keeps one of each kind that the code tells *)
(* apart: content, LF, CR, and the bytes of the UTF-8 line terminators     *)
(* C2 85 and E2 80 A8.  Offsets are those of the code, from 0.             *)
(***************************************************************************)
EXTENDS Integers, Sequences, SequencesExt

Continuation == {"80", "85", "A8"}

\* text.substr(from, count).
Sub(s, from, count) == SubSeq(s, from + 1, from + count)
From(s, from) == SubSeq(s, from + 1, Len(s))

\* line_break_width(): the complete terminator at the offset, with nothing after the
\* end of the text.
LineBreakWidth(s, at) ==
    LET has(i, b) == at + i < Len(s) /\ s[at + i + 1] = b
    IN  CASE has(0, "CR") -> IF has(1, "LF") THEN 2 ELSE 1
          [] has(0, "LF") -> 1
          [] has(0, "C2") /\ has(1, "85") -> 2
          [] has(0, "E2") /\ has(1, "80") /\ has(2, "A8") -> 3
          [] OTHER -> 0

\* probe_break(): the same, unless the window ends in what may become a terminator.
ProbeBreak(w, at) ==
    LET end == at + 1 = Len(w)
        cut == \/ w[at + 1] \in {"CR", "C2", "E2"} /\ end
               \/ w[at + 1] = "E2" /\ ~end /\ w[at + 2] = "80" /\ at + 2 = Len(w)
    IN  [width |-> IF cut THEN 0 ELSE LineBreakWidth(w, at), incomplete |-> cut]

\* LineIndex: where the lines start.
RECURSIVE StartsFrom(_, _)
StartsFrom(s, at) ==
    IF at >= Len(s) THEN <<>>
    ELSE LET width == LineBreakWidth(s, at)
         IN  IF width = 0 THEN StartsFrom(s, at + 1)
             ELSE <<at + width>> \o StartsFrom(s, at + width)
LineStarts(s) == <<0>> \o StartsFrom(s, 0)

CountLines(s) == Len(LineStarts(s))

\* line_start_at(): the line after the last one starts at the end.
LineStartAt(s, line) == IF line < CountLines(s) THEN LineStarts(s)[line + 1] ELSE Len(s)

\* find_line_end(): the end of the line's content and the start of the next line.
RECURSIVE FindLineEnd(_, _)
FindLineEnd(s, at) ==
    IF at >= Len(s) THEN [content |-> Len(s), next |-> Len(s)]
    ELSE IF LineBreakWidth(s, at) # 0 THEN [content |-> at, next |-> at + LineBreakWidth(s, at)]
         ELSE FindLineEnd(s, at + 1)

\* position_of(): a terminator that reaches past the offset has not ended its line.
PositionOf(s, byte) ==
    LET line == Len(SelectSeq(Tail(LineStarts(s)), LAMBDA start : start <= byte))
    IN  [line |-> line, column |-> byte - LineStarts(s)[line + 1]]

(***************************************************************************)
(* DisplayWriter: validated UTF-8 within a budget, an invalid byte shown   *)
(* as U+FFFD, which takes three bytes.                                     *)
(***************************************************************************)
Replacement == <<"EF", "BF", "BD">>

NewWriter(budget) == [budget |-> budget, out |-> <<>>, consumed |-> 0,
                      truncated |-> FALSE, replaced |-> FALSE]

\* The width of the scalar at the offset, 0 when it is not valid.
ScalarWidth(s, at) ==
    LET follows(n) == at + n < Len(s) /\ \A i \in 1..n : s[at + i + 1] \in Continuation
    IN  CASE s[at + 1] = "C2" -> IF follows(1) THEN 2 ELSE 0
          [] s[at + 1] = "E2" -> IF follows(2) THEN 3 ELSE 0
          [] s[at + 1] \in Continuation -> 0
          [] OTHER -> 1

RECURSIVE WriteFrom(_, _, _)
WriteFrom(w, s, at) ==
    IF at >= Len(s) THEN w
    ELSE LET width == ScalarWidth(s, at)
             shown == IF width = 0 THEN Replacement ELSE Sub(s, at, width)
             used == IF width = 0 THEN 1 ELSE width
         IN  IF Len(shown) > w.budget - Len(w.out) THEN [w EXCEPT !.truncated = TRUE]
             ELSE WriteFrom([w EXCEPT !.out = @ \o shown, !.consumed = @ + used,
                                      !.replaced = @ \/ width = 0], s, at + used)

\* append().
Written(w, s) == WriteFrom(w, s, 0)

\* append_hex(): four bytes for each.
HexWritten(w, s) ==
    LET room == (w.budget - Len(w.out)) \div 4
        fits == IF Len(s) < room THEN Len(s) ELSE room
        shown == [i \in 1..4 * fits |-> <<"hex", s[(i + 3) \div 4]>>]
    IN  [w EXCEPT !.out = @ \o shown, !.consumed = @ + fits, !.truncated = @ \/ fits # Len(s)]
=============================================================================
