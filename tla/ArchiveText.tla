---------------------------- MODULE ArchiveText ----------------------------
(***************************************************************************)
(* How the archive index cuts one text into overlapping chunks, and how    *)
(* the archive reader previews a match and pages through the source        *)
(* (src/persistence/src/sqlite_archive_index.cpp, sqlite_archive_query.cpp)*)
(* Offsets are bytes, as in the code; a text is any string of ASCII bytes, *)
(* newlines and the bytes of two-byte scalars, whole or broken.  The sizes *)
(* are scaled: 4096, 1024 and 4-byte scalars in the code.                  *)
(***************************************************************************)
EXTENDS Integers, Sequences, FiniteSets, FiniteSetsExt

CONSTANTS
    ChunkBytes,      \* chunk_bytes
    OverlapBytes,    \* overlap_bytes: no match is longer
    MaxArchiveText,  \* bound: the bytes of a text
    PageBytes        \* the page sizes a reader asks for

ScalarBytes == 2    \* the widest scalar
ASSUME ArchiveTextConstants ==
    /\ OverlapBytes \in Nat /\ ChunkBytes \in Nat /\ MaxArchiveText \in Nat
    \* 4096 / 2 > 1024 + 3: a chunk always ends beyond what the next one repeats.
    /\ ChunkBytes \div 2 >= OverlapBytes + ScalarBytes - 1
    /\ \A n \in PageBytes : n >= ScalarBytes

VARIABLES
    atText,         \* the source, a sequence of bytes
    atStart,        \* index_archive(): where the next chunk starts, -1 when done
    atChunks,       \* the chunks cut so far, as <<first byte, end>>
    atOffset,       \* the reader's position, the end_byte of its last page
    atRead,         \* what its pages returned so far
    atRefused       \* a page request was refused or brought nothing

atVars == <<atText, atStart, atChunks, atOffset, atRead, atRefused>>

Bytes == {"a", "n", "L", "C"}   \* ASCII, newline, a lead byte, a continuation
ContinuationByte(b) == b = "C"
ByteAt(t, i) == t[i + 1]        \* text[i]

\* scalar_size(): 0 for a byte that starts no valid scalar.
ScalarSize(t, i) ==
    CASE ByteAt(t, i) \in {"a", "n"} -> 1
      [] ByteAt(t, i) = "L" /\ i + 2 <= Len(t) /\ ContinuationByte(ByteAt(t, i + 1)) -> 2
      [] OTHER -> 0

\* searchable(): an invalid byte becomes one blank, so offsets stay those of the source.
Searchable(t) ==
    [k \in 1..Len(t) |->
        IF ScalarSize(t, k - 1) > 0 \/ (k > 1 /\ ContinuationByte(t[k]) /\ ScalarSize(t, k - 2) = 2)
        THEN t[k] ELSE "a"]

\* The last position at or below i that is not inside a scalar.
BackOff(t, i) == Max({j \in 0..i : ~ContinuationByte(ByteAt(t, j))} \cup {0})

\* Mutant of ChunkEnd: the newline may lie anywhere in the chunk.
MutantChunkEnd(t, start) ==
    LET limit == Min({start + ChunkBytes, Len(t)})
        cut == IF limit < Len(t) THEN BackOff(t, limit) ELSE limit
        newlines == {i \in start..cut - 1 : ByteAt(t, i) = "n"}
    IN IF cut < Len(t) /\ newlines # {} THEN Max(newlines) + 1 ELSE cut

\* A chunk ends at a scalar boundary, after a newline if one lies in its second half.
ChunkEnd(t, start) ==
    LET limit == Min({start + ChunkBytes, Len(t)})
        cut == IF limit < Len(t) THEN BackOff(t, limit) ELSE limit
        newlines == {i \in start + ChunkBytes \div 2..cut - 1 : ByteAt(t, i) = "n"}
    IN IF cut < Len(t) /\ newlines # {} THEN Max(newlines) + 1 ELSE cut

\* boundary_before(): the start of the scalar a cut would split, else the cut.
BoundaryBefore(t, cut) ==
    LET split == {i \in Max({cut - (ScalarBytes - 1), 0})..cut - 1 : i + ScalarSize(t, i) > cut}
    IN IF split = {} THEN cut ELSE Min(split)

\* Mutant of MatchPreview: the whole budget is spent before the match.
MutantMatchPreview(body, begin, end, limit) ==
    LET wanted == Max({begin - limit, 0})
        start == Min({i \in wanted..begin : i = begin \/ ~ContinuationByte(ByteAt(body, i))})
    IN <<start, BoundaryBefore(body, Min({Len(body), start + limit}))>>
\* match_preview(): the bytes of the chunk shown for the match [begin, end).
MatchPreview(body, begin, end, limit) ==
    LET context == IF end - begin < limit THEN (limit - (end - begin)) \div 2 ELSE 0
        wanted == Max({begin - context, 0})
        start == Min({i \in wanted..begin : i = begin \/ ~ContinuationByte(ByteAt(body, i))})
    IN <<start, BoundaryBefore(body, Min({Len(body), start + limit}))>>

AtInit ==
    /\ atText \in UNION {[1..n -> Bytes] : n \in 1..MaxArchiveText}
    /\ atStart = 0 /\ atChunks = {} /\ atOffset = 0 /\ atRead = <<>> /\ atRefused = FALSE

\* Mutant of NextStart: the next chunk starts where this one ends.
MutantNextStart(t, end) == end
NextStart(t, end) == BackOff(t, end - OverlapBytes)

\* One round of the loop in index_archive().
CutChunk ==
    /\ atStart >= 0
    /\ LET t == Searchable(atText)
           end == ChunkEnd(t, atStart)
       IN /\ atChunks' = atChunks \cup {<<atStart, end>>}
          /\ atStart' = IF end = Len(t) THEN -1 ELSE NextStart(t, end)
    /\ UNCHANGED <<atText, atOffset, atRead, atRefused>>

\* Mutant of Window: the fetch stops at the page, before the scalar it may cut.
MutantWindow(offset, bytes) ==
    LET prefix == Min({offset, ScalarBytes - 1})
    IN SubSeq(atText, offset - prefix + 1, Min({Len(atText), offset + bytes}))
\* The SQL substr() of read(): a few bytes before the offset, a scalar beyond the page.
Window(offset, bytes) ==
    LET prefix == Min({offset, ScalarBytes - 1})
    IN SubSeq(atText, offset - prefix + 1, Min({Len(atText), offset + bytes + ScalarBytes}))

\* read() at the end of the previous page.
ReadPage(bytes) ==
    /\ atStart = -1                \* the index is part of the commit a reader sees
    /\ atOffset < Len(atText) /\ ~atRefused
    /\ LET fetched == Window(atOffset, bytes)
           prefix == Min({atOffset, ScalarBytes - 1})
           end == BoundaryBefore(fetched, Min({Len(fetched), prefix + bytes}))
           text == SubSeq(fetched, prefix + 1, end)
       IN IF BoundaryBefore(fetched, prefix) # prefix \/ text = <<>>
          THEN /\ atRefused' = TRUE /\ UNCHANGED <<atOffset, atRead>>
          ELSE /\ atRead' = atRead \o text
               /\ atOffset' = atOffset + Len(text)
               /\ UNCHANGED atRefused
    /\ UNCHANGED <<atText, atStart, atChunks>>

AtNext == CutChunk \/ \E n \in PageBytes : ReadPage(n)
AtSpec == AtInit /\ [][AtNext]_atVars

\* The spans a query can match: whole scalars of the searched text, at most
\* OverlapBytes long.
Spans(t) ==
    {<<b, e>> \in (0..Len(t)) \X (0..Len(t)) :
        /\ b < e /\ e - b <= OverlapBytes
        /\ ~ContinuationByte(ByteAt(t, b))
        /\ e = Len(t) \/ ~ContinuationByte(ByteAt(t, e))}

\* Cutting a text loses no match and comes to an end: each chunk starts beyond the
\* ones before it, and once the text is indexed every span a query can match lies
\* whole inside one chunk, although chunk ends move back to scalar and line
\* boundaries and chunk starts back over scalars (index_archive).
ChunksCover ==
    LET t == Searchable(atText) IN
    /\ atStart >= 0 => \A c \in atChunks : c[1] < atStart
    /\ atStart = -1 /\ atOffset = 0 =>
           \A s \in Spans(t) : \E c \in atChunks : c[1] <= s[1] /\ s[2] <= c[2]

\* Paging is lossless: whatever the page sizes and however broken the text, the
\* pages are a prefix of the source, none is refused for starting inside a scalar
\* and none is empty before the end (read, boundary_before).
PagesLossless == ~atRefused /\ atRead = SubSeq(atText, 1, atOffset)

\* A preview stays within its budget, and shows its whole match when that fits,
\* wherever in the chunk the match lies (match_preview).
PreviewShowsMatch ==
    LET t == Searchable(atText) IN
    atStart = 0 => \A s \in Spans(t), limit \in PageBytes :
        LET p == MatchPreview(t, s[1], s[2], limit) IN
        /\ p[2] - p[1] <= limit
        /\ s[2] - s[1] <= limit => p[1] <= s[1] /\ s[2] <= p[2]
=============================================================================
