------------------------------ MODULE FileEdit ------------------------------
(***************************************************************************)
(* Replacing the contents of an existing file while others write to it:    *)
(* str_replace_file() (src/textedit/src/stream_edit.cpp) over              *)
(* StagedReplacement (src/utils/fileio/src/staged_replace.cpp), and the    *)
(* whole-file replacement of src/utils/fileio/src/replace_existing.cpp.    *)
(*                                                                         *)
(* A file is a directory entry and an inode; the inode's stamp stands for  *)
(* its times, mode, owner and link count, and moves with every outside     *)
(* change.  An edit scans the source in pieces of any size with a KMP      *)
(* matcher, stages the candidate from the first match on, compares the     *)
(* candidate with the file under the path once more, and renames.  The     *)
(* 64 KiB of write buffering are left out.                                 *)
(***************************************************************************)
EXTENDS Integers, Sequences, SequencesExt, FiniteSetsExt

CONSTANTS
    EditBytes,      \* the alphabet of the files
    MaxFile,        \* bound on the length of a file
    EditOlds,       \* old_text
    EditNews,       \* new_text
    EditLimit,      \* max_file_bytes
    MaxOutside      \* bound on the changes made by others

VARIABLES
    entry,          \* the inode under the path, 0 when there is none
    fileOnDisk,     \* the inodes
    temp,           \* the candidate file, or NoTemp
    edit,           \* the operation
    outside,        \* changes made by others
    seen            \* what the path held when it was compared, and at the final check

editVars == <<entry, fileOnDisk, temp, edit, outside, seen>>

NoTemp == [absent |-> TRUE]
Files == UNION {[1..n -> EditBytes] : n \in 0..MaxFile}
Candidate == 2 + MaxOutside        \* the inode of the candidate
Inodes == 1..Candidate

\* substr() and read(): no further than the end.
Part(s, from, count) == SubSeq(s, from + 1, Min({from + count, Len(s)}))
Rest(s, from) == SubSeq(s, from + 1, Len(s))

(***************************************************************************)
(* StreamingMatcher.                                                       *)
(***************************************************************************)
\* kmp_prefix().
RECURSIVE KmpFrom(_, _, _)
KmpFrom(p, prefix, length) ==
    LET index == Len(prefix)
    IN  IF index >= Len(p) THEN prefix
        ELSE IF p[index + 1] = p[length + 1] THEN KmpFrom(p, Append(prefix, length + 1), length + 1)
        ELSE IF length # 0 THEN KmpFrom(p, prefix, prefix[length])
        ELSE KmpFrom(p, Append(prefix, 0), 0)
KmpPrefix(p) == KmpFrom(p, <<0>>, 0)

\* The longest border of the matched part that the byte continues.
RECURSIVE FallBack(_, _, _)
FallBack(p, q, byte) == IF q > 0 /\ p[q + 1] # byte THEN FallBack(p, KmpPrefix(p)[q], byte) ELSE q

NewMatcher == [q |-> 0, pending |-> <<>>, span |-> <<>>, at |-> 0, found |-> FALSE, match |-> 0,
               ambiguous |-> FALSE, second |-> 0, out |-> <<>>, tooLong |-> FALSE, copyFails |-> FALSE]

Changed == edit.old # edit.new

\* CandidateWriter::append(): nothing is written for an edit that changes nothing.
Emit(m, bytes) ==
    CASE ~Changed \/ m.ambiguous -> m
      [] Changed /\ ~m.ambiguous /\ Len(bytes) > EditLimit - Len(m.out) -> [m EXCEPT !.tooLong = TRUE]
      [] OTHER -> [m EXCEPT !.out = @ \o bytes]

\* CandidateWriter::begin() and copy_prefix(): the prefix is copied from what the
\* source holds now.
EmitPrefix(m, start) ==
    LET source == fileOnDisk[edit.ino].bytes
    IN  CASE ~Changed -> m
          [] Changed /\ start > EditLimit -> [m EXCEPT !.tooLong = TRUE]
          [] Changed /\ start <= EditLimit /\ Len(source) < start -> [m EXCEPT !.copyFails = TRUE]
          [] OTHER -> Emit([m EXCEPT !.out = Part(source, 0, start)], edit.new)

\* Mutant of Complete: matching starts over after the first match, which misses an
\* occurrence that overlaps it.
MutantComplete(m) ==
    LET start == m.at - Len(edit.old)
    IN  IF m.found THEN [m EXCEPT !.ambiguous = TRUE, !.second = start, !.q = 0]
        ELSE EmitPrefix([m EXCEPT !.found = TRUE, !.match = start,
                                  !.span = Part(m.pending, 0, Len(edit.old)),
                                  !.pending = <<>>, !.q = 0], start)

\* complete().
Complete(m) ==
    LET start == m.at - Len(edit.old)
    IN  IF m.found THEN [m EXCEPT !.ambiguous = TRUE, !.second = start, !.q = 0]
        ELSE EmitPrefix([m EXCEPT !.found = TRUE, !.match = start,
                                  !.span = Part(m.pending, 0, Len(edit.old)), !.pending = <<>>,
                                  !.q = KmpPrefix(edit.old)[Len(edit.old)]], start)

\* step() and drop(): unmatched bytes leave the front of the pending bytes.
Step(m, byte) ==
    LET p == edit.old
        q == FallBack(p, m.q, byte)
        hit == p[q + 1] = byte
        searched == [m EXCEPT !.pending = Rest(@, m.q - q) \o (IF hit THEN <<byte>> ELSE <<>>)]
        moved == IF m.found THEN Emit(m, <<byte>>) ELSE searched
        next == [moved EXCEPT !.q = IF hit THEN q + 1 ELSE q, !.at = @ + 1]
    IN  CASE m.tooLong \/ m.copyFails \/ m.ambiguous -> m
          [] next.q = Len(p) /\ ~next.tooLong -> Complete(next)
          [] OTHER -> next

(***************************************************************************)
(* The transaction.                                                        *)
(***************************************************************************)
\* identity_of().
Identity(i) == [ino |-> i, stamp |-> fileOnDisk[i].stamp, size |-> Len(fileOnDisk[i].bytes)]

\* Every exit but the rename discards the candidate.
Ends(status) ==
    /\ edit' = [edit EXCEPT !.phase = "done", !.status = status]
    /\ temp' = NoTemp
    /\ UNCHANGED <<entry, fileOnDisk, outside>>

Goes(phase) ==
    /\ edit' = [edit EXCEPT !.phase = phase]
    /\ UNCHANGED <<entry, fileOnDisk, temp, outside>>

\* The constructor: the entry is opened and its identity recorded.
Open ==
    /\ edit.phase = "open"
    /\ UNCHANGED seen
    /\ CASE entry = 0 \/ (edit.kind = "edit" /\ Len(edit.new) > EditLimit) -> Ends("error")
         [] OTHER ->
              /\ edit' = [edit EXCEPT !.phase = "scan", !.ino = entry, !.identity = Identity(entry)]
              /\ UNCHANGED <<entry, fileOnDisk, temp, outside>>

\* One next_source() of the scan, or one read() of read_editable_file().
ScanPiece(n) ==
    LET piece == Part(fileOnDisk[edit.ino].bytes, edit.pos, n)
        m == FoldLeft(Step, edit.m, piece)
    IN  /\ edit.phase = "scan"
        /\ edit.pos + n <= Len(fileOnDisk[edit.ino].bytes)
        /\ UNCHANGED seen
        /\ CASE edit.pos + n > EditLimit \/ (edit.kind = "edit" /\ m.tooLong) -> Ends("too_long")
             [] edit.kind = "edit" /\ m.copyFails -> Ends("error")
             [] OTHER ->
                  /\ edit' = [edit EXCEPT !.pos = @ + n, !.m = IF edit.kind = "edit" THEN m ELSE @,
                                          !.read = IF edit.kind = "edit" THEN @ ELSE @ \o piece]
                  /\ temp' = IF edit.kind = "edit" /\ m.out # <<>> THEN [bytes |-> m.out] ELSE temp
                  /\ UNCHANGED <<entry, fileOnDisk, outside>>

\* End of file ends the scan: only one match goes on, to the publication or, when
\* the edit changes nothing, to a second pass.
EndScan ==
    LET m == edit.m
        base == edit.pos - Len(edit.old)
    IN  /\ edit.phase = "scan" /\ edit.kind = "edit"
        /\ edit.pos >= Len(fileOnDisk[edit.ino].bytes)
        /\ UNCHANGED seen
        /\ CASE m.ambiguous -> Ends("ambiguous")
             [] ~m.found -> Ends("not_found")
             [] m.found /\ ~m.ambiguous /\ Len(edit.new) > EditLimit - base -> Ends("too_long")
             [] OTHER ->
                  /\ edit' = [edit EXCEPT !.phase = IF Changed THEN "finish" ELSE "rescan",
                                          !.size = edit.pos, !.pos = IF Changed THEN @ ELSE 0]
                  /\ UNCHANGED <<entry, fileOnDisk, temp, outside>>

\* restart_source() and the second pass.
RescanPiece(n) ==
    /\ edit.phase = "rescan"
    /\ edit.pos + n <= Len(fileOnDisk[edit.ino].bytes)
    /\ edit' = [edit EXCEPT !.pos = @ + n]
    /\ UNCHANGED <<entry, fileOnDisk, temp, outside, seen>>

EndRescan ==
    /\ edit.phase = "rescan"
    /\ edit.pos >= Len(fileOnDisk[edit.ino].bytes)
    /\ Ends(IF edit.pos # edit.size THEN "conflict" ELSE "unchanged")
    /\ UNCHANGED seen

\* The end of read_editable_file(): the file has not moved under the read.
EndRead ==
    /\ edit.phase = "scan" /\ edit.kind = "whole"
    /\ edit.pos >= Len(fileOnDisk[edit.ino].bytes)
    /\ UNCHANGED seen
    /\ IF Identity(edit.ino) # edit.identity \/ edit.identity.size # edit.pos THEN Ends("conflict")
       ELSE Goes("reopen")

\* publish(): finish_candidate() and confirm_source_unchanged() on the descriptor.
FinishCandidate ==
    /\ edit.phase = "finish"
    /\ UNCHANGED seen
    /\ IF Identity(edit.ino) # edit.identity \/ edit.identity.size # edit.pos THEN Ends("conflict")
       ELSE /\ temp' = [bytes |-> edit.m.out]
            /\ edit' = [edit EXCEPT !.phase = "reopen"]
            /\ UNCHANGED <<entry, fileOnDisk, outside>>

\* The path is opened once more; without an entry the open itself fails.
Reopen ==
    /\ edit.phase = "reopen"
    /\ UNCHANGED seen
    /\ CASE entry = 0 -> Ends("error")
         [] entry # 0 /\ Identity(entry) # edit.identity -> Ends("conflict")
         [] OTHER -> /\ edit' = [edit EXCEPT !.phase = "compare", !.pos = 0, !.size = edit.pos]
                     /\ UNCHANGED <<entry, fileOnDisk, temp, outside>>

\* What the source has to hold: the candidate with the span put back.
Expected ==
    LET m == edit.m
    IN  IF edit.kind = "whole" THEN edit.read
        ELSE Part(m.out, 0, m.match) \o m.span \o
             Rest(m.out, m.match + (Len(m.out) - (edit.size - Len(m.span))))

\* compare_exact(), skip_bytes() and compare_expected(), in pieces of any size.
ComparePiece(n) ==
    /\ edit.phase = "compare"
    /\ edit.pos + n <= Len(Expected)
    /\ UNCHANGED seen
    /\ IF Part(fileOnDisk[edit.ino].bytes, edit.pos, n) # Part(Expected, edit.pos, n) THEN Ends("conflict")
       ELSE /\ edit' = [edit EXCEPT !.pos = @ + n]
            /\ UNCHANGED <<entry, fileOnDisk, temp, outside>>

\* compare_to_end().
CompareEnd ==
    /\ edit.phase = "compare"
    /\ edit.pos >= Len(Expected)
    /\ UNCHANGED seen
    /\ IF Len(fileOnDisk[edit.ino].bytes) # Len(Expected) THEN Ends("conflict") ELSE Goes("stat")

\* The identity after the comparison; a whole-file replacement is staged here.
AfterCompare ==
    /\ edit.phase = "stat"
    /\ IF Identity(edit.ino) # edit.identity THEN Ends("conflict") /\ UNCHANGED seen
       ELSE /\ edit' = [edit EXCEPT !.phase = "check"]
            /\ temp' = IF edit.kind = "whole" THEN [bytes |-> edit.new] ELSE temp
            /\ seen' = [seen EXCEPT !.compared = fileOnDisk[edit.ino].bytes]
            /\ UNCHANGED <<entry, fileOnDisk, outside>>

\* Mutant of FinalCheck: the entry is not compared with what was verified.
MutantFinalCheck ==
    /\ edit.phase = "check"
    /\ IF entry = 0 THEN Ends("conflict") /\ UNCHANGED seen
       ELSE /\ seen' = [seen EXCEPT !.checked = fileOnDisk[entry].bytes, !.inode = entry]
            /\ Goes("rename")

\* The final check: the path still names this file.  publish() compares the entry
\* with the descriptor as it is now, replace_existing_file() with what it was.
FinalCheck ==
    LET original == IF edit.kind = "edit" THEN Identity(edit.ino) ELSE edit.identity
    IN  /\ edit.phase = "check"
        /\ IF entry = 0 \/ (entry # 0 /\ Identity(entry) # original)
           THEN Ends("conflict") /\ UNCHANGED seen
           ELSE /\ seen' = [seen EXCEPT !.checked = fileOnDisk[entry].bytes, !.inode = entry]
                /\ Goes("rename")

\* rename(): from here on the outcome is reported whatever stops.
Rename ==
    /\ edit.phase = "rename"
    /\ entry' = Candidate
    /\ fileOnDisk' = [fileOnDisk EXCEPT ![Candidate].bytes = temp.bytes]
    /\ temp' = NoTemp
    /\ edit' = [edit EXCEPT !.phase = "sync"]
    /\ UNCHANGED <<outside, seen>>

\* The directory is synced, or not.
Synced(status) ==
    /\ edit.phase = "sync"
    /\ edit' = [edit EXCEPT !.phase = "done", !.status = status]
    /\ UNCHANGED <<entry, fileOnDisk, temp, outside, seen>>

\* Cancellation is looked at up to the rename; any call of the system may fail.
Stopped ==
    /\ edit.phase \notin {"sync", "done"}
    /\ \/ edit.phase # "rename" /\ Ends("cancelled")
       \/ Ends("error")
    /\ UNCHANGED seen

(***************************************************************************)
(* The other writers.                                                      *)
(***************************************************************************)
Outside ==
    /\ outside < MaxOutside
    /\ edit.phase \notin {"sync", "done"}
    /\ outside' = outside + 1
    /\ entry # 0
    /\ LET next == 2 + outside
           moved == [fileOnDisk EXCEPT ![entry].stamp = @ + 1]
       IN  \/ \E b \in Files :
                 \/ fileOnDisk' = [moved EXCEPT ![entry].bytes = b] /\ entry' = entry
                 \/ fileOnDisk' = [moved EXCEPT ![next].bytes = b] /\ entry' = next
           \/ fileOnDisk' = moved /\ entry' = 0
    /\ UNCHANGED <<temp, edit, seen>>

EditInit ==
    /\ entry = 1
    /\ \E b \in Files : fileOnDisk = [i \in Inodes |-> [bytes |-> IF i = 1 THEN b ELSE <<>>, stamp |-> 0]]
    /\ temp = NoTemp
    /\ \E k \in {"edit", "whole"}, old \in EditOlds, new \in EditNews :
          edit = [kind |-> k, old |-> old, new |-> new, phase |-> "open", ino |-> 0,
                  identity |-> [ino |-> 0, stamp |-> 0, size |-> 0], pos |-> 0, size |-> 0,
                  m |-> NewMatcher, read |-> <<>>, status |-> "none"]
    /\ outside = 0
    /\ seen = [compared |-> <<>>, checked |-> <<>>, inode |-> 0]

EditNext ==
    \/ Open \/ EndScan \/ EndRescan \/ EndRead \/ FinishCandidate \/ Reopen \/ CompareEnd
    \/ AfterCompare \/ FinalCheck \/ Rename
    \/ \E n \in 1..MaxFile : ScanPiece(n) \/ RescanPiece(n) \/ ComparePiece(n)
    \/ \E status \in {"modified", "sync_failed"} : Synced(status)
    \/ Stopped
    \/ Outside

(***************************************************************************)
(* Properties.                                                             *)
(***************************************************************************)
\* The offsets at which the text holds the pattern.
Occurrences(s, p) == {i \in 0..Len(s) - Len(p) : Part(s, i, Len(p)) = p}

\* What is renamed into place is the text that was compared with its one occurrence
\* of old_text replaced, whatever others wrote during the scan, the prefix copy and
\* the comparison, and it takes the place of the file that was compared, which a
\* whole-file replacement still finds unchanged at the final check; no ending leaves a candidate behind (publish(), verify_against_source(), discard()).
EditIsExact ==
    /\ entry = Candidate =>
          /\ seen.inode = edit.ino
          /\ IF edit.kind = "whole"
             THEN fileOnDisk[Candidate].bytes = edit.new /\ seen.checked = edit.read
             ELSE \E at \in 0..MaxFile :
                    /\ Occurrences(seen.compared, edit.old) = {at}
                    /\ fileOnDisk[Candidate].bytes = Part(seen.compared, 0, at) \o edit.new \o
                                                      Rest(seen.compared, at + Len(edit.old))
    /\ edit.phase = "done" => temp = NoTemp
    /\ edit.status \in {"modified", "sync_failed"} => entry = Candidate

\* An undisturbed edit finds what a search of the text finds: no occurrence, one, or
\* the first two, overlapping ones included (StreamingMatcher, kmp_prefix()).
MatchesCounted ==
    LET s == fileOnDisk[1].bytes
        at == Occurrences(s, edit.old)
        m == edit.m
    IN  edit.kind = "edit" /\ edit.phase = "done" /\ outside = 0 =>
            /\ edit.status = "not_found" => at = {}
            /\ edit.status = "ambiguous" => /\ Cardinality(at) > 1
                                            /\ m.match = Min(at)
                                            /\ m.second = Min(at \ {m.match})
            /\ edit.status \in {"modified", "sync_failed", "unchanged"} => at = {m.match}
            /\ edit.status # "conflict"
=============================================================================
