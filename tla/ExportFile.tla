----------------------------- MODULE ExportFile -----------------------------
(***************************************************************************)
(* subagent_receive with an output_path: the saved conversation of a child *)
(* is fetched page by page from the Hub and published as a new file        *)
(* (src/tools/intrinsic/toolsets/hub_remote_call/src/receive.cpp, over     *)
(* src/utils/fileio/src/new_file.cpp).  The Hub keeps an immutable         *)
(* snapshot per export (src/hub/src/subagents/receive-export.ts), which    *)
(* expires; the child goes on saving; anyone may create the output path;   *)
(* the worker may die anywhere.                                            *)
(*                                                                         *)
(* A page is its document's version and its number.                        *)
(***************************************************************************)
EXTENDS Integers, Sequences, SequenceTheorems, TLAPS

CONSTANTS
    PagesOf,        \* [versions -> pages of the child's saved conversation]
    MaxTokens       \* bound: exports the Hub starts

\* A conversation is saved from the start, and has a page, be it an empty one.
ASSUME PagesAssumption ==
    /\ DOMAIN PagesOf \subseteq Nat \ {0} /\ 1 \in DOMAIN PagesOf
    /\ \A v \in DOMAIN PagesOf : PagesOf[v] \in Nat \ {0}
    /\ MaxTokens \in Nat

VARIABLES
    xfPc,           \* where the tool call stands
    xfVersion,      \* the child's saved conversation
    xfHub,          \* ReceiveExports::snapshots: [token -> version], 0 once gone
    xfToken,        \* token of this export, 0 before the first page
    xfPage,         \* <<the page in hand>>, or <<>>
    xfOffset,       \* pages appended
    xfTemp,         \* the temporary file: its pages, NoFile when there is none
    xfDest,         \* the output path: NoFile, Foreign, or the pages published
    xfFailure,      \* "none", "other", "unpublished", "published" (AtomicWriteError)
    xfSaid          \* what the model is told

xfVars == <<xfPc, xfVersion, xfHub, xfToken, xfPage, xfOffset, xfTemp, xfDest, xfFailure, xfSaid>>

NoFile == <<[version |-> 0, number |-> 0]>>
Foreign == <<[version |-> 0, number |-> 1]>>       \* what someone else put there
Document(v) == [i \in 1..PagesOf[v] |-> [version |-> v, number |-> i]]
Tokens == 1..MaxTokens

XfInit ==
    /\ xfPc = "asking" /\ xfVersion = 1
    /\ xfHub = [t \in Tokens |-> 0] /\ xfToken = 0
    /\ xfPage = <<>> /\ xfOffset = 0
    /\ xfTemp = NoFile /\ xfDest \in {NoFile, Foreign}
    /\ xfFailure = "none" /\ xfSaid = "none"

-----------------------------------------------------------------------------
(* The Hub. *)

ChildSaves ==
    /\ xfVersion + 1 \in DOMAIN PagesOf
    /\ xfVersion' = xfVersion + 1
    /\ UNCHANGED <<xfPc, xfHub, xfToken, xfPage, xfOffset, xfTemp, xfDest, xfFailure, xfSaid>>

SnapshotExpires(t) ==
    /\ xfHub[t] # 0
    /\ xfHub' = [xfHub EXCEPT ![t] = 0]
    /\ UNCHANGED <<xfPc, xfVersion, xfToken, xfPage, xfOffset, xfTemp, xfDest, xfFailure, xfSaid>>

\* page(): the last page releases the snapshot.
Serve(t, v, offset) ==
    /\ xfPage' = <<[version |-> v, number |-> offset + 1]>>
    /\ xfHub' = [xfHub EXCEPT ![t] = IF offset + 1 = PagesOf[v] THEN 0 ELSE v]

-----------------------------------------------------------------------------
(* The tool. *)

\* The first exchange starts a snapshot of what is saved now.
FirstPage ==
    /\ xfPc = "asking" /\ xfToken = 0
    /\ \E t \in Tokens :
         /\ \A u \in Tokens : u < t => xfHub[u] # 0
         /\ xfHub[t] = 0
         /\ xfToken' = t /\ Serve(t, xfVersion, 0)
    /\ xfPc' = "creating"
    /\ UNCHANGED <<xfVersion, xfOffset, xfTemp, xfDest, xfFailure, xfSaid>>

\* Mutant of PageSource: a later page is cut from what is saved by now.
MutantPageSource == xfVersion
PageSource == xfHub[xfToken]

NextPage ==
    /\ xfPc = "asking" /\ xfToken # 0 /\ xfHub[xfToken] # 0
    /\ Serve(xfToken, PageSource, xfOffset)
    /\ xfPc' = "appending"
    /\ UNCHANGED <<xfVersion, xfToken, xfOffset, xfTemp, xfDest, xfFailure, xfSaid>>

FailExport(pc, how) == xfPc' = pc /\ xfFailure' = how

\* The export was refused or has expired, the exchange failed, the page does not fit
\* what was asked, or the deadline passed.
ExchangeFails ==
    /\ xfPc = "asking"
    /\ FailExport("closing", "other")
    /\ UNCHANGED <<xfVersion, xfHub, xfToken, xfPage, xfOffset, xfTemp, xfDest, xfSaid>>

CreateTemporary ==
    /\ xfPc = "creating"
    /\ \/ xfTemp' = <<>> /\ xfPc' = "appending" /\ UNCHANGED xfFailure
       \/ FailExport("closing", "unpublished") /\ UNCHANGED xfTemp
    /\ UNCHANGED <<xfVersion, xfHub, xfToken, xfPage, xfOffset, xfDest, xfSaid>>

\* The page that ends the document is followed by publish().
\* Mutant of AfterPage: a short page is taken for the last one.
MutantAfterPage == IF xfOffset + 1 >= 2 THEN "publishing" ELSE "asking"
AfterPage == IF xfOffset + 1 = PagesOf[xfPage[1].version] THEN "publishing" ELSE "asking"
AppendPage ==
    /\ xfPc = "appending"
    /\ \/ /\ xfTemp' = xfTemp \o xfPage /\ xfOffset' = xfOffset + 1
          /\ xfPc' = AfterPage /\ UNCHANGED xfFailure
       \/ FailExport("closing", "unpublished") /\ UNCHANGED <<xfTemp, xfOffset>>
    /\ xfPage' = <<>>
    /\ UNCHANGED <<xfVersion, xfHub, xfToken, xfDest, xfSaid>>

\* publish(): linkat refuses a path that exists by now.
\* Mutant of Linkable: the temporary file is renamed over whatever is there.
MutantLinkable == TRUE
Linkable == xfDest = NoFile
LinkFile ==
    /\ xfPc = "publishing" /\ Linkable
    /\ xfDest' = xfTemp
    /\ xfPc' = "unlinking"
    /\ UNCHANGED <<xfVersion, xfHub, xfToken, xfPage, xfOffset, xfTemp, xfFailure, xfSaid>>

LinkFails ==
    /\ xfPc = "publishing"
    /\ FailExport("closing", "unpublished")
    /\ UNCHANGED <<xfVersion, xfHub, xfToken, xfPage, xfOffset, xfTemp, xfDest, xfSaid>>

\* What follows the link may fail, and the error says that the file is there.
\* Mutant of AfterLink: the error does not.
MutantAfterLink == "unpublished"
AfterLink == "published"
UnlinkTemporary ==
    /\ xfPc = "unlinking"
    /\ \/ xfTemp' = NoFile /\ xfPc' = "closing" /\ UNCHANGED xfFailure
       \/ FailExport("closing", AfterLink) /\ xfTemp' \in {xfTemp, NoFile}
    /\ UNCHANGED <<xfVersion, xfHub, xfToken, xfPage, xfOffset, xfDest, xfSaid>>

\* The writer is destroyed, which removes the temporary file, and the call ends.
Tell ==
    /\ xfPc = "closing"
    /\ xfPc' = "told"
    /\ xfTemp' = NoFile
    /\ xfSaid' = [none |-> "exported", other |-> "nothing_published", unpublished |-> "not_written",
                  published |-> "published_uncertain"][xfFailure]
    /\ UNCHANGED <<xfVersion, xfHub, xfToken, xfPage, xfOffset, xfDest, xfFailure>>

OtherCreatesFile ==
    /\ xfDest = NoFile
    /\ xfDest' = Foreign
    /\ UNCHANGED <<xfPc, xfVersion, xfHub, xfToken, xfPage, xfOffset, xfTemp, xfFailure, xfSaid>>

ToolDies ==
    /\ xfPc \notin {"told", "dead"}
    /\ xfPc' = "dead"
    /\ UNCHANGED <<xfVersion, xfHub, xfToken, xfPage, xfOffset, xfTemp, xfDest, xfFailure, xfSaid>>

XfDone == xfPc \in {"told", "dead"} /\ UNCHANGED xfVars

XfNext ==
    \/ ChildSaves \/ \E t \in Tokens : SnapshotExpires(t)
    \/ FirstPage \/ NextPage \/ ExchangeFails
    \/ CreateTemporary \/ AppendPage \/ LinkFile \/ LinkFails \/ UnlinkTemporary
    \/ Tell \/ OtherCreatesFile \/ ToolDies \/ XfDone

XfSpec == XfInit /\ [][XfNext]_xfVars

-----------------------------------------------------------------------------
(* Properties *)

\* The output path holds nothing, a file of someone else, or one whole saved
\* conversation, at every moment and after a death of the worker; and the model is
\* told that nothing was published only when nothing was.
ExportIsWhole ==
    /\ xfDest \in {NoFile, Foreign} \cup {Document(v) : v \in DOMAIN PagesOf}
    /\ xfSaid = "exported" => xfDest \notin {NoFile, Foreign}
    /\ xfSaid \in {"nothing_published", "not_written"} => xfDest \in {NoFile, Foreign}

\* A file that someone else put there is never replaced.
ForeignKept == [][xfDest = Foreign => xfDest' = Foreign]_xfVars

\* What the runs check of an export: always whole, and nobody's file replaced.
ExportsSound == []ExportIsWhole /\ ForeignKept

-----------------------------------------------------------------------------
(* The proof.  The document being written is that of the snapshot the first  *)
(* page was cut from: the Hub serves it or has lost it, but never another.   *)

Documents == {Document(v) : v \in DOMAIN PagesOf}

\* The first n pages of a saved conversation.
Prefix(v, n) == [i \in 1..n |-> [version |-> v, number |-> i]]

\* The Hub holds the snapshot of this export, or nothing under its token.
Snapshot(v) == xfToken \in Tokens /\ xfHub[xfToken] \in {0, v}

\* Pages of v so far, none of them the last; the page in hand is the next one.
PagesWritten(v) ==
    /\ xfOffset \in Nat /\ xfOffset < PagesOf[v]
    /\ Snapshot(v) /\ xfTemp = Prefix(v, xfOffset)
Held(v) ==
    /\ xfOffset \in Nat /\ xfOffset < PagesOf[v]
    /\ Snapshot(v) /\ xfPage = <<[version |-> v, number |-> xfOffset + 1]>>

PrefixWritten == \E v \in DOMAIN PagesOf : PagesWritten(v)
PageHeld == \E v \in DOMAIN PagesOf : Held(v)
PageFits == \E v \in DOMAIN PagesOf : PagesWritten(v) /\ Held(v)

Unwritten == xfDest \in {NoFile, Foreign}
Working == xfPc \in {"asking", "creating", "appending", "publishing"}

XfStages ==
    /\ Working => xfFailure = "none" /\ xfSaid = "none" /\ Unwritten
    /\ xfPc = "asking" =>
          \/ xfToken = 0 /\ xfOffset = 0
          \/ PrefixWritten
    /\ xfPc = "creating" => xfOffset = 0 /\ PageHeld
    /\ xfPc = "appending" => PageFits
    /\ xfPc = "publishing" => xfTemp \in Documents
    /\ xfPc = "unlinking" => xfDest \in Documents /\ xfFailure = "none" /\ xfSaid = "none"
    /\ xfPc = "closing" =>
          /\ xfSaid = "none"
          /\ \/ xfFailure \in {"none", "published"} /\ xfDest \in Documents
             \/ xfFailure \in {"other", "unpublished"} /\ Unwritten
    /\ xfPc = "told" =>
          \/ xfSaid \in {"exported", "published_uncertain"} /\ xfDest \in Documents
          \/ xfSaid \in {"nothing_published", "not_written"} /\ Unwritten
    /\ xfPc = "dead" => xfSaid = "none"

XfInv ==
    /\ xfPc \in {"asking", "creating", "appending", "publishing", "unlinking", "closing",
                 "told", "dead"}
    /\ xfVersion \in DOMAIN PagesOf
    /\ xfHub \in [Tokens -> {0} \cup DOMAIN PagesOf]
    /\ xfDest \in {NoFile, Foreign} \cup Documents
    /\ XfStages

LEMMA VersionFacts ==
    ASSUME NEW v \in DOMAIN PagesOf
    PROVE  v \in Nat /\ v # 0 /\ PagesOf[v] \in Nat /\ PagesOf[v] # 0
  BY PagesAssumption

\* One more page of the same document.
LEMMA PrefixGrows ==
    ASSUME NEW v, NEW n \in Nat
    PROVE  Prefix(v, n) \o <<[version |-> v, number |-> n + 1]>> = Prefix(v, n + 1)
  <1>. DEFINE s == Prefix(v, n)
              t == <<[version |-> v, number |-> n + 1]>>
  <1>1. s \in Seq([version : {v}, number : Nat]) /\ Len(s) = n
    BY DEF Prefix
  <1>2. t \in Seq([version : {v}, number : Nat]) /\ Len(t) = 1
    OBVIOUS
  <1>3. DOMAIN (s \o t) = 1..(n + 1) /\ Len(s \o t) = n + 1
    BY <1>1, <1>2
  <1>4. \A i \in 1..(n + 1) : (s \o t)[i] = [version |-> v, number |-> i]
    BY <1>1, <1>2 DEF Prefix
  <1>5. s \o t \in Seq([version : {v}, number : Nat])
    BY <1>1, <1>2
  <1>6. Prefix(v, n + 1) \in Seq([version : {v}, number : Nat]) /\ Len(Prefix(v, n + 1)) = n + 1
    BY DEF Prefix
  <1>7. \A i \in 1..(n + 1) : Prefix(v, n + 1)[i] = [version |-> v, number |-> i]
    BY DEF Prefix
  <1>. HIDE DEF s, t
  <1>8. s \o t = Prefix(v, n + 1)
    BY <1>3, <1>4, <1>5, <1>6, <1>7, SeqEqual
  <1>. QED  BY <1>8 DEF s, t

LEMMA NothingWritten == ASSUME NEW v PROVE <<>> = Prefix(v, 0)
  BY DEF Prefix

LEMMA WholeIsDocument == ASSUME NEW v PROVE Prefix(v, PagesOf[v]) = Document(v)
  BY DEF Prefix, Document

\* A page of a document names its version, and no document is an absent or a foreign file.
LEMMA DocumentsOurs ==
    /\ NoFile # Foreign
    /\ \A d \in Documents : d # NoFile /\ d # Foreign
  <1>1. NoFile # Foreign
    <2>1. NoFile[1].number = 0 /\ Foreign[1].number = 1
      BY DEF NoFile, Foreign
    <2>. QED  BY <2>1
  <1>2. ASSUME NEW v \in DOMAIN PagesOf
        PROVE  Document(v) # NoFile /\ Document(v) # Foreign
    <2>1. Document(v)[1].version = v
      BY VersionFacts DEF Document
    <2>2. NoFile[1].version = 0 /\ Foreign[1].version = 0
      BY DEF NoFile, Foreign
    <2>. QED  BY <2>1, <2>2, VersionFacts
  <1>. QED  BY <1>1, <1>2 DEF Documents

LEMMA InitXfInv == XfInit => XfInv
  BY PagesAssumption DEF XfInit, XfInv, XfStages, Working, Unwritten

\* A step that leaves the export alone, and of the Hub's snapshot takes at most all.
LEMMA ExportKept ==
    ASSUME UNCHANGED <<xfToken, xfPage, xfOffset, xfTemp>>,
           \A u \in Tokens : xfHub'[u] \in {0, xfHub[u]}
    PROVE  /\ PrefixWritten => PrefixWritten'
           /\ PageHeld => PageHeld'
           /\ PageFits => PageFits'
  <1>1. ASSUME NEW v, PagesWritten(v)
        PROVE  PagesWritten(v)'
    BY <1>1 DEF PagesWritten, Snapshot
  <1>2. ASSUME NEW v, Held(v)
        PROVE  Held(v)'
    BY <1>2 DEF Held, Snapshot
  <1>3. PrefixWritten => PrefixWritten'
    BY <1>1, Zenon DEF PrefixWritten
  <1>4. PageHeld => PageHeld'
    BY <1>2, Zenon DEF PageHeld
  <1>5. PageFits => PageFits'
    BY <1>1, <1>2, Zenon DEF PageFits
  <1>. QED  BY <1>3, <1>4, <1>5

LEMMA SnapshotLost ==
    ASSUME XfInv, NEW t \in Tokens, SnapshotExpires(t)
    PROVE  XfInv'
  <1>1. xfHub' \in [Tokens -> {0} \cup DOMAIN PagesOf]
    BY DEF XfInv, SnapshotExpires
  <1>2. \A u \in Tokens : xfHub'[u] \in {0, xfHub[u]}
    BY DEF XfInv, SnapshotExpires
  <1>3. XfStages'
    BY <1>2, ExportKept DEF XfInv, XfStages, SnapshotExpires, Working, Unwritten
  <1>. QED  BY <1>1, <1>3 DEF XfInv, SnapshotExpires

LEMMA ChildSavesXfInv ==
    ASSUME XfInv, ChildSaves
    PROVE  XfInv'
  <1>1. XfStages'
    BY ExportKept DEF XfInv, XfStages, ChildSaves, Working, Unwritten
  <1>. QED  BY <1>1 DEF XfInv, ChildSaves

\* What the Hub keeps after serving a page is still the snapshot, or nothing.
LEMMA ServedXfInv ==
    ASSUME XfInv, NEW t \in Tokens, NEW v \in DOMAIN PagesOf, NEW n, Serve(t, v, n)
    PROVE  /\ xfHub' \in [Tokens -> {0} \cup DOMAIN PagesOf]
           /\ xfHub'[t] \in {0, v}
           /\ xfPage' = <<[version |-> v, number |-> n + 1]>>
  BY DEF XfInv, Serve

LEMMA FirstPageXfInv ==
    ASSUME XfInv, FirstPage
    PROVE  XfInv'
  <1>1. PICK t \in Tokens : xfToken' = t /\ Serve(t, xfVersion, 0)
    BY DEF FirstPage
  <1>2. xfVersion \in DOMAIN PagesOf /\ xfOffset = 0 /\ xfOffset' = 0
    <2>1. PrefixWritten => xfToken # 0
      BY PagesAssumption DEF PrefixWritten, PagesWritten, Snapshot, Tokens
    <2>. QED  BY <2>1 DEF XfInv, XfStages, FirstPage
  <1>3. /\ xfHub' \in [Tokens -> {0} \cup DOMAIN PagesOf]
        /\ xfHub'[t] \in {0, xfVersion}
        /\ xfPage' = <<[version |-> xfVersion, number |-> 1]>>
    BY <1>1, <1>2, ServedXfInv
  <1>4. PageHeld'
    <2>1. xfVersion' \in DOMAIN PagesOf /\ Held(xfVersion)'
      BY <1>1, <1>2, <1>3, VersionFacts DEF Held, Snapshot, FirstPage
    <2>. QED  BY <2>1, Zenon DEF PageHeld
  <1>5. XfStages'
    BY <1>2, <1>3, <1>4 DEF XfInv, XfStages, FirstPage, Working, Unwritten
  <1>. QED  BY <1>3, <1>5 DEF XfInv, FirstPage

LEMMA NextPageXfInv ==
    ASSUME XfInv, NextPage
    PROVE  XfInv'
  <1>1. PICK v \in DOMAIN PagesOf : PagesWritten(v)
    BY DEF XfInv, XfStages, NextPage, PrefixWritten
  <1>2. xfToken \in Tokens /\ xfHub[xfToken] = v
    BY <1>1 DEF NextPage, PagesWritten, Snapshot
  <1>3. /\ xfHub' \in [Tokens -> {0} \cup DOMAIN PagesOf]
        /\ xfHub'[xfToken] \in {0, v}
        /\ xfPage' = <<[version |-> v, number |-> xfOffset + 1]>>
    BY <1>2, ServedXfInv DEF NextPage, PageSource
  <1>4. PageFits'
    <2>1. PagesWritten(v)' /\ Held(v)'
      BY <1>1, <1>3 DEF PagesWritten, Held, Snapshot, NextPage
    <2>. QED  BY <2>1, Zenon DEF PageFits
  <1>5. XfStages'
    BY <1>3, <1>4 DEF XfInv, XfStages, NextPage, Working, Unwritten
  <1>. QED  BY <1>3, <1>5 DEF XfInv, NextPage

LEMMA CreateTemporaryXfInv ==
    ASSUME XfInv, CreateTemporary
    PROVE  XfInv'
  <1>1. PICK v \in DOMAIN PagesOf : Held(v)
    BY DEF XfInv, XfStages, CreateTemporary, PageHeld
  <1>2. xfOffset = 0 /\ Held(v)'
    BY <1>1 DEF XfInv, XfStages, CreateTemporary, Held, Snapshot
  <1>3. CASE xfTemp' = <<>> /\ xfPc' = "appending" /\ UNCHANGED xfFailure
    <2>1. PagesWritten(v)'
      BY <1>1, <1>2, <1>3, NothingWritten DEF CreateTemporary, PagesWritten, Held, Snapshot
    <2>2. PageFits'
      BY <1>2, <2>1, Zenon DEF PageFits
    <2>3. XfStages'
      BY <1>3, <2>2 DEF XfInv, XfStages, CreateTemporary, Working, Unwritten
    <2>. QED  BY <1>3, <2>3 DEF XfInv, CreateTemporary
  <1>4. CASE FailExport("closing", "unpublished") /\ UNCHANGED xfTemp
    BY <1>4 DEF XfInv, XfStages, CreateTemporary, FailExport, Working, Unwritten
  <1>. QED  BY <1>3, <1>4 DEF CreateTemporary

LEMMA AppendPageXfInv ==
    ASSUME XfInv, AppendPage
    PROVE  XfInv'
  <1>1. PICK v \in DOMAIN PagesOf : PagesWritten(v) /\ Held(v)
    BY DEF XfInv, XfStages, AppendPage, PageFits
  <1>2. CASE /\ xfTemp' = xfTemp \o xfPage /\ xfOffset' = xfOffset + 1
             /\ xfPc' = AfterPage /\ UNCHANGED xfFailure
    <2>1. xfTemp' = Prefix(v, xfOffset + 1)
      BY <1>1, <1>2, PrefixGrows DEF PagesWritten, Held
    <2>2. xfPage[1].version = v
      BY <1>1 DEF Held
    <2>3. CASE xfOffset + 1 = PagesOf[v]
      <3>1. xfPc' = "publishing" /\ xfTemp' \in Documents
        BY <1>2, <2>1, <2>2, <2>3, WholeIsDocument DEF AfterPage, Documents
      <3>2. XfStages'
        BY <1>2, <3>1 DEF XfInv, XfStages, AppendPage, Working, Unwritten
      <3>. QED  BY <3>1, <3>2 DEF XfInv, AppendPage
    <2>4. CASE xfOffset + 1 # PagesOf[v]
      <3>1. xfPc' = "asking" /\ PagesWritten(v)'
        BY <1>1, <1>2, <2>1, <2>2, <2>4, VersionFacts
           DEF AfterPage, PagesWritten, Snapshot, AppendPage
      <3>2. PrefixWritten'
        BY <3>1, Zenon DEF PrefixWritten
      <3>3. XfStages'
        BY <1>2, <3>1, <3>2 DEF XfInv, XfStages, AppendPage, Working, Unwritten
      <3>. QED  BY <3>1, <3>3 DEF XfInv, AppendPage
    <2>. QED  BY <2>3, <2>4
  <1>3. CASE FailExport("closing", "unpublished") /\ UNCHANGED <<xfTemp, xfOffset>>
    BY <1>3 DEF XfInv, XfStages, AppendPage, FailExport, Working, Unwritten
  <1>. QED  BY <1>2, <1>3 DEF AppendPage

LEMMA TellXfInv ==
    ASSUME XfInv, Tell
    PROVE  XfInv'
  <1>1. /\ xfFailure = "none" => xfSaid' = "exported"
        /\ xfFailure = "other" => xfSaid' = "nothing_published"
        /\ xfFailure = "unpublished" => xfSaid' = "not_written"
        /\ xfFailure = "published" => xfSaid' = "published_uncertain"
    <2>1. CASE xfFailure = "none"
      BY <2>1 DEF Tell
    <2>2. CASE xfFailure = "other"
      BY <2>2 DEF Tell
    <2>3. CASE xfFailure = "unpublished"
      BY <2>3 DEF Tell
    <2>4. CASE xfFailure = "published"
      BY <2>4 DEF Tell
    <2>. QED  BY <2>1, <2>2, <2>3, <2>4
  <1>. QED  BY <1>1 DEF XfInv, XfStages, Tell, Working, Unwritten

\* A foreign file may appear wherever the path is still free.
LEMMA OtherCreatesXfInv ==
    ASSUME XfInv, OtherCreatesFile
    PROVE  XfInv'
  <1>1. xfDest \notin Documents /\ Unwritten /\ Unwritten'
    BY DocumentsOurs DEF OtherCreatesFile, Unwritten
  <1>2. XfStages'
    <2>1. /\ PrefixWritten => PrefixWritten'
          /\ PageHeld => PageHeld'
          /\ PageFits => PageFits'
      BY ExportKept DEF OtherCreatesFile
    <2>. QED  BY <1>1, <2>1 DEF XfInv, XfStages, OtherCreatesFile, Working, Unwritten
  <1>. QED  BY <1>2 DEF XfInv, OtherCreatesFile

LEMMA NextXfInv ==
    ASSUME XfInv, [XfNext]_xfVars
    PROVE  XfInv'
  <1>. USE DEF XfInv, XfStages, Working, Unwritten
  <1>1. CASE ExchangeFails
    BY <1>1 DEF ExchangeFails, FailExport
  <1>2. CASE LinkFile
    BY <1>2 DEF LinkFile
  <1>3. CASE LinkFails
    BY <1>3 DEF LinkFails, FailExport
  <1>4. CASE UnlinkTemporary
    BY <1>4 DEF UnlinkTemporary, FailExport, AfterLink
  <1>5. CASE ToolDies
    BY <1>5 DEF ToolDies
  <1>6. CASE UNCHANGED xfVars
    BY <1>6, ExportKept DEF xfVars
  <1>. HIDE DEF XfInv, XfStages, Working, Unwritten
  <1>. QED  BY <1>1, <1>2, <1>3, <1>4, <1>5, <1>6, ChildSavesXfInv, SnapshotLost, FirstPageXfInv,
               NextPageXfInv, CreateTemporaryXfInv, AppendPageXfInv, TellXfInv, OtherCreatesXfInv,
               Zenon DEF XfNext, XfDone

LEMMA XfInvWhole == XfInv => ExportIsWhole
  <1>. SUFFICES ASSUME XfInv PROVE ExportIsWhole
    OBVIOUS
  <1>1. /\ xfDest \in {NoFile, Foreign} \cup Documents
        /\ xfSaid = "exported" => xfDest \in Documents
        /\ xfSaid \in {"nothing_published", "not_written"} => xfDest \in {NoFile, Foreign}
    BY DEF XfInv, XfStages, Working, Unwritten
  <1>. QED  BY <1>1, DocumentsOurs DEF ExportIsWhole, Documents

LEMMA ForeignStays == [XfNext]_xfVars => [xfDest = Foreign => xfDest' = Foreign]_xfVars
  <1>. SUFFICES ASSUME XfNext, xfDest = Foreign PROVE xfDest' = Foreign
    OBVIOUS
  <1>1. CASE ChildSaves \/ (\E t \in Tokens : SnapshotExpires(t)) \/ FirstPage \/ NextPage
             \/ ExchangeFails \/ CreateTemporary \/ AppendPage
    BY <1>1 DEF ChildSaves, SnapshotExpires, FirstPage, NextPage, ExchangeFails, CreateTemporary,
                AppendPage
  <1>2. CASE LinkFails \/ UnlinkTemporary \/ Tell \/ ToolDies \/ XfDone
    BY <1>2 DEF LinkFails, UnlinkTemporary, Tell, ToolDies, XfDone, xfVars
  <1>3. CASE LinkFile \/ OtherCreatesFile
    BY <1>3, DocumentsOurs DEF LinkFile, Linkable, OtherCreatesFile
  <1>. QED  BY <1>1, <1>2, <1>3 DEF XfNext

\* An export, of any number of versions and pages: at every moment, after a death too,
\* the output path holds one whole saved conversation or what others left there, the
\* model is told which, and a file that someone else put there stays (receive.cpp,
\* NewFileWriter::publish, ReceiveExports).
THEOREM ExportsAlwaysSound == XfSpec => ExportsSound
  <1>1. XfInit /\ [][XfNext]_xfVars => []XfInv
    BY InitXfInv, NextXfInv, PTL
  <1>. QED  BY <1>1, XfInvWhole, ForeignStays, PTL DEF XfSpec, ExportsSound, ForeignKept

=============================================================================
