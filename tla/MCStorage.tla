----------------------------- MODULE MCStorage -----------------------------
(***************************************************************************)
(* The components that read and write files (text tools, the two store     *)
(* backends and what they are made of), one at a time: a behaviour is that *)
(* of one of them (part), and the variables of the others stand still (at  *)
(* 0, or in their initial state).                                          *)
(***************************************************************************)
EXTENDS TextRead, FileEdit, EditPreview, StoreContract, SqliteSnapshot, ArchiveText,
        ExportFile, TLC

VARIABLE part

(* Instances. *)

MCOlds == {<<"a">>, <<"a", "a">>, <<"a", "b">>, <<"a", "b", "a">>}
MCNews == {<<>>, <<"b">>, <<"a">>, <<"b", "a", "b">>}
MCPreviewNews == {<<>>, <<"LF">>, <<"same">>, <<"a", "CR">>, <<"LF", "a", "LF">>}

(* States to save: tools and pending calls present or not, empty and absent *)
(* sequences, one and two turns.                                            *)
UserSays(t) ==
    [body |-> <<t>>, reasoning |-> Absent, invokes |-> Absent, cost |-> Absent, result |-> Absent]
ModelSays(calls) ==
    [body |-> <<"x", "y">>, reasoning |-> "why", invokes |-> calls, cost |-> "c", result |-> Absent]
ToolSays(r) ==
    [body |-> <<>>, reasoning |-> Absent, invokes |-> Absent, cost |-> Absent, result |-> r]
MCSnapStates ==
    {[extras |-> Absent, sections |-> <<"p">>, tools |-> <<"t1", "t2">>, loop |-> Absent,
      turns |-> <<[user |-> UserSays("hi"),
                   steps |-> <<[seq |-> 1, response |-> ModelSays(<<"c1", "c2">>),
                                returns |-> <<ToolSays("r1"), ToolSays("r2")>>]>>]>>],
     [extras |-> "null", sections |-> <<>>, tools |-> <<>>,
      loop |-> [phase |-> "tools", pending |-> <<"q1", "q2">>],
      turns |-> <<[user |-> UserSays("hey"),
                   steps |-> <<[seq |-> 1, response |-> ModelSays(<<>>), returns |-> <<>>],
                               [seq |-> 2, response |-> UserSays("ok"), returns |-> Absent]>>],
                  [user |-> UserSays("bye"), steps |-> <<>>]>>],
     [extras |-> "v", sections |-> <<>>, tools |-> <<"t">>,
      loop |-> [phase |-> "ready", pending |-> <<>>],
      turns |-> <<[user |-> UserSays("new"), steps |-> <<>>]>>]}

MCPages == <<2, 3>>

\* The identities of archives and the states are interchangeable: no definition
\* names one of them.
Interchangeable == Permutations(Ids) \cup Permutations(States)

(* The sum. *)

Parts == {"read", "edit", "preview", "sqlite", "json", "snapshot",
          "archive", "file", "export", "sql"}

IdleTextRead ==
    /\ request = 0 /\ received = 0 /\ carry = 0 /\ lineNo = 0 /\ sink = 0
    /\ reply = 0

IdleFileEdit ==
    /\ entry = 0 /\ fileOnDisk = 0 /\ temp = 0 /\ edit = 0 /\ outside = 0
    /\ seen = 0

IdleEditPreview ==
    /\ change = 0 /\ reported = 0 /\ sides = 0 /\ suffixHead = 0 /\ preview = 0

IdleSqliteSnapshot ==
    /\ snDb = 0 /\ snWork = 0 /\ snStage = 0 /\ snCall = 0 /\ snDrawn = 0
    /\ snHeld = 0 /\ snRefused = 0

IdleArchiveText ==
    /\ atText = 0 /\ atStart = 0 /\ atChunks = 0 /\ atOffset = 0 /\ atRead = 0
    /\ atRefused = 0

StorageInit ==
    /\ part \in Parts
    /\ IF part = "read" THEN ReadInit ELSE IdleTextRead
    /\ IF part = "edit" THEN EditInit ELSE IdleFileEdit
    /\ IF part = "preview" THEN PreviewInit ELSE IdleEditPreview
    /\ Init
    /\ JsonInit
    /\ part # "json" => dirs = [o \in {} |-> EmptyDir]
    /\ IF part = "snapshot" THEN SnInit ELSE IdleSqliteSnapshot
    /\ IF part = "archive" THEN AtInit ELSE IdleArchiveText
    /\ SfInit
    /\ part # "file" => sfDisk = Nothing /\ ~sfJson
    /\ XfInit
    /\ part # "export" => xfDest = NoFile
    /\ SqInit

Others(p) ==
    /\ UNCHANGED part
    /\ p # "read" => UNCHANGED readVars
    /\ p # "edit" => UNCHANGED editVars
    /\ p # "preview" => UNCHANGED previewVars
    /\ p # "sqlite" => UNCHANGED vars
    /\ p # "json" => UNCHANGED jsonVars
    /\ p # "snapshot" => UNCHANGED snVars
    /\ p # "archive" => UNCHANGED atVars
    /\ p # "file" => UNCHANGED sfVars
    /\ p # "export" => UNCHANGED xfVars
    /\ p # "sql" => UNCHANGED sqVars

StorageNext ==
    \/ part = "read" /\ ReadNext /\ Others("read")
    \/ part = "edit" /\ EditNext /\ Others("edit")
    \/ part = "preview" /\ PreviewNext /\ Others("preview")
    \/ part = "sqlite" /\ Next /\ Others("sqlite")
    \/ part = "json" /\ JsonNext /\ Others("json")
    \/ part = "snapshot" /\ SnNext /\ Others("snapshot")
    \/ part = "archive" /\ AtNext /\ Others("archive")
    \/ part = "file" /\ SfNext /\ Others("file")
    \/ part = "export" /\ XfNext /\ Others("export")
    \/ part = "sql" /\ SqNext /\ Others("sql")

StorageVars == <<part, readVars, editVars, previewVars, vars, jsonVars,
    snVars, atVars, sfVars, xfVars, sqVars>>
StorageSpec == StorageInit /\ [][StorageNext]_StorageVars

-----------------------------------------------------------------------------
(* Properties: those of the components, by subject. *)

\* Reading in a stream of bounded pieces answers as reading the whole file would,
\* and so does the preview of an edit; an edit that is reported replaced exactly the
\* one occurrence that the file held, and one that is refused changed nothing
\* (TextRead, EditPreview and FileEdit: the properties named here).
TextIsExact ==
    /\ part = "read" => StreamReadsAgree
    /\ part = "preview" => PreviewsAgree
    /\ part = "edit" => EditIsExact /\ MatchesCounted

\* The rows of a snapshot decode to the state that was saved, the search index names
\* what the archives hold, a hit stays true while it is read, and chunks, pages and
\* previews of an archive lose and invent no text (SqliteSnapshot and ArchiveText).
ArchiveSearchTrue ==
    /\ part = "snapshot" => /\ SnapshotsDecode /\ IndexMatchesArchives
                            /\ HitsStayTrue /\ NeverRefused
    /\ part = "archive" => ChunksCover /\ PagesLossless /\ PreviewShowsMatch
=============================================================================
