--------------------------- MODULE ProcessSessions ---------------------------
(***************************************************************************)
(* The process tools over ProcessSessionStore                              *)
(* (src/tools/intrinsic/toolsets/process/src/): a bounded table of children *)
(* shared by concurrent tool calls.  Between two actions of a call lies a  *)
(* suspension: the table mutex is never held across one, and each handle   *)
(* has a strand of its own.                                                *)
(*                                                                         *)
(* A handle is what ProcessHandle promises: its shutdown ends the child and *)
(* the capture, and throws for ever once a failure is latched.  Output is a *)
(* number of bytes, two bytes to a character.                              *)
(***************************************************************************)
EXTENDS Naturals, FiniteSets

CONSTANTS
    Calls,         \* concurrent tool calls
    MaxSessions,   \* _max_sessions
    MaxIds,        \* bound: sessions ever spawned
    MaxBytes,      \* bound: bytes captured per session
    MaxCalls       \* bound: tool calls made

ASSUME SessionConstants == MaxSessions \in Nat /\ MaxIds \in Nat /\ MaxBytes \in Nat

VARIABLES
    handle,        \* id -> the ProcessHandle as the store sees it
    sessions,      \* _sessions: ids in the table
    pendingSpawns, \* _pending_spawns
    nextId,        \* _next_id
    cursor,        \* id -> consuming cursor
    call,          \* the frame of each tool call
    handed,        \* history: <<id, byte>> -> times a returned delta held it
    shown,         \* history: <<id, byte>> in the full reads returned
    dropped,       \* history: ids of which a caller gave output up
    lost,          \* history: ids of which a call that failed had consumed output
    releases,      \* history: id -> calls told that they released it
    made           \* tool calls made

storeVars == <<sessions, pendingSpawns, nextId, cursor>>
historyVars == <<handed, shown, dropped, lost, releases>>
sessionVars == <<handle, storeVars, call, historyVars, made>>

Ids == 1 .. MaxIds
\* A frame: place, session, the spawn's result, the arguments of a read, the
\* sessions a poll has still to read, and what the answer holds so far.
Idle == [place |-> "idle", id |-> 0, reserved |-> FALSE, finished |-> FALSE, drained |-> FALSE,
         full |-> FALSE, output |-> FALSE, release |-> FALSE, finish |-> FALSE, todo |-> {},
         got |-> {}, whole |-> {}]

Goes(c, frame) == call' = [call EXCEPT ![c] = frame]
AtPlace(c, place) == call[c].place = place
Moves(c, place) == Goes(c, [call[c] EXCEPT !.place = place])

\* A call that returns hands its answer to the model; a call that throws hands
\* nothing, and what it had consumed is gone.
Returns(c, frame) ==
    /\ handed' = [x \in DOMAIN handed |-> handed[x] + (IF x \in frame.got THEN 1 ELSE 0)]
    /\ shown' = shown \cup frame.whole
    /\ Goes(c, Idle)
    /\ UNCHANGED lost

Throws(c) ==
    /\ lost' = lost \cup {x[1] : x \in call[c].got}
    /\ Goes(c, Idle)
    /\ UNCHANGED <<handed, shown>>

(***************************************************************************)
(* The handle.                                                             *)
(***************************************************************************)
NoHandle == [child |-> "none", exited |-> FALSE, ended |-> FALSE, bytes |-> 0, failed |-> FALSE]

\* shutdown(): the child reaped, the capture ended; a descendant's bytes may still
\* arrive during the bounded drain.
Down(h, n) == [h EXCEPT !.child = "gone", !.exited = TRUE, !.ended = TRUE, !.bytes = n]
Drained(h) == {Down(h, n) : n \in h.bytes .. (IF h.ended THEN h.bytes ELSE MaxBytes)}

Writes(i) ==
    /\ handle[i].child # "none" /\ ~handle[i].ended
    /\ handle[i].bytes < MaxBytes
    /\ handle' = [handle EXCEPT ![i].bytes = @ + 1]
    /\ UNCHANGED <<storeVars, call, historyVars, made>>

\* Exit, its observation by the watcher, and the end of the capture come one after
\* the other; a failure may be latched at any time.
Lives(i) ==
    /\ \/ handle[i].child = "alive" /\ handle' = [handle EXCEPT ![i].child = "gone"]
       \/ /\ handle[i].child = "gone" /\ ~handle[i].exited
          /\ handle' = [handle EXCEPT ![i].exited = TRUE]
       \/ /\ handle[i].child = "gone" /\ ~handle[i].ended
          /\ handle' = [handle EXCEPT ![i].ended = TRUE]
       \/ /\ handle[i].child # "none" /\ ~handle[i].failed
          /\ handle' = [handle EXCEPT ![i].failed = TRUE]
    /\ UNCHANGED <<storeVars, call, historyVars, made>>

(***************************************************************************)
(* spawn() and launch_and_report().                                        *)
(***************************************************************************)
\* Mutant of Reserve: sessions still starting do not count.
MutantReserve(c) ==
    /\ AtPlace(c, "idle") /\ made < MaxCalls /\ nextId <= MaxIds
    /\ made' = made + 1
    /\ IF Cardinality(sessions) >= MaxSessions
         THEN UNCHANGED <<pendingSpawns, call>>
         ELSE /\ pendingSpawns' = pendingSpawns + 1
              /\ Goes(c, [Idle EXCEPT !.place = "launch", !.reserved = TRUE])
    /\ UNCHANGED <<handle, sessions, nextId, cursor, historyVars>>

\* A slot is reserved for the whole startup; a full store refuses.
Reserve(c) ==
    /\ AtPlace(c, "idle") /\ made < MaxCalls /\ nextId <= MaxIds
    /\ made' = made + 1
    /\ IF Cardinality(sessions) + pendingSpawns >= MaxSessions
         THEN UNCHANGED <<pendingSpawns, call>>
         ELSE /\ pendingSpawns' = pendingSpawns + 1
              /\ Goes(c, [Idle EXCEPT !.place = "launch", !.reserved = TRUE])
    /\ UNCHANGED <<handle, sessions, nextId, cursor, historyVars>>

\* The constructor launches the child or throws; ids are never used twice.
Launch(c) ==
    /\ AtPlace(c, "launch") /\ nextId <= MaxIds
    /\ \/ /\ handle' = [handle EXCEPT ![nextId] = [NoHandle EXCEPT !.child = "alive"]]
          /\ nextId' = nextId + 1
          /\ Goes(c, [call[c] EXCEPT !.place = "start", !.id = nextId])
          /\ UNCHANGED pendingSpawns
       \/ /\ pendingSpawns' = pendingSpawns - 1
          /\ Goes(c, Idle)
          /\ UNCHANGED <<handle, nextId>>
    /\ UNCHANGED <<sessions, cursor, historyVars, made>>

Publish(c) ==
    /\ sessions' = sessions \cup {call[c].id}
    /\ pendingSpawns' = pendingSpawns - 1
    /\ \E window \in BOOLEAN :
          Goes(c, [call[c] EXCEPT !.place = IF window THEN "initial" ELSE "report",
                                  !.reserved = FALSE])

\* Mutant of StartAndPublish: a failed startup leaves the child to itself.
MutantStartAndPublish(c) ==
    /\ AtPlace(c, "start")
    /\ \/ Publish(c)
       \/ Goes(c, Idle) /\ pendingSpawns' = pendingSpawns - 1 /\ UNCHANGED sessions
    /\ UNCHANGED <<handle, nextId, cursor, historyVars, made>>

\* start_background_io_tasks(), then publish_session(); a window of zero returns
\* without a wait.  A failure rolls the whole child back.
StartAndPublish(c) ==
    /\ AtPlace(c, "start")
    /\ Publish(c) \/ (Moves(c, "rollback") /\ UNCHANGED <<sessions, pendingSpawns>>)
    /\ UNCHANGED <<handle, nextId, cursor, historyVars, made>>

\* The initial window: over, the child finished (drained or not), or the call is
\* cancelled.
InitialWait(c) ==
    /\ AtPlace(c, "initial")
    /\ LET h == handle[call[c].id] IN
       \/ Goes(c, [call[c] EXCEPT !.place = "report", !.finished = h.exited,
                                 !.drained = h.exited /\ h.ended])
       \/ Moves(c, "rollback")
    /\ UNCHANGED <<handle, storeVars, historyVars, made>>

\* Shutdown, whatever it throws; then the table entry goes, and the reservation
\* when the session was not published.
Rollback(c) ==
    LET i == call[c].id IN
    \/ /\ AtPlace(c, "rollback")
       /\ \E h \in Drained(handle[i]) : handle' = [handle EXCEPT ![i] = h]
       /\ Moves(c, "erase")
       /\ UNCHANGED <<storeVars, historyVars, made>>
    \/ /\ AtPlace(c, "erase")
       /\ sessions' = sessions \ {i}
       /\ pendingSpawns' = IF call[c].reserved THEN pendingSpawns - 1 ELSE pendingSpawns
       /\ dropped' = dropped \cup {i}
       /\ Goes(c, Idle)
       /\ UNCHANGED <<handle, nextId, cursor, handed, shown, lost, releases, made>>

\* text_prefix(): a suffix that may still become a character stays unread.
Taken(h, from) == IF h.ended \/ h.bytes % 2 = 0 THEN h.bytes ELSE h.bytes - 1

\* launch_and_report(): a finished child's whole capture is read, the cursor left
\* alone; a drained one is then released when the call asked for it.
Report(c) ==
    LET i == call[c].id IN
    /\ AtPlace(c, "report")
    /\ IF ~call[c].finished \/ i \notin sessions
         THEN Returns(c, call[c])
         ELSE /\ \E auto \in BOOLEAN :
                   Goes(c, [call[c] EXCEPT !.whole = {<<i, b>> : b \in 1 .. Taken(handle[i], 0)},
                              !.place = IF auto /\ call[c].drained THEN "release" ELSE "answer"])
              /\ UNCHANGED <<handed, shown, lost>>
    /\ UNCHANGED <<handle, storeVars, dropped, releases, made>>

(***************************************************************************)
(* release() and read_session().                                           *)
(***************************************************************************)
\* remove_session(): lookup, comparison and removal are one critical section.
RemoveSession(i) ==
    /\ sessions' = sessions \ {i}
    /\ releases' = IF i \in sessions THEN [releases EXCEPT ![i] = @ + 1] ELSE releases

\* release(): refused for a running child; the shutdown fence comes first and may
\* throw, which keeps the session.
Release(c) ==
    LET i == call[c].id IN
    /\ AtPlace(c, "release")
    /\ IF i \notin sessions \/ ~handle[i].exited
         THEN Moves(c, "answer") /\ UNCHANGED <<handle, lost, handed, shown>>
         ELSE /\ \E h \in Drained(handle[i]) : handle' = [handle EXCEPT ![i] = h]
              /\ IF handle[i].failed THEN Throws(c)
                 ELSE Moves(c, "remove") /\ UNCHANGED <<lost, handed, shown>>
    /\ UNCHANGED <<storeVars, dropped, releases, made>>

Answer(c) ==
    /\ call[c].place \in {"answer", "remove"}
    /\ Returns(c, call[c])
    /\ IF AtPlace(c, "remove") THEN RemoveSession(call[c].id) ELSE UNCHANGED <<sessions, releases>>
    /\ UNCHANGED <<handle, pendingSpawns, nextId, cursor, dropped, made>>

\* read_session() of the next session: what is gone is skipped (a read_process then
\* fails with "no such session").
Find(c, i, frame) ==
    LET finish == frame.release /\ handle[i].exited IN
    IF i \in sessions
      THEN Goes(c, [frame EXCEPT !.id = i, !.finish = finish,
                                 !.place = IF finish THEN "fence" ELSE "take"])
      ELSE Goes(c, [frame EXCEPT !.place = "next"])

ReadProcess(c) ==
    /\ AtPlace(c, "idle") /\ made < MaxCalls
    /\ made' = made + 1
    /\ \E i \in 1 .. nextId - 1, full \in BOOLEAN, release \in BOOLEAN :
          Find(c, i, [Idle EXCEPT !.full = full, !.release = release, !.output = TRUE])
    /\ UNCHANGED <<handle, storeVars, historyVars>>

\* poll_process: the selection is made once; the wait ends with a finished session,
\* an empty selection or the deadline, so it may end at any time.
PollProcess(c) ==
    /\ AtPlace(c, "idle") /\ made < MaxCalls
    /\ made' = made + 1
    /\ \E output \in BOOLEAN, release \in BOOLEAN :
          Goes(c, [Idle EXCEPT !.place = "next", !.output = output, !.release = release,
                               !.todo = sessions])
    /\ UNCHANGED <<handle, storeVars, historyVars>>

\* The reads of a poll follow the order of the ids.
NextRead(c) ==
    /\ AtPlace(c, "next")
    /\ IF call[c].todo = {}
         THEN Returns(c, call[c])
         ELSE /\ LET i == CHOOSE x \in call[c].todo : \A y \in call[c].todo : x <= y
                 IN  Find(c, i, [call[c] EXCEPT !.todo = @ \ {i}])
              /\ UNCHANGED <<handed, shown, lost>>
    /\ UNCHANGED <<handle, storeVars, dropped, releases, made>>

\* Mutant of Fence: the child is released as it is.
MutantFence(c) ==
    /\ AtPlace(c, "fence")
    /\ Moves(c, "take")
    /\ UNCHANGED <<handle, storeVars, historyVars, made>>

\* A release first shuts the handle down; a latched failure ends the whole call.
Fence(c) ==
    /\ AtPlace(c, "fence")
    /\ \E h \in Drained(handle[call[c].id]) : handle' = [handle EXCEPT ![call[c].id] = h]
    /\ IF handle[call[c].id].failed THEN Throws(c)
       ELSE Moves(c, "take") /\ UNCHANGED <<handed, shown, lost>>
    /\ UNCHANGED <<storeVars, dropped, releases, made>>

\* read_output(): projection and cursor are one section on the session's strand.
Take(c) ==
    LET i == call[c].id
        to == Taken(handle[i], cursor[i])
    IN  /\ AtPlace(c, "take")
        /\ \/ ~call[c].output /\ Moves(c, "settle") /\ UNCHANGED cursor
           \/ /\ call[c].output /\ call[c].full
              /\ Goes(c, [call[c] EXCEPT !.place = "settle",
                                        !.whole = @ \cup {<<i, b>> : b \in 1 .. to}])
              /\ UNCHANGED cursor
           \/ /\ call[c].output /\ ~call[c].full
              /\ Goes(c, [call[c] EXCEPT !.place = "settle",
                                        !.got = @ \cup {<<i, b>> : b \in cursor[i] + 1 .. to}])
              /\ cursor' = [cursor EXCEPT ![i] = to]
        /\ UNCHANGED <<handle, sessions, pendingSpawns, nextId, historyVars, made>>

\* The removal, and on to the next session; a status-only release gives up what is
\* unread.
SettleRead(c) ==
    LET i == call[c].id IN
    /\ AtPlace(c, "settle")
    /\ Moves(c, "next")
    /\ IF call[c].finish THEN RemoveSession(i) ELSE UNCHANGED <<sessions, releases>>
    /\ dropped' = IF call[c].finish /\ ~call[c].output THEN dropped \cup {i} ELSE dropped
    /\ UNCHANGED <<handle, pendingSpawns, nextId, cursor, handed, shown, lost, made>>

\* send_process with a signal: the child dies, its end is observed later.
SendProcess(c) ==
    /\ AtPlace(c, "idle") /\ made < MaxCalls
    /\ made' = made + 1
    /\ \E i \in sessions :
          /\ handle[i].child = "alive"
          /\ handle' = [handle EXCEPT ![i].child = "gone"]
    /\ UNCHANGED <<storeVars, call, historyVars>>

\* shutdown(): every handle, whatever another one throws; then the table.  The
\* header forbids a concurrent spawn or release.
StoreShutdown ==
    /\ \A c \in Calls : AtPlace(c, "idle")
    /\ sessions # {}
    /\ handle' = [i \in Ids |-> IF i \in sessions THEN Down(handle[i], handle[i].bytes)
                                                  ELSE handle[i]]
    /\ sessions' = {}
    /\ dropped' = dropped \cup sessions
    /\ UNCHANGED <<pendingSpawns, nextId, cursor, call, handed, shown, lost, releases, made>>

(***************************************************************************)
(* The specification.                                                      *)
(***************************************************************************)
SessionInit ==
    /\ handle = [i \in Ids |-> NoHandle]
    /\ sessions = {}
    /\ pendingSpawns = 0
    /\ nextId = 1
    /\ cursor = [i \in Ids |-> 0]
    /\ call = [c \in Calls |-> Idle]
    /\ handed = [x \in Ids \X (1 .. MaxBytes) |-> 0]
    /\ shown = {}
    /\ dropped = {}
    /\ lost = {}
    /\ releases = [i \in Ids |-> 0]
    /\ made = 0

SessionNext ==
    \/ \E i \in Ids : Writes(i) \/ Lives(i)
    \/ \E c \in Calls :
          \/ Reserve(c) \/ Launch(c) \/ StartAndPublish(c) \/ InitialWait(c) \/ Rollback(c) \/ Report(c)
          \/ Release(c) \/ Answer(c)
          \/ ReadProcess(c) \/ PollProcess(c) \/ NextRead(c) \/ Fence(c) \/ Take(c) \/ SettleRead(c)
          \/ SendProcess(c)
    \/ StoreShutdown

SessionSpec == SessionInit /\ [][SessionNext]_sessionVars

(***************************************************************************)
(* Properties.                                                             *)
(***************************************************************************)
\* Sessions and reservations never exceed the capacity, and every reservation
\* belongs to a spawn still under way, whatever fails or is cancelled.
CapacityHolds ==
    /\ Cardinality(sessions) + pendingSpawns <= MaxSessions
    /\ pendingSpawns = Cardinality({c \in Calls : call[c].reserved})

\* A child that runs, or whose capture runs, can be reached: it is in the table or
\* a spawn still owns it.
NoOrphan ==
    \A i \in Ids :
        handle[i].child # "none" =>
            \/ i \in sessions
            \/ \E c \in Calls : call[c].id = i
            \/ handle[i].child = "gone" /\ handle[i].ended

\* Consuming readers get every byte once, in pieces that never cut a character
\* open before the capture has ended, and a session leaves the table only when all
\* that was captured has been taken by a call, unless a caller gave it up
\* or the call failed at a later session.
OutputOnce ==
    /\ \A x \in DOMAIN handed : handed[x] <= 1
    /\ \A i \in Ids :
          /\ cursor[i] % 2 = 1 => handle[i].ended
          /\ releases[i] > 0 /\ i \notin dropped \cup lost =>
                \A b \in 1 .. handle[i].bytes :
                    \/ handed[<<i, b>>] = 1
                    \/ <<i, b>> \in shown
                    \/ \E c \in Calls : <<i, b>> \in call[c].got \cup call[c].whole
=============================================================================
