--------------------------- MODULE StoreContract ---------------------------
(***************************************************************************)
(* The two backends against the contract of the interface they implement   *)
(* (StateStore), with the proofs, for every set of states and archives and *)
(* for writes, failures and crashes without bound; and what opening the    *)
(* file (StoreFile) and one connection (SqlTransactions) promise below it. *)
(***************************************************************************)
EXTENDS SqliteStore, JsonStore, StoreFile, SqlTransactions, FiniteSetTheorems,
        WellFoundedInduction, TLAPS

\* Both backends implement the contract of the interface, StateStore: a receipt means
\* the write is durable, "not_committed" that nothing changed, and after an unknown
\* outcome no write begins before the store is opened again.
BackendsKeepContract == Contract /\ JsonContract

\* Through every crash, lost write and failed step of a compaction: an archive says
\* "succeeded" exactly when its replacement became the state, the conversation the
\* state was made from stays archived, retention holds and removes nothing that is
\* named, no identity leaks, and memory.md follows the snapshot (SqliteStore and
\* JsonStore: the properties named here).
ArchivesAccount ==
    /\ SqliteTypeOK /\ NoSpuriousRefusal /\ SettledTruth
    /\ EvidenceKept /\ RetentionHolds /\ NoReservationLeak
    /\ ArchivesComplete /\ NamedArchivesStay /\ MemoryFollows

\* Opening a store leaves a refused file as it was and accepts only a whole one, of its
\* own; and what a connection holds is what its statements, budgets and transactions
\* were reported to do (StoreFile and SqlTransactions: the properties named here).
FileIsAsReported ==
    /\ RefusedUntouched /\ AcceptedIsWhole /\ NothingAdopted
    /\ FileIsWhatWasReported /\ BudgetInForce

(***************************************************************************)
(* The SQLite backend.  Why a committed transaction never does what the    *)
(* contract forbids depends on who calls it: a new archive is frozen under *)
(* an identity that no content, current or surviving, has ever named; and  *)
(* by the time the worker settles or prunes, this process has committed    *)
(* T1, so reconcile() has nothing left to rewrite under the mutation.      *)
(***************************************************************************)
\* The stages of write() before its COMMIT.
Before == {"open", "schema", "transaction"}

\* An archive has these columns.
Row(r) ==
    r = [sequence |-> r.sequence, outcome |-> r.outcome, base |-> r.base, original |-> r.original]

\* The shape of a content, whatever the values.
IsContent(d) ==
    /\ d = [rev |-> d.rev, state |-> d.state, archives |-> d.archives,
            replaced |-> d.replaced, basis |-> d.basis]
    /\ d.archives = [id \in DOMAIN d.archives |-> d.archives[id]]
    /\ \A id \in DOMAIN d.archives : Row(d.archives[id])
    /\ d.rev \in Nat

\* A content that no sequence of writes and losses falsifies.
SoundContent(d) ==
    /\ IsContent(d)
    /\ \A id \in DOMAIN d.archives : d.archives[id].outcome = "succeeded" <=> id \in d.replaced
    /\ d.basis # None => d.basis \in DOMAIN d.archives
    /\ DOMAIN d.archives \cup d.replaced \subseteq drawn

\* An attempt that may still be settled, and an identity that names nothing yet.
Waiting(id) == id \in Prepared(db) /\ db.archives[id].base = db.rev
Unused(id) ==
    /\ id \in mine \cap drawn
    /\ id \notin DOMAIN db.archives \cup db.replaced
    /\ id # None

\* What is stored: the committed content and the one a power loss leaves.
SqStored ==
    /\ SoundContent(db)
    /\ SoundContent(kept.db)
    /\ kept = [file |-> kept.file, db |-> kept.db]
    /\ reconciled \/ stage = "sync" => Prepared(db) \subseteq mine

\* Where write() is: before COMMIT nothing has changed, and no call begins once an
\* outcome is unknown.
SqWriting ==
    /\ stage \in Before \cup {"none", "sync"}
    /\ {uncertain, storageFailed, reconciled, up} \subseteq BOOLEAN
    /\ drawn \subseteq Ids
    /\ answer = "pending" <=> stage # "none"
    /\ stage \in Before => before = db
    /\ storageFailed => stage = "none" /\ at = "idle"
    /\ ~up => stage = "none" /\ at = "idle"
    /\ uncertain => storageFailed

\* What the worker holds: the revision, the reservation and the attempt.
SqCaller ==
    /\ at \in {"idle", "reserved", "prepared", "cleanup"}
    /\ reserved = IF at = "reserved" /\ stage = "none" THEN {attempt} ELSE {}
    /\ at = "reserved" /\ stage \in Before \cup {"none"} => Unused(attempt)
    /\ at \in {"prepared", "cleanup"} \/ (at = "reserved" /\ stage = "sync") =>
          db.basis = attempt /\ attempt # None
    /\ at \in {"prepared", "cleanup"} => reconciled
    /\ at = "prepared" /\ stage # "sync" => Waiting(attempt)
    /\ at = "reserved" /\ stage = "sync" => Waiting(attempt)
    /\ up /\ ~storageFailed /\ (stage # "sync" \/ call.kind \in {"finish", "prune"}) => Fresh

\* The call in progress belongs to where the worker is.
SqCall ==
    stage # "none" =>
        /\ call.kind \in Kinds
        /\ call.kind = "checkpoint" <=> at = "idle"
        /\ call.kind = "begin" <=> at = "reserved"
        /\ call.kind \in {"commit", "finish"} <=> at = "prepared"
        /\ call.kind = "prune" <=> at = "cleanup"
        /\ call.kind # "checkpoint" => call.id = attempt
        /\ call.kind = "finish" => call.outcome \in {"failed", "cancelled"}

SqInv == SqStored /\ SqWriting /\ SqCaller /\ SqCall

\* The mutations, column by column.
SameButOutcome(r, q) ==
    Row(q) /\ q.base = r.base /\ q.original = r.original /\ q.sequence = r.sequence

LEMMA SetOutcomeParts ==
    ASSUME NEW d, IsContent(d), NEW ids, NEW o, NEW e, e = SetOutcome(d, ids, o)
    PROVE  /\ IsContent(e) /\ e.rev = d.rev /\ e.state = d.state /\ e.replaced = d.replaced
           /\ e.basis = d.basis /\ DOMAIN e.archives = DOMAIN d.archives
           /\ \A id \in DOMAIN d.archives :
                 /\ SameButOutcome(d.archives[id], e.archives[id])
                 /\ e.archives[id].outcome = IF id \in ids THEN o ELSE d.archives[id].outcome
  <1>1. \A r : Row(r) => LET q == [r EXCEPT !.outcome = o] IN SameButOutcome(r, q) /\ q.outcome = o
    BY DEF Row, SameButOutcome
  <1>2. DEFINE A == [id \in DOMAIN d.archives |->
                        IF id \in ids THEN [d.archives[id] EXCEPT !.outcome = o] ELSE d.archives[id]]
  <1>3. /\ DOMAIN A = DOMAIN d.archives
        /\ \A id \in DOMAIN d.archives :
              /\ SameButOutcome(d.archives[id], A[id])
              /\ A[id].outcome = IF id \in ids THEN o ELSE d.archives[id].outcome
    BY <1>1 DEF IsContent, SameButOutcome
  <1>4. /\ e.rev = d.rev /\ e.state = d.state /\ e.replaced = d.replaced /\ e.basis = d.basis
        /\ e.archives = A
        /\ e = [rev |-> e.rev, state |-> e.state, archives |-> e.archives,
                replaced |-> e.replaced, basis |-> e.basis]
    BY DEF SetOutcome, IsContent
  <1>5. A = [id \in DOMAIN A |-> A[id]]
    OBVIOUS
  <1>. HIDE DEF A
  <1>6. \A id \in DOMAIN A : Row(A[id])
    BY <1>3 DEF SameButOutcome
  <1>7. d.rev \in Nat
    BY DEF IsContent
  <1>8. IsContent(e)
    BY <1>4, <1>5, <1>6, <1>7 DEF IsContent
  <1>. QED  BY <1>3, <1>4, <1>8

LEMMA ReplacedParts ==
    ASSUME NEW d, IsContent(d), NEW s, NEW e, e = Replaced(d, s)
    PROVE  /\ IsContent(e) /\ e.rev = d.rev + 1 /\ e.state = s /\ e.archives = d.archives
           /\ e.replaced = d.replaced /\ e.basis = None
  <1>1. /\ e.rev = d.rev + 1 /\ e.state = s /\ e.archives = d.archives
        /\ e.replaced = d.replaced /\ e.basis = None
        /\ e = [rev |-> e.rev, state |-> e.state, archives |-> e.archives,
                replaced |-> e.replaced, basis |-> e.basis]
    BY DEF Replaced, IsContent
  <1>2. d.rev + 1 \in Nat
    BY DEF IsContent
  <1>. QED  BY <1>1, <1>2 DEF IsContent

NextSequence(d) == Max({0} \cup {d.archives[a].sequence : a \in DOMAIN d.archives}) + 1

LEMMA BegunParts ==
    ASSUME NEW d, IsContent(d), NEW id, NEW s, NEW e, e = Begun(d, id, s), id \notin DOMAIN d.archives
    PROVE  /\ IsContent(e) /\ e.rev = d.rev + 1 /\ e.state = s /\ e.replaced = d.replaced
           /\ e.basis = id
           /\ DOMAIN e.archives = DOMAIN d.archives \cup {id}
           /\ \A a \in DOMAIN d.archives : e.archives[a] = d.archives[a]
           /\ e.archives[id].outcome = "prepared" /\ e.archives[id].base = e.rev
           /\ e.archives[id].original = s
           /\ e.archives[id].sequence = NextSequence(d)
  <1>. DEFINE r == Replaced(d, s)
              previous == Max({0} \cup {d.archives[a].sequence : a \in DOMAIN d.archives})
              row == [sequence |-> previous + 1, outcome |-> "prepared", base |-> r.rev, original |-> s]
              A == [a \in DOMAIN d.archives \cup {id} |-> IF a = id THEN row ELSE d.archives[a]]
  <1>1. e = [r EXCEPT !.basis = id, !.archives = A]
    BY DEF Begun
  <1>2. /\ IsContent(r) /\ r.rev = d.rev + 1 /\ r.state = s /\ r.archives = d.archives
        /\ r.replaced = d.replaced
    BY ReplacedParts
  <1>3. /\ Row(row) /\ row.outcome = "prepared" /\ row.base = r.rev /\ row.original = s
        /\ row.sequence = previous + 1
    BY DEF Row
  <1>. HIDE DEF r, row, previous
  <1>4. /\ DOMAIN A = DOMAIN d.archives \cup {id} /\ A[id] = row
        /\ \A a \in DOMAIN d.archives : A[a] = d.archives[a]
        /\ A = [a \in DOMAIN A |-> A[a]]
    OBVIOUS
  <1>. HIDE DEF A
  <1>5. \A a \in DOMAIN A : Row(A[a])
    BY <1>3, <1>4 DEF IsContent
  <1>6. /\ e.rev = r.rev /\ e.state = s /\ e.replaced = d.replaced /\ e.basis = id /\ e.archives = A
        /\ e = [rev |-> e.rev, state |-> e.state, archives |-> e.archives,
                replaced |-> e.replaced, basis |-> e.basis]
    BY <1>1, <1>2 DEF IsContent
  <1>7. d.rev + 1 \in Nat
    BY DEF IsContent
  <1>8. IsContent(e)
    BY <1>2, <1>4, <1>5, <1>6, <1>7 DEF IsContent
  <1>. QED  BY <1>2, <1>3, <1>4, <1>6, <1>8 DEF previous, NextSequence

LEMMA CommittedParts ==
    ASSUME NEW d, IsContent(d), NEW id, NEW s, NEW e, e = Committed(d, id, s)
    PROVE  /\ IsContent(e) /\ e.rev = d.rev + 1 /\ e.state = s /\ e.replaced = d.replaced \cup {id}
           /\ e.basis = id /\ DOMAIN e.archives = DOMAIN d.archives
           /\ \A a \in DOMAIN d.archives :
                 /\ SameButOutcome(d.archives[a], e.archives[a])
                 /\ e.archives[a].outcome = IF a = id THEN "succeeded" ELSE d.archives[a].outcome
  <1>. DEFINE r == Replaced(d, s)
              q == SetOutcome(r, {id}, "succeeded")
  <1>1. e = [q EXCEPT !.replaced = @ \cup {id}, !.basis = id]
    BY DEF Committed
  <1>2. /\ IsContent(r) /\ r.rev = d.rev + 1 /\ r.state = s /\ r.archives = d.archives
        /\ r.replaced = d.replaced
    BY ReplacedParts
  <1>. HIDE DEF r
  <1>3. /\ IsContent(q) /\ q.rev = r.rev /\ q.state = r.state /\ q.replaced = r.replaced
        /\ DOMAIN q.archives = DOMAIN r.archives
        /\ \A a \in DOMAIN r.archives :
              /\ SameButOutcome(r.archives[a], q.archives[a])
              /\ q.archives[a].outcome = IF a \in {id} THEN "succeeded" ELSE r.archives[a].outcome
    BY <1>2, SetOutcomeParts
  <1>. HIDE DEF q
  <1>4. /\ IsContent(e) /\ e.rev = q.rev /\ e.state = q.state /\ e.archives = q.archives
        /\ e.replaced = q.replaced \cup {id} /\ e.basis = id
    BY <1>1, <1>3 DEF IsContent
  <1>. QED  BY <1>2, <1>3, <1>4

LEMMA PrunedParts ==
    ASSUME NEW d, IsContent(d), NEW id, NEW e, e = Pruned(d, id)
    PROVE  /\ IsContent(e) /\ e.rev = d.rev /\ e.state = d.state /\ e.replaced = d.replaced
           /\ e.basis = d.basis /\ DOMAIN e.archives \subseteq DOMAIN d.archives
           /\ \A a \in DOMAIN e.archives : e.archives[a] = d.archives[a]
           /\ \A a \in DOMAIN d.archives :
                 a = id \/ d.archives[a].outcome = "prepared" => a \in DOMAIN e.archives
  <1>. DEFINE Safe == Protected(d, id)
              Newer(i) == {a \in DOMAIN d.archives \ Safe :
                              d.archives[a].sequence > d.archives[i].sequence}
              Stays == {i \in DOMAIN d.archives :
                           \/ MaxArchives = 0
                           \/ i \in Safe
                           \/ Cardinality(Safe) + Cardinality(Newer(i)) < MaxArchives}
              A == [i \in Stays |-> d.archives[i]]
  <1>1. e = [d EXCEPT !.archives = A]
    BY DEF Pruned
  <1>2. id \in Safe /\ \A a \in DOMAIN d.archives : d.archives[a].outcome = "prepared" => a \in Safe
    BY DEF Protected
  <1>3. Stays \subseteq DOMAIN d.archives /\ Safe \cap DOMAIN d.archives \subseteq Stays
    OBVIOUS
  <1>. HIDE DEF Safe, Stays
  <1>4. DOMAIN A = Stays /\ (\A a \in Stays : A[a] = d.archives[a]) /\ A = [a \in DOMAIN A |-> A[a]]
    OBVIOUS
  <1>. HIDE DEF A
  <1>5. /\ e.rev = d.rev /\ e.state = d.state /\ e.replaced = d.replaced /\ e.basis = d.basis
        /\ e.archives = A
        /\ e = [rev |-> e.rev, state |-> e.state, archives |-> e.archives,
                replaced |-> e.replaced, basis |-> e.basis]
    BY <1>1 DEF IsContent
  <1>6. (\A a \in DOMAIN A : Row(A[a])) /\ d.rev \in Nat
    BY <1>3, <1>4 DEF IsContent
  <1>7. IsContent(e)
    BY <1>4, <1>5, <1>6 DEF IsContent
  <1>. QED  BY <1>2, <1>3, <1>4, <1>5, <1>7

\* What one transaction changes, row by row.
Change(c, d, e) ==
    /\ IsContent(e)
    /\ \A a \in DOMAIN d.archives \cap DOMAIN e.archives :
          SameButOutcome(d.archives[a], e.archives[a])
    /\ CASE c.kind = "checkpoint" ->
              /\ e.rev = d.rev + 1 /\ e.replaced = d.replaced /\ e.basis = None
              /\ DOMAIN e.archives = DOMAIN d.archives
         [] c.kind = "begin" ->
              /\ e.rev = d.rev + 1 /\ e.replaced = d.replaced /\ e.basis = c.id
              /\ DOMAIN e.archives = DOMAIN d.archives \cup {c.id}
              /\ e.archives[c.id].outcome = "prepared" /\ e.archives[c.id].base = e.rev
              /\ e.archives[c.id].original = e.state
              /\ e.archives[c.id].sequence = NextSequence(d)
         [] c.kind = "commit" ->
              /\ e.rev = d.rev + 1 /\ e.replaced = d.replaced \cup {c.id} /\ e.basis = c.id
              /\ DOMAIN e.archives = DOMAIN d.archives
              /\ e.archives[c.id].outcome = "succeeded"
         [] c.kind = "finish" ->
              /\ e.rev = d.rev /\ e.replaced = d.replaced /\ e.basis = d.basis
              /\ DOMAIN e.archives = DOMAIN d.archives
         [] c.kind = "prune" ->
              /\ e.rev = d.rev /\ e.replaced = d.replaced /\ e.basis = d.basis
              /\ DOMAIN e.archives \subseteq DOMAIN d.archives
              /\ \A a \in DOMAIN d.archives \ DOMAIN e.archives :
                    a # c.id /\ d.archives[a].outcome # "prepared"
    /\ \A a \in DOMAIN d.archives \cap DOMAIN e.archives :
          \/ e.archives[a].outcome = d.archives[a].outcome
          \/ d.archives[a].outcome = "prepared" /\
             \/ e.archives[a].outcome \in {"interrupted", "failed", "cancelled"}
             \/ c.kind = "commit" /\ a = c.id /\ e.archives[a].outcome = "succeeded"
    /\ e.state = IF c.kind \in {"checkpoint", "begin", "commit"} THEN c.state ELSE d.state

LEMMA OutcomeChange ==
    ASSUME SqInv, stage = "transaction", Admissible(call), NEW e, e = Outcome(call)
    PROVE  /\ Change(call, db, e)
           /\ Prepared(e) \subseteq mine
  <1>1. IsContent(db) /\ call.kind \in Kinds
    BY DEF SqInv, SqStored, SqCall, SoundContent
  <1>2. call.kind \in {"commit", "finish", "prune"} => reconciled
    BY DEF SqInv, SqCall, SqCaller
  <1>3. call.kind = "begin" => call.id \notin DOMAIN db.archives /\ call.id \in mine
    BY DEF SqInv, SqCall, SqCaller, Unused, Before
  <1>4. reconciled => Prepared(db) \subseteq mine
    BY DEF SqInv, SqStored
  <1>. DEFINE d == IF reconciled THEN db
                   ELSE Reconcile(db, IF call.kind \in {"checkpoint", "begin"} THEN None ELSE call.id)
  <1>5. /\ IsContent(d) /\ d.rev = db.rev /\ d.state = db.state /\ d.replaced = db.replaced
        /\ d.basis = db.basis /\ DOMAIN d.archives = DOMAIN db.archives
        /\ \A a \in DOMAIN db.archives :
              /\ SameButOutcome(db.archives[a], d.archives[a])
              /\ \/ d.archives[a].outcome = db.archives[a].outcome
                 \/ ~reconciled /\ db.archives[a].outcome = "prepared" /\ d.archives[a].outcome = "interrupted"
        /\ call.kind \in {"checkpoint", "begin"} => Prepared(d) \subseteq mine
        /\ reconciled => d = db
    <2>1. CASE reconciled
      BY <1>1, <1>4, <2>1 DEF SameButOutcome, IsContent
    <2>2. CASE ~reconciled
      <3>. DEFINE target == IF call.kind \in {"checkpoint", "begin"} THEN None ELSE call.id
                  ids == Prepared(db) \ {target}
      <3>1. d = SetOutcome(db, ids, "interrupted")
        BY <2>2 DEF Reconcile
      <3>2. None \notin DOMAIN db.archives
        BY StoreConstants DEF SqInv, SqStored, SqWriting, SoundContent
      <3>3. call.kind \in {"checkpoint", "begin"} => ids = Prepared(db)
        BY <3>2 DEF Prepared
      <3>4. \A a \in ids : db.archives[a].outcome = "prepared"
        BY DEF Prepared
      <3>. HIDE DEF d, ids
      <3>5. /\ IsContent(d) /\ d.rev = db.rev /\ d.state = db.state /\ d.replaced = db.replaced
            /\ d.basis = db.basis /\ DOMAIN d.archives = DOMAIN db.archives
            /\ \A a \in DOMAIN db.archives :
                  /\ SameButOutcome(db.archives[a], d.archives[a])
                  /\ d.archives[a].outcome = IF a \in ids THEN "interrupted" ELSE db.archives[a].outcome
        BY <1>1, <3>1, SetOutcomeParts
      <3>6. call.kind \in {"checkpoint", "begin"} => Prepared(d) = {}
        BY <3>3, <3>5 DEF Prepared
      <3>. QED  BY <2>2, <3>4, <3>5, <3>6
    <2>. QED  BY <2>1, <2>2
  <1>6. CASE call.kind = "checkpoint"
    <2>1. e = Replaced(d, call.state)
      BY <1>6 DEF Outcome
    <2>. HIDE DEF d
    <2>2. /\ IsContent(e) /\ e.rev = d.rev + 1 /\ e.state = call.state /\ e.archives = d.archives
          /\ e.replaced = d.replaced /\ e.basis = None
      BY <1>5, <2>1, ReplacedParts
    <2>. QED  BY <1>5, <1>6, <2>2 DEF Change, Prepared
  <1>7. CASE call.kind = "begin"
    <2>1. e = Begun(d, call.id, call.state)
      BY <1>7 DEF Outcome
    <2>. HIDE DEF d
    <2>2. /\ IsContent(e) /\ e.rev = d.rev + 1 /\ e.state = call.state /\ e.replaced = d.replaced
          /\ e.basis = call.id
          /\ DOMAIN e.archives = DOMAIN d.archives \cup {call.id}
          /\ \A a \in DOMAIN d.archives : e.archives[a] = d.archives[a]
          /\ e.archives[call.id].outcome = "prepared" /\ e.archives[call.id].base = e.rev
          /\ e.archives[call.id].original = call.state
          /\ e.archives[call.id].sequence = NextSequence(d)
      BY <1>3, <1>5, <1>7, <2>1, BegunParts
    <2>3. NextSequence(d) = NextSequence(db)
      <3>1. {d.archives[a].sequence : a \in DOMAIN d.archives} =
               {db.archives[a].sequence : a \in DOMAIN db.archives}
        BY <1>5 DEF SameButOutcome
      <3>. QED  BY <3>1 DEF NextSequence
    <2>5. Change(call, db, e)
      BY <1>3, <1>5, <1>7, <2>2, <2>3 DEF Change
    <2>4. Prepared(e) \subseteq mine
      BY <1>3, <1>5, <1>7, <2>2 DEF Prepared
    <2>. QED  BY <2>4, <2>5
  <1>8. CASE call.kind = "commit"
    <2>1. e = Committed(d, call.id, call.state)
      BY <1>8 DEF Outcome
    <2>2. db.archives[call.id].outcome = "prepared" /\ call.id \in DOMAIN db.archives
      BY <1>8 DEF Admissible, Prepared
    <2>3. d = db
      BY <1>2, <1>8
    <2>. HIDE DEF d
    <2>4. /\ IsContent(e) /\ e.rev = d.rev + 1 /\ e.state = call.state
          /\ e.replaced = d.replaced \cup {call.id}
          /\ e.basis = call.id /\ DOMAIN e.archives = DOMAIN d.archives
          /\ \A a \in DOMAIN d.archives :
                /\ SameButOutcome(d.archives[a], e.archives[a])
                /\ e.archives[a].outcome = IF a = call.id THEN "succeeded" ELSE d.archives[a].outcome
      BY <1>5, <2>1, CommittedParts
    <2>5. Change(call, db, e)
      BY <1>8, <2>2, <2>3, <2>4 DEF Change
    <2>6. Prepared(e) \subseteq Prepared(db)
      BY <2>3, <2>4 DEF Prepared
    <2>. QED  BY <1>2, <1>4, <1>8, <2>5, <2>6
  <1>9. CASE call.kind = "finish"
    <2>. DEFINE ids == Prepared(d) \cap {call.id}
    <2>1. e = SetOutcome(d, ids, call.outcome)
      BY <1>9 DEF Outcome
    <2>2. d = db /\ \A a \in ids : db.archives[a].outcome = "prepared"
      BY <1>2, <1>9 DEF Prepared
    <2>3. call.outcome \in {"failed", "cancelled"}
      BY <1>9 DEF SqInv, SqCall
    <2>. HIDE DEF d, ids
    <2>4. /\ IsContent(e) /\ e.rev = d.rev /\ e.state = d.state /\ e.replaced = d.replaced
          /\ e.basis = d.basis /\ DOMAIN e.archives = DOMAIN d.archives
          /\ \A a \in DOMAIN d.archives :
                /\ SameButOutcome(d.archives[a], e.archives[a])
                /\ e.archives[a].outcome = IF a \in ids THEN call.outcome ELSE d.archives[a].outcome
      BY <1>5, <2>1, SetOutcomeParts
    <2>5. Change(call, db, e)
      BY <1>9, <2>2, <2>3, <2>4 DEF Change
    <2>6. Prepared(e) \subseteq Prepared(db)
      BY <2>2, <2>3, <2>4 DEF Prepared
    <2>. QED  BY <1>2, <1>4, <1>9, <2>5, <2>6
  <1>10. CASE call.kind = "prune"
    <2>1. e = Pruned(d, call.id)
      BY <1>10 DEF Outcome
    <2>2. d = db
      BY <1>2, <1>10
    <2>3. \A a \in DOMAIN db.archives : SameButOutcome(db.archives[a], db.archives[a])
      BY <1>1 DEF SameButOutcome, IsContent
    <2>. HIDE DEF d
    <2>4. /\ IsContent(e) /\ e.rev = d.rev /\ e.state = d.state /\ e.replaced = d.replaced
          /\ e.basis = d.basis /\ DOMAIN e.archives \subseteq DOMAIN d.archives
          /\ \A a \in DOMAIN e.archives : e.archives[a] = d.archives[a]
          /\ \A a \in DOMAIN d.archives :
                a = call.id \/ d.archives[a].outcome = "prepared" => a \in DOMAIN e.archives
      BY <1>5, <2>1, PrunedParts
    <2>5. Change(call, db, e)
      BY <1>10, <2>2, <2>3, <2>4 DEF Change
    <2>6. Prepared(e) \subseteq Prepared(db)
      BY <2>2, <2>4 DEF Prepared
    <2>. QED  BY <1>2, <1>4, <1>10, <2>5, <2>6
  <1>. QED  BY <1>1, <1>6, <1>7, <1>8, <1>9, <1>10 DEF Kinds

\* Such a change is one the contract allows, and leaves a sound content sound.
LEMMA ChangeLegal ==
    ASSUME NEW c, c.kind \in Kinds, NEW d, NEW e, Change(c, d, e),
           c.kind = "begin" => c.id \notin DOMAIN d.archives
    PROVE  Store!Legal(Image(d), Image(e))
  <1>. DEFINE D == DOMAIN d.archives
              E == DOMAIN e.archives
  <1>1. /\ Image(d).archives = [id \in D |-> [original |-> d.archives[id].original,
                                              outcome |-> d.archives[id].outcome]]
        /\ Image(e).archives = [id \in E |-> [original |-> e.archives[id].original,
                                              outcome |-> e.archives[id].outcome]]
        /\ Image(e).state = e.state
    BY DEF Image
  <1>2. \A id \in D \cap E :
           /\ e.archives[id].original = d.archives[id].original
           /\ \/ e.archives[id].outcome = d.archives[id].outcome
              \/ d.archives[id].outcome = "prepared"
    BY DEF Change, SameButOutcome
  <1>3. \A id \in E \ D : e.archives[id].original = e.state /\ e.archives[id].outcome = "prepared"
    BY DEF Change, Kinds
  <1>4. \A id \in D \ E : d.archives[id].outcome # "prepared"
    BY DEF Change, Kinds
  <1>. QED  BY <1>1, <1>2, <1>3, <1>4 DEF Store!Legal

LEMMA ChangeSound ==
    ASSUME NEW c, c.kind \in Kinds, NEW d, SoundContent(d), NEW e, Change(c, d, e),
           c.kind # "checkpoint" => c.id \in drawn,
           c.kind = "begin" => c.id \notin d.replaced,
           c.kind = "commit" => c.id \in DOMAIN d.archives,
           c.kind = "prune" => c.id = d.basis
    PROVE  SoundContent(e)
  <1>1. IsContent(e)
    BY DEF Change
  <1>2. /\ e.replaced = d.replaced \cup (IF c.kind = "commit" THEN {c.id} ELSE {})
        /\ DOMAIN e.archives \subseteq
              DOMAIN d.archives \cup (IF c.kind = "begin" THEN {c.id} ELSE {})
        /\ c.kind = "begin" => e.archives[c.id].outcome = "prepared"
        /\ c.kind = "commit" => e.archives[c.id].outcome = "succeeded"
    BY DEF Change, Kinds
  <1>3. \A a \in DOMAIN d.archives \cap DOMAIN e.archives :
           \/ e.archives[a].outcome = d.archives[a].outcome
           \/ d.archives[a].outcome = "prepared" /\
              \/ e.archives[a].outcome \in {"interrupted", "failed", "cancelled"}
              \/ c.kind = "commit" /\ a = c.id /\ e.archives[a].outcome = "succeeded"
    BY DEF Change
  <1>4. \A a \in DOMAIN e.archives : e.archives[a].outcome = "succeeded" <=> a \in e.replaced
    <2>. SUFFICES ASSUME NEW a \in DOMAIN e.archives
                  PROVE  e.archives[a].outcome = "succeeded" <=> a \in e.replaced
      OBVIOUS
    <2>1. a \in DOMAIN d.archives => (d.archives[a].outcome = "succeeded" <=> a \in d.replaced)
      BY DEF SoundContent
    <2>2. CASE a \in DOMAIN d.archives /\ ~(c.kind \in {"begin", "commit"} /\ a = c.id)
      BY <1>2, <1>3, <2>1, <2>2
    <2>3. CASE a \notin DOMAIN d.archives \/ (c.kind \in {"begin", "commit"} /\ a = c.id)
      BY <1>2, <2>3
    <2>. QED  BY <2>2, <2>3
  <1>5. e.basis # None => e.basis \in DOMAIN e.archives
    BY DEF Change, SoundContent, Kinds
  <1>6. DOMAIN e.archives \cup e.replaced \subseteq drawn
    BY <1>2 DEF SoundContent
  <1>. QED  BY <1>1, <1>4, <1>5, <1>6 DEF SoundContent

\* No write is refused for what it asks.
LEMMA SqInvAdmissible ==
    ASSUME SqInv, stage = "transaction"
    PROVE  Admissible(call)
  <1>1. Fresh
    BY DEF SqInv, SqWriting, SqCaller
  <1>2. call.kind = "commit" => call.id \in Prepared(db) /\ db.archives[call.id].base = db.rev
    BY DEF SqInv, SqCall, SqCaller, Waiting
  <1>3. call.kind \in {"finish", "prune"} => call.id \in DOMAIN db.archives
    BY DEF SqInv, SqCall, SqCaller, SqStored, SoundContent
  <1>4. call.kind \in Kinds
    BY DEF SqInv, SqCall
  <1>. QED  BY <1>1, <1>2, <1>3, <1>4 DEF Admissible, Kinds

\* What the transaction of the call in progress would commit.
LEMMA OutcomeSound ==
    ASSUME SqInv, stage = "transaction", NEW e, e = Outcome(call)
    PROVE  /\ Change(call, db, e) /\ SoundContent(e) /\ Prepared(e) \subseteq mine
           /\ Store!Legal(Image(db), Image(e))
  <1>1. Change(call, db, e) /\ Prepared(e) \subseteq mine
    BY SqInvAdmissible, OutcomeChange
  <1>2. call.kind \in Kinds /\ SoundContent(db)
    BY DEF SqInv, SqCall, SqStored
  <1>3. call.kind = "begin" => Unused(call.id)
    BY DEF SqInv, SqCall, SqCaller, Before
  <1>4. call.kind = "commit" => Waiting(call.id)
    BY DEF SqInv, SqCall, SqCaller
  <1>5. call.kind \in {"commit", "finish", "prune"} => call.id = db.basis /\ call.id # None
    BY DEF SqInv, SqCall, SqCaller
  <1>6. call.kind # "checkpoint" => call.id \in drawn
    BY <1>2, <1>3, <1>5 DEF Unused, SoundContent, Kinds
  <1>7. SoundContent(e)
    BY <1>1, <1>2, <1>3, <1>4, <1>5, <1>6, ChangeSound DEF Unused, Waiting, Prepared
  <1>8. Store!Legal(Image(db), Image(e))
    BY <1>1, <1>2, <1>3, ChangeLegal DEF Unused
  <1>. QED  BY <1>1, <1>7, <1>8

LEMMA SoundEmpty ==
    SoundContent(EmptyDb)
  BY DEF SoundContent, IsContent, EmptyDb

LEMMA InitSq ==
    Init => SqInv
  <1>. SUFFICES ASSUME Init PROVE SqInv
    OBVIOUS
  <1>1. SqStored
    BY SoundEmpty DEF Init, SqStored
  <1>2. SqWriting
    BY DEF Init, SqWriting, Before
  <1>3. SqCaller
    BY DEF Init, SqCaller
  <1>4. SqCall
    BY DEF Init, SqCall
  <1>. QED  BY <1>1, <1>2, <1>3, <1>4 DEF SqInv

\* The calls and the worker between the writes.
LEMMA IssueSq ==
    ASSUME SqInv, NEW c, Issue(c), stage = "none", c.kind \in Kinds,
           reserved' = {},
           c.kind = "checkpoint" <=> at = "idle", c.kind = "begin" <=> at = "reserved",
           c.kind \in {"commit", "finish"} <=> at = "prepared", c.kind = "prune" <=> at = "cleanup",
           c.kind # "checkpoint" => c.id = attempt,
           c.kind = "finish" => c.outcome \in {"failed", "cancelled"}
    PROVE  SqInv'
  <1>1. SqStored'
    BY DEF SqInv, SqStored, SoundContent, Issue, disk, Prepared
  <1>2. SqWriting'
    BY DEF SqInv, SqWriting, Issue, disk, Before
  <1>3. SqCaller'
    BY DEF SqInv, SqCaller, SqWriting, Issue, disk, Before, Waiting, Unused, Fresh, Prepared
  <1>4. SqCall'
    BY DEF SqInv, SqCall, Issue
  <1>. QED  BY <1>1, <1>2, <1>3, <1>4 DEF SqInv

LEMMA CallsSq ==
    ASSUME SqInv
    PROVE  /\ stage = "none" => reserved = IF at = "reserved" THEN {attempt} ELSE {}
           /\ \A c : Issue(c) => stage = "none"
  BY DEF SqInv, SqCaller, Issue

LEMMA SaveSq ==
    ASSUME SqInv, NEW s \in States, Save(s)
    PROVE  SqInv'
  <1>. DEFINE c == [NoCall EXCEPT !.kind = "checkpoint", !.state = s]
  <1>1. Issue(c)
    BY DEF Save
  <1>2. c.kind = "checkpoint"
    BY DEF NoCall
  <1>. HIDE DEF c
  <1>3. at = "idle" /\ reserved' = reserved
    BY DEF Save
  <1>4. stage = "none" /\ reserved' = {}
    BY <1>1, <1>3, CallsSq
  <1>. QED  BY <1>1, <1>2, <1>3, <1>4, IssueSq DEF Kinds

LEMMA BeginArchiveSq ==
    ASSUME SqInv, NEW s \in States, BeginArchive(s)
    PROVE  SqInv'
  <1>. DEFINE c == [NoCall EXCEPT !.kind = "begin", !.id = attempt, !.state = s]
  <1>1. Issue(c)
    BY DEF BeginArchive
  <1>2. c.kind = "begin" /\ c.id = attempt
    BY DEF NoCall
  <1>. HIDE DEF c
  <1>3. at = "reserved" /\ reserved' = reserved \ {attempt}
    BY DEF BeginArchive
  <1>4. stage = "none" /\ reserved' = {}
    BY <1>1, <1>3, CallsSq
  <1>. QED  BY <1>1, <1>2, <1>3, <1>4, IssueSq DEF Kinds

LEMMA CommitCompactionSq ==
    ASSUME SqInv, NEW s \in States, CommitCompaction(s)
    PROVE  SqInv'
  <1>. DEFINE c == [NoCall EXCEPT !.kind = "commit", !.id = attempt, !.state = s]
  <1>1. Issue(c)
    BY DEF CommitCompaction
  <1>2. c.kind = "commit" /\ c.id = attempt
    BY DEF NoCall
  <1>. HIDE DEF c
  <1>3. at = "prepared" /\ reserved' = reserved
    BY DEF CommitCompaction
  <1>4. stage = "none" /\ reserved' = {}
    BY <1>1, <1>3, CallsSq
  <1>. QED  BY <1>1, <1>2, <1>3, <1>4, IssueSq DEF Kinds

LEMMA FinishAttemptSq ==
    ASSUME SqInv, NEW o \in {"failed", "cancelled"}, FinishAttempt(o)
    PROVE  SqInv'
  <1>. DEFINE c == [NoCall EXCEPT !.kind = "finish", !.id = attempt, !.outcome = o]
  <1>1. Issue(c)
    BY DEF FinishAttempt
  <1>2. c.kind = "finish" /\ c.id = attempt /\ c.outcome = o
    BY DEF NoCall
  <1>. HIDE DEF c
  <1>3. at = "prepared" /\ reserved' = reserved
    BY DEF FinishAttempt
  <1>4. stage = "none" /\ reserved' = {}
    BY <1>1, <1>3, CallsSq
  <1>. QED  BY <1>1, <1>2, <1>3, <1>4, IssueSq DEF Kinds

LEMMA PruneArchivesSq ==
    ASSUME SqInv, PruneArchives
    PROVE  SqInv'
  <1>. DEFINE c == [NoCall EXCEPT !.kind = "prune", !.id = attempt]
  <1>1. Issue(c)
    BY DEF PruneArchives
  <1>2. c.kind = "prune" /\ c.id = attempt
    BY DEF NoCall
  <1>. HIDE DEF c
  <1>3. at = "cleanup" /\ reserved' = reserved
    BY DEF PruneArchives
  <1>4. stage = "none" /\ reserved' = {}
    BY <1>1, <1>3, CallsSq
  <1>. QED  BY <1>1, <1>2, <1>3, <1>4, IssueSq DEF Kinds

LEMMA ReserveSq ==
    ASSUME SqInv, NEW id \in Ids, ReserveArchive(id)
    PROVE  SqInv'
  <1>1. SqStored'
    BY DEF SqInv, SqStored, SoundContent, ReserveArchive, disk, frame, Prepared
  <1>2. SqWriting'
    BY DEF SqInv, SqWriting, ReserveArchive, disk, frame, Before
  <1>3. SqCaller'
    BY StoreConstants
    DEF SqInv, SqStored, SqCaller, ReserveArchive, disk, frame, Unused, Fresh, SoundContent, Before, SqWriting
  <1>4. SqCall'
    BY DEF SqInv, SqCall, ReserveArchive, frame
  <1>. QED  BY <1>1, <1>2, <1>3, <1>4 DEF SqInv

LEMMA PreflightSq ==
    ASSUME SqInv, Preflight
    PROVE  SqInv'
  <1>1. SqStored'
    BY DEF SqInv, SqStored, SoundContent, Preflight, disk, frame, history, Prepared
  <1>2. SqWriting'
    BY DEF SqInv, SqWriting, Preflight, disk, frame, history, Before
  <1>3. SqCaller'
    BY DEF SqInv, SqCaller, Preflight, disk, frame, history, Fresh, Before
  <1>4. SqCall'
    BY DEF SqInv, SqCall, Preflight, frame
  <1>. QED  BY <1>1, <1>2, <1>3, <1>4 DEF SqInv

LEMMA StartSq ==
    ASSUME SqInv, Start
    PROVE  SqInv'
  <1>1. SqStored'
    BY DEF SqInv, SqStored, SoundContent, Start, disk, memory, frame, history, Prepared
  <1>2. SqWriting'
    BY DEF SqInv, SqWriting, Start, disk, memory, frame, history, Before
  <1>3. SqCaller'
    BY DEF SqInv, SqCaller, SqWriting, Start, disk, memory, frame, history, Fresh, Before
  <1>4. SqCall'
    BY DEF SqInv, SqCall, Start, frame
  <1>. QED  BY <1>1, <1>2, <1>3, <1>4 DEF SqInv

LEMMA CrashSq ==
    ASSUME SqInv, Crash
    PROVE  SqInv'
  <1>1. SqStored'
    BY DEF SqInv, SqStored, SoundContent, Crash, Prepared
  <1>2. SqWriting'
    BY DEF SqInv, SqWriting, Crash, Before
  <1>3. SqCaller'
    BY DEF SqCaller, Crash, Before
  <1>4. SqCall'
    BY DEF SqCall, Crash
  <1>. QED  BY <1>1, <1>2, <1>3, <1>4 DEF SqInv

\* The steps of write().
LEMMA OpenSq ==
    ASSUME SqInv, WriteOpen \/ WriteSchema
    PROVE  SqInv'
  <1>1. SqStored'
    BY DEF SqInv, SqStored, SoundContent, WriteOpen, WriteSchema, memory, worker, history,
    Prepared
  <1>2. SqWriting'
    BY DEF SqInv, SqWriting, WriteOpen, WriteSchema, memory, worker, history, Before
  <1>3. SqCaller'
    BY DEF SqInv, SqCaller, WriteOpen, WriteSchema, memory, worker, history, Fresh, Before,
    Unused,
           Waiting, Prepared
  <1>4. SqCall'
    BY DEF SqInv, SqCall, WriteOpen, WriteSchema, worker
  <1>. QED  BY <1>1, <1>2, <1>3, <1>4 DEF SqInv

LEMMA CommitSq ==
    ASSUME SqInv, WriteCommit
    PROVE  SqInv'
  <1>1. /\ stage = "transaction" /\ stage' = "sync" /\ db' = Outcome(call)
        /\ kept' = (IF kept.file = "ready" THEN [kept EXCEPT !.db = db'] ELSE kept)
        /\ UNCHANGED <<up, uncertain, reconciled, reserved, call, expected, storageFailed,
                       attempt,
                       at, drawn, mine, before, answer>>
    BY DEF WriteCommit, memory, worker, history
  <1>2. Change(call, db, db') /\ SoundContent(db') /\ Prepared(db') \subseteq mine
    BY <1>1, OutcomeSound
  <1>3. SqStored'
    <2>1. SoundContent(db)' /\ (SoundContent(kept.db) => (kept' = kept => SoundContent(kept.db)'))
      BY <1>1, <1>2 DEF SoundContent
    <2>2. (kept' = kept \/ kept'.db = db') /\ kept' = [file |-> kept'.file, db |-> kept'.db]
      BY <1>1 DEF SqInv, SqStored
    <2>3. SoundContent(kept.db)'
      BY <2>1, <2>2 DEF SqInv, SqStored, SoundContent
    <2>4. Prepared(db)' \subseteq mine'
      BY <1>1, <1>2 DEF Prepared
    <2>. QED  BY <2>1, <2>2, <2>3, <2>4 DEF SqStored
  <1>4. SqWriting'
    BY <1>1 DEF SqInv, SqWriting, Before
  <1>5. SqCaller'
    <2>1. call.kind \in Kinds /\ SqCall
      BY <1>1 DEF SqInv, SqCall
    <2>2. at \in {"prepared", "cleanup", "reserved"} => db'.basis = attempt /\ attempt # None
      BY <1>1, <1>2, <2>1 DEF SqInv, SqCall, SqCaller, Change, Kinds, Unused, Before
    <2>3. at = "reserved" => Waiting(attempt)'
      BY <1>1, <1>2, <2>1 DEF SqCall, Change, Waiting, Prepared
    <2>4. call.kind \in {"finish", "prune"} => db'.rev = db.rev
      BY <1>2 DEF Change
    <2>. QED
      BY <1>1, <2>2, <2>3, <2>4 DEF SqInv, SqCaller, Fresh, Before
  <1>6. SqCall'
    BY <1>1 DEF SqInv, SqCall
  <1>. QED  BY <1>3, <1>4, <1>5, <1>6 DEF SqInv

\* The ways write() ends.
LEMMA ReturnSq ==
    ASSUME SqInv, stage # "none", NEW r \in {"committed", "not_committed", "unknown"}, NEW rev,
           Return(r, rev), SqStored', reconciled' \in BOOLEAN,
           uncertain' = (r = "unknown"),
           r = "committed" =>
              stage = "sync" /\ db' = db /\ reconciled' = TRUE /\ rev = db.rev,
           r = "not_committed" => stage # "sync" /\ db' = db /\ reconciled' = reconciled
    PROVE  SqInv'
  <1>1. /\ stage' = "none" /\ answer' = r /\ storageFailed' = (storageFailed \/ Latches(r))
        /\ at' = Following(r)
        /\ r = "committed" => expected' = IF call.kind \in {"checkpoint", "begin", "commit"}
                                          THEN rev ELSE expected
        /\ r # "committed" => expected' = expected
        /\ UNCHANGED <<up, call, attempt, reserved, drawn, mine, before>>
    BY DEF Return, AdoptRevision
  <1>2. ~storageFailed /\ call.kind \in Kinds /\ up \in BOOLEAN /\ up /\ reserved = {}
    BY DEF SqInv, SqWriting, SqCall, SqCaller
  <1>3. CASE Latches(r)
    <2>1. storageFailed' = TRUE /\ at' = "idle"
      BY <1>1, <1>3 DEF Following
    <2>2. SqWriting'
      BY <1>1, <1>2, <2>1 DEF SqInv, SqWriting, Before
    <2>3. SqCaller'
      BY <1>1, <1>2, <2>1 DEF SqCaller
    <2>4. SqCall'
      BY <1>1 DEF SqCall
    <2>. QED  BY <2>2, <2>3, <2>4 DEF SqInv
  <1>4. CASE ~Latches(r)
    <2>1. /\ storageFailed' = FALSE
          /\ r # "unknown"
          /\ call.kind \in {"checkpoint", "begin", "commit"} => r = "committed"
      BY <1>1, <1>2, <1>4 DEF Latches
    <2>2. at' = CASE call.kind = "begin" -> "prepared"
                  [] call.kind \in {"commit", "finish"} -> "cleanup"
                  [] OTHER -> "idle"
      BY <1>1, <1>4 DEF Following
    <2>3. SqWriting'
      BY <1>1, <1>2, <2>1 DEF SqInv, SqWriting, Before
    <2>4. SqCall'
      BY <1>1 DEF SqCall
    <2>5. db' = db
      BY <2>1
    <2>6. Fresh'
      <3>1. CASE r = "committed" /\ call.kind \in {"checkpoint", "begin", "commit"}
        BY <1>1, <3>1 DEF Fresh
      <3>2. CASE call.kind \in {"finish", "prune"}
        <4>1. Fresh
          BY <1>2, <3>2 DEF SqInv, SqCaller
        <4>. QED  BY <1>1, <2>5, <3>2, <4>1 DEF Fresh
      <3>. QED  BY <1>2, <2>1, <3>1, <3>2 DEF Kinds
    <2>7. call.kind = "begin" => Waiting(attempt)' /\ reconciled' /\ db'.basis = attempt /\ attempt # None
      BY <1>1, <2>1, <2>5 DEF SqInv, SqCaller, SqCall, Waiting, Prepared
    <2>8. call.kind \in {"commit", "finish"} => reconciled' /\ db'.basis = attempt /\ attempt # None
      BY <1>1, <2>1, <2>5 DEF SqInv, SqCaller, SqCall
    <2>9. /\ at' \in {"idle", "prepared", "cleanup"} /\ (at' = "prepared" <=> call.kind = "begin")
          /\ at' = "cleanup" <=> call.kind \in {"commit", "finish"}
      BY <2>2
    <2>. HIDE DEF Waiting, Fresh
    <2>10. SqCaller'
      BY <1>1, <1>2, <2>6, <2>7, <2>8, <2>9 DEF SqCaller
    <2>. QED  BY <2>3, <2>4, <2>10 DEF SqInv
  <1>. QED  BY <1>3, <1>4

LEMMA EndsSq ==
    ASSUME SqInv, WriteRefused \/ WriteCommitFails \/ WriteSync \/ WriteSyncFails
    PROVE  SqInv'
  <1>1. ASSUME WriteRefused PROVE SqInv'
    <2>1. /\ Return(IF uncertain THEN "unknown" ELSE "not_committed", None) /\ stage \in Before
          /\ UNCHANGED <<db, kept, uncertain, reconciled, drawn, mine>> /\ stage' = "none"
      BY <1>1 DEF WriteRefused, Return, Before
    <2>2. uncertain = FALSE
      BY <2>1 DEF SqInv, SqWriting, Before
    <2>3. Return("not_committed", None)
      BY <2>1, <2>2
    <2>4. SqStored'
      BY <2>1 DEF SqInv, SqStored, SoundContent, Prepared
    <2>5. reconciled \in BOOLEAN
      BY DEF SqInv, SqWriting
    <2>. QED  BY <2>1, <2>2, <2>3, <2>4, <2>5, ReturnSq DEF Before
  <1>2. ASSUME WriteCommitFails PROVE SqInv'
    <2>1. /\ stage = "transaction" /\ db' \in {db, Outcome(call)} /\ uncertain' = TRUE /\ stage' = "none"
          /\ Return("unknown", None) /\ UNCHANGED <<kept, reconciled, drawn, mine>>
      BY <1>2 DEF WriteCommitFails, Return
    <2>2. SoundContent(db') /\ (reconciled => Prepared(db') \subseteq mine)
      BY <2>1, OutcomeSound DEF SqInv, SqStored
    <2>3. SqStored'
      BY <2>1, <2>2 DEF SqInv, SqStored, SoundContent, Prepared
    <2>4. reconciled \in BOOLEAN
      BY DEF SqInv, SqWriting
    <2>. QED  BY <2>1, <2>3, <2>4, ReturnSq
  <1>3. ASSUME WriteSync PROVE SqInv'
    <2>1. /\ stage = "sync" /\ kept' = [file |-> file, db |-> db] /\ reconciled' = TRUE
          /\ Return("committed", db.rev) /\ UNCHANGED <<db, uncertain, drawn,
                                                        mine>> /\ stage' = "none"
      BY <1>3 DEF WriteSync, Return
    <2>2. uncertain = FALSE
      BY <2>1 DEF SqInv, SqWriting
    <2>3. SqStored'
      BY <2>1 DEF SqInv, SqStored, SoundContent, Prepared
    <2>. QED  BY <2>1, <2>2, <2>3, ReturnSq
  <1>4. ASSUME WriteSyncFails PROVE SqInv'
    <2>1. /\ stage = "sync" /\ uncertain' = TRUE /\ Return("unknown", None)
          /\ UNCHANGED <<db, kept, reconciled, drawn, mine>> /\ stage' = "none"
      BY <1>4 DEF WriteSyncFails, Return, disk
    <2>2. SqStored'
      BY <2>1 DEF SqInv, SqStored, SoundContent, Prepared
    <2>3. reconciled \in BOOLEAN
      BY DEF SqInv, SqWriting
    <2>. QED  BY <2>1, <2>2, <2>3, ReturnSq
  <1>. QED  BY <1>1, <1>2, <1>3, <1>4

LEMMA NextSq ==
    SqInv /\ [Next]_vars => SqInv'
  <1>. SUFFICES ASSUME SqInv, [Next]_vars PROVE SqInv'
    OBVIOUS
  <1>1. CASE UNCHANGED vars
    <2>1. SqStored'
      BY <1>1 DEF vars, disk, memory, frame, worker, history, SqInv, SqStored, SoundContent,
                  Prepared
    <2>2. SqWriting'
      BY <1>1 DEF vars, disk, memory, frame, worker, history, SqInv, SqWriting
    <2>3. SqCaller'
      BY <1>1 DEF vars, disk, memory, frame, worker, history, SqInv, SqCaller, Unused, Waiting,
                  Fresh,
                  Prepared
    <2>4. SqCall'
      BY <1>1 DEF vars, frame, worker, SqInv, SqCall
    <2>. QED  BY <2>1, <2>2, <2>3, <2>4 DEF SqInv
  <1>2. CASE Next
    BY <1>2, StartSq, CrashSq, OpenSq, EndsSq, CommitSq, PreflightSq, PruneArchivesSq, SaveSq,
       BeginArchiveSq, CommitCompactionSq, ReserveSq, FinishAttemptSq DEF Next
  <1>. QED  BY <1>1, <1>2

LEMMA SqInvSafe ==
    ASSUME SqInv
    PROVE  NoSpuriousRefusal /\ SettledTruth /\ EvidenceKept /\ NoReservationLeak
  <1>1. NoSpuriousRefusal
    BY SqInvAdmissible DEF NoSpuriousRefusal
  <1>2. SettledTruth
    BY DEF SettledTruth, SqInv, SqStored, SoundContent
  <1>3. EvidenceKept
    BY DEF EvidenceKept, SqInv, SqStored, SoundContent
  <1>4. NoReservationLeak
    BY DEF NoReservationLeak, SqInv, SqCaller
  <1>. QED  BY <1>1, <1>2, <1>3, <1>4

\* What the contract sees of a step that leaves it alone, and of a call.
LEMMA UnseenSq ==
    ASSUME UNCHANGED <<db, kept, before, answer, uncertain>>
    PROVE  UNCHANGED Store!storeVars
  BY DEF Store!storeVars

LEMMA IssueStep ==
    ASSUME SqInv, NEW c, Issue(c)
    PROVE  Store!Call
  <1>1. answer # "pending" /\ uncertain = FALSE
    BY DEF Issue, SqInv, SqWriting
  <1>2. before' = db /\ answer' = "pending" /\ UNCHANGED <<db, kept, uncertain>>
    BY DEF Issue, disk
  <1>. QED  BY <1>1, <1>2 DEF Store!Call

LEMMA CommitStep ==
    ASSUME SqInv, WriteCommit
    PROVE  Store!Apply
  <1>1. /\ stage = "transaction" /\ db' = Outcome(call) /\ UNCHANGED <<before, answer, uncertain>>
        /\ kept' = IF kept.file = "ready" THEN [kept EXCEPT !.db = db'] ELSE kept
    BY DEF WriteCommit, memory, history
  <1>2. answer = "pending" /\ Image(db) = Image(before)
    BY <1>1 DEF SqInv, SqWriting, Before
  <1>3. Store!Legal(Image(db), Image(db)')
    BY <1>1, OutcomeSound
  <1>4. kept'.db \in {kept.db, db'}
    BY <1>1 DEF SqInv, SqStored
  <1>5. Image(kept.db)' \in {Image(kept.db), Image(db)'}
    BY <1>4
  <1>. QED  BY <1>1, <1>2, <1>3, <1>5 DEF Store!Apply

LEMMA RefusedStep ==
    ASSUME SqInv, WriteRefused
    PROVE  Store!Return("not_committed")
  <1>1. /\ stage \in Before
        /\ Return(IF uncertain THEN "unknown" ELSE "not_committed", None)
        /\ UNCHANGED <<db, kept, uncertain>>
    BY DEF WriteRefused, Before
  <1>2. uncertain = FALSE /\ answer = "pending" /\ before = db
    BY <1>1 DEF SqInv, SqWriting, Before
  <1>3. answer' = "not_committed" /\ before' = before
    BY <1>1, <1>2 DEF Return
  <1>. QED  BY <1>1, <1>2, <1>3 DEF Store!Return

LEMMA CommitFailsStep ==
    ASSUME SqInv, WriteCommitFails
    PROVE  Store!Return("unknown")
  <1>1. /\ stage = "transaction" /\ db' \in {db, Outcome(call)} /\ kept' = kept
        /\ uncertain' = TRUE /\ answer' = "unknown" /\ before' = before
    BY DEF WriteCommitFails, Return
  <1>2. answer = "pending" /\ Image(db) = Image(before)
    BY <1>1 DEF SqInv, SqWriting, Before
  <1>3. db' = Outcome(call) => Store!Legal(Image(db), Image(db)')
    BY <1>1, OutcomeSound
  <1>4. Image(db)' = Image(db) \/ Store!Legal(Image(db), Image(db)')
    BY <1>1, <1>3
  <1>5. uncertain' = ("unknown" = "unknown")
    BY <1>1, Zenon
  <1>. HIDE DEF Image
  <1>. QED  BY <1>1, <1>2, <1>4, <1>5, Zenon DEF Store!Return

LEMMA SyncStep ==
    ASSUME SqInv, WriteSync
    PROVE  Store!Return("committed")
  <1>1. /\ stage = "sync" /\ kept' = [file |-> file, db |-> db] /\ answer' = "committed"
        /\ UNCHANGED <<db, uncertain, before>>
    BY DEF WriteSync, Return
  <1>2. uncertain = FALSE /\ answer = "pending"
    BY <1>1 DEF SqInv, SqWriting
  <1>3. Image(kept.db)' = Image(db)
    BY <1>1
  <1>. QED  BY <1>1, <1>2, <1>3 DEF Store!Return

LEMMA SyncFailsStep ==
    ASSUME SqInv, WriteSyncFails
    PROVE  Store!Return("unknown")
  <1>1. /\ stage = "sync" /\ UNCHANGED <<db, kept,
                                         before>> /\ answer' = "unknown" /\ uncertain' = TRUE
    BY DEF WriteSyncFails, Return, disk
  <1>2. answer = "pending"
    BY <1>1 DEF SqInv, SqWriting
  <1>3. uncertain' = ("unknown" = "unknown")
    BY <1>1, Zenon
  <1>. QED  BY <1>1, <1>2, <1>3, Zenon DEF Store!Return

LEMMA CrashStep ==
    ASSUME Crash
    PROVE  Store!Reopen
  <1>1. db' \in {db, kept.db} /\ UNCHANGED <<kept,
                                             before>> /\ answer' = "opened" /\ uncertain' = FALSE
    BY DEF Crash
  <1>2. Image(db)' \in {Image(db), Image(kept.db)}
    BY <1>1
  <1>. QED  BY <1>1, <1>2 DEF Store!Reopen

LEMMA SqStep ==
    ASSUME SqInv, [Next]_vars
    PROVE  [Store!Next]_(Store!storeVars)
  <1>1. CASE UNCHANGED vars
    BY <1>1, UnseenSq DEF vars, disk, memory, history
  <1>2. CASE Start \/ WriteOpen \/ WriteSchema \/ Preflight \/ \E id \in Ids : ReserveArchive(id)
    BY <1>2, UnseenSq DEF Start, WriteOpen, WriteSchema, Preflight, ReserveArchive, disk, memory,
                          history
  <1>3. ASSUME \E c : Issue(c) PROVE Store!Next
    BY <1>3, IssueStep DEF Store!Next
  <1>4. CASE PruneArchives \/ (\E o \in {"failed", "cancelled"} : FinishAttempt(o))
             \/ (\E s \in States : Save(s) \/ BeginArchive(s) \/ CommitCompaction(s))
    BY <1>3, <1>4, Zenon DEF PruneArchives, FinishAttempt, Save, BeginArchive, CommitCompaction
  <1>5. CASE Crash
    BY <1>5, CrashStep DEF Store!Next
  <1>6. CASE WriteCommit
    BY <1>6, CommitStep DEF Store!Next
  <1>7. CASE WriteRefused \/ WriteCommitFails \/ WriteSync \/ WriteSyncFails
    BY <1>7, RefusedStep, CommitFailsStep, SyncStep, SyncFailsStep DEF Store!Next, Store!Answers
  <1>. QED  BY <1>1, <1>2, <1>4, <1>5, <1>6, <1>7 DEF Next

LEMMA SqStart ==
    Init => Store!Init
  BY DEF Init, Store!Init

\* The SQLite backend implements the contract of the interface: WriteCommit applies,
\* the four ends of write() return, a crash reopens, and every other step is one
\* the contract does not see (sqlite_store.cpp, write()).
THEOREM SqliteKeepsContract ==
    Spec => Contract
  BY InitSq, NextSq, SqStart, SqStep, PTL DEF Spec, Contract, Store!Spec

(***************************************************************************)
(* Types and retention of the SQLite backend.  The sequence numbers order  *)
(* the archives, so those that retention keeps beyond the protected ones   *)
(* are bounded by what the oldest of them left above itself.               *)
(***************************************************************************)
\* A finite set of integers has a maximum.
LEMMA FiniteMax ==
    ASSUME NEW S, IsFiniteSet(S), S \subseteq Int, S # {}
    PROVE  Max(S) \in S /\ \A y \in S : Max(S) >= y
  <1>. DEFINE Lacking == {T \in FiniteSubsetsOf(S) : T # {} /\ ~ \E x \in T : \A y \in T : x >= y}
  <1>1. IsWellFoundedOn(StrictSubsetOrdering(S), FiniteSubsetsOf(S))
    BY FS_StrictSubsetOrderingWellFounded
  <1>2. CASE Lacking = {}
    <2>1. S \in FiniteSubsetsOf(S)
      BY DEF FiniteSubsetsOf
    <2>2. \E x \in S : \A y \in S : x >= y
      BY <1>2, <2>1
    <2>. QED  BY <2>2 DEF Max
  <1>3. CASE Lacking # {}
    <2>1. PICK T \in Lacking : \A U \in Lacking : <<U, T>> \notin StrictSubsetOrdering(S)
      <3>1. Lacking \subseteq FiniteSubsetsOf(S)
        OBVIOUS
      <3>. HIDE DEF Lacking
      <3>. QED  BY <1>1, <1>3, <3>1, WFMin
    <2>2. /\ T \subseteq S /\ IsFiniteSet(T) /\ T # {}
          /\ ~ \E x \in T : \A y \in T : x >= y
      BY DEF FiniteSubsetsOf
    <2>3. PICK x \in T : TRUE
      BY <2>2
    <2>. DEFINE U == T \ {x}
    <2>4. U \in FiniteSubsetsOf(S) /\ <<U, T>> \in StrictSubsetOrdering(S)
      BY <2>2, <2>3, FS_RemoveElement DEF FiniteSubsetsOf, StrictSubsetOrdering
    <2>5. CASE U = {}
      BY <2>2, <2>3, <2>5
    <2>6. CASE U # {}
      <3>1. PICK m \in U : \A y \in U : m >= y
        BY <2>1, <2>4, <2>6
      <3>2. CASE x >= m
        BY <2>2, <2>3, <3>1, <3>2
      <3>3. CASE ~(x >= m)
        BY <2>2, <2>3, <3>1, <3>3
      <3>. QED  BY <3>2, <3>3
    <2>. QED  BY <2>5, <2>6
  <1>. QED  BY <1>2, <1>3

\* The types of a content, and the order of its archives.
Ordered(d) ==
    /\ IsContent(d)
    /\ d.state \in States \cup {NoState}
    /\ d.basis \in Ids \cup {None}
    /\ DOMAIN d.archives \cup d.replaced \subseteq Ids
    /\ IsFiniteSet(DOMAIN d.archives)
    /\ \A a \in DOMAIN d.archives :
          /\ d.archives[a].sequence \in Nat
          /\ d.archives[a].outcome \in Outcomes
          /\ d.archives[a].base \in Nat /\ d.archives[a].base <= d.rev
          /\ d.archives[a].original \in States
    /\ \A a, b \in DOMAIN d.archives : d.archives[a].sequence = d.archives[b].sequence => a = b

LEMMA ChangeOrdered ==
    ASSUME NEW c, c.kind \in Kinds, NEW d, Ordered(d), NEW e, Change(c, d, e),
           c.kind # "checkpoint" => c.id \in Ids,
           c.kind \in {"checkpoint", "begin", "commit"} => c.state \in States,
           c.kind = "begin" => c.id \notin DOMAIN d.archives
    PROVE  Ordered(e)
  <1>. DEFINE D == DOMAIN d.archives
              E == DOMAIN e.archives
              S == {0} \cup {d.archives[a].sequence : a \in D}
  <1>1. /\ IsContent(e) /\ e.rev \in Nat /\ e.rev >= d.rev
        /\ E \subseteq D \cup (IF c.kind = "begin" THEN {c.id} ELSE {})
        /\ e.replaced \subseteq d.replaced \cup {c.id} /\ (c.kind # "commit" => e.replaced = d.replaced)
        /\ e.state \in {c.state, d.state} /\ (c.kind \in {"finish", "prune"} => e.state = d.state)
        /\ e.basis \in {None, d.basis, c.id} /\ (c.kind = "checkpoint" => e.basis = None)
    <2>1. IsContent(d) /\ IsContent(e)
      BY DEF Change, Ordered
    <2>2. d.rev \in Nat /\ e.rev \in Nat
      BY <2>1 DEF IsContent
    <2>. HIDE DEF IsContent
    <2>3. /\ e.rev \in {d.rev, d.rev + 1}
          /\ E \subseteq D \cup (IF c.kind = "begin" THEN {c.id} ELSE {})
          /\ e.replaced \subseteq d.replaced \cup {c.id} /\ (c.kind # "commit" => e.replaced = d.replaced)
          /\ e.basis \in {None, d.basis, c.id} /\ (c.kind = "checkpoint" => e.basis = None)
      BY DEF Change, Kinds
    <2>4. e.state \in {c.state, d.state} /\ (c.kind \in {"finish", "prune"} => e.state = d.state)
      BY DEF Change
    <2>. QED  BY <2>1, <2>2, <2>3, <2>4
  <1>2. /\ e.state \in States \cup {NoState} /\ e.basis \in Ids \cup {None}
        /\ E \cup e.replaced \subseteq Ids
    BY <1>1 DEF Ordered, Kinds
  <1>3. IsFiniteSet(E)
    <2>1. IsFiniteSet(D) /\ IsFiniteSet(D \cup {c.id})
      BY FS_AddElement DEF Ordered
    <2>. QED  BY <1>1, <2>1, FS_Subset
  <1>4. \A a \in D \cap E :
           /\ e.archives[a].sequence = d.archives[a].sequence
           /\ e.archives[a].base = d.archives[a].base
           /\ e.archives[a].original = d.archives[a].original
           /\ e.archives[a].outcome \in Outcomes
    BY DEF Change, SameButOutcome, Ordered, Outcomes
  <1>5. c.kind = "begin" =>
           /\ Max(S) \in Nat /\ \A a \in D : d.archives[a].sequence <= Max(S)
           /\ e.archives[c.id].sequence = Max(S) + 1 /\ e.archives[c.id].base = e.rev
           /\ e.archives[c.id].outcome = "prepared" /\ e.archives[c.id].original = c.state
    <2>1. S \subseteq Nat /\ S # {} /\ S \subseteq Int
      BY DEF Ordered
    <2>2. IsFiniteSet(S)
      <3>. DEFINE f == [a \in D |-> d.archives[a].sequence]
      <3>1. f \in Surjection(D, {d.archives[a].sequence : a \in D})
        BY DEF Surjection
      <3>2. IsFiniteSet({d.archives[a].sequence : a \in D})
        BY <3>1, FS_Surjection DEF Ordered
      <3>. QED  BY <3>2, FS_AddElement
    <2>3. Max(S) \in S /\ \A y \in S : Max(S) >= y
      BY <2>1, <2>2, FiniteMax
    <2>4. c.kind = "begin" =>
             /\ e.archives[c.id].sequence = Max(S) + 1 /\ e.archives[c.id].base = e.rev
             /\ e.archives[c.id].outcome = "prepared" /\ e.archives[c.id].original = c.state
      BY DEF Change, NextSequence
    <2>5. \A a \in D : d.archives[a].sequence \in S
      OBVIOUS
    <2>. HIDE DEF S
    <2>. QED  BY <2>1, <2>3, <2>4, <2>5
  <1>. HIDE DEF S
  <1>6. \A a \in E :
          /\ e.archives[a].sequence \in Nat
          /\ e.archives[a].outcome \in Outcomes
          /\ e.archives[a].base \in Nat /\ e.archives[a].base <= e.rev
          /\ e.archives[a].original \in States
    <2>. SUFFICES ASSUME NEW a \in E
                  PROVE  /\ e.archives[a].sequence \in Nat
                         /\ e.archives[a].outcome \in Outcomes
                         /\ e.archives[a].base \in Nat /\ e.archives[a].base <= e.rev
                         /\ e.archives[a].original \in States
      OBVIOUS
    <2>1. CASE a \in D
      BY <1>1, <1>4, <2>1 DEF Ordered, IsContent
    <2>2. CASE a \notin D
      BY <1>1, <1>5, <2>2 DEF Outcomes
    <2>. QED  BY <2>1, <2>2
  <1>7. \A a, b \in E : e.archives[a].sequence = e.archives[b].sequence => a = b
    <2>. SUFFICES ASSUME NEW a \in E, NEW b \in E, e.archives[a].sequence = e.archives[b].sequence
                  PROVE  a = b
      OBVIOUS
    <2>1. CASE a \in D /\ b \in D
      BY <1>4, <2>1 DEF Ordered
    <2>2. CASE ~(a \in D /\ b \in D)
      BY <1>1, <1>4, <1>5, <2>2 DEF Ordered
    <2>. QED  BY <2>1, <2>2
  <1>. QED  BY <1>1, <1>2, <1>3, <1>6, <1>7 DEF Ordered

\* Beyond the protected archives, retention keeps no more than the limit.
LEMMA PrunedSmall ==
    ASSUME NEW d, Ordered(d), NEW id \in DOMAIN d.archives, NEW e, e = Pruned(d, id), MaxArchives > 0
    PROVE  \/ DOMAIN e.archives \subseteq Protected(d, id)
           \/ Cardinality(DOMAIN e.archives) <= MaxArchives
  <1>. DEFINE D == DOMAIN d.archives
              Safe == Protected(d, id)
              Newer(i) == {a \in D \ Safe : d.archives[a].sequence > d.archives[i].sequence}
              Stays == {i \in D :
                           \/ MaxArchives = 0
                           \/ i \in Safe
                           \/ Cardinality(Safe) + Cardinality(Newer(i)) < MaxArchives}
              U == Stays \ Safe
  <1>1. DOMAIN e.archives = Stays
    BY DEF Pruned, Ordered, IsContent
  <1>2. Safe \subseteq D /\ IsFiniteSet(D)
    BY DEF Protected, Ordered
  <1>3. Stays \subseteq D
    OBVIOUS
  <1>4. \A i \in U : Cardinality(Safe) + Cardinality(Newer(i)) < MaxArchives
    BY StoreConstants
  <1>5. \A i : Newer(i) \subseteq D
    OBVIOUS
  <1>6. \A i \in D : d.archives[i].sequence \in Nat
    BY DEF Ordered
  <1>7. U \subseteq D \ Safe
    OBVIOUS
  <1>8. Stays \subseteq Safe \cup U
    OBVIOUS
  <1>9. ASSUME NEW o \in U, \A u \in U : d.archives[u].sequence >= d.archives[o].sequence
        PROVE  U \ {o} \subseteq Newer(o)
    BY <1>6, <1>7, <1>9 DEF Ordered
  <1>. HIDE DEF Safe, Newer, Stays, U
  <1>10. IsFiniteSet(Safe) /\ IsFiniteSet(Stays) /\ IsFiniteSet(U) /\ \A i : IsFiniteSet(Newer(i))
    BY <1>2, <1>3, <1>5, <1>7, FS_Subset
  <1>11. CASE U = {}
    BY <1>1, <1>8, <1>11 DEF Safe
  <1>12. CASE U # {}
    <2>. DEFINE S == {0 - d.archives[u].sequence : u \in U}
    <2>1. PICK o \in U : \A u \in U : d.archives[u].sequence >= d.archives[o].sequence
      <3>1. S \subseteq Int /\ S # {}
        BY <1>6, <1>7, <1>12
      <3>2. IsFiniteSet(S)
        <4>. DEFINE f == [u \in U |-> 0 - d.archives[u].sequence]
        <4>1. f \in Surjection(U, S)
          BY DEF Surjection
        <4>. QED  BY <1>10, <4>1, FS_Surjection
      <3>3. Max(S) \in S /\ \A y \in S : Max(S) >= y
        BY <3>1, <3>2, FiniteMax
      <3>4. PICK o \in U : Max(S) = 0 - d.archives[o].sequence
        BY <3>3
      <3>5. \A u \in U : 0 - d.archives[o].sequence >= 0 - d.archives[u].sequence
        BY <3>3, <3>4
      <3>. QED  BY <1>6, <1>7, <3>5
    <2>2. Cardinality(U \ {o}) <= Cardinality(Newer(o))
      BY <1>9, <1>10, <2>1, FS_Subset
    <2>3. Cardinality(U \ {o}) = Cardinality(U) - 1
      BY <1>10, <2>1, FS_RemoveElement
    <2>4. Cardinality(Stays) <= Cardinality(Safe) + Cardinality(U)
      <3>1. /\ IsFiniteSet(Safe \cup U)
            /\ Cardinality(Safe \cup U) = Cardinality(Safe) + Cardinality(U) - Cardinality(Safe \cap U)
        BY <1>10, FS_Union
      <3>2. Cardinality(Stays) <= Cardinality(Safe \cup U) /\ Cardinality(Safe \cap U) \in Nat
        BY <1>8, <1>10, <3>1, FS_Subset, FS_Intersection, FS_CardinalityType
      <3>3. Cardinality(Safe) \in Nat /\ Cardinality(U) \in Nat /\ Cardinality(Stays) \in Nat
        BY <1>10, FS_CardinalityType
      <3>. QED  BY <3>1, <3>2, <3>3
    <2>5. /\ Cardinality(Safe) \in Nat /\ Cardinality(U) \in Nat /\ Cardinality(Stays) \in Nat
          /\ Cardinality(Newer(o)) \in Nat
      BY <1>10, FS_CardinalityType
    <2>6. Cardinality(Safe) + Cardinality(Newer(o)) < MaxArchives
      BY <1>4, <2>1
    <2>7. MaxArchives \in Nat
      BY StoreConstants
    <2>. QED  BY <1>1, <2>2, <2>3, <2>4, <2>5, <2>6, <2>7
  <1>. QED  BY <1>11, <1>12

SqFiles ==
    /\ file \in {"absent", "empty", "ready"} /\ kept.file \in {"absent", "ready"}
    /\ file # "ready" => db = EmptyDb
    /\ kept.file # "ready" => kept.db = EmptyDb
    /\ stage \in {"transaction", "sync"} => file = "ready"
    /\ created \in BOOLEAN
    /\ stage = "none" => ~created
    /\ created /\ stage \in Before => db = EmptyDb

SqTyped ==
    /\ Ordered(db) /\ Ordered(kept.db) /\ Ordered(before)
    /\ call.kind \in Kinds \cup {"none"} /\ call.id \in Ids \cup {None}
    /\ stage # "none" /\ call.kind \in {"checkpoint", "begin", "commit"} => call.state \in States
    /\ expected \in Nat \cup {None} /\ attempt \in Ids \cup {None}
    /\ crashes \in 0..MaxCrashes
    /\ reserved \subseteq Ids /\ mine \subseteq Ids
    /\ answer \in {"opened", "pending", "committed", "not_committed", "unknown"}

\* The attempt under way is the newest archive there is.
SqRetained ==
    /\ at \in {"prepared", "cleanup"} \/ (at = "reserved" /\ stage = "sync") =>
          \A a \in DOMAIN db.archives \ {attempt} : db.archives[a].base < db.rev
    /\ (stage = "sync" \/ answer = "committed") /\ call.kind = "prune" /\ MaxArchives > 0 =>
          \/ DOMAIN db.archives \subseteq {call.id} \cup (Prepared(db) \cap mine)
          \/ Cardinality(DOMAIN db.archives) <= MaxArchives

SqAll == SqInv /\ SqFiles /\ SqTyped /\ SqRetained

LEMMA OrderedEmpty ==
    Ordered(EmptyDb)
  <1>1. DOMAIN EmptyDb.archives = {} /\ EmptyDb.replaced = {} /\ EmptyDb.state = NoState
        /\ EmptyDb.basis = None /\ IsContent(EmptyDb)
    BY DEF EmptyDb, IsContent
  <1>. QED  BY <1>1, FS_EmptySet DEF Ordered

LEMMA InitAll ==
    Init => SqAll
  <1>. SUFFICES ASSUME Init PROVE SqAll
    OBVIOUS
  <1>1. SqFiles
    BY DEF Init, SqFiles, Before
  <1>2. SqTyped
    BY OrderedEmpty, StoreConstants DEF Init, SqTyped, NoCall
  <1>3. SqRetained
    BY DEF Init, SqRetained
  <1>. QED  BY <1>1, <1>2, <1>3, InitSq DEF SqAll

LEMMA OutcomeOrdered ==
    ASSUME SqAll, stage = "transaction", NEW e, e = Outcome(call)
    PROVE  Ordered(e)
  <1>1. Change(call, db, e)
    BY OutcomeSound DEF SqAll
  <1>2. call.kind \in Kinds /\ (call.kind = "begin" => call.id \notin DOMAIN db.archives)
    BY DEF SqAll, SqInv, SqCall, SqCaller, Unused, Before
  <1>3. call.kind # "checkpoint" => call.id \in Ids
    BY DEF SqAll, SqTyped, SqInv, SqCall, SqCaller, Unused, Before, Kinds
  <1>4. call.kind \in {"checkpoint", "begin", "commit"} => call.state \in States
    BY DEF SqAll, SqTyped
  <1>5. Ordered(db)
    BY DEF SqAll, SqTyped
  <1>. QED  BY <1>1, <1>2, <1>3, <1>4, <1>5, ChangeOrdered

LEMMA NextFiles ==
    ASSUME SqAll, [Next]_vars
    PROVE  SqFiles'
  <1>. USE DEF SqAll, SqInv, SqWriting, SqFiles, Before
  <1>1. CASE UNCHANGED vars
    BY <1>1 DEF vars, disk, frame
  <1>2. CASE Start \/ Preflight \/ \E id \in Ids : ReserveArchive(id)
    BY <1>2 DEF Start, Preflight, ReserveArchive, disk, frame
  <1>3. ASSUME \E c : Issue(c) PROVE SqFiles'
    BY <1>3 DEF Issue, disk
  <1>4. CASE PruneArchives \/ (\E o \in {"failed", "cancelled"} : FinishAttempt(o))
             \/ (\E s \in States : Save(s) \/ BeginArchive(s) \/ CommitCompaction(s))
    BY <1>3, <1>4, Zenon DEF PruneArchives, FinishAttempt, Save, BeginArchive, CommitCompaction
  <1>5. CASE WriteOpen \/ WriteSchema
    BY <1>5 DEF WriteOpen, WriteSchema
  <1>6. CASE WriteCommit
    BY <1>6 DEF WriteCommit, SqStored
  <1>7. CASE WriteRefused
    BY <1>7 DEF WriteRefused, Return
  <1>8. ASSUME WriteCommitFails \/ WriteSync \/ WriteSyncFails PROVE SqFiles'
    <2>1. /\ stage \in {"transaction", "sync"} /\ stage' = "none" /\ created' = FALSE
          /\ file' = file /\ kept' \in {kept, [file |-> file, db |-> db]}
      BY <1>8, Zenon DEF WriteCommitFails, WriteSync, WriteSyncFails, Return, disk
    <2>2. /\ file' = "ready" /\ kept'.file \in {"absent", "ready"}
          /\ kept'.file # "ready" => kept'.db = EmptyDb
      BY <2>1
    <2>3. created' \in BOOLEAN /\ ~created'
      BY <2>1, Zenon
    <2>. QED  BY <2>1, <2>2, <2>3
  <1>9. CASE Crash
    BY <1>9 DEF Crash
  <1>. QED  BY <1>1, <1>2, <1>4, <1>5, <1>6, <1>7, <1>8, <1>9 DEF Next

\* The types of the calls, and of the worker.
LEMMA IssueTyped ==
    ASSUME SqAll, NEW c, Issue(c), c.kind \in Kinds, c.id \in Ids \cup {None},
           c.kind \in {"checkpoint", "begin", "commit"} => c.state \in States,
           reserved' \subseteq reserved
    PROVE  SqTyped'
  <1>1. /\ call' = c /\ before' = db /\ answer' = "pending"
        /\ UNCHANGED <<db, kept, expected, attempt, crashes, mine>>
    BY DEF Issue, disk
  <1>. QED  BY <1>1 DEF SqAll, SqTyped

LEMMA ReturnTyped ==
    ASSUME SqAll, NEW r \in {"committed", "not_committed", "unknown"}, NEW rev, Return(r, rev),
           r = "committed" => rev \in Nat, Ordered(db'), Ordered(kept'.db)
    PROVE  SqTyped'
  <1>1. /\ stage' = "none" /\ answer' = r /\ expected' \in {expected, rev}
        /\ (r # "committed" => expected' = expected)
        /\ UNCHANGED <<call, attempt, reserved, crashes, mine, before>>
    BY DEF Return, AdoptRevision
  <1>. QED  BY <1>1 DEF SqAll, SqTyped

LEMMA NextTyped ==
    ASSUME SqAll, [Next]_vars
    PROVE  SqTyped'
  <1>0. SqTyped /\ Ordered(db) /\ Ordered(kept.db) /\ db.rev \in Nat /\ attempt \in Ids \cup {None}
    BY DEF SqAll, SqTyped, Ordered, IsContent
  <1>1. CASE UNCHANGED vars
    BY <1>0, <1>1 DEF vars, disk, memory, frame, worker, history, SqTyped
  <1>2. CASE Start
    BY <1>0, <1>2 DEF Start, disk, memory, frame, history, SqTyped
  <1>3. CASE Preflight
    BY <1>0, <1>3 DEF Preflight, disk, frame, history, SqTyped
  <1>4. ASSUME NEW id \in Ids, ReserveArchive(id) PROVE SqTyped'
    BY <1>0, <1>4 DEF ReserveArchive, disk, frame, SqTyped
  <1>5. CASE WriteOpen \/ WriteSchema
    BY <1>0, <1>5 DEF WriteOpen, WriteSchema, memory, worker, history, SqTyped, SqAll, SqInv,
    SqCall
  <1>6. ASSUME NEW s \in States, Save(s) PROVE SqTyped'
    <2>. DEFINE c == [NoCall EXCEPT !.kind = "checkpoint", !.state = s]
    <2>1. Issue(c) /\ reserved' = reserved
      BY <1>6, Zenon DEF Save
    <2>2. c.kind = "checkpoint" /\ c.id = None /\ c.state = s
      BY DEF NoCall
    <2>. HIDE DEF c
    <2>. QED  BY <2>1, <2>2, IssueTyped DEF Kinds
  <1>7. ASSUME NEW s \in States, BeginArchive(s) PROVE SqTyped'
    <2>. DEFINE c == [NoCall EXCEPT !.kind = "begin", !.id = attempt, !.state = s]
    <2>1. Issue(c) /\ reserved' = reserved \ {attempt}
      BY <1>7, Zenon DEF BeginArchive
    <2>2. c.kind = "begin" /\ c.id = attempt /\ c.state = s
      BY DEF NoCall
    <2>. HIDE DEF c
    <2>. QED  BY <1>0, <2>1, <2>2, IssueTyped DEF Kinds
  <1>8. ASSUME NEW s \in States, CommitCompaction(s) PROVE SqTyped'
    <2>. DEFINE c == [NoCall EXCEPT !.kind = "commit", !.id = attempt, !.state = s]
    <2>1. Issue(c) /\ reserved' = reserved
      BY <1>8, Zenon DEF CommitCompaction
    <2>2. c.kind = "commit" /\ c.id = attempt /\ c.state = s
      BY DEF NoCall
    <2>. HIDE DEF c
    <2>. QED  BY <1>0, <2>1, <2>2, IssueTyped DEF Kinds
  <1>9. ASSUME NEW o \in {"failed", "cancelled"}, FinishAttempt(o) PROVE SqTyped'
    <2>. DEFINE c == [NoCall EXCEPT !.kind = "finish", !.id = attempt, !.outcome = o]
    <2>1. Issue(c) /\ reserved' = reserved
      BY <1>9, Zenon DEF FinishAttempt
    <2>2. c.kind = "finish" /\ c.id = attempt
      BY DEF NoCall
    <2>. HIDE DEF c
    <2>. QED  BY <1>0, <2>1, <2>2, IssueTyped DEF Kinds
  <1>10. CASE PruneArchives
    <2>. DEFINE c == [NoCall EXCEPT !.kind = "prune", !.id = attempt]
    <2>1. Issue(c) /\ reserved' = reserved
      BY <1>10, Zenon DEF PruneArchives
    <2>2. c.kind = "prune" /\ c.id = attempt
      BY DEF NoCall
    <2>. HIDE DEF c
    <2>. QED  BY <1>0, <2>1, <2>2, IssueTyped DEF Kinds
  <1>11. CASE WriteCommit
    <2>1. /\ stage = "transaction" /\ db' = Outcome(call)
          /\ kept' = (IF kept.file = "ready" THEN [kept EXCEPT !.db = db'] ELSE kept)
          /\ UNCHANGED <<reserved, call, expected, attempt, crashes, mine, before, answer>>
      BY <1>11 DEF WriteCommit, memory, worker, history
    <2>2. Ordered(db')
      BY <2>1, OutcomeOrdered
    <2>3. kept'.db \in {kept.db, db'}
      BY <2>1 DEF SqAll, SqInv, SqStored
    <2>4. Ordered(db)' /\ Ordered(kept.db)'
      BY <1>0, <2>2, <2>3
    <2>. QED  BY <1>0, <2>1, <2>4 DEF SqTyped
  <1>12. CASE WriteRefused
    <2>1. Return(IF uncertain THEN "unknown" ELSE "not_committed", None) /\ UNCHANGED <<db, kept>>
      BY <1>12 DEF WriteRefused
    <2>. DEFINE r == IF uncertain THEN "unknown" ELSE "not_committed"
    <2>2. r \in {"unknown", "not_committed"}
      OBVIOUS
    <2>. HIDE DEF r
    <2>. QED  BY <1>0, <2>1, <2>2, ReturnTyped DEF r
  <1>13. CASE WriteCommitFails
    <2>1. /\ stage = "transaction" /\ db' \in {db, Outcome(call)} /\ kept' = kept
          /\ Return("unknown", None)
      BY <1>13 DEF WriteCommitFails
    <2>2. Ordered(db') /\ Ordered(kept'.db)
      BY <1>0, <2>1, OutcomeOrdered
    <2>. QED  BY <2>1, <2>2, ReturnTyped
  <1>14. CASE WriteSync
    BY <1>0, <1>14, ReturnTyped DEF WriteSync
  <1>15. CASE WriteSyncFails
    BY <1>0, <1>15, ReturnTyped DEF WriteSyncFails, disk
  <1>16. CASE Crash
    <2>1. db' \in {db, kept.db} /\ kept' = kept
      BY <1>16 DEF Crash
    <2>2. Ordered(db)' /\ Ordered(kept.db)'
      BY <1>0, <2>1
    <2>3. /\ crashes' \in 0..MaxCrashes /\ stage' = "none" /\ call' = NoCall /\ expected' = None
          /\ attempt' = None /\ reserved' = {} /\ mine' = {} /\ answer' = "opened" /\ before' = before
      BY <1>0, <1>16, StoreConstants DEF Crash, SqTyped
    <2>. QED  BY <1>0, <2>2, <2>3 DEF SqTyped, NoCall
  <1>. QED
    BY <1>1, <1>2, <1>3, <1>4, <1>5, <1>6, <1>7, <1>8, <1>9, <1>10, <1>11, <1>12, <1>13, <1>14,
       <1>15,
       <1>16 DEF Next

\* A step that leaves the content alone.
Newest == at \in {"prepared", "cleanup"} \/ (at = "reserved" /\ stage = "sync")
LEMMA SameRetained ==
    ASSUME SqAll, UNCHANGED db, Newest' => Newest /\ attempt' = attempt,
           stage' = "sync" \/ answer' = "committed" =>
              (stage = "sync" \/ answer = "committed") /\ call' = call,
           mine \subseteq mine'
    PROVE  SqRetained'
  <1>1. Prepared(db)' = Prepared(db)
    BY DEF Prepared
  <1>2. /\ Newest => \A a \in DOMAIN db.archives \ {attempt} : db.archives[a].base < db.rev
        /\ (stage = "sync" \/ answer = "committed") /\ call.kind = "prune" /\ MaxArchives > 0 =>
              \/ DOMAIN db.archives \subseteq {call.id} \cup (Prepared(db) \cap mine)
              \/ Cardinality(DOMAIN db.archives) <= MaxArchives
    BY DEF SqAll, SqRetained, Newest
  <1>3. Newest' => \A a \in DOMAIN db'.archives \ {attempt'} : db'.archives[a].base < db'.rev
    BY <1>2
  <1>. QED  BY <1>1, <1>2, <1>3 DEF SqRetained, Newest

LEMMA CommitRetained ==
    ASSUME SqAll, WriteCommit
    PROVE  SqRetained'
  <1>1. /\ stage = "transaction" /\ stage' = "sync" /\ db' = Outcome(call)
        /\ UNCHANGED <<call, attempt, at, mine, answer, reconciled>>
    BY DEF WriteCommit, memory, worker, history
  <1>2. Change(call, db, db') /\ Prepared(db') \subseteq mine
    BY <1>1, OutcomeSound DEF SqAll
  <1>3. /\ call.kind \in Kinds /\ (call.kind = "begin" <=> at = "reserved")
        /\ call.kind \in {"commit", "finish"} <=> at = "prepared"
        /\ call.kind = "prune" <=> at = "cleanup"
        /\ call.kind # "checkpoint" => call.id = attempt
        /\ call.kind = "prune" => reconciled
    BY <1>1 DEF SqAll, SqInv, SqCall, SqCaller
  <1>4. /\ db.rev \in Nat /\ \A a \in DOMAIN db.archives :
              db.archives[a].base \in Nat /\ db.archives[a].base <= db.rev
    BY DEF SqAll, SqTyped, Ordered, IsContent
  <1>5. \A a \in DOMAIN db.archives \cap DOMAIN db'.archives : db'.archives[a].base = db.archives[a].base
    BY <1>2 DEF Change, SameButOutcome
  <1>6. at \in {"prepared", "cleanup"} =>
           \A a \in DOMAIN db.archives \ {attempt} : db.archives[a].base < db.rev
    BY DEF SqAll, SqRetained
  <1>7. at \in {"prepared", "cleanup", "reserved"} =>
           \A a \in DOMAIN db'.archives \ {attempt} : db'.archives[a].base < db'.rev
    <2>1. CASE at = "reserved"
      <3>1. DOMAIN db'.archives \subseteq DOMAIN db.archives \cup {attempt} /\ db'.rev = db.rev + 1
        BY <1>2, <1>3, <2>1 DEF Change
      <3>. QED  BY <1>4, <1>5, <2>1, <3>1
    <2>2. CASE at \in {"prepared", "cleanup"}
      <3>1. DOMAIN db'.archives \subseteq DOMAIN db.archives /\ db'.rev \in {db.rev, db.rev + 1}
        BY <1>2, <1>3, <2>2 DEF Change, Kinds
      <3>. QED  BY <1>4, <1>5, <1>6, <2>2, <3>1
    <2>. QED  BY <2>1, <2>2
  <1>8. call.kind = "prune" /\ MaxArchives > 0 =>
           \/ DOMAIN db'.archives \subseteq {call.id} \cup (Prepared(db') \cap mine)
           \/ Cardinality(DOMAIN db'.archives) <= MaxArchives
    <2>. SUFFICES ASSUME call.kind = "prune", MaxArchives > 0
                  PROVE  \/ DOMAIN db'.archives \subseteq {call.id} \cup (Prepared(db') \cap mine)
                         \/ Cardinality(DOMAIN db'.archives) <= MaxArchives
      OBVIOUS
    <2>1. db' = Pruned(db, call.id)
      BY <1>1, <1>3 DEF Outcome
    <2>2. Ordered(db) /\ call.id \in DOMAIN db.archives
      BY <1>1, <1>3 DEF SqAll, SqTyped, SqInv, SqCaller, SqStored, SoundContent
    <2>3. \/ DOMAIN db'.archives \subseteq Protected(db, call.id)
          \/ Cardinality(DOMAIN db'.archives) <= MaxArchives
      BY <2>1, <2>2, PrunedSmall
    <2>4. \A a \in DOMAIN db.archives : a # call.id => ~(db.archives[a].base >= db.rev)
      BY <1>3, <1>4, <1>6
    <2>5. Protected(db, call.id) \subseteq {call.id} \cup Prepared(db)
      BY <2>4 DEF Protected, Prepared
    <2>6. /\ DOMAIN db'.archives \subseteq DOMAIN db.archives
          /\ \A a \in DOMAIN db'.archives : db'.archives[a] = db.archives[a]
      BY <2>1, <2>2, PrunedParts DEF Ordered
    <2>7. DOMAIN db'.archives \cap Prepared(db) \subseteq Prepared(db')
      BY <2>6 DEF Prepared
    <2>. QED  BY <1>2, <2>3, <2>5, <2>7
  <1>9. Prepared(db)' = Prepared(db')
    BY DEF Prepared
  <1>. QED  BY <1>1, <1>7, <1>8, <1>9 DEF SqRetained

LEMMA NextRetained ==
    ASSUME SqAll, [Next]_vars
    PROVE  SqRetained'
  <1>0. /\ stage # "none" => answer = "pending"
        /\ stage # "none" =>
              /\ call.kind \in Kinds /\ (call.kind = "begin" <=> at = "reserved")
              /\ call.kind \in {"commit", "finish"} <=> at = "prepared"
    BY DEF SqAll, SqInv, SqWriting, SqCall
  <1>1. CASE UNCHANGED vars
    BY <1>1, SameRetained DEF vars, disk, frame, worker, history, Newest
  <1>2. CASE Start
    BY <1>2, SameRetained DEF Start, disk, frame, history, Newest
  <1>3. CASE Preflight
    BY <1>3, SameRetained DEF Preflight, disk, frame, history, Newest
  <1>4. ASSUME NEW id \in Ids, ReserveArchive(id) PROVE SqRetained'
    BY <1>4, SameRetained DEF ReserveArchive, disk, frame, Newest
  <1>5. CASE WriteOpen \/ WriteSchema
    BY <1>0, <1>5, SameRetained DEF WriteOpen, WriteSchema, worker, history, Newest
  <1>6. ASSUME NEW c, Issue(c) PROVE SqRetained'
    BY <1>6, SameRetained DEF Issue, disk, Newest
  <1>7. CASE PruneArchives \/ (\E o \in {"failed", "cancelled"} : FinishAttempt(o))
             \/ (\E s \in States : Save(s) \/ BeginArchive(s) \/ CommitCompaction(s))
    BY <1>6, <1>7, Zenon DEF PruneArchives, FinishAttempt, Save, BeginArchive, CommitCompaction
  <1>8. CASE WriteCommit
    BY <1>8, CommitRetained
  <1>9. ASSUME NEW r \in {"committed", "not_committed", "unknown"}, NEW rev, Return(r, rev),
               stage # "none", db' = db, r = "committed" => stage = "sync"
        PROVE  SqRetained'
    <2>1. /\ stage' = "none" /\ answer' = r /\ at' = Following(r)
          /\ UNCHANGED <<call, attempt, mine>>
      BY <1>9 DEF Return
    <2>2. at' \in {"prepared", "cleanup"} =>
             \/ call.kind = "begin" /\ r = "committed"
             \/ call.kind \in {"commit", "finish"}
      BY <2>1 DEF Following, Latches
    <2>. QED  BY <1>0, <1>9, <2>1, <2>2, SameRetained DEF Newest
  <1>10. CASE WriteRefused
    <2>. DEFINE r == IF uncertain THEN "unknown" ELSE "not_committed"
    <2>1. r \in {"unknown", "not_committed"} /\ r # "committed"
      OBVIOUS
    <2>2. Return(r, None) /\ db' = db /\ stage # "none"
      BY <1>10 DEF WriteRefused
    <2>. HIDE DEF r
    <2>. QED  BY <1>9, <2>1, <2>2
  <1>11. CASE WriteSync
    BY <1>9, <1>11 DEF WriteSync
  <1>12. CASE WriteSyncFails
    BY <1>9, <1>12 DEF WriteSyncFails, disk
  <1>13. CASE WriteCommitFails
    <2>1. stage' = "none" /\ answer' = "unknown" /\ at' = "idle"
      BY <1>13 DEF WriteCommitFails, Return, Following, Latches
    <2>. QED  BY <2>1 DEF SqRetained
  <1>14. CASE Crash
    BY <1>14 DEF Crash, SqRetained
  <1>. QED
    BY <1>1, <1>2, <1>3, <1>4, <1>5, <1>7, <1>8, <1>10, <1>11, <1>12, <1>13, <1>14 DEF Next

LEMMA NextAll ==
    SqAll /\ [Next]_vars => SqAll'
  BY NextSq, NextFiles, NextTyped, NextRetained DEF SqAll

LEMMA OrderedIsDb ==
    ASSUME NEW d, Ordered(d)
    PROVE  IsDb(d)
  <1>1. DOMAIN d = {"rev", "state", "archives", "replaced", "basis"} /\ d.rev \in Nat
    BY DEF Ordered, IsContent
  <1>2. \A a \in DOMAIN d.archives : d.archives[a] \in Archive
    BY DEF Ordered, IsContent, Row, Archive
  <1>. QED  BY <1>1, <1>2 DEF IsDb, Ordered

LEMMA FiniteWith ==
    ASSUME NEW T, IsFiniteSet(T), NEW x
    PROVE  IsFiniteSet({x} \cup T)
  <1>1. IsFiniteSet(T \cup {x})
    BY FS_AddElement
  <1>2. T \cup {x} = {x} \cup T
    OBVIOUS
  <1>. QED  BY <1>1, <1>2

LEMMA FinitePair ==
    ASSUME NEW x, NEW y
    PROVE  IsFiniteSet({x, y})
  <1>1. IsFiniteSet({y})
    BY FS_Singleton
  <1>2. {x} \cup {y} = {x, y}
    OBVIOUS
  <1>. QED  BY <1>1, <1>2, FiniteWith

LEMMA SqAllSafe ==
    ASSUME SqAll
    PROVE  /\ SqliteTypeOK /\ NoSpuriousRefusal /\ SettledTruth
           /\ EvidenceKept /\ RetentionHolds /\ NoReservationLeak
  <1>1. SqliteTypeOK
    <2>1. IsDb(db) /\ IsDb(kept.db) /\ IsDb(before)
      BY OrderedIsDb DEF SqAll, SqTyped
    <2>2. {up, uncertain, reconciled, created, storageFailed} \subseteq BOOLEAN
      BY DEF SqAll, SqInv, SqWriting, SqFiles
    <2>3. UNION {reserved, drawn, mine} \subseteq Ids
      BY DEF SqAll, SqInv, SqWriting, SqTyped
    <2>. QED
      BY <2>1, <2>2, <2>3 DEF SqliteTypeOK, SqAll, SqInv, SqWriting, SqFiles, SqTyped, SqCaller,
      Before
  <1>2. RetentionHolds
    <2>. SUFFICES ASSUME answer = "committed", call.kind = "prune", MaxArchives > 0
                  PROVE  Cardinality(DOMAIN db.archives) <=
                            Max({MaxArchives, Cardinality({call.id} \cup (Prepared(db) \cap mine))})
      BY DEF RetentionHolds
    <2>. DEFINE P == {call.id} \cup (Prepared(db) \cap mine)
                S == {MaxArchives, Cardinality(P)}
    <2>1. \/ DOMAIN db.archives \subseteq P
          \/ Cardinality(DOMAIN db.archives) <= MaxArchives
      BY DEF SqAll, SqRetained
    <2>2. IsFiniteSet(DOMAIN db.archives) /\ IsFiniteSet(P)
      <3>1. IsFiniteSet(DOMAIN db.archives)
        BY DEF SqAll, SqTyped, Ordered
      <3>2. Prepared(db) \cap mine \subseteq DOMAIN db.archives
        BY DEF Prepared
      <3>3. IsFiniteSet(Prepared(db) \cap mine)
        BY <3>1, <3>2, FS_Subset
      <3>. QED  BY <3>1, <3>3, FiniteWith
    <2>. HIDE DEF P
    <2>3. Cardinality(P) \in Nat /\ MaxArchives \in Nat /\ Cardinality(DOMAIN db.archives) \in Nat
      BY <2>2, FS_CardinalityType, StoreConstants
    <2>4. IsFiniteSet(S)
      BY FinitePair
    <2>5. Max(S) \in S /\ \A y \in S : Max(S) >= y
      BY <2>3, <2>4, FiniteMax
    <2>6. DOMAIN db.archives \subseteq P => Cardinality(DOMAIN db.archives) <= Cardinality(P)
      BY <2>2, FS_Subset
    <2>7. Cardinality(DOMAIN db.archives) <= Max(S)
      BY <2>1, <2>3, <2>5, <2>6
    <2>. QED  BY <2>7 DEF P
  <1>. QED  BY <1>1, <1>2, SqInvSafe DEF SqAll

\* Every stored state, archive row and staged write keeps its shape; no write of the
\* session's owner is refused for what it asks; an archive says "succeeded" exactly when
\* its replacement became the state; what the current state was made from stays archived;
\* a prune leaves no more archives than it was configured to keep, or than it may not
\* touch; and no identity leaks: through every crash, lost write and unknown outcome
\* (write(), begin_archive(), commit_compaction(), reconcile(), prune_archives()).
THEOREM SqliteAlwaysAccounts ==
    Spec => [](/\ SqliteTypeOK /\ NoSpuriousRefusal /\ SettledTruth
               /\ EvidenceKept /\ RetentionHolds /\ NoReservationLeak)
  BY InitAll, NextAll, SqAllSafe, PTL DEF Spec

(***************************************************************************)
(* The JSON backend.  The contract sees its snapshot: the rename of the    *)
(* temporary file applies, the directory sync or a failure returns.  What  *)
(* has to be shown is that the archives and memory.md, written by the same *)
(* StagedWrite, never pass for the snapshot, and that an unknown outcome   *)
(* leaves the worker where it writes no more.                              *)
(***************************************************************************)
JsWriting ==
    /\ writing = [file |-> writing.file, step |-> writing.step, content |-> writing.content]
    /\ jsonAnswer = "pending" <=> pc \in {"save", "commit"}
    /\ writing.step # "none" => (writing.file = "snapshot" <=> pc \in {"save", "commit"})
    /\ pc \in {"save", "commit"} /\ writing.step = "temporary" => prior = snapshot
JsUnknown ==
    jsonAnswer = "unknown" => failed /\ pc \in {"idle", "cleanup", "pruning"}
JsInv == JsWriting /\ JsUnknown

LEMMA InitJs ==
    JsonInit => JsInv /\ JsonContractStore!Init
  BY DEF JsonInit, JsInv, JsWriting, JsUnknown, Idle, JsonContractStore!Init

\* What the contract sees of the directory of files.
LEMMA UnseenJs ==
    ASSUME UNCHANGED <<snapshot, jsonKept, prior, jsonAnswer>>
    PROVE  UNCHANGED JsonContractStore!storeVars
  BY DEF JsonContractStore!storeVars, Contents

LEMMA FailsJs ==
    ASSUME JsInv, NEW r \in {"not_committed", "unknown"}, Fails(r), writing.step # "none",
           r = "not_committed" => writing.step = "temporary"
    PROVE  /\ JsInv'
           /\ \/ JsonContractStore!Return(r)
              \/ UNCHANGED JsonContractStore!storeVars
  <1>1. /\ UNCHANGED <<snapshot, jsonKept, prior>> /\ writing' = Idle /\ pc' = AfterFailure
        /\ failed' = (failed \/ Latched(r))
        /\ jsonAnswer' = IF writing.file = "snapshot" THEN r ELSE jsonAnswer
    BY DEF Fails
  <1>2. pc' \in {"idle", "cleanup"}
    BY <1>1 DEF AfterFailure
  <1>3. writing' = [file |-> writing'.file, step |-> writing'.step, content |-> writing'.content]
        /\ writing'.step = "none"
    BY <1>1 DEF Idle
  <1>4. CASE writing.file = "snapshot"
    <2>1. failed' = TRUE /\ jsonAnswer' = r
      BY <1>1, <1>4 DEF Latched
    <2>2. JsInv'
      BY <1>2, <1>3, <2>1 DEF JsInv, JsWriting, JsUnknown
    <2>3. jsonAnswer = "pending" /\ (r = "not_committed" => snapshot = prior)
      BY <1>4 DEF JsInv, JsWriting
    <2>4. JsonContractStore!Return(r)
      BY <1>1, <2>1, <2>3 DEF JsonContractStore!Return
    <2>. QED  BY <2>2, <2>4
  <1>5. CASE writing.file # "snapshot"
    <2>1. jsonAnswer' = jsonAnswer /\ jsonAnswer # "pending"
      BY <1>1, <1>5 DEF JsInv, JsWriting
    <2>2. jsonAnswer = "unknown" => failed'
      BY <1>1 DEF JsInv, JsUnknown
    <2>3. JsInv'
      BY <1>2, <1>3, <2>1, <2>2 DEF JsInv, JsWriting, JsUnknown
    <2>. QED  BY <1>1, <2>1, <2>3, UnseenJs
  <1>. QED  BY <1>4, <1>5

LEMMA RenameJs ==
    ASSUME JsInv, RenameTemporary
    PROVE  JsInv' /\ (JsonContractStore!Apply \/ UNCHANGED JsonContractStore!storeVars)
  <1>1. /\ writing.step = "temporary" /\ writing' = [writing EXCEPT !.step = "renamed"]
        /\ UNCHANGED <<jsonKept, prior, jsonAnswer, pc, failed>>
        /\ writing.file # "snapshot" => snapshot' = snapshot
    BY DEF RenameTemporary, attemptVars, jsonHistory, InArchive
  <1>2. /\ writing' = [file |-> writing.file, step |-> "renamed", content |-> writing.content]
    BY <1>1 DEF JsInv, JsWriting
  <1>3. JsInv'
    BY <1>1, <1>2 DEF JsInv, JsWriting, JsUnknown
  <1>4. CASE writing.file = "snapshot"
    <2>1. jsonAnswer = "pending" /\ snapshot = prior
      BY <1>1, <1>4 DEF JsInv, JsWriting
    <2>2. JsonContractStore!Legal(Contents(snapshot), Contents(snapshot)')
      BY DEF JsonContractStore!Legal, Contents
    <2>3. JsonContractStore!Apply
      BY <1>1, <2>1, <2>2 DEF JsonContractStore!Apply
    <2>. QED  BY <1>3, <2>3
  <1>5. CASE writing.file # "snapshot"
    BY <1>1, <1>3, <1>5, UnseenJs
  <1>. QED  BY <1>4, <1>5

LEMMA CallJs ==
    ASSUME JsInv, Checkpoint \/ CommitCompactionJson
    PROVE  JsInv' /\ JsonContractStore!Call
  <1>1. /\ pc \in {"idle", "staged"} /\ (pc = "idle" => ~failed) /\ pc' \in {"save", "commit"}
        /\ prior' = snapshot /\ jsonAnswer' = "pending" /\ UNCHANGED <<snapshot, jsonKept,
                                                                       failed>>
        /\ \E content : writing' = [file |-> "snapshot", step |-> "temporary", content |-> content]
    BY DEF Checkpoint, CommitCompactionJson, Ready, WriteSnapshot, Begin, files
  <1>2. jsonAnswer \notin {"pending", "unknown"}
    BY <1>1 DEF JsInv, JsWriting, JsUnknown
  <1>3. JsInv'
    BY <1>1 DEF JsInv, JsWriting, JsUnknown
  <1>. QED  BY <1>1, <1>2, <1>3 DEF JsonContractStore!Call

LEMMA CommittedJs ==
    ASSUME JsInv, SaveReturns \/ CompactionCommitted
    PROVE  JsInv' /\ JsonContractStore!Return("committed")
  <1>1. /\ pc \in {"save", "commit"} /\ writing.step = "renamed" /\ SyncDirectory
        /\ jsonAnswer' = "committed" /\ pc' \in {"idle", "memory"} /\ UNCHANGED <<snapshot,
                                                                                  prior, failed>>
        /\ writing' = Idle
           \/ \E content : writing' = [file |-> "memory", step |-> "temporary", content |-> content]
    BY DEF SaveReturns, CompactionCommitted, Begin
  <1>2. writing.file = "snapshot" /\ jsonAnswer = "pending"
    BY <1>1 DEF JsInv, JsWriting
  <1>3. jsonKept' = snapshot
    BY <1>1, <1>2 DEF SyncDirectory
  <1>4. JsInv'
    BY <1>1 DEF JsInv, JsWriting, JsUnknown, Idle
  <1>. QED  BY <1>1, <1>2, <1>3, <1>4 DEF JsonContractStore!Return

LEMMA DeathJs ==
    ASSUME Death
    PROVE  JsInv' /\ JsonContractStore!Reopen
  <1>1. /\ snapshot' \in {snapshot, jsonKept} /\ jsonAnswer' = "opened" /\ pc' = "down"
        /\ writing' = Idle /\ UNCHANGED <<jsonKept, prior>>
    BY DEF Death, files
  <1>2. JsInv'
    BY <1>1 DEF JsInv, JsWriting, JsUnknown, Idle
  <1>3. Contents(snapshot)' \in {Contents(snapshot), Contents(jsonKept)}
    BY <1>1
  <1>. QED  BY <1>1, <1>2, <1>3 DEF JsonContractStore!Reopen

\* A step aside of the snapshot: the archives, memory.md, the turns, the retention.
LEMMA AsideJs ==
    ASSUME JsInv, UNCHANGED <<snapshot, jsonKept, prior, jsonAnswer, failed>>,
           pc \notin {"save", "commit"}, pc' \notin {"save", "commit"},
           jsonAnswer = "unknown" => pc' \in {"idle", "cleanup", "pruning"},
           \/ writing' = writing
           \/ writing' = Idle
           \/ \E f \in {"payload", "manifest"} : \E c :
                 writing' = [file |-> f, step |-> "temporary", content |-> c]
    PROVE  JsInv' /\ UNCHANGED JsonContractStore!storeVars
  <1>1. JsWriting'
    BY DEF JsInv, JsWriting, Idle
  <1>2. JsUnknown'
    BY DEF JsInv, JsUnknown
  <1>. QED  BY <1>1, <1>2, UnseenJs DEF JsInv

LEMMA StepJs ==
    ASSUME JsInv, [JsonNext]_jsonVars
    PROVE  JsInv' /\ [JsonContractStore!Next]_(JsonContractStore!storeVars)
  <1>0. jsonAnswer = "unknown" => failed /\ pc \in {"idle", "cleanup", "pruning"}
    BY DEF JsInv, JsUnknown
  <1>1. CASE UNCHANGED jsonVars
    BY <1>1, UnseenJs DEF jsonVars, files, bounds, attemptVars, jsonHistory, JsInv, JsWriting,
                          JsUnknown
  <1>2. CASE LoadCurrent
    BY <1>0, <1>2, AsideJs DEF LoadCurrent, files, bounds, attemptVars, jsonHistory
  <1>3. CASE ReserveArchiveJson
    BY <1>0, <1>3, AsideJs DEF ReserveArchiveJson, Ready, files, bounds, attemptVars, jsonHistory
  <1>4. CASE BeginArchiveJson
    BY <1>0, <1>4, AsideJs DEF BeginArchiveJson, Begin, files, bounds, attemptVars, jsonHistory
  <1>5. CASE PublishManifest
    BY <1>0, <1>5, AsideJs DEF PublishManifest, Begin, files, bounds, attemptVars, jsonHistory
  <1>6. CASE SummaryFails
    BY <1>0, <1>6, AsideJs DEF SummaryFails, files, bounds, attemptVars, jsonHistory
  <1>7. CASE CancelBeforeCommit
    BY <1>0, <1>7, AsideJs DEF CancelBeforeCommit, files, bounds, attemptVars, jsonHistory
  <1>8. CASE Prune
    BY <1>0, <1>8, AsideJs DEF Prune, files, bounds, attemptVars, jsonHistory
  <1>9. CASE PruneStep
    BY <1>0, <1>9, AsideJs DEF PruneStep, files, bounds, attemptVars, jsonHistory
  <1>10. CASE PruneEnds
    BY <1>0, <1>10, AsideJs DEF PruneEnds, files, bounds, attemptVars, jsonHistory
  <1>11. CASE ArchiveBegun \/ MemoryPublished
    <2>1. writing.file # "snapshot"
      BY <1>11 DEF ArchiveBegun, MemoryPublished, JsInv, JsWriting
    <2>. QED
      BY <1>0, <1>11, <2>1, AsideJs DEF ArchiveBegun, MemoryPublished, SyncDirectory, jsonHistory
  <1>12. CASE \E t \in Summaries : \E o \in {0} \cup DOMAIN dirs : Turn(t, o)
    BY <1>0, <1>12, AsideJs DEF Turn, Ready, files, bounds, attemptVars, jsonHistory
  <1>13. CASE \E t \in Summaries : \E refs \in SUBSET DOMAIN dirs : Summarise(t, refs)
    BY <1>0, <1>13, AsideJs DEF Summarise, files, bounds, attemptVars, jsonHistory
  <1>14. CASE RenameTemporary
    BY <1>14, RenameJs DEF JsonContractStore!Next
  <1>15. CASE WriteFails \/ SyncFails
    BY <1>15, FailsJs DEF WriteFails, SyncFails, JsonContractStore!Next, JsonContractStore!Answers
  <1>16. CASE Checkpoint \/ CommitCompactionJson
    BY <1>16, CallJs DEF JsonContractStore!Next
  <1>17. CASE SaveReturns \/ CompactionCommitted
    BY <1>17, CommittedJs DEF JsonContractStore!Next, JsonContractStore!Answers
  <1>18. CASE Death
    BY <1>18, DeathJs DEF JsonContractStore!Next
  <1>. QED
    BY <1>1, <1>2, <1>3, <1>4, <1>5, <1>6, <1>7, <1>8, <1>9, <1>10, <1>11, <1>12, <1>13, <1>14,
       <1>15,
       <1>16, <1>17, <1>18 DEF JsonNext

\* The JSON backend implements the contract of the interface for its snapshot
\* (write_snapshot(), map_failures(), the worker's storage_failed).
THEOREM JsonKeepsContract ==
    JsonSpec => JsonContract
  BY InitJs, StepJs, PTL DEF JsonSpec, JsonContract, JsonContractStore!Spec

(***************************************************************************)
(* The files of the JSON backend.  What has to be known about a compaction *)
(* in progress: which file is being written at each place of compact() and *)
(* with which content (JsStaged); that a directory holds no payload but    *)
(* the conversation its attempt froze, and that retention and the relics   *)
(* it must leave alone have nothing in common (JsDirs); and how the        *)
(* snapshot, the one before it, the live conversation and the replacement  *)
(* follow each other, in what they name and in their generation            *)
(* (JsLineage).                                                            *)
(***************************************************************************)
Directories ==
    [payload : Conversations \cup {NoText}, manifest : BOOLEAN, other : BOOLEAN,
     synced : SUBSET {"payload", "manifest"}]

Gen(s) == IF s = NoText THEN 0 ELSE s.gen
Names(s) == IF s = NoText THEN {} ELSE s.refs

JsTyped ==
    /\ {snapshot, jsonKept, prior} \subseteq Conversations \cup {NoText}
    /\ {live, replacement} \subseteq Conversations
    /\ memo \in Nat /\ keptMemo \in Nat /\ jsonAttempt \in Nat
    /\ failed \in BOOLEAN
    /\ DOMAIN dirs \subseteq Nat /\ IsFiniteSet(DOMAIN dirs)
    /\ dirs \in [DOMAIN dirs -> Directories]

\* What is written where.
JsStaged ==
    /\ writing.step \in {"none", "temporary", "renamed"}
    /\ writing.step # "none" <=> pc \in {"save", "commit", "archive", "memory"}
    /\ pc \in {"save", "commit"} => writing.file = "snapshot"
    /\ pc = "memory" => writing.file = "memory"
    /\ pc = "save" => writing.content = live
    /\ pc = "commit" => writing.content = replacement
    /\ pc = "archive" =>
          /\ jsonAttempt \in DOMAIN dirs
          /\ writing.file \in {"payload", "manifest"}
          /\ writing.file = "payload" =>
                jsonAttempt \in DOMAIN frozen /\ writing.content = frozen[jsonAttempt]
                /\ writing.content \in Conversations
    /\ failed => pc \in {"idle", "cleanup", "pruning"}

JsDirs ==
    /\ \A o \in DOMAIN dirs : dirs[o].payload # NoText =>
          o \in DOMAIN frozen /\ dirs[o].payload = frozen[o]
    /\ doomed \cup relics \subseteq DOMAIN dirs
    /\ doomed \cap relics = {}
    /\ pc # "pruning" => doomed = {} /\ relics = {}
    /\ doomed \cap (live.refs \cup replacement.refs) = {}

JsLineage ==
    /\ keptMemo <= memo /\ memo <= Gen(snapshot) /\ memo <= Gen(jsonKept)
    /\ pc \notin {"down", "commit"} /\ ~failed => Names(snapshot) \subseteq live.refs
    /\ pc # "down" /\ ~failed => Gen(snapshot) <= IF pc = "commit" THEN replacement.gen ELSE live.gen
    /\ pc = "commit" =>
          /\ Names(prior) \subseteq live.refs
          /\ writing.step = "temporary" => Names(snapshot) \subseteq live.refs
          /\ writing.step = "renamed" => snapshot = replacement
    /\ pc \in {"staged", "commit"} => replacement.gen = live.gen + 1 /\ staged = replacement.gen
    /\ pc = "memory" => staged = Gen(snapshot) /\ staged = Gen(jsonKept) /\ writing.content = staged
    /\ pc \in {"cleanup", "pruning"} =>
          /\ Names(snapshot) \subseteq live.refs \cup replacement.refs
          /\ jsonAnswer = "unknown" => Names(prior) \subseteq live.refs \cup replacement.refs

JsAll == JsInv /\ JsTyped /\ JsStaged /\ JsDirs /\ JsLineage

LEMMA FreshConversation ==
    FreshSession \in Conversations /\ FreshSession.refs = {} /\ FreshSession.gen = 0
  BY DEF FreshSession, Conversations

LEMMA GenNat ==
    ASSUME NEW s \in Conversations \cup {NoText}
    PROVE  Gen(s) \in Nat /\ Names(s) \in SUBSET Nat
  BY DEF Gen, Names, Conversations

LEMMA PlannedNat ==
    ASSUME DOMAIN dirs \subseteq Nat, IsFiniteSet(DOMAIN dirs)
    PROVE  PlannedOrdinal \in Nat
  <1>. DEFINE D == {0} \cup DOMAIN dirs
  <1>1. D \subseteq Nat /\ D # {}
    OBVIOUS
  <1>2. IsFiniteSet(D)
    BY FiniteWith
  <1>. HIDE DEF D
  <1>3. D \subseteq Int
    BY <1>1
  <1>4. Max(D) \in D
    BY <1>1, <1>2, <1>3, FiniteMax
  <1>. QED  BY <1>1, <1>4 DEF PlannedOrdinal, D

\* No directory comes or goes, and no payload changes.
SameDirs ==
    /\ DOMAIN dirs' = DOMAIN dirs /\ dirs' \in [DOMAIN dirs' -> Directories]
    /\ \A o \in DOMAIN dirs : dirs'[o].payload = dirs[o].payload

LEMMA InitFiles ==
    JsonInit => JsAll
  <1>. SUFFICES ASSUME JsonInit PROVE JsAll
    OBVIOUS
  <1>1. /\ DOMAIN dirs \subseteq Nat /\ IsFiniteSet(DOMAIN dirs)
        /\ dirs \in [DOMAIN dirs -> Directories]
        /\ \A o \in DOMAIN dirs : dirs[o].payload = NoText
    <2>1. CASE dirs = [o \in {} |-> EmptyDir]
      BY <2>1, FS_EmptySet
    <2>2. CASE dirs = [o \in {1} |-> Legacy]
      <3>1. Legacy \in Directories /\ Legacy.payload = NoText
        BY DEF Legacy, EmptyDir, Directories
      <3>2. DOMAIN dirs = {1} /\ IsFiniteSet({1})
        BY <2>2, FS_Singleton
      <3>. QED  BY <2>2, <3>1, <3>2
    <2>. QED  BY <2>1, <2>2 DEF JsonInit
  <1>2. JsTyped
    BY <1>1, FreshConversation DEF JsonInit, JsTyped
  <1>3. JsStaged
    BY DEF JsonInit, JsStaged, Idle
  <1>4. JsDirs
    BY <1>1 DEF JsonInit, JsDirs
  <1>5. JsLineage
    BY DEF JsonInit, JsLineage, Gen, Names
  <1>. QED  BY <1>2, <1>3, <1>4, <1>5, InitJs DEF JsAll

LEMMA LoadCurrentFiles ==
    ASSUME JsAll, LoadCurrent
    PROVE  JsTyped' /\ JsStaged' /\ JsDirs' /\ JsLineage'
  <1>0. /\ pc = "down" /\ pc' = "idle"
        /\ live' = IF snapshot = NoText THEN FreshSession ELSE snapshot
        /\ UNCHANGED <<snapshot, jsonKept, dirs, memo, keptMemo, newDirs, failed, jsonAttempt,
                       staged, replacement, doomed, writing, prior, jsonAnswer, frozen, relics>>
    BY DEF LoadCurrent, files, bounds, attemptVars, jsonHistory
  <1>a. FreshSession \in Conversations /\ FreshSession.refs = {} /\ FreshSession.gen = 0
    BY FreshConversation
  <1>b. live' \in Conversations /\ live'.refs = Names(snapshot) /\ live'.gen = Gen(snapshot)
    BY <1>0, <1>a DEF JsAll, JsTyped, Names, Gen
  <1>c. Gen(snapshot) \in Nat
    BY GenNat DEF JsAll, JsTyped
  <1>1. JsTyped'
    BY <1>0, <1>b, <1>c DEF JsAll, JsTyped
  <1>2. JsStaged'
    BY <1>0, <1>b, <1>c DEF JsAll, JsInv, JsWriting, JsStaged
  <1>3. JsDirs'
    BY <1>0, <1>b, <1>c DEF JsAll, JsDirs
  <1>4. JsLineage'
    BY <1>0, <1>b, <1>c DEF JsAll, JsLineage
  <1>. QED  BY <1>1, <1>2, <1>3, <1>4

LEMMA CheckpointFiles ==
    ASSUME JsAll, Checkpoint
    PROVE  JsTyped' /\ JsStaged' /\ JsDirs' /\ JsLineage'
  <1>0. /\ pc = "idle" /\ ~failed /\ pc' = "save" /\ prior' = snapshot
        /\ writing' = [file |-> "snapshot", step |-> "temporary", content |-> live]
        /\ UNCHANGED <<snapshot, jsonKept, dirs, memo, keptMemo, newDirs, live, failed,
                       jsonAttempt, staged, replacement, doomed, frozen, relics>>
    BY DEF Checkpoint, Ready, WriteSnapshot, Begin, files, bounds, attemptVars, jsonHistory
  <1>1. JsTyped'
    BY <1>0 DEF JsAll, JsTyped
  <1>2. JsStaged'
    BY <1>0 DEF JsAll, JsInv, JsWriting, JsStaged
  <1>3. JsDirs'
    BY <1>0 DEF JsAll, JsDirs
  <1>4. JsLineage'
    BY <1>0 DEF JsAll, JsLineage
  <1>. QED  BY <1>1, <1>2, <1>3, <1>4

LEMMA SaveReturnsFiles ==
    ASSUME JsAll, SaveReturns
    PROVE  JsTyped' /\ JsStaged' /\ JsDirs' /\ JsLineage'
  <1>0. /\ pc = "save" /\ writing.step = "renamed" /\ pc' = "idle" /\ writing' = Idle
        /\ SyncDirectory
        /\ UNCHANGED <<snapshot, memo, newDirs, live, failed, jsonAttempt, staged, replacement,
                       doomed, prior, frozen, relics>>
    BY DEF SaveReturns, files, bounds, attemptVars, jsonHistory
  <1>a. writing.file = "snapshot" /\ ~failed
    BY <1>0 DEF JsAll, JsStaged
  <1>b. jsonKept' = snapshot /\ UNCHANGED <<keptMemo, dirs>> /\ writing'.step = "none"
    BY <1>0, <1>a DEF SyncDirectory, InArchive, Idle
  <1>1. JsTyped'
    BY <1>0, <1>a, <1>b DEF JsAll, JsTyped
  <1>2. JsStaged'
    BY <1>0, <1>a, <1>b DEF JsAll, JsInv, JsWriting, JsStaged
  <1>3. JsDirs'
    BY <1>0, <1>a, <1>b DEF JsAll, JsDirs
  <1>4. JsLineage'
    BY <1>0, <1>a, <1>b DEF JsAll, JsLineage
  <1>. QED  BY <1>1, <1>2, <1>3, <1>4

LEMMA ReserveArchiveJsonFiles ==
    ASSUME JsAll, ReserveArchiveJson
    PROVE  JsTyped' /\ JsStaged' /\ JsDirs' /\ JsLineage'
  <1>0. /\ pc = "idle" /\ ~failed /\ pc' \in {"reserved", "idle"} /\ jsonAttempt' = PlannedOrdinal
        /\ UNCHANGED <<snapshot, jsonKept, dirs, memo, keptMemo, newDirs, live, failed, staged,
                       replacement, doomed, writing, prior, jsonAnswer, frozen, relics>>
    BY DEF ReserveArchiveJson, Ready, files, bounds, attemptVars, jsonHistory
  <1>a. jsonAttempt' \in Nat
    BY <1>0, PlannedNat DEF JsAll, JsTyped
  <1>1. JsTyped'
    BY <1>0, <1>a DEF JsAll, JsTyped
  <1>2. JsStaged'
    BY <1>0, <1>a DEF JsAll, JsInv, JsWriting, JsStaged
  <1>3. JsDirs'
    BY <1>0, <1>a DEF JsAll, JsDirs
  <1>4. JsLineage'
    BY <1>0, <1>a DEF JsAll, JsLineage
  <1>. QED  BY <1>1, <1>2, <1>3, <1>4

LEMMA BeginArchiveJsonFiles ==
    ASSUME JsAll, BeginArchiveJson
    PROVE  JsTyped' /\ JsStaged' /\ JsDirs' /\ JsLineage'
  <1>0. /\ pc = "reserved" /\ jsonAttempt \notin DOMAIN dirs /\ pc' = "archive"
        /\ dirs' = [o \in DOMAIN dirs \cup {jsonAttempt} |->
                      IF o = jsonAttempt THEN [EmptyDir EXCEPT !.other = TRUE] ELSE dirs[o]]
        /\ frozen' = [o \in DOMAIN frozen \cup {jsonAttempt} |->
                        IF o = jsonAttempt THEN live ELSE frozen[o]]
        /\ writing' = [file |-> "payload", step |-> "temporary", content |-> live]
        /\ UNCHANGED <<snapshot, jsonKept, memo, keptMemo, live, failed, jsonAttempt, staged,
                       replacement, doomed, prior, jsonAnswer, relics>>
    BY DEF BeginArchiveJson, Begin, files, bounds, attemptVars, jsonHistory
  <1>a. [EmptyDir EXCEPT !.other = TRUE] \in Directories
        /\ [EmptyDir EXCEPT !.other = TRUE].payload = NoText
    BY DEF EmptyDir, Directories
  <1>b. /\ DOMAIN dirs' = DOMAIN dirs \cup {jsonAttempt} /\ dirs'[jsonAttempt].payload = NoText
        /\ \A o \in DOMAIN dirs : dirs'[o] = dirs[o]
        /\ dirs'[jsonAttempt] \in Directories
    BY <1>0, <1>a
  <1>c. /\ DOMAIN frozen' = DOMAIN frozen \cup {jsonAttempt} /\ frozen'[jsonAttempt] = live
        /\ \A o \in DOMAIN frozen : o # jsonAttempt => frozen'[o] = frozen[o]
    BY <1>0
  <1>d. dirs' \in [DOMAIN dirs' -> Directories] /\ IsFiniteSet(DOMAIN dirs')
    BY <1>0, <1>a, <1>b, FS_AddElement DEF JsAll, JsTyped
  <1>1. JsTyped'
    BY <1>0, <1>b, <1>c, <1>d DEF JsAll, JsTyped
  <1>2. JsStaged'
    BY <1>0, <1>b, <1>c, <1>d DEF JsAll, JsInv, JsWriting, JsStaged, JsTyped
  <1>3. JsDirs'
    BY <1>0, <1>b, <1>c, <1>d DEF JsAll, JsDirs
  <1>4. JsLineage'
    BY <1>0, <1>b, <1>c, <1>d DEF JsAll, JsLineage
  <1>. QED  BY <1>1, <1>2, <1>3, <1>4

LEMMA PublishManifestFiles ==
    ASSUME JsAll, PublishManifest
    PROVE  JsTyped' /\ JsStaged' /\ JsDirs' /\ JsLineage'
  <1>0. /\ pc = "archive" /\ writing.file = "payload" /\ writing.step = "renamed"
        /\ dirs' = [dirs EXCEPT ![jsonAttempt].synced = @ \cup {"payload"}, ![jsonAttempt].other = TRUE]
        /\ writing' = [file |-> "manifest", step |-> "temporary", content |-> NoText]
        /\ UNCHANGED <<snapshot, jsonKept, memo, keptMemo, newDirs, live, failed, pc,
                       jsonAttempt, staged, replacement, doomed, prior, jsonAnswer, frozen,
                       relics>>
    BY DEF PublishManifest, Begin, files, bounds, attemptVars, jsonHistory
  <1>a. jsonAttempt \in DOMAIN dirs
    BY <1>0 DEF JsAll, JsStaged
  <1>b. SameDirs
    BY <1>0, <1>a DEF SameDirs, JsAll, JsTyped, Directories
  <1>1. JsTyped'
    BY <1>0, <1>a, <1>b DEF JsAll, JsTyped, SameDirs
  <1>2. JsStaged'
    BY <1>0, <1>a, <1>b DEF JsAll, JsInv, JsWriting, JsStaged, SameDirs
  <1>3. JsDirs'
    BY <1>0, <1>a, <1>b DEF JsAll, JsDirs, SameDirs
  <1>4. JsLineage'
    BY <1>0, <1>a, <1>b DEF JsAll, JsLineage
  <1>. QED  BY <1>1, <1>2, <1>3, <1>4

LEMMA ArchiveBegunFiles ==
    ASSUME JsAll, ArchiveBegun
    PROVE  JsTyped' /\ JsStaged' /\ JsDirs' /\ JsLineage'
  <1>0. /\ pc = "archive" /\ writing.file = "manifest" /\ writing.step = "renamed"
        /\ SyncDirectory /\ pc' = "summary" /\ writing' = Idle
        /\ UNCHANGED <<snapshot, memo, newDirs, live, failed, jsonAttempt, staged, replacement,
                       doomed, prior, jsonAnswer, frozen, relics>>
    BY DEF ArchiveBegun, files, bounds, attemptVars, jsonHistory
  <1>a. jsonAttempt \in DOMAIN dirs /\ ~failed
    BY <1>0 DEF JsAll, JsStaged
  <1>b. /\ UNCHANGED <<jsonKept, keptMemo>> /\ writing'.step = "none"
        /\ dirs' = [dirs EXCEPT ![jsonAttempt].synced = @ \cup {"manifest"}]
    BY <1>0 DEF SyncDirectory, InArchive, Idle
  <1>c. SameDirs
    BY <1>a, <1>b DEF SameDirs, JsAll, JsTyped, Directories
  <1>1. JsTyped'
    BY <1>0, <1>a, <1>b, <1>c DEF JsAll, JsTyped, SameDirs
  <1>2. JsStaged'
    BY <1>0, <1>a, <1>b, <1>c DEF JsAll, JsInv, JsWriting, JsStaged, SameDirs
  <1>3. JsDirs'
    BY <1>0, <1>a, <1>b, <1>c DEF JsAll, JsDirs, SameDirs
  <1>4. JsLineage'
    BY <1>0, <1>a, <1>b, <1>c DEF JsAll, JsLineage
  <1>. QED  BY <1>1, <1>2, <1>3, <1>4

LEMMA SummaryFailsFiles ==
    ASSUME JsAll, SummaryFails
    PROVE  JsTyped' /\ JsStaged' /\ JsDirs' /\ JsLineage'
  <1>0. /\ pc = "summary" /\ pc' = "cleanup" /\ replacement' = FreshSession
        /\ UNCHANGED <<snapshot, jsonKept, dirs, memo, keptMemo, newDirs, live, failed,
                       jsonAttempt, staged, doomed, writing, prior, jsonAnswer, frozen, relics>>
    BY DEF SummaryFails, files, bounds, attemptVars, jsonHistory
  <1>a. FreshSession \in Conversations /\ FreshSession.refs = {} /\ FreshSession.gen = 0
    BY FreshConversation
  <1>b. ~failed /\ jsonAnswer # "unknown"
    BY <1>0 DEF JsAll, JsStaged, JsInv, JsUnknown
  <1>1. JsTyped'
    BY <1>0, <1>a, <1>b DEF JsAll, JsTyped
  <1>2. JsStaged'
    BY <1>0, <1>a, <1>b DEF JsAll, JsInv, JsWriting, JsStaged
  <1>3. JsDirs'
    BY <1>0, <1>a, <1>b DEF JsAll, JsDirs
  <1>4. JsLineage'
    BY <1>0, <1>a, <1>b DEF JsAll, JsLineage
  <1>. QED  BY <1>1, <1>2, <1>3, <1>4

LEMMA SummariseFiles ==
    ASSUME JsAll, NEW t \in Summaries, NEW refs \in SUBSET DOMAIN dirs, Summarise(t, refs)
    PROVE  JsTyped' /\ JsStaged' /\ JsDirs' /\ JsLineage'
  <1>0. /\ pc = "summary" /\ pc' = "staged" /\ staged' = live.gen + 1
        /\ replacement' = [text |-> t, refs |-> refs, gen |-> live.gen + 1]
        /\ UNCHANGED <<snapshot, jsonKept, dirs, memo, keptMemo, newDirs, live, failed,
                       jsonAttempt, doomed, writing, prior, jsonAnswer, frozen, relics>>
    BY DEF Summarise, files, bounds, attemptVars, jsonHistory
  <1>a. /\ live \in Conversations /\ refs \subseteq Nat /\ live.gen \in Nat /\ doomed = {}
    BY <1>0 DEF JsAll, JsTyped, JsDirs, Conversations
  <1>b. /\ replacement' \in Conversations /\ replacement'.refs = refs
        /\ replacement'.gen = live.gen + 1
    BY <1>0, <1>a DEF Conversations
  <1>1. JsTyped'
    BY <1>0, <1>a, <1>b DEF JsAll, JsTyped
  <1>2. JsStaged'
    BY <1>0, <1>a, <1>b DEF JsAll, JsInv, JsWriting, JsStaged
  <1>3. JsDirs'
    BY <1>0, <1>a, <1>b DEF JsAll, JsDirs
  <1>4. JsLineage'
    BY <1>0, <1>a, <1>b DEF JsAll, JsLineage
  <1>. QED  BY <1>1, <1>2, <1>3, <1>4

LEMMA CancelBeforeCommitFiles ==
    ASSUME JsAll, CancelBeforeCommit
    PROVE  JsTyped' /\ JsStaged' /\ JsDirs' /\ JsLineage'
  <1>0. /\ pc = "staged" /\ pc' = "cleanup"
        /\ UNCHANGED <<snapshot, jsonKept, dirs, memo, keptMemo, newDirs, live, failed,
                       jsonAttempt, replacement, doomed, writing, prior, jsonAnswer, frozen,
                       relics>>
    BY DEF CancelBeforeCommit, files, bounds, attemptVars, jsonHistory
  <1>b. ~failed /\ jsonAnswer # "unknown"
    BY <1>0 DEF JsAll, JsStaged, JsInv, JsUnknown
  <1>1. JsTyped'
    BY <1>0, <1>b DEF JsAll, JsTyped
  <1>2. JsStaged'
    BY <1>0, <1>b DEF JsAll, JsInv, JsWriting, JsStaged
  <1>3. JsDirs'
    BY <1>0, <1>b DEF JsAll, JsDirs
  <1>4. JsLineage'
    BY <1>0, <1>b DEF JsAll, JsLineage
  <1>. QED  BY <1>1, <1>2, <1>3, <1>4

LEMMA CommitCompactionJsonFiles ==
    ASSUME JsAll, CommitCompactionJson
    PROVE  JsTyped' /\ JsStaged' /\ JsDirs' /\ JsLineage'
  <1>0. /\ pc = "staged" /\ pc' = "commit" /\ prior' = snapshot
        /\ writing' = [file |-> "snapshot", step |-> "temporary", content |-> replacement]
        /\ UNCHANGED <<snapshot, jsonKept, dirs, memo, keptMemo, newDirs, live, failed,
                       jsonAttempt, staged, replacement, doomed, frozen, relics>>
    BY DEF CommitCompactionJson, WriteSnapshot, Begin, files, bounds, attemptVars, jsonHistory
  <1>a. ~failed /\ live.gen \in Nat /\ replacement.gen \in Nat /\ Gen(snapshot) \in Nat
    BY <1>0, GenNat DEF JsAll, JsStaged, JsTyped, Conversations
  <1>1. JsTyped'
    BY <1>0, <1>a DEF JsAll, JsTyped
  <1>2. JsStaged'
    BY <1>0, <1>a DEF JsAll, JsInv, JsWriting, JsStaged
  <1>3. JsDirs'
    BY <1>0, <1>a DEF JsAll, JsDirs
  <1>4. JsLineage'
    BY <1>0, <1>a DEF JsAll, JsLineage
  <1>. QED  BY <1>1, <1>2, <1>3, <1>4

LEMMA CompactionCommittedFiles ==
    ASSUME JsAll, CompactionCommitted
    PROVE  JsTyped' /\ JsStaged' /\ JsDirs' /\ JsLineage'
  <1>0. /\ pc = "commit" /\ writing.step = "renamed" /\ pc' = "memory" /\ live' = replacement
        /\ SyncDirectory /\ jsonAnswer' = "committed"
        /\ writing' = [file |-> "memory", step |-> "temporary", content |-> staged]
        /\ UNCHANGED <<snapshot, memo, newDirs, failed, jsonAttempt, staged, replacement, doomed,
                       prior, frozen, relics>>
    BY DEF CompactionCommitted, Begin, files, bounds, attemptVars, jsonHistory
  <1>a. /\ writing.file = "snapshot" /\ ~failed /\ snapshot = replacement /\ doomed = {}
        /\ staged = replacement.gen /\ replacement \in Conversations
    BY <1>0 DEF JsAll, JsStaged, JsLineage, JsDirs, JsTyped
  <1>b. jsonKept' = snapshot /\ UNCHANGED <<keptMemo, dirs>>
    BY <1>0, <1>a DEF SyncDirectory, InArchive
  <1>c. /\ Gen(snapshot) = replacement.gen /\ Names(snapshot) = replacement.refs
        /\ replacement.gen \in Nat
    BY <1>a, JsonConstants DEF Gen, Names, Conversations
  <1>1. JsTyped'
    BY <1>0, <1>a, <1>b, <1>c DEF JsAll, JsTyped
  <1>2. JsStaged'
    BY <1>0, <1>a, <1>b, <1>c DEF JsAll, JsInv, JsWriting, JsStaged
  <1>3. JsDirs'
    BY <1>0, <1>a, <1>b, <1>c DEF JsAll, JsDirs
  <1>4. JsLineage'
    BY <1>0, <1>a, <1>b, <1>c DEF JsAll, JsLineage
  <1>. QED  BY <1>1, <1>2, <1>3, <1>4

LEMMA MemoryPublishedFiles ==
    ASSUME JsAll, MemoryPublished
    PROVE  JsTyped' /\ JsStaged' /\ JsDirs' /\ JsLineage'
  <1>0. /\ pc = "memory" /\ writing.step = "renamed" /\ pc' = "cleanup" /\ writing' = Idle
        /\ SyncDirectory
        /\ UNCHANGED <<snapshot, memo, newDirs, live, failed, jsonAttempt, replacement, doomed,
                       prior, jsonAnswer, frozen, relics>>
    BY DEF MemoryPublished, files, bounds, attemptVars, jsonHistory
  <1>a. writing.file = "memory" /\ ~failed /\ jsonAnswer # "unknown"
    BY <1>0 DEF JsAll, JsStaged, JsInv, JsUnknown
  <1>b. keptMemo' = memo /\ UNCHANGED <<jsonKept, dirs>> /\ writing'.step = "none"
    BY <1>0, <1>a DEF SyncDirectory, InArchive, Idle
  <1>c. memo \in Nat
    BY DEF JsAll, JsTyped
  <1>1. JsTyped'
    BY <1>0, <1>a, <1>b, <1>c DEF JsAll, JsTyped
  <1>2. JsStaged'
    BY <1>0, <1>a, <1>b, <1>c DEF JsAll, JsInv, JsWriting, JsStaged
  <1>3. JsDirs'
    BY <1>0, <1>a, <1>b, <1>c DEF JsAll, JsDirs
  <1>4. JsLineage'
    BY <1>0, <1>a, <1>b, <1>c DEF JsAll, JsLineage
  <1>. QED  BY <1>1, <1>2, <1>3, <1>4

LEMMA TurnFiles ==
    ASSUME JsAll, NEW t \in Summaries, NEW o, Turn(t, o)
    PROVE  JsTyped' /\ JsStaged' /\ JsDirs' /\ JsLineage'
  <1>0. /\ pc = "idle" /\ ~failed /\ (o # 0 => o \in DOMAIN dirs)
        /\ live' = [live EXCEPT !.text = t, !.refs = @ \cup ({o} \ {0})]
        /\ UNCHANGED <<snapshot, jsonKept, dirs, memo, keptMemo, newDirs, failed, pc,
                       jsonAttempt, staged, replacement, doomed, writing, prior, jsonAnswer,
                       frozen, relics>>
    BY DEF Turn, Ready, files, bounds, attemptVars, jsonHistory
  <1>a. live \in Conversations /\ doomed = {} /\ DOMAIN dirs \subseteq Nat
    BY <1>0 DEF JsAll, JsTyped, JsDirs
  <1>b. live' \in Conversations /\ live.refs \subseteq live'.refs /\ live'.gen = live.gen
    BY <1>0, <1>a DEF Conversations
  <1>1. JsTyped'
    BY <1>0, <1>a, <1>b DEF JsAll, JsTyped
  <1>2. JsStaged'
    BY <1>0, <1>a, <1>b DEF JsAll, JsInv, JsWriting, JsStaged
  <1>3. JsDirs'
    BY <1>0, <1>a, <1>b DEF JsAll, JsDirs
  <1>4. JsLineage'
    BY <1>0, <1>a, <1>b DEF JsAll, JsLineage
  <1>. QED  BY <1>1, <1>2, <1>3, <1>4

LEMMA PruneEndsFiles ==
    ASSUME JsAll, PruneEnds
    PROVE  JsTyped' /\ JsStaged' /\ JsDirs' /\ JsLineage'
  <1>0. /\ pc = "pruning" /\ pc' = "idle" /\ doomed' = {} /\ relics' = {} /\ replacement' = FreshSession
        /\ UNCHANGED <<snapshot, jsonKept, dirs, memo, keptMemo, newDirs, live, failed,
                       jsonAttempt, staged, writing, prior, jsonAnswer, frozen>>
    BY DEF PruneEnds, files, bounds, attemptVars, jsonHistory
  <1>a. FreshSession \in Conversations /\ FreshSession.refs = {} /\ FreshSession.gen = 0
    BY FreshConversation
  <1>1. JsTyped'
    BY <1>0, <1>a DEF JsAll, JsTyped
  <1>2. JsStaged'
    BY <1>0, <1>a DEF JsAll, JsInv, JsWriting, JsStaged
  <1>3. JsDirs'
    BY <1>0, <1>a DEF JsAll, JsDirs
  <1>4. JsLineage'
    BY <1>0, <1>a DEF JsAll, JsLineage
  <1>. QED  BY <1>1, <1>2, <1>3, <1>4

LEMMA PruneFiles ==
    ASSUME JsAll, Prune
    PROVE  JsTyped' /\ JsStaged' /\ JsDirs' /\ JsLineage'
  <1>0. /\ pc = "cleanup" /\ pc' = "pruning"
        /\ doomed' = IF Recognized(jsonAttempt) THEN Prunable(ProtectedArchives) ELSE {}
        /\ relics' = {o \in DOMAIN dirs : ~Recognized(o)}
        /\ UNCHANGED <<snapshot, jsonKept, dirs, memo, keptMemo, newDirs, live, failed,
                       jsonAttempt, staged, replacement, writing, prior, jsonAnswer, frozen>>
    BY DEF Prune, files, bounds, attemptVars, jsonHistory
  <1>a. /\ \A o \in doomed' : o \in DOMAIN dirs /\ Recognized(o)
        /\ doomed' \cap ProtectedArchives = {}
    BY <1>0 DEF Prunable
  <1>b. /\ doomed' \cup relics' \subseteq DOMAIN dirs /\ doomed' \cap relics' = {}
        /\ doomed' \cap (live.refs \cup replacement.refs) = {}
    BY <1>0, <1>a DEF ProtectedArchives
  <1>1. JsTyped'
    BY <1>0, <1>b DEF JsAll, JsTyped
  <1>2. JsStaged'
    BY <1>0, <1>b DEF JsAll, JsInv, JsWriting, JsStaged
  <1>3. JsDirs'
    BY <1>0, <1>b DEF JsAll, JsDirs
  <1>4. JsLineage'
    BY <1>0, <1>b DEF JsAll, JsLineage
  <1>. QED  BY <1>1, <1>2, <1>3, <1>4

LEMMA PruneStepFiles ==
    ASSUME JsAll, PruneStep
    PROVE  JsTyped' /\ JsStaged' /\ JsDirs' /\ JsLineage'
  <1>0. /\ pc = "pruning" /\ doomed # {} /\ doomed' = doomed \cap DOMAIN dirs'
        /\ \/ dirs' = [dirs EXCEPT ![Max(doomed)].payload = NoText]
           \/ dirs' = [dirs EXCEPT ![Max(doomed)].manifest = FALSE]
           \/ dirs' = [n \in DOMAIN dirs \ {Max(doomed)} |-> dirs[n]]
        /\ UNCHANGED <<snapshot, jsonKept, memo, keptMemo, live, failed, pc, jsonAttempt, staged,
                       replacement, writing, prior, jsonAnswer, frozen, relics>>
    BY DEF PruneStep, files, bounds, attemptVars, jsonHistory
  <1>. DEFINE o == Max(doomed)
  <1>a. o \in doomed /\ o \in DOMAIN dirs
    BY <1>0, FiniteMax, FS_Subset DEF JsAll, JsTyped, JsDirs
  <1>. HIDE DEF o
  <1>b. /\ DOMAIN dirs' \subseteq DOMAIN dirs /\ DOMAIN dirs \ {o} \subseteq DOMAIN dirs'
        /\ dirs' \in [DOMAIN dirs' -> Directories] /\ IsFiniteSet(DOMAIN dirs')
        /\ \A n \in DOMAIN dirs' : dirs'[n].payload \in {NoText, dirs[n].payload}
    <2>1. dirs \in [DOMAIN dirs -> Directories] /\ IsFiniteSet(DOMAIN dirs)
      BY DEF JsAll, JsTyped
    <2>2. CASE dirs' = [dirs EXCEPT ![o].payload = NoText]
      BY <1>a, <2>1, <2>2 DEF Directories
    <2>3. CASE dirs' = [dirs EXCEPT ![o].manifest = FALSE]
      BY <1>a, <2>1, <2>3 DEF Directories
    <2>4. CASE dirs' = [n \in DOMAIN dirs \ {o} |-> dirs[n]]
      BY <1>a, <2>1, <2>4, FS_Subset
    <2>. QED  BY <1>0, <2>2, <2>3, <2>4 DEF o
  <1>1. JsTyped'
    BY <1>0, <1>a, <1>b DEF JsAll, JsTyped
  <1>2. JsStaged'
    BY <1>0, <1>a, <1>b DEF JsAll, JsInv, JsWriting, JsStaged
  <1>3. JsDirs'
    BY <1>0, <1>a, <1>b DEF JsAll, JsDirs
  <1>4. JsLineage'
    BY <1>0, <1>a, <1>b DEF JsAll, JsLineage
  <1>. QED  BY <1>1, <1>2, <1>3, <1>4

LEMMA RenameTemporaryFiles ==
    ASSUME JsAll, RenameTemporary
    PROVE  JsTyped' /\ JsStaged' /\ JsDirs' /\ JsLineage'
  <1>0. /\ writing.step = "temporary" /\ writing' = [writing EXCEPT !.step = "renamed"]
        /\ InArchive => dirs' = [dirs EXCEPT ![jsonAttempt] = Publication] /\ UNCHANGED <<snapshot, memo>>
        /\ ~InArchive =>
              /\ snapshot' = IF writing.file = "snapshot" THEN writing.content ELSE snapshot
              /\ memo' = IF writing.file = "memory" THEN writing.content ELSE memo
              /\ UNCHANGED dirs
        /\ UNCHANGED <<jsonKept, keptMemo, newDirs, live, failed, pc, jsonAttempt, staged,
                       replacement, doomed, prior, jsonAnswer, frozen, relics>>
    BY DEF RenameTemporary, files, bounds, attemptVars, jsonHistory
  <1>a. writing' = [file |-> writing.file, step |-> "renamed", content |-> writing.content]
    BY <1>0 DEF JsAll, JsInv, JsWriting
  <1>b. ~failed /\ pc \in {"save", "commit", "archive", "memory"}
    BY <1>0 DEF JsAll, JsStaged
  <1>c. CASE pc = "save"
    <2>1. snapshot' = live /\ UNCHANGED <<memo, dirs>> /\ live \in Conversations
      BY <1>0, <1>c DEF JsAll, JsStaged, JsTyped, InArchive
    <2>2. Names(snapshot') = live.refs /\ Gen(snapshot') = live.gen /\ live.gen \in Nat /\ Gen(snapshot) \in Nat
      BY <2>1, GenNat, JsonConstants DEF JsAll, JsTyped, Names, Gen, Conversations
    <2>3. JsTyped'
      BY <1>0, <2>1 DEF JsAll, JsTyped
    <2>4. JsStaged' /\ JsDirs'
      BY <1>0, <1>a, <1>c, <2>1 DEF JsAll, JsStaged, JsDirs
    <2>5. JsLineage'
      BY <1>0, <1>b, <1>c, <2>1, <2>2 DEF JsAll, JsLineage, JsTyped
    <2>. QED  BY <2>3, <2>4, <2>5
  <1>d. CASE pc = "commit"
    <2>1. snapshot' = replacement /\ UNCHANGED <<memo, dirs>> /\ replacement \in Conversations
      BY <1>0, <1>d DEF JsAll, JsStaged, JsTyped, InArchive
    <2>2. /\ Names(snapshot') = replacement.refs /\ Gen(snapshot') = replacement.gen
          /\ replacement.gen \in Nat /\ Gen(snapshot) \in Nat
      BY <2>1, GenNat, JsonConstants DEF JsAll, JsTyped, Names, Gen, Conversations
    <2>3. JsTyped'
      BY <1>0, <2>1 DEF JsAll, JsTyped
    <2>4. JsStaged' /\ JsDirs'
      BY <1>0, <1>a, <1>d, <2>1 DEF JsAll, JsStaged, JsDirs
    <2>5. JsLineage'
      BY <1>0, <1>a, <1>b, <1>d, <2>1, <2>2 DEF JsAll, JsLineage, JsTyped
    <2>. QED  BY <2>3, <2>4, <2>5
  <1>e. CASE pc = "archive"
    <2>1. /\ dirs' = [dirs EXCEPT ![jsonAttempt] = Publication] /\ UNCHANGED <<snapshot, memo>>
          /\ jsonAttempt \in DOMAIN dirs /\ dirs \in [DOMAIN dirs -> Directories]
      BY <1>0, <1>e DEF JsAll, JsStaged, JsTyped, InArchive
    <2>2. /\ Publication \in Directories
          /\ \/ Publication.payload = dirs[jsonAttempt].payload
             \/ jsonAttempt \in DOMAIN frozen /\ Publication.payload = frozen[jsonAttempt]
      <3>1. CASE writing.file = "payload"
        BY <1>e, <2>1, <3>1 DEF Publication, Directories, JsAll, JsStaged
      <3>2. CASE writing.file # "payload"
        BY <1>e, <2>1, <3>2 DEF Publication, Directories
      <3>. QED  BY <3>1, <3>2
    <2>3. /\ DOMAIN dirs' = DOMAIN dirs /\ dirs'[jsonAttempt] = Publication
          /\ \A o \in DOMAIN dirs : o # jsonAttempt => dirs'[o] = dirs[o]
          /\ dirs' \in [DOMAIN dirs' -> Directories]
      BY <2>1, <2>2
    <2>4. JsTyped'
      BY <1>0, <2>1, <2>3 DEF JsAll, JsTyped
    <2>5. JsStaged'
      BY <1>0, <1>a, <1>e, <2>3 DEF JsAll, JsStaged
    <2>6. JsDirs'
      BY <1>0, <1>e, <2>2, <2>3 DEF JsAll, JsDirs
    <2>7. JsLineage'
      BY <1>0, <1>e, <2>1 DEF JsAll, JsLineage
    <2>. QED  BY <2>4, <2>5, <2>6, <2>7
  <1>f. CASE pc = "memory"
    <2>1. memo' = staged /\ UNCHANGED <<snapshot, dirs>>
          /\ staged = Gen(snapshot) /\ staged = Gen(jsonKept) /\ Gen(snapshot) \in Nat
      BY <1>0, <1>f, GenNat DEF JsAll, JsStaged, JsTyped, JsLineage, InArchive
    <2>3. JsTyped'
      BY <1>0, <2>1 DEF JsAll, JsTyped
    <2>4. JsStaged' /\ JsDirs'
      BY <1>0, <1>a, <1>f, <2>1 DEF JsAll, JsStaged, JsDirs
    <2>5. JsLineage'
      BY <1>0, <1>a, <1>b, <1>f, <2>1 DEF JsAll, JsLineage, JsTyped
    <2>. QED  BY <2>3, <2>4, <2>5
  <1>. QED  BY <1>b, <1>c, <1>d, <1>e, <1>f

LEMMA FailsFiles ==
    ASSUME JsAll, NEW r \in {"not_committed", "unknown"}, Fails(r), writing.step # "none",
           dirs' = dirs \/ SameDirs
    PROVE  JsTyped' /\ JsStaged' /\ JsDirs' /\ JsLineage'
  <1>0. /\ writing' = Idle /\ pc' = AfterFailure /\ failed' = (failed \/ Latched(r))
        /\ jsonAnswer' = IF writing.file = "snapshot" THEN r ELSE jsonAnswer
        /\ UNCHANGED <<snapshot, memo, jsonKept, keptMemo, live, jsonAttempt, replacement, doomed,
                       prior, frozen, relics>>
    BY DEF Fails
  <1>a. /\ ~failed /\ pc \in {"save", "commit", "archive", "memory"} /\ writing'.step = "none"
        /\ jsonAnswer # "unknown"
    BY <1>0 DEF JsAll, JsStaged, JsInv, JsUnknown, Idle
  <1>b. /\ pc' = IF pc \in {"memory", "commit"} THEN "cleanup" ELSE "idle"
        /\ failed' \in BOOLEAN /\ (pc = "commit" => failed') /\ (pc = "save" => failed')
        /\ jsonAnswer' = "unknown" => pc \in {"save", "commit"}
    BY <1>0, <1>a DEF AfterFailure, Latched, JsAll, JsStaged, JsTyped
  <1>c. SameDirs
    BY DEF SameDirs, JsAll, JsTyped
  <1>1. JsTyped'
    BY <1>0, <1>b, <1>c DEF JsAll, JsTyped, SameDirs
  <1>2. JsStaged'
    BY <1>0, <1>a, <1>b DEF JsAll, JsStaged
  <1>3. JsDirs'
    BY <1>0, <1>a, <1>b, <1>c DEF JsAll, JsDirs, SameDirs
  <1>4. JsLineage'
    <2>1. pc \in {"commit", "memory"} => Names(snapshot) \subseteq live.refs \cup replacement.refs
      <3>1. CASE pc = "memory"
        BY <1>a, <3>1 DEF JsAll, JsLineage
      <3>2. CASE pc = "commit" /\ writing.step = "temporary"
        BY <3>2 DEF JsAll, JsLineage
      <3>3. CASE pc = "commit" /\ writing.step = "renamed"
        BY <3>3, JsonConstants DEF JsAll, JsLineage, JsTyped, Names
      <3>. QED  BY <3>1, <3>2, <3>3 DEF JsAll, JsStaged
    <2>2. pc = "commit" => Names(prior) \subseteq live.refs
      BY DEF JsAll, JsLineage
    <2>. QED  BY <1>0, <1>a, <1>b, <2>1, <2>2 DEF JsAll, JsLineage
  <1>. QED  BY <1>1, <1>2, <1>3, <1>4

LEMMA WriteFailsFiles ==
    ASSUME JsAll, WriteFails
    PROVE  JsTyped' /\ JsStaged' /\ JsDirs' /\ JsLineage'
  <1>1. dirs' = dirs \/ SameDirs
    <2>1. CASE InArchive
      <3>1. jsonAttempt \in DOMAIN dirs /\ dirs \in [DOMAIN dirs -> Directories]
        BY <2>1 DEF WriteFails, InArchive, JsAll, JsStaged, JsTyped
      <3>2. dirs' = [dirs EXCEPT ![jsonAttempt].other = FALSE]
        BY <2>1 DEF WriteFails, WithTemporary
      <3>. QED  BY <3>1, <3>2 DEF SameDirs, Directories
    <2>. QED  BY <2>1 DEF WriteFails
  <1>. QED  BY <1>1, FailsFiles DEF WriteFails

LEMMA SyncFailsFiles ==
    ASSUME JsAll, SyncFails
    PROVE  JsTyped' /\ JsStaged' /\ JsDirs' /\ JsLineage'
  BY FailsFiles DEF SyncFails

LEMMA DeathFiles ==
    ASSUME JsAll, Death
    PROVE  JsTyped' /\ JsStaged' /\ JsDirs' /\ JsLineage'
  <1>0. /\ pc' = "down" /\ writing' = Idle /\ replacement' = FreshSession /\ doomed' = {}
        /\ failed' = FALSE /\ live' = FreshSession /\ jsonAttempt' = 0 /\ relics' = {}
        /\ frozen' = [o \in DOMAIN frozen \cap DOMAIN dirs' |-> frozen[o]]
        /\ \/ UNCHANGED <<snapshot, jsonKept, dirs, memo, keptMemo>>
           \/ /\ snapshot' = jsonKept /\ memo' = keptMemo /\ UNCHANGED <<jsonKept, keptMemo>>
              /\ \E lost \in SUBSET newDirs :
                    dirs' = [o \in DOMAIN dirs \ lost |-> Remnant(dirs[o])]
        /\ UNCHANGED prior
    BY DEF Death, files
  <1>a. /\ FreshSession \in Conversations /\ FreshSession.refs = {} /\ FreshSession.gen = 0
        /\ writing'.step = "none"
    BY <1>0, FreshConversation DEF Idle
  <1>b. /\ DOMAIN dirs' \subseteq DOMAIN dirs /\ dirs' \in [DOMAIN dirs' -> Directories]
        /\ \A o \in DOMAIN dirs' : dirs'[o].payload \in {NoText, dirs[o].payload}
    <2>1. dirs \in [DOMAIN dirs -> Directories]
      BY DEF JsAll, JsTyped
    <2>2. ASSUME NEW d \in Directories
          PROVE  Remnant(d) \in Directories /\ Remnant(d).payload \in {NoText, d.payload}
      BY DEF Remnant, Directories
    <2>3. CASE UNCHANGED dirs
      BY <2>1, <2>3
    <2>4. CASE \E lost : dirs' = [o \in DOMAIN dirs \ lost |-> Remnant(dirs[o])]
      BY <2>1, <2>2, <2>4
    <2>. QED  BY <1>0, <2>3, <2>4
  <1>c. IsFiniteSet(DOMAIN dirs')
    BY <1>b, FS_Subset DEF JsAll, JsTyped
  <1>1. JsTyped'
    <2>1. {snapshot', jsonKept', prior'} \subseteq Conversations \cup {NoText}
          /\ memo' \in Nat /\ keptMemo' \in Nat /\ DOMAIN dirs' \subseteq Nat
      BY <1>0, <1>b DEF JsAll, JsTyped
    <2>. QED  BY <1>0, <1>a, <1>b, <1>c, <2>1 DEF JsTyped
  <1>2. JsStaged'
    BY <1>0, <1>a DEF JsStaged
  <1>3. JsDirs'
    BY <1>0, <1>b DEF JsAll, JsDirs
  <1>4. JsLineage'
    <2>1. Gen(jsonKept) \in Nat /\ Gen(snapshot) \in Nat /\ memo \in Nat /\ keptMemo \in Nat
      BY GenNat DEF JsAll, JsTyped
    <2>2. keptMemo' <= memo' /\ memo' <= Gen(snapshot') /\ memo' <= Gen(jsonKept')
      BY <1>0, <2>1 DEF JsAll, JsLineage
    <2>. QED  BY <1>0, <2>2 DEF JsLineage
  <1>. QED  BY <1>1, <1>2, <1>3, <1>4

LEMMA NextFilesJs ==
    ASSUME JsAll, [JsonNext]_jsonVars
    PROVE  JsAll'
  <1>. SUFFICES JsTyped' /\ JsStaged' /\ JsDirs' /\ JsLineage'
    BY StepJs DEF JsAll
  <1>1. CASE UNCHANGED jsonVars
    <2>1. UNCHANGED <<snapshot, jsonKept, dirs, memo, keptMemo, live, failed, pc, jsonAttempt,
                      staged,
                      replacement, doomed, writing, prior, jsonAnswer, frozen, relics>>
      BY <1>1 DEF jsonVars, files, bounds, attemptVars, jsonHistory
    <2>. QED  BY <2>1 DEF JsAll, JsTyped, JsStaged, JsDirs, JsLineage
  <1>2. CASE LoadCurrent \/ Death \/ RenameTemporary \/ WriteFails \/ SyncFails \/ Checkpoint
    BY <1>2, LoadCurrentFiles, DeathFiles, RenameTemporaryFiles, WriteFailsFiles, SyncFailsFiles,
       CheckpointFiles, Zenon
  <1>3. CASE SaveReturns \/ ReserveArchiveJson \/ BeginArchiveJson \/ PublishManifest
             \/ ArchiveBegun \/ SummaryFails \/ CancelBeforeCommit
    BY <1>3, SaveReturnsFiles, ReserveArchiveJsonFiles, BeginArchiveJsonFiles,
       PublishManifestFiles, ArchiveBegunFiles, SummaryFailsFiles, CancelBeforeCommitFiles, Zenon
  <1>4. CASE CommitCompactionJson \/ CompactionCommitted \/ MemoryPublished \/ Prune
             \/ PruneStep \/ PruneEnds
    BY <1>4, CommitCompactionJsonFiles, CompactionCommittedFiles, MemoryPublishedFiles,
       PruneFiles,
       PruneStepFiles, PruneEndsFiles, Zenon
  <1>5. CASE \E t \in Summaries : \E o \in {0} \cup DOMAIN dirs : Turn(t, o)
    BY <1>5, TurnFiles
  <1>6. CASE \E t \in Summaries : \E refs \in SUBSET DOMAIN dirs : Summarise(t, refs)
    BY <1>6, SummariseFiles
  <1>. QED  BY <1>1, <1>2, <1>3, <1>4, <1>5, <1>6 DEF JsonNext

LEMMA JsAllSafe ==
    ASSUME JsAll
    PROVE  ArchivesComplete /\ NamedArchivesStay /\ MemoryFollows
  <1>1. ArchivesComplete
    BY DEF JsAll, JsDirs, ArchivesComplete, Recognized
  <1>2. NamedArchivesStay
    <2>. SUFFICES ASSUME NEW s \in {snapshot} \cup (IF jsonAnswer = "unknown" THEN {prior} ELSE {}),
                         s # NoText
                  PROVE  s.refs \cap doomed = {}
      BY DEF NamedArchivesStay
    <2>1. CASE pc # "pruning"
      BY <2>1 DEF JsAll, JsDirs
    <2>2. CASE pc = "pruning"
      <3>1. s.refs \subseteq live.refs \cup replacement.refs
        BY <2>2 DEF JsAll, JsLineage, Names
      <3>. QED  BY <3>1 DEF JsAll, JsDirs
    <2>. QED  BY <2>1, <2>2
  <1>3. MemoryFollows
    <2>1. /\ keptMemo <= memo /\ memo <= Gen(snapshot) /\ memo <= Gen(jsonKept)
          /\ Gen(jsonKept) \in Nat /\ memo \in Nat /\ keptMemo \in Nat
      BY GenNat DEF JsAll, JsLineage, JsTyped
    <2>2. keptMemo <= Gen(jsonKept)
      BY <2>1
    <2>. QED  BY <2>1, <2>2 DEF MemoryFollows, Gen
  <1>. QED  BY <1>1, <1>2, <1>3

\* Whatever is interrupted: an archive that counts as one holds the whole conversation
\* its attempt froze, retention leaves alone what is not an archive and removes nothing
\* that a snapshot which may be loaded next names, and memory.md never holds a summary
\* that the snapshot does not know of (publish(), recognize(), prune_archives(),
\* compact_attempt()).
THEOREM JsonAlwaysAccounts ==
    JsonSpec => [](ArchivesComplete /\ NamedArchivesStay /\ MemoryFollows)
  BY InitFiles, NextFilesJs, JsAllSafe, PTL DEF JsonSpec

\* What the run checks of the archives of the two backends, each in a session of its
\* own, for every number of archives, states, crashes and deaths (SqliteStore, JsonStore).
THEOREM ArchivesAlwaysAccount ==
    Spec /\ JsonSpec => []ArchivesAccount
  BY SqliteAlwaysAccounts, JsonAlwaysAccounts, PTL DEF ArchivesAccount

\* Whatever the two backends do, each in its own session, both keep the contract of
\* persistence::StateStore (store.hpp).
THEOREM BackendsAlwaysKeepContract ==
    Spec /\ JsonSpec => BackendsKeepContract
  BY SqliteKeepsContract, JsonKeepsContract DEF BackendsKeepContract

(***************************************************************************)
(* Opening the file of the SQLite store (StoreFile).  A refusal is judged  *)
(* by the file the call began with, so the invariant follows that file     *)
(* through the stages of write(): until open_store() writes, the file is   *)
(* still the one found, or the blank one that this call created; after it, *)
(* the found one upgraded, or a store of its own making.                   *)
(***************************************************************************)
\* Whatever version a file claims, from version 2 on its archives are indexed.
IndexWhole(f) == f.present /\ f.version >= 2 => f.indexed = f.archives

\* A file is absent, or has these columns.
FileShape(f) ==
    \/ f = Nothing
    \/ f = [present |-> TRUE, app |-> f.app, tables |-> f.tables, version |-> f.version,
            codec |-> f.codec, session |-> f.session, wal |-> f.wal, archives |-> f.archives,
            indexed |-> f.indexed]

\* The file the call found has passed the inspection; or there was none.
FoundOurs == sfWas.present /\ InspectStore(sfWas) = "none" /\ ~sfCreated
CreatedHere == sfWas = Nothing /\ sfCreated

\* Where the file stands, stage by stage.
SfStages ==
    /\ sfStage \in {"idle", "create", "inspect", "open", "pragmas"}
    /\ sfStage # "idle" => sfRefusal = "none" /\ sfBackend = "sqlite"
    /\ sfStage = "create" => sfDisk = sfWas /\ ~sfCreated
    /\ sfStage = "inspect" => sfDisk = sfWas /\ ~sfCreated /\ sfWas.present
    /\ sfStage = "open" => (FoundOurs /\ sfDisk = sfWas) \/ (CreatedHere /\ sfDisk = Blank)
    /\ sfStage = "pragmas" =>
          (FoundOurs /\ sfDisk = ApplyMigrations(sfWas)) \/ (CreatedHere /\ sfDisk.present)

SfInv ==
    /\ FileShape(sfDisk) /\ FileShape(sfWas) /\ sfJson \in BOOLEAN /\ sfCreated \in BOOLEAN
    /\ IndexWhole(sfDisk)
    /\ sfBackend = "sqlite" => ~sfJson
    /\ SfStages /\ RefusedUntouched /\ NothingAdopted

(***************************************************************************)
(* One connection (SqlTransactions).  A write is in the file, or in the    *)
(* transaction that its own guard holds, or undone; what makes it so is    *)
(* that no statement runs in a transaction whose guard is gone, and none   *)
(* in a guarded scope after SQLite rolled back on its own.                 *)
(***************************************************************************)
ConnTyped ==
    /\ sqConn \in [usable : BOOLEAN, transaction_owned : BOOLEAN, budget_owned : BOOLEAN]
    /\ sqAuto \in BOOLEAN
    /\ sqGuard \in {"none", "active", "ended"}
    /\ sqScope \in {"idle", "plain", "guarded"}
    /\ sqBudgets \subseteq Budgets

ConnHeld ==
    /\ sqScope = "guarded" <=> sqGuard = "active"
    /\ sqScope = "idle" => sqGuard = "none" /\ sqStmt = "none"
    /\ sqConn.transaction_owned <=> sqGuard = "active"
    /\ sqGuard = "active" => sqConn.usable
    /\ ~sqAuto /\ sqConn.usable => sqGuard = "active"
    /\ sqGuard = "active" /\ ~sqAuto => sqOpen = sqMine
    /\ sqGuard = "active" /\ sqAuto => sqStmt = "failed"

ConnInv ==
    /\ ConnTyped /\ ConnHeld
    /\ sqConn.budget_owned <=> sqBudgets # {}
    /\ FileIsWhatWasReported /\ BudgetInForce

LEMMA FoundFileShapes ==
    ASSUME NEW f \in FoundFiles
    PROVE  FileShape(f) /\ IndexWhole(f)
  <1>1. CASE f \in {Nothing, Blank, [Blank EXCEPT !.tables = {"foreign"}],
                  [Blank EXCEPT !.app = "other", !.tables = {"foreign"}],
                  [Blank EXCEPT !.app = "simplex"]}
    <2>1. CASE f = Nothing
      BY <2>1 DEF FileShape, IndexWhole, Nothing
    <2>2. CASE f = Blank
      BY <2>2 DEF FileShape, IndexWhole, Blank
    <2>3. CASE f = [Blank EXCEPT !.tables = {"foreign"}]
      BY <2>3 DEF FileShape, IndexWhole, Blank
    <2>4. CASE f = [Blank EXCEPT !.app = "other", !.tables = {"foreign"}]
      BY <2>4 DEF FileShape, IndexWhole, Blank
    <2>5. CASE f = [Blank EXCEPT !.app = "simplex"]
      BY <2>5 DEF FileShape, IndexWhole, Blank
    <2>. QED  BY <1>1, <2>1, <2>2, <2>3, <2>4, <2>5
  <1>2. ASSUME NEW v \in 0..3, NEW a \in SUBSET OldArchives,
               f \in {StoreOf(v, a), [StoreOf(v, a) EXCEPT !.session = "theirs"],
                     [StoreOf(v, a) EXCEPT !.codec = 2],
                     [StoreOf(v, a) EXCEPT !.tables = @ \ {"layout"}]}
        PROVE  FileShape(f) /\ IndexWhole(f)
    <2>1. CASE f = StoreOf(v, a)
      BY <2>1 DEF FileShape, IndexWhole, StoreOf, Blank
    <2>2. CASE f = [StoreOf(v, a) EXCEPT !.session = "theirs"]
      BY <2>2 DEF FileShape, IndexWhole, StoreOf, Blank
    <2>3. CASE f = [StoreOf(v, a) EXCEPT !.codec = 2]
      BY <2>3 DEF FileShape, IndexWhole, StoreOf, Blank
    <2>4. CASE f = [StoreOf(v, a) EXCEPT !.tables = @ \ {"layout"}]
      BY <2>4 DEF FileShape, IndexWhole, StoreOf, Blank
    <2>. QED  BY <1>2, <2>1, <2>2, <2>3, <2>4
  <1>. QED  BY <1>1, <1>2 DEF FoundFiles

\* The journal mode says nothing about the content.
LEMMA JournalShape ==
    ASSUME NEW f, FileShape(f), f.present, IndexWhole(f), NEW w
    PROVE  LET g == [f EXCEPT !.wal = w] IN FileShape(g) /\ IndexWhole(g) /\ g.present
  <1>1. f # Nothing
    BY DEF Nothing
  <1>. DEFINE g == [f EXCEPT !.wal = w]
  <1>2. g = [present |-> TRUE, app |-> f.app, tables |-> f.tables, version |-> f.version,
             codec |-> f.codec, session |-> f.session, wal |-> w, archives |-> f.archives,
             indexed |-> f.indexed]
    <2>. DEFINE R(p, x) == [present |-> p, app |-> f.app, tables |-> f.tables,
                         version |-> f.version, codec |-> f.codec, session |-> f.session,
                         wal |-> x, archives |-> f.archives, indexed |-> f.indexed]
    <2>1. f = R(TRUE, f.wal)
      BY <1>1 DEF FileShape
    <2>2. ASSUME NEW p, NEW x
          PROVE  [R(p, x) EXCEPT !.wal = w] = R(p, w)
      OBVIOUS
    <2>3. [R(TRUE, f.wal) EXCEPT !.wal = w] = R(TRUE, w)
      BY <2>2, Zenon
    <2>. HIDE DEF R
    <2>4. g = R(TRUE, w)
      BY <2>1, <2>3, Zenon
    <2>. QED  BY <2>4 DEF R
  <1>3. g.present /\ g.version = f.version /\ g.indexed = f.indexed /\ g.archives = f.archives
    BY <1>2
  <1>4. FileShape(g)
    BY <1>2 DEF FileShape
  <1>5. IndexWhole(g)
    BY <1>3 DEF IndexWhole
  <1>. QED  BY <1>3, <1>4, <1>5

\* The upgrade and the creation keep the shape, and index what they hold.
LEMMA MigratedShape ==
    ASSUME NEW f, FileShape(f), f.present, IndexWhole(f)
    PROVE  /\ FileShape(ApplyMigrations(f)) /\ IndexWhole(ApplyMigrations(f))
           /\ ApplyMigrations(f).present
           /\ FileShape(CreateStore(f)) /\ IndexWhole(CreateStore(f)) /\ CreateStore(f).present
  <1>1. f # Nothing
    BY DEF Nothing
  <1>2. /\ FileShape(ApplyMigrations(f)) /\ IndexWhole(ApplyMigrations(f))
        /\ ApplyMigrations(f).present
    BY <1>1 DEF FileShape, ApplyMigrations, IndexWhole, SchemaVersion
  <1>3. FileShape(CreateStore(f)) /\ IndexWhole(CreateStore(f)) /\ CreateStore(f).present
    <2>1. StoreOf(2, {}) \in FoundFiles
      <3>. DEFINE Of(v, a) == {StoreOf(v, a), [StoreOf(v, a) EXCEPT !.session = "theirs"],
                               [StoreOf(v, a) EXCEPT !.codec = 2],
                               [StoreOf(v, a) EXCEPT !.tables = @ \ {"layout"}]}
      <3>1. StoreOf(2, {}) \in Of(2, {}) /\ 2 \in 0..3 /\ {} \in SUBSET OldArchives
        OBVIOUS
      <3>2. StoreOf(2, {}) \in UNION {Of(v, a) : v \in 0..3, a \in SUBSET OldArchives}
        <4>. HIDE DEF Of
        <4>. QED  BY <3>1
      <3>. QED  BY <3>2 DEF FoundFiles
    <2>2. StoreOf(2, {}).present
      BY DEF StoreOf, Blank
    <2>. QED  BY <2>1, <2>2, FoundFileShapes, JournalShape DEF CreateStore, SchemaVersion
  <1>. QED  BY <1>2, <1>3

LEMMA BlankShape == FileShape(Blank) /\ IndexWhole(Blank) /\ FileShape(Nothing) /\ IndexWhole(Nothing)
  BY DEF FileShape, IndexWhole, Blank, Nothing

\* A file that passes the inspection is a store of this program and this session.
LEMMA InspectedOurs ==
    ASSUME NEW f, InspectStore(f) = "none"
    PROVE  f.app = "simplex" /\ f.session = "ours" /\ {"meta", "layout"} \subseteq f.tables
  BY DEF InspectStore, ReadIdentity, LayoutRefusal

\* A JSON session never selects the SQLite file.
LEMMA SelectedWithoutJson ==
    ASSUME NEW json \in BOOLEAN, NEW sqlite, NEW selection \in {"auto", "json", "sqlite"},
           SelectBackend(json, sqlite, selection) = "sqlite"
    PROVE  ~json
  BY DEF SelectBackend

LEMMA InitSfInv == SfInit => SfInv
  BY FoundFileShapes DEF SfInit, SfInv, SfStages, RefusedUntouched, NothingAdopted

\* The catch block leaves the file found, upgraded if only the pragmas were left.
LEMMA RefuseSfInv ==
    ASSUME SfInv, sfStage # "idle", NEW reason, Refuse(reason), reason # "none",
           sfStage = "pragmas" => reason = "storage_error"
    PROVE  SfInv'
  <1>1. FileShape(sfDisk') /\ IndexWhole(sfDisk')
    BY BlankShape DEF SfInv, Refuse
  <1>2. RefusedUntouched'
    <2>1. \/ sfDisk' = sfWas
          \/ reason = "storage_error" /\ sfWas.present /\ sfDisk' = ApplyMigrations(sfWas)
      BY DEF SfInv, SfStages, FoundOurs, CreatedHere, Refuse
    <2>. QED  BY <2>1 DEF RefusedUntouched, Refuse
  <1>3. SfStages' /\ NothingAdopted'
    BY DEF SfInv, SfStages, NothingAdopted, Refuse
  <1>. QED  BY <1>1, <1>2, <1>3 DEF SfInv, Refuse

LEMMA ConfigureSfInv ==
    ASSUME SfInv, NEW s \in {"auto", "json", "sqlite"}, Configure(s)
    PROVE  SfInv'
  <1>1. sfBackend' = "sqlite" => ~sfJson'
    BY SelectedWithoutJson DEF SfInv, Configure
  <1>2. SfStages'
    BY DEF SfInv, SfStages, Configure, FoundOurs, CreatedHere
  <1>. QED  BY <1>1, <1>2 DEF SfInv, Configure, RefusedUntouched, NothingAdopted

LEMMA CreateFileSfInv ==
    ASSUME SfInv, CreateFile
    PROVE  SfInv'
  <1>1. CASE ~sfDisk.present /\ sfJson /\ Refuse("json_state")
    BY <1>1, RefuseSfInv DEF CreateFile
  <1>2. CASE ~sfDisk.present /\ ~sfJson /\ sfDisk' = Blank /\ sfCreated' = TRUE /\ StepTo("open")
    <2>1. sfWas' = Nothing
      BY <1>2 DEF SfInv, SfStages, CreateFile, FileShape, StepTo
    <2>2. SfStages'
      BY <1>2, <2>1 DEF SfInv, SfStages, CreateFile, StepTo, CreatedHere
    <2>. QED  BY <1>2, <2>2, BlankShape
              DEF CreateFile, SfInv, SfStages, RefusedUntouched, NothingAdopted, StepTo
  <1>3. CASE sfDisk.present /\ StepTo("inspect") /\ UNCHANGED <<sfDisk, sfCreated>>
    BY <1>3 DEF SfInv, SfStages, CreateFile, StepTo, RefusedUntouched, NothingAdopted
  <1>. QED  BY <1>1, <1>2, <1>3 DEF CreateFile

LEMMA WriterInspectsSfInv ==
    ASSUME SfInv, WriterInspects
    PROVE  SfInv'
  <1>1. CASE InspectStore(sfDisk) # "none"
    BY <1>1, RefuseSfInv DEF WriterInspects
  <1>2. CASE InspectStore(sfDisk) = "none"
    <2>1. SfStages'
      BY <1>2 DEF SfInv, SfStages, WriterInspects, StepTo, FoundOurs
    <2>. QED  BY <1>2, <2>1 DEF SfInv, WriterInspects, StepTo, RefusedUntouched, NothingAdopted
  <1>. QED  BY <1>1, <1>2

LEMMA OpenStoreSfInv ==
    ASSUME SfInv, OpenStore
    PROVE  SfInv'
  <1>1. CASE OpenRefusal(sfDisk) # "none"
    BY <1>1, RefuseSfInv DEF OpenStore
  <1>2. CASE OpenRefusal(sfDisk) = "none"
    <2>1. sfDisk.present
      BY DEF SfInv, SfStages, OpenStore, FoundOurs, CreatedHere, Blank
    <2>2. FileShape(sfDisk') /\ IndexWhole(sfDisk') /\ sfDisk'.present
      BY <1>2, <2>1, MigratedShape DEF SfInv, OpenStore
    <2>3. CASE FoundOurs /\ sfDisk = sfWas
      <3>1. sfDisk' = ApplyMigrations(sfWas)
        BY <1>2, <2>3, InspectedOurs DEF OpenStore, FoundOurs
      <3>2. SfStages'
        BY <1>2, <2>3, <3>1 DEF SfInv, SfStages, OpenStore, StepTo, FoundOurs
      <3>. QED  BY <1>2, <2>2, <3>2 DEF SfInv, OpenStore, StepTo, RefusedUntouched, NothingAdopted
    <2>4. CASE CreatedHere
      <3>1. SfStages'
        BY <1>2, <2>2, <2>4 DEF SfInv, SfStages, OpenStore, StepTo, CreatedHere
      <3>. QED  BY <1>2, <2>2, <3>1 DEF SfInv, OpenStore, StepTo, RefusedUntouched, NothingAdopted
    <2>. QED  BY <2>3, <2>4 DEF SfInv, SfStages, OpenStore
  <1>. QED  BY <1>1, <1>2

LEMMA ConfigureConnectionSfInv ==
    ASSUME SfInv, ConfigureConnection
    PROVE  SfInv'
  <1>1. sfDisk.present
    <2>1. CASE CreatedHere /\ sfDisk.present
      BY <2>1
    <2>2. CASE FoundOurs /\ sfDisk = ApplyMigrations(sfWas)
      <3>1. sfWas # Nothing
        BY <2>2 DEF FoundOurs, Nothing
      <3>. QED  BY <2>2, <3>1 DEF FoundOurs, ApplyMigrations, FileShape, SfInv
    <2>. QED  BY <2>1, <2>2 DEF SfInv, SfStages, ConfigureConnection
  <1>2. FileShape(sfDisk') /\ IndexWhole(sfDisk')
    BY <1>1, JournalShape DEF SfInv, ConfigureConnection
  <1>3. NothingAdopted'
    BY InspectedOurs
       DEF SfInv, SfStages, ConfigureConnection, FoundOurs, CreatedHere, NothingAdopted, Nothing
  <1>4. SfStages' /\ RefusedUntouched'
    BY DEF SfInv, SfStages, ConfigureConnection, RefusedUntouched
  <1>. QED  BY <1>2, <1>3, <1>4 DEF SfInv, ConfigureConnection

LEMMA NextSfInv ==
    ASSUME SfInv, [SfNext]_sfVars
    PROVE  SfInv'
  <1>1. CASE \E s \in {"auto", "json", "sqlite"} : Configure(s)
    BY <1>1, ConfigureSfInv
  <1>2. CASE BeginCall
    BY <1>2 DEF SfInv, SfStages, BeginCall, RefusedUntouched, NothingAdopted
  <1>3. CASE CallFails
    BY <1>3, RefuseSfInv DEF CallFails
  <1>4. CASE WriterDies
    BY <1>4 DEF SfInv, SfStages, WriterDies, RefusedUntouched, NothingAdopted
  <1>5. CASE UNCHANGED sfVars
    BY <1>5 DEF SfInv, SfStages, sfVars, FoundOurs, CreatedHere, RefusedUntouched, NothingAdopted
  <1>. QED  BY <1>1, <1>2, <1>3, <1>4, <1>5, CreateFileSfInv, WriterInspectsSfInv,
               OpenStoreSfInv, ConfigureConnectionSfInv, Zenon DEF SfNext

LEMMA SfInvAccepts == SfInv => RefusedUntouched /\ AcceptedIsWhole /\ NothingAdopted
  BY InspectedOurs DEF SfInv, AcceptedIsWhole, IndexWhole

\* Opening the store, for every set of archives an old one holds and every number of
\* deaths: a call that fails leaves the file it found, at most upgraded, an inspection
\* accepts only a whole store, and no file of someone else becomes one (write(),
\* open_store(), inspect_store()).
THEOREM FilesAlwaysOurs ==
    SfSpec => [](RefusedUntouched /\ AcceptedIsWhole /\ NothingAdopted)
  BY InitSfInv, NextSfInv, SfInvAccepts, PTL DEF SfSpec

LEMMA InitConnInv == SqInit => ConnInv
  BY DEF SqInit, ConnInv, ConnTyped, ConnHeld, FileIsWhatWasReported, BudgetInForce, Budgets

\* The budgets are not touched by a caller's scope, nor the scope by a budget.
LEMMA NewBudgetConnInv ==
    ASSUME ConnInv, NEW b \in Budgets, NewBudget(b)
    PROVE  ConnInv'
  <1>1. ConnTyped'
    BY DEF ConnInv, ConnTyped, NewBudget, sqEngine
  <1>2. ConnHeld' /\ FileIsWhatWasReported'
    BY DEF ConnInv, ConnTyped, ConnHeld, FileIsWhatWasReported, NewBudget, sqEngine, sqHistory, sqTold
  <1>3. sqBudgets = {}
    BY DEF ConnInv, NewBudget, BudgetRefused
  <1>4. BudgetInForce' /\ (sqConn.budget_owned <=> sqBudgets # {})'
    BY <1>3 DEF ConnInv, ConnTyped, BudgetInForce, NewBudget
  <1>. QED  BY <1>1, <1>2, <1>4 DEF ConnInv

LEMMA EndBudgetConnInv ==
    ASSUME ConnInv, NEW b \in Budgets, EndBudget(b)
    PROVE  ConnInv'
  <1>1. ConnTyped'
    BY DEF ConnInv, ConnTyped, EndBudget, sqEngine
  <1>2. ConnHeld' /\ FileIsWhatWasReported'
    BY DEF ConnInv, ConnTyped, ConnHeld, FileIsWhatWasReported, EndBudget, sqEngine, sqHistory, sqTold
  <1>3. sqBudgets = {b}
    BY DEF ConnInv, ConnTyped, BudgetInForce, EndBudget
  <1>4. BudgetInForce' /\ (sqConn.budget_owned <=> sqBudgets # {})'
    BY <1>3 DEF ConnInv, ConnTyped, BudgetInForce, EndBudget, Budgets
  <1>. QED  BY <1>1, <1>2, <1>4 DEF ConnInv

\* What every other step leaves of the budgets.
LEMMA BudgetsKept ==
    ASSUME ConnInv, UNCHANGED sqBudget, sqConn'.budget_owned = sqConn.budget_owned
    PROVE  BudgetInForce' /\ (sqConn.budget_owned <=> sqBudgets # {})'
  BY DEF ConnInv, BudgetInForce, sqBudget

LEMMA EnterPlainConnInv ==
    ASSUME ConnInv, EnterPlain
    PROVE  ConnInv'
  <1>1. ConnTyped' /\ ConnHeld' /\ FileIsWhatWasReported'
    BY DEF ConnInv, ConnTyped, ConnHeld, FileIsWhatWasReported, EnterPlain, sqEngine, sqBudget, sqTold
  <1>. QED  BY <1>1, BudgetsKept DEF ConnInv, EnterPlain

LEMMA BeginTransactionConnInv ==
    ASSUME ConnInv, BeginTransaction
    PROVE  ConnInv'
  <1>1. ConnTyped' /\ ConnHeld' /\ FileIsWhatWasReported'
    BY DEF ConnInv, ConnTyped, ConnHeld, FileIsWhatWasReported, BeginTransaction, sqBudget, sqTold
  <1>2. sqConn'.budget_owned = sqConn.budget_owned
    BY DEF ConnInv, ConnTyped, BeginTransaction
  <1>. QED  BY <1>1, <1>2, BudgetsKept DEF ConnInv, BeginTransaction

\* The destructor: a transaction it could not roll back takes the connection with it.
LEMMA LeaveConnInv ==
    ASSUME ConnInv, NEW rolled \in BOOLEAN, Leave(rolled)
    PROVE  ConnInv'
  <1>1. CASE sqGuard # "active"
    <2>1. UNCHANGED <<sqConn, sqEngine>>
      BY <1>1 DEF Leave, DestroyGuard
    <2>2. ConnTyped' /\ ConnHeld' /\ FileIsWhatWasReported'
      BY <1>1, <2>1
         DEF ConnInv, ConnTyped, ConnHeld, FileIsWhatWasReported, Leave, sqEngine, sqBudget
    <2>. QED  BY <2>1, <2>2, BudgetsKept DEF ConnInv, Leave
  <1>2. CASE sqGuard = "active"
    <2>1. /\ sqConn' = [sqConn EXCEPT !.transaction_owned = FALSE,
                          !.usable = @ /\ (sqAuto \/ rolled)]
          /\ sqFile' = sqFile /\ sqAuto' \in BOOLEAN
          /\ ~sqAuto' => ~sqAuto /\ ~rolled
      BY <1>2 DEF Leave, DestroyGuard, UsableAfter, RollbackEngine, sqEngine, ConnInv, ConnTyped
    <2>2. /\ sqConn' \in [usable : BOOLEAN, transaction_owned : BOOLEAN, budget_owned : BOOLEAN]
          /\ sqConn'.budget_owned = sqConn.budget_owned
          /\ sqConn'.transaction_owned = FALSE
          /\ sqConn'.usable => sqAuto \/ rolled
      BY <2>1 DEF ConnInv, ConnTyped
    <2>3. ConnTyped' /\ ConnHeld'
      BY <2>1, <2>2 DEF ConnInv, ConnTyped, ConnHeld, Leave, sqBudget
    <2>4. FileIsWhatWasReported'
      BY <1>2, <2>1 DEF ConnInv, ConnHeld, FileIsWhatWasReported, Leave
    <2>. QED  BY <2>2, <2>3, <2>4, BudgetsKept DEF ConnInv, Leave
  <1>. QED  BY <1>1, <1>2

\* An engine that fails keeps its transaction as it was, or has none any more.
LEMMA EngineFailed ==
    ASSUME sqAuto \in BOOLEAN, FailEngine
    PROVE  /\ sqFile' = sqFile /\ sqAuto' \in BOOLEAN
           /\ ~sqAuto' => ~sqAuto /\ sqOpen' = sqOpen
  BY Zenon DEF FailEngine, RollbackEngine, sqEngine

LEMMA StatementConnInv ==
    ASSUME ConnInv, Prepare \/ StepRow \/ StepFails
    PROVE  ConnInv'
  <1>1. /\ UNCHANGED <<sqConn, sqGuard, sqScope, sqBudget, sqHistory>>
        /\ sqConn.usable /\ sqScope # "idle"
        /\ sqGuard = "active" /\ sqAuto => sqStmt' = "failed"
        /\ sqGuard = "active" /\ sqAuto' => sqStmt' = "failed"
        /\ sqFile' = sqFile /\ sqAuto' \in BOOLEAN
        /\ ~sqAuto' => ~sqAuto /\ sqOpen' = sqOpen
    <2>. USE DEF ConnInv, ConnTyped, ConnHeld, sqEngine
    <2>1. CASE Prepare
      BY <2>1 DEF Prepare
    <2>2. CASE StepRow
      BY <2>2 DEF StepRow
    <2>3. CASE StepFails
      BY <2>3, EngineFailed DEF StepFails
    <2>. QED  BY <2>1, <2>2, <2>3
  <1>2. ConnTyped' /\ ConnHeld' /\ FileIsWhatWasReported'
    BY <1>1 DEF ConnInv, ConnTyped, ConnHeld, FileIsWhatWasReported, sqBudget, sqHistory, sqTold
  <1>. QED  BY <1>1, <1>2, BudgetsKept DEF ConnInv

\* A COMMIT that fails applied nothing, or the whole of its guard's transaction.
LEMMA CommitFailsConnInv ==
    ASSUME ConnInv, CommitFails
    PROVE  ConnInv'
  <1>1. /\ UNCHANGED <<sqConn, sqGuard, sqScope, sqBudget, sqMine, sqSaid>>
        /\ sqConn.usable /\ sqGuard = "active" /\ sqScope = "guarded" /\ sqStmt' = "failed"
    BY DEF ConnInv, ConnHeld, CommitFails
  <1>2. \/ sqFile' = sqFile /\ sqApplied' = sqApplied /\ sqAuto' \in BOOLEAN
           /\ (~sqAuto' => ~sqAuto /\ sqOpen' = sqOpen)
        \/ sqFile' = sqFile \cup sqMine /\ sqApplied' = sqApplied \cup sqMine /\ sqAuto' = TRUE
    <2>1. CASE FailEngine /\ UNCHANGED sqApplied
      <3>1. sqAuto \in BOOLEAN
        BY DEF ConnInv, ConnTyped
      <3>. QED  BY <2>1, <3>1, EngineFailed
    <2>2. CASE ~sqAuto /\ CommitEngine /\ sqApplied' = sqApplied \cup sqMine
      BY <1>1, <2>2 DEF ConnInv, ConnHeld, CommitEngine
    <2>. QED  BY <2>1, <2>2, Zenon DEF CommitFails
  <1>3. ConnTyped' /\ ConnHeld' /\ FileIsWhatWasReported'
    BY <1>1, <1>2 DEF ConnInv, ConnTyped, ConnHeld, FileIsWhatWasReported, sqBudget
  <1>. QED  BY <1>1, <1>3, BudgetsKept DEF ConnInv

\* A write lands in the file in autocommit, in the guard's own transaction otherwise.
LEMMA StepDoneConnInv ==
    ASSUME ConnInv, NEW writes \in BOOLEAN, StepDone(writes)
    PROVE  ConnInv'
  <1>1. (sqScope = "plain" /\ sqGuard # "active" /\ sqAuto) \/ (sqScope = "guarded" /\ ~sqAuto)
    BY DEF ConnInv, ConnTyped, ConnHeld, StepDone
  <1>2. CASE writes /\ sqStmt = "bound"
    <2>1. WriteEngine(sqWrites) /\ sqMine' = sqMine \cup {sqWrites} /\ sqStmt' = "done"
          /\ UNCHANGED <<sqConn, sqGuard, sqScope, sqBudget, sqTold>>
      BY <1>2 DEF StepDone
    <2>2. ConnTyped' /\ ConnHeld' /\ FileIsWhatWasReported'
      BY <1>1, <2>1
         DEF ConnInv, ConnTyped, ConnHeld, FileIsWhatWasReported, WriteEngine, sqBudget, sqTold
    <2>. QED  BY <2>1, <2>2, BudgetsKept DEF ConnInv
  <1>3. CASE ~(writes /\ sqStmt = "bound")
    <2>1. UNCHANGED <<sqEngine, sqMine>> /\ sqStmt' = "done"
          /\ UNCHANGED <<sqConn, sqGuard, sqScope, sqBudget, sqTold>>
      BY <1>3 DEF StepDone
    <2>2. ConnTyped' /\ ConnHeld' /\ FileIsWhatWasReported'
      BY <1>1, <2>1
         DEF ConnInv, ConnTyped, ConnHeld, FileIsWhatWasReported, sqEngine, sqBudget, sqTold
    <2>. QED  BY <2>1, <2>2, BudgetsKept DEF ConnInv
  <1>. QED  BY <1>2, <1>3

LEMMA CommitConnInv ==
    ASSUME ConnInv, Commit
    PROVE  ConnInv'
  <1>1. sqOpen = sqMine /\ sqScope = "guarded" /\ sqFile' = sqFile \cup sqOpen /\ sqAuto' = TRUE
    BY DEF ConnInv, ConnHeld, Commit, CommitRefused, CommitEngine
  <1>2. /\ sqConn' \in [usable : BOOLEAN, transaction_owned : BOOLEAN, budget_owned : BOOLEAN]
        /\ sqConn'.budget_owned = sqConn.budget_owned
        /\ sqConn'.transaction_owned = FALSE
    BY DEF ConnInv, ConnTyped, Commit, Ended
  <1>3. ConnTyped' /\ ConnHeld' /\ FileIsWhatWasReported'
    BY <1>1, <1>2 DEF ConnInv, ConnTyped, ConnHeld, FileIsWhatWasReported, Commit, sqBudget
  <1>. QED  BY <1>2, <1>3, BudgetsKept DEF ConnInv, Commit

LEMMA RollbackConnInv ==
    ASSUME ConnInv, Rollback
    PROVE  ConnInv'
  <1>1. sqScope = "guarded" /\ sqFile' = sqFile /\ sqAuto' = TRUE
    BY DEF ConnInv, ConnHeld, Rollback, RollbackEngine
  <1>2. /\ sqConn' \in [usable : BOOLEAN, transaction_owned : BOOLEAN, budget_owned : BOOLEAN]
        /\ sqConn'.budget_owned = sqConn.budget_owned
        /\ sqConn'.transaction_owned = FALSE
    BY DEF ConnInv, ConnTyped, Rollback, Ended
  <1>3. ConnTyped' /\ ConnHeld' /\ FileIsWhatWasReported'
    BY <1>1, <1>2 DEF ConnInv, ConnTyped, ConnHeld, FileIsWhatWasReported, Rollback, sqBudget, sqTold
  <1>. QED  BY <1>2, <1>3, BudgetsKept DEF ConnInv, Rollback

LEMMA NextConnInv ==
    ASSUME ConnInv, [SqNext]_sqVars
    PROVE  ConnInv'
  <1>1. CASE \E rolled \in BOOLEAN : Leave(rolled)
    BY <1>1, LeaveConnInv
  <1>2. CASE \E writes \in BOOLEAN : StepDone(writes)
    BY <1>2, StepDoneConnInv
  <1>3. CASE \E b \in Budgets : NewBudget(b) \/ EndBudget(b)
    BY <1>3, NewBudgetConnInv, EndBudgetConnInv
  <1>4. CASE UNCHANGED sqVars
    BY <1>4 DEF ConnInv, ConnTyped, ConnHeld, FileIsWhatWasReported, BudgetInForce, sqVars
  <1>. QED  BY <1>1, <1>2, <1>3, <1>4, EnterPlainConnInv, BeginTransactionConnInv,
               StatementConnInv, CommitFailsConnInv, CommitConnInv, RollbackConnInv, Zenon DEF SqNext

\* A connection, through any number of scopes, statements, failures and budgets: the
\* file holds the writes that were reported, with those of a COMMIT that failed and was
\* applied, and no other, and the handlers in force are those of the one budget alive
\* (Transaction, Connection::check, ExecutionBudget).
THEOREM ConnectionsAlwaysTrue ==
    SqSpec => [](FileIsWhatWasReported /\ BudgetInForce)
  <1>1. ConnInv => FileIsWhatWasReported /\ BudgetInForce
    BY DEF ConnInv
  <1>. QED  BY <1>1, InitConnInv, NextConnInv, PTL DEF SqSpec

\* What the run checks of a store's file and of a connection, each behaving as its own
\* specification says, for every set of old archives and every bound on deaths and
\* writes (StoreFile, SqlTransactions).
THEOREM FilesAlwaysAsReported ==
    SfSpec /\ SqSpec => []FileIsAsReported
  BY FilesAlwaysOurs, ConnectionsAlwaysTrue, PTL DEF FileIsAsReported

=============================================================================
