----------------------------- MODULE EventBuses -----------------------------
(***************************************************************************)
(* The two publish/subscribe buses, for one event type: the synchronous    *)
(* one over boost::signals2 (src/utils/eventbus/include/eventbus/          *)
(* event_bus.hpp) and the coroutine fold (src/utils/async_eventbus/include/*)
(* eventbus/async_event_bus.hpp).  Threads subscribe, disconnect, clear    *)
(* and publish at the same time; no lock is held while a handler runs, so  *)
(* a publication walks a snapshot that goes stale under it.                *)
(*                                                                         *)
(* An event is the sequence of the handlers that rewrote it.  signals2 is  *)
(* external: it calls the slots connected when the walk starts, by group,  *)
(* and skips the ones disconnected since.                                  *)
(***************************************************************************)
EXTENDS Integers, Sequences, FiniteSets, Functions

CONSTANTS
    Handlers,       \* handlers, each subscribed at most once
    Publishers,     \* publications
    MaxClears       \* bound: calls of clear()

VARIABLES
    evBus,          \* "sync" or "async"
    evHolder,       \* number of the holder in the registry; clear() starts another
    evNext,         \* next_group: subscriptions counted in call order
    evTicket,       \* [Handlers -> [group, holder]] a subscribe() in progress, or done
    evSlots,        \* the slots: set of [handler, group, holder]
    evDead,         \* handlers whose slot is disconnected
    evWalk,         \* [Publishers -> the publication]
    evDue           \* history: [Publishers -> handlers connected since before it began]

evVars == <<evBus, evHolder, evNext, evTicket, evSlots, evDead, evWalk, evDue>>

NoTicket == [group |-> 0, holder |-> 0]
NoWalk == [pc |-> "new", mode |-> "none", holder |-> 0, left |-> <<>>, value |-> <<>>, errors |-> <<>>]

EvInit ==
    /\ evBus \in {"sync", "async"}
    /\ evHolder = 1 /\ evNext = 1
    /\ evTicket = [h \in Handlers |-> NoTicket]
    /\ evSlots = {} /\ evDead = {}
    /\ evWalk = [p \in Publishers |-> NoWalk]
    /\ evDue = [p \in Publishers |-> {}]

\* subscribe(): the place in the order is taken first.  The asynchronous bus
\* appends the slot under the same lock; signals2 connects it in a step of its own,
\* into the holder that was found.
TakePlace(h) ==
    /\ evTicket[h] = NoTicket
    /\ evTicket' = [evTicket EXCEPT ![h] = [group |-> evNext, holder |-> evHolder]]
    /\ evNext' = evNext + 1
    /\ evSlots' = IF evBus = "async"
                  THEN {s \in evSlots : s.handler \notin evDead \/ s.holder # evHolder}
                       \cup {[handler |-> h, group |-> evNext, holder |-> evHolder]}
                  ELSE evSlots
    /\ UNCHANGED <<evBus, evHolder, evDead, evWalk, evDue>>

\* Mutant of SlotGroup: an ungrouped connect goes behind every grouped slot.
MutantSlotGroup(h) == 100 + evNext + Cardinality(evSlots)
SlotGroup(h) == evTicket[h].group

Connect(h) ==
    /\ evBus = "sync" /\ evTicket[h] # NoTicket
    /\ \A s \in evSlots : s.handler # h
    /\ evSlots' = evSlots \cup {[handler |-> h, group |-> SlotGroup(h), holder |-> evTicket[h].holder]}
    /\ UNCHANGED <<evBus, evHolder, evNext, evTicket, evDead, evWalk, evDue>>

Forget(dead) == evDue' = [p \in Publishers |-> evDue[p] \ dead]

Disconnect(h) ==
    /\ \E s \in evSlots : s.handler = h
    /\ h \notin evDead
    /\ evDead' = evDead \cup {h} /\ Forget({h})
    /\ UNCHANGED <<evBus, evHolder, evNext, evTicket, evSlots, evWalk>>

\* clear(): the registry is swapped under the lock, the slots are disconnected
\* after it.
Registered == {s.handler : s \in {s \in evSlots : s.holder = evHolder}}
ClearBus ==
    /\ evHolder <= MaxClears
    /\ evHolder' = evHolder + 1
    /\ evDead' = evDead \cup Registered /\ Forget(Registered)
    /\ UNCHANGED <<evBus, evNext, evTicket, evSlots, evWalk>>

\* publish() looks the holder up under the lock.
BeginPublish(p, mode) ==
    /\ evWalk[p].pc = "new"
    /\ evBus = "sync" => mode = "propagate"
    /\ evWalk' = [evWalk EXCEPT ![p] = [NoWalk EXCEPT !.pc = "found", !.mode = mode, !.holder = evHolder]]
    /\ evDue' = [evDue EXCEPT ![p] = Registered \ evDead]
    /\ UNCHANGED <<evBus, evHolder, evNext, evTicket, evSlots, evDead>>

\* The slots by group: the one sequence of them whose groups grow.
InOrder(slots) ==
    {q \in [1..Cardinality(slots) -> slots] :
        Range(q) = slots /\ \A i, j \in DOMAIN q : i < j => q[i].group < q[j].group}

\* snapshot_slots(), and the slot list a signal's invocation takes.
Snapshot(p) ==
    /\ evWalk[p].pc = "found"
    /\ \E q \in InOrder({s \in evSlots : s.holder = evWalk[p].holder}) :
          evWalk' = [evWalk EXCEPT ![p].pc = "walk", ![p].left = q]
    /\ UNCHANGED <<evBus, evHolder, evNext, evTicket, evSlots, evDead, evDue>>

Skip(p) ==
    /\ evWalk[p].pc = "walk" /\ evWalk[p].left # <<>> /\ Head(evWalk[p].left).handler \in evDead
    /\ evWalk' = [evWalk EXCEPT ![p].left = Tail(@)]
    /\ UNCHANGED <<evBus, evHolder, evNext, evTicket, evSlots, evDead, evDue>>

\* The next live handler is started; others act before it finishes.
StartHandler(p) ==
    /\ evWalk[p].pc = "walk" /\ evWalk[p].left # <<>> /\ Head(evWalk[p].left).handler \notin evDead
    /\ evWalk' = [evWalk EXCEPT ![p].pc = "run"]
    /\ UNCHANGED <<evBus, evHolder, evNext, evTicket, evSlots, evDead, evDue>>

HandlerReturns(p) ==
    /\ evWalk[p].pc = "run"
    /\ evWalk' = [evWalk EXCEPT ![p].pc = "walk", ![p].left = Tail(@),
                                ![p].value = Append(@, Head(evWalk[p].left))]
    /\ UNCHANGED <<evBus, evHolder, evNext, evTicket, evSlots, evDead, evDue>>

\* Mutant of AfterThrow: a captured exception ends the walk too.
MutantAfterThrow(w) == [w EXCEPT !.pc = IF w.mode = "capture" THEN "walk" ELSE "threw",
                                 !.left = <<>>, !.errors = Append(@, Head(w.left))]
\* Propagate: the publisher gets the exception and nobody else runs.  Capture: the
\* exception is kept and the walk goes on with the value it had.
AfterThrow(w) == [w EXCEPT !.pc = IF w.mode = "capture" THEN "walk" ELSE "threw",
                           !.left = IF w.mode = "capture" THEN Tail(@) ELSE <<>>,
                           !.errors = Append(@, Head(w.left))]
HandlerThrows(p) ==
    /\ evWalk[p].pc = "run"
    /\ evWalk' = [evWalk EXCEPT ![p] = AfterThrow(@)]
    /\ UNCHANGED <<evBus, evHolder, evNext, evTicket, evSlots, evDead, evDue>>

EndPublish(p) ==
    /\ evWalk[p].pc = "walk" /\ evWalk[p].left = <<>>
    /\ evWalk' = [evWalk EXCEPT ![p].pc = "done"]
    /\ UNCHANGED <<evBus, evHolder, evNext, evTicket, evSlots, evDead, evDue>>

EvNext ==
    \/ \E h \in Handlers : TakePlace(h) \/ Connect(h) \/ Disconnect(h)
    \/ ClearBus
    \/ \E p \in Publishers : \/ \E mode \in {"propagate", "capture"} : BeginPublish(p, mode)
                             \/ Snapshot(p) \/ Skip(p) \/ StartHandler(p)
                             \/ HandlerReturns(p) \/ HandlerThrows(p) \/ EndPublish(p)
EvSpec == EvInit /\ [][EvNext]_evVars

\* Handlers see an event in the order their subscribe() calls were made, each at
\* most once, whatever was subscribed, disconnected or cleared meanwhile (subscribe,
\* publish).
ServedInOrder ==
    \A p \in Publishers :
        LET v == evWalk[p].value IN
        \A i, j \in DOMAIN v : i < j => evTicket[v[i].handler].group < evTicket[v[j].handler].group

\* A handler connected since before a publication and to its end is served by it,
\* unless an exception was let through: nobody else's coming, going or (captured)
\* throwing makes the walk miss it, and captured exceptions are all kept (publish).
LiveHandlersServed ==
    \A p \in Publishers :
        LET w == evWalk[p] IN
        w.pc = "done" => \A h \in evDue[p] : \E s \in Range(w.value) \cup Range(w.errors) : s.handler = h
=============================================================================
