----------------------------- MODULE StateStore -----------------------------
(***************************************************************************)
(* What persistence::StateStore promises its caller                        *)
(* (src/persistence/include/persistence/store.hpp): a committed operation  *)
(* is durable when it returns, one that did not commit has changed         *)
(* nothing, and after an unknown outcome nothing is written until the      *)
(* store is opened again.  A restart may fall back to the durable content. *)
(*                                                                         *)
(* The content is the authoritative state with the archives of compact     *)
(* attempts, as [state, archives], each archive being [original, outcome]. *)
(***************************************************************************)
CONSTANT Empty     \* the content of a store that does not exist yet

VARIABLES
    visible,        \* what a reader finds
    durable,        \* what a power loss leaves at least
    before,         \* what was visible when the operation in progress began
    answer,         \* "opened", "pending" or the CommitStatus of the last operation
    latched         \* an outcome is unknown: no operation begins

storeVars == <<visible, durable, before, answer, latched>>

Answers == {"committed", "not_committed", "unknown"}

\* What one operation may do to the content: an archive is frozen, a new one holds
\* the state it freezes, an outcome is final once it is known, and nothing whose
\* outcome is open is removed.
Legal(old, new) ==
    /\ \A id \in DOMAIN old.archives \cap DOMAIN new.archives :
          /\ new.archives[id].original = old.archives[id].original
          /\ \/ new.archives[id].outcome = old.archives[id].outcome
             \/ old.archives[id].outcome = "prepared"
    /\ \A id \in DOMAIN new.archives \ DOMAIN old.archives :
          new.archives[id] = [original |-> new.state, outcome |-> "prepared"]
    /\ \A id \in DOMAIN old.archives \ DOMAIN new.archives :
          old.archives[id].outcome # "prepared"

Init ==
    /\ visible = Empty
    /\ durable = Empty
    /\ before = Empty
    /\ answer = "opened"
    /\ latched = FALSE

Call ==
    /\ answer # "pending"
    /\ ~latched
    /\ before' = visible
    /\ answer' = "pending"
    /\ UNCHANGED <<visible, durable, latched>>

Apply ==
    /\ answer = "pending"
    /\ visible = before
    /\ Legal(visible, visible')
    /\ durable' \in {durable, visible'}
    /\ UNCHANGED <<before, answer, latched>>

\* An operation whose commit fails may have been applied by it.
Return(r) ==
    /\ answer = "pending"
    /\ answer' = r
    /\ r # "unknown" => visible' = visible
    /\ visible' = visible \/ (visible = before /\ Legal(visible, visible'))
    /\ durable' \in {durable, visible}
    /\ r = "committed" => durable' = visible
    /\ r = "not_committed" => visible = before
    /\ latched' = (r = "unknown")
    /\ UNCHANGED before

Reopen ==
    /\ visible' \in {visible, durable}
    /\ answer' = "opened"
    /\ latched' = FALSE
    /\ UNCHANGED <<durable, before>>

Next == Call \/ Apply \/ (\E r \in Answers : Return(r)) \/ Reopen

Spec == Init /\ [][Next]_storeVars
=============================================================================
