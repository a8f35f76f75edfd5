------------------------------- MODULE Catalog -------------------------------
(***************************************************************************)
(* What the public catalogue of the registry promises its readers about    *)
(* one slug, whatever happens in the review workflow behind it.            *)
(*                                                                         *)
(* shelf[e] is the set of versions of entry e an anonymous reader is       *)
(* shown; it is empty while the entry is private, a draft or deleted.      *)
(* Versions are added one at a time and never taken off singly, an entry   *)
(* appears only with at least one version, at most one entry holds the     *)
(* slug, and a removed entry never comes back.                             *)
(***************************************************************************)
CONSTANTS Entries, Versions

VARIABLES
    shelf,     \* the versions of each entry the public sees
    removed    \* entries that have been removed for good

vars == <<shelf, removed>>

TypeOK ==
    /\ shelf \in [Entries -> SUBSET Versions]
    /\ removed \subseteq Entries

Init ==
    /\ shelf = [e \in Entries |-> {}]
    /\ removed = {}

\* A version of an entry on the shelf is released.
Stock(e, v) ==
    /\ shelf[e] # {}
    /\ v \notin shelf[e]
    /\ shelf' = [shelf EXCEPT ![e] = @ \cup {v}]
    /\ UNCHANGED removed

\* An entry appears, with every version released so far.
Reveal(e, vs) ==
    /\ e \notin removed
    /\ \A o \in Entries : shelf[o] = {}
    /\ vs # {}
    /\ shelf' = [shelf EXCEPT ![e] = vs]
    /\ UNCHANGED removed

\* An entry goes back to private.
Conceal(e) ==
    /\ shelf[e] # {}
    /\ shelf' = [shelf EXCEPT ![e] = {}]
    /\ UNCHANGED removed

\* An entry is deleted, whether the public saw it or not.
Remove(e) ==
    /\ e \notin removed
    /\ removed' = removed \cup {e}
    /\ shelf' = [shelf EXCEPT ![e] = {}]

Next ==
    \E e \in Entries :
        \/ \E v \in Versions : Stock(e, v)
        \/ \E vs \in SUBSET Versions : Reveal(e, vs)
        \/ Conceal(e)
        \/ Remove(e)

Spec == Init /\ [][Next]_vars

=============================================================================
