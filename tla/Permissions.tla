------------------------------ MODULE Permissions ------------------------------
(***************************************************************************)
(* The role lattice, twice: as the server enforces it and as the console   *)
(* mirrors it.  A grant is a role on a publisher or on all of them; a      *)
(* caller is the flag of a Server Admin and a set of grants.               *)
(***************************************************************************)

CONSTANTS
    Publishers,  \* their slugs
    Everywhere   \* what a global grant is on

ASSUME EverywhereAssumption == Everywhere \notin Publishers

Roles == {"viewer", "editor", "reviewer", "admin"}
Grants == [role : Roles, on : Publishers \cup {Everywhere}]
Callers == [admin : BOOLEAN, grants : SUBSET Grants]

-----------------------------------------------------------------------------
(* The server                                                              *)

EffectiveRoles(caller, p) == {g.role : g \in {h \in caller.grants : h.on \in {p, Everywhere}}}

Satisfies(held, required) ==
    CASE required = "viewer" -> held \cap Roles # {}
      [] required = "editor" -> held \cap {"admin", "editor"} # {}
      [] OTHER -> required \in held

\* A Server Admin passes before the publisher is looked up.
RequirePublisherRole(caller, existing, p, required) ==
    caller.admin \/ (p \in existing /\ Satisfies(EffectiveRoles(caller, p), required))

RequireAdmin(caller) == caller.admin

\* Whoever reviews nowhere is refused the queue.
MayListQueue(caller) == caller.admin \/ \E g \in caller.grants : g.role = "reviewer"

-----------------------------------------------------------------------------
(* The console                                                             *)

rolesOn(me, slug) == {g.role : g \in {h \in me.grants : h.on = Everywhere \/ h.on = slug}}

satisfiesRole(held, required) ==
    \/ required \in held
    \/ required = "viewer" /\ held \cap {"admin", "editor", "reviewer"} # {}
    \/ required = "editor" /\ "admin" \in held

can(me, slug, required) == me.admin \/ satisfiesRole(rolesOn(me, slug), required)

isReviewerAnywhere(me) == me.admin \/ \E g \in me.grants : g.role = "reviewer"

=============================================================================
