------------------------------ MODULE RoleGrants ------------------------------
(***************************************************************************)
(* The section of the console that lists, gives and revokes role grants on *)
(* one publisher or on all of them, mounted for whichever publisher is in  *)
(* scope, and the server behind it, which also applies the grants of the   *)
(* bootstrap file every time it starts.  The role itself is left out: a    *)
(* grant stands for a principal, a publisher and one role.                 *)
(***************************************************************************)
EXTENDS Permissions, Naturals, FiniteSets, Functions

CONSTANTS
    People, Groups,
    NoPrincipal,
    Seeds,         \* the grants of the bootstrap file
    MaxGrants      \* bound: the grants ever stored

Scopes == Publishers \cup {Everywhere}

ASSUME RoleGrantsAssumption ==
    /\ People \cap Groups = {}
    /\ NoPrincipal \notin People \cup Groups
    /\ Seeds \subseteq [to : People \cup Groups, on : Scopes]
    /\ IsFiniteSet(Seeds)
    /\ MaxGrants \in Nat

VARIABLES
    given,          \* role_grants: each with its id and its source
    nextId,
    serverAdmin,    \* what the user of the page is
    section,        \* the publisher in scope, Everywhere on the global page
    principalType,
    principal,      \* the option chosen, or NoPrincipal
    grantsListed,   \* the cached list of each scope
    revokeTarget,   \* the grants, one or none, in the confirmation
    sending         \* bound: the request under way, one at a time

grantVars == <<given, nextId, serverAdmin, section, principalType, principal,
               grantsListed, revokeTarget, sending>>

TypeOf(p) == IF p \in Groups THEN "group" ELSE "user"
What(g) == [to |-> g.to, on |-> g.on]
HasGrant(w) == \E g \in given : What(g) = w

NotSending == [kind |-> "none", on |-> Everywhere, type |-> "none", to |-> NoPrincipal, id |-> 0, answer |-> "none"]

\* The server has started with its file: every grant of it is there, as given
\* by the file or as somebody gave it before.
GrantsInit ==
    /\ \E order \in Bijection(Seeds, 1..Cardinality(Seeds)), source \in [Seeds -> {"config", "api"}] :
        given = {[id |-> order[w], to |-> w.to, on |-> w.on, source |-> source[w]] : w \in Seeds}
    /\ nextId = Cardinality(Seeds) + 1
    /\ serverAdmin \in BOOLEAN
    /\ section \in Publishers
    /\ principalType = IF serverAdmin THEN "group" ELSE "user"
    /\ principal = NoPrincipal
    /\ grantsListed = [s \in Scopes |-> {}]
    /\ revokeTarget = {}
    /\ sending = NotSending

GrantsServer == <<given, nextId>>
GrantsPage == <<section, principalType, principal, grantsListed, revokeTarget>>

-----------------------------------------------------------------------------
(* The server                                                              *)

Store(w, source) ==
    /\ nextId <= MaxGrants
    /\ given' = given \cup {[id |-> nextId, to |-> w.to, on |-> w.on, source |-> source]}
    /\ nextId' = nextId + 1

\* A start of the server; a grant that is there already is left as it is.
EnsureGrant ==
    \E w \in Seeds :
        /\ ~HasGrant(w)
        /\ Store(w, "config")
        /\ UNCHANGED <<serverAdmin, GrantsPage, sending>>

Answer(answer) ==
    /\ sending' = [sending EXCEPT !.answer = answer]
    /\ UNCHANGED <<serverAdmin, GrantsPage>>

Awaits(kind) == sending.kind = kind /\ sending.answer = "none"

\* Group grants are for Server Admins; the principal is looked up among those
\* of its type; a grant that exists is a conflict.
CreateGrant ==
    /\ Awaits("create")
    /\ LET w == [to |-> sending.to, on |-> sending.on] IN
       IF \/ sending.type = "group" /\ ~serverAdmin
          \/ TypeOf(sending.to) # sending.type
          \/ HasGrant(w)
       THEN Answer("refused") /\ UNCHANGED GrantsServer
       ELSE Answer("done") /\ Store(w, "api")

\* Mutant: by what it gives instead of by id.
DeleteLike ==
    /\ Awaits("delete")
    /\ LET found == {g \in given : /\ g.to = sending.to /\ g.on = sending.on
                                   /\ TypeOf(g.to) = "group" => serverAdmin} IN
       IF found = {}
       THEN Answer("refused") /\ UNCHANGED GrantsServer
       ELSE /\ Answer("done")
            /\ given' = given \ found
            /\ UNCHANGED nextId

\* By id, within the publisher of the URL.
DeleteGrant ==
    /\ Awaits("delete")
    /\ LET found == {g \in given : /\ g.id = sending.id /\ g.on = sending.on
                                   /\ TypeOf(g.to) = "group" => serverAdmin} IN
       IF found = {}
       THEN Answer("refused") /\ UNCHANGED GrantsServer
       ELSE /\ Answer("done")
            /\ given' = given \ found
            /\ UNCHANGED nextId

-----------------------------------------------------------------------------
(* The section                                                             *)

\* The confirmation is modal.
Usable == revokeTarget = {}

\* The switcher leaves the section mounted and what is chosen in it; the
\* global page is another mount.
ShowSection ==
    /\ Usable
    /\ section' \in Scopes \ {section}
    /\ section' = Everywhere => serverAdmin
    /\ IF Everywhere \in {section, section'}
       THEN principalType' = (IF serverAdmin THEN "group" ELSE "user") /\ principal' = NoPrincipal
       ELSE UNCHANGED <<principalType, principal>>
    /\ UNCHANGED <<GrantsServer, serverAdmin, grantsListed, revokeTarget, sending>>

GrantsArrive ==
    /\ grantsListed' = [grantsListed EXCEPT ![section] = {g \in given : g.on = section}]
    /\ UNCHANGED <<GrantsServer, serverAdmin, section, principalType, principal, revokeTarget, sending>>

ChoosePrincipalType ==
    /\ Usable /\ serverAdmin
    /\ principalType' \in {"group", "user"}
    /\ principal' = NoPrincipal
    /\ UNCHANGED <<GrantsServer, serverAdmin, section, grantsListed, revokeTarget, sending>>

ChoosePrincipal ==
    /\ Usable
    /\ principal' \in {NoPrincipal} \cup (IF principalType = "group" THEN Groups ELSE People)
    /\ UNCHANGED <<GrantsServer, serverAdmin, section, principalType, grantsListed, revokeTarget, sending>>

\* Without a principal the submission is a toast.
SubmitGrant ==
    /\ Usable /\ sending = NotSending /\ principal # NoPrincipal
    /\ sending' = [NotSending EXCEPT !.kind = "create", !.on = section, !.type = principalType, !.to = principal]
    /\ UNCHANGED <<GrantsServer, serverAdmin, GrantsPage>>

\* What the bootstrap file gave has no button: revoking it would not last.
AskRevoke ==
    /\ Usable /\ sending.kind # "delete"
    /\ \E g \in grantsListed[section] :
        /\ g.source # "config"
        /\ TypeOf(g.to) = "group" => serverAdmin
        /\ revokeTarget' = {g}
    /\ UNCHANGED <<GrantsServer, serverAdmin, section, principalType, principal, grantsListed, sending>>

CancelRevoke ==
    /\ ~Usable
    /\ revokeTarget' = {}
    /\ UNCHANGED <<GrantsServer, serverAdmin, section, principalType, principal, grantsListed, sending>>

ConfirmRevoke ==
    /\ sending = NotSending
    /\ \E g \in revokeTarget :
        sending' = [NotSending EXCEPT !.kind = "delete", !.on = section, !.to = g.to, !.id = g.id]
    /\ revokeTarget' = {}
    /\ UNCHANGED <<GrantsServer, serverAdmin, section, principalType, principal, grantsListed>>

GrantAnswered ==
    /\ sending.answer # "none"
    /\ sending' = NotSending
    /\ principal' = IF sending.kind = "create" /\ sending.answer = "done" THEN NoPrincipal ELSE principal
    /\ UNCHANGED <<GrantsServer, serverAdmin, section, principalType, grantsListed, revokeTarget>>

GrantsNext ==
    \/ EnsureGrant \/ CreateGrant \/ DeleteGrant
    \/ ShowSection \/ GrantsArrive \/ ChoosePrincipalType \/ ChoosePrincipal \/ SubmitGrant
    \/ AskRevoke \/ CancelRevoke \/ ConfirmRevoke \/ GrantAnswered

=============================================================================
