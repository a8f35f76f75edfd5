---------------------------- MODULE PublisherScope ----------------------------
(***************************************************************************)
(* What the admin shell offers its user: the publisher it is scoped to,    *)
(* which comes from the caller's grants as last fetched, a choice kept in  *)
(* the browser (maybe by somebody else who signed in there) and, for a     *)
(* Server Admin, a list of publishers that may be minutes old; the links   *)
(* of the sidebar and the dashboard; the requests of the pages they lead   *)
(* to; and the settings page with its form.                                *)
(***************************************************************************)
EXTENDS Permissions

CONSTANTS
    NoScope,   \* no publisher: all of them for a Server Admin
    Unset,     \* nothing in the browser's storage, no list, no form
    Grantable  \* bound: the grants that come to be given

ASSUME ScopeAssumption ==
    /\ NoScope \notin Publishers \cup {Everywhere, Unset}
    /\ Unset \notin Publishers \cup {Everywhere}
    /\ Grantable \subseteq Grants

VARIABLES
    existing,  \* the server: the publishers there are
    caller,    \* the server: whom the token stands for, with the grants now
    me,        \* the console: the answer of /me
    listed,    \* allPublishers, or Unset
    stored,    \* the choice in localStorage: a slug, NoScope or Unset
    settings,  \* the server: for whom each publisher's name was written
    cached,    \* the publishers whose settings have been fetched
    page,      \* "settings" or another
    form       \* what the settings form holds, or Unset

scopeVars == <<existing, caller, me, listed, stored, settings, cached, page, form>>

Nobody == [admin |-> FALSE, grants |-> {}]

ScopeInit ==
    /\ existing = Publishers
    /\ caller \in [admin : BOOLEAN, grants : SUBSET Grantable]
    /\ me = caller
    /\ listed = Unset
    /\ stored = Unset
    /\ settings = [p \in Publishers |-> p]
    /\ cached = {}
    /\ page = "home"
    /\ form = Unset

-----------------------------------------------------------------------------
(* The scope                                                               *)

Granted == {g.on : g \in me.grants} \ {Everywhere}

publishers == Granted \cup (IF me.admin /\ listed # Unset THEN listed ELSE {})

\* The first by name is whichever CHOOSE takes.
First(slugs) == IF slugs = {} THEN NoScope ELSE CHOOSE p \in slugs : TRUE

\* Mutant: the choice in the browser is believed.
storedSlug ==
    IF stored \notin {Unset, NoScope} THEN stored
    ELSE IF me.admin THEN NoScope ELSE First(publishers)

currentSlug ==
    IF stored \in publishers THEN stored
    ELSE IF me.admin THEN NoScope ELSE First(publishers)

-----------------------------------------------------------------------------
(* Links, and the requests behind them                                     *)

publisherNav ==
    {"dashboard"}
    \cup (IF isReviewerAnywhere(me) THEN {"review"} ELSE {})
    \cup (IF currentSlug # NoScope THEN {"activity", "settings"} ELSE {})
    \cup (IF currentSlug # NoScope /\ can(me, currentSlug, "admin") THEN {"members"} ELSE {})

\* Publishers, Groups, Users, Global grants, Instance tags, Reports, Audit log.
serverAdminNav == IF me.admin THEN {"serverAdmin"} ELSE {}

\* The tiles and the button of the overview of a publisher.
OverviewLinks ==
    IF currentSlug = NoScope THEN {}
    ELSE (IF can(me, currentSlug, "reviewer") THEN {"review"} ELSE {})
         \cup (IF can(me, currentSlug, "editor") THEN {"new"} ELSE {})

Links == publisherNav \cup serverAdminNav \cup OverviewLinks

\* The publishers the form for a new entry lists.
newOptions == {p \in publishers : can(me, p, "editor")}

On(p, role) == [kind |-> "role", on |-> p, role |-> role]
Public(p) == [kind |-> "public", on |-> p, role |-> "viewer"]
AsAdmin == [kind |-> "admin", on |-> NoScope, role |-> "admin"]
AsReviewer == [kind |-> "queue", on |-> NoScope, role |-> "reviewer"]

Dashboard ==
    IF currentSlug # NoScope THEN {On(currentSlug, "viewer")}
    ELSE IF me.admin THEN {AsAdmin}
    ELSE IF isReviewerAnywhere(me) THEN {AsReviewer} ELSE {}

\* The users and groups among whom the members page lets its user pick: it
\* asks for both, whoever that is.
Pickers == [kind |-> "pickers", on |-> NoScope, role |-> "admin"]

\* Those of a page's requests that are sent only to whom the console thinks
\* allowed.
Permitted(requests) == {n \in requests : can(me, n.on, n.role)}

\* What the page behind a link asks for when it opens, and what its buttons ask
\* for the publisher in scope or the one that is chosen.
Requests(link) ==
    CASE link = "dashboard" -> Dashboard
      [] link = "review" -> {AsReviewer}
      [] link = "activity" -> {On(currentSlug, "viewer")}
      [] link = "members" -> {On(currentSlug, "admin"), Pickers}
      [] link = "settings" -> {Public(currentSlug)} \cup Permitted({On(currentSlug, "admin")})
      [] link = "new" -> Permitted({On(p, r) : p \in newOptions, r \in {"editor", "reviewer"}})
      [] link = "serverAdmin" -> {AsAdmin}

\* The role comes first; a handler that finds no publisher answers 404, to a
\* Server Admin as well.
Accepts(n) ==
    CASE n.kind = "role" ->
            RequirePublisherRole(caller, existing, n.on, n.role) /\ n.on \in existing
      [] n.kind = "public" -> n.on \in existing
      [] n.kind = "queue" -> MayListQueue(caller)
      [] n.kind \in {"admin", "pickers"} -> RequireAdmin(caller)

-----------------------------------------------------------------------------
(* The settings page                                                       *)

\* The two sides, for UNCHANGED.
Server == <<existing, caller, settings>>
Console == <<me, listed, stored, cached, page>>

canEdit == can(me, currentSlug, "admin")

\* The inputs are uncontrolled: they are filled when the form is mounted and
\* left alone while another publisher's settings, already cached, come under
\* them; a publisher that must be fetched shows a skeleton in between.
FormRenders ==
    form' = IF page' # "settings" \/ currentSlug' \notin cached' THEN Unset
            ELSE IF form # Unset THEN form
            ELSE settings[currentSlug']

OpenSettings ==
    /\ page = "home"
    /\ page' = "settings"
    /\ UNCHANGED <<Server, me, listed, stored, cached>>
    /\ FormRenders

LeaveSettings ==
    /\ page = "settings"
    /\ page' = "home"
    /\ UNCHANGED <<Server, me, listed, stored, cached>>
    /\ FormRenders

\* The answer of GET /publishers/{slug} for the publisher in scope.
SettingsArrive ==
    /\ page = "settings"
    /\ currentSlug \in existing \ cached
    /\ cached' = cached \cup {currentSlug}
    /\ UNCHANGED <<Server, me, listed, stored, page>>
    /\ FormRenders

\* A name is typed for the publisher on the screen.
TypeName ==
    /\ form # Unset /\ canEdit
    /\ form' = currentSlug
    /\ UNCHANGED <<Server, Console>>

Save ==
    /\ form # Unset /\ canEdit
    /\ Accepts(On(currentSlug, "admin"))
    /\ settings' = [settings EXCEPT ![currentSlug] = form]
    /\ UNCHANGED <<existing, caller, Console, form>>

-----------------------------------------------------------------------------
(* Everything else                                                         *)

setCurrent ==
    /\ stored' \in publishers \cup (IF me.admin THEN {NoScope} ELSE {})
    /\ UNCHANGED <<Server, me, listed, cached, page>>
    /\ FormRenders

ListPublishers ==
    /\ me.admin
    /\ listed' = existing
    /\ UNCHANGED <<Server, me, stored, cached, page>>
    /\ FormRenders

CallersNow == [admin : BOOLEAN, grants : SUBSET {g \in Grantable : g.on \in existing \cup {Everywhere}}]

\* A page load: /me is asked anew and the caches are empty.  It may be another
\* user, signed in to the same browser; the storage stays.
Load ==
    /\ caller' \in CallersNow
    /\ me' = caller'
    /\ listed' = Unset
    /\ cached' = {}
    /\ page' = "home"
    /\ form' = Unset
    /\ UNCHANGED <<existing, stored, settings>>

\* Grants come and go behind the console's back.
GrantRole ==
    \E g \in Grantable \ caller.grants :
        /\ g.on \in existing \cup {Everywhere}
        /\ caller' = [caller EXCEPT !.grants = @ \cup {g}]
        /\ UNCHANGED <<existing, settings, Console, form>>

PromoteOrDemote ==
    /\ caller' = [caller EXCEPT !.admin = ~@]
    /\ UNCHANGED <<existing, settings, Console, form>>

RevokeRole ==
    \E g \in caller.grants :
        /\ caller' = [caller EXCEPT !.grants = @ \ {g}]
        /\ UNCHANGED <<existing, settings, Console, form>>

\* The grants on a publisher go with it.
DeletePublisher ==
    \E p \in existing :
        /\ existing' = existing \ {p}
        /\ caller' = [caller EXCEPT !.grants = {g \in @ : g.on # p}]
        /\ UNCHANGED <<settings, Console, form>>

ScopeNext ==
    \/ OpenSettings \/ LeaveSettings \/ SettingsArrive \/ TypeName \/ Save
    \/ setCurrent \/ ListPublishers \/ Load
    \/ GrantRole \/ RevokeRole \/ PromoteOrDemote \/ DeletePublisher

=============================================================================
