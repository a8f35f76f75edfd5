---------------------------- MODULE WebPagesProofs ----------------------------
(***************************************************************************)
(* Proofs about the pages that keep state between clicks, for any number   *)
(* of entries, tags, grants, submissions and servers.  The parts share     *)
(* nothing, so that every step of the pages is a step or a stutter of each *)
(* part (Parts), and every part has an inductive invariant of its own.     *)
(***************************************************************************)
EXTENDS WebPages, SublistsProofs

LEMMA PartsStart ==
    Init => AuditInit /\ ScopeInit /\ ListInit /\ QueueInit /\ TagsInit /\ GrantsInit /\ EntryInit
BY DEF Init

LEMMA Parts ==
    [Next]_vars => /\ [AuditNext]_auditVars
                   /\ [ScopeNext]_scopeVars
                   /\ [ListNext]_listVars
                   /\ [QueueNext]_queueVars
                   /\ [TagsNext]_tagVars
                   /\ [GrantsNext]_grantVars
                   /\ [EntryNext]_entryVars
BY DEF Next, vars

-----------------------------------------------------------------------------
(* Instance tags                                                           *)

LEMMA Managed == \A s : FromConfiguration(s).managed
BY DEF FromConfiguration

LEMMA TagsStart == TagsInit => ConfigurationHolds
BY DEF TagsInit, ConfigurationHolds

LEMMA TagsStep == ConfigurationHolds /\ [TagsNext]_tagVars => ConfigurationHolds'
<1> SUFFICES ASSUME ConfigurationHolds, [TagsNext]_tagVars
             PROVE  ConfigurationHolds'
    OBVIOUS
<1>1. CASE ReconcileManagedInstanceTags
    BY <1>1 DEF ReconcileManagedInstanceTags, ConfigurationHolds
<1>2. CASE CreateInstanceTag
    <2>1. /\ configured' = configured
          /\ \A s \in DOMAIN tags : s \in DOMAIN tags' /\ tags'[s] = tags[s]
        <3>1. CASE request.slug \in DOMAIN tags
            BY <1>2, <3>1 DEF CreateInstanceTag, Takes
        <3>2. CASE request.slug \notin DOMAIN tags
            BY <1>2, <3>2 DEF CreateInstanceTag, Takes
        <3> QED
            BY <3>1, <3>2
    <2> QED
        BY <2>1 DEF ConfigurationHolds, FromConfiguration
<1>3. CASE UpdateInstanceTag
    <2>1. request.slug \in DOMAIN tags /\ ~tags[request.slug].managed => request.slug \notin configured
        BY Managed, Zenon DEF ConfigurationHolds
    <2>2. \/ UNCHANGED <<tags, configured>>
          \/ /\ configured' = configured
             /\ request.slug \notin configured
             /\ tags' = [tags EXCEPT ![request.slug] = Updated(@, request.body)]
        BY <1>3, <2>1 DEF UpdateInstanceTag, Takes
    <2> QED
        BY <2>2 DEF ConfigurationHolds
<1>4. CASE DeleteInstanceTag
    <2>1. request.slug \in DOMAIN tags /\ ~tags[request.slug].managed => request.slug \notin configured
        BY Managed, Zenon DEF ConfigurationHolds
    <2>2. \/ UNCHANGED <<tags, configured>>
          \/ /\ configured' = configured
             /\ request.slug \notin configured
             /\ tags' = [s \in DOMAIN tags \ {request.slug} |-> tags[s]]
        BY <1>4, <2>1 DEF DeleteInstanceTag, Takes, Restrict
    <2> QED
        BY <2>2 DEF ConfigurationHolds
<1>5. CASE UNCHANGED <<tags, configured>>
    BY <1>5 DEF ConfigurationHolds
<1> QED
    BY <1>1, <1>2, <1>3, <1>4, <1>5
    DEF TagsNext, tagVars, validateVersionTags, CreateMCPServerVersion, TagsArrive, AddTag, Edit,
        CancelEdit, SaveEdit, Toggle, AskDelete, CancelDelete, ConfirmDelete, TagAnswered,
        ServerSide

\* However stale the rows of the page and whatever was there before, a tag of
\* the configuration is as the configuration says, for any tags.
THEOREM ConfigurationWins == Spec => []ConfigurationHolds
<1>1. Init => ConfigurationHolds
    BY PartsStart, TagsStart
<1>2. ConfigurationHolds /\ [Next]_vars => ConfigurationHolds'
    BY Parts, TagsStep
<1> QED
    BY <1>1, <1>2, PTL DEF Spec

-----------------------------------------------------------------------------
(* The public page of an entry                                             *)

\* What the anonymous key of the cache holds, and what is asked for it, is what
\* everybody may see.
EntryInv ==
    /\ entry \in Entries
    /\ session \in Viewers \cup {Unknown}
    /\ token \in Viewers
    /\ known \in [Entries \X Viewers -> Viewers \cup {Unknown}]
    /\ \A e \in Entries : known[<<e, Anonymous>>] \in {Anonymous, Unknown}
    /\ \A f \in fetches : /\ f.key \in Entries \X Viewers
                          /\ f.as \in Viewers
                          /\ f.key[2] = Anonymous => f.as = Anonymous

LEMMA EntryStart == EntryInit => EntryInv
BY DEF EntryInit, EntryInv, Viewers

LEMMA EntryStep == EntryInv /\ [EntryNext]_entryVars => EntryInv'
<1> SUFFICES ASSUME EntryInv, [EntryNext]_entryVars
             PROVE  EntryInv'
    OBVIOUS
<1> USE DEF Queried
<1>1. CASE AuthLoaded \/ SignIn \/ SignOut \/ OtherTab
    BY <1>1 DEF AuthLoaded, SignIn, SignOut, OtherTab, EntryInv, Viewers
<1>2. CASE Fetch
    <2>1. api \in Viewers /\ (session = Anonymous => api = Anonymous)
        BY DEF api, EntryInv, Viewers
    <2>2. PICK f : /\ f.key = <<entry, session>>
                   /\ f.as = api
                   /\ fetches' = fetches \cup {f}
        <3>1. [key |-> Key(entry), as |-> api].key = <<entry, session>>
            BY DEF Key, viewer
        <3> QED
            BY <1>2, <3>1 DEF Fetch
    <2>3. session \in Viewers
        BY <1>2 DEF Fetch, ready, EntryInv
    <2> QED
        BY <1>2, <2>1, <2>2, <2>3 DEF Fetch, EntryInv
<1>3. CASE FetchAnswered
    <2>1. PICK f \in fetches :
              /\ fetches' = fetches \ {f}
              /\ known' = [known EXCEPT ![f.key] =
                               IF f.as = Anonymous /\ f.key[1] \in PrivateEntries THEN Unknown ELSE f.as]
              /\ UNCHANGED <<entry, session, token>>
        BY <1>3 DEF FetchAnswered
    <2>2. \A e \in Entries : f.key = <<e, Anonymous>> => f.as = Anonymous
        BY DEF EntryInv
    <2>3. \A e \in Entries : <<e, Anonymous>> \in Entries \X Viewers
        BY DEF Viewers
    <2> QED
        BY <2>1, <2>2, <2>3 DEF EntryInv
<1>4. CASE Visit
    BY <1>4 DEF Visit, EntryInv
<1>5. CASE UNCHANGED <<entry, session, token, known, fetches>>
    BY <1>5 DEF EntryInv
<1> QED
    BY <1>1, <1>2, <1>3, <1>4, <1>5
    DEF EntryNext, entryVars, handleTabChange, ChooseSource, ToggleCompare, toggleSelected,
        open, close, handleSubmit, ReportAnswered

\* However sessions change, in this tab or another, and answers come late,
\* somebody who is signed out sees only what was answered to somebody signed
\* out, for any entries.
THEOREM NoMemberAnswerInPublic == Spec => []PublicSeesPublic
<1>1. Init => EntryInv
    BY PartsStart, EntryStart
<1>2. EntryInv /\ [Next]_vars => EntryInv'
    BY Parts, EntryStep
<1>3. EntryInv => PublicSeesPublic
    BY DEF EntryInv, PublicSeesPublic, Shown, DataOf, Key, viewer, ready
<1> QED
    BY <1>1, <1>2, <1>3, PTL DEF Spec

-----------------------------------------------------------------------------
(* The review queue page                                                   *)

Job == [item : Submissions \cup {NoItem}, reason : Submissions \cup {NoItem},
        at : {"idle", "sent", "done", "refused"}]

\* A reason that is typed belongs to the row with the open form.
QueueInv ==
    /\ pending \subseteq Submissions
    /\ rows \subseteq Submissions
    /\ rejectReason \in Submissions \cup {NoItem}
    /\ rejectReason # NoItem => rejectingKey = rowKey(rejectReason)
    /\ rejection \in Job
    /\ ReasonFitsRow

LEMMA RowKeys ==
    \A a, b \in Submissions : rowKey(a) = rowKey(b) => a = b
BY SubmissionsAssumption DEF rowKey

LEMMA QueueStart == QueueInit => QueueInv
BY DEF QueueInit, QueueInv, NoRequest, Job, ReasonFitsRow

LEMMA QueueStep == QueueInv /\ [QueueNext]_queueVars => QueueInv'
<1> SUFFICES ASSUME QueueInv, [QueueNext]_queueVars
             PROVE  QueueInv'
    OBVIOUS
<1>1. CASE SubmitItem \/ ItemGoes \/ ServeApproval \/ QueueArrives
    BY <1>1 DEF SubmitItem, ItemGoes, ServeApproval, QueueArrives, QueueInv, ReasonFitsRow
<1>2. CASE ServeRejection
    BY <1>2 DEF ServeRejection, Decided, QueueInv, Job, ReasonFitsRow
<1>3. CASE ClickReject
    BY <1>3 DEF ClickReject, QueueInv, ReasonFitsRow
<1>4. CASE TypeReason
    BY <1>4 DEF TypeReason, QueueInv, ReasonFitsRow
<1>5. CASE ConfirmReject
    <2>1. PICK it \in rows :
              /\ rejectingKey = rowKey(it) /\ rejectReason # NoItem
              /\ rejection' = [item |-> it, reason |-> rejectReason, at |-> "sent"]
        BY <1>5 DEF ConfirmReject
    <2>2. rejectReason = it
        BY <2>1, RowKeys DEF QueueInv
    <2> QED
        BY <1>5, <2>1, <2>2 DEF ConfirmReject, QueueInv, Job, ReasonFitsRow
<1>6. CASE CancelReject
    BY <1>6 DEF CancelReject, QueueInv, ReasonFitsRow
<1>7. CASE RejectionAnswered
    BY <1>7 DEF RejectionAnswered, NoRequest, QueueInv, Job, ReasonFitsRow
<1>8. CASE UNCHANGED <<pending, rows, rejectingKey, rejectReason, rejection>>
    BY <1>8 DEF QueueInv, ReasonFitsRow
<1> QED
    BY <1>1, <1>2, <1>3, <1>4, <1>5, <1>6, <1>7, <1>8
    DEF QueueNext, queueVars, RefreshQueue, ClickApprove, ConfirmApproval, CloseDialog, ApprovalAnswered

\* The reason sent with a rejection was typed for the item it rejects, for any
\* submissions that come and go under the open form.
THEOREM ReasonsGoToTheirRow == Spec => []ReasonFitsRow
<1>1. Init => QueueInv
    BY PartsStart, QueueStart
<1>2. QueueInv /\ [Next]_vars => QueueInv'
    BY Parts, QueueStep
<1>3. QueueInv => ReasonFitsRow
    BY DEF QueueInv
<1> QED
    BY <1>1, <1>2, <1>3, PTL DEF Spec

-----------------------------------------------------------------------------
(* The list with bulk actions                                              *)

\* With no keystroke pending the bar shows the text of the URL; a keystroke
\* that is pending is in the bar, unless the URL has overwritten it.
ListInv ==
    /\ url \in Filters
    /\ timer \in Filters \cup {Nothing}
    /\ timer = Nothing => text = url.q
    /\ timer # Nothing => text \in {timer.q, url.q}
    /\ text \in Texts
    /\ loading \subseteq Filters
    /\ DOMAIN listings = Filters
    /\ \A f \in Filters : listings[f] # Nothing => listings[f] \subseteq Finds[f.q]

LEMMA Unfiltered == NoFilters \in Filters /\ NoFilters.q = NoText
BY ServerListAssumption DEF Filters, NoFilters

LEMMA ListStart == ListInit => ListInv
BY Unfiltered, ServerListAssumption DEF ListInit, ListInv

\* What navigating to other filters leaves.
LEMMA Navigation ==
    ASSUME ListInv, NEW to \in Filters, Go(to),
           to = url => text = url.q
    PROVE  /\ url' = to /\ url' \in Filters
           /\ text' = to.q /\ text' \in Texts
           /\ loading' \subseteq Filters
           /\ UNCHANGED <<listings, bulk>>
BY DEF Go, ListInv, Filters

LEMMA Found == \A f \in Filters : Matching(f) \subseteq Finds[f.q]
BY DEF Matching

LEMMA ListStep == ListInv /\ [ListNext]_listVars => ListInv'
<1> SUFFICES ASSUME ListInv, [ListNext]_listVars
             PROVE  ListInv'
    OBVIOUS
<1>1. CASE TypeText
    <2>1. PICK x \in Texts : /\ text' = x
                             /\ timer' = [url EXCEPT !.q = x]
                             /\ UNCHANGED <<url, listings, loading>>
        BY <1>1 DEF TypeText
    <2>2. [url EXCEPT !.q = x] \in Filters /\ [url EXCEPT !.q = x].q = x
        BY DEF ListInv, Filters
    <2> QED
        BY <2>1, <2>2, ServerListAssumption DEF ListInv
<1>2. CASE TimerFires
    <2>1. timer \in Filters /\ Go(timer) /\ timer' = Nothing
        BY <1>2 DEF TimerFires, ListInv
    <2>2. timer = url => text = url.q
        BY <1>2 DEF TimerFires, ListInv
    <2> QED
        BY <2>1, <2>2, Navigation DEF ListInv
<1>3. CASE ChooseStatus \/ Submit
    <2>1. PICK to \in Filters : /\ Go(to) /\ timer' = Nothing
                                /\ to = url => text = url.q
        <3>1. CASE ChooseStatus
            BY <3>1 DEF ChooseStatus, ApplyNow
        <3>2. CASE Submit
            <4>1. [url EXCEPT !.q = text] \in Filters /\ [url EXCEPT !.q = text].q = text
                BY DEF ListInv, Filters
            <4> QED
                BY <3>2, <4>1 DEF Submit, ApplyNow
        <3> QED
            BY <1>3, <3>1, <3>2
    <2> QED
        BY <2>1, Navigation DEF ListInv
<1>4. CASE ClearFilters \/ Navigated
    <2>1. timer' = timer
        BY <1>4 DEF ClearFilters, Navigated
    <2>2. CASE url # NoFilters
        <3>1. Go(NoFilters)
            BY <1>4, <2>2 DEF ClearFilters, Navigated
        <3> QED
            BY <2>1, <2>2, <3>1, Navigation, Unfiltered DEF ListInv
    <2>3. CASE url = NoFilters
        <3>1. text' = NoText /\ UNCHANGED <<url, loading, listings>>
            BY <1>4, <2>3 DEF ClearFilters, Navigated
        <3> QED
            BY <2>1, <2>3, <3>1, Unfiltered, ServerListAssumption DEF ListInv
    <2> QED
        BY <2>2, <2>3
<1>5. CASE ListArrives
    <2>1. PICK f \in loading :
              /\ loading' = loading \ {f}
              /\ listings' \in {listings, [listings EXCEPT ![f] = Matching(f)]}
              /\ UNCHANGED <<url, text, timer>>
        BY <1>5 DEF ListArrives
    <2> QED
        BY <2>1, Found DEF ListInv
<1>6. CASE BulkSettles
    BY <1>6 DEF BulkSettles, ListInv
<1>7. CASE UNCHANGED <<url, text, timer, loading, listings>>
    BY <1>7 DEF ListInv
<1> QED
    BY <1>1, <1>2, <1>3, <1>4, <1>5, <1>6, <1>7
    DEF ListNext, listVars, Tick, BulkSetVisibility, AskBulk, ConfirmBulk, CancelBulk, ItemSettles, StartBulk

\* A bulk action starts on what is ticked and on the screen.
LEMMA BulkStart ==
    ASSUME ListInv, [ListNext]_listVars, bulk = Idle, bulk' # Idle
    PROVE  /\ bulk'.open \subseteq ticked \cap Rows
           /\ timer = Nothing => Rows \subseteq Finds[text]
<1>1. \E action : StartBulk(action)
    <2>1. CASE BulkSetVisibility \/ ConfirmBulk
        BY <2>1 DEF BulkSetVisibility, ConfirmBulk
    <2>2. CASE ItemSettles \/ BulkSettles
        BY <2>2 DEF ItemSettles, BulkSettles, Idle
    <2> QED
        BY <2>1, <2>2
        DEF ListNext, listVars, TypeText, TimerFires, ChooseStatus, Submit, ApplyNow, ClearFilters,
            Navigated, Go, ListArrives, Tick, AskBulk, CancelBulk
<1>2. bulk'.open = ticked \cap Rows
    BY <1>1 DEF StartBulk, SelectedItems
<1>3. Rows \subseteq Finds[url.q]
    BY DEF Rows, ListInv
<1> QED
    BY <1>2, <1>3 DEF ListInv

\* However texts are typed, debounced, cleared and overwritten, and listings
\* come late, a bulk action hits what its user sees, for any servers and texts.
THEOREM BulkActsOnTheScreen == Spec => BulkHitsWhatIsSeen
<1>1. Init => ListInv
    BY PartsStart, ListStart
<1>2. ListInv /\ [Next]_vars => ListInv'
    BY Parts, ListStep
<1>3. ListInv /\ [Next]_vars =>
          [bulk = Idle /\ bulk' # Idle =>
               /\ bulk'.open \subseteq ticked \cap Rows
               /\ timer = Nothing => Rows \subseteq Finds[text]]_listVars
    BY Parts, BulkStart
<1> QED
    BY <1>1, <1>2, <1>3, PTL DEF Spec, BulkHitsWhatIsSeen

-----------------------------------------------------------------------------
(* Role grants                                                             *)

Grantees == People \cup Groups \cup {NoPrincipal}
GrantRow == [id : Nat, to : Grantees, on : Scopes, source : {"config", "api"}]
GrantRequest == [kind : {"none", "create", "delete"}, on : Scopes, type : {"none", "group", "user"},
                 to : Grantees, id : Nat, answer : {"none", "done", "refused"}]

\* Ids are not reused, so that a row read at any time names the grant it shows
\* or none, and what a revocation names the bootstrap file has not given.
NamesNone(id) == \A g \in given : g.id = id => g.source # "config"

GrantsInv ==
    /\ given \subseteq GrantRow
    /\ nextId \in Nat
    /\ \A g \in given : g.id < nextId
    /\ \A g, h \in given : g.id = h.id => g = h
    /\ section \in Scopes
    /\ principal \in Grantees
    /\ principalType \in {"group", "user"}
    /\ grantsListed \in [Scopes -> SUBSET GrantRow]
    /\ \A s \in Scopes : \A g \in grantsListed[s] :
          g.id < nextId /\ (g.source # "config" => NamesNone(g.id))
    /\ revokeTarget \subseteq GrantRow
    /\ \A g \in revokeTarget : g.id < nextId /\ NamesNone(g.id)
    /\ sending \in GrantRequest
    /\ sending.kind = "delete" => sending.id < nextId /\ NamesNone(sending.id)

LEMMA RowsAreGrants ==
    ASSUME GrantsInv, NEW s \in Scopes, NEW g \in grantsListed[s]
    PROVE  /\ g \in GrantRow /\ g.id \in Nat /\ g.id < nextId
           /\ g.source # "config" => NamesNone(g.id)
<1>1. grantsListed[s] \in SUBSET GrantRow
    BY DEF GrantsInv
<1>2. g.id < nextId /\ (g.source # "config" => NamesNone(g.id))
    BY DEF GrantsInv
<1> QED
    BY <1>1, <1>2 DEF GrantRow

LEMMA GrantsStart == GrantsInit => GrantsInv
<1> SUFFICES ASSUME GrantsInit
             PROVE  GrantsInv
    OBVIOUS
<1>1. PICK order \in Bijection(Seeds, 1..Cardinality(Seeds)), origin \in [Seeds -> {"config", "api"}] :
          given = {[id |-> order[w], to |-> w.to, on |-> w.on, source |-> origin[w]] : w \in Seeds}
    BY DEF GrantsInit
<1>2. /\ order \in [Seeds -> 1..Cardinality(Seeds)]
      /\ \A v, w \in Seeds : order[v] = order[w] => v = w
    BY DEF Bijection, Injection, IsInjective
<1>3. Cardinality(Seeds) \in Nat
    BY FS_CardinalityType, RoleGrantsAssumption
<1>4. /\ given \subseteq GrantRow
      /\ nextId \in Nat
      /\ \A g \in given : g.id < nextId
      /\ \A g, h \in given : g.id = h.id => g = h
    BY <1>1, <1>2, <1>3, RoleGrantsAssumption DEF GrantsInit, GrantRow, Grantees
<1>5. /\ section \in Scopes
      /\ principal \in Grantees /\ principalType \in {"group", "user"}
      /\ grantsListed \in [Scopes -> SUBSET GrantRow]
      /\ \A s \in Scopes : grantsListed[s] = {}
      /\ revokeTarget = {}
    BY DEF GrantsInit, Grantees, Scopes
<1>6. sending \in GrantRequest /\ sending.kind = "none"
    BY DEF GrantsInit, NotSending, GrantRequest, Grantees, Scopes
<1> QED
    BY <1>4, <1>5, <1>6 DEF GrantsInv

\* A grant that is stored takes an id nothing names yet.
LEMMA GrantStored ==
    ASSUME GrantsInv, NEW w, w.to \in Grantees, w.on \in Scopes, NEW origin \in {"config", "api"},
           Store(w, origin), UNCHANGED <<section, principal, principalType, grantsListed, revokeTarget>>,
           sending' \in GrantRequest, sending'.kind = "delete" => UNCHANGED sending
    PROVE  GrantsInv'
<1> DEFINE new == [id |-> nextId, to |-> w.to, on |-> w.on, source |-> origin]
<1>1. /\ given' = given \cup {new}
      /\ nextId' = nextId + 1
      /\ new \in GrantRow /\ new.id = nextId /\ new.source = origin
    BY DEF Store, GrantsInv, GrantRow
<1> HIDE DEF new
<1>2. \A id \in Nat : id < nextId /\ NamesNone(id) => id < nextId' /\ NamesNone(id)'
    BY <1>1 DEF NamesNone, GrantsInv
<1>3. /\ given' \subseteq GrantRow
      /\ nextId' \in Nat
      /\ \A g \in given' : g.id < nextId'
      /\ \A g, h \in given' : g.id = h.id => g = h
    BY <1>1 DEF GrantsInv, GrantRow
<1>4. \A s \in Scopes : \A g \in grantsListed'[s] :
          g.id < nextId' /\ (g.source # "config" => NamesNone(g.id)')
    <2> SUFFICES ASSUME NEW s \in Scopes, NEW g \in grantsListed[s]
                 PROVE  g.id < nextId' /\ (g.source # "config" => NamesNone(g.id)')
        OBVIOUS
    <2>1. g.id \in Nat /\ g.id < nextId /\ (g.source # "config" => NamesNone(g.id))
        BY RowsAreGrants
    <2>2. g.id < nextId'
        BY <1>1, <2>1 DEF GrantsInv
    <2> QED
        BY <1>2, <2>1, <2>2
<1>5. \A g \in revokeTarget' : g.id < nextId' /\ NamesNone(g.id)'
    <2>1. \A g \in revokeTarget : g.id \in Nat
        BY DEF GrantsInv, GrantRow
    <2> QED
        BY <1>2, <2>1 DEF GrantsInv
<1>6. (sending.kind = "delete" => sending.id < nextId /\ NamesNone(sending.id))'
    <2>1. sending.kind = "delete" => sending.id \in Nat /\ sending.id < nextId /\ NamesNone(sending.id)
        BY DEF GrantsInv, GrantRequest
    <2>2. sending.kind = "delete" => sending.id < nextId' /\ \A g \in given' : g.id = sending.id => g.source # "config"
        BY <1>2, <2>1 DEF NamesNone
    <2> QED
        BY <2>2 DEF NamesNone
<1>7. /\ section' \in Scopes /\ principal' \in Grantees /\ principalType' \in {"group", "user"}
      /\ grantsListed' \in [Scopes -> SUBSET GrantRow]
      /\ revokeTarget' \subseteq GrantRow
    BY DEF GrantsInv
<1> QED
    BY <1>3, <1>4, <1>5, <1>6, <1>7 DEF GrantsInv

\* What is asked of the server is what a row said when it was listed.
LEMMA GrantsStep == GrantsInv /\ [GrantsNext]_grantVars => GrantsInv'
<1> SUFFICES ASSUME GrantsInv, [GrantsNext]_grantVars
             PROVE  GrantsInv'
    OBVIOUS
<1> USE DEF GrantsServer, GrantsPage
<1>1. CASE EnsureGrant
    <2>1. PICK w \in Seeds : /\ Store(w, "config")
                             /\ UNCHANGED <<GrantsPage, sending>>
        BY <1>1 DEF EnsureGrant
    <2>2. w.to \in Grantees /\ w.on \in Scopes
        BY RoleGrantsAssumption DEF Grantees
    <2>3. sending' \in GrantRequest
        BY <2>1 DEF GrantsInv
    <2> QED
        BY <2>1, <2>2, <2>3, GrantStored
<1>2. CASE CreateGrant
    <2> DEFINE w == [to |-> sending.to, on |-> sending.on]
    <2>1. PICK answer \in {"done", "refused"} :
              /\ sending' = [sending EXCEPT !.answer = answer]
              /\ UNCHANGED GrantsPage
              /\ Store(w, "api") \/ UNCHANGED GrantsServer
        BY <1>2 DEF CreateGrant, Answer
    <2>2. /\ w.to \in Grantees /\ w.on \in Scopes
          /\ sending' \in GrantRequest /\ sending'.kind = "create"
        BY <1>2, <2>1 DEF CreateGrant, Awaits, GrantsInv, GrantRequest
    <2> HIDE DEF w
    <2>3. CASE Store(w, "api")
        BY <2>1, <2>2, <2>3, GrantStored
    <2>4. CASE UNCHANGED GrantsServer
        BY <2>1, <2>2, <2>4 DEF GrantsInv, NamesNone
    <2> QED
        BY <2>1, <2>3, <2>4
<1>3. CASE DeleteGrant
    <2>1. PICK answer \in {"done", "refused"} :
              /\ sending' = [sending EXCEPT !.answer = answer]
              /\ UNCHANGED <<GrantsPage, nextId>>
              /\ given' \subseteq given
        BY <1>3 DEF DeleteGrant, Answer
    <2>2. /\ sending' \in GrantRequest
          /\ sending'.kind = sending.kind /\ sending'.id = sending.id
        BY <2>1 DEF GrantsInv, GrantRequest
    <2>3. \A id : NamesNone(id) => NamesNone(id)'
        BY <2>1 DEF NamesNone
    <2> QED
        BY <2>1, <2>2, <2>3 DEF GrantsInv
<1>4. CASE ShowSection
    <2>1. section' \in Scopes /\ principalType' \in {"group", "user"} /\ principal' \in Grantees
        BY <1>4 DEF ShowSection, GrantsInv, Grantees
    <2> QED
        BY <1>4, <2>1 DEF ShowSection, GrantsInv, NamesNone
<1>5. CASE GrantsArrive
    <2>1. \A g \in given : g.id < nextId /\ (g.source # "config" => NamesNone(g.id))
        BY DEF GrantsInv, NamesNone
    <2>2. /\ grantsListed' \in [Scopes -> SUBSET GrantRow]
          /\ \A s \in Scopes : grantsListed'[s] \subseteq grantsListed[s] \cup given
        BY <1>5 DEF GrantsArrive, GrantsInv
    <2>3. UNCHANGED <<given, nextId, section, principalType, principal, revokeTarget, sending>>
        BY <1>5 DEF GrantsArrive
    <2> QED
        BY <2>1, <2>2, <2>3 DEF GrantsInv, NamesNone
<1>6. CASE ChoosePrincipalType \/ ChoosePrincipal
    <2>1. principalType' \in {"group", "user"} /\ principal' \in Grantees
        BY <1>6 DEF ChoosePrincipalType, ChoosePrincipal, GrantsInv, Grantees
    <2> QED
        BY <1>6, <2>1 DEF ChoosePrincipalType, ChoosePrincipal, GrantsInv, NamesNone
<1>7. CASE SubmitGrant
    <2>1. sending' \in GrantRequest /\ sending'.kind = "create"
        BY <1>7 DEF SubmitGrant, NotSending, GrantsInv, GrantRequest
    <2> QED
        BY <1>7, <2>1 DEF SubmitGrant, GrantsInv, NamesNone
<1>8. CASE AskRevoke
    <2>1. PICK g \in grantsListed[section] : g.source # "config" /\ revokeTarget' = {g}
        BY <1>8 DEF AskRevoke
    <2>2. g \in GrantRow /\ g.id < nextId /\ NamesNone(g.id)
        <3>1. section \in Scopes
            BY DEF GrantsInv
        <3> QED
            BY <2>1, <3>1, RowsAreGrants
    <2> QED
        BY <1>8, <2>1, <2>2 DEF AskRevoke, GrantsInv, NamesNone
<1>9. CASE ConfirmRevoke
    <2>1. PICK g \in revokeTarget :
              sending' = [NotSending EXCEPT !.kind = "delete", !.on = section, !.to = g.to, !.id = g.id]
        BY <1>9 DEF ConfirmRevoke
    <2>2. g \in GrantRow /\ g.id < nextId /\ NamesNone(g.id)
        BY DEF GrantsInv
    <2>3. sending' \in GrantRequest /\ sending'.id = g.id
        BY <2>1, <2>2 DEF NotSending, GrantsInv, GrantRequest, GrantRow
    <2> QED
        BY <1>9, <2>2, <2>3 DEF ConfirmRevoke, GrantsInv, NamesNone
<1>10. CASE GrantAnswered
    <2>1. sending' \in GrantRequest /\ sending'.kind = "none" /\ principal' \in Grantees
        BY <1>10 DEF GrantAnswered, NotSending, GrantsInv, GrantRequest, Grantees, Scopes
    <2> QED
        BY <1>10, <2>1 DEF GrantAnswered, GrantsInv, NamesNone
<1>11. CASE UNCHANGED grantVars \/ CancelRevoke
    BY <1>11 DEF grantVars, CancelRevoke, GrantsInv, NamesNone
<1> QED
    BY <1>1, <1>2, <1>3, <1>4, <1>5, <1>6, <1>7, <1>8, <1>9, <1>10, <1>11 DEF GrantsNext

LEMMA SeedsAreKept ==
    ASSUME GrantsInv, [GrantsNext]_grantVars
    PROVE  \A g \in given : g.source = "config" => g \in given'
<1> USE DEF GrantsServer, GrantsPage
<1>1. CASE DeleteGrant
    BY <1>1 DEF DeleteGrant, Awaits, GrantsInv, NamesNone
<1>2. CASE EnsureGrant \/ CreateGrant
    BY <1>2 DEF EnsureGrant, CreateGrant, Store
<1>3. CASE UNCHANGED given
    BY <1>3
<1> QED
    BY <1>1, <1>2, <1>3
    DEF GrantsNext, grantVars, ShowSection, GrantsArrive, ChoosePrincipalType, ChoosePrincipal,
        SubmitGrant, AskRevoke, CancelRevoke, ConfirmRevoke, GrantAnswered

\* However old the rows and the confirmation that are clicked, no click takes
\* away what the bootstrap file gave, for any people, groups and publishers.
THEOREM SeededGrantsSurvive == Spec => SeededGrantsStay
<1>1. Init => GrantsInv
    BY PartsStart, GrantsStart
<1>2. GrantsInv /\ [Next]_vars => GrantsInv'
    BY Parts, GrantsStep
<1>3. GrantsInv /\ [Next]_vars =>
          [\A g \in given : g.source = "config" => g \in given']_grantVars
    BY Parts, SeedsAreKept
<1> QED
    BY <1>1, <1>2, <1>3, PTL DEF Spec, SeededGrantsStay

-----------------------------------------------------------------------------
(* The scope, the links and the settings                                   *)

\* There are no grants on a publisher that is gone, and a form is on the screen
\* only for a publisher that is in scope.
ScopeInv ==
    /\ existing \subseteq Publishers
    /\ caller \in Callers
    /\ \A g \in caller.grants : g.on \in existing \cup {Everywhere}
    /\ me \in Callers
    /\ listed = Unset \/ listed \subseteq Publishers
    /\ stored \in Publishers \cup {NoScope, Unset}
    /\ settings \in [Publishers -> Publishers]
    /\ cached \subseteq Publishers
    /\ form \in Publishers \cup {Unset}
    /\ form # Unset => currentSlug \in cached

LEMMA Fields ==
    ASSUME NEW c \in Callers
    PROVE  /\ c.admin \in BOOLEAN /\ c.grants \subseteq Grants
           /\ \A g \in c.grants : g.role \in Roles /\ g.on \in Publishers \cup {Everywhere}
BY DEF Callers, Grants

LEMMA InScope ==
    ASSUME ScopeInv
    PROVE  /\ publishers \subseteq Publishers
           /\ currentSlug \in publishers \cup {NoScope}
           /\ NoScope \notin Publishers
           /\ ~me.admin => publishers = Granted
<1>1. \A g \in me.grants : g.on \in Publishers \cup {Everywhere}
    BY Fields DEF ScopeInv
<1>2. publishers \subseteq Publishers
    BY <1>1 DEF publishers, Granted, ScopeInv
<1>3. First(publishers) \in publishers \cup {NoScope}
    BY DEF First
<1>4. currentSlug \in publishers \cup {NoScope}
    BY <1>3 DEF currentSlug
<1>5. NoScope \notin Publishers
    BY ScopeAssumption
<1>6. ~me.admin => publishers = Granted
    BY DEF publishers
<1> QED
    BY <1>2, <1>4, <1>5, <1>6

LEMMA ScopeStart == ScopeInit => ScopeInv
<1> SUFFICES ASSUME ScopeInit
             PROVE  ScopeInv
    OBVIOUS
<1>1. caller \in Callers /\ \A g \in caller.grants : g.on \in existing \cup {Everywhere}
    BY ScopeAssumption DEF ScopeInit, Callers, Grants
<1> QED
    BY <1>1 DEF ScopeInit, ScopeInv

\* The grants of a caller whose roles change are on publishers there are.
LEMMA GrantsKept ==
    ASSUME ScopeInv, NEW grants, NEW admin \in BOOLEAN,
           grants \subseteq Grants, \A g \in grants : g.on \in existing' \cup {Everywhere},
           caller' = [admin |-> admin, grants |-> grants], existing' \subseteq existing,
           UNCHANGED <<me, listed, stored, settings, cached, form>>
    PROVE  ScopeInv'
<1>1. caller' \in Callers /\ \A g \in caller'.grants : g.on \in existing' \cup {Everywhere}
    BY DEF Callers
<1>2. currentSlug' = currentSlug
    BY DEF currentSlug, publishers, Granted
<1> QED
    BY <1>1, <1>2 DEF ScopeInv

\* A render shows a form only for the publisher in scope, once it is fetched.
LEMMA FormShown ==
    ASSUME ScopeInv, FormRenders, me' = me, UNCHANGED Server,
           cached' \subseteq Publishers,
           stored' \in Publishers \cup {NoScope, Unset},
           listed' = Unset \/ listed' \subseteq Publishers
    PROVE  ScopeInv'
<1>1. form' # Unset => currentSlug' \in cached'
    BY DEF FormRenders
<1>2. form' \in Publishers \cup {Unset}
    BY DEF FormRenders, ScopeInv, Server
<1> QED
    BY <1>1, <1>2 DEF ScopeInv, Server

LEMMA ScopeStep == ScopeInv /\ [ScopeNext]_scopeVars => ScopeInv'
<1> SUFFICES ASSUME ScopeInv, [ScopeNext]_scopeVars
             PROVE  ScopeInv'
    OBVIOUS
<1> USE DEF Server, Console
<1>1. CASE OpenSettings \/ LeaveSettings \/ SettingsArrive \/ setCurrent \/ ListPublishers
    <2>1. FormRenders /\ me' = me /\ UNCHANGED Server
        BY <1>1 DEF OpenSettings, LeaveSettings, SettingsArrive, setCurrent, ListPublishers
    <2>2. cached' \subseteq Publishers
        BY <1>1 DEF OpenSettings, LeaveSettings, SettingsArrive, setCurrent, ListPublishers, ScopeInv
    <2>3. stored' \in Publishers \cup {NoScope, Unset}
        BY <1>1, InScope
        DEF OpenSettings, LeaveSettings, SettingsArrive, setCurrent, ListPublishers, ScopeInv
    <2>4. listed' = Unset \/ listed' \subseteq Publishers
        BY <1>1 DEF OpenSettings, LeaveSettings, SettingsArrive, setCurrent, ListPublishers, ScopeInv
    <2> QED
        BY <2>1, <2>2, <2>3, <2>4, FormShown
<1>2. CASE TypeName \/ Save
    <2>1. currentSlug \in Publishers
        BY <1>2 DEF TypeName, Save, ScopeInv
    <2>2. currentSlug' = currentSlug
        BY <1>2 DEF TypeName, Save, currentSlug, publishers, Granted
    <2>3. form' \in Publishers /\ settings' \in [Publishers -> Publishers]
        BY <1>2, <2>1 DEF TypeName, Save, ScopeInv
    <2>4. UNCHANGED <<existing, caller, me, listed, stored, cached>>
        BY <1>2 DEF TypeName, Save
    <2>5. form # Unset
        BY <1>2 DEF TypeName, Save
    <2> QED
        BY <2>2, <2>3, <2>4, <2>5 DEF ScopeInv
<1>3. CASE Load
    <2>1. caller' \in Callers /\ \A g \in caller'.grants : g.on \in existing \cup {Everywhere}
        BY <1>3, ScopeAssumption DEF Load, CallersNow, Callers
    <2> QED
        BY <1>3, <2>1 DEF Load, ScopeInv
<1>4. CASE GrantRole \/ RevokeRole \/ PromoteOrDemote \/ DeletePublisher
    <2>1. caller.admin \in BOOLEAN /\ caller.grants \subseteq Grants /\ caller = [admin |-> caller.admin, grants |-> caller.grants]
        BY DEF ScopeInv, Callers
    <2>2. CASE GrantRole
        <3>1. PICK g \in Grantable : /\ g.on \in existing \cup {Everywhere}
                                     /\ caller' = [caller EXCEPT !.grants = @ \cup {g}]
            BY <2>2 DEF GrantRole
        <3>2. caller' = [admin |-> caller.admin, grants |-> caller.grants \cup {g}]
            BY <2>1, <3>1
        <3>3. existing' = existing /\ UNCHANGED <<me, listed, stored, settings, cached, form>>
            BY <2>2 DEF GrantRole
        <3>4. /\ caller.grants \cup {g} \subseteq Grants
              /\ \A h \in caller.grants \cup {g} : h.on \in existing' \cup {Everywhere}
            BY <2>1, <3>1, <3>3, ScopeAssumption DEF ScopeInv
        <3> QED
            BY <2>1, <3>2, <3>3, <3>4, GrantsKept
    <2>3. CASE RevokeRole
        <3>1. PICK g \in caller.grants : caller' = [caller EXCEPT !.grants = @ \ {g}]
            BY <2>3 DEF RevokeRole
        <3>2. caller' = [admin |-> caller.admin, grants |-> caller.grants \ {g}]
            BY <2>1, <3>1
        <3>3. existing' = existing /\ UNCHANGED <<me, listed, stored, settings, cached, form>>
            BY <2>3 DEF RevokeRole
        <3>4. /\ caller.grants \ {g} \subseteq Grants
              /\ \A h \in caller.grants \ {g} : h.on \in existing' \cup {Everywhere}
            BY <2>1, <3>3 DEF ScopeInv
        <3> QED
            BY <2>1, <3>2, <3>3, <3>4, GrantsKept
    <2>4. CASE PromoteOrDemote
        <3>1. caller' = [admin |-> ~caller.admin, grants |-> caller.grants]
            BY <2>1, <2>4 DEF PromoteOrDemote
        <3>2. existing' = existing /\ UNCHANGED <<me, listed, stored, settings, cached, form>>
            BY <2>4 DEF PromoteOrDemote
        <3>3. \A h \in caller.grants : h.on \in existing' \cup {Everywhere}
            BY <3>2 DEF ScopeInv
        <3> QED
            BY <2>1, <3>1, <3>2, <3>3, GrantsKept
    <2>5. CASE DeletePublisher
        <3>1. PICK p \in existing :
                  /\ existing' = existing \ {p}
                  /\ caller' = [caller EXCEPT !.grants = {g \in @ : g.on # p}]
            BY <2>5 DEF DeletePublisher
        <3> DEFINE left == {g \in caller.grants : g.on # p}
        <3>2. caller' = [admin |-> caller.admin, grants |-> left]
            BY <2>1, <3>1
        <3>3. UNCHANGED <<me, listed, stored, settings, cached, form>>
            BY <2>5 DEF DeletePublisher
        <3>4. /\ left \subseteq Grants
              /\ \A h \in left : h.on \in existing' \cup {Everywhere}
            BY <2>1, <3>1 DEF ScopeInv
        <3> HIDE DEF left
        <3> QED
            BY <2>1, <3>1, <3>2, <3>3, <3>4, GrantsKept
    <2> QED
        BY <1>4, <2>2, <2>3, <2>4, <2>5
<1>5. CASE UNCHANGED scopeVars
    BY <1>5 DEF scopeVars, ScopeInv, currentSlug, publishers, Granted
<1> QED
    BY <1>1, <1>2, <1>3, <1>4, <1>5 DEF ScopeNext

\* The console and the server agree on who has a role.
LEMMA SameRoles ==
    ASSUME ScopeInv, NEW p, p \in existing, NEW role \in Roles, can(caller, p, role)
    PROVE  RequirePublisherRole(caller, existing, p, role)
<1>1. rolesOn(caller, p) = EffectiveRoles(caller, p)
    BY DEF rolesOn, EffectiveRoles
<1>2. EffectiveRoles(caller, p) \subseteq Roles
    BY Fields DEF EffectiveRoles, ScopeInv
<1>3. satisfiesRole(EffectiveRoles(caller, p), role) => Satisfies(EffectiveRoles(caller, p), role)
    BY <1>2 DEF satisfiesRole, Satisfies, Roles
<1> QED
    BY <1>1, <1>3 DEF can, RequirePublisherRole

LEMMA LinkNames ==
    \A link \in Links :
        link \in {"dashboard", "review", "activity", "settings", "members", "new", "serverAdmin"}
BY DEF Links, publisherNav, serverAdminNav, OverviewLinks

\* What a page asks for only because the console thinks its user allowed.
LEMMA OnlyAllowed ==
    ASSUME NEW S, NEW n \in Permitted(S)
    PROVE  n \in S /\ can(me, n.on, n.role)
BY DEF Permitted

\* The requests behind a link, by what the server looks at.
LEMMA Asked ==
    ASSUME NEW link \in Links, NEW n \in Requests(link)
    PROVE  \/ n = AsAdmin
           \/ n = AsReviewer
           \/ n = Pickers
           \/ n = Public(currentSlug)
           \/ n = On(currentSlug, "viewer")
           \/ n = On(currentSlug, "admin")
           \/ \E p \in newOptions : \E r \in {"editor", "reviewer"} : n = On(p, r)
<1>1. CASE link = "new"
    <2>1. n \in {On(p, r) : p \in newOptions, r \in {"editor", "reviewer"}}
        BY <1>1, OnlyAllowed DEF Requests
    <2> QED
        BY <2>1
<1>2. CASE link = "settings"
    BY <1>2, OnlyAllowed DEF Requests
<1>3. CASE link = "dashboard"
    BY <1>3 DEF Requests, Dashboard
<1>4. CASE link = "members"
    BY <1>4 DEF Requests
<1>5. CASE link = "review"
    BY <1>5 DEF Requests
<1>6. CASE link = "activity"
    BY <1>6 DEF Requests
<1>7. CASE link = "serverAdmin"
    BY <1>7 DEF Requests
<1> QED
    BY <1>1, <1>2, <1>3, <1>4, <1>5, <1>6, <1>7, LinkNames

\* A Server Admin is refused nothing but what is gone.
LEMMA AdminsRefused ==
    ASSUME ScopeInv, me = caller, me.admin, NEW link \in Links, NEW n \in Requests(link)
    PROVE  ~Accepts(n) <=> n.kind \in {"role", "public"} /\ n.on \notin existing
<1>1. \A p : \A role : On(p, role).kind = "role"
    BY DEF On
<1>2. Public(currentSlug).kind = "public"
    BY DEF Public
<1>3. AsAdmin.kind = "admin" /\ AsReviewer.kind = "queue" /\ Pickers.kind = "pickers"
    BY DEF AsAdmin, AsReviewer, Pickers
<1>4. CASE n.kind = "role"
    BY <1>4 DEF Accepts, RequirePublisherRole
<1>5. CASE n.kind = "public"
    BY <1>5 DEF Accepts
<1>6. CASE n.kind \in {"admin", "pickers", "queue"}
    BY <1>6 DEF Accepts, RequireAdmin, MayListQueue
<1> QED
    BY <1>1, <1>2, <1>3, <1>4, <1>5, <1>6, Asked

\* Nobody else is refused anything but the pickers.
LEMMA OthersRefused ==
    ASSUME ScopeInv, me = caller, ~me.admin, NEW link \in Links, NEW n \in Requests(link)
    PROVE  ~Accepts(n) <=> n.kind = "pickers"
<1>1. Granted \subseteq existing
    BY DEF Granted, ScopeInv
<1>2. currentSlug # NoScope => currentSlug \in existing /\ currentSlug \in Granted
    BY <1>1, InScope
<1>3. \A p \in Granted : can(me, p, "viewer")
    BY Fields DEF Granted, can, satisfiesRole, rolesOn, ScopeInv, Roles
<1>4. \A p \in existing : \A role \in Roles :
          can(me, p, role) => Accepts(On(p, role)) /\ On(p, role).kind # "pickers"
    BY SameRoles DEF Accepts, On
<1>5. isReviewerAnywhere(me) => Accepts(AsReviewer) /\ AsReviewer.kind # "pickers"
    BY DEF isReviewerAnywhere, Accepts, AsReviewer, MayListQueue
<1>6. currentSlug # NoScope /\ can(me, currentSlug, "reviewer") => isReviewerAnywhere(me)
    BY DEF can, satisfiesRole, rolesOn, isReviewerAnywhere
<1>7. currentSlug # NoScope => Accepts(Public(currentSlug)) /\ Public(currentSlug).kind # "pickers"
    BY <1>2 DEF Accepts, Public
<1>8. Pickers.kind = "pickers" /\ ~Accepts(Pickers)
    BY DEF Pickers, Accepts, RequireAdmin
<1>9. CASE link = "dashboard"
    BY <1>2, <1>3, <1>4, <1>5, <1>9 DEF Requests, Dashboard, Roles
<1>10. CASE link = "review"
    BY <1>5, <1>6, <1>10 DEF Links, publisherNav, serverAdminNav, OverviewLinks, Requests
<1>11. CASE link = "activity"
    BY <1>2, <1>3, <1>4, <1>11 DEF Links, publisherNav, serverAdminNav, OverviewLinks, Requests, Roles
<1>12. CASE link = "members"
    <2>1. currentSlug # NoScope /\ can(me, currentSlug, "admin")
        BY <1>12 DEF Links, publisherNav, serverAdminNav, OverviewLinks
    <2>2. n = On(currentSlug, "admin") \/ n = Pickers
        BY <1>12 DEF Requests
    <2> QED
        BY <1>2, <1>4, <1>8, <2>1, <2>2 DEF Roles
<1>13. CASE link = "settings"
    <2>1. currentSlug # NoScope
        BY <1>13 DEF Links, publisherNav, serverAdminNav, OverviewLinks
    <2>2. n = Public(currentSlug) \/ n \in Permitted({On(currentSlug, "admin")})
        BY <1>13 DEF Requests
    <2>3. ASSUME n \in Permitted({On(currentSlug, "admin")})
          PROVE  n = On(currentSlug, "admin") /\ can(me, currentSlug, "admin")
        BY <2>3, OnlyAllowed DEF On
    <2> QED
        BY <1>2, <1>4, <1>7, <2>1, <2>2, <2>3 DEF Roles
<1>14. CASE link = "new"
    <2>1. n \in {On(p, r) : p \in newOptions, r \in {"editor", "reviewer"}} /\ can(me, n.on, n.role)
        BY <1>14, OnlyAllowed DEF Requests
    <2>2. PICK p \in newOptions, r \in {"editor", "reviewer"} : n = On(p, r)
        BY <2>1
    <2>3. p \in existing /\ can(me, p, r)
        BY <1>1, <2>1, <2>2, InScope DEF newOptions, On
    <2> QED
        BY <1>4, <2>2, <2>3 DEF Roles
<1>15. link # "serverAdmin"
    BY DEF Links, publisherNav, serverAdminNav, OverviewLinks
<1> QED
    BY <1>9, <1>10, <1>11, <1>12, <1>13, <1>14, <1>15, LinkNames

\* Whatever choice was left in the browser, whoever signs in and whatever becomes
\* of publishers, once the console knows the caller's grants the server answers
\* what the pages behind its links ask for, except the pickers of the members page
\* for a publisher's Admin and publishers a Server Admin's old list still has.
THEOREM LinksLeadSomewhere == Spec => []LinksAreHonoured
<1>1. Init => ScopeInv
    BY PartsStart, ScopeStart
<1>2. ScopeInv /\ [Next]_vars => ScopeInv'
    BY Parts, ScopeStep
<1>3. ScopeInv => LinksAreHonoured
    <2> SUFFICES ASSUME ScopeInv, me = caller, NEW link \in Links, NEW n \in Requests(link)
                 PROVE  ~Accepts(n) <=> \/ ~me.admin /\ n.kind = "pickers"
                                        \/ me.admin /\ n.kind \in {"role", "public"} /\ n.on \notin existing
        BY DEF LinksAreHonoured
    <2> QED
        BY AdminsRefused, OthersRefused
<1> QED
    BY <1>1, <1>2, <1>3, PTL DEF Spec

-----------------------------------------------------------------------------
(* What the tabs of an entry's page remember                               *)

AllVersions == UNION {VersionsOf[e] \cup Drafts[e] : e \in Entries}

\* Two different versions are ticked at most, each once.
Ticks(s) ==
    /\ s \in Seq(AllVersions) /\ Len(s) <= 2
    /\ \A i, j \in DOMAIN s : i # j => s[i] # s[j]

\* A choice is a position; versions are ticked only while they are compared;
\* the button of the report waits while one is under way.
TabsInv ==
    /\ chosen \in [Widgets -> Nat \ {0}]
    /\ compareMode \in BOOLEAN
    /\ Ticks(selected)
    /\ selected # <<>> => compareMode
    /\ \/ submitting = FALSE /\ reports = 0
       \/ submitting = TRUE /\ reports = 1

LEMMA VersionsOfAnEntry == EntryInv => Versions \subseteq AllVersions
BY DEF EntryInv, Versions, AllVersions

LEMMA NoTicks == Ticks(<<>>) /\ Generated \in [Widgets -> Nat \ {0}]
BY DEF Ticks, Generated

LEMMA OneTickMore ==
    ASSUME NEW s, Ticks(s), NEW v \in AllVersions, \A i \in DOMAIN s : s[i] # v
    PROVE  /\ Len(s) >= 2 => Ticks(<<s[2], v>>)
           /\ ~(Len(s) >= 2) => Ticks(Append(s, v))
<1>1. CASE Len(s) >= 2
    <2>1. s[2] \in AllVersions /\ s[2] # v
        BY <1>1 DEF Ticks
    <2> QED
        BY <1>1, <2>1 DEF Ticks
<1>2. CASE ~(Len(s) >= 2)
    BY <1>2 DEF Ticks
<1> QED
    BY <1>1, <1>2

LEMMA OneTickLess ==
    ASSUME NEW s, Ticks(s), NEW kept, kept \subseteq DOMAIN s
    PROVE  Ticks(Sublist(s, kept))
<1>0. s \in Seq(AllVersions) /\ Len(s) <= 2
    BY DEF Ticks
<1>1. Sublist(s, kept) \in Seq(AllVersions) /\ Len(Sublist(s, kept)) = Cardinality(kept)
    BY <1>0, SublistProperties
<1>2. Cardinality(kept) <= Len(s) /\ Cardinality(kept) \in Nat /\ Len(s) \in Nat
    BY <1>0, KeptPositions
<1>3. Len(Sublist(s, kept)) <= 2
    BY <1>0, <1>1, <1>2
<1>4. \A i, j \in DOMAIN Sublist(s, kept) : i # j => Sublist(s, kept)[i] # Sublist(s, kept)[j]
    BY <1>0, SublistDistinct DEF Ticks
<1> QED
    BY <1>1, <1>3, <1>4 DEF Ticks

LEMMA TabsFreshHold == TabsFresh /\ UNCHANGED <<submitting, reports>> /\ TabsInv => TabsInv'
BY NoTicks DEF TabsFresh, TabsInv

LEMMA AllFreshHold == TabsFresh /\ ReportFresh => TabsInv'
BY NoTicks DEF TabsFresh, ReportFresh, TabsInv

LEMMA TabsStay == UNCHANGED <<chosen, compareMode, selected, submitting, reports>> /\ TabsInv => TabsInv'
BY DEF TabsInv

LEMMA TabsStart == EntryInit => TabsInv
BY NoTicks DEF EntryInit, TabsInv

LEMMA TabsStep == EntryInv /\ TabsInv /\ [EntryNext]_entryVars => TabsInv'
<1> SUFFICES ASSUME EntryInv, TabsInv, [EntryNext]_entryVars
             PROVE  TabsInv'
    OBVIOUS
<1> USE DEF TabState, ReportState
<1>1. CASE AuthLoaded \/ SignOut \/ FetchAnswered
    <2>1. BodyRenders
        BY <1>1 DEF AuthLoaded, SignOut, FetchAnswered
    <2> QED
        BY <2>1, AllFreshHold, TabsStay DEF BodyRenders
<1>2. CASE SignIn
    BY <1>2, AllFreshHold DEF SignIn
<1>3. CASE OtherTab \/ Fetch \/ open \/ close
    BY <1>3, TabsStay DEF OtherTab, Fetch, open, close
<1>4. CASE Visit
    BY <1>4, AllFreshHold, TabsFreshHold, TabsStay DEF Visit
<1>5. CASE handleTabChange
    BY <1>5, TabsFreshHold DEF handleTabChange
<1>6. CASE ChooseSource
    <2>1. PICK w \in Widgets, i \in 1 .. Sources[entry] : chosen' = [chosen EXCEPT ![w] = i]
        BY <1>6 DEF ChooseSource
    <2>2. Sources[entry] \in Nat
        BY EntryPageAssumption DEF EntryInv
    <2>3. i \in Nat \ {0}
        BY <2>1, <2>2
    <2>4. chosen' \in [Widgets -> Nat \ {0}]
        BY <2>1, <2>3 DEF TabsInv
    <2> QED
        BY <1>6, <2>4 DEF ChooseSource, TabsInv
<1>7. CASE ToggleCompare
    BY <1>7, NoTicks DEF ToggleCompare, TabsInv
<1>8. CASE toggleSelected
    <2>1. PICK v \in Versions :
            selected' = IF \E i \in DOMAIN selected : selected[i] = v
                        THEN Sublist(selected, {i \in DOMAIN selected : selected[i] # v})
                        ELSE IF Len(selected) >= 2 THEN <<selected[2], v>>
                        ELSE Append(selected, v)
        BY <1>8 DEF toggleSelected
    <2>2. v \in AllVersions
        BY <2>1, VersionsOfAnEntry
    <2>3. Ticks(selected')
        <3>1. CASE \E i \in DOMAIN selected : selected[i] = v
            BY <2>1, <3>1, OneTickLess DEF TabsInv
        <3>2. CASE ~\E i \in DOMAIN selected : selected[i] = v
            BY <2>1, <2>2, <3>2, OneTickMore DEF TabsInv
        <3> QED
            BY <3>1, <3>2
    <2> QED
        BY <1>8, <2>3 DEF toggleSelected, TabsInv
<1>9. CASE handleSubmit
    BY <1>9 DEF handleSubmit, TabsInv
<1>10. CASE ReportAnswered
    BY <1>10 DEF ReportAnswered, TabsInv
<1>11. CASE UNCHANGED entryVars
    BY <1>11, TabsStay DEF entryVars
<1> QED
    BY <1>1, <1>2, <1>3, <1>4, <1>5, <1>6, <1>7, <1>8, <1>9, <1>10, <1>11 DEF EntryNext

LEMMA TabsFit == EntryInv /\ TabsInv => TabsShowTheEntry
<1> SUFFICES ASSUME EntryInv, TabsInv
             PROVE  TabsShowTheEntry
    OBVIOUS
<1>1. ASSUME hasGenerated, NEW w \in Widgets
      PROVE  source(w) \in 1 .. Sources[entry]
    <2>1. Sources[entry] \in Nat /\ Sources[entry] > 0
        BY <1>1, EntryPageAssumption DEF EntryInv, hasGenerated
    <2>2. chosen[w] \in Nat \ {0}
        BY DEF TabsInv
    <2> QED
        BY <2>1, <2>2 DEF source
<1>2. ASSUME Compared # <<>>
      PROVE  Compared[1] # Compared[2] /\ Range(Compared) \subseteq Versions
    <2> DEFINE kept == {i \in DOMAIN selected : selected[i] \in Versions}
    <2>1. /\ kept \subseteq DOMAIN selected
          /\ Compared = Sublist(selected, kept)
          /\ Len(Compared) = 2
        BY <1>2 DEF Compared, selectedVersions
    <2>2. \A i \in kept : selected[i] \in Versions
        OBVIOUS
    <2> HIDE DEF kept
    <2>0. selected \in Seq(AllVersions)
        BY DEF TabsInv, Ticks
    <2> DEFINE picked == Sublist(selected, kept)
    <2>2a. kept \subseteq DOMAIN selected
        BY <2>1
    <2>2b. /\ DOMAIN picked = 1 .. Cardinality(kept)
           /\ Len(picked) = Cardinality(kept)
           /\ \A k \in 1 .. Cardinality(kept) : InOrder(kept)[k] \in kept /\ picked[k] = selected[InOrder(kept)[k]]
        BY <2>0, <2>2a, SublistProperties
    <2> HIDE DEF picked
    <2>3. /\ DOMAIN Compared = 1 .. Cardinality(kept)
          /\ Len(Compared) = Cardinality(kept)
          /\ \A k \in 1 .. Cardinality(kept) : Compared[k] = selected[InOrder(kept)[k]] /\ InOrder(kept)[k] \in kept
        BY <2>1, <2>2b DEF picked
    <2>4. 1 \in DOMAIN Compared /\ 2 \in DOMAIN Compared
        BY <2>1, <2>3
    <2>5. \A k, l \in DOMAIN Compared : k # l => Compared[k] # Compared[l]
        BY <2>0, <2>1, SublistDistinct DEF TabsInv, Ticks
    <2>6. \A k \in DOMAIN Compared : Compared[k] \in Versions
        BY <2>2, <2>3
    <2> QED
        BY <2>4, <2>5, <2>6 DEF Range
<1> QED
    BY <1>1, <1>2 DEF TabsShowTheEntry

\* Whichever entries, viewers and versions come under the tabs that stay, what
\* is generated is generated from a source there is, and what is compared are
\* two different versions of the list.
THEOREM TabsFitTheEntry == Spec => []TabsShowTheEntry
<1>1. Init => EntryInv /\ TabsInv
    BY PartsStart, EntryStart, TabsStart
<1>2. EntryInv /\ TabsInv /\ [Next]_vars => EntryInv' /\ TabsInv'
    BY Parts, EntryStep, TabsStep
<1>3. EntryInv /\ TabsInv => TabsShowTheEntry
    BY TabsFit
<1> QED
    BY <1>1, <1>2, <1>3, PTL DEF Spec

-----------------------------------------------------------------------------
(* The audit page                                                          *)

Stretch(oldest, newest, t, a) == {i \in oldest .. newest : Matches(i, t, a)}

\* What may be in the cache for a query once r events are recorded: a stretch
\* of the log that begins right below the cursor, and whose last event is the
\* cursor of the next page, if there is one.
IsAnswer(k, answer, r) ==
    \E oldest \in Events, newest \in 0 .. r :
        /\ oldest <= newest + 1
        /\ k.cursor # NoFilter => newest = k.cursor - 1
        /\ answer.rows = NewestFirst(Stretch(oldest, newest, k.type, k.actor))
        /\ answer.next # NoFilter => answer.next = oldest /\ oldest <= newest

\* The pages left behind are the stretch that ends at the cursor.
ArePages(p, c, t, a, r) ==
    IF c = NoFilter THEN p = <<>>
    ELSE \E newest \in c - 1 .. r : p = NewestFirst(Stretch(c, newest, t, a))

AuditInv ==
    /\ recorded \in 0 .. Len(Log)
    /\ resourceType \in Types /\ actor \in Actors /\ appliedActor \in Actors
    /\ cursor \in 1 .. recorded \cup {NoFilter}
    /\ shown \in Queries /\ asked \subseteq Queries
    /\ \A k \in asked : k.cursor \in 1 .. recorded \cup {NoFilter}
    /\ DOMAIN answers = Queries
    /\ \A k \in Queries : answers[k] # NoFilter => IsAnswer(k, answers[k], recorded)
    /\ ArePages(pages, cursor, resourceType, appliedActor, recorded)

LEMMA EventsAre == Events = 1 .. Len(Log) /\ Len(Log) \in Nat /\ 1 \in Events
<1>1. Log \in Seq([type : STRING, actor : STRING]) /\ Log # <<>>
    BY AuditAssumption
<1>2. DOMAIN Log = 1 .. Len(Log) /\ Len(Log) \in Nat /\ Len(Log) # 0
    BY <1>1, LenProperties, EmptySeq
<1> QED
    BY <1>2 DEF Events

LEMMA QueriesAre ==
    ASSUME NEW t, NEW a, NEW c
    PROVE  /\ Query(t, a, c).type = t /\ Query(t, a, c).actor = a /\ Query(t, a, c).cursor = c
           /\ t \in Types /\ a \in Actors /\ c \in Events \cup {NoFilter} => Query(t, a, c) \in Queries
BY DEF Query, Queries

LEMMA StretchIsFinite ==
    ASSUME NEW o \in Int, NEW n \in Int, NEW t, NEW a
    PROVE  Stretch(o, n, t, a) \subseteq Int /\ IsFiniteSet(Stretch(o, n, t, a))
<1>1. IsFiniteSet(o .. n) /\ Stretch(o, n, t, a) \subseteq o .. n
    BY FS_Interval DEF Stretch
<1> QED
    BY <1>1, FS_Subset

\* A stretch that is followed by one of older events.
LEMMA StretchesJoin ==
    ASSUME NEW o \in Int, NEW c \in Int, NEW n \in Int, NEW m \in Int, NEW t, NEW a,
           o <= c, c <= n + 1, m = c - 1
    PROVE  NewestFirst(Stretch(c, n, t, a)) \o NewestFirst(Stretch(o, m, t, a))
               = NewestFirst(Stretch(o, n, t, a))
<1>1. \A x \in Stretch(c, n, t, a) : \A y \in Stretch(o, m, t, a) : y < x
    BY DEF Stretch
<1>2. Stretch(c, n, t, a) \cup Stretch(o, m, t, a) = Stretch(o, n, t, a)
    BY DEF Stretch
<1> QED
    BY <1>1, <1>2, StretchIsFinite, NewestFirstThenOlder

LEMMA NoStretch ==
    ASSUME NEW o \in Int, NEW n \in Int, NEW t, NEW a, n < o
    PROVE  NewestFirst(Stretch(o, n, t, a)) = <<>>
<1>1. Stretch(o, n, t, a) = {}
    BY DEF Stretch
<1> QED
    BY <1>1, NewestFirstOfNone

\* The answer of the server is a stretch from the cursor down.
LEMMA ServerAnswers ==
    ASSUME NEW k, recorded \in 0 .. Len(Log), k.cursor \in 1 .. recorded \cup {NoFilter}
    PROVE  IsAnswer(k, ListAuditEvents(k), recorded)
<1> DEFINE F == {i \in 1 .. recorded : /\ Matches(i, k.type, k.actor)
                                       /\ k.cursor # NoFilter => i < k.cursor}
           n == IF k.cursor = NoFilter THEN recorded ELSE k.cursor - 1
           found == NewestFirst(F)
<1>1. recorded \in Nat /\ recorded \in 1 .. Len(Log) \cup {0}
    BY EventsAre
<1>2. n \in 0 .. recorded /\ (k.cursor # NoFilter => n = k.cursor - 1)
    BY <1>1
<1>3. F = Stretch(1, n, k.type, k.actor)
    BY <1>1 DEF Stretch
<1> HIDE DEF n
<1>3a. ListAuditEvents(k) = IF Len(found) > AuditPage
                           THEN [rows |-> SubSeq(found, 1, AuditPage), next |-> found[AuditPage]]
                           ELSE [rows |-> found, next |-> NoFilter]
    BY DEF ListAuditEvents
<1> HIDE DEF F
<1>4. F \subseteq Int /\ IsFiniteSet(F) /\ n \in Int /\ 1 \in Int
    BY <1>2, <1>3, StretchIsFinite
<1>5. Cardinality(F) \in Nat /\ Len(found) = Cardinality(F)
    BY <1>4, NewestFirstIsAList
<1>6. CASE Len(found) > AuditPage
    <2>1. AuditPage \in 1 .. Cardinality(F)
        BY <1>5, <1>6, AuditAssumption
    <2> DEFINE o == found[AuditPage]
    <2>2. o \in F /\ SubSeq(found, 1, AuditPage) = NewestFirst({x \in F : o <= x})
        BY <1>4, <2>1, NewestFirstBegins
    <2>3. ListAuditEvents(k) = [rows |-> SubSeq(found, 1, AuditPage), next |-> o]
        BY <1>3a, <1>6
    <2> HIDE DEF o, found
    <2>4. o \in 1 .. n
        BY <1>3, <2>2 DEF Stretch
    <2>5. {x \in F : o <= x} = Stretch(o, n, k.type, k.actor)
        BY <1>2, <1>3, <2>4 DEF Stretch
    <2>6. o \in Events /\ o <= n
        BY <1>1, <1>2, <2>4, EventsAre
    <2>7. o <= n + 1
        BY <1>2, <2>4
    <2> DEFINE answer == ListAuditEvents(k)
               begins == SubSeq(found, 1, AuditPage)
    <2>7a. begins = NewestFirst(Stretch(o, n, k.type, k.actor))
        BY <2>2, <2>5, Zenon
    <2>7b. answer = [rows |-> begins, next |-> o]
        BY <2>3
    <2> HIDE DEF begins
    <2>8. answer.rows = NewestFirst(Stretch(o, n, k.type, k.actor)) /\ answer.next = o
        BY <2>7a, <2>7b
    <2> HIDE DEF answer
    <2>9. IsAnswer(k, answer, recorded)
        BY <1>2, <2>6, <2>7, <2>8 DEF IsAnswer
    <2> QED
        BY <2>9 DEF answer
<1>7. CASE ~(Len(found) > AuditPage)
    <2>1. ListAuditEvents(k) = [rows |-> found, next |-> NoFilter]
        BY <1>3a, <1>7
    <2>2. 1 <= n + 1
        BY <1>2
    <2> DEFINE answer == ListAuditEvents(k)
    <2>3. answer.rows = NewestFirst(Stretch(1, n, k.type, k.actor)) /\ answer.next = NoFilter
        BY <1>3, <2>1
    <2> HIDE DEF answer
    <2>4. IsAnswer(k, answer, recorded)
        BY <1>2, <2>2, <2>3, EventsAre DEF IsAnswer
    <2> QED
        BY <2>4 DEF answer
<1> QED
    BY <1>6, <1>7

\* An error is answered by an empty stretch.
LEMMA ErrorsAnswer ==
    ASSUME NEW k, recorded \in 0 .. Len(Log), k.cursor \in 1 .. recorded \cup {NoFilter}
    PROVE  IsAnswer(k, NoRows, recorded)
<1>1. recorded \in Nat /\ recorded <= Len(Log)
    BY EventsAre
<1>2. CASE k.cursor = NoFilter
    <2>1. NewestFirst(Stretch(1, 0, k.type, k.actor)) = <<>>
        BY NoStretch
    <2> QED
        BY <1>1, <1>2, <2>1, EventsAre DEF IsAnswer, NoRows
<1>3. CASE k.cursor # NoFilter
    <2>1. k.cursor \in 1 .. recorded /\ k.cursor - 1 + 1 = k.cursor /\ k.cursor - 1 \in 0 .. recorded
        BY <1>1, <1>3
    <2>2. NewestFirst(Stretch(k.cursor, k.cursor - 1, k.type, k.actor)) = <<>>
        BY <2>1, NoStretch
    <2>3. k.cursor \in Events /\ k.cursor <= k.cursor - 1 + 1
        BY <1>1, <2>1, EventsAre
    <2> QED
        BY <2>1, <2>2, <2>3 DEF IsAnswer, NoRows
<1> QED
    BY <1>2, <1>3

LEMMA AuditStart == AuditInit => AuditInv
<1> SUFFICES ASSUME AuditInit
             PROVE  AuditInv
    OBVIOUS
<1>1. recorded \in 0 .. Len(Log)
    BY EventsAre DEF AuditInit, Events
<1>2. Current \in Queries /\ Current.cursor = NoFilter
    BY QueriesAre DEF AuditInit, Current, Types, Actors
<1>3. ArePages(pages, cursor, resourceType, appliedActor, recorded)
    BY DEF AuditInit, ArePages
<1> QED
    BY <1>1, <1>2, <1>3 DEF AuditInit, AuditInv, Types, Actors

\* An event more does not change what was answered before it.
LEMMA AnswersStay ==
    ASSUME NEW r \in Nat, NEW k, NEW answer, IsAnswer(k, answer, r)
    PROVE  IsAnswer(k, answer, r + 1)
<1>1. \A n \in 0 .. r : n \in 0 .. r + 1
    OBVIOUS
<1> QED
    BY <1>1 DEF IsAnswer

LEMMA PagesStay ==
    ASSUME NEW r \in Nat, NEW p, NEW c \in Int \cup {NoFilter}, NEW t, NEW a, ArePages(p, c, t, a, r)
    PROVE  ArePages(p, c, t, a, r + 1)
<1>1. c # NoFilter => \A n \in c - 1 .. r : n \in c - 1 .. r + 1
    OBVIOUS
<1> QED
    BY <1>1 DEF ArePages

\* A render asks for what the page shows now, or finds it in the cache.
LEMMA AuditRenders ==
    ASSUME AuditInv, Renders,
           resourceType' \in Types, actor' \in Actors, appliedActor' \in Actors,
           cursor' \in 1 .. recorded \cup {NoFilter},
           ArePages(pages', cursor', resourceType', appliedActor', recorded)
    PROVE  AuditInv'
<1>1. cursor' \in Events \cup {NoFilter}
    BY EventsAre DEF AuditInv
<1>2. Current' \in Queries /\ Current'.cursor = cursor'
    BY <1>1, QueriesAre DEF Current
<1>3. recorded' = recorded /\ answers' = answers
    BY DEF Renders
<1>4. asked' \subseteq Queries /\ \A k \in asked' : k.cursor \in 1 .. recorded \cup {NoFilter}
    BY <1>2 DEF Renders, AuditInv
<1>5. shown' \in Queries
    BY <1>2 DEF Renders, AuditInv
<1> QED
    BY <1>3, <1>4, <1>5 DEF AuditInv

LEMMA AuditStep == AuditInv /\ [AuditNext]_auditVars => AuditInv'
<1> SUFFICES ASSUME AuditInv, [AuditNext]_auditVars
             PROVE  AuditInv'
    OBVIOUS
<1>1. CASE Record
    <2>1. recorded \in Nat /\ recorded' = recorded + 1 /\ recorded' \in 0 .. Len(Log)
        BY <1>1, EventsAre DEF Record, AuditInv
    <2>2. \A c \in 1 .. recorded : c \in 1 .. recorded' /\ c \in Int
        BY <2>1
    <2>3. \A k \in Queries : answers[k] # NoFilter => IsAnswer(k, answers[k], recorded')
        BY <2>1, AnswersStay DEF AuditInv
    <2>4. ArePages(pages, cursor, resourceType, appliedActor, recorded')
        BY <2>1, <2>2, PagesStay DEF AuditInv
    <2>5. UNCHANGED <<resourceType, actor, appliedActor, pages, cursor, answers, asked, shown>>
        BY <1>1 DEF Record
    <2> QED
        BY <2>1, <2>2, <2>3, <2>4, <2>5 DEF AuditInv
<1>2. CASE ChooseType \/ ApplyActor \/ resetFilters
    <2>1. Renders /\ pages' = <<>> /\ cursor' = NoFilter
        BY <1>2 DEF ChooseType, ApplyActor, resetFilters, Restart
    <2>2. resourceType' \in Types /\ actor' \in Actors /\ appliedActor' \in Actors
        BY <1>2 DEF ChooseType, ApplyActor, resetFilters, AuditInv, Types, Actors
    <2>3. ArePages(pages', cursor', resourceType', appliedActor', recorded)
        BY <2>1 DEF ArePages
    <2> QED
        BY <2>1, <2>2, <2>3, AuditRenders
<1>3. CASE TypeActor
    BY <1>3 DEF TypeActor, AuditInv
<1>4. CASE loadMore
    <2>1. /\ data.next # NoFilter /\ Current \notin asked /\ Renders
          /\ pages' = pages \o data.rows /\ cursor' = data.next
          /\ UNCHANGED <<resourceType, actor, appliedActor>>
        BY <1>4 DEF loadMore, isFetching
    <2>2. answers[Current] # NoFilter /\ data = answers[Current]
        BY <2>1 DEF data, NoRows
    <2>3. IsAnswer(Current, data, recorded)
        <3>1. Current \in Queries
            BY QueriesAre, EventsAre DEF Current, AuditInv
        <3> QED
            BY <2>2, <3>1 DEF AuditInv
    <2>4. PICK o \in Events, n \in 0 .. recorded :
              /\ o <= n + 1
              /\ Current.cursor # NoFilter => n = Current.cursor - 1
              /\ data.rows = NewestFirst(Stretch(o, n, Current.type, Current.actor))
              /\ data.next = o /\ o <= n
        BY <2>1, <2>3 DEF IsAnswer
    <2>5. Current.cursor = cursor /\ Current.type = resourceType /\ Current.actor = appliedActor
        BY QueriesAre DEF Current
    <2>6. recorded \in Nat /\ o \in Int /\ n \in Int /\ o \in 1 .. recorded /\ n \in o - 1 .. recorded
        BY <2>4, EventsAre DEF AuditInv
    <2>7. \E m \in o - 1 .. recorded :
              pages \o data.rows = NewestFirst(Stretch(o, m, resourceType, appliedActor))
        <3>1. CASE cursor = NoFilter
            <4>1. pages = <<>>
                BY <3>1 DEF AuditInv, ArePages
            <4>2. data.rows \in Seq(Int)
                BY <2>4, <2>6, StretchIsFinite, NewestFirstIsAList
            <4>3. pages \o data.rows = data.rows
                BY <4>1, <4>2, ConcatEmptySeq
            <4> QED
                BY <2>4, <2>5, <2>6, <4>3
        <3>2. CASE cursor # NoFilter
            <4>1. cursor \in 1 .. recorded /\ cursor \in Int /\ n = cursor - 1
                BY <2>4, <2>5, <3>2 DEF AuditInv
            <4>2. PICK m \in cursor - 1 .. recorded :
                      pages = NewestFirst(Stretch(cursor, m, resourceType, appliedActor))
                BY <3>2 DEF AuditInv, ArePages
            <4>3. m \in Int /\ cursor <= m + 1 /\ o <= cursor /\ m \in o - 1 .. recorded
                BY <2>4, <2>6, <4>1
            <4>4. NewestFirst(Stretch(cursor, m, resourceType, appliedActor))
                      \o NewestFirst(Stretch(o, n, resourceType, appliedActor))
                  = NewestFirst(Stretch(o, m, resourceType, appliedActor))
                BY <2>6, <4>1, <4>3, StretchesJoin
            <4> QED
                BY <2>4, <2>5, <4>2, <4>3, <4>4
        <3> QED
            BY <3>1, <3>2
    <2>8. ArePages(pages', cursor', resourceType', appliedActor', recorded)
        BY <2>1, <2>4, <2>7 DEF ArePages
    <2> QED
        BY <2>1, <2>4, <2>6, <2>8, AuditRenders DEF AuditInv
<1>5. CASE Refetch
    <2>1. Current \in Queries /\ Current.cursor \in 1 .. recorded \cup {NoFilter}
        BY QueriesAre, EventsAre DEF Current, AuditInv
    <2> QED
        BY <1>5, <2>1 DEF Refetch, AuditInv
<1>6. CASE \E k \in asked : Arrive(k)
    <2>1. PICK k \in asked : Arrive(k)
        BY <1>6
    <2>2. k \in Queries /\ k.cursor \in 1 .. recorded \cup {NoFilter} /\ recorded \in 0 .. Len(Log)
        BY DEF AuditInv
    <2>3. IsAnswer(k, ListAuditEvents(k), recorded) /\ IsAnswer(k, NoRows, recorded)
        BY <2>2, ServerAnswers, ErrorsAnswer
    <2>4. DOMAIN answers' = Queries /\ \A q \in Queries : answers'[q] # NoFilter => IsAnswer(q, answers'[q], recorded)
        BY <2>1, <2>2, <2>3 DEF Arrive, AuditInv
    <2>5. shown' \in Queries /\ asked' \subseteq asked
        BY <2>1, <2>2 DEF Arrive, AuditInv
    <2>6. UNCHANGED <<recorded, resourceType, actor, appliedActor, pages, cursor>>
        BY <2>1 DEF Arrive
    <2> QED
        BY <2>4, <2>5, <2>6 DEF AuditInv
<1>7. CASE UNCHANGED auditVars
    BY <1>7 DEF auditVars, AuditInv
<1> QED
    BY <1>1, <1>2, <1>3, <1>4, <1>5, <1>6, <1>7 DEF AuditNext

LEMMA AuditRows == AuditInv => AuditRowsAreTheLog
<1> SUFFICES ASSUME AuditInv, Current \notin asked
             PROVE  \E oldest \in Events, newest \in 0 .. recorded :
                        allRows = NewestFirst(Stretch(oldest, newest, resourceType, appliedActor))
    BY DEF AuditRowsAreTheLog, isFetching, Stretch
<1>1. /\ Current \in Queries
      /\ Current.cursor = cursor /\ Current.type = resourceType /\ Current.actor = appliedActor
    BY QueriesAre, EventsAre DEF Current, AuditInv
<1>2. recorded \in Nat /\ recorded <= Len(Log)
    BY EventsAre DEF AuditInv
<1>3. IsAnswer(Current, data, recorded)
    <2>1. CASE answers[Current] # NoFilter
        BY <1>1, <2>1 DEF data, AuditInv
    <2>2. CASE answers[Current] = NoFilter
        BY <1>1, <2>2, ErrorsAnswer DEF data, AuditInv
    <2> QED
        BY <2>1, <2>2
<1>4. PICK o \in Events, n \in 0 .. recorded :
          /\ o <= n + 1
          /\ cursor # NoFilter => n = cursor - 1
          /\ data.rows = NewestFirst(Stretch(o, n, resourceType, appliedActor))
    BY <1>1, <1>3 DEF IsAnswer
<1>5. CASE cursor = NoFilter
    BY <1>4, <1>5 DEF allRows
<1>6. CASE cursor # NoFilter
    <2>1. cursor \in 1 .. recorded /\ cursor \in Int /\ n = cursor - 1 /\ o \in Int
        BY <1>4, <1>6, EventsAre DEF AuditInv
    <2>2. PICK m \in cursor - 1 .. recorded :
              pages = NewestFirst(Stretch(cursor, m, resourceType, appliedActor))
        BY <1>6 DEF AuditInv, ArePages
    <2>3. m \in Int /\ m \in 0 .. recorded /\ cursor <= m + 1 /\ o <= cursor
        BY <1>2, <1>4, <2>1
    <2>4. NewestFirst(Stretch(cursor, m, resourceType, appliedActor))
              \o NewestFirst(Stretch(o, n, resourceType, appliedActor))
          = NewestFirst(Stretch(o, m, resourceType, appliedActor))
        BY <2>1, <2>3, StretchesJoin
    <2> QED
        BY <1>4, <1>6, <2>2, <2>3, <2>4 DEF allRows
<1> QED
    BY <1>5, <1>6

\* However filters, pages, new events, failures and late answers interleave,
\* and however long the log and the pages are, an audit page that waits for
\* nothing shows a stretch of the log, with no event missing or twice.
THEOREM AuditPageShowsTheLog == Spec => []AuditRowsAreTheLog
<1>1. Init => AuditInv
    BY PartsStart, AuditStart
<1>2. AuditInv /\ [Next]_vars => AuditInv'
    BY Parts, AuditStep
<1>3. AuditInv => AuditRowsAreTheLog
    BY AuditRows
<1> QED
    BY <1>1, <1>2, <1>3, PTL DEF Spec

-----------------------------------------------------------------------------
(* Types                                                                   *)

BulkJob == [action : {"none", "visibility", "deprecate", "delete"}, open : SUBSET Servers, failed : BOOLEAN]

\* What is ticked, and what a bulk action works on, are entries.
BulkInv ==
    /\ DOMAIN state = Servers
    /\ failed \in BOOLEAN
    /\ typed \in 0 .. MaxTyping
    /\ ticked \subseteq Servers
    /\ confirm \in {Nothing, "deprecate", "delete"}
    /\ bulk \in BulkJob

LEMMA RowsAreServers == ListInv => Rows \subseteq Servers
BY ServerListAssumption DEF ListInv, Rows, Filters

LEMMA IdleIsAJob == Idle \in BulkJob
BY DEF Idle, BulkJob

LEMMA BulkInitially == ListInit => BulkInv
<1>1. ListInit => typed \in 0 .. MaxTyping
    BY ServerListAssumption DEF ListInit
<1> QED
    BY <1>1, IdleIsAJob DEF ListInit, BulkInv

\* What navigating to other filters leaves alone.
LEMMA BulkNavigates ==
    ASSUME BulkInv, NEW to, Go(to)
    PROVE  BulkInv'
<1>1. failed' \in BOOLEAN
    BY DEF Go
<1> QED
    BY <1>1 DEF Go, BulkInv

LEMMA BulkStep == ListInv /\ BulkInv /\ [ListNext]_listVars => BulkInv'
<1> SUFFICES ASSUME ListInv, BulkInv, [ListNext]_listVars
             PROVE  BulkInv'
    OBVIOUS
<1>1. CASE TypeText
    <2>1. typed' \in 0 .. MaxTyping
        BY <1>1, ServerListAssumption DEF TypeText, BulkInv
    <2> QED
        BY <1>1, <2>1 DEF TypeText, BulkInv
<1>2. CASE \E to : Go(to)
    BY <1>2, BulkNavigates
<1>3. CASE ListArrives
    <2>1. failed' \in BOOLEAN
        BY <1>3 DEF ListArrives
    <2> QED
        BY <1>3, <2>1 DEF ListArrives, BulkInv
<1>4. CASE Tick
    BY <1>4, RowsAreServers DEF Tick, BulkInv
<1>5. CASE BulkSetVisibility \/ ConfirmBulk
    <2>1. PICK action \in {"visibility", "deprecate", "delete"} : StartBulk(action)
        BY <1>5 DEF BulkSetVisibility, ConfirmBulk, BulkInv
    <2>2. bulk' \in BulkJob
        BY <2>1 DEF StartBulk, SelectedItems, BulkJob, BulkInv
    <2> QED
        BY <2>1, <2>2 DEF StartBulk, BulkInv
<1>6. CASE AskBulk \/ CancelBulk
    BY <1>6 DEF AskBulk, CancelBulk, BulkInv
<1>7. CASE ItemSettles
    <2>1. bulk' \in BulkJob /\ DOMAIN state' = Servers
        BY <1>7 DEF ItemSettles, BulkJob, BulkInv
    <2> QED
        BY <1>7, <2>1 DEF ItemSettles, BulkInv
<1>8. CASE BulkSettles
    BY <1>8, IdleIsAJob DEF BulkSettles, BulkInv
<1>9. CASE UNCHANGED <<state, failed, typed, ticked, confirm, bulk>>
    BY <1>9 DEF BulkInv
<1> QED
    BY <1>1, <1>2, <1>3, <1>4, <1>5, <1>6, <1>7, <1>8, <1>9
    DEF ListNext, listVars, TimerFires, ChooseStatus, Submit, ApplyNow, ClearFilters, Navigated

\* The two mutations of the review queue.
ReviewInv ==
    /\ confirmTarget \in Submissions \cup {NoItem}
    /\ approval \in Job
    /\ approval.at \in {"idle", "sent", "done", "refused"}

LEMMA ReviewStart == QueueInit => ReviewInv
BY DEF QueueInit, ReviewInv, NoRequest, Job

LEMMA ReviewStep == QueueInv /\ ReviewInv /\ [QueueNext]_queueVars => ReviewInv'
<1> SUFFICES ASSUME QueueInv, ReviewInv, [QueueNext]_queueVars
             PROVE  ReviewInv'
    OBVIOUS
<1>1. CASE ServeApproval
    BY <1>1 DEF ServeApproval, Decided, ReviewInv, Job
<1>2. CASE ClickApprove \/ CloseDialog
    BY <1>2 DEF ClickApprove, CloseDialog, QueueInv, ReviewInv
<1>3. CASE ConfirmApproval \/ ApprovalAnswered
    BY <1>3 DEF ConfirmApproval, ApprovalAnswered, NoRequest, ReviewInv, Job
<1>4. CASE UNCHANGED <<confirmTarget, approval>>
    BY <1>4 DEF ReviewInv
<1> QED
    BY <1>1, <1>2, <1>3, <1>4
    DEF QueueNext, queueVars, SubmitItem, ItemGoes, ServeRejection, RefreshQueue, QueueArrives,
        ClickReject, TypeReason, ConfirmReject, CancelReject, RejectionAnswered

\* One grant at a time awaits its confirmation.
OneTarget == revokeTarget = {} \/ \E g : revokeTarget = {g}

LEMMA TargetStep == OneTarget /\ [GrantsNext]_grantVars => OneTarget'
<1> SUFFICES ASSUME OneTarget, [GrantsNext]_grantVars
             PROVE  OneTarget'
    OBVIOUS
<1> USE DEF GrantsPage
<1>1. CASE AskRevoke \/ CancelRevoke \/ ConfirmRevoke
    BY <1>1 DEF AskRevoke, CancelRevoke, ConfirmRevoke, OneTarget
<1>2. CASE UNCHANGED revokeTarget
    BY <1>2 DEF OneTarget
<1> QED
    BY <1>1, <1>2
    DEF GrantsNext, grantVars, EnsureGrant, CreateGrant, DeleteGrant, Answer, ShowSection,
        GrantsArrive, ChoosePrincipalType, ChoosePrincipal, SubmitGrant, GrantAnswered

\* The rows of the tags, and what may be asked about one of them.
TagRequest == [kind : {"none", "create", "update", "delete"}, slug : Slugs \cup {NoTag},
               body : {<<>>} \cup [name : Slugs] \cup [active : BOOLEAN],
               answer : {"none", "done", "refused"}]

TagsInv ==
    /\ DOMAIN tags \subseteq Slugs /\ tags \in [DOMAIN tags -> TagRows]
    /\ rowsShown \subseteq Slugs
    /\ \/ editing = NoTag /\ typedFor = NoTag
       \/ editing \in Slugs /\ typedFor \in Slugs
    /\ deleting \in Slugs \cup {NoTag}
    /\ request \in TagRequest
    /\ request.kind # "none" => request.slug \in Slugs
    /\ request.kind = "update" => request.body \in [name : Slugs] \cup [active : BOOLEAN]

LEMMA UpdatedRow ==
    ASSUME NEW row \in TagRows, NEW body \in [name : Slugs] \cup [active : BOOLEAN]
    PROVE  Updated(row, body) \in TagRows
<1> DEFINE new == Updated(row, body)
<1>1. /\ DOMAIN row = {"name", "active", "managed"}
      /\ row.name \in Slugs /\ row.active \in BOOLEAN /\ row.managed \in BOOLEAN
    BY DEF TagRows
<1>2. \/ DOMAIN body = {"name"} /\ body.name \in Slugs
      \/ DOMAIN body = {"active"} /\ body.active \in BOOLEAN
    OBVIOUS
<1>3. new = [k \in DOMAIN row |-> IF k \in DOMAIN body THEN body[k] ELSE row[k]]
    BY DEF Updated
<1> HIDE DEF new
<1>4. /\ new = [k \in {"name", "active", "managed"} |-> new[k]]
      /\ new["name"] \in Slugs /\ new["active"] \in BOOLEAN /\ new["managed"] \in BOOLEAN
    BY <1>1, <1>2, <1>3
<1>5. new \in TagRows
    BY <1>4 DEF TagRows
<1> QED
    BY <1>5 DEF new

LEMMA TagsInitially == TagsInit => TagsInv
<1> SUFFICES ASSUME TagsInit
             PROVE  TagsInv
    OBVIOUS
<1>1. PICK S \in SUBSET Slugs : tags \in [S -> {[name |-> s, active |-> TRUE, managed |-> FALSE] : s \in Slugs}]
    BY DEF TagsInit
<1>2. \A s \in Slugs : [name |-> s, active |-> TRUE, managed |-> FALSE] \in TagRows
    BY DEF TagRows
<1>3. DOMAIN tags = S /\ tags \in [S -> TagRows]
    BY <1>1, <1>2
<1> QED
    BY <1>3 DEF TagsInit, TagsInv, NoTagRequest, TagRequest

\* A request of the page.
LEMMA TagIsSent ==
    ASSUME TagsInv, NEW kind \in {"create", "update", "delete"}, NEW s \in Slugs,
           NEW body \in {<<>>} \cup [name : Slugs] \cup [active : BOOLEAN],
           kind = "update" => body \in [name : Slugs] \cup [active : BOOLEAN],
           request' = Sending(kind, s, body), UNCHANGED <<ServerSide, PageSide>>
    PROVE  TagsInv'
<1>1. request' \in TagRequest /\ request'.kind = kind /\ request'.slug = s /\ request'.body = body
    BY DEF Sending, TagRequest
<1> QED
    BY <1>1 DEF TagsInv, ServerSide, PageSide

\* The server takes a request and the tags stay rows.
LEMMA TagIsTaken ==
    ASSUME TagsInv, NEW answer \in {"done", "refused"}, Takes(answer),
           DOMAIN tags' \subseteq Slugs, tags' \in [DOMAIN tags' -> TagRows]
    PROVE  TagsInv'
<1>1. /\ request' \in TagRequest /\ request'.kind = request.kind
      /\ request'.slug = request.slug /\ request'.body = request.body
    BY DEF Takes, TagsInv, TagRequest
<1> QED
    BY <1>1 DEF TagsInv, Takes, PageSide

LEMMA TagTypes == TagsInv /\ [TagsNext]_tagVars => TagsInv'
<1> SUFFICES ASSUME TagsInv, [TagsNext]_tagVars
             PROVE  TagsInv'
    OBVIOUS
<1>1. CASE ReconcileManagedInstanceTags
    <2>1. PICK specs \in SUBSET Slugs :
              tags' = [s \in DOMAIN tags \cup specs |->
                          IF s \in specs THEN FromConfiguration(s) ELSE [tags[s] EXCEPT !.managed = FALSE]]
        BY <1>1 DEF ReconcileManagedInstanceTags
    <2>2. \A s \in Slugs : FromConfiguration(s) \in TagRows
        BY DEF FromConfiguration, TagRows
    <2>3. \A s \in DOMAIN tags : [tags[s] EXCEPT !.managed = FALSE] \in TagRows
        BY DEF TagsInv, TagRows
    <2>4. DOMAIN tags' \subseteq Slugs /\ tags' \in [DOMAIN tags' -> TagRows]
        BY <2>1, <2>2, <2>3 DEF TagsInv
    <2> QED
        BY <1>1, <2>4 DEF ReconcileManagedInstanceTags, TagsInv, PageSide
<1>2. CASE CreateInstanceTag
    <2>1. request.slug \in Slugs
        BY <1>2 DEF CreateInstanceTag, Waits, TagsInv
    <2>2. [name |-> request.slug, active |-> TRUE, managed |-> FALSE] \in TagRows
        BY <2>1 DEF TagRows
    <2>3. DOMAIN tags' \subseteq Slugs /\ tags' \in [DOMAIN tags' -> TagRows]
        <3>1. CASE request.slug \in DOMAIN tags
            BY <1>2, <3>1 DEF CreateInstanceTag, TagsInv
        <3>2. CASE request.slug \notin DOMAIN tags
            <4> DEFINE new == [name |-> request.slug, active |-> TRUE, managed |-> FALSE]
            <4>1. tags' = [t \in DOMAIN tags \cup {request.slug} |-> IF t = request.slug THEN new ELSE tags[t]]
                BY <1>2, <3>2 DEF CreateInstanceTag
            <4>2. new \in TagRows
                BY <2>2
            <4> HIDE DEF new
            <4> QED
                BY <2>1, <4>1, <4>2 DEF TagsInv
        <3> QED
            BY <3>1, <3>2
    <2>4. \E answer \in {"done", "refused"} : Takes(answer)
        BY <1>2 DEF CreateInstanceTag
    <2> QED
        BY <2>3, <2>4, TagIsTaken
<1>3. CASE UpdateInstanceTag
    <2>1. request.slug \in DOMAIN tags => Updated(tags[request.slug], request.body) \in TagRows
        BY <1>3, UpdatedRow DEF UpdateInstanceTag, Waits, TagsInv
    <2>2. DOMAIN tags' \subseteq Slugs /\ tags' \in [DOMAIN tags' -> TagRows]
        BY <1>3, <2>1 DEF UpdateInstanceTag, TagsInv
    <2>3. \E answer \in {"done", "refused"} : Takes(answer)
        BY <1>3 DEF UpdateInstanceTag
    <2> QED
        BY <2>2, <2>3, TagIsTaken
<1>4. CASE DeleteInstanceTag
    <2>1. DOMAIN tags' \subseteq Slugs /\ tags' \in [DOMAIN tags' -> TagRows]
        BY <1>4 DEF DeleteInstanceTag, Restrict, TagsInv
    <2>2. \E answer \in {"done", "refused"} : Takes(answer)
        BY <1>4 DEF DeleteInstanceTag
    <2> QED
        BY <2>1, <2>2, TagIsTaken
<1>5. CASE AddTag \/ SaveEdit \/ Toggle \/ ConfirmDelete
    <2>1. \E kind \in {"create", "update", "delete"}, s \in Slugs,
             body \in {<<>>} \cup [name : Slugs] \cup [active : BOOLEAN] :
                /\ kind = "update" => body \in [name : Slugs] \cup [active : BOOLEAN]
                /\ request' = Sending(kind, s, body)
                /\ UNCHANGED <<ServerSide, PageSide>>
        <3>1. CASE AddTag
            BY <3>1 DEF AddTag
        <3>2. CASE SaveEdit
            <4>1. editing \in Slugs /\ [name |-> typedFor] \in [name : Slugs]
                BY <3>2 DEF SaveEdit, TagsInv
            <4> QED
                BY <3>2, <4>1 DEF SaveEdit
        <3>3. CASE Toggle
            <4>1. PICK s \in rowsShown, active \in BOOLEAN :
                      request' = Sending("update", s, [active |-> active])
                BY <3>3 DEF Toggle
            <4>2. s \in Slugs /\ [active |-> active] \in [active : BOOLEAN]
                BY <4>1 DEF TagsInv
            <4> QED
                BY <3>3, <4>1, <4>2 DEF Toggle
        <3>4. CASE ConfirmDelete
            BY <3>4 DEF ConfirmDelete, TagsInv
        <3> QED
            BY <1>5, <3>1, <3>2, <3>3, <3>4
    <2> QED
        BY <2>1, TagIsSent
<1>6. CASE Edit \/ CancelEdit \/ AskDelete \/ CancelDelete
    BY <1>6, TagAssumption DEF Edit, CancelEdit, AskDelete, CancelDelete, ServerSide, TagsInv
<1>7. CASE TagsArrive
    BY <1>7 DEF TagsArrive, Unmanaged, ServerSide, TagsInv
<1>8. CASE TagAnswered
    BY <1>8 DEF TagAnswered, NoTagRequest, TagRequest, ServerSide, TagsInv
<1>9. CASE UNCHANGED <<tags, PageSide, request>>
    BY <1>9 DEF PageSide, TagsInv
<1> QED
    BY <1>1, <1>2, <1>3, <1>4, <1>5, <1>6, <1>7, <1>8, <1>9
    DEF TagsNext, tagVars, PageSide, validateVersionTags, CreateMCPServerVersion

PagesInv ==
    /\ AuditInv
    /\ ListInv /\ BulkInv
    /\ QueueInv /\ ReviewInv
    /\ ScopeInv
    /\ TagsInv
    /\ GrantsInv /\ OneTarget
    /\ EntryInv /\ TabsInv

\* The rows of the pages that were left behind are events.
LEMMA RowsAreEvents == AuditInv => Range(pages) \subseteq Events
<1> SUFFICES ASSUME AuditInv
             PROVE  Range(pages) \subseteq Events
    OBVIOUS
<1>1. CASE cursor = NoFilter
    BY <1>1 DEF AuditInv, ArePages, Range
<1>2. CASE cursor # NoFilter
    <2>1. cursor \in Int /\ cursor \in 1 .. recorded /\ recorded \in Nat /\ recorded <= Len(Log)
        BY <1>2, EventsAre DEF AuditInv
    <2>2. PICK m \in cursor - 1 .. recorded :
              pages = NewestFirst(Stretch(cursor, m, resourceType, appliedActor))
        BY <1>2 DEF AuditInv, ArePages
    <2> DEFINE S == Stretch(cursor, m, resourceType, appliedActor)
    <2>3. m \in Int /\ S \subseteq Events
        BY <2>1, <2>2, EventsAre DEF Stretch
    <2>4. S \subseteq Int /\ IsFiniteSet(S)
        BY <2>1, <2>3, StretchIsFinite
    <2> HIDE DEF S
    <2>5. DOMAIN NewestFirst(S) = 1 .. Cardinality(S) /\ \A i \in 1 .. Cardinality(S) : NewestFirst(S)[i] \in S
        BY <2>4, NewestFirstProperties
    <2>6. Range(NewestFirst(S)) \subseteq S
        BY <2>5 DEF Range
    <2> QED
        BY <2>2, <2>3, <2>6 DEF S
<1> QED
    BY <1>1, <1>2

LEMMA PagesAreTyped == PagesInv => TypeOK
<1> SUFFICES ASSUME PagesInv
             PROVE  TypeOK
    OBVIOUS
<1>1. /\ recorded \in 0 .. Len(Log)
      /\ Current \in Queries /\ actor \in Actors
      /\ shown \in Queries /\ asked \subseteq Queries
      /\ Range(pages) \subseteq Events
    BY RowsAreEvents, QueriesAre, EventsAre DEF PagesInv, AuditInv, Current
<1>2. /\ url \in Filters /\ text \in Texts /\ timer \in Filters \cup {Nothing}
      /\ DOMAIN state = Servers
      /\ \A f \in Filters : listings[f] # Nothing => listings[f] \subseteq Finds[f.q]
      /\ loading \subseteq Filters /\ failed \in BOOLEAN /\ typed \in 0 .. MaxTyping
      /\ ticked \subseteq Servers /\ bulk.open \subseteq Servers
      /\ confirm \in {Nothing, "deprecate", "delete"}
    BY DEF PagesInv, ListInv, BulkInv, BulkJob
<1>3. /\ pending \subseteq Submissions /\ rows \subseteq Submissions
      /\ {confirmTarget, rejectReason, approval.item, rejection.item} \subseteq Submissions \cup {NoItem}
      /\ approval.at \in {"idle", "sent", "done", "refused"}
      /\ rejection.at \in {"idle", "sent", "done", "refused"}
    BY DEF PagesInv, QueueInv, ReviewInv, Job
<1>4. /\ existing \subseteq Publishers
      /\ {caller, me} \subseteq Callers
      /\ stored \in Publishers \cup {NoScope, Unset}
      /\ settings \in [Publishers -> Publishers]
      /\ form \in Publishers \cup {Unset}
    BY DEF PagesInv, ScopeInv
<1>5. /\ \A s \in DOMAIN tags : s \in Slugs /\ tags[s] \in TagRows
      /\ (typedFor = NoTag) = (editing = NoTag)
    <2>1. typedFor = NoTag <=> editing = NoTag
        BY TagAssumption DEF PagesInv, TagsInv
    <2>2. (typedFor = NoTag) = (editing = NoTag)
        BY <2>1
    <2> QED
        BY <2>2 DEF PagesInv, TagsInv
<1>6. /\ \A g \in given : g.id < nextId
      /\ Cardinality(revokeTarget) <= 1
    <2>1. \A g : Cardinality({g}) = 1
        BY FS_Singleton
    <2>2. Cardinality(revokeTarget) = 0 \/ Cardinality(revokeTarget) = 1
        BY <2>1, FS_EmptySet DEF PagesInv, OneTarget
    <2> QED
        BY <2>2 DEF PagesInv, GrantsInv
<1>7. /\ Len(selected) <= 2 /\ (selected # <<>> => compareMode)
      /\ (submitting <=> reports > 0) /\ reports <= 1
    <2>1. \/ submitting = FALSE /\ reports = 0
          \/ submitting = TRUE /\ reports = 1
        BY DEF PagesInv, TabsInv
    <2>2. submitting <=> reports > 0
        BY <2>1
    <2>3. reports <= 1
        BY <2>1
    <2>4. Len(selected) <= 2 /\ (selected # <<>> => compareMode)
        BY DEF PagesInv, TabsInv, Ticks
    <2> QED
        BY <2>2, <2>3, <2>4
<1> QED
    BY <1>1, <1>2, <1>3, <1>4, <1>5, <1>6, <1>7 DEF TypeOK

\* The types of all the pages' state, the caches, the requests under way and
\* what the components remember included, for any entries, publishers and log.
THEOREM PagesTyped == Spec => []TypeOK
<1>1. Init => PagesInv
    BY PartsStart, AuditStart, ListStart, BulkInitially, QueueStart, ReviewStart, ScopeStart,
       TagsInitially, GrantsStart, EntryStart, TabsStart
    DEF PagesInv, OneTarget, GrantsInit
<1>2. PagesInv /\ [Next]_vars => PagesInv'
    BY Parts, AuditStep, ListStep, BulkStep, QueueStep, ReviewStep, ScopeStep, TagTypes, GrantsStep,
       TargetStep, EntryStep, TabsStep
    DEF PagesInv
<1>3. PagesInv => TypeOK
    BY PagesAreTyped
<1> QED
    BY <1>1, <1>2, <1>3, PTL DEF Spec

=============================================================================
