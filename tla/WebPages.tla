------------------------------ MODULE WebPages ------------------------------
(***************************************************************************)
(* The pages that keep state between clicks: the audit page, the list of   *)
(* servers with its bulk actions, the review queue page, the scope with    *)
(* the links and settings that depend on it, the tags page, the section of *)
(* role grants and the public page of an entry.  They share nothing but    *)
(* the server, each is mounted alone, and a behaviour works in one.        *)
(***************************************************************************)
EXTENDS AuditLog, ServerList, ReviewPage, PublisherScope, TagVocabulary, RoleGrants, EntryPage

VARIABLE part   \* the one in use

Init ==
    /\ part \in {"audit", "list", "queue", "scope", "tags", "grants", "entry"}
    /\ AuditInit /\ ListInit /\ QueueInit /\ ScopeInit /\ TagsInit /\ GrantsInit /\ EntryInit
    /\ part # "scope" => caller = Nobody
    /\ part # "tags" => tags = <<>>
    /\ part # "grants" => (\A g \in given : g.source = "config") /\ serverAdmin /\ section = CHOOSE p \in Publishers : TRUE
    /\ part # "entry" => token = Anonymous /\ entry = CHOOSE e \in Entries : TRUE

Next ==
    /\ \/ part = "audit" /\ AuditNext
       \/ part = "list" /\ ListNext
       \/ part = "queue" /\ QueueNext
       \/ part = "scope" /\ ScopeNext
       \/ part = "tags" /\ TagsNext
       \/ part = "grants" /\ GrantsNext
       \/ part = "entry" /\ EntryNext
    /\ part # "audit" => UNCHANGED auditVars
    /\ part # "list" => UNCHANGED listVars
    /\ part # "queue" => UNCHANGED queueVars
    /\ part # "scope" => UNCHANGED scopeVars
    /\ part # "tags" => UNCHANGED tagVars
    /\ part # "grants" => UNCHANGED grantVars
    /\ part # "entry" => UNCHANGED entryVars
    /\ UNCHANGED part

vars == <<part, auditVars, listVars, queueVars, scopeVars, tagVars, grantVars, entryVars>>

Spec == Init /\ [][Next]_vars

-----------------------------------------------------------------------------
(* Properties                                                              *)

TypeOK ==
    /\ recorded \in 0..Len(Log)
    /\ Current \in Queries /\ actor \in Actors
    /\ shown \in Queries /\ asked \subseteq Queries
    /\ Range(pages) \subseteq Events
    /\ url \in Filters /\ text \in Texts /\ timer \in Filters \cup {Nothing}
    /\ DOMAIN state = Servers
    /\ \A f \in Filters : listings[f] # Nothing => listings[f] \subseteq Finds[f.q]
    /\ loading \subseteq Filters /\ failed \in BOOLEAN /\ typed \in 0..MaxTyping
    /\ ticked \subseteq Servers /\ bulk.open \subseteq Servers
    /\ confirm \in {Nothing, "deprecate", "delete"}
    /\ pending \subseteq Submissions /\ rows \subseteq Submissions
    /\ {confirmTarget, rejectReason, approval.item, rejection.item} \subseteq Submissions \cup {NoItem}
    /\ approval.at \in {"idle", "sent", "done", "refused"}
    /\ rejection.at \in {"idle", "sent", "done", "refused"}
    /\ existing \subseteq Publishers
    /\ {caller, me} \subseteq Callers
    /\ stored \in Publishers \cup {NoScope, Unset}
    /\ settings \in [Publishers -> Publishers]
    /\ form \in Publishers \cup {Unset}
    /\ \A s \in DOMAIN tags : s \in Slugs /\ tags[s] \in TagRows
    /\ (typedFor = NoTag) = (editing = NoTag)
    /\ \A g \in given : g.id < nextId
    /\ Cardinality(revokeTarget) <= 1
    /\ Len(selected) <= 2 /\ (selected # <<>> => compareMode)
    /\ (submitting <=> reports > 0) /\ reports <= 1

\* Once its query is answered the audit page shows a stretch of the log,
\* filtered as chosen, newest first, with no event missing or shown twice,
\* however filters, pages, new events, failures and late answers interleave.
\* (pages, cursor and placeholderData of AdminAuditPage)
AuditRowsAreTheLog ==
    ~isFetching =>
        \E oldest \in Events, newest \in 0..recorded :
            allRows = NewestFirst({i \in oldest..newest : Matches(i, resourceType, appliedActor)})

\* A bulk action starts on entries that are ticked and on the screen, and with
\* no keystroke pending the bar over them shows the text they were found by:
\* ticks made under other filters wait.  (selectedItems, the resync of FilterBar)
BulkHitsWhatIsSeen ==
    [][bulk = Idle /\ bulk' # Idle =>
           /\ bulk'.open \subseteq ticked \cap Rows
           /\ timer = Nothing => Rows \subseteq Finds[text]]_listVars

\* The reason sent with a rejection was typed in the form of the row it goes
\* to, though rows come and go under the open form.  (rowKey, rejectingKey)
ReasonFitsRow == rejection.reason = rejection.item

\* While the console knows the caller's grants, the server answers whatever the
\* pages behind the links of the sidebar and the overview ask for, whatever
\* choice another user left in the browser, with two exceptions.  The members
\* page asks for the users and groups to pick from, which only Server Admins may
\* list, and offers them to a publisher's Admin.  A Server Admin's list of
\* publishers may be old, and the publisher a link is about gone.
\* (navItemVisible, currentSlug, satisfiesRole)
LinksAreHonoured ==
    me = caller => \A link \in Links : \A n \in Requests(link) :
        ~Accepts(n) <=> \/ ~me.admin /\ n.kind = "pickers"
                        \/ me.admin /\ n.kind \in {"role", "public"} /\ n.on \notin existing

\* No click of the page takes away a grant the bootstrap file gave, however old
\* the rows and the confirmation that are clicked.  (AskRevoke, DeleteGrant)
SeededGrantsStay == [][\A g \in given : g.source = "config" => g \in given']_grantVars

\* Nobody who is signed out is shown what was answered to a member, whichever
\* way sessions, tabs, late answers and the cache interleave.  (useCatalogClient)
PublicSeesPublic == session = Anonymous /\ Shown => DataOf(entry) = Anonymous

\* What the tabs remember fits the entry that is on the screen by now, though
\* they stay when another entry comes under them: a way to connect it has, and
\* two versions its viewer may see.  (sourceIndex, selectedVersions)
TabsShowTheEntry ==
    /\ hasGenerated => \A w \in Widgets : source(w) \in 1..Sources[entry]
    /\ Compared # <<>> => Compared[1] # Compared[2] /\ Range(Compared) \subseteq Versions

\* "AdminSettings shows the currently selected publisher's metadata".
SettingsShowTheSelected == form # Unset => form = currentSlug

=============================================================================
