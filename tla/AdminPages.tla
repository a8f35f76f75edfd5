----------------------------- MODULE AdminPages -----------------------------
(***************************************************************************)
(* What the pages of the admin console load and what their buttons change: *)
(* the queries a page mounts, and for every mutation the facts its request *)
(* writes on the server, the cached queries its onSuccess invalidates or   *)
(* removes, and the page it navigates to.  Queries carry the first element *)
(* of their key; a page about one user, group, publisher or entry is about *)
(* the same one throughout.                                                *)
(***************************************************************************)
EXTENDS FiniteSets

\* A mutation: the pages that offer it, whether its button opens a form or a
\* dialog first, the mutation object whose isPending disables the button, what
\* it writes, invalidates and removes, and where it leads.
Call(on, asks, lock, writes, invalidates) ==
    [on |-> on, asks |-> asks, lock |-> lock, writes |-> writes, invalidates |-> invalidates,
     removes |-> {}, to |-> "same", onError |-> FALSE]

Leads(c, removes, to) == [c EXCEPT !.removes = removes, !.to = to]

-----------------------------------------------------------------------------
(* Users                                                                   *)

UserListQueries == {"admin-users"}
UserQueries == {"admin-user", "admin-user-grants"}

\* Mutant: only the page's own query.
UserInvalidateOwn == {"admin-user"}

UserInvalidate == {"admin-user", "admin-users", "admin-user-grants"}

\* Disable, enable, grant and revoke Server Admin ask first; the display name
\* is a form of the page.  All of them are one mutation.
UserCalls ==
    [flags    |-> Call({"user"}, TRUE, "user.patch", {"users"}, UserInvalidate),
     rename   |-> Call({"user"}, FALSE, "user.patch", {"users"}, UserInvalidate),
     password |-> Call({"user"}, FALSE, "user.setPassword", {"users"}, UserInvalidate)]

CreateUser ==
    [createUser |-> Leads(Call({"user new"}, FALSE, "user.create", {"users"}, {}), {}, "users")]

-----------------------------------------------------------------------------
(* Groups                                                                  *)

GroupListQueries == {"admin-groups"}
GroupQueries == {"admin-group", "admin-group-members"}

\* Adding an unknown address invites a user.
GroupCalls ==
    [editGroup    |-> Call({"group"}, TRUE, "group.edit", {"groups"}, {"admin-group", "admin-groups"}),
     deleteGroup  |-> Leads(Call({"group"}, TRUE, "group.delete", {"groups", "members", "grants"}, {}),
                            {"admin-groups"}, "groups"),
     addMember    |-> Call({"group"}, FALSE, "group.add", {"members", "users"}, {"admin-group-members"}),
     removeMember |-> Call({"group"}, FALSE, "group.remove", {"members"}, {"admin-group-members"})]

CreateGroup ==
    [createGroup |-> Leads(Call({"group new"}, FALSE, "group.create", {"groups"}, {}), {}, "groups")]

-----------------------------------------------------------------------------
(* Publishers, their settings, and the grants on them                      *)

PublisherListQueries == {"admin-publishers"}
PublisherQueries == {"admin-publisher", "admin-publisher-mcp"}
SettingsQueries == {"admin-publisher"}
PublisherInvalidate == {"admin-publisher", "admin-publishers", "publisher-stats"}

PublisherCalls ==
    [editPublisher   |-> Call({"publisher"}, TRUE, "publisher.edit", {"publishers"}, PublisherInvalidate),
     deletePublisher |-> Leads(Call({"publisher"}, TRUE, "publisher.delete",
                                    {"publishers", "servers", "versions", "queue", "grants"}, {}),
                               {"admin-publishers"}, "publishers")]

SettingsCalls ==
    [saveSettings |-> Call({"settings"}, FALSE, "settings.save", {"publishers"}, PublisherInvalidate)]

CreatePublisher ==
    [createPublisher |-> Leads(Call({"publisher new"}, FALSE, "publisher.create", {"publishers"}, {}),
                               {}, "publishers")]

GrantQueries == {"admin-grants", "admin-groups", "admin-users"}
GrantPages == {"publisher", "members", "grants"}

GrantCalls ==
    [addGrant    |-> Call(GrantPages, FALSE, "grants.add", {"grants"}, {"admin-grants"}),
     revokeGrant |-> Call(GrantPages, TRUE, "grants.revoke", {"grants"}, {"admin-grants"})]

-----------------------------------------------------------------------------
(* Tags and reports                                                        *)

TagQueries == {"instance-tags"}
ReportQueries == {"admin-reports"}

\* The row's Activate button and the edit dialog are one mutation.
TagCalls ==
    [createTag |-> Call({"tags"}, FALSE, "tags.create", {"tags"}, {"instance-tags"}),
     toggleTag |-> Call({"tags"}, FALSE, "tags.update", {"tags"}, {"instance-tags"}),
     editTag   |-> Call({"tags"}, TRUE, "tags.update", {"tags"}, {"instance-tags"}),
     deleteTag |-> Call({"tags"}, TRUE, "tags.delete", {"tags"}, {"instance-tags"})]

PatchReport == Call({"reports"}, FALSE, "reports.patch", {"reports"}, {"admin-reports"})

\* A row offers the states it is not in.
ReportCalls == [markReviewed |-> PatchReport, dismiss |-> PatchReport, reopen |-> PatchReport]

-----------------------------------------------------------------------------
(* Entries                                                                 *)

ServerListQueries == {"admin-mcp"}
ServerQueries == {"admin-mcp-detail"}
VersionQueries == {"admin-versions"}
ReviewQueries == {"admin-review-queue"}

ServerInvalidate == {"admin-mcp-detail", "admin-mcp", "admin-review-queue-count"}

\* A change of an entry writes the entry or queues a request.  (Deprecate stays
\* enabled while its request is under way; one at a time is a bound there.)
ServerCalls ==
    LET change(lock) == Call({"server"}, TRUE, lock, {"servers", "queue"}, ServerInvalidate) IN
    [visibility  |-> [change("server.visibility") EXCEPT !.asks = FALSE],
     deprecate   |-> change("server.deprecate"),
     undeprecate |-> [change("server.undeprecate") EXCEPT !.asks = FALSE],
     editServer  |-> change("server.edit"),
     withdrawChange |-> [change("server.withdraw") EXCEPT !.asks = FALSE]]

SaveUsage == Call({"server"}, TRUE, "server.usage", {"servers", "queue"}, ServerInvalidate)

\* Edit, Customize and Start from generated open the editor, Reset a dialog.
UsageCalls == [saveUsage |-> SaveUsage, resetUsage |-> SaveUsage]

DeleteServerCall ==
    [deleteServer |-> Leads(Call({"server"}, TRUE, "server.delete", {"servers", "versions", "queue"}, {}),
                            {"admin-mcp"}, "servers")]

\* The entry's answer does not say that its deletion is requested.
RequestDeletionCall ==
    [requestDeletion |-> Call({"server"}, TRUE, "server.requestDeletion", {"queue"},
                              {"admin-review-queue-count"})]

VersionCalls ==
    LET review(lock) == Call({"server"}, TRUE, lock, {"versions", "queue"},
                             {"admin-versions", "admin-review-queue-count"}) IN
    [submit   |-> review("versions.submit"),
     withdraw |-> [review("versions.withdraw") EXCEPT !.asks = FALSE]]

PublishCall ==
    [publish |-> Call({"server"}, TRUE, "versions.publish", {"versions", "latest", "servers"},
                      {"admin-versions", "admin-mcp-detail", "admin-review-queue-count"})]

\* The form stops at a draft; the entry's answer carries its latest version.
CreateVersionCall ==
    [createVersion |-> Call({"server"}, TRUE, "versions.create", {"versions", "latest"},
                            {"admin-versions", "admin-mcp-detail"})]

CreateServerCall ==
    [createServer |-> Leads(Call({"server new"}, FALSE, "server.create", {"servers", "versions", "latest", "queue"},
                                 {"admin-mcp"}), {}, "server")]

\* One request per selected entry; a partial failure refreshes the list too.
BulkCalls ==
    LET bulk(asks) == [Call({"servers"}, asks, "servers.bulk", {"servers", "queue"}, {"admin-mcp"})
                          EXCEPT !.onError = TRUE] IN
    [bulkVisibility |-> bulk(FALSE), bulkDeprecate |-> bulk(TRUE), bulkDelete |-> bulk(TRUE)]

ReviewCalls ==
    LET decide(lock) == Call({"review"}, TRUE, lock, {"queue", "servers", "versions"},
                             {"admin-review-queue", "admin-review-queue-count"}) IN
    [approve |-> decide("review.approve"), reject |-> decide("review.reject")]

-----------------------------------------------------------------------------
(* The console                                                             *)

CallTables ==
    {UserCalls, CreateUser, GroupCalls, CreateGroup, PublisherCalls, SettingsCalls, CreatePublisher,
     GrantCalls, TagCalls, ReportCalls, ServerCalls, UsageCalls, DeleteServerCall,
     RequestDeletionCall, VersionCalls, PublishCall, CreateVersionCall, CreateServerCall, BulkCalls,
     ReviewCalls}

AdminCalls ==
    [c \in UNION {DOMAIN t : t \in CallTables} |-> (CHOOSE t \in CallTables : c \in DOMAIN t)[c]]

\* The sidebar's badge and the publisher switcher are on every page.
LayoutQueries == {"admin-review-queue-count", "all-publishers-switcher"}

DashboardQueries == {"admin-stats", "admin-mcp-recent", "admin-reports"}
OverviewQueries == {"publisher-stats"}

\* The queries of a page, below the layout.
PageQueries ==
    [users |-> UserListQueries, user |-> UserQueries, groups |-> GroupListQueries,
     group |-> GroupQueries, publishers |-> PublisherListQueries,
     publisher |-> PublisherQueries \cup GrantQueries, members |-> GrantQueries,
     grants |-> GrantQueries, settings |-> SettingsQueries, tags |-> TagQueries,
     reports |-> ReportQueries, servers |-> ServerListQueries,
     server |-> ServerQueries \cup VersionQueries, review |-> ReviewQueries,
     dashboard |-> DashboardQueries, overview |-> OverviewQueries]

\* Pages outside the console mount none of these queries.
Pages == DOMAIN PageQueries \cup {"user new", "group new", "publisher new", "server new", "outside"}

Mounts(p) ==
    CASE p = "outside"              -> {}
      [] p \in DOMAIN PageQueries   -> LayoutQueries \cup PageQueries[p]
      [] OTHER                      -> LayoutQueries

Queries == UNION {Mounts(p) : p \in Pages}

\* The query without whose answer a page shows no buttons.
MainQuery ==
    [user |-> "admin-user", group |-> "admin-group", publisher |-> "admin-publisher",
     settings |-> "admin-publisher", server |-> "admin-mcp-detail", servers |-> "admin-mcp",
     review |-> "admin-review-queue", reports |-> "admin-reports"]

\* The list a page's breadcrumb leads back to.
ParentPage ==
    [user |-> "users", group |-> "groups", publisher |-> "publishers", server |-> "servers"]

\* Which facts the server's answer to a query is made of.
Facts(q) ==
    CASE q \in {"admin-users", "admin-user"} -> {"users"}
      [] q = "admin-user-grants" -> {"users", "grants", "members"}
      [] q \in {"admin-groups", "admin-group"} -> {"groups"}
      [] q = "admin-group-members" -> {"members", "users"}
      [] q \in {"admin-publishers", "admin-publisher", "all-publishers-switcher"} -> {"publishers"}
      [] q = "publisher-stats" -> {"publishers", "servers", "queue", "grants"}
      [] q = "admin-grants" -> {"grants", "users", "groups"}
      [] q = "instance-tags" -> {"tags"}
      [] q = "admin-reports" -> {"reports", "servers"}
      [] q \in {"admin-mcp", "admin-publisher-mcp", "admin-mcp-recent"} -> {"servers"}
      [] q = "admin-mcp-detail" -> {"servers", "latest"}
      [] q = "admin-versions" -> {"versions"}
      [] q \in {"admin-review-queue", "admin-review-queue-count"} -> {"queue"}
      [] q = "admin-stats" -> {"servers", "publishers"}

Affects(c, q) == AdminCalls[c].writes \cap Facts(q) # {}

\* These turn an error of the server into an empty answer.
Swallows == {"admin-review-queue-count", "admin-versions"}

=============================================================================
