-------------------------- MODULE AdminQueriesProofs --------------------------
(***************************************************************************)
(* Proofs about the query cache of the admin console: that the tables of   *)
(* AdminPages refresh what their calls write (EveryCall), that no order of *)
(* clicks, answers and refetches leaves an answer behind that is older     *)
(* than what the user was told of (EntryNext), and the types.              *)
(***************************************************************************)
EXTENDS AdminQueries, FiniteSetTheorems, TLAPS

-----------------------------------------------------------------------------
(* The tables                                                              *)

\* What the call of that name writes is shown around its button by queries that
\* it invalidates or removes, or that are left to staleTime.
Covered(name, call) ==
    \A q : /\ call.writes \cap Facts(q) # {}
           /\ <<name, q>> \notin LeftToTime
           /\ \E p \in Around(call) : q \in Mounts(p)
           => q \in call.invalidates \cup call.removes

\* A call is offered on pages of the console, and leads to one of them.
Placed(call) == call.on \subseteq Pages /\ call.to \in Pages \cup {"same"}

\* Every page mounts the layout's queries and its own.
LEMMA OnEveryPage ==
    /\ Mounts("users") = LayoutQueries \cup UserListQueries
    /\ Mounts("user") = LayoutQueries \cup UserQueries
    /\ Mounts("groups") = LayoutQueries \cup GroupListQueries
    /\ Mounts("group") = LayoutQueries \cup GroupQueries
    /\ Mounts("publishers") = LayoutQueries \cup PublisherListQueries
    /\ Mounts("publisher") = LayoutQueries \cup PublisherQueries \cup GrantQueries
    /\ Mounts("members") = LayoutQueries \cup GrantQueries
    /\ Mounts("grants") = LayoutQueries \cup GrantQueries
    /\ Mounts("settings") = LayoutQueries \cup SettingsQueries
    /\ Mounts("tags") = LayoutQueries \cup TagQueries
    /\ Mounts("reports") = LayoutQueries \cup ReportQueries
    /\ Mounts("servers") = LayoutQueries \cup ServerListQueries
    /\ Mounts("server") = LayoutQueries \cup ServerQueries \cup VersionQueries
    /\ Mounts("review") = LayoutQueries \cup ReviewQueries
    /\ Mounts("user new") = LayoutQueries
    /\ Mounts("group new") = LayoutQueries
    /\ Mounts("publisher new") = LayoutQueries
    /\ Mounts("server new") = LayoutQueries
    /\ Mounts("outside") = {}
  BY DEF Mounts, PageQueries

\* The queries of the console, one by one.
LEMMA QueriesAre ==
    Queries = {"admin-review-queue-count", "all-publishers-switcher", "admin-users", "admin-user",
               "admin-user-grants", "admin-groups", "admin-group", "admin-group-members",
               "admin-publishers", "admin-publisher", "admin-publisher-mcp", "admin-grants",
               "instance-tags", "admin-reports", "admin-mcp", "admin-mcp-detail", "admin-versions",
               "admin-review-queue", "admin-stats", "admin-mcp-recent", "publisher-stats"}
<1>1. ASSUME NEW q \in Queries
      PROVE  q \in LayoutQueries \cup UNION {PageQueries[p] : p \in DOMAIN PageQueries}
  BY DEF Queries, Mounts
<1>2. ASSUME NEW q \in LayoutQueries \cup UNION {PageQueries[p] : p \in DOMAIN PageQueries}
      PROVE  q \in Queries
  <2>1. CASE q \in LayoutQueries
    BY <2>1, OnEveryPage DEF Queries, Pages
  <2>2. ASSUME NEW p \in DOMAIN PageQueries, q \in PageQueries[p]
        PROVE  q \in Mounts(p)
    BY <2>2 DEF Mounts, PageQueries
  <2> QED
    BY <1>2, <2>1, <2>2 DEF Queries, Pages
<1>3. Queries = LayoutQueries \cup UNION {PageQueries[p] : p \in DOMAIN PageQueries}
  BY <1>1, <1>2
<1> QED
  BY <1>3 DEF LayoutQueries, PageQueries, UserListQueries, UserQueries, GroupListQueries, GroupQueries,
        PublisherListQueries, PublisherQueries, GrantQueries, SettingsQueries, TagQueries,
        ReportQueries, ServerListQueries, ServerQueries, VersionQueries, ReviewQueries,
        DashboardQueries, OverviewQueries

\* What the answer to each query is made of.
LEMMA FactsOf ==
    /\ Facts("admin-users") = {"users"}
    /\ Facts("admin-user") = {"users"}
    /\ Facts("admin-user-grants") = {"users", "grants", "members"}
    /\ Facts("admin-groups") = {"groups"}
    /\ Facts("admin-group") = {"groups"}
    /\ Facts("admin-group-members") = {"members", "users"}
    /\ Facts("admin-publishers") = {"publishers"}
    /\ Facts("admin-publisher") = {"publishers"}
    /\ Facts("all-publishers-switcher") = {"publishers"}
    /\ Facts("publisher-stats") = {"publishers", "servers", "queue", "grants"}
    /\ Facts("admin-grants") = {"grants", "users", "groups"}
    /\ Facts("instance-tags") = {"tags"}
    /\ Facts("admin-reports") = {"reports", "servers"}
    /\ Facts("admin-mcp") = {"servers"}
    /\ Facts("admin-publisher-mcp") = {"servers"}
    /\ Facts("admin-mcp-recent") = {"servers"}
    /\ Facts("admin-mcp-detail") = {"servers", "latest"}
    /\ Facts("admin-versions") = {"versions"}
    /\ Facts("admin-review-queue") = {"queue"}
    /\ Facts("admin-review-queue-count") = {"queue"}
    /\ Facts("admin-stats") = {"servers", "publishers"}
  BY DEF Facts

\* The queries a fact shows up in.
ShownBy(fact, queries) == \A q \in Queries : fact \in Facts(q) => q \in queries

LEMMA ShowsUp ==
    /\ ShownBy("users", {"admin-users", "admin-user", "admin-user-grants", "admin-group-members",
                         "admin-grants"})
    /\ ShownBy("groups", {"admin-groups", "admin-group", "admin-grants"})
    /\ ShownBy("members", {"admin-user-grants", "admin-group-members"})
    /\ ShownBy("grants", {"admin-user-grants", "publisher-stats", "admin-grants"})
    /\ ShownBy("publishers", {"admin-publishers", "admin-publisher", "all-publishers-switcher",
                              "publisher-stats", "admin-stats"})
    /\ ShownBy("tags", {"instance-tags"})
    /\ ShownBy("reports", {"admin-reports"})
    /\ ShownBy("servers", {"admin-mcp", "admin-publisher-mcp", "admin-mcp-recent", "admin-mcp-detail",
                           "admin-reports", "publisher-stats", "admin-stats"})
    /\ ShownBy("latest", {"admin-mcp-detail"})
    /\ ShownBy("versions", {"admin-versions"})
    /\ ShownBy("queue", {"admin-review-queue", "admin-review-queue-count", "publisher-stats"})
  BY QueriesAre, FactsOf DEF ShownBy

\* What is to be checked of a call: of the queries shown around it and touched by
\* what it writes, each is refreshed or left to staleTime.
LEMMA Covering ==
    ASSUME NEW name, NEW call, NEW shown, NEW touched,
           \A p \in Around(call) : Mounts(p) \subseteq shown,
           shown \subseteq Queries,
           \A fact \in call.writes : ShownBy(fact, touched),
           \A q \in shown \cap touched :
               q \in call.invalidates \cup call.removes \/ <<name, q>> \in LeftToTime
    PROVE  Covered(name, call)
  BY DEF Covered, ShownBy

\* One lemma per table.  Each step is about the calls of one shape, whatever
\* their names and locks: the pages around the button, the queries these show,
\* the queries that what the call writes shows up in, and what becomes of those
\* that are both.
LEMMA UserCallsRefresh ==
    \A c \in DOMAIN UserCalls : Covered(c, UserCalls[c]) /\ Placed(UserCalls[c])
<1>1. ASSUME NEW c \in {"flags", "rename", "password"}, NEW call,
             call.on = {"user"}, call.to = "same", call.writes = {"users"},
             call.invalidates = {"admin-user", "admin-users", "admin-user-grants"},
             call.removes = {}
      PROVE  Covered(c, call) /\ Placed(call)
  <2> DEFINE shown == {"admin-review-queue-count", "all-publishers-switcher", "admin-user",
                       "admin-user-grants", "admin-users"}
             touched == {"admin-users", "admin-user", "admin-user-grants", "admin-group-members",
                         "admin-grants"}
  <2>1. Around(call) = {"user", "users"}
    BY <1>1 DEF Around, ParentPage
  <2>2. \A p \in Around(call) : Mounts(p) \subseteq shown
    BY <2>1, OnEveryPage DEF LayoutQueries, UserQueries, UserListQueries
  <2>3. \A fact \in call.writes : ShownBy(fact, touched)
    BY <1>1, ShowsUp DEF ShownBy
  <2>4. shown \subseteq Queries
    BY QueriesAre
  <2>5. \A q \in shown \cap touched :
           q \in call.invalidates \cup call.removes \/ <<c, q>> \in LeftToTime
    BY <1>1
  <2>6. Placed(call)
    BY <1>1 DEF Placed, Pages, PageQueries
  <2> HIDE DEF shown, touched
  <2> QED
    BY <2>2, <2>3, <2>4, <2>5, <2>6, Covering
<1> QED
  BY <1>1 DEF UserCalls, Call, UserInvalidate

LEMMA CreateUserRefresh ==
    \A c \in DOMAIN CreateUser : Covered(c, CreateUser[c]) /\ Placed(CreateUser[c])
<1>1. ASSUME NEW c \in {"createUser"}, NEW call,
             call.on = {"user new"}, call.to = "users", call.writes = {"users"},
             call.invalidates = {}, call.removes = {}
      PROVE  Covered(c, call) /\ Placed(call)
  <2> DEFINE shown == {"admin-review-queue-count", "all-publishers-switcher", "admin-users"}
             touched == {"admin-users", "admin-user", "admin-user-grants", "admin-group-members",
                         "admin-grants"}
  <2>1. Around(call) = {"user new", "users"}
    BY <1>1 DEF Around, ParentPage
  <2>2. \A p \in Around(call) : Mounts(p) \subseteq shown
    BY <2>1, OnEveryPage DEF LayoutQueries, UserListQueries
  <2>3. \A fact \in call.writes : ShownBy(fact, touched)
    BY <1>1, ShowsUp DEF ShownBy
  <2>4. shown \subseteq Queries
    BY QueriesAre
  <2>5. \A q \in {"admin-users"} : <<c, q>> \in LeftToTime
    BY <1>1 DEF LeftToTime, GroupQueries, PublisherQueries, BulkCalls
  <2>6. \A q \in shown \cap touched :
           q \in call.invalidates \cup call.removes \/ <<c, q>> \in LeftToTime
    BY <1>1, <2>5
  <2>7. Placed(call)
    BY <1>1 DEF Placed, Pages, PageQueries
  <2> HIDE DEF shown, touched
  <2> QED
    BY <2>2, <2>3, <2>4, <2>6, <2>7, Covering
<1>2. LET call == CreateUser["createUser"]
      IN  /\ call.on = {"user new"} /\ call.to = "users"
          /\ call.writes = {"users"}
          /\ call.invalidates = {} /\ call.removes = {}
  BY DEF CreateUser, Call, Leads
<1>3. Covered("createUser", CreateUser["createUser"]) /\ Placed(CreateUser["createUser"])
  BY <1>1, <1>2
<1> QED
  BY <1>3 DEF CreateUser

LEMMA GroupCallsRefresh ==
    \A c \in DOMAIN GroupCalls : Covered(c, GroupCalls[c]) /\ Placed(GroupCalls[c])
<1>1. ASSUME NEW c \in {"editGroup"}, NEW call,
             call.on = {"group"}, call.to = "same", call.writes = {"groups"},
             call.invalidates = {"admin-group", "admin-groups"}, call.removes = {}
      PROVE  Covered(c, call) /\ Placed(call)
  <2> DEFINE shown == {"admin-review-queue-count", "all-publishers-switcher", "admin-group",
                       "admin-group-members", "admin-groups"}
             touched == {"admin-groups", "admin-group", "admin-grants"}
  <2>1. Around(call) = {"group", "groups"}
    BY <1>1 DEF Around, ParentPage
  <2>2. \A p \in Around(call) : Mounts(p) \subseteq shown
    BY <2>1, OnEveryPage DEF LayoutQueries, GroupQueries, GroupListQueries
  <2>3. \A fact \in call.writes : ShownBy(fact, touched)
    BY <1>1, ShowsUp DEF ShownBy
  <2>4. shown \subseteq Queries
    BY QueriesAre
  <2>5. \A q \in shown \cap touched :
           q \in call.invalidates \cup call.removes \/ <<c, q>> \in LeftToTime
    BY <1>1
  <2>6. Placed(call)
    BY <1>1 DEF Placed, Pages, PageQueries
  <2> HIDE DEF shown, touched
  <2> QED
    BY <2>2, <2>3, <2>4, <2>5, <2>6, Covering
<1>2. ASSUME NEW c \in {"deleteGroup"}, NEW call,
             call.on = {"group"}, call.to = "groups", call.writes = {"groups", "members", "grants"},
             call.invalidates = {}, call.removes = {"admin-groups"}
      PROVE  Covered(c, call) /\ Placed(call)
  <2> DEFINE shown == {"admin-review-queue-count", "all-publishers-switcher", "admin-group",
                       "admin-group-members", "admin-groups"}
             touched == {"admin-groups", "admin-group", "admin-grants", "admin-user-grants",
                         "admin-group-members", "publisher-stats"}
  <2>1. Around(call) = {"group", "groups"}
    <3>1. {ParentPage[p] : p \in {"group", "groups"} \cap DOMAIN ParentPage} = {"groups"}
      BY DEF ParentPage
    <3>2. call.on \cup ({call.to} \ {"same"}) = {"group", "groups"}
      BY <1>2
    <3> QED
      BY <3>1, <3>2 DEF Around
  <2>2. \A p \in Around(call) : Mounts(p) \subseteq shown
    BY <2>1, OnEveryPage DEF LayoutQueries, GroupQueries, GroupListQueries
  <2>3. \A fact \in call.writes : ShownBy(fact, touched)
    BY <1>2, ShowsUp DEF ShownBy
  <2>4. shown \subseteq Queries
    BY QueriesAre
  <2>5. \A q \in {"admin-group", "admin-group-members"} : <<c, q>> \in LeftToTime
    BY <1>2 DEF LeftToTime, GroupQueries, PublisherQueries, BulkCalls
  <2>6. \A q \in shown \cap touched :
           q \in call.invalidates \cup call.removes \/ <<c, q>> \in LeftToTime
    BY <1>2, <2>5
  <2>7. Placed(call)
    BY <1>2 DEF Placed, Pages, PageQueries
  <2> HIDE DEF shown, touched
  <2> QED
    BY <2>2, <2>3, <2>4, <2>6, <2>7, Covering
<1>3. ASSUME NEW c \in {"addMember"}, NEW call,
             call.on = {"group"}, call.to = "same", call.writes = {"members", "users"},
             call.invalidates = {"admin-group-members"}, call.removes = {}
      PROVE  Covered(c, call) /\ Placed(call)
  <2> DEFINE shown == {"admin-review-queue-count", "all-publishers-switcher", "admin-group",
                       "admin-group-members", "admin-groups"}
             touched == {"admin-user-grants", "admin-group-members", "admin-users", "admin-user",
                         "admin-grants"}
  <2>1. Around(call) = {"group", "groups"}
    BY <1>3 DEF Around, ParentPage
  <2>2. \A p \in Around(call) : Mounts(p) \subseteq shown
    BY <2>1, OnEveryPage DEF LayoutQueries, GroupQueries, GroupListQueries
  <2>3. \A fact \in call.writes : ShownBy(fact, touched)
    BY <1>3, ShowsUp DEF ShownBy
  <2>4. shown \subseteq Queries
    BY QueriesAre
  <2>5. \A q \in shown \cap touched :
           q \in call.invalidates \cup call.removes \/ <<c, q>> \in LeftToTime
    BY <1>3
  <2>6. Placed(call)
    BY <1>3 DEF Placed, Pages, PageQueries
  <2> HIDE DEF shown, touched
  <2> QED
    BY <2>2, <2>3, <2>4, <2>5, <2>6, Covering
<1>4. ASSUME NEW c \in {"removeMember"}, NEW call,
             call.on = {"group"}, call.to = "same", call.writes = {"members"},
             call.invalidates = {"admin-group-members"}, call.removes = {}
      PROVE  Covered(c, call) /\ Placed(call)
  <2> DEFINE shown == {"admin-review-queue-count", "all-publishers-switcher", "admin-group",
                       "admin-group-members", "admin-groups"}
             touched == {"admin-user-grants", "admin-group-members"}
  <2>1. Around(call) = {"group", "groups"}
    BY <1>4 DEF Around, ParentPage
  <2>2. \A p \in Around(call) : Mounts(p) \subseteq shown
    BY <2>1, OnEveryPage DEF LayoutQueries, GroupQueries, GroupListQueries
  <2>3. \A fact \in call.writes : ShownBy(fact, touched)
    BY <1>4, ShowsUp DEF ShownBy
  <2>4. shown \subseteq Queries
    BY QueriesAre
  <2>5. \A q \in shown \cap touched :
           q \in call.invalidates \cup call.removes \/ <<c, q>> \in LeftToTime
    BY <1>4
  <2>6. Placed(call)
    BY <1>4 DEF Placed, Pages, PageQueries
  <2> HIDE DEF shown, touched
  <2> QED
    BY <2>2, <2>3, <2>4, <2>5, <2>6, Covering
<1>5. LET call == GroupCalls["deleteGroup"]
      IN  /\ call.on = {"group"} /\ call.to = "groups"
          /\ call.writes = {"groups", "members", "grants"}
          /\ call.invalidates = {} /\ call.removes = {"admin-groups"}
  BY DEF GroupCalls, Call, Leads
<1>6. \A c \in DOMAIN GroupCalls \ {"deleteGroup"} : Covered(c, GroupCalls[c]) /\ Placed(GroupCalls[c])
  BY <1>1, <1>3, <1>4 DEF GroupCalls, Call
<1>7. Covered("deleteGroup", GroupCalls["deleteGroup"]) /\ Placed(GroupCalls["deleteGroup"])
  BY <1>2, <1>5
<1> QED
  BY <1>6, <1>7 DEF GroupCalls

LEMMA CreateGroupRefresh ==
    \A c \in DOMAIN CreateGroup : Covered(c, CreateGroup[c]) /\ Placed(CreateGroup[c])
<1>1. ASSUME NEW c \in {"createGroup"}, NEW call,
             call.on = {"group new"}, call.to = "groups", call.writes = {"groups"},
             call.invalidates = {}, call.removes = {}
      PROVE  Covered(c, call) /\ Placed(call)
  <2> DEFINE shown == {"admin-review-queue-count", "all-publishers-switcher", "admin-groups"}
             touched == {"admin-groups", "admin-group", "admin-grants"}
  <2>1. Around(call) = {"group new", "groups"}
    BY <1>1 DEF Around, ParentPage
  <2>2. \A p \in Around(call) : Mounts(p) \subseteq shown
    BY <2>1, OnEveryPage DEF LayoutQueries, GroupListQueries
  <2>3. \A fact \in call.writes : ShownBy(fact, touched)
    BY <1>1, ShowsUp DEF ShownBy
  <2>4. shown \subseteq Queries
    BY QueriesAre
  <2>5. \A q \in {"admin-groups"} : <<c, q>> \in LeftToTime
    BY <1>1 DEF LeftToTime, GroupQueries, PublisherQueries, BulkCalls
  <2>6. \A q \in shown \cap touched :
           q \in call.invalidates \cup call.removes \/ <<c, q>> \in LeftToTime
    BY <1>1, <2>5
  <2>7. Placed(call)
    BY <1>1 DEF Placed, Pages, PageQueries
  <2> HIDE DEF shown, touched
  <2> QED
    BY <2>2, <2>3, <2>4, <2>6, <2>7, Covering
<1>2. LET call == CreateGroup["createGroup"]
      IN  /\ call.on = {"group new"} /\ call.to = "groups"
          /\ call.writes = {"groups"}
          /\ call.invalidates = {} /\ call.removes = {}
  BY DEF CreateGroup, Call, Leads
<1>3. Covered("createGroup", CreateGroup["createGroup"]) /\ Placed(CreateGroup["createGroup"])
  BY <1>1, <1>2
<1> QED
  BY <1>3 DEF CreateGroup

LEMMA PublisherCallsRefresh ==
    \A c \in DOMAIN PublisherCalls : Covered(c, PublisherCalls[c]) /\ Placed(PublisherCalls[c])
<1>1. ASSUME NEW c \in {"editPublisher"}, NEW call,
             call.on = {"publisher"}, call.to = "same", call.writes = {"publishers"},
             call.invalidates = {"admin-publisher", "admin-publishers", "publisher-stats"},
             call.removes = {}
      PROVE  Covered(c, call) /\ Placed(call)
  <2> DEFINE shown == {"admin-review-queue-count", "all-publishers-switcher", "admin-publisher",
                       "admin-publisher-mcp", "admin-grants", "admin-groups", "admin-users",
                       "admin-publishers"}
             touched == {"admin-publishers", "admin-publisher", "all-publishers-switcher",
                         "publisher-stats", "admin-stats"}
  <2>1. Around(call) = {"publisher", "publishers"}
    BY <1>1 DEF Around, ParentPage
  <2>2. \A p \in Around(call) : Mounts(p) \subseteq shown
    BY <2>1, OnEveryPage DEF LayoutQueries, PublisherQueries, GrantQueries, PublisherListQueries
  <2>3. \A fact \in call.writes : ShownBy(fact, touched)
    BY <1>1, ShowsUp DEF ShownBy
  <2>4. shown \subseteq Queries
    BY QueriesAre
  <2>5. \A q \in {"all-publishers-switcher"} : <<c, q>> \in LeftToTime
    BY <1>1 DEF LeftToTime, GroupQueries, PublisherQueries, BulkCalls
  <2>6. \A q \in shown \cap touched :
           q \in call.invalidates \cup call.removes \/ <<c, q>> \in LeftToTime
    BY <1>1, <2>5
  <2>7. Placed(call)
    BY <1>1 DEF Placed, Pages, PageQueries
  <2> HIDE DEF shown, touched
  <2> QED
    BY <2>2, <2>3, <2>4, <2>6, <2>7, Covering
<1>2. ASSUME NEW c \in {"deletePublisher"}, NEW call,
             call.on = {"publisher"}, call.to = "publishers", call.writes = {"publishers",
             "servers", "versions", "queue", "grants"},
             call.invalidates = {}, call.removes = {"admin-publishers"}
      PROVE  Covered(c, call) /\ Placed(call)
  <2> DEFINE shown == {"admin-review-queue-count", "all-publishers-switcher", "admin-publisher",
                       "admin-publisher-mcp", "admin-grants", "admin-groups", "admin-users",
                       "admin-publishers"}
             touched == {"admin-publishers", "admin-publisher", "all-publishers-switcher",
                         "publisher-stats", "admin-stats", "admin-mcp", "admin-publisher-mcp",
                         "admin-mcp-recent", "admin-mcp-detail", "admin-reports", "admin-versions",
                         "admin-review-queue", "admin-review-queue-count", "admin-user-grants",
                         "admin-grants"}
  <2>1. Around(call) = {"publisher", "publishers"}
    <3>1. {ParentPage[p] : p \in {"publisher", "publishers"} \cap DOMAIN ParentPage} = {"publishers"}
      BY DEF ParentPage
    <3>2. call.on \cup ({call.to} \ {"same"}) = {"publisher", "publishers"}
      BY <1>2
    <3> QED
      BY <3>1, <3>2 DEF Around
  <2>2. \A p \in Around(call) : Mounts(p) \subseteq shown
    BY <2>1, OnEveryPage DEF LayoutQueries, PublisherQueries, GrantQueries, PublisherListQueries
  <2>3. \A fact \in call.writes : ShownBy(fact, touched)
    BY <1>2, ShowsUp DEF ShownBy
  <2>4. shown \subseteq Queries
    BY QueriesAre
  <2>5. \A q \in {"admin-review-queue-count", "all-publishers-switcher", "admin-publisher", "admin-publisher-mcp", "admin-grants"} : <<c, q>> \in LeftToTime
    BY <1>2 DEF LeftToTime, GroupQueries, PublisherQueries, BulkCalls
  <2>6. \A q \in shown \cap touched :
           q \in call.invalidates \cup call.removes \/ <<c, q>> \in LeftToTime
    BY <1>2, <2>5
  <2>7. Placed(call)
    BY <1>2 DEF Placed, Pages, PageQueries
  <2> HIDE DEF shown, touched
  <2> QED
    BY <2>2, <2>3, <2>4, <2>6, <2>7, Covering
<1>3. LET call == PublisherCalls["deletePublisher"]
      IN  /\ call.on = {"publisher"} /\ call.to = "publishers"
          /\ call.writes = {"publishers", "servers", "versions", "queue", "grants"}
          /\ call.invalidates = {} /\ call.removes = {"admin-publishers"}
  BY DEF PublisherCalls, Call, Leads
<1>4. \A c \in DOMAIN PublisherCalls \ {"deletePublisher"} : Covered(c, PublisherCalls[c]) /\ Placed(PublisherCalls[c])
  BY <1>1 DEF PublisherCalls, Call, PublisherInvalidate
<1>5. Covered("deletePublisher", PublisherCalls["deletePublisher"]) /\ Placed(PublisherCalls["deletePublisher"])
  BY <1>2, <1>3
<1> QED
  BY <1>4, <1>5 DEF PublisherCalls

LEMMA SettingsCallsRefresh ==
    \A c \in DOMAIN SettingsCalls : Covered(c, SettingsCalls[c]) /\ Placed(SettingsCalls[c])
<1>1. ASSUME NEW c \in {"saveSettings"}, NEW call,
             call.on = {"settings"}, call.to = "same", call.writes = {"publishers"},
             call.invalidates = {"admin-publisher", "admin-publishers", "publisher-stats"},
             call.removes = {}
      PROVE  Covered(c, call) /\ Placed(call)
  <2> DEFINE shown == {"admin-review-queue-count", "all-publishers-switcher", "admin-publisher"}
             touched == {"admin-publishers", "admin-publisher", "all-publishers-switcher",
                         "publisher-stats", "admin-stats"}
  <2>1. Around(call) = {"settings"}
    BY <1>1 DEF Around, ParentPage
  <2>2. \A p \in Around(call) : Mounts(p) \subseteq shown
    BY <2>1, OnEveryPage DEF LayoutQueries, SettingsQueries
  <2>3. \A fact \in call.writes : ShownBy(fact, touched)
    BY <1>1, ShowsUp DEF ShownBy
  <2>4. shown \subseteq Queries
    BY QueriesAre
  <2>5. \A q \in {"all-publishers-switcher"} : <<c, q>> \in LeftToTime
    BY <1>1 DEF LeftToTime, GroupQueries, PublisherQueries, BulkCalls
  <2>6. \A q \in shown \cap touched :
           q \in call.invalidates \cup call.removes \/ <<c, q>> \in LeftToTime
    BY <1>1, <2>5
  <2>7. Placed(call)
    BY <1>1 DEF Placed, Pages, PageQueries
  <2> HIDE DEF shown, touched
  <2> QED
    BY <2>2, <2>3, <2>4, <2>6, <2>7, Covering
<1> QED
  BY <1>1 DEF SettingsCalls, Call, PublisherInvalidate

LEMMA CreatePublisherRefresh ==
    \A c \in DOMAIN CreatePublisher : Covered(c, CreatePublisher[c]) /\ Placed(CreatePublisher[c])
<1>1. ASSUME NEW c \in {"createPublisher"}, NEW call,
             call.on = {"publisher new"}, call.to = "publishers", call.writes = {"publishers"},
             call.invalidates = {}, call.removes = {}
      PROVE  Covered(c, call) /\ Placed(call)
  <2> DEFINE shown == {"admin-review-queue-count", "all-publishers-switcher", "admin-publishers"}
             touched == {"admin-publishers", "admin-publisher", "all-publishers-switcher",
                         "publisher-stats", "admin-stats"}
  <2>1. Around(call) = {"publisher new", "publishers"}
    BY <1>1 DEF Around, ParentPage
  <2>2. \A p \in Around(call) : Mounts(p) \subseteq shown
    BY <2>1, OnEveryPage DEF LayoutQueries, PublisherListQueries
  <2>3. \A fact \in call.writes : ShownBy(fact, touched)
    BY <1>1, ShowsUp DEF ShownBy
  <2>4. shown \subseteq Queries
    BY QueriesAre
  <2>5. \A q \in {"all-publishers-switcher", "admin-publishers"} : <<c, q>> \in LeftToTime
    BY <1>1 DEF LeftToTime, GroupQueries, PublisherQueries, BulkCalls
  <2>6. \A q \in shown \cap touched :
           q \in call.invalidates \cup call.removes \/ <<c, q>> \in LeftToTime
    BY <1>1, <2>5
  <2>7. Placed(call)
    BY <1>1 DEF Placed, Pages, PageQueries
  <2> HIDE DEF shown, touched
  <2> QED
    BY <2>2, <2>3, <2>4, <2>6, <2>7, Covering
<1>2. LET call == CreatePublisher["createPublisher"]
      IN  /\ call.on = {"publisher new"} /\ call.to = "publishers"
          /\ call.writes = {"publishers"}
          /\ call.invalidates = {} /\ call.removes = {}
  BY DEF CreatePublisher, Call, Leads
<1>3. Covered("createPublisher", CreatePublisher["createPublisher"]) /\ Placed(CreatePublisher["createPublisher"])
  BY <1>1, <1>2
<1> QED
  BY <1>3 DEF CreatePublisher

LEMMA GrantCallsRefresh ==
    \A c \in DOMAIN GrantCalls : Covered(c, GrantCalls[c]) /\ Placed(GrantCalls[c])
<1>1. ASSUME NEW c \in {"addGrant", "revokeGrant"}, NEW call,
             call.on = {"publisher", "members", "grants"}, call.to = "same", call.writes =
             {"grants"},
             call.invalidates = {"admin-grants"}, call.removes = {}
      PROVE  Covered(c, call) /\ Placed(call)
  <2> DEFINE shown == {"admin-review-queue-count", "all-publishers-switcher", "admin-publisher",
                       "admin-publisher-mcp", "admin-grants", "admin-groups", "admin-users",
                       "admin-publishers"}
             touched == {"admin-user-grants", "publisher-stats", "admin-grants"}
  <2>1. Around(call) = {"publisher", "members", "grants", "publishers"}
    <3>1. {ParentPage[p] : p \in {"publisher", "members", "grants"} \cap DOMAIN ParentPage} = {"publishers"}
      BY DEF ParentPage
    <3>2. call.on \cup ({call.to} \ {"same"}) = {"publisher", "members", "grants"}
      BY <1>1
    <3> QED
      BY <3>1, <3>2 DEF Around
  <2>2. \A p \in Around(call) : Mounts(p) \subseteq shown
    BY <2>1, OnEveryPage DEF LayoutQueries, PublisherQueries, GrantQueries, PublisherListQueries
  <2>3. \A fact \in call.writes : ShownBy(fact, touched)
    BY <1>1, ShowsUp DEF ShownBy
  <2>4. shown \subseteq Queries
    BY QueriesAre
  <2>5. \A q \in shown \cap touched :
           q \in call.invalidates \cup call.removes \/ <<c, q>> \in LeftToTime
    BY <1>1
  <2>6. Placed(call)
    BY <1>1 DEF Placed, Pages, PageQueries
  <2> HIDE DEF shown, touched
  <2> QED
    BY <2>2, <2>3, <2>4, <2>5, <2>6, Covering
<1> QED
  BY <1>1 DEF GrantCalls, Call, GrantPages

LEMMA TagCallsRefresh ==
    \A c \in DOMAIN TagCalls : Covered(c, TagCalls[c]) /\ Placed(TagCalls[c])
<1>1. ASSUME NEW c \in {"createTag", "toggleTag", "editTag", "deleteTag"}, NEW call,
             call.on = {"tags"}, call.to = "same", call.writes = {"tags"},
             call.invalidates = {"instance-tags"}, call.removes = {}
      PROVE  Covered(c, call) /\ Placed(call)
  <2> DEFINE shown == {"admin-review-queue-count", "all-publishers-switcher", "instance-tags"}
             touched == {"instance-tags"}
  <2>1. Around(call) = {"tags"}
    BY <1>1 DEF Around, ParentPage
  <2>2. \A p \in Around(call) : Mounts(p) \subseteq shown
    BY <2>1, OnEveryPage DEF LayoutQueries, TagQueries
  <2>3. \A fact \in call.writes : ShownBy(fact, touched)
    BY <1>1, ShowsUp DEF ShownBy
  <2>4. shown \subseteq Queries
    BY QueriesAre
  <2>5. \A q \in shown \cap touched :
           q \in call.invalidates \cup call.removes \/ <<c, q>> \in LeftToTime
    BY <1>1
  <2>6. Placed(call)
    BY <1>1 DEF Placed, Pages, PageQueries
  <2> HIDE DEF shown, touched
  <2> QED
    BY <2>2, <2>3, <2>4, <2>5, <2>6, Covering
<1> QED
  BY <1>1 DEF TagCalls, Call

LEMMA ReportCallsRefresh ==
    \A c \in DOMAIN ReportCalls : Covered(c, ReportCalls[c]) /\ Placed(ReportCalls[c])
<1>1. ASSUME NEW c \in {"markReviewed", "dismiss", "reopen"}, NEW call,
             call.on = {"reports"}, call.to = "same", call.writes = {"reports"},
             call.invalidates = {"admin-reports"}, call.removes = {}
      PROVE  Covered(c, call) /\ Placed(call)
  <2> DEFINE shown == {"admin-review-queue-count", "all-publishers-switcher", "admin-reports"}
             touched == {"admin-reports"}
  <2>1. Around(call) = {"reports"}
    BY <1>1 DEF Around, ParentPage
  <2>2. \A p \in Around(call) : Mounts(p) \subseteq shown
    BY <2>1, OnEveryPage DEF LayoutQueries, ReportQueries
  <2>3. \A fact \in call.writes : ShownBy(fact, touched)
    BY <1>1, ShowsUp DEF ShownBy
  <2>4. shown \subseteq Queries
    BY QueriesAre
  <2>5. \A q \in shown \cap touched :
           q \in call.invalidates \cup call.removes \/ <<c, q>> \in LeftToTime
    BY <1>1
  <2>6. Placed(call)
    BY <1>1 DEF Placed, Pages, PageQueries
  <2> HIDE DEF shown, touched
  <2> QED
    BY <2>2, <2>3, <2>4, <2>5, <2>6, Covering
<1> QED
  BY <1>1 DEF ReportCalls, Call, PatchReport

LEMMA ServerCallsRefresh ==
    \A c \in DOMAIN ServerCalls : Covered(c, ServerCalls[c]) /\ Placed(ServerCalls[c])
<1>1. ASSUME NEW c \in {"visibility", "deprecate", "undeprecate", "editServer", "withdrawChange"}, NEW call,
             call.on = {"server"}, call.to = "same", call.writes = {"servers", "queue"},
             call.invalidates = {"admin-mcp-detail", "admin-mcp", "admin-review-queue-count"},
             call.removes = {}
      PROVE  Covered(c, call) /\ Placed(call)
  <2> DEFINE shown == {"admin-review-queue-count", "all-publishers-switcher", "admin-mcp-detail",
                       "admin-versions", "admin-mcp"}
             touched == {"admin-mcp", "admin-publisher-mcp", "admin-mcp-recent",
                         "admin-mcp-detail", "admin-reports", "publisher-stats", "admin-stats",
                         "admin-review-queue", "admin-review-queue-count"}
  <2>1. Around(call) = {"server", "servers"}
    BY <1>1 DEF Around, ParentPage
  <2>2. \A p \in Around(call) : Mounts(p) \subseteq shown
    BY <2>1, OnEveryPage DEF LayoutQueries, ServerQueries, VersionQueries, ServerListQueries
  <2>3. \A fact \in call.writes : ShownBy(fact, touched)
    BY <1>1, ShowsUp DEF ShownBy
  <2>4. shown \subseteq Queries
    BY QueriesAre
  <2>5. \A q \in shown \cap touched :
           q \in call.invalidates \cup call.removes \/ <<c, q>> \in LeftToTime
    BY <1>1
  <2>6. Placed(call)
    BY <1>1 DEF Placed, Pages, PageQueries
  <2> HIDE DEF shown, touched
  <2> QED
    BY <2>2, <2>3, <2>4, <2>5, <2>6, Covering
<1> QED
  BY <1>1 DEF ServerCalls, Call, ServerInvalidate

LEMMA UsageCallsRefresh ==
    \A c \in DOMAIN UsageCalls : Covered(c, UsageCalls[c]) /\ Placed(UsageCalls[c])
<1>1. ASSUME NEW c \in {"saveUsage", "resetUsage"}, NEW call,
             call.on = {"server"}, call.to = "same", call.writes = {"servers", "queue"},
             call.invalidates = {"admin-mcp-detail", "admin-mcp", "admin-review-queue-count"},
             call.removes = {}
      PROVE  Covered(c, call) /\ Placed(call)
  <2> DEFINE shown == {"admin-review-queue-count", "all-publishers-switcher", "admin-mcp-detail",
                       "admin-versions", "admin-mcp"}
             touched == {"admin-mcp", "admin-publisher-mcp", "admin-mcp-recent",
                         "admin-mcp-detail", "admin-reports", "publisher-stats", "admin-stats",
                         "admin-review-queue", "admin-review-queue-count"}
  <2>1. Around(call) = {"server", "servers"}
    BY <1>1 DEF Around, ParentPage
  <2>2. \A p \in Around(call) : Mounts(p) \subseteq shown
    BY <2>1, OnEveryPage DEF LayoutQueries, ServerQueries, VersionQueries, ServerListQueries
  <2>3. \A fact \in call.writes : ShownBy(fact, touched)
    BY <1>1, ShowsUp DEF ShownBy
  <2>4. shown \subseteq Queries
    BY QueriesAre
  <2>5. \A q \in shown \cap touched :
           q \in call.invalidates \cup call.removes \/ <<c, q>> \in LeftToTime
    BY <1>1
  <2>6. Placed(call)
    BY <1>1 DEF Placed, Pages, PageQueries
  <2> HIDE DEF shown, touched
  <2> QED
    BY <2>2, <2>3, <2>4, <2>5, <2>6, Covering
<1> QED
  BY <1>1 DEF UsageCalls, Call, SaveUsage, ServerInvalidate

LEMMA DeleteServerCallRefresh ==
    \A c \in DOMAIN DeleteServerCall : Covered(c, DeleteServerCall[c]) /\ Placed(DeleteServerCall[c])
<1>1. ASSUME NEW c \in {"deleteServer"}, NEW call,
             call.on = {"server"}, call.to = "servers", call.writes = {"servers", "versions",
             "queue"},
             call.invalidates = {}, call.removes = {"admin-mcp"}
      PROVE  Covered(c, call) /\ Placed(call)
  <2> DEFINE shown == {"admin-review-queue-count", "all-publishers-switcher", "admin-mcp-detail",
                       "admin-versions", "admin-mcp"}
             touched == {"admin-mcp", "admin-publisher-mcp", "admin-mcp-recent",
                         "admin-mcp-detail", "admin-reports", "publisher-stats", "admin-stats",
                         "admin-versions", "admin-review-queue", "admin-review-queue-count"}
  <2>1. Around(call) = {"server", "servers"}
    <3>1. {ParentPage[p] : p \in {"server", "servers"} \cap DOMAIN ParentPage} = {"servers"}
      BY DEF ParentPage
    <3>2. call.on \cup ({call.to} \ {"same"}) = {"server", "servers"}
      BY <1>1
    <3> QED
      BY <3>1, <3>2 DEF Around
  <2>2. \A p \in Around(call) : Mounts(p) \subseteq shown
    BY <2>1, OnEveryPage DEF LayoutQueries, ServerQueries, VersionQueries, ServerListQueries
  <2>3. \A fact \in call.writes : ShownBy(fact, touched)
    BY <1>1, ShowsUp DEF ShownBy
  <2>4. shown \subseteq Queries
    BY QueriesAre
  <2>5. \A q \in {"admin-review-queue-count", "admin-mcp-detail", "admin-versions"} : <<c, q>> \in LeftToTime
    BY <1>1 DEF LeftToTime, GroupQueries, PublisherQueries, BulkCalls
  <2>6. \A q \in shown \cap touched :
           q \in call.invalidates \cup call.removes \/ <<c, q>> \in LeftToTime
    BY <1>1, <2>5
  <2>7. Placed(call)
    BY <1>1 DEF Placed, Pages, PageQueries
  <2> HIDE DEF shown, touched
  <2> QED
    BY <2>2, <2>3, <2>4, <2>6, <2>7, Covering
<1>2. LET call == DeleteServerCall["deleteServer"]
      IN  /\ call.on = {"server"} /\ call.to = "servers"
          /\ call.writes = {"servers", "versions", "queue"}
          /\ call.invalidates = {} /\ call.removes = {"admin-mcp"}
  BY DEF DeleteServerCall, Call, Leads
<1>3. Covered("deleteServer", DeleteServerCall["deleteServer"]) /\ Placed(DeleteServerCall["deleteServer"])
  BY <1>1, <1>2
<1> QED
  BY <1>3 DEF DeleteServerCall

LEMMA RequestDeletionCallRefresh ==
    \A c \in DOMAIN RequestDeletionCall : Covered(c, RequestDeletionCall[c]) /\ Placed(RequestDeletionCall[c])
<1>1. ASSUME NEW c \in {"requestDeletion"}, NEW call,
             call.on = {"server"}, call.to = "same", call.writes = {"queue"},
             call.invalidates = {"admin-review-queue-count"}, call.removes = {}
      PROVE  Covered(c, call) /\ Placed(call)
  <2> DEFINE shown == {"admin-review-queue-count", "all-publishers-switcher", "admin-mcp-detail",
                       "admin-versions", "admin-mcp"}
             touched == {"admin-review-queue", "admin-review-queue-count", "publisher-stats"}
  <2>1. Around(call) = {"server", "servers"}
    BY <1>1 DEF Around, ParentPage
  <2>2. \A p \in Around(call) : Mounts(p) \subseteq shown
    BY <2>1, OnEveryPage DEF LayoutQueries, ServerQueries, VersionQueries, ServerListQueries
  <2>3. \A fact \in call.writes : ShownBy(fact, touched)
    BY <1>1, ShowsUp DEF ShownBy
  <2>4. shown \subseteq Queries
    BY QueriesAre
  <2>5. \A q \in shown \cap touched :
           q \in call.invalidates \cup call.removes \/ <<c, q>> \in LeftToTime
    BY <1>1
  <2>6. Placed(call)
    BY <1>1 DEF Placed, Pages, PageQueries
  <2> HIDE DEF shown, touched
  <2> QED
    BY <2>2, <2>3, <2>4, <2>5, <2>6, Covering
<1> QED
  BY <1>1 DEF RequestDeletionCall, Call

LEMMA VersionCallsRefresh ==
    \A c \in DOMAIN VersionCalls : Covered(c, VersionCalls[c]) /\ Placed(VersionCalls[c])
<1>1. ASSUME NEW c \in {"submit", "withdraw"}, NEW call,
             call.on = {"server"}, call.to = "same", call.writes = {"versions", "queue"},
             call.invalidates = {"admin-versions", "admin-review-queue-count"}, call.removes = {}
      PROVE  Covered(c, call) /\ Placed(call)
  <2> DEFINE shown == {"admin-review-queue-count", "all-publishers-switcher", "admin-mcp-detail",
                       "admin-versions", "admin-mcp"}
             touched == {"admin-versions", "admin-review-queue", "admin-review-queue-count",
                         "publisher-stats"}
  <2>1. Around(call) = {"server", "servers"}
    BY <1>1 DEF Around, ParentPage
  <2>2. \A p \in Around(call) : Mounts(p) \subseteq shown
    BY <2>1, OnEveryPage DEF LayoutQueries, ServerQueries, VersionQueries, ServerListQueries
  <2>3. \A fact \in call.writes : ShownBy(fact, touched)
    BY <1>1, ShowsUp DEF ShownBy
  <2>4. shown \subseteq Queries
    BY QueriesAre
  <2>5. \A q \in shown \cap touched :
           q \in call.invalidates \cup call.removes \/ <<c, q>> \in LeftToTime
    BY <1>1
  <2>6. Placed(call)
    BY <1>1 DEF Placed, Pages, PageQueries
  <2> HIDE DEF shown, touched
  <2> QED
    BY <2>2, <2>3, <2>4, <2>5, <2>6, Covering
<1> QED
  BY <1>1 DEF VersionCalls, Call

LEMMA PublishCallRefresh ==
    \A c \in DOMAIN PublishCall : Covered(c, PublishCall[c]) /\ Placed(PublishCall[c])
<1>1. ASSUME NEW c \in {"publish"}, NEW call,
             call.on = {"server"}, call.to = "same", call.writes = {"versions", "latest",
             "servers"},
             call.invalidates = {"admin-versions", "admin-mcp-detail", "admin-review-queue-count"},
             call.removes = {}
      PROVE  Covered(c, call) /\ Placed(call)
  <2> DEFINE shown == {"admin-review-queue-count", "all-publishers-switcher", "admin-mcp-detail",
                       "admin-versions", "admin-mcp"}
             touched == {"admin-versions", "admin-mcp-detail", "admin-mcp", "admin-publisher-mcp",
                         "admin-mcp-recent", "admin-reports", "publisher-stats", "admin-stats"}
  <2>1. Around(call) = {"server", "servers"}
    BY <1>1 DEF Around, ParentPage
  <2>2. \A p \in Around(call) : Mounts(p) \subseteq shown
    BY <2>1, OnEveryPage DEF LayoutQueries, ServerQueries, VersionQueries, ServerListQueries
  <2>3. \A fact \in call.writes : ShownBy(fact, touched)
    BY <1>1, ShowsUp DEF ShownBy
  <2>4. shown \subseteq Queries
    BY QueriesAre
  <2>5. \A q \in {"admin-mcp"} : <<c, q>> \in LeftToTime
    BY <1>1 DEF LeftToTime, GroupQueries, PublisherQueries, BulkCalls
  <2>6. \A q \in shown \cap touched :
           q \in call.invalidates \cup call.removes \/ <<c, q>> \in LeftToTime
    BY <1>1, <2>5
  <2>7. Placed(call)
    BY <1>1 DEF Placed, Pages, PageQueries
  <2> HIDE DEF shown, touched
  <2> QED
    BY <2>2, <2>3, <2>4, <2>6, <2>7, Covering
<1> QED
  BY <1>1 DEF PublishCall, Call

LEMMA CreateVersionCallRefresh ==
    \A c \in DOMAIN CreateVersionCall : Covered(c, CreateVersionCall[c]) /\ Placed(CreateVersionCall[c])
<1>1. ASSUME NEW c \in {"createVersion"}, NEW call,
             call.on = {"server"}, call.to = "same", call.writes = {"versions", "latest"},
             call.invalidates = {"admin-versions", "admin-mcp-detail"}, call.removes = {}
      PROVE  Covered(c, call) /\ Placed(call)
  <2> DEFINE shown == {"admin-review-queue-count", "all-publishers-switcher", "admin-mcp-detail",
                       "admin-versions", "admin-mcp"}
             touched == {"admin-versions", "admin-mcp-detail"}
  <2>1. Around(call) = {"server", "servers"}
    BY <1>1 DEF Around, ParentPage
  <2>2. \A p \in Around(call) : Mounts(p) \subseteq shown
    BY <2>1, OnEveryPage DEF LayoutQueries, ServerQueries, VersionQueries, ServerListQueries
  <2>3. \A fact \in call.writes : ShownBy(fact, touched)
    BY <1>1, ShowsUp DEF ShownBy
  <2>4. shown \subseteq Queries
    BY QueriesAre
  <2>5. \A q \in shown \cap touched :
           q \in call.invalidates \cup call.removes \/ <<c, q>> \in LeftToTime
    BY <1>1
  <2>6. Placed(call)
    BY <1>1 DEF Placed, Pages, PageQueries
  <2> HIDE DEF shown, touched
  <2> QED
    BY <2>2, <2>3, <2>4, <2>5, <2>6, Covering
<1> QED
  BY <1>1 DEF CreateVersionCall, Call

LEMMA CreateServerCallRefresh ==
    \A c \in DOMAIN CreateServerCall : Covered(c, CreateServerCall[c]) /\ Placed(CreateServerCall[c])
<1>1. ASSUME NEW c \in {"createServer"}, NEW call,
             call.on = {"server new"}, call.to = "server", call.writes = {"servers", "versions",
             "latest", "queue"},
             call.invalidates = {"admin-mcp"}, call.removes = {}
      PROVE  Covered(c, call) /\ Placed(call)
  <2> DEFINE shown == {"admin-review-queue-count", "all-publishers-switcher", "admin-mcp-detail",
                       "admin-versions", "admin-mcp"}
             touched == {"admin-mcp", "admin-publisher-mcp", "admin-mcp-recent",
                         "admin-mcp-detail", "admin-reports", "publisher-stats", "admin-stats",
                         "admin-versions", "admin-review-queue", "admin-review-queue-count"}
  <2>1. Around(call) = {"server new", "server", "servers"}
    <3>1. {ParentPage[p] : p \in {"server new", "server"} \cap DOMAIN ParentPage} = {"servers"}
      BY DEF ParentPage
    <3>2. call.on \cup ({call.to} \ {"same"}) = {"server new", "server"}
      BY <1>1
    <3> QED
      BY <3>1, <3>2 DEF Around
  <2>2. \A p \in Around(call) : Mounts(p) \subseteq shown
    BY <2>1, OnEveryPage DEF LayoutQueries, ServerQueries, VersionQueries, ServerListQueries
  <2>3. \A fact \in call.writes : ShownBy(fact, touched)
    <3>1. ShownBy("servers", touched)
      BY ShowsUp DEF ShownBy
    <3>2. ShownBy("versions", touched)
      BY ShowsUp DEF ShownBy
    <3>3. ShownBy("latest", touched)
      BY ShowsUp DEF ShownBy
    <3>4. ShownBy("queue", touched)
      BY ShowsUp DEF ShownBy
    <3> QED
      BY <1>1, <3>1, <3>2, <3>3, <3>4
  <2>4. shown \subseteq Queries
    BY QueriesAre
  <2>5. \A q \in {"admin-review-queue-count", "admin-mcp-detail", "admin-versions"} : <<c, q>> \in LeftToTime
    BY <1>1 DEF LeftToTime, GroupQueries, PublisherQueries, BulkCalls
  <2>6. \A q \in shown \cap touched :
           q \in call.invalidates \cup call.removes \/ <<c, q>> \in LeftToTime
    BY <1>1, <2>5
  <2>7. Placed(call)
    BY <1>1 DEF Placed, Pages, PageQueries
  <2> HIDE DEF shown, touched
  <2> QED
    BY <2>2, <2>3, <2>4, <2>6, <2>7, Covering
<1>2. LET call == CreateServerCall["createServer"]
      IN  /\ call.on = {"server new"} /\ call.to = "server"
          /\ call.writes = {"servers", "versions", "latest", "queue"}
          /\ call.invalidates = {"admin-mcp"} /\ call.removes = {}
  BY DEF CreateServerCall, Call, Leads
<1>3. Covered("createServer", CreateServerCall["createServer"]) /\ Placed(CreateServerCall["createServer"])
  BY <1>1, <1>2
<1> QED
  BY <1>3 DEF CreateServerCall

LEMMA BulkCallsRefresh ==
    \A c \in DOMAIN BulkCalls : Covered(c, BulkCalls[c]) /\ Placed(BulkCalls[c])
<1>1. ASSUME NEW c \in {"bulkVisibility", "bulkDeprecate", "bulkDelete"}, NEW call,
             call.on = {"servers"}, call.to = "same", call.writes = {"servers", "queue"},
             call.invalidates = {"admin-mcp"}, call.removes = {}
      PROVE  Covered(c, call) /\ Placed(call)
  <2> DEFINE shown == {"admin-review-queue-count", "all-publishers-switcher", "admin-mcp"}
             touched == {"admin-mcp", "admin-publisher-mcp", "admin-mcp-recent",
                         "admin-mcp-detail", "admin-reports", "publisher-stats", "admin-stats",
                         "admin-review-queue", "admin-review-queue-count"}
  <2>1. Around(call) = {"servers"}
    BY <1>1 DEF Around, ParentPage
  <2>2. \A p \in Around(call) : Mounts(p) \subseteq shown
    BY <2>1, OnEveryPage DEF LayoutQueries, ServerListQueries
  <2>3. \A fact \in call.writes : ShownBy(fact, touched)
    BY <1>1, ShowsUp DEF ShownBy
  <2>4. shown \subseteq Queries
    BY QueriesAre
  <2>5. \A q \in {"admin-review-queue-count"} : <<c, q>> \in LeftToTime
    BY <1>1 DEF LeftToTime, GroupQueries, PublisherQueries, BulkCalls
  <2>6. \A q \in shown \cap touched :
           q \in call.invalidates \cup call.removes \/ <<c, q>> \in LeftToTime
    BY <1>1, <2>5
  <2>7. Placed(call)
    BY <1>1 DEF Placed, Pages, PageQueries
  <2> HIDE DEF shown, touched
  <2> QED
    BY <2>2, <2>3, <2>4, <2>6, <2>7, Covering
<1> QED
  BY <1>1 DEF BulkCalls, Call

LEMMA ReviewCallsRefresh ==
    \A c \in DOMAIN ReviewCalls : Covered(c, ReviewCalls[c]) /\ Placed(ReviewCalls[c])
<1>1. ASSUME NEW c \in {"approve", "reject"}, NEW call,
             call.on = {"review"}, call.to = "same", call.writes = {"queue", "servers", "versions"},
             call.invalidates = {"admin-review-queue", "admin-review-queue-count"},
             call.removes = {}
      PROVE  Covered(c, call) /\ Placed(call)
  <2> DEFINE shown == {"admin-review-queue-count", "all-publishers-switcher", "admin-review-queue"}
             touched == {"admin-review-queue", "admin-review-queue-count", "publisher-stats",
                         "admin-mcp", "admin-publisher-mcp", "admin-mcp-recent", "admin-mcp-detail",
                         "admin-reports", "admin-stats", "admin-versions"}
  <2>1. Around(call) = {"review"}
    BY <1>1 DEF Around, ParentPage
  <2>2. \A p \in Around(call) : Mounts(p) \subseteq shown
    BY <2>1, OnEveryPage DEF LayoutQueries, ReviewQueries
  <2>3. \A fact \in call.writes : ShownBy(fact, touched)
    BY <1>1, ShowsUp DEF ShownBy
  <2>4. shown \subseteq Queries
    BY QueriesAre
  <2>5. \A q \in shown \cap touched :
           q \in call.invalidates \cup call.removes \/ <<c, q>> \in LeftToTime
    BY <1>1
  <2>6. Placed(call)
    BY <1>1 DEF Placed, Pages, PageQueries
  <2> HIDE DEF shown, touched
  <2> QED
    BY <2>2, <2>3, <2>4, <2>5, <2>6, Covering
<1> QED
  BY <1>1 DEF ReviewCalls, Call

-----------------------------------------------------------------------------
(* All calls                                                               *)

LEMMA EveryTable ==
    \A t \in CallTables : \A c \in DOMAIN t : Covered(c, t[c]) /\ Placed(t[c])
  BY UserCallsRefresh, CreateUserRefresh, GroupCallsRefresh, CreateGroupRefresh,
     PublisherCallsRefresh, SettingsCallsRefresh, CreatePublisherRefresh, GrantCallsRefresh,
     TagCallsRefresh, ReportCallsRefresh, ServerCallsRefresh, UsageCallsRefresh,
     DeleteServerCallRefresh, RequestDeletionCallRefresh, VersionCallsRefresh, PublishCallRefresh,
     CreateVersionCallRefresh, CreateServerCallRefresh, BulkCallsRefresh, ReviewCallsRefresh
  DEF CallTables

\* Whatever a call of the console writes is refreshed around its button, but for
\* what is left to staleTime.
LEMMA EveryCall == \A c \in DOMAIN AdminCalls : Covered(c, AdminCalls[c]) /\ Placed(AdminCalls[c])
<1> SUFFICES ASSUME NEW c \in DOMAIN AdminCalls
             PROVE  Covered(c, AdminCalls[c]) /\ Placed(AdminCalls[c])
  OBVIOUS
<1> DEFINE table == CHOOSE t \in CallTables : c \in DOMAIN t
<1>1. c \in UNION {DOMAIN t : t \in CallTables} /\ AdminCalls[c] = table[c]
  BY DEF AdminCalls
<1>2. table \in CallTables /\ c \in DOMAIN table
  BY <1>1
<1> HIDE DEF table
<1> QED
  BY <1>1, <1>2, EveryTable

-----------------------------------------------------------------------------
(* The mutations under way                                                 *)

Mutations == [call : DOMAIN AdminCalls, at : {"asked", "sent", "done"}, write : 0 .. MaxCalls]

Sent == {d \in calls : d.at = "sent"}

\* A mutation object has one request under way.
OneOfEach ==
    \A c, d \in calls :
        c # d /\ c.at # "asked" /\ d.at # "asked" => AdminCalls[c.call].lock # AdminCalls[d.call].lock

\* Every press is left, under way, or has been counted by the server.
Budget ==
    /\ written \in Nat /\ left \in Nat
    /\ written + Cardinality(Sent) + left <= MaxCalls

CallsInv ==
    /\ IsFiniteSet(calls) /\ calls \subseteq Mutations
    /\ OneOfEach
    /\ Budget
    /\ \A d \in calls : d.write <= written

Place ==
    /\ watched \in Watched
    /\ page \in Pages

LEMMA SentIsFinite ==
    ASSUME IsFiniteSet(calls)
    PROVE  IsFiniteSet(Sent) /\ Cardinality(Sent) \in Nat
  BY FS_Subset, FS_CardinalityType DEF Sent

\* With fewer mutations under way, the rest stays as it is.
LEMMA FewerCalls ==
    ASSUME CallsInv, calls' \subseteq calls, UNCHANGED <<written, left>>
    PROVE  CallsInv'
<1>1. Sent' \subseteq Sent
  BY DEF Sent
<1>2. IsFiniteSet(calls') /\ Cardinality(Sent') <= Cardinality(Sent) /\ Cardinality(Sent') \in Nat
  BY <1>1, SentIsFinite, FS_Subset, FS_CardinalityType DEF CallsInv
<1>3. Budget'
  BY <1>2, SentIsFinite, AdminQueriesAssumption DEF CallsInv, Budget
<1> QED
  BY <1>2, <1>3 DEF CallsInv, OneOfEach

LEMMA AskCalls ==
    ASSUME CallsInv, NEW c \in DOMAIN AdminCalls, Ask(c)
    PROVE  CallsInv'
<1> DEFINE asked == [call |-> c, at |-> "asked", write |-> 0]
<1>1. calls' = calls \cup {asked} /\ UNCHANGED <<written, left>>
  BY DEF Ask
<1>2. asked \in Mutations /\ asked.at = "asked" /\ asked.write = 0
  BY AdminQueriesAssumption DEF Mutations
<1> HIDE DEF asked
<1>3. Sent' = Sent
  BY <1>1, <1>2 DEF Sent
<1>4. IsFiniteSet(calls') /\ calls' \subseteq Mutations
  BY <1>1, <1>2, FS_AddElement DEF CallsInv
<1>5. OneOfEach'
  BY <1>1, <1>2 DEF CallsInv, OneOfEach
<1>6. Budget'
  BY <1>1, <1>3 DEF CallsInv, Budget
<1> QED
  BY <1>1, <1>2, <1>4, <1>5, <1>6 DEF CallsInv, Budget

LEMMA PressCalls ==
    ASSUME CallsInv, NEW c \in DOMAIN AdminCalls, Press(c)
    PROVE  CallsInv'
<1> DEFINE asked == [call |-> c, at |-> "asked", write |-> 0]
           sent == [call |-> c, at |-> "sent", write |-> 0]
<1>1. /\ calls' = (calls \ {asked}) \cup {sent}
      /\ left > 0 /\ left' = left - 1 /\ written' = written
      /\ Unlocked(c)
  BY DEF Press
<1>2. sent \in Mutations /\ sent.at = "sent" /\ sent.write = 0 /\ sent.call = c
  BY AdminQueriesAssumption DEF Mutations
<1> HIDE DEF asked, sent
<1>3. Sent' \subseteq Sent \cup {sent}
  BY <1>1 DEF Sent
<1>4. /\ IsFiniteSet(calls') /\ calls' \subseteq Mutations
      /\ Cardinality(Sent') \in Nat /\ Cardinality(Sent') <= Cardinality(Sent) + 1
  <2>1. IsFiniteSet(Sent \cup {sent}) /\ Cardinality(Sent \cup {sent}) <= Cardinality(Sent) + 1
    BY SentIsFinite, FS_AddElement DEF CallsInv
  <2>2. IsFiniteSet(calls \cup {sent})
    BY FS_AddElement DEF CallsInv
  <2>3. calls' \subseteq calls \cup {sent}
    BY <1>1
  <2>4. IsFiniteSet(calls')
    BY <2>2, <2>3, FS_Subset
  <2>5. Cardinality(Sent') \in Nat /\ Cardinality(Sent') <= Cardinality(Sent \cup {sent})
    BY <1>3, <2>1, FS_Subset, FS_CardinalityType
  <2>6. calls' \subseteq Mutations
    BY <1>1, <1>2 DEF CallsInv
  <2>7. Cardinality(Sent) \in Nat /\ Cardinality(Sent \cup {sent}) \in Nat
    BY <2>1, SentIsFinite, FS_CardinalityType DEF CallsInv
  <2> QED
    BY <2>1, <2>4, <2>5, <2>6, <2>7
<1>5. OneOfEach'
  BY <1>1, <1>2 DEF CallsInv, OneOfEach, Unlocked
<1>6. Budget'
  BY <1>1, <1>4, SentIsFinite, AdminQueriesAssumption DEF CallsInv, Budget
<1> QED
  BY <1>1, <1>2, <1>4, <1>5, <1>6 DEF CallsInv, Budget

LEMMA CommitCalls ==
    ASSUME CallsInv, NEW d \in calls, Commit(d)
    PROVE  CallsInv'
<1> DEFINE done == [d EXCEPT !.at = "done", !.write = written']
<1>1. /\ calls' = (calls \ {d}) \cup {done}
      /\ d.at = "sent" /\ left' = left
      /\ written' \in {written, written + 1}
  BY DEF Commit
<1>2. d \in Mutations /\ d \in Sent
  BY <1>1 DEF CallsInv, Sent
<1>3. written \in Nat /\ written' \in Nat /\ left \in Nat /\ MaxCalls \in Nat
  BY <1>1, AdminQueriesAssumption DEF CallsInv, Budget
<1>4. done.at = "done" /\ done.call = d.call /\ done.write = written'
  BY <1>2 DEF Mutations
<1>5. Sent' \subseteq Sent \ {d}
  BY <1>1, <1>4 DEF Sent
<1>6. /\ IsFiniteSet(calls')
      /\ Cardinality(Sent') \in Nat /\ Cardinality(Sent) \in Nat
      /\ Cardinality(Sent') <= Cardinality(Sent) - 1
  <2>1. IsFiniteSet(Sent \ {d}) /\ Cardinality(Sent \ {d}) = Cardinality(Sent) - 1
    BY <1>2, SentIsFinite, FS_RemoveElement DEF CallsInv
  <2>2. Cardinality(Sent') \in Nat /\ Cardinality(Sent') <= Cardinality(Sent \ {d})
    BY <1>5, <2>1, FS_Subset, FS_CardinalityType
  <2>3. IsFiniteSet(calls \ {d})
    BY FS_RemoveElement DEF CallsInv
  <2>4. IsFiniteSet(calls')
    BY <1>1, <2>3, FS_AddElement
  <2> QED
    BY <2>1, <2>2, <2>4, SentIsFinite DEF CallsInv
<1>7. Budget'
  BY <1>1, <1>3, <1>6 DEF CallsInv, Budget
<1>8. written' \in 0 .. MaxCalls
  BY <1>3, <1>6, <1>7 DEF Budget
<1>9. done \in Mutations
  BY <1>2, <1>8 DEF Mutations
<1> HIDE DEF done
<1>10. OneOfEach'
  BY <1>1, <1>4 DEF CallsInv, OneOfEach
<1>11. \A e \in calls' : e.write <= written'
  <2> SUFFICES ASSUME NEW e \in calls'
               PROVE  e.write <= written'
    OBVIOUS
  <2>1. CASE e = done
    BY <2>1, <1>3, <1>4
  <2>2. CASE e \in calls
    <3>1. e.write \in Nat /\ e.write <= written
      BY <2>2 DEF CallsInv, Mutations
    <3> QED
      BY <3>1, <1>1, <1>3
  <2> QED
    BY <2>1, <2>2, <1>1
<1> QED
  BY <1>1, <1>6, <1>7, <1>9, <1>10, <1>11 DEF CallsInv


LEMMA CallsNext ==
    ASSUME Place, CallsInv, [Next]_vars
    PROVE  CallsInv'
<1>1. CASE Serve \/ Arrive \/ FetchFails \/ Age \/ Focus \/ Poll \/ Collect \/ UNCHANGED vars
  <2>1. calls' \subseteq calls /\ UNCHANGED <<written, left>>
    BY <1>1 DEF Serve, Arrive, FetchFails, Age, Focus, Poll, Collect, vars
  <2> QED
    BY <2>1, FewerCalls
<1>2. ASSUME NEW p \in Near[watched], Visit(p)
      PROVE  CallsInv'
  BY <1>2, FewerCalls DEF Visit, Closed
<1>3. ASSUME NEW c \in Touching[watched]
      PROVE  c \in DOMAIN AdminCalls
  BY AdminQueriesAssumption DEF Touching, Place
<1>4. ASSUME NEW c \in Touching[watched], Ask(c) \/ Press(c)
      PROVE  CallsInv'
  BY <1>3, <1>4, AskCalls, PressCalls
<1>5. ASSUME NEW d \in calls, Cancel(d) \/ Succeed(d) \/ Fail(d)
      PROVE  CallsInv'
  <2>1. calls' \subseteq calls /\ UNCHANGED <<written, left>>
    BY <1>5 DEF Cancel, Succeed, Fail, Closed
  <2> QED
    BY <2>1, FewerCalls
<1>6. ASSUME NEW d \in calls, Commit(d)
      PROVE  CallsInv'
  BY <1>6, CommitCalls
<1> QED
  BY <1>1, <1>2, <1>4, <1>5, <1>6 DEF Next

\* The budget bounds the number of writes and of presses.
LEMMA WithinBudget ==
    ASSUME CallsInv
    PROVE  written \in 0 .. MaxCalls /\ left \in 0 .. MaxCalls
<1>1. Cardinality(Sent) \in Nat
  BY SentIsFinite DEF CallsInv
<1> QED
  BY <1>1, AdminQueriesAssumption DEF CallsInv, Budget

-----------------------------------------------------------------------------
(* The page                                                                *)

\* The pages the user goes to are pages of the console.
LEMMA NearIsPages == \A q \in Queries : Near[q] \subseteq Pages
<1> SUFFICES ASSUME NEW q \in Queries
             PROVE  Near[q] \subseteq Pages
  OBVIOUS
<1>1. (CHOOSE p \in Pages : q \in Mounts(p)) \in Pages
  BY DEF Queries
<1>2. \A c \in Touching[q] : AdminCalls[c].on \subseteq Pages /\ AdminCalls[c].to \in Pages \cup {"same"}
  BY EveryCall DEF Touching, Placed
<1>3. "outside" \in Pages
  BY DEF Pages
<1> DEFINE one == CHOOSE p \in Pages : q \in Mounts(p)
<1> HIDE DEF one
<1>4. Near[q] = {"outside", one}
                \cup UNION {AdminCalls[c].on \cup ({AdminCalls[c].to} \ {"same"}) : c \in Touching[q]}
  BY DEF Near, one
<1>5. one \in Pages
  BY <1>1 DEF one
<1> QED
  BY <1>2, <1>3, <1>4, <1>5

LEMMA PlaceNext ==
    ASSUME Place, CallsInv, [Next]_vars
    PROVE  Place'
<1>1. ASSUME NEW p \in Near[watched], Visit(p)
      PROVE  Place'
  BY <1>1, NearIsPages, AdminQueriesAssumption DEF Visit, Place
<1>2. ASSUME NEW d \in calls, Succeed(d)
      PROVE  Place'
  <2>1. d.call \in DOMAIN AdminCalls
    BY DEF CallsInv, Mutations
  <2>2. AdminCalls[d.call].to \in Pages \cup {"same"}
    BY <2>1, EveryCall DEF Placed
  <2> QED
    BY <1>2, <2>2 DEF Succeed, Place
<1>3. CASE Serve \/ Arrive \/ FetchFails \/ Age \/ Focus \/ Poll \/ Collect \/ UNCHANGED vars
  BY <1>3 DEF Serve, Arrive, FetchFails, Age, Focus, Poll, Collect, vars, Place
<1>4. ASSUME NEW c, Ask(c) \/ Press(c)
      PROVE  Place'
  BY <1>4 DEF Ask, Press, Place
<1>5. ASSUME NEW d, Cancel(d) \/ Commit(d) \/ Fail(d)
      PROVE  Place'
  BY <1>5 DEF Cancel, Commit, Fail, Place
<1> QED
  BY <1>1, <1>2, <1>3, <1>4, <1>5 DEF Next

-----------------------------------------------------------------------------
(* The cache entry                                                         *)

Entries ==
    [data : (0 .. MaxCalls) \cup {None}, stale : BOOLEAN, failed : BOOLEAN,
     fetch : {"none", "sent", "served"}, snap : 0 .. MaxCalls, old : BOOLEAN]

\* What is there when nothing is loading is as new as promise p, or known to be
\* old and nobody looks at it: the next page that shows the query loads it again.
\* Or it is what the invalidation could not restart.
Settled(e, p, shown) ==
    e.fetch = "none" /\ ~e.failed =>
        IF e.data = None THEN ~shown ELSE e.data >= p \/ e.old \/ (e.stale /\ ~shown)

\* And so is an answer on its way.
AsNew(e, p, shown) ==
    /\ e.fetch = "served" => e.snap >= p \/ e.old
    /\ Settled(e, p, shown)

EntryInv ==
    /\ entry \in Entries
    /\ promised \in 0 .. written
    /\ AsNew(entry, promised, Shown)

\* What mounting, invalidating and loading again make of an entry.
LEMMA Mounted ==
    ASSUME NEW e \in Entries, NEW p \in Nat, NEW n \in Nat, NEW shown \in BOOLEAN,
           AsNew(e, p, shown), Settled(e, n, FALSE)
    PROVE  OnMount(e) \in Entries /\ AsNew(OnMount(e), p, TRUE) /\ Settled(OnMount(e), n, TRUE)
<1>1. CASE e.fetch = "none" /\ (e.data = None \/ e.stale)
  <2>1. OnMount(e) = [e EXCEPT !.fetch = "sent", !.old = FALSE]
    BY <1>1 DEF OnMount, Fetching
  <2> QED
    BY <2>1 DEF Entries, AsNew, Settled
<1>2. CASE ~(e.fetch = "none" /\ (e.data = None \/ e.stale))
  <2>1. OnMount(e) = e
    BY <1>2 DEF OnMount
  <2> QED
    BY <1>2, <2>1 DEF AsNew, Settled
<1> QED
  BY <1>1, <1>2

\* An invalidation keeps the promise p, and what it leaves without a request is
\* ready for any newer promise n.
LEMMA Refetched ==
    ASSUME NEW e \in Entries, NEW p \in Nat, NEW n \in Nat, NEW shown \in BOOLEAN, AsNew(e, p, shown)
    PROVE  /\ Invalidated(e, shown) \in Entries
           /\ AsNew(Invalidated(e, shown), p, shown)
           /\ Settled(Invalidated(e, shown), n, shown)
<1> DEFINE stale == [e EXCEPT !.stale = TRUE]
<1>0. stale \in Entries /\ stale.fetch = e.fetch /\ stale.data = e.data /\ stale.snap = e.snap
      /\ stale.failed = e.failed /\ stale.stale = TRUE /\ stale.old = e.old
  BY DEF Entries
<1>1. Invalidated(e, shown) =
        IF shown /\ e.data # None THEN [stale EXCEPT !.fetch = "sent", !.old = FALSE] ELSE stale
  BY DEF Invalidated, Fetching
<1> HIDE DEF stale
<1>2. CASE shown /\ e.data # None
  BY <1>0, <1>1, <1>2 DEF Entries, AsNew, Settled
<1>3. CASE ~(shown /\ e.data # None)
  BY <1>0, <1>1, <1>3 DEF Entries, AsNew, Settled
<1> QED
  BY <1>2, <1>3

LEMMA NothingCached ==
    ASSUME NEW p \in Nat
    PROVE  /\ Empty \in Entries /\ AsNew(Empty, p, FALSE)
           /\ OnMount(Empty) \in Entries /\ AsNew(OnMount(Empty), p, TRUE)
<1>1. Empty \in Entries /\ AsNew(Empty, p, FALSE)
  BY AdminQueriesAssumption DEF Empty, Entries, AsNew, Settled
<1>2. Settled(Empty, p, FALSE)
  BY <1>1 DEF AsNew
<1> QED
  BY <1>1, <1>2, Mounted

\* A request whose answer is behind the promise n is the exception.
LEMMA OutrunEntry ==
    ASSUME NEW e \in Entries, NEW p \in Nat, NEW n \in Nat, NEW shown \in BOOLEAN,
           AsNew(e, p, shown), Settled(e, n, shown)
    PROVE  /\ Outrun(e, n) \in Entries
           /\ AsNew(Outrun(e, n), p, shown) /\ AsNew(Outrun(e, n), n, shown)
<1>1. CASE e.fetch = "served" /\ e.snap < n
  <2>1. Outrun(e, n) = [e EXCEPT !.old = TRUE]
    BY <1>1 DEF Outrun
  <2> QED
    BY <1>1, <2>1 DEF Entries, AsNew, Settled
<1>2. CASE ~(e.fetch = "served" /\ e.snap < n)
  <2>1. Outrun(e, n) = e
    BY <1>2 DEF Outrun
  <2>2. e.snap \in Nat
    BY AdminQueriesAssumption DEF Entries
  <2> QED
    BY <1>2, <2>1, <2>2 DEF AsNew, Settled
<1> QED
  BY <1>1, <1>2

\* The cache by itself.
LEMMA CacheEntry ==
    ASSUME EntryInv, CallsInv,
           Serve \/ Arrive \/ FetchFails \/ Age \/ Focus \/ Poll \/ Collect \/ UNCHANGED vars
    PROVE  EntryInv'
<1>0. /\ Shown' = Shown /\ promised' = promised /\ written' = written
  BY DEF Serve, Arrive, FetchFails, Age, Focus, Poll, Collect, vars, Shown
<1>1. /\ written \in 0 .. MaxCalls /\ promised \in 0 .. written
      /\ entry \in Entries /\ AsNew(entry, promised, Shown)
  BY WithinBudget DEF EntryInv
<1>2. Empty \in Entries
  BY NothingCached
<1> SUFFICES entry' \in Entries /\ AsNew(entry', promised, Shown)
  BY <1>0, <1>1 DEF EntryInv
<1>3. CASE Serve
  <2>1. entry' = [entry EXCEPT !.fetch = "served", !.snap = written]
    BY <1>3 DEF Serve
  <2>2. entry' \in Entries /\ entry'.fetch = "served" /\ entry'.snap = written
    BY <1>1, <2>1 DEF Entries
  <2>3. written >= promised
    BY <1>1
  <2> QED
    BY <2>2, <2>3 DEF AsNew, Settled
<1>4. CASE Arrive
  <2>1. entry.fetch = "served" /\ entry' = [Empty EXCEPT !.data = entry.snap, !.old = entry.old]
    BY <1>4 DEF Arrive
  <2>2. entry.snap \in 0 .. MaxCalls /\ entry.old \in BOOLEAN /\ (entry.snap >= promised \/ entry.old)
    BY <1>1, <2>1 DEF Entries, AsNew, Settled
  <2>3. /\ entry' \in Entries /\ entry'.fetch = "none" /\ entry'.data = entry.snap
        /\ entry'.old = entry.old
    BY <1>2, <2>1, <2>2 DEF Entries, Empty
  <2>4. entry'.data # None
    BY <2>2, <2>3, AdminQueriesAssumption
  <2> QED
    BY <2>2, <2>3, <2>4 DEF AsNew, Settled
<1>5. CASE FetchFails
  <2>1. PICK stale \in BOOLEAN :
            entry' = [entry EXCEPT !.fetch = "none", !.failed = TRUE, !.snap = 0, !.stale = stale]
    <3>1. (watched \notin Swallows /\ entry.stale) \in BOOLEAN
      OBVIOUS
    <3> QED
      BY <1>5, <3>1 DEF FetchFails
  <2>2. 0 \in 0 .. MaxCalls
    BY AdminQueriesAssumption
  <2>3. entry' \in Entries /\ entry'.fetch = "none" /\ entry'.failed
    BY <1>1, <2>1, <2>2 DEF Entries
  <2> QED
    BY <2>3 DEF AsNew, Settled
<1>6. CASE Age
  BY <1>1, <1>6 DEF Age, Entries, AsNew, Settled
<1>7. CASE Focus \/ Poll
  <2>1. entry' = [entry EXCEPT !.fetch = "sent", !.old = FALSE]
    BY <1>7 DEF Focus, Poll, Fetching
  <2> QED
    BY <1>1, <2>1 DEF Entries, AsNew, Settled
<1>8. CASE Collect
  <2>1. Shown = FALSE /\ entry' = Empty
    BY <1>8 DEF Collect, Shown
  <2>2. promised \in Nat
    BY <1>1
  <2> QED
    BY <2>1, <2>2, NothingCached
<1>9. CASE UNCHANGED vars
  BY <1>1, <1>9 DEF vars
<1> QED
  BY <1>3, <1>4, <1>5, <1>6, <1>7, <1>8, <1>9

\* A page that does not show the query does not look at it.
LEMMA LookedAway ==
    ASSUME NEW e \in Entries, NEW p \in Nat, NEW shown \in BOOLEAN, AsNew(e, p, shown)
    PROVE  AsNew(e, p, FALSE)
  BY DEF AsNew, Settled

LEMMA VisitEntry ==
    ASSUME EntryInv, CallsInv, NEW p, Visit(p)
    PROVE  EntryInv'
<1>1. /\ promised \in Nat /\ entry \in Entries /\ AsNew(entry, promised, Shown) /\ Shown \in BOOLEAN
  BY WithinBudget DEF EntryInv, Shown
<1>2. CASE watched \in Mounts(p)
  <2>1. entry' = OnMount(entry) /\ Shown' = TRUE /\ promised' = promised /\ written' = written
    BY <1>2 DEF Visit, Shown
  <2> QED
    BY <1>1, <2>1, LookedAway, Mounted DEF EntryInv, AsNew
<1>3. CASE watched \notin Mounts(p)
  <2>1. entry' = entry /\ Shown' = FALSE /\ promised' = promised /\ written' = written
    BY <1>3 DEF Visit, Shown
  <2> QED
    BY <1>1, <2>1, LookedAway DEF EntryInv
<1> QED
  BY <1>2, <1>3

\* What onSuccess leaves in the cache: the promise p is kept, and if the call
\* refreshes the query, what is left without a request is ready for any promise n.
LEMMA RefreshedEntry ==
    ASSUME EntryInv, CallsInv, NEW c \in DOMAIN AdminCalls, NEW to, NEW n \in Nat,
           \/ n = promised
           \/ watched \in AdminCalls[c].invalidates \cup AdminCalls[c].removes
    PROVE  /\ Refreshed(c, to) \in Entries
           /\ AsNew(Refreshed(c, to), promised, watched \in Mounts(to))
           /\ Settled(Refreshed(c, to), n, watched \in Mounts(to))
<1> DEFINE shown == watched \in Mounts(to)
<1>1. /\ promised \in Nat /\ entry \in Entries /\ AsNew(entry, promised, Shown)
      /\ Shown \in BOOLEAN /\ shown \in BOOLEAN
  BY WithinBudget DEF EntryInv, Shown
<1>2. CASE watched \in AdminCalls[c].removes
  <2>1. Refreshed(c, to) = IF shown THEN OnMount(Empty) ELSE Empty
    BY <1>2 DEF Refreshed
  <2> HIDE DEF shown
  <2>2. ASSUME NEW m \in Nat
        PROVE  Refreshed(c, to) \in Entries /\ AsNew(Refreshed(c, to), m, shown)
    <3>1. CASE shown
      <4>1. shown = TRUE
        BY <1>1, <3>1
      <4> QED
        BY <2>1, <4>1, NothingCached
    <3>2. CASE ~shown
      <4>1. shown = FALSE
        BY <1>1, <3>2
      <4> QED
        BY <2>1, <4>1, NothingCached
    <3> QED
      BY <3>1, <3>2
  <2>3. Refreshed(c, to) \in Entries /\ AsNew(Refreshed(c, to), promised, shown)
    BY <1>1, <2>2
  <2>4. AsNew(Refreshed(c, to), n, shown)
    BY <2>2
  <2> QED
    BY <2>3, <2>4 DEF shown, AsNew
<1>3. CASE watched \notin AdminCalls[c].removes /\ watched \in AdminCalls[c].invalidates
  <2> DEFINE left0 == Invalidated(entry, Shown)
  <2>1. Refreshed(c, to) = IF to # page /\ shown /\ ~Shown THEN OnMount(Invalidated(entry, FALSE))
                           ELSE left0
    BY <1>3 DEF Refreshed
  <2>2. to = page => shown = Shown
    BY DEF Shown
  <2>3. left0 \in Entries /\ AsNew(left0, promised, Shown) /\ Settled(left0, n, Shown)
    BY <1>1, Refetched
  <2> HIDE DEF shown
  <2>4. CASE to # page /\ shown /\ ~Shown
    <3>1. Shown = FALSE /\ shown = TRUE
      BY <1>1, <2>4
    <3>2. Invalidated(entry, FALSE) = left0
      BY <3>1
    <3> HIDE DEF left0
    <3>3. Refreshed(c, to) = OnMount(left0)
      BY <2>1, <2>4, <3>2
    <3>4. Settled(left0, n, FALSE)
      BY <2>3, <3>1
    <3>5. OnMount(left0) \in Entries /\ AsNew(OnMount(left0), promised, TRUE)
          /\ Settled(OnMount(left0), n, TRUE)
      BY <1>1, <2>3, <3>4, Mounted
    <3> QED
      BY <3>1, <3>3, <3>5 DEF shown
  <2>5. CASE ~(to # page /\ shown /\ ~Shown)
    <3> HIDE DEF left0
    <3>1. Refreshed(c, to) = left0
      BY <2>1, <2>5
    <3>2. shown => Shown
      BY <1>1, <2>2, <2>5
    <3>3. AsNew(left0, promised, shown) /\ Settled(left0, n, shown)
      BY <1>1, <2>3, <3>2 DEF AsNew, Settled
    <3> QED
      BY <2>3, <3>1, <3>3 DEF shown
  <2> QED
    BY <2>4, <2>5
<1>4. CASE watched \notin AdminCalls[c].removes /\ watched \notin AdminCalls[c].invalidates
  <2>1. Refreshed(c, to) = IF shown THEN OnMount(entry) ELSE entry
    BY <1>4 DEF Refreshed
  <2>2. n = promised
    BY <1>4
  <2> HIDE DEF shown
  <2>3. AsNew(entry, promised, FALSE)
    BY <1>1, LookedAway
  <2>4. CASE shown
    <3>1. Settled(entry, promised, FALSE)
      BY <2>3 DEF AsNew
    <3>2. OnMount(entry) \in Entries /\ AsNew(OnMount(entry), promised, TRUE)
      BY <1>1, <3>1, Mounted
    <3>3. shown = TRUE
      BY <1>1, <2>4
    <3> QED
      BY <2>1, <2>2, <3>2, <3>3 DEF shown, AsNew
  <2>5. CASE ~shown
    <3>1. shown = FALSE
      BY <1>1, <2>5
    <3> QED
      BY <1>1, <2>1, <2>2, <2>3, <3>1 DEF shown, AsNew
  <2> QED
    BY <2>4, <2>5
<1> QED
  BY <1>2, <1>3, <1>4

LEMMA SucceedEntry ==
    ASSUME EntryInv, CallsInv, Place, NEW d \in calls, Succeed(d)
    PROVE  EntryInv'
<1> DEFINE to == IF AdminCalls[d.call].to = "same" THEN page ELSE AdminCalls[d.call].to
           after == Refreshed(d.call, to)
<1>1. /\ d.call \in DOMAIN AdminCalls /\ d.write \in Nat /\ d.write <= written
      /\ written \in Nat /\ promised \in 0 .. written
  BY DEF CallsInv, Mutations, Budget, EntryInv
<1>2. /\ page' = to /\ UNCHANGED <<watched, written>>
      /\ IF Promises(d.call)
         THEN /\ entry' = Outrun(after, d.write)
              /\ promised' = IF d.write > promised THEN d.write ELSE promised
         ELSE entry' = after /\ promised' = promised
  BY DEF Succeed
<1> HIDE DEF to
<1>3. Shown' = (watched \in Mounts(to)) /\ Shown' \in BOOLEAN
  BY <1>2 DEF Shown
<1>4. promised \in Nat
  BY <1>1
<1>5. CASE ~Promises(d.call)
  <2>1. after \in Entries /\ AsNew(after, promised, watched \in Mounts(to))
    BY <1>1, <1>4, RefreshedEntry
  <2> QED
    BY <1>1, <1>2, <1>3, <1>5, <2>1 DEF EntryInv
<1>6. CASE Promises(d.call)
  <2>1. watched \in AdminCalls[d.call].invalidates \cup AdminCalls[d.call].removes
    BY <1>1, <1>6, EveryCall DEF Promises, Covered, Affects
  <2>2. /\ after \in Entries /\ AsNew(after, promised, watched \in Mounts(to))
        /\ Settled(after, d.write, watched \in Mounts(to))
    BY <1>1, <2>1, RefreshedEntry
  <2> HIDE DEF after
  <2>3. /\ entry' \in Entries
        /\ AsNew(entry', promised, Shown') /\ AsNew(entry', d.write, Shown')
    BY <1>1, <1>2, <1>3, <1>4, <1>6, <2>2, OutrunEntry
  <2>4. promised' \in {promised, d.write} /\ promised' \in 0 .. written
    BY <1>1, <1>2, <1>6
  <2> QED
    BY <1>2, <2>3, <2>4 DEF EntryInv
<1> QED
  BY <1>5, <1>6

LEMMA EntryNext ==
    ASSUME EntryInv, CallsInv, Place, [Next]_vars
    PROVE  EntryInv'
<1>1. /\ promised \in Nat /\ written \in Nat /\ entry \in Entries
      /\ AsNew(entry, promised, Shown) /\ Shown \in BOOLEAN
  BY WithinBudget DEF EntryInv, Shown
<1>2. ASSUME NEW c, Ask(c) \/ Press(c)
      PROVE  EntryInv'
  BY <1>2 DEF Ask, Press, EntryInv, Shown
<1>3. ASSUME NEW d, Cancel(d)
      PROVE  EntryInv'
  BY <1>3 DEF Cancel, EntryInv, Shown
<1>4. ASSUME NEW d \in calls, Commit(d)
      PROVE  EntryInv'
  <2>1. written' \in {written, written + 1} /\ UNCHANGED <<watched, page, entry, promised>>
    BY <1>4 DEF Commit
  <2>2. promised \in 0 .. written'
    BY <1>1, <2>1 DEF EntryInv
  <2> QED
    BY <2>1, <2>2 DEF EntryInv, Shown
<1>5. ASSUME NEW d \in calls, Fail(d)
      PROVE  EntryInv'
  <2>1. entry' \in {entry, Invalidated(entry, Shown)} /\ UNCHANGED <<watched, page, promised, written>>
    BY <1>5 DEF Fail
  <2>2. Invalidated(entry, Shown) \in Entries /\ AsNew(Invalidated(entry, Shown), promised, Shown)
    BY <1>1, Refetched
  <2> QED
    BY <1>1, <2>1, <2>2 DEF EntryInv, Shown
<1> QED
  BY <1>2, <1>3, <1>4, <1>5, CacheEntry, VisitEntry, SucceedEntry DEF Next

-----------------------------------------------------------------------------
(* Theorems                                                                *)

QueriesInv == Place /\ CallsInv /\ EntryInv

LEMMA QueriesInit ==
    ASSUME Init
    PROVE  QueriesInv
<1>1. /\ watched \in Watched /\ page = "outside" /\ entry = Empty /\ calls = {}
      /\ written = 0 /\ promised = 0 /\ left \in Nat /\ left <= MaxCalls
  BY AdminQueriesAssumption DEF Init
<1>2. Place
  BY <1>1 DEF Place, Pages
<1>3. CallsInv
  <2>1. Sent = {} /\ Cardinality(Sent) = 0 /\ IsFiniteSet(calls)
    BY <1>1, FS_EmptySet DEF Sent
  <2>2. Budget
    BY <1>1, <2>1 DEF Budget
  <2> QED
    BY <1>1, <2>1, <2>2 DEF CallsInv, OneOfEach
<1>4. EntryInv
  <2>1. Shown = FALSE
    <3>1. watched \notin Mounts(page)
      BY <1>1, OnEveryPage
    <3> QED
      BY <3>1 DEF Shown
  <2>2. entry \in Entries /\ AsNew(entry, promised, Shown)
    BY <1>1, <2>1, NothingCached
  <2> QED
    BY <1>1, <2>2 DEF EntryInv
<1> QED
  BY <1>2, <1>3, <1>4 DEF QueriesInv

\* The page, the mutations under way and the cache entry stay consistent at every
\* step of the console: the strengthening both theorems below rest on.
THEOREM QueriesInductive == Spec => []QueriesInv
<1>1. QueriesInv /\ [Next]_vars => QueriesInv'
  BY CallsNext, PlaceNext, EntryNext DEF QueriesInv
<1> QED
  BY <1>1, QueriesInit, PTL DEF Spec

\* Whoever was told that a change succeeded sees it on the page of the button,
\* on the page it led to and on the list above it, once nothing is loading,
\* except for the pairs of LeftToTime and for answers that were given before the
\* change to a request no invalidation restarts: however many mutations there
\* are, and whatever refetches and navigations do meanwhile.
THEOREM OwnChangesAreShown == Spec => []OwnWritesShown
<1>1. QueriesInv => OwnWritesShown
  BY DEF QueriesInv, EntryInv, AsNew, Settled, OwnWritesShown
<1> QED
  BY <1>1, QueriesInductive, PTL

\* The types, and one request of a mutation object at a time: every button shows
\* its isPending as disabled, whichever dialogs were left open meanwhile.
THEOREM QueriesTyped == Spec => []TypeOK
<1>1. QueriesInv => TypeOK
  BY WithinBudget DEF QueriesInv, Place, CallsInv, EntryInv, Entries, Mutations, OneOfEach, TypeOK
<1> QED
  BY <1>1, QueriesInductive, PTL

=============================================================================
