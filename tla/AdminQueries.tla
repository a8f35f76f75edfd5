---------------------------- MODULE AdminQueries ----------------------------
(***************************************************************************)
(* The query cache behind the admin console.  A user opens pages and       *)
(* presses buttons; requests are answered late, in any order or not at     *)
(* all; cached answers age.  The queries of the cache do not influence one *)
(* another, so a behaviour follows one of them, "watched", and an answer   *)
(* is the number of its facts' writes it contains.                         *)
(*                                                                         *)
(* The cache itself (staleness, refetch on mount and focus, what an        *)
(* invalidation does to a request under way) is the library's, modelled    *)
(* from its use in main.tsx.                                               *)
(***************************************************************************)
EXTENDS AdminPages, Naturals

CONSTANTS
    Watched,    \* the queries to follow
    Busy,       \* those followed through more than one call
    MaxCalls,   \* buttons pressed in a behaviour
    None

ASSUME AdminQueriesAssumption ==
    /\ Watched \subseteq Queries
    /\ Busy \subseteq Watched
    /\ MaxCalls \in Nat \ {0}
    /\ None \notin 0 .. MaxCalls

VARIABLES
    watched,   \* the query that is followed
    page,      \* the page on the screen
    entry,     \* its cache entry
    calls,     \* the mutations that are asked for or under way
    written,   \* how many writes to its facts the server has committed
    promised,  \* the last of them the user was told of on a page that shows it
    left       \* presses left

vars == <<watched, page, entry, calls, written, promised, left>>

\* Nothing in the cache.  "old" is for the properties: the answer that is there
\* or on its way was given before a change the user has been told of since.
Empty ==
    [data |-> None, stale |-> FALSE, failed |-> FALSE, fetch |-> "none", snap |-> 0, old |-> FALSE]

\* Pages that differ for the watched query: those that offer or follow a call
\* that touches it, one that merely shows it, and one outside the console.
Touching ==
    [q \in Queries |->
        {c \in DOMAIN AdminCalls :
            Affects(c, q) \/ q \in AdminCalls[c].invalidates \cup AdminCalls[c].removes}]

Near ==
    [q \in Queries |->
        {"outside", CHOOSE p \in Pages : q \in Mounts(p)}
        \cup UNION {AdminCalls[c].on \cup ({AdminCalls[c].to} \ {"same"}) : c \in Touching[q]}]

Shown == watched \in Mounts(page)

Init ==
    /\ watched \in Watched
    /\ page = "outside"
    /\ entry = Empty
    /\ calls = {}
    /\ written = 0
    /\ promised = 0
    /\ left = IF watched \in Busy THEN MaxCalls ELSE 1

-----------------------------------------------------------------------------
(* The cache                                                               *)

Fetching(e) == [e EXCEPT !.fetch = "sent", !.old = FALSE]

\* A page is mounted: load what is missing or stale, unless that is under way.
OnMount(e) ==
    IF e.fetch = "none" /\ (e.data = None \/ e.stale) THEN Fetching(e) ELSE e

\* An invalidation refetches a query on the screen, and restarts a request
\* under way unless it is the first load, which goes on as it is.
Invalidated(e, shown) ==
    LET stale == [e EXCEPT !.stale = TRUE] IN
    IF shown /\ e.data # None THEN Fetching(stale) ELSE stale

Serve ==
    /\ entry.fetch = "sent"
    /\ entry' = [entry EXCEPT !.fetch = "served", !.snap = written]
    /\ UNCHANGED <<watched, page, calls, written, promised, left>>

Arrive ==
    /\ entry.fetch = "served"
    /\ entry' = [Empty EXCEPT !.data = entry.snap, !.old = entry.old]
    /\ UNCHANGED <<watched, page, calls, written, promised, left>>

\* The request and its retry fail.  Two queries show an empty answer then.
FetchFails ==
    /\ entry.fetch # "none"
    /\ entry' = [entry EXCEPT !.fetch = "none", !.failed = TRUE, !.snap = 0,
                              !.stale = watched \notin Swallows /\ entry.stale]
    /\ UNCHANGED <<watched, page, calls, written, promised, left>>

\* staleTime passes.
Age ==
    /\ entry.data # None /\ ~entry.stale
    /\ entry' = [entry EXCEPT !.stale = TRUE]
    /\ UNCHANGED <<watched, page, calls, written, promised, left>>

\* The window gets the focus.
Focus ==
    /\ Shown
    /\ entry.stale /\ entry.fetch = "none"
    /\ entry' = Fetching(entry)
    /\ UNCHANGED <<watched, page, calls, written, promised, left>>

\* Mutant: the badge is loaded with the page only.
PollNever == FALSE /\ UNCHANGED vars

\* "Polls every 30s so a reviewer who leaves the admin open notices new
\* submissions."
Poll ==
    /\ watched = "admin-review-queue-count"
    /\ Shown
    /\ entry.fetch = "none"
    /\ entry' = Fetching(entry)
    /\ UNCHANGED <<watched, page, calls, written, promised, left>>

\* An entry nobody shows is dropped after a while.
Collect ==
    /\ ~Shown
    /\ entry # Empty
    /\ entry' = Empty
    /\ UNCHANGED <<watched, page, calls, written, promised, left>>

-----------------------------------------------------------------------------
(* The user                                                                *)

\* Dialogs and forms close with their page.
Closed == {d \in calls : d.at # "asked"}

Visit(p) ==
    /\ p \in Near[watched] \ {page}
    /\ page' = p
    /\ entry' = IF watched \in Mounts(p) THEN OnMount(entry) ELSE entry
    /\ calls' = Closed
    /\ UNCHANGED <<watched, written, promised, left>>

\* The page shows its buttons.
Ready ==
    page \in DOMAIN MainQuery /\ watched = MainQuery[page] => entry.data # None /\ ~entry.failed

\* No request of the same mutation object is under way.
Unlocked(c) ==
    \A d \in calls : AdminCalls[d.call].lock = AdminCalls[c].lock => d.at = "asked"

\* A button opens its dialog or form; one at a time is open.
Ask(c) ==
    /\ \A d \in calls : d.at # "asked"
    /\ page \in AdminCalls[c].on /\ Ready
    /\ AdminCalls[c].asks
    /\ left > 0 /\ Unlocked(c)
    /\ calls' = calls \cup {[call |-> c, at |-> "asked", write |-> 0]}
    /\ UNCHANGED <<watched, page, entry, written, promised, left>>

Cancel(d) ==
    /\ d.at = "asked"
    /\ calls' = calls \ {d}
    /\ UNCHANGED <<watched, page, entry, written, promised, left>>

Press(c) ==
    LET asked == [call |-> c, at |-> "asked", write |-> 0] IN
    /\ page \in AdminCalls[c].on /\ Ready
    /\ AdminCalls[c].asks => asked \in calls
    /\ left > 0 /\ Unlocked(c)
    /\ calls' = (calls \ {asked}) \cup {[asked EXCEPT !.at = "sent"]}
    /\ left' = left - 1
    /\ UNCHANGED <<watched, page, entry, written, promised>>

\* The server commits the call.
Commit(d) ==
    /\ d.at = "sent"
    /\ written' = IF Affects(d.call, watched) THEN written + 1 ELSE written
    /\ calls' = (calls \ {d}) \cup {[d EXCEPT !.at = "done", !.write = written']}
    /\ UNCHANGED <<watched, page, entry, promised, left>>

\* What onSuccess does to the cache, on the page it leads to.
Refreshed(c, p) ==
    LET shown == watched \in Mounts(p) IN
    IF watched \in AdminCalls[c].removes
    THEN IF shown THEN OnMount(Empty) ELSE Empty
    ELSE IF watched \in AdminCalls[c].invalidates
    THEN IF p # page /\ shown /\ ~Shown THEN OnMount(Invalidated(entry, FALSE))
         ELSE Invalidated(entry, Shown)
    ELSE IF shown THEN OnMount(entry) ELSE entry

\* What the code leaves to staleTime: pages of what was deleted, or created in
\* its place; three lists after a creation, the list of entries after a direct
\* publication; the publisher switcher; the badge after calls that are not made
\* from the workflow's own buttons.
LeftToTime ==
    {"deleteGroup"} \X GroupQueries
    \cup {"deletePublisher"} \X (PublisherQueries \cup {"admin-grants"})
    \cup {"deleteServer", "createServer"} \X {"admin-mcp-detail", "admin-versions"}
    \cup {<<"createUser", "admin-users">>, <<"createGroup", "admin-groups">>,
          <<"createPublisher", "admin-publishers">>, <<"publish", "admin-mcp">>}
    \cup {"createPublisher", "editPublisher", "deletePublisher", "saveSettings"}
             \X {"all-publishers-switcher"}
    \cup (DOMAIN BulkCalls \cup {"deleteServer", "createServer", "deletePublisher"})
             \X {"admin-review-queue-count"}

\* Where the user would look for what has changed: the page of the button, the
\* page it leads to, and the list above it.
Around(call) ==
    LET at == call.on \cup ({call.to} \ {"same"})
    IN  at \cup {ParentPage[p] : p \in at \cap DOMAIN ParentPage}

Promises(c) ==
    /\ Affects(c, watched) /\ <<c, watched>> \notin LeftToTime
    /\ \E p \in Around(AdminCalls[c]) : watched \in Mounts(p)

\* The answer under way was given before write n.
Outrun(e, n) == IF e.fetch = "served" /\ e.snap < n THEN [e EXCEPT !.old = TRUE] ELSE e

Succeed(d) ==
    LET to == IF AdminCalls[d.call].to = "same" THEN page ELSE AdminCalls[d.call].to IN
    /\ d.at = "done"
    /\ calls' = (IF to = page THEN calls ELSE Closed) \ {d}
    /\ page' = to
    /\ IF Promises(d.call)
       THEN /\ entry' = Outrun(Refreshed(d.call, to), d.write)
            /\ promised' = IF d.write > promised THEN d.write ELSE promised
       ELSE entry' = Refreshed(d.call, to) /\ promised' = promised
    /\ UNCHANGED <<watched, written, left>>

\* The server refuses, or its answer is lost, or one of several requests fails.
Fail(d) ==
    /\ d.at \in {"sent", "done"}
    /\ calls' = calls \ {d}
    /\ entry' = IF AdminCalls[d.call].onError /\ watched \in AdminCalls[d.call].invalidates
                THEN Invalidated(entry, Shown) ELSE entry
    /\ UNCHANGED <<watched, page, written, promised, left>>

Next ==
    \/ Serve \/ Arrive \/ FetchFails \/ Age \/ Focus \/ Poll \/ Collect
    \/ \E p \in Near[watched] : Visit(p)
    \/ \E c \in Touching[watched] : Ask(c) \/ Press(c)
    \/ \E d \in calls : Cancel(d) \/ Commit(d) \/ Succeed(d) \/ Fail(d)

\* The timer of the poll fires; of requests sent again and again some are
\* answered, and some answers arrive.
Fairness == WF_vars(Poll) /\ SF_vars(Serve) /\ SF_vars(Arrive)

Spec == Init /\ [][Next]_vars /\ Fairness

-----------------------------------------------------------------------------
(* Properties                                                              *)

\* Types; a mutation object has one request under way (every button shows its
\* isPending as disabled).
TypeOK ==
    /\ watched \in Watched
    /\ page \in Pages
    /\ entry \in [data : 0 .. MaxCalls \cup {None}, stale : BOOLEAN, failed : BOOLEAN,
                  fetch : {"none", "sent", "served"}, snap : 0 .. MaxCalls, old : BOOLEAN]
    /\ calls \subseteq [call : DOMAIN AdminCalls, at : {"asked", "sent", "done"}, write : 0 .. MaxCalls]
    /\ \A c, d \in calls :
          c # d /\ c.at # "asked" /\ d.at # "asked" => AdminCalls[c.call].lock # AdminCalls[d.call].lock
    /\ written \in 0 .. MaxCalls
    /\ promised \in 0 .. written
    /\ left \in 0 .. MaxCalls

\* Whoever was told that a change succeeded sees it on the page of the button,
\* on the page it led to and on the list above it, once nothing is loading
\* there and the last load did not fail, however refetches on focus, further
\* changes and navigation interleave.  There are two exceptions.  The pairs of
\* LeftToTime promise nothing.  And an invalidation restarts neither the first
\* load of a query nor a request of a page that was left: if the server had
\* answered it before the change, its answer is shown, until the query is asked
\* for again.  (onSuccess of the pages under pages/admin)
OwnWritesShown ==
    Shown /\ entry.fetch = "none" /\ ~entry.failed => entry.data >= promised \/ entry.old

\* The review badge of a console that is left open shows the queue as it is,
\* whoever changed it ("notices new submissions", use-review-queue-count.ts).
BadgeCatchesUp ==
    (watched = "admin-review-queue-count" /\ <>[]Shown) => []<>(entry.data = written /\ ~entry.failed)

=============================================================================
