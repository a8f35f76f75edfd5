------------------------------- MODULE AuditLog -------------------------------
(***************************************************************************)
(* The audit page: the log of every mutation, newest first, filtered by    *)
(* the type of the resource and the actor, and read a page at a time.  The *)
(* page keeps the pages it has left behind and shows them before the       *)
(* answer to its current query, which comes out of a cache: while a query  *)
(* has no answer the last one stays on the screen in its place.            *)
(***************************************************************************)
EXTENDS Sublists, SequencesExt

CONSTANTS
    Log,        \* the events the registry comes to record, in order: [type, actor]
    AuditPage,  \* rows of an answer
    MaxQueries, \* bound: the queries the page makes
    NoFilter    \* no filter, no cursor, no answer

ASSUME AuditAssumption ==
    /\ Log \in Seq([type : STRING, actor : STRING]) /\ Log # <<>>
    /\ AuditPage \in Nat \ {0}
    /\ NoFilter \notin Int \cup STRING \cup [rows : Seq(Nat), next : Nat \cup {NoFilter}]

Events == DOMAIN Log
Types == {Log[i].type : i \in Events} \cup {NoFilter}
Actors == {Log[i].actor : i \in Events} \cup {NoFilter}

VARIABLES
    recorded,      \* how many events are recorded
    resourceType,  \* the two filters; the actor is applied
    actor,         \*   300 ms after the last keystroke
    appliedActor,
    pages,         \* the rows of the pages left behind
    cursor,        \* the event below which the current page starts
    answers,       \* the cache: for each query its answer, or NoFilter before it
    asked,         \* the queries under way
    shown          \* the last query whose answer was shown

auditVars == <<recorded, resourceType, actor, appliedActor, pages, cursor, answers, asked, shown>>

Queries == [type : Types, actor : Actors, cursor : Events \cup {NoFilter}]
Query(t, a, c) == [type |-> t, actor |-> a, cursor |-> c]
Current == Query(resourceType, appliedActor, cursor)

NoRows == [rows |-> <<>>, next |-> NoFilter]

AuditInit ==
    /\ recorded = Len(Log) - 1
    /\ resourceType = NoFilter /\ actor = NoFilter /\ appliedActor = NoFilter
    /\ pages = <<>>
    /\ cursor = NoFilter
    /\ answers = [k \in Queries |-> NoFilter]
    /\ shown = Current
    /\ asked = {Current}

-----------------------------------------------------------------------------
(* The server                                                              *)

Matches(i, t, a) == (t = NoFilter \/ Log[i].type = t) /\ (a = NoFilter \/ Log[i].actor = a)

ListAuditEvents(k) ==
    LET found == NewestFirst({i \in 1..recorded : /\ Matches(i, k.type, k.actor)
                                                  /\ k.cursor # NoFilter => i < k.cursor})
    IN  IF Len(found) > AuditPage
        THEN [rows |-> SubSeq(found, 1, AuditPage), next |-> found[AuditPage]]
        ELSE [rows |-> found, next |-> NoFilter]

\* Somebody changes something in the registry.
Record ==
    /\ recorded < Len(Log)
    /\ recorded' = recorded + 1
    /\ UNCHANGED <<resourceType, actor, appliedActor, pages, cursor, answers, asked, shown>>

-----------------------------------------------------------------------------
(* What the page shows                                                     *)

data == IF answers[Current] # NoFilter THEN answers[Current]
        ELSE IF Current \in asked /\ answers[shown] # NoFilter THEN answers[shown]
        ELSE NoRows

isFetching == Current \in asked

allRows == IF cursor = NoFilter THEN data.rows ELSE pages \o data.rows

-----------------------------------------------------------------------------
(* Its handlers                                                            *)

\* A render with another query: an answer older than 30 s, or none, is asked
\* for; an answer there is becomes the last one shown.
Renders ==
    /\ Cardinality(asked \cup {Current'} \cup {k \in Queries : answers[k] # NoFilter}) <= MaxQueries
    /\ \/ asked' = asked \cup {Current'}
       \/ answers[Current'] # NoFilter /\ asked' = asked
    /\ shown' = IF answers[Current'] # NoFilter THEN Current' ELSE shown
    /\ UNCHANGED <<recorded, answers>>

Restart == pages' = <<>> /\ cursor' = NoFilter

\* Mutant: the pages of the old filter stay.
ChooseTypeOnly ==
    /\ resourceType' \in Types \ {resourceType}
    /\ UNCHANGED <<pages, cursor, actor, appliedActor>>
    /\ Renders

ChooseType ==
    /\ resourceType' \in Types \ {resourceType}
    /\ Restart
    /\ UNCHANGED <<actor, appliedActor>>
    /\ Renders

TypeActor ==
    /\ actor' \in Actors \ {actor}
    /\ UNCHANGED <<recorded, resourceType, appliedActor, pages, cursor, answers, asked, shown>>

ApplyActor ==
    /\ actor # appliedActor
    /\ appliedActor' = actor
    /\ Restart
    /\ UNCHANGED <<resourceType, actor>>
    /\ Renders

resetFilters ==
    /\ resourceType' = NoFilter /\ actor' = NoFilter /\ appliedActor' = NoFilter
    /\ Restart
    /\ Current' # Current \/ actor # NoFilter
    /\ Renders

loadMore ==
    /\ data.next # NoFilter
    /\ ~isFetching
    /\ pages' = pages \o data.rows
    /\ cursor' = data.next
    /\ UNCHANGED <<resourceType, actor, appliedActor>>
    /\ Renders

\* The window gets the focus back after a while.
Refetch ==
    /\ Current \notin asked
    /\ asked' = asked \cup {Current}
    /\ UNCHANGED <<recorded, resourceType, actor, appliedActor, pages, cursor, answers, shown>>

\* An answer, an HTTP error (which queryFn turns into an answer with no rows),
\* or a request that failed twice on its way, which leaves the cache as it is.
Arrive(k) ==
    /\ k \in asked
    /\ asked' = asked \ {k}
    /\ \/ answers' = [answers EXCEPT ![k] = ListAuditEvents(k)]
       \/ answers' = [answers EXCEPT ![k] = NoRows]
       \/ UNCHANGED answers
    /\ shown' = IF k = Current /\ answers'[k] # NoFilter THEN k ELSE shown
    /\ UNCHANGED <<recorded, resourceType, actor, appliedActor, pages, cursor>>

AuditNext ==
    \/ Record
    \/ ChooseType
    \/ TypeActor
    \/ ApplyActor
    \/ resetFilters
    \/ loadMore
    \/ Refetch
    \/ \E k \in asked : Arrive(k)

=============================================================================
