------------------------------ MODULE ServerList ------------------------------
(***************************************************************************)
(* The admin list of MCP servers: the filter bar, whose text goes into the *)
(* URL 300 ms after the last keystroke and comes back from it, the rows of *)
(* the URL's filters, the ticks, which outlive the rows, and the bulk      *)
(* actions on what is ticked.  One text filter and the status stand for    *)
(* all filters; a listing is one page.                                     *)
(***************************************************************************)
EXTENDS Integers, FiniteSets

CONSTANTS
    Servers,   \* the entries
    NoText,    \* the empty text filter
    Finds,     \* the entries each text finds
    Nothing,   \* no timer, no dialog, no listing
    MaxTyping, \* bound: the keystrokes in the text filter
    MaxLists   \* bound: the filters whose rows are asked for

Texts == DOMAIN Finds
Filters == [q : Texts, status : {"", "published"}]
NoFilters == [q |-> NoText, status |-> ""]

ASSUME ServerListAssumption ==
    /\ NoText \in Texts /\ Nothing \notin Filters
    /\ \A q \in Texts : Finds[q] \subseteq Servers
    /\ MaxTyping \in Nat

VARIABLES
    url,       \* the filters in the URL
    text,      \* the text in the filter bar
    typed,     \* how many keystrokes there have been
    timer,     \* the filters a keystroke will navigate to
    state,     \* the server: each entry's status, or "deleted"
    listings,  \* the cache: the rows of each filter, or Nothing
    loading,   \* the filters whose rows are being fetched
    failed,    \* whether the last fetch of the rows on the screen failed
    ticked,    \* selectedIds
    confirm,   \* the bulk action whose dialog is open
    bulk       \* the bulk action under way: its requests open, and whether one failed

listVars == <<url, text, typed, timer, state, listings, loading, failed, ticked, confirm, bulk>>

Idle == [action |-> "none", open |-> {}, failed |-> FALSE]

ListInit ==
    /\ url = NoFilters
    /\ text = NoText
    /\ typed = 0
    /\ timer = Nothing
    /\ state = [s \in Servers |-> "published"]
    /\ listings = [f \in Filters |-> Nothing]
    /\ loading = {url}
    /\ failed = FALSE
    /\ ticked = {}
    /\ confirm = Nothing
    /\ bulk = Idle

-----------------------------------------------------------------------------
(* The filter bar                                                          *)

\* Another URL overwrites the text, and fetches its rows unless they are
\* there and not old; the age of a listing is not kept, nor a failure.
Go(to) ==
    /\ Cardinality({to} \cup loading \cup {f \in Filters : listings[f] # Nothing}) <= MaxLists
    /\ url' = to
    /\ text' = IF to # url THEN to.q ELSE text
    /\ \/ loading' = loading \cup {to}
       \/ listings[to] # Nothing /\ UNCHANGED loading
    /\ failed' = (failed /\ to = url)
    /\ UNCHANGED <<typed, state, listings, ticked, confirm, bulk>>

\* The timer keeps the filters as they were at the keystroke.
TypeText ==
    \E x \in Texts \ {text} :
        /\ confirm = Nothing
        /\ typed < MaxTyping /\ typed' = typed + 1
        /\ text' = x
        /\ timer' = [url EXCEPT !.q = x]
        /\ UNCHANGED <<url, state, listings, loading, failed, ticked, confirm, bulk>>

TimerFires ==
    /\ timer # Nothing
    /\ Go(timer)
    /\ timer' = Nothing

ApplyNow(to) == confirm = Nothing /\ Go(to) /\ timer' = Nothing

ChooseStatus == \E f \in Filters : f.q = url.q /\ f.status # url.status /\ ApplyNow(f)

Submit == ApplyNow([url EXCEPT !.q = text])

\* The timer is left running.
ClearFilters ==
    /\ confirm = Nothing
    /\ text # NoText \/ url.status # ""
    /\ IF url # NoFilters THEN Go(NoFilters)
       ELSE /\ text' = NoText
            /\ UNCHANGED <<url, typed, state, listings, loading, failed, ticked, confirm, bulk>>
    /\ UNCHANGED timer

\* The link in the sidebar.  (The bar replaces its history entries, so Back
\* leaves the page.)
Navigated == url # NoFilters /\ Go(NoFilters) /\ UNCHANGED timer

-----------------------------------------------------------------------------
(* The rows                                                                *)

Matching(f) == {s \in Finds[f.q] : state[s] # "deleted" /\ f.status \in {"", state[s]}}

Rows == IF listings[url] = Nothing THEN {} ELSE listings[url]

TableShown == Rows # {} /\ ~failed

\* The answer to a fetch, or its failure, which shows an error in the place
\* of the rows.
ListArrives ==
    \E f \in loading :
        /\ loading' = loading \ {f}
        /\ \/ /\ listings' = [listings EXCEPT ![f] = Matching(f)]
              /\ failed' = (failed /\ f # url)
           \/ /\ failed' = (failed \/ f = url)
              /\ UNCHANGED listings
        /\ UNCHANGED <<url, text, typed, timer, state, ticked, confirm, bulk>>

\* A row's box, the header's, or the bar's cross.
Tick ==
    /\ confirm = Nothing
    /\ TableShown
    /\ ticked' \in {ticked \cup {s} : s \in Rows \ ticked} \cup {ticked \ {s} : s \in ticked \cap Rows}
                   \cup {IF Rows = ticked THEN {} ELSE Rows, {}}
    /\ ticked' # ticked
    /\ UNCHANGED <<url, text, typed, timer, state, listings, loading, failed, confirm, bulk>>

-----------------------------------------------------------------------------
(* Bulk actions                                                            *)

BarShown == ticked # {} /\ TableShown /\ bulk = Idle

\* Mutant: what is ticked, on the screen or not.
TickedItems == ticked

SelectedItems == ticked \cap Rows

StartBulk(action) ==
    /\ bulk' = [action |-> action, open |-> SelectedItems, failed |-> FALSE]
    /\ confirm' = Nothing
    /\ UNCHANGED <<url, text, typed, timer, state, listings, loading, failed, ticked>>

\* Visibility flips at once; the list shows it as a column and no more here.
BulkSetVisibility == BarShown /\ confirm = Nothing /\ StartBulk("visibility")

AskBulk ==
    /\ BarShown
    /\ confirm = Nothing
    /\ confirm' \in {"deprecate", "delete"}
    /\ UNCHANGED <<url, text, typed, timer, state, listings, loading, failed, ticked, bulk>>

\* The dialog outlives the rows it was opened over.
ConfirmBulk == confirm # Nothing /\ bulk = Idle /\ StartBulk(confirm)

CancelBulk ==
    /\ confirm # Nothing
    /\ confirm' = Nothing
    /\ UNCHANGED <<url, text, typed, timer, state, listings, loading, failed, ticked, bulk>>

\* What the server makes of one request: a deprecation of what is not
\* published, or anything about what is deleted, is refused.
Allowed(action, s) ==
    CASE action = "deprecate" -> state[s] = "published"
      [] OTHER -> state[s] # "deleted"

Effect(action, s) ==
    CASE action = "deprecate" -> "deprecated"
      [] action = "delete" -> "deleted"
      [] OTHER -> state[s]

\* One request is answered, or fails on its way.
ItemSettles ==
    \E s \in bulk.open :
        /\ \/ /\ Allowed(bulk.action, s)
              /\ state' = [state EXCEPT ![s] = Effect(bulk.action, s)]
              /\ bulk' = [bulk EXCEPT !.open = @ \ {s}]
           \/ /\ bulk' = [bulk EXCEPT !.open = @ \ {s}, !.failed = TRUE]
              /\ UNCHANGED state
        /\ UNCHANGED <<url, text, typed, timer, listings, loading, failed, ticked, confirm>>

\* All are settled: the lists are invalidated, and the ticks stay for another
\* try if one has failed.
BulkSettles ==
    /\ bulk # Idle /\ bulk.open = {}
    /\ ticked' = IF bulk.failed THEN ticked ELSE {}
    /\ bulk' = Idle
    /\ loading' = loading \cup {url}
    /\ UNCHANGED <<url, text, typed, timer, state, listings, failed, confirm>>

ListNext ==
    \/ TypeText \/ TimerFires \/ ChooseStatus \/ Submit \/ ClearFilters \/ Navigated
    \/ ListArrives \/ Tick
    \/ BulkSetVisibility \/ AskBulk \/ ConfirmBulk \/ CancelBulk
    \/ ItemSettles \/ BulkSettles

=============================================================================
