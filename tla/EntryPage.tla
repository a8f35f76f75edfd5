------------------------------- MODULE EntryPage -------------------------------
(***************************************************************************)
(* The public page of an entry, whose component stays mounted while links  *)
(* and the browser's history change the entry under it: the answers it     *)
(* keeps for each entry and viewer, what the tabs remember, and the dialog *)
(* that reports an issue.  The entry and its list of versions are read     *)
(* together here.                                                          *)
(***************************************************************************)
EXTENDS Sublists

CONSTANTS
    Entries,
    PrivateEntries,
    Sources,        \* how many packages and remotes each entry has
    VersionsOf,     \* the public versions of each entry
    Drafts,         \* what a member of the publisher sees besides
    Anonymous, Member,   \* who looks
    Unknown,          \* the session at first; an answer there is not
    MaxFetches      \* bound: requests under way

ASSUME EntryPageAssumption ==
    /\ PrivateEntries \subseteq Entries
    /\ Sources \in [Entries -> Nat]
    /\ MaxFetches \in Nat

VARIABLES
    entry,       \* the one in the URL
    session,     \* what AuthContext says
    token,       \* whom the stored token stands for; another tab may drop it
    known,       \* the query cache: for whom each was answered
    fetches,     \* requests under way
    tab,
    chosen,      \* sourceIndex of the host config and of the code snippet
    compareMode, selected,
    reportOpen,
    submitting,
    verdict,     \* what the dialog says
    reports      \* the reports of this mount under way

entryVars == <<entry, session, token, known, fetches, tab, chosen, compareMode, selected,
               reportOpen, submitting, verdict, reports>>

Viewers == {Anonymous, Member}
Widgets == {"host config", "code"}
Generated == [w \in Widgets |-> 1]

ready == session # Unknown
viewer == session

\* Mutant: one cache for everybody.
KeyForAll(e) == <<e, Anonymous>>

Key(e) == <<e, viewer>>

DataOf(e) == IF ready THEN known[Key(e)] ELSE Unknown
Shown == DataOf(entry) # Unknown

\* The answer as it was given, with drafts for a member.
Versions == IF DataOf(entry) = Member THEN VersionsOf[entry] \cup Drafts[entry] ELSE VersionsOf[entry]

EntryInit ==
    /\ entry \in Entries
    /\ session = Unknown
    /\ token \in Viewers
    /\ known = [k \in Entries \X Viewers |-> Unknown]
    /\ fetches = {}
    /\ tab = "overview"
    /\ chosen = Generated
    /\ compareMode = FALSE /\ selected = <<>>
    /\ reportOpen = FALSE /\ submitting = FALSE /\ verdict = "none" /\ reports = 0

TabState == <<chosen, compareMode, selected>>
ReportState == <<reportOpen, submitting, verdict, reports>>
Queried == <<known, fetches>>

TabsFresh ==
    /\ chosen' = Generated
    /\ compareMode' = FALSE /\ selected' = <<>>

ReportFresh == reportOpen' = FALSE /\ submitting' = FALSE /\ verdict' = "none" /\ reports' = 0

\* While the entry on the URL is not there for its viewer the page is a
\* skeleton, or a message, and everything below it is gone; one that is
\* cached takes the place of the last, and what is below stays.
BodyRenders == IF Shown' THEN UNCHANGED <<TabState, ReportState>> ELSE TabsFresh /\ ReportFresh

-----------------------------------------------------------------------------
(* The session                                                             *)

AuthLoaded ==
    /\ session = Unknown
    /\ session' = token
    /\ UNCHANGED <<entry, token, Queried, tab>>
    /\ BodyRenders

\* The login page and the way back: another mount, the same cache.
SignIn ==
    /\ session = Anonymous
    /\ session' = Member /\ token' = Member
    /\ tab' = "overview"
    /\ TabsFresh /\ ReportFresh
    /\ UNCHANGED <<entry, Queried>>

SignOut ==
    /\ session = Member
    /\ session' = Anonymous /\ token' = Anonymous
    /\ UNCHANGED <<entry, Queried, tab>>
    /\ BodyRenders

\* Another tab signs out or in: the storage is shared, the session is not.
OtherTab ==
    /\ ready
    /\ token' \in Viewers \ {token}
    /\ UNCHANGED <<entry, session, Queried, tab, TabState, ReportState>>

-----------------------------------------------------------------------------
(* The queries                                                             *)

\* The public client carries no token, the other one whatever is stored when
\* it sends.
api == IF session = Member THEN token ELSE Anonymous

Fetch ==
    /\ ready /\ Cardinality(fetches) < MaxFetches
    /\ fetches' = fetches \cup {[key |-> Key(entry), as |-> api]}
    /\ UNCHANGED <<entry, session, token, known, tab, TabState, ReportState>>

\* A private entry is not found by whoever is no member; a refetch that fails
\* hides what was there.
FetchAnswered ==
    \E f \in fetches :
        /\ fetches' = fetches \ {f}
        /\ known' = [known EXCEPT ![f.key] =
                           IF f.as = Anonymous /\ f.key[1] \in PrivateEntries THEN Unknown ELSE f.as]
        /\ UNCHANGED <<entry, session, token, tab>>
        /\ BodyRenders

-----------------------------------------------------------------------------
(* Navigation and tabs                                                     *)

\* A related entry or the breadcrumbs, or back and forward, which the open
\* dialog does not stop.
Visit ==
    /\ entry' \in Entries \ {entry}
    /\ tab' \in {"overview", "usage", "versions"}
    /\ UNCHANGED <<session, token, Queried>>
    /\ IF ~Shown' THEN TabsFresh /\ ReportFresh
       ELSE /\ UNCHANGED ReportState
            /\ IF tab' = tab THEN UNCHANGED TabState ELSE TabsFresh

Clicks == Shown /\ ~reportOpen

\* The content of a tab is mounted while it is active.
handleTabChange ==
    /\ Clicks
    /\ tab' \in {"overview", "usage", "versions"} \ {tab}
    /\ TabsFresh
    /\ UNCHANGED <<entry, session, token, Queried, ReportState>>

\* The usage tab generates what there are packages or remotes for.
hasGenerated == Shown /\ tab = "usage" /\ Sources[entry] > 0

\* Mutant: the choice is taken as it is.
sourceAsChosen(w) == chosen[w]

source(w) == IF chosen[w] <= Sources[entry] THEN chosen[w] ELSE Sources[entry]

\* The select is there for more than one.
ChooseSource ==
    /\ Clicks /\ hasGenerated /\ Sources[entry] > 1
    /\ \E w \in Widgets, i \in 1..Sources[entry] : chosen' = [chosen EXCEPT ![w] = i]
    /\ UNCHANGED <<entry, session, token, Queried, tab, compareMode, selected, ReportState>>

ToggleCompare ==
    /\ Clicks /\ tab = "versions" /\ Cardinality(Versions) >= 2
    /\ compareMode' = ~compareMode
    /\ selected' = <<>>
    /\ UNCHANGED <<entry, session, token, Queried, tab, chosen, ReportState>>

\* The third takes the place of the first.
toggleSelected ==
    /\ Clicks /\ tab = "versions" /\ compareMode
    /\ \E v \in Versions :
        selected' = IF \E i \in DOMAIN selected : selected[i] = v
                    THEN Sublist(selected, {i \in DOMAIN selected : selected[i] # v})
                    ELSE IF Len(selected) >= 2 THEN <<selected[2], v>>
                    ELSE Append(selected, v)
    /\ UNCHANGED <<entry, session, token, Queried, tab, chosen, compareMode, ReportState>>

\* What is compared: of the ticks, those in the list on the screen.
selectedVersions == Sublist(selected, {i \in DOMAIN selected : selected[i] \in Versions})
Compared == IF Shown /\ tab = "versions" /\ compareMode /\ Len(selectedVersions) = 2
            THEN selectedVersions ELSE <<>>

-----------------------------------------------------------------------------
(* Reporting an issue                                                      *)

\* Mutant: the form is opened as new, its button too.
openReset ==
    /\ Clicks
    /\ reportOpen' = TRUE /\ verdict' = "none" /\ submitting' = FALSE
    /\ UNCHANGED <<entry, session, token, Queried, tab, TabState, reports>>

open ==
    /\ Clicks
    /\ reportOpen' = TRUE /\ verdict' = "none"
    /\ UNCHANGED <<entry, session, token, Queried, tab, TabState, submitting, reports>>

\* The button waits for the answer, Escape does not.
close ==
    /\ reportOpen
    /\ reportOpen' = FALSE
    /\ UNCHANGED <<entry, session, token, Queried, tab, TabState, submitting, verdict, reports>>

\* Too short or too long a description is an error at once.
handleSubmit ==
    /\ reportOpen /\ verdict # "success" /\ ~submitting
    /\ \/ verdict' = "error" /\ UNCHANGED <<submitting, reports>>
       \/ verdict' = "none" /\ submitting' = TRUE /\ reports' = reports + 1
    /\ UNCHANGED <<entry, session, token, Queried, tab, TabState, reportOpen>>

\* The answer is for whatever form is open by then.
ReportAnswered ==
    /\ reports > 0
    /\ reports' = reports - 1
    /\ verdict' \in {"success", "error"}
    /\ submitting' = FALSE
    /\ UNCHANGED <<entry, session, token, Queried, tab, TabState, reportOpen>>

EntryNext ==
    \/ AuthLoaded \/ SignIn \/ SignOut \/ OtherTab \/ Fetch \/ FetchAnswered
    \/ Visit \/ handleTabChange \/ ChooseSource \/ ToggleCompare \/ toggleSelected
    \/ open \/ close \/ handleSubmit \/ ReportAnswered

=============================================================================
