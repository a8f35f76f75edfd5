---------------------------- MODULE RevisionsInput ----------------------------
(***************************************************************************)
(* The token input for the protocol revisions of a version: tokens, a text *)
(* that is typed, and a detection on the remote endpoint whose answer is   *)
(* offered for review.  A revision is its date, here a number; a text is a *)
(* revision, nothing, or Typo, which is not one.                           *)
(***************************************************************************)
EXTENDS Sublists, SequencesExt

CONSTANTS
    Revisions,   \* the dates
    Typo,        \* a text that is not a date
    Empty,       \* no text
    Endpoints,   \* URLs of remote endpoints
    NoEndpoint,  \* a stdio transport, or a URL that is not http(s)
    Absent

ASSUME RevisionsAssumption ==
    /\ Revisions \subseteq Int
    /\ IsFiniteSet(Revisions)
    /\ Empty # Typo
    /\ NoEndpoint \notin Endpoints

VARIABLES
    tokens,     \* the list the form submits
    draft,      \* the text being typed
    complaint,  \* an error is shown
    focused,    \* the caret is in the text
    detected,   \* what the last detection found, or Absent
    reviewing,  \* its answer is offered
    probing,    \* the endpoint a detection under way asks, or Absent
    endpoint    \* the URL in the form

revisionsVars == <<tokens, draft, complaint, focused, detected, reviewing, probing, endpoint>>

Tokens == {tokens[i] : i \in DOMAIN tokens}

\* A new form starts with one default revision, a next version with the last
\* one's list.
RevisionsInit ==
    /\ tokens \in {NewestFirst(S) : S \in (SUBSET Revisions) \ {{}}}
    /\ draft = Empty
    /\ complaint = FALSE
    /\ focused = FALSE
    /\ detected = Absent
    /\ reviewing = FALSE
    /\ probing = Absent
    /\ endpoint \in Endpoints \cup {NoEndpoint}

-----------------------------------------------------------------------------

\* Enter, a suggestion and leaving the field all add through this check.
Acceptable(d) == d \in Revisions \ Tokens

Add(d) ==
    IF Acceptable(d)
    THEN tokens' = NewestFirst(Tokens \cup {d}) /\ draft' = Empty /\ complaint' = FALSE
    ELSE complaint' = TRUE /\ UNCHANGED <<tokens, draft>>

FocusDraft ==
    /\ ~focused
    /\ focused' = TRUE
    /\ UNCHANGED <<tokens, draft, complaint, detected, reviewing, probing, endpoint>>

TypeDraft(d) ==
    /\ focused
    /\ draft' = d
    /\ complaint' = FALSE
    /\ UNCHANGED <<tokens, focused, detected, reviewing, probing, endpoint>>

EnterDraft ==
    /\ focused
    /\ Add(draft)
    /\ UNCHANGED <<focused, detected, reviewing, probing, endpoint>>

\* A revision typed but never confirmed is added when the field is left.
BlurDraft ==
    /\ focused
    /\ focused' = FALSE
    /\ IF draft # Empty THEN Add(draft) ELSE UNCHANGED <<tokens, draft, complaint>>
    /\ UNCHANGED <<detected, reviewing, probing, endpoint>>

\* Mutant: the last token can be deleted too.
BackspaceAny ==
    /\ focused
    /\ draft = Empty
    /\ tokens # <<>>
    /\ tokens' = Front(tokens)
    /\ UNCHANGED <<draft, complaint, focused, detected, reviewing, probing, endpoint>>

Backspace ==
    /\ focused
    /\ draft = Empty
    /\ Len(tokens) > 1
    /\ tokens' = Front(tokens)
    /\ UNCHANGED <<draft, complaint, focused, detected, reviewing, probing, endpoint>>

Suggestions ==
    IF detected = Absent THEN {}
    ELSE {v \in detected \ Tokens : draft \in {Empty, v}}

PickSuggestion(v) ==
    /\ focused
    /\ ~reviewing
    /\ v \in Suggestions \cup ({draft} \ ({Empty} \cup Tokens))
    /\ Add(v)
    /\ UNCHANGED <<focused, detected, reviewing, probing, endpoint>>

-----------------------------------------------------------------------------
(* The buttons: a press leaves the text first.                             *)

RemoveToken(v) ==
    /\ ~focused
    /\ v \in Tokens
    /\ IF Len(tokens) = 1
       THEN complaint' = TRUE /\ UNCHANGED tokens
       ELSE tokens' = Sublist(tokens, {i \in DOMAIN tokens : tokens[i] # v}) /\ complaint' = FALSE
    /\ UNCHANGED <<draft, focused, detected, reviewing, probing, endpoint>>

EditEndpoint(u) ==
    /\ ~focused
    /\ endpoint' = u
    /\ UNCHANGED <<tokens, draft, complaint, focused, detected, reviewing, probing>>

Detect ==
    /\ ~focused
    /\ endpoint # NoEndpoint
    /\ probing = Absent
    /\ probing' = endpoint
    /\ complaint' = FALSE
    /\ UNCHANGED <<tokens, draft, focused, detected, reviewing, endpoint>>

\* The answer is offered whatever the form says by then.
DetectAnswers(S) ==
    /\ probing # Absent
    /\ detected' = S
    /\ reviewing' = TRUE
    /\ probing' = Absent
    /\ UNCHANGED <<tokens, draft, complaint, focused, endpoint>>

DetectFails ==
    /\ probing # Absent
    /\ probing' = Absent
    /\ UNCHANGED <<tokens, draft, complaint, focused, detected, reviewing, endpoint>>

UseDetected ==
    /\ ~focused
    /\ reviewing
    /\ detected # {}
    /\ tokens' = NewestFirst(detected)
    /\ reviewing' = FALSE
    /\ complaint' = FALSE
    /\ UNCHANGED <<draft, focused, detected, probing, endpoint>>

KeepMyList ==
    /\ ~focused
    /\ reviewing
    /\ reviewing' = FALSE
    /\ UNCHANGED <<tokens, draft, complaint, focused, detected, probing, endpoint>>

RevisionsNext ==
    \/ FocusDraft \/ EnterDraft \/ BlurDraft \/ Backspace
    \/ \E d \in Revisions \cup {Empty, Typo} : TypeDraft(d)
    \/ \E v \in Revisions \cup {Typo} : PickSuggestion(v) \/ RemoveToken(v)
    \/ \E u \in Endpoints \cup {NoEndpoint} : EditEndpoint(u)
    \/ Detect \/ DetectFails \/ UseDetected \/ KeepMyList
    \/ \E S \in SUBSET Revisions : DetectAnswers(S)

=============================================================================
