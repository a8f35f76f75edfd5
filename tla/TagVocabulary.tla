---------------------------- MODULE TagVocabulary ----------------------------
(***************************************************************************)
(* The instance-wide tags: what a Server Admin does on the Instance tags   *)
(* page from a list that may be stale, the tags the server configuration   *)
(* owns and reconciles when a server starts, and the versions that carry   *)
(* tags, whose creation checks them in one statement and inserts in        *)
(* another.  A description or colour behaves as the name does.             *)
(***************************************************************************)
EXTENDS FiniteSets, Functions

CONSTANTS
    Slugs,
    NoTag

ASSUME TagAssumption == NoTag \notin Slugs

VARIABLES
    tags,        \* instance_tags: from the slugs there are to their rows
    configured,  \* the tags of the configuration, as last reconciled
    carried,     \* the tags some version carries
    checked,     \* the tag of a version that is about to be inserted
    rowsShown,   \* the page: the slugs it lists as not managed
    editing,     \* the tag in the edit panel
    typedFor,    \* the tag whose name stands in the inputs of the panel
    deleting,    \* the tag in the confirmation
    request      \* bound: the request under way, one at a time

tagVars == <<tags, configured, carried, checked, rowsShown, editing, typedFor, deleting, request>>

\* A name is known by the tag it was written for.
TagRows == [name : Slugs, active : BOOLEAN, managed : BOOLEAN]

NoTagRequest == [kind |-> "none", slug |-> NoTag, body |-> <<>>, answer |-> "none"]
Sending(kind, s, body) == [kind |-> kind, slug |-> s, body |-> body, answer |-> "none"]

TagsInit ==
    /\ tags \in UNION {[S -> {[name |-> s, active |-> TRUE, managed |-> FALSE] : s \in Slugs}] : S \in SUBSET Slugs}
    /\ \A s \in DOMAIN tags : tags[s].name = s
    /\ configured = {}
    /\ carried = {}
    /\ checked = NoTag
    /\ rowsShown = DOMAIN tags
    /\ editing = NoTag
    /\ typedFor = NoTag
    /\ deleting = NoTag
    /\ request = NoTagRequest

ServerSide == <<tags, configured, carried, checked>>
PageSide == <<rowsShown, editing, typedFor, deleting>>

-----------------------------------------------------------------------------
(* The server                                                              *)

FromConfiguration(s) == [name |-> s, active |-> TRUE, managed |-> TRUE]

\* A server starts: what its configuration lists is written as it says there,
\* and a tag that is no longer listed is released as it stands.
ReconcileManagedInstanceTags ==
    \E specs \in SUBSET Slugs :
        /\ configured' = specs
        /\ tags' = [s \in DOMAIN tags \cup specs |->
                       IF s \in specs THEN FromConfiguration(s)
                       ELSE [tags[s] EXCEPT !.managed = FALSE]]
        /\ UNCHANGED <<carried, checked, PageSide, request>>

\* The tags of a new version: looked up first ...
validateVersionTags ==
    /\ checked = NoTag
    /\ \E s \in DOMAIN tags :
        /\ tags[s].active
        /\ checked' = s
    /\ UNCHANGED <<tags, configured, carried, PageSide, request>>

\* ... and inserted as they were ticked.
CreateMCPServerVersion ==
    /\ checked # NoTag
    /\ carried' = carried \cup {checked}
    /\ checked' = NoTag
    /\ UNCHANGED <<tags, configured, PageSide, request>>

Takes(answer) ==
    /\ request' = [request EXCEPT !.answer = answer]
    /\ UNCHANGED <<configured, carried, checked, PageSide>>

Waits(kind) == request.kind = kind /\ request.answer = "none"

\* The slug is unique.
CreateInstanceTag ==
    /\ Waits("create")
    /\ LET s == request.slug
       IN  IF s \in DOMAIN tags
           THEN Takes("refused") /\ UNCHANGED tags
           ELSE /\ Takes("done")
                /\ tags' = [t \in DOMAIN tags \cup {s} |->
                               IF t = s THEN [name |-> s, active |-> TRUE, managed |-> FALSE] ELSE tags[t]]

\* What the body does not give is left as it is.
Updated(row, body) == [field \in DOMAIN row |-> IF field \in DOMAIN body THEN body[field] ELSE row[field]]

\* Mutant: the page disables the buttons of managed tags, so any row is updated.
UpdateAny ==
    /\ Waits("update")
    /\ LET s == request.slug
       IN  IF s \in DOMAIN tags
           THEN Takes("done") /\ tags' = [tags EXCEPT ![s] = Updated(@, request.body)]
           ELSE Takes("refused") /\ UNCHANGED tags

UpdateInstanceTag ==
    /\ Waits("update")
    /\ LET s == request.slug
       IN  IF s \in DOMAIN tags /\ ~tags[s].managed
           THEN Takes("done") /\ tags' = [tags EXCEPT ![s] = Updated(@, request.body)]
           ELSE Takes("refused") /\ UNCHANGED tags

\* The guards and the delete are one statement.
DeleteInstanceTag ==
    /\ Waits("delete")
    /\ LET s == request.slug
       IN  IF s \in DOMAIN tags /\ ~tags[s].managed /\ s \notin carried
           THEN Takes("done") /\ tags' = Restrict(tags, DOMAIN tags \ {s})
           ELSE Takes("refused") /\ UNCHANGED tags

-----------------------------------------------------------------------------
(* The page                                                                *)

\* The confirmation is modal: nothing else can be clicked under it.
Clickable == deleting = NoTag

Unmanaged == {s \in DOMAIN tags : ~tags[s].managed}

TagsArrive ==
    /\ rowsShown' = Unmanaged
    /\ UNCHANGED <<ServerSide, editing, typedFor, deleting, request>>

AddTag ==
    /\ Clickable /\ request = NoTagRequest
    /\ \E s \in Slugs : request' = Sending("create", s, <<>>)
    /\ UNCHANGED <<ServerSide, PageSide>>

\* The panel has no key: while it is open its inputs keep what they hold when
\* another tag comes under them.
Edit ==
    /\ Clickable
    /\ editing' \in rowsShown
    /\ typedFor' = IF editing = NoTag THEN editing' ELSE typedFor
    /\ UNCHANGED <<ServerSide, rowsShown, deleting, request>>

CancelEdit ==
    /\ Clickable /\ editing # NoTag
    /\ editing' = NoTag /\ typedFor' = NoTag
    /\ UNCHANGED <<ServerSide, rowsShown, deleting, request>>

SaveEdit ==
    /\ Clickable /\ editing # NoTag /\ request = NoTagRequest
    /\ request' = Sending("update", editing, [name |-> typedFor])
    /\ UNCHANGED <<ServerSide, PageSide>>

\* The row says which way: what it showed is inverted, whatever it is by now.
Toggle ==
    /\ Clickable /\ request = NoTagRequest
    /\ \E s \in rowsShown, active \in BOOLEAN : request' = Sending("update", s, [active |-> active])
    /\ UNCHANGED <<ServerSide, PageSide>>

AskDelete ==
    /\ Clickable
    /\ deleting' \in rowsShown
    /\ UNCHANGED <<ServerSide, rowsShown, editing, typedFor, request>>

CancelDelete ==
    /\ deleting # NoTag
    /\ deleting' = NoTag
    /\ UNCHANGED <<ServerSide, rowsShown, editing, typedFor, request>>

ConfirmDelete ==
    /\ deleting # NoTag /\ request = NoTagRequest
    /\ request' = Sending("delete", deleting, <<>>)
    /\ UNCHANGED <<ServerSide, PageSide>>

\* Any update that succeeds closes the panel, a toggle of another row too;
\* any answer to a deletion closes the confirmation on the screen.
TagAnswered ==
    /\ request.answer # "none"
    /\ request' = NoTagRequest
    /\ LET closes == request.kind = "update" /\ request.answer = "done"
       IN  /\ editing' = IF closes THEN NoTag ELSE editing
           /\ typedFor' = IF closes THEN NoTag ELSE typedFor
    /\ deleting' = IF request.kind = "delete" THEN NoTag ELSE deleting
    /\ UNCHANGED <<ServerSide, rowsShown>>

TagsNext ==
    \/ ReconcileManagedInstanceTags \/ validateVersionTags \/ CreateMCPServerVersion
    \/ CreateInstanceTag \/ UpdateInstanceTag \/ DeleteInstanceTag
    \/ TagsArrive \/ AddTag \/ Edit \/ CancelEdit \/ SaveEdit \/ Toggle
    \/ AskDelete \/ CancelDelete \/ ConfirmDelete \/ TagAnswered

-----------------------------------------------------------------------------
(* Properties                                                              *)

\* What the configuration says of a tag is what holds until the next start,
\* though the page sends changes of it decided on an older list, and though
\* it was an administrator's before.  ("the configuration wins over any admin
\* edit": ReconcileManagedInstanceTags, UpdateInstanceTag)
ConfigurationHolds ==
    \A s \in configured : s \in DOMAIN tags /\ tags[s] = FromConfiguration(s)

\* "a concurrent version create that ticks this tag cannot race the existence
\* checks": no version carries a tag that has been deleted.
CarriedTagsExist == carried \subseteq DOMAIN tags

=============================================================================
