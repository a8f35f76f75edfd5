---------------------------- MODULE VersionEditors ----------------------------
(***************************************************************************)
(* The two editors inside the forms that author a version.  They share no  *)
(* state: the form reads each through a hidden input, and a behaviour      *)
(* works on one of them.                                                   *)
(***************************************************************************)
EXTENDS ToolsEditor, RevisionsInput

VARIABLE editor   \* the one in use

\* The editor that is not in use is empty.
EditorsInit ==
    /\ ToolsInit
    /\ RevisionsInit
    /\ \/ editor = "tools" /\ Tokens = Revisions /\ endpoint = NoEndpoint
       \/ editor = "revisions" /\ tools = <<>> /\ ~remote

\* The editors of a behaviour that does not use them.
EditorsUntouched ==
    /\ EditorsInit
    /\ editor = "tools"
    /\ tools = <<>>
    /\ ~remote

EditorsNext ==
    /\ \/ editor = "tools" /\ ToolsNext /\ UNCHANGED revisionsVars
       \/ editor = "revisions" /\ RevisionsNext /\ UNCHANGED toolsVars
    /\ UNCHANGED editor

versionEditorVars == <<editor, toolsVars, revisionsVars>>

-----------------------------------------------------------------------------
(* Properties                                                              *)

EditorsTypeOK ==
    /\ mode \in {"form", "json"}
    /\ tools \in ToolLists
    /\ DOMAIN cards = IF mode = "form" THEN DOMAIN tools ELSE {}
    /\ text \in ToolLists \cup {Malformed}
    /\ reading \in ToolLists \cup {NoTool}
    /\ dialog \in {"closed", "loading", "failed", "review"}
    /\ dialog = "loading" => fetching
    /\ \A i \in DOMAIN rows : rows[i] \in Row
    /\ ticked \subseteq NamesOf(rows)
    /\ draft \in Revisions \cup {Empty, Typo}
    /\ detected \in (SUBSET Revisions) \cup {Absent}
    /\ probing \in Endpoints \cup {Absent}

\* The rows of the review as a listing of the server.
Listed ==
    LET found == Sublist(rows, {i \in DOMAIN rows : rows[i].found # NoTool}) IN
    [i \in DOMAIN found |-> [name |-> found[i].name, content |-> found[i].found, extra |-> FALSE]]

\* "Apply N changes" does to each name what its row says and nothing else, a
\* list that a late paste has changed under the open review included: a ticked
\* changed tool takes the server's content and keeps its other fields, a ticked
\* missing one goes, an unticked, unnamed or newly pasted one stays, and the
\* order is kept.  While the rows still describe the list, a ticked new one is
\* there once and N names are affected; a paste may bring the name of a row that
\* says "new", which is then there twice.  (applyDiscovery, countChanges)
AppliedTicksAgree ==
    dialog = "review" =>
        LET current == diffTools(Edited, Listed) = rows
            next == applyDiscovery(Edited, rows, ticked)
            after(r) ==
                LET before == Named(Edited, r.name) IN
                IF r.name \notin ticked THEN before
                ELSE IF r.status = "missing" THEN <<>>
                ELSE IF r.status = "new" THEN Named(Listed, r.name)
                ELSE [i \in DOMAIN before |-> [before[i] EXCEPT !.content = r.found]]
            survivors == Sublist(Edited, {i \in DOMAIN Edited : Edited[i].name \in NamesOf(next)})
        IN  /\ \A i \in DOMAIN rows :
                  current \/ rows[i].status # "new" \/ rows[i].name \notin ticked =>
                      Named(next, rows[i].name) = after(rows[i])
            /\ \A n \in (Names \cup {Unnamed}) \ NamesOf(rows) : Named(next, n) = Named(Edited, n)
            /\ \A i \in DOMAIN survivors : next[i].name = survivors[i].name
            /\ current => countChanges(rows, ticked) =
                   Cardinality({n \in NamesOf(Edited) \cup NamesOf(next) :
                                    Named(next, n) # Named(Edited, n)})

\* However revisions are typed, picked, removed, detected and replaced, the
\* list the form submits is never empty, without duplicates and newest first,
\* as the server demands of it (domain.ValidateProtocolVersions).
RevisionListAccepted ==
    /\ tokens # <<>>
    /\ \A i \in DOMAIN tokens : tokens[i] \in Revisions
    /\ \A i, j \in DOMAIN tokens : i < j => tokens[i] > tokens[j]

=============================================================================
