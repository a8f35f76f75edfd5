----------------------------- MODULE ToolsEditor -----------------------------
(***************************************************************************)
(* The editor of a version's tools: structured cards and a JSON text over  *)
(* one list, a paste from the clipboard that is answered later, and the    *)
(* review dialog of a discovery on the live server.                        *)
(*                                                                         *)
(* A tool is its name, its content (what a server reports of it: schema,   *)
(* description and annotations together) and whether it carries fields the *)
(* server does not know.  A JSON text is the list it parses to, or         *)
(* Malformed.                                                              *)
(***************************************************************************)
EXTENDS Sublists, SequencesExt

CONSTANTS
    Names,       \* names of tools
    Contents,    \* contents of tools
    NoContent,   \* the content of a tool that only has a name
    MaxTools,    \* the longest list
    MaxEdits,    \* edits in a behaviour
    Unnamed,     \* the empty name
    Malformed,   \* a text that is not a JSON array of objects
    Texts,       \* the lists a user types into the JSON tab or pastes
    Listings,    \* the lists a server answers a discovery with
    NoTool       \* neither a list nor a content

VARIABLES
    mode,       \* the tab on the screen
    tools,      \* the structured list
    cards,      \* the schema text of each mounted card
    text,       \* the JSON text
    jsonError,  \* the JSON tab shows an error
    reading,    \* the list a paste under way will append to
    remote,     \* the form's transport, publisher and URL allow a discovery
    fetching,   \* a discovery is under way
    dialog,     \* what the review dialog shows
    rows,       \* its rows
    ticked,     \* the names ticked in it
    edits       \* edits left

editorVars == <<mode, tools, cards, text, jsonError>>
dialogVars == <<fetching, dialog, rows, ticked>>
toolsVars == <<editorVars, reading, remote, dialogVars, edits>>

Tool == [name : Names \cup {Unnamed}, content : Contents, extra : BOOLEAN]
ToolLists == UNION {[1 .. n -> Tool] : n \in 0 .. MaxTools}
NamesOf(ts) == {ts[i].name : i \in DOMAIN ts}
Row == [name : Names, status : {"new", "changed", "same", "missing"}, found : Contents \cup {NoTool}]

ASSUME ToolsEditorAssumption ==
    /\ NoContent \in Contents
    /\ NoTool \notin Contents
    /\ MaxTools \in Nat
    /\ Unnamed \notin Names
    /\ Texts \subseteq ToolLists \cup {Malformed}
    /\ Listings \subseteq ToolLists
    /\ \A ts \in Listings : \A i \in DOMAIN ts : ts[i].name \in Names /\ ~ts[i].extra

-----------------------------------------------------------------------------
(* Parsing                                                                 *)

Parses(t) ==
    /\ t # Malformed
    /\ Unnamed \notin NamesOf(t)
    /\ IsInjective([i \in DOMAIN t |-> t[i].name])

\* What the active tab shows as a list; NoTool while the JSON has an error.
Edited ==
    IF mode = "form" THEN tools ELSE IF Parses(text) THEN text ELSE NoTool

-----------------------------------------------------------------------------
(* Reconciling a discovered list with the edited one                       *)

Named(ts, n) == Sublist(ts, {i \in DOMAIN ts : ts[i].name = n})

\* The first tool of each name.
FirstOfEach(ts) ==
    Sublist(ts, {i \in DOMAIN ts : \A j \in 1 .. i - 1 : ts[j].name # ts[i].name})

\* A name the server lists twice counts with its last tool.
diffTools(current, discovered) ==
    LET known == FirstOfEach(Sublist(current, {i \in DOMAIN current : current[i].name # Unnamed}))
        others == FirstOfEach(discovered)
        fresh == Sublist(others, {i \in DOMAIN others : others[i].name \notin NamesOf(known)})
        row(t) ==
            IF t.name \notin NamesOf(discovered)
            THEN [name |-> t.name, status |-> "missing", found |-> NoTool]
            ELSE LET found == Last(Named(discovered, t.name)).content IN
                 [name |-> t.name, status |-> IF found = t.content THEN "same" ELSE "changed", found |-> found]
    IN  [i \in DOMAIN known |-> row(known[i])]
        \o [i \in DOMAIN fresh |-> [name |-> fresh[i].name, status |-> "new", found |-> fresh[i].content]]

defaultSelection(rs) == {rs[i].name : i \in {j \in DOMAIN rs : rs[j].status = "new"}}

\* Mutant: a ticked tool is replaced by the server's, unknown fields included.
applyWholeTool(current, rs, selected) ==
    LET row(n) == rs[CHOOSE j \in DOMAIN rs : rs[j].name = n]
        took(t) == t.name \in NamesOf(rs) \cap selected
        kept == Sublist(current, {i \in DOMAIN current :
                                     ~(took(current[i]) /\ row(current[i].name).status = "missing")})
        new == Sublist(rs, {i \in DOMAIN rs : rs[i].status = "new" /\ rs[i].name \in selected})
        tool(r) == [name |-> r.name, content |-> r.found, extra |-> FALSE]
    IN  [i \in DOMAIN kept |->
            IF took(kept[i]) /\ row(kept[i].name).found # NoTool THEN tool(row(kept[i].name)) ELSE kept[i]]
        \o [i \in DOMAIN new |-> tool(new[i])]

applyDiscovery(current, rs, selected) ==
    LET row(n) == rs[CHOOSE i \in DOMAIN rs : rs[i].name = n]
        chosen(t) == t.name \in NamesOf(rs) \cap selected
        kept == Sublist(current, {i \in DOMAIN current :
                                     ~(chosen(current[i]) /\ row(current[i].name).status = "missing")})
        new == Sublist(rs, {i \in DOMAIN rs : rs[i].status = "new" /\ rs[i].name \in selected})
    IN  [i \in DOMAIN kept |->
            IF chosen(kept[i]) /\ row(kept[i].name).status = "changed"
            THEN [kept[i] EXCEPT !.content = row(kept[i].name).found]
            ELSE kept[i]]
        \o [i \in DOMAIN new |-> [name |-> new[i].name, content |-> new[i].found, extra |-> FALSE]]

countChanges(rs, selected) ==
    Cardinality({i \in DOMAIN rs : rs[i].status # "same" /\ rs[i].name \in selected})

-----------------------------------------------------------------------------

\* Cards are keyed by their position: one that stays mounted keeps its text.
Mounted(old, ts) ==
    [i \in DOMAIN ts |-> IF i \in DOMAIN old THEN old[i] ELSE ts[i].content]

Edit ==
    /\ edits > 0
    /\ edits' = edits - 1

SetTools(ts) ==
    /\ Len(ts) <= MaxTools
    /\ tools' = ts
    /\ cards' = IF mode = "form" THEN Mounted(cards, ts) ELSE <<>>

ToolsInit ==
    /\ mode = "form"
    /\ tools \in {ts \in ToolLists : Parses(ts)}
    /\ cards = Mounted(<<>>, tools)
    /\ text = <<>>
    /\ jsonError = FALSE
    /\ reading = NoTool
    /\ remote \in BOOLEAN
    /\ fetching = FALSE
    /\ dialog = "closed"
    /\ rows = <<>>
    /\ ticked = {}
    /\ edits = MaxEdits

\* The dialog is modal: the editor and the form are out of reach behind it.
OnTab(tab) == dialog = "closed" /\ mode = tab

-----------------------------------------------------------------------------
(* The cards                                                               *)

AddTool ==
    /\ Edit
    /\ OnTab("form")
    /\ SetTools(Append(tools, [name |-> Unnamed, content |-> NoContent, extra |-> FALSE]))
    /\ UNCHANGED <<mode, text, jsonError, reading, remote, dialogVars>>

RemoveTool(i) ==
    /\ Edit
    /\ OnTab("form")
    /\ SetTools(RemoveAt(tools, i))
    /\ UNCHANGED <<mode, text, jsonError, reading, remote, dialogVars>>

RenameTool(i, n) ==
    /\ Edit
    /\ OnTab("form")
    /\ SetTools([tools EXCEPT ![i].name = n])
    /\ UNCHANGED <<mode, text, jsonError, reading, remote, dialogVars>>

\* A text that does not parse stays in the card; the tool keeps its schema.
commitSchema(i, c) ==
    /\ Edit
    /\ OnTab("form")
    /\ cards' = [cards EXCEPT ![i] = c]
    /\ tools' = IF c = Malformed THEN tools ELSE [tools EXCEPT ![i].content = c]
    /\ UNCHANGED <<mode, text, jsonError, reading, remote, dialogVars>>

\* The clipboard is read behind a permission prompt; the list the paste will
\* append to is the one on the screen when the button was pressed.
pasteFromClipboard ==
    /\ OnTab("form")
    /\ reading = NoTool
    /\ Len(tools) < MaxTools
    /\ reading' = tools
    /\ UNCHANGED <<editorVars, remote, dialogVars, edits>>

PasteArrives(ts) ==
    /\ reading # NoTool
    /\ \/ Parses(ts) /\ SetTools(reading \o ts)
       \/ ~Parses(ts) /\ UNCHANGED <<tools, cards>>
    /\ reading' = NoTool
    /\ UNCHANGED <<mode, text, jsonError, remote, dialogVars, edits>>

-----------------------------------------------------------------------------
(* The JSON tab                                                            *)

EnterJson ==
    /\ OnTab("form")
    /\ mode' = "json"
    /\ text' = tools
    /\ jsonError' = FALSE
    /\ cards' = <<>>
    /\ UNCHANGED <<tools, reading, remote, dialogVars, edits>>

\* A text with an error blocks the switch.
LeaveJson ==
    /\ OnTab("json")
    /\ \/ /\ Parses(text)
          /\ mode' = "form"
          /\ tools' = text
          /\ cards' = Mounted(<<>>, text)
          /\ jsonError' = FALSE
       \/ ~Parses(text) /\ jsonError' = TRUE /\ UNCHANGED <<mode, tools, cards>>
    /\ UNCHANGED <<text, reading, remote, dialogVars, edits>>

handleJsonChange(t) ==
    /\ Edit
    /\ OnTab("json")
    /\ text' = t
    /\ jsonError' = ~Parses(t)
    /\ UNCHANGED <<mode, tools, cards, reading, remote, dialogVars>>

-----------------------------------------------------------------------------
(* Fetch from server                                                       *)

\* The transport, the publisher or the URL of the form is edited.
EditRemote ==
    /\ Edit
    /\ dialog = "closed"
    /\ remote' = ~remote
    /\ UNCHANGED <<editorVars, reading, dialogVars>>

\* A dialog opened again while its request is under way waits for that one.
OpenDiscovery ==
    /\ dialog = "closed"
    /\ remote
    /\ Edited # NoTool
    /\ dialog' = "loading"
    /\ fetching' = TRUE
    /\ UNCHANGED <<editorVars, reading, remote, rows, ticked, edits>>

\* The rows and the ticks are computed when the review is mounted.
Review(ts) ==
    /\ rows' = diffTools(Edited, ts)
    /\ ticked' = defaultSelection(rows')

\* The answer of a later refetch leaves them as they are.
DiscoveryAnswers(ts) ==
    /\ fetching
    /\ fetching' = FALSE
    /\ IF dialog = "loading"
       THEN dialog' = "review" /\ Review(ts)
       ELSE UNCHANGED <<dialog, rows, ticked>>
    /\ UNCHANGED <<editorVars, reading, remote, edits>>

DiscoveryFails ==
    /\ fetching
    /\ fetching' = FALSE
    /\ dialog' = IF dialog = "closed" THEN "closed" ELSE "failed"
    /\ rows' = <<>>
    /\ ticked' = {}
    /\ UNCHANGED <<editorVars, reading, remote, edits>>

\* "Try again"; the library also refetches when the window is focused again.
RetryDiscovery ==
    /\ ~fetching
    /\ dialog \in {"failed", "review"}
    /\ dialog' = IF dialog = "failed" THEN "loading" ELSE dialog
    /\ fetching' = TRUE
    /\ UNCHANGED <<editorVars, reading, remote, rows, ticked, edits>>

ToggleRow(n) ==
    /\ Edit
    /\ dialog = "review"
    /\ \E i \in DOMAIN rows : rows[i].name = n /\ rows[i].status # "same"
    /\ ticked' = IF n \in ticked THEN ticked \ {n} ELSE ticked \cup {n}
    /\ UNCHANGED <<editorVars, reading, remote, fetching, dialog, rows>>

CloseDiscovery ==
    /\ dialog # "closed"
    /\ dialog' = "closed"
    /\ rows' = <<>>
    /\ ticked' = {}
    /\ UNCHANGED <<editorVars, reading, remote, fetching, edits>>

applyFromServer ==
    /\ dialog = "review"
    /\ countChanges(rows, ticked) > 0
    /\ LET next == applyDiscovery(Edited, rows, ticked) IN
         /\ SetTools(next)
         /\ text' = IF mode = "json" THEN next ELSE text
    /\ jsonError' = FALSE
    /\ dialog' = "closed"
    /\ rows' = <<>>
    /\ ticked' = {}
    /\ UNCHANGED <<mode, reading, remote, fetching, edits>>

-----------------------------------------------------------------------------

ToolsNext ==
    \/ AddTool \/ pasteFromClipboard \/ EnterJson \/ LeaveJson
    \/ \E i \in DOMAIN tools :
          \/ RemoveTool(i)
          \/ \E n \in Names \cup {Unnamed} : RenameTool(i, n)
          \/ \E c \in Contents \cup {Malformed} : commitSchema(i, c)
    \/ \E t \in Texts : PasteArrives(t) \/ handleJsonChange(t)
    \/ \E ts \in Listings : DiscoveryAnswers(ts)
    \/ EditRemote \/ OpenDiscovery \/ DiscoveryFails \/ RetryDiscovery
    \/ CloseDiscovery \/ applyFromServer
    \/ \E n \in Names : ToggleRow(n)

=============================================================================
