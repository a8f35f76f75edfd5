------------------------------ MODULE FormGuard ------------------------------
(***************************************************************************)
(* The pages with forms, the guard each form renders against the loss of   *)
(* unsaved changes, and the router.  The router keeps the blockers of all  *)
(* mounted guards but consults the one that was mounted last; the prompt   *)
(* of the browser on closing the tab is asked for by each guard.           *)
(***************************************************************************)
EXTENDS Sublists, SequencesExt

CONSTANT None

\* The page of each form, and the forms that render a guard.
PageOf == [create |-> "new", publisher |-> "newPublisher", version |-> "entry",
           usage |-> "entry", edit |-> "entry"]
Forms == DOMAIN PageOf
Guarded == Forms \ {"edit"}
Pages == {PageOf[f] : f \in Forms} \cup {"list"}

ASSUME FormGuardAssumption == None \notin Forms \cup Pages

\* Forms that are the page, and forms that are opened on it.
Standing == {"create", "publisher"}

VARIABLES
    page,     \* the page on the screen
    open,     \* the forms mounted on it
    guards,   \* the guards in the order in which they were mounted
    dirty,    \* what each form tells its guard
    work,     \* what would be lost: nothing, "typed" or "built" by buttons only
    prompt    \* the page "Discard unsaved changes?" was asked for, or None

guardVars == <<page, open, guards, dirty, work, prompt>>

Quiet == [f \in Forms |-> FALSE]
NoWork == [f \in Forms |-> "none"]

GuardInit ==
    /\ page = "list"
    /\ open = {}
    /\ guards = <<>>
    /\ dirty = Quiet
    /\ work = NoWork
    /\ prompt = None

-----------------------------------------------------------------------------

\* A page is mounted; the forms of the old one are gone.
Mount(to) ==
    /\ page' = to
    /\ open' = {f \in Standing : PageOf[f] = to}
    /\ guards' = SetToSeq(open')
    /\ dirty' = Quiet
    /\ work' = NoWork
    /\ prompt' = None

Blocks(when) == guards # <<>> /\ when[Last(guards)]

\* What navigate does once the forms have rendered "when".
Navigate(to, when) ==
    IF to # page /\ Blocks(when)
    THEN prompt' = to /\ dirty' = when /\ UNCHANGED <<page, open, guards, work>>
    ELSE Mount(to)

\* The prompt is modal: forms and links are out of reach behind it.
Leave(to) ==
    /\ prompt = None
    /\ to # page
    /\ Navigate(to, dirty)

KeepEditing ==
    /\ prompt # None
    /\ prompt' = None
    /\ UNCHANGED <<page, open, guards, dirty, work>>

DiscardChanges ==
    /\ prompt # None
    /\ Mount(prompt)

\* The tab is reloaded or closed: without the browser's question if no guard
\* asks for it.
CloseTab ==
    /\ prompt = None
    /\ \A i \in DOMAIN guards : ~dirty[guards[i]]
    /\ Mount("list")

-----------------------------------------------------------------------------

\* The button that opens a form stays where it is.
OpenFormAgain(f) ==
    /\ prompt = None
    /\ f \in Forms \ Standing
    /\ PageOf[f] = page
    /\ open' = open \cup {f}
    /\ guards' = IF f \in Guarded THEN Append(guards, f) ELSE guards
    /\ UNCHANGED <<page, dirty, work, prompt>>

\* The button that opens a form is replaced by the form.
OpenForm(f) ==
    /\ prompt = None
    /\ f \in Forms \ (Standing \cup open)
    /\ PageOf[f] = page
    /\ open' = open \cup {f}
    /\ guards' = IF f \in Guarded THEN Append(guards, f) ELSE guards
    /\ UNCHANGED <<page, dirty, work, prompt>>

Closed(f) ==
    /\ open' = open \ {f}
    /\ guards' = Sublist(guards, {i \in DOMAIN guards : guards[i] # f})
    /\ dirty' = [dirty EXCEPT ![f] = FALSE]
    /\ work' = [work EXCEPT ![f] = "none"]
    /\ UNCHANGED <<page, prompt>>

CancelForm(f) ==
    /\ prompt = None
    /\ f \in open \ Standing
    /\ Closed(f)

Fills(f, typed, noticed) ==
    /\ prompt = None
    /\ f \in open
    /\ work' = [work EXCEPT ![f] = typed]
    /\ dirty' = [dirty EXCEPT ![f] = noticed]
    /\ UNCHANGED <<page, open, guards, prompt>>

\* Typing and choosing: the form's change event.
Type(f) == f \in {"create", "publisher", "version"} /\ Fills(f, "typed", TRUE)

\* The usage draft is compared with the saved text: typing it back is clean,
\* and a toolbar button counts as much as a key.
TypeUsage(changed) == Fills("usage", IF changed THEN "typed" ELSE "none", changed)

\* The metadata form has no guard.
TypeEdit == Fills("edit", "typed", FALSE)

\* Tools that are fetched or pasted, revisions that are detected: buttons of
\* the editors, which the form does not hear of.
Build(f) ==
    /\ f \in {"create", "version"}
    /\ work[f] = "none"
    /\ Fills(f, "built", dirty[f])

=============================================================================
