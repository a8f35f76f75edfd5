------------------------- MODULE AuthoringFormsProofs -------------------------
(***************************************************************************)
(* Proofs about the forms that author an entry and the editors inside      *)
(* them, for any number of submissions, names, lists and revisions.        *)
(***************************************************************************)
EXTENDS AuthoringForms, SublistsProofs

vars == <<using, formsVars, versionEditorVars>>

LEMMA PartsStart == Init => FormsInit /\ EditorsInit
BY DEF Init, EditorsUntouched

LEMMA Parts == [Next]_vars => [FormsNext]_formsVars /\ [EditorsNext]_versionEditorVars
BY DEF Next, vars

LEMMA EditorParts ==
    [EditorsNext]_versionEditorVars => [ToolsNext]_toolsVars /\ [RevisionsNext]_revisionsVars
BY DEF EditorsNext, versionEditorVars

-----------------------------------------------------------------------------
(* The guards of the forms                                                 *)

GuardTyped ==
    /\ page \in Pages
    /\ open \subseteq {f \in Forms : PageOf[f] = page}
    /\ guards \in Seq(Forms)
    /\ ToSet(guards) = open \cap Guarded
    /\ IsInjective(guards)
    /\ dirty \in [Forms -> BOOLEAN]
    /\ work \in [Forms -> {"none", "typed", "built"}]
    /\ prompt \in Pages \cup {None}

\* What is typed into a form that has a guard, the guard knows; a form that is
\* not on the page has nothing typed into it.
WorkIsKnown ==
    /\ \A f \in Forms \ open : work[f] = "none"
    /\ \A f \in Guarded : work[f] = "typed" => dirty[f]

GuardInv == GuardTyped /\ WorkIsKnown

LEMMA FormsAre ==
    /\ Forms = {"create", "publisher", "version", "usage", "edit"}
    /\ Guarded = {"create", "publisher", "version", "usage"}
    /\ Pages = {"new", "newPublisher", "entry", "list"}
    /\ PageOf["create"] = "new" /\ PageOf["publisher"] = "newPublisher"
    /\ PageOf["version"] = "entry" /\ PageOf["usage"] = "entry" /\ PageOf["edit"] = "entry"
<1>1. Forms = {"create", "publisher", "version", "usage", "edit"}
  BY DEF Forms, PageOf
<1>2. /\ PageOf["create"] = "new" /\ PageOf["publisher"] = "newPublisher"
      /\ PageOf["version"] = "entry" /\ PageOf["usage"] = "entry" /\ PageOf["edit"] = "entry"
  BY DEF PageOf
<1>3. Pages = {"new", "newPublisher", "entry", "list"}
  BY <1>1, <1>2 DEF Pages
<1>4. QED
  BY <1>1, <1>2, <1>3 DEF Guarded

\* A set with one form, listed.
LEMMA ListOfOne ==
    ASSUME NEW S, S = {} \/ \E f \in Forms : S = {f}
    PROVE  SetToSeq(S) \in Seq(Forms) /\ ToSet(SetToSeq(S)) = S /\ IsInjective(SetToSeq(S))
<1>1. CASE S = {}
  <2>1. Cardinality(S) = 0
    BY <1>1, FS_EmptySet
  <2>2. <<>> \in [1 .. Cardinality(S) -> S] /\ IsInjective(<<>>)
    BY <2>1 DEF IsInjective
  <2>3. SetToSeq(S) \in [1 .. Cardinality(S) -> S] /\ IsInjective(SetToSeq(S))
    BY <2>2 DEF SetToSeq
  <2>4. SetToSeq(S) = <<>>
    BY <2>1, <2>3
  <2>5. QED
    BY <2>3, <2>4, <1>1 DEF ToSet
<1>2. CASE \E f \in Forms : S = {f}
  <2>1. PICK f \in Forms : S = {f}
    BY <1>2
  <2>2. Cardinality(S) = 1
    BY <2>1, FS_Singleton
  <2>3. <<f>> \in [1 .. Cardinality(S) -> S] /\ IsInjective(<<f>>)
    BY <2>1, <2>2 DEF IsInjective
  <2>4. SetToSeq(S) \in [1 .. Cardinality(S) -> S] /\ IsInjective(SetToSeq(S))
    BY <2>3 DEF SetToSeq
  <2>5. SetToSeq(S) \in [1 .. 1 -> S]
    BY <2>2, <2>4
  <2>6. SetToSeq(S) \in Seq(Forms)
    <3>1. SetToSeq(S) \in [1 .. 1 -> Forms]
      BY <2>1, <2>5
    <3>2. QED
      BY <3>1, IndexedList
  <2>7. ToSet(SetToSeq(S)) = S
    BY <2>1, <2>5 DEF ToSet
  <2>8. QED
    BY <2>4, <2>6, <2>7
<1>3. QED
  BY <1>1, <1>2

LEMMA GuardStarts == FormsInit => GuardInv
<1>1. SUFFICES ASSUME FormsInit PROVE GuardInv
  OBVIOUS
<1>2. GuardTyped
  BY <1>1, FormsAre DEF FormsInit, GuardInit, GuardTyped, Quiet, NoWork, ToSet, IsInjective
<1>3. WorkIsKnown
  BY <1>1, FormsAre DEF FormsInit, GuardInit, WorkIsKnown, Quiet, NoWork
<1>4. QED
  BY <1>2, <1>3 DEF GuardInv

LEMMA MountKeeps ==
    ASSUME NEW to \in Pages, Mount(to)
    PROVE  GuardInv'
<1>1. open' = {} \/ open' = {"create"} \/ open' = {"publisher"}
  BY FormsAre DEF Mount, Standing
<1>2. guards' \in Seq(Forms) /\ ToSet(guards') = open' /\ IsInjective(guards')
  BY <1>1, FormsAre, ListOfOne DEF Mount
<1>3. open' \subseteq {f \in Forms : PageOf[f] = to} /\ open' \cap Guarded = open'
  BY <1>1, FormsAre DEF Mount, Standing
<1>4. GuardTyped'
  BY <1>2, <1>3, FormsAre DEF Mount, GuardTyped, Quiet, NoWork
<1>5. WorkIsKnown'
  BY <1>1, FormsAre DEF Mount, WorkIsKnown, NoWork
<1>6. QED
  BY <1>4, <1>5 DEF GuardInv

\* A form can be called clean when it is not on the page, and a form of its
\* own page can be so as well: nothing else is there to hold it up.
LEMMA NavigateKeeps ==
    ASSUME GuardInv, NEW to \in Pages, NEW when \in [Forms -> BOOLEAN], Navigate(to, when),
           \/ when = dirty
           \/ \E f \in Standing : when = [dirty EXCEPT ![f] = FALSE]
    PROVE  GuardInv'
<1>1. CASE Mount(to)
  BY <1>1, MountKeeps
<1>2. CASE ~Mount(to)
  <2>1. /\ Blocks(when) /\ prompt' = to /\ dirty' = when
        /\ UNCHANGED <<page, open, guards, work>>
    BY <1>2 DEF Navigate
  <2>2. GuardTyped'
    BY <2>1 DEF GuardInv, GuardTyped
  <2>3. WorkIsKnown'
    <3>1. CASE when = dirty
      BY <2>1, <3>1 DEF GuardInv, WorkIsKnown
    <3>2. CASE \E f \in Standing : when = [dirty EXCEPT ![f] = FALSE]
      <4>1. PICK f \in Standing : when = [dirty EXCEPT ![f] = FALSE]
        BY <3>2
      <4>2. f \in Guarded /\ f \in Forms
        BY <4>1, FormsAre DEF Standing
      <4>3. guards # <<>> /\ when[Last(guards)]
        BY <2>1 DEF Blocks
      <4>4. Len(guards) \in DOMAIN guards /\ Last(guards) = guards[Len(guards)]
        BY <4>3 DEF GuardInv, GuardTyped, Last
      <4>5. Last(guards) \in ToSet(guards)
        BY <4>4 DEF ToSet
      <4>6. Last(guards) \in open /\ Last(guards) \in Guarded
        BY <4>5 DEF GuardInv, GuardTyped
      <4>7. Last(guards) # f
        BY <4>1, <4>2, <4>3 DEF GuardInv, GuardTyped
      <4>8. PageOf[Last(guards)] = page
        BY <4>6 DEF GuardInv, GuardTyped
      <4>9. PageOf[f] # page
        BY <4>1, <4>6, <4>7, <4>8, FormsAre DEF Standing
      <4>10. f \notin open
        BY <4>9 DEF GuardInv, GuardTyped
      <4>11. work[f] = "none"
        BY <4>2, <4>10 DEF GuardInv, WorkIsKnown
      <4>12. QED
        BY <2>1, <4>1, <4>2, <4>11 DEF GuardInv, GuardTyped, WorkIsKnown, Guarded
    <3>3. QED
      BY <3>1, <3>2
  <2>4. QED
    BY <2>2, <2>3 DEF GuardInv
<1>3. QED
  BY <1>1, <1>2


LEMMA OpeningKeeps ==
    ASSUME GuardInv, NEW f \in Forms, OpenForm(f)
    PROVE  GuardInv'
<1>1. f \notin open /\ PageOf[f] = page /\ open' = open \cup {f}
  BY DEF OpenForm
<1>2. UNCHANGED <<page, dirty, work, prompt>>
  BY DEF OpenForm
<1>3. guards' \in Seq(Forms) /\ ToSet(guards') = open' \cap Guarded /\ IsInjective(guards')
  <2>1. guards \in Seq(Forms) /\ ToSet(guards) = open \cap Guarded /\ IsInjective(guards)
    BY DEF GuardInv, GuardTyped
  <2>2. CASE f \in Guarded
    <3>1. guards' = Append(guards, f)
      BY <2>2 DEF OpenForm
    <3>2. /\ guards' \in Seq(Forms) /\ Len(guards') = Len(guards) + 1
          /\ DOMAIN guards' = DOMAIN guards \cup {Len(guards) + 1}
          /\ \A i \in DOMAIN guards : guards'[i] = guards[i]
          /\ guards'[Len(guards) + 1] = f
      BY <2>1, <3>1
    <3>3. ToSet(guards') = ToSet(guards) \cup {f}
      BY <3>2 DEF ToSet
    <3>4. \A i \in DOMAIN guards : guards[i] # f
      BY <1>1, <2>1 DEF ToSet
    <3>5. IsInjective(guards')
      BY <2>1, <3>2, <3>4 DEF IsInjective
    <3>6. QED
      BY <1>1, <2>1, <2>2, <3>2, <3>3, <3>5
  <2>3. CASE f \notin Guarded
    BY <1>1, <2>1, <2>3 DEF OpenForm
  <2>4. QED
    BY <2>2, <2>3
<1>4. GuardTyped'
  BY <1>1, <1>2, <1>3 DEF GuardInv, GuardTyped
<1>5. WorkIsKnown'
  BY <1>1, <1>2 DEF GuardInv, WorkIsKnown
<1>6. QED
  BY <1>4, <1>5 DEF GuardInv

LEMMA ClosingKeeps ==
    ASSUME GuardInv, NEW f \in open, Closed(f)
    PROVE  GuardInv'
<1> DEFINE kept == {i \in DOMAIN guards : guards[i] # f}
<1>1. /\ open' = open \ {f} /\ guards' = Sublist(guards, kept)
      /\ dirty' = [dirty EXCEPT ![f] = FALSE]
      /\ work' = [work EXCEPT ![f] = "none"]
      /\ UNCHANGED <<page, prompt>>
  BY DEF Closed
<1>2. /\ guards \in Seq(Forms) /\ ToSet(guards) = open \cap Guarded /\ IsInjective(guards)
      /\ f \in Forms
  BY DEF GuardInv, GuardTyped
<1>3. kept \subseteq DOMAIN guards
  OBVIOUS
<1>4. /\ guards' \in Seq(Forms)
      /\ DOMAIN guards' = 1 .. Cardinality(kept)
      /\ \A k \in 1 .. Cardinality(kept) :
            InOrder(kept)[k] \in kept /\ guards'[k] = guards[InOrder(kept)[k]]
      /\ \A i \in kept : \E k \in 1 .. Cardinality(kept) : guards'[k] = guards[i]
  <2> HIDE DEF kept
  <2>1. /\ Sublist(guards, kept) \in Seq(Forms)
        /\ DOMAIN Sublist(guards, kept) = 1 .. Cardinality(kept)
        /\ \A k \in 1 .. Cardinality(kept) :
              /\ InOrder(kept)[k] \in kept
              /\ Sublist(guards, kept)[k] = guards[InOrder(kept)[k]]
        /\ \A i \in kept : \E k \in 1 .. Cardinality(kept) : Sublist(guards, kept)[k] = guards[i]
    BY <1>2, <1>3, SublistProperties
  <2>2. QED
    BY <1>1, <2>1
<1>5. ToSet(guards') = ToSet(guards) \ {f}
  BY <1>4 DEF ToSet
<1>6. IsInjective(guards')
  <2>1. \A i, j \in DOMAIN guards : i # j => guards[i] # guards[j]
    BY <1>2 DEF IsInjective
  <2>2. \A k, l \in DOMAIN guards' : k # l => guards'[k] # guards'[l]
    BY <1>1, <1>2, <1>3, <2>1, SublistDistinct
  <2>3. QED
    BY <2>2 DEF IsInjective
<1> HIDE DEF kept
<1>7. GuardTyped'
  BY <1>1, <1>2, <1>4, <1>5, <1>6 DEF GuardInv, GuardTyped
<1>8. WorkIsKnown'
  BY <1>1, <1>2 DEF GuardInv, GuardTyped, WorkIsKnown, Guarded
<1>9. QED
  BY <1>7, <1>8 DEF GuardInv

LEMMA FillingKeeps ==
    ASSUME GuardInv, NEW f \in Forms, NEW typed \in {"none", "typed", "built"},
           NEW noticed \in BOOLEAN, Fills(f, typed, noticed),
           f \in Guarded /\ typed = "typed" => noticed
    PROVE  GuardInv'
<1>1. GuardTyped'
  BY DEF GuardInv, GuardTyped, Fills
<1>2. WorkIsKnown'
  BY DEF GuardInv, GuardTyped, WorkIsKnown, Fills, Guarded
<1>3. QED
  BY <1>1, <1>2 DEF GuardInv

LEMMA CloseKeeps ==
    ASSUME GuardInv, NEW f \in Forms, Close(f)
    PROVE  GuardInv'
<1>1. CASE f \in open
  BY <1>1, ClosingKeeps DEF Close
<1>2. CASE f \notin open
  BY <1>2 DEF Close, guardVars, GuardInv, GuardTyped, WorkIsKnown
<1>3. QED
  BY <1>1, <1>2

LEMMA BrowseKeeps == ASSUME GuardInv, Browse PROVE GuardInv'
<1>1. dirty \in [Forms -> BOOLEAN]
  BY DEF GuardInv, GuardTyped
<1>2. ASSUME NEW to \in Pages, Leave(to) PROVE GuardInv'
  BY <1>1, <1>2, NavigateKeeps DEF Leave
<1>3. CASE KeepEditing
  <2>1. GuardTyped'
    BY <1>3 DEF KeepEditing, GuardInv, GuardTyped
  <2>2. QED
    BY <1>3, <2>1 DEF KeepEditing, GuardInv, WorkIsKnown
<1>4. CASE DiscardChanges
  <2>1. prompt \in Pages
    BY <1>4 DEF DiscardChanges, GuardInv, GuardTyped
  <2>2. QED
    BY <1>4, <2>1, MountKeeps DEF DiscardChanges
<1>5. CASE CloseTab
  BY <1>5, MountKeeps, FormsAre DEF CloseTab
<1>6. ASSUME NEW changed \in BOOLEAN, TypeUsage(changed) PROVE GuardInv'
  <2> DEFINE typed == IF changed THEN "typed" ELSE "none"
  <2>1. typed \in {"none", "typed", "built"} /\ (typed = "typed" => changed) /\ "usage" \in Forms
    BY FormsAre
  <2>2. Fills("usage", typed, changed)
    BY <1>6 DEF TypeUsage
  <2> HIDE DEF typed
  <2>3. QED
    BY <2>1, <2>2, FillingKeeps
<1>7. CASE TypeEdit
  BY <1>7, FillingKeeps, FormsAre DEF TypeEdit
<1>8. ASSUME NEW f \in Forms, OpenForm(f) PROVE GuardInv'
  BY <1>8, OpeningKeeps
<1>9. ASSUME NEW f \in Forms, CancelForm(f) PROVE GuardInv'
  BY <1>9, ClosingKeeps DEF CancelForm
<1>10. ASSUME NEW f \in Forms, Type(f) PROVE GuardInv'
  BY <1>10, FillingKeeps DEF Type
<1>11. ASSUME NEW f \in Forms, Build(f) PROVE GuardInv'
  BY <1>1, <1>11, FillingKeeps DEF Build
<1>12. QED
  BY <1>2, <1>3, <1>4, <1>5, <1>6, <1>7, <1>8, <1>9, <1>10, <1>11 DEF Browse


\* What the answer to a submission does to the forms and their guards.
LEMMA AnswersGuards ==
    ASSUME NEW f \in Forms, NEW step, NEW in, Succeeds(f, step, in) \/ Refused(f, step, in)
    PROVE  \/ UNCHANGED guardVars
           \/ Redirect("create", "entry")
           \/ Redirect("publisher", "list")
           \/ Close(f)
BY DEF Succeeds, Refused, AfterEntry, AfterVersion, Created, Failed

\* A submission that starts has an input of its form.
LEMMA AnInput ==
    /\ NoInput \in Inputs
    /\ \A b \in BOOLEAN : [NoInput EXCEPT !.tools = b] \in Inputs
BY DEF NoInput, Inputs

LEMMA GuardSteps == GuardInv /\ [FormsNext]_formsVars => GuardInv'
<1>1. ASSUME GuardInv, UNCHANGED guardVars PROVE GuardInv'
  <2>1. GuardTyped'
    BY <1>1 DEF guardVars, GuardInv, GuardTyped
  <2>2. QED
    BY <1>1, <2>1 DEF guardVars, GuardInv, WorkIsKnown
<1>2. ASSUME GuardInv, NEW f \in Forms, NEW step, NEW in, Succeeds(f, step, in) \/ Refused(f, step, in)
      PROVE  GuardInv'
  <2>1. dirty \in [Forms -> BOOLEAN]
    BY <1>2 DEF GuardInv, GuardTyped
  <2>2. ASSUME NEW g \in Standing, NEW to \in Pages, Redirect(g, to) PROVE GuardInv'
    <3>1. [dirty EXCEPT ![g] = FALSE] \in [Forms -> BOOLEAN]
      BY <2>1
    <3>2. QED
      BY <1>2, <2>2, <3>1, NavigateKeeps DEF Redirect
  <2>3. QED
    BY <1>1, <1>2, <2>2, AnswersGuards, CloseKeeps, FormsAre DEF Standing
<1>3. ASSUME NEW f \in Forms, Commit(f) \/ Refuse(f) \/ Lose(f)
      PROVE  \/ UNCHANGED guardVars
             \/ \E step, in : Succeeds(f, step, in) \/ Refused(f, step, in)
  BY <1>3 DEF Commit, Refuse, Lose, Failed
<1>4. ASSUME NEW in \in Inputs,
             SubmitCreate(in) \/ SubmitVersion(in) \/ (\E f \in Forms : Submit(f, in))
      PROVE  UNCHANGED guardVars
  BY <1>4 DEF SubmitCreate, SubmitVersion, Submit
<1>5. QED
  BY <1>1, <1>2, <1>3, <1>4, AnInput, BrowseKeeps DEF FormsNext, formsVars

LEMMA GuardAlways == Spec => []GuardInv
<1>1. Init => GuardInv
  BY PartsStart, GuardStarts
<1>2. GuardInv /\ [Next]_vars => GuardInv'
  BY Parts, GuardSteps
<1>3. QED
  BY <1>1, <1>2, PTL DEF Spec, vars

\* Nobody closes the tab over a guarded form they have typed into, or leaves by a
\* link the one whose guard was mounted last, without being asked, whatever
\* submissions do meanwhile (dirty-form-guard.tsx).
THEOREM TypedWorkAlwaysGuarded == Spec => TypedWorkIsGuarded
<1>1. ASSUME GuardInv, CloseTab, NEW f \in open \cap Guarded PROVE work[f] # "typed"
  <2>1. f \in ToSet(guards)
    BY <1>1 DEF GuardInv, GuardTyped
  <2>2. ~dirty[f]
    BY <1>1, <2>1 DEF CloseTab, ToSet
  <2>3. QED
    BY <1>1, <2>2 DEF GuardInv, WorkIsKnown
<1>2. ASSUME GuardInv, NEW to \in Pages, Leave(to), page' # page, guards # <<>>
      PROVE  work[Last(guards)] # "typed"
  <2>1. ~Blocks(dirty)
    BY <1>2 DEF Leave, Navigate
  <2>2. ToSet(guards) = open \cap Guarded /\ guards \in Seq(Forms)
    BY <1>2 DEF GuardInv, GuardTyped
  <2>3. Len(guards) \in DOMAIN guards
    BY <1>2, <2>2
  <2>4. Last(guards) \in Guarded
    BY <2>2, <2>3 DEF ToSet, Last
  <2>5. ~dirty[Last(guards)]
    BY <1>2, <2>1 DEF Blocks
  <2>6. QED
    BY <1>2, <2>4, <2>5 DEF GuardInv, WorkIsKnown
<1>3. GuardInv =>
        [/\ CloseTab => \A f \in open \cap Guarded : work[f] # "typed"
         /\ (\E to \in Pages : Leave(to)) /\ page' # page /\ guards # <<>>
                => work[Last(guards)] # "typed"]_formsVars
  BY <1>1, <1>2
<1>4. QED
  BY <1>3, GuardAlways, PTL DEF TypedWorkIsGuarded

\* The success of a form that is the page leads off the page: the only guard
\* that could stop it is its own, and that one was told first (mcp/new.tsx,
\* publishers/new.tsx).
THEOREM OwnRedirectAlwaysPasses == Spec => OwnRedirectPasses
<1> DEFINE Passes == \A f \in Standing :
              told' # told /\ told'.form = f /\ ToSet(guards) \subseteq {f}
                  => prompt' = None \/ prompt' = prompt
<1>1. ASSUME GuardInv, NEW f \in Standing, NEW to, Redirect(f, to), ToSet(guards) \subseteq {f}
      PROVE  prompt' = None
  <2>1. f \in Forms
    BY <1>1, FormsAre DEF Standing
  <2>2. ~Blocks([dirty EXCEPT ![f] = FALSE])
    <3>1. ASSUME guards # <<>> PROVE Last(guards) = f
      <4>1. Len(guards) \in DOMAIN guards
        BY <1>1, <3>1 DEF GuardInv, GuardTyped
      <4>2. QED
        BY <1>1, <4>1 DEF ToSet, Last
    <3>2. QED
      BY <1>1, <2>1, <3>1 DEF Blocks, GuardInv, GuardTyped
  <2>3. QED
    BY <1>1, <2>2 DEF Redirect, Navigate, Mount
<1>2. ASSUME GuardInv, NEW f \in Forms, NEW step, NEW in, Succeeds(f, step, in) \/ Refused(f, step, in)
      PROVE  Passes
  <2>1. CASE UNCHANGED guardVars
    BY <2>1 DEF guardVars
  <2>2. \/ UNCHANGED guardVars
        \/ Redirect("create", "entry") /\ told'.form = "create"
        \/ Redirect("publisher", "list") /\ told'.form = "publisher"
        \/ Close(f) /\ told'.form = f
    <3> DEFINE Leads == Redirect("create", "entry") /\ told'.form = "create"
    <3>1. Created(in, FALSE) \/ Created(in, TRUE) => Leads
      <4>1. \A what : Ends("create", what, in) => told'.form = "create"
        BY DEF Ends, Says
      <4>2. QED
        BY <4>1 DEF Created, Toast
    <3>2. Ends(f, "created", in) => told'.form = f
      BY DEF Ends, Says
    <3> HIDE DEF Leads
    <3>3. AfterEntry(in) \/ AfterVersion(in) => UNCHANGED guardVars \/ Leads
      BY <3>1 DEF AfterEntry, AfterVersion, Failed
    <3>4. Succeeds(f, step, in) => \/ UNCHANGED guardVars \/ Leads
                                   \/ f = "publisher" /\ Redirect("publisher", "list") /\ told'.form = f
                                   \/ Close(f) /\ told'.form = f
      BY <3>1, <3>2, <3>3 DEF Succeeds
    <3>5. Refused(f, step, in) => UNCHANGED guardVars \/ Leads
      BY <3>1 DEF Refused, Failed
    <3>6. QED
      BY <1>2, <3>4, <3>5 DEF Leads
  <2>3. CASE Close(f)
    BY <2>3 DEF Close, Closed, guardVars
  <2>4. QED
    BY <1>1, <1>2, <2>1, <2>2, <2>3, FormsAre DEF Standing
<1>3. ASSUME FormsNext, told' # told
      PROVE  \/ UNCHANGED guardVars
             \/ \E f \in Forms : \E step, in : Succeeds(f, step, in) \/ Refused(f, step, in)
  BY <1>3 DEF FormsNext, Browse, jobVars, SubmitCreate, SubmitVersion, Submit, Commit, Refuse, Lose, Failed
<1>4. GuardInv /\ [FormsNext]_formsVars => [Passes]_formsVars
  <2>1. ASSUME UNCHANGED guardVars PROVE Passes
    BY <2>1 DEF guardVars
  <2>2. QED
    BY <1>2, <1>3, <2>1
<1>5. GuardInv /\ [Next]_vars => [Passes]_formsVars
  BY <1>4, Parts
<1>6. QED
  BY <1>5, GuardAlways, PTL DEF Spec, vars, OwnRedirectPasses


-----------------------------------------------------------------------------
(* The submissions                                                         *)

Outcomes == {"failed", "versionFailed", "warning", "created", "submitted"}

JobTyped ==
    /\ job \in [Forms -> {Idle} \cup [at : Steps, in : Inputs]]
    /\ done \in [Forms -> SUBSET Steps]
    /\ silent \in [Forms -> BOOLEAN]
    /\ told \in [form : {None}] \cup [form : Forms, what : Outcomes, in : Inputs]
    /\ jobs \in 0 .. MaxJobs

\* Only the create form has more than one call, and what the server has done
\* for it when the next one is under way is what the earlier ones asked for.
Progress ==
    /\ \A f \in Forms \ {"create"} :
          job[f] # Idle => job[f].at = IF f = "version" THEN "version" ELSE "save"
    /\ job["create"] # Idle =>
          /\ ~silent["create"]
          /\ \/ job["create"].at = "entry" /\ done["create"] = {}
             \/ /\ job["create"].at = "version" /\ done["create"] = {"entry"}
                /\ job["create"].in.version /\ job["create"].in.tools
             \/ /\ job["create"].at = "release" /\ done["create"] = {"entry", "version"}
                /\ job["create"].in.version /\ job["create"].in.release

JobInv == JobTyped /\ Progress /\ ToldWhatHappened

LEMMA JobsStart == FormsInit => JobInv
<1>1. SUFFICES ASSUME FormsInit PROVE JobInv
  OBVIOUS
<1>2. JobTyped
  BY <1>1, FormsAre, EntryFormsAssumption DEF FormsInit, JobTyped, Nothing, Quiet
<1>3. Progress
  BY <1>1, FormsAre DEF FormsInit, Progress
<1>4. told.form # "create"
  BY <1>1, FormsAre, FormGuardAssumption DEF FormsInit
<1>5. QED
  BY <1>2, <1>3, <1>4 DEF JobInv, ToldWhatHappened

LEMMA AJob ==
    ASSUME NEW step \in Steps, NEW in \in Inputs
    PROVE  [at |-> step, in |-> in] \in [at : Steps, in : Inputs] /\ [at |-> step, in |-> in] # Idle
BY DEF Steps, Idle

\* A submission that starts with its first call.
LEMMA StartKeeps ==
    ASSUME JobInv, NEW f \in Forms, NEW in \in Inputs, Starts(f), UNCHANGED told,
           Asks(f, IF f = "create" THEN "entry" ELSE IF f = "version" THEN "version" ELSE "save", in)
    PROVE  JobInv'
<1> DEFINE step == IF f = "create" THEN "entry" ELSE IF f = "version" THEN "version" ELSE "save"
           new == [at |-> step, in |-> in]
<1>1. step \in Steps
  BY DEF Steps
<1>2. new \in [at : Steps, in : Inputs] /\ new # Idle
  BY <1>1, AJob
<1>3. job' = [job EXCEPT ![f] = new]
  BY DEF Asks
<1>4. /\ done' = [done EXCEPT ![f] = {}] /\ silent' = [silent EXCEPT ![f] = FALSE]
      /\ jobs' = jobs - 1 /\ jobs > 0
  BY DEF Starts
<1>5. new.at = step
  OBVIOUS
<1> HIDE DEF new
<1>6. JobTyped'
  <2>1. jobs' \in 0 .. MaxJobs
    BY <1>4, EntryFormsAssumption DEF JobInv, JobTyped
  <2>2. QED
    BY <1>2, <1>3, <1>4, <2>1 DEF JobInv, JobTyped
<1>7. Progress'
  BY <1>3, <1>4, <1>5, FormsAre DEF JobInv, JobTyped, Progress
<1>8. ToldWhatHappened'
  BY <1>2, <1>3, <1>4, FormsAre DEF JobInv, JobTyped, ToldWhatHappened
<1>9. QED
  BY <1>6, <1>7, <1>8 DEF JobInv

\* A submission of another form than the create form that ends, in any way.
LEMMA OtherEndKeeps ==
    ASSUME JobInv, NEW f \in Forms \ {"create"}, NEW what \in Outcomes, NEW in \in Inputs,
           Ends(f, what, in),
           done' = [done EXCEPT ![f] = done'[f]], done'[f] \in SUBSET Steps,
           silent' = [silent EXCEPT ![f] = silent'[f]], silent'[f] \in BOOLEAN,
           jobs' \in 0 .. MaxJobs
    PROVE  JobInv'
<1>1. job' = [job EXCEPT ![f] = Idle] /\ told' = [form |-> f, what |-> what, in |-> in]
  BY DEF Ends, Says
<1>2. JobTyped'
  BY <1>1 DEF JobInv, JobTyped
<1>3. Progress'
  BY <1>1, FormsAre DEF JobInv, JobTyped, Progress
<1>4. ToldWhatHappened'
  BY <1>1 DEF ToldWhatHappened
<1>5. QED
  BY <1>2, <1>3, <1>4 DEF JobInv

\* What is asked of the create form, and the outcome it is told.
Wanted(in) ==
    {"entry"} \cup (IF in.version THEN {"version"} ELSE {})
              \cup (IF in.version /\ in.release THEN {"release"} ELSE {})

Means(what, in) ==
    CASE what = "failed" -> {}
      [] what = "versionFailed" -> {"entry"}
      [] what = "warning" -> Wanted(in) \ {"release"}
      [] what \in {"created", "submitted"} -> Wanted(in)

LEMMA CreateEndKeeps ==
    ASSUME JobInv, NEW what \in Outcomes, NEW in \in Inputs, Ends("create", what, in),
           done' = [done EXCEPT !["create"] = done'["create"]],
           silent' = [silent EXCEPT !["create"] = silent'["create"]],
           done'["create"] \in SUBSET Steps, silent'["create"] \in BOOLEAN,
           UNCHANGED jobs,
           silent'["create"] \/ done'["create"] = Means(what, in)
    PROVE  JobInv'
<1>1. job' = [job EXCEPT !["create"] = Idle] /\ told' = [form |-> "create", what |-> what, in |-> in]
  BY DEF Ends, Says
<1>2. JobTyped'
  BY <1>1, FormsAre DEF JobInv, JobTyped
<1>3. Progress'
  BY <1>1, FormsAre DEF JobInv, JobTyped, Progress
<1>4. ToldWhatHappened'
  <2>1. told'.what = what /\ told'.in = in
    BY <1>1
  <2>2. QED
    BY <2>1 DEF ToldWhatHappened, Means, Wanted
<1>5. QED
  BY <1>2, <1>3, <1>4 DEF JobInv

\* The create form goes on with its next call.
LEMMA CreateNextKeeps ==
    ASSUME JobInv, NEW step \in {"version", "release"}, NEW in \in Inputs, Asks("create", step, in),
           UNCHANGED <<told, silent, jobs>>, ~silent["create"],
           done' = [done EXCEPT !["create"] = done'["create"]], done'["create"] \in SUBSET Steps,
           \/ step = "version" /\ done'["create"] = {"entry"} /\ in.version /\ in.tools
           \/ step = "release" /\ done'["create"] = {"entry", "version"} /\ in.version /\ in.release
    PROVE  JobInv'
<1> DEFINE new == [at |-> step, in |-> in]
<1>1. new \in [at : Steps, in : Inputs] /\ new # Idle
  BY AJob DEF Steps
<1>2. job' = [job EXCEPT !["create"] = new] /\ new.at = step /\ new.in = in
  BY DEF Asks
<1> HIDE DEF new
<1>3. JobTyped'
  BY <1>1, <1>2, FormsAre DEF JobInv, JobTyped
<1>4. job'["create"] = new /\ \A f \in Forms \ {"create"} : job'[f] = job[f]
  BY <1>2, FormsAre DEF JobInv, JobTyped
<1>5. Progress'
  BY <1>2, <1>4 DEF JobInv, Progress
<1>6. ToldWhatHappened'
  BY <1>1, <1>4 DEF ToldWhatHappened
<1>7. QED
  BY <1>3, <1>5, <1>6 DEF JobInv


LEMMA SubmitKeeps ==
    ASSUME JobInv, NEW in \in Inputs,
           SubmitCreate(in) \/ SubmitVersion(in) \/ \E f \in Forms : Submit(f, in)
    PROVE  JobInv'
<1>1. CASE SubmitCreate(in)
  BY <1>1, StartKeeps, FormsAre DEF SubmitCreate
<1>2. CASE SubmitVersion(in) /\ in.tools
  BY <1>2, StartKeeps, FormsAre DEF SubmitVersion
<1>3. CASE SubmitVersion(in) /\ ~in.tools
  <2>1. Starts("version") /\ Ends("version", "failed", in)
    BY <1>3 DEF SubmitVersion
  <2>2. done' = [done EXCEPT !["version"] = {}] /\ silent' = [silent EXCEPT !["version"] = FALSE]
    BY <2>1 DEF Starts
  <2>3. done'["version"] = {} /\ silent'["version"] = FALSE
    BY <2>2, FormsAre DEF JobInv, JobTyped
  <2>4. jobs' \in 0 .. MaxJobs
    BY <2>1, EntryFormsAssumption DEF Starts, JobInv, JobTyped
  <2>5. QED
    BY <2>1, <2>2, <2>3, <2>4, OtherEndKeeps, FormsAre DEF Outcomes
<1>4. ASSUME NEW f \in Forms, Submit(f, in) PROVE JobInv'
  BY <1>4, StartKeeps DEF Submit
<1>5. QED
  BY <1>1, <1>2, <1>3, <1>4

\* How the submission of another form than the create form ends.
LEMMA OthersEnd ==
    ASSUME NEW f \in Forms \ {"create"}, NEW in,
           NEW step, step = IF f = "version" THEN "version" ELSE "save"
    PROVE  /\ Succeeds(f, step, in) => Ends(f, "created", in)
           /\ Refused(f, step, in) => Ends(f, "failed", in)
           /\ Failed(f, "failed", in) => Ends(f, "failed", in)
BY DEF Succeeds, Refused, Failed

LEMMA OtherAnswerKeeps ==
    ASSUME JobInv, NEW f \in Forms \ {"create"}, Commit(f) \/ Refuse(f) \/ Lose(f)
    PROVE  JobInv'
<1> DEFINE at == job[f].at
           in == job[f].in
<1>1. job[f] # Idle
  BY DEF Commit, Refuse, Lose
<1>2. at \in Steps /\ in \in Inputs /\ at = IF f = "version" THEN "version" ELSE "save"
  BY <1>1 DEF JobInv, JobTyped, Progress
<1>3. \E what \in Outcomes : Ends(f, what, in)
  <2>1. Succeeds(f, at, in) \/ Refused(f, at, in) \/ Failed(f, "failed", in)
    BY DEF Commit, Refuse, Lose
  <2> HIDE DEF at, in
  <2>2. QED
    BY <1>2, <2>1, OthersEnd DEF Outcomes
<1>4. PICK what \in Outcomes : Ends(f, what, in)
  BY <1>3
<1>5. UNCHANGED jobs
  BY DEF Commit, Refuse, Lose
<1>6. /\ done' = done \/ done' = [done EXCEPT ![f] = @ \cup {at}]
      /\ silent' = silent \/ silent' = [silent EXCEPT ![f] = TRUE]
  BY DEF Commit, Refuse, Lose
<1> HIDE DEF at, in
<1>7. /\ done' = [done EXCEPT ![f] = done'[f]] /\ done'[f] \in SUBSET Steps
      /\ silent' = [silent EXCEPT ![f] = silent'[f]] /\ silent'[f] \in BOOLEAN
  <2>1. done \in [Forms -> SUBSET Steps] /\ silent \in [Forms -> BOOLEAN] /\ f \in Forms
    BY DEF JobInv, JobTyped
  <2>2. done' = [done EXCEPT ![f] = done'[f]] /\ done'[f] \in SUBSET Steps
    BY <1>2, <1>6, <2>1
  <2>3. silent' = [silent EXCEPT ![f] = silent'[f]] /\ silent'[f] \in BOOLEAN
    <3>1. CASE silent' = silent
      BY <2>1, <3>1
    <3>2. CASE silent' = [silent EXCEPT ![f] = TRUE]
      BY <2>1, <3>2
    <3>3. QED
      BY <1>6, <3>1, <3>2
  <2>4. QED
    BY <2>2, <2>3
<1>8. jobs' \in 0 .. MaxJobs
  BY <1>5 DEF JobInv, JobTyped
<1>9. QED
  BY <1>2, <1>4, <1>7, <1>8, OtherEndKeeps

\* Either toast of success.
EndsWell(in) == Ends("create", "created", in) \/ Ends("create", "submitted", in)

\* The answers of the server to the calls of the create form, one by one.
LEMMA CreateAnswers ==
    ASSUME NEW in \in Inputs
    PROVE  /\ Succeeds("create", "entry", in) =>
                 \/ ~in.version /\ EndsWell(in)
                 \/ in.version /\ ~in.tools /\ Ends("create", "versionFailed", in)
                 \/ in.version /\ in.tools /\ Asks("create", "version", in) /\ UNCHANGED told
           /\ Succeeds("create", "version", in) =>
                 \/ in.release /\ Asks("create", "release", in) /\ UNCHANGED told
                 \/ ~in.release /\ EndsWell(in)
           /\ Succeeds("create", "release", in) => EndsWell(in)
           /\ Refused("create", "entry", in) => Ends("create", "failed", in)
           /\ Refused("create", "version", in) => Ends("create", "versionFailed", in)
           /\ Refused("create", "release", in) => Ends("create", "warning", in)
BY DEF Succeeds, Refused, AfterEntry, AfterVersion, Created, Toast, Failed, EndsWell

LEMMA MeaningOfOutcomes ==
    ASSUME NEW in \in Inputs
    PROVE  /\ Means("failed", in) = {} /\ Means("versionFailed", in) = {"entry"}
           /\ ~in.version => Means("created", in) = {"entry"}
           /\ in.version /\ ~in.release => Means("created", in) = {"entry", "version"}
           /\ in.version /\ in.release => /\ Means("created", in) = {"entry", "version", "release"}
                                          /\ Means("warning", in) = {"entry", "version"}
           /\ Means("submitted", in) = Means("created", in)
BY DEF Means, Wanted, Inputs

LEMMA CreateAnswerKeeps ==
    ASSUME JobInv, Commit("create") \/ Refuse("create") \/ Lose("create")
    PROVE  JobInv'
<1> DEFINE at == job["create"].at
           in == job["create"].in
<1>1. job["create"] # Idle /\ UNCHANGED jobs
  BY DEF Commit, Refuse, Lose
<1>2. in \in Inputs /\ at \in Steps
  BY <1>1, FormsAre DEF JobInv, JobTyped
<1>3. /\ ~silent["create"]
      /\ \/ at = "entry" /\ done["create"] = {}
         \/ at = "version" /\ done["create"] = {"entry"} /\ in.version /\ in.tools
         \/ at = "release" /\ done["create"] = {"entry", "version"} /\ in.version /\ in.release
  BY <1>1 DEF JobInv, Progress
<1>4. /\ done \in [Forms -> SUBSET Steps] /\ silent \in [Forms -> BOOLEAN] /\ "create" \in Forms
      /\ "entry" \in Steps /\ "version" \in Steps /\ "release" \in Steps
  BY FormsAre DEF JobInv, JobTyped, Steps
<1>5. CASE Commit("create")
  <2>1. /\ Succeeds("create", at, in) /\ UNCHANGED silent
        /\ done' = [done EXCEPT !["create"] = @ \cup {at}]
    BY <1>5 DEF Commit
  <2> HIDE DEF at, in
  <2>2. /\ done' = [done EXCEPT !["create"] = done'["create"]]
        /\ done'["create"] = done["create"] \cup {at} /\ done'["create"] \in SUBSET Steps
        /\ silent' = [silent EXCEPT !["create"] = silent'["create"]] /\ silent'["create"] \in BOOLEAN
    BY <1>2, <1>4, <2>1
  <2>3. CASE at = "entry"
    <3>1. done'["create"] = {"entry"}
      BY <1>3, <2>2, <2>3
    <3>2. CASE ~in.version /\ EndsWell(in)
      BY <1>1, <1>2, <2>2, <3>1, <3>2, CreateEndKeeps, MeaningOfOutcomes DEF Outcomes, EndsWell
    <3>3. CASE in.version /\ ~in.tools /\ Ends("create", "versionFailed", in)
      BY <1>1, <1>2, <2>2, <3>1, <3>3, CreateEndKeeps, MeaningOfOutcomes DEF Outcomes
    <3>4. CASE in.version /\ in.tools /\ Asks("create", "version", in) /\ UNCHANGED told
      BY <1>1, <1>2, <1>3, <2>1, <2>2, <3>1, <3>4, CreateNextKeeps
    <3>5. QED
      BY <1>2, <2>1, <2>3, <3>2, <3>3, <3>4, CreateAnswers
  <2>4. CASE at = "version"
    <3>1. done'["create"] = {"entry", "version"} /\ in.version
      BY <1>3, <2>2, <2>4
    <3>2. CASE in.release /\ Asks("create", "release", in) /\ UNCHANGED told
      BY <1>1, <1>2, <1>3, <2>1, <2>2, <3>1, <3>2, CreateNextKeeps
    <3>3. CASE ~in.release /\ EndsWell(in)
      BY <1>1, <1>2, <2>2, <3>1, <3>3, CreateEndKeeps, MeaningOfOutcomes DEF Outcomes, EndsWell
    <3>4. QED
      BY <1>2, <2>1, <2>4, <3>2, <3>3, CreateAnswers
  <2>5. CASE at = "release"
    <3>1. done'["create"] = {"entry", "version", "release"} /\ in.version /\ in.release
      BY <1>3, <2>2, <2>5
    <3>2. EndsWell(in)
      BY <1>2, <2>1, <2>5, CreateAnswers
    <3>3. QED
      BY <1>1, <1>2, <2>2, <3>1, <3>2, CreateEndKeeps, MeaningOfOutcomes DEF Outcomes, EndsWell
  <2>6. QED
    BY <1>3, <2>3, <2>4, <2>5
<1>6. CASE Refuse("create")
  <2>1. Refused("create", at, in) /\ UNCHANGED <<done, silent>>
    BY <1>6 DEF Refuse
  <2> HIDE DEF at, in
  <2>2. /\ done' = [done EXCEPT !["create"] = done'["create"]] /\ done'["create"] \in SUBSET Steps
        /\ silent' = [silent EXCEPT !["create"] = silent'["create"]] /\ silent'["create"] \in BOOLEAN
    BY <1>4, <2>1
  <2>3. \E what \in Outcomes : Ends("create", what, in) /\ done'["create"] = Means(what, in)
    BY <1>2, <1>3, <2>1, CreateAnswers, MeaningOfOutcomes DEF Outcomes
  <2>4. QED
    BY <1>1, <1>2, <2>2, <2>3, CreateEndKeeps
<1>7. CASE Lose("create")
  <2>1. /\ Ends("create", "failed", in)
        /\ done' = done \/ done' = [done EXCEPT !["create"] = @ \cup {at}]
        /\ silent' = [silent EXCEPT !["create"] = TRUE]
    BY <1>7 DEF Lose, Failed
  <2> HIDE DEF at, in
  <2>2. /\ done' = [done EXCEPT !["create"] = done'["create"]] /\ done'["create"] \in SUBSET Steps
        /\ silent' = [silent EXCEPT !["create"] = silent'["create"]] /\ silent'["create"] = TRUE
    BY <1>2, <1>4, <2>1
  <2>3. QED
    BY <1>1, <1>2, <2>1, <2>2, CreateEndKeeps DEF Outcomes
<1>8. QED
  BY <1>5, <1>6, <1>7

LEMMA JobSteps == JobInv /\ [FormsNext]_formsVars => JobInv'
<1>1. ASSUME JobInv, UNCHANGED jobVars PROVE JobInv'
  BY <1>1 DEF jobVars, JobInv, JobTyped, Progress, ToldWhatHappened
<1>2. CASE JobInv /\ Browse
  BY <1>1, <1>2 DEF Browse
<1>3. CASE JobInv /\ FormsNext
  BY <1>2, <1>3, AnInput, SubmitKeeps, OtherAnswerKeeps, CreateAnswerKeeps DEF FormsNext
<1>4. QED
  BY <1>1, <1>3 DEF formsVars

LEMMA JobAlways == Spec => []JobInv
<1>1. Init => JobInv
  BY PartsStart, JobsStart
<1>2. JobInv /\ [Next]_vars => JobInv'
  BY Parts, JobSteps
<1>3. QED
  BY <1>1, <1>2, PTL DEF Spec, vars

\* Whatever the server commits or refuses, and in whatever order the forms are
\* submitted, the user of the create form is told what the answers amount to
\* (mcp/new.tsx).
THEOREM AlwaysToldWhatHappened == Spec => []ToldWhatHappened
<1>1. JobInv => ToldWhatHappened
  BY DEF JobInv
<1>2. QED
  BY <1>1, JobAlways, PTL

\* The forms keep their types, and each open form that has a guard has it once.
LEMMA FormsAlwaysTyped == Spec => []FormsTypeOK
<1>1. GuardInv /\ JobInv => FormsTypeOK
  BY DEF GuardInv, GuardTyped, JobInv, JobTyped, FormsTypeOK
<1>2. QED
  BY <1>1, GuardAlways, JobAlways, PTL


-----------------------------------------------------------------------------
(* The list of revisions                                                   *)

\* What the server accepts: domain.ValidateProtocolVersions.
Accepted(s) ==
    /\ s \in Seq(Revisions) /\ s # <<>>
    /\ \A i, j \in DOMAIN s : i < j => s[i] > s[j]

RevisionsInv ==
    /\ Accepted(tokens)
    /\ draft \in Revisions \cup {Empty, Typo}
    /\ detected \in (SUBSET Revisions) \cup {Absent}
    /\ reviewing => detected \in SUBSET Revisions
    /\ probing \in Endpoints \cup {Absent}
    /\ endpoint \in Endpoints \cup {NoEndpoint}

LEMMA NewestIsAccepted ==
    ASSUME NEW S, S \subseteq Revisions, S # {}
    PROVE  Accepted(NewestFirst(S))
<1>1. S \subseteq Int /\ IsFiniteSet(S)
  BY RevisionsAssumption, FS_Subset
<1>2. Cardinality(S) # 0 /\ Cardinality(S) \in Nat
  BY <1>1, FS_EmptySet, FS_CardinalityType
<1>3. /\ NewestFirst(S) \in [1 .. Cardinality(S) -> S]
      /\ \A i, j \in 1 .. Cardinality(S) : i < j => NewestFirst(S)[i] > NewestFirst(S)[j]
  BY <1>1, NewestFirstProperties DEF Descends
<1>4. NewestFirst(S) \in Seq(S) /\ Len(NewestFirst(S)) = Cardinality(S)
  BY <1>1, NewestFirstIsAList
<1>5. NewestFirst(S) \in Seq(Revisions)
  BY <1>4
<1>6. QED
  BY <1>2, <1>3, <1>4, <1>5 DEF Accepted

LEMMA FilterIsAccepted ==
    ASSUME NEW s, Accepted(s), NEW kept, kept \subseteq DOMAIN s, kept # {}
    PROVE  Accepted(Sublist(s, kept))
<1>1. s \in Seq(Revisions)
  BY DEF Accepted
<1>2. /\ Sublist(s, kept) \in Seq(Revisions)
      /\ DOMAIN Sublist(s, kept) = 1 .. Cardinality(kept)
      /\ \A k \in 1 .. Cardinality(kept) :
            InOrder(kept)[k] \in kept /\ Sublist(s, kept)[k] = s[InOrder(kept)[k]]
      /\ \A i \in kept : \E k \in 1 .. Cardinality(kept) : Sublist(s, kept)[k] = s[i]
  BY <1>1, SublistProperties
<1>3. \A k, l \in 1 .. Cardinality(kept) : k < l => InOrder(kept)[k] < InOrder(kept)[l]
  BY <1>1, KeptPositions DEF Ascends
<1>4. \A k, l \in DOMAIN Sublist(s, kept) : k < l => Sublist(s, kept)[k] > Sublist(s, kept)[l]
  BY <1>2, <1>3 DEF Accepted
<1>5. Sublist(s, kept) # <<>>
  <2>1. PICK i \in kept : TRUE
    OBVIOUS
  <2>2. \E k \in DOMAIN Sublist(s, kept) : TRUE
    BY <1>2, <2>1
  <2>3. QED
    BY <2>2
<1>6. QED
  BY <1>2, <1>4, <1>5 DEF Accepted

LEMMA RevisionsStart == EditorsInit => RevisionsInv
<1>1. SUFFICES ASSUME RevisionsInit PROVE RevisionsInv
  BY DEF EditorsInit
<1>2. PICK S \in (SUBSET Revisions) \ {{}} : tokens = NewestFirst(S)
  BY <1>1 DEF RevisionsInit
<1>3. Accepted(tokens)
  BY <1>2, NewestIsAccepted
<1>4. QED
  BY <1>1, <1>3 DEF RevisionsInit, RevisionsInv

LEMMA AddKeeps ==
    ASSUME RevisionsInv, NEW d, Add(d)
    PROVE  Accepted(tokens)' /\ draft' \in Revisions \cup {Empty, Typo}
<1>1. CASE Acceptable(d)
  <2>1. Tokens \cup {d} \subseteq Revisions
    BY <1>1 DEF Acceptable, Tokens, RevisionsInv, Accepted
  <2>2. Accepted(NewestFirst(Tokens \cup {d}))
    BY <2>1, NewestIsAccepted
  <2>3. tokens' = NewestFirst(Tokens \cup {d}) /\ draft' = Empty
    BY <1>1 DEF Add
  <2>4. QED
    BY <2>2, <2>3 DEF Accepted
<1>2. CASE ~Acceptable(d)
  BY <1>2 DEF Add, RevisionsInv, Accepted
<1>3. QED
  BY <1>1, <1>2

LEMMA RevisionSteps == RevisionsInv /\ [RevisionsNext]_revisionsVars => RevisionsInv'
<1> SUFFICES ASSUME RevisionsInv, [RevisionsNext]_revisionsVars
             PROVE  RevisionsInv'
  OBVIOUS
<1>1. CASE UNCHANGED revisionsVars
  BY <1>1 DEF revisionsVars, RevisionsInv, Accepted
<1>2. CASE FocusDraft \/ Detect \/ DetectFails \/ KeepMyList
           \/ \E d \in Revisions \cup {Empty, Typo} : TypeDraft(d)
           \/ \E u \in Endpoints \cup {NoEndpoint} : EditEndpoint(u)
  BY <1>2 DEF FocusDraft, Detect, DetectFails, KeepMyList, TypeDraft, EditEndpoint, RevisionsInv, Accepted
<1>3. CASE EnterDraft
  BY <1>3, AddKeeps DEF EnterDraft, RevisionsInv
<1>4. CASE BlurDraft
  <2>1. CASE draft # Empty
    BY <1>4, <2>1, AddKeeps DEF BlurDraft, RevisionsInv
  <2>2. CASE draft = Empty
    BY <1>4, <2>2 DEF BlurDraft, RevisionsInv, Accepted
  <2>3. QED
    BY <2>1, <2>2
<1>5. CASE Backspace
  <2>1. tokens' = SubSeq(tokens, 1, Len(tokens) - 1) /\ Len(tokens) > 1
    BY <1>5 DEF Backspace, Front
  <2>2. tokens \in Seq(Revisions) /\ \A i, j \in DOMAIN tokens : i < j => tokens[i] > tokens[j]
    BY DEF RevisionsInv, Accepted
  <2>3. /\ tokens' \in Seq(Revisions) /\ Len(tokens') = Len(tokens) - 1
        /\ \A i \in 1 .. Len(tokens) - 1 : tokens'[i] = tokens[i]
    BY <2>1, <2>2
  <2>4. Accepted(tokens')
    <3>1. Len(tokens') > 0 /\ Len(tokens) \in Nat
      BY <2>1, <2>2, <2>3
    <3>2. DOMAIN tokens' = 1 .. Len(tokens) - 1 /\ DOMAIN tokens = 1 .. Len(tokens)
      BY <2>2, <2>3
    <3>3. \A i, j \in DOMAIN tokens' : i < j => tokens'[i] > tokens'[j]
      BY <2>2, <2>3, <3>1, <3>2
    <3>4. tokens' # <<>>
      BY <3>1
    <3>5. QED
      BY <2>3, <3>3, <3>4 DEF Accepted
  <2>5. QED
    BY <1>5, <2>4 DEF Backspace, RevisionsInv, Accepted
<1>6. ASSUME NEW v, PickSuggestion(v) PROVE RevisionsInv'
  BY <1>6, AddKeeps DEF PickSuggestion, RevisionsInv
<1>7. ASSUME NEW v, RemoveToken(v) PROVE RevisionsInv'
  <2>1. CASE Len(tokens) = 1
    BY <1>7, <2>1 DEF RemoveToken, RevisionsInv, Accepted
  <2>2. CASE Len(tokens) # 1
    <3> DEFINE kept == {i \in DOMAIN tokens : tokens[i] # v}
    <3>0. tokens \in Seq(Revisions) /\ tokens # <<>> /\ \A i, j \in DOMAIN tokens : i < j => tokens[i] > tokens[j]
      BY DEF RevisionsInv, Accepted
    <3>1. 1 \in DOMAIN tokens /\ 2 \in DOMAIN tokens
      <4>1. Len(tokens) \in Nat /\ DOMAIN tokens = 1 .. Len(tokens)
        BY <3>0
      <4>2. Len(tokens) # 0
        BY <3>0
      <4>3. QED
        BY <2>2, <4>1, <4>2
    <3>2. tokens[1] > tokens[2] /\ tokens[1] \in Int /\ tokens[2] \in Int
      <4>1. tokens[1] \in Revisions /\ tokens[2] \in Revisions
        BY <3>0, <3>1
      <4>2. tokens[1] > tokens[2]
        BY <3>0, <3>1
      <4>3. QED
        BY <4>1, <4>2, RevisionsAssumption
    <3>3. tokens[1] # v \/ tokens[2] # v
      BY <3>2
    <3>4. kept # {} /\ kept \subseteq DOMAIN tokens
      BY <3>1, <3>3
    <3>5. tokens' = Sublist(tokens, kept)
      BY <1>7, <2>2 DEF RemoveToken
    <3> HIDE DEF kept
    <3>6. Accepted(tokens')
      BY <3>4, <3>5, FilterIsAccepted DEF RevisionsInv
    <3>7. QED
      BY <1>7, <3>6 DEF RemoveToken, RevisionsInv, Accepted
  <2>3. QED
    BY <2>1, <2>2
<1>8. CASE UseDetected
  <2>1. detected \subseteq Revisions /\ detected # {} /\ tokens' = NewestFirst(detected)
    BY <1>8 DEF UseDetected, RevisionsInv
  <2>2. Accepted(tokens')
    BY <2>1, NewestIsAccepted
  <2>3. QED
    BY <1>8, <2>2 DEF UseDetected, RevisionsInv, Accepted
<1>9. ASSUME NEW S \in SUBSET Revisions, DetectAnswers(S) PROVE RevisionsInv'
  BY <1>9 DEF DetectAnswers, RevisionsInv, Accepted
<1>10. QED
  BY <1>1, <1>2, <1>3, <1>4, <1>5, <1>6, <1>7, <1>8, <1>9 DEF RevisionsNext

LEMMA RevisionsAlways == Spec => []RevisionsInv
<1>1. Init => RevisionsInv
  BY PartsStart, RevisionsStart
<1>2. RevisionsInv /\ [Next]_vars => RevisionsInv'
  BY Parts, EditorParts, RevisionSteps
<1>3. QED
  BY <1>1, <1>2, PTL DEF Spec, vars

\* However revisions are typed, picked, removed, detected and replaced, the
\* server accepts the list the form submits: it is never empty, without
\* duplicates and newest first (protocol-versions-input.tsx,
\* domain.ValidateProtocolVersions).
THEOREM RevisionListAlwaysAccepted == Spec => []RevisionListAccepted
<1>1. RevisionsInv => RevisionListAccepted
  BY DEF RevisionsInv, Accepted, RevisionListAccepted
<1>2. QED
  BY <1>1, RevisionsAlways, PTL


-----------------------------------------------------------------------------
(* The rows of a review                                                    *)

LEMMA ToolListsAre ==
    \A ts : ts \in ToolLists <=> ts \in Seq(Tool) /\ Len(ts) <= MaxTools
<1>1. ASSUME NEW ts \in ToolLists PROVE ts \in Seq(Tool) /\ Len(ts) <= MaxTools
  <2>1. PICK n \in 0 .. MaxTools : ts \in [1 .. n -> Tool]
    BY <1>1 DEF ToolLists
  <2>2. ts \in Seq(Tool) /\ Len(ts) = n
    BY <2>1, IndexedList
  <2>3. QED
    BY <2>1, <2>2, ToolsEditorAssumption
<1>2. ASSUME NEW ts \in Seq(Tool), Len(ts) <= MaxTools PROVE ts \in ToolLists
  <2>1. Len(ts) \in 0 .. MaxTools /\ ts \in [1 .. Len(ts) -> Tool]
    BY <1>2, ToolsEditorAssumption
  <2>2. QED
    BY <2>1 DEF ToolLists
<1>3. QED
  BY <1>1, <1>2

\* A tool: its parts.
LEMMA ToolParts ==
    /\ \A t \in Tool : t.name \in Names \cup {Unnamed} /\ t.content \in Contents
                       /\ t.extra \in BOOLEAN
    /\ \A n \in Names \cup {Unnamed}, c \in Contents, x \in BOOLEAN :
          [name |-> n, content |-> c, extra |-> x] \in Tool
BY DEF Tool

\* The first tools of each name have all the names, once each.
LEMMA FirstOfEachProperties ==
    ASSUME NEW ts \in Seq(Tool)
    PROVE  /\ FirstOfEach(ts) \in Seq(Tool)
           /\ \A k, l \in DOMAIN FirstOfEach(ts) :
                 k # l => FirstOfEach(ts)[k].name # FirstOfEach(ts)[l].name
           /\ \A k \in DOMAIN FirstOfEach(ts) : \E i \in DOMAIN ts : FirstOfEach(ts)[k] = ts[i]
           /\ \A i \in DOMAIN ts : \E k \in DOMAIN FirstOfEach(ts) : FirstOfEach(ts)[k].name = ts[i].name
<1> DEFINE kept == {i \in DOMAIN ts : \A j \in 1 .. i - 1 : ts[j].name # ts[i].name}
           F == Sublist(ts, kept)
           p == InOrder(kept)
           n == Cardinality(kept)
<1>0. F = FirstOfEach(ts)
  BY DEF FirstOfEach
<1>1. kept \subseteq DOMAIN ts /\ DOMAIN ts = 1 .. Len(ts) /\ Len(ts) \in Nat
  OBVIOUS
<1>2. \A i \in kept : \A j \in 1 .. i - 1 : ts[j].name # ts[i].name
  OBVIOUS
<1>3. \A i \in DOMAIN ts : \E m \in kept : ts[m].name = ts[i].name
  <2> SUFFICES ASSUME NEW i \in DOMAIN ts PROVE \E m \in kept : ts[m].name = ts[i].name
    OBVIOUS
  <2> DEFINE S == {j \in DOMAIN ts : ts[j].name = ts[i].name}
  <2>1. S \subseteq Nat /\ i \in S
    BY <1>1
  <2>2. PICK m \in S : \A j \in S : m <= j
    <3> HIDE DEF S
    <3>1. QED
      BY <2>1, LeastNumber
  <2>3. \A j \in 1 .. m - 1 : ts[j].name # ts[m].name
    <3> SUFFICES ASSUME NEW j \in 1 .. m - 1, ts[j].name = ts[m].name PROVE FALSE
      OBVIOUS
    <3>1. j \in DOMAIN ts /\ j < m
      BY <1>1
    <3>2. j \in S
      BY <3>1
    <3>3. QED
      BY <1>1, <2>2, <3>1, <3>2
  <2>4. QED
    BY <2>2, <2>3
<1> HIDE DEF kept
<1>4. /\ F \in Seq(Tool) /\ DOMAIN F = 1 .. n /\ n \in Nat
      /\ \A k \in 1 .. n : p[k] \in kept /\ F[k] = ts[p[k]]
      /\ \A i \in kept : \E k \in 1 .. n : F[k] = ts[i]
  BY <1>1, SublistProperties, KeptPositions
<1>5. \A k, l \in 1 .. n : k < l => p[k] < p[l]
  BY <1>1, KeptPositions DEF Ascends
<1> HIDE DEF F, p, n
<1>6. ASSUME NEW k \in 1 .. n, NEW l \in 1 .. n, k < l PROVE F[k].name # F[l].name
  <2>1. p[k] < p[l] /\ p[k] \in kept /\ p[l] \in kept
    BY <1>4, <1>5, <1>6
  <2>2. p[k] \in 1 .. p[l] - 1
    BY <1>1, <2>1
  <2>3. QED
    BY <1>2, <1>4, <2>1, <2>2
<1>7. \A k, l \in DOMAIN F : k # l => F[k].name # F[l].name
  <2> SUFFICES ASSUME NEW k \in 1 .. n, NEW l \in 1 .. n, k # l PROVE F[k].name # F[l].name
    BY <1>4
  <2>1. k < l \/ l < k
    BY <1>4
  <2>2. QED
    BY <1>6, <2>1
<1>8. \A k \in DOMAIN F : \E i \in DOMAIN ts : F[k] = ts[i]
  BY <1>1, <1>4
<1>9. \A i \in DOMAIN ts : \E k \in DOMAIN F : F[k].name = ts[i].name
  BY <1>3, <1>4
<1>10. QED
  BY <1>0, <1>4, <1>7, <1>8, <1>9

\* A list that a server reports.
Reported(ts) ==
    /\ ts \in Seq(Tool)
    /\ \A i \in DOMAIN ts : ts[i].name \in Names

LEMMA ListingsAreReported == \A ts \in Listings : Reported(ts)
BY ToolsEditorAssumption, ToolListsAre DEF Reported

\* The tools of a name, in a list that has some.
LEMMA LastNamed ==
    ASSUME NEW ts \in Seq(Tool), NEW n \in NamesOf(ts)
    PROVE  Last(Named(ts, n)).content \in Contents
<1> DEFINE kept == {i \in DOMAIN ts : ts[i].name = n}
           L == Sublist(ts, kept)
<1>1. PICK i \in kept : TRUE
  BY DEF NamesOf
<1>2. kept \subseteq DOMAIN ts
  OBVIOUS
<1> HIDE DEF kept
<1>3. /\ L \in Seq(Tool) /\ Len(L) = Cardinality(kept) /\ DOMAIN L = 1 .. Cardinality(kept)
      /\ \A j \in kept : \E k \in 1 .. Cardinality(kept) : L[k] = ts[j]
  BY <1>2, SublistProperties
<1> HIDE DEF L
<1>4. Len(L) \in DOMAIN L
  BY <1>1, <1>3
<1>5. L[Len(L)] \in Tool
  BY <1>3, <1>4
<1>6. Named(ts, n) = L
  BY DEF Named, L, kept
<1>7. QED
  BY <1>5, <1>6, ToolParts DEF Last

\* What a row says of the list it was computed for.
Describes(r, cur, ts) ==
    /\ r \in Row
    /\ r.status # "missing" => r.found \in Contents
    /\ r.status = "missing" => r.name \in NamesOf(cur) /\ r.found = NoTool
    /\ r.status = "new" => r.name \notin NamesOf(cur)
    /\ r.status = "changed" => \E j \in DOMAIN cur : cur[j].name = r.name /\ cur[j].content # r.found

Distinct(rs) == \A i, j \in DOMAIN rs : i # j => rs[i].name # rs[j].name

LEMMA DiffDescribes ==
    ASSUME NEW cur \in Seq(Tool), NEW ts, Reported(ts)
    PROVE  /\ diffTools(cur, ts) \in Seq(Row)
           /\ Distinct(diffTools(cur, ts))
           /\ \A i \in DOMAIN diffTools(cur, ts) : Describes(diffTools(cur, ts)[i], cur, ts)
<1> DEFINE keep == {i \in DOMAIN cur : cur[i].name # Unnamed}
           named == Sublist(cur, keep)
           known == FirstOfEach(named)
           others == FirstOfEach(ts)
           fresh(i) == others[i].name \notin NamesOf(known)
           pick == {i \in DOMAIN others : fresh(i)}
           new == Sublist(others, pick)
           row(t) ==
               IF t.name \notin NamesOf(ts)
               THEN [name |-> t.name, status |-> "missing", found |-> NoTool]
               ELSE LET found == Last(Named(ts, t.name)).content IN
                    [name |-> t.name, status |-> IF found = t.content THEN "same" ELSE "changed", found |-> found]
           fromNew(t) == [name |-> t.name, status |-> "new", found |-> t.content]
           f == [i \in DOMAIN known |-> row(known[i])]
           g == [i \in DOMAIN new |-> fromNew(new[i])]
           rs == f \o g
<1>0. diffTools(cur, ts) = rs
  BY DEF diffTools
<1>1. /\ named \in Seq(Tool)
      /\ \A k \in DOMAIN named : \E i \in keep : named[k] = cur[i]
      /\ \A i \in keep : \E k \in DOMAIN named : named[k] = cur[i]
  <2>1. keep \subseteq DOMAIN cur
    OBVIOUS
  <2> HIDE DEF keep
  <2>2. /\ named \in Seq(Tool) /\ DOMAIN named = 1 .. Cardinality(keep)
        /\ \A k \in 1 .. Cardinality(keep) : InOrder(keep)[k] \in keep /\ named[k] = cur[InOrder(keep)[k]]
        /\ \A i \in keep : \E k \in 1 .. Cardinality(keep) : named[k] = cur[i]
    BY <2>1, SublistProperties
  <2> HIDE DEF named
  <2>3. QED
    BY <2>2
<1>2. /\ \A k \in DOMAIN named : \E i \in DOMAIN cur : named[k] = cur[i] /\ cur[i].name # Unnamed
      /\ \A i \in DOMAIN cur : cur[i].name # Unnamed => \E k \in DOMAIN named : named[k] = cur[i]
  BY <1>1
<1> HIDE DEF named
<1>3. /\ known \in Seq(Tool) /\ Distinct(known)
      /\ \A k \in DOMAIN known : \E i \in DOMAIN named : known[k] = named[i]
      /\ \A i \in DOMAIN named : \E k \in DOMAIN known : known[k].name = named[i].name
  BY <1>1, FirstOfEachProperties DEF Distinct
<1>4. /\ \A k \in DOMAIN known : \E i \in DOMAIN cur : known[k] = cur[i] /\ cur[i].name # Unnamed
      /\ \A i \in DOMAIN cur : cur[i].name # Unnamed => \E k \in DOMAIN known : known[k].name = cur[i].name
  <2> HIDE DEF known
  <2>1. ASSUME NEW k \in DOMAIN known PROVE \E i \in DOMAIN cur : known[k] = cur[i] /\ cur[i].name # Unnamed
    <3>1. PICK m \in DOMAIN named : known[k] = named[m]
      BY <1>3
    <3>2. QED
      BY <1>2, <3>1
  <2>2. ASSUME NEW i \in DOMAIN cur, cur[i].name # Unnamed
        PROVE  \E k \in DOMAIN known : known[k].name = cur[i].name
    <3>1. PICK m \in DOMAIN named : named[m] = cur[i]
      BY <1>2, <2>2
    <3>2. QED
      BY <1>3, <3>1
  <2>3. QED
    BY <2>1, <2>2
<1>5. /\ others \in Seq(Tool) /\ Distinct(others)
      /\ \A k \in DOMAIN others : \E i \in DOMAIN ts : others[k] = ts[i]
  BY FirstOfEachProperties DEF Distinct, Reported
<1> HIDE DEF known, others
<1>6. /\ new \in Seq(Tool)
      /\ \A k \in DOMAIN new : \E i \in DOMAIN others : new[k] = others[i] /\ others[i].name \notin NamesOf(known)
      /\ Distinct(new)
  <2>1. pick \subseteq DOMAIN others /\ \A i \in pick : others[i].name \notin NamesOf(known)
    OBVIOUS
  <2> HIDE DEF pick
  <2>2. /\ new \in Seq(Tool) /\ DOMAIN new = 1 .. Cardinality(pick)
        /\ \A k \in 1 .. Cardinality(pick) :
              InOrder(pick)[k] \in pick /\ new[k] = others[InOrder(pick)[k]]
    BY <1>5, <2>1, SublistProperties
  <2>3. \A k, l \in 1 .. Cardinality(pick) : k < l => InOrder(pick)[k] < InOrder(pick)[l]
    BY <1>5, <2>1, KeptPositions DEF Ascends
  <2>4. Cardinality(pick) \in Nat /\ \A i \in pick : i \in Int
    BY <1>5, <2>1, KeptPositions
  <2>5. \A k, l \in DOMAIN new : k # l => InOrder(pick)[k] # InOrder(pick)[l]
    <3> SUFFICES ASSUME NEW k \in 1 .. Cardinality(pick), NEW l \in 1 .. Cardinality(pick), k # l
                 PROVE  InOrder(pick)[k] # InOrder(pick)[l]
      BY <2>2
    <3>1. k < l \/ l < k
      BY <2>4
    <3>2. InOrder(pick)[k] \in Int /\ InOrder(pick)[l] \in Int
      BY <2>2, <2>4
    <3>3. QED
      BY <2>3, <3>1, <3>2
  <2> HIDE DEF new
  <2>6. QED
    BY <1>5, <2>1, <2>2, <2>5 DEF Distinct
<1> HIDE DEF new
<1>7. ASSUME NEW k \in DOMAIN known
      PROVE  row(known[k]).name = known[k].name /\ Describes(row(known[k]), cur, ts)
  <2> DEFINE t == known[k]
             found == Last(Named(ts, t.name)).content
  <2>1. PICK i \in DOMAIN cur : t = cur[i] /\ cur[i].name # Unnamed
    BY <1>4
  <2>2. t \in Tool /\ t.name \in Names /\ t.name \in NamesOf(cur)
    BY <1>3, <2>1, ToolParts DEF NamesOf
  <2>3. CASE t.name \notin NamesOf(ts)
    BY <2>2, <2>3 DEF Describes, Row
  <2>4. CASE t.name \in NamesOf(ts)
    <3>1. found \in Contents
      BY <2>4, LastNamed DEF Reported
    <3>2. row(t) = [name |-> t.name, status |-> IF found = t.content THEN "same" ELSE "changed", found |-> found]
      BY <2>4
    <3> HIDE DEF found, t, row
    <3>3. row(t).name = t.name /\ row(t).found = found /\ row(t).status \in {"same", "changed"}
          /\ (row(t).status = "changed" => found # t.content)
      BY <3>2
    <3>4. row(t) \in Row
      BY <2>2, <3>1, <3>2 DEF Row
    <3>5. Describes(row(t), cur, ts)
      BY <2>1, <3>1, <3>3, <3>4 DEF Describes
    <3>6. QED
      BY <3>3, <3>5 DEF t
  <2>5. QED
    BY <2>3, <2>4
<1>8. ASSUME NEW k \in DOMAIN new
      PROVE  /\ fromNew(new[k]).name = new[k].name /\ Describes(fromNew(new[k]), cur, ts)
             /\ new[k].name \notin NamesOf(known)
  <2> DEFINE t == new[k]
  <2>1. PICK i \in DOMAIN others : t = others[i] /\ others[i].name \notin NamesOf(known)
    BY <1>6
  <2>2. PICK j \in DOMAIN ts : others[i] = ts[j]
    BY <1>5
  <2>3. t \in Tool /\ t.name \in Names /\ t.content \in Contents
    BY <1>6, <2>1, <2>2, ToolParts DEF Reported
  <2>4. t.name # Unnamed
    BY <2>3, ToolsEditorAssumption
  <2>5. t.name \notin NamesOf(cur)
    BY <1>4, <2>1, <2>4 DEF NamesOf
  <2>6. QED
    BY <2>1, <2>3, <2>5 DEF Describes, Row
<1> HIDE DEF row, fromNew
<1>9. /\ f \in Seq(Row) /\ Len(f) = Len(known) /\ DOMAIN f = DOMAIN known
      /\ \A i \in DOMAIN f : f[i] = row(known[i])
  <2>1. f \in [1 .. Len(known) -> Row]
    BY <1>3, <1>7 DEF Describes
  <2>2. f \in Seq(Row) /\ Len(f) = Len(known) /\ DOMAIN f = 1 .. Len(known)
    <3> HIDE DEF f
    <3>1. Len(known) \in Nat
      BY <1>3
    <3>2. QED
      BY <2>1, <3>1, IndexedList
  <2>3. QED
    BY <1>3, <2>2
<1>10. /\ g \in Seq(Row) /\ Len(g) = Len(new) /\ DOMAIN g = DOMAIN new
       /\ \A i \in DOMAIN g : g[i] = fromNew(new[i])
  <2>1. g \in [1 .. Len(new) -> Row]
    BY <1>6, <1>8 DEF Describes
  <2>2. g \in Seq(Row) /\ Len(g) = Len(new) /\ DOMAIN g = 1 .. Len(new)
    <3> HIDE DEF g
    <3>1. Len(new) \in Nat
      BY <1>6
    <3>2. QED
      BY <2>1, <3>1, IndexedList
  <2>3. QED
    BY <1>6, <2>2
<1> HIDE DEF f, g
<1>11. /\ rs \in Seq(Row) /\ DOMAIN rs = 1 .. Len(f) + Len(g)
       /\ \A i \in DOMAIN f : rs[i] = f[i]
       /\ \A i \in DOMAIN rs : i \in DOMAIN f \/ (i > Len(f) /\ i - Len(f) \in DOMAIN g /\ rs[i] = g[i - Len(f)])
  BY <1>9, <1>10
<1> HIDE DEF rs
<1>12. \A i \in DOMAIN rs :
          \/ i \in DOMAIN known /\ rs[i] = row(known[i])
          \/ i > Len(f) /\ i - Len(f) \in DOMAIN new /\ rs[i] = fromNew(new[i - Len(f)])
  BY <1>9, <1>10, <1>11
<1>13. \A i \in DOMAIN rs : Describes(rs[i], cur, ts)
  BY <1>7, <1>8, <1>12
<1>14. Distinct(rs)
  <2> SUFFICES ASSUME NEW i \in DOMAIN rs, NEW j \in DOMAIN rs, i # j, rs[i].name = rs[j].name
               PROVE  FALSE
    BY DEF Distinct
  <2>1. i \in Int /\ j \in Int /\ Len(f) \in Int
    BY <1>9, <1>10, <1>11
  <2>2. CASE i \in DOMAIN known /\ rs[i] = row(known[i]) /\ j \in DOMAIN known /\ rs[j] = row(known[j])
    BY <1>3, <1>7, <2>2 DEF Distinct
  <2>3. ASSUME NEW a \in DOMAIN known, NEW b \in DOMAIN new PROVE known[a].name # new[b].name
    BY <1>8 DEF NamesOf
  <2>4. CASE /\ i - Len(f) \in DOMAIN new /\ rs[i] = fromNew(new[i - Len(f)])
             /\ j - Len(f) \in DOMAIN new /\ rs[j] = fromNew(new[j - Len(f)])
    <3>1. i - Len(f) # j - Len(f)
      BY <2>1
    <3>2. new[i - Len(f)].name # new[j - Len(f)].name
      BY <1>6, <2>4, <3>1 DEF Distinct
    <3>3. QED
      BY <1>8, <2>4, <3>2
  <2>5. QED
    BY <1>7, <1>8, <1>12, <2>2, <2>3, <2>4
<1>15. QED
  BY <1>0, <1>11, <1>13, <1>14


-----------------------------------------------------------------------------
(* Applying the ticks                                                      *)

\* The row of a name, and what applying the ticked rows makes of a tool.
RowOf(rs, n) == rs[CHOOSE i \in DOMAIN rs : rs[i].name = n]
Gone(rs, selected, t) == t.name \in NamesOf(rs) \cap selected /\ RowOf(rs, t.name).status = "missing"
After(rs, selected, t) ==
    IF t.name \in NamesOf(rs) \cap selected /\ RowOf(rs, t.name).status = "changed"
    THEN [t EXCEPT !.content = RowOf(rs, t.name).found]
    ELSE t
Fresh(rs, selected) == {i \in DOMAIN rs : rs[i].status = "new" /\ rs[i].name \in selected}
Keeps(cur, rs, selected) == {i \in DOMAIN cur : ~Gone(rs, selected, cur[i])}
ToolOf(r) == [name |-> r.name, content |-> r.found, extra |-> FALSE]

\* Rows that a review can show, and ticks it can have.
Reviewed(rs, selected) ==
    /\ rs \in Seq(Row)
    /\ Distinct(rs)
    /\ \A i \in DOMAIN rs : rs[i].status # "missing" => rs[i].found \in Contents
    /\ selected \subseteq NamesOf(rs)
    /\ \A i \in DOMAIN rs : rs[i].name \in selected => rs[i].status # "same"

LEMMA RowOfName ==
    ASSUME NEW rs, Distinct(rs), NEW i \in DOMAIN rs
    PROVE  RowOf(rs, rs[i].name) = rs[i]
<1>1. (CHOOSE j \in DOMAIN rs : rs[j].name = rs[i].name) = i
  BY DEF Distinct
<1>2. QED
  BY <1>1 DEF RowOf

LEMMA AfterIsATool ==
    ASSUME NEW rs, NEW selected, Reviewed(rs, selected), NEW t \in Tool
    PROVE  /\ After(rs, selected, t) \in Tool
           /\ After(rs, selected, t).name = t.name
<1> DEFINE r == RowOf(rs, t.name)
<1>1. CASE t.name \in NamesOf(rs) \cap selected /\ r.status = "changed"
  <2>1. PICK i \in DOMAIN rs : rs[i].name = t.name
    BY <1>1 DEF NamesOf
  <2>2. r = rs[i]
    BY <2>1, RowOfName DEF Reviewed
  <2>3. r.found \in Contents
    BY <1>1, <2>2 DEF Reviewed
  <2>4. After(rs, selected, t) = [t EXCEPT !.content = r.found]
    BY <1>1 DEF After
  <2> HIDE DEF r
  <2>5. QED
    BY <2>3, <2>4 DEF Tool
<1>2. CASE ~(t.name \in NamesOf(rs) \cap selected /\ r.status = "changed")
  BY <1>2 DEF After
<1>3. QED
  BY <1>1, <1>2

\* The list that is applied: what is kept, changed in its place, then what is
\* new.
Applies(next, cur, rs, selected) ==
    LET K == Keeps(cur, rs, selected)
        N == Fresh(rs, selected)
    IN  /\ K \subseteq DOMAIN cur /\ N \subseteq DOMAIN rs
        /\ Cardinality(K) \in Nat /\ Cardinality(N) \in Nat
        /\ next \in Seq(Tool) /\ Len(next) = Cardinality(K) + Cardinality(N)
        /\ \A k \in 1 .. Cardinality(K) :
              InOrder(K)[k] \in K /\ next[k] = After(rs, selected, cur[InOrder(K)[k]])
        /\ \A k \in 1 .. Cardinality(N) :
              InOrder(N)[k] \in N /\ next[Cardinality(K) + k] = ToolOf(rs[InOrder(N)[k]])

LEMMA AppliedIs ==
    ASSUME NEW cur \in Seq(Tool), NEW rs, NEW selected, Reviewed(rs, selected)
    PROVE  Applies(applyDiscovery(cur, rs, selected), cur, rs, selected)
<1> DEFINE K == Keeps(cur, rs, selected)
           N == Fresh(rs, selected)
           next == applyDiscovery(cur, rs, selected)
           kept == Sublist(cur, K)
           new == Sublist(rs, N)
           f == [i \in DOMAIN kept |-> After(rs, selected, kept[i])]
           g == [i \in DOMAIN new |-> ToolOf(new[i])]
<1>1. next = f \o g
  BY DEF applyDiscovery, After, RowOf, Keeps, Gone, Fresh, ToolOf
<1>2. K \subseteq DOMAIN cur /\ N \subseteq DOMAIN rs
  BY DEF Keeps, Fresh
<1>3. \A i \in N : rs[i].status = "new" /\ rs[i].name \in selected
  BY DEF Fresh
<1> HIDE DEF K, N, next
<1>4. /\ kept \in Seq(Tool) /\ Len(kept) = Cardinality(K) /\ DOMAIN kept = 1 .. Cardinality(K)
      /\ \A k \in 1 .. Cardinality(K) : InOrder(K)[k] \in K /\ kept[k] = cur[InOrder(K)[k]]
      /\ Cardinality(K) \in Nat
  BY <1>2, SublistProperties, KeptPositions
<1>5. /\ new \in Seq(Row) /\ Len(new) = Cardinality(N) /\ DOMAIN new = 1 .. Cardinality(N)
      /\ \A k \in 1 .. Cardinality(N) : InOrder(N)[k] \in N /\ new[k] = rs[InOrder(N)[k]]
      /\ Cardinality(N) \in Nat
  <2>1. rs \in Seq(Row)
    BY DEF Reviewed
  <2>2. Cardinality(N) \in Nat
    BY <1>2, <2>1, KeptPositions
  <2> HIDE DEF kept
  <2>3. /\ new \in Seq(Row) /\ Len(new) = Cardinality(N) /\ DOMAIN new = 1 .. Cardinality(N)
        /\ \A k \in 1 .. Cardinality(N) : InOrder(N)[k] \in N /\ new[k] = rs[InOrder(N)[k]]
    BY <1>2, <2>1, SublistProperties
  <2>4. QED
    BY <2>2, <2>3
<1> HIDE DEF kept, new
<1>6. f \in Seq(Tool) /\ Len(f) = Cardinality(K)
  <2>1. f \in [1 .. Cardinality(K) -> Tool]
    <3>1. \A i \in 1 .. Cardinality(K) : kept[i] \in Tool
      BY <1>4
    <3>2. \A i \in 1 .. Cardinality(K) : After(rs, selected, kept[i]) \in Tool
      BY <3>1, AfterIsATool
    <3>3. QED
      BY <1>4, <3>2
  <2> HIDE DEF f
  <2>2. QED
    BY <1>4, <2>1, IndexedList
<1>7. g \in Seq(Tool) /\ Len(g) = Cardinality(N)
  <2>1. \A i \in 1 .. Cardinality(N) : ToolOf(new[i]) \in Tool
    <3> SUFFICES ASSUME NEW i \in 1 .. Cardinality(N) PROVE ToolOf(new[i]) \in Tool
      OBVIOUS
    <3>1. PICK j \in N : new[i] = rs[j]
      BY <1>5
    <3>2. new[i] \in Row /\ new[i].found \in Contents
      BY <1>2, <1>3, <1>5, <3>1 DEF Reviewed
    <3>3. QED
      BY <3>2 DEF ToolOf, Tool, Row
  <2>2. g \in [1 .. Cardinality(N) -> Tool]
    BY <1>5, <2>1
  <2> HIDE DEF g
  <2>3. QED
    BY <1>5, <2>2, IndexedList
<1>8. /\ \A k \in 1 .. Cardinality(K) : f[k] = After(rs, selected, cur[InOrder(K)[k]])
      /\ \A k \in 1 .. Cardinality(N) : g[k] = ToolOf(rs[InOrder(N)[k]])
  BY <1>4, <1>5
<1> HIDE DEF f, g
<1>9. /\ next \in Seq(Tool) /\ Len(next) = Cardinality(K) + Cardinality(N)
      /\ \A k \in 1 .. Cardinality(K) : next[k] = f[k]
      /\ \A k \in 1 .. Cardinality(N) : next[Cardinality(K) + k] = g[k]
  <2>0. f \in Seq(Tool) /\ g \in Seq(Tool)
    BY <1>6, <1>7
  <2>1. next \in Seq(Tool) /\ Len(next) = Len(f) + Len(g)
    <3>1. f \o g \in Seq(Tool) /\ Len(f \o g) = Len(f) + Len(g)
      BY <2>0
    <3>2. QED
      BY <1>1, <3>1
  <2>2. \A k \in 1 .. Len(f) : next[k] = f[k]
    BY <1>1, <1>6, <1>7
  <2>3. \A k \in 1 .. Len(g) : next[Len(f) + k] = g[k]
    BY <1>1, <1>6, <1>7
  <2>4. QED
    BY <1>6, <1>7, <2>1, <2>2, <2>3
<1>10. /\ K \subseteq DOMAIN cur /\ N \subseteq DOMAIN rs
       /\ Cardinality(K) \in Nat /\ Cardinality(N) \in Nat
       /\ next \in Seq(Tool) /\ Len(next) = Cardinality(K) + Cardinality(N)
       /\ \A k \in 1 .. Cardinality(K) :
             InOrder(K)[k] \in K /\ next[k] = After(rs, selected, cur[InOrder(K)[k]])
       /\ \A k \in 1 .. Cardinality(N) :
             InOrder(N)[k] \in N /\ next[Cardinality(K) + k] = ToolOf(rs[InOrder(N)[k]])
  BY <1>2, <1>4, <1>5, <1>8, <1>9
<1>11. QED
  BY <1>10 DEF Applies, K, N, next


LEMMA SublistSame ==
    ASSUME NEW T, NEW s \in Seq(T), NEW u, NEW A, A \subseteq DOMAIN s, \A i \in A : s[i] = u[i]
    PROVE  Sublist(s, A) = Sublist(u, A)
<1>1. InOrder(A) \in [1 .. Cardinality(A) -> A]
  BY KeptPositions
<1>2. \A k \in 1 .. Cardinality(A) : s[InOrder(A)[k]] = u[InOrder(A)[k]]
  BY <1>1
<1>3. QED
  BY <1>2 DEF Sublist

\* The tools of a name that is kept and not new stay in their order, each made
\* what its row says.
LEMMA NamedKept ==
    ASSUME NEW cur \in Seq(Tool), NEW rs, NEW selected, Reviewed(rs, selected), NEW n,
           \A i \in Fresh(rs, selected) : rs[i].name # n,
           \A i \in DOMAIN cur : cur[i].name = n => ~Gone(rs, selected, cur[i])
    PROVE  Named(applyDiscovery(cur, rs, selected), n)
               = Sublist([i \in DOMAIN cur |-> After(rs, selected, cur[i])],
                         {i \in DOMAIN cur : cur[i].name = n})
<1> DEFINE K == Keeps(cur, rs, selected)
           N == Fresh(rs, selected)
           c == Cardinality(K)
           next == applyDiscovery(cur, rs, selected)
           s == [i \in DOMAIN cur |-> After(rs, selected, cur[i])]
           A == {i \in DOMAIN cur : cur[i].name = n}
           B == {k \in DOMAIN next : next[k].name = n}
           h == [k \in B |-> InOrder(K)[k]]
<1>1. /\ K \subseteq DOMAIN cur /\ N \subseteq DOMAIN rs
      /\ Cardinality(K) \in Nat /\ Cardinality(N) \in Nat
      /\ next \in Seq(Tool) /\ Len(next) = Cardinality(K) + Cardinality(N)
      /\ \A k \in 1 .. Cardinality(K) :
            InOrder(K)[k] \in K /\ next[k] = After(rs, selected, cur[InOrder(K)[k]])
      /\ \A k \in 1 .. Cardinality(N) :
            InOrder(N)[k] \in N /\ next[Cardinality(K) + k] = ToolOf(rs[InOrder(N)[k]])
  <2>1. Applies(next, cur, rs, selected)
    BY AppliedIs
  <2>2. QED
    BY <2>1 DEF Applies
<1>2. A \subseteq K
  BY DEF Keeps
<1>3. \A i \in A : i \in DOMAIN cur /\ cur[i].name = n
  OBVIOUS
<1>4. /\ Ascends(InOrder(K), Cardinality(K))
      /\ \A i \in K : \E k \in 1 .. Cardinality(K) : InOrder(K)[k] = i
  BY <1>1, KeptPositions
<1>5. \A i \in N : rs[i].name # n
  OBVIOUS
<1>6. s \in Seq(Tool) /\ DOMAIN s = DOMAIN cur /\ \A i \in DOMAIN cur : s[i] = After(rs, selected, cur[i])
  <2>1. \A i \in 1 .. Len(cur) : After(rs, selected, cur[i]) \in Tool
    <3> SUFFICES ASSUME NEW i \in 1 .. Len(cur) PROVE After(rs, selected, cur[i]) \in Tool
      OBVIOUS
    <3>1. cur[i] \in Tool
      OBVIOUS
    <3>2. QED
      BY <3>1, AfterIsATool
  <2>2. s \in [1 .. Len(cur) -> Tool]
    BY <2>1
  <2>3. Len(cur) \in Nat
    OBVIOUS
  <2> HIDE DEF s
  <2>4. s \in Seq(Tool)
    BY <2>2, <2>3, IndexedList
  <2>5. QED
    BY <2>4 DEF s
<1>7. \A k \in 1 .. c : next[k].name = cur[InOrder(K)[k]].name
  <2> SUFFICES ASSUME NEW k \in 1 .. c PROVE next[k].name = cur[InOrder(K)[k]].name
    OBVIOUS
  <2>1. cur[InOrder(K)[k]] \in Tool
    BY <1>1
  <2>2. QED
    BY <1>1, <2>1, AfterIsATool
<1> HIDE DEF K, N, next, s, A
<1>8. \A k \in B : k \in 1 .. c /\ next[k].name = n
  <2> SUFFICES ASSUME NEW k \in DOMAIN next, next[k].name = n, k \notin 1 .. c
               PROVE  FALSE
    OBVIOUS
  <2> DEFINE l == k - c
  <2>1. l \in 1 .. Cardinality(N) /\ k = c + l
    BY <1>1
  <2> HIDE DEF l
  <2>2. next[k] = ToolOf(rs[InOrder(N)[l]]) /\ InOrder(N)[l] \in N
    BY <1>1, <2>1
  <2>3. QED
    BY <1>5, <2>2 DEF ToolOf
<1>9. \A k \in 1 .. c : next[k].name = n => k \in B
  BY <1>1
<1> HIDE DEF B
<1>10. h \in [B -> A]
  <2> SUFFICES ASSUME NEW k \in B PROVE InOrder(K)[k] \in A
    OBVIOUS
  <2>1. cur[InOrder(K)[k]].name = n /\ InOrder(K)[k] \in DOMAIN cur
    BY <1>1, <1>7, <1>8
  <2>2. QED
    BY <2>1 DEF A
<1>11. \A k \in B : h[k] = InOrder(K)[k]
  OBVIOUS
<1> HIDE DEF h, c
<1>12. \A b, d \in B : b < d => h[b] < h[d]
  BY <1>4, <1>8, <1>11 DEF Ascends, c
<1>13. \A a \in A : \E b \in B : h[b] = a
  <2> SUFFICES ASSUME NEW a \in A PROVE \E b \in B : h[b] = a
    OBVIOUS
  <2>1. PICK k \in 1 .. c : InOrder(K)[k] = a
    BY <1>2, <1>4 DEF c
  <2>2. next[k].name = n
    BY <1>3, <1>7, <2>1
  <2>3. QED
    BY <1>9, <1>11, <2>1, <2>2
<1>14. \A b \in B : next[b] = s[h[b]]
  <2> SUFFICES ASSUME NEW b \in B PROVE next[b] = s[h[b]]
    OBVIOUS
  <2>1. b \in 1 .. c /\ h[b] = InOrder(K)[b]
    BY <1>8, <1>11
  <2>2. next[b] = After(rs, selected, cur[h[b]]) /\ h[b] \in DOMAIN cur
    BY <1>1, <2>1 DEF c
  <2>3. QED
    BY <1>6, <2>2
<1>15. A \subseteq DOMAIN s /\ B \subseteq DOMAIN next
  BY <1>6 DEF A, B
<1>16. Carries(h, next, B, s, A)
  BY <1>10, <1>12, <1>13, <1>14 DEF Carries
<1>17. Sublist(next, B) = Sublist(s, A)
  <2>1. next \in Seq(Tool) /\ s \in Seq(Tool)
    BY <1>1, <1>6
  <2>2. A \subseteq DOMAIN s /\ B \subseteq DOMAIN next
    BY <1>15
  <2>3. \A u, v \in Seq(Tool) : \A C, D, m :
           C \subseteq DOMAIN u /\ D \subseteq DOMAIN v /\ Carries(m, v, D, u, C)
               => Sublist(v, D) = Sublist(u, C)
    BY SublistCarried
  <2>4. QED
    BY <1>16, <2>1, <2>2, <2>3, SMTT(30)
<1>18. QED
  BY <1>17 DEF Named, B, next, s, A


\* What applying the ticks makes of the tools of one name.
Follows(next, cur, r) ==
    /\ r.status = "missing" => Named(next, r.name) = <<>>
    /\ r.status = "new" /\ r.name \notin NamesOf(cur) => Named(next, r.name) = <<ToolOf(r)>>
    /\ r.status = "changed" =>
          LET before == Named(cur, r.name) IN
          Named(next, r.name) = [k \in DOMAIN before |-> [before[k] EXCEPT !.content = r.found]]

LEMMA NamedAfter ==
    ASSUME NEW cur \in Seq(Tool), NEW rs, NEW selected, Reviewed(rs, selected)
    PROVE  /\ \A n : n \notin NamesOf(rs) \cap selected =>
                    Named(applyDiscovery(cur, rs, selected), n) = Named(cur, n)
           /\ \A i \in DOMAIN rs :
                 rs[i].name \in selected => Follows(applyDiscovery(cur, rs, selected), cur, rs[i])
<1> DEFINE next == applyDiscovery(cur, rs, selected)
           K == Keeps(cur, rs, selected)
           N == Fresh(rs, selected)
           c == Cardinality(K)
           s == [i \in DOMAIN cur |-> After(rs, selected, cur[i])]
           at(n) == {i \in DOMAIN cur : cur[i].name = n}
<1>1. Distinct(rs) /\ rs \in Seq(Row)
  BY DEF Reviewed
<1>2. ASSUME NEW n, n \notin NamesOf(rs) \cap selected PROVE Named(next, n) = Named(cur, n)
  <2>1. \A i \in N : rs[i].name # n
    BY <1>2 DEF Fresh, NamesOf
  <2>2. \A i \in DOMAIN cur : cur[i].name = n => ~Gone(rs, selected, cur[i])
    BY <1>2 DEF Gone
  <2>3. Named(next, n) = Sublist(s, at(n))
    BY <2>1, <2>2, NamedKept
  <2>4. \A i \in at(n) : cur[i] = s[i]
    BY <1>2 DEF After
  <2>5. at(n) \subseteq DOMAIN cur
    OBVIOUS
  <2> HIDE DEF at, s
  <2>6. Sublist(cur, at(n)) = Sublist(s, at(n))
    BY <2>4, <2>5, SublistSame
  <2>7. QED
    BY <2>3, <2>6 DEF Named, at
<1>3. /\ c \in Nat /\ Cardinality(N) \in Nat
      /\ next \in Seq(Tool) /\ Len(next) = c + Cardinality(N)
      /\ K \subseteq DOMAIN cur /\ N \subseteq DOMAIN rs
      /\ \A k \in 1 .. c : InOrder(K)[k] \in K /\ next[k] = After(rs, selected, cur[InOrder(K)[k]])
      /\ \A k \in 1 .. Cardinality(N) : InOrder(N)[k] \in N /\ next[c + k] = ToolOf(rs[InOrder(N)[k]])
  <2>1. Applies(next, cur, rs, selected)
    BY AppliedIs
  <2>2. QED
    BY <2>1 DEF Applies
<1>4. ASSUME NEW k \in 1 .. c
      PROVE  \E j \in K : next[k].name = cur[j].name /\ j \in DOMAIN cur
  <2>1. InOrder(K)[k] \in K /\ cur[InOrder(K)[k]] \in Tool /\ InOrder(K)[k] \in DOMAIN cur
    BY <1>3
  <2>2. QED
    BY <1>3, <2>1, AfterIsATool
<1>5. ASSUME NEW k \in DOMAIN next, k \notin 1 .. c
      PROVE  \E l \in 1 .. Cardinality(N) : k = c + l /\ next[k] = ToolOf(rs[InOrder(N)[l]])
  <2> HIDE DEF next, K, N, c
  <2>1. k - c \in 1 .. Cardinality(N) /\ k = c + (k - c)
    BY <1>3, <1>5
  <2>2. QED
    BY <1>3, <2>1
<1>6. ASSUME NEW i \in DOMAIN rs, rs[i].name \in selected, rs[i].status = "missing"
      PROVE  Named(next, rs[i].name) = <<>>
  <2> DEFINE n == rs[i].name
             B == {k \in DOMAIN next : next[k].name = n}
  <2>1. RowOf(rs, n) = rs[i] /\ n \in NamesOf(rs)
    BY <1>1, RowOfName DEF NamesOf
  <2>2. \A j \in K : cur[j].name # n
    BY <1>6, <2>1 DEF Keeps, Gone
  <2>3. \A j \in N : rs[j].name # n
    BY <1>1, <1>3, <1>6 DEF Fresh, Distinct
  <2>4. B = {}
    <3> SUFFICES ASSUME NEW k \in DOMAIN next, next[k].name = n PROVE FALSE
      OBVIOUS
    <3> HIDE DEF next, K, N, c, n
    <3>1. CASE k \in 1 .. c
      BY <1>4, <2>2, <3>1
    <3>2. CASE k \notin 1 .. c
      <4>1. PICK l \in 1 .. Cardinality(N) : next[k] = ToolOf(rs[InOrder(N)[l]])
        BY <1>5, <3>2
      <4>2. InOrder(N)[l] \in N
        BY <1>3
      <4>3. rs[InOrder(N)[l]].name # n
        BY <2>3, <4>2
      <4>4. ToolOf(rs[InOrder(N)[l]]).name = rs[InOrder(N)[l]].name
        BY DEF ToolOf
      <4>5. QED
        BY <4>1, <4>3, <4>4
    <3>3. QED
      BY <3>1, <3>2
  <2>5. QED
    BY <2>4, SublistOfNone DEF Named
<1>7. ASSUME NEW i \in DOMAIN rs, rs[i].name \in selected, rs[i].status = "new",
             rs[i].name \notin NamesOf(cur)
      PROVE  Named(next, rs[i].name) = <<ToolOf(rs[i])>>
  <2> DEFINE n == rs[i].name
             B == {k \in DOMAIN next : next[k].name = n}
  <2>1. n \notin NamesOf(cur)
    BY <1>7
  <2>2. \A j \in K : cur[j].name # n
    BY <1>3, <2>1 DEF NamesOf
  <2>3. i \in N
    BY <1>7 DEF Fresh
  <2>4. Ascends(InOrder(N), Cardinality(N))
        /\ \A j \in N : \E l \in 1 .. Cardinality(N) : InOrder(N)[l] = j
    BY <1>1, <1>3, KeptPositions
  <2>5. PICK l \in 1 .. Cardinality(N) : InOrder(N)[l] = i
    BY <2>3, <2>4
  <2>6. next[c + l] = ToolOf(rs[i]) /\ c + l \in DOMAIN next
    BY <1>3, <2>5
  <2>7. \A m \in 1 .. Cardinality(N) : rs[InOrder(N)[m]].name = n => m = l
    <3> SUFFICES ASSUME NEW m \in 1 .. Cardinality(N), rs[InOrder(N)[m]].name = n PROVE m = l
      OBVIOUS
    <3> HIDE DEF N
    <3>1. InOrder(N)[m] = i
      BY <1>1, <1>3 DEF Distinct
    <3>2. i \in Int
      BY <1>1
    <3>3. m < l \/ l < m \/ m = l
      BY <1>3
    <3>4. QED
      BY <2>4, <2>5, <3>1, <3>2, <3>3 DEF Ascends
  <2>8. B = {c + l}
    <3> HIDE DEF next, K, N, c
    <3>1. ASSUME NEW k \in DOMAIN next, next[k].name = n PROVE k = c + l
      <4>1. CASE k \in 1 .. c
        BY <1>4, <2>2, <3>1, <4>1
      <4>2. CASE k \notin 1 .. c
        <5>1. PICK m \in 1 .. Cardinality(N) : k = c + m /\ next[k] = ToolOf(rs[InOrder(N)[m]])
          BY <1>5, <4>2
        <5>2. rs[InOrder(N)[m]].name = n
          BY <3>1, <5>1 DEF ToolOf
        <5>3. QED
          BY <2>7, <5>1, <5>2
      <4>3. QED
        BY <4>1, <4>2
    <3>2. next[c + l].name = n
      BY <2>6 DEF ToolOf
    <3>3. QED
      BY <2>6, <3>1, <3>2
  <2>9. Sublist(next, {c + l}) = <<next[c + l]>>
    <3> HIDE DEF next, K, N, c
    <3>1. QED
      BY <1>3, <2>6, SublistOfOne
  <2>10. QED
    BY <2>6, <2>8, <2>9 DEF Named
<1>8. ASSUME NEW i \in DOMAIN rs, rs[i].name \in selected, rs[i].status = "changed"
      PROVE  LET before == Named(cur, rs[i].name) IN
             Named(next, rs[i].name)
                 = [k \in DOMAIN before |-> [before[k] EXCEPT !.content = rs[i].found]]
  <2> DEFINE n == rs[i].name
             A == at(n)
             before == Sublist(cur, A)
  <2>1. RowOf(rs, n) = rs[i] /\ n \in NamesOf(rs)
    BY <1>1, RowOfName DEF NamesOf
  <2>2. \A j \in N : rs[j].name # n
    BY <1>1, <1>3, <1>8 DEF Fresh, Distinct
  <2>3. \A j \in DOMAIN cur : cur[j].name = n => ~Gone(rs, selected, cur[j])
    BY <1>8, <2>1 DEF Gone
  <2>4. Named(next, n) = Sublist(s, A)
    BY <2>2, <2>3, NamedKept
  <2>5. A \subseteq DOMAIN cur /\ \A j \in A : s[j] = [cur[j] EXCEPT !.content = rs[i].found]
    BY <1>8, <2>1 DEF After
  <2> HIDE DEF A, s, n
  <2>6. /\ DOMAIN before = 1 .. Cardinality(A)
        /\ \A k \in 1 .. Cardinality(A) : InOrder(A)[k] \in A /\ before[k] = cur[InOrder(A)[k]]
    BY <2>5, SublistProperties
  <2>7. \A k \in 1 .. Cardinality(A) : s[InOrder(A)[k]] = [before[k] EXCEPT !.content = rs[i].found]
    BY <2>5, <2>6
  <2>8. Sublist(s, A) = [k \in 1 .. Cardinality(A) |-> [before[k] EXCEPT !.content = rs[i].found]]
    BY <2>7 DEF Sublist
  <2>9. Sublist(s, A) = [k \in DOMAIN before |-> [before[k] EXCEPT !.content = rs[i].found]]
    BY <2>6, <2>8
  <2>10. before = Named(cur, n)
    BY DEF Named, A
  <2>11. QED
    BY <2>4, <2>9, <2>10 DEF n
<1>9. ASSUME NEW i \in DOMAIN rs, rs[i].name \in selected PROVE Follows(next, cur, rs[i])
  <2> HIDE DEF next
  <2>1. QED
    BY <1>6, <1>7, <1>8, <1>9 DEF Follows
<1>10. QED
  BY <1>2, <1>9


\* A list that has a tool of a name has it among the tools of the name, and the
\* other way round.
LEMMA NamedHas ==
    ASSUME NEW ts \in Seq(Tool), NEW n
    PROVE  /\ n \in NamesOf(ts) <=> Named(ts, n) # <<>>
           /\ \A j \in DOMAIN ts : ts[j].name = n => \E k \in DOMAIN Named(ts, n) : Named(ts, n)[k] = ts[j]
<1> DEFINE A == {i \in DOMAIN ts : ts[i].name = n}
           s == Sublist(ts, A)
<1>1. A \subseteq DOMAIN ts /\ \A j \in DOMAIN ts : ts[j].name = n => j \in A
  OBVIOUS
<1>2. n \in NamesOf(ts) <=> A # {}
  BY DEF NamesOf
<1> HIDE DEF A
<1>3. /\ DOMAIN s = 1 .. Cardinality(A) /\ s \in Seq(Tool)
      /\ \A i \in A : \E k \in 1 .. Cardinality(A) : s[k] = ts[i]
  BY <1>1, SublistProperties
<1>4. A = {} => s = <<>>
  BY SublistOfNone
<1>5. A # {} => s # <<>>
  <2> SUFFICES ASSUME NEW i \in A PROVE s # <<>>
    OBVIOUS
  <2>1. \E k \in DOMAIN s : TRUE
    BY <1>3
  <2>2. QED
    BY <2>1
<1>6. \A j \in DOMAIN ts : ts[j].name = n => \E k \in DOMAIN s : s[k] = ts[j]
  BY <1>1, <1>3
<1>7. QED
  BY <1>2, <1>4, <1>5, <1>6 DEF Named, A

LEMMA NamedHolds ==
    ASSUME NEW ts \in Seq(Tool), NEW n, NEW j \in DOMAIN ts, ts[j].name = n
    PROVE  \E k \in DOMAIN Named(ts, n) : Named(ts, n)[k] = ts[j]
BY NamedHas

\* The names whose tools applying the ticks changes are the ticked ones.
Changed(next, cur) == {n \in NamesOf(cur) \cup NamesOf(next) : Named(next, n) # Named(cur, n)}

LEMMA Affected ==
    ASSUME NEW cur \in Seq(Tool), NEW rs, NEW selected, Reviewed(rs, selected), NEW ts,
           \A i \in DOMAIN rs : Describes(rs[i], cur, ts)
    PROVE  countChanges(rs, selected) = Cardinality(Changed(applyDiscovery(cur, rs, selected), cur))
<1> DEFINE next == applyDiscovery(cur, rs, selected)
           C == {i \in DOMAIN rs : rs[i].status # "same" /\ rs[i].name \in selected}
           M == {n \in NamesOf(cur) \cup NamesOf(next) : Named(next, n) # Named(cur, n)}
           f == [i \in C |-> rs[i].name]
<1>1. /\ \A n : n \notin NamesOf(rs) \cap selected => Named(next, n) = Named(cur, n)
      /\ \A i \in DOMAIN rs : rs[i].name \in selected => Follows(next, cur, rs[i])
  BY NamedAfter
<1>2. next \in Seq(Tool)
  <2>1. Applies(next, cur, rs, selected)
    BY AppliedIs
  <2>2. QED
    BY <2>1 DEF Applies
<1>3. Distinct(rs) /\ rs \in Seq(Row)
  BY DEF Reviewed
<1> HIDE DEF next
<1>4. ASSUME NEW i \in C PROVE rs[i].name \in M
  <2> DEFINE n == rs[i].name
  <2>0. i \in DOMAIN rs /\ n \in selected /\ rs[i].status # "same" /\ rs[i] \in Row
    BY <1>3
  <2>1. i \in DOMAIN rs /\ n \in selected /\ rs[i].status # "same"
        /\ rs[i].status \in {"new", "changed", "missing"}
        /\ Describes(rs[i], cur, ts) /\ Follows(next, cur, rs[i])
    BY <1>1, <2>0 DEF Row
  <2> HIDE DEF n
  <2>2. CASE rs[i].status = "missing"
    <3>1. n \in NamesOf(cur) /\ Named(next, n) = <<>>
      BY <2>1, <2>2 DEF Describes, Follows, n
    <3>2. Named(cur, n) # <<>>
      BY <3>1, NamedHas
    <3>3. QED
      BY <3>1, <3>2 DEF n
  <2>3. CASE rs[i].status = "new"
    <3>1. n \notin NamesOf(cur) /\ Named(next, n) = <<ToolOf(rs[i])>>
      BY <2>1, <2>3 DEF Describes, Follows, n
    <3>2. Named(next, n) # <<>>
      BY <3>1
    <3>3. Named(cur, n) = <<>> /\ n \in NamesOf(next)
      BY <1>2, <3>1, <3>2, NamedHas
    <3>4. QED
      BY <3>2, <3>3 DEF n
  <2>4. CASE rs[i].status = "changed"
    <3>1. PICK j \in DOMAIN cur : cur[j].name = n /\ cur[j].content # rs[i].found
      BY <2>1, <2>4 DEF Describes, n
    <3> DEFINE before == Named(cur, n)
    <3>2. PICK k \in DOMAIN before : before[k] = cur[j]
      <4> HIDE DEF C, M, f
      <4>1. QED
        BY <3>1, NamedHolds
    <3>3. Named(next, n) = [l \in DOMAIN before |-> [before[l] EXCEPT !.content = rs[i].found]]
      BY <2>1, <2>4 DEF Follows, n
    <3>4. cur[j] \in Tool
      OBVIOUS
    <3> HIDE DEF before
    <3>5. Named(next, n)[k] = [cur[j] EXCEPT !.content = rs[i].found]
      BY <3>2, <3>3
    <3>6. Named(next, n)[k].content = rs[i].found
      BY <3>4, <3>5 DEF Tool
    <3>7. Named(next, n) # Named(cur, n)
      BY <3>1, <3>2, <3>6 DEF before
    <3>8. n \in NamesOf(cur)
      BY <3>1 DEF NamesOf
    <3>9. QED
      BY <3>7, <3>8 DEF n
  <2>5. QED
    BY <2>1, <2>2, <2>3, <2>4
<1>5. ASSUME NEW n \in M PROVE \E i \in C : rs[i].name = n
  <2>1. n \in NamesOf(rs) /\ n \in selected
    BY <1>1, <1>5
  <2>2. PICK i \in DOMAIN rs : rs[i].name = n
    BY <2>1 DEF NamesOf
  <2>3. rs[i].status # "same"
    BY <2>1, <2>2 DEF Reviewed
  <2>4. QED
    BY <2>1, <2>2, <2>3
<1>6. ASSUME NEW i \in C, NEW j \in C, f[i] = f[j] PROVE i = j
  BY <1>3, <1>6 DEF Distinct
<1>7. IsFiniteSet(C)
  BY <1>3, KeptPositions
<1>8. \A i \in C : f[i] = rs[i].name
  OBVIOUS
<1>9. f \in Bijection(C, M)
  <2> HIDE DEF C, M
  <2>1. f \in [C -> M]
    BY <1>4
  <2> HIDE DEF f
  <2>2. f \in Injection(C, M)
    BY <1>6, <2>1 DEF Injection, IsInjective
  <2>3. f \in Surjection(C, M)
    BY <1>5, <1>8, <2>1 DEF Surjection
  <2>4. QED
    BY <2>2, <2>3 DEF Bijection
<1>10. Cardinality(C) = Cardinality(M)
  <2> HIDE DEF C, M, f
  <2>1. QED
    BY <1>7, <1>9, FS_Bijection DEF ExistsBijection
<1>11. QED
  BY <1>10 DEF countChanges, Changed, next


\* What survives of a list keeps its place: nothing is put before it.
InPlace(next, cur) ==
    LET survivors == Sublist(cur, {i \in DOMAIN cur : cur[i].name \in NamesOf(next)})
    IN  \A i \in DOMAIN survivors : next[i].name = survivors[i].name

LEMMA OrderKept ==
    ASSUME NEW cur \in Seq(Tool), NEW rs, NEW selected, Reviewed(rs, selected)
    PROVE  InPlace(applyDiscovery(cur, rs, selected), cur)
<1> DEFINE next == applyDiscovery(cur, rs, selected)
           K == Keeps(cur, rs, selected)
           N == Fresh(rs, selected)
           c == Cardinality(K)
<1>1. /\ K \subseteq DOMAIN cur /\ N \subseteq DOMAIN rs
      /\ c \in Nat /\ Cardinality(N) \in Nat
      /\ next \in Seq(Tool) /\ Len(next) = c + Cardinality(N)
      /\ \A k \in 1 .. c :
            InOrder(K)[k] \in K /\ next[k] = After(rs, selected, cur[InOrder(K)[k]])
      /\ \A k \in 1 .. Cardinality(N) :
            InOrder(N)[k] \in N /\ next[c + k] = ToolOf(rs[InOrder(N)[k]])
  <2>1. Applies(next, cur, rs, selected)
    BY AppliedIs
  <2>2. QED
    BY <2>1 DEF Applies
<1> DEFINE stay == {i \in DOMAIN cur : cur[i].name \in NamesOf(next)}
           survivors == Sublist(cur, stay)
<1>2. \A k \in 1 .. c : next[k].name = cur[InOrder(K)[k]].name
  <2> SUFFICES ASSUME NEW k \in 1 .. c PROVE next[k].name = cur[InOrder(K)[k]].name
    OBVIOUS
  <2>1. cur[InOrder(K)[k]] \in Tool
    BY <1>1
  <2>2. QED
    BY <1>1, <2>1, AfterIsATool
<1>3. \A i \in K : \E k \in 1 .. c : InOrder(K)[k] = i
  BY <1>1, KeptPositions
<1>4. \A i \in DOMAIN cur : i \notin K <=> Gone(rs, selected, cur[i])
  BY DEF Keeps
<1>5. \A i \in N : RowOf(rs, rs[i].name).status = "new"
  BY <1>1, RowOfName DEF Reviewed, Fresh
<1> HIDE DEF next, K, N, c
<1>6. K \subseteq stay
  <2> SUFFICES ASSUME NEW i \in K PROVE i \in DOMAIN cur /\ cur[i].name \in NamesOf(next)
    OBVIOUS
  <2>1. PICK k \in 1 .. c : InOrder(K)[k] = i
    BY <1>3
  <2>2. k \in DOMAIN next /\ next[k].name = cur[i].name
    BY <1>1, <1>2, <2>1
  <2>3. QED
    BY <1>1, <2>2 DEF NamesOf
<1>7. stay \subseteq K
  <2> SUFFICES ASSUME NEW i \in DOMAIN cur, cur[i].name \in NamesOf(next), i \notin K PROVE FALSE
    OBVIOUS
  <2>1. Gone(rs, selected, cur[i])
    BY <1>4
  <2>2. PICK k \in DOMAIN next : next[k].name = cur[i].name
    BY DEF NamesOf
  <2>3. CASE k \in 1 .. c
    <3>1. InOrder(K)[k] \in K /\ cur[InOrder(K)[k]].name = cur[i].name /\ InOrder(K)[k] \in DOMAIN cur
      BY <1>1, <1>2, <2>2, <2>3
    <3>2. Gone(rs, selected, cur[InOrder(K)[k]])
      BY <2>1, <3>1 DEF Gone
    <3>3. QED
      BY <1>4, <3>1, <3>2
  <2>4. CASE k \notin 1 .. c
    <3> DEFINE l == k - c
    <3>1. l \in 1 .. Cardinality(N) /\ k = c + l
      BY <1>1, <2>4
    <3> HIDE DEF l
    <3>2. InOrder(N)[l] \in N /\ next[k] = ToolOf(rs[InOrder(N)[l]])
      BY <1>1, <3>1
    <3>3. rs[InOrder(N)[l]].name = cur[i].name
      BY <2>2, <3>2 DEF ToolOf
    <3>4. RowOf(rs, cur[i].name).status = "new"
      BY <1>5, <3>2, <3>3
    <3>5. QED
      BY <2>1, <3>4 DEF Gone
  <2>5. QED
    BY <2>3, <2>4
<1>8. survivors = Sublist(cur, K)
  BY <1>6, <1>7
<1>9. /\ DOMAIN survivors = 1 .. c
      /\ \A k \in 1 .. c : survivors[k] = cur[InOrder(K)[k]]
  <2>1. /\ DOMAIN Sublist(cur, K) = 1 .. Cardinality(K)
        /\ \A k \in 1 .. Cardinality(K) : Sublist(cur, K)[k] = cur[InOrder(K)[k]]
    BY <1>1, SublistProperties
  <2>2. QED
    BY <1>8, <2>1 DEF c
<1>10. QED
  BY <1>2, <1>9 DEF InPlace, next

\* The listing that the rows of a review show.
ListingOf(rs) ==
    LET found == Sublist(rs, {i \in DOMAIN rs : rs[i].found # NoTool}) IN
    [i \in DOMAIN found |-> ToolOf(found[i])]

LEMMA ListedIsReported ==
    ASSUME NEW rs \in Seq(Row), Distinct(rs)
    PROVE  /\ Reported(ListingOf(rs))
           /\ \A i \in DOMAIN rs :
                 rs[i].found \in Contents => Named(ListingOf(rs), rs[i].name) = <<ToolOf(rs[i])>>
<1> DEFINE F == {i \in DOMAIN rs : rs[i].found # NoTool}
           found == Sublist(rs, F)
           L == [i \in DOMAIN found |-> ToolOf(found[i])]
<1>1. F \subseteq DOMAIN rs /\ \A i \in DOMAIN rs : rs[i].found \in Contents => i \in F
  BY ToolsEditorAssumption
<1>2. \A i \in F : i \in DOMAIN rs /\ rs[i].found # NoTool
  OBVIOUS
<1>3. L = ListingOf(rs)
  BY DEF ListingOf
<1> HIDE DEF F
<1>4. /\ found \in Seq(Row) /\ DOMAIN found = 1 .. Cardinality(F) /\ Cardinality(F) \in Nat
      /\ \A k \in 1 .. Cardinality(F) : InOrder(F)[k] \in F /\ found[k] = rs[InOrder(F)[k]]
  <2>1. Cardinality(F) \in Nat
    BY <1>1, KeptPositions
  <2> HIDE DEF L
  <2>2. /\ found \in Seq(Row) /\ DOMAIN found = 1 .. Cardinality(F)
        /\ \A k \in 1 .. Cardinality(F) : InOrder(F)[k] \in F /\ found[k] = rs[InOrder(F)[k]]
    BY <1>1, SublistProperties
  <2>3. QED
    BY <2>1, <2>2
<1>5. Ascends(InOrder(F), Cardinality(F)) /\ \A i \in F : \E k \in 1 .. Cardinality(F) : InOrder(F)[k] = i
  BY <1>1, KeptPositions
<1> HIDE DEF found
<1>6. \A k \in 1 .. Cardinality(F) : ToolOf(found[k]) \in Tool /\ ToolOf(found[k]).name \in Names
  <2> SUFFICES ASSUME NEW k \in 1 .. Cardinality(F)
               PROVE  ToolOf(found[k]) \in Tool /\ ToolOf(found[k]).name \in Names
    OBVIOUS
  <2>1. found[k] \in Row /\ found[k].found # NoTool
    BY <1>2, <1>4
  <2>2. QED
    BY <2>1 DEF Row, ToolOf, Tool
<1>7. L \in Seq(Tool) /\ DOMAIN L = 1 .. Cardinality(F) /\ \A k \in 1 .. Cardinality(F) : L[k] = ToolOf(found[k])
  <2>1. L \in [1 .. Cardinality(F) -> Tool] /\ \A k \in 1 .. Cardinality(F) : L[k] = ToolOf(found[k])
    BY <1>4, <1>6
  <2> HIDE DEF L
  <2>2. L \in Seq(Tool) /\ DOMAIN L = 1 .. Cardinality(F)
    BY <1>4, <2>1, IndexedList
  <2>3. QED
    BY <2>1, <2>2
<1> HIDE DEF L
<1>8. Reported(L)
  BY <1>6, <1>7 DEF Reported
<1>9. ASSUME NEW i \in DOMAIN rs, rs[i].found \in Contents
      PROVE  Named(L, rs[i].name) = <<ToolOf(rs[i])>>
  <2> DEFINE n == rs[i].name
             B == {k \in DOMAIN L : L[k].name = n}
  <2>1. PICK l \in 1 .. Cardinality(F) : InOrder(F)[l] = i
    BY <1>1, <1>5, <1>9
  <2>2. L[l] = ToolOf(rs[i]) /\ l \in DOMAIN L
    BY <1>4, <1>7, <2>1
  <2>3. ASSUME NEW k \in DOMAIN L, L[k].name = n PROVE k = l
    <3>1. L[k] = ToolOf(rs[InOrder(F)[k]]) /\ InOrder(F)[k] \in F /\ k \in 1 .. Cardinality(F)
      BY <1>4, <1>7
    <3>2. rs[InOrder(F)[k]].name = n /\ InOrder(F)[k] \in DOMAIN rs
      BY <1>2, <2>3, <3>1 DEF ToolOf
    <3>3. InOrder(F)[k] = i
      BY <3>2 DEF Distinct
    <3>4. i \in Int
      OBVIOUS
    <3>5. k < l \/ l < k \/ k = l
      BY <1>4, <3>1
    <3>6. QED
      BY <1>5, <2>1, <3>1, <3>3, <3>4, <3>5 DEF Ascends
  <2>4. B = {l}
    BY <2>2, <2>3 DEF ToolOf
  <2>5. Sublist(L, {l}) = <<L[l]>>
    BY <1>7, <2>2, SublistOfOne
  <2>6. QED
    BY <2>2, <2>4, <2>5 DEF Named
<1>10. QED
  BY <1>3, <1>8, <1>9


-----------------------------------------------------------------------------
(* The editor of tools                                                     *)

ToolsInv ==
    /\ mode \in {"form", "json"}
    /\ tools \in ToolLists
    /\ DOMAIN cards = IF mode = "form" THEN DOMAIN tools ELSE {}
    /\ text \in ToolLists \cup {Malformed}
    /\ reading \in ToolLists \cup {NoTool}
    /\ dialog \in {"closed", "loading", "failed", "review"}
    /\ dialog = "loading" => fetching
    /\ dialog # "closed" => mode = "form" \/ Parses(text)
    /\ Reviewed(rows, ticked)

LEMMA NothingReviewed == Reviewed(<<>>, {})
BY DEF Reviewed, Distinct

LEMMA MountedFits == \A old, ts : DOMAIN Mounted(old, ts) = DOMAIN ts
BY DEF Mounted

LEMMA ListIsEmpty == <<>> \in ToolLists
<1>1. <<>> \in Seq(Tool) /\ Len(<<>>) <= MaxTools
  BY ToolsEditorAssumption
<1>2. QED
  BY <1>1, ToolListsAre

LEMMA EditedIsAList ==
    ASSUME ToolsInv, dialog # "closed"
    PROVE  Edited \in ToolLists
<1>1. CASE mode = "form"
  BY <1>1 DEF Edited, ToolsInv
<1>2. CASE mode # "form"
  BY <1>2 DEF Edited, ToolsInv, Parses
<1>3. QED
  BY <1>1, <1>2

LEMMA ToolsStart == EditorsInit => ToolsInv
<1>1. SUFFICES ASSUME ToolsInit PROVE ToolsInv
  BY DEF EditorsInit
<1>2. DOMAIN cards = DOMAIN tools
  BY <1>1, MountedFits DEF ToolsInit
<1>3. Reviewed(rows, ticked)
  BY <1>1, NothingReviewed DEF ToolsInit
<1>4. QED
  BY <1>1, <1>2, <1>3, ListIsEmpty DEF ToolsInit, ToolsInv

LEMMA SettingTools ==
    ASSUME ToolsInv, NEW ts \in Seq(Tool), SetTools(ts), UNCHANGED mode
    PROVE  tools' \in ToolLists /\ DOMAIN cards' = IF mode' = "form" THEN DOMAIN tools' ELSE {}
<1>1. tools' = ts /\ ts \in ToolLists
  BY ToolListsAre DEF SetTools
<1>2. CASE mode = "form"
  BY <1>1, <1>2, MountedFits DEF SetTools
<1>3. CASE mode # "form"
  BY <1>1, <1>3 DEF SetTools
<1>4. QED
  BY <1>1, <1>2, <1>3

\* The cards.
LEMMA CardKeeps ==
    ASSUME ToolsInv, NEW ts \in Seq(Tool), SetTools(ts), UNCHANGED <<mode, text, dialogVars>>,
           reading' = reading \/ reading' = NoTool
    PROVE  ToolsInv'
<1>1. tools' \in ToolLists /\ DOMAIN cards' = IF mode' = "form" THEN DOMAIN tools' ELSE {}
  BY SettingTools
<1>2. UNCHANGED <<mode, text, fetching, dialog, rows, ticked>>
  BY DEF dialogVars
<1>3. Parses(text)' <=> Parses(text)
  BY <1>2 DEF Parses
<1>4. Reviewed(rows, ticked)'
  BY <1>2 DEF ToolsInv, Reviewed
<1>5. QED
  BY <1>1, <1>2, <1>3, <1>4 DEF ToolsInv

\* The review.
LEMMA ReviewKeeps ==
    ASSUME ToolsInv, UNCHANGED <<editorVars, reading>>,
           dialog' \in {"closed", "loading", "failed", "review"},
           dialog' = "loading" => fetching',
           dialog' # "closed" => mode = "form" \/ Parses(text),
           Reviewed(rows', ticked')
    PROVE  ToolsInv'
<1>1. UNCHANGED <<mode, tools, cards, text, reading>>
  BY DEF editorVars
<1>2. Parses(text)' <=> Parses(text)
  BY <1>1 DEF Parses
<1>3. Reviewed(rows, ticked)'
  BY DEF Reviewed
<1>4. QED
  BY <1>1, <1>2, <1>3 DEF ToolsInv

LEMMA AnswerIsReviewed ==
    ASSUME NEW cur \in Seq(Tool), NEW ts, Reported(ts)
    PROVE  Reviewed(diffTools(cur, ts), defaultSelection(diffTools(cur, ts)))
<1> DEFINE rs == diffTools(cur, ts)
           sel == defaultSelection(rs)
<1>1. rs \in Seq(Row) /\ Distinct(rs) /\ \A i \in DOMAIN rs : Describes(rs[i], cur, ts)
  BY DiffDescribes
<1> HIDE DEF rs
<1>2. sel \subseteq NamesOf(rs)
  BY DEF defaultSelection, NamesOf
<1>3. ASSUME NEW i \in DOMAIN rs, rs[i].name \in sel PROVE rs[i].status # "same"
  <2>1. PICK j \in DOMAIN rs : rs[j].status = "new" /\ rs[j].name = rs[i].name
    BY <1>3 DEF defaultSelection
  <2>2. QED
    BY <1>1, <2>1 DEF Distinct
<1>4. QED
  BY <1>1, <1>2, <1>3 DEF Reviewed, Describes, rs

LEMMA ToggleKeeps ==
    ASSUME ToolsInv, NEW n, ToggleRow(n)
    PROVE  ToolsInv'
<1>1. PICK i \in DOMAIN rows : rows[i].name = n /\ rows[i].status # "same"
  BY DEF ToggleRow
<1>2. UNCHANGED <<editorVars, reading, fetching, dialog, rows>>
  BY DEF ToggleRow
<1>3. ticked' = ticked \ {n} \/ ticked' = ticked \cup {n}
  BY DEF ToggleRow
<1>4. Distinct(rows) /\ ticked \subseteq NamesOf(rows)
      /\ \A j \in DOMAIN rows : rows[j].name \in ticked => rows[j].status # "same"
  BY DEF ToolsInv, Reviewed
<1>5. ticked' \subseteq NamesOf(rows)
  BY <1>1, <1>3, <1>4 DEF NamesOf
<1>6. \A j \in DOMAIN rows : rows[j].name \in ticked' => rows[j].status # "same"
  BY <1>1, <1>3, <1>4 DEF Distinct
<1>7. Reviewed(rows', ticked')
  BY <1>2, <1>5, <1>6 DEF ToolsInv, Reviewed
<1>8. QED
  BY <1>2, <1>7, ReviewKeeps DEF ToolsInv

LEMMA ApplyKeeps ==
    ASSUME ToolsInv, applyFromServer
    PROVE  ToolsInv'
<1> DEFINE next == applyDiscovery(Edited, rows, ticked)
<1>1. /\ dialog = "review" /\ SetTools(next)
      /\ text' = (IF mode = "json" THEN next ELSE text)
      /\ dialog' = "closed" /\ rows' = <<>> /\ ticked' = {}
      /\ UNCHANGED <<mode, reading>>
  BY DEF applyFromServer
<1>2. Edited \in Seq(Tool)
  BY <1>1, EditedIsAList, ToolListsAre
<1>3. next \in Seq(Tool)
  <2>1. Reviewed(rows, ticked)
    BY DEF ToolsInv
  <2>2. Applies(next, Edited, rows, ticked)
    BY <1>2, <2>1, AppliedIs
  <2>3. QED
    BY <2>2 DEF Applies
<1> HIDE DEF next
<1>4. tools' \in ToolLists /\ DOMAIN cards' = IF mode' = "form" THEN DOMAIN tools' ELSE {}
  BY <1>1, <1>3, SettingTools
<1>5. next \in ToolLists
  BY <1>1, <1>3, ToolListsAre DEF SetTools
<1>6. Reviewed(rows, ticked)'
  BY <1>1, NothingReviewed
<1>7. QED
  BY <1>1, <1>4, <1>5, <1>6 DEF ToolsInv

LEMMA ToolSteps == ToolsInv /\ [ToolsNext]_toolsVars => ToolsInv'
<1> SUFFICES ASSUME ToolsInv, [ToolsNext]_toolsVars
             PROVE  ToolsInv'
  OBVIOUS
<1> tools \in Seq(Tool)
  BY ToolListsAre DEF ToolsInv
<1>0. Reviewed(rows, ticked)
  BY DEF ToolsInv
<1>1. CASE UNCHANGED toolsVars
  BY <1>0, <1>1, ReviewKeeps DEF toolsVars, dialogVars, ToolsInv
<1>2. CASE AddTool
  <2>1. [name |-> Unnamed, content |-> NoContent, extra |-> FALSE] \in Tool
    BY ToolsEditorAssumption DEF Tool
  <2>2. Append(tools, [name |-> Unnamed, content |-> NoContent, extra |-> FALSE]) \in Seq(Tool)
    BY <2>1
  <2>3. QED
    BY <1>2, <2>2, CardKeeps DEF AddTool
<1>3. ASSUME NEW i \in DOMAIN tools, RemoveTool(i) PROVE ToolsInv'
  <2>1. RemoveAt(tools, i) \in Seq(Tool)
    BY DEF RemoveAt
  <2>2. QED
    BY <1>3, <2>1, CardKeeps DEF RemoveTool
<1>4. ASSUME NEW i \in DOMAIN tools, NEW n \in Names \cup {Unnamed}, RenameTool(i, n) PROVE ToolsInv'
  <2>1. tools[i] \in Tool
    OBVIOUS
  <2>2. [tools[i] EXCEPT !.name = n] \in Tool
    BY <2>1 DEF Tool
  <2>3. [tools EXCEPT ![i].name = n] \in Seq(Tool)
    BY <2>2
  <2>4. QED
    BY <1>4, <2>3, CardKeeps DEF RenameTool
<1>5. ASSUME NEW i \in DOMAIN tools, NEW c \in Contents \cup {Malformed}, commitSchema(i, c) PROVE ToolsInv'
  <2>1. /\ cards' = [cards EXCEPT ![i] = c]
        /\ tools' = (IF c = Malformed THEN tools ELSE [tools EXCEPT ![i].content = c])
        /\ UNCHANGED <<mode, text, jsonError, reading, remote, dialogVars>>
    BY <1>5 DEF commitSchema
  <2>2. tools' \in Seq(Tool) /\ DOMAIN tools' = DOMAIN tools /\ Len(tools') = Len(tools)
    <3>1. CASE c = Malformed
      BY <2>1, <3>1
    <3>2. CASE c # Malformed
      <4>1. tools[i] \in Tool /\ c \in Contents
        BY <3>2
      <4>2. [tools[i] EXCEPT !.content = c] \in Tool
        BY <4>1 DEF Tool
      <4>3. QED
        BY <2>1, <3>2, <4>2
    <3>3. QED
      BY <3>1, <3>2
  <2>3. tools' \in ToolLists
    BY <2>2, ToolListsAre DEF ToolsInv
  <2>4. UNCHANGED <<mode, text, reading, fetching, dialog, rows, ticked>>
    BY <2>1 DEF dialogVars
  <2>5. DOMAIN cards' = DOMAIN cards
    BY <2>1
  <2>6. Reviewed(rows, ticked)' /\ (Parses(text)' <=> Parses(text))
    BY <1>0, <2>4 DEF Reviewed, Parses
  <2>7. QED
    BY <2>2, <2>3, <2>4, <2>5, <2>6 DEF ToolsInv
<1>6. CASE pasteFromClipboard
  <2>1. UNCHANGED <<mode, tools, cards, text, fetching, dialog, rows, ticked>> /\ reading' = tools
    BY <1>6 DEF pasteFromClipboard, editorVars, dialogVars
  <2>2. Reviewed(rows, ticked)' /\ (Parses(text)' <=> Parses(text))
    BY <1>0, <2>1 DEF Reviewed, Parses
  <2>3. QED
    BY <2>1, <2>2 DEF ToolsInv
<1>7. ASSUME NEW ts \in Texts, PasteArrives(ts) PROVE ToolsInv'
  <2>1. CASE Parses(ts) /\ SetTools(reading \o ts)
    <3>1. ts \in Seq(Tool) /\ reading \in Seq(Tool)
      BY <1>7, <2>1, ToolListsAre, ToolsEditorAssumption DEF PasteArrives, Parses, ToolsInv
    <3>2. reading \o ts \in Seq(Tool)
      BY <3>1
    <3>3. QED
      BY <1>7, <2>1, <3>2, CardKeeps DEF PasteArrives
  <2>2. CASE UNCHANGED <<tools, cards>>
    <3>1. UNCHANGED <<mode, tools, cards, text, fetching, dialog, rows, ticked>> /\ reading' = NoTool
      BY <1>7, <2>2 DEF PasteArrives, dialogVars
    <3>2. Reviewed(rows, ticked)' /\ (Parses(text)' <=> Parses(text))
      BY <1>0, <3>1 DEF Reviewed, Parses
    <3>3. QED
      BY <3>1, <3>2 DEF ToolsInv
  <2>3. QED
    BY <1>7, <2>1, <2>2 DEF PasteArrives
<1>8. CASE EnterJson
  <2>1. /\ mode' = "json" /\ text' = tools /\ cards' = <<>> /\ dialog = "closed"
        /\ UNCHANGED <<tools, reading, fetching, dialog, rows, ticked>>
    BY <1>8 DEF EnterJson, OnTab, dialogVars
  <2>2. Reviewed(rows, ticked)'
    BY <1>0, <2>1 DEF Reviewed
  <2>3. QED
    BY <2>1, <2>2 DEF ToolsInv
<1>9. CASE LeaveJson
  <2>1. dialog = "closed" /\ UNCHANGED <<text, reading, fetching, dialog, rows, ticked>>
    BY <1>9 DEF LeaveJson, OnTab, dialogVars
  <2>2. Reviewed(rows, ticked)'
    BY <1>0, <2>1 DEF Reviewed
  <2>3. CASE UNCHANGED <<mode, tools, cards>>
    BY <2>1, <2>2, <2>3 DEF ToolsInv
  <2>4. CASE Parses(text) /\ mode' = "form" /\ tools' = text /\ cards' = Mounted(<<>>, text)
    <3>1. text \in ToolLists /\ DOMAIN cards' = DOMAIN tools'
      BY <2>4, MountedFits DEF Parses, ToolsInv
    <3>2. QED
      BY <2>1, <2>2, <2>4, <3>1 DEF ToolsInv
  <2>5. QED
    BY <1>9, <2>3, <2>4 DEF LeaveJson
<1>10. ASSUME NEW t \in Texts, handleJsonChange(t) PROVE ToolsInv'
  <2>1. dialog = "closed" /\ text' = t
        /\ UNCHANGED <<mode, tools, cards, reading, fetching, dialog, rows, ticked>>
    BY <1>10 DEF handleJsonChange, OnTab, dialogVars
  <2>2. Reviewed(rows, ticked)'
    BY <1>0, <2>1 DEF Reviewed
  <2>3. QED
    BY <2>1, <2>2, ToolsEditorAssumption DEF ToolsInv
<1>11. CASE EditRemote
  BY <1>0, <1>11, ReviewKeeps DEF EditRemote, dialogVars, ToolsInv
<1>12. CASE OpenDiscovery
  <2>1. mode = "form" \/ Parses(text)
    BY <1>12 DEF OpenDiscovery, Edited
  <2>2. QED
    BY <1>0, <1>12, <2>1, ReviewKeeps DEF OpenDiscovery
<1>13. ASSUME NEW ts \in Listings, DiscoveryAnswers(ts) PROVE ToolsInv'
  <2>1. CASE dialog = "loading"
    <3>1. dialog' = "review" /\ rows' = diffTools(Edited, ts) /\ ticked' = defaultSelection(rows')
          /\ UNCHANGED <<editorVars, reading>>
      BY <1>13, <2>1 DEF DiscoveryAnswers, Review
    <3>2. Edited \in Seq(Tool) /\ Reported(ts)
      BY <1>13, <2>1, EditedIsAList, ToolListsAre, ListingsAreReported
    <3>3. Reviewed(rows', ticked')
      BY <3>1, <3>2, AnswerIsReviewed
    <3>4. QED
      BY <2>1, <3>1, <3>3, ReviewKeeps DEF ToolsInv
  <2>2. CASE dialog # "loading"
    <3>1. UNCHANGED <<dialog, rows, ticked, editorVars, reading>>
      BY <1>13, <2>2 DEF DiscoveryAnswers
    <3>2. QED
      BY <1>0, <2>2, <3>1, ReviewKeeps DEF ToolsInv
  <2>3. QED
    BY <2>1, <2>2
<1>14. CASE DiscoveryFails
  BY <1>14, NothingReviewed, ReviewKeeps DEF DiscoveryFails, ToolsInv
<1>15. CASE RetryDiscovery
  BY <1>0, <1>15, ReviewKeeps DEF RetryDiscovery, ToolsInv
<1>16. CASE CloseDiscovery
  BY <1>16, NothingReviewed, ReviewKeeps DEF CloseDiscovery
<1>17. CASE applyFromServer
  BY <1>17, ApplyKeeps
<1>18. ASSUME NEW n \in Names, ToggleRow(n) PROVE ToolsInv'
  BY <1>18, ToggleKeeps
<1>19. QED
  BY <1>1, <1>2, <1>3, <1>4, <1>5, <1>6, <1>7, <1>8, <1>9, <1>10, <1>11, <1>12, <1>13, <1>14,
     <1>15, <1>16, <1>17, <1>18 DEF ToolsNext

LEMMA ToolsAlways == Spec => []ToolsInv
<1>1. Init => ToolsInv
  BY PartsStart, ToolsStart
<1>2. ToolsInv /\ [Next]_vars => ToolsInv'
  BY Parts, EditorParts, ToolSteps
<1>3. QED
  BY <1>1, <1>2, PTL DEF Spec, vars

\* Applying the ticked rows does to each name what its row says and nothing else
\* and keeps the order, whatever became of the edited list since the review; for
\* the rows that say "new" and the number on the button, while they describe the
\* list.  For lists of any length with any duplicates (reconcile-tools.ts).
THEOREM AppliedTicksAlwaysAgree == Spec => []AppliedTicksAgree
<1>1. ASSUME ToolsInv PROVE AppliedTicksAgree
  <2> SUFFICES ASSUME dialog = "review"
               PROVE  LET current == diffTools(Edited, Listed) = rows
                          next == applyDiscovery(Edited, rows, ticked)
                          after(r) ==
                              LET before == Named(Edited, r.name) IN
                              IF r.name \notin ticked THEN before
                              ELSE IF r.status = "missing" THEN <<>>
                              ELSE IF r.status = "new" THEN Named(Listed, r.name)
                              ELSE [i \in DOMAIN before |-> [before[i] EXCEPT !.content = r.found]]
                          survivors == Sublist(Edited, {i \in DOMAIN Edited : Edited[i].name \in NamesOf(next)})
                      IN  /\ \A i \in DOMAIN rows :
                                current \/ rows[i].status # "new" \/ rows[i].name \notin ticked =>
                                    Named(next, rows[i].name) = after(rows[i])
                          /\ \A n \in (Names \cup {Unnamed}) \ NamesOf(rows) :
                                Named(next, n) = Named(Edited, n)
                          /\ \A i \in DOMAIN survivors : next[i].name = survivors[i].name
                          /\ current => countChanges(rows, ticked) =
                                 Cardinality({n \in NamesOf(Edited) \cup NamesOf(next) :
                                                  Named(next, n) # Named(Edited, n)})
    BY DEF AppliedTicksAgree
  <2> DEFINE next == applyDiscovery(Edited, rows, ticked)
             current == diffTools(Edited, Listed) = rows
  <2>1. Edited \in Seq(Tool)
    BY <1>1, EditedIsAList, ToolListsAre
  <2>2. Reviewed(rows, ticked) /\ rows \in Seq(Row) /\ Distinct(rows)
    BY <1>1 DEF ToolsInv, Reviewed
  <2>3. Listed = ListingOf(rows)
    BY DEF Listed, ListingOf, ToolOf
  <2>4. Reported(Listed)
    BY <2>2, <2>3, ListedIsReported
  <2>5. current => \A i \in DOMAIN rows : Describes(rows[i], Edited, Listed)
    BY <2>1, <2>4, DiffDescribes
  <2>6. /\ \A n : n \notin NamesOf(rows) \cap ticked => Named(next, n) = Named(Edited, n)
        /\ \A i \in DOMAIN rows : rows[i].name \in ticked => Follows(next, Edited, rows[i])
    BY <2>1, <2>2, NamedAfter
  <2>7. ASSUME current, NEW i \in DOMAIN rows, rows[i].name \in ticked, rows[i].status = "new"
        PROVE  Named(next, rows[i].name) = Named(Listed, rows[i].name)
    <3>1. rows[i].found \in Contents /\ rows[i].name \notin NamesOf(Edited)
      BY <2>2, <2>5, <2>7 DEF Reviewed, Describes
    <3>2. Named(Listed, rows[i].name) = <<ToolOf(rows[i])>>
      BY <2>2, <2>3, <3>1, ListedIsReported
    <3>3. QED
      BY <2>6, <2>7, <3>1, <3>2 DEF Follows
  <2>8. \A i \in DOMAIN rows :
           rows[i].name \in ticked => rows[i].status \in {"missing", "new", "changed"}
    <3> SUFFICES ASSUME NEW i \in DOMAIN rows, rows[i].name \in ticked
                 PROVE  rows[i].status \in {"missing", "new", "changed"}
      OBVIOUS
    <3>1. rows[i] \in Row /\ rows[i].status # "same"
      BY <2>2 DEF Reviewed
    <3>2. QED
      BY <3>1 DEF Row
  <2>9. InPlace(next, Edited)
    BY <2>1, <2>2, OrderKept
  <2>10. current => countChanges(rows, ticked) = Cardinality(Changed(next, Edited))
    BY <2>1, <2>2, <2>5, Affected
  <2> HIDE DEF next, current
  <2>11. ASSUME NEW i \in DOMAIN rows,
                current \/ rows[i].status # "new" \/ rows[i].name \notin ticked
         PROVE  LET r == rows[i]
                    before == Named(Edited, r.name)
                IN  Named(next, r.name) =
                        IF r.name \notin ticked THEN before
                        ELSE IF r.status = "missing" THEN <<>>
                        ELSE IF r.status = "new" THEN Named(Listed, r.name)
                        ELSE [k \in DOMAIN before |-> [before[k] EXCEPT !.content = r.found]]
    <3>1. CASE rows[i].name \notin ticked
      BY <2>6, <3>1
    <3>2. CASE rows[i].name \in ticked
      BY <2>6, <2>7, <2>8, <2>11, <3>2 DEF Follows
    <3>3. QED
      BY <3>1, <3>2
  <2>12. \A n \in (Names \cup {Unnamed}) \ NamesOf(rows) : Named(next, n) = Named(Edited, n)
    BY <2>6
  <2>13. QED
    BY <2>9, <2>10, <2>11, <2>12 DEF InPlace, Changed, next, current
<1>2. QED
  BY <1>1, ToolsAlways, PTL

\* Every variable of the forms and the editors holds a value of its kind.
THEOREM FormsAndEditorsTyped == Spec => []TypeOK
<1>1. ToolsInv /\ RevisionsInv => EditorsTypeOK
  BY DEF ToolsInv, RevisionsInv, Reviewed, EditorsTypeOK
<1>2. QED
  BY <1>1, FormsAlwaysTyped, ToolsAlways, RevisionsAlways, PTL DEF TypeOK

=============================================================================
