------------------------------ MODULE EntryForms ------------------------------
(***************************************************************************)
(* The forms that author an entry: the three calls of the page that        *)
(* creates one, the form for a next version, the usage and metadata        *)
(* editors of an entry's page, and the simple form that creates a          *)
(* publisher or a group.  A request is sent, committed or refused, and its *)
(* answer may be lost; the user goes on typing, leaves, or comes back.     *)
(***************************************************************************)
EXTENDS FormGuard, Naturals

CONSTANT MaxJobs    \* submissions in a behaviour

ASSUME EntryFormsAssumption == MaxJobs \in Nat

VARIABLES
    job,       \* the submission of each form under way
    done,      \* what the submission under way has made the server do
    silent,    \* one of its calls was not answered
    taken,     \* the slug of the create form is in use
    told,      \* what the user was told of the last submission that ended
    jobs       \* submissions left

jobVars == <<job, done, silent, taken, told, jobs>>
formsVars == <<guardVars, jobVars>>

Steps == {"entry", "version", "release", "save"}

\* What is filled in: a first version, tools that are a JSON array, the
\* checkbox "Publish version immediately" or "Submit version for review".  A
\* form without these fields has none of them.
Inputs == [version : BOOLEAN, tools : BOOLEAN, release : BOOLEAN]
NoInput == [version |-> FALSE, tools |-> FALSE, release |-> FALSE]

Idle == [at |-> "idle"]
Nothing == [f \in Forms |-> {}]

FormsInit ==
    /\ GuardInit
    /\ job = [f \in Forms |-> Idle]
    /\ done = Nothing
    /\ silent = Quiet
    /\ taken \in BOOLEAN
    /\ told = [form |-> None]
    /\ jobs = MaxJobs

-----------------------------------------------------------------------------
(* Submitting: the button is disabled while a submission is under way.     *)

Starts(f) ==
    /\ prompt = None
    /\ f \in open
    /\ job[f] = Idle
    /\ jobs > 0
    /\ jobs' = jobs - 1
    /\ done' = [done EXCEPT ![f] = {}]
    /\ silent' = [silent EXCEPT ![f] = FALSE]

Says(f, what, in) == told' = [form |-> f, what |-> what, in |-> in]

Ends(f, what, in) ==
    /\ job' = [job EXCEPT ![f] = Idle]
    /\ Says(f, what, in)

Asks(f, step, in) == job' = [job EXCEPT ![f] = [at |-> step, in |-> in]]

SubmitCreate(in) ==
    /\ Starts("create")
    /\ Asks("create", "entry", in)
    /\ UNCHANGED <<guardVars, taken, told>>

\* Tools and capabilities that do not parse are refused before the request.
SubmitVersion(in) ==
    /\ Starts("version")
    /\ IF in.tools THEN Asks("version", "version", in) /\ UNCHANGED told
                   ELSE Ends("version", "failed", in)
    /\ UNCHANGED <<guardVars, taken>>

\* The other forms send one request.  The usage editor is saved when its text
\* has changed.
Submit(f, in) ==
    /\ f \in {"publisher", "usage", "edit"}
    /\ Starts(f)
    /\ f = "usage" => dirty["usage"]
    /\ Asks(f, "save", in)
    /\ UNCHANGED <<guardVars, taken, told>>

-----------------------------------------------------------------------------
(* Success and failure                                                     *)

\* The redirect is asked for while the guard still reports the form dirty.
RedirectDirty(f, to) == Navigate(to, dirty)

\* flushSync: the guard renders the clean form before the redirect.
Redirect(f, to) == Navigate(to, [dirty EXCEPT ![f] = FALSE])

\* The forms opened on a page close when their request succeeded, with what
\* was typed since it was sent.
Close(f) == IF f \in open THEN Closed(f) ELSE UNCHANGED guardVars

\* The toast of a user who cannot review for the publisher that is selected by
\* now says "version submitted for review", whatever was asked for.
Toast(warned, canReview) ==
    IF warned THEN "warning" ELSE IF canReview THEN "created" ELSE "submitted"

Created(in, warned) ==
    /\ \E canReview \in BOOLEAN : Ends("create", Toast(warned, canReview), in)
    /\ Redirect("create", "entry")

\* The form is marked clean when it is sent.
FailedClean(f, what, in) ==
    /\ Ends(f, what, in)
    /\ dirty' = [dirty EXCEPT ![f] = FALSE]
    /\ UNCHANGED <<page, open, guards, work, prompt>>

Failed(f, what, in) ==
    /\ Ends(f, what, in)
    /\ UNCHANGED guardVars

\* What follows the first call of the create form.
AfterEntry(in) ==
    IF ~in.version THEN Created(in, FALSE)
    ELSE IF ~in.tools THEN Failed("create", "versionFailed", in)
    ELSE Asks("create", "version", in) /\ UNCHANGED <<told, guardVars>>

AfterVersion(in) ==
    IF in.release THEN Asks("create", "release", in) /\ UNCHANGED <<told, guardVars>>
                  ELSE Created(in, FALSE)

Succeeds(f, step, in) ==
    CASE step = "entry" -> AfterEntry(in)
      [] step = "version" /\ f = "create" -> AfterVersion(in)
      [] step = "release" -> Created(in, FALSE)
      [] f = "publisher" -> Ends(f, "created", in) /\ Redirect(f, "list")
      [] OTHER -> Ends(f, "created", in) /\ Close(f)

\* The step that failed is not marked.
RefusedUnmarked(f, step, in) ==
    IF step = "release" THEN Created(in, TRUE) ELSE Failed(f, "failed", in)

\* An error answer: of the second call it is marked as such, of the third it
\* is a warning on the page of the entry.
Refused(f, step, in) ==
    CASE step = "version" /\ f = "create" -> Failed(f, "versionFailed", in)
      [] step = "release" -> Created(in, TRUE)
      [] OTHER -> Failed(f, "failed", in)

\* The server commits the call and answers.
Commit(f) ==
    /\ job[f] # Idle
    /\ job[f].at = "entry" => ~taken
    /\ taken' = (taken \/ job[f].at = "entry")
    /\ done' = [done EXCEPT ![f] = @ \cup {job[f].at}]
    /\ Succeeds(f, job[f].at, job[f].in)
    /\ UNCHANGED <<silent, jobs>>

\* The server refuses it: a slug in use, a version that exists, a role that
\* was revoked, an entry that is gone.
Refuse(f) ==
    /\ job[f] # Idle
    /\ Refused(f, job[f].at, job[f].in)
    /\ UNCHANGED <<done, silent, taken, jobs>>

\* No answer arrives, whether or not the server commits: the call throws an
\* error that is not marked.
Lose(f) ==
    /\ job[f] # Idle
    /\ \/ /\ job[f].at = "entry" => ~taken
          /\ taken' = (taken \/ job[f].at = "entry")
          /\ done' = [done EXCEPT ![f] = @ \cup {job[f].at}]
       \/ UNCHANGED <<taken, done>>
    /\ silent' = [silent EXCEPT ![f] = TRUE]
    /\ Failed(f, "failed", job[f].in)
    /\ UNCHANGED jobs

-----------------------------------------------------------------------------

\* A form that is opened again while its submission is under way would have a
\* submission of its own; behaviours wait for the first one.
Reaches(to) == \A f \in Forms : PageOf[f] = to => job[f] = Idle

Browse ==
    /\ \/ \E to \in Pages : Reaches(to) /\ Leave(to)
       \/ KeepEditing \/ DiscardChanges
       \/ CloseTab /\ job = [f \in Forms |-> Idle]
       \/ \E changed \in BOOLEAN : TypeUsage(changed)
       \/ TypeEdit
       \/ \E f \in Forms :
             \/ job[f] = Idle /\ OpenForm(f)
             \/ CancelForm(f) \/ Type(f) \/ Build(f)
    /\ UNCHANGED jobVars

FormsNext ==
    \/ Browse
    \/ \E in \in Inputs : SubmitCreate(in)
    \/ \E tools \in BOOLEAN : SubmitVersion([NoInput EXCEPT !.tools = tools])
    \/ \E f \in Forms : Submit(f, NoInput)
    \/ \E f \in Forms : Commit(f) \/ Refuse(f) \/ Lose(f)

-----------------------------------------------------------------------------
(* Properties                                                              *)

FormsTypeOK ==
    /\ page \in Pages
    /\ open \subseteq {f \in Forms : PageOf[f] = page}
    /\ ToSet(guards) = open \cap Guarded
    /\ IsInjective(guards)
    /\ dirty \in [Forms -> BOOLEAN]
    /\ work \in [Forms -> {"none", "typed", "built"}]
    /\ prompt \in Pages \cup {None}
    /\ \A f \in Forms : job[f] # Idle => job[f].at \in Steps /\ job[f].in \in Inputs
    /\ jobs \in 0 .. MaxJobs

\* Whatever submissions succeed or fail meanwhile, nobody closes or reloads the
\* tab over a guarded form they have typed into without being asked, and nobody
\* leaves by a link one whose guard was mounted last.  "Render it inside any
\* form whose state would be lost on navigation and flip `when` once the user
\* has typed something" (dirty-form-guard.tsx) is not enough for the others: of
\* two forms that are open on the entry page the router asks the later one only,
\* and what was typed into the earlier one is lost.
TypedWorkIsGuarded ==
    [][/\ CloseTab => \A f \in open \cap Guarded : work[f] # "typed"
       /\ (\E to \in Pages : Leave(to)) /\ page' # page /\ guards # <<>>
              => work[Last(guards)] # "typed"]_formsVars

\* A form's own success is never held up by its own guard (the flushSync of
\* the create pages).
OwnRedirectPasses ==
    [][\A f \in Standing : told' # told /\ told'.form = f /\ ToSet(guards) \subseteq {f}
          => prompt' = None \/ prompt' = prompt]_formsVars

\* The user of the create form can tell from the message what exists now:
\* "failed" if no entry was created, "versionFailed" if the entry was but the
\* version was not, the warning if only the publication or submission was
\* refused, and either toast of success if all that was asked for happened.  That
\* is what "MCP server created" says; the other half of the second toast,
\* "version submitted for review", is not covered: it is shown as well when no
\* version was entered or nothing was to be submitted.  A call that was not
\* answered is left out: it reads "failed" whatever it did.  (mcp/new.tsx)
ToldWhatHappened ==
    told.form = "create" /\ job["create"] = Idle /\ ~silent["create"] =>
        LET wanted == {"entry"} \cup (IF told.in.version THEN {"version"} ELSE {})
                      \cup (IF told.in.version /\ told.in.release THEN {"release"} ELSE {})
        IN  done["create"] =
                CASE told.what = "failed" -> {}
                  [] told.what = "versionFailed" -> {"entry"}
                  [] told.what = "warning" -> wanted \ {"release"}
                  [] told.what \in {"created", "submitted"} -> wanted

=============================================================================
