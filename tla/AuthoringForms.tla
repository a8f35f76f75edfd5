---------------------------- MODULE AuthoringForms ----------------------------
(***************************************************************************)
(* Authoring in the web application: the forms with their guards and       *)
(* submissions, and the editors of tools and revisions inside them.  A     *)
(* form reads an editor through its hidden input when it is submitted, and *)
(* that input is all an editor shows of its state, so that a behaviour     *)
(* works on one part.                                                      *)
(***************************************************************************)
EXTENDS EntryForms, VersionEditors

VARIABLE using   \* "forms" or "editors", for the behaviour

Init ==
    \/ using = "forms" /\ FormsInit /\ EditorsUntouched
    \/ using = "editors" /\ EditorsInit /\ FormsInit /\ ~taken

Next ==
    /\ \/ using = "forms" /\ FormsNext /\ UNCHANGED versionEditorVars
       \/ using = "editors" /\ EditorsNext /\ UNCHANGED formsVars
    /\ UNCHANGED using

Spec == Init /\ [][Next]_<<using, formsVars, versionEditorVars>>

\* Every variable of the forms and the editors holds a value of its kind; an
\* open form has its guard, and a mounted card its tool.
TypeOK == FormsTypeOK /\ EditorsTypeOK

=============================================================================
