------------------------------ MODULE ReviewPage ------------------------------
(***************************************************************************)
(* The review queue page, for the submissions of one entry: the rows as    *)
(* last fetched, the dialog that confirms an approval, the form in a row   *)
(* that takes the reason of a rejection, and the two requests that may be  *)
(* under way at once.  The server's part is what VersionReview,            *)
(* EntryChange and EntryDeletion make of it, a submission pending or not.  *)
(***************************************************************************)
EXTENDS Naturals, FiniteSets

CONSTANTS
    Submissions,  \* [kind, of]: a version, a change with its action, the deletion
    NoItem        \* no row, no reason, no request

ASSUME SubmissionsAssumption ==
    \A a, b \in Submissions : a.kind = b.kind /\ a.of = b.of => a = b

VARIABLES
    pending,       \* the server: what waits for a review
    rows,          \* the rows on the screen
    refreshing,    \* whether the queue is being fetched
    confirmTarget, \* the row whose approval awaits confirmation
    rejectingKey,  \* the key of the row with the reject form
    rejectReason,  \* the row its reason was typed for
    approval,      \* the two mutations
    rejection,
    actionError    \* whether an error is on the screen

queueVars == <<pending, rows, refreshing, confirmTarget, rejectingKey, rejectReason,
               approval, rejection, actionError>>

NoRequest == [item |-> NoItem, reason |-> NoItem, at |-> "idle"]

QueueInit ==
    /\ pending = {} /\ rows = {}
    /\ refreshing = TRUE
    /\ confirmTarget = NoItem
    /\ rejectingKey = NoItem /\ rejectReason = NoItem
    /\ approval = NoRequest /\ rejection = NoRequest
    /\ actionError = FALSE

-----------------------------------------------------------------------------
(* The server                                                              *)

\* An entry has one pending version, one pending change and one deletion.
SubmitItem ==
    \E it \in Submissions :
        /\ \A other \in pending : other.kind # it.kind
        /\ pending' = pending \cup {it}
        /\ UNCHANGED <<rows, refreshing, confirmTarget, rejectingKey, rejectReason, approval, rejection, actionError>>

\* Withdrawn, or decided by somebody else.
ItemGoes ==
    \E it \in pending :
        /\ pending' = pending \ {it}
        /\ UNCHANGED <<rows, refreshing, confirmTarget, rejectingKey, rejectReason, approval, rejection, actionError>>

\* The URL names the version, or only the entry.
Addressed(it) == {p \in pending : p.kind = it.kind /\ (it.kind = "version" => p.of = it.of)}

Decided(job) ==
    IF Addressed(job.item) = {} THEN [job EXCEPT !.at = "refused"] ELSE [job EXCEPT !.at = "done"]

ServeApproval ==
    /\ approval.at = "sent"
    /\ approval' = Decided(approval)
    /\ pending' = pending \ Addressed(approval.item)
    /\ UNCHANGED <<rows, refreshing, confirmTarget, rejectingKey, rejectReason, rejection, actionError>>

ServeRejection ==
    /\ rejection.at = "sent"
    /\ rejection' = Decided(rejection)
    /\ pending' = pending \ Addressed(rejection.item)
    /\ UNCHANGED <<rows, refreshing, confirmTarget, rejectingKey, rejectReason, approval, actionError>>

-----------------------------------------------------------------------------
(* The rows                                                                *)

\* Mutant: two items on the same entry collide.
kindKey(it) == <<it.kind>>

rowKey(it) == <<it.kind, it.of>>

\* Refresh, or the window gets the focus back.
RefreshQueue ==
    /\ ~refreshing
    /\ refreshing' = TRUE
    /\ UNCHANGED <<pending, rows, confirmTarget, rejectingKey, rejectReason, approval, rejection, actionError>>

\* A failed fetch takes the rows off the screen.
QueueArrives ==
    /\ refreshing
    /\ refreshing' = FALSE
    /\ rows' \in {pending, {}}
    /\ UNCHANGED <<pending, confirmTarget, rejectingKey, rejectReason, approval, rejection, actionError>>

Busy == approval.at # "idle" \/ rejection.at # "idle"

\* The dialog is modal.
OnPage(it) == it \in rows /\ confirmTarget = NoItem

-----------------------------------------------------------------------------
(* Approve                                                                 *)

ClickApprove ==
    \E it \in rows :
        /\ OnPage(it) /\ ~Busy
        /\ confirmTarget' = it
        /\ UNCHANGED <<pending, rows, refreshing, rejectingKey, rejectReason, approval, rejection, actionError>>

\* The dialog keeps the row it was opened for, whatever the queue does.
ConfirmApproval ==
    /\ confirmTarget # NoItem
    /\ approval' = [item |-> confirmTarget, reason |-> NoItem, at |-> "sent"]
    /\ confirmTarget' = NoItem
    /\ actionError' = FALSE
    /\ UNCHANGED <<pending, rows, refreshing, rejectingKey, rejectReason, rejection>>

CloseDialog ==
    /\ confirmTarget # NoItem
    /\ confirmTarget' = NoItem
    /\ UNCHANGED <<pending, rows, refreshing, rejectingKey, rejectReason, approval, rejection, actionError>>

\* The answer may be lost whatever the server did.
ApprovalAnswered ==
    /\ approval.at # "idle"
    /\ approval' = NoRequest
    /\ \/ approval.at = "done" /\ refreshing' = TRUE /\ UNCHANGED actionError
       \/ actionError' = TRUE /\ UNCHANGED refreshing
    /\ UNCHANGED <<pending, rows, confirmTarget, rejectingKey, rejectReason, rejection>>

-----------------------------------------------------------------------------
(* Reject                                                                  *)

ClickReject ==
    \E it \in rows :
        /\ OnPage(it) /\ ~Busy
        /\ rejectingKey # rowKey(it)
        /\ rejectingKey' = rowKey(it)
        /\ rejectReason' = NoItem
        /\ actionError' = FALSE
        /\ UNCHANGED <<pending, rows, refreshing, confirmTarget, approval, rejection>>

\* The form shows in the row with the key; its input is never disabled.
TypeReason ==
    \E it \in rows :
        /\ OnPage(it) /\ rejectingKey = rowKey(it)
        /\ rejectReason' \in {it, NoItem} \ {rejectReason}
        /\ UNCHANGED <<pending, rows, refreshing, confirmTarget, rejectingKey, approval, rejection, actionError>>

\* An approval under way does not keep it from being sent.
ConfirmReject ==
    \E it \in rows :
        /\ OnPage(it) /\ rejectingKey = rowKey(it)
        /\ rejectReason # NoItem
        /\ rejection.at = "idle"
        /\ rejection' = [item |-> it, reason |-> rejectReason, at |-> "sent"]
        /\ actionError' = FALSE
        /\ UNCHANGED <<pending, rows, refreshing, confirmTarget, rejectingKey, rejectReason, approval>>

CancelReject ==
    \E it \in rows :
        /\ OnPage(it) /\ rejectingKey = rowKey(it)
        /\ rejection.at = "idle"
        /\ rejectingKey' = NoItem /\ rejectReason' = NoItem
        /\ UNCHANGED <<pending, rows, refreshing, confirmTarget, approval, rejection, actionError>>

RejectionAnswered ==
    /\ rejection.at # "idle"
    /\ rejection' = NoRequest
    /\ \/ /\ rejection.at = "done"
          /\ rejectingKey' = NoItem /\ rejectReason' = NoItem
          /\ refreshing' = TRUE
          /\ UNCHANGED actionError
       \/ /\ actionError' = TRUE
          /\ UNCHANGED <<rejectingKey, rejectReason, refreshing>>
    /\ UNCHANGED <<pending, rows, confirmTarget, approval>>

QueueNext ==
    \/ SubmitItem \/ ItemGoes \/ ServeApproval \/ ServeRejection
    \/ RefreshQueue \/ QueueArrives
    \/ ClickApprove \/ ConfirmApproval \/ CloseDialog \/ ApprovalAnswered
    \/ ClickReject \/ TypeReason \/ ConfirmReject \/ CancelReject \/ RejectionAnswered

=============================================================================
