---------------------------- MODULE VersionReview ----------------------------
(***************************************************************************)
(* The versions of an entry: created by Editors, submitted for review,     *)
(* withdrawn, approved or rejected by Reviewers, or published directly.    *)
(* Each operation is a handler action (the role check and the read of the  *)
(* entry) and a store action (the conditional write).  What a handler      *)
(* checks and what the WHERE clause of a write matches are operators of    *)
(* their own where the pages have to agree with them.                      *)
(***************************************************************************)
EXTENDS RegistryStore

-----------------------------------------------------------------------------
(* Handlers                                                                *)

\* One INSERT: the entry starts private and draft.
CreateServer(u, e) ==
    /\ MayEdit(u)
    /\ servers[e].status = "absent"
    /\ SlugLiveIdx(e)
    /\ servers' = [servers EXCEPT ![e].status = "draft"]
    /\ UNCHANGED <<versions, changes, requests>>

CreateVersion(u, e, v) ==
    /\ EditorEndpoint(u, e)
    /\ Accept([op |-> "create_version", entry |-> e, version |-> v])

SubmitAllowed(u, e) == EditorEndpoint(u, e)

SubmitVersion(u, e, v, requestPublic) ==
    /\ SubmitAllowed(u, e)
    /\ Accept([op |-> "submit_version", actor |-> u, entry |-> e, version |-> v,
               requestPublic |-> requestPublic])

WithdrawAllowed(u, e) == EditorEndpoint(u, e)

WithdrawVersion(u, e, v) ==
    /\ WithdrawAllowed(u, e)
    /\ Accept([op |-> "withdraw_version", entry |-> e, version |-> v])

PublishAllowed(u, e) == ReviewerEndpoint(u, e)

PublishVersion(u, e, v) ==
    /\ PublishAllowed(u, e)
    /\ Accept([op |-> "publish_version", entry |-> e, version |-> v])

\* The reviewer opens a pending version from the review queue.
LoadVersion(u, e, v) ==
    /\ ReviewerEndpoint(u, e)
    /\ Pending(e, v)
    /\ Accept([op |-> "read_version", actor |-> u, entry |-> e, version |-> v,
               revision |-> versions[e][v].revision,
               requestPublic |-> versions[e][v].requestPublic])

\* The URL carries the slug and the version name, the body the revision: the
\* entry the handler finds need not be the one the item was loaded from.
ApproveVersion(r, e) ==
    /\ r.op = "read_version"
    /\ Live(e)
    /\ Continue(r, [r EXCEPT !.op = "approve_version", !.entry = e])

RejectAllowed(r, e) == r.op = "read_version" /\ Live(e)

RejectVersion(r, e) ==
    /\ RejectAllowed(r, e)
    /\ Continue(r, [r EXCEPT !.op = "reject_version", !.entry = e])

-----------------------------------------------------------------------------
(* Store calls                                                             *)

CreateMCPServerVersion(r) ==
    /\ r.op = "create_version"
    /\ versions[r.entry][r.version].reviewState = "absent"
    /\ WriteVersion(r.entry, r.version, [AbsentVersion EXCEPT !.reviewState = "none"])
    /\ Answer(r)
    /\ UNCHANGED <<servers, changes>>

SubmitMatches(r) ==
    /\ r.op = "submit_version"
    /\ versions[r.entry][r.version].reviewState \in {"none", "rejected"}
    /\ ~versions[r.entry][r.version].published

Submitted(r) ==
    [versions[r.entry][r.version] EXCEPT !.reviewState = "pending_review",
                                         !.submittedBy = r.actor,
                                         !.requestPublic = r.requestPublic]

SubmitMCPVersion(r) ==
    /\ SubmitMatches(r)
    /\ WriteVersion(r.entry, r.version, Submitted(r))
    /\ Answer(r)
    /\ UNCHANGED <<servers, changes>>

WithdrawMatches(r) == r.op = "withdraw_version" /\ Pending(r.entry, r.version)

Withdrawn(r) ==
    [versions[r.entry][r.version] EXCEPT !.reviewState = "none", !.submittedBy = None,
                                         !.requestPublic = FALSE]

\* Mutant: withdraws whatever the review state.
WithdrawAnyVersion(r) ==
    /\ r.op = "withdraw_version"
    /\ WriteVersion(r.entry, r.version, Withdrawn(r))
    /\ Answer(r)
    /\ UNCHANGED <<servers, changes>>

WithdrawMCPVersion(r) ==
    /\ WithdrawMatches(r)
    /\ WriteVersion(r.entry, r.version, Withdrawn(r))
    /\ Answer(r)
    /\ UNCHANGED <<servers, changes>>

\* Mutant: the entry gets the status of a version.
PromotedToActive(status) == IF status = "draft" THEN "active" ELSE status

\* Mutant: the promotion has no condition on the entry's status.
PromotedFromAny(status) == "published"

\* Promotion of a draft entry, shared by approve and publish.
Promoted(status) == IF status = "draft" THEN "published" ELSE status

ApproveMCPVersion(r) ==
    /\ r.op = "approve_version"
    /\ LET e == r.entry
           v == r.version
           row == versions[e][v]
       IN
        /\ Pending(e, v)
        /\ row.revision = r.revision
        /\ ~SelfApproval(row.submittedBy, r.actor)
        /\ WriteVersion(e, v, [row EXCEPT !.reviewState = "none", !.reviewedBy = r.actor,
                                          !.published = TRUE])
        /\ servers' = [servers EXCEPT
               ![e].status = Promoted(@),
               ![e].visibility = IF row.requestPublic THEN "public" ELSE @]
    /\ Answer(r)
    /\ UNCHANGED changes

RejectMatches(r) ==
    /\ r.op = "reject_version"
    /\ Pending(r.entry, r.version)
    /\ versions[r.entry][r.version].revision = r.revision

Rejected(r) ==
    [versions[r.entry][r.version] EXCEPT !.reviewState = "rejected", !.reviewedBy = r.actor]

RejectMCPVersion(r) ==
    /\ RejectMatches(r)
    /\ WriteVersion(r.entry, r.version, Rejected(r))
    /\ Answer(r)
    /\ UNCHANGED <<servers, changes>>

\* Conditional on published_at only: the CHECK constraint is what refuses a
\* version that is pending or rejected.
PublishMatches(r) ==
    /\ r.op = "publish_version"
    /\ versions[r.entry][r.version].reviewState # "absent"
    /\ ~versions[r.entry][r.version].published

Published(r) == [versions[r.entry][r.version] EXCEPT !.published = TRUE]

PublishMCPServerVersion(r) ==
    /\ PublishMatches(r)
    /\ WriteVersion(r.entry, r.version, Published(r))
    /\ servers' = [servers EXCEPT ![r.entry].status = Promoted(@)]
    /\ Answer(r)
    /\ UNCHANGED changes

-----------------------------------------------------------------------------

VersionHandlers ==
    \E u \in Users, e \in Entries :
        \/ CreateServer(u, e)
        \/ \E r \in requests : ApproveVersion(r, e) \/ RejectVersion(r, e)
        \/ \E v \in Versions :
            \/ CreateVersion(u, e, v)
            \/ WithdrawVersion(u, e, v)
            \/ PublishVersion(u, e, v)
            \/ LoadVersion(u, e, v)
            \/ \E p \in BOOLEAN : SubmitVersion(u, e, v, p)

VersionStoreCalls ==
    \E r \in requests :
        \/ CreateMCPServerVersion(r)
        \/ SubmitMCPVersion(r)
        \/ WithdrawMCPVersion(r)
        \/ ApproveMCPVersion(r)
        \/ RejectMCPVersion(r)
        \/ PublishMCPServerVersion(r)

=============================================================================
