------------------------------ MODULE Registry ------------------------------
(***************************************************************************)
(* The review workflow as a whole: version review, entry changes and       *)
(* deletion running against the same tables, with any number of requests   *)
(* between their read and their write.                                     *)
(***************************************************************************)
EXTENDS VersionReview, EntryChange, EntryDeletion

\* Any request can end without effect.
Errors == \E r \in requests : Fail(r)

VersionNext == VersionHandlers \/ VersionStoreCalls
ChangeNext == ChangeHandlers \/ ChangeStoreCalls
DeletionNext == DeletionHandlers \/ DeletionStoreCalls

Next == VersionNext \/ ChangeNext \/ DeletionNext \/ Errors

Spec == Init /\ [][Next]_vars

\* Parts of the workflow, for runs that explore them with more versions or
\* queued changes than the whole can be explored with.
ReviewSpec == Init /\ [][VersionNext \/ DeletionNext \/ Errors]_vars
ChangeSpec == Init /\ [][VersionNext \/ ChangeNext \/ Errors]_vars

-----------------------------------------------------------------------------
(* Invariants                                                              *)

\* An entry is public, published or deprecated only once one of its versions
\* has been published: whatever mix of queued and immediate changes, approvals
\* and late requests led there, no unreviewed draft reaches the catalogue
\* (SetVisibility in handlers/visibility.go: "you cannot publish an unreviewed
\* draft to the public catalog").
PublicEntryHasPublishedVersion ==
    \A e \in Entries :
        (servers[e].visibility = "public" \/ servers[e].status \in {"published", "deprecated"})
            => HasPublished(e)

\* Signed off by someone else than its submitter, or by a Server Admin.
ApprovedByAnother(row) ==
    row.reviewedBy \in ServerAdmins \/ row.reviewedBy \notin {None, row.submittedBy}

\* Four eyes (refuseSelfApproval): a published version that carries a submission
\* and an approved change were signed off by someone else than the submitter or
\* by a Server Admin, however submissions, withdrawals, rejections, direct
\* publications and decisions of several users interleave.
FourEyes ==
    /\ \A e \in Entries, v \in Versions :
        LET row == versions[e][v] IN
        row.published /\ row.submittedBy # None => ApprovedByAnother(row)
    /\ \A c \in Changes : changes[c].state = "approved" => ApprovedByAnother(changes[c])

\* The review queue never offers two pending versions or two pending changes of
\* one entry: the handlers find the change to decide by its entry alone
\* (GetPendingEntryChange).
OneAtATime ==
    \A e \in Entries :
        /\ \A v, w \in Versions : Pending(e, v) /\ Pending(e, w) => v = w
        /\ \A c, d \in Changes : PendingChange(e, c) /\ PendingChange(e, d) => c = d

\* The inductive invariant behind PublicEntryHasPublishedVersion and FourEyes,
\* row by row.  A mutation that would release its entry, in flight or in the
\* queue, was accepted after a version was published; only a version that is
\* or was under review names a submitter; a published one is not under review.
MayRelease(e, m) == m = [action |-> "visibility", visibility |-> "public"] => HasPublished(e)

ServerOK(e) ==
    (servers[e].visibility = "public" \/ servers[e].status \in {"published", "deprecated"})
        => HasPublished(e)

VersionOK(row) ==
    /\ row.published => row.reviewState = "none"
    /\ row.published /\ row.submittedBy # None => ApprovedByAnother(row)
    /\ ~row.published /\ row.reviewState \in {"absent", "none"} => row.submittedBy = None

ChangeOK(row) ==
    /\ row.state = "approved" => ApprovedByAnother(row)
    /\ row.state = "pending_review" => MayRelease(row.entry, row.mutation)

RequestOK(r) == r.op = "change_entry" => MayRelease(r.entry, r.mutation)

ReviewInv ==
    /\ TypeOK
    /\ \A e \in Entries : ServerOK(e)
    /\ \A e \in Entries, v \in Versions : VersionOK(versions[e][v])
    /\ \A c \in Changes : ChangeOK(changes[c])
    /\ \A r \in requests : RequestOK(r)

-----------------------------------------------------------------------------
(* Action properties                                                       *)

\* A published version is immutable: no late submit, withdrawal, decision or
\* second publish touches its row; only the deletion of the entry marks it.
PublishedImmutable ==
    [][\A e \in Entries, v \in Versions :
          versions[e][v].published =>
              versions'[e][v] \in {versions[e][v], [versions[e][v] EXCEPT !.status = "deleted"]}]_vars

\* Deletion is final: no request or queued change that was accepted while the
\* entry was live brings it back or writes its metadata.  Its visibility is not
\* covered: the visibility UPDATE has no condition on the status
\* (applyMCPVisibility), so that a late or queued one goes through on a deleted
\* row.  Nobody is shown it, see ImplementsCatalog.
DeletionIsFinal ==
    [][\A e \in Entries :
          servers[e].status = "deleted" =>
              /\ servers'[e].status = "deleted"
              /\ servers'[e].metadata = servers[e].metadata]_vars

\* What a mutation leaves behind on the entry's row.
TookEffect(row, m) ==
    CASE m.action = "visibility" -> row.visibility = m.visibility
      [] m.action = "deprecation" -> row.status = "deprecated"
      [] m.action = "undeprecation" -> row.status = "published"
      [] m.action = "metadata_edit" -> row.metadata = m.metadata /\ row.status # "deleted"

\* A change leaves the queue once, and is recorded as approved only in the step
\* that takes effect on the row it was submitted for.  A deprecation, an
\* undeprecation or an edit that does not fit the entry any more is refused
\* (ErrChangeNotApplicable) and stays pending; a change of the visibility takes
\* effect whatever has become of the entry, a deleted one included.
ApprovedChangeApplied ==
    [][\A c \in Changes :
          changes'[c].state # changes[c].state =>
              /\ changes[c].state \in {"absent", "pending_review"}
              /\ changes'[c].state = "approved" =>
                     TookEffect(servers'[changes[c].entry], changes[c].mutation)]_vars

\* An entry becomes public only by a decision of someone else than who asked
\* for it, or of a Server Admin: the approval of a pending version whose author
\* requested the release, or of a pending change; or at once by a Server Admin.
ReleaseIsReviewed ==
    [][\A e \in Entries :
          servers[e].visibility = "private" /\ servers'[e].visibility = "public" =>
              \/ \E v \in Versions :
                    /\ Pending(e, v) /\ versions[e][v].requestPublic
                    /\ versions'[e][v].published /\ ApprovedByAnother(versions'[e][v])
              \/ \E c \in Changes :
                    /\ PendingChange(e, c)
                    /\ changes'[c].state = "approved" /\ ApprovedByAnother(changes'[c])
              \/ \E r \in requests \ requests' :
                    r.op = "change_entry" /\ r.actor \in ServerAdmins]_vars

-----------------------------------------------------------------------------
(* Refinement                                                              *)

\* What an anonymous reader is shown of entry e.
Visible(e) ==
    IF Live(e) /\ servers[e].visibility = "public"
    THEN {v \in Versions : versions[e][v].published} ELSE {}

Removed == {e \in Entries : servers[e].status = "deleted"}

PublicCatalog == INSTANCE Catalog WITH
    shelf <- [e \in Entries |-> Visible(e)], removed <- Removed

\* What anonymous readers are shown behaves as the catalogue promises.
ImplementsCatalog == PublicCatalog!Spec

-----------------------------------------------------------------------------
(* What the documentation says, where the code differs                     *)

\* What is approved is what its reviewer loaded, the terms of a version as well
\* as the change of an entry: "a stale write gets a discriminated 409
\* (review-revision-mismatch)" (ARCHITECTURE.md).
StaleReviewRefused ==
    [][\A r \in requests \ requests' :
          /\ r.op = "approve_version" /\ versions' # versions =>
                 versions[r.entry][r.version].requestPublic = r.requestPublic
          /\ r.op = "approve_change" /\ changes' # changes => r.change = r.loaded]_vars

\* Why it is not refused: whatever was withdrawn, submitted again, decided or
\* applied since a reviewer read it, the revision of the row at the time of the
\* decision is the one that was read.  No statement increments the column, so
\* the conditions on it exclude nothing (store/review.go, store/entrychange.go).
RevisionAlwaysMatches ==
    \A r \in requests :
        /\ r.op \in {"approve_version", "reject_version"} =>
               versions[r.entry][r.version].revision = r.revision
        /\ r.op \in {"approve_change", "reject_change"} /\ r.change # None =>
               changes[r.change].revision = r.revision

=============================================================================
