--------------------------- MODULE RegistryProofs ---------------------------
(***************************************************************************)
(* Proofs about the review workflow, for any number of entries, versions,  *)
(* changes, users and requests in flight.                                  *)
(*                                                                         *)
(* ReviewInv is inductive.  A step either moves a request on (Accept,      *)
(* Continue, Fail), writes one row of versions, writes one row of servers, *)
(* writes one row of changes, or is the DELETE of a Server Admin; there is *)
(* one lemma for each way the tables can change, and one for each group of *)
(* actions that uses them.                                                 *)
(***************************************************************************)
EXTENDS ReviewConsole, TLAPS

-----------------------------------------------------------------------------
(* Requests                                                                *)

\* The operation of a request says which arguments it carries.
LEMMA RequestKinds ==
    ASSUME NEW r \in Request
    PROVE  /\ r.entry \in Entries
           /\ r.op \in {"create_version", "withdraw_version", "publish_version"}
                  => r \in VersionRequest
           /\ r.op = "submit_version" => r \in SubmitRequest
           /\ r.op \in {"read_version", "approve_version", "reject_version"}
                  => r \in VersionDecision
           /\ r.op = "change_entry" => r \in MutationRequest
           /\ r.op \in {"read_change", "approve_change", "reject_change"}
                  => r \in ChangeDecision
           /\ r.op = "withdraw_change" => r \in ChangeWithdrawal
           /\ r.op \in {"request_deletion", "approve_deletion"} => r \in DeletionReview
           /\ r.op \in {"reject_deletion", "delete_server"} => r \in Deletion
BY DEF Request, VersionRequest, SubmitRequest, VersionDecision, MutationRequest,
       ChangeDecision, ChangeWithdrawal, DeletionReview, Deletion

-----------------------------------------------------------------------------
(* Requests that move on: the tables do not change                         *)

\* A step that leaves the tables alone and adds only requests that are right.
LEMMA RequestStep ==
    ASSUME ReviewInv, UNCHANGED tables,
           \A r \in requests' \ requests : r \in Request /\ RequestOK(r)
    PROVE  ReviewInv'
<1>1. TypeOK'
  BY DEF ReviewInv, TypeOK, tables
<1>2. \A e \in Entries : HasPublished(e)' = HasPublished(e)
  BY DEF HasPublished, tables
<1>3. \A e \in Entries : ServerOK(e)'
  BY <1>2 DEF ReviewInv, ServerOK, tables
<1>4. \A e \in Entries, v \in Versions : VersionOK(versions[e][v])'
  BY DEF ReviewInv, VersionOK, ApprovedByAnother, tables
<1>5. \A c \in Changes : ChangeOK(changes[c])'
  <2> SUFFICES ASSUME NEW c \in Changes PROVE ChangeOK(changes[c])'
    OBVIOUS
  <2>1. changes[c].state = "pending_review" => changes[c].entry \in Entries
    BY DEF ReviewInv, TypeOK, ChangeRow, AbsentChange
  <2> QED
    BY <1>2, <2>1 DEF ReviewInv, ChangeOK, MayRelease, ApprovedByAnother, tables
<1>6. \A r \in requests' : RequestOK(r)'
  <2> SUFFICES ASSUME NEW r \in requests' PROVE RequestOK(r)'
    OBVIOUS
  <2>1. r \in Request /\ RequestOK(r)
    BY <1>1 DEF ReviewInv, TypeOK
  <2>2. r.entry \in Entries
    BY <2>1, RequestKinds
  <2> QED
    BY <1>2, <2>1, <2>2 DEF RequestOK, MayRelease
<1> QED
  BY <1>1, <1>3, <1>4, <1>5, <1>6 DEF ReviewInv

\* Writes of versions and servers: HasPublished is never lost, what is written
\* is right, and no request is new.
LEMMA TableStep ==
    ASSUME ReviewInv,
           requests' \subseteq requests,
           servers' \in [Entries -> ServerRow],
           versions' \in [Entries -> [Versions -> VersionRow]],
           changes' \in [Changes -> ChangeRow],
           \A e \in Entries, v \in Versions : versions[e][v].published => versions'[e][v].published,
           \A e \in Entries : servers'[e] = servers[e] \/ ServerOK(e)',
           \A e \in Entries, v \in Versions : VersionOK(versions[e][v])',
           \A c \in Changes :
               \/ changes'[c] = changes[c]
               \/ /\ changes'[c].state = "approved" => ApprovedByAnother(changes'[c])
                  /\ changes'[c].state = "pending_review"
                         => MayRelease(changes'[c].entry, changes'[c].mutation)
    PROVE  ReviewInv'
<1>1. TypeOK'
  BY DEF ReviewInv, TypeOK
<1>2. \A e \in Entries : HasPublished(e) => HasPublished(e)'
  BY DEF HasPublished
<1>3. \A c \in Changes : ChangeOK(changes[c])'
  <2> SUFFICES ASSUME NEW c \in Changes PROVE ChangeOK(changes[c])'
    OBVIOUS
  <2>1. changes'[c].state = "pending_review" => changes'[c].entry \in Entries
    BY DEF ChangeRow, AbsentChange
  <2>2. CASE changes'[c] = changes[c]
    BY <1>2, <2>1, <2>2 DEF ReviewInv, ChangeOK, MayRelease, ApprovedByAnother
  <2>3. CASE changes'[c] # changes[c]
    BY <1>2, <2>1, <2>3 DEF ChangeOK, MayRelease, ApprovedByAnother
  <2> QED
    BY <2>2, <2>3
<1>4. \A r \in requests' : RequestOK(r)'
  <2> SUFFICES ASSUME NEW r \in requests' PROVE RequestOK(r)'
    OBVIOUS
  <2>1. RequestOK(r) /\ r.entry \in Entries
    BY RequestKinds DEF ReviewInv, TypeOK
  <2> QED
    BY <1>2, <2>1 DEF RequestOK, MayRelease
<1>5. \A e \in Entries : ServerOK(e)'
  BY <1>2 DEF ReviewInv, ServerOK
<1> QED
  BY <1>1, <1>3, <1>4, <1>5 DEF ReviewInv

\* A write of one version row.
LEMMA VersionStep ==
    ASSUME ReviewInv,
           NEW e \in Entries, NEW v \in Versions, NEW row \in VersionRow,
           WriteVersion(e, v, row),
           VersionOK(row),
           versions[e][v].published => row.published,
           servers' \in [Entries -> ServerRow],
           \A f \in Entries : servers'[f] = servers[f] \/ (f = e /\ row.published),
           UNCHANGED changes,
           requests' \subseteq requests
    PROVE  ReviewInv'
<1>1. versions' = [versions EXCEPT ![e][v] = row]
  BY DEF WriteVersion
<1>2. versions \in [Entries -> [Versions -> VersionRow]] /\ changes \in [Changes -> ChangeRow]
  BY DEF ReviewInv, TypeOK
<1>3. versions' \in [Entries -> [Versions -> VersionRow]]
  BY <1>1, <1>2
<1>4. \A f \in Entries, w \in Versions :
          versions'[f][w] = IF f = e /\ w = v THEN row ELSE versions[f][w]
  BY <1>1, <1>2
<1>5. \A f \in Entries, w \in Versions : VersionOK(versions[f][w])'
  <2> SUFFICES ASSUME NEW f \in Entries, NEW w \in Versions PROVE VersionOK(versions[f][w])'
    OBVIOUS
  <2>1. VersionOK(versions[f][w])
    BY DEF ReviewInv
  <2> QED
    BY <1>4, <2>1 DEF VersionOK, ApprovedByAnother
<1>6. \A f \in Entries : servers'[f] = servers[f] \/ ServerOK(f)'
  BY <1>4 DEF ServerOK, HasPublished
<1> QED
  BY <1>2, <1>3, <1>4, <1>5, <1>6, TableStep

\* Writes of servers alone.
LEMMA ServerStep ==
    ASSUME ReviewInv,
           servers' \in [Entries -> ServerRow],
           \A e \in Entries : servers'[e] = servers[e] \/ ServerOK(e)',
           UNCHANGED <<versions, changes>>,
           requests' \subseteq requests
    PROVE  ReviewInv'
<1>1. /\ versions \in [Entries -> [Versions -> VersionRow]]
      /\ changes \in [Changes -> ChangeRow]
      /\ \A e \in Entries, v \in Versions : VersionOK(versions[e][v])
  BY DEF ReviewInv, TypeOK
<1>2. \A e \in Entries, v \in Versions : VersionOK(versions[e][v])'
  BY <1>1 DEF VersionOK, ApprovedByAnother
<1> QED
  BY <1>1, <1>2, TableStep

\* A write of one change, and of servers.
LEMMA ChangeStep ==
    ASSUME ReviewInv,
           NEW c \in Changes, NEW row \in ChangeRow,
           changes' = [changes EXCEPT ![c] = row],
           row.state = "approved" => ApprovedByAnother(row),
           row.state = "pending_review" => MayRelease(row.entry, row.mutation),
           servers' \in [Entries -> ServerRow],
           \A e \in Entries : servers'[e] = servers[e] \/ ServerOK(e)',
           UNCHANGED versions,
           requests' \subseteq requests
    PROVE  ReviewInv'
<1>1. /\ versions \in [Entries -> [Versions -> VersionRow]]
      /\ changes \in [Changes -> ChangeRow]
      /\ \A e \in Entries, v \in Versions : VersionOK(versions[e][v])
  BY DEF ReviewInv, TypeOK
<1>2. \A e \in Entries, v \in Versions : VersionOK(versions[e][v])'
  BY <1>1 DEF VersionOK, ApprovedByAnother
<1>3. \A d \in Changes :
          \/ changes'[d] = changes[d]
          \/ /\ changes'[d].state = "approved" => ApprovedByAnother(changes'[d])
             /\ changes'[d].state = "pending_review"
                    => MayRelease(changes'[d].entry, changes'[d].mutation)
  BY <1>1
<1>4. changes' \in [Changes -> ChangeRow]
  BY <1>1
<1> QED
  BY <1>1, <1>2, <1>3, <1>4, TableStep

-----------------------------------------------------------------------------
(* The initial state and the actions                                       *)

\* The empty tables are right.
LEMMA InitInv == Init => ReviewInv
<1> SUFFICES ASSUME Init PROVE ReviewInv
  OBVIOUS
<1>1. AbsentServer \in ServerRow
  BY BlankAssumption DEF AbsentServer, ServerRow, Statuses, Visibilities, Metadata
<1>2. AbsentVersion \in VersionRow
  BY DEF AbsentVersion, VersionRow, ReviewStates
<1>3. TypeOK
  BY <1>1, <1>2 DEF Init, TypeOK, ChangeRow
<1>4. \A e \in Entries : ServerOK(e)
  BY DEF Init, ServerOK, AbsentServer
<1>5. \A e \in Entries, v \in Versions : VersionOK(versions[e][v])
  BY DEF Init, VersionOK, AbsentVersion
<1>6. \A c \in Changes : ChangeOK(changes[c])
  BY DEF Init, ChangeOK, AbsentChange
<1> QED
  BY <1>3, <1>4, <1>5, <1>6 DEF ReviewInv, Init

\* A handler that lets a right request through.
LEMMA AcceptStep ==
    ASSUME ReviewInv, NEW r \in Request, RequestOK(r), Accept(r)
    PROVE  ReviewInv'
BY RequestStep DEF Accept

\* A request that gets to its next step.
LEMMA ContinueStep ==
    ASSUME ReviewInv, NEW r, NEW next \in Request, RequestOK(next), Continue(r, next)
    PROVE  ReviewInv'
BY RequestStep DEF Continue

\* A request that ends without effect.
LEMMA FailStep ==
    ASSUME ReviewInv, NEW r, Fail(r)
    PROVE  ReviewInv'
BY RequestStep DEF Fail, Answer

\* The version endpoints, before their store calls.
LEMMA VersionHandlersInv ==
    ASSUME ReviewInv, VersionHandlers
    PROVE  ReviewInv'
<1> PICK u \in Users, e \in Entries :
        \/ CreateServer(u, e)
        \/ \E r \in requests : ApproveVersion(r, e) \/ RejectVersion(r, e)
        \/ \E v \in Versions :
            \/ CreateVersion(u, e, v)
            \/ WithdrawVersion(u, e, v)
            \/ PublishVersion(u, e, v)
            \/ LoadVersion(u, e, v)
            \/ \E p \in BOOLEAN : SubmitVersion(u, e, v, p)
  BY DEF VersionHandlers
<1>1. CASE CreateServer(u, e)
  <2>1. servers \in [Entries -> ServerRow] /\ ServerOK(e)
    BY DEF ReviewInv, TypeOK
  <2>2. servers' = [servers EXCEPT ![e].status = "draft"]
    BY <1>1 DEF CreateServer
  <2>3. servers' \in [Entries -> ServerRow]
    BY <2>1, <2>2 DEF ServerRow, Statuses
  <2>4. \A f \in Entries : servers'[f] = servers[f] \/ ServerOK(f)'
    BY <1>1, <2>1, <2>2 DEF CreateServer, ServerOK, HasPublished, ServerRow
  <2> QED
    BY <1>1, <2>3, <2>4, ServerStep DEF CreateServer
<1>2. ASSUME NEW r \in requests, ApproveVersion(r, e) \/ RejectVersion(r, e)
      PROVE  ReviewInv'
  <2>1. r \in VersionDecision
    BY <1>2, RequestKinds DEF ReviewInv, TypeOK, ApproveVersion, RejectVersion, RejectAllowed
  <2>2. ASSUME NEW op \in {"approve_version", "reject_version"}
        PROVE  /\ [r EXCEPT !.op = op, !.entry = e] \in Request
               /\ RequestOK([r EXCEPT !.op = op, !.entry = e])
    BY <2>1 DEF VersionDecision, Request, RequestOK
  <2> QED
    BY <1>2, <2>2, ContinueStep DEF ApproveVersion, RejectVersion
<1>3. ASSUME NEW v \in Versions, CreateVersion(u, e, v) \/ WithdrawVersion(u, e, v)
                                     \/ PublishVersion(u, e, v)
      PROVE  ReviewInv'
  <2>1. ASSUME NEW op \in {"create_version", "withdraw_version", "publish_version"}
        PROVE  /\ [op |-> op, entry |-> e, version |-> v] \in Request
               /\ RequestOK([op |-> op, entry |-> e, version |-> v])
    BY <2>1 DEF VersionRequest, Request, RequestOK
  <2> QED
    BY <1>3, <2>1, AcceptStep DEF CreateVersion, WithdrawVersion, PublishVersion
<1>4. ASSUME NEW v \in Versions, LoadVersion(u, e, v)
      PROVE  ReviewInv'
  <2> DEFINE r == [op |-> "read_version", actor |-> u, entry |-> e, version |-> v,
                   revision |-> versions[e][v].revision,
                   requestPublic |-> versions[e][v].requestPublic]
  <2>1. versions[e][v] \in VersionRow
    BY <1>4 DEF ReviewInv, TypeOK
  <2>2. r \in Request /\ RequestOK(r)
    BY <2>1 DEF VersionRow, VersionDecision, Request, RequestOK
  <2> QED
    BY <1>4, <2>2, AcceptStep DEF LoadVersion
<1>5. ASSUME NEW v \in Versions, NEW p \in BOOLEAN, SubmitVersion(u, e, v, p)
      PROVE  ReviewInv'
  <2> DEFINE r == [op |-> "submit_version", actor |-> u, entry |-> e, version |-> v,
                   requestPublic |-> p]
  <2>1. r \in Request /\ RequestOK(r)
    BY DEF SubmitRequest, Request, RequestOK
  <2> QED
    BY <1>5, <2>1, AcceptStep DEF SubmitVersion
<1> QED
  BY <1>1, <1>2, <1>3, <1>4, <1>5

\* The conditional writes of versions: one step per store call.
LEMMA VersionStoreCallsInv ==
    ASSUME ReviewInv, VersionStoreCalls
    PROVE  ReviewInv'
<1> PICK r \in requests :
        \/ CreateMCPServerVersion(r)
        \/ SubmitMCPVersion(r)
        \/ WithdrawMCPVersion(r)
        \/ ApproveMCPVersion(r)
        \/ RejectMCPVersion(r)
        \/ PublishMCPServerVersion(r)
  BY DEF VersionStoreCalls
<1> DEFINE e == r.entry
           v == r.version
           old == versions[e][v]
<1>1. r \in Request /\ e \in Entries /\ servers \in [Entries -> ServerRow]
  BY RequestKinds DEF ReviewInv, TypeOK
<1>2. r.op \in {"create_version", "withdraw_version", "publish_version", "submit_version",
                "approve_version", "reject_version"}
  BY DEF CreateMCPServerVersion, SubmitMCPVersion, WithdrawMCPVersion, ApproveMCPVersion,
         RejectMCPVersion, PublishMCPServerVersion, SubmitMatches, Submitted, WithdrawMatches,
         Withdrawn, RejectMatches, Rejected, PublishMatches, Published
<1>3. v \in Versions
  BY <1>1, <1>2, RequestKinds DEF VersionRequest, SubmitRequest, VersionDecision
<1>4. r.op \in {"submit_version", "approve_version", "reject_version"} => r.actor \in Users
  BY <1>1, RequestKinds DEF SubmitRequest, VersionDecision
<1>5. r.op = "submit_version" => r.requestPublic \in BOOLEAN
  BY <1>1, RequestKinds DEF SubmitRequest
<1>6. old \in VersionRow /\ VersionOK(old)
  BY <1>1, <1>3 DEF ReviewInv, TypeOK
<1>7. None \notin Users
  BY RolesAssumption
<1> HIDE DEF e, v, old
<1>a. CASE CreateMCPServerVersion(r)
  <2> DEFINE row == [AbsentVersion EXCEPT !.reviewState = "none"]
  <2>1. WriteVersion(e, v, row) /\ old.reviewState = "absent"
    BY <1>a DEF CreateMCPServerVersion, e, v, old
  <2>2. row \in VersionRow /\ VersionOK(row) /\ (old.published => row.published)
    BY <1>6, <2>1 DEF AbsentVersion, VersionRow, ReviewStates, VersionOK
  <2> QED
    BY <1>1, <1>3, <1>a, <2>1, <2>2, VersionStep DEF CreateMCPServerVersion, Answer, old
<1>b. CASE SubmitMCPVersion(r)
  <2> DEFINE row == [old EXCEPT !.reviewState = "pending_review", !.submittedBy = r.actor,
                                !.requestPublic = r.requestPublic]
  <2>1. WriteVersion(e, v, row) /\ ~old.published /\ r.op = "submit_version"
    BY <1>b DEF SubmitMCPVersion, e, v, old, SubmitMatches, Submitted
  <2>2. row \in VersionRow
    BY <1>4, <1>5, <1>6, <2>1 DEF VersionRow, ReviewStates
  <2>3. VersionOK(row)
    BY <1>6, <2>1 DEF VersionRow, VersionOK
  <2> QED
    BY <1>1, <1>3, <1>b, <2>1, <2>2, <2>3, VersionStep DEF SubmitMCPVersion, Answer, old
<1>c. CASE WithdrawMCPVersion(r)
  <2> DEFINE row == [old EXCEPT !.reviewState = "none", !.submittedBy = None,
                                !.requestPublic = FALSE]
  <2>1. WriteVersion(e, v, row) /\ old.reviewState = "pending_review"
    BY <1>c DEF WithdrawMCPVersion, Pending, e, v, old, WithdrawMatches, Withdrawn
  <2>2. row \in VersionRow
    BY <1>6 DEF VersionRow, ReviewStates
  <2>3. VersionOK(row) /\ ~old.published
    BY <1>6, <2>1 DEF VersionRow, VersionOK
  <2> QED
    BY <1>1, <1>3, <1>c, <2>1, <2>2, <2>3, VersionStep DEF WithdrawMCPVersion, Answer, old
<1>d. CASE ApproveMCPVersion(r)
  <2> DEFINE row == [old EXCEPT !.reviewState = "none", !.reviewedBy = r.actor, !.published = TRUE]
  <2>1. /\ WriteVersion(e, v, row)
        /\ ~SelfApproval(old.submittedBy, r.actor)
        /\ r.op = "approve_version"
        /\ servers' = [servers EXCEPT
               ![e].status = Promoted(@),
               ![e].visibility = IF old.requestPublic THEN "public" ELSE @]
    BY <1>d DEF ApproveMCPVersion, e, v, old
  <2>2. row \in VersionRow
    BY <1>4, <1>6, <2>1 DEF VersionRow, ReviewStates
  <2>3. VersionOK(row) /\ row.published
    BY <1>4, <1>6, <1>7, <2>1 DEF VersionRow, VersionOK, ApprovedByAnother, SelfApproval
  <2>4. servers' \in [Entries -> ServerRow]
    <3> DEFINE new == [servers[e] EXCEPT !.status = Promoted(@),
                           !.visibility = IF old.requestPublic THEN "public" ELSE @]
    <3>1. new \in ServerRow
      BY <1>1 DEF ServerRow, Promoted, Statuses, Visibilities
    <3>2. servers' = [servers EXCEPT ![e] = new]
      BY <1>1, <2>1, Zenon
    <3> QED
      BY <1>1, <3>1, <3>2
  <2>5. \A f \in Entries : servers'[f] = servers[f] \/ f = e
    BY <1>1, <2>1
  <2> QED
    BY <1>1, <1>3, <1>d, <2>1, <2>2, <2>3, <2>4, <2>5, VersionStep
       DEF ApproveMCPVersion, Answer, old
<1>e. CASE RejectMCPVersion(r)
  <2> DEFINE row == [old EXCEPT !.reviewState = "rejected", !.reviewedBy = r.actor]
  <2>1. WriteVersion(e, v, row) /\ old.reviewState = "pending_review" /\ r.op = "reject_version"
    BY <1>e DEF RejectMCPVersion, Pending, e, v, old, RejectMatches, Rejected
  <2>2. row \in VersionRow
    BY <1>4, <1>6, <2>1 DEF VersionRow, ReviewStates
  <2>3. VersionOK(row) /\ ~old.published
    BY <1>6, <2>1 DEF VersionRow, VersionOK
  <2> QED
    BY <1>1, <1>3, <1>e, <2>1, <2>2, <2>3, VersionStep DEF RejectMCPVersion, Answer, old
<1>f. CASE PublishMCPServerVersion(r)
  <2> DEFINE row == [old EXCEPT !.published = TRUE]
  <2>1. /\ WriteVersion(e, v, row)
        /\ ~old.published
        /\ servers' = [servers EXCEPT ![e].status = Promoted(@)]
    BY <1>f DEF PublishMCPServerVersion, e, v, old, PublishMatches, Published
  <2>2. row \in VersionRow /\ row.published
    BY <1>6 DEF VersionRow
  <2>3. VersionOK(row)
    BY <1>6, <2>1, <2>2 DEF VersionRow, VersionOK, WriteVersion, ReviewUnpublishedChk, RowAccepted
  <2>4. servers' \in [Entries -> ServerRow]
    BY <1>1, <2>1 DEF ServerRow, Promoted, Statuses
  <2>5. \A f \in Entries : servers'[f] = servers[f] \/ f = e
    BY <1>1, <2>1
  <2> QED
    BY <1>1, <1>3, <1>f, <2>1, <2>2, <2>3, <2>4, <2>5, VersionStep
       DEF PublishMCPServerVersion, Answer, old
<1> QED
  BY <1>a, <1>b, <1>c, <1>d, <1>e, <1>f

\* A mutation that cannot release a draft may be accepted.
LEMMA AcceptMutationStep ==
    ASSUME ReviewInv, NEW u \in Users, NEW e \in Entries, NEW m \in Mutation,
           MayRelease(e, m), AcceptMutation(u, e, m)
    PROVE  ReviewInv'
<1> DEFINE r == [op |-> "change_entry", actor |-> u, entry |-> e, mutation |-> m]
<1>1. r \in Request /\ RequestOK(r)
  BY DEF MutationRequest, Request, RequestOK
<1> QED
  BY <1>1, AcceptStep DEF AcceptMutation

\* The entry mutation endpoints: SetVisibility is where MayRelease is
\* established, from the status the handler has just read.
LEMMA ChangeHandlersInv ==
    ASSUME ReviewInv, ChangeHandlers
    PROVE  ReviewInv'
<1> PICK u \in Users, e \in Entries :
        \/ \E vis \in Visibilities : SetVisibility(u, e, vis)
        \/ DeprecateServer(u, e)
        \/ UndeprecateServer(u, e)
        \/ \E fs \in SUBSET Fields, x \in FieldValues : PatchServer(u, e, fs, x)
        \/ \E c \in Changes : LoadChange(u, e, c)
        \/ \E r \in requests : ApproveMCPChange(r, e) \/ RejectMCPChange(r, e)
        \/ WithdrawMCPChange(u, e)
  BY DEF ChangeHandlers
<1>1. ASSUME NEW vis \in Visibilities, SetVisibility(u, e, vis)
      PROVE  ReviewInv'
  <2> DEFINE m == [action |-> "visibility", visibility |-> vis]
  <2>1. m \in Mutation
    BY DEF Mutation
  <2>2. MayRelease(e, m)
    BY <1>1 DEF SetVisibility, MayRelease, ReviewInv, ServerOK, VisibilityAllowed
  <2> QED
    BY <1>1, <2>1, <2>2, AcceptMutationStep DEF SetVisibility
<1>2. CASE DeprecateServer(u, e) \/ UndeprecateServer(u, e)
  <2>1. ASSUME NEW a \in {"deprecation", "undeprecation"}
        PROVE  [action |-> a] \in Mutation /\ MayRelease(e, [action |-> a])
    <3>1. [action |-> a] # [action |-> "visibility", visibility |-> "public"]
      <4>1. [action |-> a].action # [action |-> "visibility", visibility |-> "public"].action
        OBVIOUS
      <4> QED
        BY <4>1, Zenon
    <3> QED
      BY <3>1 DEF Mutation, MayRelease
  <2> QED
    BY <1>2, <2>1, AcceptMutationStep DEF DeprecateServer, UndeprecateServer
<1>3. ASSUME NEW fs \in SUBSET Fields, NEW x \in FieldValues, PatchServer(u, e, fs, x)
      PROVE  ReviewInv'
  <2> DEFINE md == [f \in Fields |-> IF f \in fs THEN x ELSE servers[e].metadata[f]]
             m == [action |-> "metadata_edit", edits |-> fs, metadata |-> md]
  <2>1. servers[e].metadata \in Metadata
    BY DEF ReviewInv, TypeOK, ServerRow
  <2>2. md \in Metadata
    BY <2>1 DEF Metadata
  <2> HIDE DEF md
  <2>3. m \in Mutation
    BY <2>2 DEF Mutation
  <2>4. MayRelease(e, m)
    <3>1. m.action # [action |-> "visibility", visibility |-> "public"].action
      OBVIOUS
    <3> HIDE DEF m
    <3> QED
      BY <3>1, Zenon DEF MayRelease
  <2> QED
    BY <1>3, <2>3, <2>4, AcceptMutationStep DEF PatchServer, md
<1>4. ASSUME NEW c \in Changes, LoadChange(u, e, c)
      PROVE  ReviewInv'
  <2> DEFINE r == [op |-> "read_change", actor |-> u, entry |-> e, loaded |-> c,
                   revision |-> changes[c].revision, change |-> None]
  <2>1. changes[c].revision \in Nat
    BY DEF ReviewInv, TypeOK, ChangeRow, AbsentChange
  <2>2. r \in Request /\ RequestOK(r)
    BY <2>1 DEF ChangeDecision, Request, RequestOK
  <2> QED
    BY <1>4, <2>2, AcceptStep DEF LoadChange
<1>5. ASSUME NEW r \in requests, ApproveMCPChange(r, e) \/ RejectMCPChange(r, e)
      PROVE  ReviewInv'
  <2>1. r \in ChangeDecision
    BY <1>5, RequestKinds DEF ReviewInv, TypeOK, ApproveMCPChange, RejectMCPChange,
           RejectChangeAllowed
  <2>2. ASSUME NEW op \in {"approve_change", "reject_change"}
        PROVE  /\ [r EXCEPT !.op = op, !.entry = e] \in Request
               /\ RequestOK([r EXCEPT !.op = op, !.entry = e])
    BY <2>1 DEF ChangeDecision, Request, RequestOK
  <2> QED
    BY <1>5, <2>2, ContinueStep DEF ApproveMCPChange, RejectMCPChange
<1>6. CASE WithdrawMCPChange(u, e)
  <2> DEFINE r == [op |-> "withdraw_change", entry |-> e, change |-> None]
  <2>1. r \in Request /\ RequestOK(r)
    BY DEF ChangeWithdrawal, Request, RequestOK
  <2> QED
    BY <1>6, <2>1, AcceptStep DEF WithdrawMCPChange
<1> QED
  BY <1>1, <1>2, <1>3, <1>4, <1>5, <1>6

\* Applying an applicable mutation keeps the entry's row right.
LEMMA ApplyStep ==
    ASSUME ReviewInv, NEW e \in Entries, NEW m \in Mutation,
           MayRelease(e, m), Applicable(servers[e], m),
           servers' = [servers EXCEPT ![e] = Applied(@, m)],
           UNCHANGED versions
    PROVE  /\ servers' \in [Entries -> ServerRow]
           /\ \A f \in Entries : servers'[f] = servers[f] \/ ServerOK(f)'
<1> DEFINE old == servers[e]
           new == Applied(old, m)
<1>1. servers \in [Entries -> ServerRow] /\ old \in ServerRow /\ ServerOK(e)
  BY DEF ReviewInv, TypeOK
<1>2. servers' = [servers EXCEPT ![e] = new]
  OBVIOUS
<1>3. HasPublished(e)' = HasPublished(e)
  BY DEF HasPublished
<1>4. /\ new \in ServerRow
      /\ new.visibility = "public" \/ new.status \in {"published", "deprecated"}
             => HasPublished(e)
  <2>1. CASE m.action = "visibility"
    <3>1. new = [old EXCEPT !.visibility = m.visibility]
      BY <2>1 DEF Applied
    <3>2. m = [action |-> "visibility", visibility |-> m.visibility]
          /\ m.visibility \in Visibilities
      BY <2>1 DEF Mutation
    <3> HIDE DEF new, old
    <3>3. new \in ServerRow /\ new.visibility = m.visibility /\ new.status = old.status
      BY <1>1, <3>1, <3>2 DEF ServerRow
    <3> QED
      BY <1>1, <3>2, <3>3 DEF MayRelease, ServerOK, old
  <2>2. CASE m.action = "deprecation"
    <3>1. new = [old EXCEPT !.status = "deprecated"] /\ old.status = "published"
      BY <2>2 DEF Applied, Applicable
    <3> QED
      BY <1>1, <3>1 DEF ServerRow, Statuses, ServerOK
  <2>3. CASE m.action = "undeprecation"
    <3>1. new = [old EXCEPT !.status = "published"] /\ old.status = "deprecated"
      BY <2>3 DEF Applied, Applicable
    <3> QED
      BY <1>1, <3>1 DEF ServerRow, Statuses, ServerOK
  <2>4. CASE m.action = "metadata_edit"
    <3>1. new = [old EXCEPT !.metadata = m.metadata] /\ m.metadata \in Metadata
      BY <2>4 DEF Applied, Mutation
    <3> QED
      BY <1>1, <3>1 DEF ServerRow, ServerOK
  <2> QED
    BY <2>1, <2>2, <2>3, <2>4 DEF Mutation
<1> HIDE DEF new
<1> QED
  BY <1>1, <1>2, <1>3, <1>4 DEF ServerOK

\* A decision fills in the change's row.
LEMMA DecidedChange ==
    ASSUME NEW old \in ChangeRow, old.state = "pending_review",
           NEW s \in {"approved", "rejected"}, NEW u \in Users
    PROVE  /\ Decided(old, s, u) \in ChangeRow
           /\ Decided(old, s, u).state = s
           /\ Decided(old, s, u).reviewedBy = u
           /\ Decided(old, s, u).submittedBy = old.submittedBy
<1> DEFINE Rows == [state : {"pending_review", "approved", "rejected", "withdrawn"},
                    entry : Entries, mutation : Mutation, revision : Nat,
                    submittedBy : Users, reviewedBy : Users \cup {None}]
<1>1. old \in Rows
  BY DEF ChangeRow, AbsentChange
<1>2. [old EXCEPT !.state = s] \in Rows
  BY <1>1
<1>3. Decided(old, s, u) \in Rows
  BY <1>1, <1>2 DEF Decided
<1> QED
  BY <1>1, <1>3 DEF ChangeRow, Decided

\* The store calls of entry changes, queued and immediate.
LEMMA ChangeStoreCallsInv ==
    ASSUME ReviewInv, ChangeStoreCalls
    PROVE  ReviewInv'
<1> PICK r \in requests :
        \/ \E c \in Changes : GetPendingEntryChange(r, c) \/ CreateEntryChangeRequest(r, c)
        \/ ApplyNow(r)
        \/ ApproveEntryChangeRequest(r)
        \/ RejectEntryChangeRequest(r)
        \/ WithdrawEntryChangeRequest(r)
  BY DEF ChangeStoreCalls
<1>1. r \in Request /\ r.entry \in Entries /\ RequestOK(r)
  BY RequestKinds DEF ReviewInv, TypeOK
<1>2. servers \in [Entries -> ServerRow] /\ changes \in [Changes -> ChangeRow]
  BY DEF ReviewInv, TypeOK
<1>3. r.op = "change_entry" => /\ r.actor \in Users
                               /\ r.mutation \in Mutation
                               /\ MayRelease(r.entry, r.mutation)
  BY <1>1, RequestKinds DEF MutationRequest, RequestOK
<1>4. /\ r.op \in {"approve_change", "reject_change"} => r.actor \in Users
      /\ r.op \in {"approve_change", "reject_change", "withdraw_change"} /\ r.change # None
             => r.change \in Changes
  BY <1>1, RequestKinds DEF ChangeDecision, ChangeWithdrawal
<1>5. None \notin Users
  BY RolesAssumption
<1>6. \A c \in Changes : changes[c].state # "absent" =>
          /\ changes[c].entry \in Entries
          /\ changes[c].mutation \in Mutation
          /\ changes[c].submittedBy \in Users
  BY <1>2 DEF ChangeRow, AbsentChange
<1>a. ASSUME NEW c \in Changes, GetPendingEntryChange(r, c)
      PROVE  ReviewInv'
  <2>1. CASE r.op = "withdraw_change"
    <3>1. [r EXCEPT !.change = c] \in Request /\ RequestOK([r EXCEPT !.change = c])
      BY <1>1, <2>1, RequestKinds DEF ChangeWithdrawal, Request, RequestOK
    <3> QED
      BY <1>a, <3>1, ContinueStep DEF GetPendingEntryChange
  <2>2. CASE r.op \in {"approve_change", "reject_change"}
    <3>1. [r EXCEPT !.change = c] \in Request /\ RequestOK([r EXCEPT !.change = c])
      BY <1>1, <2>2, RequestKinds DEF ChangeDecision, Request, RequestOK
    <3> QED
      BY <1>a, <3>1, ContinueStep DEF GetPendingEntryChange
  <2> QED
    BY <1>a, <2>1, <2>2 DEF GetPendingEntryChange
<1>b. ASSUME NEW c \in Changes, CreateEntryChangeRequest(r, c)
      PROVE  ReviewInv'
  <2> DEFINE row == [state |-> "pending_review", entry |-> r.entry,
                     mutation |-> r.mutation, revision |-> 1, submittedBy |-> r.actor,
                     reviewedBy |-> None]
  <2>1. r.op = "change_entry" /\ changes' = [changes EXCEPT ![c] = row]
    BY <1>b DEF CreateEntryChangeRequest, Queues
  <2>2. row \in ChangeRow
    BY <1>1, <1>3, <2>1 DEF ChangeRow
  <2>3. row.state = "pending_review" => MayRelease(row.entry, row.mutation)
    BY <1>3, <2>1
  <2>4. UNCHANGED <<servers, versions>> /\ requests' \subseteq requests
    BY <1>b DEF CreateEntryChangeRequest, Answer
  <2> QED
    BY <1>2, <2>1, <2>2, <2>3, <2>4, ChangeStep
<1>c. CASE ApplyNow(r)
  <2>1. /\ r.op = "change_entry"
        /\ Applicable(servers[r.entry], r.mutation)
        /\ servers' = [servers EXCEPT ![r.entry] = Applied(@, r.mutation)]
        /\ UNCHANGED <<versions, changes>> /\ requests' \subseteq requests
    BY <1>c DEF ApplyNow, Answer, AppliesNow
  <2> QED
    BY <1>1, <1>3, <2>1, ApplyStep, ServerStep
<1>d. CASE ApproveEntryChangeRequest(r)
  <2> DEFINE c == r.change
             e == changes[c].entry
             m == changes[c].mutation
             row == Decided(changes[c], "approved", r.actor)
  <2>1. /\ r.op = "approve_change" /\ c # None
        /\ changes[c].state = "pending_review"
        /\ ~SelfApproval(changes[c].submittedBy, r.actor)
        /\ Applicable(servers[e], m)
        /\ servers' = [servers EXCEPT ![e] = Applied(@, m)]
        /\ UNCHANGED versions /\ requests' \subseteq requests
    BY <1>d DEF ApproveEntryChangeRequest, Answer
  <2>2. changes' = [changes EXCEPT ![c] = row]
    BY <1>d DEF ApproveEntryChangeRequest
  <2>3. c \in Changes /\ r.actor \in Users
    BY <1>4, <2>1
  <2>5. e \in Entries /\ m \in Mutation /\ MayRelease(e, m)
    BY <1>6, <2>1, <2>3 DEF ReviewInv, ChangeOK
  <2>6. /\ row \in ChangeRow /\ row.state = "approved"
        /\ row.reviewedBy = r.actor /\ row.submittedBy = changes[c].submittedBy
    BY <1>2, <2>1, <2>3, DecidedChange
  <2>7. ApprovedByAnother(row)
    BY <1>5, <2>1, <2>3, <2>6 DEF ApprovedByAnother, SelfApproval
  <2>8. /\ servers' \in [Entries -> ServerRow]
        /\ \A f \in Entries : servers'[f] = servers[f] \/ ServerOK(f)'
    BY <2>1, <2>5, ApplyStep
  <2> HIDE DEF row, c
  <2> QED
    BY <2>1, <2>2, <2>3, <2>6, <2>7, <2>8, ChangeStep
<1>e. CASE RejectEntryChangeRequest(r)
  <2> DEFINE c == r.change
             row == Decided(changes[c], "rejected", r.actor)
  <2>1. /\ r.op = "reject_change" /\ c # None
        /\ changes[c].state = "pending_review"
        /\ UNCHANGED <<servers, versions>> /\ requests' \subseteq requests
    BY <1>e DEF RejectEntryChangeRequest, Answer, RejectChangeMatches
  <2>2. changes' = [changes EXCEPT ![c] = row]
    BY <1>e DEF RejectEntryChangeRequest
  <2>3. c \in Changes /\ r.actor \in Users
    BY <1>4, <2>1
  <2>5. row \in ChangeRow /\ row.state = "rejected"
    BY <1>2, <2>1, <2>3, DecidedChange
  <2> HIDE DEF row, c
  <2> QED
    BY <1>2, <2>1, <2>2, <2>3, <2>5, ChangeStep
<1>f. CASE WithdrawEntryChangeRequest(r)
  <2> DEFINE c == r.change
             row == [changes[c] EXCEPT !.state = "withdrawn"]
  <2>1. /\ r.op = "withdraw_change" /\ c # None
        /\ changes[c].state = "pending_review"
        /\ UNCHANGED <<servers, versions>> /\ requests' \subseteq requests
        /\ changes' = [changes EXCEPT ![c] = row]
    BY <1>f, Zenon DEF WithdrawEntryChangeRequest, Answer, WithdrawChangeMatches
  <2>2. c \in Changes
    BY <1>4, <2>1
  <2>3. row \in ChangeRow /\ row.state = "withdrawn"
    BY <1>2, <2>1, <2>2 DEF ChangeRow, AbsentChange
  <2> HIDE DEF row, c
  <2> QED
    BY <1>2, <2>1, <2>2, <2>3, ChangeStep
<1> QED
  BY <1>a, <1>b, <1>c, <1>d, <1>e, <1>f

\* The deletion endpoints, before their store calls.
LEMMA DeletionHandlersInv ==
    ASSUME ReviewInv, DeletionHandlers
    PROVE  ReviewInv'
<1> PICK u \in Users, e \in Entries :
        \/ RequestDeletion(u, e)
        \/ ApproveDeletion(u, e)
        \/ RejectDeletion(u, e)
        \/ DeleteServer(u, e)
  BY DEF DeletionHandlers
<1>1. ASSUME NEW op \in {"request_deletion", "approve_deletion"}
      PROVE  /\ [op |-> op, actor |-> u, entry |-> e] \in Request
             /\ RequestOK([op |-> op, actor |-> u, entry |-> e])
  BY DEF DeletionReview, Request, RequestOK
<1>2. ASSUME NEW op \in {"reject_deletion", "delete_server"}
      PROVE  [op |-> op, entry |-> e] \in Request /\ RequestOK([op |-> op, entry |-> e])
  BY DEF Deletion, Request, RequestOK
<1> QED
  BY <1>1, <1>2, AcceptStep DEF RequestDeletion, ApproveDeletion, RejectDeletion, DeleteServer

\* The DELETE of a Server Admin marks the versions and drops what is pending.
LEMMA DeleteMCPServerInv ==
    ASSUME ReviewInv, NEW r \in requests, DeleteMCPServer(r)
    PROVE  ReviewInv'
<1> DEFINE e == r.entry
<1>1. r \in Request /\ e \in Entries
  BY RequestKinds DEF ReviewInv, TypeOK
<1>2. /\ servers \in [Entries -> ServerRow]
      /\ versions \in [Entries -> [Versions -> VersionRow]]
      /\ changes \in [Changes -> ChangeRow]
  BY DEF ReviewInv, TypeOK
<1>3. /\ servers' = [servers EXCEPT ![e].status = "deleted"]
      /\ versions' = [versions EXCEPT ![e] = [v \in Versions |-> Cancelled(versions[e][v])]]
      /\ changes' = [c \in Changes |-> IF PendingChange(e, c)
                                       THEN [changes[c] EXCEPT !.state = "withdrawn"]
                                       ELSE changes[c]]
      /\ requests' \subseteq requests
  BY DEF DeleteMCPServer, Answer
<1>4. ASSUME NEW row \in VersionRow, VersionOK(row)
      PROVE  /\ Cancelled(row) \in VersionRow
             /\ VersionOK(Cancelled(row))
             /\ row.published => Cancelled(row).published
  <2>1. CASE row.reviewState = "pending_review"
    <3>1. Cancelled(row) = [row EXCEPT !.status = "deleted", !.reviewState = "none",
                                       !.submittedBy = None]
      BY <2>1 DEF Cancelled
    <3>2. Cancelled(row) \in VersionRow
      BY <3>1 DEF VersionRow, ReviewStates
    <3> QED
      BY <1>4, <2>1, <3>1, <3>2 DEF VersionRow, VersionOK
  <2>2. CASE row.reviewState # "pending_review"
    <3>1. Cancelled(row) = [row EXCEPT !.status = IF row.reviewState = "absent"
                                                  THEN row.status ELSE "deleted"]
      BY <2>2 DEF Cancelled
    <3>2. Cancelled(row) \in VersionRow
      BY <3>1 DEF VersionRow
    <3> QED
      BY <1>4, <3>1, <3>2 DEF VersionRow, VersionOK, ApprovedByAnother
  <2> QED
    BY <2>1, <2>2
<1>5. \A f \in Entries, v \in Versions :
          versions'[f][v] = IF f = e THEN Cancelled(versions[f][v]) ELSE versions[f][v]
  BY <1>1, <1>2, <1>3
<1>6. \A f \in Entries, v \in Versions : versions[f][v] \in VersionRow /\ VersionOK(versions[f][v])
  BY <1>2 DEF ReviewInv
<1>7. /\ versions' \in [Entries -> [Versions -> VersionRow]]
      /\ \A f \in Entries, v \in Versions : versions[f][v].published => versions'[f][v].published
  <2>1. [v \in Versions |-> Cancelled(versions[e][v])] \in [Versions -> VersionRow]
    BY <1>1, <1>4, <1>6
  <2> QED
    BY <1>1, <1>2, <1>3, <1>4, <1>5, <1>6, <2>1
<1>8. \A f \in Entries, v \in Versions : VersionOK(versions[f][v])'
  <2> SUFFICES ASSUME NEW f \in Entries, NEW v \in Versions PROVE VersionOK(versions'[f][v])
    BY DEF VersionOK, ApprovedByAnother
  <2> QED
    BY <1>4, <1>5, <1>6
<1>9. servers' \in [Entries -> ServerRow]
  BY <1>1, <1>2, <1>3 DEF ServerRow, Statuses
<1>10. \A f \in Entries : servers'[f] = servers[f] \/ ServerOK(f)'
  <2>1. ServerOK(e)
    BY <1>1 DEF ReviewInv
  <2>2. HasPublished(e) => HasPublished(e)'
    BY <1>1, <1>7 DEF HasPublished
  <2>3. servers'[e].status = "deleted" /\ servers'[e].visibility = servers[e].visibility
    BY <1>1, <1>2, <1>3 DEF ServerRow
  <2> QED
    BY <1>1, <1>2, <1>3, <2>1, <2>2, <2>3 DEF ServerOK
<1>11. \A c \in Changes : \/ changes'[c] = changes[c]
                          \/ changes'[c] \in ChangeRow /\ changes'[c].state = "withdrawn"
  <2>1. ASSUME NEW row \in ChangeRow, row.state = "pending_review"
        PROVE  /\ [row EXCEPT !.state = "withdrawn"] \in ChangeRow
               /\ [row EXCEPT !.state = "withdrawn"].state = "withdrawn"
    BY <2>1 DEF ChangeRow, AbsentChange
  <2> SUFFICES ASSUME NEW c \in Changes, PendingChange(e, c)
               PROVE  changes'[c] \in ChangeRow /\ changes'[c].state = "withdrawn"
    BY <1>3
  <2>2. changes'[c] = [changes[c] EXCEPT !.state = "withdrawn"]
    BY <1>3
  <2> QED
    BY <1>2, <2>1, <2>2 DEF PendingChange
<1>12. changes' \in [Changes -> ChangeRow]
  BY <1>2, <1>3, <1>11
<1> QED
  BY <1>3, <1>7, <1>8, <1>9, <1>10, <1>11, <1>12, TableStep

\* The store calls that request, approve, reject or execute a deletion.
LEMMA DeletionStoreCallsInv ==
    ASSUME ReviewInv, DeletionStoreCalls
    PROVE  ReviewInv'
<1> PICK r \in requests :
        \/ RequestMCPDeletion(r)
        \/ ApproveMCPDeletion(r)
        \/ RejectMCPDeletion(r)
        \/ DeleteMCPServer(r)
  BY DEF DeletionStoreCalls
<1> DEFINE e == r.entry
<1>1. r \in Request /\ e \in Entries
  BY RequestKinds DEF ReviewInv, TypeOK
<1>2. servers \in [Entries -> ServerRow] /\ ServerOK(e)
  BY <1>1 DEF ReviewInv, TypeOK
<1>a. CASE RequestMCPDeletion(r) \/ RejectMCPDeletion(r)
  <2>1. /\ UNCHANGED <<versions, changes>> /\ requests' \subseteq requests
        /\ \E by \in Users \cup {None} :
               servers' = [servers EXCEPT ![e].deletionRequestedBy = by]
    BY <1>1, <1>a, RequestKinds
       DEF RequestMCPDeletion, RejectMCPDeletion, Answer, DeletionReview
  <2>2. servers' \in [Entries -> ServerRow]
    BY <1>1, <1>2, <2>1 DEF ServerRow
  <2>3. \A f \in Entries : servers'[f] = servers[f] \/ ServerOK(f)'
    BY <1>1, <1>2, <2>1 DEF ServerRow, ServerOK, HasPublished
  <2> QED
    BY <2>1, <2>2, <2>3, ServerStep
<1>b. CASE ApproveMCPDeletion(r)
  <2>1. /\ UNCHANGED <<versions, changes>> /\ requests' \subseteq requests
        /\ servers' = [servers EXCEPT ![e].status = "deleted"]
    BY <1>b DEF ApproveMCPDeletion, Answer
  <2>2. servers' \in [Entries -> ServerRow]
    BY <1>1, <1>2, <2>1 DEF ServerRow, Statuses
  <2>3. \A f \in Entries : servers'[f] = servers[f] \/ ServerOK(f)'
    BY <1>1, <1>2, <2>1 DEF ServerRow, ServerOK, HasPublished
  <2> QED
    BY <2>1, <2>2, <2>3, ServerStep
<1>c. CASE DeleteMCPServer(r)
  BY <1>c, DeleteMCPServerInv
<1> QED
  BY <1>a, <1>b, <1>c

-----------------------------------------------------------------------------
(* The theorems                                                            *)

\* Every step of the workflow, stuttering included, preserves the invariant.
LEMMA NextInv == ReviewInv /\ [Next]_vars => ReviewInv'
<1> SUFFICES ASSUME ReviewInv, [Next]_vars PROVE ReviewInv'
  OBVIOUS
<1>1. CASE VersionNext
  BY <1>1, VersionHandlersInv, VersionStoreCallsInv DEF VersionNext
<1>2. CASE ChangeNext
  BY <1>2, ChangeHandlersInv, ChangeStoreCallsInv DEF ChangeNext
<1>3. CASE DeletionNext
  BY <1>3, DeletionHandlersInv, DeletionStoreCallsInv DEF DeletionNext
<1>4. CASE Errors
  BY <1>4, FailStep DEF Errors
<1>5. CASE UNCHANGED vars
  BY <1>5, RequestStep DEF vars, tables
<1> QED
  BY <1>1, <1>2, <1>3, <1>4, <1>5 DEF Next

\* The inductive invariant holds of every reachable state.
THEOREM Inductive == Spec => []ReviewInv
BY InitInv, NextInv, PTL DEF Spec

\* Type correctness: every write keeps rows and requests well formed.
THEOREM TypeCorrect == Spec => []TypeOK
<1>1. ReviewInv => TypeOK
  BY DEF ReviewInv
<1> QED
  BY <1>1, Inductive, PTL

\* No unreviewed draft reaches the public catalogue (SetVisibility,
\* ApproveMCPVersion, the entry changes): public, published and deprecated
\* entries have a published version.
THEOREM NoDraftInCatalogue == Spec => []PublicEntryHasPublishedVersion
<1>1. ReviewInv => PublicEntryHasPublishedVersion
  BY DEF ReviewInv, ServerOK, PublicEntryHasPublishedVersion
<1> QED
  BY <1>1, Inductive, PTL

\* Nobody but a Server Admin approves what they submitted themselves
\* (refuseSelfApproval), whatever happens between the two.
THEOREM NoSelfApproval == Spec => []FourEyes
<1>1. ReviewInv => FourEyes
  BY DEF ReviewInv, VersionOK, ChangeOK, FourEyes
<1> QED
  BY <1>1, Inductive, PTL

-----------------------------------------------------------------------------
(* What a step may never do to a published version, a deleted entry, a     *)
(* queued change or a private entry.                                       *)

\* The steps that write a table: only these can break a property of the
\* tables.
LEMMA Writers ==
    ASSUME [Next]_vars
    PROVE  \/ UNCHANGED tables
           \/ \E u \in Users, e \in Entries : CreateServer(u, e)
           \/ VersionStoreCalls
           \/ \E r \in requests, c \in Changes : CreateEntryChangeRequest(r, c)
           \/ \E r \in requests : ApplyNow(r)
           \/ \E r \in requests : ApproveEntryChangeRequest(r)
           \/ \E r \in requests : RejectEntryChangeRequest(r) \/ WithdrawEntryChangeRequest(r)
           \/ DeletionStoreCalls
<1>1. CASE VersionHandlers
  BY <1>1 DEF VersionHandlers, CreateVersion, SubmitVersion, WithdrawVersion, PublishVersion,
              LoadVersion, ApproveVersion, RejectVersion, Accept, Continue
<1>2. CASE ChangeHandlers
  BY <1>2 DEF ChangeHandlers, AcceptMutation, SetVisibility, DeprecateServer, UndeprecateServer,
              PatchServer, LoadChange, ApproveMCPChange, RejectMCPChange, WithdrawMCPChange,
              Accept, Continue
<1>3. CASE ChangeStoreCalls
  BY <1>3 DEF ChangeStoreCalls, GetPendingEntryChange, Continue
<1>4. CASE DeletionHandlers
  BY <1>4 DEF DeletionHandlers, RequestDeletion, ApproveDeletion, RejectDeletion, DeleteServer,
              Accept
<1>5. CASE Errors
  BY <1>5 DEF Errors, Fail
<1>6. CASE UNCHANGED vars
  BY <1>6 DEF vars, tables
<1> QED
  BY <1>1, <1>2, <1>3, <1>4, <1>5, <1>6 DEF Next, VersionNext, ChangeNext, DeletionNext

-----------------------------------------------------------------------------
(* Published versions                                                      *)

\* A write of a row that is not published leaves the published ones alone.
LEMMA UnpublishedWrite ==
    ASSUME ReviewInv, NEW e \in Entries, NEW v \in Versions, NEW row,
           WriteVersion(e, v, row), ~versions[e][v].published,
           NEW f \in Entries, NEW w \in Versions, versions[f][w].published
    PROVE  versions'[f][w] = versions[f][w]
BY DEF WriteVersion, ReviewInv, TypeOK

\* A version's store call writes a row that is absent, pending or unpublished;
\* the cascade of a DELETE only marks the published ones.
LEMMA PublishedStep ==
    ASSUME ReviewInv, [Next]_vars, NEW e \in Entries, NEW v \in Versions,
           versions[e][v].published
    PROVE  versions'[e][v] \in {versions[e][v], [versions[e][v] EXCEPT !.status = "deleted"]}
<1>1. CASE VersionStoreCalls
  <2> PICK r \in requests :
        \/ CreateMCPServerVersion(r) \/ SubmitMCPVersion(r) \/ WithdrawMCPVersion(r)
        \/ ApproveMCPVersion(r) \/ RejectMCPVersion(r) \/ PublishMCPServerVersion(r)
    BY <1>1 DEF VersionStoreCalls
  <2>1. r \in Request
    BY DEF ReviewInv, TypeOK
  <2>2. /\ r.op \in {"create_version", "withdraw_version", "publish_version", "submit_version",
                     "approve_version", "reject_version"}
        /\ \E row : WriteVersion(r.entry, r.version, row)
        /\ ~versions[r.entry][r.version].published \/ Pending(r.entry, r.version)
             \/ versions[r.entry][r.version].reviewState = "absent"
    BY DEF CreateMCPServerVersion, SubmitMCPVersion, WithdrawMCPVersion, ApproveMCPVersion,
           RejectMCPVersion, PublishMCPServerVersion, SubmitMatches, Submitted, WithdrawMatches,
           Withdrawn, RejectMatches, Rejected, PublishMatches, Published
  <2>3. r.entry \in Entries /\ r.version \in Versions
    BY <2>1, <2>2, RequestKinds DEF VersionRequest, SubmitRequest, VersionDecision
  <2>4. ~versions[r.entry][r.version].published
    BY <2>2, <2>3 DEF ReviewInv, VersionOK, Pending
  <2> QED
    BY <2>2, <2>3, <2>4, UnpublishedWrite
<1>2. CASE DeletionStoreCalls
  <2>1. versions[e][v].reviewState = "none"
    BY DEF ReviewInv, VersionOK
  <2>2. ASSUME NEW r \in requests, DeleteMCPServer(r) PROVE
          versions'[e][v] \in {versions[e][v], [versions[e][v] EXCEPT !.status = "deleted"]}
    <3>1. r.entry \in Entries
      BY RequestKinds DEF ReviewInv, TypeOK
    <3>2. versions' = [versions EXCEPT ![r.entry] =
                          [w \in Versions |-> Cancelled(versions[r.entry][w])]]
      BY <2>2 DEF DeleteMCPServer
    <3>3. versions'[e][v] = IF r.entry = e THEN Cancelled(versions[e][v]) ELSE versions[e][v]
      BY <3>1, <3>2 DEF ReviewInv, TypeOK
    <3> QED
      BY <2>1, <3>3 DEF Cancelled
  <2> QED
    BY <1>2, <2>2 DEF DeletionStoreCalls, RequestMCPDeletion, ApproveMCPDeletion,
                      RejectMCPDeletion
<1>3. CASE UNCHANGED versions
  BY <1>3
<1> QED
  BY <1>1, <1>2, <1>3, Writers
     DEF CreateServer, CreateEntryChangeRequest, ApplyNow, ApproveEntryChangeRequest,
         RejectEntryChangeRequest, WithdrawEntryChangeRequest, tables

\* A version that consumers may have cached is never edited, withdrawn or
\* decided again, whatever requests about it are still under way.
THEOREM ReleasedVersionsImmutable == Spec => PublishedImmutable
<1>1. ReviewInv /\ [Next]_vars =>
        [\A e \in Entries, v \in Versions :
            versions[e][v].published =>
              versions'[e][v] \in {versions[e][v], [versions[e][v] EXCEPT !.status = "deleted"]}]_vars
  BY PublishedStep
<1> QED
  BY <1>1, Inductive, PTL DEF Spec, PublishedImmutable

-----------------------------------------------------------------------------
(* Deleted entries                                                         *)

\* The request of a store call names an entry of the model.
LEMMA RequestEntry == ReviewInv => \A r \in requests : r.entry \in Entries
BY RequestKinds DEF ReviewInv, TypeOK

\* Every store call leaves the status and the metadata of a deleted entry.
LEMMA DeletedStep ==
    ASSUME ReviewInv, [Next]_vars, NEW e \in Entries, servers[e].status = "deleted"
    PROVE  servers'[e].status = "deleted" /\ servers'[e].metadata = servers[e].metadata
<1> servers \in [Entries -> ServerRow]
  BY DEF ReviewInv, TypeOK
<1>1. ASSUME NEW u \in Users, NEW f \in Entries, CreateServer(u, f)
      PROVE  servers'[e] = servers[e]
  BY <1>1 DEF CreateServer, ServerRow
<1>2. CASE VersionStoreCalls
  <2>1. \/ UNCHANGED servers
        \/ \E r \in requests : ApproveMCPVersion(r) \/ PublishMCPServerVersion(r)
    BY <1>2 DEF VersionStoreCalls, CreateMCPServerVersion, SubmitMCPVersion,
                WithdrawMCPVersion, RejectMCPVersion
  <2>2. ASSUME NEW r \in requests, ApproveMCPVersion(r) \/ PublishMCPServerVersion(r)
        PROVE  servers'[e].status = "deleted" /\ servers'[e].metadata = servers[e].metadata
    BY <2>2, RequestEntry DEF ApproveMCPVersion, PublishMCPServerVersion, Promoted, ServerRow
  <2> QED
    BY <2>1, <2>2
<1>3. ASSUME NEW f \in Entries, NEW m \in Mutation, Applicable(servers[f], m),
             servers' = [servers EXCEPT ![f] = Applied(@, m)]
      PROVE  servers'[e].status = "deleted" /\ servers'[e].metadata = servers[e].metadata
  BY <1>3 DEF Applicable, Applied, ServerRow
<1>4. ASSUME NEW r \in requests, ApplyNow(r)
      PROVE  servers'[e].status = "deleted" /\ servers'[e].metadata = servers[e].metadata
  <2>1. r.entry \in Entries /\ r.mutation \in Mutation
    BY <1>4, RequestKinds DEF ReviewInv, TypeOK, MutationRequest, ApplyNow, AppliesNow
  <2> QED
    BY <1>3, <1>4, <2>1 DEF ApplyNow, AppliesNow
<1>5. ASSUME NEW r \in requests, ApproveEntryChangeRequest(r)
      PROVE  servers'[e].status = "deleted" /\ servers'[e].metadata = servers[e].metadata
  <2>1. r.change \in Changes
    BY <1>5, RequestKinds DEF ReviewInv, TypeOK, ChangeDecision, ApproveEntryChangeRequest
  <2>2. changes[r.change].entry \in Entries /\ changes[r.change].mutation \in Mutation
    BY <1>5, <2>1 DEF ReviewInv, TypeOK, ChangeRow, AbsentChange, ApproveEntryChangeRequest
  <2> QED
    BY <1>3, <1>5, <2>2 DEF ApproveEntryChangeRequest
<1>6. CASE DeletionStoreCalls
  BY <1>6, RequestEntry DEF DeletionStoreCalls, RequestMCPDeletion, ApproveMCPDeletion,
                            RejectMCPDeletion, DeleteMCPServer, ServerRow
<1>7. CASE UNCHANGED servers
  BY <1>7
<1> QED
  BY <1>1, <1>2, <1>4, <1>5, <1>6, <1>7, Writers
     DEF CreateEntryChangeRequest, RejectEntryChangeRequest, WithdrawEntryChangeRequest, tables

\* Nothing that was accepted while an entry was live, queued changes included,
\* brings it back or edits it once it is deleted.
THEOREM DeletedForGood == Spec => DeletionIsFinal
<1>1. ReviewInv /\ [Next]_vars =>
        [\A e \in Entries :
            servers[e].status = "deleted" =>
                /\ servers'[e].status = "deleted"
                /\ servers'[e].metadata = servers[e].metadata]_vars
  BY DeletedStep
<1> QED
  BY <1>1, Inductive, PTL DEF Spec, DeletionIsFinal

-----------------------------------------------------------------------------
(* Entry changes                                                           *)

\* The store calls of entry changes name a row of the queue.
LEMMA RequestChange ==
    ASSUME ReviewInv, NEW r \in requests,
           r.op \in {"approve_change", "reject_change", "withdraw_change"}, r.change # None
    PROVE  r.change \in Changes
BY RequestKinds DEF ReviewInv, TypeOK, ChangeDecision, ChangeWithdrawal

\* An applicable mutation takes effect on the entry it is applied to.
LEMMA AppliedTookEffect ==
    ASSUME NEW row \in ServerRow, NEW m \in Mutation, Applicable(row, m)
    PROVE  TookEffect(Applied(row, m), m)
<1>1. CASE m.action = "visibility"
  BY <1>1 DEF TookEffect, Applied, ServerRow
<1>2. CASE m.action = "deprecation"
  BY <1>2 DEF TookEffect, Applied, ServerRow
<1>3. CASE m.action = "undeprecation"
  BY <1>3 DEF TookEffect, Applied, ServerRow
<1>4. CASE m.action = "metadata_edit"
  BY <1>4 DEF TookEffect, Applied, Applicable, ServerRow
<1> QED
  BY <1>1, <1>2, <1>3, <1>4 DEF Mutation

\* A change moves from the queue only, and to approved only as it is applied.
LEMMA ChangeMoves ==
    ASSUME ReviewInv, [Next]_vars, NEW c \in Changes, changes'[c].state # changes[c].state
    PROVE  /\ changes[c].state \in {"absent", "pending_review"}
           /\ changes'[c].state = "approved" =>
                  TookEffect(servers'[changes[c].entry], changes[c].mutation)
<1> servers \in [Entries -> ServerRow] /\ changes \in [Changes -> ChangeRow]
  BY DEF ReviewInv, TypeOK
<1>1. ASSUME NEW r \in requests, NEW d \in Changes, CreateEntryChangeRequest(r, d)
      PROVE  changes[c].state = "absent" /\ changes'[c].state = "pending_review"
  BY <1>1 DEF CreateEntryChangeRequest
<1>2. ASSUME NEW r \in requests, ApproveEntryChangeRequest(r)
      PROVE  changes[c].state = "pending_review"
             /\ TookEffect(servers'[changes[c].entry], changes[c].mutation)
  <2>1. r.change \in Changes
    BY <1>2, RequestChange DEF ApproveEntryChangeRequest
  <2>2. r.change = c /\ changes[c].state = "pending_review"
    BY <1>2, <2>1 DEF ApproveEntryChangeRequest
  <2>3. changes[c].entry \in Entries /\ changes[c].mutation \in Mutation
    BY <2>2 DEF ChangeRow, AbsentChange
  <2>4. Applicable(servers[changes[c].entry], changes[c].mutation)
    BY <1>2, <2>2 DEF ApproveEntryChangeRequest
  <2>5. servers'[changes[c].entry] = Applied(servers[changes[c].entry], changes[c].mutation)
    BY <1>2, <2>2, <2>3 DEF ApproveEntryChangeRequest
  <2> QED
    BY <2>2, <2>3, <2>4, <2>5, AppliedTookEffect
<1>3. ASSUME NEW r \in requests, RejectEntryChangeRequest(r) \/ WithdrawEntryChangeRequest(r)
      PROVE  changes[c].state = "pending_review"
             /\ changes'[c].state \in {"rejected", "withdrawn"}
  <2>1. r.change \in Changes
    BY <1>3, RequestChange DEF RejectEntryChangeRequest, WithdrawEntryChangeRequest
  <2>2. r.change = c
    BY <1>3, <2>1 DEF RejectEntryChangeRequest, WithdrawEntryChangeRequest
  <2>3. changes[c] \in [state : {"pending_review", "approved", "rejected", "withdrawn"},
                        entry : Entries, mutation : Mutation, revision : Nat,
                        submittedBy : Users, reviewedBy : Users \cup {None}]
    BY <1>3, <2>2 DEF RejectEntryChangeRequest, WithdrawEntryChangeRequest, ChangeRow,
           AbsentChange, RejectChangeMatches, WithdrawChangeMatches
  <2> QED
    BY <1>3, <2>1, <2>2, <2>3 DEF RejectEntryChangeRequest, WithdrawEntryChangeRequest, Decided,
           RejectChangeMatches, WithdrawChangeMatches
<1>4. CASE DeletionStoreCalls
  <2>1. changes[c].state = "pending_review" /\ changes'[c].state = "withdrawn"
    BY <1>4 DEF DeletionStoreCalls, RequestMCPDeletion, ApproveMCPDeletion, RejectMCPDeletion,
                DeleteMCPServer, PendingChange, ChangeRow, AbsentChange
  <2> QED
    BY <2>1
<1>5. UNCHANGED changes => FALSE
  OBVIOUS
<1>6. VersionStoreCalls => UNCHANGED changes
  BY DEF VersionStoreCalls, CreateMCPServerVersion, SubmitMCPVersion, WithdrawMCPVersion,
         ApproveMCPVersion, RejectMCPVersion, PublishMCPServerVersion
<1> QED
  BY <1>1, <1>2, <1>3, <1>4, <1>5, <1>6, Writers DEF CreateServer, ApplyNow, tables

\* A queued change is recorded as approved in the step that applies it, or not
\* at all, and is decided once.
THEOREM ApprovalTakesEffect == Spec => ApprovedChangeApplied
<1>1. ReviewInv /\ [Next]_vars =>
        [\A c \in Changes :
            changes'[c].state # changes[c].state =>
                /\ changes[c].state \in {"absent", "pending_review"}
                /\ changes'[c].state = "approved" =>
                       TookEffect(servers'[changes[c].entry], changes[c].mutation)]_vars
  BY ChangeMoves
<1> QED
  BY <1>1, Inductive, PTL DEF Spec, ApprovedChangeApplied

-----------------------------------------------------------------------------
(* Releases                                                                *)

\* What ReleaseIsReviewed allows as the reason entry e became public.
Sanctioned(e) ==
    \/ \E v \in Versions :
          /\ Pending(e, v) /\ versions[e][v].requestPublic
          /\ versions'[e][v].published /\ ApprovedByAnother(versions'[e][v])
    \/ \E c \in Changes :
          /\ PendingChange(e, c)
          /\ changes'[c].state = "approved" /\ ApprovedByAnother(changes'[c])
    \/ \E r \in requests \ requests' : r.op = "change_entry" /\ r.actor \in ServerAdmins

\* Only an approval, or a Server Admin's request, flips visibility to public.
LEMMA ReleaseStep ==
    ASSUME ReviewInv, [Next]_vars, NEW e \in Entries,
           servers[e].visibility = "private", servers'[e].visibility = "public"
    PROVE  Sanctioned(e)
<1> /\ servers \in [Entries -> ServerRow]
    /\ versions \in [Entries -> [Versions -> VersionRow]]
    /\ changes \in [Changes -> ChangeRow]
  BY DEF ReviewInv, TypeOK
<1>1. ASSUME NEW r \in requests, ApproveMCPVersion(r)
      PROVE  Sanctioned(e)
  <2>1. r \in VersionDecision
    BY <1>1, RequestKinds DEF ReviewInv, TypeOK, ApproveMCPVersion
  <2> DEFINE v == r.version
             row == [versions[r.entry][v] EXCEPT !.reviewState = "none",
                                                 !.reviewedBy = r.actor, !.published = TRUE]
  <2>2. r.entry \in Entries /\ v \in Versions /\ r.actor \in Users
    BY <2>1 DEF VersionDecision
  <2>3. r.entry = e /\ versions[e][v].requestPublic
    BY <1>1, <2>2 DEF ApproveMCPVersion
  <2>4. versions'[e][v] = row
    BY <1>1, <2>2, <2>3 DEF ApproveMCPVersion, WriteVersion
  <2>5. /\ row.published /\ row.reviewedBy = r.actor
        /\ row.submittedBy = versions[e][v].submittedBy
    BY <2>2, <2>3 DEF VersionRow
  <2>6. ApprovedByAnother(versions'[e][v])
    BY <1>1, <2>2, <2>3, <2>4, <2>5, RolesAssumption
       DEF ApprovedByAnother, ApproveMCPVersion, SelfApproval
  <2>7. Pending(e, v)
    BY <1>1, <2>3 DEF ApproveMCPVersion
  <2> QED
    BY <2>2, <2>3, <2>4, <2>5, <2>6, <2>7 DEF Sanctioned
<1>2. ASSUME NEW r \in requests, ApplyNow(r)
      PROVE  Sanctioned(e)
  BY <1>2 DEF ApplyNow, Answer, Sanctioned, AppliesNow
<1>3. ASSUME NEW r \in requests, ApproveEntryChangeRequest(r)
      PROVE  Sanctioned(e)
  <2> DEFINE c == r.change
  <2>1. c \in Changes /\ r.actor \in Users
    BY <1>3, RequestKinds DEF ReviewInv, TypeOK, ChangeDecision, ApproveEntryChangeRequest
  <2>2. changes[c].entry \in Entries
    BY <1>3, <2>1 DEF ChangeRow, AbsentChange, ApproveEntryChangeRequest
  <2>3. changes[c].entry = e
    BY <1>3, <2>1, <2>2 DEF ApproveEntryChangeRequest
  <2>4. changes'[c] = Decided(changes[c], "approved", r.actor)
    BY <1>3, <2>1 DEF ApproveEntryChangeRequest
  <2>5. /\ changes'[c].state = "approved" /\ changes'[c].reviewedBy = r.actor
        /\ changes'[c].submittedBy = changes[c].submittedBy
    BY <1>3, <2>1, <2>4, DecidedChange DEF ApproveEntryChangeRequest
  <2>6. ApprovedByAnother(changes'[c])
    BY <1>3, <2>1, <2>5, RolesAssumption
       DEF ApprovedByAnother, ApproveEntryChangeRequest, SelfApproval
  <2>7. PendingChange(e, c)
    BY <1>3, <2>3 DEF ApproveEntryChangeRequest, PendingChange
  <2> QED
    BY <2>1, <2>5, <2>6, <2>7 DEF Sanctioned
<1>4. \A u \in Users, f \in Entries : CreateServer(u, f) => servers'[e].visibility = "private"
  BY DEF CreateServer, ServerRow
<1>5. ASSUME NEW r \in requests, PublishMCPServerVersion(r)
      PROVE  servers'[e].visibility = "private"
  BY <1>5, RequestEntry DEF PublishMCPServerVersion, ServerRow
<1>6. ASSUME DeletionStoreCalls
      PROVE  servers'[e].visibility = "private"
  <2> PICK r \in requests : RequestMCPDeletion(r) \/ ApproveMCPDeletion(r)
                            \/ RejectMCPDeletion(r) \/ DeleteMCPServer(r)
    BY <1>6 DEF DeletionStoreCalls
  <2>1. r.entry \in Entries
    BY RequestEntry
  <2>2. CASE RequestMCPDeletion(r)
    BY <2>1, <2>2 DEF RequestMCPDeletion, ServerRow
  <2>3. CASE ApproveMCPDeletion(r)
    BY <2>1, <2>3 DEF ApproveMCPDeletion, ServerRow
  <2>4. CASE RejectMCPDeletion(r)
    BY <2>1, <2>4 DEF RejectMCPDeletion, ServerRow
  <2>5. CASE DeleteMCPServer(r)
    BY <2>1, <2>5 DEF DeleteMCPServer, ServerRow
  <2> QED
    BY <2>2, <2>3, <2>4, <2>5
<1>7. VersionStoreCalls => \/ UNCHANGED servers
                           \/ \E r \in requests : ApproveMCPVersion(r) \/ PublishMCPServerVersion(r)
  BY DEF VersionStoreCalls, CreateMCPServerVersion, SubmitMCPVersion, WithdrawMCPVersion,
         RejectMCPVersion
<1> QED
  BY <1>1, <1>2, <1>3, <1>4, <1>5, <1>6, <1>7, Writers
     DEF CreateEntryChangeRequest, RejectEntryChangeRequest, WithdrawEntryChangeRequest, tables

\* No entry becomes public without the decision of somebody else than who
\* asked for it, or of a Server Admin.
THEOREM ReleasesAreSanctioned == Spec => ReleaseIsReviewed
<1>1. ReviewInv /\ [Next]_vars =>
        [\A e \in Entries :
            servers[e].visibility = "private" /\ servers'[e].visibility = "public"
                => Sanctioned(e)]_vars
  BY ReleaseStep
<1> QED
  BY <1>1, Inductive, PTL DEF Spec, ReleaseIsReviewed, Sanctioned

-----------------------------------------------------------------------------
(* The review queue                                                        *)

\* The two halves of OneAtATime.
OnePendingVersion(e) == \A v, w \in Versions : Pending(e, v) /\ Pending(e, w) => v = w
OnePendingChange(e) == \A c, d \in Changes : PendingChange(e, c) /\ PendingChange(e, d) => c = d

\* The unique index on pending versions holds of every write.
LEMMA PendingVersionStep ==
    ASSUME ReviewInv, [Next]_vars, NEW e \in Entries, OnePendingVersion(e)
    PROVE  OnePendingVersion(e)'
<1> versions \in [Entries -> [Versions -> VersionRow]]
  BY DEF ReviewInv, TypeOK
<1>1. ASSUME NEW f \in Entries, NEW v \in Versions, NEW row, WriteVersion(f, v, row)
      PROVE  OnePendingVersion(e)'
  BY <1>1 DEF WriteVersion, OnePendingIdx, OnePendingVersion, Pending, RowAccepted
<1>2. ASSUME VersionStoreCalls
      PROVE  OnePendingVersion(e)'
  <2> PICK r \in requests :
        \/ CreateMCPServerVersion(r) \/ SubmitMCPVersion(r) \/ WithdrawMCPVersion(r)
        \/ ApproveMCPVersion(r) \/ RejectMCPVersion(r) \/ PublishMCPServerVersion(r)
    BY <1>2 DEF VersionStoreCalls
  <2>1. /\ r.op \in {"create_version", "withdraw_version", "publish_version", "submit_version",
                     "approve_version", "reject_version"}
        /\ \E row : WriteVersion(r.entry, r.version, row)
    BY DEF CreateMCPServerVersion, SubmitMCPVersion, WithdrawMCPVersion, ApproveMCPVersion,
           RejectMCPVersion, PublishMCPServerVersion, SubmitMatches, Submitted, WithdrawMatches,
           Withdrawn, RejectMatches, Rejected, PublishMatches, Published
  <2>2. r.entry \in Entries /\ r.version \in Versions
    BY <2>1, RequestKinds
       DEF ReviewInv, TypeOK, VersionRequest, SubmitRequest, VersionDecision
  <2> QED
    BY <1>1, <2>1, <2>2
<1>3. ASSUME NEW r \in requests, DeleteMCPServer(r)
      PROVE  OnePendingVersion(e)'
  <2>1. r.entry \in Entries
    BY RequestEntry
  <2>2. versions' = [versions EXCEPT ![r.entry] =
                        [w \in Versions |-> Cancelled(versions[r.entry][w])]]
    BY <1>3 DEF DeleteMCPServer
  <2>3. \A v \in Versions : versions'[e][v].reviewState = "pending_review"
                                => versions[e][v].reviewState = "pending_review"
    <3> SUFFICES ASSUME NEW v \in Versions, versions'[e][v].reviewState = "pending_review"
                 PROVE  versions[e][v].reviewState = "pending_review"
      OBVIOUS
    <3>1. versions'[e][v] = IF r.entry = e THEN Cancelled(versions[e][v]) ELSE versions[e][v]
      BY <2>1, <2>2
    <3>2. versions[e][v] \in VersionRow
      OBVIOUS
    <3> QED
      BY <3>1, <3>2 DEF Cancelled, VersionRow
  <2> QED
    BY <2>3 DEF OnePendingVersion, Pending
<1>4. ASSUME UNCHANGED versions
      PROVE  OnePendingVersion(e)'
  BY <1>4 DEF OnePendingVersion, Pending
<1> QED
  BY <1>2, <1>3, <1>4, Writers
     DEF CreateServer, CreateEntryChangeRequest, ApplyNow, ApproveEntryChangeRequest,
         RejectEntryChangeRequest, WithdrawEntryChangeRequest, DeletionStoreCalls,
         RequestMCPDeletion, ApproveMCPDeletion, RejectMCPDeletion, tables

\* A change that is pending was pending, or is the one that found the slot of
\* its entry free.
LEMMA PendingChangeStep ==
    ASSUME ReviewInv, [Next]_vars, NEW e \in Entries, OnePendingChange(e)
    PROVE  OnePendingChange(e)'
<1> changes \in [Changes -> ChangeRow]
  BY DEF ReviewInv, TypeOK
<1>1. ASSUME NEW r \in requests, NEW c \in Changes, CreateEntryChangeRequest(r, c)
      PROVE  OnePendingChange(e)'
  BY <1>1 DEF CreateEntryChangeRequest, OnePendingPerEntryIdx, OnePendingChange, PendingChange,
         Queues
<1>2. ASSUME \A c \in Changes : PendingChange(e, c)' => PendingChange(e, c)
      PROVE  OnePendingChange(e)'
  BY <1>2 DEF OnePendingChange
<1>3. ASSUME NEW r \in requests,
             \/ ApproveEntryChangeRequest(r) \/ RejectEntryChangeRequest(r)
             \/ WithdrawEntryChangeRequest(r)
      PROVE  \A c \in Changes : PendingChange(e, c)' => PendingChange(e, c)
  <2>1. r.change \in Changes
    BY <1>3, RequestChange
       DEF ApproveEntryChangeRequest, RejectEntryChangeRequest, WithdrawEntryChangeRequest,
           RejectChangeMatches, WithdrawChangeMatches
  <2>2. \A c \in Changes \ {r.change} : changes'[c] = changes[c]
    BY <1>3, <2>1
       DEF ApproveEntryChangeRequest, RejectEntryChangeRequest, WithdrawEntryChangeRequest
  <2>3. changes[r.change] \in [state : {"pending_review", "approved", "rejected", "withdrawn"},
                               entry : Entries, mutation : Mutation, revision : Nat,
                               submittedBy : Users, reviewedBy : Users \cup {None}]
    BY <1>3, <2>1 DEF ApproveEntryChangeRequest, RejectEntryChangeRequest,
           WithdrawEntryChangeRequest, ChangeRow, AbsentChange, RejectChangeMatches,
           WithdrawChangeMatches
  <2>4. changes'[r.change].state \in {"approved", "rejected", "withdrawn"}
    BY <1>3, <2>1, <2>3 DEF ApproveEntryChangeRequest, RejectEntryChangeRequest,
                            WithdrawEntryChangeRequest, Decided
  <2> QED
    BY <2>2, <2>4 DEF PendingChange
<1>4. ASSUME NEW r \in requests, DeleteMCPServer(r)
      PROVE  \A c \in Changes : PendingChange(e, c)' => PendingChange(e, c)
  <2> SUFFICES ASSUME NEW c \in Changes, PendingChange(e, c)' PROVE PendingChange(e, c)
    OBVIOUS
  <2>1. changes'[c] = changes[c] \/ changes'[c] = [changes[c] EXCEPT !.state = "withdrawn"]
    BY <1>4 DEF DeleteMCPServer
  <2> QED
    BY <2>1 DEF PendingChange, ChangeRow, AbsentChange
<1>5. ASSUME UNCHANGED changes
      PROVE  OnePendingChange(e)'
  BY <1>5 DEF OnePendingChange, PendingChange
<1>6. VersionStoreCalls => UNCHANGED changes
  BY DEF VersionStoreCalls, CreateMCPServerVersion, SubmitMCPVersion, WithdrawMCPVersion,
         ApproveMCPVersion, RejectMCPVersion, PublishMCPServerVersion
<1> QED
  BY <1>1, <1>2, <1>3, <1>4, <1>5, <1>6, Writers
     DEF CreateServer, ApplyNow, DeletionStoreCalls, RequestMCPDeletion, ApproveMCPDeletion,
         RejectMCPDeletion, tables

\* The queue never offers two versions or two changes of one entry.
THEOREM QueueIsUnambiguous == Spec => []OneAtATime
<1>1. Init => OneAtATime
  BY DEF Init, OneAtATime, Pending, PendingChange, AbsentVersion, AbsentChange
<1>2. ReviewInv /\ OneAtATime /\ [Next]_vars => OneAtATime'
  <2> SUFFICES ASSUME ReviewInv, OneAtATime, [Next]_vars PROVE OneAtATime'
    OBVIOUS
  <2>1. \A e \in Entries : OnePendingVersion(e) /\ OnePendingChange(e)
    BY DEF OneAtATime, OnePendingVersion, OnePendingChange
  <2>2. \A e \in Entries : OnePendingVersion(e)' /\ OnePendingChange(e)'
    BY <2>1, PendingVersionStep, PendingChangeStep
  <2> QED
    BY <2>2 DEF OneAtATime, OnePendingVersion, OnePendingChange
<1> QED
  BY <1>1, <1>2, Inductive, PTL DEF Spec

-----------------------------------------------------------------------------
(* The pages and the server                                                *)

\* A version row the pages may offer to submit, withdraw or reject.
LEMMA VersionRowTyped ==
    ASSUME ReviewInv, NEW e \in Entries, NEW v \in Versions
    PROVE  versions[e][v] \in VersionRow /\ VersionOK(versions[e][v])
BY DEF ReviewInv, TypeOK

\* The constraints refuse a submission only if another version is pending.
LEMMA SubmissionAccepted ==
    ASSUME ReviewInv, NEW r, r.entry \in Entries, r.version \in Versions, SubmitMatches(r)
    PROVE  RowAccepted(r.entry, r.version, Submitted(r))
               <=> \A w \in Versions \ {r.version} : ~Pending(r.entry, w)
<1> DEFINE row == versions[r.entry][r.version]
<1>1. row \in VersionRow /\ ~row.published
  BY VersionRowTyped DEF SubmitMatches
<1>2. Submitted(r).reviewState = "pending_review" /\ Submitted(r).published = row.published
  BY <1>1 DEF Submitted, VersionRow
<1> QED
  BY <1>1, <1>2 DEF RowAccepted, ReviewUnpublishedChk, OnePendingIdx

\* They never refuse a withdrawal.
LEMMA WithdrawalAccepted ==
    ASSUME ReviewInv, NEW r, r.entry \in Entries, r.version \in Versions
    PROVE  RowAccepted(r.entry, r.version, Withdrawn(r))
<1>1. Withdrawn(r).reviewState = "none"
  BY VersionRowTyped DEF Withdrawn, VersionRow
<1> QED
  BY <1>1 DEF RowAccepted, ReviewUnpublishedChk, OnePendingIdx

\* Nor a rejection of a pending version: it is not published.
LEMMA RejectionAccepted ==
    ASSUME ReviewInv, NEW r, r.entry \in Entries, r.version \in Versions,
           Pending(r.entry, r.version)
    PROVE  RowAccepted(r.entry, r.version, Rejected(r))
<1> DEFINE row == versions[r.entry][r.version]
<1>1. row \in VersionRow /\ ~row.published
  BY VersionRowTyped DEF Pending, VersionOK
<1>2. Rejected(r).reviewState = "rejected" /\ Rejected(r).published = row.published
  BY <1>1 DEF Rejected, VersionRow
<1> QED
  BY <1>1, <1>2 DEF RowAccepted, ReviewUnpublishedChk, OnePendingIdx

LEMMA VersionOffers == ReviewInv => VersionOffersMatchServer
<1> SUFFICES ASSUME ReviewInv, NEW u \in Users, NEW e \in {x \in Entries : Live(x)},
                    NEW v \in Versions
             PROVE  LET submit == [op |-> "submit_version", actor |-> u, entry |-> e,
                                   version |-> v, requestPublic |-> FALSE]
                        withdraw == [op |-> "withdraw_version", entry |-> e, version |-> v]
                    IN  /\ (\A w \in Versions \ {v} : ~Pending(e, w)) =>
                               (SubmitOffered(u, e, v) <=>
                                    /\ SubmitAllowed(u, e)
                                    /\ SubmitMatches(submit)
                                    /\ RowAccepted(e, v, Submitted(submit)))
                        /\ WithdrawOffered(u, e, v) <=>
                               /\ WithdrawAllowed(u, e)
                               /\ WithdrawMatches(withdraw)
                               /\ RowAccepted(e, v, Withdrawn(withdraw))
  BY DEF VersionOffersMatchServer
<1> DEFINE submit == [op |-> "submit_version", actor |-> u, entry |-> e,
                      version |-> v, requestPublic |-> FALSE]
           withdraw == [op |-> "withdraw_version", entry |-> e, version |-> v]
<1>1. e \in Entries /\ Live(e)
  OBVIOUS
<1>2. /\ submit.op = "submit_version" /\ submit.entry = e /\ submit.version = v
      /\ withdraw.op = "withdraw_version" /\ withdraw.entry = e /\ withdraw.version = v
  OBVIOUS
<1> HIDE DEF submit, withdraw
<1>3. SubmitOffered(u, e, v) <=> SubmitAllowed(u, e) /\ SubmitMatches(submit)
  BY <1>1, <1>2 DEF SubmitOffered, SubmitAllowed, EditorEndpoint, SubmitMatches
<1>4. ASSUME SubmitMatches(submit), \A w \in Versions \ {v} : ~Pending(e, w)
      PROVE  RowAccepted(e, v, Submitted(submit))
  BY <1>1, <1>2, <1>4, SubmissionAccepted
<1>5. WithdrawOffered(u, e, v) <=> WithdrawAllowed(u, e) /\ WithdrawMatches(withdraw)
  BY <1>1, <1>2 DEF WithdrawOffered, WithdrawAllowed, EditorEndpoint, WithdrawMatches
<1>6. RowAccepted(e, v, Withdrawn(withdraw))
  BY <1>1, <1>2, WithdrawalAccepted
<1> QED
  BY <1>3, <1>4, <1>5, <1>6 DEF submit, withdraw

\* Submit and Withdraw are offered exactly when the store call behind them
\* succeeds, another pending version aside.
THEOREM VersionButtonsWork == Spec => []VersionOffersMatchServer
BY VersionOffers, Inductive, PTL

\* Which mutations there are.
LEMMA MutationKinds ==
    ASSUME NEW m \in Mutation
    PROVE  \/ /\ m.action = "visibility"
              /\ m.visibility \in Visibilities
              /\ m = [action |-> "visibility", visibility |-> m.visibility]
           \/ m.action = "deprecation" /\ m = [action |-> "deprecation"]
           \/ m.action = "undeprecation" /\ m = [action |-> "undeprecation"]
           \/ /\ m.action = "metadata_edit"
              /\ m.metadata \in Metadata
              /\ m = [action |-> "metadata_edit", edits |-> m.edits, metadata |-> m.metadata]
<1>1. CASE m \in [action : {"visibility"}, visibility : Visibilities]
  BY <1>1
<1>2. CASE m \in [action : {"deprecation", "undeprecation"}]
  BY <1>2
<1>3. CASE m \in [action : {"metadata_edit"}, metadata : Metadata, edits : SUBSET Fields]
  BY <1>3
<1> QED
  BY <1>1, <1>2, <1>3 DEF Mutation

\* What the page of an entry offers when nothing is pending.
OffersAtRest(e) == VisibilityOffers(e) \cup StepperOffers(e) \cup StatusOffers(e) \cup EditOffers(e)

\* The page looks at what the handlers check, and what passes those checks is
\* something the apply helpers match.
LEMMA OfferedMutation ==
    ASSUME ReviewInv, NEW u \in Users, MayEdit(u), NEW e \in Entries, Live(e),
           NEW m \in Proposals(e)
    PROVE  /\ m \in OffersAtRest(e) <=> MutationAllowed(u, e, m)
           /\ m \in OffersAtRest(e) => Applicable(servers[e], m)
<1>1. /\ m \in Mutation
      /\ Applied(servers[e], m) # servers[e]
      /\ m.action = "metadata_edit" => m.edits = Fields
  BY DEF Proposals
<1>2. servers[e] \in ServerRow /\ servers[e].status \notin {"absent", "deleted"}
  BY DEF ReviewInv, TypeOK, Live
<1>3. EditorEndpoint(u, e)
  BY DEF EditorEndpoint
<1>4. StatusOffers(e) = IF servers[e].status = "published" THEN {[action |-> "deprecation"]}
                        ELSE IF servers[e].status = "deprecated"
                        THEN {[action |-> "undeprecation"]} ELSE {}
  BY DEF StatusOffers
<1>5. CASE /\ m.action = "visibility"
           /\ m.visibility \in Visibilities
           /\ m = [action |-> "visibility", visibility |-> m.visibility]
  <2>1. m.visibility # servers[e].visibility
    BY <1>1, <1>2, <1>5 DEF Applied, ServerRow
  <2>2. m \in OffersAtRest(e) <=> m \in VisibilityOffers(e)
    BY <1>4, <1>5 DEF OffersAtRest, StepperOffers, EditOffers
  <2>3. m \in VisibilityOffers(e) <=> VisibilityAllowed(e, m.visibility)
    BY <1>2, <1>5, <2>1 DEF VisibilityOffers, VisibilityAllowed, ServerRow, Visibilities
  <2>4. MutationAllowed(u, e, m) <=> VisibilityAllowed(e, m.visibility)
    BY <1>3, <1>5 DEF MutationAllowed
  <2> QED
    BY <1>5, <2>2, <2>3, <2>4 DEF Applicable
<1>6. CASE m.action = "deprecation" /\ m = [action |-> "deprecation"]
  <2>a. m \notin VisibilityOffers(e) /\ m \notin EditOffers(e)
    BY <1>6 DEF VisibilityOffers, EditOffers
  <2>b. m \notin StepperOffers(e)
    BY <1>6 DEF StepperOffers
  <2>c. m \in StatusOffers(e) <=> servers[e].status = "published"
    BY <1>4, <1>6
  <2>1. m \in OffersAtRest(e) <=> servers[e].status = "published"
    BY <2>a, <2>b, <2>c DEF OffersAtRest
  <2>2. MutationAllowed(u, e, m) <=> servers[e].status = "published"
    BY <1>3, <1>6 DEF MutationAllowed, DeprecationAllowed
  <2> QED
    BY <1>6, <2>1, <2>2 DEF Applicable
<1>7. CASE m.action = "undeprecation" /\ m = [action |-> "undeprecation"]
  <2>a. m \notin VisibilityOffers(e) /\ m \notin EditOffers(e)
    BY <1>7 DEF VisibilityOffers, EditOffers
  <2>b. m \in StepperOffers(e) <=> servers[e].status = "deprecated"
    BY <1>7 DEF StepperOffers
  <2>c. m \in StatusOffers(e) <=> servers[e].status = "deprecated"
    BY <1>4, <1>7
  <2>1. m \in OffersAtRest(e) <=> servers[e].status = "deprecated"
    BY <2>a, <2>b, <2>c DEF OffersAtRest
  <2>2. MutationAllowed(u, e, m) <=> servers[e].status = "deprecated"
    BY <1>3, <1>7 DEF MutationAllowed, UndeprecationAllowed
  <2> QED
    BY <1>7, <2>1, <2>2 DEF Applicable
<1>8. CASE /\ m.action = "metadata_edit"
           /\ m.metadata \in Metadata
           /\ m = [action |-> "metadata_edit", edits |-> m.edits, metadata |-> m.metadata]
  <2>1. m \in OffersAtRest(e)
    BY <1>1, <1>8 DEF OffersAtRest, EditOffers
  <2>2. MutationAllowed(u, e, m)
    BY <1>3, <1>8 DEF MutationAllowed
  <2> QED
    BY <1>2, <1>8, <2>1, <2>2 DEF Applicable
<1> QED
  BY <1>1, <1>5, <1>6, <1>7, <1>8, MutationKinds

\* A Server Admin's mutation is applied; another one is queued unless one is
\* pending.
LEMMA EntryChangeOffers ==
    ASSUME ReviewInv, NEW u \in Users, NEW e \in Entries, Live(e), NEW m \in Proposals(e)
    PROVE  m \in EntryOffers(u, e) <=> ChangeAccepted(u, e, m)
<1> DEFINE r == [op |-> "change_entry", actor |-> u, entry |-> e, mutation |-> m]
<1>1. r.op = "change_entry" /\ r.actor = u /\ r.entry = e /\ r.mutation = m
  OBVIOUS
<1>2. ChangeAccepted(u, e, m) <=> MutationAllowed(u, e, m) /\ (AppliesNow(r) \/ Queues(r))
  BY DEF ChangeAccepted
<1> HIDE DEF r
<1>3. m \in EntryOffers(u, e) <=> MayEdit(u) /\ ~ChangePending(u, e) /\ m \in OffersAtRest(e)
  BY DEF EntryOffers, OffersAtRest
<1>4. MutationAllowed(u, e, m) => MayEdit(u)
  BY DEF MutationAllowed, EditorEndpoint
<1>5. AppliesNow(r) <=> u \in ServerAdmins /\ Applicable(servers[e], m)
  BY <1>1 DEF AppliesNow
<1>6. Queues(r) <=> u \notin ServerAdmins /\ ~ChangePending(u, e)
  BY <1>1 DEF Queues, ChangePending, OnePendingPerEntryIdx
<1>7. u \in ServerAdmins => ~ChangePending(u, e)
  BY DEF ChangePending
<1> QED
  BY <1>2, <1>3, <1>4, <1>5, <1>6, <1>7, OfferedMutation

LEMMA EntryButtons == ReviewInv => EntryOffersMatchServer
<1> SUFFICES ASSUME ReviewInv, NEW u \in Users, NEW e \in {x \in Entries : Live(x)}
             PROVE  /\ \A m \in Proposals(e) :
                           m \in EntryOffers(u, e) <=> ChangeAccepted(u, e, m)
                    /\ WithdrawChangeOffered(u, e) <=>
                           /\ WithdrawChangeAllowed(u, e)
                           /\ \E c \in Changes :
                                 /\ PendingChange(e, c)
                                 /\ WithdrawChangeMatches([op |-> "withdraw_change",
                                                           entry |-> e, change |-> c])
                    /\ DeleteOffered(u, e) <=> DeleteAllowed(u, e)
  BY DEF EntryOffersMatchServer
<1>1. e \in Entries /\ Live(e)
  OBVIOUS
<1>2. \A m \in Proposals(e) : m \in EntryOffers(u, e) <=> ChangeAccepted(u, e, m)
  BY <1>1, EntryChangeOffers
<1>3. ASSUME NEW c \in Changes, PendingChange(e, c)
      PROVE  WithdrawChangeMatches([op |-> "withdraw_change", entry |-> e, change |-> c])
  BY <1>3, RolesAssumption DEF WithdrawChangeMatches, PendingChange
<1>4. WithdrawChangeOffered(u, e) <=>
          WithdrawChangeAllowed(u, e) /\ \E c \in Changes : PendingChange(e, c)
  BY <1>1 DEF WithdrawChangeOffered, WithdrawChangeAllowed, EditorEndpoint
<1>5. DeleteOffered(u, e) <=> DeleteAllowed(u, e)
  BY DEF DeleteOffered, DeleteAllowed
<1> QED
  BY <1>2, <1>3, <1>4, <1>5

\* The buttons of an entry page that are enabled are the changes the server
\* takes from this user.
THEOREM EntryButtonsWork == Spec => []EntryOffersMatchServer
BY EntryButtons, Inductive, PTL

LEMMA QueueRejectable == ReviewInv /\ OneAtATime => QueueCanBeEmptied
<1> SUFFICES ASSUME ReviewInv, OneAtATime PROVE QueueCanBeEmptied
  OBVIOUS
<1>1. ASSUME NEW u \in Users, NEW q \in QueuedVersions(u)
      PROVE  LET r == [op |-> "read_version", actor |-> u, entry |-> q[1], version |-> q[2],
                       revision |-> versions[q[1]][q[2]].revision,
                       requestPublic |-> versions[q[1]][q[2]].requestPublic]
                 reject == [r EXCEPT !.op = "reject_version"]
             IN  /\ RejectAllowed(r, q[1])
                 /\ RejectMatches(reject)
                 /\ RowAccepted(q[1], q[2], Rejected(reject))
  <2> DEFINE r == [op |-> "read_version", actor |-> u, entry |-> q[1], version |-> q[2],
                   revision |-> versions[q[1]][q[2]].revision,
                   requestPublic |-> versions[q[1]][q[2]].requestPublic]
             reject == [r EXCEPT !.op = "reject_version"]
  <2>1. q[1] \in Entries /\ q[2] \in Versions /\ Live(q[1]) /\ Pending(q[1], q[2])
    BY <1>1 DEF QueuedVersions
  <2>2. /\ r.op = "read_version"
        /\ reject.op = "reject_version" /\ reject.entry = q[1] /\ reject.version = q[2]
        /\ reject.revision = versions[q[1]][q[2]].revision
    OBVIOUS
  <2> HIDE DEF r, reject
  <2>3. RejectAllowed(r, q[1]) /\ RejectMatches(reject)
    BY <2>1, <2>2 DEF RejectAllowed, RejectMatches
  <2>4. RowAccepted(q[1], q[2], Rejected(reject))
    BY <2>1, <2>2, RejectionAccepted
  <2> QED
    BY <2>3, <2>4 DEF r, reject
<1>2. ASSUME NEW u \in Users, NEW q \in QueuedChanges(u)
      PROVE  LET r == [op |-> "read_change", actor |-> u, entry |-> q[1], loaded |-> q[2],
                       revision |-> changes[q[2]].revision, change |-> None]
             IN  /\ RejectChangeAllowed(r, q[1])
                 /\ \A c \in Changes :
                       PendingChange(q[1], c) =>
                           RejectChangeMatches([r EXCEPT !.op = "reject_change", !.change = c])
  <2>1. q[1] \in Entries /\ q[2] \in Changes /\ Live(q[1]) /\ PendingChange(q[1], q[2])
    BY <1>2 DEF QueuedChanges
  <2>2. \A c \in Changes : PendingChange(q[1], c) => c = q[2]
    BY <2>1 DEF OneAtATime
  <2> QED
    BY <2>1, <2>2, RolesAssumption DEF RejectChangeAllowed, RejectChangeMatches, PendingChange
<1>3. ASSUME NEW u \in Users, NEW e \in QueuedDeletions(u)
      PROVE  /\ RejectDeletionAllowed(u, e)
             /\ RejectDeletionMatches([op |-> "reject_deletion", entry |-> e])
  BY <1>3 DEF QueuedDeletions, RejectDeletionAllowed, ReviewerEndpoint, RejectDeletionMatches,
              Live, Deleted
<1> QED
  BY <1>1, <1>2, <1>3 DEF QueueCanBeEmptied

\* Whoever sees an item in the review queue can reject it: the constraints let
\* a pending version become rejected because it is not published, and the
\* handler finds the change that is listed because it is the only one pending.
THEOREM QueueItemsCanBeRejected == Spec => []QueueCanBeEmptied
BY QueueRejectable, Inductive, QueueIsUnambiguous, PTL

-----------------------------------------------------------------------------
(* The revision                                                            *)

\* A reviewer's decision carries the revision all rows have.
RevisionOne(r) ==
    r.op \in {"read_version", "approve_version", "reject_version",
              "read_change", "approve_change", "reject_change"} => r.revision = 1

\* The inductive invariant behind RevisionAlwaysMatches.
RevisionsStand ==
    /\ \A e \in Entries, v \in Versions : versions[e][v].revision = 1
    /\ \A c \in Changes : changes[c].revision = 1
    /\ \A r \in requests : RevisionOne(r)

\* Requests are only added by handlers, and with the revision they read.
LEMMA VersionHandlersRevision ==
    ASSUME ReviewInv, RevisionsStand, VersionHandlers
    PROVE  \A r \in requests' : RevisionOne(r)
<1>1. ASSUME NEW u \in Users, NEW e \in Entries, CreateServer(u, e)
      PROVE  \A r \in requests' : RevisionOne(r)
  BY <1>1 DEF CreateServer, RevisionsStand
<1>2. ASSUME NEW e \in Entries, NEW r \in requests, ApproveVersion(r, e) \/ RejectVersion(r, e)
      PROVE  \A s \in requests' : RevisionOne(s)
  <2>1. r \in VersionDecision /\ r.op = "read_version"
    BY <1>2, RequestKinds DEF ReviewInv, TypeOK, ApproveVersion, RejectVersion, RejectAllowed
  <2>2. r.revision = 1
    BY <2>1 DEF RevisionsStand, RevisionOne
  <2>3. \A o \in {"approve_version", "reject_version"} :
            RevisionOne([r EXCEPT !.op = o, !.entry = e])
    BY <2>1, <2>2 DEF RevisionOne, VersionDecision
  <2> QED
    BY <1>2, <2>3 DEF ApproveVersion, RejectVersion, Continue, RevisionsStand
<1>3. ASSUME NEW u \in Users, NEW e \in Entries, NEW v \in Versions,
             \/ CreateVersion(u, e, v)
             \/ WithdrawVersion(u, e, v)
             \/ PublishVersion(u, e, v)
             \/ \E p \in BOOLEAN : SubmitVersion(u, e, v, p)
      PROVE  \A r \in requests' : RevisionOne(r)
  BY <1>3 DEF CreateVersion, WithdrawVersion, PublishVersion, SubmitVersion, Accept, RevisionOne,
              RevisionsStand
<1>4. ASSUME NEW u \in Users, NEW e \in Entries, NEW v \in Versions, LoadVersion(u, e, v)
      PROVE  \A r \in requests' : RevisionOne(r)
  BY <1>4 DEF LoadVersion, Accept, RevisionOne, RevisionsStand
<1> QED
  BY <1>1, <1>2, <1>3, <1>4 DEF VersionHandlers

LEMMA ChangeHandlersRevision ==
    ASSUME ReviewInv, RevisionsStand, ChangeHandlers
    PROVE  \A r \in requests' : RevisionOne(r)
<1>1. ASSUME NEW u \in Users, NEW e \in Entries, NEW m, AcceptMutation(u, e, m)
      PROVE  \A r \in requests' : RevisionOne(r)
  BY <1>1 DEF AcceptMutation, Accept, RevisionOne, RevisionsStand
<1>2. ASSUME NEW u \in Users, NEW e \in Entries, NEW c \in Changes, LoadChange(u, e, c)
      PROVE  \A r \in requests' : RevisionOne(r)
  BY <1>2 DEF LoadChange, Accept, RevisionOne, RevisionsStand
<1>3. ASSUME NEW u \in Users, NEW e \in Entries, WithdrawMCPChange(u, e)
      PROVE  \A r \in requests' : RevisionOne(r)
  BY <1>3 DEF WithdrawMCPChange, Accept, RevisionOne, RevisionsStand
<1>4. ASSUME NEW e \in Entries, NEW r \in requests,
             ApproveMCPChange(r, e) \/ RejectMCPChange(r, e)
      PROVE  \A s \in requests' : RevisionOne(s)
  <2>1. r \in ChangeDecision /\ r.op = "read_change"
    BY <1>4, RequestKinds DEF ReviewInv, TypeOK, ApproveMCPChange, RejectMCPChange,
                              RejectChangeAllowed
  <2>2. r.revision = 1
    BY <2>1 DEF RevisionsStand, RevisionOne
  <2>3. \A o \in {"approve_change", "reject_change"} :
            RevisionOne([r EXCEPT !.op = o, !.entry = e])
    BY <2>1, <2>2 DEF RevisionOne, ChangeDecision
  <2> QED
    BY <1>4, <2>3 DEF ApproveMCPChange, RejectMCPChange, Continue, RevisionsStand
<1> QED
  BY <1>1, <1>2, <1>3, <1>4
     DEF ChangeHandlers, SetVisibility, DeprecateServer, UndeprecateServer, PatchServer

LEMMA ChangeStoreCallsRevision ==
    ASSUME ReviewInv, RevisionsStand, ChangeStoreCalls
    PROVE  \A r \in requests' : RevisionOne(r)
<1>1. ASSUME NEW r \in requests, NEW c \in Changes, GetPendingEntryChange(r, c)
      PROVE  \A s \in requests' : RevisionOne(s)
  <2>1. r \in ChangeDecision \/ r \in ChangeWithdrawal
    BY <1>1, RequestKinds DEF ReviewInv, TypeOK, GetPendingEntryChange
  <2>2. RevisionOne(r)
    BY DEF RevisionsStand
  <2>3. RevisionOne([r EXCEPT !.change = c])
    BY <2>1, <2>2 DEF RevisionOne, ChangeDecision, ChangeWithdrawal
  <2> QED
    BY <1>1, <2>3 DEF GetPendingEntryChange, Continue, RevisionsStand
<1>2. ASSUME NEW r \in requests,
             \/ \E c \in Changes : CreateEntryChangeRequest(r, c)
             \/ ApplyNow(r) \/ ApproveEntryChangeRequest(r)
             \/ RejectEntryChangeRequest(r) \/ WithdrawEntryChangeRequest(r)
      PROVE  \A s \in requests' : RevisionOne(s)
  BY <1>2 DEF CreateEntryChangeRequest, ApplyNow, ApproveEntryChangeRequest,
              RejectEntryChangeRequest, WithdrawEntryChangeRequest, Answer, RevisionsStand
<1> QED
  BY <1>1, <1>2 DEF ChangeStoreCalls

LEMMA RequestsRevision ==
    ASSUME ReviewInv, RevisionsStand, [Next]_vars
    PROVE  \A r \in requests' : RevisionOne(r)
<1>1. CASE VersionStoreCalls
  BY <1>1 DEF VersionStoreCalls, CreateMCPServerVersion, SubmitMCPVersion, WithdrawMCPVersion,
              ApproveMCPVersion, RejectMCPVersion, PublishMCPServerVersion, Answer, RevisionsStand
<1>2. CASE DeletionHandlers
  BY <1>2 DEF DeletionHandlers, RequestDeletion, ApproveDeletion, RejectDeletion, DeleteServer,
              Accept, RevisionOne, RevisionsStand
<1>3. CASE DeletionStoreCalls
  BY <1>3 DEF DeletionStoreCalls, RequestMCPDeletion, ApproveMCPDeletion, RejectMCPDeletion,
              DeleteMCPServer, Answer, RevisionsStand
<1>4. CASE Errors
  BY <1>4 DEF Errors, Fail, Answer, RevisionsStand
<1>5. CASE UNCHANGED vars
  BY <1>5 DEF vars, RevisionsStand
<1> QED
  BY <1>1, <1>2, <1>3, <1>4, <1>5, VersionHandlersRevision, ChangeHandlersRevision,
     ChangeStoreCallsRevision
     DEF Next, VersionNext, ChangeNext, DeletionNext

\* No write of a version row touches its revision.
LEMMA VersionsRevision ==
    ASSUME ReviewInv, RevisionsStand, [Next]_vars, NEW e \in Entries, NEW v \in Versions
    PROVE  versions'[e][v].revision = 1
<1>1. /\ versions \in [Entries -> [Versions -> VersionRow]]
      /\ versions[e][v].revision = 1
  BY DEF ReviewInv, TypeOK, RevisionsStand
<1>2. ASSUME NEW r \in requests, NEW row, WriteVersion(r.entry, r.version, row),
             row.revision = 1
      PROVE  versions'[e][v].revision = 1
  BY <1>1, <1>2 DEF WriteVersion
<1>3. CASE VersionStoreCalls
  <2> PICK r \in requests :
        \/ CreateMCPServerVersion(r) \/ SubmitMCPVersion(r) \/ WithdrawMCPVersion(r)
        \/ ApproveMCPVersion(r) \/ RejectMCPVersion(r) \/ PublishMCPServerVersion(r)
    BY <1>3 DEF VersionStoreCalls
  <2> DEFINE old == versions[r.entry][r.version]
  <2>1. /\ r.entry \in Entries
        /\ r.op \in {"create_version", "submit_version", "withdraw_version", "approve_version",
                     "reject_version", "publish_version"}
    BY RequestEntry
       DEF CreateMCPServerVersion, SubmitMCPVersion, SubmitMatches, WithdrawMCPVersion,
           WithdrawMatches, ApproveMCPVersion, RejectMCPVersion, RejectMatches,
           PublishMCPServerVersion, PublishMatches
  <2>2. r.version \in Versions
    BY <2>1, RequestKinds DEF ReviewInv, TypeOK, VersionRequest, SubmitRequest, VersionDecision
  <2>3. old \in VersionRow /\ old.revision = 1
    BY <2>1, <2>2 DEF ReviewInv, TypeOK, RevisionsStand
  <2>4. \/ WriteVersion(r.entry, r.version, [AbsentVersion EXCEPT !.reviewState = "none"])
        \/ WriteVersion(r.entry, r.version, Submitted(r))
        \/ WriteVersion(r.entry, r.version, Withdrawn(r))
        \/ WriteVersion(r.entry, r.version, Rejected(r))
        \/ WriteVersion(r.entry, r.version, Published(r))
        \/ WriteVersion(r.entry, r.version, [old EXCEPT !.reviewState = "none",
                                                        !.reviewedBy = r.actor,
                                                        !.published = TRUE])
    BY DEF CreateMCPServerVersion, SubmitMCPVersion, WithdrawMCPVersion, ApproveMCPVersion,
           RejectMCPVersion, PublishMCPServerVersion
  <2>5. /\ [AbsentVersion EXCEPT !.reviewState = "none"].revision = 1
        /\ Submitted(r).revision = 1
        /\ Withdrawn(r).revision = 1
        /\ Rejected(r).revision = 1
        /\ Published(r).revision = 1
        /\ [old EXCEPT !.reviewState = "none", !.reviewedBy = r.actor,
                       !.published = TRUE].revision = 1
    BY <2>3 DEF AbsentVersion, Submitted, Withdrawn, Rejected, Published, VersionRow
  <2> QED
    BY <1>2, <2>4, <2>5
<1>4. CASE DeletionStoreCalls
  <2>1. Cancelled(versions[e][v]).revision = 1
    BY <1>1 DEF Cancelled, VersionRow
  <2> QED
    BY <1>1, <1>4, <2>1, RequestEntry
       DEF DeletionStoreCalls, RequestMCPDeletion, ApproveMCPDeletion, RejectMCPDeletion,
           DeleteMCPServer
<1> QED
  BY <1>1, <1>3, <1>4, Writers
     DEF tables, CreateServer, CreateEntryChangeRequest, ApplyNow, ApproveEntryChangeRequest,
         RejectEntryChangeRequest, WithdrawEntryChangeRequest

\* Nor does one of a change.
LEMMA ChangesRevision ==
    ASSUME ReviewInv, RevisionsStand, [Next]_vars, NEW d \in Changes
    PROVE  changes'[d].revision = 1
<1>1. /\ changes \in [Changes -> ChangeRow]
      /\ changes[d].revision = 1
  BY DEF ReviewInv, TypeOK, RevisionsStand
<1>2. ASSUME NEW r \in requests, NEW c \in Changes, CreateEntryChangeRequest(r, c)
      PROVE  changes'[d].revision = 1
  BY <1>1, <1>2 DEF CreateEntryChangeRequest
<1>3. ASSUME NEW r \in requests,
             \/ ApproveEntryChangeRequest(r) \/ RejectEntryChangeRequest(r)
             \/ WithdrawEntryChangeRequest(r)
      PROVE  changes'[d].revision = 1
  <2>1. /\ Decided(changes[d], "approved", r.actor).revision = 1
        /\ Decided(changes[d], "rejected", r.actor).revision = 1
    BY <1>1 DEF Decided, ChangeRow, AbsentChange
  <2>2. [changes[d] EXCEPT !.state = "withdrawn"].revision = 1
    BY <1>1 DEF ChangeRow, AbsentChange
  <2>3. \/ changes' = [changes EXCEPT ![r.change] = Decided(changes[r.change], "approved", r.actor)]
        \/ changes' = [changes EXCEPT ![r.change] = Decided(changes[r.change], "rejected", r.actor)]
        \/ changes' = [changes EXCEPT ![r.change] =
                          [changes[r.change] EXCEPT !.state = "withdrawn"]]
    BY <1>3 DEF ApproveEntryChangeRequest, RejectEntryChangeRequest, WithdrawEntryChangeRequest
  <2>4. CASE d # r.change
    <3>1. changes'[d] = changes[d]
      BY <1>1, <2>3, <2>4
    <3> QED
      BY <1>1, <3>1
  <2>5. CASE d = r.change
    <3>1. \/ changes'[d] = Decided(changes[d], "approved", r.actor)
          \/ changes'[d] = Decided(changes[d], "rejected", r.actor)
          \/ changes'[d] = [changes[d] EXCEPT !.state = "withdrawn"]
      BY <1>1, <2>3, <2>5
    <3> QED
      BY <2>1, <2>2, <3>1
  <2> QED
    BY <2>4, <2>5
<1>4. CASE DeletionStoreCalls
  <2>1. [changes[d] EXCEPT !.state = "withdrawn"].revision = 1
    BY <1>1 DEF ChangeRow, AbsentChange
  <2> QED
    BY <1>1, <1>4, <2>1
       DEF DeletionStoreCalls, RequestMCPDeletion, ApproveMCPDeletion, RejectMCPDeletion,
           DeleteMCPServer
<1>5. CASE VersionStoreCalls
  BY <1>1, <1>5 DEF VersionStoreCalls, CreateMCPServerVersion, SubmitMCPVersion,
         WithdrawMCPVersion, ApproveMCPVersion, RejectMCPVersion, PublishMCPServerVersion
<1> QED
  BY <1>1, <1>2, <1>3, <1>4, <1>5, Writers DEF tables, CreateServer, ApplyNow

\* The revision a decision carries is that of the row it decides, however often
\* the row was withdrawn and submitted again in between: the check the reviewer
\* is promised ("review-revision-mismatch") cannot refuse anything.
THEOREM RevisionCheckIsVacuous == Spec => []RevisionAlwaysMatches
<1>1. Init => RevisionsStand
  BY DEF Init, RevisionsStand, AbsentVersion, AbsentChange
<1>2. ReviewInv /\ RevisionsStand /\ [Next]_vars => RevisionsStand'
  <2> SUFFICES ASSUME ReviewInv, RevisionsStand, [Next]_vars PROVE RevisionsStand'
    OBVIOUS
  <2> QED
    BY RequestsRevision, VersionsRevision, ChangesRevision DEF RevisionsStand, RevisionOne
<1>3. ReviewInv /\ RevisionsStand => RevisionAlwaysMatches
  <2> SUFFICES ASSUME ReviewInv, RevisionsStand, NEW r \in requests
               PROVE  /\ r.op \in {"approve_version", "reject_version"} =>
                             versions[r.entry][r.version].revision = r.revision
                      /\ r.op \in {"approve_change", "reject_change"} /\ r.change # None =>
                             changes[r.change].revision = r.revision
    BY DEF RevisionAlwaysMatches
  <2>1. RevisionOne(r)
    BY DEF RevisionsStand
  <2>2. ASSUME r.op \in {"approve_version", "reject_version"}
        PROVE  r.entry \in Entries /\ r.version \in Versions
    BY <2>2, RequestKinds DEF ReviewInv, TypeOK, VersionDecision
  <2> QED
    BY <2>1, <2>2, RequestChange DEF RevisionsStand, RevisionOne
<1> QED
  BY <1>1, <1>2, <1>3, Inductive, PTL DEF Spec

\* The parts of the workflow that runs explore on their own are runs of the
\* whole, so every theorem above holds of them too.
THEOREM PartsAreRuns == (ReviewSpec => Spec) /\ (ChangeSpec => Spec)
<1>1. [VersionNext \/ DeletionNext \/ Errors]_vars => [Next]_vars
  BY DEF Next
<1>2. [VersionNext \/ ChangeNext \/ Errors]_vars => [Next]_vars
  BY DEF Next
<1> QED
  BY <1>1, <1>2, PTL DEF Spec, ReviewSpec, ChangeSpec

=============================================================================
