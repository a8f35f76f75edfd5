----------------------------- MODULE EntryChange -----------------------------
(***************************************************************************)
(* Mutations of an entry's row: visibility, deprecation, undeprecation and *)
(* metadata edits.  A Server Admin's request is applied at once; anyone    *)
(* else's becomes a row of entry_change_requests that a Reviewer approves, *)
(* which applies it, or rejects, and an Editor can withdraw.               *)
(***************************************************************************)
EXTENDS RegistryStore

-----------------------------------------------------------------------------
(* What a mutation does to the entry's row                                 *)

\* Mutant: the apply helpers have no status guard.
AlwaysApplicable(row, m) == TRUE

\* The WHERE clause of each apply helper.  Visibility has no status guard.
Applicable(row, m) ==
    \/ m.action = "visibility"
    \/ m.action = "deprecation" /\ row.status = "published"
    \/ m.action = "undeprecation" /\ row.status = "deprecated"
    \/ m.action = "metadata_edit" /\ row.status # "deleted"

Applied(row, m) ==
    CASE m.action = "visibility" -> [row EXCEPT !.visibility = m.visibility]
      [] m.action = "deprecation" -> [row EXCEPT !.status = "deprecated"]
      [] m.action = "undeprecation" -> [row EXCEPT !.status = "published"]
      [] m.action = "metadata_edit" -> [row EXCEPT !.metadata = m.metadata]

-----------------------------------------------------------------------------
(* Handlers: each checks the status it has just read                       *)

AcceptMutation(u, e, m) ==
    /\ EditorEndpoint(u, e)
    /\ Accept([op |-> "change_entry", actor |-> u, entry |-> e, mutation |-> m])

\* Mutant: a draft can be released.
SetAnyVisibility(u, e, vis) ==
    AcceptMutation(u, e, [action |-> "visibility", visibility |-> vis])

VisibilityAllowed(e, vis) == vis = "public" => servers[e].status \in {"published", "deprecated"}

SetVisibility(u, e, vis) ==
    /\ VisibilityAllowed(e, vis)
    /\ AcceptMutation(u, e, [action |-> "visibility", visibility |-> vis])

DeprecationAllowed(e) == servers[e].status = "published"

DeprecateServer(u, e) ==
    /\ DeprecationAllowed(e)
    /\ AcceptMutation(u, e, [action |-> "deprecation"])

UndeprecationAllowed(e) == servers[e].status = "deprecated"

UndeprecateServer(u, e) ==
    /\ UndeprecationAllowed(e)
    /\ AcceptMutation(u, e, [action |-> "undeprecation"])

\* The PATCH body names some columns; the others are filled in with the
\* values the handler has just read, and all of them are written.
PatchServer(u, e, fs, x) ==
    AcceptMutation(u, e,
        [action |-> "metadata_edit", edits |-> fs,
         metadata |-> [f \in Fields |-> IF f \in fs THEN x ELSE servers[e].metadata[f]]])

\* The reviewer opens a pending change from the review queue.
LoadChange(u, e, c) ==
    /\ ReviewerEndpoint(u, e)
    /\ PendingChange(e, c)
    /\ Accept([op |-> "read_change", actor |-> u, entry |-> e, loaded |-> c,
               revision |-> changes[c].revision, change |-> None])

\* The URL carries the slug and the body the revision, not the change's id.
ApproveMCPChange(r, e) ==
    /\ r.op = "read_change"
    /\ Live(e)
    /\ Continue(r, [r EXCEPT !.op = "approve_change", !.entry = e])

RejectChangeAllowed(r, e) == r.op = "read_change" /\ Live(e)

RejectMCPChange(r, e) ==
    /\ RejectChangeAllowed(r, e)
    /\ Continue(r, [r EXCEPT !.op = "reject_change", !.entry = e])

WithdrawChangeAllowed(u, e) == EditorEndpoint(u, e)

WithdrawMCPChange(u, e) ==
    /\ WithdrawChangeAllowed(u, e)
    /\ Accept([op |-> "withdraw_change", entry |-> e, change |-> None])

\* The handler's second read: the one pending change of the entry it resolved.
GetPendingEntryChange(r, c) ==
    /\ r.op \in {"approve_change", "reject_change", "withdraw_change"}
    /\ r.change = None
    /\ PendingChange(r.entry, c)
    /\ Continue(r, [r EXCEPT !.change = c])

-----------------------------------------------------------------------------
(* Store calls                                                             *)

\* Mutant: Editors have the immediate path too.
ApplyForAll(r) ==
    /\ r.op = "change_entry"
    /\ Applicable(servers[r.entry], r.mutation)
    /\ servers' = [servers EXCEPT ![r.entry] = Applied(@, r.mutation)]
    /\ Answer(r)
    /\ UNCHANGED <<versions, changes>>

\* The immediate path of a Server Admin.
AppliesNow(r) ==
    /\ r.op = "change_entry"
    /\ r.actor \in ServerAdmins
    /\ Applicable(servers[r.entry], r.mutation)

ApplyNow(r) ==
    /\ AppliesNow(r)
    /\ servers' = [servers EXCEPT ![r.entry] = Applied(@, r.mutation)]
    /\ Answer(r)
    /\ UNCHANGED <<versions, changes>>

\* Anyone else's mutation is queued, one for an entry at a time.
Queues(r) ==
    /\ r.op = "change_entry"
    /\ r.actor \notin ServerAdmins
    /\ OnePendingPerEntryIdx(r.entry)

CreateEntryChangeRequest(r, c) ==
    /\ Queues(r)
    /\ changes[c].state = "absent"
    /\ changes' = [changes EXCEPT ![c] =
                      [state |-> "pending_review", entry |-> r.entry,
                       mutation |-> r.mutation, revision |-> 1, submittedBy |-> r.actor,
                       reviewedBy |-> None]]
    /\ Answer(r)
    /\ UNCHANGED <<servers, versions>>

Decided(row, state, u) == [row EXCEPT !.state = state, !.reviewedBy = u]

\* Mutant: a change that touches no row is still marked approved.
ApproveWithoutEffect(r) ==
    /\ r.op = "approve_change"
    /\ r.change # None
    /\ LET c == changes[r.change] IN
        /\ c.state = "pending_review"
        /\ c.revision = r.revision
        /\ ~SelfApproval(c.submittedBy, r.actor)
        /\ changes' = [changes EXCEPT ![r.change] = Decided(@, "approved", r.actor)]
        /\ servers' = IF Applicable(servers[c.entry], c.mutation)
                      THEN [servers EXCEPT ![c.entry] = Applied(@, c.mutation)] ELSE servers
    /\ Answer(r)
    /\ UNCHANGED versions

\* Marking the change and applying it are one transaction; an apply that
\* touches no row rolls both back (ErrChangeNotApplicable).
ApproveEntryChangeRequest(r) ==
    /\ r.op = "approve_change"
    /\ r.change # None
    /\ LET c == changes[r.change] IN
        /\ c.state = "pending_review"
        /\ c.revision = r.revision
        /\ ~SelfApproval(c.submittedBy, r.actor)
        /\ Applicable(servers[c.entry], c.mutation)
        /\ changes' = [changes EXCEPT ![r.change] = Decided(@, "approved", r.actor)]
        /\ servers' = [servers EXCEPT ![c.entry] = Applied(@, c.mutation)]
    /\ Answer(r)
    /\ UNCHANGED versions

RejectChangeMatches(r) ==
    /\ r.op = "reject_change"
    /\ r.change # None
    /\ changes[r.change].state = "pending_review"
    /\ changes[r.change].revision = r.revision

RejectEntryChangeRequest(r) ==
    /\ RejectChangeMatches(r)
    /\ changes' = [changes EXCEPT ![r.change] = Decided(@, "rejected", r.actor)]
    /\ Answer(r)
    /\ UNCHANGED <<servers, versions>>

WithdrawChangeMatches(r) ==
    /\ r.op = "withdraw_change"
    /\ r.change # None
    /\ changes[r.change].state = "pending_review"

WithdrawEntryChangeRequest(r) ==
    /\ WithdrawChangeMatches(r)
    /\ changes' = [changes EXCEPT ![r.change].state = "withdrawn"]
    /\ Answer(r)
    /\ UNCHANGED <<servers, versions>>

-----------------------------------------------------------------------------

ChangeHandlers ==
    \E u \in Users, e \in Entries :
        \/ \E vis \in Visibilities : SetVisibility(u, e, vis)
        \/ DeprecateServer(u, e)
        \/ UndeprecateServer(u, e)
        \/ \E fs \in SUBSET Fields, x \in FieldValues : PatchServer(u, e, fs, x)
        \/ \E c \in Changes : LoadChange(u, e, c)
        \/ \E r \in requests : ApproveMCPChange(r, e) \/ RejectMCPChange(r, e)
        \/ WithdrawMCPChange(u, e)

ChangeStoreCalls ==
    \E r \in requests :
        \/ \E c \in Changes : GetPendingEntryChange(r, c) \/ CreateEntryChangeRequest(r, c)
        \/ ApplyNow(r)
        \/ ApproveEntryChangeRequest(r)
        \/ RejectEntryChangeRequest(r)
        \/ WithdrawEntryChangeRequest(r)

=============================================================================
