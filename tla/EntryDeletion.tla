---------------------------- MODULE EntryDeletion ----------------------------
(***************************************************************************)
(* The two ways an entry is soft-deleted: an Editor's deletion request     *)
(* that a Reviewer approves or rejects, and a Server Admin's DELETE.       *)
(***************************************************************************)
EXTENDS RegistryStore

-----------------------------------------------------------------------------
(* Handlers                                                                *)

RequestDeletion(u, e) ==
    /\ EditorEndpoint(u, e)
    /\ Accept([op |-> "request_deletion", actor |-> u, entry |-> e])

ApproveDeletion(u, e) ==
    /\ ReviewerEndpoint(u, e)
    /\ Accept([op |-> "approve_deletion", actor |-> u, entry |-> e])

RejectDeletionAllowed(u, e) == ReviewerEndpoint(u, e)

RejectDeletion(u, e) ==
    /\ RejectDeletionAllowed(u, e)
    /\ Accept([op |-> "reject_deletion", entry |-> e])

DeleteAllowed(u, e) == u \in ServerAdmins /\ Live(e)

DeleteServer(u, e) ==
    /\ DeleteAllowed(u, e)
    /\ Accept([op |-> "delete_server", entry |-> e])

-----------------------------------------------------------------------------
(* Store calls                                                             *)

Deleted(e) == servers[e].status = "deleted"

RequestMCPDeletion(r) ==
    /\ r.op = "request_deletion"
    /\ servers[r.entry].deletionRequestedBy = None
    /\ ~Deleted(r.entry)
    /\ servers' = [servers EXCEPT ![r.entry].deletionRequestedBy = r.actor]
    /\ Answer(r)
    /\ UNCHANGED <<versions, changes>>

\* Only the entry's row is written: its versions keep their status, and what
\* is pending review on it stays pending.
ApproveMCPDeletion(r) ==
    /\ r.op = "approve_deletion"
    /\ servers[r.entry].deletionRequestedBy # None
    /\ ~Deleted(r.entry)
    /\ ~SelfApproval(servers[r.entry].deletionRequestedBy, r.actor)
    /\ servers' = [servers EXCEPT ![r.entry].status = "deleted"]
    /\ Answer(r)
    /\ UNCHANGED <<versions, changes>>

RejectDeletionMatches(r) ==
    /\ r.op = "reject_deletion"
    /\ servers[r.entry].deletionRequestedBy # None
    /\ ~Deleted(r.entry)

RejectMCPDeletion(r) ==
    /\ RejectDeletionMatches(r)
    /\ servers' = [servers EXCEPT ![r.entry].deletionRequestedBy = None]
    /\ Answer(r)
    /\ UNCHANGED <<versions, changes>>

\* A version row after DeleteMCPServer: deleted, and not pending any more.
Cancelled(row) ==
    IF row.reviewState = "pending_review"
    THEN [row EXCEPT !.status = "deleted", !.reviewState = "none", !.submittedBy = None]
    ELSE [row EXCEPT !.status = IF row.reviewState = "absent" THEN @ ELSE "deleted"]

DeleteMCPServer(r) ==
    LET e == r.entry IN
    /\ r.op = "delete_server"
    /\ ~Deleted(e)
    /\ servers' = [servers EXCEPT ![e].status = "deleted"]
    /\ versions' = [versions EXCEPT ![e] = [v \in Versions |-> Cancelled(versions[e][v])]]
    /\ changes' = [c \in Changes |-> IF PendingChange(e, c)
                                     THEN [changes[c] EXCEPT !.state = "withdrawn"]
                                     ELSE changes[c]]
    /\ Answer(r)

-----------------------------------------------------------------------------

DeletionHandlers ==
    \E u \in Users, e \in Entries :
        \/ RequestDeletion(u, e)
        \/ ApproveDeletion(u, e)
        \/ RejectDeletion(u, e)
        \/ DeleteServer(u, e)

DeletionStoreCalls ==
    \E r \in requests :
        \/ RequestMCPDeletion(r)
        \/ ApproveMCPDeletion(r)
        \/ RejectMCPDeletion(r)
        \/ DeleteMCPServer(r)

=============================================================================
