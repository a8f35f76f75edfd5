---------------------------- MODULE RegistryStore ----------------------------
(***************************************************************************)
(* The tables the review workflow of the registry shares, the constraints  *)
(* PostgreSQL enforces on them, and the HTTP requests in flight.           *)
(*                                                                         *)
(* All entries of the model carry the same namespace and slug: an element  *)
(* of Entries is the id of one mcp_servers row, and the slug can be used   *)
(* again once the row that held it is soft-deleted.                        *)
(*                                                                         *)
(* Every write endpoint has the same two steps.  The handler first         *)
(* resolves the slug to a live row (GetMCPServer) and then, in another     *)
(* statement or transaction, runs a store call keyed by the row id it      *)
(* read.  A request between the two is an element of "requests"; anything  *)
(* can happen to the tables while it is there.  So is an item a reviewer   *)
(* has read from the queue and not decided yet.  A store call is one       *)
(* statement or one transaction whose statements lock the rows they        *)
(* write, and is one step of the model.                                    *)
(***************************************************************************)
EXTENDS Integers, FiniteSets

CONSTANTS
    Entries,       \* ids of the mcp_servers rows created under the one slug
    Versions,      \* names of versions
    Changes,       \* ids of entry_change_requests rows
    Fields,        \* the editable metadata columns of an entry
    FieldValues,   \* the values such a column can hold
    Blank,         \* the value a column has when the entry is created
    Users,         \* the subjects of access tokens
    Editors,       \* users with the Editor (or Admin) role on the publisher
    Reviewers,     \* users with the Reviewer role on the publisher
    ServerAdmins,  \* users with the Server Admin flag
    MaxRequests,   \* bound: requests in flight at once
    None           \* SQL NULL

ASSUME RolesAssumption ==
    /\ Editors \subseteq Users
    /\ Reviewers \subseteq Users
    /\ ServerAdmins \subseteq Users
    /\ None \notin Users
    /\ None \notin Changes

ASSUME BlankAssumption == Blank \in FieldValues

VARIABLES
    servers,    \* mcp_servers: the row of each entry
    versions,   \* mcp_server_versions: the row of each version of each entry
    changes,    \* entry_change_requests
    requests    \* what has been read and not yet acted upon: see Request

tables == <<servers, versions, changes>>
vars == <<servers, versions, changes, requests>>

-----------------------------------------------------------------------------
(* Rows                                                                    *)

Statuses == {"absent", "draft", "published", "deprecated", "deleted"}
Visibilities == {"private", "public"}
ReviewStates == {"absent", "none", "pending_review", "rejected"}
Metadata == [Fields -> FieldValues]

\* deleted_at is not a column of the model: every statement that sets it sets
\* status = 'deleted' too, and no statement undoes either.
ServerRow ==
    [status : Statuses,
     visibility : Visibilities,
     metadata : Metadata,
     deletionRequestedBy : Users \cup {None}]

\* "published" is published_at IS NOT NULL.
VersionRow ==
    [reviewState : ReviewStates,
     published : BOOLEAN,
     status : {"active", "deleted"},
     revision : Nat,
     submittedBy : Users \cup {None},
     requestPublic : BOOLEAN,
     reviewedBy : Users \cup {None}]

\* The proposed mutation of an entry: action and JSONB payload.  "edits" are
\* the columns the author of a metadata edit named in the PATCH body.
Mutation ==
    [action : {"visibility"}, visibility : Visibilities]
        \cup [action : {"deprecation", "undeprecation"}]
        \cup [action : {"metadata_edit"}, metadata : Metadata, edits : SUBSET Fields]

AbsentServer ==
    [status |-> "absent", visibility |-> "private",
     metadata |-> [f \in Fields |-> Blank], deletionRequestedBy |-> None]

AbsentVersion ==
    [reviewState |-> "absent", published |-> FALSE, status |-> "active", revision |-> 1,
     submittedBy |-> None, requestPublic |-> FALSE, reviewedBy |-> None]

AbsentChange ==
    [state |-> "absent", entry |-> None, mutation |-> [action |-> "none"], revision |-> 1,
     submittedBy |-> None, reviewedBy |-> None]

\* A withdrawn change is a deleted row; its ULID is never used again.
ChangeRow ==
    [state : {"pending_review", "approved", "rejected", "withdrawn"},
     entry : Entries,
     mutation : Mutation,
     revision : Nat,
     submittedBy : Users,
     reviewedBy : Users \cup {None}] \cup {AbsentChange}

-----------------------------------------------------------------------------
(* Requests                                                                *)

\* A request carries the arguments of its store call; the actor is one of them
\* only where the call stores or compares it.
VersionRequest ==
    [op : {"create_version", "withdraw_version", "publish_version"},
     entry : Entries, version : Versions]

SubmitRequest ==
    [op : {"submit_version"},
     actor : Users, entry : Entries, version : Versions, requestPublic : BOOLEAN]

\* "read_version" is a pending version on a reviewer's screen, with what was
\* read of it; approving or rejecting turns it into a request.
VersionDecision ==
    [op : {"read_version", "approve_version", "reject_version"},
     actor : Users, entry : Entries, version : Versions, revision : Nat,
     requestPublic : BOOLEAN]

MutationRequest ==
    [op : {"change_entry"}, actor : Users, entry : Entries, mutation : Mutation]

\* "loaded" is the change the reviewer read, "change" the one the handler has
\* looked up, None until it has.
ChangeDecision ==
    [op : {"read_change", "approve_change", "reject_change"},
     actor : Users, entry : Entries, loaded : Changes, revision : Nat,
     change : Changes \cup {None}]

ChangeWithdrawal ==
    [op : {"withdraw_change"}, entry : Entries, change : Changes \cup {None}]

DeletionReview == [op : {"request_deletion", "approve_deletion"}, actor : Users, entry : Entries]

Deletion == [op : {"reject_deletion", "delete_server"}, entry : Entries]

Request ==
    VersionRequest \cup SubmitRequest \cup VersionDecision \cup MutationRequest
        \cup ChangeDecision \cup ChangeWithdrawal \cup DeletionReview \cup Deletion

TypeOK ==
    /\ servers \in [Entries -> ServerRow]
    /\ versions \in [Entries -> [Versions -> VersionRow]]
    /\ changes \in [Changes -> ChangeRow]
    /\ requests \subseteq Request

Init ==
    /\ servers = [e \in Entries |-> AbsentServer]
    /\ versions = [e \in Entries |-> [v \in Versions |-> AbsentVersion]]
    /\ changes = [c \in Changes |-> AbsentChange]
    /\ requests = {}

-----------------------------------------------------------------------------
(* Authorization, reads and constraints                                    *)

\* Server Admin satisfies every requirement; Editor and Reviewer are
\* independent of each other.
MayEdit(u) == u \in Editors \cup ServerAdmins
MayReview(u) == u \in Reviewers \cup ServerAdmins

\* The rows GetMCPServer returns.
Live(e) == servers[e].status \notin {"absent", "deleted"}

Pending(e, v) == versions[e][v].reviewState = "pending_review"

\* The pending row of an entry, as GetPendingEntryChange reads it.
PendingChange(e, c) == changes[c].state = "pending_review" /\ changes[c].entry = e

HasPublished(e) == \E v \in Versions : versions[e][v].published

\* CHECK (review_state = 'none' OR published_at IS NULL)
ReviewUnpublishedChk(row) == row.reviewState = "none" \/ ~row.published

\* Mutant: the index is on (server_id, version).
OnePendingPerVersionIdx(e, v, row) == row.reviewState = "pending_review" => ~Pending(e, v)

\* Unique index on (server_id) WHERE review_state = 'pending_review'
OnePendingIdx(e, v, row) ==
    row.reviewState = "pending_review" => \A w \in Versions \ {v} : ~Pending(e, w)

\* Mutant: the index is not unique.
PendingPerEntryIdx(e) == TRUE

\* Unique index on (resource_type, entry_id) WHERE state = 'pending_review'
OnePendingPerEntryIdx(e) == \A c \in Changes : ~PendingChange(e, c)

\* Unique index on (publisher_id, slug) WHERE status != 'deleted'
SlugLiveIdx(e) == \A f \in Entries \ {e} : ~Live(f)

\* The constraints let version v of entry e become row.
RowAccepted(e, v, row) == ReviewUnpublishedChk(row) /\ OnePendingIdx(e, v, row)

\* A write of one version row: a row that breaks a constraint is an error and
\* the statement does not happen.
WriteVersion(e, v, row) ==
    /\ RowAccepted(e, v, row)
    /\ versions' = [versions EXCEPT ![e][v] = row]

\* Mutant: the submitter is compared the wrong way round for Server Admins.
SelfApprovalOfAdmins(submittedBy, u) == submittedBy = u /\ u \in ServerAdmins

\* The error path of an approve by the submitter; Server Admins are exempt.
SelfApproval(submittedBy, u) == submittedBy = u /\ u \notin ServerAdmins

-----------------------------------------------------------------------------
(* Steps of a request                                                      *)

\* What an endpoint checks before its store call: the role of the caller, and
\* that the slug resolves to a live entry.
EditorEndpoint(u, e) == MayEdit(u) /\ Live(e)
ReviewerEndpoint(u, e) == MayReview(u) /\ Live(e)

\* The handler has passed its checks: the request goes on to its store call.
Accept(r) ==
    /\ Cardinality(requests) < MaxRequests
    /\ requests' = requests \cup {r}
    /\ UNCHANGED tables

\* A request in flight gets to its next step.
Continue(r, next) ==
    /\ requests' = (requests \ {r}) \cup {next}
    /\ UNCHANGED tables

\* The store call of r has answered.
Answer(r) == requests' = requests \ {r}

\* A request ends without effect: its conditional statement matched no row, a
\* constraint or the self-approval check refused it, the client went away, or
\* PostgreSQL broke a lock cycle by aborting it.
Fail(r) ==
    /\ Answer(r)
    /\ UNCHANGED tables

=============================================================================
