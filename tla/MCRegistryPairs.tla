--------------------------- MODULE MCRegistryPairs ---------------------------
(***************************************************************************)
(* An instance of Registry with two versions and two changes.  The whole   *)
(* workflow has too many states with both, so that a behaviour works in    *)
(* two of its three components at a time, and "pair" says in which.        *)
(***************************************************************************)
EXTENDS MCRegistry

VARIABLE pair

\* The versions that exist or are named in a request.
VersionsInUse ==
    {v \in Versions :
        \/ \E e \in Entries : versions[e][v] # AbsentVersion
        \/ \E r \in requests : "version" \in DOMAIN r /\ r.version = v}

\* Bounds, on what is in flight.  In the first pair an entry is deleted by
\* DELETE only; in the second its one version is published directly, which lets
\* it be released, deprecated and restored; columns are edited in the third.
DirectDeletion ==
    \A r \in requests : r.op \notin {"request_deletion", "approve_deletion", "reject_deletion"}

OneVersionNoEdits ==
    /\ Cardinality(VersionsInUse) <= 1
    /\ \A r \in requests :
          /\ r.op \notin {"submit_version", "withdraw_version"}
          /\ r.op = "change_entry" => r.mutation.action # "metadata_edit"

EditsNameColumns ==
    \A r \in requests :
        r.op = "change_entry" /\ r.mutation.action = "metadata_edit" => r.mutation.edits # {}

VersionsAndDeletion ==
    /\ VersionNext \/ DeletionNext \/ Errors
    /\ DirectDeletion'

ChangesAndVersions ==
    /\ ChangeNext \/ VersionNext \/ Errors
    /\ OneVersionNoEdits'

ChangesAndDeletion ==
    /\ ChangeNext \/ DeletionNext \/ Errors \/ \E u \in Users, e \in Entries : CreateServer(u, e)
    /\ EditsNameColumns'

PairsInit == Init /\ pair \in {"versions and deletion", "changes and versions", "changes and deletion"}

PairsNext ==
    /\ \/ pair = "versions and deletion" /\ VersionsAndDeletion
       \/ pair = "changes and versions" /\ ChangesAndVersions
       \/ pair = "changes and deletion" /\ ChangesAndDeletion
    /\ UNCHANGED pair

PairsSpec == PairsInit /\ [][PairsNext]_<<vars, pair>>

=============================================================================
