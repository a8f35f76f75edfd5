------------------------- MODULE RegistryRefinement -------------------------
(***************************************************************************)
(* Proof that what anonymous readers are shown refines Catalog, for any    *)
(* number of entries, versions, changes, users and requests in flight.     *)
(*                                                                         *)
(* A step changes what is shown of one entry at most, publishes one of its *)
(* versions at most, and unpublishes none; and one entry at most is live.  *)
(* The four ways what is shown of an entry can change then are the four    *)
(* actions of the catalogue.                                               *)
(***************************************************************************)
EXTENDS RegistryProofs

\* One entry at most holds the slug.
OneLive == \A e, f \in Entries : Live(e) /\ Live(f) => e = f

\* The entry's row after a step of the workflow, when it is not the insertion
\* of the row, is live only if it was.
LEMMA StillDead ==
    ASSUME ReviewInv, [Next]_vars, NEW e \in Entries, ~Live(e), Live(e)'
    PROVE  \E u \in Users : CreateServer(u, e)
<1> servers \in [Entries -> ServerRow]
  BY DEF ReviewInv, TypeOK
<1>1. servers[e].status = "absent"
  BY DeletedStep DEF Live
<1>2. ASSUME NEW u \in Users, NEW f \in Entries, CreateServer(u, f)
      PROVE  f = e
  BY <1>2 DEF CreateServer, Live
<1>3. ASSUME NEW r \in requests, ApproveMCPVersion(r) \/ PublishMCPServerVersion(r)
      PROVE  FALSE
  <2>1. r.entry \in Entries
    BY RequestEntry
  <2>2. servers'[e].status = servers[e].status
    BY <1>1, <1>3, <2>1 DEF ApproveMCPVersion, PublishMCPServerVersion, Promoted, ServerRow
  <2> QED
    BY <2>2 DEF Live
<1>4. ASSUME NEW f \in Entries, NEW m \in Mutation, Applicable(servers[f], m),
             servers' = [servers EXCEPT ![f] = Applied(@, m)]
      PROVE  FALSE
  <2>1. servers'[e].status = servers[e].status
    BY <1>1, <1>4 DEF Applicable, Applied, ServerRow, Mutation
  <2> QED
    BY <2>1 DEF Live
<1>5. ASSUME NEW r \in requests, ApplyNow(r)
      PROVE  FALSE
  <2>1. r.entry \in Entries /\ r.mutation \in Mutation
    BY <1>5, RequestKinds DEF ReviewInv, TypeOK, MutationRequest, ApplyNow, AppliesNow
  <2> QED
    BY <1>4, <1>5, <2>1 DEF ApplyNow, AppliesNow
<1>6. ASSUME NEW r \in requests, ApproveEntryChangeRequest(r)
      PROVE  FALSE
  <2>1. r.change \in Changes
    BY <1>6, RequestChange DEF ApproveEntryChangeRequest
  <2>2. changes[r.change].entry \in Entries /\ changes[r.change].mutation \in Mutation
    BY <1>6, <2>1 DEF ReviewInv, TypeOK, ChangeRow, AbsentChange, ApproveEntryChangeRequest
  <2> QED
    BY <1>4, <1>6, <2>2 DEF ApproveEntryChangeRequest
<1>7. ASSUME NEW r \in requests,
             \/ RequestMCPDeletion(r) \/ ApproveMCPDeletion(r) \/ RejectMCPDeletion(r)
             \/ DeleteMCPServer(r)
      PROVE  FALSE
  <2>1. r.entry \in Entries
    BY RequestEntry
  <2>2. servers'[e].status \in {servers[e].status, "deleted"}
    <3>1. CASE RequestMCPDeletion(r)
      BY <2>1, <3>1 DEF RequestMCPDeletion, ServerRow
    <3>2. CASE ApproveMCPDeletion(r)
      BY <2>1, <3>2 DEF ApproveMCPDeletion, ServerRow
    <3>3. CASE RejectMCPDeletion(r)
      BY <2>1, <3>3 DEF RejectMCPDeletion, ServerRow
    <3>4. CASE DeleteMCPServer(r)
      BY <2>1, <3>4 DEF DeleteMCPServer, ServerRow
    <3> QED
      BY <1>7, <3>1, <3>2, <3>3, <3>4
  <2> QED
    BY <2>2 DEF Live
<1>8. UNCHANGED servers => FALSE
  BY DEF Live
<1>9. VersionStoreCalls => \/ UNCHANGED servers
                           \/ \E r \in requests : ApproveMCPVersion(r) \/ PublishMCPServerVersion(r)
  BY DEF VersionStoreCalls, CreateMCPServerVersion, SubmitMCPVersion, WithdrawMCPVersion,
         RejectMCPVersion
<1> QED
  BY <1>2, <1>3, <1>5, <1>6, <1>7, <1>8, <1>9, Writers
     DEF CreateEntryChangeRequest, RejectEntryChangeRequest, WithdrawEntryChangeRequest,
         DeletionStoreCalls, tables

\* The unique index on live slugs holds after every step.
LEMMA OneLiveStep == ReviewInv /\ OneLive /\ [Next]_vars => OneLive'
<1> SUFFICES ASSUME ReviewInv, OneLive, [Next]_vars,
                    NEW e \in Entries, NEW f \in Entries, Live(e)', Live(f)'
             PROVE  e = f
  BY DEF OneLive
<1>1. ASSUME NEW x \in Entries, NEW u \in Users, CreateServer(u, x), NEW y \in Entries,
             Live(y)'
      PROVE  x = y
  <2>1. servers' = [servers EXCEPT ![x].status = "draft"] /\ (\A z \in Entries \ {x} : ~Live(z))
    BY <1>1 DEF CreateServer, SlugLiveIdx
  <2> QED
    BY <1>1, <2>1 DEF Live, ReviewInv, TypeOK
<1>2. CASE Live(e) /\ Live(f)
  BY <1>2 DEF OneLive
<1> QED
  BY <1>1, <1>2, StillDead

-----------------------------------------------------------------------------
(* One entry, one version at a time                                        *)

SameRow(e) == servers'[e] = servers[e] /\ versions'[e] = versions[e]

\* At most one of the entry's versions is published or unpublished.
OneFlip(e) ==
    \A v, w \in Versions :
        /\ versions'[e][v].published # versions[e][v].published
        /\ versions'[e][w].published # versions[e][w].published
        => v = w

\* A store call of a version writes that version and its entry's row.
LEMMA VersionRowStep ==
    ASSUME ReviewInv, VersionStoreCalls
    PROVE  \E e \in Entries : OneFlip(e) /\ \A f \in Entries \ {e} : SameRow(f)
<1> /\ servers \in [Entries -> ServerRow]
    /\ versions \in [Entries -> [Versions -> VersionRow]]
  BY DEF ReviewInv, TypeOK
<1> PICK r \in requests :
        \/ CreateMCPServerVersion(r) \/ SubmitMCPVersion(r) \/ WithdrawMCPVersion(r)
        \/ ApproveMCPVersion(r) \/ RejectMCPVersion(r) \/ PublishMCPServerVersion(r)
  BY DEF VersionStoreCalls
<1>1. /\ r.op \in {"create_version", "withdraw_version", "publish_version", "submit_version",
                   "approve_version", "reject_version"}
      /\ \E row : WriteVersion(r.entry, r.version, row)
      /\ \/ UNCHANGED servers
         \/ \E row : servers' = [servers EXCEPT ![r.entry] = row]
  BY DEF CreateMCPServerVersion, SubmitMCPVersion, WithdrawMCPVersion, ApproveMCPVersion,
         RejectMCPVersion, PublishMCPServerVersion, SubmitMatches, Submitted, WithdrawMatches,
         Withdrawn, RejectMatches, Rejected, PublishMatches, Published
<1>2. r.entry \in Entries /\ r.version \in Versions
  BY <1>1, RequestKinds DEF ReviewInv, TypeOK, VersionRequest, SubmitRequest, VersionDecision
<1>3. \A f \in Entries \ {r.entry} : SameRow(f)
  BY <1>1, <1>2 DEF SameRow, WriteVersion
<1>4. OneFlip(r.entry)
  BY <1>1, <1>2 DEF OneFlip, WriteVersion
<1> QED
  BY <1>2, <1>3, <1>4

\* Every other store call leaves published versions alone and writes the row
\* of one entry.
LEMMA RowStep ==
    ASSUME ReviewInv, [Next]_vars
    PROVE  \/ UNCHANGED <<servers, versions>>
           \/ \E e \in Entries : OneFlip(e) /\ \A f \in Entries \ {e} : SameRow(f)
<1> /\ servers \in [Entries -> ServerRow]
    /\ versions \in [Entries -> [Versions -> VersionRow]]
  BY DEF ReviewInv, TypeOK
<1>1. ASSUME NEW e \in Entries, UNCHANGED versions,
             \A f \in Entries \ {e} : servers'[f] = servers[f]
      PROVE  OneFlip(e) /\ \A f \in Entries \ {e} : SameRow(f)
  BY <1>1 DEF OneFlip, SameRow
<1>2. ASSUME NEW u \in Users, NEW e \in Entries, CreateServer(u, e)
      PROVE  OneFlip(e) /\ \A f \in Entries \ {e} : SameRow(f)
  BY <1>1, <1>2 DEF CreateServer
<1>3. ASSUME NEW r \in requests, ApplyNow(r)
      PROVE  \E e \in Entries : OneFlip(e) /\ \A f \in Entries \ {e} : SameRow(f)
  BY <1>1, <1>3, RequestEntry DEF ApplyNow
<1>4. ASSUME NEW r \in requests, ApproveEntryChangeRequest(r)
      PROVE  \E e \in Entries : OneFlip(e) /\ \A f \in Entries \ {e} : SameRow(f)
  <2>1. r.change \in Changes
    BY <1>4, RequestChange DEF ApproveEntryChangeRequest
  <2>2. changes[r.change].entry \in Entries
    BY <1>4, <2>1 DEF ReviewInv, TypeOK, ChangeRow, AbsentChange, ApproveEntryChangeRequest
  <2> QED
    BY <1>1, <1>4, <2>2 DEF ApproveEntryChangeRequest
<1>5. ASSUME NEW r \in requests,
             RequestMCPDeletion(r) \/ ApproveMCPDeletion(r) \/ RejectMCPDeletion(r)
      PROVE  \E e \in Entries : OneFlip(e) /\ \A f \in Entries \ {e} : SameRow(f)
  BY <1>1, <1>5, RequestEntry DEF RequestMCPDeletion, ApproveMCPDeletion, RejectMCPDeletion
<1>6. ASSUME NEW r \in requests, DeleteMCPServer(r)
      PROVE  \E e \in Entries : OneFlip(e) /\ \A f \in Entries \ {e} : SameRow(f)
  <2>1. r.entry \in Entries
    BY RequestEntry
  <2>2. versions' = [versions EXCEPT ![r.entry] =
                        [w \in Versions |-> Cancelled(versions[r.entry][w])]]
    BY <1>6 DEF DeleteMCPServer
  <2>3. \A v \in Versions : versions'[r.entry][v].published = versions[r.entry][v].published
    <3> SUFFICES ASSUME NEW v \in Versions
                 PROVE  versions'[r.entry][v].published = versions[r.entry][v].published
      OBVIOUS
    <3>1. versions'[r.entry][v] = Cancelled(versions[r.entry][v])
      BY <2>1, <2>2
    <3>2. versions[r.entry][v] \in VersionRow
      BY <2>1
    <3> QED
      BY <3>1, <3>2 DEF Cancelled, VersionRow
  <2>4. \A f \in Entries \ {r.entry} : SameRow(f)
    BY <1>6, <2>1, <2>2 DEF DeleteMCPServer, SameRow
  <2> QED
    BY <2>1, <2>3, <2>4 DEF OneFlip
<1> QED
  BY <1>2, <1>3, <1>4, <1>5, <1>6, VersionRowStep, Writers
     DEF CreateEntryChangeRequest, RejectEntryChangeRequest, WithdrawEntryChangeRequest,
         DeletionStoreCalls, tables

-----------------------------------------------------------------------------
(* The refinement                                                          *)

\* An entry whose row does not change is shown as before.
LEMMA SameVisible ==
    ASSUME NEW e \in Entries, SameRow(e)
    PROVE  Visible(e)' = Visible(e) /\ (e \in Removed' <=> e \in Removed)
BY DEF SameRow, Visible, Live, Removed

\* The tables start as an empty shelf.
LEMMA CatalogInit == Init => PublicCatalog!Init
BY DEF Init, PublicCatalog!Init, Visible, Removed, Live, AbsentServer

\* A step that changes the row of entry e alone is a step of the catalogue.
LEMMA CatalogEntryStep ==
    ASSUME ReviewInv, ReviewInv', OneLive', [Next]_vars,
           NEW e \in Entries, OneFlip(e), \A f \in Entries \ {e} : SameRow(f)
    PROVE  [PublicCatalog!Next]_(PublicCatalog!vars)
<1> DEFINE shelf == [f \in Entries |-> Visible(f)]
<1>1. \A f \in Entries \ {e} : Visible(f)' = Visible(f) /\ (f \in Removed' <=> f \in Removed)
  BY SameVisible
<1>2. shelf' = [shelf EXCEPT ![e] = Visible(e)']
  BY <1>1
<1>3. CASE e \in Removed' /\ e \notin Removed
  <2>1. Removed' = Removed \cup {e}
    BY <1>1, <1>3 DEF Removed
  <2>2. Visible(e)' = {}
    BY <1>3 DEF Removed, Visible, Live
  <2>3. PublicCatalog!Remove(e)
    BY <1>2, <1>3, <2>1, <2>2 DEF PublicCatalog!Remove
  <2> QED
    BY <2>3 DEF PublicCatalog!Next
<1>4. CASE ~(e \in Removed' /\ e \notin Removed)
  <2>1. e \in Removed' <=> e \in Removed
    BY <1>4, DeletedStep DEF Removed
  <2>2. Removed' = Removed
    BY <1>1, <2>1 DEF Removed
  <2>3. CASE Visible(e)' = Visible(e)
    <3>1. shelf' = shelf
      BY <1>2, <2>3
    <3> QED
      BY <2>2, <3>1 DEF PublicCatalog!vars
  <2>4. CASE Visible(e)' = {} /\ Visible(e) # {}
    <3>1. PublicCatalog!Conceal(e)
      BY <1>2, <2>2, <2>4 DEF PublicCatalog!Conceal
    <3> QED
      BY <3>1 DEF PublicCatalog!Next
  <2>5. CASE Visible(e)' # {} /\ Visible(e) = {}
    <3>1. Live(e)'
      BY <2>5 DEF Visible
    <3>2. e \notin Removed
      BY <2>1, <3>1 DEF Removed, Live
    <3>3. \A f \in Entries : Visible(f) = {}
      BY <1>1, <2>5, <3>1 DEF OneLive, Visible
    <3>4. Visible(e)' \in SUBSET Versions
      BY DEF Visible
    <3>5. PublicCatalog!Reveal(e, Visible(e)')
      BY <1>2, <2>2, <2>5, <3>2, <3>3 DEF PublicCatalog!Reveal
    <3> QED
      BY <3>4, <3>5 DEF PublicCatalog!Next
  <2>6. CASE Visible(e)' # {} /\ Visible(e) # {} /\ Visible(e)' # Visible(e)
    <3>1. /\ Visible(e)' = {v \in Versions : versions'[e][v].published}
          /\ Visible(e) = {v \in Versions : versions[e][v].published}
      BY <2>6 DEF Visible
    <3>2. \A v \in Versions : versions[e][v].published => versions'[e][v].published
      <4> SUFFICES ASSUME NEW v \in Versions, versions[e][v].published
                   PROVE  versions'[e][v].published
        OBVIOUS
      <4>1. versions[e][v] \in VersionRow
        BY DEF ReviewInv, TypeOK
      <4>2. versions'[e][v] \in
              {versions[e][v], [versions[e][v] EXCEPT !.status = "deleted"]}
        BY PublishedStep
      <4> QED
        BY <4>1, <4>2 DEF VersionRow
    <3>3. PICK v \in Versions : versions'[e][v].published /\ ~versions[e][v].published
      BY <2>6, <3>1, <3>2
    <3>4. \A w \in Versions \ {v} : versions'[e][w].published = versions[e][w].published
      BY <3>3 DEF OneFlip, ReviewInv, TypeOK, VersionRow
    <3>5. Visible(e)' = Visible(e) \cup {v} /\ v \notin Visible(e)
      BY <3>1, <3>3, <3>4
    <3>6. PublicCatalog!Stock(e, v)
      BY <1>2, <2>2, <2>6, <3>5 DEF PublicCatalog!Stock
    <3> QED
      BY <3>6 DEF PublicCatalog!Next
  <2> QED
    BY <2>3, <2>4, <2>5, <2>6
<1> QED
  BY <1>3, <1>4

\* Every step of the workflow is one of the catalogue, or invisible.
LEMMA CatalogStep ==
    ASSUME ReviewInv, ReviewInv', OneLive', [Next]_vars
    PROVE  [PublicCatalog!Next]_(PublicCatalog!vars)
<1>1. CASE UNCHANGED <<servers, versions>>
  BY <1>1 DEF PublicCatalog!vars, Visible, Live, Removed
<1> QED
  BY <1>1, RowStep, CatalogEntryStep

\* What anonymous readers are shown behaves as the catalogue promises.
THEOREM CatalogRefined == Spec => ImplementsCatalog
<1>1. Init => OneLive
  BY DEF Init, OneLive, Live, AbsentServer
<1>2. ReviewInv /\ ReviewInv' /\ OneLive' /\ [Next]_vars
        => [PublicCatalog!Next]_(PublicCatalog!vars)
  BY CatalogStep
<1> QED
  BY <1>1, <1>2, CatalogInit, OneLiveStep, Inductive, PTL
     DEF Spec, ImplementsCatalog, PublicCatalog!Spec

=============================================================================
