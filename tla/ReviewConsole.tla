---------------------------- MODULE ReviewConsole ----------------------------
(***************************************************************************)
(* The pages through which people drive the review workflow: the entry     *)
(* page, its versions section and the review queue.  For tables as they    *)
(* are, an operator says which buttons a user finds enabled on a page that *)
(* has just been loaded, and the properties compare them with what the     *)
(* handlers and the store do with the request behind the button.           *)
(*                                                                         *)
(* A page that is not up to date offers what an earlier state offered; the *)
(* requests in flight of RegistryStore stand for those clicks.             *)
(***************************************************************************)
EXTENDS Registry

-----------------------------------------------------------------------------
(* The entry page                                                          *)

\* Mutant: the page does not look at what is pending.
NeverPending(u, e) == FALSE

\* A pending change blocks everyone who would queue another one.
ChangePending(u, e) ==
    /\ u \notin ServerAdmins
    /\ \E c \in Changes : PendingChange(e, c)

\* The "Make public" and "Make private" button.
VisibilityOffers(e) ==
    IF servers[e].visibility = "public" THEN {[action |-> "visibility", visibility |-> "private"]}
    ELSE IF servers[e].status \in {"published", "deprecated"}
    THEN {[action |-> "visibility", visibility |-> "public"]}
    ELSE {}

\* The stages of the lifecycle stepper that react to a click and send a
\* request; "Published" of a draft only scrolls to the versions.
StepperOffers(e) ==
    IF servers[e].status = "deprecated" THEN {[action |-> "undeprecation"]} ELSE {}

StatusOffers(e) ==
    CASE servers[e].status = "published" -> {[action |-> "deprecation"]}
      [] servers[e].status = "deprecated" -> {[action |-> "undeprecation"]}
      [] OTHER -> {}

\* The form sends every column; the usage editor sends one.
EditOffers(e) ==
    {[action |-> "metadata_edit", edits |-> Fields, metadata |-> md] : md \in Metadata}

EntryOffers(u, e) ==
    IF MayEdit(u) /\ Live(e) /\ ~ChangePending(u, e)
    THEN VisibilityOffers(e) \cup StepperOffers(e) \cup StatusOffers(e) \cup EditOffers(e)
    ELSE {}

WithdrawChangeOffered(u, e) ==
    MayEdit(u) /\ Live(e) /\ \E c \in Changes : PendingChange(e, c)

DeleteOffered(u, e) == u \in ServerAdmins /\ Live(e)

-----------------------------------------------------------------------------
(* The versions section                                                    *)

\* Mutant: a published version can be submitted again.
SubmitAnyOffered(u, e, v) ==
    MayEdit(u) /\ versions[e][v].reviewState \in {"rejected", "none"}

\* "isDraftish": a rejected version, or one that was never submitted.
SubmitOffered(u, e, v) ==
    /\ MayEdit(u)
    /\ versions[e][v].reviewState \in {"rejected", "none"}
    /\ ~versions[e][v].published

WithdrawOffered(u, e, v) == MayEdit(u) /\ Pending(e, v)

\* "Publish", or "Approve & publish" if the version is pending.
PublishOffered(u, e, v) ==
    /\ MayReview(u)
    /\ versions[e][v].reviewState # "absent"
    /\ ~versions[e][v].published

-----------------------------------------------------------------------------
(* The review queue                                                        *)

\* What the queue lists: pending rows of entries that are not deleted.
QueuedVersions(u) ==
    {q \in Entries \X Versions : MayReview(u) /\ Live(q[1]) /\ Pending(q[1], q[2])}

\* Mutant: without the filter on the entry's status.
QueuedChangesOfAll(u) ==
    {q \in Entries \X Changes : MayReview(u) /\ PendingChange(q[1], q[2])}

QueuedChanges(u) ==
    {q \in Entries \X Changes : MayReview(u) /\ Live(q[1]) /\ PendingChange(q[1], q[2])}

QueuedDeletions(u) ==
    {e \in Entries : MayReview(u) /\ Live(e) /\ servers[e].deletionRequestedBy # None}

-----------------------------------------------------------------------------
(* What the server makes of a request: the checks of the handler, then the *)
(* WHERE clause of the store call and the constraints of the table.        *)

MutationAllowed(u, e, m) ==
    /\ EditorEndpoint(u, e)
    /\ \/ m.action = "visibility" /\ VisibilityAllowed(e, m.visibility)
       \/ m.action = "deprecation" /\ DeprecationAllowed(e)
       \/ m.action = "undeprecation" /\ UndeprecationAllowed(e)
       \/ m.action = "metadata_edit"

ChangeAccepted(u, e, m) ==
    LET r == [op |-> "change_entry", actor |-> u, entry |-> e, mutation |-> m] IN
    MutationAllowed(u, e, m) /\ (AppliesNow(r) \/ Queues(r))

\* Mutations that would change the row: nobody is offered to make a private
\* entry private.  The form sends all columns.
Proposals(e) ==
    {m \in Mutation : /\ Applied(servers[e], m) # servers[e]
                      /\ m.action = "metadata_edit" => m.edits = Fields}

-----------------------------------------------------------------------------
(* Properties                                                              *)

\* On an up-to-date entry page the enabled buttons are exactly the changes the
\* server would take from this user: nothing is offered that the handlers, the
\* WHERE clauses or the index on pending changes refuse, and nothing allowed is
\* out of reach (pages/admin/mcp/detail.tsx: "Mirrors the server precondition").
EntryOffersMatchServer ==
    \A u \in Users, e \in {x \in Entries : Live(x)} :
        LET offers == EntryOffers(u, e) IN
        /\ \A m \in Proposals(e) : m \in offers <=> ChangeAccepted(u, e, m)
        /\ WithdrawChangeOffered(u, e) <=>
               /\ WithdrawChangeAllowed(u, e)
               /\ \E c \in Changes :
                     /\ PendingChange(e, c)
                     /\ WithdrawChangeMatches([op |-> "withdraw_change", entry |-> e, change |-> c])
        /\ DeleteOffered(u, e) <=> DeleteAllowed(u, e)

\* Submit and Withdraw are enabled exactly when the store call would succeed,
\* another version of the entry that is pending aside: "Another version on this
\* entry is already pending review" (friendlyProblem in versions-section.tsx).
VersionOffersMatchServer ==
    \A u \in Users, e \in {x \in Entries : Live(x)}, v \in Versions :
        LET submit == [op |-> "submit_version", actor |-> u, entry |-> e, version |-> v,
                       requestPublic |-> FALSE]
            withdraw == [op |-> "withdraw_version", entry |-> e, version |-> v]
        IN  /\ (\A w \in Versions \ {v} : ~Pending(e, w)) =>
                   (SubmitOffered(u, e, v) <=>
                        /\ SubmitAllowed(u, e)
                        /\ SubmitMatches(submit)
                        /\ RowAccepted(e, v, Submitted(submit)))
            /\ WithdrawOffered(u, e, v) <=>
                   /\ WithdrawAllowed(u, e)
                   /\ WithdrawMatches(withdraw)
                   /\ RowAccepted(e, v, Withdrawn(withdraw))

\* What the queue lists can always be rejected by whoever sees it, with the
\* revision it is listed with and whichever pending change the handler's second
\* read finds, so that no item stays there for good, on an entry that was
\* deleted or has drifted: "The entry is no longer in a state where this change
\* can be applied. Reject this request." (friendlyProblem in review/index.tsx)
QueueCanBeEmptied ==
    \A u \in Users :
        /\ \A q \in QueuedVersions(u) :
            LET r == [op |-> "read_version", actor |-> u, entry |-> q[1], version |-> q[2],
                      revision |-> versions[q[1]][q[2]].revision,
                      requestPublic |-> versions[q[1]][q[2]].requestPublic]
                reject == [r EXCEPT !.op = "reject_version"]
            IN  /\ RejectAllowed(r, q[1])
                /\ RejectMatches(reject)
                /\ RowAccepted(q[1], q[2], Rejected(reject))
        /\ \A q \in QueuedChanges(u) :
            LET r == [op |-> "read_change", actor |-> u, entry |-> q[1], loaded |-> q[2],
                      revision |-> changes[q[2]].revision, change |-> None]
            IN  /\ RejectChangeAllowed(r, q[1])
                /\ \A c \in Changes :
                      PendingChange(q[1], c) =>
                          RejectChangeMatches([r EXCEPT !.op = "reject_change", !.change = c])
        /\ \A e \in QueuedDeletions(u) :
            /\ RejectDeletionAllowed(u, e)
            /\ RejectDeletionMatches([op |-> "reject_deletion", entry |-> e])

\* "This takes the version live in the public registry immediately": the
\* publication the versions section offers is one the store can make.
OfferedPublicationWorks ==
    \A u \in Users, e \in {x \in Entries : Live(x)}, v \in Versions :
        LET publish == [op |-> "publish_version", entry |-> e, version |-> v] IN
        PublishOffered(u, e, v) =>
            /\ PublishAllowed(u, e)
            /\ PublishMatches(publish)
            /\ RowAccepted(e, v, Published(publish))

=============================================================================
