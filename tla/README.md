# A formal model of ai-registry

`ai-registry` is a registry of MCP servers: publishers own entries, entries have
versions, and nothing an Editor does reaches the public catalogue before a
Reviewer has agreed to it. This directory models the program in TLA+,
model-checks the model with TLC and proves its central properties with TLAPS.

Paths below are relative to the repository; `store/`, `handlers/` and `auth/`
stand for `server/internal/store/`, `server/internal/http/handlers/` and
`server/internal/auth/`, and paths that start with `pages/`, `components/`,
`hooks/` or `lib/` are under `web/src/`.

## 1. The system

One Go server (any number of replicas), one PostgreSQL database that holds all
state, one React application. Replicas share nothing but the database; each
keeps a rate-limit table, a login-lockout table and a JWKS cache in memory. The
browser keeps a token pair in `localStorage`, the selected publisher, and a
cache of answers in each tab; what it shows can be older than what it acts upon.

| component | state | operations | interacts with | what makes it hard | what makes it correct |
|---|---|---|---|---|---|
| Version review (`store/review.go`, `handlers/review.go`) | rows of `mcp_server_versions`: review state, revision, submitter, reviewer, `published_at`, `request_public` | create, submit, withdraw, approve, reject, publish | entries (promotion, release), deletion | read-then-write handlers, two reviewers, withdraw and resubmit | published rows never change; nobody approves their own submission; one pending version per entry |
| Entry changes (`store/entrychange.go`, `handlers/entrychange.go`, `handlers/visibility.go`) | rows of `entry_change_requests` | set visibility, deprecate, undeprecate, patch, approve, reject, withdraw | entries | a change is applied long after it was checked | applied and recorded together; never applied to an entry it does not fit; one pending change |
| Deletion (`store/review.go`, `store/mcp.go`) | `status`, `deletion_requested_by` of `mcp_servers` | request, approve, reject, delete | versions, changes, slugs | slug reuse, residue in the queue | final; parent and children together |
| Public catalogue (`store/mcp.go` reads) | none of its own | list, get | everything above | sees any intermediate state | only published versions of live public entries |
| Schema (`migrations/`) | constraints | - | all writes | the only guard of some transitions | CHECK and partial unique indexes |
| Authorization (`auth/authz.go`, `domain/rbac.go`) | role grants, groups | resolve roles on every write | all handlers | a grant revoked mid-request | Reviewer is the only approver, Server Admin the exception |
| Refresh tokens (`store/refresh.go`, `handlers/auth.go`) | `refresh_tokens` | issue, rotate, revoke, revoke all, sweep | users | concurrent rotations, revocation against rotation | single use, revocation is complete |
| SPA session (`web/src/auth/`) | token pair in `localStorage`, mirror per tab, Web Lock, promise per tab | load, sign in and out, refresh, retry | refresh tokens, OIDC hand-off | tabs, lost answers, late storage events | presents a token twice only when it cannot know better |
| Local login (`handlers/auth.go`) | lockout table, `users.password_hash` | login, change password | refresh tokens | check and count are apart | bounded guesses |
| OIDC login (`handlers/auth_oidc.go`, `store/oidc_requests.go`) | login transactions, hand-off codes | login, callback, exchange, logout | users, refresh tokens | repeated callbacks, expiry | single use, one account per subject |
| Users, grants, groups (`store/users.go`, `grants.go`, `groups.go`) | rows | CRUD, resolve | authorization | delete against grant | no dangling grant counts |
| Tags, publishers (`store/tags.go`, `store/publisher.go`) | vocabulary; publishers | CRUD, reconcile, cascade | versions | no foreign key from versions to tags | a frozen version's tags resolve |
| Console pages (`pages/admin/`) | query cache; selection, dialogs, cursors, scope of each page | load, filter, tick, confirm, decide | all handlers | a click on rows that are minutes old, answers in any order | acts on what is on the screen; shows what it was told |
| Forms and editors (`components/admin/`, `pages/admin/*/new.tsx`) | text typed, tools, revisions, guards | edit, paste, discover, submit in steps, leave | entries, versions, outbound discovery | a step of several fails, a late answer, guards on top of each other | tells what happened; loses no typed work |
| Entry page (`pages/mcp/`, `components/`) | answers per viewer and entry, tab widgets, report dialog | navigate, compare, report | public reads, session | the component outlives the entry it shows | members' answers stay with members |
| Rate limiter, drain, bootstrap, reports, audit, tool discovery, configuration | see PROJECT.json | | | | |

PROJECT.json lists every component with its status and every hazard with its
source line.

## 2. What is modelled

Four families of modules, each checked on its own:

| family | module | models |
|---|---|---|
| workflow | `RegistryStore` | the three tables of the review workflow, the CHECK constraint and the partial unique indexes, the roles, the requests in flight |
| | `VersionReview` | entries created; versions created, submitted, withdrawn, approved, rejected, published |
| | `EntryChange` | visibility, deprecation, undeprecation and metadata edits, immediate or queued |
| | `EntryDeletion` | deletion requests, their review, and the direct DELETE |
| | `Registry` | composes the three; the properties; the refinement mapping |
| | `Catalog` | abstract: what an anonymous reader is promised |
| | `ReviewConsole` | the buttons of the entry page, the versions section and the review queue, as operators over the tables, and what they must agree with |
| tokens | `RefreshTokens` | login, rotation, replay, logout, account changes and the sweep, statement by statement; the properties; the refinement mapping |
| | `Sessions` | abstract: what somebody who has logged in is promised |
| | `SpaSession` | the browser's side: tabs, shared storage, the Web Lock, `authFetch`, sign-in and sign-out, page loads, the OIDC hand-off |
| authoring | `ToolsEditor`, `RevisionsInput`, `VersionEditors` | the editors of a version's tools and protocol revisions, with discovery, paste and detection answered late |
| | `FormGuard`, `EntryForms` | pages, guards and the router; the forms that create and edit an entry, with requests that fail or are not answered |
| | `AuthoringForms` | composes the two |
| pages | `AdminPages`, `AdminQueries` | what every page of the console loads and every button invalidates; the query cache |
| | `AuditLog` | the audit page over the append-only log |
| | `ServerList` | the list of servers: filters, ticks, bulk actions |
| | `ReviewPage` | the review queue page: approval dialog, rejection form |
| | `Permissions`, `PublisherScope` | the role lattice on both sides; the scope of the console, its links, the settings page |
| | `TagVocabulary` | instance tags: page, server, configuration, versions that carry them |
| | `RoleGrants` | the grants section, the server, the bootstrap file |
| | `EntryPage` | the public page of an entry: answers per viewer, tabs, report dialog |
| | `WebPages` | composes the last seven; a behaviour works in one of them |

`MCRegistry`, `MCRegistryPairs`, `MCRefreshTokens`, `MCSpaSession`,
`MCAuthoringForms`, `MCAdminQueries` and `MCWebPages` hold the instances for TLC. `Sublists` defines
sorting and filtering of finite lists for all of them. `RegistryProofs`,
`RegistryRefinement`, `RefreshTokensProofs`, `SpaSessionProofs`,
`AuthoringFormsProofs`, `AdminQueriesProofs` and `WebPagesProofs` hold the proofs,
`SublistsProofs` the lemmas about lists the last ones share.

The families meet as in the program, over HTTP, and each models the other side
as far as it can tell: `SpaSession` sees the token endpoints as one atomic step
per request, which `RefreshTokens` justifies (a rotation commits or does not, and
`ImplementsSessions` says that what has ended stays ended); the pages see the
workflow as submissions that are pending or not, and facts that are written.

### The review workflow: state

`servers[e]`, `versions[e][v]` and `changes[c]` are table rows; a row that was
never inserted has the status "absent". All entries of the model have one
namespace and slug: an element of `Entries` is a row id, and at most one row is
live at a time (migration 000017). Metadata is a function from columns to
values. Timestamps that are written together with another column are not
modelled: `published` is `published_at IS NOT NULL`, and `deleted_at` is set only
together with `status = 'deleted'`.

### The review workflow: steps

A write endpoint is two or three steps. The handler checks the role and resolves
the slug to a live row (`GetMCPServer`); some handlers check the status of that
row, and the ones that decide a change read the pending change
(`GetPendingEntryChange`). Then the store call runs, by row id. Between these
steps the request is an element of `requests`, with the arguments its store call
will get, and anything can happen to the tables. `Accept`, `Continue` and
`Answer` move a request along; `Fail` ends it without effect, which stands for a
conditional statement that matched no row, a violated constraint, a refused
self-approval, a lost connection and a transaction PostgreSQL aborts.

What decides about a request is an operator of its own where the pages are
compared with it: the role and status checks of a handler end in `Allowed`
(`SubmitAllowed`, `DeprecationAllowed`, `EditorEndpoint`), the WHERE clause of a
store call in `Matches` (`SubmitMatches`), the row it would write has the name of
its SET clause (`Submitted`), and `RowAccepted` is the constraints on that row. The
actions have them as conjuncts, and beside them only assignments and the bound
`MaxRequests`, so that `ReviewConsole` can ask what the server would do in any
state, also while other requests are in flight.

What a reviewer has on screen is a request too (`read_version`, `read_change`):
it was read earlier, it names a revision, and the decision carries that revision
with the slug of the entry, not its row id. The handler resolves the slug again.

A store call is one step. Each is a single statement, or a transaction whose
first statement locks the row that decides it, so PostgreSQL at READ COMMITTED
re-evaluates the condition on the latest version of that row. The transactions
do not take their locks in one order (DELETE locks the entry before its versions
and changes; approve and publish lock the version or change first), so two of
them can deadlock; PostgreSQL aborts one, which is `Fail`. They cannot interleave
otherwise in a way another transaction could tell from some serial order.

Roles are constant. `requests` is a set: two identical requests of one user in
flight at once count as one, which loses nothing, because the second would find
the state the first left and the client can send it again.

### Not in the workflow model

The bootstrap loader writes the tables directly before its replica listens
(`bootstrap/bootstrap.go`): it can make an entry public, or deprecated, without a
published version. The properties are about entries created through the API.
Publisher deletion (a hard delete of all rows) and the featured and verified
flags are left out. The audit events written after a store call are not read by
anything that decides.

### Refresh tokens: state

`tokens[t]` is a row of `refresh_tokens`; `t` stands for the raw token, its hash
and the row id, which are one to one. `users[u]` has the two flags tokens depend
on. `held` is the set of raw tokens some answer contained: the server presents
none itself, so only these can be presented. A row keeps its fields when it is
deleted, which only the properties read, and `lineage` is not a column: it names
the token of the login a row goes back to. There is one clock, `now`; the code
compares with the clock of its replica when it rotates and with the database's
when it sweeps, and the expiry of a login's token is computed just before the
INSERT.

### Refresh tokens: steps

Here one transaction is not one step, because the answer to "does it see that
row" is the behaviour in question. `calls[c]` is what runs on connection `c`
between two of its statements.

- A row read `FOR UPDATE`, or updated, is locked until its transaction ends
  (`HoldsToken`, `HoldsUser`). A statement that needs it is enabled only then,
  and looks at the row as it is at that time, which is what PostgreSQL does at
  READ COMMITTED.
- An UPDATE or DELETE of many rows (`revokeUserRefreshTokensSQL`, the sweep)
  chooses its rows from a snapshot taken when it starts and waits for those that
  are locked. So it is two steps, the first of which fills `rows`. Where the
  statement before it only locks a row, both are one step: that lock keeps others
  out a little earlier than it would, which removes no behaviour they could
  observe.
- An INSERT into `refresh_tokens` takes a FOR KEY SHARE lock on the user's row.
  `SELECT ... FOR UPDATE` in `UpdateUser` keeps it out (`UserLocked`); the UPDATE of
  `password_hash` in `SetPasswordHash`, which changes no key, does not.
- A rotation is `PresentLive` (lock), `RotateRefreshToken` (revoke, insert, commit)
  and, in the handler, `AnswerRefresh` (read the user, answer) or
  `RefuseDisabled` and the kill-switch revocation. A replay is `PresentRevoked`
  and `CommitOther`.
- `Abort` ends a call between two statements. Deadlocks (a rotation holds the token
  and wants the user, `UpdateUser` the other way round) end with it too.

A disabled account is seen by a login before the INSERT and by a refresh after it,
in statements of their own. The password check, the lockout, the claims a token
carries, and the refusal of an administrator's attempt on their own account
(`PatchUser`) are left out: the model allows every PATCH by somebody.

### The browser's session

`SpaSession` has one variable for each thing a tab or the browser keeps.
`store` is `localStorage`; `mirror[t]` the copy in memory each tab falls back
on; `inbox[t]` the storage events that have not reached the tab; `lockq` the Web
Lock's queue; `rot[t]` the one refresh a tab has under way (`refreshInFlight`),
from the queue through the request to its answer; `work[t][s]` what else the tab
does: a request under `authFetch`, a sign-in, a sign-out, a boot. Token i stands
for the access and the refresh token of the i-th pair.

- Reading and writing `localStorage` between two awaits is one step. Between
  steps other tabs run. So a refresh is: read the token and queue, get the lock
  and compare, send, be served, store. A refresh may be lost before or after the
  server has served it (`BackOff`), and a tab may go away with it (`Load`), after
  which the server may still serve it (`ServeOrphan`).
- The server may find any access token expired at any time, so that requests
  only say whether they carry one (`Bearer`).
- `excused` is a history variable: the refresh tokens a tab may have to show
  again because an answer was lost, or which it has sent while a storage event
  was on its way to it.
- `localStorage` may hold what an older release left: a refresh token alone.

### Authoring

A tool is its name, what a server reports of it, and whether it carries fields
the server does not know; a JSON text is the list it parses to. The review of a
discovery is computed once (`rows`), ticked row by row, and applied to whatever
the list is by then. The revisions input keeps its tokens in the order the
server demands. The forms send one request at a time, which is committed or
refused and may not be answered; the create page sends up to three. Guards stack
up in the order their forms mount, and the router asks the last one only
(`FormGuard`, the router being the library's, modelled from its use).

### The query cache

Queries do not influence one another, so a behaviour follows one of them. An
answer is the number of the writes it contains; a mutation writes facts on the
server, then, when its answer arrives, invalidates what its `onSuccess` names,
and navigates (`AdminPages` has both tables, taken page by page). The behaviour
of the cache (stale times, refetch on mount and focus, invalidation restarting a
request) is the library's, modelled from its use in `main.tsx`.

### The pages that keep state

Each of the seven parts of `WebPages` is a page together with as much of the
server as answers it. Requests are answered late and in any order, or fail;
other users act at any time. The parts share no state, and `part` says which one
the behaviour works in: composing them as an interleaving would only multiply
independent states.

## 3. What is checked

| run | module | bounds | properties |
|---|---|---|---|
| `Workflow` | `MCRegistry` | everything; 1 entry, 1 version, 1 change, no columns; ada edits and reviews, sam is a Server Admin; 2 requests | `TypeOK`, `ReviewInv`, `FourEyes`, `PublicEntryHasPublishedVersion`, `ReleaseIsReviewed` |
| `Pairs` | `MCRegistryPairs` | two of versions, changes and deletion at a time; 1 entry, 2 versions, 2 changes, a column; ada, sam; 2 requests | `OneAtATime`, `PublishedImmutable`, `ImplementsCatalog`, `ApprovedChangeApplied`, `DeletionIsFinal`, `VersionOffersMatchServer`, `EntryOffersMatchServer`, `QueueCanBeEmptied` |
| `Rotation` | `MCRefreshTokens` | 4 tokens, 3 calls, 1 user; the clock stands still | `OneLivePerLineage`, `KillSwitch`, `DisableEndsSessions`, `ImplementsSessions` |
| `TokenSweep` | `MCRefreshTokens` | 2 tokens, 2 calls, 1 user; TTL 2, 3 instants; fairness | `TokenInv`, `ReplayRecognised`, `ExpiredRowsGo` |
| `Tabs` | `MCSpaSession` | 2 tabs, 2 slots each, 2 things under way, 2 pairs, 1 more page load, 1 pending storage event per tab; an older release's token stored | `OneRefreshOnTheWire`, `BootAwaitsHandoff`, `ReplayIsAccounted` |
| `Forms` | `MCAuthoringForms` | 2 submissions; lists of up to 2 tools, 2 edits; 3 revisions, 2 endpoints | `TypeOK`, `ToldWhatHappened`, `AppliedTicksAgree`, `RevisionListAccepted`, `TypedWorkIsGuarded`, `OwnRedirectPasses` |
| `Queries` | `MCAdminQueries` | every query of the console in turn; 2 presses; fairness | `OwnWritesShown`, `BadgeCatchesUp` |
| `Console` | `MCWebPages` | 3 events, pages of one row, 3 queries; 2 entries in the list; 4 submissions; 2 publishers, 3 grants that can be given; 2 tags; 1 person, 1 group, 3 stored grants; a public and a private entry, 2 requests | `TypeOK`, `AuditRowsAreTheLog`, `BulkHitsWhatIsSeen`, `ReasonFitsRow`, `LinksAreHonoured`, `ConfigurationHolds`, `SeededGrantsStay`, `PublicSeesPublic`, `TabsShowTheEntry` |
| `StaleReview`, `DeadPublish`, `Settings`, `TagRace` | | as above | one statement of the documentation each, which the code does not keep |

The workflow:

- `PublicEntryHasPublishedVersion`: no unreviewed draft is public, published or
  deprecated, although the status that allows a release is read before the
  write, and a queued release is written days later without looking at it again.
  It holds because an entry never loses its published versions.
- `FourEyes`, `ReleaseIsReviewed`: who signed off what. The submitter is compared
  inside the approving transaction, so withdrawing and resubmitting under
  another name does not help.
- `PublishedImmutable`: late submissions, withdrawals and decisions do not touch
  a published row. `PublishMCPServerVersion` has no condition on the review
  state; the CHECK constraint is what stops it.
- `OneAtATime`: the review queue is unambiguous per entry.
- `ApprovedChangeApplied`: a change leaves the queue as approved only in the step
  in which it takes effect. An edit, deprecation or undeprecation that does not
  fit the entry any more is refused and stays queued. A change of the visibility
  is applied whatever has become of the entry, a deleted one included.
- `DeletionIsFinal`: nothing brings a deleted entry back or writes its metadata.
  Its visibility can be written still, which nobody is shown (`ImplementsCatalog`).
- `ImplementsCatalog`: versions appear one at a time and never vanish singly, an
  entry appears with at least one version, one entry holds the slug, a removed
  entry stays removed. `Pairs` checks it with one entry; that a second one may
  take the slug of the first is only in the proof, which is about any number of
  entries.
- `EntryOffersMatchServer`, `VersionOffersMatchServer`: on a page that has just
  been loaded a button is enabled exactly when the server would do what it asks
  for. The page repeats the preconditions of handlers, WHERE clauses and indexes in
  conditions of its own; a page that is not up to date is a request in flight.
- `QueueCanBeEmptied`: whatever is queued, on whatever has become of its entry,
  can be rejected by those who see it, and whichever pending change the handler
  finds by the entry alone.

The tokens:

- `OneLivePerLineage`: however often the tokens of one login are presented at
  once, at most one of them is live.
- `ImplementsSessions`: seen as sessions, there is only "opens" and "ends". A
  rotation under way when its session is ended (by sign-out, replay or an account
  change) does not open it again.
- `DisableEndsSessions`: the step that disables or demotes leaves no live token.
- `KillSwitch`: a login can pass its check of the account just before a disable
  and insert its token just after; no token from a *refresh* outlives one in
  somebody's hands.
- `ReplayRecognised`: the sweep never takes a row reuse detection still needs. It
  relies on the whole lineage having one expiry.
- `ExpiredRowsGo`: every expired row is deleted in the end.
- `OneRefreshOnTheWire`, `ReplayIsAccounted`: the tabs take turns, and each finds
  the token the one before it has stored; the server meets a token twice only
  when an answer was lost with its request or its tab, or a storage event was
  still on its way and the tab read its own mirror instead.
- `BootAwaitsHandoff`: the boot of a page ends after its hand-off code is
  exchanged, though StrictMode runs the effect that starts it twice.

Authoring:

- `ToldWhatHappened`: creating an entry is up to three requests, any of which may
  fail; the user can tell from the message which of entry, version and submission
  exist now. Either toast of success says that all that was asked for happened.
  What the second one adds, "version submitted for review", is not covered,
  because it is not always so (below).
- `AppliedTicksAgree`: a review of discovered tools does what its rows say, also
  when a paste that was answered late has changed the list under it. Only what the
  review says of new tools, and how many changes it announces, needs the list the
  rows were computed for.
- `RevisionListAccepted`: the list is one the server accepts, whatever is typed,
  detected and replaced.
- `TypedWorkIsGuarded`, `OwnRedirectPasses`: nobody closes the tab over typed work
  without a question, nor leaves by a link the form whose guard was mounted last;
  and no question is asked about what was just saved.

The pages:

- `OwnWritesShown`: a toast that says a change succeeded is followed by a page
  that shows it, once its query is not loading and has not failed. Two exceptions
  are in the property: the pairs `LeftToTime` names, and an answer the server gave
  before the change to a request no invalidation restarts (`old`: a first load, or
  a request of a page that was left), which stays until the query is asked again.
- `BadgeCatchesUp`: the badge of the review queue is right in the end.
- `AuditRowsAreTheLog`: no event missing or twice between pages of a filtered log
  that grows.
- `BulkHitsWhatIsSeen`: ticks outlive filters; what is deleted is on the screen.
- `ReasonFitsRow`: a reason goes to the row it was typed under.
- `LinksAreHonoured`: the server answers what is behind the links the sidebar
  offers, whoever used the browser before, and refuses exactly two kinds of request:
  the lists of users and groups, which the members page of a publisher's Admin
  asks for, and what is about a publisher that is gone and still in the list of a
  Server Admin.
- `ConfigurationHolds`, `SeededGrantsStay`: no click on an old page undoes what a
  start of the server has set.
- `PublicSeesPublic`, `TabsShowTheEntry`: the cache keeps members' answers from the
  public, and what a mounted tab remembers fits the next entry.

### The bounds

Two versions, two changes, two tabs or two grants of one kind are what a property
that relates two of them needs; a third adds another pair. The whole workflow with
both two versions and two changes is beyond a run of five minutes. `Workflow` has
everything with one of each; in `Pairs` a behaviour works in two of the three
parts, with three bounds that are named there: next to versions an entry is
deleted by DELETE only (`DirectDeletion`); next to changes an entry has one version
in use, which is published directly, and no edits (`OneVersionNoEdits`); and an
edit names a column (`EditsNameColumns`). Two requests in flight
are a race between any two endpoints, and a reviewer's screen against one
endpoint. Four tokens are a login with three rotations, or two logins with one
each; three calls are two rotations against one revocation. Sweeps need a row
that expires before, and one that expires after, they start. In `Tabs` the stored
token and two more pairs are too many for the time a run has; with two pairs one
tab rotates what the other has queued with, or a sign-in replaces it, and one
load makes a request an orphan. The proofs have no such bounds. In `Forms` two
submissions are a failure and its retry, or two forms of a page, and two edits
bring a list from one that a review was computed for to another. The parts of
`Console` have the smallest instance in which each kind of row, filter, viewer
and answer occurs next to a different one.

Bounds on counters are named constants (and the three of `Pairs`): `MaxRequests`, `MaxTime`, `MaxToken`,
`MaxLoads`, `MaxWork`, `MaxEvents`, `MaxJobs`, `MaxEdits`, `MaxTools`, `MaxCalls`,
`MaxQueries`, `MaxTyping`, `MaxLists`, `MaxGrants`, `MaxFetches`; the sets `Texts`,
`Listings`, `Log`, `Finds`, `Submissions`, `Grantable`, `Seeds`, `Stored`,
`Watched` and `Busy` bound what is typed, answered, recorded or followed. One
dialog is open at a time, as in the browser; the tags and grants pages have one
request under way at a time. `CHECK_DEADLOCK FALSE` is there because a run can
use up its ids and bounds.

### Fairness

No fairness is assumed of people: nothing obliges an editor, a reviewer or a
client to go on. Two properties are liveness.

`ExpiredRowsGo`, under `Fairness` of `RefreshTokens`:

- a call goes on or is ended (weak fairness on `Proceed`): connections time out,
  PostgreSQL ends deadlocks, and no call waits for a client between two
  statements;
- the sweeper starts a pass again and again (strong fairness on `StartSweep`):
  `RunSweeper` calls `Sweep` on each tick, whatever the last pass returned; strong,
  because every connection can be busy now and then;
- a pass that waits for a locked row gets it at last (strong fairness on `Sweep`):
  the lock queue is first come, first served, and a DELETE keeps the rows it has;
- passes do not fail for ever. Without this, nothing can be promised.

`BadgeCatchesUp`, under `Fairness` of `AdminQueries`: the interval of the badge's
query fires (weak fairness on `Poll`), and requests are taken and answered again
and again (strong fairness on `Serve` and `Arrive`): a network that comes back
lets a retry through, and without it no badge could be right.

### Where the documentation and the code differ

Four runs expect a violation; PROJECT.json quotes the statements.

1. `StaleReviewRefused`: "Every transition increments the row's `revision`", but no
   statement writes the column after the insert. An author withdraws a version and
   submits it again asking for a public release; the reviewer who loaded the first
   submission approves the second. Entry changes are no different. The cause is a
   theorem, `RevisionCheckIsVacuous`: the revision a decision carries is that of its
   row at any time, so the conditions on it exclude nothing.
2. `SettingsShowTheSelected`: the settings form keeps the text of one publisher when
   the switcher selects another whose settings are cached; Save writes it there.
3. `CarriedTagsExist`: a tag deleted between the check and the insert of a new
   version is carried all the same.
4. `OfferedPublicationWorks`: the versions section offers "Approve & publish" for a
   version under review and "Publish" for a rejected one. Both send the direct
   publication, which leaves `review_state` alone, and the CHECK constraint refuses
   the row.

Met while modelling, and not runs of their own; the models contain them, and the
properties are stated so that they are true with them:

- Tokens. A replay that arrives while the newest token is being rotated waits for
  it and revokes nothing: the successor is not in its snapshot. A password change
  misses a successor that a rotation is about to insert. An answer lost after the
  rotation committed makes the retry a replay, which revokes the session. A
  sign-out while the tab has a refresh under way is followed by the store of the
  new pair. A refused refresh clears whatever pair is stored by then.
- Workflow. A queued edit writes all columns with values read when it was
  submitted. The statement that writes the visibility has no condition on the
  status (`store/entrychange.go:36`), so a late or queued one is applied, and
  recorded as approved, on an entry that has been deleted. Approving a deletion request leaves the versions rows in place, as
  the direct DELETE does not.
- Cache. The pairs of `LeftToTime` stay old until something else refreshes them.
  So does an answer given before a change to the first load of a query, or to a
  request of a page that was left: the invalidation restarts neither.
  A detail page may navigate away after its user has gone elsewhere.
- Forms. A lost answer to the second or third request reads "Failed to create
  server" though the entry exists; the retry meets a 409. Text typed while an edit
  is saved is dropped. The metadata editor has no guard. The guard's
  documentation says to "render it inside any form whose state would be lost on
  navigation" (`components/ui/dirty-form-guard.tsx:4`). On the entry page, where the
  form for a new version and the usage editor can be open together, that is not
  enough: the router asks the later guard only, and what was typed into the earlier
  form is lost. In the create form "the form never
  promises an outcome the caller's role cannot deliver"
  (`pages/admin/mcp/new.tsx:86`), but when no step has failed every user who cannot
  review is told "version submitted for review" (line 216), also if no version was
  entered or its box was not ticked. Work done with
  buttons alone is never dirty.
- Editors. Cards are keyed by index, so an open card stays open on its
  neighbour. A paste or detection that is answered late applies to what is there
  by then; the detection panel names the URL of now. If what was pasted under an
  open review has the name of a row that says "new", applying the review leaves
  two tools of that name.
- Pages. The grants section offers the Admin of a publisher pickers of users and
  groups, whose lists only Server Admins may read
  (`components/admin/grants-section.tsx:61`, `http/router.go:232`), so they stay empty.
  A grant that was given by hand and is in the bootstrap file too is offered
  for revocation, and comes back at the next start. A failed page of the audit log
  is not reported, and rows appear twice while the next page loads. "Clear" leaves the timer of the text filter running.
  A bulk retry sends everything again, and its dialog counts ticks that are not
  on the screen. An open rejection form stays open for a resubmission under the
  same key. The edit panel of the tags page keeps the first tag's text when
  another is opened. The picker of the grants section keeps a principal across a
  switch of the scope. A late answer to a report shows up on the reopened form.

## 4. What is proved

For every value of the constants that satisfies the assumptions of the modules,
which say this, and TLC evaluates each on the instance of a run:

- markers for "nothing" are no values (`RolesAssumption`, `NoneAssumption`,
  `ScopeAssumption`, `FormGuardAssumption`, part of the others), and constants
  have the type their name says (`BlankAssumption`, `TimeAssumption`,
  `SessionAssumption`, `StoredAssumption`, `EntryFormsAssumption`,
  `ServerListAssumption`, `TagAssumption`, `EntryPageAssumption`,
  `AdminQueriesAssumption`);
- `AuditAssumption`: the log has an event, a page at least one row;
- `ToolsEditorAssumption`, `RevisionsAssumption`: lists of tools are bounded,
  revisions are ordered and finitely many;
- `SubmissionsAssumption`: kind and id of a submission determine it;
  `EverywhereAssumption` and `RoleGrantsAssumption`: a publisher is not the
  wildcard, a person not a group, the bootstrap file is finite.

| module | theorem | statement |
|---|---|---|
| `RegistryProofs` | `Inductive` | `Spec => []ReviewInv` |
| | `TypeCorrect` | `Spec => []TypeOK` |
| | `NoDraftInCatalogue` | `Spec => []PublicEntryHasPublishedVersion` |
| | `NoSelfApproval` | `Spec => []FourEyes` |
| | `ReleasedVersionsImmutable` | `Spec => PublishedImmutable` |
| | `DeletedForGood` | `Spec => DeletionIsFinal` |
| | `ApprovalTakesEffect` | `Spec => ApprovedChangeApplied` |
| | `ReleasesAreSanctioned` | `Spec => ReleaseIsReviewed` |
| | `QueueIsUnambiguous` | `Spec => []OneAtATime` |
| | `VersionButtonsWork` | `Spec => []VersionOffersMatchServer` |
| | `EntryButtonsWork` | `Spec => []EntryOffersMatchServer` |
| | `QueueItemsCanBeRejected` | `Spec => []QueueCanBeEmptied` |
| | `RevisionCheckIsVacuous` | `Spec => []RevisionAlwaysMatches` |
| | `PartsAreRuns` | `(ReviewSpec => Spec) /\ (ChangeSpec => Spec)` |
| `RegistryRefinement` | `CatalogRefined` | `Spec => ImplementsCatalog` |
| `RefreshTokensProofs` | `TokensInductive` | `Spec => []TokenInv` |
| | `SingleUse` | `Spec => []OneLivePerLineage` |
| | `DisabledCannotRefresh` | `Spec => []KillSwitch` |
| | `ReplaysAreRecognised` | `Spec => []ReplayRecognised` |
| | `DisablingIsComplete` | `Spec => DisableEndsSessions` |
| | `SessionsRefined` | `Spec => ImplementsSessions` |
| `SpaSessionProofs` | `RefreshesAreSerialised` | `WebLocks => (Spec => []OneRefreshOnTheWire)` |
| | `ReplaysAreAccounted` | `WebLocks => (Spec => ReplayIsAccounted)` |
| | `BootsAwaitTheirHandoff` | `WebLocks => (Spec => BootAwaitsHandoff)` |
| `WebPagesProofs` | `ConfigurationWins` | `Spec => []ConfigurationHolds` |
| | `NoMemberAnswerInPublic` | `Spec => []PublicSeesPublic` |
| | `ReasonsGoToTheirRow` | `Spec => []ReasonFitsRow` |
| | `BulkActsOnTheScreen` | `Spec => BulkHitsWhatIsSeen` |
| | `SeededGrantsSurvive` | `Spec => SeededGrantsStay` |
| | `LinksLeadSomewhere` | `Spec => []LinksAreHonoured` |
| | `TabsFitTheEntry` | `Spec => []TabsShowTheEntry` |
| | `AuditPageShowsTheLog` | `Spec => []AuditRowsAreTheLog` |
| | `PagesTyped` | `Spec => []TypeOK` |
| `AuthoringFormsProofs` | `TypedWorkAlwaysGuarded` | `Spec => TypedWorkIsGuarded` |
| | `OwnRedirectAlwaysPasses` | `Spec => OwnRedirectPasses` |
| | `AlwaysToldWhatHappened` | `Spec => []ToldWhatHappened` |
| | `RevisionListAlwaysAccepted` | `Spec => []RevisionListAccepted` |
| | `AppliedTicksAlwaysAgree` | `Spec => []AppliedTicksAgree` |
| | `FormsAndEditorsTyped` | `Spec => []TypeOK` |
| `AdminQueriesProofs` | `OwnChangesAreShown` | `Spec => []OwnWritesShown` |
| | `QueriesTyped` | `Spec => []TypeOK` |

**The workflow.** `PublicEntryHasPublishedVersion` is not inductive: a request to
make an entry public may be in flight, or in the queue, and its write does not
look at the entry. `ReviewInv` adds that any such request or pending change
belongs to an entry that has a published version already (`MayRelease`), which the
handler established and no step undoes. `FourEyes` is not inductive either: a
version published directly, without a submission, could be one whose earlier
submitter is still recorded. `VersionOK` says that an unpublished version that is
not under review names no submitter, and that a published one is not under review.
The proof has a lemma for each way a step can change the tables (none, one version
row, server rows, one change row, the DELETE cascade), which says what is left to
show, and one lemma per group of actions that shows it. The action properties
follow from `ReviewInv` with the same split. `PartsAreRuns` carries all of it over to
the partial specifications some runs explore.

**Its pages.** What a page offers and what the server takes are two sets of
conditions written twice in the program. For the entry page the proof goes through
the kinds of mutation (`MutationKinds`, `OfferedMutation`): those that would change
the row are offered exactly when handler and WHERE clause, or the index on pending
changes, let them through. For the versions section it needs that the row a
statement writes satisfies the CHECK constraint (`SubmissionAccepted`,
`WithdrawalAccepted`). `QueueCanBeEmptied` does not follow from the tables being
typed: that a pending version is unpublished, so that its rejection passes the CHECK
constraint, is `VersionOK`; that the pending change the handler finds has the
revision of the one on the screen rests on there being one per entry
(`QueueIsUnambiguous`).

**The revision.** `RevisionAlwaysMatches` is not inductive; `RevisionsStand` is: every
row, and every screen and decision in flight, has the revision 1. It says more than
that stale reviews are possible: no history of withdrawals and submissions makes the
check refuse anything.

**Its refinement.** Only `servers` and `versions` reach the public. A step of the
catalogue concerns one entry: it appears, gets one more version, is hidden, or is
removed. The proof shows for each action which of these it is, or that nothing
visible changes; `PublicEntryHasPublishedVersion` gives that an entry appears with
a version, and the slug index that at most one is live.

**The tokens.** None of the invariants is inductive alone. `TokenInv` adds what
they rest on:

- `RowsOK`: all rows of a lineage have the user and the expiry of its first row.
  `ReplayRecognised` follows from it: a row is deleted only when it has expired or
  its user is gone (`Kept`), and then so is its whole lineage.
- `CallsOK`: what a call has read is still true. In particular the token of a
  call about to rotate is live, because the call has locked it (`LocksOK`); so
  `RotateRefreshToken` replaces the one live token of the lineage by another.
- `PatchComplete`: a patch that disables or demotes has all live tokens of the user
  in its snapshot. The user's row has been locked since before the snapshot, and
  an INSERT needs it. `KillSwitch` and `DisableEndsSessions` follow: the commit
  revokes the snapshot, and this is all there is.

**Its refinement.** A session never opens again because a step that makes a token
live either begins a lineage of its own, or revokes a live token of the same one.

**The tabs.** `SessionInv` has four parts. `LockHeld`: a tab whose refresh is on
its way is at the head of the lock queue, which gives `OneRefreshOnTheWire`.
`Minting`: the tokens known anywhere in the browser have been minted, and a token
that was minted but not yet handed to the browser (an answered refresh, a hand-off
code) is in nobody's hands and is different from every other such token.
`Accounted`: what a tab may read from storage, and what it will have heard once
its events are handled (`Latest`), is usable: not used up, or excused, or used up
by the tab that holds the lock and is about to store its successor. A tab compares
the stored token with the one it queued with before it sends it, so that what it
sends is usable too, and at that time nobody else holds the lock. There is a lemma
for each way a step writes the store, and `Unaffected` for the rest. TLC found
no violation of it on the instance of `Tabs`. `BootInv` (one boot per tab
at most) is separate; it needs `WebLocks` only for the types it shares.

**The pages.** `Parts` says that a step of `WebPages` is a step or a stutter of
every part. Then each part has an invariant of its own: `EntryInv` (an answer a
member got is under the member's key, or on its way there), `QueueInv` (the row
key of an open rejection form names the row), `ListInv` (the ticks, the rows and
the resync of the filter bar), `GrantsInv` (an id is given once, so that an old
row whose source is "api" cannot name a grant of the bootstrap file).
`ConfigurationHolds` is inductive as it stands. `ScopeInv` says that nobody has
grants on a publisher that is gone and that a settings form is on the screen only
for the publisher in scope, `TabsInv` that two different versions are ticked at
most. `AuditInv` is the longest: the pages
that were loaded, the cached answers of other filters and the answers on their way
are all stretches of the filtered log, each page begins where the one before it
ended (`ArePages`), and a cursor is the position below the last row, so that a
page appended, replaced or thrown away leaves one stretch.

**Lists.** A filter and a sort are defined by the positions that are kept
(`Sublist`, `NewestFirst`): first-order definitions, about which `SublistsProofs`
proves by a least-number argument what induction over sequences would have given:
there is exactly one ascending enumeration of a finite set of numbers, a sublist
has the elements that were kept, in their order, once each, and the list of a set
of events followed by that of older ones is the list of both (`NewestFirstThenOlder`).
`SublistCarried` relates what two lists leave under a filter when one is an edited
form of the other.

**Forms.** `GuardInv` says that the guards are those of the open forms, each once
(`GuardTyped`), and that a guard knows what is typed into its form (`WorkIsKnown`).
The router asks the last guard only, so that is what the theorem promises of links;
closing the tab asks every guard. `JobInv` relates the step of a
submission to what has been committed (`Progress`), which makes the message at
its end true whichever request failed or was not answered.

**Editors.** `RevisionListAccepted` follows from `Accepted`, kept by every way the
list is written. `AppliedTicksAgree` rests on `Reviewed`: the rows of an open
review name each tool once, and only rows that differ are ticked. `DiffDescribes`
says what each row tells about a list and a discovery, `AppliedIs` what applying a
review makes of a list, one position at a time; the conjuncts of the property are
lemmas about that: which tools are named, which come before which (for any list),
and how many are changed (for the list the rows were computed for).

**The cache.** `OwnWritesShown` has two causes, and the proof separates them.
`EveryCall` is about the tables: whatever a call writes that is shown on the page
of its button, the page it leads to or the list above is among the queries its
`onSuccess` invalidates or removes, or in `LeftToTime`; one lemma per table, since
each was read from a file of its own. `EntryInv` is about the cache: an answer on
its way is at least as new as the last promise, and what is there when nothing
loads is as new, or has failed, or is marked stale while no page shows it
(`AsNew`), or is marked as outrun (`Outrun`): answered before the change, to a
request that its invalidation did not restart. A new request takes the mark away.
`QueriesTyped` needs a budget: presses left, requests sent
and writes counted never exceed `MaxCalls`.

What the proofs changed in the model: in two places a CASE had overlapping guards,
of which TLC takes the first and the language leaves open which (`Refreshed`,
`VisibilityOffers`); a few assumptions on constants were not stated; and the
properties of `ReviewConsole`, which spoke about ENABLED in states with room for
another request, now speak about the conditions themselves, in every state.

## 5. What is only model-checked

- `ExpiredRowsGo` and `BadgeCatchesUp` are liveness under fairness, and the four
  divergences are counterexamples: all are TLC's.
- That a request the conditions let through does something is read off the actions,
  which have them as conjuncts. ENABLED, which would say it, is beyond the prover;
  TLC found no state of the instance of `Workflow` without other requests in which
  the conditions and ENABLED of the actions differ.

Every invariant and action property of a passing run is a theorem. What recursive definitions
compute for every input is out of the prover's reach, so no module declares a
RECURSIVE operator.

## 6. Not modelled

PROJECT.json has the status and the reason for each part. In short:

- Login lockout, rate limiter, drain: state in the memory of one replica under one
  mutex, or one sequence of steps. What a limit bounds depends on how many
  requests overlap, which the code does not limit.
- The server's side of the OIDC login and of provisioning: each of its codes is
  consumed by one DELETE ... RETURNING; accounts are made unique by indexes.
- The cascade of a publisher's deletion, bootstrap entries, and a grant that is
  revoked while a write it allowed is under way: the workflow has one publisher and
  constant roles, and its properties are about entries created through the API.
- Cryptography, outbound requests, telemetry, configuration, rendering, search and
  statistics: no shared state to get wrong, or read-only.
- Hazards that are real and that PROJECT.json has no room for: the bucket table of
  the rate limiter at its limit (`http/middleware/ratelimit.go:68`), readiness
  before the listener closes (`http/server.go:66`), two replicas that bootstrap at
  once (`bootstrap/bootstrap.go:288`), a grant revoked during a write
  (`auth/authz.go:62`), a refused refresh that clears a newer pair
  (`web/src/auth/tokens.ts:134`).

## 7. Plan

In this order:

1. `OidcLogin` (`handlers/auth_oidc.go`, `auth/provision.go`,
   `store/oidc_requests.go`): login transactions, callback, provisioning by subject
   and email, the sweep. Abstract specification: a login yields at most one pair of
   tokens for at most one browser. Properties: single use of state and code; one
   account per subject and one subject per account for ever.
2. `Rbac`: `RegistryStore` with roles that `RoleGrants` gives and takes away while a
   write is under way. Property: a write is made by somebody who held the role at a
   time during the request.
3. `PublisherCascade` (`store/publisher.go`): the hard delete against versions being
   created.
