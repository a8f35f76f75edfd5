---------------------------- MODULE RefreshTokens ----------------------------
(***************************************************************************)
(* The refresh tokens of the registry: login, rotation with reuse          *)
(* detection, logout, the account changes that revoke tokens, and the      *)
(* sweep of expired rows.                                                  *)
(*                                                                         *)
(* Every replica runs its transactions against one PostgreSQL database at  *)
(* READ COMMITTED, so they interleave statement by statement.  calls[c] is *)
(* an HTTP request (or a sweep) on database connection c, between two of   *)
(* its statements.  A write becomes visible when its transaction commits;  *)
(* until then others find the row locked and wait.                         *)
(*                                                                         *)
(* An UPDATE or DELETE of many rows takes its snapshot when it starts and  *)
(* waits for the locked rows of that snapshot; a row it waited for is      *)
(* looked at again, a row inserted meanwhile is not seen at all.  These    *)
(* statements are two steps: one takes the snapshot, the other writes and  *)
(* commits.  A lock taken by the statement right before the snapshot is    *)
(* taken in the same step, since it only keeps others out.                 *)
(***************************************************************************)
EXTENDS Naturals

CONSTANTS
    Tokens,      \* refresh tokens: the raw values and the ids of their rows
    Users,       \* ids of users
    Calls,       \* database connections in use
    TTL,         \* REFRESH_TOKEN_TTL
    MaxTime,     \* bound: when the clock stops
    None         \* SQL NULL

ASSUME NoneAssumption == None \notin Tokens /\ None \notin Users

ASSUME TimeAssumption == TTL \in Nat /\ MaxTime \in Nat

VARIABLES
    tokens,     \* refresh_tokens
    users,      \* users
    calls,      \* what runs on each connection: see Call
    held,       \* the raw tokens the server has handed out
    now         \* the clock

vars == <<tokens, users, calls, held, now>>

-----------------------------------------------------------------------------
(* Rows and calls                                                          *)

\* A row keeps its fields after it was deleted.  "lineage" is not a column: it
\* names the first of the tokens that were rotated one from another.
TokenRow == [status  : {"absent", "live", "revoked", "deleted"},
             user    : Users \cup {None},
             lineage : Tokens \cup {None},
             from    : Tokens \cup {None},
             expires : Nat]

AbsentToken == [status |-> "absent", user |-> None, lineage |-> None,
                from |-> None, expires |-> 0]

UserRow == [exists : BOOLEAN, disabled : BOOLEAN, admin : BOOLEAN]

\* The mutable flags a PATCH of a user asks for; an absent flag stays as it is.
Patches == {p \in SUBSET {"disable", "enable", "promote", "demote"} :
              ~({"disable", "enable"} \subseteq p) /\ ~({"promote", "demote"} \subseteq p)}

\* The states a call can be in, named after what it is about to do:
\*    login    insert the token of a user whose credentials were accepted
\*    rotate   commit the rotation of the token it has locked
\*    answer   read the user of the successor it has committed
\*    kill     revoke all tokens of that user, who is disabled
\*    killing, reuse, password, patch, sweep
\*             write and commit; the snapshot is in rows
Steps == {"idle", "login", "rotate", "answer", "kill",
          "killing", "reuse", "password", "patch", "sweep"}

Call == [step  : Steps,
         user  : Users \cup {None},
         token : Tokens \cup {None},
         rows  : SUBSET Tokens,
         asks  : Patches]

Idle == [step |-> "idle", user |-> None, token |-> None, rows |-> {}, asks |-> {}]

Init ==
    /\ tokens = [t \in Tokens |-> AbsentToken]
    /\ users \in [Users -> [exists : {TRUE}, disabled : {FALSE}, admin : BOOLEAN]]
    /\ calls = [c \in Calls |-> Idle]
    /\ held = {}
    /\ now = 0

-----------------------------------------------------------------------------
(* Locks                                                                   *)

\* Mutant: RotateRefreshToken reads its row without FOR UPDATE.
HoldsNoToken(c, t) == calls[c].step = "reuse" /\ calls[c].token = t

\* SELECT ... FOR UPDATE of a refresh_tokens row, until the commit.
HoldsToken(c, t) == calls[c].step \in {"rotate", "reuse"} /\ calls[c].token = t

TokenLocked(t, c) == \E d \in Calls \ {c} : HoldsToken(d, t)

\* An UPDATE or a SELECT ... FOR UPDATE of a users row, until the commit.
HoldsUser(c, u) == calls[c].step \in {"patch", "password"} /\ calls[c].user = u

UserWritten(u, c) == \E d \in Calls \ {c} : HoldsUser(d, u)

\* Mutant: UpdateUser reads the row without FOR UPDATE.
NoUserLock(u, c) == FALSE

\* Only the FOR UPDATE lock keeps out the FOR KEY SHARE lock that an INSERT with a
\* foreign key to the row takes; the UPDATE of password_hash does not.
UserLocked(u, c) ==
    \E d \in Calls \ {c} : calls[d].step = "patch" /\ calls[d].user = u

-----------------------------------------------------------------------------
(* Statements                                                              *)

\* The rows that UPDATE ... WHERE user_id = u AND revoked_at IS NULL would find.
LiveTokens(u) == {t \in Tokens : tokens[t].status = "live" /\ tokens[t].user = u}

Expired(t) == tokens[t].expires <= now

Inserted(t) == tokens[t].status # "absent"

SetCall(c, call) == calls' = [calls EXCEPT ![c] = call]

\* The new status of the rows a statement writes.
SetStatus(rows, status) ==
    tokens' = [t \in Tokens |->
                 IF t \in rows THEN [tokens[t] EXCEPT !.status = status] ELSE tokens[t]]

-----------------------------------------------------------------------------
(* Login                                                                   *)

\* The password, or the identity provider, vouched for the user; the account
\* is not disabled.
AcceptLogin(c, u) ==
    /\ calls[c].step = "idle"
    /\ users[u].exists
    /\ ~users[u].disabled
    /\ SetCall(c, [Idle EXCEPT !.step = "login", !.user = u])
    /\ UNCHANGED <<tokens, users, held, now>>

\* issueTokenPair and the answer.
CreateRefreshToken(c, t) ==
    LET u == calls[c].user IN
    /\ calls[c].step = "login"
    /\ users[u].exists
    /\ ~UserLocked(u, c)
    /\ ~Inserted(t)
    /\ tokens' = [tokens EXCEPT ![t] =
                    [status |-> "live", user |-> u, lineage |-> t,
                     from |-> None, expires |-> now + TTL]]
    /\ held' = held \cup {t}
    /\ SetCall(c, Idle)
    /\ UNCHANGED <<users, now>>

-----------------------------------------------------------------------------
(* Refresh                                                                 *)

\* Mutant: does not wait for a rotation of the same token to commit.
PresentUnlocked(c, t) ==
    /\ calls[c].step = "idle"
    /\ t \in held
    /\ tokens[t].status = "live"
    /\ ~Expired(t)
    /\ SetCall(c, [Idle EXCEPT !.step = "rotate", !.user = tokens[t].user, !.token = t])
    /\ UNCHANGED <<tokens, users, held, now>>

\* SELECT ... FOR UPDATE of the presented token: it is live.
PresentLive(c, t) ==
    /\ calls[c].step = "idle"
    /\ t \in held
    /\ ~TokenLocked(t, c)
    /\ tokens[t].status = "live"
    /\ ~Expired(t)
    /\ SetCall(c, [Idle EXCEPT !.step = "rotate", !.user = tokens[t].user, !.token = t])
    /\ UNCHANGED <<tokens, users, held, now>>

\* The same, of a token that was rotated or revoked before, expired or not; then
\* the start of the UPDATE that revokes every token of its user.
PresentRevoked(c, t) ==
    /\ calls[c].step = "idle"
    /\ t \in held
    /\ ~TokenLocked(t, c)
    /\ tokens[t].status = "revoked"
    /\ SetCall(c, [Idle EXCEPT !.step = "reuse", !.user = tokens[t].user, !.token = t,
                               !.rows = LiveTokens(tokens[t].user)])
    /\ UNCHANGED <<tokens, users, held, now>>

\* Mutant: the successor gets an expiry of its own.
RotateSliding(c, new) ==
    LET old == calls[c].token IN
    /\ calls[c].step = "rotate"
    /\ users[calls[c].user].exists
    /\ ~UserLocked(calls[c].user, c)
    /\ ~Inserted(new)
    /\ tokens' = [tokens EXCEPT
                    ![old].status = "revoked",
                    ![new] = [tokens[old] EXCEPT !.status = "live", !.from = old,
                                                 !.expires = now + TTL]]
    /\ SetCall(c, [Idle EXCEPT !.step = "answer", !.user = calls[c].user, !.token = new])
    /\ UNCHANGED <<users, held, now>>

\* The token is consumed and its successor inserted, in one transaction.
RotateRefreshToken(c, new) ==
    LET old == calls[c].token IN
    /\ calls[c].step = "rotate"
    /\ users[calls[c].user].exists
    /\ ~UserLocked(calls[c].user, c)
    /\ ~Inserted(new)
    /\ tokens' = [tokens EXCEPT
                    ![old].status = "revoked",
                    ![new] = [tokens[old] EXCEPT !.status = "live", !.from = old]]
    /\ SetCall(c, [Idle EXCEPT !.step = "answer", !.user = calls[c].user, !.token = new])
    /\ UNCHANGED <<users, held, now>>

\* Mutant: does not look at the account.
AnswerAnyone(c) ==
    /\ calls[c].step = "answer"
    /\ users[calls[c].user].exists
    /\ held' = held \cup {calls[c].token}
    /\ SetCall(c, Idle)
    /\ UNCHANGED <<tokens, users, now>>

\* GetUserByID, then the new pair is sent.
AnswerRefresh(c) ==
    /\ calls[c].step = "answer"
    /\ users[calls[c].user].exists
    /\ ~users[calls[c].user].disabled
    /\ held' = held \cup {calls[c].token}
    /\ SetCall(c, Idle)
    /\ UNCHANGED <<tokens, users, now>>

\* GetUserByID finds the account disabled.
RefuseDisabled(c) ==
    /\ calls[c].step = "answer"
    /\ users[calls[c].user].exists
    /\ users[calls[c].user].disabled
    /\ SetCall(c, [calls[c] EXCEPT !.step = "kill"])
    /\ UNCHANGED <<tokens, users, held, now>>

\* RevokeAllRefreshTokensForUser starts.
StartKill(c) ==
    /\ calls[c].step = "kill"
    /\ SetCall(c, [Idle EXCEPT !.step = "killing", !.user = calls[c].user,
                               !.rows = LiveTokens(calls[c].user)])
    /\ UNCHANGED <<tokens, users, held, now>>

\* A single UPDATE: a token that was revoked before, or is unknown, matches no row.
Logout(t) ==
    /\ t \in held
    /\ \A c \in Calls : ~HoldsToken(c, t)
    /\ tokens[t].status = "live"
    /\ SetStatus({t}, "revoked")
    /\ UNCHANGED <<users, calls, held, now>>

-----------------------------------------------------------------------------
(* Accounts                                                                *)

\* A PATCH that disables the user, or takes the Server Admin flag from them.
Revoking(u, asks) == "disable" \in asks \/ ("demote" \in asks /\ users[u].admin)

\* SELECT ... FOR UPDATE of the user; then the start of the UPDATE that revokes
\* their tokens, if the patch does.
UpdateUser(c, u, asks) ==
    /\ calls[c].step = "idle"
    /\ users[u].exists
    /\ ~UserWritten(u, c)
    /\ SetCall(c, [Idle EXCEPT !.step = "patch", !.user = u, !.asks = asks,
                               !.rows = IF Revoking(u, asks) THEN LiveTokens(u) ELSE {}])
    /\ UNCHANGED <<tokens, users, held, now>>

\* UPDATE of the user's password_hash; then the start of the UPDATE that revokes
\* their tokens.
SetPasswordHash(c, u) ==
    /\ calls[c].step = "idle"
    /\ users[u].exists
    /\ ~UserWritten(u, c)
    /\ SetCall(c, [Idle EXCEPT !.step = "password", !.user = u, !.rows = LiveTokens(u)])
    /\ UNCHANGED <<tokens, users, held, now>>

\* The rows of the snapshot a statement still has to write are not locked.
Writable(c) == \A t \in calls[c].rows : ~TokenLocked(t, c)

\* The UPDATE that revokes the tokens of a user ends, and its transaction commits.
RevokeTokens(c) ==
    /\ calls[c].step \in {"killing", "reuse", "password", "patch"}
    /\ Writable(c)
    /\ SetStatus({t \in calls[c].rows : tokens[t].status = "live"}, "revoked")
    /\ SetCall(c, Idle)
    /\ UNCHANGED <<held, now>>

\* The flags of a user after a patch.
Patched(row, asks) ==
    [row EXCEPT !.disabled = (@ \/ "disable" \in asks) /\ "enable" \notin asks,
                !.admin    = (@ \/ "promote" \in asks) /\ "demote" \notin asks]

CommitUser(c) ==
    /\ calls[c].step = "patch"
    /\ RevokeTokens(c)
    /\ users' = [users EXCEPT ![calls[c].user] = Patched(@, calls[c].asks)]

CommitOther(c) ==
    /\ calls[c].step # "patch"
    /\ RevokeTokens(c)
    /\ UNCHANGED users

\* The tokens of the user go with the row (ON DELETE CASCADE).
DeleteUser(u) ==
    LET rows == {t \in Tokens : tokens[t].user = u /\ Inserted(t)} IN
    /\ users[u].exists
    /\ \A c \in Calls : ~HoldsUser(c, u) /\ \A t \in rows : ~HoldsToken(c, t)
    /\ users' = [users EXCEPT ![u].exists = FALSE]
    /\ SetStatus(rows, "deleted")
    /\ UNCHANGED <<calls, held, now>>

-----------------------------------------------------------------------------
(* Time                                                                    *)

Tick ==
    /\ now < MaxTime
    /\ now' = now + 1
    /\ UNCHANGED <<tokens, users, calls, held>>

\* Mutant: sweeps revoked rows before they expire.
SweepRevoked(c) ==
    /\ calls[c].step = "idle"
    /\ SetCall(c, [Idle EXCEPT !.step = "sweep",
                               !.rows = {t \in Tokens : \/ tokens[t].status = "revoked"
                                                        \/ tokens[t].status = "live" /\ Expired(t)}])
    /\ UNCHANGED <<tokens, users, held, now>>

\* Mutant: leaves the rows nobody revoked.
SweepOnlyRevoked(c) ==
    /\ calls[c].step = "idle"
    /\ SetCall(c, [Idle EXCEPT !.step = "sweep",
                               !.rows = {t \in Tokens : tokens[t].status = "revoked" /\ Expired(t)}])
    /\ UNCHANGED <<tokens, users, held, now>>

\* DeleteExpiredRefreshTokens starts.
StartSweep(c) ==
    /\ calls[c].step = "idle"
    /\ SetCall(c, [Idle EXCEPT !.step = "sweep",
                               !.rows = {t \in Tokens : tokens[t].status \in {"live", "revoked"}
                                                        /\ Expired(t)}])
    /\ UNCHANGED <<tokens, users, held, now>>

\* It deletes the rows; what was rotated from one of them forgets it (ON DELETE
\* SET NULL).
Sweep(c) ==
    LET rows == calls[c].rows IN
    /\ calls[c].step = "sweep"
    /\ Writable(c)
    /\ tokens' = [t \in Tokens |->
                    IF t \in rows THEN [tokens[t] EXCEPT !.status = "deleted"]
                    ELSE IF tokens[t].from \in rows THEN [tokens[t] EXCEPT !.from = None]
                    ELSE tokens[t]]
    /\ SetCall(c, Idle)
    /\ UNCHANGED <<users, held, now>>

-----------------------------------------------------------------------------
(* Failure                                                                 *)

\* A call ends between two statements: the connection or the replica is lost, a
\* statement fails, or PostgreSQL breaks a deadlock.  Its transaction is rolled
\* back; a rotation that was committed stays, and its answer is lost.
Abort(c) ==
    /\ calls[c].step # "idle"
    /\ SetCall(c, Idle)
    /\ UNCHANGED <<tokens, users, held, now>>

-----------------------------------------------------------------------------
(* Specification                                                           *)

TokenSteps ==
    \/ \E c \in Calls, u \in Users : AcceptLogin(c, u)
    \/ \E c \in Calls, t \in Tokens : CreateRefreshToken(c, t)
    \/ \E c \in Calls, t \in Tokens : PresentLive(c, t)
    \/ \E c \in Calls, t \in Tokens : PresentRevoked(c, t)
    \/ \E c \in Calls, t \in Tokens : RotateRefreshToken(c, t)
    \/ \E c \in Calls : AnswerRefresh(c)
    \/ \E t \in Tokens : Logout(t)

RevocationSteps ==
    \/ \E c \in Calls : RefuseDisabled(c)
    \/ \E c \in Calls : StartKill(c)
    \/ \E c \in Calls, u \in Users, asks \in Patches : UpdateUser(c, u, asks)
    \/ \E c \in Calls, u \in Users : SetPasswordHash(c, u)
    \/ \E c \in Calls : CommitUser(c)
    \/ \E c \in Calls : CommitOther(c)
    \/ \E u \in Users : DeleteUser(u)

Housekeeping ==
    \/ Tick
    \/ \E c \in Calls : StartSweep(c)
    \/ \E c \in Calls : Sweep(c)
    \/ \E c \in Calls : Abort(c)

Next == TokenSteps \/ RevocationSteps \/ Housekeeping

Spec == Init /\ [][Next]_vars

\* A call does not wait for ever: it goes on, or its connection or PostgreSQL's
\* deadlock detector ends it.
Proceed(c) ==
    \/ \E t \in Tokens : CreateRefreshToken(c, t) \/ RotateRefreshToken(c, t)
    \/ AnswerRefresh(c)
    \/ RefuseDisabled(c)
    \/ StartKill(c)
    \/ CommitUser(c)
    \/ CommitOther(c)
    \/ Sweep(c)
    \/ Abort(c)

\* The sweeper runs on every tick of its ticker, whether the last pass failed or
\* not; PostgreSQL lets a pass that waits for a row have it at last; and passes do
\* not fail for ever.
Fairness ==
    /\ \A c \in Calls : WF_vars(Proceed(c))
    /\ SF_vars(\E c \in Calls : StartSweep(c))
    /\ SF_vars(\E c \in Calls : Sweep(c))
    /\ <>[][\A c \in Calls : calls[c].step = "sweep" => calls'[c] = calls[c] \/ Sweep(c)]_vars

FairSpec == Spec /\ Fairness

-----------------------------------------------------------------------------
(* Properties                                                              *)

TypeOK ==
    /\ tokens \in [Tokens -> TokenRow]
    /\ users \in [Users -> UserRow]
    /\ calls \in [Calls -> Call]
    /\ held \subseteq Tokens
    /\ now \in Nat

\* A lineage never forks: however many calls present the tokens of one login at
\* once, at most one of its tokens is live ("It enforces single use").
OneLivePerLineage ==
    \A t1, t2 \in Tokens :
        /\ tokens[t1].status = "live"
        /\ tokens[t2].status = "live"
        /\ tokens[t1].lineage = tokens[t2].lineage
        => t1 = t2

\* Reuse detection can rely on the rows it needs: while a token works, every
\* token it was rotated from is still there, revoked, and a replay of it is
\* recognised ("Revoked but unexpired rows are kept").
ReplayRecognised ==
    \A t, old \in Tokens :
        /\ tokens[t].status = "live"
        /\ ~Expired(t)
        /\ tokens[old].lineage = tokens[t].lineage
        /\ old # t
        => tokens[old].status = "revoked"

\* No session continues while its user is disabled: a token that works for a
\* disabled user and that somebody holds comes from a login that had passed its
\* check before, never from a refresh.
KillSwitch ==
    \A t \in held :
        tokens[t].status = "live" /\ users[tokens[t].user].disabled
        => tokens[t].from = None

\* The step that disables a user, or takes the Server Admin flag from them, leaves
\* no token of theirs alive, whatever logins and rotations are under way ("also
\* revokes every live refresh token in the same transaction").
DisableEndsSessions ==
    [][\A u \in Users :
         \/ ~users[u].disabled /\ users'[u].disabled
         \/ users[u].admin /\ ~users'[u].admin
         => LiveTokens(u)' = {}]_vars

\* The sessions of the abstract specification: a session is named by the token
\* of its login, and is open while one of its tokens is live.
Started(l) == \E t \in Tokens : tokens[t].lineage = l

Working(l) == \E t \in Tokens : tokens[t].lineage = l /\ tokens[t].status = "live"

SessionState(l) == IF Working(l) THEN "open" ELSE IF Started(l) THEN "ended" ELSE "none"

TokenSessions ==
    INSTANCE Sessions WITH Logins <- Tokens,
                           session <- [l \in Tokens |-> SessionState(l)]

\* An ended session never opens again: no rotation that was under way when the
\* session was ended brings it back.
ImplementsSessions == TokenSessions!Spec

\* An expired row does not stay in the table, however often the tokens in it are
\* presented and whatever becomes of single passes of the sweep.
ExpiredRowsGo ==
    \A t \in Tokens :
        tokens[t].status \in {"live", "revoked"} /\ Expired(t)
            ~> tokens[t].status = "deleted"

-----------------------------------------------------------------------------
(* The inductive invariant of the proofs                                   *)

\* A row that was never inserted is blank; one that was has a user and belongs to
\* the lineage of a login, all of whose rows have one user and one expiry.
RowOK(t) ==
    LET first == tokens[t].lineage IN
    IF tokens[t].status = "absent" THEN first = None
    ELSE /\ tokens[t].user \in Users
         /\ first \in Tokens
         /\ tokens[first].status # "absent"
         /\ tokens[first].user = tokens[t].user
         /\ tokens[first].expires = tokens[t].expires
         /\ tokens[first].lineage = first

RowsOK == \A t \in Tokens : RowOK(t)

\* A row is deleted only when it has expired or its user is gone.
Kept ==
    \A t \in Tokens :
        /\ tokens[t].status = "live" => users[tokens[t].user].exists
        /\ tokens[t].status = "deleted" => Expired(t) \/ ~users[tokens[t].user].exists

HeldInserted == \A t \in held : tokens[t].status # "absent"

\* What a call remembers of the tokens is still true.
CallOK(c) ==
    LET call == calls[c] IN
    /\ call.step \notin {"idle", "sweep"} => call.user \in Users
    /\ call.step \in {"rotate", "answer", "reuse"} =>
         /\ call.token \in Tokens
         /\ tokens[call.token].status # "absent"
         /\ tokens[call.token].user = call.user
    /\ call.step = "rotate" => tokens[call.token].status = "live"
    /\ call.step = "sweep" =>
         \A t \in call.rows : tokens[t].status # "absent" /\ Expired(t)

CallsOK == \A c \in Calls : CallOK(c)

\* Row locks are exclusive.
LocksOK ==
    \A c, d \in Calls :
        /\ \A t \in Tokens : HoldsToken(c, t) /\ HoldsToken(d, t) => c = d
        /\ \A u \in Users : HoldsUser(c, u) /\ HoldsUser(d, u) => c = d

\* A patch that disables or demotes has every live token of the user in its
\* snapshot: none was added since.
PatchComplete ==
    \A c \in Calls :
        LET row == users[calls[c].user]
            new == Patched(row, calls[c].asks)
        IN  /\ calls[c].step = "patch"
            /\ (~row.disabled /\ new.disabled) \/ (row.admin /\ ~new.admin)
            => LiveTokens(calls[c].user) \subseteq calls[c].rows

\* The safety invariants, strengthened until every step preserves them.
TokenInv ==
    /\ TypeOK
    /\ RowsOK
    /\ Kept
    /\ HeldInserted
    /\ CallsOK
    /\ LocksOK
    /\ OneLivePerLineage
    /\ PatchComplete
    /\ KillSwitch

=============================================================================
