------------------------- MODULE RefreshTokensProofs -------------------------
(***************************************************************************)
(* The safety properties of RefreshTokens hold for every number of tokens, *)
(* users and connections, every TTL and however long the clock runs.       *)
(***************************************************************************)
EXTENDS RefreshTokens, TLAPS

-----------------------------------------------------------------------------
(* Types                                                                   *)

\* An idle connection is a call.
LEMMA IdleCall == Idle \in Call
BY DEF Idle, Call, Steps, Patches

\* Initially everything has its type.
LEMMA TypeInit == Init => TypeOK
<1> SUFFICES ASSUME Init
             PROVE  TypeOK
  OBVIOUS
<1>1. AbsentToken \in TokenRow
  BY DEF AbsentToken, TokenRow
<1>2. tokens \in [Tokens -> TokenRow]
  BY <1>1 DEF Init
<1>3. users \in [Users -> UserRow]
  BY DEF Init, UserRow
<1>4. calls \in [Calls -> Call]
  BY IdleCall DEF Init
<1> QED
  BY <1>2, <1>3, <1>4 DEF Init, TypeOK

\* The steps that start a call, or end one, keep the type of the calls.
LEMMA CallType ==
    ASSUME TypeOK, NEW c \in Calls, NEW call \in Call, SetCall(c, call)
    PROVE  calls' \in [Calls -> Call]
BY DEF TypeOK, SetCall

\* A change of status keeps the type of the rows.
LEMMA StatusType ==
    ASSUME TypeOK, NEW rows \in SUBSET Tokens, NEW status \in {"revoked", "deleted"},
           SetStatus(rows, status)
    PROVE  tokens' \in [Tokens -> TokenRow]
BY DEF TypeOK, SetStatus, TokenRow

\* Types are kept by the steps of the token endpoints ...
LEMMA TokenStepsType == TypeOK /\ CallsOK /\ TokenSteps => TypeOK'
<1> SUFFICES ASSUME TypeOK, CallsOK, TokenSteps
             PROVE  TypeOK'
  OBVIOUS
<1>1. ASSUME NEW c \in Calls, NEW u \in Users, AcceptLogin(c, u)
      PROVE  TypeOK'
  <2>1. [Idle EXCEPT !.step = "login", !.user = u] \in Call
    BY DEF Idle, Call, Steps, Patches
  <2> QED
    BY <1>1, <2>1, CallType DEF AcceptLogin, TypeOK
<1>2. ASSUME NEW c \in Calls, NEW t \in Tokens, CreateRefreshToken(c, t)
      PROVE  TypeOK'
  <2>1. [status |-> "live", user |-> calls[c].user, lineage |-> t,
         from |-> None, expires |-> now + TTL] \in TokenRow
    BY TimeAssumption DEF TypeOK, TokenRow, Call
  <2>2. tokens' \in [Tokens -> TokenRow]
    BY <1>2, <2>1 DEF CreateRefreshToken, TypeOK
  <2> QED
    BY <1>2, <2>2, CallType, IdleCall DEF CreateRefreshToken, TypeOK
<1>3. ASSUME NEW c \in Calls, NEW t \in Tokens, PresentLive(c, t)
      PROVE  TypeOK'
  <2>1. [Idle EXCEPT !.step = "rotate", !.user = tokens[t].user, !.token = t] \in Call
    BY DEF TypeOK, TokenRow, Idle, Call, Steps, Patches
  <2> QED
    BY <1>3, <2>1, CallType DEF PresentLive, TypeOK
<1>4. ASSUME NEW c \in Calls, NEW t \in Tokens, PresentRevoked(c, t)
      PROVE  TypeOK'
  <2>1. [Idle EXCEPT !.step = "reuse", !.user = tokens[t].user, !.token = t,
                     !.rows = LiveTokens(tokens[t].user)] \in Call
    BY DEF TypeOK, TokenRow, Idle, Call, Steps, Patches, LiveTokens
  <2> QED
    BY <1>4, <2>1, CallType DEF PresentRevoked, TypeOK
<1>5. ASSUME NEW c \in Calls, NEW t \in Tokens, RotateRefreshToken(c, t)
      PROVE  TypeOK'
  <2> DEFINE old == calls[c].token
             row == [tokens[old] EXCEPT !.status = "live", !.from = old]
  <2>1. old \in Tokens
    BY <1>5 DEF RotateRefreshToken, CallsOK, CallOK
  <2>2. [tokens EXCEPT ![old].status = "revoked"] \in [Tokens -> TokenRow]
    BY DEF TypeOK, TokenRow
  <2>3. row \in TokenRow
    <3>1. tokens[old] \in TokenRow
      BY <2>1 DEF TypeOK
    <3>2. [tokens[old] EXCEPT !.status = "live"] \in TokenRow
      BY <3>1 DEF TokenRow
    <3> QED
      BY <2>1, <3>2 DEF TokenRow
  <2>4. tokens' = [[tokens EXCEPT ![old].status = "revoked"] EXCEPT ![t] = row]
    BY <1>5 DEF RotateRefreshToken
  <2>5. tokens' \in [Tokens -> TokenRow]
    BY <2>2, <2>3, <2>4
  <2>6. [Idle EXCEPT !.step = "answer", !.user = calls[c].user, !.token = t] \in Call
    BY DEF TypeOK, Idle, Call, Steps, Patches
  <2> QED
    BY <1>5, <2>5, <2>6, CallType DEF RotateRefreshToken, TypeOK
<1>6. ASSUME NEW c \in Calls, AnswerRefresh(c)
      PROVE  TypeOK'
  <2>1. held' \subseteq Tokens
    BY <1>6 DEF AnswerRefresh, CallsOK, CallOK, TypeOK
  <2> QED
    BY <1>6, <2>1, IdleCall, CallType DEF AnswerRefresh, TypeOK
<1>7. ASSUME NEW t \in Tokens, Logout(t)
      PROVE  TypeOK'
  BY <1>7, StatusType DEF Logout, TypeOK
<1> QED
  BY <1>1, <1>2, <1>3, <1>4, <1>5, <1>6, <1>7 DEF TokenSteps

\* ... by the steps of account changes and of the kill switch ...
LEMMA RevocationStepsType == TypeOK /\ CallsOK /\ RevocationSteps => TypeOK'
<1> SUFFICES ASSUME TypeOK, CallsOK, RevocationSteps
             PROVE  TypeOK'
  OBVIOUS
<1>1. ASSUME NEW c \in Calls, RefuseDisabled(c)
      PROVE  TypeOK'
  <2>1. [calls[c] EXCEPT !.step = "kill"] \in Call
    BY DEF TypeOK, Call, Steps
  <2> QED
    BY <1>1, <2>1, CallType DEF RefuseDisabled, TypeOK
<1>2. ASSUME NEW c \in Calls, StartKill(c)
      PROVE  TypeOK'
  <2>1. [Idle EXCEPT !.step = "killing", !.user = calls[c].user,
                     !.rows = LiveTokens(calls[c].user)] \in Call
    BY DEF TypeOK, Idle, Call, Steps, Patches, LiveTokens
  <2> QED
    BY <1>2, <2>1, CallType DEF StartKill, TypeOK
<1>3. ASSUME NEW c \in Calls, NEW u \in Users, NEW asks \in Patches, UpdateUser(c, u, asks)
      PROVE  TypeOK'
  <2> DEFINE call == [Idle EXCEPT !.step = "patch", !.user = u, !.asks = asks,
                           !.rows = IF Revoking(u, asks) THEN LiveTokens(u) ELSE {}]
  <2>1. call \in Call
    BY DEF Idle, Call, Steps, LiveTokens
  <2>2. SetCall(c, call) /\ UNCHANGED <<tokens, users, held, now>>
    BY <1>3 DEF UpdateUser
  <2> HIDE DEF call
  <2>3. calls' \in [Calls -> Call]
    BY <2>1, <2>2, CallType
  <2> QED
    BY <2>2, <2>3 DEF TypeOK
<1>4. ASSUME NEW c \in Calls, NEW u \in Users, SetPasswordHash(c, u)
      PROVE  TypeOK'
  <2>1. [Idle EXCEPT !.step = "password", !.user = u, !.rows = LiveTokens(u)] \in Call
    BY DEF Idle, Call, Steps, Patches, LiveTokens
  <2> QED
    BY <1>4, <2>1, CallType DEF SetPasswordHash, TypeOK
<1>5. ASSUME NEW c \in Calls, RevokeTokens(c)
      PROVE  /\ tokens' \in [Tokens -> TokenRow]
             /\ calls' \in [Calls -> Call]
             /\ held' = held /\ now' = now
  <2> DEFINE rows == {t \in calls[c].rows : tokens[t].status = "live"}
  <2>1. rows \in SUBSET Tokens
    BY DEF TypeOK, Call
  <2>2. SetStatus(rows, "revoked") /\ SetCall(c, Idle) /\ UNCHANGED <<held, now>>
    BY <1>5 DEF RevokeTokens
  <2> HIDE DEF rows
  <2> QED
    BY <2>1, <2>2, StatusType, CallType, IdleCall
<1>6. ASSUME NEW c \in Calls, CommitUser(c)
      PROVE  TypeOK'
  <2>1. Patched(users[calls[c].user], calls[c].asks) \in UserRow
    <3>1. calls[c].user \in Users
      BY <1>6 DEF CommitUser, CallsOK, CallOK
    <3> QED
      BY <3>1 DEF TypeOK, UserRow, Patched
  <2> QED
    BY <1>5, <1>6, <2>1 DEF CommitUser, TypeOK
<1>7. ASSUME NEW c \in Calls, CommitOther(c)
      PROVE  TypeOK'
  BY <1>5, <1>7 DEF CommitOther, TypeOK
<1>8. ASSUME NEW u \in Users, DeleteUser(u)
      PROVE  TypeOK'
  <2>1. users' \in [Users -> UserRow]
    BY <1>8 DEF DeleteUser, TypeOK, UserRow
  <2> QED
    BY <1>8, <2>1, StatusType DEF DeleteUser, TypeOK
<1> QED
  BY <1>1, <1>2, <1>3, <1>4, <1>6, <1>7, <1>8 DEF RevocationSteps

\* ... and by the others.
LEMMA HousekeepingType == TypeOK /\ Housekeeping => TypeOK'
<1> SUFFICES ASSUME TypeOK, Housekeeping
             PROVE  TypeOK'
  OBVIOUS
<1>1. ASSUME Tick
      PROVE  TypeOK'
  BY <1>1 DEF Tick, TypeOK
<1>2. ASSUME NEW c \in Calls, StartSweep(c)
      PROVE  TypeOK'
  <2> DEFINE rows == {t \in Tokens : tokens[t].status \in {"live", "revoked"} /\ Expired(t)}
  <2>1. [Idle EXCEPT !.step = "sweep", !.rows = rows] \in Call
    BY DEF Idle, Call, Steps, Patches
  <2> QED
    BY <1>2, <2>1, CallType DEF StartSweep, TypeOK
<1>3. ASSUME NEW c \in Calls, Sweep(c)
      PROVE  TypeOK'
  <2>1. tokens' \in [Tokens -> TokenRow]
    BY <1>3 DEF Sweep, TypeOK, TokenRow
  <2> QED
    BY <1>3, <2>1, CallType, IdleCall DEF Sweep, TypeOK
<1>4. ASSUME NEW c \in Calls, Abort(c)
      PROVE  TypeOK'
  BY <1>4, CallType, IdleCall DEF Abort, TypeOK
<1> QED
  BY <1>1, <1>2, <1>3, <1>4 DEF Housekeeping

\* Types are inductive, given what the calls remember.
LEMMA TypeStep == TypeOK /\ CallsOK /\ [Next]_vars => TypeOK'
<1>1. TypeOK /\ UNCHANGED vars => TypeOK'
  BY DEF TypeOK, vars
<1> QED
  BY <1>1, TokenStepsType, RevocationStepsType, HousekeepingType DEF Next

-----------------------------------------------------------------------------
(* How a step changes the rows                                             *)

\* A row keeps its fields; it may be revoked or deleted.
RowEnds(t) ==
    /\ tokens'[t].user = tokens[t].user
    /\ tokens'[t].lineage = tokens[t].lineage
    /\ tokens'[t].expires = tokens[t].expires
    /\ tokens'[t].from \in {tokens[t].from, None}
    /\ \/ tokens'[t].status = tokens[t].status
       \/ tokens[t].status = "live" /\ tokens'[t].status = "revoked"
       \/ tokens[t].status # "absent" /\ tokens'[t].status = "deleted"

\* The steps that write rows.
LEMMA RowWrites ==
    ASSUME [Next]_vars
    PROVE  \/ tokens' = tokens
           \/ \E c \in Calls, t \in Tokens : CreateRefreshToken(c, t) \/ RotateRefreshToken(c, t)
           \/ \E t \in Tokens : Logout(t)
           \/ \E c \in Calls : RevokeTokens(c) \/ Sweep(c)
           \/ \E u \in Users : DeleteUser(u)
<1>1. CASE TokenSteps
  BY <1>1 DEF TokenSteps, AcceptLogin, PresentLive, PresentRevoked, AnswerRefresh
<1>2. CASE RevocationSteps
  BY <1>2 DEF RevocationSteps, RefuseDisabled, StartKill, UpdateUser, SetPasswordHash,
              CommitUser, CommitOther
<1>3. CASE Housekeeping
  BY <1>3 DEF Housekeeping, Tick, StartSweep, Abort
<1> QED
  BY <1>1, <1>2, <1>3 DEF Next, vars

\* A step inserts a row for a login, or one for a rotation, or rows end.
LEMMA RowSteps ==
    ASSUME TypeOK, CallsOK, [Next]_vars
    PROVE  \/ \E c \in Calls, t \in Tokens : CreateRefreshToken(c, t) \/ RotateRefreshToken(c, t)
           \/ \A t \in Tokens : RowEnds(t)
<1>1. CASE tokens' = tokens
  BY <1>1 DEF RowEnds
<1>2. ASSUME NEW t \in Tokens, Logout(t)
      PROVE  \A o \in Tokens : RowEnds(o)
  BY <1>2 DEF Logout, SetStatus, RowEnds, TypeOK, TokenRow
<1>3. ASSUME NEW c \in Calls, RevokeTokens(c)
      PROVE  \A o \in Tokens : RowEnds(o)
  BY <1>3 DEF RevokeTokens, SetStatus, RowEnds, TypeOK, TokenRow
<1>4. ASSUME NEW u \in Users, DeleteUser(u)
      PROVE  \A o \in Tokens : RowEnds(o)
  BY <1>4 DEF DeleteUser, SetStatus, RowEnds, Inserted, TypeOK, TokenRow
<1>5. ASSUME NEW c \in Calls, Sweep(c)
      PROVE  \A o \in Tokens : RowEnds(o)
  BY <1>5 DEF Sweep, RowEnds, CallsOK, CallOK, TypeOK, TokenRow
<1> QED
  BY <1>1, <1>2, <1>3, <1>4, <1>5, RowWrites

-----------------------------------------------------------------------------
(* Rows                                                                    *)

\* What CreateRefreshToken inserts.
LEMMA Created ==
    ASSUME TypeOK, CallsOK, NEW c \in Calls, NEW t \in Tokens, CreateRefreshToken(c, t)
    PROVE  /\ tokens[t].status = "absent"
           /\ tokens'[t].status = "live"
           /\ tokens'[t].user = calls[c].user
           /\ tokens'[t].lineage = t
           /\ tokens'[t].from = None
           /\ tokens'[t].expires = now + TTL
           /\ \A o \in Tokens \ {t} : tokens'[o] = tokens[o]
           /\ calls[c].user \in Users
           /\ users[calls[c].user].exists
           /\ ~UserLocked(calls[c].user, c)
<1>1. tokens' = [tokens EXCEPT ![t] =
                   [status |-> "live", user |-> calls[c].user, lineage |-> t,
                    from |-> None, expires |-> now + TTL]]
  BY DEF CreateRefreshToken
<1>2. tokens'[t] = [status |-> "live", user |-> calls[c].user, lineage |-> t,
                    from |-> None, expires |-> now + TTL]
  BY <1>1 DEF TypeOK
<1>3. \A o \in Tokens \ {t} : tokens'[o] = tokens[o]
  BY <1>1 DEF TypeOK
<1>4. calls[c].user \in Users
  BY DEF CallsOK, CallOK, CreateRefreshToken
<1> QED
  BY <1>2, <1>3, <1>4 DEF CreateRefreshToken, Inserted

\* What RotateRefreshToken revokes and inserts.
LEMMA Rotated ==
    ASSUME TypeOK, CallsOK, NEW c \in Calls, NEW t \in Tokens, RotateRefreshToken(c, t),
           NEW old, old = calls[c].token
    PROVE  /\ old \in Tokens \ {t}
           /\ tokens[t].status = "absent"
           /\ tokens[old].status = "live"
           /\ tokens'[t].status = "live"
           /\ tokens'[t].user = tokens[old].user
           /\ tokens'[t].lineage = tokens[old].lineage
           /\ tokens'[t].from = old
           /\ tokens'[t].expires = tokens[old].expires
           /\ tokens'[old].status = "revoked"
           /\ RowEnds(old)
           /\ \A o \in Tokens \ {t, old} : tokens'[o] = tokens[o]
           /\ tokens[old].user = calls[c].user
           /\ calls[c].user \in Users
           /\ users[calls[c].user].exists
           /\ ~UserLocked(calls[c].user, c)
<1>1. /\ old \in Tokens
      /\ tokens[old].status = "live"
      /\ tokens[old].user = calls[c].user
      /\ calls[c].user \in Users
  BY DEF CallsOK, CallOK, RotateRefreshToken
<1>2. tokens[t].status = "absent" /\ t # old
  BY <1>1 DEF RotateRefreshToken, Inserted
<1>3. tokens' = [tokens EXCEPT ![old].status = "revoked",
                               ![t] = [tokens[old] EXCEPT !.status = "live", !.from = old]]
  BY DEF RotateRefreshToken
<1>4. tokens'[t] = [tokens[old] EXCEPT !.status = "live", !.from = old]
  BY <1>1, <1>2, <1>3 DEF TypeOK
<1>5. tokens'[old] = [tokens[old] EXCEPT !.status = "revoked"]
  BY <1>1, <1>2, <1>3 DEF TypeOK
<1>6. \A o \in Tokens \ {t, old} : tokens'[o] = tokens[o]
  BY <1>1, <1>2, <1>3 DEF TypeOK
<1>7. tokens[old] \in TokenRow
  BY <1>1 DEF TypeOK
<1>8. /\ tokens'[t].status = "live"
      /\ tokens'[t].user = tokens[old].user
      /\ tokens'[t].lineage = tokens[old].lineage
      /\ tokens'[t].from = old
      /\ tokens'[t].expires = tokens[old].expires
  BY <1>1, <1>4, <1>7 DEF TokenRow
<1>9. tokens'[old].status = "revoked" /\ RowEnds(old)
  BY <1>1, <1>5, <1>7 DEF TokenRow, RowEnds
<1> QED
  BY <1>1, <1>2, <1>6, <1>8, <1>9 DEF RotateRefreshToken

\* Rows stay well-formed.
LEMMA RowsStep == TokenInv /\ [Next]_vars => RowsOK'
<1> SUFFICES ASSUME TokenInv, [Next]_vars
             PROVE  RowsOK'
  OBVIOUS
<1>1. CASE \A t \in Tokens : RowEnds(t)
  BY <1>1 DEF TokenInv, RowsOK, RowOK, RowEnds, TypeOK, TokenRow
<1>2. ASSUME NEW c \in Calls, NEW t \in Tokens, CreateRefreshToken(c, t)
      PROVE  RowsOK'
  <2>1. RowOK(t)'
    BY <1>2, Created, NoneAssumption DEF TokenInv, RowOK
  <2>2. ASSUME NEW o \in Tokens \ {t}
        PROVE  RowOK(o)'
    <3>1. RowOK(o) /\ tokens'[o] = tokens[o]
      BY <1>2, Created DEF TokenInv, RowsOK
    <3>2. tokens[o].status # "absent" => tokens[o].lineage \in Tokens \ {t}
      BY <1>2, <3>1, Created DEF TokenInv, RowOK
    <3>3. \A l \in Tokens \ {t} : tokens'[l] = tokens[l]
      BY <1>2, Created DEF TokenInv
    <3> QED
      BY <3>1, <3>2, <3>3 DEF RowOK
  <2> QED
    BY <2>1, <2>2 DEF RowsOK
<1>3. ASSUME NEW c \in Calls, NEW t \in Tokens, RotateRefreshToken(c, t)
      PROVE  RowsOK'
  <2> DEFINE old == calls[c].token
  <2>1. RowEnds(old) /\ \A o \in Tokens \ {t, old} : RowEnds(o)
    BY <1>3, Rotated DEF TokenInv, RowEnds
  <2>2. RowOK(old) /\ old \in Tokens \ {t} /\ tokens[old].status = "live"
    BY <1>3, Rotated DEF TokenInv, RowsOK
  <2>3. /\ tokens'[t].user = tokens[old].user
        /\ tokens'[t].lineage = tokens[old].lineage
        /\ tokens'[t].expires = tokens[old].expires
        /\ tokens'[t].status = "live"
    BY <1>3, Rotated DEF TokenInv, TypeOK, TokenRow
  <2>4. \A o \in Tokens \ {t} : tokens[o].status # "absent" => tokens[o].lineage # t
    BY <1>3, Rotated DEF TokenInv, RowsOK, RowOK
  <2>5. ASSUME NEW o \in Tokens \ {t}
        PROVE  RowOK(o)'
    BY <2>1, <2>4, <2>5 DEF TokenInv, RowsOK, RowOK, RowEnds
  <2>6. RowOK(t)'
    BY <2>1, <2>2, <2>3, <2>4 DEF RowOK, RowEnds
  <2> QED
    BY <2>5, <2>6 DEF RowsOK
<1> QED
  BY <1>1, <1>2, <1>3, RowSteps DEF TokenInv

\* A login starts a lineage of its own, and a rotation revokes before it inserts.
LEMMA OneLiveStep == TokenInv /\ [Next]_vars => OneLivePerLineage'
<1> SUFFICES ASSUME TokenInv, [Next]_vars
             PROVE  OneLivePerLineage'
  OBVIOUS
<1>1. CASE \A t \in Tokens : RowEnds(t)
  BY <1>1 DEF TokenInv, OneLivePerLineage, RowEnds, TypeOK, TokenRow
<1>2. ASSUME NEW c \in Calls, NEW t \in Tokens, CreateRefreshToken(c, t)
      PROVE  OneLivePerLineage'
  <2>1. tokens'[t].lineage = t
    BY <1>2, Created DEF TokenInv
  <2>2. \A o \in Tokens \ {t} :
          /\ tokens'[o] = tokens[o]
          /\ tokens[o].status # "absent" => tokens[o].lineage # t
    BY <1>2, Created DEF TokenInv, RowsOK, RowOK
  <2> QED
    BY <2>1, <2>2 DEF TokenInv, OneLivePerLineage
<1>3. ASSUME NEW c \in Calls, NEW t \in Tokens, RotateRefreshToken(c, t)
      PROVE  OneLivePerLineage'
  <2> DEFINE old == calls[c].token
  <2>1. old \in Tokens \ {t} /\ tokens[old].status = "live" /\ tokens'[old].status = "revoked"
    BY <1>3, Rotated DEF TokenInv, TypeOK, TokenRow
  <2>2. tokens'[t].lineage = tokens[old].lineage
    BY <1>3, <2>1, Rotated DEF TokenInv, TypeOK, TokenRow
  <2>3. \A o \in Tokens \ {t, old} : tokens'[o] = tokens[o]
    BY <1>3, Rotated DEF TokenInv
  <2>4. \A o \in Tokens \ {t, old} :
          tokens'[o].status = "live" => tokens'[o].lineage # tokens'[t].lineage
    BY <2>1, <2>2, <2>3 DEF TokenInv, OneLivePerLineage
  <2> QED
    BY <2>1, <2>3, <2>4 DEF TokenInv, OneLivePerLineage
<1> QED
  BY <1>1, <1>2, <1>3, RowSteps DEF TokenInv

-----------------------------------------------------------------------------
(* Calls and their locks                                                   *)

\* A step that sets one call leaves the others alone.
LEMMA OneCall ==
    ASSUME TypeOK, NEW c \in Calls, NEW call, SetCall(c, call)
    PROVE  calls'[c] = call /\ \A d \in Calls \ {c} : calls'[d] = calls[d]
BY DEF TypeOK, SetCall

\* What a call becomes, and that nobody else holds the row lock it takes.
LockStep(c) ==
    /\ \A d \in Calls \ {c} : calls'[d] = calls[d]
    /\ \/ calls'[c].step \notin {"rotate", "reuse", "patch", "password"}
       \/ /\ calls'[c].step \in {"rotate", "reuse"}
          /\ ~TokenLocked(calls'[c].token, c)
       \/ /\ calls'[c].step \in {"patch", "password"}
          /\ ~UserWritten(calls'[c].user, c)

\* A step changes at most one call; if that call takes a row lock, nobody else
\* holds it.
LEMMA CallSteps ==
    ASSUME TypeOK, [Next]_vars
    PROVE  calls' = calls \/ \E c \in Calls : LockStep(c)
<1>1. ASSUME NEW c \in Calls, SetCall(c, Idle)
      PROVE  LockStep(c)
  BY <1>1, OneCall DEF LockStep, Idle
<1>2. ASSUME NEW c \in Calls, NEW u \in Users, AcceptLogin(c, u)
      PROVE  LockStep(c)
  BY <1>2 DEF AcceptLogin, SetCall, LockStep, Idle, TypeOK
<1>3. ASSUME NEW c \in Calls, NEW t \in Tokens, PresentLive(c, t)
      PROVE  LockStep(c)
  BY <1>3 DEF PresentLive, SetCall, LockStep, Idle, TypeOK
<1>4. ASSUME NEW c \in Calls, NEW t \in Tokens, PresentRevoked(c, t)
      PROVE  LockStep(c)
  BY <1>4 DEF PresentRevoked, SetCall, LockStep, Idle, TypeOK
<1>5. ASSUME NEW c \in Calls, NEW t \in Tokens, RotateRefreshToken(c, t)
      PROVE  LockStep(c)
  BY <1>5 DEF RotateRefreshToken, SetCall, LockStep, Idle, TypeOK
<1>6. ASSUME NEW c \in Calls, RefuseDisabled(c)
      PROVE  LockStep(c)
  BY <1>6, OneCall DEF RefuseDisabled, LockStep, TypeOK, Call
<1>7. ASSUME NEW c \in Calls, StartKill(c)
      PROVE  LockStep(c)
  BY <1>7 DEF StartKill, SetCall, LockStep, Idle, TypeOK
<1>8. ASSUME NEW c \in Calls, NEW u \in Users, NEW asks \in Patches, UpdateUser(c, u, asks)
      PROVE  LockStep(c)
  BY <1>8 DEF UpdateUser, SetCall, LockStep, Idle, TypeOK
<1>9. ASSUME NEW c \in Calls, NEW u \in Users, SetPasswordHash(c, u)
      PROVE  LockStep(c)
  BY <1>9 DEF SetPasswordHash, SetCall, LockStep, Idle, TypeOK
<1>10. ASSUME NEW c \in Calls, StartSweep(c)
      PROVE  LockStep(c)
  BY <1>10 DEF StartSweep, SetCall, LockStep, Idle, TypeOK
<1>11. CASE TokenSteps
  BY <1>1, <1>2, <1>3, <1>4, <1>5, <1>11
     DEF TokenSteps, CreateRefreshToken, AnswerRefresh, Logout
<1>12. CASE RevocationSteps
  BY <1>1, <1>6, <1>7, <1>8, <1>9, <1>12
     DEF RevocationSteps, CommitUser, CommitOther, RevokeTokens, DeleteUser
<1>13. CASE Housekeeping
  BY <1>1, <1>10, <1>13 DEF Housekeeping, Tick, Sweep, Abort
<1> QED
  BY <1>11, <1>12, <1>13 DEF Next, vars

\* Row locks stay exclusive.
LEMMA LocksStep == TokenInv /\ [Next]_vars => LocksOK'
<1> SUFFICES ASSUME TokenInv, [Next]_vars
             PROVE  LocksOK'
  OBVIOUS
<1>1. CASE calls' = calls
  BY <1>1 DEF TokenInv, LocksOK, HoldsToken, HoldsUser
<1>2. ASSUME NEW c \in Calls, LockStep(c)
      PROVE  LocksOK'
  BY <1>2 DEF TokenInv, LocksOK, HoldsToken, HoldsUser, TokenLocked, UserWritten, LockStep
<1> QED
  BY <1>1, <1>2, CallSteps DEF TokenInv

\* Rows do not vanish, and do not change hands.
LEMMA RowsStay ==
    ASSUME TypeOK, CallsOK, [Next]_vars, NEW t \in Tokens, tokens[t].status # "absent"
    PROVE  /\ tokens'[t].status # "absent"
           /\ tokens'[t].user = tokens[t].user
           /\ tokens'[t].expires = tokens[t].expires
<1>1. CASE \A o \in Tokens : RowEnds(o)
  BY <1>1 DEF RowEnds
<1>2. ASSUME NEW c \in Calls, NEW o \in Tokens, CreateRefreshToken(c, o)
      PROVE  tokens'[t] = tokens[t]
  BY <1>2, Created
<1>3. ASSUME NEW c \in Calls, NEW o \in Tokens, RotateRefreshToken(c, o)
      PROVE  tokens'[t] = tokens[t] \/ (RowEnds(t) /\ tokens'[t].status = "revoked")
  BY <1>3, Rotated
<1> QED
  BY <1>1, <1>2, <1>3, RowSteps DEF RowEnds

\* The clock does not go back, so what has expired stays expired.
LEMMA ClockStep ==
    ASSUME TypeOK, [Next]_vars
    PROVE  now' \in Nat /\ now <= now'
<1>1. CASE TokenSteps
  <2>1. now' = now
    BY <1>1 DEF TokenSteps, AcceptLogin, CreateRefreshToken, PresentLive, PresentRevoked,
                RotateRefreshToken, AnswerRefresh, Logout
  <2> QED
    BY <2>1 DEF TypeOK
<1>2. CASE RevocationSteps
  <2>1. now' = now
    BY <1>2 DEF RevocationSteps, RefuseDisabled, StartKill, UpdateUser, SetPasswordHash,
                CommitUser, CommitOther, RevokeTokens, DeleteUser
  <2> QED
    BY <2>1 DEF TypeOK
<1>3. CASE Housekeeping
  <2>1. now' = now \/ now' = now + 1
    BY <1>3 DEF Housekeeping, Tick, StartSweep, Sweep, Abort
  <2> QED
    BY <2>1 DEF TypeOK
<1>4. CASE UNCHANGED vars
  BY <1>4 DEF vars, TypeOK
<1> QED
  BY <1>1, <1>2, <1>3, <1>4 DEF Next

\* The row a rotation has locked stays live until the rotation commits.
LEMMA LockedStaysLive ==
    ASSUME TokenInv, [Next]_vars, NEW d \in Calls, calls'[d] = calls[d],
           calls[d].step = "rotate"
    PROVE  tokens'[calls[d].token].status = "live"
<1> DEFINE t == calls[d].token
<1> USE DEF TokenInv
<1>1. t \in Tokens /\ tokens[t].status = "live" /\ HoldsToken(d, t)
  BY DEF CallsOK, CallOK, HoldsToken
<1>2. ASSUME NEW c \in Calls, calls'[c] = Idle
      PROVE  c # d
  BY <1>2 DEF Idle
<1>3. ASSUME tokens' = tokens
      PROVE  tokens'[t].status = "live"
  BY <1>1, <1>3
<1> HIDE DEF t
<1>4. ASSUME NEW c \in Calls, NEW o \in Tokens, CreateRefreshToken(c, o)
      PROVE  tokens'[t].status = "live"
  BY <1>1, <1>4, Created
<1>5. ASSUME NEW c \in Calls, NEW o \in Tokens, RotateRefreshToken(c, o)
      PROVE  tokens'[t].status = "live"
  <2>1. calls'[c].step = "answer"
    BY <1>5 DEF RotateRefreshToken, SetCall, TypeOK, Idle
  <2>2. HoldsToken(c, calls[c].token)
    BY <1>5 DEF RotateRefreshToken, HoldsToken
  <2>3. calls[c].token # t
    BY <1>1, <2>1, <2>2 DEF LocksOK
  <2> QED
    BY <1>1, <1>5, <2>3, Rotated
<1>6. ASSUME NEW o \in Tokens, Logout(o)
      PROVE  tokens'[t].status = "live"
  BY <1>1, <1>6 DEF Logout, SetStatus
<1>7. ASSUME NEW c \in Calls, RevokeTokens(c)
      PROVE  tokens'[t].status = "live"
  <2>1. c # d
    BY <1>2, <1>7 DEF RevokeTokens, SetCall, TypeOK
  <2>2. t \notin calls[c].rows
    BY <1>1, <1>7, <2>1 DEF RevokeTokens, Writable, TokenLocked
  <2> QED
    BY <1>1, <1>7, <2>2 DEF RevokeTokens, SetStatus
<1>8. ASSUME NEW u \in Users, DeleteUser(u)
      PROVE  tokens'[t].status = "live"
  BY <1>1, <1>8 DEF DeleteUser, SetStatus
<1>9. ASSUME NEW c \in Calls, Sweep(c)
      PROVE  tokens'[t].status = "live"
  <2>1. c # d
    BY <1>2, <1>9 DEF Sweep, SetCall, TypeOK
  <2>2. t \notin calls[c].rows
    BY <1>1, <1>9, <2>1 DEF Sweep, Writable, TokenLocked
  <2>3. tokens[t] \in TokenRow
    BY <1>1 DEF TypeOK
  <2> QED
    BY <1>1, <1>9, <2>2, <2>3 DEF Sweep, TokenRow
<1> QED
  BY <1>3, <1>4, <1>5, <1>6, <1>7, <1>8, <1>9, RowWrites DEF t

\* A call that does not move stays right about its rows, whatever others do.
LEMMA Undisturbed ==
    ASSUME TokenInv, [Next]_vars, NEW d \in Calls, calls'[d] = calls[d]
    PROVE  CallOK(d)'
<1> USE DEF TokenInv
<1>1. CallOK(d)
  BY DEF CallsOK
<1>2. ASSUME NEW t \in Tokens, tokens[t].status # "absent", Expired(t)
      PROVE  Expired(t)'
  <2>1. tokens[t].expires \in Nat
    BY DEF TypeOK, TokenRow
  <2> QED
    BY <1>2, <2>1, RowsStay, ClockStep DEF Expired, TypeOK
<1>3. calls[d].rows \subseteq Tokens
  BY DEF TypeOK, Call
<1> QED
  BY <1>1, <1>2, <1>3, RowsStay, LockedStaysLive DEF CallOK

\* A call that moves knows what it does: the login and refresh calls ...
LEMMA TokenCallsOK ==
    ASSUME TokenInv, TokenSteps, NEW c \in Calls, calls'[c] # calls[c]
    PROVE  CallOK(c)'
<1> USE DEF TokenInv
<1>1. TypeOK /\ \A d \in Calls : CallOK(d)
  BY DEF CallsOK
<1>2. ASSUME NEW d \in Calls, SetCall(d, Idle)
      PROVE  CallOK(c)'
  BY <1>2 DEF SetCall, TypeOK, Idle, CallOK
<1>3. ASSUME NEW d \in Calls, NEW u \in Users, AcceptLogin(d, u)
      PROVE  CallOK(c)'
  BY <1>3 DEF AcceptLogin, SetCall, TypeOK, Idle, CallOK
<1>4. ASSUME NEW d \in Calls, NEW t \in Tokens, PresentLive(d, t)
      PROVE  CallOK(c)'
  <2>1. tokens[t].user \in Users
    BY <1>4 DEF PresentLive, RowsOK, RowOK
  <2> QED
    BY <1>4, <2>1 DEF PresentLive, SetCall, TypeOK, Idle, CallOK
<1>5. ASSUME NEW d \in Calls, NEW t \in Tokens, PresentRevoked(d, t)
      PROVE  CallOK(c)'
  <2>1. tokens[t].user \in Users
    BY <1>5 DEF PresentRevoked, RowsOK, RowOK
  <2> QED
    BY <1>5, <2>1 DEF PresentRevoked, SetCall, TypeOK, Idle, CallOK
<1>6. ASSUME NEW d \in Calls, NEW t \in Tokens, RotateRefreshToken(d, t)
      PROVE  CallOK(c)'
  <2>1. calls' = [calls EXCEPT ![d] = [Idle EXCEPT !.step = "answer", !.user = calls[d].user,
                                                   !.token = t]]
    BY <1>6 DEF RotateRefreshToken, SetCall
  <2>2. c = d
    BY <2>1 DEF TypeOK
  <2>3. calls'[c].step = "answer" /\ calls'[c].user = calls[c].user /\ calls'[c].token = t
    BY <2>1, <2>2 DEF TypeOK, Idle
  <2>4. /\ tokens'[t].status = "live"
        /\ tokens'[t].user = calls[c].user
        /\ calls[c].user \in Users
    BY <1>6, <2>2, Rotated
  <2> QED
    BY <2>3, <2>4 DEF CallOK
<1> QED
  BY <1>2, <1>3, <1>4, <1>5, <1>6
     DEF TokenSteps, CreateRefreshToken, AnswerRefresh, Logout

\* ... and the others.
LEMMA OtherCallsOK ==
    ASSUME TokenInv, RevocationSteps \/ Housekeeping, NEW c \in Calls, calls'[c] # calls[c]
    PROVE  CallOK(c)'
<1> USE DEF TokenInv
<1>1. TypeOK /\ \A d \in Calls : CallOK(d)
  BY DEF CallsOK
<1>2. ASSUME NEW d \in Calls, SetCall(d, Idle)
      PROVE  CallOK(c)'
  BY <1>2 DEF SetCall, TypeOK, Idle, CallOK
<1>3. ASSUME NEW d \in Calls, RefuseDisabled(d)
      PROVE  CallOK(c)'
  <2>1. calls' = [calls EXCEPT ![d] = [calls[d] EXCEPT !.step = "kill"]]
    BY <1>3 DEF RefuseDisabled, SetCall
  <2>2. c = d
    BY <2>1 DEF TypeOK
  <2>3. calls[c] \in Call
    BY DEF TypeOK
  <2>4. calls'[c].step = "kill" /\ calls'[c].user = calls[c].user
    BY <2>1, <2>2, <2>3 DEF TypeOK, Call
  <2>5. calls[c].user \in Users
    BY <1>1, <1>3, <2>2 DEF RefuseDisabled, CallOK
  <2> QED
    BY <2>4, <2>5 DEF CallOK
<1>4. ASSUME NEW d \in Calls, StartKill(d)
      PROVE  CallOK(c)'
  <2>1. calls[d].user \in Users
    BY <1>1, <1>4 DEF StartKill, CallOK
  <2> QED
    BY <1>4, <2>1 DEF StartKill, SetCall, TypeOK, Idle, CallOK
<1>5. ASSUME NEW d \in Calls, NEW u \in Users, NEW asks \in Patches, UpdateUser(d, u, asks)
      PROVE  CallOK(c)'
  BY <1>5 DEF UpdateUser, SetCall, TypeOK, Idle, CallOK
<1>6. ASSUME NEW d \in Calls, NEW u \in Users, SetPasswordHash(d, u)
      PROVE  CallOK(c)'
  BY <1>6 DEF SetPasswordHash, SetCall, TypeOK, Idle, CallOK
<1>7. ASSUME NEW d \in Calls, StartSweep(d)
      PROVE  CallOK(c)'
  <2> DEFINE rows == {t \in Tokens : tokens[t].status \in {"live", "revoked"} /\ Expired(t)}
  <2>1. calls' = [calls EXCEPT ![d] = [Idle EXCEPT !.step = "sweep", !.rows = rows]]
    BY <1>7 DEF StartSweep, SetCall
  <2>2. c = d
    BY <2>1 DEF TypeOK
  <2>3. calls'[c].step = "sweep" /\ calls'[c].rows = rows
    BY <2>1, <2>2 DEF TypeOK, Idle
  <2>4. tokens' = tokens /\ now' = now
    BY <1>7 DEF StartSweep
  <2> QED
    BY <2>3, <2>4 DEF CallOK, Expired
<1> QED
  BY <1>2, <1>3, <1>4, <1>5, <1>6, <1>7
     DEF RevocationSteps, Housekeeping, CommitUser, CommitOther, RevokeTokens, DeleteUser,
         Tick, Sweep, Abort

\* Every call is right about its rows after every step.
LEMMA CallsStep == TokenInv /\ [Next]_vars => CallsOK'
<1> SUFFICES ASSUME TokenInv, [Next]_vars, NEW c \in Calls
             PROVE  CallOK(c)'
  BY DEF CallsOK
<1>1. CASE calls'[c] = calls[c]
  BY <1>1, Undisturbed
<1>2. CASE calls'[c] # calls[c]
  BY <1>2, TokenCallsOK, OtherCallsOK DEF Next, vars
<1> QED
  BY <1>1, <1>2

-----------------------------------------------------------------------------
(* Users and what the server hands out                                     *)

\* How a step changes the users: a patch commits, a user is deleted with their
\* tokens, or nothing happens.
LEMMA UserSteps ==
    ASSUME TypeOK, [Next]_vars
    PROVE  \/ users' = users
           \/ \E c \in Calls : CommitUser(c)
           \/ \E u \in Users : DeleteUser(u)
BY DEF Next, vars, TokenSteps, RevocationSteps, Housekeeping, AcceptLogin,
       CreateRefreshToken, PresentLive, PresentRevoked, RotateRefreshToken, AnswerRefresh,
       Logout, RefuseDisabled, StartKill, UpdateUser, SetPasswordHash, CommitOther, Tick,
       StartSweep, Sweep, Abort

\* A patch changes the flags of one user and nobody's existence.
LEMMA UserPatched ==
    ASSUME TypeOK, CallsOK, NEW c \in Calls, CommitUser(c)
    PROVE  /\ calls[c].user \in Users
           /\ \A u \in Users \ {calls[c].user} : users'[u] = users[u]
           /\ users'[calls[c].user] = Patched(users[calls[c].user], calls[c].asks)
           /\ \A u \in Users : users'[u].exists = users[u].exists
<1>1. calls[c].user \in Users
  BY DEF CommitUser, CallsOK, CallOK
<1>2. users' = [users EXCEPT ![calls[c].user] = Patched(users[calls[c].user], calls[c].asks)]
  BY DEF CommitUser
<1>3. \A row \in UserRow : Patched(row, calls[c].asks).exists = row.exists
  BY DEF Patched, UserRow
<1> QED
  BY <1>1, <1>2, <1>3 DEF TypeOK

\* A row is deleted with its user, or when it has expired.
LEMMA NewlyDeleted ==
    ASSUME TokenInv, [Next]_vars, NEW t \in Tokens,
           tokens[t].status # "deleted", tokens'[t].status = "deleted"
    PROVE  Expired(t) \/ \E u \in Users : DeleteUser(u)
<1> USE DEF TokenInv
<1>1. ASSUME NEW c \in Calls, NEW o \in Tokens, CreateRefreshToken(c, o)
      PROVE  FALSE
  BY <1>1, Created
<1>2. ASSUME NEW c \in Calls, NEW o \in Tokens, RotateRefreshToken(c, o)
      PROVE  FALSE
  BY <1>2, Rotated
<1>3. ASSUME NEW o \in Tokens, Logout(o)
      PROVE  FALSE
  BY <1>3 DEF Logout, SetStatus, TypeOK, TokenRow
<1>4. ASSUME NEW c \in Calls, RevokeTokens(c)
      PROVE  FALSE
  BY <1>4 DEF RevokeTokens, SetStatus, TypeOK, TokenRow
<1>5. ASSUME NEW c \in Calls, Sweep(c)
      PROVE  Expired(t)
  <2>1. t \in calls[c].rows
    BY <1>5 DEF Sweep, TypeOK, TokenRow
  <2> QED
    BY <1>5, <2>1 DEF Sweep, CallsOK, CallOK
<1> QED
  BY <1>1, <1>2, <1>3, <1>4, <1>5, RowWrites

\* A row goes only with its user or after its expiry.
LEMMA KeptStep == TokenInv /\ [Next]_vars => Kept'
<1> SUFFICES ASSUME TokenInv, [Next]_vars, NEW t \in Tokens
             PROVE  /\ tokens'[t].status = "live" => users'[tokens'[t].user].exists
                    /\ tokens'[t].status = "deleted" =>
                         Expired(t)' \/ ~users'[tokens'[t].user].exists
  BY DEF Kept, Expired
<1> USE DEF TokenInv
<1>1. tokens[t].status # "absent" => tokens[t].user \in Users
  BY DEF RowsOK, RowOK
<1>2. tokens[t].status # "absent" /\ Expired(t) => Expired(t)'
  <2>1. tokens[t].expires \in Nat
    BY DEF TypeOK, TokenRow
  <2> QED
    BY <2>1, RowsStay, ClockStep DEF Expired, TypeOK
<1>3. ASSUME NEW u \in Users, DeleteUser(u)
      PROVE  /\ ~users'[u].exists
             /\ \A w \in Users \ {u} : users'[w] = users[w]
             /\ tokens[t].status # "absent" /\ tokens[t].user = u
                  => tokens'[t].status = "deleted" /\ tokens'[t].user = u
             /\ tokens[t].status = "absent" \/ tokens[t].user # u => tokens'[t] = tokens[t]
             /\ now' = now
  BY <1>3 DEF DeleteUser, SetStatus, Inserted, TypeOK, TokenRow, UserRow
<1>4. ASSUME NEW u \in Users, DeleteUser(u)
      PROVE  /\ tokens'[t].status = "live" => users'[tokens'[t].user].exists
             /\ tokens'[t].status = "deleted" =>
                  Expired(t)' \/ ~users'[tokens'[t].user].exists
  BY <1>1, <1>2, <1>3, <1>4 DEF Kept
<1>5. ASSUME ~\E u \in Users : DeleteUser(u)
      PROVE  /\ tokens'[t].status = "live" => users'[tokens'[t].user].exists
             /\ tokens'[t].status = "deleted" =>
                  Expired(t)' \/ ~users'[tokens'[t].user].exists
  <2>1. \A u \in Users : users'[u].exists = users[u].exists
    BY <1>5, UserSteps, UserPatched
  <2>2. tokens'[t].status = "live" => /\ tokens'[t].user \in Users
                                      /\ users[tokens'[t].user].exists
    <3>1. ASSUME NEW c \in Calls, NEW o \in Tokens, CreateRefreshToken(c, o)
          PROVE  tokens'[t].status = "live" => /\ tokens'[t].user \in Users
                                               /\ users[tokens'[t].user].exists
      BY <1>1, <3>1, Created DEF Kept
    <3>2. ASSUME NEW c \in Calls, NEW o \in Tokens, RotateRefreshToken(c, o)
          PROVE  tokens'[t].status = "live" => /\ tokens'[t].user \in Users
                                               /\ users[tokens'[t].user].exists
      BY <1>1, <3>2, Rotated DEF Kept
    <3>3. CASE \A o \in Tokens : RowEnds(o)
      BY <1>1, <3>3 DEF RowEnds, Kept
    <3> QED
      BY <3>1, <3>2, <3>3, RowSteps
  <2>3. ASSUME tokens'[t].status = "deleted"
        PROVE  Expired(t)' \/ ~users'[tokens'[t].user].exists
    <3>1. tokens[t].status # "absent"
      BY <2>3, RowSteps, Created, Rotated DEF RowEnds
    <3>2. CASE tokens[t].status = "deleted"
      BY <1>1, <1>2, <2>1, <3>1, <3>2, RowsStay DEF Kept
    <3>3. CASE tokens[t].status # "deleted"
      BY <1>2, <1>5, <2>3, <3>1, <3>3, NewlyDeleted
    <3> QED
      BY <3>2, <3>3
  <2> QED
    BY <2>1, <2>2, <2>3
<1> QED
  BY <1>4, <1>5

\* What a step hands out: the token of a login, or the successor of a refresh
\* whose user is not disabled.
LEMMA HeldSteps ==
    ASSUME TypeOK, CallsOK, [Next]_vars, NEW t \in held', t \notin held
    PROVE  \/ \E c \in Calls : CreateRefreshToken(c, t)
           \/ /\ t \in Tokens
              /\ tokens' = tokens
              /\ tokens[t].status # "absent"
              /\ users' = users
              /\ ~users[tokens[t].user].disabled
<1>1. ASSUME NEW c \in Calls, NEW o \in Tokens, CreateRefreshToken(c, o)
      PROVE  o = t
  BY <1>1 DEF CreateRefreshToken
<1>2. ASSUME NEW c \in Calls, AnswerRefresh(c)
      PROVE  /\ t \in Tokens
             /\ tokens' = tokens
             /\ tokens[t].status # "absent"
             /\ users' = users
             /\ ~users[tokens[t].user].disabled
  <2>1. t = calls[c].token
    BY <1>2 DEF AnswerRefresh
  <2> QED
    BY <1>2, <2>1 DEF AnswerRefresh, CallsOK, CallOK
<1>3. held' = held \/ (\E c \in Calls, o \in Tokens : CreateRefreshToken(c, o))
                   \/ \E c \in Calls : AnswerRefresh(c)
  BY DEF Next, vars, TokenSteps, RevocationSteps, Housekeeping, AcceptLogin, PresentLive,
         PresentRevoked, RotateRefreshToken, Logout, RefuseDisabled, StartKill, UpdateUser,
         SetPasswordHash, CommitUser, CommitOther, RevokeTokens, DeleteUser, Tick,
         StartSweep, Sweep, Abort
<1> QED
  BY <1>1, <1>2, <1>3

\* Nothing is handed out that is not in the table.
LEMMA HeldStep == TokenInv /\ [Next]_vars => HeldInserted'
<1> SUFFICES ASSUME TokenInv, [Next]_vars, NEW t \in held'
             PROVE  tokens'[t].status # "absent"
  BY DEF HeldInserted
<1> USE DEF TokenInv
<1>1. CASE t \in held
  BY <1>1, RowsStay DEF HeldInserted, TypeOK
<1>2. CASE t \notin held
  <2>1. ASSUME NEW c \in Calls, CreateRefreshToken(c, t)
        PROVE  t \in Tokens /\ tokens'[t].status = "live"
    <3>1. t \in Tokens
      BY TypeStep DEF TypeOK
    <3> QED
      BY <2>1, <3>1, Created
  <2> QED
    BY <1>2, <2>1, HeldSteps
<1> QED
  BY <1>1, <1>2

\* A row that was there before and is live after a step was live before.
LEMMA LiveStep ==
    ASSUME TypeOK, CallsOK, [Next]_vars, NEW t \in Tokens,
           tokens[t].status # "absent", tokens'[t].status = "live"
    PROVE  /\ tokens[t].status = "live"
           /\ tokens'[t].user = tokens[t].user
           /\ tokens'[t].from \in {tokens[t].from, None}
<1>1. ASSUME NEW c \in Calls, NEW o \in Tokens, CreateRefreshToken(c, o)
      PROVE  tokens'[t] = tokens[t]
  BY <1>1, Created
<1>2. ASSUME NEW c \in Calls, NEW o \in Tokens, RotateRefreshToken(c, o)
      PROVE  tokens'[t] = tokens[t]
  BY <1>2, Rotated
<1> QED
  BY <1>1, <1>2, RowSteps DEF RowEnds

\* A patch that disables or demotes its user leaves them no live token.
LEMMA PatchRevokes ==
    ASSUME TokenInv, NEW c \in Calls, CommitUser(c), NEW u \in Users, u = calls[c].user,
           \/ ~users[u].disabled /\ users'[u].disabled
           \/ users[u].admin /\ ~users'[u].admin
    PROVE  \A t \in Tokens : tokens[t].user = u => tokens'[t].status # "live"
<1> USE DEF TokenInv
<1>1. users'[u] = Patched(users[u], calls[c].asks)
  BY UserPatched
<1>2. LiveTokens(u) \subseteq calls[c].rows
  BY <1>1 DEF PatchComplete, CommitUser
<1>3. tokens' = [t \in Tokens |->
                   IF t \in {r \in calls[c].rows : tokens[r].status = "live"}
                   THEN [tokens[t] EXCEPT !.status = "revoked"] ELSE tokens[t]]
  BY DEF CommitUser, RevokeTokens, SetStatus
<1> QED
  BY <1>2, <1>3 DEF LiveTokens, TypeOK, TokenRow

\* A disabled user keeps only tokens of logins.
LEMMA KillSwitchStep == TokenInv /\ [Next]_vars => KillSwitch'
<1> SUFFICES ASSUME TokenInv, [Next]_vars, NEW t \in held',
                    tokens'[t].status = "live", users'[tokens'[t].user].disabled
             PROVE  tokens'[t].from = None
  BY DEF KillSwitch
<1> USE DEF TokenInv
<1>1. t \in Tokens
  BY TypeStep DEF TypeOK
<1>2. CASE t \notin held
  BY <1>1, <1>2, HeldSteps, Created
<1>3. CASE t \in held
  <2>1. tokens[t].status # "absent"
    BY <1>3 DEF HeldInserted
  <2> DEFINE u == tokens[t].user
  <2>2. u \in Users
    BY <1>1, <2>1 DEF RowsOK, RowOK
  <2>3. tokens[t].status = "live" /\ tokens'[t].user = u /\ tokens'[t].from \in {tokens[t].from, None}
    BY <1>1, <2>1, LiveStep
  <2>4. users[u].disabled
    <3>1. CASE users' = users
      BY <2>3, <3>1
    <3>2. ASSUME NEW w \in Users, DeleteUser(w)
          PROVE  users'[u].disabled = users[u].disabled
      BY <2>2, <3>2 DEF DeleteUser, TypeOK, UserRow
    <3>3. ASSUME NEW c \in Calls, CommitUser(c), ~users[u].disabled
          PROVE  FALSE
      <4>1. CASE calls[c].user # u
        BY <2>2, <2>3, <3>3, <4>1, UserPatched
      <4>2. CASE calls[c].user = u
        BY <1>1, <2>2, <2>3, <3>3, <4>2, PatchRevokes
      <4> QED
        BY <4>1, <4>2
    <3> QED
      BY <2>3, <3>1, <3>2, <3>3, UserSteps
  <2> QED
    BY <1>3, <2>3, <2>4 DEF KillSwitch
<1> QED
  BY <1>2, <1>3

\* A call that comes to be patching a user has just locked the row.
LEMMA PatchStarts ==
    ASSUME TypeOK, [Next]_vars, NEW c \in Calls, calls'[c] # calls[c], calls'[c].step = "patch"
    PROVE  \E u \in Users, asks \in Patches : UpdateUser(c, u, asks)
<1>1. ASSUME NEW d \in Calls, SetCall(d, Idle)
      PROVE  FALSE
  BY <1>1 DEF SetCall, TypeOK, Idle
<1>2. CASE TokenSteps
  <2>1. ASSUME NEW d \in Calls, NEW u \in Users, AcceptLogin(d, u)
        PROVE  FALSE
    BY <2>1 DEF AcceptLogin, SetCall, TypeOK, Idle
  <2>2. ASSUME NEW d \in Calls, NEW t \in Tokens, PresentLive(d, t)
        PROVE  FALSE
    BY <2>2 DEF PresentLive, SetCall, TypeOK, Idle
  <2>3. ASSUME NEW d \in Calls, NEW t \in Tokens, PresentRevoked(d, t)
        PROVE  FALSE
    BY <2>3 DEF PresentRevoked, SetCall, TypeOK, Idle
  <2>4. ASSUME NEW d \in Calls, NEW t \in Tokens, RotateRefreshToken(d, t)
        PROVE  FALSE
    BY <2>4 DEF RotateRefreshToken, SetCall, TypeOK, Idle
  <2> QED
    BY <1>1, <1>2, <2>1, <2>2, <2>3, <2>4
       DEF TokenSteps, CreateRefreshToken, AnswerRefresh, Logout
<1>3. CASE RevocationSteps
  <2>1. ASSUME NEW d \in Calls, RefuseDisabled(d)
        PROVE  FALSE
    BY <2>1 DEF RefuseDisabled, SetCall, TypeOK, Call
  <2>2. ASSUME NEW d \in Calls, StartKill(d)
        PROVE  FALSE
    BY <2>2 DEF StartKill, SetCall, TypeOK, Idle
  <2>3. ASSUME NEW d \in Calls, NEW u \in Users, NEW asks \in Patches, UpdateUser(d, u, asks)
        PROVE  d = c
    BY <2>3 DEF UpdateUser, SetCall, TypeOK, Idle
  <2>4. ASSUME NEW d \in Calls, NEW u \in Users, SetPasswordHash(d, u)
        PROVE  FALSE
    BY <2>4 DEF SetPasswordHash, SetCall, TypeOK, Idle
  <2> QED
    BY <1>1, <1>3, <2>1, <2>2, <2>3, <2>4
       DEF RevocationSteps, CommitUser, CommitOther, RevokeTokens, DeleteUser
<1>4. CASE Housekeeping
  <2>1. ASSUME NEW d \in Calls, StartSweep(d)
        PROVE  FALSE
    BY <2>1 DEF StartSweep, SetCall, TypeOK, Idle
  <2> QED
    BY <1>1, <1>4, <2>1 DEF Housekeeping, Tick, Sweep, Abort
<1> QED
  BY <1>2, <1>3, <1>4 DEF Next, vars

\* While a patch is under way, nobody inserts a token of its user and nobody else
\* changes the flags.
LEMMA PatchCompleteStep == TokenInv /\ [Next]_vars => PatchComplete'
<1> SUFFICES ASSUME TokenInv, [Next]_vars, NEW c \in Calls, calls'[c].step = "patch",
                    NEW row, row = users'[calls'[c].user],
                    NEW new, new = Patched(row, calls'[c].asks),
                    (~row.disabled /\ new.disabled) \/ (row.admin /\ ~new.admin)
             PROVE  \A t \in Tokens :
                      tokens'[t].status = "live" /\ tokens'[t].user = calls'[c].user
                      => t \in calls'[c].rows
  BY DEF PatchComplete, LiveTokens
<1> USE DEF TokenInv
<1>1. CASE calls'[c] = calls[c]
  <2> DEFINE u == calls[c].user
  <2>1. u \in Users /\ HoldsUser(c, u)
    BY <1>1 DEF CallsOK, CallOK, HoldsUser
  <2>2. users'[u] = users[u]
    <3>1. ASSUME NEW d \in Calls, CommitUser(d)
          PROVE  users'[u] = users[u]
      <4>1. d # c
        BY <1>1, <3>1 DEF CommitUser, RevokeTokens, SetCall, TypeOK, Idle
      <4>2. HoldsUser(d, calls[d].user)
        BY <3>1 DEF CommitUser, HoldsUser
      <4>3. calls[d].user # u
        BY <2>1, <4>1, <4>2 DEF LocksOK
      <4> QED
        BY <2>1, <3>1, <4>3, UserPatched
    <3>2. ASSUME NEW w \in Users, DeleteUser(w)
          PROVE  users'[u] = users[u]
      BY <2>1, <3>2 DEF DeleteUser, TypeOK
    <3> QED
      BY <3>1, <3>2, UserSteps
  <2>3. LiveTokens(u) \subseteq calls[c].rows
    BY <1>1, <2>2 DEF PatchComplete
  <2>4. ASSUME NEW t \in Tokens, tokens'[t].status = "live", tokens'[t].user = u
        PROVE  tokens[t].status = "live" /\ tokens[t].user = u
    <3>1. CASE tokens[t].status # "absent"
      BY <2>4, <3>1, LiveStep
    <3>2. ASSUME NEW d \in Calls, calls[d].step # "patch", ~UserLocked(u, d)
          PROVE  FALSE
      BY <1>1, <3>2 DEF UserLocked
    <3>3. ASSUME NEW d \in Calls, CreateRefreshToken(d, t)
          PROVE  FALSE
      <4>1. calls[d].user = u /\ ~UserLocked(calls[d].user, d)
        BY <2>4, <3>3, Created
      <4>2. calls[d].step # "patch"
        BY <3>3 DEF CreateRefreshToken
      <4> QED
        BY <3>2, <4>1, <4>2
    <3>4. ASSUME NEW d \in Calls, RotateRefreshToken(d, t)
          PROVE  FALSE
      <4>1. calls[d].user = u /\ ~UserLocked(calls[d].user, d)
        BY <2>4, <3>4, Rotated
      <4>2. calls[d].step # "patch"
        BY <3>4 DEF RotateRefreshToken
      <4> QED
        BY <3>2, <4>1, <4>2
    <3>5. CASE tokens[t].status = "absent"
      BY <2>4, <3>3, <3>4, <3>5, RowSteps, Created, Rotated DEF RowEnds
    <3> QED
      BY <3>1, <3>5
  <2> QED
    BY <1>1, <2>3, <2>4 DEF LiveTokens
<1>2. CASE calls'[c] # calls[c]
  <2>1. PICK u \in Users, asks \in Patches : UpdateUser(c, u, asks)
    BY <1>2, PatchStarts
  <2>2. /\ calls'[c].user = u
        /\ calls'[c].asks = asks
        /\ calls'[c].rows = IF Revoking(u, asks) THEN LiveTokens(u) ELSE {}
    BY <2>1 DEF UpdateUser, SetCall, TypeOK, Idle
  <2>3. tokens' = tokens /\ users' = users
    BY <2>1 DEF UpdateUser
  <2>4. Revoking(u, asks)
    BY <2>2, <2>3 DEF Revoking, Patched, TypeOK, UserRow
  <2> QED
    BY <2>2, <2>3, <2>4 DEF LiveTokens
<1> QED
  BY <1>1, <1>2

-----------------------------------------------------------------------------
(* The invariant is inductive                                              *)

\* The invariant holds initially.
LEMMA TokenInit == Init => TokenInv
<1> SUFFICES ASSUME Init
             PROVE  TokenInv
  OBVIOUS
<1>1. TypeOK
  BY TypeInit
<1>2. /\ \A t \in Tokens : tokens[t].status = "absent" /\ tokens[t].lineage = None
      /\ \A c \in Calls : calls[c] = Idle
      /\ held = {}
  BY DEF Init, AbsentToken
<1>3. RowsOK /\ Kept /\ HeldInserted /\ OneLivePerLineage /\ KillSwitch
  BY <1>2 DEF RowsOK, RowOK, Kept, HeldInserted, OneLivePerLineage, KillSwitch
<1>4. CallsOK /\ LocksOK /\ PatchComplete
  BY <1>2 DEF CallsOK, CallOK, LocksOK, HoldsToken, HoldsUser, PatchComplete, Idle
<1> QED
  BY <1>1, <1>3, <1>4 DEF TokenInv

\* The strengthened invariant holds in every state.
THEOREM TokensInductive == Spec => []TokenInv
<1>1. TokenInv /\ [Next]_vars => TokenInv'
  BY TypeStep, RowsStep, KeptStep, HeldStep, CallsStep, LocksStep, OneLiveStep,
     PatchCompleteStep, KillSwitchStep DEF TokenInv
<1> QED
  BY <1>1, TokenInit, PTL DEF Spec

-----------------------------------------------------------------------------
(* What follows                                                            *)

\* Of the tokens rotated one from another, at most one works, however many calls
\* present them at once.
THEOREM SingleUse == Spec => []OneLivePerLineage
BY TokensInductive, PTL DEF TokenInv

\* A disabled user's session is not continued by a refresh.
THEOREM DisabledCannotRefresh == Spec => []KillSwitch
BY TokensInductive, PTL DEF TokenInv

\* While a token works, the sweep has kept every token it was rotated from.
THEOREM ReplaysAreRecognised == Spec => []ReplayRecognised
<1>1. TokenInv => ReplayRecognised
  <2> SUFFICES ASSUME TokenInv, NEW t \in Tokens, NEW old \in Tokens,
                      tokens[t].status = "live", ~Expired(t),
                      tokens[old].lineage = tokens[t].lineage, old # t
               PROVE  tokens[old].status = "revoked"
    BY DEF ReplayRecognised
  <2> USE DEF TokenInv
  <2>1. tokens[old].status # "live"
    BY DEF OneLivePerLineage
  <2>2. tokens[old].status # "absent"
    BY NoneAssumption DEF RowsOK, RowOK
  <2>3. tokens[old].user = tokens[t].user /\ tokens[old].expires = tokens[t].expires
    BY <2>2 DEF RowsOK, RowOK
  <2>4. tokens[old].status # "deleted"
    BY <2>3 DEF Kept, Expired
  <2> QED
    BY <2>1, <2>2, <2>4 DEF TypeOK, TokenRow
<1> QED
  BY <1>1, TokensInductive, PTL

\* Disabling or demoting a user revokes every token they have, in the same
\* transaction, whatever else is under way.
THEOREM DisablingIsComplete == Spec => DisableEndsSessions
<1>1. ASSUME TokenInv, [Next]_vars, NEW u \in Users,
             \/ ~users[u].disabled /\ users'[u].disabled
             \/ users[u].admin /\ ~users'[u].admin
      PROVE  LiveTokens(u)' = {}
  <2> USE <1>1 DEF TokenInv
  <2>1. PICK c \in Calls : CommitUser(c)
    <3>1. ASSUME NEW w \in Users, DeleteUser(w)
          PROVE  users'[u].disabled = users[u].disabled /\ users'[u].admin = users[u].admin
      BY <3>1 DEF DeleteUser, TypeOK, UserRow
    <3> QED
      BY <3>1, UserSteps
  <2>2. calls[c].user = u
    BY <2>1, UserPatched
  <2>3. \A t \in Tokens : tokens[t].user = u => tokens'[t].status # "live"
    BY <2>1, <2>2, PatchRevokes
  <2>4. \A t \in Tokens : tokens'[t].user = tokens[t].user
    BY <2>1 DEF CommitUser, RevokeTokens, SetStatus, TypeOK, TokenRow
  <2> QED
    BY <2>3, <2>4 DEF LiveTokens
<1>2. TokenInv /\ [Next]_vars =>
        [\A u \in Users :
           \/ ~users[u].disabled /\ users'[u].disabled
           \/ users[u].admin /\ ~users'[u].admin
           => LiveTokens(u)' = {}]_vars
  BY <1>1
<1> QED
  BY <1>2, TokensInductive, PTL DEF Spec, DisableEndsSessions

-----------------------------------------------------------------------------
(* The abstract sessions                                                   *)

\* What happens to the session named l when rows end.
LEMMA Ending ==
    ASSUME TypeOK, \A t \in Tokens : RowEnds(t), NEW l \in Tokens
    PROVE  /\ Started(l)' <=> Started(l)
           /\ Working(l)' => Working(l)
BY DEF Started, Working, RowEnds, TypeOK, TokenRow

\* A login opens the session that is named by its token.
LEMMA LoginOpens ==
    ASSUME TypeOK, CallsOK, RowsOK, NEW c \in Calls, NEW t \in Tokens, CreateRefreshToken(c, t)
    PROVE  /\ ~Started(t) /\ Working(t)'
           /\ \A l \in Tokens \ {t} : (Started(l)' <=> Started(l)) /\ (Working(l)' <=> Working(l))
<1>1. \A o \in Tokens : tokens[o].lineage # t
  BY Created, NoneAssumption DEF RowsOK, RowOK
<1>2. ASSUME NEW l \in Tokens \ {t}, NEW o \in Tokens
      PROVE  /\ tokens'[o].lineage = l <=> tokens[o].lineage = l
             /\ tokens'[o].lineage = l => tokens'[o] = tokens[o]
  BY <1>2, Created, NoneAssumption DEF RowsOK, RowOK
<1> QED
  BY <1>1, <1>2, Created DEF Started, Working

\* A rotation leaves every session as it was.
LEMMA RotationInvisible ==
    ASSUME TypeOK, CallsOK, RowsOK, NEW c \in Calls, NEW t \in Tokens,
           RotateRefreshToken(c, t), NEW l \in Tokens
    PROVE  (Started(l)' <=> Started(l)) /\ (Working(l)' <=> Working(l))
<1> DEFINE old == calls[c].token
<1>1. /\ old \in Tokens \ {t}
      /\ tokens[old].status = "live" /\ tokens'[t].status = "live"
      /\ tokens'[t].lineage = tokens[old].lineage
      /\ tokens'[old].lineage = tokens[old].lineage
      /\ tokens[t].lineage = None
      /\ \A o \in Tokens \ {t, old} : tokens'[o] = tokens[o]
  BY Rotated DEF RowEnds, RowsOK, RowOK
<1> HIDE DEF old
<1>2. Started(l)' <=> Started(l)
  BY <1>1, NoneAssumption DEF Started
<1>3. Working(l)' => Working(l)
  BY <1>1, NoneAssumption DEF Working
<1>4. Working(l) => Working(l)'
  BY <1>1, NoneAssumption DEF Working
<1> QED
  BY <1>2, <1>3, <1>4

\* Every step of the token endpoints is a step of the abstract sessions, or
\* invisible.
LEMMA SessionsStep ==
    ASSUME TokenInv, [Next]_vars
    PROVE  [TokenSessions!Next]_([l \in Tokens |-> SessionState(l)])
<1> DEFINE session == [l \in Tokens |-> SessionState(l)]
<1> USE DEF TokenInv
<1>1. ASSUME NEW c \in Calls, NEW t \in Tokens, CreateRefreshToken(c, t)
      PROVE  TokenSessions!Open(t)
  <2>1. session[t] = "none" /\ SessionState(t)' = "open"
    BY <1>1, LoginOpens DEF SessionState, Started, Working
  <2>2. \A l \in Tokens \ {t} : SessionState(l)' = SessionState(l)
    BY <1>1, LoginOpens DEF SessionState
  <2>3. session' = [session EXCEPT ![t] = "open"]
    BY <2>1, <2>2
  <2> QED
    BY <2>1, <2>3 DEF TokenSessions!Open
<1>2. ASSUME NEW c \in Calls, NEW t \in Tokens, RotateRefreshToken(c, t)
      PROVE  session' = session
  BY <1>2, RotationInvisible DEF SessionState
<1>3. ASSUME \A t \in Tokens : RowEnds(t)
      PROVE  \E ended \in SUBSET Tokens : TokenSessions!End(ended)
  <2> DEFINE ended == {l \in Tokens : SessionState(l) = "open" /\ SessionState(l)' = "ended"}
  <2>1. \A l \in Tokens : SessionState(l)' = IF l \in ended THEN "ended" ELSE SessionState(l)
    <3> SUFFICES ASSUME NEW l \in Tokens
                 PROVE  SessionState(l)' = IF l \in ended THEN "ended" ELSE SessionState(l)
      OBVIOUS
    <3>1. (Started(l)' <=> Started(l)) /\ (Working(l)' => Working(l))
      BY <1>3, Ending
    <3>2. Working(l) => Started(l)
      BY DEF Working, Started
    <3> QED
      BY <3>1, <3>2 DEF SessionState
  <2>2. session' = [l \in Tokens |-> IF l \in ended THEN "ended" ELSE session[l]]
    BY <2>1
  <2>3. TokenSessions!End(ended)
    BY <2>2 DEF TokenSessions!End
  <2> QED
    BY <2>3
<1> QED
  BY <1>1, <1>2, <1>3, RowSteps DEF TokenSessions!Next

\* A session that has ended stays ended: the token endpoints implement the
\* abstract sessions.
THEOREM SessionsRefined == Spec => ImplementsSessions
<1>1. Init => TokenSessions!Init
  BY NoneAssumption DEF Init, AbsentToken, SessionState, Started, Working, TokenSessions!Init
<1>2. TokenInv /\ [Next]_vars =>
        [TokenSessions!Next]_([l \in Tokens |-> SessionState(l)])
  BY SessionsStep
<1> QED
  BY <1>1, <1>2, TokensInductive, PTL DEF Spec, ImplementsSessions, TokenSessions!Spec

=============================================================================
