------------------------------ MODULE SpaSession ------------------------------
(***************************************************************************)
(* The sign-in session of the browser application: several tabs share one  *)
(* pair of tokens in localStorage, refresh it under a Web Lock, and learn  *)
(* who is signed in by asking the server.  Token number i stands for the   *)
(* access token and the refresh token of the i-th pair; 0 is none.  The    *)
(* server side is the token endpoints, one atomic step per request; their  *)
(* statements are in RefreshTokens.  localStorage is read and written in   *)
(* one step of a tab, and the events that tell the other tabs come later.  *)
(***************************************************************************)
EXTENDS Naturals, FiniteSets, SequencesExt

CONSTANTS Tabs,        \* tabs of one browser, all of the same origin
          Slots,       \* how many things a tab does at once
          MaxToken,    \* bound: pairs the server mints
          MaxLoads,    \* bound: page loads after the first
          MaxWork,     \* bound: things under way in all tabs
          MaxEvents,   \* bound: storage events a tab has not handled yet
          Stored,      \* what localStorage may hold at first
          WebLocks     \* does the browser have navigator.locks?

ASSUME SessionAssumption == MaxToken \in Nat \ {0} /\ MaxLoads \in Nat /\ MaxEvents \in Nat /\ WebLocks \in BOOLEAN

VARIABLES
    rt,        \* server: the state of each refresh token
    codes,     \* server: hand-off codes nobody has exchanged
    store,     \* localStorage, shared by the tabs
    mirror,    \* memoryAccess and memoryRefresh of each tab
    inbox,     \* storage events on their way to each tab
    lockq,     \* the tabs that hold (first) or await the Web Lock
    rot,       \* refreshInFlight of each tab
    backoff,   \* is Date.now() < refreshBackoffUntil?
    work,      \* what each tab is doing
    me,        \* does the tab show somebody signed in?
    loading,   \* authLoading of each tab
    loads,     \* page loads so far
    wire,      \* refresh requests whose tab is gone
    excused    \* history: refresh tokens a tab may have to show again

server == <<rt, codes>>
browser == <<store, mirror, inbox>>
vars == <<rt, codes, store, mirror, inbox, lockq, rot, backoff, work, me,
          loading, loads, wire, excused>>

Token == 1..MaxToken
Pair == [access : 0..MaxToken, refresh : 0..MaxToken]
NoPair == [access |-> 0, refresh |-> 0]
PairOf(i) == [access |-> i, refresh |-> i]

\* Nothing, what an earlier visit left, or the refresh token alone that an older
\* release kept.
ASSUME StoredAssumption == Stored \subseteq {NoPair, PairOf(1), [access |-> 0, refresh |-> 1]}

Idle == [do |-> "idle", pc |-> "", tok |-> 0]
NoRefresh == [pc |-> "none", tok |-> 0, got |-> 0]

Minted == {i \in Token : rt[i] # "none"}
NextToken == Cardinality(Minted) + 1

-----------------------------------------------------------------------------
(* auth/tokens.ts: the store and its mirrors *)

\* read: storage first, the mirror of the tab when storage has nothing.
Read(st, mi, key) == IF st[key] # 0 THEN st[key] ELSE mi[key]
GetAccessToken(t) == Read(store, mirror[t], "access")
GetRefreshToken(t) == Read(store, mirror[t], "refresh")

\* setTokens and clearTokens, and the storage events a change causes elsewhere.
WriteTokens(t, pair) ==
    /\ store' = pair
    /\ mirror' = [mirror EXCEPT ![t] = pair]
    /\ pair # store => \A u \in Tabs \ {t} : Len(inbox[u]) < MaxEvents
    /\ inbox' = IF pair = store THEN inbox
                ELSE [u \in Tabs |-> IF u = t THEN inbox[u] ELSE Append(inbox[u], pair)]
    /\ backoff' = [backoff EXCEPT ![t] = FALSE]

\* The storage listener of a tab.
StorageEvent(t) ==
    /\ inbox[t] # <<>>
    /\ mirror' = [mirror EXCEPT ![t] = Head(inbox[t])]
    /\ inbox' = [inbox EXCEPT ![t] = Tail(@)]
    /\ UNCHANGED <<server, store, lockq, rot, backoff, work, me, loading, loads,
                   wire, excused>>

-----------------------------------------------------------------------------
(* authFetch and what waits for it *)

\* Does a request carry a token?  The server may find any access token expired,
\* so the requests do not say which one they carry.
Bearer(access) == IF access = 0 THEN 0 ELSE 1

\* What an activity becomes once the refresh it waits for gave r (0: nothing).
\* A request that is still unauthorized makes AuthContext ask who is signed in.
After(a, r, access) ==
    CASE a.do = "load" -> [do |-> "boot", pc |-> "sent", tok |-> Bearer(access)]
      [] a.do # "load" /\ r # 0 -> [do |-> a.do, pc |-> "again", tok |-> Bearer(r)]
      [] a.do = "api" /\ r = 0 -> [do |-> "me", pc |-> "sent", tok |-> Bearer(access)]
      [] OTHER -> Idle

\* The identity check that ends with nobody signed in.
EndsSignedOut(a, r) == a.do \in {"me", "boot"} /\ r = 0

\* Activity s of tab t takes the outcome r of a refresh it does not wait for.
Resume(t, s, r) ==
    LET a == work[t][s] IN
    /\ work' = [work EXCEPT ![t][s] = After(a, r, GetAccessToken(t))]
    /\ me' = [me EXCEPT ![t] = @ /\ ~EndsSignedOut(a, r)]
    /\ loading' = [loading EXCEPT ![t] = @ /\ ~(EndsSignedOut(a, r) /\ a.do = "boot")]

\* refreshAccessToken, called by activity s of tab t: share the refresh under
\* way, give up at once, or queue for the lock with the token seen now.
RefreshAccessToken(t, s) ==
    \/ /\ rot[t].pc # "none"
       /\ work' = [work EXCEPT ![t][s].pc = "await"]
       /\ UNCHANGED <<rot, lockq, me, loading>>
    \/ /\ rot[t].pc = "none"
       /\ GetRefreshToken(t) = 0 \/ backoff[t]
       /\ Resume(t, s, 0)
       /\ UNCHANGED <<rot, lockq>>
    \/ /\ rot[t].pc = "none" /\ GetRefreshToken(t) # 0 /\ ~backoff[t]
       /\ rot' = [rot EXCEPT ![t] = [pc |-> "queued", tok |-> GetRefreshToken(t), got |-> 0]]
       /\ lockq' = IF WebLocks THEN Append(lockq, t) ELSE lockq
       /\ work' = [work EXCEPT ![t][s].pc = "await"]
       /\ UNCHANGED <<me, loading>>

\* The lock queue without tab t, which is in it once at most.
Without(t) ==
    IF \E i \in DOMAIN lockq : lockq[i] = t
    THEN RemoveAt(lockq, CHOOSE i \in DOMAIN lockq : lockq[i] = t)
    ELSE lockq

\* The refresh of tab t settles with r: the lock goes on to the next tab, and
\* everything in this tab that waited resumes with the tokens stored by then.
SettleRefresh(t, r) ==
    LET waiting == {s \in Slots : work[t][s].pc = "await"}
        access == Read(store', mirror'[t], "access")
        losers == {s \in waiting : EndsSignedOut(work[t][s], r)} IN
    /\ rot' = [rot EXCEPT ![t] = NoRefresh]
    /\ lockq' = Without(t)
    /\ work' = [work EXCEPT ![t] = [s \in Slots |->
                  IF s \in waiting THEN After(@[s], r, access) ELSE @[s]]]
    /\ me' = [me EXCEPT ![t] = @ /\ losers = {}]
    /\ loading' = [loading EXCEPT ![t] = @ /\ \A s \in losers : work[t][s].do # "boot"]

\* A mutant: a tab does not wait for the lock.
MayAlwaysRotate(t) == t \in Tabs
MayRotate(t) == WebLocks => lockq # <<>> /\ Head(lockq) = t

\* rotate, from the lock to the request: a pair that another tab stored while
\* this one waited is used as it is.
ReuseRotated(t) ==
    /\ rot[t].pc = "queued" /\ MayRotate(t)
    /\ GetRefreshToken(t) # rot[t].tok
    /\ UNCHANGED <<server, browser, backoff, loads, wire, excused>>
    /\ SettleRefresh(t, IF GetRefreshToken(t) = 0 THEN 0 ELSE GetAccessToken(t))

\* A mutant: the token seen before the wait for the lock is sent.
PostSeen(t) ==
    /\ rot[t].pc = "queued" /\ MayRotate(t)
    /\ rot' = [rot EXCEPT ![t].pc = "posted"]
    /\ excused' = IF inbox[t] = <<>> THEN excused ELSE excused \cup {rot[t].tok}
    /\ UNCHANGED <<server, browser, lockq, backoff, work, me, loading, loads, wire>>

PostRefresh(t) ==
    /\ rot[t].pc = "queued" /\ MayRotate(t)
    /\ GetRefreshToken(t) = rot[t].tok
    /\ rot' = [rot EXCEPT ![t].pc = "posted"]
    /\ excused' = IF inbox[t] = <<>> THEN excused ELSE excused \cup {rot[t].tok}
    /\ UNCHANGED <<server, browser, lockq, backoff, work, me, loading, loads, wire>>

\* The server is shown refresh token i: rotate it, or revoke everything.
Present(i) ==
    /\ rt[i] = "live" => NextToken \in Token
    /\ rt' = IF rt[i] = "live" THEN [rt EXCEPT ![i] = "rotated", ![NextToken] = "live"]
             ELSE [j \in Token |-> IF rt[j] = "live" THEN "revoked" ELSE rt[j]]
    /\ UNCHANGED codes

ServeRefresh(t) ==
    /\ rot[t].pc = "posted"
    /\ Present(rot[t].tok)
    /\ rot' = [rot EXCEPT ![t] = IF rt[@.tok] = "live"
                                 THEN [pc |-> "answered", tok |-> @.tok, got |-> NextToken]
                                 ELSE [@ EXCEPT !.pc = "refused"]]
    /\ UNCHANGED <<browser, lockq, backoff, work, me, loading, loads, wire, excused>>

\* The server takes a request whose tab has gone away since.
ServeOrphan(i) ==
    /\ i \in wire
    /\ Present(i)
    /\ wire' = wire \ {i}
    /\ UNCHANGED <<browser, lockq, rot, backoff, work, me, loading, loads, excused>>

\* rotate, from the answer on: a new pair, a final no, or (a network error, 408,
\* 429, 5xx, an unreadable body) neither.
StoreRotated(t) ==
    /\ rot[t].pc = "answered"
    /\ WriteTokens(t, PairOf(rot[t].got))
    /\ SettleRefresh(t, rot[t].got)
    /\ UNCHANGED <<server, loads, wire, excused>>

RefreshRefused(t) ==
    /\ rot[t].pc = "refused"
    /\ WriteTokens(t, NoPair)
    /\ SettleRefresh(t, 0)
    /\ UNCHANGED <<server, loads, wire, excused>>

BackOff(t) ==
    /\ rot[t].pc \in {"posted", "answered", "refused"}
    /\ backoff' = [backoff EXCEPT ![t] = TRUE]
    /\ excused' = excused \cup {rot[t].tok}
    /\ UNCHANGED <<server, browser, loads, wire>>
    /\ SettleRefresh(t, 0)

BackOffEnds(t) ==
    /\ backoff[t]
    /\ backoff' = [backoff EXCEPT ![t] = FALSE]
    /\ UNCHANGED <<server, browser, lockq, rot, work, me, loading, loads, wire, excused>>

\* A request under authFetch is accepted, refused, or fails altogether.
Accepted(t, s) ==
    LET a == work[t][s] IN
    /\ a.pc \in {"sent", "again"} /\ a.tok # 0
    /\ work' = [work EXCEPT ![t][s] = Idle]
    /\ me' = [me EXCEPT ![t] = @ \/ a.do \in {"me", "boot"}]
    /\ loading' = [loading EXCEPT ![t] = @ /\ a.do # "boot"]
    /\ UNCHANGED <<server, browser, lockq, rot, backoff, loads, wire, excused>>

Unauthorized(t, s) ==
    /\ work[t][s].pc \in {"sent", "again"}
    /\ \/ work[t][s].pc = "sent" /\ RefreshAccessToken(t, s)
       \/ work[t][s].pc = "again" /\ Resume(t, s, 0) /\ UNCHANGED <<rot, lockq>>
    /\ UNCHANGED <<server, browser, backoff, loads, wire, excused>>

FetchFails(t, s) ==
    LET a == work[t][s] IN
    /\ a.pc \in {"sent", "again"} /\ a.do \in {"api", "me", "boot"}
    /\ work' = [work EXCEPT ![t][s] = Idle]
    /\ me' = [me EXCEPT ![t] = @ /\ a.do = "api"]
    /\ loading' = [loading EXCEPT ![t] = @ /\ a.do # "boot"]
    /\ UNCHANGED <<server, browser, lockq, rot, backoff, loads, wire, excused>>

-----------------------------------------------------------------------------
(* auth/AuthContext.tsx: what the user does and what the page does by itself *)

Busy == {p \in Tabs \X Slots : work[p[1]][p[2]] # Idle}

Begin(t, s, a) ==
    /\ work[t][s] = Idle /\ Cardinality(Busy) < MaxWork
    /\ work' = [work EXCEPT ![t][s] = a]
    /\ UNCHANGED <<server, browser, lockq, rot, backoff, me, loading, loads, wire, excused>>

\* A page sends a request with the token it finds; a user signs in or out.
StartRequest(t, s) ==
    ~loading[t] /\ Begin(t, s, [do |-> "api", pc |-> "sent", tok |-> Bearer(GetAccessToken(t))])
StartLogin(t, s) ==
    ~loading[t] /\ ~me[t] /\ Begin(t, s, [do |-> "login", pc |-> "posted", tok |-> 0])
StartLogout(t, s) ==
    me[t] /\ Begin(t, s, [do |-> "logout", pc |-> "posted", tok |-> GetRefreshToken(t)])

\* The server opens a session: its first pair.
OpenSession ==
    /\ NextToken \in Token
    /\ rt' = [rt EXCEPT ![NextToken] = "live"]

LoginLocal(t, s) ==
    /\ work[t][s].do = "login"
    /\ \/ /\ OpenSession /\ UNCHANGED codes
          /\ WriteTokens(t, PairOf(NextToken))
          /\ work' = [work EXCEPT ![t][s] = [do |-> "me", pc |-> "sent", tok |-> 1]]
       \/ /\ work' = [work EXCEPT ![t][s] = Idle]
          /\ UNCHANGED <<server, browser, backoff>>
    /\ UNCHANGED <<lockq, rot, me, loading, loads, wire, excused>>

\* Sign-out revokes the refresh token that was stored when it began, if that
\* still is a live one, and clears the store whatever the server said.
ServeLogout(t, s) ==
    LET a == work[t][s] IN
    /\ a.do = "logout" /\ a.pc = "posted"
    /\ work' = [work EXCEPT ![t][s].pc = "answered"]
    /\ rt' = IF a.tok # 0 /\ rt[a.tok] = "live" THEN [rt EXCEPT ![a.tok] = "revoked"] ELSE rt
    /\ UNCHANGED <<codes, browser, lockq, rot, backoff, me, loading,
                   loads, wire, excused>>

Logout(t, s) ==
    /\ work[t][s].do = "logout"
    /\ WriteTokens(t, NoPair)
    /\ work' = [work EXCEPT ![t][s] = Idle]
    /\ me' = [me EXCEPT ![t] = FALSE]
    /\ UNCHANGED <<server, lockq, rot, loading, loads, wire, excused>>

\* Both mount effects of a page share one run of bootstrapAuth; the mutant does
\* without the memo.
BootsPerEffect(s, code) == [r \in Slots |-> [do |-> "load", pc |-> "start", tok |-> code]]
Boots(s, code) == [r \in Slots |-> IF r = s THEN [do |-> "load", pc |-> "start", tok |-> code] ELSE Idle]

\* The tab loads the application anew; its lock is released and a refresh on
\* the wire is abandoned.  An OIDC sign-in ends in such a load, with a hand-off
\* code in the fragment of the URL.
Load(t, code) ==
    /\ loads < MaxLoads
    /\ loads' = loads + 1
    /\ rot' = [rot EXCEPT ![t] = NoRefresh]
    /\ lockq' = Without(t)
    /\ wire' = IF rot[t].pc = "posted" THEN wire \cup {rot[t].tok} ELSE wire
    /\ excused' = IF rot[t].pc \in {"posted", "answered"} THEN excused \cup {rot[t].tok} ELSE excused
    /\ mirror' = [mirror EXCEPT ![t] = NoPair]
    /\ inbox' = [inbox EXCEPT ![t] = <<>>]
    /\ backoff' = [backoff EXCEPT ![t] = FALSE]
    /\ me' = [me EXCEPT ![t] = FALSE]
    /\ loading' = [loading EXCEPT ![t] = TRUE]
    /\ \E s \in Slots : work' = [work EXCEPT ![t] = Boots(s, code)]
    /\ UNCHANGED store

Reload(t) == Load(t, 0) /\ UNCHANGED server

ReturnFromIdP(t) ==
    /\ ~loading[t] /\ ~me[t]
    /\ OpenSession
    /\ codes' = codes \cup {NextToken}
    /\ Load(t, NextToken)

\* bootstrapAuth: consume the code, or refresh when only the refresh token is
\* stored, or go straight to the identity.  One run serves both mount effects.
BootstrapAuth(t, s) ==
    LET a == work[t][s]
        alone == GetAccessToken(t) = 0 /\ GetRefreshToken(t) # 0 IN
    /\ a.do = "load" /\ a.pc = "start"
    /\ \/ /\ a.tok # 0
          /\ work' = [work EXCEPT ![t][s].pc = "exchange"]
          /\ UNCHANGED <<lockq, rot, me, loading>>
       \/ a.tok = 0 /\ alone /\ RefreshAccessToken(t, s)
       \/ a.tok = 0 /\ ~alone /\ Resume(t, s, 0) /\ UNCHANGED <<rot, lockq>>
    /\ UNCHANGED <<server, browser, backoff, loads, wire, excused>>

\* The exchange deletes the code; the stored pair is the one it handed off.
ConsumeOIDCHandoff(t, s) ==
    LET a == work[t][s] IN
    /\ a.do = "load" /\ a.pc = "exchange"
    /\ codes' = codes \ {a.tok}
    /\ \/ /\ a.tok \in codes
          /\ WriteTokens(t, PairOf(a.tok))
          /\ work' = [work EXCEPT ![t][s] = After(a, 0, a.tok)]
       \/ /\ work' = [work EXCEPT ![t][s] = [do |-> "load", pc |-> "start", tok |-> 0]]
          /\ UNCHANGED <<browser, backoff>>
    /\ UNCHANGED <<rt, lockq, rot, me, loading, loads, wire, excused>>

-----------------------------------------------------------------------------
(* Time and the other ends of a session *)

\* The account is disabled, or its password changed elsewhere.
RevokeAll ==
    /\ \E i \in Token : rt[i] = "live"
    /\ rt' = [i \in Token |-> IF rt[i] = "live" THEN "revoked" ELSE rt[i]]
    /\ UNCHANGED <<codes, browser, lockq, rot, backoff, work, me, loading,
                   loads, wire, excused>>

Init ==
    /\ \E st \in Stored :
          /\ store = st
          /\ rt = [i \in Token |-> IF i = st.refresh THEN "live" ELSE "none"]
    /\ mirror = [t \in Tabs |-> NoPair]
    /\ inbox = [t \in Tabs |-> <<>>]
    /\ lockq = <<>>
    /\ rot = [t \in Tabs |-> NoRefresh]
    /\ backoff = [t \in Tabs |-> FALSE]
    /\ \E s \in Slots : work = [t \in Tabs |-> Boots(s, 0)]
    /\ me = [t \in Tabs |-> FALSE]
    /\ loading = [t \in Tabs |-> TRUE]
    /\ loads = 0
    /\ codes = {} /\ wire = {} /\ excused = {}

\* What a user or the server decides, and what follows by itself.
Decisions ==
    \/ \E t \in Tabs : Reload(t) \/ ReturnFromIdP(t)
    \/ \E t \in Tabs, s \in Slots : StartRequest(t, s) \/ StartLogin(t, s) \/ StartLogout(t, s)
    \/ RevokeAll

Refreshes(t) ==
    \/ ReuseRotated(t) \/ PostRefresh(t) \/ ServeRefresh(t)
    \/ StoreRotated(t) \/ RefreshRefused(t) \/ BackOff(t)

Answers(t, s) ==
    \/ Accepted(t, s) \/ Unauthorized(t, s) \/ FetchFails(t, s)
    \/ BootstrapAuth(t, s) \/ ConsumeOIDCHandoff(t, s)
    \/ LoginLocal(t, s) \/ ServeLogout(t, s) \/ Logout(t, s)

Next ==
    \/ Decisions
    \/ \E i \in Token : ServeOrphan(i)
    \/ \E t \in Tabs : StorageEvent(t) \/ BackOffEnds(t) \/ Refreshes(t)
    \/ \E t \in Tabs, s \in Slots : Answers(t, s)

Spec == Init /\ [][Next]_vars

-----------------------------------------------------------------------------
(* Properties *)

\* What the tabs rely on: the pair in localStorage and everything that is on
\* its way in a tab are tokens the server has minted (auth/tokens.ts:33-66).
TypeOK ==
    /\ rt \in [Token -> {"none", "live", "rotated", "revoked"}]
    /\ codes \subseteq Token /\ wire \subseteq Token
    /\ store \in Pair /\ mirror \in [Tabs -> Pair]
    /\ \A t \in Tabs : inbox[t] \in Seq(Pair)
    /\ lockq \in Seq(Tabs)
    /\ rot \in [Tabs -> [pc : {"none", "queued", "posted", "answered", "refused"},
                         tok : 0..MaxToken, got : 0..MaxToken]]
    /\ {store.refresh, store.access} \cup {rot[t].got : t \in Tabs} \subseteq Minted \cup {0}

\* At most one open tab has a refresh on the wire: refreshes are serialised
\* (auth/tokens.ts:93-100, ARCHITECTURE.md "Tabs ... serialise refreshes").
OneRefreshOnTheWire ==
    \A t, u \in Tabs :
        rot[t].pc \in {"posted", "answered", "refused"}
          /\ rot[u].pc \in {"posted", "answered", "refused"} => t = u

\* The server meets a refresh token a second time only if the answer to the
\* first presentation never reached a tab, the tab had gone, or the second one
\* had not yet heard of a change of the store (rotate re-reads the store once it
\* has the lock, auth/tokens.ts:123).
ReplayIsAccounted ==
    [][\A t \in Tabs : rot[t].pc = "posted" /\ rot'[t].pc = "refused" /\ rt[rot[t].tok] = "rotated"
                      => rot[t].tok \in excused]_vars

\* A boot does not end while it exchanges its hand-off code, so the identity it
\* ends with was asked for with the tokens of the exchange: both mount effects
\* share one run of bootstrapAuth (auth/AuthContext.tsx:53-60).
BootAwaitsHandoff ==
    [][\A t \in Tabs : loading[t] /\ ~loading'[t] => \A s \in Slots : work[t][s].do # "load"]_vars

=============================================================================
