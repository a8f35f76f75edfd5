--------------------------- MODULE SpaSessionProofs ---------------------------
(***************************************************************************)
(* Proofs about the sign-in session, for any number of tabs, tokens, loads *)
(* and storage events, in a browser that has Web Locks: refreshes are      *)
(* serialised, and a token reaches the server twice only for a reason the  *)
(* client cannot know of.                                                  *)
(***************************************************************************)
EXTENDS SpaSession, FiniteSetTheorems, SequenceTheorems, TLAPS

Activity == [do : {"idle", "load", "boot", "me", "api", "login", "logout"},
             pc : {"", "start", "exchange", "sent", "again", "await", "posted", "answered"},
             tok : Nat]
Refresh == [pc : {"none", "queued", "posted", "answered", "refused"},
            tok : 0..MaxToken, got : 0..MaxToken]

Types ==
    /\ rt \in [Token -> {"none", "live", "rotated", "revoked"}]
    /\ codes \subseteq Token
    /\ wire \subseteq Token
    /\ store \in Pair
    /\ mirror \in [Tabs -> Pair]
    /\ inbox \in [Tabs -> Seq(Pair)]
    /\ lockq \in Seq(Tabs)
    /\ rot \in [Tabs -> Refresh]

\* The head of the queue is the tab whose request is on its way or answered.
OnWire(t) == rot[t].pc \in {"posted", "answered", "refused"}
LockHeld == \A t \in Tabs : OnWire(t) => lockq # <<>> /\ Head(lockq) = t

\* The refresh tokens some tab has, will hear of, or has sent.
InboxTokens(t) == {inbox[t][i].refresh : i \in DOMAIN inbox[t]}
Known(i) ==
    \/ i = store.refresh
    \/ \E t \in Tabs : i = mirror[t].refresh \/ i \in InboxTokens(t) \/ i = rot[t].tok
    \/ i \in wire
Fresh(i) == i \in Minted /\ ~Known(i) /\ rt[i] # "rotated"

Minting ==
    /\ \E n \in 0..MaxToken : Minted = 1..n
    /\ \A i : Known(i) => i \in Minted \cup {0}
    /\ \A c \in codes : Fresh(c)
    /\ \A t \in Tabs : rot[t].pc = "answered" => Fresh(rot[t].got) /\ rot[t].got \notin codes
    /\ \A t \in Tabs : rot[t].pc # "none" => rot[t].tok # 0

\* A token that may be read from storage has not been used up, or the tab that
\* did has the lock until it stores the next, or the token is excused.
Usable(i) ==
    \/ i = 0
    \/ rt[i] # "rotated"
    \/ i \in excused
    \/ \E t \in Tabs : rot[t].pc = "answered" /\ rot[t].tok = i

Latest(t) == IF inbox[t] = <<>> THEN mirror[t] ELSE inbox[t][Len(inbox[t])]

Accounted ==
    /\ Usable(store.refresh)
    /\ \A t \in Tabs : Usable(Latest(t).refresh)
    /\ \A t \in Tabs : rot[t].pc = "posted" => rt[rot[t].tok] # "rotated" \/ rot[t].tok \in excused
    /\ \A t \in Tabs : OnWire(t) => rot[t].tok \in excused \/ rot[t].tok \notin InboxTokens(t)
    /\ wire \subseteq excused

SessionInv == Types /\ LockHeld /\ Minting /\ Accounted

-----------------------------------------------------------------------------
(* The lock queue and the store                                            *)

LEMMA LongerThanOne ==
    ASSUME NEW S, NEW s \in Seq(S), s # <<>>, Len(s) # 1
    PROVE  Len(s) \in Nat /\ Len(s) > 1
<1>1. \A n \in Nat : n # 0 /\ n # 1 => n > 1
    OBVIOUS
<1>2. Len(s) \in Nat /\ Len(s) # 0
    BY EmptySeq, Zenon
<1> QED
    BY <1>1, <1>2, Zenon

\* A tab that leaves the queue does not take the lock from its holder.
LEMMA Leaving ==
    ASSUME lockq \in Seq(Tabs), NEW t \in Tabs
    PROVE  /\ Without(t) \in Seq(Tabs)
           /\ \A u \in Tabs \ {t} : lockq # <<>> /\ Head(lockq) = u
                                     => Without(t) # <<>> /\ Head(Without(t)) = u
<1>1. CASE ~ \E i \in DOMAIN lockq : lockq[i] = t
    BY <1>1 DEF Without
<1>2. CASE \E i \in DOMAIN lockq : lockq[i] = t
    <2> DEFINE k == CHOOSE i \in DOMAIN lockq : lockq[i] = t
    <2>1. k \in 1..Len(lockq) /\ lockq[k] = t
        BY <1>2
    <2>2. Without(t) = SubSeq(lockq, 1, k - 1) \o SubSeq(lockq, k + 1, Len(lockq))
        BY <1>2 DEF Without, RemoveAt
    <2> HIDE DEF k
    <2>3. /\ SubSeq(lockq, 1, k - 1) \in Seq(Tabs)
          /\ SubSeq(lockq, k + 1, Len(lockq)) \in Seq(Tabs)
          /\ k > 1 => /\ Len(SubSeq(lockq, 1, k - 1)) = k - 1
                      /\ SubSeq(lockq, 1, k - 1)[1] = lockq[1]
        BY <2>1, SubSeqProperties
    <2>4. Without(t) \in Seq(Tabs)
        BY <2>2, <2>3, ConcatProperties
    <2>5. ASSUME NEW u \in Tabs \ {t}, lockq # <<>>, Head(lockq) = u
          PROVE  Without(t) # <<>> /\ Head(Without(t)) = u
        <3>1. lockq[1] = u /\ k > 1
            BY <2>1, <2>5
        <3> DEFINE before == SubSeq(lockq, 1, k - 1)
                   after == SubSeq(lockq, k + 1, Len(lockq))
        <3>2. /\ before \in Seq(Tabs) /\ after \in Seq(Tabs)
              /\ Len(before) >= 1 /\ before[1] = u
            BY <2>1, <2>3, <3>1
        <3> HIDE DEF before, after
        <3>3. /\ Len(before \o after) = Len(before) + Len(after)
              /\ \A i \in 1 .. Len(before) + Len(after) :
                     (before \o after)[i] = IF i <= Len(before) THEN before[i] ELSE after[i - Len(before)]
            BY <3>2, ConcatProperties, Zenon
        <3>4. Len(before \o after) >= 1 /\ (before \o after)[1] = u
            BY <3>2, <3>3
        <3>5. Without(t) = before \o after
            BY <2>2 DEF before, after
        <3> QED
            BY <2>4, <3>4, <3>5
    <2> QED
        BY <2>4, <2>5
<1> QED
    BY <1>1, <1>2

\* A write reaches the mirror of its tab, and the others by an event.
LEMMA Writing ==
    ASSUME Types, NEW t \in Tabs, NEW pair \in Pair, WriteTokens(t, pair)
    PROVE  /\ store' = pair
           /\ mirror' \in [Tabs -> Pair]
           /\ inbox' \in [Tabs -> Seq(Pair)]
           /\ \A u \in Tabs : mirror'[u].refresh \in {mirror[u].refresh, pair.refresh}
           /\ \A u \in Tabs : InboxTokens(u)' \subseteq InboxTokens(u) \cup {pair.refresh}
           /\ InboxTokens(t)' = InboxTokens(t)
           /\ \A u \in Tabs : Latest(u)' \in {Latest(u), pair}
           /\ inbox[t] = <<>> => Latest(t)' = pair
           /\ pair # store => \A u \in Tabs \ {t} : Latest(u)' = pair
<1> USE DEF Types
<1>1. store' = pair /\ mirror' = [mirror EXCEPT ![t] = pair] /\ inbox'[t] = inbox[t]
    BY DEF WriteTokens
<1>2. /\ inbox' \in [Tabs -> Seq(Pair)]
      /\ \A u \in Tabs : \/ inbox'[u] = inbox[u] /\ (u = t \/ pair = store)
                         \/ u # t /\ inbox'[u] = Append(inbox[u], pair)
    BY DEF WriteTokens
<1>3. ASSUME NEW u \in Tabs
      PROVE  /\ InboxTokens(u)' \subseteq InboxTokens(u) \cup {pair.refresh}
             /\ Latest(u)' \in {Latest(u), pair}
             /\ pair # store /\ u # t => Latest(u)' = pair
    <2>1. CASE inbox'[u] = inbox[u] /\ (u = t \/ pair = store)
        BY <1>1, <2>1 DEF InboxTokens, Latest
    <2>2. CASE u # t /\ inbox'[u] = Append(inbox[u], pair)
        <3>1. inbox[u] \in Seq(Pair)
            OBVIOUS
        <3>2. inbox'[u] \in Seq(Pair)
            BY <1>2
        <3>3. /\ Len(Append(inbox[u], pair)) = Len(inbox[u]) + 1
              /\ \A i \in 1..Len(inbox[u]) : Append(inbox[u], pair)[i] = inbox[u][i]
              /\ Append(inbox[u], pair)[Len(inbox[u]) + 1] = pair
            BY <3>1
        <3>4. /\ Len(inbox'[u]) = Len(inbox[u]) + 1
              /\ \A i \in 1..Len(inbox[u]) : inbox'[u][i] = inbox[u][i]
              /\ inbox'[u][Len(inbox[u]) + 1] = pair
              /\ DOMAIN inbox'[u] = 1..(Len(inbox[u]) + 1)
              /\ DOMAIN inbox[u] = 1..Len(inbox[u])
            BY <2>2, <3>1, <3>2, <3>3
        <3> QED
            BY <3>1, <3>4 DEF InboxTokens, Latest
    <2> QED
        BY <1>2, <2>1, <2>2
<1>4. InboxTokens(t)' = InboxTokens(t) /\ (inbox[t] = <<>> => Latest(t)' = pair)
    BY <1>1 DEF InboxTokens, Latest
<1> QED
    BY <1>1, <1>2, <1>3, <1>4

\* What a tab has heard of last is a pair, and on its way if anything is.
LEMMA LatestIsPair ==
    ASSUME Types, NEW t \in Tabs
    PROVE  /\ Latest(t) \in Pair
           /\ inbox[t] # <<>> => Latest(t).refresh \in InboxTokens(t)
<1>1. inbox[t] \in Seq(Pair) /\ mirror[t] \in Pair
    BY DEF Types
<1>2. inbox[t] # <<>> => Len(inbox[t]) \in DOMAIN inbox[t]
    BY <1>1, EmptySeq, LenProperties
<1> QED
    BY <1>1, <1>2 DEF Latest, InboxTokens

\* The next token is one nobody knows.
LEMMA NextIsNew ==
    ASSUME Types, Minting
    PROVE  NextToken \in Nat \ {0} /\ NextToken \notin Minted
<1>1. PICK n \in 0..MaxToken : Minted = 1..n
    BY DEF Minting
<1>2. Cardinality(1..n) = n
    BY FS_Interval, SessionAssumption
<1> QED
    BY <1>1, <1>2, SessionAssumption DEF NextToken

-----------------------------------------------------------------------------
(* What the steps do to the lock, the tokens and the store                 *)

sessionVars == <<rt, codes, store, mirror, inbox, lockq, rot, wire, excused>>

LEMMA Start == Init => SessionInv
<1> SUFFICES ASSUME Init PROVE SessionInv
    OBVIOUS
<1>1. PICK st \in Stored : store = st /\ rt = [i \in Token |-> IF i = st.refresh THEN "live" ELSE "none"]
    BY DEF Init
<1>2. /\ store \in Pair
      /\ store.refresh \in {0, 1}
    BY <1>1, SessionAssumption, StoredAssumption DEF Pair, NoPair, PairOf
<1>3. /\ mirror = [t \in Tabs |-> NoPair] /\ inbox = [t \in Tabs |-> <<>>] /\ lockq = <<>>
      /\ rot = [t \in Tabs |-> NoRefresh] /\ codes = {} /\ wire = {} /\ excused = {}
    BY DEF Init
<1>4. Types
    BY <1>1, <1>2, <1>3, SessionAssumption DEF Types, Pair, NoPair, Token, Refresh, NoRefresh
<1>5. LockHeld
    BY <1>3 DEF LockHeld, OnWire, NoRefresh
<1>6. Minting
    <2>1. Minted = 1..store.refresh
        BY <1>1, <1>2, SessionAssumption DEF Minted, Token
    <2>2. store.refresh \in 0..MaxToken
        BY <1>2, SessionAssumption
    <2>3. \A i : Known(i) => i \in {0, store.refresh}
        BY <1>3 DEF Known, InboxTokens, NoPair, NoRefresh
    <2> QED
        BY <1>2, <1>3, <2>1, <2>2, <2>3 DEF Minting, NoRefresh
<1>7. Accounted
    BY <1>1, <1>2, <1>3, SessionAssumption DEF Accounted, Usable, Latest, OnWire, NoPair, NoRefresh, Token
<1> QED
    BY <1>4, <1>5, <1>6, <1>7 DEF SessionInv

LEMMA Unaffected == SessionInv /\ UNCHANGED sessionVars => SessionInv'
BY DEF SessionInv, sessionVars, Types, LockHeld, OnWire, Minting, Minted, Fresh, Known, InboxTokens,
       Accounted, Usable, Latest

\* A tab asks for the lock with a token it has read.
LEMMA Queueing ==
    ASSUME WebLocks, SessionInv, NEW t \in Tabs,
           rot[t].pc = "none", GetRefreshToken(t) # 0,
           rot' = [rot EXCEPT ![t] = [pc |-> "queued", tok |-> GetRefreshToken(t), got |-> 0]],
           lockq' = IF WebLocks THEN Append(lockq, t) ELSE lockq,
           UNCHANGED <<rt, codes, store, mirror, inbox, wire, excused>>
    PROVE  SessionInv'
<1> USE DEF SessionInv
<1> DEFINE i == GetRefreshToken(t)
<1>1. i \in {store.refresh, mirror[t].refresh} /\ i \in 0..MaxToken
    BY DEF GetRefreshToken, Read, Types, Pair
<1>2. Known(i)
    BY <1>1 DEF Known
<1>3. rot' = [rot EXCEPT ![t] = [pc |-> "queued", tok |-> i, got |-> 0]]
    OBVIOUS
<1> HIDE DEF i
<1>4. \A u \in Tabs : /\ rot'[u] \in Refresh
                      /\ u # t => rot'[u] = rot[u]
                      /\ u = t => rot'[u].pc = "queued" /\ rot'[u].tok = i
    BY <1>1, <1>3, SessionAssumption DEF Types, Refresh
<1>5. Types'
    <2>1. lockq' \in Seq(Tabs)
        BY AppendProperties DEF Types
    <2> QED
        BY <1>3, <1>4, <2>1 DEF Types
<1>6. LockHeld'
    <2>1. ASSUME NEW u \in Tabs, OnWire(u)'
          PROVE  lockq' # <<>> /\ Head(lockq') = u
        <3>1. OnWire(u)
            BY <2>1, <1>4 DEF OnWire
        <3>2. lockq # <<>> /\ Head(lockq) = u /\ lockq \in Seq(Tabs)
            BY <3>1 DEF LockHeld, Types
        <3> QED
            BY <3>2
    <2> QED
        BY <2>1 DEF LockHeld
<1>7. \A u : InboxTokens(u)' = InboxTokens(u)
    BY DEF InboxTokens
<1>8. \A k : Known(k)' => Known(k)
    BY <1>2, <1>4, <1>7 DEF Known
<1>9. Minting'
    BY <1>4, <1>8 DEF Minting, Fresh, Minted, i
<1>10. Accounted'
    BY <1>4, <1>7 DEF Accounted, Usable, Latest, OnWire
<1> QED
    BY <1>5, <1>6, <1>9, <1>10

\* At most one tab has a request on its way or its answer.
LEMMA OneHolder ==
    ASSUME SessionInv, NEW t \in Tabs, NEW u \in Tabs, OnWire(t), OnWire(u)
    PROVE  t = u
BY DEF SessionInv, LockHeld

\* A tab whose refresh has ended leaves the lock to the others.
LEMMA Settling ==
    ASSUME SessionInv, NEW t \in Tabs,
           rot' = [rot EXCEPT ![t] = NoRefresh],
           lockq' = Without(t)
    PROVE  /\ lockq' \in Seq(Tabs)
           /\ rot' \in [Tabs -> Refresh]
           /\ \A u \in Tabs : rot'[u] = IF u = t THEN NoRefresh ELSE rot[u]
           /\ LockHeld'
<1>1. lockq \in Seq(Tabs) /\ rot \in [Tabs -> Refresh]
    BY DEF SessionInv, Types
<1>2. NoRefresh \in Refresh
    BY SessionAssumption DEF NoRefresh, Refresh
<1>3. \A u \in Tabs : rot'[u] = IF u = t THEN NoRefresh ELSE rot[u]
    BY <1>1
<1>4. ASSUME NEW u \in Tabs, OnWire(u)'
      PROVE  lockq' # <<>> /\ Head(lockq') = u
    <2>1. u # t /\ OnWire(u)
        BY <1>3, <1>4 DEF OnWire, NoRefresh
    <2>2. lockq # <<>> /\ Head(lockq) = u
        BY <2>1 DEF SessionInv, LockHeld
    <2> QED
        BY <1>1, <2>1, <2>2, Leaving
<1>5. LockHeld'
    BY <1>4 DEF LockHeld
<1> QED
    BY <1>1, <1>2, <1>3, <1>5, Leaving

\* A tab handles a storage event.
LEMMA Hearing ==
    ASSUME SessionInv, NEW t \in Tabs, StorageEvent(t)
    PROVE  SessionInv'
<1> USE DEF SessionInv
<1>1. /\ inbox[t] # <<>> /\ inbox[t] \in Seq(Pair)
      /\ mirror' = [mirror EXCEPT ![t] = Head(inbox[t])]
      /\ inbox' = [inbox EXCEPT ![t] = Tail(inbox[t])]
      /\ UNCHANGED <<rt, codes, store, lockq, rot, wire, excused>>
    BY DEF StorageEvent, server, Types
<1>2. Head(inbox[t]) \in Pair /\ Tail(inbox[t]) \in Seq(Pair)
    BY <1>1, HeadTailProperties
<1>3. Types'
    BY <1>1, <1>2 DEF Types
<1>4. LockHeld'
    BY <1>1 DEF LockHeld, OnWire
<1>5. \A u \in Tabs : /\ mirror'[u] = IF u = t THEN Head(inbox[t]) ELSE mirror[u]
                      /\ inbox'[u] = IF u = t THEN Tail(inbox[t]) ELSE inbox[u]
    BY <1>1 DEF Types
<1>6. Head(inbox[t]).refresh \in InboxTokens(t)
    BY <1>1 DEF InboxTokens
<1>7. \A u \in Tabs : InboxTokens(u)' \subseteq InboxTokens(u)
    BY <1>1, <1>5 DEF InboxTokens
<1>8. \A k : Known(k)' => Known(k)
    BY <1>1, <1>5, <1>6, <1>7 DEF Known
<1>9. \A u \in Tabs : Latest(u)' = Latest(u)
    <2>1. /\ Len(Tail(inbox[t])) = Len(inbox[t]) - 1
          /\ \A k \in 1..Len(Tail(inbox[t])) : Tail(inbox[t])[k] = inbox[t][k + 1]
          /\ Head(inbox[t]) = inbox[t][1]
        BY <1>1, HeadTailProperties
    <2>2. CASE Len(inbox[t]) = 1
        BY <1>1, <1>2, <1>5, <2>1, <2>2 DEF Latest
    <2>3. CASE Len(inbox[t]) # 1
        <3>1. Len(inbox[t]) \in Nat /\ Len(inbox[t]) > 1
            BY <1>1, <2>3, LongerThanOne, Zenon
        <3>2. Tail(inbox[t]) # <<>> /\ Tail(inbox[t])[Len(Tail(inbox[t]))] = inbox[t][Len(inbox[t])]
            BY <2>1, <3>1
        <3> QED
            BY <1>1, <1>5, <3>2 DEF Latest
    <2> QED
        BY <2>2, <2>3
<1>10. Minting'
    BY <1>1, <1>8 DEF Minting, Fresh, Minted
<1>11. Accounted'
    BY <1>1, <1>7, <1>9 DEF Accounted, Usable, OnWire
<1> QED
    BY <1>3, <1>4, <1>10, <1>11

\* A tab finds another pair stored than the one it saw and sends nothing.
LEMMA Reusing ==
    ASSUME SessionInv, NEW t \in Tabs, ReuseRotated(t)
    PROVE  SessionInv'
<1> USE DEF SessionInv
<1>1. /\ rot[t].pc = "queued"
      /\ rot' = [rot EXCEPT ![t] = NoRefresh]
      /\ lockq' = Without(t)
      /\ UNCHANGED <<rt, codes, store, mirror, inbox, wire, excused>>
    BY DEF ReuseRotated, SettleRefresh, server, browser
<1>2. /\ lockq' \in Seq(Tabs)
      /\ rot' \in [Tabs -> Refresh]
      /\ \A u \in Tabs : rot'[u] = IF u = t THEN NoRefresh ELSE rot[u]
      /\ LockHeld'
    BY <1>1, Settling
<1>3. NoRefresh.pc = "none" /\ NoRefresh.tok = 0
    BY DEF NoRefresh
<1>4. Types'
    BY <1>1, <1>2 DEF Types
<1>5. \A u : InboxTokens(u)' = InboxTokens(u)
    BY <1>1 DEF InboxTokens
<1>6. \A k : Known(k)' => Known(k) \/ k = 0
    BY <1>1, <1>2, <1>3, <1>5 DEF Known
<1>7. 0 \notin Minted /\ 0 \notin codes
    BY DEF Minted, Token, Types
<1>8. Minting'
    BY <1>1, <1>2, <1>3, <1>6, <1>7 DEF Minting, Fresh, Minted
<1>9. Accounted'
    BY <1>1, <1>2, <1>3, <1>5 DEF Accounted, Usable, Latest, OnWire
<1> QED
    BY <1>2, <1>4, <1>8, <1>9

\* A tab that has the lock sends the token it finds stored.
LEMMA Posting ==
    ASSUME WebLocks, SessionInv, NEW t \in Tabs, PostRefresh(t)
    PROVE  SessionInv'
<1> USE DEF SessionInv
<1>1. /\ rot[t].pc = "queued" /\ lockq # <<>> /\ Head(lockq) = t
      /\ GetRefreshToken(t) = rot[t].tok
      /\ rot' = [rot EXCEPT ![t].pc = "posted"]
      /\ excused' = IF inbox[t] = <<>> THEN excused ELSE excused \cup {rot[t].tok}
      /\ UNCHANGED <<rt, codes, store, mirror, inbox, lockq, wire>>
    BY DEF PostRefresh, MayRotate, server, browser
<1>2. \A u \in Tabs : /\ rot'[u].tok = rot[u].tok
                      /\ rot'[u].got = rot[u].got
                      /\ rot'[u].pc = IF u = t THEN "posted" ELSE rot[u].pc
                      /\ rot'[u] \in Refresh
    BY <1>1 DEF Types, Refresh
<1>3. Types'
    BY <1>1, <1>2 DEF Types
<1>4. LockHeld'
    BY <1>1, <1>2 DEF LockHeld, OnWire
<1>5. \A u : InboxTokens(u)' = InboxTokens(u)
    BY <1>1 DEF InboxTokens
<1>6. \A k : Known(k)' => Known(k)
    BY <1>1, <1>2, <1>5 DEF Known
<1>7. Minting'
    BY <1>1, <1>2, <1>6 DEF Minting, Fresh, Minted
<1>8. inbox[t] = <<>> => rt[rot[t].tok] # "rotated" \/ rot[t].tok \in excused
    <2>1. ~ \E u \in Tabs : rot[u].pc = "answered"
        BY <1>1 DEF LockHeld, OnWire
    <2>2. rot[t].tok # 0
        BY <1>1 DEF Minting
    <2>3. inbox[t] = <<>> => Usable(rot[t].tok)
        BY <1>1 DEF Accounted, Latest, GetRefreshToken, Read
    <2> QED
        BY <2>1, <2>2, <2>3 DEF Usable
<1>9. inbox[t] = <<>> => InboxTokens(t) = {}
    BY DEF InboxTokens
<1>10. Accounted'
    BY <1>1, <1>2, <1>5, <1>8, <1>9 DEF Accounted, Usable, Latest, OnWire
<1> QED
    BY <1>3, <1>4, <1>7, <1>10

\* The server mints the next token.
LEMMA Growing ==
    ASSUME SessionInv, NextToken \in Token,
           \A j \in Token : rt'[j] # "none" <=> rt[j] # "none" \/ j = NextToken
    PROVE  /\ Minted' = Minted \cup {NextToken}
           /\ \E n \in 0..MaxToken : Minted' = 1..n
<1>1. PICK n \in 0..MaxToken : Minted = 1..n
    BY DEF SessionInv, Minting
<1>2. n \in Nat /\ Cardinality(1..n) = n
    BY FS_Interval, SessionAssumption
<1>3. NextToken = n + 1 /\ n + 1 \in 0..MaxToken
    BY <1>1, <1>2, SessionAssumption DEF NextToken, Token
<1>4. Minted' = Minted \cup {NextToken}
    BY DEF Minted
<1>5. Minted' = 1..(n + 1)
    BY <1>1, <1>2, <1>3, <1>4
<1> QED
    BY <1>3, <1>4, <1>5

\* The server is shown a token: it alone can become rotated, and the next token
\* is the only one that can be new.
LEMMA Presenting ==
    ASSUME SessionInv, NEW i \in Token, Present(i)
    PROVE  /\ rt' \in [Token -> {"none", "live", "rotated", "revoked"}]
           /\ codes' = codes
           /\ Minted \subseteq Minted'
           /\ \E n \in 0..MaxToken : Minted' = 1..n
           /\ \A j \in Token : rt'[j] = "rotated" => rt[j] = "rotated" \/ j = i
           /\ rt[i] = "live" => NextToken \in Minted' \ Minted /\ rt'[NextToken] = "live"
<1> USE DEF SessionInv
<1>1. NextToken \notin Minted
    BY NextIsNew
<1>2. CASE rt[i] = "live"
    <2>1. NextToken \in Token /\ i # NextToken
        BY <1>1, <1>2 DEF Present, Minted
    <2>2. /\ rt' \in [Token -> {"none", "live", "rotated", "revoked"}]
          /\ \A j \in Token : rt'[j] = IF j = NextToken THEN "live" ELSE IF j = i THEN "rotated" ELSE rt[j]
        BY <1>2, <2>1 DEF Present, Types
    <2>3. Minted' = Minted \cup {NextToken} /\ \E n \in 0..MaxToken : Minted' = 1..n
        <3>1. \A j \in Token : rt'[j] # "none" <=> rt[j] # "none" \/ j = NextToken
            BY <1>2, <2>2
        <3> QED
            BY <2>1, <3>1, Growing
    <2> QED
        BY <1>1, <2>1, <2>2, <2>3 DEF Present
<1>3. CASE rt[i] # "live"
    <2>1. rt' = [j \in Token |-> IF rt[j] = "live" THEN "revoked" ELSE rt[j]]
        BY <1>3 DEF Present
    <2>2. Minted' = Minted
        BY <2>1 DEF Minted
    <2> QED
        BY <1>3, <2>1, <2>2 DEF Present, Types, Minting
<1> QED
    BY <1>2, <1>3

\* The server answers the refresh of a tab.
LEMMA Serving ==
    ASSUME SessionInv, NEW t \in Tabs, ServeRefresh(t)
    PROVE  SessionInv'
<1> USE DEF SessionInv
<1> DEFINE i == rot[t].tok
<1>1. /\ rot[t].pc = "posted" /\ Present(i)
      /\ UNCHANGED <<store, mirror, inbox, lockq, wire, excused>>
    BY DEF ServeRefresh, browser
<1>2. i \in Token /\ Known(i) /\ OnWire(t)
    BY <1>1 DEF Minting, Types, Refresh, Known, Token, OnWire
<1>3. \A u \in Tabs : OnWire(u) => u = t
    BY <1>2, OneHolder
<1>4. /\ rt' \in [Token -> {"none", "live", "rotated", "revoked"}]
      /\ codes' = codes
      /\ Minted \subseteq Minted'
      /\ \E n \in 0..MaxToken : Minted' = 1..n
      /\ \A j \in Token : rt'[j] = "rotated" => rt[j] = "rotated" \/ j = i
      /\ rt[i] = "live" => NextToken \in Minted' \ Minted /\ rt'[NextToken] = "live"
    BY <1>1, <1>2, Presenting
<1>5. Minted' \subseteq Token
    BY DEF Minted
<1>6. /\ \A u \in Tabs \ {t} : rot'[u] = rot[u]
      /\ rot'[t] \in Refresh /\ rot'[t].tok = i
      /\ \/ rt[i] = "live" /\ rot'[t].pc = "answered" /\ rot'[t].got = NextToken
         \/ rt[i] # "live" /\ rot'[t].pc = "refused"
    BY <1>1, <1>4, <1>5 DEF ServeRefresh, Types, Refresh, Token
<1>7. rot' \in [Tabs -> Refresh]
    BY <1>6 DEF Types, ServeRefresh
<1>8. Types'
    BY <1>1, <1>4, <1>7 DEF Types
<1>9. \A u \in Tabs : OnWire(u)' => u = t
    BY <1>3, <1>6 DEF OnWire
<1>10. LockHeld'
    BY <1>1, <1>2, <1>9 DEF LockHeld
<1>11. \A u : InboxTokens(u)' = InboxTokens(u)
    BY <1>1 DEF InboxTokens
<1>12. \A k : Known(k)' => Known(k)
    BY <1>1, <1>6, <1>11 DEF Known
<1>13. Minting'
    <2>1. ASSUME NEW c, Fresh(c)
          PROVE  Fresh(c)'
        BY <1>2, <1>4, <1>12, <2>1 DEF Fresh, Minted
    <2>2. ASSUME rot'[t].pc = "answered"
          PROVE  Fresh(rot[t].got)' /\ rot'[t].got \notin codes'
        <3>1. rot'[t].got = NextToken /\ NextToken \in Minted' \ Minted /\ rt'[NextToken] = "live"
            BY <1>4, <1>6, <2>2
        <3>2. NextToken # 0
            BY <1>5, <3>1, SessionAssumption DEF Token
        <3>3. ~Known(NextToken) /\ NextToken \notin codes
            BY <3>1, <3>2 DEF Minting, Fresh
        <3> QED
            BY <1>4, <1>12, <3>1, <3>3 DEF Fresh
    <2>3. \A u \in Tabs : rot'[u].pc = "answered" => u = t
        BY <1>9 DEF OnWire
    <2>4. \A u \in Tabs : rot'[u].pc # "none" => rot'[u].tok # 0
        BY <1>1, <1>6 DEF Minting
    <2> QED
        BY <1>4, <1>12, <2>1, <2>2, <2>3, <2>4 DEF Minting
<1>14. ASSUME NEW k \in 0..MaxToken, Usable(k)
       PROVE  Usable(k)'
    <2>1. ~ \E u \in Tabs : rot[u].pc = "answered"
        BY <1>1, <1>3 DEF OnWire
    <2>2. rt[i] = "live" \/ rt'[i] # "rotated" \/ rt[i] = "rotated"
        BY <1>2, <1>4, <1>1 DEF Present
    <2>3. CASE k = 0
        BY <2>3 DEF Usable
    <2>4. CASE k # 0 /\ k # i
        BY <1>1, <1>4, <1>14, <2>1, <2>4 DEF Usable, Token
    <2>5. CASE k = i
        BY <1>1, <1>2, <1>6, <1>14, <2>1, <2>2, <2>5 DEF Usable
    <2> QED
        BY <2>3, <2>4, <2>5
<1>15. \A u \in Tabs : Latest(u).refresh \in 0..MaxToken /\ Latest(u)' = Latest(u)
    BY <1>1, LatestIsPair DEF Latest, Types, Pair
<1>16. Accounted'
    <2>1. store.refresh \in 0..MaxToken
        BY DEF Types, Pair
    <2> QED
        BY <1>1, <1>2, <1>6, <1>9, <1>11, <1>14, <1>15, <2>1 DEF Accounted, OnWire
<1> QED
    BY <1>8, <1>10, <1>13, <1>16

\* The server takes a request nobody waits for any more: its token is excused.
LEMMA ServingOrphan ==
    ASSUME SessionInv, NEW i \in Token, ServeOrphan(i)
    PROVE  SessionInv'
<1> USE DEF SessionInv
<1>1. /\ i \in wire /\ Present(i) /\ wire' = wire \ {i}
      /\ UNCHANGED <<store, mirror, inbox, lockq, rot, excused>>
    BY DEF ServeOrphan, browser
<1>2. /\ rt' \in [Token -> {"none", "live", "rotated", "revoked"}]
      /\ codes' = codes
      /\ Minted \subseteq Minted'
      /\ \E n \in 0..MaxToken : Minted' = 1..n
      /\ \A j \in Token : rt'[j] = "rotated" => rt[j] = "rotated" \/ j = i
    BY <1>1, Presenting
<1>3. Known(i) /\ i \in excused
    BY <1>1 DEF Known, Accounted
<1>4. Types'
    BY <1>1, <1>2 DEF Types
<1>5. LockHeld'
    BY <1>1 DEF LockHeld, OnWire
<1>6. \A u : InboxTokens(u)' = InboxTokens(u)
    BY <1>1 DEF InboxTokens
<1>7. \A k : Known(k)' => Known(k)
    BY <1>1, <1>6 DEF Known
<1>8. \A c : Fresh(c) => Fresh(c)'
    BY <1>2, <1>3, <1>7 DEF Fresh, Minted
<1>9. Minting'
    BY <1>1, <1>2, <1>7, <1>8 DEF Minting
<1>10. \A k \in 0..MaxToken : Usable(k) => Usable(k)'
    BY <1>1, <1>2, <1>3 DEF Usable, Token
<1>11. /\ store.refresh \in 0..MaxToken
       /\ \A u \in Tabs : Latest(u).refresh \in 0..MaxToken /\ Latest(u)' = Latest(u)
    BY <1>1, LatestIsPair DEF Latest, Types, Pair
<1>12. \A u \in Tabs : rot[u].pc = "posted" => rot[u].tok \in Token
    BY DEF Types, Minting, Refresh, Token
<1>13. Accounted'
    BY <1>1, <1>2, <1>3, <1>6, <1>10, <1>11, <1>12 DEF Accounted, OnWire
<1> QED
    BY <1>4, <1>5, <1>9, <1>13

\* A tab stores the pair its refresh was answered with.
LEMMA Storing ==
    ASSUME SessionInv, NEW t \in Tabs, StoreRotated(t)
    PROVE  SessionInv'
<1> USE DEF SessionInv
<1> DEFINE used == rot[t].tok
<1>0. PICK g \in 0..MaxToken : g = rot[t].got
    BY DEF Types, Refresh
<1>1. /\ rot[t].pc = "answered"
      /\ WriteTokens(t, PairOf(g))
      /\ rot' = [rot EXCEPT ![t] = NoRefresh]
      /\ lockq' = Without(t)
      /\ UNCHANGED <<rt, codes, wire, excused>>
    BY <1>0 DEF StoreRotated, SettleRefresh, server
<1>2. Fresh(g) /\ g \notin codes
    BY <1>0, <1>1 DEF Minting
<1>3. PairOf(g) \in Pair /\ PairOf(g).refresh = g
    BY <1>2 DEF PairOf, Pair
<1>4. PairOf(g) # store
    BY <1>2, <1>3 DEF Fresh, Known
<1>5. /\ store' = PairOf(g)
      /\ mirror' \in [Tabs -> Pair]
      /\ inbox' \in [Tabs -> Seq(Pair)]
      /\ \A u \in Tabs : mirror'[u].refresh \in {mirror[u].refresh, g}
      /\ \A u \in Tabs : InboxTokens(u)' \subseteq InboxTokens(u) \cup {g}
      /\ InboxTokens(t)' = InboxTokens(t)
      /\ Latest(t)' \in {Latest(t), PairOf(g)}
      /\ inbox[t] = <<>> => Latest(t)' = PairOf(g)
      /\ \A u \in Tabs \ {t} : Latest(u)' = PairOf(g)
    BY <1>1, <1>3, <1>4, Writing
<1>6. /\ lockq' \in Seq(Tabs)
      /\ rot' \in [Tabs -> Refresh]
      /\ \A u \in Tabs : rot'[u] = IF u = t THEN NoRefresh ELSE rot[u]
      /\ LockHeld'
    BY <1>1, Settling
<1>7. NoRefresh.pc = "none" /\ NoRefresh.tok = 0
    BY DEF NoRefresh
<1>8. \A u \in Tabs : ~OnWire(u)' /\ (OnWire(u) => u = t)
    BY <1>1, <1>6, <1>7, OneHolder DEF OnWire
<1>9. Types'
    BY <1>1, <1>3, <1>5, <1>6 DEF Types
<1>10. \A k : Known(k)' => Known(k) \/ k = g \/ k = 0
    BY <1>1, <1>3, <1>5, <1>6, <1>7 DEF Known
<1>11. 0 \notin Minted /\ g \in Minted
    BY <1>2 DEF Minted, Token, Fresh
<1>12. \A c \in codes : Fresh(c)'
    BY <1>1, <1>2, <1>10, <1>11 DEF Minting, Fresh, Minted
<1>13. Minting'
    BY <1>1, <1>6, <1>7, <1>8, <1>10, <1>11, <1>12 DEF Minting, Minted, OnWire
<1>14. Usable(g)'
    BY <1>1, <1>2 DEF Usable, Fresh
<1>15. Usable(Latest(t).refresh)'
    <2>1. CASE Latest(t)' = PairOf(g)
        BY <1>3, <1>14, <2>1
    <2>2. CASE inbox[t] # <<>> /\ Latest(t)' = Latest(t)
        <3>1. Latest(t).refresh \in InboxTokens(t)
            BY <2>2, LatestIsPair
        <3>2. used \in excused \/ used # Latest(t).refresh
            BY <1>1, <3>1 DEF Accounted, OnWire
        <3>3. Usable(Latest(t).refresh)
            BY DEF Accounted
        <3>4. \A u \in Tabs : rot[u].pc = "answered" => u = t
            BY <1>8 DEF OnWire
        <3> QED
            BY <1>1, <2>2, <3>2, <3>3, <3>4 DEF Usable
    <2> QED
        BY <1>5, <2>1, <2>2
<1>16. Accounted'
    <2>1. Usable(store.refresh)'
        BY <1>3, <1>5, <1>14
    <2>2. \A u \in Tabs : Usable(Latest(u).refresh)'
        BY <1>3, <1>5, <1>14, <1>15
    <2>3. \A u \in Tabs : rot'[u].pc # "posted"
        BY <1>8 DEF OnWire
    <2> QED
        BY <1>1, <1>8, <2>1, <2>2, <2>3 DEF Accounted
<1> QED
    BY <1>6, <1>9, <1>13, <1>16

\* A refresh ends without a pair: refused for good, or to be tried again later.
LEMMA Refused ==
    ASSUME SessionInv, NEW t \in Tabs, RefreshRefused(t)
    PROVE  SessionInv'
<1> USE DEF SessionInv
<1>1. /\ rot[t].pc = "refused"
      /\ WriteTokens(t, NoPair)
      /\ rot' = [rot EXCEPT ![t] = NoRefresh]
      /\ lockq' = Without(t)
      /\ UNCHANGED <<rt, codes, wire, excused>>
    BY DEF RefreshRefused, SettleRefresh, server
<1>2. NoPair \in Pair /\ NoPair.refresh = 0
    BY SessionAssumption DEF NoPair, Pair
<1>3. /\ store' = NoPair
      /\ mirror' \in [Tabs -> Pair]
      /\ inbox' \in [Tabs -> Seq(Pair)]
      /\ \A u \in Tabs : mirror'[u].refresh \in {mirror[u].refresh, 0}
      /\ \A u \in Tabs : InboxTokens(u)' \subseteq InboxTokens(u) \cup {0}
      /\ \A u \in Tabs : Latest(u)' \in {Latest(u), NoPair}
    BY <1>1, <1>2, Writing
<1>4. /\ lockq' \in Seq(Tabs)
      /\ rot' \in [Tabs -> Refresh]
      /\ \A u \in Tabs : rot'[u] = IF u = t THEN NoRefresh ELSE rot[u]
      /\ LockHeld'
    BY <1>1, Settling
<1>5. NoRefresh.pc = "none" /\ NoRefresh.tok = 0
    BY DEF NoRefresh
<1>6. \A u \in Tabs : ~OnWire(u)' /\ rot[u].pc # "answered"
    BY <1>1, <1>4, <1>5, OneHolder DEF OnWire
<1>7. Types'
    BY <1>1, <1>2, <1>3, <1>4 DEF Types
<1>8. \A k : Known(k)' => Known(k) \/ k = 0
    BY <1>1, <1>2, <1>3, <1>4, <1>5 DEF Known
<1>9. 0 \notin Minted
    BY DEF Minted, Token
<1>10. Minting'
    BY <1>1, <1>4, <1>5, <1>6, <1>8, <1>9 DEF Minting, Fresh, Minted, OnWire
<1>11. \A k : Usable(k) => Usable(k)'
    BY <1>1, <1>6 DEF Usable
<1>12. Usable(0)'
    BY DEF Usable
<1>13. Accounted'
    <2>1. Usable(store.refresh)' /\ \A u \in Tabs : Usable(Latest(u).refresh)'
        BY <1>2, <1>3, <1>11, <1>12 DEF Accounted
    <2>2. \A u \in Tabs : rot'[u].pc # "posted"
        BY <1>6 DEF OnWire
    <2> QED
        BY <1>1, <1>6, <2>1, <2>2 DEF Accounted
<1> QED
    BY <1>4, <1>7, <1>10, <1>13

LEMMA BackingOff ==
    ASSUME SessionInv, NEW t \in Tabs, BackOff(t)
    PROVE  SessionInv'
<1> USE DEF SessionInv
<1>1. /\ OnWire(t)
      /\ rot' = [rot EXCEPT ![t] = NoRefresh]
      /\ lockq' = Without(t)
      /\ excused' = excused \cup {rot[t].tok}
      /\ UNCHANGED <<rt, codes, store, mirror, inbox, wire>>
    BY DEF BackOff, SettleRefresh, server, browser, OnWire
<1>2. /\ lockq' \in Seq(Tabs)
      /\ rot' \in [Tabs -> Refresh]
      /\ \A u \in Tabs : rot'[u] = IF u = t THEN NoRefresh ELSE rot[u]
      /\ LockHeld'
    BY <1>1, Settling
<1>3. NoRefresh.pc = "none" /\ NoRefresh.tok = 0
    BY DEF NoRefresh
<1>4. \A u \in Tabs : ~OnWire(u)' /\ (OnWire(u) => u = t)
    BY <1>1, <1>2, <1>3, OneHolder DEF OnWire
<1>5. Types'
    BY <1>1, <1>2 DEF Types
<1>6. \A u : InboxTokens(u)' = InboxTokens(u)
    BY <1>1 DEF InboxTokens
<1>7. \A k : Known(k)' => Known(k) \/ k = 0
    BY <1>1, <1>2, <1>3, <1>6 DEF Known
<1>8. 0 \notin Minted
    BY DEF Minted, Token
<1>9. Minting'
    <2>1. \A c : Fresh(c) => Fresh(c)'
        BY <1>1, <1>7, <1>8 DEF Fresh, Minted
    <2>2. \A u \in Tabs : rot'[u].pc # "answered"
        BY <1>4 DEF OnWire
    <2> QED
        BY <1>1, <1>2, <1>3, <1>7, <2>1, <2>2 DEF Minting, Minted
<1>10. \A k : Usable(k) => Usable(k)'
    BY <1>1, <1>4 DEF Usable, OnWire
<1>11. Accounted'
    <2>1. \A u \in Tabs : Latest(u)' = Latest(u)
        BY <1>1 DEF Latest
    <2>2. \A u \in Tabs : rot'[u].pc # "posted"
        BY <1>4 DEF OnWire
    <2> QED
        BY <1>1, <1>4, <1>10, <2>1, <2>2 DEF Accounted
<1> QED
    BY <1>2, <1>5, <1>9, <1>11

\* A tab stores a pair, or none, that no refresh gave it.
LEMMA Written ==
    ASSUME SessionInv, NEW t \in Tabs, NEW c \in 0..MaxToken,
           WriteTokens(t, PairOf(c)),
           rt' \in [Token -> {"none", "live", "rotated", "revoked"}],
           Minted \subseteq Minted', \E n \in 0..MaxToken : Minted' = 1..n,
           \A j \in Token : rt'[j] = "rotated" => rt[j] = "rotated",
           codes' \subseteq codes \ {c},
           c # 0 => c \in Minted' /\ ~Known(c) /\ rt'[c] # "rotated",
           \A u \in Tabs : rot[u].pc = "answered" => rot[u].got # c,
           UNCHANGED <<lockq, rot, wire, excused>>
    PROVE  SessionInv'
<1> USE DEF SessionInv
<1>1. PairOf(c) \in Pair /\ PairOf(c).refresh = c
    BY DEF PairOf, Pair
<1>2. /\ store' = PairOf(c)
      /\ mirror' \in [Tabs -> Pair]
      /\ inbox' \in [Tabs -> Seq(Pair)]
      /\ \A u \in Tabs : mirror'[u].refresh \in {mirror[u].refresh, c}
      /\ \A u \in Tabs : InboxTokens(u)' \subseteq InboxTokens(u) \cup {c}
      /\ \A u \in Tabs : Latest(u)' \in {Latest(u), PairOf(c)}
    BY <1>1, Writing
<1>3. Types'
    BY <1>1, <1>2 DEF Types
<1>4. LockHeld'
    BY DEF LockHeld, OnWire
<1>5. \A k : Known(k)' => Known(k) \/ k = c
    BY <1>1, <1>2 DEF Known
<1>6. 0 \notin Minted
    BY DEF Minted, Token
<1>7. \A k : Fresh(k) /\ k # c => Fresh(k)'
    BY <1>5 DEF Fresh, Minted
<1>8. Minting'
    <2>1. \A k : Known(k)' => k \in Minted' \cup {0}
        BY <1>5 DEF Minting
    <2> QED
        BY <1>7, <2>1 DEF Minting
<1>9. Usable(c)'
    BY DEF Usable
<1>10. \A k \in 0..MaxToken : Usable(k) => Usable(k)'
    BY DEF Usable, Token
<1>11. /\ store.refresh \in 0..MaxToken
       /\ \A u \in Tabs : Latest(u).refresh \in 0..MaxToken
    BY LatestIsPair DEF Types, Pair
<1>12. Usable(store.refresh)' /\ \A u \in Tabs : Usable(Latest(u).refresh)'
    BY <1>1, <1>2, <1>9, <1>10, <1>11 DEF Accounted
<1>13. \A u \in Tabs : OnWire(u) => rot[u].tok # c /\ rot[u].tok \in Token
    BY DEF Minting, Known, OnWire, Types, Refresh, Token
<1>14. Accounted'
    BY <1>2, <1>12, <1>13 DEF Accounted, OnWire
<1> QED
    BY <1>3, <1>4, <1>8, <1>14

\* The server ends sessions, or a code is used up, and no tab has heard of it.
LEMMA Revoking ==
    ASSUME SessionInv,
           rt' \in [Token -> {"none", "live", "rotated", "revoked"}],
           \A j \in Token : /\ rt'[j] = "none" <=> rt[j] = "none"
                            /\ rt'[j] = "rotated" <=> rt[j] = "rotated",
           codes' \subseteq codes,
           UNCHANGED <<store, mirror, inbox, lockq, rot, wire, excused>>
    PROVE  SessionInv'
<1> USE DEF SessionInv
<1>1. Types'
    BY DEF Types
<1>2. LockHeld'
    BY DEF LockHeld, OnWire
<1>3. Minted' = Minted
    BY DEF Minted
<1>4. \A u : InboxTokens(u)' = InboxTokens(u)
    BY DEF InboxTokens
<1>5. \A k : Known(k)' <=> Known(k)
    BY <1>4 DEF Known
<1>6. \A k : Fresh(k) => Fresh(k)'
    BY <1>3, <1>5 DEF Fresh, Minted
<1>7. Minting'
    BY <1>3, <1>5, <1>6 DEF Minting
<1>8. \A k \in 0..MaxToken : Usable(k) => Usable(k)'
    BY DEF Usable, Token
<1>9. /\ store.refresh \in 0..MaxToken
      /\ \A u \in Tabs : Latest(u).refresh \in 0..MaxToken /\ Latest(u)' = Latest(u)
    BY LatestIsPair DEF Types, Pair, Latest
<1>10. \A u \in Tabs : rot[u].pc = "posted" => rot[u].tok \in Token
    BY DEF Types, Minting, Refresh, Token
<1>11. Accounted'
    BY <1>4, <1>8, <1>9, <1>10 DEF Accounted, OnWire
<1> QED
    BY <1>1, <1>2, <1>7, <1>11

\* The server opens a session: its token is new, and the others stay.
LEMMA Opening ==
    ASSUME SessionInv, OpenSession
    PROVE  /\ rt' \in [Token -> {"none", "live", "rotated", "revoked"}]
           /\ NextToken \in Token /\ Minted' = Minted \cup {NextToken}
           /\ \E n \in 0..MaxToken : Minted' = 1..n
           /\ \A j \in Token : rt'[j] = IF j = NextToken THEN "live" ELSE rt[j]
           /\ ~Known(NextToken) /\ ~Fresh(NextToken)
           /\ \A j \in Token : rt'[j] = "rotated" => rt[j] = "rotated"
<1> USE DEF SessionInv
<1>1. NextToken \in Token /\ NextToken # 0 /\ NextToken \notin Minted
    BY NextIsNew DEF OpenSession
<1>2. /\ rt' \in [Token -> {"none", "live", "rotated", "revoked"}]
      /\ \A j \in Token : rt'[j] = IF j = NextToken THEN "live" ELSE rt[j]
    BY <1>1 DEF OpenSession, Types
<1>3. \A j \in Token : rt'[j] # "none" <=> rt[j] # "none" \/ j = NextToken
    BY <1>2
<1>4. Minted' = Minted \cup {NextToken} /\ \E n \in 0..MaxToken : Minted' = 1..n
    BY <1>1, <1>3, Growing
<1>5. ~Known(NextToken) /\ ~Fresh(NextToken)
    BY <1>1 DEF Minting, Fresh
<1> QED
    BY <1>1, <1>2, <1>4, <1>5

\* A tab loads the application anew: what it waited for is no longer its own.
LEMMA Loading ==
    ASSUME SessionInv, NEW t \in Tabs, NEW c, Load(t, c),
           \/ UNCHANGED <<rt, codes>>
           \/ OpenSession /\ codes' = codes \cup {NextToken}
    PROVE  SessionInv'
<1> USE DEF SessionInv
<1>1. /\ rot' = [rot EXCEPT ![t] = NoRefresh]
      /\ lockq' = Without(t)
      /\ wire' = IF rot[t].pc = "posted" THEN wire \cup {rot[t].tok} ELSE wire
      /\ excused' = IF rot[t].pc \in {"posted", "answered"} THEN excused \cup {rot[t].tok} ELSE excused
      /\ mirror' = [mirror EXCEPT ![t] = NoPair]
      /\ inbox' = [inbox EXCEPT ![t] = <<>>]
      /\ store' = store
    BY DEF Load
<1>2. /\ lockq' \in Seq(Tabs)
      /\ rot' \in [Tabs -> Refresh]
      /\ \A u \in Tabs : rot'[u] = IF u = t THEN NoRefresh ELSE rot[u]
      /\ LockHeld'
    BY <1>1, Settling
<1>3. NoRefresh.pc = "none" /\ NoRefresh.tok = 0
    BY DEF NoRefresh
<1>4. NoPair \in Pair /\ NoPair.refresh = 0
    BY SessionAssumption DEF NoPair, Pair
<1>5. \A u \in Tabs : /\ mirror'[u] = IF u = t THEN NoPair ELSE mirror[u]
                      /\ inbox'[u] = IF u = t THEN <<>> ELSE inbox[u]
    BY <1>1 DEF Types
<1>6. \A u \in Tabs : InboxTokens(u)' = IF u = t THEN {} ELSE InboxTokens(u)
    BY <1>5 DEF InboxTokens
<1>7. /\ rt' \in [Token -> {"none", "live", "rotated", "revoked"}]
      /\ Minted \subseteq Minted' /\ \E n \in 0..MaxToken : Minted' = 1..n
      /\ \A j \in Token : rt'[j] = "rotated" => rt[j] = "rotated"
    BY Opening DEF Types, Minting, Minted
<1>8. 0 \notin Minted
    BY DEF Minted, Token
<1>9. wire' \subseteq Token
    <2>1. rot[t].pc = "posted" => rot[t].tok \in Token
        BY DEF Types, Minting, Refresh, Token
    <2> QED
        BY <1>1, <2>1 DEF Types
<1>10. codes' \subseteq Token
    BY Opening DEF Types
<1>11. Types'
    <2>1. mirror' \in [Tabs -> Pair] /\ inbox' \in [Tabs -> Seq(Pair)]
        BY <1>1, <1>4, EmptySeq DEF Types
    <2> QED
        BY <1>1, <1>2, <1>7, <1>9, <1>10, <2>1 DEF Types
<1>12. \A k : Known(k)' => Known(k) \/ k = 0
    BY <1>1, <1>2, <1>3, <1>4, <1>5, <1>6 DEF Known
<1>13. \A k : Fresh(k) => Fresh(k)'
    BY <1>7, <1>8, <1>12 DEF Fresh, Minted
<1>14. \A k \in codes' \ codes : Fresh(k)' /\ ~Fresh(k)
    <2>1. CASE UNCHANGED <<rt, codes>>
        BY <2>1
    <2>2. CASE OpenSession /\ codes' = codes \cup {NextToken}
        <3>1. /\ NextToken \in Minted' /\ rt'[NextToken] = "live" /\ NextToken # 0
              /\ ~Known(NextToken) /\ ~Fresh(NextToken)
            BY <2>2, Opening, NextIsNew
        <3> QED
            BY <1>12, <2>2, <3>1 DEF Fresh
    <2> QED
        BY <2>1, <2>2
<1>15. Minting'
    <2>1. \A k \in codes' : Fresh(k)'
        BY <1>13, <1>14 DEF Minting
    <2>2. \A u \in Tabs : rot'[u].pc = "answered" => Fresh(rot[u].got)' /\ rot'[u].got \notin codes'
        <3>1. ASSUME NEW u \in Tabs, rot'[u].pc = "answered"
              PROVE  Fresh(rot[u].got)' /\ rot'[u].got \notin codes'
            <4>1. rot'[u] = rot[u] /\ Fresh(rot[u].got) /\ rot[u].got \notin codes
                BY <1>2, <1>3, <3>1 DEF Minting
            <4>2. \A k : k = rot[u].got => Fresh(k)' /\ k \notin codes'
                BY <1>13, <1>14, <4>1
            <4> QED
                BY <4>1, <4>2
        <3> QED
            BY <3>1
    <2>3. \A u \in Tabs : rot'[u].pc # "none" => rot'[u].tok # 0
        BY <1>2, <1>3 DEF Minting
    <2>4. \A k : Known(k)' => k \in Minted' \cup {0}
        BY <1>7, <1>12 DEF Minting
    <2> QED
        BY <1>7, <2>1, <2>2, <2>3, <2>4 DEF Minting
<1>16. \A k \in 0..MaxToken : Usable(k) => Usable(k)'
    BY <1>1, <1>2, <1>7 DEF Usable, Token
<1>17. Usable(0)'
    BY DEF Usable
<1>18. /\ store.refresh \in 0..MaxToken
       /\ \A u \in Tabs : Latest(u).refresh \in 0..MaxToken
       /\ \A u \in Tabs : Latest(u)' = IF u = t THEN NoPair ELSE Latest(u)
    BY <1>5, LatestIsPair DEF Types, Pair, Latest
<1>19. Usable(store.refresh)' /\ \A u \in Tabs : Usable(Latest(u).refresh)'
    BY <1>1, <1>4, <1>16, <1>17, <1>18 DEF Accounted
<1>20. \A u \in Tabs : rot[u].pc = "posted" => rot[u].tok \in Token
    BY DEF Types, Minting, Refresh, Token
<1>21. Accounted'
    <2>1. \A u \in Tabs : rot'[u].pc = "posted" => rt'[rot'[u].tok] # "rotated" \/ rot'[u].tok \in excused'
        BY <1>1, <1>2, <1>3, <1>7, <1>20 DEF Accounted
    <2>2. \A u \in Tabs : OnWire(u)' => rot'[u].tok \in excused' \/ rot'[u].tok \notin InboxTokens(u)'
        BY <1>1, <1>2, <1>3, <1>6 DEF Accounted, OnWire
    <2>3. wire' \subseteq excused'
        BY <1>1 DEF Accounted
    <2> QED
        BY <1>19, <2>1, <2>2, <2>3 DEF Accounted
<1> QED
    BY <1>2, <1>11, <1>15, <1>21

-----------------------------------------------------------------------------
(* Every step                                                              *)

LEMMA TabsAnswered ==
    ASSUME WebLocks, SessionInv, NEW t \in Tabs, NEW s \in Slots, Answers(t, s)
    PROVE  SessionInv'
<1> USE DEF sessionVars, server, browser
<1>1. CASE Accepted(t, s) \/ FetchFails(t, s)
    BY <1>1, Unaffected DEF Accepted, FetchFails
<1>2. ASSUME RefreshAccessToken(t, s), UNCHANGED <<server, browser, backoff, loads, wire, excused>>
      PROVE  SessionInv'
    <2>1. CASE UNCHANGED <<rot, lockq>>
        BY <1>2, <2>1, Unaffected
    <2>2. CASE ~UNCHANGED <<rot, lockq>>
        BY <1>2, <2>2, Queueing DEF RefreshAccessToken
    <2> QED
        BY <2>1, <2>2
<1>3. CASE Unauthorized(t, s)
    <2>1. CASE RefreshAccessToken(t, s)
        BY <1>2, <1>3, <2>1 DEF Unauthorized
    <2>2. CASE ~RefreshAccessToken(t, s)
        BY <1>3, <2>2, Unaffected DEF Unauthorized
    <2> QED
        BY <2>1, <2>2
<1>4. CASE BootstrapAuth(t, s)
    <2>1. CASE RefreshAccessToken(t, s)
        BY <1>2, <1>4, <2>1 DEF BootstrapAuth
    <2>2. CASE ~RefreshAccessToken(t, s)
        BY <1>4, <2>2, Unaffected DEF BootstrapAuth
    <2> QED
        BY <2>1, <2>2
<1>5. CASE ConsumeOIDCHandoff(t, s)
    <2> DEFINE c == work[t][s].tok
    <2>1. /\ codes' = codes \ {c}
          /\ UNCHANGED <<rt, lockq, rot, wire, excused>>
          /\ \/ c \in codes /\ WriteTokens(t, PairOf(c))
             \/ UNCHANGED browser
        BY <1>5 DEF ConsumeOIDCHandoff
    <2>2. /\ Types /\ Minting /\ Minted' = Minted
        BY <2>1 DEF SessionInv, Minted
    <2>3. CASE c \in codes /\ WriteTokens(t, PairOf(c))
        <3>1. PICK k \in codes : k = c
            BY <2>3
        <3>2. k \in Token /\ Fresh(k) /\ k \in 0..MaxToken
            BY <2>2 DEF Types, Minting, Token
        <3>3. \A u \in Tabs : rot[u].pc = "answered" => rot[u].got # k
            BY <2>2 DEF Minting
        <3>4. rt' \in [Token -> {"none", "live", "rotated", "revoked"}]
            BY <2>1, <2>2 DEF Types
        <3>5. \E n \in 0..MaxToken : Minted' = 1..n
            BY <2>2 DEF Minting
        <3>6. WriteTokens(t, PairOf(k)) /\ codes' \subseteq codes \ {k}
            BY <2>1, <2>3, <3>1
        <3>7. k \in Minted' /\ ~Known(k) /\ rt'[k] # "rotated"
            BY <2>1, <2>2, <3>2 DEF Fresh
        <3> HIDE DEF c
        <3> QED
            BY <2>1, <2>2, <3>2, <3>3, <3>4, <3>5, <3>6, <3>7, Written
    <2>4. CASE UNCHANGED browser
        BY <2>1, <2>2, <2>4, Revoking DEF Types
    <2> QED
        BY <2>1, <2>3, <2>4
<1>6. CASE LoginLocal(t, s)
    <2>1. CASE UNCHANGED <<server, browser>>
        BY <1>6, <2>1, Unaffected DEF LoginLocal
    <2>2. CASE OpenSession /\ WriteTokens(t, PairOf(NextToken))
        <3>1. PICK k \in Token : k = NextToken
            BY <2>2, Opening
        <3>2. /\ k \in 0..MaxToken
              /\ rt' \in [Token -> {"none", "live", "rotated", "revoked"}]
              /\ Minted' = Minted \cup {k} /\ \E n \in 0..MaxToken : Minted' = 1..n
              /\ rt'[k] = "live" /\ ~Known(k) /\ ~Fresh(k)
              /\ \A j \in Token : rt'[j] = "rotated" => rt[j] = "rotated"
            BY <2>2, <3>1, Opening DEF Token
        <3>3. /\ \A u \in Tabs : rot[u].pc = "answered" => rot[u].got # k
              /\ k \notin codes
            BY <3>2 DEF SessionInv, Minting
        <3>4. /\ WriteTokens(t, PairOf(k)) /\ codes' \subseteq codes \ {k}
              /\ UNCHANGED <<lockq, rot, wire, excused>>
            BY <1>6, <2>2, <3>1, <3>3 DEF LoginLocal, OpenSession, WriteTokens
        <3> QED
            BY <3>2, <3>3, <3>4, Written
    <2> QED
        BY <1>6, <2>1, <2>2 DEF LoginLocal
<1>7. CASE ServeLogout(t, s)
    <2>1. /\ rt' \in [Token -> {"none", "live", "rotated", "revoked"}]
          /\ \A j \in Token : /\ rt'[j] = "none" <=> rt[j] = "none"
                              /\ rt'[j] = "rotated" <=> rt[j] = "rotated"
        BY <1>7 DEF ServeLogout, SessionInv, Types
    <2> QED
        BY <1>7, <2>1, Revoking DEF ServeLogout
<1>8. CASE Logout(t, s)
    <2>1. WriteTokens(t, PairOf(0)) /\ UNCHANGED <<rt, codes, lockq, rot, wire, excused>>
        BY <1>8 DEF Logout, NoPair, PairOf
    <2>2. /\ rt' \in [Token -> {"none", "live", "rotated", "revoked"}]
          /\ Minted' = Minted /\ \E n \in 0..MaxToken : Minted' = 1..n
        BY <2>1 DEF SessionInv, Types, Minting, Minted
    <2>3. 0 \in 0..MaxToken /\ 0 \notin codes
        BY SessionAssumption DEF SessionInv, Types, Token
    <2>4. \A u \in Tabs : rot[u].pc = "answered" => rot[u].got # 0
        BY DEF SessionInv, Minting, Fresh, Minted, Token
    <2> QED
        BY <2>1, <2>2, <2>3, <2>4, Written
<1> QED
    BY <1>1, <1>3, <1>4, <1>5, <1>6, <1>7, <1>8 DEF Answers

LEMMA Step ==
    ASSUME WebLocks, SessionInv, [Next]_vars
    PROVE  SessionInv'
<1> USE DEF sessionVars, server, browser
<1>1. CASE UNCHANGED vars
    BY <1>1, Unaffected DEF vars
<1>2. CASE Decisions
    <2>1. ASSUME NEW t \in Tabs, Reload(t) \/ ReturnFromIdP(t)
          PROVE  SessionInv'
        <3>1. CASE Reload(t)
            BY <3>1, Loading DEF Reload
        <3>2. CASE ReturnFromIdP(t)
            BY <3>2, Loading DEF ReturnFromIdP
        <3> QED
            BY <2>1, <3>1, <3>2
    <2>2. ASSUME NEW t \in Tabs, NEW s \in Slots, StartRequest(t, s) \/ StartLogin(t, s) \/ StartLogout(t, s)
          PROVE  SessionInv'
        BY <2>2, Unaffected DEF StartRequest, StartLogin, StartLogout, Begin
    <2>3. CASE RevokeAll
        <3>1. /\ rt' \in [Token -> {"none", "live", "rotated", "revoked"}]
              /\ \A j \in Token : /\ rt'[j] = "none" <=> rt[j] = "none"
                                  /\ rt'[j] = "rotated" <=> rt[j] = "rotated"
            BY <2>3 DEF RevokeAll, SessionInv, Types
        <3> QED
            BY <2>3, <3>1, Revoking DEF RevokeAll
    <2> QED
        BY <1>2, <2>1, <2>2, <2>3 DEF Decisions
<1>3. ASSUME NEW i \in Token, ServeOrphan(i)
      PROVE  SessionInv'
    BY <1>3, ServingOrphan
<1>4. ASSUME NEW t \in Tabs, StorageEvent(t) \/ BackOffEnds(t)
      PROVE  SessionInv'
    <2>1. CASE StorageEvent(t)
        BY <2>1, Hearing
    <2>2. CASE BackOffEnds(t)
        BY <2>2, Unaffected DEF BackOffEnds
    <2> QED
        BY <1>4, <2>1, <2>2
<1>5. ASSUME NEW t \in Tabs, Refreshes(t)
      PROVE  SessionInv'
    BY <1>5, Reusing, Posting, Serving, Storing, Refused, BackingOff DEF Refreshes
<1>6. ASSUME NEW t \in Tabs, NEW s \in Slots, Answers(t, s)
      PROVE  SessionInv'
    BY <1>6, TabsAnswered
<1> QED
    BY <1>1, <1>2, <1>3, <1>4, <1>5, <1>6 DEF Next

LEMMA SessionIsKept == WebLocks => (Spec => []SessionInv)
<1> SUFFICES ASSUME WebLocks PROVE Spec => []SessionInv
    OBVIOUS
<1>1. SessionInv /\ [Next]_vars => SessionInv'
    BY Step
<1> QED
    BY Start, <1>1, PTL DEF Spec

\* In a browser with Web Locks two tabs never have a refresh on the wire at
\* once: refreshes are serialised (auth/tokens.ts:93-100).
THEOREM RefreshesAreSerialised == WebLocks => (Spec => []OneRefreshOnTheWire)
<1> SUFFICES ASSUME WebLocks PROVE Spec => []OneRefreshOnTheWire
    OBVIOUS
<1>1. SessionInv => OneRefreshOnTheWire
    BY OneHolder DEF OneRefreshOnTheWire, OnWire
<1> QED
    BY <1>1, SessionIsKept, PTL

\* With Web Locks the server meets a refresh token again only when the client
\* could not have known better: the first answer was lost with a tab or on its
\* way, or a change of the store was still on its way (auth/tokens.ts:103-140).
THEOREM ReplaysAreAccounted == WebLocks => (Spec => ReplayIsAccounted)
<1> SUFFICES ASSUME WebLocks PROVE Spec => ReplayIsAccounted
    OBVIOUS
<1>1. ASSUME SessionInv, NEW t \in Tabs, rot[t].pc = "posted", rt[rot[t].tok] = "rotated"
      PROVE  rot[t].tok \in excused
    BY <1>1 DEF SessionInv, Accounted
<1>2. SessionInv => [\A t \in Tabs : rot[t].pc = "posted" /\ rot'[t].pc = "refused" /\ rt[rot[t].tok] = "rotated"
                                    => rot[t].tok \in excused]_vars
    BY <1>1
<1> QED
    BY <1>2, SessionIsKept, PTL DEF ReplayIsAccounted

-----------------------------------------------------------------------------
(* One boot for each page load                                             *)

Booting(t, s) == work[t][s].do \in {"load", "boot"}
BootInv ==
    /\ work \in [Tabs -> [Slots -> Activity]]
    /\ loading \in [Tabs -> BOOLEAN]
    /\ \A t \in Tabs : \A r, s \in Slots : Booting(t, r) /\ Booting(t, s) => r = s

\* A step keeps that, and ends a boot only when nothing loads any more.
BootKept ==
    /\ BootInv'
    /\ \A t \in Tabs : loading[t] /\ ~loading'[t] => \A s \in Slots : work[t][s].do # "load"

LEMMA NoBootEnds == BootInv /\ UNCHANGED <<work, loading>> => BootKept
BY DEF BootKept, BootInv, Booting

\* One activity of a tab turns into another, which boots only if it did.
LEMMA Turning ==
    ASSUME BootInv, NEW t \in Tabs, NEW s \in Slots, NEW a \in Activity,
           work' = [work EXCEPT ![t][s] = a],
           a.do \in {"load", "boot"} => Booting(t, s),
           loading' \in [Tabs -> BOOLEAN],
           \A u \in Tabs : loading[u] /\ ~loading'[u] => u = t /\ work[t][s].do = "boot"
    PROVE  BootKept
<1>1. /\ work' \in [Tabs -> [Slots -> Activity]]
      /\ \A u \in Tabs, r \in Slots : work'[u][r] = IF u = t /\ r = s THEN a ELSE work[u][r]
    BY DEF BootInv
<1>2. BootInv'
    BY <1>1 DEF BootInv, Booting
<1>3. \A u \in Tabs : loading[u] /\ ~loading'[u] => \A r \in Slots : work[u][r].do # "load"
    BY DEF BootInv, Booting
<1> QED
    BY <1>2, <1>3 DEF BootKept

\* What an activity becomes after a refresh.
LEMMA Following ==
    ASSUME NEW a \in Activity, NEW r, NEW access
    PROVE  /\ After(a, r, access) \in Activity
           /\ After(a, r, access).do \in {"load", "boot"} => a.do \in {"load", "boot"}
BY DEF After, Activity, Bearer, Idle

LEMMA Resuming ==
    ASSUME BootInv, NEW t \in Tabs, NEW s \in Slots, NEW r, Resume(t, s, r)
    PROVE  BootKept
<1> DEFINE b == After(work[t][s], r, GetAccessToken(t))
<1>1. work[t][s] \in Activity
    BY DEF BootInv
<1>2. b \in Activity /\ (b.do \in {"load", "boot"} => Booting(t, s))
    BY <1>1, Following DEF Booting
<1>3. /\ work' = [work EXCEPT ![t][s] = b]
      /\ loading' = [loading EXCEPT ![t] = @ /\ ~(EndsSignedOut(work[t][s], r) /\ work[t][s].do = "boot")]
    BY DEF Resume
<1>4. /\ loading' \in [Tabs -> BOOLEAN]
      /\ \A u \in Tabs : loading[u] /\ ~loading'[u] => u = t /\ work[t][s].do = "boot"
    BY <1>3 DEF BootInv
<1> HIDE DEF b
<1> QED
    BY <1>2, <1>3, <1>4, Turning

LEMMA Moving ==
    ASSUME BootInv, NEW t \in Tabs, NEW s \in Slots,
           NEW pc \in {"", "start", "exchange", "sent", "again", "await", "posted", "answered"},
           work' = [work EXCEPT ![t][s].pc = pc], loading' = loading
    PROVE  BootKept
<1>1. PICK a \in Activity : a = work[t][s]
    BY DEF BootInv
<1>2. PICK b \in Activity : b = [a EXCEPT !.pc = pc] /\ b.do = a.do
    <2>1. [a EXCEPT !.pc = pc] \in Activity /\ [a EXCEPT !.pc = pc].do = a.do
        BY DEF Activity
    <2> QED
        BY <2>1, Zenon
<1>3. work' = [work EXCEPT ![t][s] = b]
    BY <1>1, <1>2 DEF BootInv
<1>4. b.do \in {"load", "boot"} => Booting(t, s)
    BY <1>1, <1>2 DEF Booting
<1>5. /\ loading' \in [Tabs -> BOOLEAN]
      /\ \A u \in Tabs : ~(loading[u] /\ ~loading'[u])
    BY DEF BootInv
<1> QED
    BY <1>3, <1>4, <1>5, Turning

LEMMA Asking ==
    ASSUME BootInv, NEW t \in Tabs, NEW s \in Slots, RefreshAccessToken(t, s)
    PROVE  BootKept
<1>1. CASE Resume(t, s, 0)
    BY <1>1, Resuming
<1>2. CASE work' = [work EXCEPT ![t][s].pc = "await"] /\ loading' = loading
    BY <1>2, Moving
<1> QED
    BY <1>1, <1>2 DEF RefreshAccessToken

LEMMA SettlingBoots ==
    ASSUME BootInv, NEW t \in Tabs, NEW r, SettleRefresh(t, r)
    PROVE  BootKept
<1> DEFINE waiting == {s \in Slots : work[t][s].pc = "await"}
           access == Read(store', mirror'[t], "access")
           losers == {s \in waiting : EndsSignedOut(work[t][s], r)}
           row == [s \in Slots |-> IF s \in waiting THEN After(work[t][s], r, access) ELSE work[t][s]]
<1>1. /\ work' = [work EXCEPT ![t] = row]
      /\ loading' = [loading EXCEPT ![t] = @ /\ \A s \in losers : work[t][s].do # "boot"]
    BY DEF SettleRefresh
<1>2. \A s \in Slots : /\ row[s] \in Activity
                       /\ row[s].do \in {"load", "boot"} => Booting(t, s)
    BY Following DEF BootInv, Booting
<1>3. row \in [Slots -> Activity]
    BY <1>2
<1>4. \A u \in Tabs : loading[u] /\ ~loading'[u] => u = t /\ \E s \in Slots : work[t][s].do = "boot"
    BY <1>1 DEF BootInv
<1>5. loading' \in [Tabs -> BOOLEAN]
    BY <1>1 DEF BootInv
<1> HIDE DEF row
<1>6. /\ work' \in [Tabs -> [Slots -> Activity]]
      /\ \A u \in Tabs : work'[u] = IF u = t THEN row ELSE work[u]
    BY <1>1, <1>3 DEF BootInv
<1>7. BootInv'
    BY <1>2, <1>5, <1>6 DEF BootInv, Booting
<1>8. \A u \in Tabs : loading[u] /\ ~loading'[u] => \A s \in Slots : work[u][s].do # "load"
    BY <1>4 DEF BootInv, Booting
<1> QED
    BY <1>7, <1>8 DEF BootKept

LEMMA LoadBoots ==
    ASSUME BootInv, NEW t \in Tabs, NEW c \in Nat, Load(t, c)
    PROVE  BootKept
<1>1. PICK s \in Slots : work' = [work EXCEPT ![t] = Boots(s, c)]
    BY DEF Load
<1>2. /\ Boots(s, c) \in [Slots -> Activity]
      /\ \A r \in Slots : Boots(s, c)[r].do \in {"load", "boot"} => r = s
    BY DEF Boots, Activity, Idle
<1>3. /\ work' \in [Tabs -> [Slots -> Activity]]
      /\ \A u \in Tabs : work'[u] = IF u = t THEN Boots(s, c) ELSE work[u]
    BY <1>1, <1>2 DEF BootInv
<1>4. loading' = [loading EXCEPT ![t] = TRUE]
    BY DEF Load
<1>5. BootInv'
    BY <1>2, <1>3, <1>4 DEF BootInv, Booting
<1> QED
    BY <1>4, <1>5 DEF BootKept, BootInv

LEMMA BootStart == Init => BootInv
<1> SUFFICES ASSUME Init PROVE BootInv
    OBVIOUS
<1>1. PICK s \in Slots : work = [t \in Tabs |-> Boots(s, 0)]
    BY DEF Init
<1>2. /\ Boots(s, 0) \in [Slots -> Activity]
      /\ \A r \in Slots : Boots(s, 0)[r].do \in {"load", "boot"} => r = s
    BY DEF Boots, Activity, Idle
<1> QED
    BY <1>1, <1>2 DEF BootInv, Booting, Init

LEMMA AnswersBoot ==
    ASSUME BootInv, NEW t \in Tabs, NEW s \in Slots, Answers(t, s)
    PROVE  BootKept
<1> DEFINE a == work[t][s]
<1>1. a \in Activity /\ Idle \in Activity /\ Idle.do = "idle"
    BY DEF BootInv, Activity, Idle
<1>2. CASE Accepted(t, s) \/ FetchFails(t, s)
    <2>1. work' = [work EXCEPT ![t][s] = Idle]
        BY <1>2 DEF Accepted, FetchFails
    <2>2. /\ loading' = [loading EXCEPT ![t] = @ /\ a.do # "boot"]
        BY <1>2 DEF Accepted, FetchFails
    <2>3. /\ loading' \in [Tabs -> BOOLEAN]
          /\ \A u \in Tabs : loading[u] /\ ~loading'[u] => u = t /\ a.do = "boot"
        BY <2>2 DEF BootInv
    <2> QED
        BY <1>1, <2>1, <2>3, Turning
<1>3. CASE Unauthorized(t, s)
    BY <1>3, Asking, Resuming DEF Unauthorized
<1>4. CASE BootstrapAuth(t, s)
    <2>1. \/ work' = [work EXCEPT ![t][s].pc = "exchange"] /\ loading' = loading
          \/ RefreshAccessToken(t, s)
          \/ Resume(t, s, 0)
        BY <1>4 DEF BootstrapAuth
    <2> QED
        BY <2>1, Moving, Asking, Resuming
<1>5. CASE ConsumeOIDCHandoff(t, s)
    <2>1. PICK b : /\ work' = [work EXCEPT ![t][s] = b] /\ loading' = loading
                   /\ b = After(a, 0, a.tok) \/ b = [do |-> "load", pc |-> "start", tok |-> 0]
        BY <1>5 DEF ConsumeOIDCHandoff
    <2>2. b \in Activity /\ (b.do \in {"load", "boot"} => Booting(t, s))
        <3>1. a.do = "load" /\ [do |-> "load", pc |-> "start", tok |-> 0] \in Activity
            BY <1>5 DEF ConsumeOIDCHandoff, Activity
        <3> QED
            BY <1>1, <2>1, <3>1, Following DEF Booting
    <2>3. /\ loading' \in [Tabs -> BOOLEAN]
          /\ \A u \in Tabs : ~(loading[u] /\ ~loading'[u])
        BY <2>1 DEF BootInv
    <2> QED
        BY <2>1, <2>2, <2>3, Turning
<1>6. CASE LoginLocal(t, s) \/ Logout(t, s)
    <2>1. PICK b \in Activity : /\ work' = [work EXCEPT ![t][s] = b] /\ loading' = loading
                                /\ b.do \notin {"load", "boot"}
        <3>1. [do |-> "me", pc |-> "sent", tok |-> 1] \in Activity
            BY DEF Activity
        <3> QED
            BY <1>1, <1>6, <3>1 DEF LoginLocal, Logout
    <2>2. /\ loading' \in [Tabs -> BOOLEAN]
          /\ \A u \in Tabs : ~(loading[u] /\ ~loading'[u])
        BY <2>1 DEF BootInv
    <2> QED
        BY <2>1, <2>2, Turning
<1>7. CASE ServeLogout(t, s)
    BY <1>7, Moving DEF ServeLogout
<1> QED
    BY <1>2, <1>3, <1>4, <1>5, <1>6, <1>7 DEF Answers

LEMMA BootStep ==
    ASSUME Types, BootInv, [Next]_vars
    PROVE  BootKept
<1>1. CASE UNCHANGED <<work, loading>>
    BY <1>1, NoBootEnds
<1>2. CASE Decisions
    <2>1. ASSUME NEW t \in Tabs, Reload(t) \/ ReturnFromIdP(t)
          PROVE  BootKept
        <3>1. NextToken \in Token => NextToken \in Nat
            BY DEF Token
        <3> QED
            BY <2>1, <3>1, LoadBoots DEF Reload, ReturnFromIdP, OpenSession
    <2>2. ASSUME NEW t \in Tabs, NEW s \in Slots, StartRequest(t, s) \/ StartLogin(t, s) \/ StartLogout(t, s)
          PROVE  BootKept
        <3>1. GetRefreshToken(t) \in Nat /\ \A x : Bearer(x) \in Nat
            BY SessionAssumption DEF GetRefreshToken, Read, Types, Pair, Bearer
        <3>2. /\ [do |-> "api", pc |-> "sent", tok |-> Bearer(GetAccessToken(t))] \in Activity
              /\ [do |-> "login", pc |-> "posted", tok |-> 0] \in Activity
              /\ [do |-> "logout", pc |-> "posted", tok |-> GetRefreshToken(t)] \in Activity
            BY <3>1 DEF Activity
        <3>3. PICK b \in Activity : /\ work' = [work EXCEPT ![t][s] = b] /\ loading' = loading
                                    /\ b.do \notin {"load", "boot"}
            BY <2>2, <3>2 DEF StartRequest, StartLogin, StartLogout, Begin
        <3>4. /\ loading' \in [Tabs -> BOOLEAN]
              /\ \A u \in Tabs : ~(loading[u] /\ ~loading'[u])
            BY <3>3 DEF BootInv
        <3> QED
            BY <3>3, <3>4, Turning
    <2>3. CASE RevokeAll
        BY <1>1, <2>3 DEF RevokeAll
    <2> QED
        BY <1>2, <2>1, <2>2, <2>3 DEF Decisions
<1>3. ASSUME NEW t \in Tabs, Refreshes(t)
      PROVE  BootKept
    <2>1. \/ \E r : SettleRefresh(t, r)
          \/ UNCHANGED <<work, loading>>
        BY <1>3 DEF Refreshes, ReuseRotated, PostRefresh, ServeRefresh, StoreRotated, RefreshRefused, BackOff
    <2> QED
        BY <1>1, <2>1, SettlingBoots
<1>4. ASSUME NEW t \in Tabs, NEW s \in Slots, Answers(t, s)
      PROVE  BootKept
    BY <1>4, AnswersBoot
<1>5. CASE UNCHANGED vars \/ (\E i \in Token : ServeOrphan(i)) \/ \E t \in Tabs : StorageEvent(t) \/ BackOffEnds(t)
    BY <1>1, <1>5 DEF vars, ServeOrphan, StorageEvent, BackOffEnds
<1> QED
    BY <1>2, <1>3, <1>4, <1>5 DEF Next

\* A boot ends when its own run of bootstrapAuth has: never while it exchanges
\* the hand-off code (auth/AuthContext.tsx:53-60).
THEOREM BootsAwaitTheirHandoff == WebLocks => (Spec => BootAwaitsHandoff)
<1> SUFFICES ASSUME WebLocks PROVE Spec => BootAwaitsHandoff
    OBVIOUS
<1>1. SessionInv => Types
    BY DEF SessionInv
<1>2. Types /\ BootInv /\ [Next]_vars => BootInv'
    BY BootStep DEF BootKept
<1>3. Types /\ BootInv /\ [Next]_vars =>
          [\A t \in Tabs : loading[t] /\ ~loading'[t] => \A s \in Slots : work[t][s].do # "load"]_vars
    BY BootStep DEF BootKept
<1> QED
    BY <1>1, <1>2, <1>3, BootStart, SessionIsKept, PTL DEF Spec, BootAwaitsHandoff

=============================================================================
