---------------------------- MODULE SublistsProofs ----------------------------
(***************************************************************************)
(* Lemmas about sorted and filtered lists.  Induction is by the least      *)
(* number: a set of numbers that is not empty has a smallest one           *)
(* (LeastNumber), so that a statement about all numbers is proved from the *)
(* smallest one of which it would be false.                                *)
(***************************************************************************)
EXTENDS Sublists, FiniteSetTheorems, WellFoundedInduction, SequenceTheorems, TLAPS

LEMMA LeastNumber ==
    ASSUME NEW S, S \subseteq Nat, S # {}
    PROVE  \E m \in S : \A n \in S : m <= n
<1>1. PICK m \in S : \A n \in S : ~ (<<n, m>> \in OpToRel(<, Nat))
    BY WFMin, NatLessThanWellFounded
<1>2. \A n \in S : ~ (n < m)
    BY <1>1 DEF OpToRel
<1> QED
    BY <1>2

LEMMA LargestElement ==
    ASSUME NEW S, S \subseteq Int, IsFiniteSet(S), S # {}
    PROVE  \E m \in S : \A n \in S : n <= m
<1> DEFINE HasLargest(T) == \E m \in T : \A n \in T : n <= m
           Bad == {c \in Nat : \E T \in SUBSET Int :
                      IsFiniteSet(T) /\ T # {} /\ Cardinality(T) = c /\ ~HasLargest(T)}
<1>1. Bad = {}
    <2> SUFFICES ASSUME Bad # {}
                 PROVE  FALSE
        OBVIOUS
    <2>1. PICK c \in Bad : \A d \in Bad : c <= d
        BY LeastNumber
    <2>2. PICK T \in SUBSET Int : IsFiniteSet(T) /\ T # {} /\ Cardinality(T) = c /\ ~HasLargest(T)
        BY <2>1
    <2>3. PICK x \in T : TRUE
        BY <2>2
    <2> DEFINE U == T \ {x}
    <2>4. IsFiniteSet(U) /\ Cardinality(U) = c - 1 /\ c \in Nat /\ U \in SUBSET Int
        BY <2>1, <2>2, <2>3, FS_RemoveElement
    <2>5. Cardinality(U) \in Nat
        BY <2>4, FS_CardinalityType
    <2>6. CASE U = {}
        <3>1. T = {x}
            BY <2>3, <2>6
        <3> QED
            BY <2>2, <3>1
    <2>7. CASE U # {}
        <3>1. HasLargest(U)
            <4>1. c - 1 \notin Bad
                BY <2>1, <2>4
            <4> QED
                BY <4>1, <2>4, <2>5, <2>7
        <3>2. PICK y \in U : \A n \in U : n <= y
            BY <3>1
        <3>3. CASE x <= y
            BY <2>2, <2>3, <3>2, <3>3
        <3>4. CASE y < x
            BY <2>2, <2>3, <3>2, <3>4
        <3> QED
            BY <2>2, <2>3, <3>2, <3>3, <3>4
    <2> QED
        BY <2>6, <2>7
<1>2. Cardinality(S) \in Nat
    BY FS_CardinalityType
<1> QED
    BY <1>1, <1>2

-----------------------------------------------------------------------------
(* Sorting                                                                 *)

Ascends(f, n) == \A i, j \in 1 .. n : i < j => f[i] < f[j]
Descends(f, n) == \A i, j \in 1 .. n : i < j => f[i] > f[j]

\* A list that ascends repeats nothing, so that it leaves nothing out if it is
\* as long as the set it is taken from.
LEMMA AscendingIsOnto ==
    ASSUME NEW S, S \subseteq Int, IsFiniteSet(S),
           NEW f \in [1 .. Cardinality(S) -> S],
           Ascends(f, Cardinality(S)) \/ Descends(f, Cardinality(S))
    PROVE  \A x \in S : \E i \in 1 .. Cardinality(S) : f[i] = x
<1> DEFINE n == Cardinality(S)
<1>1. n \in Nat
    BY FS_CardinalityType
<1>2. \A i \in 1 .. n : f[i] \in Int
    OBVIOUS
<1>3. \A i, j \in 1 .. n : f[i] = f[j] => i = j
    BY <1>1, <1>2 DEF Ascends, Descends
<1>4. f \in Injection(1 .. n, S)
    BY <1>3 DEF Injection, IsInjective
<1>5. IsFiniteSet(1 .. n) /\ Cardinality(1 .. n) = n
    BY <1>1, FS_Interval
<1>6. f \in Surjection(1 .. n, S)
    BY <1>4, <1>5, FS_Injection
<1> QED
    BY <1>6 DEF Surjection

LEMMA AscendingExists ==
    ASSUME NEW S, S \subseteq Int, IsFiniteSet(S)
    PROVE  \E f \in [1 .. Cardinality(S) -> S] : Ascends(f, Cardinality(S))
<1> DEFINE Sorts(T) == \E f \in [1 .. Cardinality(T) -> T] : Ascends(f, Cardinality(T))
           Bad == {c \in Nat : \E T \in SUBSET Int :
                      IsFiniteSet(T) /\ Cardinality(T) = c /\ ~Sorts(T)}
<1>1. Bad = {}
    <2> SUFFICES ASSUME Bad # {}
                 PROVE  FALSE
        OBVIOUS
    <2>1. PICK c \in Bad : \A d \in Bad : c <= d
        BY LeastNumber
    <2>2. PICK T \in SUBSET Int : IsFiniteSet(T) /\ Cardinality(T) = c /\ ~Sorts(T)
        BY <2>1
    <2>3. CASE T = {}
        <3>1. Cardinality(T) = 0
            BY <2>3, FS_EmptySet
        <3>2. [i \in 1 .. 0 |-> i] \in [1 .. 0 -> T] /\ Ascends([i \in 1 .. 0 |-> i], 0)
            BY DEF Ascends
        <3>3. Sorts(T)
            BY <3>1, <3>2
        <3> QED
            BY <2>2, <3>3
    <2>4. CASE T # {}
        <3>1. PICK m \in T : \A n \in T : n <= m
            BY <2>2, <2>4, LargestElement
        <3> DEFINE U == T \ {m}
        <3>2. IsFiniteSet(U) /\ Cardinality(U) = c - 1 /\ c \in Nat /\ U \in SUBSET Int
            BY <2>1, <2>2, <3>1, FS_RemoveElement
        <3>3. Cardinality(U) \in Nat
            BY <3>2, FS_CardinalityType
        <3>4. Sorts(U)
            <4>1. c - 1 \notin Bad
                BY <2>1, <3>2
            <4> QED
                BY <4>1, <3>2, <3>3
        <3>5. PICK f \in [1 .. c - 1 -> U] : Ascends(f, c - 1)
            BY <3>2, <3>4
        <3> DEFINE g == [i \in 1 .. c |-> IF i = c THEN m ELSE f[i]]
        <3> HIDE DEF Sorts
        <3>6. g \in [1 .. c -> T]
            BY <3>2, <3>3, <3>5
        <3>7. \A i \in 1 .. c - 1 : f[i] \in T /\ f[i] # m /\ f[i] < m
            <4>1. \A x \in U : x \in T /\ x # m /\ x < m
                BY <2>2, <3>1
            <4>2. \A i \in 1 .. c - 1 : f[i] \in U
                BY <3>5
            <4> QED
                BY <4>1, <4>2
        <3>8. Ascends(g, c)
            <4> SUFFICES ASSUME NEW i \in 1 .. c, NEW j \in 1 .. c, i < j
                         PROVE  g[i] < g[j]
                BY DEF Ascends
            <4>1. i \in 1 .. c - 1 /\ g[i] = f[i]
                BY <3>2
            <4>2. CASE j = c
                BY <4>1, <4>2, <3>7
            <4>3. CASE j # c
                <5>1. j \in 1 .. c - 1 /\ g[j] = f[j]
                    BY <3>2, <4>3
                <5> QED
                    BY <4>1, <5>1, <3>5 DEF Ascends
            <4> QED
                BY <4>2, <4>3
        <3>9. Sorts(T)
            BY <2>2, <3>6, <3>8 DEF Sorts
        <3> QED
            BY <2>2, <3>9
    <2> QED
        BY <2>3, <2>4
<1>2. Cardinality(S) \in Nat
    BY FS_CardinalityType
<1> QED
    BY <1>1, <1>2

LEMMA InOrderProperties ==
    ASSUME NEW S, S \subseteq Int, IsFiniteSet(S)
    PROVE  /\ Cardinality(S) \in Nat
           /\ InOrder(S) \in [1 .. Cardinality(S) -> S]
           /\ Ascends(InOrder(S), Cardinality(S))
           /\ \A x \in S : \E i \in 1 .. Cardinality(S) : InOrder(S)[i] = x
<1>1. InOrder(S) \in [1 .. Cardinality(S) -> S] /\ Ascends(InOrder(S), Cardinality(S))
    BY AscendingExists DEF InOrder, Ascends
<1> QED
    BY <1>1, AscendingIsOnto, FS_CardinalityType

LEMMA NewestFirstProperties ==
    ASSUME NEW S, S \subseteq Int, IsFiniteSet(S)
    PROVE  /\ Cardinality(S) \in Nat
           /\ NewestFirst(S) \in [1 .. Cardinality(S) -> S]
           /\ Descends(NewestFirst(S), Cardinality(S))
           /\ \A x \in S : \E i \in 1 .. Cardinality(S) : NewestFirst(S)[i] = x
<1> DEFINE n == Cardinality(S)
           g == [i \in 1 .. n |-> InOrder(S)[n + 1 - i]]
<1>1. n \in Nat /\ InOrder(S) \in [1 .. n -> S] /\ Ascends(InOrder(S), n)
    BY InOrderProperties
<1> HIDE DEF n
<1>2. \A i \in 1 .. n : n + 1 - i \in 1 .. n
    BY <1>1
<1>3. \A i \in 1 .. n : g[i] = InOrder(S)[n + 1 - i] /\ g[i] \in S /\ InOrder(S)[i] \in Int
    BY <1>1, <1>2
<1>4. Descends(g, n)
    <2> SUFFICES ASSUME NEW i \in 1 .. n, NEW j \in 1 .. n, i < j
                 PROVE  g[i] > g[j]
        BY DEF Descends
    <2>1. n + 1 - j < n + 1 - i
        BY <1>1
    <2>2. InOrder(S)[n + 1 - j] < InOrder(S)[n + 1 - i]
        BY <1>1, <1>2, <2>1 DEF Ascends
    <2> QED
        BY <1>2, <1>3, <2>2
<1>5. g \in [1 .. n -> S]
    BY <1>3
<1> USE DEF n
<1>6. NewestFirst(S) \in [1 .. n -> S] /\ Descends(NewestFirst(S), n)
    BY <1>4, <1>5 DEF NewestFirst, Descends
<1> QED
    BY <1>1, <1>6, AscendingIsOnto

LEMMA SortedApart ==
    ASSUME NEW n \in Nat, NEW f \in [1 .. n -> Int],
           NEW i \in 1 .. n, NEW j \in 1 .. n, i < j
    PROVE  /\ Ascends(f, n) => f[i] < f[j] /\ f[i] # f[j]
           /\ Descends(f, n) => f[i] > f[j] /\ f[i] # f[j]
<1>1. f[i] \in Int /\ f[j] \in Int
    OBVIOUS
<1>2. Ascends(f, n) => f[i] < f[j]
    BY DEF Ascends
<1>3. Descends(f, n) => f[i] > f[j]
    BY DEF Descends
<1> QED
    BY <1>1, <1>2, <1>3

\* Two lists of the same numbers in the same order.
Alike(f, n, g, m) ==
    /\ n \in Nat /\ m \in Nat
    /\ f \in [1 .. n -> Int] /\ g \in [1 .. m -> Int]
    /\ \/ Ascends(f, n) /\ Ascends(g, m)
       \/ Descends(f, n) /\ Descends(g, m)
    /\ \A i \in 1 .. n : \E j \in 1 .. m : g[j] = f[i]
    /\ \A j \in 1 .. m : \E i \in 1 .. n : f[i] = g[j]

\* A list is determined by its elements and their order.
LEMMA SortedUnique ==
    ASSUME NEW n, NEW m, NEW f, NEW g, Alike(f, n, g, m)
    PROVE  n = m /\ f = g
<1> USE DEF Alike
<1>1. (\A i \in 1 .. n : f[i] \in Int) /\ (\A j \in 1 .. m : g[j] \in Int)
    OBVIOUS
<1>2. /\ \A i, j \in 1 .. n : i < j => f[i] # f[j]
      /\ \A i, j \in 1 .. m : i < j => g[i] # g[j]
      /\ \A i, k \in 1 .. n : \A j, l \in 1 .. m :
            i < k /\ l < j /\ f[k] = g[l] => f[i] # g[j]
    <2>1. CASE Ascends(f, n) /\ Ascends(g, m)
        <3>1. /\ \A i, j \in 1 .. n : i < j => f[i] < f[j] /\ f[i] # f[j]
              /\ \A i, j \in 1 .. m : i < j => g[i] < g[j] /\ g[i] # g[j]
            BY <2>1, SortedApart
        <3> SUFFICES ASSUME NEW i \in 1 .. n, NEW k \in 1 .. n, NEW j \in 1 .. m, NEW l \in 1 .. m,
                            i < k, l < j, f[k] = g[l]
                     PROVE  f[i] # g[j]
            BY <3>1
        <3>2. f[i] < f[k] /\ g[l] < g[j]
            BY <3>1
        <3> QED
            BY <1>1, <3>2
    <2>2. CASE Descends(f, n) /\ Descends(g, m)
        <3>1. /\ \A i, j \in 1 .. n : i < j => f[i] > f[j] /\ f[i] # f[j]
              /\ \A i, j \in 1 .. m : i < j => g[i] > g[j] /\ g[i] # g[j]
            BY <2>2, SortedApart
        <3> SUFFICES ASSUME NEW i \in 1 .. n, NEW k \in 1 .. n, NEW j \in 1 .. m, NEW l \in 1 .. m,
                            i < k, l < j, f[k] = g[l]
                     PROVE  f[i] # g[j]
            BY <3>1
        <3>2. f[i] > f[k] /\ g[l] > g[j]
            BY <3>1
        <3> QED
            BY <1>1, <3>2
    <2> QED
        BY <2>1, <2>2
<1> DEFINE Bad == {i \in Nat : i \in 1 .. n /\ i \in 1 .. m /\ f[i] # g[i]}
<1>3. Bad = {}
    <2> SUFFICES ASSUME Bad # {}
                 PROVE  FALSE
        OBVIOUS
    <2>1. PICK k \in Bad : \A l \in Bad : k <= l
        BY LeastNumber
    <2>2. k \in 1 .. n /\ k \in 1 .. m /\ f[k] # g[k]
        BY <2>1
    <2>3. \A l \in 1 .. k - 1 : f[l] = g[l] /\ l \in 1 .. n /\ l \in 1 .. m
        BY <2>1, <2>2
    <2> HIDE DEF Bad
    <2>4. PICK j \in 1 .. m : g[j] = f[k]
        BY <2>2
    <2>5. PICK i \in 1 .. n : f[i] = g[k]
        BY <2>2
    <2>6. k < j
        <3>1. j < k => f[j] = f[k] /\ j \in 1 .. n
            BY <2>2, <2>3, <2>4
        <3> QED
            BY <1>2, <2>2, <2>4, <3>1
    <2>7. k < i
        <3>1. i < k => g[i] = g[k] /\ i \in 1 .. m
            BY <2>2, <2>3, <2>5
        <3> QED
            BY <1>2, <2>2, <2>5, <3>1
    <2> QED
        BY <1>2, <2>2, <2>4, <2>5, <2>6, <2>7
<1>4. \A i \in 1 .. n : i \in 1 .. m => f[i] = g[i]
    <2> SUFFICES ASSUME NEW i \in 1 .. n, i \in 1 .. m, f[i] # g[i]
                 PROVE  FALSE
        OBVIOUS
    <2>1. i \in Bad
        OBVIOUS
    <2> QED
        BY <1>3, <2>1
<1> HIDE DEF Bad
<1>5. ~ (n < m)
    <2> SUFFICES ASSUME n < m
                 PROVE  FALSE
        OBVIOUS
    <2>1. n + 1 \in 1 .. m
        OBVIOUS
    <2>2. PICK i \in 1 .. n : f[i] = g[n + 1]
        BY <2>1
    <2>3. i \in 1 .. m /\ g[i] = g[n + 1] /\ i < n + 1
        BY <1>4, <2>2
    <2> QED
        BY <1>2, <2>1, <2>3
<1>6. ~ (m < n)
    <2> SUFFICES ASSUME m < n
                 PROVE  FALSE
        OBVIOUS
    <2>1. m + 1 \in 1 .. n
        OBVIOUS
    <2>2. PICK j \in 1 .. m : g[j] = f[m + 1]
        BY <2>1
    <2>3. j \in 1 .. n /\ f[j] = f[m + 1] /\ j < m + 1
        BY <1>4, <2>2
    <2> QED
        BY <1>2, <2>1, <2>3
<1> QED
    BY <1>4, <1>5, <1>6

-----------------------------------------------------------------------------
(* Filtering                                                               *)

LEMMA Positions ==
    ASSUME NEW n \in Nat
    PROVE  IsFiniteSet(1 .. n) /\ Cardinality(1 .. n) = n
BY FS_Interval

\* The positions a filter keeps are finitely many, and it takes each of them,
\* in their order.
LEMMA KeptPositions ==
    ASSUME NEW T, NEW s \in Seq(T), NEW kept, kept \subseteq DOMAIN s
    PROVE  /\ IsFiniteSet(kept) /\ kept \subseteq Int
           /\ Cardinality(kept) \in Nat /\ Cardinality(kept) <= Len(s)
           /\ InOrder(kept) \in [1 .. Cardinality(kept) -> kept]
           /\ Ascends(InOrder(kept), Cardinality(kept))
           /\ \A i \in kept : \E k \in 1 .. Cardinality(kept) : InOrder(kept)[k] = i
<1>1. /\ DOMAIN s = 1 .. Len(s) /\ Len(s) \in Nat
    BY LenProperties
<1>2. IsFiniteSet(1 .. Len(s)) /\ Cardinality(1 .. Len(s)) = Len(s)
    BY <1>1, Positions
<1>3. IsFiniteSet(kept) /\ Cardinality(kept) <= Len(s)
    BY <1>1, <1>2, FS_Subset
<1>4. kept \subseteq Int
    BY <1>1
<1> QED
    BY <1>3, <1>4, InOrderProperties

LEMMA SublistProperties ==
    ASSUME NEW T, NEW s \in Seq(T), NEW kept, kept \subseteq DOMAIN s
    PROVE  /\ Sublist(s, kept) \in Seq(T)
           /\ Len(Sublist(s, kept)) = Cardinality(kept)
           /\ DOMAIN Sublist(s, kept) = 1 .. Cardinality(kept)
           /\ \A k \in 1 .. Cardinality(kept) :
                 InOrder(kept)[k] \in kept /\ Sublist(s, kept)[k] = s[InOrder(kept)[k]]
           /\ \A i \in kept : \E k \in 1 .. Cardinality(kept) : Sublist(s, kept)[k] = s[i]
<1> DEFINE n == Cardinality(kept)
           f == InOrder(kept)
<1>1. /\ n \in Nat /\ f \in [1 .. n -> kept]
      /\ \A i \in kept : \E k \in 1 .. n : f[k] = i
    BY KeptPositions
<1>2. \A i \in kept : s[i] \in T
    BY LenProperties
<1> HIDE DEF n, f
<1>3. \A k \in 1 .. n : f[k] \in kept /\ s[f[k]] \in T
    BY <1>1, <1>2
<1>4. Sublist(s, kept) = [k \in 1 .. n |-> s[f[k]]]
    BY DEF Sublist, n, f
<1>5. Sublist(s, kept) \in [1 .. n -> T]
    BY <1>3, <1>4
<1>6. Sublist(s, kept) \in Seq(T) /\ Len(Sublist(s, kept)) = n
    BY <1>1, <1>5
<1>7. \A k \in 1 .. n : Sublist(s, kept)[k] = s[f[k]]
    BY <1>4
<1>8. \A i \in kept : \E k \in 1 .. n : Sublist(s, kept)[k] = s[i]
    BY <1>1, <1>7
<1> QED
    BY <1>3, <1>5, <1>6, <1>7, <1>8 DEF n, f

\* What is left of a list without repetitions has none.
LEMMA SublistDistinct ==
    ASSUME NEW T, NEW s \in Seq(T), NEW kept, kept \subseteq DOMAIN s,
           \A i, j \in DOMAIN s : i # j => s[i] # s[j]
    PROVE  \A k, l \in DOMAIN Sublist(s, kept) : k # l => Sublist(s, kept)[k] # Sublist(s, kept)[l]
<1> DEFINE n == Cardinality(kept)
           f == InOrder(kept)
<1>1. n \in Nat /\ f \in [1 .. n -> kept] /\ Ascends(f, n) /\ kept \subseteq Int
    BY KeptPositions
<1>2. /\ DOMAIN Sublist(s, kept) = 1 .. n
      /\ \A k \in 1 .. n : f[k] \in kept /\ Sublist(s, kept)[k] = s[f[k]]
    BY SublistProperties
<1> HIDE DEF n, f
<1>3. \A k \in 1 .. n : f[k] \in Int
    BY <1>1
<1>4. \A k, l \in 1 .. n : k # l => f[k] # f[l]
    BY <1>1, <1>3 DEF Ascends
<1> QED
    BY <1>2, <1>4

-----------------------------------------------------------------------------
(* Newest first                                                            *)

LEMMA IndexedList ==
    ASSUME NEW T, NEW n \in Nat, NEW f \in [1 .. n -> T]
    PROVE  f \in Seq(T) /\ Len(f) = n /\ DOMAIN f = 1 .. n
OBVIOUS

\* Whatever lists the elements of a set from the largest to the smallest is the
\* list of them, newest first.
LEMMA NewestFirstIs ==
    ASSUME NEW S, S \subseteq Int, IsFiniteSet(S),
           NEW n \in Nat, NEW f \in [1 .. n -> Int], Descends(f, n),
           \A i \in 1 .. n : f[i] \in S,
           \A x \in S : \E i \in 1 .. n : f[i] = x
    PROVE  f = NewestFirst(S) /\ n = Cardinality(S)
<1> DEFINE m == Cardinality(S)
           g == NewestFirst(S)
<1>1. /\ m \in Nat /\ g \in [1 .. m -> S] /\ Descends(g, m)
      /\ \A x \in S : \E i \in 1 .. m : g[i] = x
    BY NewestFirstProperties
<1> HIDE DEF m, g
<1>2. g \in [1 .. m -> Int] /\ \A j \in 1 .. m : g[j] \in S
    BY <1>1
<1>3. \A i \in 1 .. n : \E j \in 1 .. m : g[j] = f[i]
    BY <1>1
<1>4. \A j \in 1 .. m : \E i \in 1 .. n : f[i] = g[j]
    BY <1>2
<1>5. m \in Nat /\ Descends(g, m)
    BY <1>1
<1>6. n = m /\ f = g
    <2>1. Alike(f, n, g, m)
        BY <1>2, <1>3, <1>4, <1>5 DEF Alike
    <2> QED
        BY <2>1, SortedUnique
<1> QED
    BY <1>6 DEF m, g

LEMMA NewestFirstIsAList ==
    ASSUME NEW S, S \subseteq Int, IsFiniteSet(S)
    PROVE  /\ Cardinality(S) \in Nat
           /\ NewestFirst(S) \in Seq(S) /\ NewestFirst(S) \in Seq(Int)
           /\ Len(NewestFirst(S)) = Cardinality(S)
<1> DEFINE n == Cardinality(S)
           f == NewestFirst(S)
<1>1. n \in Nat /\ f \in [1 .. n -> S]
    BY NewestFirstProperties
<1> HIDE DEF n, f
<1>2. f \in Seq(S) /\ Len(f) = n
    BY <1>1, IndexedList
<1>3. f \in [1 .. n -> Int]
    BY <1>1
<1>4. f \in Seq(Int)
    BY <1>1, <1>3, IndexedList
<1> QED
    BY <1>1, <1>2, <1>4 DEF n, f

LEMMA NewestFirstOfNone == NewestFirst({}) = <<>>
<1>1. IsFiniteSet({}) /\ {} \subseteq Int
    BY FS_EmptySet
<1>2. <<>> \in [1 .. 0 -> Int] /\ Descends(<<>>, 0)
    BY DEF Descends
<1>3. \A i \in 1 .. 0 : <<>>[i] \in {}
    OBVIOUS
<1> QED
    BY <1>1, <1>2, <1>3, NewestFirstIs

\* The list of a set, followed by that of a set of older elements.
LEMMA NewestFirstThenOlder ==
    ASSUME NEW S, S \subseteq Int, IsFiniteSet(S),
           NEW R, R \subseteq Int, IsFiniteSet(R),
           \A x \in S : \A y \in R : y < x
    PROVE  NewestFirst(S) \o NewestFirst(R) = NewestFirst(S \cup R)
<1> DEFINE m == Cardinality(S)
           n == Cardinality(R)
           f == NewestFirst(S)
           g == NewestFirst(R)
           h == f \o g
<1>1. /\ m \in Nat /\ f \in [1 .. m -> S] /\ Descends(f, m)
      /\ \A x \in S : \E i \in 1 .. m : f[i] = x
    BY NewestFirstProperties
<1>2. /\ n \in Nat /\ g \in [1 .. n -> R] /\ Descends(g, n)
      /\ \A x \in R : \E i \in 1 .. n : g[i] = x
    BY NewestFirstProperties
<1> HIDE DEF m, n, f, g
<1>3. f \in Seq(S) /\ Len(f) = m /\ g \in Seq(R) /\ Len(g) = n
    BY <1>1, <1>2, IndexedList
<1>4. /\ h \in Seq(S \cup R) /\ Len(h) = m + n
      /\ \A i \in 1 .. m : h[i] = f[i]
      /\ \A i \in 1 .. n : h[m + i] = g[i]
    <2>1. f \in Seq(S \cup R) /\ g \in Seq(S \cup R)
        BY <1>3
    <2> QED
        BY <1>1, <1>2, <1>3, <2>1
<1> HIDE DEF h
<1>5. h \in [1 .. m + n -> Int] /\ m + n \in Nat /\ \A i \in 1 .. m + n : h[i] \in S \cup R
    <2>1. m + n \in Nat /\ DOMAIN h = 1 .. m + n
        BY <1>1, <1>2, <1>4, LenProperties
    <2>2. h \in [1 .. m + n -> S \cup R]
        BY <1>4, <2>1, LenProperties
    <2> QED
        BY <2>1, <2>2
<1>6. \A k \in 1 .. m + n : \/ k \in 1 .. m /\ h[k] = f[k] /\ f[k] \in S /\ f[k] \in Int
                            \/ k - m \in 1 .. n /\ h[k] = g[k - m] /\ g[k - m] \in R /\ g[k - m] \in Int
    <2> SUFFICES ASSUME NEW k \in 1 .. m + n
                 PROVE  \/ k \in 1 .. m /\ h[k] = f[k] /\ f[k] \in S /\ f[k] \in Int
                        \/ k - m \in 1 .. n /\ h[k] = g[k - m] /\ g[k - m] \in R /\ g[k - m] \in Int
        OBVIOUS
    <2>1. CASE k <= m
        <3>1. k \in 1 .. m
            BY <1>1, <2>1
        <3>2. f[k] \in S /\ f[k] \in Int
            BY <1>1, <3>1
        <3> QED
            BY <1>4, <3>1, <3>2
    <2>2. CASE k > m
        <3>1. k - m \in 1 .. n /\ m + (k - m) = k
            BY <1>1, <1>2, <2>2
        <3>2. h[k] = g[k - m]
            BY <1>4, <3>1
        <3> QED
            BY <1>2, <3>1, <3>2
    <2> QED
        BY <1>1, <2>1, <2>2
<1>7. ASSUME NEW k \in 1 .. m + n, NEW l \in 1 .. m + n, k < l
      PROVE  h[k] > h[l]
    <2>1. CASE k \in 1 .. m /\ l \in 1 .. m
        BY <1>1, <1>4, <1>7, <2>1 DEF Descends
    <2>2. CASE k - m \in 1 .. n /\ l - m \in 1 .. n
        <3>1. h[k] = g[k - m] /\ h[l] = g[l - m]
            <4>1. m + (k - m) = k /\ m + (l - m) = l
                BY <1>1
            <4> QED
                BY <1>4, <2>2, <4>1
        <3>2. k - m < l - m
            BY <1>1, <1>7
        <3> QED
            BY <1>2, <2>2, <3>1, <3>2 DEF Descends
    <2>3. CASE k \in 1 .. m /\ ~(l \in 1 .. m)
        <3>1. h[k] \in S /\ h[k] \in Int
            BY <1>1, <1>4, <2>3
        <3>2. h[l] \in R /\ h[l] \in Int
            BY <1>6, <2>3
        <3> QED
            BY <3>1, <3>2
    <2>4. ~(k \in 1 .. m) => k - m \in 1 .. n /\ ~(l \in 1 .. m)
        BY <1>1, <1>2, <1>7
    <2>5. ~(l \in 1 .. m) => l - m \in 1 .. n
        BY <1>1, <1>2
    <2> QED
        BY <2>1, <2>2, <2>3, <2>4, <2>5
<1>8. ASSUME NEW x \in S \cup R
      PROVE  \E i \in 1 .. m + n : h[i] = x
    <2>1. CASE x \in S
        <3>1. PICK i \in 1 .. m : f[i] = x
            BY <1>1, <2>1
        <3> QED
            BY <1>1, <1>2, <1>4, <3>1
    <2>2. CASE x \in R
        <3>1. PICK i \in 1 .. n : g[i] = x
            BY <1>2, <2>2
        <3>2. m + i \in 1 .. m + n
            BY <1>1, <1>2
        <3> QED
            BY <1>4, <3>1, <3>2
    <2> QED
        BY <2>1, <2>2
<1>9. S \cup R \subseteq Int /\ IsFiniteSet(S \cup R) /\ Descends(h, m + n)
    BY <1>7, FS_Union DEF Descends
<1>10. h = NewestFirst(S \cup R)
    BY <1>5, <1>8, <1>9, NewestFirstIs
<1> QED
    BY <1>10 DEF h, f, g

\* The first elements of the list of a set are those from the last of them up.
LEMMA NewestFirstBegins ==
    ASSUME NEW S, S \subseteq Int, IsFiniteSet(S), NEW p \in 1 .. Cardinality(S)
    PROVE  /\ NewestFirst(S)[p] \in S
           /\ SubSeq(NewestFirst(S), 1, p) = NewestFirst({x \in S : NewestFirst(S)[p] <= x})
<1> DEFINE n == Cardinality(S)
           f == NewestFirst(S)
           R == {x \in S : f[p] <= x}
           h == SubSeq(f, 1, p)
<1>1. /\ n \in Nat /\ f \in [1 .. n -> S] /\ Descends(f, n)
      /\ \A x \in S : \E i \in 1 .. n : f[i] = x
    BY NewestFirstProperties
<1>2. p \in 1 .. n
    OBVIOUS
<1> HIDE DEF n, f
<1>3. \A i \in 1 .. n : f[i] \in S /\ f[i] \in Int
    BY <1>1
<1>4. f \in Seq(S) /\ Len(f) = n
    BY <1>1, IndexedList
<1>5. /\ h \in [1 .. p -> Int]
      /\ \A i \in 1 .. p : h[i] = f[i]
    <2>1. 1 \in 1 .. Len(f) + 1 /\ p \in 1 - 1 .. Len(f)
        BY <1>1, <1>2, <1>4
    <2>2. h = [i \in 1 .. p |-> f[1 + i - 1]]
        BY <1>1, <1>2, <1>4 DEF SubSeq
    <2>3. \A i \in 1 .. p : i \in 1 .. n /\ 1 + i - 1 = i
        BY <1>1, <1>2
    <2>4. \A i \in 1 .. p : h[i] = f[i]
        BY <2>2, <2>3
    <2> QED
        BY <1>3, <2>2, <2>3, <2>4
<1> HIDE DEF h
<1>6. R \subseteq Int /\ IsFiniteSet(R)
    BY FS_Subset
<1>7. \A i \in 1 .. p : h[i] \in R
    <2> SUFFICES ASSUME NEW i \in 1 .. p
                 PROVE  f[i] \in S /\ f[p] <= f[i]
        BY <1>5
    <2>1. i \in 1 .. n /\ (i < p \/ i = p)
        BY <1>1, <1>2
    <2>2. f[i] \in Int /\ f[p] \in Int /\ f[i] \in S
        BY <1>2, <1>3, <2>1
    <2>3. CASE i < p
        BY <1>1, <1>2, <2>1, <2>2, <2>3 DEF Descends
    <2> QED
        BY <2>1, <2>2, <2>3
<1>8. ASSUME NEW x \in R
      PROVE  \E i \in 1 .. p : h[i] = x
    <2>1. PICK i \in 1 .. n : f[i] = x
        BY <1>1
    <2>2. f[i] \in Int /\ f[p] \in Int /\ f[p] <= f[i]
        BY <1>2, <1>3, <2>1
    <2>3. ~(p < i)
        BY <1>1, <1>2, <2>2 DEF Descends
    <2>4. i \in 1 .. p
        BY <1>2, <2>3
    <2> QED
        BY <1>5, <2>1, <2>4
<1>9. Descends(h, p)
    <2> SUFFICES ASSUME NEW i \in 1 .. p, NEW j \in 1 .. p, i < j
                 PROVE  f[i] > f[j]
        BY <1>5 DEF Descends
    <2>1. i \in 1 .. n /\ j \in 1 .. n
        BY <1>1, <1>2
    <2> QED
        BY <1>1, <2>1 DEF Descends
<1> HIDE DEF R
<1>10. p \in Nat
    BY <1>2
<1>11. h = NewestFirst(R)
    BY <1>5, <1>6, <1>7, <1>8, <1>9, <1>10, NewestFirstIs
<1>12. f[p] \in S
    BY <1>2, <1>3
<1> QED
    BY <1>11, <1>12 DEF h, R, f


\* A map that ascends from one set of numbers onto another takes the list of
\* the one to the list of the other.
LEMMA Carried ==
    ASSUME NEW A, A \subseteq Int, IsFiniteSet(A),
           NEW B, B \subseteq Int, IsFiniteSet(B),
           NEW h \in [B -> A],
           \A b, c \in B : b < c => h[b] < h[c],
           \A a \in A : \E b \in B : h[b] = a
    PROVE  /\ Cardinality(A) = Cardinality(B)
           /\ \A k \in 1 .. Cardinality(B) : h[InOrder(B)[k]] = InOrder(A)[k]
<1> DEFINE n == Cardinality(B)
           m == Cardinality(A)
           p == InOrder(B)
           g == InOrder(A)
           f == [k \in 1 .. n |-> h[p[k]]]
<1>1. /\ n \in Nat /\ p \in [1 .. n -> B] /\ Ascends(p, n)
      /\ \A b \in B : \E k \in 1 .. n : p[k] = b
  BY InOrderProperties
<1>2. /\ m \in Nat /\ g \in [1 .. m -> A] /\ Ascends(g, m)
      /\ \A a \in A : \E k \in 1 .. m : g[k] = a
  BY InOrderProperties
<1> HIDE DEF n, m, p, g
<1>3. f \in [1 .. n -> A] /\ \A k \in 1 .. n : f[k] = h[p[k]]
  BY <1>1
<1> HIDE DEF f
<1>4. f \in [1 .. n -> Int] /\ g \in [1 .. m -> Int]
  BY <1>2, <1>3
<1>5. Ascends(f, n)
  <2> SUFFICES ASSUME NEW i \in 1 .. n, NEW j \in 1 .. n, i < j
               PROVE  f[i] < f[j]
    BY DEF Ascends
  <2>1. p[i] < p[j] /\ p[i] \in B /\ p[j] \in B
    BY <1>1 DEF Ascends
  <2>2. QED
    BY <1>3, <2>1
<1>6. \A i \in 1 .. n : \E j \in 1 .. m : g[j] = f[i]
  BY <1>2, <1>3
<1>7. \A j \in 1 .. m : \E i \in 1 .. n : f[i] = g[j]
  <2> SUFFICES ASSUME NEW j \in 1 .. m PROVE \E i \in 1 .. n : f[i] = g[j]
    OBVIOUS
  <2>1. PICK b \in B : h[b] = g[j]
    BY <1>2
  <2>2. PICK i \in 1 .. n : p[i] = b
    BY <1>1
  <2>3. QED
    BY <1>3, <2>1, <2>2
<1>8. Alike(f, n, g, m)
  BY <1>1, <1>2, <1>4, <1>5, <1>6, <1>7 DEF Alike
<1>9. n = m /\ f = g
  BY <1>8, SortedUnique
<1>10. QED
  BY <1>3, <1>9 DEF n, m, p, g

\* The positions B of one list correspond to the positions A of another, in
\* their order.
Carries(h, t, B, s, A) ==
    /\ h \in [B -> A]
    /\ \A b, c \in B : b < c => h[b] < h[c]
    /\ \A a \in A : \E b \in B : h[b] = a
    /\ \A b \in B : t[b] = s[h[b]]

\* A filter of one list yields then what a filter of the other one does.
LEMMA SublistCarried ==
    ASSUME NEW S, NEW s \in Seq(S), NEW A, A \subseteq DOMAIN s,
           NEW T, NEW t \in Seq(T), NEW B, B \subseteq DOMAIN t,
           NEW h, Carries(h, t, B, s, A)
    PROVE  Sublist(t, B) = Sublist(s, A)
<1> DEFINE n == Cardinality(B)
           p == InOrder(B)
           g == InOrder(A)
<1>1. A \subseteq Int /\ IsFiniteSet(A) /\ B \subseteq Int /\ IsFiniteSet(B)
  BY KeptPositions
<1>2. Cardinality(A) = n /\ \A k \in 1 .. n : h[p[k]] = g[k]
  BY <1>1, Carried DEF Carries
<1>3. p \in [1 .. n -> B]
  BY KeptPositions
<1>4. /\ Sublist(t, B) = [k \in 1 .. n |-> t[p[k]]]
      /\ Sublist(s, A) = [k \in 1 .. n |-> s[g[k]]]
  BY <1>2 DEF Sublist
<1> HIDE DEF n, p, g
<1>5. \A k \in 1 .. n : t[p[k]] = s[g[k]]
  BY <1>2, <1>3 DEF Carries
<1>6. QED
  BY <1>4, <1>5

LEMMA SublistOfNone == \A s : Sublist(s, {}) = <<>>
<1>1. Cardinality({}) = 0
  BY FS_EmptySet
<1>2. QED
  BY <1>1 DEF Sublist

LEMMA SublistOfOne ==
    ASSUME NEW T, NEW s \in Seq(T), NEW i \in DOMAIN s
    PROVE  Sublist(s, {i}) = <<s[i]>>
<1>1. Cardinality({i}) = 1
  BY FS_Singleton
<1>2. InOrder({i}) \in [1 .. Cardinality({i}) -> {i}]
  BY KeptPositions
<1>3. Sublist(s, {i}) = [k \in 1 .. 1 |-> s[InOrder({i})[k]]]
  BY <1>1 DEF Sublist
<1>4. Sublist(s, {i}) = [k \in 1 .. 1 |-> s[i]]
  BY <1>1, <1>2, <1>3
<1>5. QED
  BY <1>4

=============================================================================
