------------------------------- MODULE Sublists -------------------------------
(***************************************************************************)
(* Sorting and filtering, as the web application and the server do it with *)
(* lists: by the positions that are kept.  The definitions are first order *)
(* so that lemmas about them can be proved (SublistsProofs).               *)
(***************************************************************************)
EXTENDS Integers, Sequences, FiniteSets

\* The elements of a finite set of numbers, the smallest first.
InOrder(S) ==
    CHOOSE f \in [1 .. Cardinality(S) -> S] :
        \A i, j \in 1 .. Cardinality(S) : i < j => f[i] < f[j]

\* The elements of a finite set of numbers, the largest first.
NewestFirst(S) ==
    CHOOSE f \in [1 .. Cardinality(S) -> S] :
        \A i, j \in 1 .. Cardinality(S) : i < j => f[i] > f[j]

\* What a filter leaves of a list: the elements at the positions "kept".
Sublist(s, kept) == [k \in 1 .. Cardinality(kept) |-> s[InOrder(kept)[k]]]

=============================================================================
