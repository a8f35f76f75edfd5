---------------------------- MODULE MCSpaSession ----------------------------
(* Model-checking instance of SpaSession. *)
EXTENDS SpaSession, TLC

OldRelease == {[access |-> 0, refresh |-> 1]}

Symmetry == Permutations(Tabs) \cup Permutations(Slots)

=============================================================================
