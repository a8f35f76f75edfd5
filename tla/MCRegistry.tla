----------------------------- MODULE MCRegistry -----------------------------
(* Model-checking instance of Registry: symmetry of the interchangeable ids. *)
EXTENDS ReviewConsole, TLC

IdSymmetry == Permutations(Entries) \cup Permutations(Versions) \cup Permutations(Changes)

=============================================================================
