--------------------------- MODULE MCRefreshTokens ---------------------------
(* Model-checking instance of RefreshTokens: symmetry of the interchangeable *)
(* tokens and connections.                                                   *)
EXTENDS RefreshTokens, TLC

IdSymmetry == Permutations(Tokens) \cup Permutations(Calls)

=============================================================================
