--------------------------- MODULE MCRefreshTokens ---------------------------
(* Small instances of RefreshTokens for TLC.                               *)
EXTENDS RefreshTokens, TLC

\* Accounts, request slots and devices are interchangeable.
Symmetry == Permutations(Requests) \cup Permutations(Browsers)
            \cup Permutations(Tokens \ Legacy) \cup Permutations(Users)

=============================================================================
