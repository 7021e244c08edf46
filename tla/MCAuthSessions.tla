--------------------------- MODULE MCAuthSessions ---------------------------
(* AuthSessions for TLC: requests are interchangeable.                     *)
EXTENDS AuthSessions, TLC

CONSTANTS r1, r2, c1

TwoRequests == {r1, r2}
OneCode == {c1}

Symmetry == Permutations(Requests) \union Permutations(Codes)

=============================================================================
