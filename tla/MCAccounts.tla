----------------------------- MODULE MCAccounts -----------------------------
(* Accounts for TLC.                                                       *)
EXTENDS Accounts, TLC

CONSTANTS r1, r2, u1, u2, a1, a2

TwoRequests == {r1, r2}
TwoUsers == {u1, u2}
TwoAddresses == {a1, a2}
OneAddress == {a1}
ThreeRows == 1 .. 3

Symmetry == Permutations(Requests) \union Permutations(Users)

=============================================================================
