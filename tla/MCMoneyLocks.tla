---------------------------- MODULE MCMoneyLocks ----------------------------
(***************************************************************************)
(* A small instance of MoneyLocks for TLC: a bounty of two units whose     *)
(* sponsor sent one too much and which three payouts would draw on, and a  *)
(* bounty of one unit with a single winner.                                *)
(***************************************************************************)
EXTENDS MoneyLocks, TLC

CONSTANTS r1, r2, r3, b1, b2, p1, p2, p3, p4, h1, h2, h3

TwoRequests == {r1, r2}
ThreeRequests == {r1, r2, r3}
TwoBounties == {b1, b2}
FourPayouts == {p1, p2, p3, p4}
ThreeHashes == {h1, h2, h3}

ThreeAndOne == [p \in FourPayouts |-> IF p = p4 THEN b2 ELSE b1]
Shares == [b \in TwoBounties |-> IF b = b1 THEN 2 ELSE 1]
Sent == [b \in TwoBounties |-> IF b = b1 THEN 3 ELSE 1]

Symmetry == Permutations(Requests) \union Permutations(Hashes) \union Permutations({p1, p2, p3})

=============================================================================
