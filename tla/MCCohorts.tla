------------------------------ MODULE MCCohorts ------------------------------
(* Cohorts for TLC.                                                        *)
EXTENDS Cohorts, TLC

CONSTANTS r1, r2, r3, u1, u2, c1, c2, q1, q2

TwoRequests == {r1, r2}
ThreeRequests == {r1, r2, r3}
OneUser == {u1}
TwoUsers == {u1, u2}
TwoCohorts == {c1, c2}
OneQuestion == {q1}
TwoQuestions == {q1, q2}

Symmetry == Permutations(Requests) \union Permutations(Cohorts)

=============================================================================
