--------------------------- MODULE EscrowLedger ---------------------------
(***************************************************************************)
(* What the platform promises about the money of one bounty: the sponsor   *)
(* deposits at least the posted amount once, winners are paid out of it up *)
(* to the posted amount, and what is left may be returned once, which ends *)
(* everything.                                                             *)
(***************************************************************************)
EXTENDS Integers

CONSTANT Posted

VARIABLES deposited, paid, refunded

ledger == <<deposited, paid, refunded>>

Init == deposited = 0 /\ paid = 0 /\ refunded = 0

Deposit ==
    /\ deposited = 0
    /\ deposited' >= Posted
    /\ UNCHANGED <<paid, refunded>>

Pay ==
    /\ refunded = 0
    /\ deposited > 0
    /\ paid' > paid /\ paid' =< Posted
    /\ UNCHANGED <<deposited, refunded>>

Refund ==
    /\ refunded = 0
    /\ deposited > paid
    /\ refunded' = deposited - paid
    /\ UNCHANGED <<deposited, paid>>

Spec == Init /\ [][Deposit \/ Pay \/ Refund]_ledger

=============================================================================
