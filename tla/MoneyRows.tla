----------------------------- MODULE MoneyRows -----------------------------
(***************************************************************************)
(* What the money transactions of several bounties read and write: the     *)
(* rows of bounty, bounty_reward and payout, and the rules of              *)
(* payout-status.ts about them.  MoneySteps takes each transaction for one *)
(* step, MoneyLocks takes it statement by statement.                       *)
(*                                                                         *)
(* Every submission a payout can be requested for is approved, every       *)
(* payout has one unit of the token and a bounty has one reward.  "OPEN"   *)
(* stands for the statuses in which a bounty is in progress.               *)
(***************************************************************************)
EXTENDS Integers, FiniteSets

CONSTANTS
    Bounties,
    Payouts,   \* a submission and the one payout there may be of it
    Hashes,    \* transactions on the chain an operator may name
    BountyOf,  \* [Payouts -> Bounties]
    Cap,       \* [Bounties -> units of the reward that may be allocated]
    Deposit,   \* [Bounties -> units the sponsor sent]
    None

ASSUME MoneyAssumption ==
    /\ BountyOf \in [Payouts -> Bounties]
    /\ Cap \in [Bounties -> Nat \ {0}]
    /\ Deposit \in [Bounties -> Nat]
    /\ \A b \in Bounties : Deposit[b] >= Cap[b]
    /\ None \notin Hashes \union Payouts
    /\ IsFiniteSet(Payouts)

VARIABLES
    bounty,       \* [Bounties -> bounty.status]
    reward,       \* [Bounties -> bounty_reward.status]
    depositHash,  \* [Bounties -> bounty_reward.deposit_tx_hash]
    refundHash,   \* [Bounties -> txHash of the audit row REWARD_REFUNDED]
    pay,          \* [Payouts -> payout.status, "NONE" without a row]
    payHash       \* [Payouts -> payout.payout_tx_hash]

rowVars == <<bounty, reward, depositHash, refundHash, pay, payHash>>

PayableStatuses == {"FUNDED", "PARTIALLY_PAID", "PAID"}
UnsettledStatuses == {"REQUESTED", "APPROVED"}

BountyStatuses == {"FUNDING_PENDING", "OPEN", "CANCELLED"}
RewardStatuses == PayableStatuses \union {"DEPOSIT_PENDING", "REFUNDED"}

(* Published bounties, each waiting for its deposit.                       *)
Published ==
    /\ bounty = [b \in Bounties |-> "FUNDING_PENDING"]
    /\ reward = [b \in Bounties |-> "DEPOSIT_PENDING"]
    /\ depositHash = [b \in Bounties |-> None]
    /\ refundHash = [b \in Bounties |-> None]
    /\ pay = [p \in Payouts |-> "NONE"]
    /\ payHash = [p \in Payouts |-> None]

With(b, statuses) == {p \in Payouts : BountyOf[p] = b /\ pay[p] \in statuses}

Allocated(b) == Cardinality(With(b, UnsettledStatuses \union {"PAID"}))

UnpaidWinners(b) ==
    \/ With(b, UnsettledStatuses) # {}
    \/ /\ reward[b] \in PayableStatuses
       /\ With(b, {"NONE"}) # {} /\ Allocated(b) < Cap[b]

(* The status that the payouts paid and those still to settle give a       *)
(* payable reward; one of which nothing is paid is as its deposit left it. *)
StatusFor(b, paid, unsettled) ==
    IF paid = {} THEN "FUNDED"
    ELSE IF /\ unsettled = {}
            /\ \/ Cardinality(paid) >= Cardinality({p \in Payouts : BountyOf[p] = b})
               \/ Cardinality(paid) >= Cap[b]
    THEN "PAID" ELSE "PARTIALLY_PAID"

=============================================================================
