---------------------------- MODULE BountyRules ----------------------------
(***************************************************************************)
(* The status rules the services of the platform share: which statuses     *)
(* exist, which of them a handler accepts and which transitions are legal. *)
(* They are the constants of bounty-status.ts, submission-status.ts,       *)
(* application-status.ts and payout-status.ts, and have no state.          *)
(*                                                                         *)
(* A definition whose name starts with Mut is a deliberately wrong version *)
(* of the definition that follows it: a run replaces one by the other to   *)
(* show that a property notices.                                           *)
(***************************************************************************)
EXTENDS Integers, Folds

-----------------------------------------------------------------------------
(* Bounties: bounty-status.ts *)

BountyStatuses == {"DRAFT", "FUNDING_PENDING", "OPEN", "SUBMISSION_CLOSED",
                   "IN_REVIEW", "COMPLETED", "CANCELLED"}

InProgressStatuses == {"OPEN", "SUBMISSION_CLOSED", "IN_REVIEW"}

FinishedStatuses == {"COMPLETED", "CANCELLED"}

(* An operator's update may not move a deadline into the past here. *)
DeadlineEnforcedStatuses == {"DRAFT", "FUNDING_PENDING", "OPEN"}

(* The bounty statuses an operator may move a bounty to from `from'. *)
TransitionsFrom(from) ==
    CASE from = "DRAFT"             -> {"FUNDING_PENDING", "OPEN", "CANCELLED"}
      [] from = "FUNDING_PENDING"   -> {"OPEN", "CANCELLED"}
      [] from = "OPEN"              -> {"SUBMISSION_CLOSED", "CANCELLED"}
      [] from = "SUBMISSION_CLOSED" -> {"IN_REVIEW", "OPEN"}
      [] from = "IN_REVIEW"         -> {"COMPLETED", "OPEN"}
      [] OTHER                      -> {}

-----------------------------------------------------------------------------
(* Applications: application-status.ts.  "NONE" stands for no row. *)

ApplicationStatuses == {"PENDING", "APPROVED", "REJECTED", "WITHDRAWN"}

ApplicationDecisions == {"APPROVED", "REJECTED"}

CanReapply(status) == status = "WITHDRAWN"

NeedsOpenIntake(decision) == decision = "APPROVED"

-----------------------------------------------------------------------------
(* Submissions: submission-status.ts.  "NONE" stands for no row. *)

SubmissionStatuses == {"SUBMITTED", "IN_REVIEW", "REVISION_REQUESTED",
                       "RESUBMITTED", "APPROVED", "REJECTED", "WITHDRAWN"}

SubmissionDecisions == {"START_REVIEW", "REQUEST_REVISION", "APPROVE", "REJECT"}

StatusAfter(decision) ==
    CASE decision = "START_REVIEW"     -> "IN_REVIEW"
      [] decision = "REQUEST_REVISION" -> "REVISION_REQUESTED"
      [] decision = "APPROVE"          -> "APPROVED"
      [] decision = "REJECT"           -> "REJECTED"

AwaitingReviewStatuses == {"SUBMITTED", "RESUBMITTED", "IN_REVIEW"}

(* A revision the submitter has abandoned still blocks the completion of   *)
(* the bounty, so it is unresolved although no review is due.              *)
MutUnresolvedForgetsRevisions == AwaitingReviewStatuses
MutUnresolvedTakesApproved ==
    AwaitingReviewStatuses \union {"REVISION_REQUESTED", "APPROVED"}
UnresolvedStatuses == AwaitingReviewStatuses \union {"REVISION_REQUESTED"}

FinalizedStatuses == {"APPROVED", "REJECTED"}

(* Starting a review twice is refused; an abandoned revision can only be   *)
(* closed by rejecting it.                                                 *)
CanReview(status, decision) ==
    \/ /\ status \in AwaitingReviewStatuses
       /\ ~(status = "IN_REVIEW" /\ decision = "START_REVIEW")
    \/ status = "REVISION_REQUESTED" /\ decision = "REJECT"

CanResubmitAfterIntakeClosed(status) == status = "REVISION_REQUESTED"

-----------------------------------------------------------------------------
(* Rewards and payouts: payout-status.ts, 0006_rewards.sql and             *)
(* record-refund.js.  "NONE" stands for no row.                            *)

RewardStatuses == {"DEPOSIT_PENDING", "FUNDED", "PARTIALLY_PAID", "PAID",
                   "REFUND_PENDING", "REFUNDED", "CANCELLED"}

PayoutStatuses == {"REQUESTED", "AWAITING_MULTISIG_APPROVAL", "APPROVED",
                   "BROADCASTING", "PAID", "FAILED", "CANCELLED"}

AwaitingApprovalStatuses == {"REQUESTED", "AWAITING_MULTISIG_APPROVAL"}

SendableStatuses == {"APPROVED", "BROADCASTING"}

(* Any of these blocks a withdrawal, a deletion, a refund and the closing  *)
(* of the bounty.                                                          *)
MutOpenForgetsApproved == AwaitingApprovalStatuses \union {"BROADCASTING"}
OpenPayoutStatuses == AwaitingApprovalStatuses \union SendableStatuses

TerminalPayoutStatuses == {"PAID", "CANCELLED", "FAILED"}

(* What counts against the cap of a reward: only a cancelled payout gives  *)
(* its share back.                                                         *)
MutAllocatedForgetsFailed == OpenPayoutStatuses \union {"PAID"}
AllocatedStatuses == OpenPayoutStatuses \union {"PAID", "FAILED"}

(* Allocated and not yet paid. *)
MutUnsettledForgetsFailed == OpenPayoutStatuses
UnsettledStatuses == OpenPayoutStatuses \union {"FAILED"}

PayableStatuses == {"FUNDED", "PARTIALLY_PAID", "PAID"}

RefundableStatuses == PayableStatuses \union {"REFUND_PENDING"}

(* SUM(amount): the sum of f[a] over all a in S.                           *)
SumOver(S, f) ==
    MapThenFoldSet(LAMBDA x, y : x + y, 0, LAMBDA a : f[a],
                   LAMBDA T : CHOOSE a \in T : TRUE, S)

=============================================================================
