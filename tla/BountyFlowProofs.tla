------------------------- MODULE BountyFlowProofs -------------------------
(***************************************************************************)
(* Proofs about BountyFlow, for any participants, accounts, terms and      *)
(* amounts.                                                                *)
(***************************************************************************)
EXTENDS BountyFlow, SumProofs, FiniteSetTheorems, TLAPS

(* The reward stays at a status of its column, and a payable one payable.  *)
LEMMA AdvancedRewardType ==
    ASSUME NEW payouts, NEW amounts
    PROVE  /\ rw \in RewardStatuses \union {"NONE"} =>
                AdvancedReward(payouts, amounts) \in RewardStatuses \union {"NONE"}
           /\ rw \in PayableStatuses => AdvancedReward(payouts, amounts) \in PayableStatuses
           /\ rw \notin PayableStatuses => AdvancedReward(payouts, amounts) = rw
  BY DEF AdvancedReward, PayableStatuses, RewardStatuses

(* Every initial state is well typed. *)
LEMMA TypeInit == Init => TypeOK
  <1> SUFFICES ASSUME Init PROVE TypeOK
    OBVIOUS
  <1> USE DEF Init
  <1>1. bStatus \in BountyStatuses /\ rw \in RewardStatuses \union {"NONE"}
    BY DEF BountyStatuses, RewardStatuses
  <1>2. nft \in [Actors \union Users -> {"NONE", "QUEUED", "SETTLED"}]
    OBVIOUS
  <1> QED
    BY <1>1, <1>2 DEF TypeOK

LEMMA TypeBounty == TypeOK /\ BountyStep => TypeOK'
  <1> SUFFICES ASSUME TypeOK, BountyStep PROVE TypeOK'
    OBVIOUS
  <1> USE DEF TypeOK
  <1>1. ASSUME NEW t \in TermsSet, NEW passed \in BOOLEAN, Update(t, passed)
        PROVE  TypeOK'
    BY <1>1 DEF Update, workVars, moneyVars, peopleVars
  <1>2. ASSUME NEW to \in BountyStatuses, Transition(to) PROVE TypeOK'
    <2>1. CloseOpenWork => /\ app' \in [Actors -> ApplicationStatuses \union {"NONE"}]
                           /\ sub' \in [Actors -> SubmissionStatuses \union {"NONE"}]
      BY DEF CloseOpenWork, ApplicationStatuses, SubmissionStatuses
    <2> QED
      BY <1>2, <2>1 DEF Transition, workVars, moneyVars, peopleVars
  <1>3. CASE Remove
    BY <1>3 DEF Remove, workVars, moneyVars, peopleVars
  <1>4. CASE DeadlinePasses
    BY <1>4 DEF DeadlinePasses, workVars, moneyVars, peopleVars
  <1> QED
    BY <1>1, <1>2, <1>3, <1>4 DEF BountyStep

LEMMA TypeWork == TypeOK /\ WorkStep => TypeOK'
  <1> SUFFICES ASSUME TypeOK, NEW a \in Actors,
                      \/ Apply(a)
                      \/ WithdrawApplication(a)
                      \/ \E d \in ApplicationDecisions : ReviewApplication(a, d)
                      \/ Submit(a)
                      \/ \E d \in SubmissionDecisions : ReviewSubmission(a, d)
                      \/ ForfeitAward(a)
               PROVE  TypeOK'
    BY DEF WorkStep
  <1> USE DEF TypeOK, bountyVars, moneyVars, peopleVars
  <1>1. CASE Apply(a)
    BY <1>1 DEF Apply, ApplicationStatuses
  <1>2. CASE WithdrawApplication(a)
    BY <1>2 DEF WithdrawApplication, ApplicationStatuses
  <1>3. ASSUME NEW d \in ApplicationDecisions, ReviewApplication(a, d)
        PROVE  TypeOK'
    BY <1>3 DEF ReviewApplication, ApplicationDecisions, ApplicationStatuses
  <1>4. CASE Submit(a)
    BY <1>4 DEF Submit, SubmissionStatuses
  <1>5. ASSUME NEW d \in SubmissionDecisions, ReviewSubmission(a, d)
        PROVE  TypeOK'
    BY <1>5 DEF ReviewSubmission, SubmissionDecisions, StatusAfter, SubmissionStatuses
  <1>6. CASE ForfeitAward(a)
    BY <1>6 DEF ForfeitAward, SubmissionStatuses
  <1> QED
    BY <1>1, <1>2, <1>3, <1>4, <1>5, <1>6

LEMMA TypeMoney == TypeOK /\ MoneyStep => TypeOK'
  <1> SUFFICES ASSUME TypeOK, MoneyStep PROVE TypeOK'
    OBVIOUS
  <1> USE AdvancedRewardType DEF TypeOK, bountyVars, workVars, peopleVars
  <1>1. ASSUME NEW d \in Deposits, ConfirmDeposit(d) PROVE TypeOK'
    BY <1>1 DEF ConfirmDeposit, RewardStatuses
  <1>2. CASE RecordRefund
    BY <1>2 DEF RecordRefund, RewardStatuses
  <1>3. ASSUME NEW a \in Actors, NEW m \in PayAmounts, RequestPayout(a, m)
        PROVE  TypeOK'
    <2>1. wallet[OwnerOf[a]] \in Wallets \union {0}
      BY ActorsAssumption
    <2> QED
      BY <1>3, <2>1 DEF RequestPayout, PayoutStatuses
  <1>4. ASSUME NEW a \in Actors, MarkApproved(a) PROVE TypeOK'
    BY <1>4 DEF MarkApproved, PayoutStatuses
  <1>5. ASSUME NEW a \in Actors, MarkPaid(a) PROVE TypeOK'
    BY <1>5 DEF MarkPaid, PayoutStatuses
  <1>6. ASSUME NEW a \in Actors, OperatorSetsStatus(a) PROVE TypeOK'
    BY <1>6 DEF OperatorSetsStatus, OperatorStatusChange, PayoutStatuses
  <1>7. ASSUME NEW a \in Actors, OperatorCancelsPayout(a) PROVE TypeOK'
    BY <1>7 DEF OperatorCancelsPayout, PayoutStatuses
  <1>8. ASSUME NEW a \in Actors, NEW m \in PayAmounts, OperatorCorrectsPayout(a, m)
        PROVE  TypeOK'
    BY <1>8 DEF OperatorCorrectsPayout, PayoutStatuses
  <1> QED
    BY <1>1, <1>2, <1>3, <1>4, <1>5, <1>6, <1>7, <1>8 DEF MoneyStep

LEMMA TypePeople == TypeOK /\ PeopleStep => TypeOK'
  <1> SUFFICES ASSUME TypeOK, PeopleStep PROVE TypeOK'
    OBVIOUS
  <1> USE DEF TypeOK, bountyVars, workVars, moneyVars
  <1>1. ASSUME NEW a \in Actors, Authenticate(a) PROVE TypeOK'
    BY <1>1 DEF Authenticate
  <1>2. ASSUME NEW a \in Actors, RevokeAgent(a) PROVE TypeOK'
    BY <1>2 DEF RevokeAgent
  <1>3. ASSUME NEW u \in Users, VerifyWallet(u) PROVE TypeOK'
    BY <1>3, AmountsAssumption DEF VerifyWallet, Wallets
  <1>4. ASSUME NEW u \in Users, ReplaceWallet(u) PROVE TypeOK'
    BY <1>4, AmountsAssumption DEF ReplaceWallet, Wallets
  <1>5. ASSUME NEW u \in Users, WithdrawAccount(u) PROVE TypeOK'
    BY <1>5 DEF WithdrawAccount, AgentsOf, OwnActors, ApplicationStatuses,
                SubmissionStatuses
  <1>6. ASSUME NEW u \in Users, SetSuspended(u) PROVE TypeOK'
    BY <1>6 DEF SetSuspended
  <1>7. ASSUME NEW x \in Actors \union Users, NftMoves(x) PROVE TypeOK'
    BY <1>7 DEF NftMoves
  <1> QED
    BY <1>1, <1>2, <1>3, <1>4, <1>5, <1>6, <1>7 DEF PeopleStep

LEMMA TypeStep == TypeOK /\ [Next]_vars => TypeOK'
  <1>1. TypeOK /\ UNCHANGED vars => TypeOK'
    BY DEF TypeOK, vars, bountyVars, workVars, moneyVars, peopleVars
  <1> QED
    BY <1>1, TypeBounty, TypeWork, TypeMoney, TypePeople DEF Next

(* Every row of the database keeps to the values of its columns.           *)
THEOREM TypeCorrect == Spec => []TypeOK
  BY TypeInit, TypeStep, PTL DEF Spec

-----------------------------------------------------------------------------
(* The safety invariants rest on each other, and on what stage the reward  *)
(* has reached: a payout or an award means that the deposit was confirmed  *)
(* (or that there is no reward), a refund that the bounty was cancelled.   *)
RewardStages ==
    /\ \A a \in Actors : pay[a] # "NONE" => rw \in PayableStatuses \union {"REFUNDED"}
    /\ Approved # {} => rw # "DEPOSIT_PENDING"
    /\ rw = "REFUNDED" => bStatus = "CANCELLED"
    /\ rw \notin {"REFUND_PENDING", "CANCELLED"}

(* A payout goes to a wallet there was. *)
PayoutHasWallet == \A a \in Actors : pay[a] # "NONE" => payTo[a] # 0

(* A wallet came with a parent NFT, and a payout needed the wallet. *)
ParentNftsQueued ==
    /\ \A u \in Users : wallet[u] # 0 => nft[u] # "NONE"
    /\ \A a \in Actors : pay[a] # "NONE" => nft[OwnerOf[a]] # "NONE"

SafetyInv ==
    /\ TypeOK
    /\ WinnersBounded
    /\ PayoutBacked
    /\ OpenImpliesFunded
    /\ RewardStages
    /\ ClosedMeansSettled
    /\ ClosedHasNoOpenWork
    /\ PayoutHasWallet
    /\ UnsettledPayoutFollowsWallet
    /\ RewardStatusAgrees
    /\ ParentNftsQueued
    /\ CompletionHasParent

LEMMA SafetyInit == Init => SafetyInv
  <1> SUFFICES ASSUME Init PROVE SafetyInv
    OBVIOUS
  <1>1. TypeOK
    BY TypeInit
  <1>2. Approved = {} /\ \A a \in Actors : pay[a] = "NONE"
    BY DEF Init, Approved, WithStatus
  <1>3. WinnersBounded
    BY <1>1, <1>2, TermsAssumption, FS_EmptySet DEF WinnersBounded, TypeOK
  <1>4. PayoutBacked /\ PayoutHasWallet /\ UnsettledPayoutFollowsWallet
    BY <1>2 DEF PayoutBacked, PayoutHasWallet, UnsettledPayoutFollowsWallet
  <1>5. OpenImpliesFunded /\ RewardStages /\ RewardStatusAgrees
    BY <1>2 DEF Init, OpenImpliesFunded, RewardStages, RewardStatusAgrees,
                InProgressStatuses
  <1>6. ClosedMeansSettled /\ ClosedHasNoOpenWork
    BY DEF Init, ClosedMeansSettled, ClosedHasNoOpenWork, Finished, FinishedStatuses
  <1>7. ParentNftsQueued /\ CompletionHasParent
    BY <1>2, ActorsAssumption DEF Init, ParentNftsQueued, CompletionHasParent
  <1> QED
    BY <1>1, <1>3, <1>4, <1>5, <1>6, <1>7 DEF SafetyInv

(* A submission that is approved stays so, and one that is not becomes so  *)
(* only in a review, which needs a free place among the winners.           *)
LEMMA ApprovedStep ==
    ASSUME TypeOK, Next
    PROVE  \/ Approved' = Approved
           \/ \E a \in Actors :
                \/ ReviewSubmission(a, "APPROVE") /\ Approved' = Approved \union {a}
                \/ ForfeitAward(a) /\ Approved' = Approved \ {a}
  <1> USE DEF Approved, WithStatus, TypeOK, workVars
  <1>1. CASE BountyStep
    <2>1. CloseOpenWork => Approved' = Approved
      BY DEF CloseOpenWork, UnresolvedStatuses, AwaitingReviewStatuses
    <2>2. ASSUME NEW to \in BountyStatuses, Transition(to) PROVE Approved' = Approved
      BY <2>1, <2>2 DEF Transition
    <2> QED
      BY <1>1, <2>2 DEF BountyStep, Update, Remove, DeadlinePasses
  <1>2. CASE MoneyStep
    BY <1>2 DEF MoneyStep, ConfirmDeposit, RecordRefund, RequestPayout, MarkApproved,
         MarkPaid, OperatorSetsStatus, OperatorCancelsPayout, OperatorCorrectsPayout
  <1>3. CASE PeopleStep
    BY <1>3 DEF PeopleStep, Authenticate, RevokeAgent, VerifyWallet, ReplaceWallet,
         WithdrawAccount, UnresolvedStatuses, AwaitingReviewStatuses, SetSuspended, NftMoves
  <1>4. ASSUME NEW a \in Actors, Apply(a) \/ WithdrawApplication(a) \/ Submit(a)
        PROVE  Approved' = Approved
    BY <1>4 DEF Apply, WithdrawApplication, Submit, FinalizedStatuses
  <1>5. ASSUME NEW a \in Actors, NEW d \in ApplicationDecisions, ReviewApplication(a, d)
        PROVE  Approved' = Approved
    BY <1>5 DEF ReviewApplication
  <1>6. ASSUME NEW a \in Actors, NEW d \in SubmissionDecisions, ReviewSubmission(a, d)
        PROVE  IF d = "APPROVE" THEN Approved' = Approved \union {a}
                                ELSE Approved' = Approved
    BY <1>6 DEF ReviewSubmission, SubmissionDecisions, StatusAfter, CanReview,
         AwaitingReviewStatuses
  <1>7. ASSUME NEW a \in Actors, ForfeitAward(a)
        PROVE  Approved' = Approved \ {a}
    BY <1>7 DEF ForfeitAward
  <1>8. CASE WorkStep
    <2> HIDE DEF Approved, WithStatus, TypeOK
    <2> PICK a \in Actors :
            \/ Apply(a)
            \/ WithdrawApplication(a)
            \/ \E d \in ApplicationDecisions : ReviewApplication(a, d)
            \/ Submit(a)
            \/ \E d \in SubmissionDecisions : ReviewSubmission(a, d)
            \/ ForfeitAward(a)
      BY <1>8 DEF WorkStep
    <2> QED
      BY <1>4, <1>5, <1>6, <1>7
  <1> HIDE DEF Approved, WithStatus, TypeOK
  <1> QED
    BY <1>1, <1>2, <1>3, <1>8 DEF Next

LEMMA WinnersStep ==
    ASSUME TypeOK, WinnersBounded, Next
    PROVE  WinnersBounded'
  <1> USE DEF WinnersBounded
  <1>1. IsFiniteSet(Approved) /\ Cardinality(Approved) \in Nat
    BY ActorsAssumption, FS_Subset, FS_CardinalityType DEF Approved, WithStatus
  <1>2. terms.maxWinners \in Nat
    BY TermsAssumption DEF TypeOK
  <1>3. ASSUME NEW a \in Actors, ReviewSubmission(a, "APPROVE"),
               Approved' = Approved \union {a}
        PROVE  WinnersBounded'
    <2>1. Cardinality(Approved') \in {Cardinality(Approved), Cardinality(Approved) + 1}
      BY <1>1, <1>3, FS_AddElement
    <2>2. Cardinality(Approved) < terms.maxWinners /\ terms' = terms
      BY <1>3 DEF ReviewSubmission, WinnerSlotFree, bountyVars
    <2>3. Cardinality(Approved') \in Nat
      BY <1>1, <1>3, FS_AddElement, FS_CardinalityType
    <2> QED
      BY <1>1, <1>2, <2>1, <2>2, <2>3
  <1>4. ASSUME NEW a \in Actors, ForfeitAward(a), Approved' = Approved \ {a}
        PROVE  WinnersBounded'
    <2>1. Cardinality(Approved') =< Cardinality(Approved)
      <3>1. Cardinality(Approved \ {a}) \in {Cardinality(Approved), Cardinality(Approved) - 1}
        BY <1>1, FS_RemoveElement
      <3> QED
        BY <1>1, <1>4, <3>1
    <2>2. terms' = terms
      BY <1>4 DEF ForfeitAward, bountyVars
    <2>3. Cardinality(Approved') \in Nat
      BY <1>1, <1>4, FS_RemoveElement, FS_CardinalityType
    <2> QED
      BY <1>1, <1>2, <2>1, <2>2, <2>3
  <1>5. CASE Approved' = Approved
    <2>1. CASE \E t \in TermsSet, passed \in BOOLEAN : Update(t, passed)
      <3> PICK t \in TermsSet, passed \in BOOLEAN : Update(t, passed)
        BY <2>1
      <3>1. terms' = t /\ t.maxWinners >= Cardinality(Approved) /\ t.maxWinners \in Nat
        BY TermsAssumption DEF Update
      <3> QED
        BY <3>1, <1>1, <1>5
    <2>2. CASE ~ \E t \in TermsSet, passed \in BOOLEAN : Update(t, passed)
      <3>1. terms' = terms
        BY <2>2 DEF Next, BountyStep, WorkStep, MoneyStep, PeopleStep, bountyVars,
             Transition, Remove, DeadlinePasses, Apply, WithdrawApplication,
             ReviewApplication, Submit, ReviewSubmission, ForfeitAward,
             ConfirmDeposit, RecordRefund, RequestPayout, MarkApproved, MarkPaid,
             OperatorSetsStatus, OperatorCancelsPayout, OperatorCorrectsPayout,
             Authenticate, RevokeAgent, VerifyWallet, ReplaceWallet, WithdrawAccount,
             SetSuspended, NftMoves
      <3> QED
        BY <3>1, <1>5
    <2> QED
      BY <2>1, <2>2
  <1> QED
    BY ApprovedStep, <1>3, <1>4, <1>5

(* Who may move what. *)
LEMMA OnlyMoneyStepsMoveMoney ==
    BountyStep \/ WorkStep \/ PeopleStep => UNCHANGED moneyVars
  <1>1. BountyStep => UNCHANGED moneyVars
    BY DEF BountyStep, Update, Transition, Remove, DeadlinePasses
  <1>2. WorkStep => UNCHANGED moneyVars
    BY DEF WorkStep, Apply, WithdrawApplication, ReviewApplication, Submit,
         ReviewSubmission, ForfeitAward
  <1>3. PeopleStep => UNCHANGED moneyVars
    BY DEF PeopleStep, Authenticate, RevokeAgent, VerifyWallet, ReplaceWallet,
         WithdrawAccount, SetSuspended, NftMoves
  <1> QED
    BY <1>1, <1>2, <1>3

LEMMA OnlyBountyStepsMoveBounty ==
    WorkStep \/ MoneyStep \/ PeopleStep => UNCHANGED bountyVars
  <1>1. WorkStep => UNCHANGED bountyVars
    BY DEF WorkStep, Apply, WithdrawApplication, ReviewApplication, Submit,
         ReviewSubmission, ForfeitAward
  <1>2. MoneyStep => UNCHANGED bountyVars
    BY DEF MoneyStep, ConfirmDeposit, RecordRefund, RequestPayout, MarkApproved,
         MarkPaid, OperatorSetsStatus, OperatorCancelsPayout, OperatorCorrectsPayout
  <1>3. PeopleStep => UNCHANGED bountyVars
    BY DEF PeopleStep, Authenticate, RevokeAgent, VerifyWallet, ReplaceWallet,
         WithdrawAccount, SetSuspended, NftMoves
  <1> QED
    BY <1>1, <1>2, <1>3

LEMMA MoneyStepsKeepWork ==
    MoneyStep => UNCHANGED workVars /\ UNCHANGED <<user, wallet>>
  BY DEF MoneyStep, ConfirmDeposit, RecordRefund, RequestPayout, MarkApproved,
       MarkPaid, OperatorSetsStatus, OperatorCancelsPayout, OperatorCorrectsPayout,
       peopleVars

(* The status of the bounty moves along the transition table only. *)
LEMMA StatusStep ==
    ASSUME Next
    PROVE  \/ bStatus' = bStatus
           \/ \E to \in BountyStatuses : Transition(to)
  <1>1. CASE BountyStep
    BY <1>1 DEF BountyStep, Update, Remove, DeadlinePasses
  <1> QED
    BY <1>1, OnlyBountyStepsMoveBounty DEF Next, bountyVars

(* A payout row appears with a request and changes in a money step. *)
LEMMA PayoutStep ==
    ASSUME TypeOK, MoneyStep
    PROVE  \/ UNCHANGED <<pay, payTo>>
           \/ \E a \in Actors :
                /\ \A b \in Actors \ {a} : pay'[b] = pay[b] /\ payTo'[b] = payTo[b]
                /\ \/ \E m \in PayAmounts : RequestPayout(a, m) /\ pay'[a] = "REQUESTED"
                   \/ /\ UNCHANGED payTo
                      /\ \/ MarkApproved(a) /\ pay'[a] = "APPROVED"
                         \/ MarkPaid(a) /\ pay'[a] = "PAID"
                         \/ OperatorSetsStatus(a) /\ pay[a] \in OpenPayoutStatuses
                              /\ pay'[a] \in UnsettledStatuses
                         \/ OperatorCancelsPayout(a) /\ pay'[a] = "CANCELLED"
                         \/ \E m \in PayAmounts : OperatorCorrectsPayout(a, m)
                                                   /\ pay'[a] = "REQUESTED"
  <1> USE DEF TypeOK
  <1>1. ASSUME NEW d \in Deposits, ConfirmDeposit(d) PROVE UNCHANGED <<pay, payTo>>
    BY <1>1 DEF ConfirmDeposit
  <1>2. ASSUME RecordRefund PROVE UNCHANGED <<pay, payTo>>
    BY <1>2 DEF RecordRefund
  <1>3. ASSUME NEW a \in Actors, NEW m \in PayAmounts, RequestPayout(a, m)
        PROVE  /\ \A b \in Actors \ {a} : pay'[b] = pay[b] /\ payTo'[b] = payTo[b]
               /\ pay'[a] = "REQUESTED"
    BY <1>3 DEF RequestPayout
  <1>4. ASSUME NEW a \in Actors, MarkApproved(a)
        PROVE  /\ \A b \in Actors \ {a} : pay'[b] = pay[b]
               /\ pay'[a] = "APPROVED" /\ UNCHANGED payTo
    BY <1>4 DEF MarkApproved
  <1>5. ASSUME NEW a \in Actors, MarkPaid(a)
        PROVE  /\ \A b \in Actors \ {a} : pay'[b] = pay[b]
               /\ pay'[a] = "PAID" /\ UNCHANGED payTo
    BY <1>5 DEF MarkPaid
  <1>6. ASSUME NEW a \in Actors, OperatorSetsStatus(a)
        PROVE  /\ \A b \in Actors \ {a} : pay'[b] = pay[b]
               /\ pay[a] \in OpenPayoutStatuses
               /\ pay'[a] \in UnsettledStatuses /\ UNCHANGED payTo
    BY <1>6 DEF OperatorSetsStatus, OperatorStatusChange, UnsettledStatuses,
         OpenPayoutStatuses, AwaitingApprovalStatuses, SendableStatuses
  <1>7. ASSUME NEW a \in Actors, OperatorCancelsPayout(a)
        PROVE  /\ \A b \in Actors \ {a} : pay'[b] = pay[b]
               /\ pay'[a] = "CANCELLED" /\ UNCHANGED payTo
    BY <1>7 DEF OperatorCancelsPayout
  <1>8. ASSUME NEW a \in Actors, NEW m \in PayAmounts, OperatorCorrectsPayout(a, m)
        PROVE  /\ \A b \in Actors \ {a} : pay'[b] = pay[b]
               /\ pay'[a] = "REQUESTED" /\ UNCHANGED payTo
    BY <1>8 DEF OperatorCorrectsPayout
  <1> HIDE DEF TypeOK
  <1> QED
    BY <1>1, <1>2, <1>3, <1>4, <1>5, <1>6, <1>7, <1>8, Zenon DEF MoneyStep

-----------------------------------------------------------------------------
(* One lemma per invariant: what keeps it. *)

LEMMA PayoutBackedStep ==
    ASSUME TypeOK, PayoutBacked, Next
    PROVE  PayoutBacked'
  <1> USE DEF PayoutBacked, Approved, WithStatus
  <1>1. CASE MoneyStep
    <2>1. sub' = sub
      BY <1>1, MoneyStepsKeepWork DEF workVars
    <2>2. ASSUME NEW b \in Actors, pay[b] = "NONE", pay'[b] # "NONE"
          PROVE  sub[b] = "APPROVED"
      BY <1>1, <2>2, PayoutStep DEF RequestPayout, MarkApproved, AwaitingApprovalStatuses,
           MarkPaid, SendableStatuses, OperatorSetsStatus, OperatorStatusChange,
           OperatorCancelsPayout, OperatorCorrectsPayout
    <2> QED
      BY <2>1, <2>2
  <1>2. CASE ~MoneyStep
    <2>1. pay' = pay
      BY <1>2, OnlyMoneyStepsMoveMoney DEF Next, moneyVars
    <2>2. ASSUME NEW a \in Actors, ForfeitAward(a) PROVE pay[a] = "NONE"
      BY <2>2 DEF ForfeitAward
    <2>3. \A a \in Approved : pay[a] # "NONE" => a \in Approved'
      BY <2>2, ApprovedStep
    <2> QED
      BY <2>1, <2>3
  <1> QED
    BY <1>1, <1>2

LEMMA OpenImpliesFundedStep ==
    ASSUME TypeOK, OpenImpliesFunded, Next
    PROVE  OpenImpliesFunded'
  <1> USE DEF OpenImpliesFunded, InProgressStatuses, PayableStatuses
  <1>1. CASE MoneyStep
    <2>1. bStatus' = bStatus
      BY <1>1, OnlyBountyStepsMoveBounty DEF bountyVars
    <2>2. ASSUME NEW d \in Deposits, ConfirmDeposit(d) PROVE rw' = "FUNDED"
      BY <2>2 DEF ConfirmDeposit
    <2>3. ASSUME RecordRefund PROVE bStatus = "CANCELLED"
      BY <2>3 DEF RecordRefund
    <2>4. CASE ~RecordRefund /\ \A d \in Deposits : ~ConfirmDeposit(d)
      <3> PICK a \in Actors : \/ \E m \in PayAmounts : RequestPayout(a, m)
                              \/ MarkApproved(a)
                              \/ MarkPaid(a)
                              \/ OperatorSetsStatus(a)
                              \/ OperatorCancelsPayout(a)
                              \/ \E m \in PayAmounts : OperatorCorrectsPayout(a, m)
        BY <1>1, <2>4, Zenon DEF MoneyStep
      <3>1. rw' = rw \/ \E p, m : rw' = AdvancedReward(p, m)
        BY DEF RequestPayout, MarkApproved, MarkPaid, OperatorSetsStatus,
             OperatorCancelsPayout, OperatorCorrectsPayout
      <3> QED
        BY <2>1, <3>1, AdvancedRewardType
    <2> QED
      BY <2>1, <2>2, <2>3, <2>4
  <1>2. CASE ~MoneyStep
    <2>1. rw' = rw
      BY <1>2, OnlyMoneyStepsMoveMoney DEF Next, moneyVars
    <2>2. ASSUME NEW to \in BountyStatuses, Transition(to) PROVE OpenImpliesFunded'
      BY <2>1, <2>2 DEF Transition, TransitionsFrom, Blocked, Unfunded
    <2> QED
      BY <2>1, <2>2, StatusStep
  <1> QED
    BY <1>1, <1>2

LEMMA RewardStagesStep ==
    ASSUME TypeOK, OpenImpliesFunded, RewardStages, Next
    PROVE  RewardStages'
  <1> USE DEF RewardStages, PayableStatuses
  <1>1. bStatus = "CANCELLED" => bStatus' = "CANCELLED"
    BY StatusStep DEF Transition, TransitionsFrom
  <1>2. CASE MoneyStep
    <2>1. Approved' = Approved
      BY <1>2, MoneyStepsKeepWork DEF workVars, Approved, WithStatus
    <2>2. ASSUME NEW d \in Deposits, ConfirmDeposit(d) PROVE RewardStages'
      BY <2>1, <2>2 DEF ConfirmDeposit
    <2>3. ASSUME RecordRefund PROVE RewardStages'
      BY <1>1, <2>1, <2>3 DEF RecordRefund
    <2>4. ASSUME NEW a \in Actors, NEW m \in PayAmounts, RequestPayout(a, m)
          PROVE  RewardStages'
      <3>1. rw \in PayableStatuses /\ rw' = AdvancedReward(pay', payAmount')
        BY <2>4 DEF RequestPayout
      <3>2. rw' \in PayableStatuses
        BY <3>1, AdvancedRewardType
      <3> QED
        BY <3>2
    <2>5. ASSUME NEW a \in Actors,
                 \/ MarkApproved(a) \/ MarkPaid(a) \/ OperatorSetsStatus(a)
                 \/ OperatorCancelsPayout(a)
                 \/ \E m \in PayAmounts : OperatorCorrectsPayout(a, m)
          PROVE  RewardStages'
      <3>1. /\ pay[a] # "NONE"
            /\ rw' = rw \/ \E p, m : rw' = AdvancedReward(p, m)
        BY <2>5 DEF MarkApproved, MarkPaid, OperatorSetsStatus, OperatorStatusChange,
             OperatorCancelsPayout, OperatorCorrectsPayout, AwaitingApprovalStatuses,
             SendableStatuses
      <3>2. rw \in PayableStatuses \union {"REFUNDED"}
        BY <3>1
      <3>3. IF rw = "REFUNDED" THEN rw' = "REFUNDED" ELSE rw' \in PayableStatuses
        BY <3>1, <3>2, AdvancedRewardType
      <3> QED
        BY <1>1, <3>2, <3>3
    <2> QED
      BY <1>2, <2>2, <2>3, <2>4, <2>5 DEF MoneyStep
  <1>3. CASE ~MoneyStep
    <2>1. rw' = rw /\ pay' = pay
      BY <1>3, OnlyMoneyStepsMoveMoney DEF Next, moneyVars
    <2>2. Approved' # {} => rw # "DEPOSIT_PENDING"
      <3>1. ASSUME NEW a \in Actors, ReviewSubmission(a, "APPROVE")
            PROVE  rw # "DEPOSIT_PENDING"
        BY <3>1 DEF ReviewSubmission, OpenImpliesFunded
      <3> QED
        BY <3>1, ApprovedStep
    <2> QED
      BY <1>1, <2>1, <2>2
  <1> QED
    BY <1>2, <1>3

(* A withdrawn account stays withdrawn. *)
LEMMA WithdrawnStep ==
    ASSUME TypeOK, Next, NEW u \in Users, user[u] = "WITHDRAWN"
    PROVE  user'[u] = "WITHDRAWN"
  <1>1. BountyStep => user' = user
    BY DEF BountyStep, Update, Transition, Remove, DeadlinePasses, peopleVars
  <1>2. WorkStep => user' = user
    BY DEF WorkStep, Apply, WithdrawApplication, ReviewApplication, Submit,
         ReviewSubmission, ForfeitAward, peopleVars
  <1>3. PeopleStep => user'[u] = "WITHDRAWN"
    BY DEF PeopleStep, Authenticate, RevokeAgent, VerifyWallet, ReplaceWallet,
         WithdrawAccount, SetSuspended, NftMoves, TypeOK
  <1> QED
    BY <1>1, <1>2, <1>3, MoneyStepsKeepWork DEF Next

(* The heart of the matter: in a finished bounty nothing is enabled that   *)
(* would move it, its work or its payouts.                                 *)
LEMMA FinishedStep ==
    ASSUME TypeOK, ClosedMeansSettled, ClosedHasNoOpenWork, Finished, Next
    PROVE  /\ UNCHANGED <<bStatus, app, sub, pay, payAmount>>
           /\ \/ UNCHANGED <<rw, deposited>>
              \/ rw = "DEPOSIT_PENDING"
              \/ rw' = "REFUNDED"
  <1> USE DEF Finished, FinishedStatuses, InProgressStatuses
  <1>1. CASE BountyStep
    <2>1. UNCHANGED moneyVars
      BY <1>1, OnlyMoneyStepsMoveMoney
    <2>2. \A to : ~Transition(to)
      BY DEF Transition, TransitionsFrom
    <2>3. UNCHANGED <<bStatus, workVars>>
      BY <1>1, <2>2 DEF BountyStep, Update, Remove, DeadlinePasses
    <2> QED
      BY <2>1, <2>3 DEF moneyVars, workVars
  <1>2. CASE WorkStep
    <2>1. \A a \in Actors : app[a] # "PENDING"
      BY DEF ClosedHasNoOpenWork
    <2>2. FALSE
      BY <1>2, <2>1 DEF WorkStep, Apply, WithdrawApplication, ReviewApplication,
           Submit, ReviewSubmission, ForfeitAward
    <2> QED
      BY <2>2
  <1>3. CASE PeopleStep
    <2>1. UNCHANGED <<moneyVars, bountyVars>>
      BY <1>3, OnlyMoneyStepsMoveMoney, OnlyBountyStepsMoveBounty
    <2>2. ASSUME NEW u \in Users, WithdrawAccount(u) PROVE UNCHANGED workVars
      <3>1. \A a \in Actors : app[a] # "PENDING" /\ sub[a] \notin UnresolvedStatuses
        BY DEF ClosedHasNoOpenWork, UnresolvedStatuses, AwaitingReviewStatuses
      <3> QED
        BY <2>2, <3>1 DEF WithdrawAccount, workVars, TypeOK
    <2>3. UNCHANGED workVars
      BY <1>3, <2>2 DEF PeopleStep, Authenticate, RevokeAgent, VerifyWallet,
           ReplaceWallet, SetSuspended, NftMoves
    <2> QED
      BY <2>1, <2>3 DEF moneyVars, workVars, bountyVars
  <1>4. CASE MoneyStep
    <2>1. UNCHANGED <<workVars, bountyVars>>
      BY <1>4, MoneyStepsKeepWork, OnlyBountyStepsMoveBounty
    <2>2. \A a \in Actors : pay[a] \in {"NONE", "PAID", "CANCELLED"}
      BY DEF ClosedMeansSettled
    <2>3. RecordRefund \/ \E d \in Deposits : ConfirmDeposit(d)
      BY <1>4, <2>2 DEF MoneyStep, RequestPayout, MarkApproved, MarkPaid,
           OperatorSetsStatus, OperatorStatusChange, OperatorCancelsPayout,
           OperatorCorrectsPayout, AwaitingApprovalStatuses, SendableStatuses
    <2> QED
      BY <2>1, <2>3 DEF RecordRefund, ConfirmDeposit, workVars, bountyVars
  <1> QED
    BY <1>1, <1>2, <1>3, <1>4 DEF Next

LEMMA ClosedHasNoOpenWorkStep ==
    ASSUME TypeOK, ClosedMeansSettled, ClosedHasNoOpenWork, Next
    PROVE  ClosedHasNoOpenWork'
  <1> USE DEF ClosedHasNoOpenWork
  <1>1. CASE Finished
    BY <1>1, FinishedStep DEF Finished
  <1>2. CASE ~Finished /\ Finished'
    <2> PICK to \in FinishedStatuses : Transition(to)
      BY <1>2, StatusStep DEF Finished, Transition
    <2>1. CASE to = "CANCELLED"
      BY <2>1 DEF Transition, CloseOpenWork, UnresolvedStatuses, AwaitingReviewStatuses,
           TypeOK, SubmissionStatuses
    <2>2. CASE to = "COMPLETED"
      BY <2>2 DEF Transition, Blocked, WithStatus, UnresolvedStatuses,
           AwaitingReviewStatuses, TypeOK, SubmissionStatuses, workVars
    <2> QED
      BY <2>1, <2>2 DEF FinishedStatuses
  <1> QED
    BY <1>1, <1>2

LEMMA HeadroomStep ==
    UNCHANGED <<pay, payAmount, deposited>> => (Headroom' <=> Headroom)
  BY DEF Headroom, Cap, Allocated, WithStatus

LEMMA ClosedMeansSettledStep ==
    ASSUME TypeOK, PayoutBacked, RewardStages, ClosedMeansSettled, ClosedHasNoOpenWork,
           Next
    PROVE  ClosedMeansSettled'
  <1> USE DEF ClosedMeansSettled
  <1>1. CASE Finished
    <2>1. UNCHANGED <<bStatus, sub, pay, payAmount>>
      BY <1>1, FinishedStep
    <2>2. Approved' = Approved
      BY <2>1 DEF Approved, WithStatus
    <2>3. ASSUME NEW a \in Approved, rw' \in PayableStatuses, Requestable(a)',
                 user'[OwnerOf[a]] # "WITHDRAWN"
          PROVE  FALSE
      <3>1. a \in Actors /\ OwnerOf[a] \in Users
        BY ActorsAssumption DEF Approved, WithStatus
      <3>2. user[OwnerOf[a]] # "WITHDRAWN"
        BY <2>3, <3>1, WithdrawnStep
      <3>3. rw # "DEPOSIT_PENDING" /\ rw' # "REFUNDED"
        BY <2>3 DEF RewardStages, PayableStatuses
      <3>4. UNCHANGED <<rw, deposited>>
        BY <1>1, <3>3, FinishedStep
      <3>5. Requestable(a)
        BY <2>1, <2>3, <3>4, HeadroomStep DEF Requestable
      <3> QED
        BY <1>1, <2>3, <3>2, <3>4, <3>5
    <2> QED
      BY <1>1, <2>1, <2>2, <2>3 DEF Finished
  <1>2. CASE ~Finished /\ Finished'
    <2> PICK to \in FinishedStatuses : Transition(to)
      BY <1>2, StatusStep DEF Finished, Transition
    <2>1. ~UnpaidWinners /\ bStatus # "CANCELLED"
      BY <1>2 DEF Transition, Blocked, FinishedStatuses, Finished
    <2>2. UNCHANGED moneyVars /\ UNCHANGED peopleVars
      BY DEF Transition
    <2>3. Approved' = Approved
      BY DEF Transition, CloseOpenWork, Approved, WithStatus, UnresolvedStatuses,
           AwaitingReviewStatuses, TypeOK, workVars
    <2>4. ASSUME NEW a \in Actors PROVE pay[a] \in {"NONE", "PAID", "CANCELLED"}
      <3>1. pay[a] \notin OpenPayoutStatuses
        BY <2>1 DEF UnpaidWinners, WithStatus
      <3>2. pay[a] # "FAILED"
        <4> SUFFICES ASSUME pay[a] = "FAILED" PROVE FALSE
          OBVIOUS
        <4>1. a \in Approved
          BY DEF PayoutBacked, Approved, WithStatus
        <4>2. rw \in PayableStatuses
          BY <2>1 DEF RewardStages
        <4>3. Owes(a)
          BY <4>2 DEF Owes, AllocatedStatuses
        <4> QED
          BY <2>1, <4>1, <4>3 DEF UnpaidWinners
      <3> QED
        BY <3>1, <3>2 DEF TypeOK, PayoutStatuses, OpenPayoutStatuses,
             AwaitingApprovalStatuses, SendableStatuses
    <2>5. ASSUME NEW a \in Approved
          PROVE  ~(rw \in PayableStatuses /\ Requestable(a)
                    /\ user[OwnerOf[a]] # "WITHDRAWN")
      <3>1. ~Owes(a)
        BY <2>1 DEF UnpaidWinners
      <3> QED
        BY <3>1 DEF Owes, Requestable
    <2>6. \A a : Requestable(a)' <=> Requestable(a)
      BY <2>2, HeadroomStep DEF Requestable, moneyVars
    <2> QED
      BY <2>2, <2>3, <2>4, <2>5, <2>6 DEF moneyVars, peopleVars
  <1> QED
    BY <1>1, <1>2

LEMMA PayoutHasWalletStep ==
    ASSUME TypeOK, PayoutHasWallet, Next
    PROVE  PayoutHasWallet'
  <1> USE DEF PayoutHasWallet
  <1>1. CASE MoneyStep
    <2>1. ASSUME NEW a \in Actors, NEW m \in PayAmounts, RequestPayout(a, m)
          PROVE  payTo'[a] # 0
      BY <2>1 DEF RequestPayout, TypeOK
    <2>2. ASSUME NEW a \in Actors,
                 \/ MarkApproved(a) \/ MarkPaid(a) \/ OperatorSetsStatus(a)
                 \/ OperatorCancelsPayout(a)
                 \/ \E m \in PayAmounts : OperatorCorrectsPayout(a, m)
          PROVE  pay[a] # "NONE"
      BY <2>2 DEF MarkApproved, MarkPaid, OperatorSetsStatus, OperatorStatusChange,
           OperatorCancelsPayout, OperatorCorrectsPayout, AwaitingApprovalStatuses,
           SendableStatuses
    <2> QED
      BY <1>1, <2>1, <2>2, PayoutStep
  <1>2. CASE ~MoneyStep
    BY <1>2, OnlyMoneyStepsMoveMoney DEF Next, moneyVars
  <1> QED
    BY <1>1, <1>2

(* NFTs are queued for good, and those of accounts before those of awards. *)
LEMMA NftStep ==
    ASSUME TypeOK, ParentNftsQueued, CompletionHasParent, Next
    PROVE  ParentNftsQueued' /\ CompletionHasParent'
  <1> USE ActorsAssumption DEF ParentNftsQueued, CompletionHasParent, TypeOK
  <1>1. CASE BountyStep \/ WorkStep
    <2>1. UNCHANGED <<pay, wallet, nft>>
      BY <1>1 DEF BountyStep, Update, Transition, Remove, DeadlinePasses, WorkStep,
           Apply, WithdrawApplication, ReviewApplication, Submit, ReviewSubmission,
           ForfeitAward, moneyVars, peopleVars
    <2> QED
      BY <2>1
  <1>2. CASE MoneyStep
    <2>1. CASE UNCHANGED <<pay, wallet, nft>>
      BY <2>1
    <2>2. ASSUME NEW a \in Actors, NEW m \in PayAmounts, RequestPayout(a, m)
          PROVE  ParentNftsQueued' /\ CompletionHasParent'
      BY <2>2 DEF RequestPayout, peopleVars
    <2>3. ASSUME NEW a \in Actors, MarkPaid(a)
          PROVE  ParentNftsQueued' /\ CompletionHasParent'
      BY <2>3 DEF MarkPaid, SendableStatuses
    <2>4. ASSUME NEW a \in Actors,
                 \/ MarkApproved(a) \/ OperatorSetsStatus(a) \/ OperatorCancelsPayout(a)
                 \/ \E m \in PayAmounts : OperatorCorrectsPayout(a, m)
          PROVE  /\ pay[a] # "NONE" /\ UNCHANGED <<wallet, nft>>
                 /\ \A b \in Actors \ {a} : pay'[b] = pay[b]
      BY <2>4 DEF MarkApproved, OperatorSetsStatus, OperatorStatusChange,
           OperatorCancelsPayout, OperatorCorrectsPayout, AwaitingApprovalStatuses,
           SendableStatuses, peopleVars
    <2>5. (\E d \in Deposits : ConfirmDeposit(d)) \/ RecordRefund => UNCHANGED <<pay, wallet, nft>>
      BY DEF ConfirmDeposit, RecordRefund, peopleVars
    <2> QED
      BY <1>2, <2>1, <2>2, <2>3, <2>4, <2>5 DEF MoneyStep
  <1>3. CASE PeopleStep
    <2>1. pay' = pay
      BY <1>3 DEF PeopleStep, Authenticate, RevokeAgent, VerifyWallet, ReplaceWallet,
           WithdrawAccount, SetSuspended, NftMoves, moneyVars
    <2>2. \A x \in Actors \union Users : nft[x] # "NONE" => nft'[x] # "NONE"
      BY <1>3 DEF PeopleStep, Authenticate, RevokeAgent, VerifyWallet, ReplaceWallet,
           WithdrawAccount, SetSuspended, NftMoves
    <2>3. \A a \in Actors : nft'[a] # "NONE" => nft[a] # "NONE"
      BY <1>3 DEF PeopleStep, Authenticate, RevokeAgent, VerifyWallet, ReplaceWallet,
           WithdrawAccount, SetSuspended, NftMoves
    <2>4. \A u \in Users : wallet'[u] # 0 => wallet[u] # 0 \/ nft'[u] # "NONE"
      BY <1>3 DEF PeopleStep, Authenticate, RevokeAgent, VerifyWallet, ReplaceWallet,
           WithdrawAccount, SetSuspended, NftMoves
    <2> QED
      BY <2>1, <2>2, <2>3, <2>4
  <1> QED
    BY <1>1, <1>2, <1>3 DEF Next

LEMMA UnsettledPayoutFollowsWalletStep ==
    ASSUME TypeOK, PayoutHasWallet, UnsettledPayoutFollowsWallet, Next
    PROVE  UnsettledPayoutFollowsWallet'
  <1> USE DEF UnsettledPayoutFollowsWallet, UnsettledStatuses, OpenPayoutStatuses,
              AwaitingApprovalStatuses, SendableStatuses
  <1>1. CASE MoneyStep
    <2>1. UNCHANGED <<user, wallet>>
      BY <1>1, MoneyStepsKeepWork
    <2>2. CASE UNCHANGED <<pay, payTo>>
      BY <2>1, <2>2
    <2>3. ASSUME NEW a \in Actors, NEW m \in PayAmounts, RequestPayout(a, m)
          PROVE  user[OwnerOf[a]] # "WITHDRAWN" /\ payTo'[a] = wallet[OwnerOf[a]]
      BY <2>3 DEF RequestPayout, TypeOK
    <2>4. ASSUME NEW a \in Actors,
                 \/ MarkApproved(a)
                 \/ OperatorSetsStatus(a)
                 \/ \E m \in PayAmounts : OperatorCorrectsPayout(a, m)
          PROVE  pay[a] \in OpenPayoutStatuses
      BY <2>4 DEF MarkApproved, OperatorSetsStatus, OperatorStatusChange,
           OperatorCorrectsPayout
    <2>5. ASSUME NEW a \in Actors,
                 \A b \in Actors \ {a} : pay'[b] = pay[b] /\ payTo'[b] = payTo[b],
                 \/ \E m \in PayAmounts : RequestPayout(a, m) /\ pay'[a] = "REQUESTED"
                 \/ UNCHANGED payTo /\ pay'[a] \in {"PAID", "CANCELLED"}
                 \/ UNCHANGED payTo /\ pay[a] \in OpenPayoutStatuses
                      /\ pay'[a] \in UnsettledStatuses
          PROVE  UnsettledPayoutFollowsWallet'
      BY <2>1, <2>3, <2>5
    <2> QED
      BY <1>1, <2>2, <2>4, <2>5, PayoutStep
  <1>2. CASE BountyStep \/ WorkStep
    <2>1. UNCHANGED <<pay, payTo>>
      BY <1>2, OnlyMoneyStepsMoveMoney DEF moneyVars
    <2>2. BountyStep => UNCHANGED <<user, wallet>>
      BY DEF BountyStep, Update, Transition, Remove, DeadlinePasses, peopleVars
    <2>3. WorkStep => UNCHANGED <<user, wallet>>
      BY DEF WorkStep, Apply, WithdrawApplication, ReviewApplication, Submit,
           ReviewSubmission, ForfeitAward, peopleVars
    <2> QED
      BY <1>2, <2>1, <2>2, <2>3
  <1>3. CASE PeopleStep
    <2>1. UNCHANGED <<pay, payTo>>
      BY <1>3, OnlyMoneyStepsMoveMoney DEF moneyVars
    <2>2. ASSUME NEW u \in Users, VerifyWallet(u) PROVE UnsettledPayoutFollowsWallet'
      <3>1. /\ wallet[u] = 0 /\ user[u] = "ACTIVE" /\ user' = user
            /\ \A v \in Users \ {u} : wallet'[v] = wallet[v]
        BY <2>2 DEF VerifyWallet, TypeOK
      <3>2. \A a \in Actors : OwnerOf[a] = u => pay[a] \notin UnsettledStatuses
        BY <3>1 DEF PayoutHasWallet
      <3> QED
        BY <2>1, <3>1, <3>2, ActorsAssumption
    <2>3. ASSUME NEW u \in Users, ReplaceWallet(u) PROVE UnsettledPayoutFollowsWallet'
      <3>1. \A a \in Actors : OwnerOf[a] = u => pay[a] \notin UnsettledStatuses
        BY <2>3 DEF ReplaceWallet, OwnActors
      <3>2. user' = user /\ \A v \in Users \ {u} : wallet'[v] = wallet[v]
        BY <2>3 DEF ReplaceWallet, TypeOK
      <3> QED
        BY <2>1, <3>1, <3>2, ActorsAssumption
    <2>4. ASSUME NEW u \in Users, WithdrawAccount(u) PROVE UnsettledPayoutFollowsWallet'
      <3>1. \A a \in Actors : OwnerOf[a] = u =>
              pay[a] \in {"NONE", "PAID", "CANCELLED", "FAILED"}
        BY <2>4 DEF WithdrawAccount, OwnActors, TerminalPayoutStatuses
      <3>2. /\ user'[u] = "WITHDRAWN"
            /\ \A v \in Users \ {u} : wallet'[v] = wallet[v] /\ user'[v] = user[v]
        BY <2>4 DEF WithdrawAccount, TypeOK
      <3> QED
        BY <2>1, <3>1, <3>2, ActorsAssumption
    <2>5. ASSUME NEW u \in Users, SetSuspended(u) PROVE UnsettledPayoutFollowsWallet'
      <3>1. /\ wallet' = wallet
            /\ \A v \in Users : (user'[v] = "WITHDRAWN") <=> (user[v] = "WITHDRAWN")
        BY <2>5 DEF SetSuspended, TypeOK
      <3> QED
        BY <2>1, <3>1, ActorsAssumption
    <2>6. CASE UNCHANGED <<user, wallet>>
      BY <2>1, <2>6
    <2> QED
      BY <1>3, <2>2, <2>3, <2>4, <2>5, <2>6
      DEF PeopleStep, Authenticate, RevokeAgent, NftMoves
  <1> QED
    BY <1>1, <1>2, <1>3 DEF Next

(* What a recomputed reward status says of the payouts it was computed of. *)
LEMMA AdvancedRewardAgrees ==
    ASSUME NEW payouts, NEW amounts, rw \in PayableStatuses,
           NEW r, r = AdvancedReward(payouts, amounts)
    PROVE  /\ WithStatus(payouts, {"PAID"}) = {} => r = rw
           /\ WithStatus(payouts, {"PAID"}) # {} =>
                /\ r \in {"PARTIALLY_PAID", "PAID"}
                /\ r = "PAID" => WithStatus(payouts, UnsettledStatuses) = {}
  BY DEF AdvancedReward

LEMMA RewardStatusAgreesStep ==
    ASSUME TypeOK, RewardStages, RewardStages', RewardStatusAgrees, TypeOK', Next
    PROVE  RewardStatusAgrees'
  <1> USE DEF RewardStatusAgrees
  <1>1. CASE ~MoneyStep
    BY <1>1, OnlyMoneyStepsMoveMoney DEF Next, moneyVars
  <1>2. ASSUME NEW d \in Deposits, ConfirmDeposit(d) PROVE RewardStatusAgrees'
    BY <1>2 DEF ConfirmDeposit
  <1>3. CASE RecordRefund
    BY <1>3 DEF RecordRefund
  (* The actions that recompute the reward: whatever they do to the status *)
  (* of payout a, a paid one does not lose that status.                    *)
  <1>4. ASSUME NEW a \in Actors, NEW amounts,
               \A b \in Actors : pay[b] = "PAID" => pay'[b] = "PAID",
               rw \in PayableStatuses, rw' = AdvancedReward(pay', amounts)
        PROVE  RewardStatusAgrees'
    <2>1. CASE WithStatus(pay', {"PAID"}) = {}
      <3>1. rw' = rw
        BY <1>4, <2>1, AdvancedRewardAgrees
      <3>2. \A b \in Actors : pay'[b] # "PAID" /\ pay[b] # "PAID"
        BY <1>4, <2>1 DEF WithStatus
      <3> QED
        BY <3>1, <3>2
    <2>2. CASE WithStatus(pay', {"PAID"}) # {}
      <3>1. rw' \in {"PARTIALLY_PAID", "PAID"}
        BY <1>4, <2>2, AdvancedRewardAgrees
      <3>2. rw' = "PAID" => \A b \in Actors : pay'[b] \notin UnsettledStatuses
        BY <1>4, <2>2, AdvancedRewardAgrees DEF WithStatus
      <3>3. \A b \in Actors : pay'[b] \notin UnsettledStatuses =>
                                pay'[b] \in {"NONE", "PAID", "CANCELLED"}
        BY DEF TypeOK, PayoutStatuses, UnsettledStatuses, OpenPayoutStatuses,
             AwaitingApprovalStatuses, SendableStatuses
      <3>4. \E b \in Actors : pay'[b] = "PAID"
        BY <2>2 DEF WithStatus
      <3> QED
        BY <3>1, <3>2, <3>3, <3>4
    <2> QED
      BY <2>1, <2>2
  <1>5. ASSUME NEW a \in Actors, NEW m \in PayAmounts, RequestPayout(a, m)
        PROVE  RewardStatusAgrees'
    <2>1. rw \in PayableStatuses /\ rw' = AdvancedReward(pay', payAmount')
      BY <1>5 DEF RequestPayout
    <2>2. \A b \in Actors : pay[b] = "PAID" => pay'[b] = "PAID"
      BY <1>5 DEF RequestPayout, TypeOK
    <2> QED
      BY <1>4, <2>1, <2>2
  <1>6. ASSUME NEW a \in Actors, MarkPaid(a) \/ OperatorCancelsPayout(a)
        PROVE  RewardStatusAgrees'
    <2>1. pay[a] # "NONE" /\ rw' = AdvancedReward(pay', payAmount)
      BY <1>6 DEF MarkPaid, OperatorCancelsPayout, AwaitingApprovalStatuses,
           SendableStatuses
    <2>2. \A b \in Actors : pay[b] = "PAID" => pay'[b] = "PAID"
      BY <1>6 DEF MarkPaid, OperatorCancelsPayout, AwaitingApprovalStatuses, TypeOK
    <2>3. CASE rw \in PayableStatuses
      BY <1>4, <2>1, <2>2, <2>3
    <2>4. CASE rw = "REFUNDED"
      <3>1. rw' = "REFUNDED"
        BY <2>1, <2>4, AdvancedRewardType DEF PayableStatuses
      <3> QED
        BY <3>1
    <2> QED
      BY <2>1, <2>3, <2>4 DEF RewardStages
  (* The others move an open payout and leave the reward alone.            *)
  <1>7. ASSUME NEW a \in Actors,
               \/ MarkApproved(a)
               \/ OperatorSetsStatus(a)
               \/ \E m \in PayAmounts : OperatorCorrectsPayout(a, m)
        PROVE  RewardStatusAgrees'
    <2>1. /\ rw' = rw
          /\ pay[a] \in {"REQUESTED", "AWAITING_MULTISIG_APPROVAL", "APPROVED",
                         "BROADCASTING"}
          /\ pay'[a] # "PAID"
          /\ \A b \in Actors \ {a} : pay'[b] = pay[b]
      BY <1>7 DEF MarkApproved, OperatorSetsStatus, OperatorStatusChange,
           OperatorCorrectsPayout, AwaitingApprovalStatuses, TypeOK
    <2>2. rw # "PAID"
      BY <2>1
    <2> QED
      BY <2>1, <2>2
  <1> QED
    BY <1>1, <1>2, <1>3, <1>5, <1>6, <1>7, Zenon DEF MoneyStep

-----------------------------------------------------------------------------
(* The invariants of BountyFlow, together. *)

LEMMA SafetyStep == SafetyInv /\ [Next]_vars => SafetyInv'
  <1> SUFFICES ASSUME SafetyInv, [Next]_vars PROVE SafetyInv'
    OBVIOUS
  <1> USE DEF SafetyInv
  <1>1. CASE Next
    <2>1. TypeOK'
      BY <1>1, TypeStep
    <2>2. WinnersBounded' /\ PayoutBacked' /\ OpenImpliesFunded'
      BY <1>1, WinnersStep, PayoutBackedStep, OpenImpliesFundedStep
    <2>3. RewardStages'
      BY <1>1, RewardStagesStep
    <2>4. ClosedMeansSettled' /\ ClosedHasNoOpenWork'
      BY <1>1, ClosedMeansSettledStep, ClosedHasNoOpenWorkStep
    <2>5. PayoutHasWallet' /\ UnsettledPayoutFollowsWallet'
      BY <1>1, PayoutHasWalletStep, UnsettledPayoutFollowsWalletStep
    <2>6. RewardStatusAgrees'
      BY <1>1, <2>1, <2>3, RewardStatusAgreesStep
    <2>7. ParentNftsQueued' /\ CompletionHasParent'
      BY <1>1, NftStep
    <2> QED
      BY <2>1, <2>2, <2>3, <2>4, <2>5, <2>6, <2>7
  <1>2. CASE UNCHANGED vars
    <2> USE <1>2 DEF vars, bountyVars, workVars, moneyVars, peopleVars
    <2>1. TypeOK'
      BY TypeStep
    <2>2. Approved' = Approved
      BY DEF Approved, WithStatus
    <2>3. WinnersBounded' /\ PayoutBacked' /\ OpenImpliesFunded' /\ RewardStages'
      BY <2>2 DEF WinnersBounded, PayoutBacked, OpenImpliesFunded, RewardStages
    <2>4. \A a : Requestable(a)' <=> Requestable(a)
      BY HeadroomStep DEF Requestable
    <2>5. ClosedMeansSettled' /\ ClosedHasNoOpenWork'
      BY <2>2, <2>4 DEF ClosedMeansSettled, ClosedHasNoOpenWork, Finished
    <2>6. PayoutHasWallet' /\ UnsettledPayoutFollowsWallet' /\ RewardStatusAgrees'
      BY DEF PayoutHasWallet, UnsettledPayoutFollowsWallet, RewardStatusAgrees
    <2>7. ParentNftsQueued' /\ CompletionHasParent'
      BY DEF ParentNftsQueued, CompletionHasParent
    <2> QED
      BY <2>1, <2>3, <2>5, <2>6, <2>7
  <1> QED
    BY <1>1, <1>2

LEMMA SafetyAlways == Spec => []SafetyInv
  BY SafetyInit, SafetyStep, PTL DEF Spec

(* Approvals, new terms and forfeits in any order leave at most maxWinners *)
(* approved submissions.                                                   *)
THEOREM WinnersAreBounded == Spec => []WinnersBounded
  <1>1. SafetyInv => WinnersBounded
    BY DEF SafetyInv
  <1> QED
    BY <1>1, SafetyAlways, PTL

(* Nothing takes an award back once a payout was requested for it. *)
THEOREM PayoutsAreBacked == Spec => []PayoutBacked
  <1>1. SafetyInv => PayoutBacked
    BY DEF SafetyInv
  <1> QED
    BY <1>1, SafetyAlways, PTL

(* No bounty is in progress while the deposit of its reward is awaited. *)
THEOREM OpenBountiesAreFunded == Spec => []OpenImpliesFunded
  <1>1. SafetyInv => OpenImpliesFunded
    BY DEF SafetyInv
  <1> QED
    BY <1>1, SafetyAlways, PTL

(* A finished bounty has no payout that can move and no winner to pay. *)
THEOREM ClosedBountiesAreSettled == Spec => []ClosedMeansSettled
  <1>1. SafetyInv => ClosedMeansSettled
    BY DEF SafetyInv
  <1> QED
    BY <1>1, SafetyAlways, PTL

(* A finished bounty has no application or submission without a decision. *)
THEOREM ClosedBountiesHaveNoOpenWork == Spec => []ClosedHasNoOpenWork
  <1>1. SafetyInv => ClosedHasNoOpenWork
    BY DEF SafetyInv
  <1> QED
    BY <1>1, SafetyAlways, PTL

(* The owner of an unsettled payout still has the wallet it goes to. *)
THEOREM PayoutsFollowWallets == Spec => []UnsettledPayoutFollowsWallet
  <1>1. SafetyInv => UnsettledPayoutFollowsWallet
    BY DEF SafetyInv
  <1> QED
    BY <1>1, SafetyAlways, PTL

(* The status of the reward agrees with the payouts made of it. *)
THEOREM RewardStatusesAgree == Spec => []RewardStatusAgrees
  <1>1. SafetyInv => RewardStatusAgrees
    BY DEF SafetyInv
  <1> QED
    BY <1>1, SafetyAlways, PTL

(* Whenever a completion NFT exists, so does the parent of its owner. *)
THEOREM CompletionNftsHaveParents == Spec => []CompletionHasParent
  <1>1. SafetyInv => CompletionHasParent
    BY DEF SafetyInv
  <1> QED
    BY <1>1, SafetyAlways, PTL

(* The status, the work and the payouts of a finished bounty never change. *)
THEOREM ClosedBountiesAreFinal == Spec => ClosedIsFinal
  <1>1. SafetyInv /\ [Next]_vars =>
          [Finished => UNCHANGED <<bStatus, app, sub, pay>>]_vars
    BY FinishedStep DEF SafetyInv
  <1> QED
    BY <1>1, SafetyAlways, PTL DEF Spec, ClosedIsFinal

-----------------------------------------------------------------------------
(* The money.  That payouts stay within the cap needs that a row without a *)
(* payout has no amount; that nothing is left behind needs what a reward   *)
(* was paid at every stage, and that a deletion found nothing to settle.   *)

AmountsOfPayouts ==
    \A a \in Actors : payAmount[a] \in (IF pay[a] = "NONE" THEN {0} ELSE PayAmounts)

DepositStages ==
    /\ deposited = 0 <=> rw \in {"NONE", "DEPOSIT_PENDING"}
    /\ deposited # 0 => deposited >= Amount

RefundStages == refunded = IF rw = "REFUNDED" THEN deposited - Paid ELSE 0

DeletedIsSettled ==
    deleted => /\ WithStatus(pay, OpenPayoutStatuses) = {}
               /\ rw \in PayableStatuses => deposited = Paid

MoneyInv ==
    /\ AmountsOfPayouts
    /\ PayoutsWithinCap
    /\ DepositStages
    /\ RefundStages
    /\ DeletedIsSettled

Kept == {a \in Actors : pay[a] # "CANCELLED"}

LEMMA AmountsAreNatural ==
    ASSUME TypeOK
    PROVE  /\ \A a \in Actors : payAmount[a] \in Nat
           /\ deposited \in Nat /\ Cap \in Nat /\ Cap =< Amount /\ Cap =< deposited
           /\ \A S \in SUBSET Actors : IsFiniteSet(S) /\ SumOver(S, payAmount) \in Nat
           /\ Paid \in Nat /\ Allocated \in Nat
  <1>1. \A a \in Actors : payAmount[a] \in Nat
    <2>1. payAmount \in [Actors -> PayAmounts \union {0}]
      BY DEF TypeOK
    <2>2. PayAmounts \union {0} \subseteq Nat
      BY AmountsAssumption
    <2> QED
      BY <2>1, <2>2
  <1>2. deposited \in Nat /\ Cap \in Nat /\ Cap =< Amount /\ Cap =< deposited
    BY AmountsAssumption DEF TypeOK, Cap
  <1>3. \A S \in SUBSET Actors : IsFiniteSet(S) /\ SumOver(S, payAmount) \in Nat
    BY <1>1, ActorsAssumption, FS_Subset, SumIsNatural
  <1>4. \A statuses : WithStatus(pay, statuses) \in SUBSET Actors
    BY DEF WithStatus
  <1>5. Paid \in Nat /\ Allocated \in Nat
    BY <1>3, <1>4 DEF Paid, Allocated
  <1> QED
    BY <1>1, <1>2, <1>3, <1>5

(* A row that keeps its share is allocated, and what was paid is part of it. *)
LEMMA AllocatedIsKept ==
    ASSUME TypeOK, AmountsOfPayouts
    PROVE  SumOver(Kept, payAmount) = Allocated /\ Paid =< Allocated
  <1> DEFINE S == WithStatus(pay, AllocatedStatuses)
             T == WithStatus(pay, {"PAID"})
  <1>1. S \in SUBSET Kept /\ T \in SUBSET S /\ Kept \in SUBSET Actors
    BY DEF WithStatus, Kept, AllocatedStatuses, OpenPayoutStatuses,
         AwaitingApprovalStatuses, SendableStatuses
  <1>2. \A a \in Kept \ S : payAmount[a] = 0
    BY DEF WithStatus, Kept, AllocatedStatuses, OpenPayoutStatuses, TypeOK, PayoutStatuses,
         AwaitingApprovalStatuses, SendableStatuses, AmountsOfPayouts
  <1>3. IsFiniteSet(S) /\ IsFiniteSet(Kept) /\ \A a \in Kept : payAmount[a] \in Nat
    BY <1>1, AmountsAreNatural
  <1>4. \A a \in S : payAmount[a] \in Nat
    BY <1>1, <1>3
  <1> HIDE DEF S, T
  <1>5. SumOver(S, payAmount) = SumOver(Kept, payAmount)
    BY <1>1, <1>2, <1>3, SumOfSupport
  <1>6. SumOver(T, payAmount) =< SumOver(S, payAmount)
    BY <1>1, <1>3, <1>4, SumOfSubset
  <1> QED
    BY <1>5, <1>6 DEF Allocated, Paid, S, T

LEMMA MoneyInit == Init => MoneyInv
  <1> SUFFICES ASSUME Init PROVE MoneyInv
    OBVIOUS
  <1>1. TypeOK
    BY TypeInit
  <1>2. AmountsOfPayouts /\ DepositStages /\ deleted = FALSE /\ rw # "REFUNDED" /\ refunded = 0
    BY DEF Init, AmountsOfPayouts, DepositStages
  <1>3. Allocated = 0
    <2>1. WithStatus(pay, AllocatedStatuses) = {}
      BY DEF Init, WithStatus, AllocatedStatuses, OpenPayoutStatuses,
           AwaitingApprovalStatuses, SendableStatuses
    <2> QED
      BY <2>1, SumOfNone DEF Allocated
  <1>4. PayoutsWithinCap
    BY <1>1, <1>2, <1>3, AllocatedIsKept, AmountsAreNatural DEF PayoutsWithinCap, Kept
  <1> QED
    BY <1>2, <1>4 DEF MoneyInv, RefundStages, DeletedIsSettled

(* What is paid grows by the amount of a payout that is marked so.         *)
LEMMA PaidStep ==
    ASSUME TypeOK, TypeOK', Next
    PROVE  \/ Paid' = Paid /\ \A a \in Actors : ~MarkPaid(a)
           \/ \E a \in Actors : MarkPaid(a) /\ Paid' = payAmount[a] + Paid
  <1> DEFINE T == WithStatus(pay, {"PAID"})
  <1>1. T \in SUBSET Actors /\ IsFiniteSet(T) /\ \A b \in Actors : payAmount[b] \in Nat
    BY AmountsAreNatural DEF WithStatus
  <1>2. ASSUME WithStatus(pay', {"PAID"}) = T, \A b \in T : payAmount'[b] = payAmount[b]
        PROVE  Paid' = Paid
    <2>1. Paid' = SumOver(T, payAmount')
      BY <1>2 DEF Paid, WithStatus
    <2> HIDE DEF T
    <2>2. SumOver(T, payAmount') = SumOver(T, payAmount)
      BY <1>1, <1>2, SumOfEqual
    <2> QED
      BY <2>1, <2>2 DEF Paid, T
  <1>3. ASSUME NEW a \in Actors, MarkPaid(a)
        PROVE  Paid' = payAmount[a] + Paid
    <2>1. a \notin T /\ WithStatus(pay', {"PAID"}) = T \union {a} /\ payAmount' = payAmount
      BY <1>3 DEF MarkPaid, WithStatus, SendableStatuses, TypeOK
    <2>2. Paid' = SumOver(T \union {a}, payAmount)
      BY <2>1 DEF Paid, WithStatus
    <2> HIDE DEF T
    <2>3. SumOver(T \union {a}, payAmount) = payAmount[a] + SumOver(T, payAmount)
      BY <1>1, <2>1, SumWith
    <2> QED
      BY <2>2, <2>3 DEF Paid, T
  <1>4. CASE ~MoneyStep
    <2>1. pay' = pay /\ payAmount' = payAmount
      BY <1>4, OnlyMoneyStepsMoveMoney DEF Next, moneyVars
    <2>2. ASSUME NEW a \in Actors, MarkPaid(a) PROVE FALSE
      BY <1>4, <2>2, Zenon DEF MoneyStep
    <2> QED
      BY <1>2, <2>1, <2>2
  <1>5. CASE \A a \in Actors : ~MarkPaid(a)
    <2>1. ASSUME MoneyStep
          PROVE  /\ WithStatus(pay', {"PAID"}) = T
                 /\ \A b \in T : payAmount'[b] = payAmount[b]
      <3>1. ASSUME NEW d \in Deposits, ConfirmDeposit(d)
            PROVE  pay' = pay /\ payAmount' = payAmount
        BY <3>1 DEF ConfirmDeposit
      <3>2. RecordRefund => pay' = pay /\ payAmount' = payAmount
        BY DEF RecordRefund
      <3>3. ASSUME NEW a \in Actors, NEW m \in PayAmounts, RequestPayout(a, m)
            PROVE  /\ pay[a] # "PAID" /\ pay'[a] # "PAID"
                   /\ \A b \in Actors \ {a} : pay'[b] = pay[b] /\ payAmount'[b] = payAmount[b]
        BY <3>3 DEF RequestPayout, TypeOK
      <3>4. ASSUME NEW a \in Actors, NEW m \in PayAmounts, OperatorCorrectsPayout(a, m)
            PROVE  /\ pay[a] # "PAID" /\ pay'[a] # "PAID"
                   /\ \A b \in Actors \ {a} : pay'[b] = pay[b] /\ payAmount'[b] = payAmount[b]
        BY <3>4 DEF OperatorCorrectsPayout, AwaitingApprovalStatuses, TypeOK
      <3>5. ASSUME NEW a \in Actors,
                   MarkApproved(a) \/ OperatorSetsStatus(a) \/ OperatorCancelsPayout(a)
            PROVE  /\ pay[a] # "PAID" /\ pay'[a] # "PAID"
                   /\ \A b \in Actors \ {a} : pay'[b] = pay[b] /\ payAmount'[b] = payAmount[b]
        BY <3>5 DEF MarkApproved, OperatorSetsStatus, OperatorStatusChange,
             OperatorCancelsPayout, AwaitingApprovalStatuses, TypeOK
      <3>6. ASSUME NEW a \in Actors, pay[a] # "PAID", pay'[a] # "PAID",
                   \A b \in Actors \ {a} : pay'[b] = pay[b] /\ payAmount'[b] = payAmount[b]
            PROVE  /\ WithStatus(pay', {"PAID"}) = T
                   /\ \A b \in T : payAmount'[b] = payAmount[b]
        BY <3>6 DEF WithStatus
      <3>7. CASE pay' = pay /\ payAmount' = payAmount
        BY <3>7 DEF WithStatus
      <3> HIDE DEF T
      <3> QED
        BY <1>5, <2>1, <3>1, <3>2, <3>3, <3>4, <3>5, <3>6, <3>7, Zenon DEF MoneyStep
    <2> QED
      BY <1>2, <1>4, <1>5, <2>1
  <1> QED
    BY <1>3, <1>4, <1>5

(* A step of the money moves one payout at most; what it may move it to,   *)
(* and which amount a new or corrected one may have.                       *)
LEMMA AmountStep ==
    ASSUME TypeOK, MoneyStep
    PROVE  \/ UNCHANGED <<pay, payAmount>>
           \/ \E a \in Actors :
                /\ \A b \in Actors \ {a} : pay'[b] = pay[b] /\ payAmount'[b] = payAmount[b]
                /\ pay'[a] # "NONE"
                /\ UNCHANGED deposited
                /\ \/ /\ pay[a] = "NONE" /\ ~deleted /\ bStatus \in InProgressStatuses
                      /\ pay'[a] = "REQUESTED" /\ payAmount'[a] \in PayAmounts
                      /\ Allocated + payAmount'[a] =< Cap
                   \/ /\ pay[a] \in OpenPayoutStatuses
                      /\ pay'[a] = "REQUESTED" /\ payAmount'[a] \in PayAmounts
                      /\ Allocated - payAmount[a] + payAmount'[a] =< Cap
                   \/ /\ pay[a] \in OpenPayoutStatuses \/ (pay[a] = "FAILED" /\ pay'[a] = "CANCELLED")
                      /\ payAmount'[a] = payAmount[a]
  <1> USE DEF OpenPayoutStatuses, AwaitingApprovalStatuses, SendableStatuses
  <1>1. ASSUME NEW d \in Deposits, ConfirmDeposit(d) PROVE UNCHANGED <<pay, payAmount>>
    BY <1>1 DEF ConfirmDeposit
  <1>2. ASSUME RecordRefund PROVE UNCHANGED <<pay, payAmount>>
    BY <1>2 DEF RecordRefund
  <1>3. ASSUME NEW a \in Actors, NEW m \in PayAmounts, RequestPayout(a, m)
        PROVE  /\ \A b \in Actors \ {a} : pay'[b] = pay[b] /\ payAmount'[b] = payAmount[b]
               /\ pay[a] = "NONE" /\ ~deleted /\ bStatus \in InProgressStatuses
               /\ pay'[a] = "REQUESTED" /\ payAmount'[a] = m /\ UNCHANGED deposited
               /\ Allocated + payAmount'[a] =< Cap
    BY <1>3 DEF RequestPayout, TypeOK
  <1>4. ASSUME NEW a \in Actors, NEW m \in PayAmounts, OperatorCorrectsPayout(a, m)
        PROVE  /\ \A b \in Actors \ {a} : pay'[b] = pay[b] /\ payAmount'[b] = payAmount[b]
               /\ pay[a] \in OpenPayoutStatuses
               /\ pay'[a] = "REQUESTED" /\ payAmount'[a] = m /\ UNCHANGED deposited
               /\ Allocated - payAmount[a] + payAmount'[a] =< Cap
    BY <1>4 DEF OperatorCorrectsPayout, TypeOK
  <1>5. ASSUME NEW a \in Actors,
               MarkApproved(a) \/ MarkPaid(a) \/ OperatorSetsStatus(a) \/ OperatorCancelsPayout(a)
        PROVE  /\ \A b \in Actors \ {a} : pay'[b] = pay[b] /\ payAmount'[b] = payAmount[b]
               /\ pay[a] \in OpenPayoutStatuses \/ (pay[a] = "FAILED" /\ pay'[a] = "CANCELLED")
               /\ pay'[a] # "NONE" /\ UNCHANGED <<deposited, payAmount>>
    <2>1. pay \in [Actors -> PayoutStatuses \union {"NONE"}]
      BY DEF TypeOK
    <2>2. CASE MarkApproved(a)
      BY <2>1, <2>2 DEF MarkApproved
    <2>3. CASE MarkPaid(a)
      BY <2>1, <2>3 DEF MarkPaid
    <2>4. CASE OperatorSetsStatus(a)
      <3>1. PICK change \in OperatorStatusChange :
                pay[a] = change[1] /\ pay' = [pay EXCEPT ![a] = change[2]]
        BY <2>4 DEF OperatorSetsStatus
      <3>2. change[1] \in OpenPayoutStatuses /\ change[2] # "NONE"
        BY DEF OperatorStatusChange
      <3>3. UNCHANGED <<deposited, payAmount>>
        BY <2>4 DEF OperatorSetsStatus
      <3> QED
        BY <2>1, <3>1, <3>2, <3>3
    <2>5. CASE OperatorCancelsPayout(a)
      BY <2>1, <2>5 DEF OperatorCancelsPayout
    <2> QED
      BY <1>5, <2>2, <2>3, <2>4, <2>5
  <1> HIDE DEF OpenPayoutStatuses, AwaitingApprovalStatuses, SendableStatuses
  <1>6. CASE \E a \in Actors, m \in PayAmounts : RequestPayout(a, m) \/ OperatorCorrectsPayout(a, m)
    <2>1. PICK a \in Actors, m \in PayAmounts : RequestPayout(a, m) \/ OperatorCorrectsPayout(a, m)
      BY <1>6
    <2>2. pay'[a] = "REQUESTED" /\ payAmount'[a] = m
      BY <2>1, <1>3, <1>4
    <2> QED
      BY <2>1, <2>2, <1>3, <1>4
  <1>7. CASE \E a \in Actors :
                MarkApproved(a) \/ MarkPaid(a) \/ OperatorSetsStatus(a) \/ OperatorCancelsPayout(a)
    BY <1>5, <1>7
  <1> QED
    BY <1>1, <1>2, <1>6, <1>7, Zenon DEF MoneyStep

LEMMA AmountsOfPayoutsStep ==
    ASSUME TypeOK, AmountsOfPayouts, Next
    PROVE  AmountsOfPayouts'
  <1>1. CASE ~MoneyStep
    BY <1>1, OnlyMoneyStepsMoveMoney DEF Next, moneyVars, AmountsOfPayouts
  <1>2. CASE MoneyStep
    BY <1>2, AmountStep DEF AmountsOfPayouts, OpenPayoutStatuses, AwaitingApprovalStatuses,
         SendableStatuses
  <1> QED
    BY <1>1, <1>2

(* A cap only grows, with the deposit that first makes it more than zero.  *)
LEMMA CapStep ==
    ASSUME TypeOK, TypeOK', Next
    PROVE  Cap =< Cap'
  <1>1. CASE \E d \in Deposits : ConfirmDeposit(d)
    BY <1>1, AmountsAssumption DEF ConfirmDeposit, Cap, TypeOK
  <1>2. CASE ~\E d \in Deposits : ConfirmDeposit(d)
    <2>1. MoneyStep => deposited' = deposited
      BY <1>2 DEF MoneyStep, RecordRefund, RequestPayout, MarkApproved, MarkPaid,
           OperatorSetsStatus, OperatorCancelsPayout, OperatorCorrectsPayout
    <2>2. deposited' = deposited
      BY <2>1, OnlyMoneyStepsMoveMoney DEF Next, moneyVars
    <2> QED
      BY <2>2, AmountsAreNatural DEF Cap
  <1> QED
    BY <1>1, <1>2

(* The guards of requestPayout and of the operator's correction count what *)
(* is allocated, and that is what the rows that keep their share add up to.*)
LEMMA PayoutsWithinCapStep ==
    ASSUME TypeOK, TypeOK', AmountsOfPayouts, PayoutsWithinCap, Next
    PROVE  PayoutsWithinCap'
  <1>1. /\ SumOver(Kept, payAmount) = Allocated
        /\ \A a \in Actors : payAmount[a] \in Nat
        /\ Kept \in SUBSET Actors /\ IsFiniteSet(Kept)
    BY AllocatedIsKept, AmountsAreNatural DEF Kept
  <1>2. Cap =< Cap' /\ Cap \in Nat /\ Cap' \in Nat
    BY CapStep, AmountsAreNatural, AmountsAssumption DEF TypeOK, Cap
  <1>3. Allocated =< Cap /\ Allocated \in Nat
    BY <1>1, AmountsAreNatural DEF PayoutsWithinCap, Kept
  <1>4. PayAmounts \subseteq Nat
    BY AmountsAssumption
  <1>5. SumOver(Kept', payAmount') =< Cap
    <2>1. CASE UNCHANGED <<pay, payAmount>>
      BY <2>1, <1>1, <1>3 DEF Kept
    <2>2. CASE MoneyStep /\ ~UNCHANGED <<pay, payAmount>>
      <3>1. PICK a \in Actors :
                /\ \A b \in Actors \ {a} : pay'[b] = pay[b] /\ payAmount'[b] = payAmount[b]
                /\ \/ /\ pay[a] = "NONE"
                      /\ pay'[a] = "REQUESTED" /\ payAmount'[a] \in PayAmounts
                      /\ Allocated + payAmount'[a] =< Cap
                   \/ /\ pay[a] \in OpenPayoutStatuses
                      /\ pay'[a] = "REQUESTED" /\ payAmount'[a] \in PayAmounts
                      /\ Allocated - payAmount[a] + payAmount'[a] =< Cap
                   \/ /\ pay[a] \notin {"NONE", "CANCELLED"}
                      /\ payAmount'[a] = payAmount[a]
        BY <2>2, AmountStep DEF OpenPayoutStatuses, AwaitingApprovalStatuses, SendableStatuses
      <3>2. \A b \in Actors : payAmount'[b] \in Nat
        BY <1>1, <1>4, <3>1
      <3>3. CASE payAmount'[a] # payAmount[a] \/ pay[a] = "NONE"
        <4>1. a \in Kept /\ Kept' = Kept
          BY <3>1, <3>3 DEF Kept, OpenPayoutStatuses, AwaitingApprovalStatuses, SendableStatuses
        <4>2. SumOver(Kept, payAmount') + payAmount[a] = Allocated + payAmount'[a]
          BY <1>1, <3>1, <3>2, <4>1, SumOfReplaced
        <4>3. pay[a] = "NONE" => payAmount[a] = 0
          BY DEF AmountsOfPayouts
        <4>4. SumOver(Kept, payAmount') \in Nat
          BY <1>1, <3>2, SumIsNatural
        <4> QED
          BY <1>1, <1>2, <1>3, <3>1, <3>2, <3>3, <4>1, <4>2, <4>3, <4>4
      <3>4. CASE pay[a] # "NONE" /\ payAmount'[a] = payAmount[a]
        <4>1. Kept' \in SUBSET Kept
          BY <3>1, <3>4 DEF Kept, OpenPayoutStatuses, AwaitingApprovalStatuses, SendableStatuses
        <4>2. \A b \in Kept : payAmount'[b] = payAmount[b] /\ payAmount'[b] \in Nat
          BY <1>1, <3>1, <3>2, <3>4
        <4>3. SumOver(Kept', payAmount') =< SumOver(Kept, payAmount')
          BY <1>1, <4>1, <4>2, SumOfSubset
        <4>4. SumOver(Kept, payAmount') = Allocated
          BY <1>1, <4>2, SumOfEqual
        <4>5. SumOver(Kept', payAmount') \in Nat
          BY <1>1, <4>1, <4>2, FS_Subset, SumIsNatural
        <4> QED
          BY <1>2, <1>3, <4>3, <4>4, <4>5
      <3> QED
        BY <3>1, <3>3, <3>4
    <2>3. CASE ~MoneyStep
      BY <2>1, <2>3, OnlyMoneyStepsMoveMoney DEF Next, moneyVars
    <2> QED
      BY <2>1, <2>2, <2>3
  <1>6. SumOver(Kept', payAmount') \in Nat
    <2>1. Kept' \in SUBSET Actors /\ IsFiniteSet(Kept')
      BY ActorsAssumption, FS_Subset DEF Kept
    <2>2. payAmount' \in [Actors -> PayAmounts \union {0}]
      BY DEF TypeOK
    <2>3. PayAmounts \union {0} \subseteq Nat
      BY <1>4
    <2>4. \A b \in Actors : payAmount'[b] \in Nat
      BY <2>2, <2>3
    <2> QED
      BY <2>1, <2>4, SumIsNatural
  <1> QED
    BY <1>2, <1>5, <1>6 DEF PayoutsWithinCap, Kept

(* The reward leaves or enters a payable status only when the deposit is   *)
(* confirmed or what is left of it goes back.                              *)
LEMMA RewardStep ==
    ASSUME Next
    PROVE  \/ \E d \in Deposits : ConfirmDeposit(d)
           \/ RecordRefund
           \/ /\ UNCHANGED <<deposited, refunded>>
              /\ IF rw \in PayableStatuses THEN rw' \in PayableStatuses ELSE rw' = rw
  <1>1. CASE ~MoneyStep
    BY <1>1, OnlyMoneyStepsMoveMoney DEF Next, moneyVars
  <1>2. ASSUME NEW a \in Actors,
               \/ \E m \in PayAmounts : RequestPayout(a, m) \/ OperatorCorrectsPayout(a, m)
               \/ MarkApproved(a) \/ MarkPaid(a) \/ OperatorSetsStatus(a)
               \/ OperatorCancelsPayout(a)
        PROVE  /\ UNCHANGED <<deposited, refunded>>
               /\ IF rw \in PayableStatuses THEN rw' \in PayableStatuses ELSE rw' = rw
    <2>1. /\ UNCHANGED <<deposited, refunded>>
          /\ rw' = rw \/ \E payouts, amounts : rw' = AdvancedReward(payouts, amounts)
      BY <1>2 DEF RequestPayout, OperatorCorrectsPayout, MarkApproved, MarkPaid,
           OperatorSetsStatus, OperatorCancelsPayout
    <2> QED
      BY <2>1, AdvancedRewardType
  <1>3. CASE MoneyStep
    BY <1>2, <1>3, Zenon DEF MoneyStep
  <1> QED
    BY <1>1, <1>3

LEMMA DepositStagesStep ==
    ASSUME TypeOK, DepositStages, Next
    PROVE  DepositStages'
  <1> USE DEF DepositStages
  <1>1. ASSUME NEW d \in Deposits, ConfirmDeposit(d) PROVE DepositStages'
    BY <1>1, AmountsAssumption DEF ConfirmDeposit
  <1>2. CASE RecordRefund
    BY <1>2 DEF RecordRefund, RefundableStatuses, PayableStatuses
  <1>3. CASE /\ UNCHANGED <<deposited, refunded>>
             /\ IF rw \in PayableStatuses THEN rw' \in PayableStatuses ELSE rw' = rw
    BY <1>3 DEF PayableStatuses
  <1> QED
    BY <1>1, <1>2, <1>3, RewardStep

LEMMA RefundStagesStep ==
    ASSUME TypeOK, TypeOK', RewardStages, ClosedMeansSettled, RefundStages, Next
    PROVE  RefundStages'
  <1> USE DEF RefundStages
  <1>1. ASSUME NEW d \in Deposits, ConfirmDeposit(d) PROVE RefundStages'
    BY <1>1 DEF ConfirmDeposit
  <1>2. CASE RecordRefund
    <2>1. ASSUME NEW a \in Actors, MarkPaid(a) PROVE FALSE
      BY <1>2, <2>1 DEF RecordRefund, MarkPaid, SendableStatuses, TypeOK
    <2>2. Paid' = Paid
      BY <2>1, PaidStep
    <2> QED
      BY <1>2, <2>2 DEF RecordRefund, RefundAmount
  <1>3. CASE /\ UNCHANGED <<deposited, refunded>>
             /\ IF rw \in PayableStatuses THEN rw' \in PayableStatuses ELSE rw' = rw
    <2>1. CASE rw = "REFUNDED"
      <3>1. \A a \in Actors : pay[a] \notin SendableStatuses
        BY <2>1 DEF RewardStages, ClosedMeansSettled, Finished, FinishedStatuses,
             SendableStatuses
      <3>2. Paid' = Paid
        BY <3>1, PaidStep DEF MarkPaid
      <3> QED
        BY <1>3, <2>1, <3>2 DEF PayableStatuses
    <2>2. CASE rw # "REFUNDED"
      BY <1>3, <2>2 DEF PayableStatuses
    <2> QED
      BY <2>1, <2>2
  <1> QED
    BY <1>1, <1>2, <1>3, RewardStep

(* What is paid is at most the cap. *)
LEMMA PaidIsWithinCap ==
    ASSUME TypeOK, AmountsOfPayouts, PayoutsWithinCap
    PROVE  Paid =< Cap
  BY AllocatedIsKept, AmountsAreNatural DEF PayoutsWithinCap, Kept

LEMMA DeletedIsSettledStep ==
    ASSUME TypeOK, TypeOK', AmountsOfPayouts, PayoutsWithinCap, DeletedIsSettled, Next
    PROVE  DeletedIsSettled'
  <1> USE DEF DeletedIsSettled
  <1>1. CASE Remove
    <2>1. UNCHANGED moneyVars /\ WithStatus(pay', OpenPayoutStatuses) = {}
      BY <1>1 DEF Remove, moneyVars, WithStatus
    <2>2. ASSUME NEW a \in Actors, MarkPaid(a) PROVE FALSE
      BY <2>1, <2>2 DEF MarkPaid, moneyVars, SendableStatuses, TypeOK
    <2>3. Paid' = Paid
      BY <2>2, PaidStep
    <2>4. Paid =< deposited /\ Paid \in Nat /\ deposited \in Nat
      BY PaidIsWithinCap, AmountsAreNatural
    <2>5. rw \in PayableStatuses => deposited = Paid
      BY <1>1, <2>4 DEF Remove, HoldsFunds
    <2> QED
      BY <2>1, <2>3, <2>5 DEF moneyVars
  <1>2. CASE deleted
    <2>1. \A a \in Actors : pay[a] \notin OpenPayoutStatuses
      BY <1>2 DEF WithStatus
    <2>2. WithStatus(pay', OpenPayoutStatuses) = {}
      <3>1. CASE UNCHANGED pay
        BY <2>1, <3>1 DEF WithStatus
      <3>2. CASE ~UNCHANGED pay
        <4>1. MoneyStep
          BY <3>2, OnlyMoneyStepsMoveMoney DEF Next, moneyVars
        <4>2. PICK a \in Actors :
                  /\ \A b \in Actors \ {a} : pay'[b] = pay[b]
                  /\ pay'[a] = "CANCELLED"
          BY <1>2, <2>1, <3>2, <4>1, AmountStep
        <4> QED
          BY <2>1, <4>2 DEF WithStatus, OpenPayoutStatuses, AwaitingApprovalStatuses,
               SendableStatuses
      <3> QED
        BY <3>1, <3>2
    <2>3. Paid' = Paid
      BY <2>1, PaidStep DEF MarkPaid, OpenPayoutStatuses
    <2>4. ASSUME NEW d \in Deposits, ConfirmDeposit(d) PROVE FALSE
      BY <1>2, <2>4 DEF ConfirmDeposit
    <2>5. RecordRefund => rw' = "REFUNDED"
      BY DEF RecordRefund
    <2>6. rw' \in PayableStatuses => rw \in PayableStatuses /\ deposited' = deposited
      BY <2>4, <2>5, RewardStep DEF PayableStatuses
    <2> QED
      BY <1>2, <2>2, <2>3, <2>6
  <1>3. CASE ~deleted /\ ~Remove
    <2>1. BountyStep => deleted' = deleted
      BY <1>3 DEF BountyStep, Update, Transition, DeadlinePasses
    <2>2. deleted' = deleted
      BY <2>1, OnlyBountyStepsMoveBounty DEF Next, bountyVars
    <2> QED
      BY <1>3, <2>2
  <1> QED
    BY <1>1, <1>2, <1>3

LEMMA MoneyInvStep == SafetyInv /\ SafetyInv' /\ MoneyInv /\ [Next]_vars => MoneyInv'
  <1> SUFFICES ASSUME SafetyInv, SafetyInv', MoneyInv, [Next]_vars PROVE MoneyInv'
    OBVIOUS
  <1>1. TypeOK /\ TypeOK' /\ RewardStages /\ ClosedMeansSettled
    BY DEF SafetyInv
  <1>2. CASE Next
    <2>1. AmountsOfPayouts' /\ PayoutsWithinCap' /\ DepositStages'
      BY <1>1, <1>2, AmountsOfPayoutsStep, PayoutsWithinCapStep, DepositStagesStep DEF MoneyInv
    <2>2. RefundStages' /\ DeletedIsSettled'
      BY <1>1, <1>2, RefundStagesStep, DeletedIsSettledStep DEF MoneyInv
    <2> QED
      BY <2>1, <2>2 DEF MoneyInv
  <1>3. CASE UNCHANGED vars
    <2>1. UNCHANGED moneyVars /\ deleted' = deleted /\ Paid' = Paid /\ Cap' = Cap
      BY <1>3 DEF vars, moneyVars, bountyVars, Paid, Cap, WithStatus
    <2>2. WithStatus(pay', OpenPayoutStatuses) = WithStatus(pay, OpenPayoutStatuses)
      BY <2>1 DEF moneyVars, WithStatus
    <2>3. AmountsOfPayouts' /\ PayoutsWithinCap'
      BY <2>1 DEF MoneyInv, moneyVars, AmountsOfPayouts, PayoutsWithinCap
    <2>4. DepositStages' /\ RefundStages' /\ DeletedIsSettled'
      BY <2>1, <2>2 DEF MoneyInv, moneyVars, DepositStages, RefundStages, DeletedIsSettled
    <2> QED
      BY <2>3, <2>4 DEF MoneyInv
  <1> QED
    BY <1>2, <1>3

LEMMA MoneyAlways == Spec => [](SafetyInv /\ MoneyInv)
  <1>1. Init => SafetyInv /\ MoneyInv
    BY SafetyInit, MoneyInit
  <1>2. SafetyInv /\ MoneyInv /\ [Next]_vars => (SafetyInv /\ MoneyInv)'
    BY SafetyStep, MoneyInvStep
  <1> QED
    BY <1>1, <1>2, PTL DEF Spec

(* The payouts that were not cancelled never exceed the cap together. *)
THEOREM PayoutsStayWithinCap == Spec => []PayoutsWithinCap
  <1>1. MoneyInv => PayoutsWithinCap
    BY DEF MoneyInv
  <1> QED
    BY <1>1, MoneyAlways, PTL

(* Whatever was deposited for a bounty that is deleted was paid out or     *)
(* sent back.                                                              *)
THEOREM DeletedBountiesHoldNoFunds == Spec => []DeletedHoldsNoFunds
  <1>1. SafetyInv /\ MoneyInv => DeletedHoldsNoFunds
    <2> SUFFICES ASSUME SafetyInv, MoneyInv, deleted PROVE deposited - Paid - refunded = 0
      BY DEF DeletedHoldsNoFunds
    <2>1. TypeOK /\ RewardStages
      BY DEF SafetyInv
    <2>2. AmountsOfPayouts /\ PayoutsWithinCap /\ DepositStages /\ RefundStages /\ DeletedIsSettled
      BY DEF MoneyInv
    <2>3. Paid \in Nat /\ deposited \in Nat /\ Paid =< deposited
      BY <2>1, <2>2, PaidIsWithinCap, AmountsAreNatural
    <2>4. rw \in {"NONE", "DEPOSIT_PENDING", "REFUNDED"} \union PayableStatuses
      BY <2>1 DEF TypeOK, RewardStages, RewardStatuses, PayableStatuses
    <2> QED
      BY <2>2, <2>3, <2>4 DEF DepositStages, RefundStages, DeletedIsSettled, PayableStatuses
  <1> QED
    BY <1>1, MoneyAlways, PTL

-----------------------------------------------------------------------------
(* The refinement: seen from the multisig the handlers are an escrow. *)

PaidWithinPosted == Paid \in Nat /\ Paid =< Amount

(* One step of the service is one step of the escrow, or none. *)
LEMMA LedgerStep ==
    ASSUME SafetyInv, MoneyInv, SafetyInv', PaidWithinPosted', Next
    PROVE  \/ Ledger!Deposit \/ Ledger!Pay \/ Ledger!Refund
           \/ UNCHANGED <<deposited, Paid, refunded>>
  <1>1. TypeOK /\ TypeOK' /\ RewardStages /\ ClosedMeansSettled
    BY DEF SafetyInv
  <1>2. AmountsOfPayouts /\ PayoutsWithinCap /\ DepositStages /\ RefundStages
    BY DEF MoneyInv
  <1>3. ASSUME NEW a \in Actors, MarkPaid(a), Paid' = payAmount[a] + Paid
        PROVE  Ledger!Pay
    <2>1. pay[a] # "NONE" /\ pay[a] \in SendableStatuses
      BY <1>3 DEF MarkPaid, SendableStatuses
    <2>2. rw # "REFUNDED"
      BY <1>1, <2>1 DEF RewardStages, ClosedMeansSettled, Finished, FinishedStatuses,
           SendableStatuses
    <2>3. rw \in PayableStatuses
      BY <1>1, <2>1, <2>2 DEF RewardStages
    <2>4. refunded = 0 /\ deposited > 0
      BY <1>1, <1>2, <2>2, <2>3, AmountsAreNatural
         DEF RefundStages, DepositStages, PayableStatuses
    <2>5. payAmount[a] \in Nat \ {0} /\ Paid \in Nat
      BY <1>1, <1>2, <2>1, AmountsAssumption, AmountsAreNatural DEF AmountsOfPayouts
    <2>6. UNCHANGED <<deposited, refunded>>
      BY <1>3 DEF MarkPaid
    <2> QED
      BY <1>3, <2>4, <2>5, <2>6 DEF Ledger!Pay, PaidWithinPosted
  <1>4. CASE \A a \in Actors : ~MarkPaid(a)
    <2>1. Paid' = Paid
      BY <1>1, <1>4, PaidStep
    <2>2. ASSUME NEW d \in Deposits, ConfirmDeposit(d) PROVE Ledger!Deposit
      BY <1>2, <2>1, <2>2 DEF ConfirmDeposit, DepositStages, Ledger!Deposit
    <2>3. CASE RecordRefund
      BY <1>2, <2>1, <2>3 DEF RecordRefund, RefundStages, RefundAmount, HoldsFunds,
           RefundableStatuses, PayableStatuses, Ledger!Refund
    <2> QED
      BY <2>1, <2>2, <2>3, RewardStep
  <1> QED
    BY <1>1, <1>3, <1>4, PaidStep

(* One deposit of at least the posted amount, payouts out of it up to the  *)
(* posted amount, one refund of exactly the rest, and nothing after it.    *)
THEOREM BountyIsAnEscrow == Spec => ImplementsEscrow
  <1>1. Init => Ledger!Init
    <2> SUFFICES ASSUME Init PROVE Ledger!Init
      OBVIOUS
    <2>1. WithStatus(pay, {"PAID"}) = {}
      BY DEF Init, WithStatus
    <2>2. Paid = 0
      BY <2>1, SumOfNone DEF Paid
    <2> QED
      BY <2>2 DEF Init, Ledger!Init
  <1>2. SafetyInv /\ MoneyInv => PaidWithinPosted
    BY PaidIsWithinCap, AmountsAreNatural, AmountsAssumption
       DEF SafetyInv, MoneyInv, PaidWithinPosted
  <1>3. /\ SafetyInv /\ MoneyInv /\ SafetyInv' /\ PaidWithinPosted'
        /\ [Next]_vars
        => [Ledger!Deposit \/ Ledger!Pay \/ Ledger!Refund]_(Ledger!ledger)
    <2> SUFFICES ASSUME SafetyInv, MoneyInv, SafetyInv', PaidWithinPosted', [Next]_vars
                 PROVE  [Ledger!Deposit \/ Ledger!Pay \/ Ledger!Refund]_(Ledger!ledger)
      OBVIOUS
    <2>1. CASE Next
      BY <2>1, LedgerStep DEF Ledger!ledger
    <2>2. CASE UNCHANGED vars
      BY <2>2 DEF vars, moneyVars, Paid, WithStatus, Ledger!ledger
    <2> QED
      BY <2>1, <2>2
  <1> QED
    BY <1>1, <1>2, <1>3, MoneyAlways, PTL DEF Spec, ImplementsEscrow, Ledger!Spec

=============================================================================
