---------------------------- MODULE BountyFlow ----------------------------
(***************************************************************************)
(* The life of one bounty: applications, submissions, reviews, the reward  *)
(* the sponsor deposits, the payouts to the winners and the accounts,      *)
(* agents and wallets these depend on.                                     *)
(*                                                                         *)
(* Every handler of the code runs in one database transaction that first   *)
(* locks the row it decides on (the bounty, the payout, the user), so an   *)
(* action here is one handler: its guard is the conjunction of the checks  *)
(* that would otherwise answer with an error and roll back, its effect the *)
(* rows it writes.  What is left out is text, timestamps, audit rows and   *)
(* the identity of the administrator (the two-person rule of markApproved  *)
(* and the comments of a review can only refuse a call, and a refused call *)
(* changes nothing).                                                       *)
(*                                                                         *)
(* A participant (element of Actors) is a user acting directly or one of   *)
(* the agents of a user.  It has at most one application, one submission   *)
(* and, for the one reward of the bounty, one payout; "NONE" is no row.    *)
(***************************************************************************)
EXTENDS BountyRules, FiniteSets

CONSTANTS
    Actors,       \* participants: users acting directly, and agents
    Users,        \* accounts
    OwnerOf,      \* [Actors -> Users]: the account behind a participant
    AgentActors,  \* the participants that are agents
    Suspendable,  \* accounts an operator may suspend (a bound on the runs)
    Amount,       \* posted amount of the reward
    Deposits,     \* amounts a sponsor may turn out to have deposited
    PayAmounts,   \* amounts an operator may request a payout of
    TermsSet,     \* terms an operator may give the bounty
    MaxWallets    \* bound on the wallets one account ever connects

ASSUME ActorsAssumption ==
    /\ OwnerOf \in [Actors -> Users]
    /\ AgentActors \subseteq Actors
    /\ Suspendable \subseteq Users
    /\ IsFiniteSet(Actors)
    /\ Actors \intersect Users = {}

ASSUME AmountsAssumption ==
    /\ Amount \in Nat \ {0}
    /\ Deposits \subseteq Nat \ {0}
    /\ PayAmounts \subseteq Nat \ {0}
    /\ MaxWallets \in Nat

ASSUME TermsAssumption ==
    TermsSet \subseteq [maxWinners : Nat \ {0}, applicationRequired : BOOLEAN,
                        submissionMode : {"DIRECT", "AGENT"}]

VARIABLES
    bStatus,         \* bounty.status
    deleted,         \* bounty.deleted_at is set
    terms,           \* the columns of bounty the rules read
    deadlinePassed,  \* bounty.submission_deadline is in the past
    app,             \* [Actors -> status of the application]
    sub,             \* [Actors -> status of the submission]
    rw,              \* bounty_reward.status
    deposited,       \* bounty_reward.deposited_amount
    refunded,        \* amount recorded as sent back to the sponsor
    pay,             \* [Actors -> status of the payout]
    payAmount,       \* [Actors -> payout.amount]
    payTo,           \* [Actors -> payout.recipient_wallet_id]
    user,            \* [Users -> status of the account]
    wallet,          \* [Users -> connected primary wallet, 0 if none]
    nft,             \* parent NFT of a user, completion NFT of a submission
    revoked,         \* agents that are revoked
    inFlight         \* agents with a request that passed AgentApiGuard

bountyVars == <<bStatus, deleted, terms, deadlinePassed>>
workVars   == <<app, sub>>
moneyVars  == <<rw, deposited, refunded, pay, payAmount, payTo>>
peopleVars == <<user, wallet, nft, revoked, inFlight>>
vars == <<bountyVars, workVars, moneyVars, peopleVars>>

Wallets == 1 .. MaxWallets

(* The rows have the values their columns allow, revoked participants are  *)
(* agents and so are those with a request under way.  The range of         *)
(* refunded is the subject of EscrowLedger.                                *)
TypeOK ==
    /\ bStatus \in BountyStatuses
    /\ deleted \in BOOLEAN
    /\ terms \in TermsSet
    /\ deadlinePassed \in BOOLEAN
    /\ app \in [Actors -> ApplicationStatuses \union {"NONE"}]
    /\ sub \in [Actors -> SubmissionStatuses \union {"NONE"}]
    /\ rw \in RewardStatuses \union {"NONE"}
    /\ deposited \in Deposits \union {0}
    /\ pay \in [Actors -> PayoutStatuses \union {"NONE"}]
    /\ payAmount \in [Actors -> PayAmounts \union {0}]
    /\ payTo \in [Actors -> Wallets \union {0}]
    /\ user \in [Users -> {"ACTIVE", "SUSPENDED", "WITHDRAWN"}]
    /\ wallet \in [Users -> Wallets \union {0}]
    /\ nft \in [Actors \union Users -> {"NONE", "QUEUED", "SETTLED"}]
    /\ revoked \in SUBSET AgentActors
    /\ inFlight \in SUBSET AgentActors

-----------------------------------------------------------------------------
(* Derived quantities *)

WithStatus(f, statuses) == {a \in Actors : f[a] \in statuses}

Cap == IF deposited < Amount THEN deposited ELSE Amount

Allocated == SumOver(WithStatus(pay, AllocatedStatuses), payAmount)

Paid == SumOver(WithStatus(pay, {"PAID"}), payAmount)

(* More was deposited than has been paid: an excess deposit counts, it     *)
(* cannot be allocated and is still the sponsor's.                         *)
MutHoldsFundsUpToCap == Cap > Paid
HoldsFunds == deposited > Paid

Headroom == Cap > Allocated

Requestable(a) == pay[a] = "NONE" /\ Headroom

(* The submission a (approved) is still to receive something.              *)
MutOwesForgetsFailed(a) ==
    /\ rw \in PayableStatuses
    /\ pay[a] # "PAID"
    /\ \/ pay[a] \in OpenPayoutStatuses
       \/ Requestable(a) /\ user[OwnerOf[a]] # "WITHDRAWN"
Owes(a) ==
    /\ rw \in PayableStatuses
    /\ pay[a] # "PAID"
    /\ \/ pay[a] \in AllocatedStatuses
       \/ Requestable(a) /\ user[OwnerOf[a]] # "WITHDRAWN"

Approved == WithStatus(sub, {"APPROVED"})

MutWinnerSlotOffByOne == Cardinality(Approved) <= terms.maxWinners
WinnerSlotFree == Cardinality(Approved) < terms.maxWinners

AllowedBy(a) == (terms.submissionMode = "AGENT") <=> (a \in AgentActors)

Onboarded(a) == user[OwnerOf[a]] = "ACTIVE"

(* A request of an agent acts under the authentication that let it in.     *)
Admitted(a) == a \in AgentActors => a \in inFlight

(* The reward after `payouts` with the amounts `amounts` are in the table. *)
AdvancedReward(payouts, amounts) ==
    LET done == WithStatus(payouts, {"PAID"})
    IN  IF rw \notin PayableStatuses \/ done = {} THEN rw
        ELSE IF /\ WithStatus(payouts, UnsettledStatuses) = {}
                /\ \/ Cardinality(done) >= terms.maxWinners
                   \/ SumOver(done, amounts) >= Cap
        THEN "PAID" ELSE "PARTIALLY_PAID"

-----------------------------------------------------------------------------
(* The bounty: BountyAdminService, BountyLifecycleService *)

(* A new bounty, with a reward whose deposit is awaited or without one.    *)
Init ==
    /\ \/ bStatus = "DRAFT" /\ rw = "NONE"
       \/ bStatus = "FUNDING_PENDING" /\ rw = "DEPOSIT_PENDING"
    /\ deleted = FALSE
    /\ terms \in TermsSet
    /\ deadlinePassed = FALSE
    /\ app = [a \in Actors |-> "NONE"]
    /\ sub = [a \in Actors |-> "NONE"]
    /\ deposited = 0
    /\ refunded = 0
    /\ pay = [a \in Actors |-> "NONE"]
    /\ payAmount = [a \in Actors |-> 0]
    /\ payTo = [a \in Actors |-> 0]
    /\ user = [u \in Users |-> "ACTIVE"]
    /\ wallet = [u \in Users |-> 0]
    /\ nft = [x \in Actors \union Users |-> "NONE"]
    /\ revoked = {}
    /\ inFlight = {}

(* New terms and, independently, a new deadline.  maxWinners stays at or   *)
(* above the number of approved submissions.                               *)
Update(newTerms, newPassed) ==
    /\ ~deleted
    /\ bStatus \in DeadlineEnforcedStatuses => (newPassed => deadlinePassed)
    /\ newTerms.maxWinners >= Cardinality(Approved)
    /\ terms' = newTerms
    /\ deadlinePassed' = newPassed
    /\ UNCHANGED <<bStatus, deleted, workVars, moneyVars, peopleVars>>

(* Approved participants who can still hand in something and have not.     *)
Unsubmitted ==
    {a \in Actors : /\ app[a] = "APPROVED"
                    /\ sub[a] = "NONE"
                    /\ user[OwnerOf[a]] # "WITHDRAWN"
                    /\ a \notin revoked}

UnpaidWinners ==
    \/ WithStatus(pay, OpenPayoutStatuses) # {}
    \/ \E a \in Approved : Owes(a)

MutUnfundedForgetsPending ==
    rw \notin PayableStatuses \union {"NONE", "DEPOSIT_PENDING"}
Unfunded == rw \notin PayableStatuses \union {"NONE"}

(* What keeps the bounty from moving to status `to`.                       *)
Blocked(to) ==
    \/ /\ to = "OPEN"
       /\ deadlinePassed \/ Unfunded
    \/ /\ to = "SUBMISSION_CLOSED"
       /\ \/ WithStatus(app, {"PENDING"}) # {}
          \/ Unsubmitted # {} /\ ~deadlinePassed
    \/ /\ to = "COMPLETED"
       /\ \/ WithStatus(app, {"PENDING"}) # {}
          \/ WithStatus(sub, UnresolvedStatuses) # {}
    \/ /\ to \in {"COMPLETED", "CANCELLED"}
       /\ UnpaidWinners

(* What a cancellation does to the work still open.                        *)
CloseOpenWork ==
    /\ app' = [a \in Actors |-> IF app[a] = "PENDING"
                                THEN "REJECTED" ELSE app[a]]
    /\ sub' = [a \in Actors |-> IF sub[a] \in UnresolvedStatuses
                                THEN "REJECTED" ELSE sub[a]]

Transition(to) ==
    /\ ~deleted
    /\ to \in TransitionsFrom(bStatus)
    /\ ~Blocked(to)
    /\ bStatus' = to
    /\ IF to = "CANCELLED" THEN CloseOpenWork ELSE UNCHANGED workVars
    /\ UNCHANGED <<deleted, terms, deadlinePassed, moneyVars, peopleVars>>

(* Soft delete, refused while the multisig still holds money for it.       *)
Remove ==
    /\ ~deleted
    /\ ~(rw = "REFUND_PENDING" \/ (rw \in PayableStatuses /\ HoldsFunds))
    /\ WithStatus(pay, OpenPayoutStatuses) = {}
    /\ deleted' = TRUE
    /\ UNCHANGED <<bStatus, terms, deadlinePassed, workVars, moneyVars,
                   peopleVars>>

(* Time: the submission deadline passes.                                   *)
DeadlinePasses ==
    /\ ~deadlinePassed
    /\ deadlinePassed' = TRUE
    /\ UNCHANGED <<bStatus, deleted, terms, workVars, moneyVars, peopleVars>>

-----------------------------------------------------------------------------
(* Applications: ApplicationsService, ApplicationReviewService *)

Apply(a) ==
    /\ Admitted(a)
    /\ ~deleted
    /\ AllowedBy(a)
    /\ bStatus = "OPEN"
    /\ terms.applicationRequired
    /\ ~deadlinePassed
    /\ Onboarded(a)
    /\ app[a] = "NONE" \/ CanReapply(app[a])
    /\ app' = [app EXCEPT ![a] = "PENDING"]
    /\ inFlight' = inFlight \ {a}
    /\ UNCHANGED <<bountyVars, sub, moneyVars, user, wallet, nft, revoked>>

(* The applicant, or the owner of the agent, takes the application back:   *)
(* the statement looks neither at the bounty nor at the account.           *)
WithdrawApplication(a) ==
    /\ app[a] = "PENDING"
    /\ app' = [app EXCEPT ![a] = "WITHDRAWN"]
    /\ UNCHANGED <<bountyVars, sub, moneyVars, peopleVars>>

ReviewApplication(a, decision) ==
    /\ ~deleted
    /\ bStatus \notin FinishedStatuses
    /\ NeedsOpenIntake(decision) => bStatus = "OPEN" /\ ~deadlinePassed
    /\ app[a] = "PENDING"
    /\ app' = [app EXCEPT ![a] = decision]
    /\ UNCHANGED <<bountyVars, sub, moneyVars, peopleVars>>

-----------------------------------------------------------------------------
(* Submissions: SubmissionsService, SubmissionReviewService *)

(* A first submission needs an open bounty before its deadline; a later    *)
(* one replaces it, and after the intake only if a revision was asked for. *)
Submit(a) ==
    /\ Admitted(a)
    /\ ~deleted
    /\ bStatus \in InProgressStatuses
    /\ AllowedBy(a)
    /\ Onboarded(a)
    /\ terms.applicationRequired => app[a] = "APPROVED"
    /\ \/ bStatus = "OPEN" /\ ~deadlinePassed
       \/ CanResubmitAfterIntakeClosed(sub[a])
    /\ sub[a] \notin FinalizedStatuses
    /\ sub' = [sub EXCEPT ![a] = IF @ = "NONE" THEN "SUBMITTED"
                                 ELSE "RESUBMITTED"]
    /\ inFlight' = inFlight \ {a}
    /\ UNCHANGED <<bountyVars, app, moneyVars, user, wallet, nft, revoked>>

ReviewSubmission(a, decision) ==
    /\ ~deleted
    /\ bStatus \in InProgressStatuses
    /\ CanReview(sub[a], decision)
    /\ decision = "APPROVE" => /\ user[OwnerOf[a]] = "ACTIVE"
                               /\ WinnerSlotFree
    /\ sub' = [sub EXCEPT ![a] = StatusAfter(decision)]
    /\ UNCHANGED <<bountyVars, app, moneyVars, peopleVars>>

(* scripts/forfeit-award.js: an award that cannot be paid is taken back.   *)
ForfeitAward(a) ==
    /\ ~deleted
    /\ bStatus \in InProgressStatuses
    /\ sub[a] = "APPROVED"
    /\ pay[a] = "NONE"
    /\ nft[a] = "NONE"
    /\ sub' = [sub EXCEPT ![a] = "REJECTED"]
    /\ UNCHANGED <<bountyVars, app, moneyVars, peopleVars>>

-----------------------------------------------------------------------------
(* Money: RewardsService, scripts/record-refund.js *)

(* The transaction hash checks are the subject of another module: here     *)
(* they could only refuse.                                                 *)
ConfirmDeposit(d) ==
    /\ ~deleted
    /\ rw = "DEPOSIT_PENDING"
    /\ d >= Amount
    /\ rw' = "FUNDED"
    /\ deposited' = d
    /\ UNCHANGED <<bountyVars, workVars, refunded, pay, payAmount, payTo,
                   peopleVars>>

MutRequestPayout(a, m) ==
    /\ ~deleted
    /\ bStatus \in InProgressStatuses
    /\ rw \in PayableStatuses
    /\ sub[a] = "APPROVED"
    /\ user[OwnerOf[a]] # "WITHDRAWN"
    /\ wallet[OwnerOf[a]] # 0
    /\ pay[a] = "NONE"
    /\ Allocated + m =< Cap
    /\ pay' = [pay EXCEPT ![a] = "REQUESTED"]
    /\ payAmount' = [payAmount EXCEPT ![a] = m]
    /\ payTo' = [payTo EXCEPT ![a] = wallet[OwnerOf[a]]]
    /\ UNCHANGED <<bountyVars, workVars, rw, deposited, refunded, peopleVars>>
RequestPayout(a, m) ==
    /\ ~deleted
    /\ bStatus \in InProgressStatuses
    /\ rw \in PayableStatuses
    /\ sub[a] = "APPROVED"
    /\ user[OwnerOf[a]] # "WITHDRAWN"
    /\ wallet[OwnerOf[a]] # 0
    /\ pay[a] = "NONE"
    /\ Allocated + m =< Cap
    /\ pay' = [pay EXCEPT ![a] = "REQUESTED"]
    /\ payAmount' = [payAmount EXCEPT ![a] = m]
    /\ payTo' = [payTo EXCEPT ![a] = wallet[OwnerOf[a]]]
    /\ rw' = AdvancedReward(pay', payAmount')
    /\ UNCHANGED <<bountyVars, workVars, deposited, refunded, peopleVars>>

MarkApproved(a) ==
    /\ pay[a] \in AwaitingApprovalStatuses
    /\ pay' = [pay EXCEPT ![a] = "APPROVED"]
    /\ UNCHANGED <<bountyVars, workVars, rw, deposited, refunded, payAmount,
                   payTo, peopleVars>>

(* The transfer is recorded, the completion NFT queued and the reward      *)
(* recomputed.                                                             *)
MarkPaid(a) ==
    /\ pay[a] \in SendableStatuses
    /\ sub[a] = "APPROVED"
    /\ pay' = [pay EXCEPT ![a] = "PAID"]
    /\ nft' = [nft EXCEPT ![a] = IF @ = "NONE" THEN "QUEUED" ELSE @]
    /\ rw' = AdvancedReward(pay', payAmount)
    /\ UNCHANGED <<bountyVars, workVars, deposited, refunded, payAmount,
                   payTo, user, wallet, revoked, inFlight>>

MutRefundOfWholeDeposit == deposited
RefundAmount == deposited - Paid

(* What is left of the deposit went back to the sponsor.                   *)
RecordRefund ==
    /\ bStatus = "CANCELLED"
    /\ rw \in RefundableStatuses
    /\ WithStatus(pay, PayoutStatuses \ TerminalPayoutStatuses) = {}
    /\ HoldsFunds
    /\ rw' = "REFUNDED"
    /\ refunded' = RefundAmount
    /\ UNCHANGED <<bountyVars, workVars, deposited, pay, payAmount, payTo,
                   peopleVars>>

-----------------------------------------------------------------------------
(* What operators do to payouts with SQL (docs/runbook.md 7.4): no code of *)
(* the service writes these statuses.                                      *)

OperatorStatusChange ==
    {<<"REQUESTED", "AWAITING_MULTISIG_APPROVAL">>,
     <<"APPROVED", "BROADCASTING">>,
     <<"APPROVED", "FAILED">>, <<"BROADCASTING", "FAILED">>}

OperatorSetsStatus(a) ==
    /\ \E change \in OperatorStatusChange :
         /\ pay[a] = change[1]
         /\ pay' = [pay EXCEPT ![a] = change[2]]
    /\ UNCHANGED <<bountyVars, workVars, rw, deposited, refunded, payAmount,
                   payTo, peopleVars>>

OperatorCancelsPayout(a) ==
    /\ pay[a] \in AwaitingApprovalStatuses \union {"APPROVED", "FAILED"}
    /\ pay' = [pay EXCEPT ![a] = "CANCELLED"]
    /\ rw' = AdvancedReward(pay', payAmount)
    /\ UNCHANGED <<bountyVars, workVars, deposited, refunded, payAmount,
                   payTo, peopleVars>>

OperatorCorrectsPayout(a, m) ==
    /\ pay[a] \in AwaitingApprovalStatuses \union {"APPROVED"}
    /\ Allocated - payAmount[a] + m =< Cap
    /\ pay' = [pay EXCEPT ![a] = "REQUESTED"]
    /\ payAmount' = [payAmount EXCEPT ![a] = m]
    /\ UNCHANGED <<bountyVars, workVars, rw, deposited, refunded, payTo,
                   peopleVars>>

-----------------------------------------------------------------------------
(* Accounts, agents and wallets *)

OwnActors(u) == {a \in Actors : OwnerOf[a] = u}

AgentsOf(u) == OwnActors(u) \intersect AgentActors

(* A request with an agent's key passes AgentApiGuard; the handler that    *)
(* serves it runs later and trusts the outcome.                            *)
Authenticate(a) ==
    /\ a \in AgentActors \ (revoked \union inFlight)
    /\ user[OwnerOf[a]] = "ACTIVE"
    /\ inFlight' = inFlight \union {a}
    /\ UNCHANGED <<bountyVars, workVars, moneyVars, user, wallet, nft, revoked>>

RevokeAgent(a) ==
    /\ a \in AgentActors \ revoked
    /\ user[OwnerOf[a]] = "ACTIVE"
    /\ revoked' = revoked \union {a}
    /\ UNCHANGED <<bountyVars, workVars, moneyVars, user, wallet, nft, inFlight>>

(* First wallet of the account, with its parent NFT.                       *)
MutVerifyWallet(u) ==
    /\ MaxWallets > 0
    /\ user[u] = "ACTIVE"
    /\ wallet[u] = 0
    /\ wallet' = [wallet EXCEPT ![u] = 1]
    /\ UNCHANGED <<bountyVars, workVars, moneyVars, user, nft, revoked, inFlight>>
VerifyWallet(u) ==
    /\ MaxWallets > 0
    /\ user[u] = "ACTIVE"
    /\ wallet[u] = 0
    /\ wallet' = [wallet EXCEPT ![u] = 1]
    /\ nft' = [nft EXCEPT ![u] = IF @ = "NONE" THEN "QUEUED" ELSE @]
    /\ UNCHANGED <<bountyVars, workVars, moneyVars, user, revoked, inFlight>>

(* A new receiving wallet, refused while a payout is unsettled or an NFT   *)
(* unfinished.                                                             *)
ReplaceWallet(u) ==
    /\ user[u] = "ACTIVE"
    /\ wallet[u] # 0 /\ wallet[u] < MaxWallets
    /\ \A a \in OwnActors(u) : pay[a] \notin UnsettledStatuses
    /\ \A x \in OwnActors(u) \union {u} : nft[x] # "QUEUED"
    /\ wallet' = [wallet EXCEPT ![u] = @ + 1]
    /\ UNCHANGED <<bountyVars, workVars, moneyVars, user, nft, revoked, inFlight>>

(* The NFT worker (NftWorker) finishes the jobs of an NFT, and may later   *)
(* queue another one: a completion NFT is minted first, attached later.    *)
NftMoves(x) ==
    /\ \/ nft[x] = "QUEUED" /\ nft' = [nft EXCEPT ![x] = "SETTLED"]
       \/ /\ nft[x] = "SETTLED" /\ x \in Actors
          /\ nft' = [nft EXCEPT ![x] = "QUEUED"]
    /\ UNCHANGED <<bountyVars, workVars, moneyVars, user, wallet, revoked,
                   inFlight>>

(* An approved submission for which a payout could be requested today.     *)
PendingReward(a) ==
    /\ sub[a] = "APPROVED"
    /\ ~deleted /\ bStatus \in InProgressStatuses
    /\ rw \in PayableStatuses
    /\ Requestable(a)

WithdrawAccount(u) ==
    /\ user[u] = "ACTIVE"
    /\ \A a \in OwnActors(u) :
         /\ pay[a] \in TerminalPayoutStatuses \union {"NONE"}
         /\ ~PendingReward(a)
    /\ user' = [user EXCEPT ![u] = "WITHDRAWN"]
    /\ wallet' = [wallet EXCEPT ![u] = 0]
    /\ revoked' = revoked \union AgentsOf(u)
    /\ sub' = [a \in Actors |->
                 IF OwnerOf[a] = u /\ sub[a] \in UnresolvedStatuses
                 THEN "WITHDRAWN" ELSE sub[a]]
    /\ app' = [a \in Actors |->
                 IF OwnerOf[a] = u /\ app[a] = "PENDING"
                 THEN "WITHDRAWN" ELSE app[a]]
    /\ UNCHANGED <<bountyVars, moneyVars, nft, inFlight>>

(* An operator suspends an account, or lifts the suspension.               *)
SetSuspended(u) ==
    /\ u \in Suspendable
    /\ \/ user[u] = "ACTIVE" /\ user' = [user EXCEPT ![u] = "SUSPENDED"]
       \/ user[u] = "SUSPENDED" /\ user' = [user EXCEPT ![u] = "ACTIVE"]
    /\ UNCHANGED <<bountyVars, workVars, moneyVars, wallet, nft, revoked,
                   inFlight>>

-----------------------------------------------------------------------------

BountyStep ==
    \/ \E t \in TermsSet, passed \in BOOLEAN : Update(t, passed)
    \/ \E to \in BountyStatuses : Transition(to)
    \/ Remove
    \/ DeadlinePasses

WorkStep ==
    \E a \in Actors :
      \/ Apply(a)
      \/ WithdrawApplication(a)
      \/ \E d \in ApplicationDecisions : ReviewApplication(a, d)
      \/ Submit(a)
      \/ \E d \in SubmissionDecisions : ReviewSubmission(a, d)
      \/ ForfeitAward(a)

MoneyStep ==
    \/ \E d \in Deposits : ConfirmDeposit(d)
    \/ RecordRefund
    \/ \E a \in Actors :
         \/ \E m \in PayAmounts : RequestPayout(a, m)
         \/ MarkApproved(a)
         \/ MarkPaid(a)
         \/ OperatorSetsStatus(a)
         \/ OperatorCancelsPayout(a)
         \/ \E m \in PayAmounts : OperatorCorrectsPayout(a, m)

PeopleStep ==
    \/ \E a \in Actors : Authenticate(a) \/ RevokeAgent(a)
    \/ \E u \in Users : \/ VerifyWallet(u)
                        \/ ReplaceWallet(u)
                        \/ WithdrawAccount(u)
                        \/ SetSuspended(u)
    \/ \E x \in Actors \union Users : NftMoves(x)

Next == BountyStep \/ WorkStep \/ MoneyStep \/ PeopleStep

Spec == Init /\ [][Next]_vars

-----------------------------------------------------------------------------
(* Safety *)

(* Every payout that was not cancelled keeps its share of the cap, whatever *)
(* became of it: a failed transfer may have been sent after all             *)
(* (requestPayout, runbook 7.4).                                            *)
PayoutsWithinCap ==
    SumOver({a \in Actors : pay[a] # "CANCELLED"}, payAmount) =< Cap

(* There are never more winners than the bounty announces, although         *)
(* approvals, new terms and forfeits interleave.                            *)
WinnersBounded == Cardinality(Approved) =< terms.maxWinners

(* Behind every payout there is a submission that is still approved: no     *)
(* review, forfeit, cancellation or withdrawal takes the award back once    *)
(* money was requested for it.                                              *)
PayoutBacked == \A a \in Actors : pay[a] # "NONE" => sub[a] = "APPROVED"

(* A bounty in progress has its reward deposited, if it has one at all.     *)
OpenImpliesFunded ==
    bStatus \in InProgressStatuses \union {"COMPLETED"} =>
        rw \in {"NONE", "FUNDED", "PARTIALLY_PAID", "PAID"}

Finished == bStatus \in FinishedStatuses

(* Once the bounty is completed or cancelled no payout can still move and   *)
(* no winner is left who could be paid.                                     *)
ClosedMeansSettled ==
    Finished => /\ \A a \in Actors : pay[a] \in {"NONE", "PAID", "CANCELLED"}
                /\ \A a \in Approved : ~(rw \in PayableStatuses /\ Requestable(a)
                                           /\ user[OwnerOf[a]] # "WITHDRAWN")

(* ... and nobody waits for a decision: every application and submission    *)
(* has reached a final status.                                              *)
ClosedHasNoOpenWork ==
    Finished => \A a \in Actors :
        /\ app[a] # "PENDING"
        /\ sub[a] \in {"NONE", "APPROVED", "REJECTED", "WITHDRAWN"}

(* Money under way goes to the wallet its owner has now: withdrawing an     *)
(* account or replacing a wallet is not possible under an open payout.  A   *)
(* failed one, which may be sent again, may at most outlive the account.    *)
UnsettledPayoutFollowsWallet ==
    \A a \in Actors :
        LET here == payTo[a] = wallet[OwnerOf[a]]
        IN  /\ pay[a] \in {"REQUESTED", "AWAITING_MULTISIG_APPROVAL",
                           "APPROVED", "BROADCASTING"}
                 => here /\ user[OwnerOf[a]] # "WITHDRAWN"
            /\ pay[a] = "FAILED" => here \/ user[OwnerOf[a]] = "WITHDRAWN"

(* A completion NFT never lacks the parent NFT it is attached to: whoever   *)
(* is paid has connected a wallet, and that queued the parent, whatever     *)
(* became of wallet and account since (enqueueChildMintInTransaction).      *)
CompletionHasParent ==
    \A a \in Actors : nft[a] # "NONE" => nft[OwnerOf[a]] # "NONE"

(* A deleted bounty leaves nothing in the multisig unless the deposit was   *)
(* never confirmed: all of it was paid out or sent back.                    *)
DeletedHoldsNoFunds ==
    deleted => deposited - Paid - refunded = 0

(* The status of the reward tells what happened to its payouts: PAID only   *)
(* when none is left to settle, and a step beyond FUNDED exactly when one   *)
(* was paid.                                                                *)
RewardStatusAgrees ==
    /\ rw = "PAID" => \A a \in Actors : pay[a] \in {"NONE", "PAID", "CANCELLED"}
    /\ rw \in {"NONE", "DEPOSIT_PENDING", "FUNDED"} => \A a \in Actors : pay[a] # "PAID"
    /\ rw \in {"PARTIALLY_PAID", "PAID"} => \E a \in Actors : pay[a] = "PAID"

-----------------------------------------------------------------------------
(* What a step may never do *)

(* A finished bounty is final: neither its status nor any application,      *)
(* submission or payout of it changes again.                                *)
ClosedIsFinal == [][Finished => UNCHANGED <<bStatus, app, sub, pay>>]_vars

(* What bounty-lifecycle.service.ts:53 says of agents: one that is revoked  *)
(* and has not submitted never will.                                        *)
RevokedAgentCannotSubmit ==
    [][\A a \in revoked : sub[a] = "NONE" => sub'[a] = "NONE"]_vars

-----------------------------------------------------------------------------
(* Seen from the multisig, all of this is a ledger with one deposit.        *)
Ledger == INSTANCE EscrowLedger WITH Posted <- Amount, paid <- Paid

(* The deposit, its payouts and its refund are those of an escrow: nothing  *)
(* is paid beyond the posted amount or after the refund, nothing paid is    *)
(* taken back, and the refund returns exactly the rest.                     *)
ImplementsEscrow == Ledger!Spec

=============================================================================
