----------------------------- MODULE MoneyLocks -----------------------------
(***************************************************************************)
(* The transactions about the money of several bounties, statement by      *)
(* statement: deposits confirmed, payouts requested and paid, refunds      *)
(* recorded, bounties opened and cancelled.  BountyFlow takes each of them *)
(* for one step; here is what that rests on, and what it cannot say: which *)
(* transfer a transaction hash proves, and who waits for whom.             *)
(*                                                                         *)
(* PostgreSQL's READ COMMITTED is part of the model.  A look-up sees what  *)
(* is committed when it runs.  A statement that takes a lock waits until   *)
(* nobody holds a clashing one and then looks at the row again.  What a    *)
(* transaction writes appears with its commit, which ends its locks too.   *)
(*                                                                         *)
(* Left to BountyFlow are more winners for a bounty in progress, removed   *)
(* bounties, payouts cancelled by hand, and the users, applications and    *)
(* submissions that a request, a cancellation and an inserted NFT lock,    *)
(* each behind its lock on the bounty.                                     *)
(***************************************************************************)
EXTENDS MoneyRows

CONSTANT Requests  \* transactions under way at the same time

VARIABLE tx  \* [Requests -> the transaction a request has open]

vars == <<rowVars, tx>>

(* The statements of each transaction that lock or decide, in their order. *)
(* "key" is the FOR KEY SHARE on the bounty that its foreign key takes     *)
(* when markPaid inserts the completion NFT.                               *)
MutPayKeyLate ==
    [hash |-> "payout", payout |-> "payouts", payouts |-> "deposits", deposits |-> "refunds",
     refunds |-> "reward", reward |-> "recompute", recompute |-> "key", key |-> "commit"]
MutPayUnlocked ==
    [hash |-> "payout", payout |-> "payouts", payouts |-> "deposits", deposits |-> "refunds",
     refunds |-> "key", key |-> "recompute", recompute |-> "commit"]
PayOrder ==
    [hash |-> "payout", payout |-> "payouts", payouts |-> "deposits", deposits |-> "refunds",
     refunds |-> "key", key |-> "reward", reward |-> "recompute", recompute |-> "commit"]

MutDepositUnlocked ==
    [hash |-> "payouts", payouts |-> "refunds", refunds |-> "reward", reward |-> "commit"]
DepositOrder ==
    [hash |-> "payouts", payouts |-> "refunds", refunds |-> "bounty", bounty |-> "reward",
     reward |-> "commit"]
RefundOrder == [hash |-> "bounty", bounty |-> "reward", reward |-> "all", all |-> "commit"]
RequestOrder ==
    [bounty |-> "reward", reward |-> "insert", insert |-> "recompute", recompute |-> "commit"]
MoveOrder == [bounty |-> "blockers", blockers |-> "commit"]

Then == [deposit |-> DepositOrder, pay |-> PayOrder, refund |-> RefundOrder,
         request |-> RequestOrder, move |-> MoveOrder]

MutFirst == [deposit |-> "hash", pay |-> "hash", refund |-> "bounty",
             request |-> "bounty", move |-> "bounty"]
MutFirstCountsUnlocked == [deposit |-> "hash", pay |-> "hash", refund |-> "hash",
                           request |-> "insert", move |-> "bounty"]
First == [deposit |-> "hash", pay |-> "hash", refund |-> "hash",
          request |-> "bounty", move |-> "bounty"]

LockAt == {"hash", "payout", "bounty", "key", "reward"}
LookAt == {"payouts", "deposits", "refunds", "all"}

Locks == ({"hash"} \X Hashes) \union ({"payout"} \X Payouts)
         \union ({"bounty", "key", "reward"} \X Bounties)

Idle == [kind |-> "none", at |-> "idle"]

Transactions ==
    [kind : DOMAIN Then, at : LockAt \union LookAt \union
                              {"insert", "recompute", "blockers", "commit"},
     hash : Hashes \union {None}, payout : Payouts \union {None}, bounty : Bounties,
     status : BountyStatuses \union RewardStatuses, held : SUBSET Locks]

(* The rows have the values the code writes, and every transaction is at a *)
(* statement of its own, with the hash and the payout it is about.         *)
TypeOK ==
    /\ bounty \in [Bounties -> BountyStatuses]
    /\ reward \in [Bounties -> RewardStatuses]
    /\ depositHash \in [Bounties -> Hashes \union {None}]
    /\ refundHash \in [Bounties -> Hashes \union {None}]
    /\ pay \in [Payouts -> UnsettledStatuses \union {"NONE", "PAID"}]
    /\ payHash \in [Payouts -> Hashes \union {None}]
    /\ tx \in [Requests -> Transactions \union {Idle}]
    /\ \A r \in Requests : tx[r] # Idle =>
         /\ tx[r].at \in DOMAIN Then[tx[r].kind] \union {"commit"}
         /\ tx[r].kind \in {"deposit", "pay", "refund"} => tx[r].hash \in Hashes
         /\ tx[r].kind \in {"pay", "request"} =>
              tx[r].payout \in Payouts /\ tx[r].bounty = BountyOf[tx[r].payout]

-----------------------------------------------------------------------------

Init == Published /\ tx = [r \in Requests |-> Idle]

Begin(r, kind, h, p, b, status) ==
    /\ tx[r] = Idle
    /\ tx' = [tx EXCEPT ![r] = [kind |-> kind, at |-> First[kind], hash |-> h, payout |-> p,
                                bounty |-> b, status |-> status, held |-> {}]]
    /\ UNCHANGED rowVars

ConfirmDeposit(r, b, h) == Begin(r, "deposit", h, None, b, "FUNDED")
MarkPaid(r, p, h) == Begin(r, "pay", h, p, BountyOf[p], "PARTIALLY_PAID")
RecordRefund(r, b, h) == Begin(r, "refund", h, None, b, "REFUNDED")
RequestPayout(r, p) == Begin(r, "request", None, p, BountyOf[p], "FUNDED")
Transition(r, b, to) == Begin(r, "move", None, None, b, to)

-----------------------------------------------------------------------------
(* Statements that lock *)

At(r, at) == tx[r].at = at

Step(r) == [tx[r] EXCEPT !.at = Then[tx[r].kind][tx[r].at]]

(* FOR UPDATE excludes everybody, FOR KEY SHARE only FOR UPDATE.           *)
Clash(l, m) ==
    /\ l[2] = m[2]
    /\ \/ l[1] = m[1] /\ l[1] # "key"
       \/ {l[1], m[1]} = {"bounty", "key"}

Wanted(r) == CASE At(r, "hash") -> <<"hash", tx[r].hash>>
               [] At(r, "payout") -> <<"payout", tx[r].payout>>
               [] OTHER -> <<tx[r].at, tx[r].bounty>>

Taken(r, lock) ==
    \E q \in Requests \ {r} : tx[q] # Idle /\ \E m \in tx[q].held : Clash(lock, m)

(* What the row must be like for the transaction to go on.  Nobody else    *)
(* writes it while it is locked: so the condition of an UPDATE that comes  *)
(* later in the transaction is looked at here.                             *)
Passes(r) ==
    LET b == tx[r].bounty
    IN  CASE At(r, "payout") -> pay[tx[r].payout] = "APPROVED"
          [] At(r, "bounty") /\ tx[r].kind = "request" -> bounty[b] = "OPEN"
          [] At(r, "bounty") /\ tx[r].kind = "refund" -> bounty[b] = "CANCELLED"
          [] At(r, "reward") /\ tx[r].kind = "deposit" -> reward[b] = "DEPOSIT_PENDING"
          [] At(r, "reward") /\ tx[r].kind = "request" -> reward[b] \in PayableStatuses
          [] At(r, "reward") /\ tx[r].kind = "refund" ->
               /\ reward[b] \in PayableStatuses
               /\ With(b, UnsettledStatuses) = {}
               /\ Deposit[b] > Cardinality(With(b, {"PAID"}))
          [] OTHER -> TRUE

Lock(r) ==
    /\ tx[r].at \in LockAt
    /\ ~Taken(r, Wanted(r))
    /\ Passes(r)
    /\ tx' = [tx EXCEPT ![r] = [Step(r) EXCEPT !.held = @ \union {Wanted(r)}]]
    /\ UNCHANGED rowVars

-----------------------------------------------------------------------------
(* Statements that look up and decide *)

(* The hash proves nothing else yet; several payouts of one bounty may be  *)
(* sent with one transaction.                                              *)
Unused(r) ==
    LET h == tx[r].hash
    IN  /\ tx[r].at \in {"payouts", "all"} =>
             \A p \in Payouts : payHash[p] = h =>
                 tx[r].kind = "pay" /\ BountyOf[p] = tx[r].bounty
        /\ tx[r].at \in {"deposits", "all"} => \A b \in Bounties : depositHash[b] # h
        /\ tx[r].at \in {"refunds", "all"} => \A b \in Bounties : refundHash[b] # h

Look(r) ==
    /\ tx[r].at \in LookAt
    /\ Unused(r)
    /\ tx' = [tx EXCEPT ![r] = Step(r)]
    /\ UNCHANGED rowVars

Insert(r) ==
    /\ At(r, "insert")
    /\ pay[tx[r].payout] = "NONE"
    /\ Allocated(tx[r].bounty) < Cap[tx[r].bounty]
    /\ tx' = [tx EXCEPT ![r] = Step(r)]
    /\ UNCHANGED rowVars

(* While nothing is paid the UPDATE finds no row, and the status stays.    *)
Recomputed(b, paid, unsettled) ==
    IF paid = {} THEN reward[b] ELSE StatusFor(b, paid, unsettled)

(* The transaction sees its own payout, the others as they are committed.  *)
Recompute(r) ==
    LET b == tx[r].bounty
        own == {tx[r].payout}
        paid == With(b, {"PAID"})
        unsettled == With(b, UnsettledStatuses)
    IN  /\ At(r, "recompute")
        /\ tx' = [tx EXCEPT ![r] = [Step(r) EXCEPT !.status =
                     IF tx[r].kind = "pay"
                     THEN Recomputed(b, paid \union own, unsettled \ own)
                     ELSE Recomputed(b, paid, unsettled \union own)]]
        /\ UNCHANGED rowVars

Blockers(r) ==
    /\ At(r, "blockers")
    /\ CASE tx[r].status = "OPEN" ->
              /\ bounty[tx[r].bounty] = "FUNDING_PENDING"
              /\ reward[tx[r].bounty] \in PayableStatuses
         [] OTHER -> /\ bounty[tx[r].bounty] \in {"FUNDING_PENDING", "OPEN"}
                     /\ ~UnpaidWinners(tx[r].bounty)
    /\ tx' = [tx EXCEPT ![r] = Step(r)]
    /\ UNCHANGED rowVars

-----------------------------------------------------------------------------
(* The end of a transaction *)

End(r) == tx' = [tx EXCEPT ![r] = Idle]

(* The unique index keeps a second deposit with the hash out.              *)
Deposited(r) ==
    /\ At(r, "commit") /\ tx[r].kind = "deposit"
    /\ \A b \in Bounties : depositHash[b] # tx[r].hash
    /\ reward' = [reward EXCEPT ![tx[r].bounty] = "FUNDED"]
    /\ depositHash' = [depositHash EXCEPT ![tx[r].bounty] = tx[r].hash]
    /\ End(r)
    /\ UNCHANGED <<bounty, refundHash, pay, payHash>>

(* A reward that is not payable keeps its status.                          *)
Advanced(r) ==
    reward' = [reward EXCEPT ![tx[r].bounty] =
                 IF @ \in PayableStatuses THEN tx[r].status ELSE @]

Paid(r) ==
    /\ At(r, "commit") /\ tx[r].kind = "pay"
    /\ pay' = [pay EXCEPT ![tx[r].payout] = "PAID"]
    /\ payHash' = [payHash EXCEPT ![tx[r].payout] = tx[r].hash]
    /\ Advanced(r)
    /\ End(r)
    /\ UNCHANGED <<bounty, depositHash, refundHash>>

Requested(r) ==
    /\ At(r, "commit") /\ tx[r].kind = "request"
    /\ pay' = [pay EXCEPT ![tx[r].payout] = "REQUESTED"]
    /\ Advanced(r)
    /\ End(r)
    /\ UNCHANGED <<bounty, depositHash, refundHash, payHash>>

Refunded(r) ==
    /\ At(r, "commit") /\ tx[r].kind = "refund"
    /\ reward' = [reward EXCEPT ![tx[r].bounty] = "REFUNDED"]
    /\ refundHash' = [refundHash EXCEPT ![tx[r].bounty] = tx[r].hash]
    /\ End(r)
    /\ UNCHANGED <<bounty, depositHash, pay, payHash>>

Moved(r) ==
    /\ At(r, "commit") /\ tx[r].kind = "move"
    /\ bounty' = [bounty EXCEPT ![tx[r].bounty] = tx[r].status]
    /\ End(r)
    /\ UNCHANGED <<reward, depositHash, refundHash, pay, payHash>>

(* A refusal, a lost connection, a timeout.                                *)
Abort(r) ==
    /\ tx[r] # Idle
    /\ End(r)
    /\ UNCHANGED rowVars

(* One row is locked, approved and committed.                              *)
MarkApproved(p) ==
    /\ pay[p] = "REQUESTED"
    /\ \A r \in Requests : tx[r] # Idle => <<"payout", p>> \notin tx[r].held
    /\ pay' = [pay EXCEPT ![p] = "APPROVED"]
    /\ UNCHANGED <<bounty, reward, depositHash, refundHash, payHash, tx>>

-----------------------------------------------------------------------------

Begins(r) ==
    \/ \E b \in Bounties, h \in Hashes : ConfirmDeposit(r, b, h) \/ RecordRefund(r, b, h)
    \/ \E p \in Payouts : RequestPayout(r, p) \/ \E h \in Hashes : MarkPaid(r, p, h)
    \/ \E b \in Bounties, to \in {"OPEN", "CANCELLED"} : Transition(r, b, to)

Proceeds(r) == Lock(r) \/ Look(r) \/ Insert(r) \/ Recompute(r) \/ Blockers(r) \/ Abort(r)

Commits(r) == Deposited(r) \/ Paid(r) \/ Requested(r) \/ Refunded(r) \/ Moved(r)

Next ==
    \/ \E r \in Requests : Begins(r) \/ Proceeds(r) \/ Commits(r)
    \/ \E p \in Payouts : MarkApproved(p)

Spec == Init /\ [][Next]_vars

-----------------------------------------------------------------------------
(* Safety *)

Uses(h) ==
    {<<"deposit", b>> : b \in {c \in Bounties : depositHash[c] = h}}
    \union {<<"refund", b>> : b \in {c \in Bounties : refundHash[c] = h}}
    \union {<<"payment", BountyOf[p]>> : p \in {q \in Payouts : payHash[q] = h}}

(* A transaction on the chain proves one thing: the deposit of a bounty,   *)
(* the refund of one or payments of one, whoever else records the same     *)
(* hash at the same time.  Only deposits have a unique index; the rest is  *)
(* look-ups under the lock of the hash (rewards.service.ts:196).           *)
HashProvesOnce == \A h \in Hashes : \A x, y \in Uses(h) : x = y

(* A payable reward has the status its payouts give it, although payouts   *)
(* of it are requested and paid at the same time and each recomputes the   *)
(* status from what it can see (rewards.service.ts:306).                   *)
RewardFollowsPayouts ==
    \A b \in Bounties : reward[b] \in PayableStatuses =>
        reward[b] = StatusFor(b, With(b, {"PAID"}), With(b, UnsettledStatuses))

(* However many payouts of one reward are requested at the same time, each *)
(* counting what is allocated before it inserts its own, there is never    *)
(* more allocated than there is (rewards.service.ts:134).                  *)
AllocationsWithinCap == \A b \in Bounties : Allocated(b) =< Cap[b]

(* A payout requested while its bounty is being cancelled either keeps it  *)
(* from being cancelled or is refused (bounty-lifecycle.service.ts:59).    *)
CancelledHasNoOpenPayout ==
    \A b \in Bounties : bounty[b] = "CANCELLED" => With(b, UnsettledStatuses) = {}

WaitsFor(r, q) ==
    /\ q # r /\ tx[q] # Idle
    /\ tx[r].at \in LockAt
    /\ \E m \in tx[q].held : Clash(Wanted(r), m)

(* No transactions about money wait for each other in a ring: hash before  *)
(* payout, bounty before reward (record-refund.js:11), and the lock that   *)
(* a foreign key takes on the bounty comes before the one on the reward.   *)
NoCircularWait ==
    \A ring \in (SUBSET Requests) \ {{}} :
        \E r \in ring : \A q \in ring : ~WaitsFor(r, q)

-----------------------------------------------------------------------------
(* Seen from the rows, every transaction happens when it commits.          *)
Steps == INSTANCE MoneySteps

(* Whatever the transactions do to each other while they are under way,    *)
(* the rows change as if each had run alone at the moment it commits:      *)
(* nothing it has read is out of date then.  BountyFlow, and everything    *)
(* that takes a handler for one step, rests on this.                       *)
ActsAtCommit == Steps!Spec

=============================================================================
