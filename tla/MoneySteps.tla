---------------------------- MODULE MoneySteps ----------------------------
(***************************************************************************)
(* The money transactions, each as one step that reads, decides and writes *)
(* at once: the way BountyFlow takes them, and the way an operator who     *)
(* reads the handlers takes them.                                          *)
(***************************************************************************)
EXTENDS MoneyRows

(* The transaction on the chain proves nothing yet, unless it paid other   *)
(* winners of the bounty together with this one.                           *)
Unused(h) ==
    /\ \A p \in Payouts : payHash[p] # h
    /\ \A b \in Bounties : depositHash[b] # h /\ refundHash[b] # h

UnusedElsewhere(h, b) ==
    /\ \A p \in Payouts : payHash[p] = h => BountyOf[p] = b
    /\ \A c \in Bounties : depositHash[c] # h /\ refundHash[c] # h

(* The status the reward has after the payouts changed.                    *)
Advanced(b) ==
    reward' = [reward EXCEPT ![b] =
                 IF @ \in PayableStatuses
                 THEN StatusFor(b, With(b, {"PAID"})', With(b, UnsettledStatuses)')
                 ELSE @]

ConfirmDeposit(b, h) ==
    /\ reward[b] = "DEPOSIT_PENDING"
    /\ Unused(h)
    /\ reward' = [reward EXCEPT ![b] = "FUNDED"]
    /\ depositHash' = [depositHash EXCEPT ![b] = h]
    /\ UNCHANGED <<bounty, refundHash, pay, payHash>>

RequestPayout(p) ==
    LET b == BountyOf[p]
    IN  /\ bounty[b] = "OPEN"
        /\ reward[b] \in PayableStatuses
        /\ pay[p] = "NONE"
        /\ Allocated(b) < Cap[b]
        /\ pay' = [pay EXCEPT ![p] = "REQUESTED"]
        /\ Advanced(b)
        /\ UNCHANGED <<bounty, depositHash, refundHash, payHash>>

MarkApproved(p) ==
    /\ pay[p] = "REQUESTED"
    /\ pay' = [pay EXCEPT ![p] = "APPROVED"]
    /\ UNCHANGED <<bounty, reward, depositHash, refundHash, payHash>>

MarkPaid(p, h) ==
    /\ pay[p] = "APPROVED"
    /\ UnusedElsewhere(h, BountyOf[p])
    /\ pay' = [pay EXCEPT ![p] = "PAID"]
    /\ payHash' = [payHash EXCEPT ![p] = h]
    /\ Advanced(BountyOf[p])
    /\ UNCHANGED <<bounty, depositHash, refundHash>>

RecordRefund(b, h) ==
    /\ bounty[b] = "CANCELLED"
    /\ reward[b] \in PayableStatuses
    /\ With(b, UnsettledStatuses) = {}
    /\ Deposit[b] > Cardinality(With(b, {"PAID"}))
    /\ Unused(h)
    /\ reward' = [reward EXCEPT ![b] = "REFUNDED"]
    /\ refundHash' = [refundHash EXCEPT ![b] = h]
    /\ UNCHANGED <<bounty, depositHash, pay, payHash>>

Open(b) ==
    /\ bounty[b] = "FUNDING_PENDING"
    /\ reward[b] \in PayableStatuses
    /\ bounty' = [bounty EXCEPT ![b] = "OPEN"]
    /\ UNCHANGED <<reward, depositHash, refundHash, pay, payHash>>

Cancel(b) ==
    /\ bounty[b] \in {"FUNDING_PENDING", "OPEN"}
    /\ ~UnpaidWinners(b)
    /\ bounty' = [bounty EXCEPT ![b] = "CANCELLED"]
    /\ UNCHANGED <<reward, depositHash, refundHash, pay, payHash>>

Next ==
    \/ \E b \in Bounties :
         \/ Open(b) \/ Cancel(b)
         \/ \E h \in Hashes : ConfirmDeposit(b, h) \/ RecordRefund(b, h)
    \/ \E p \in Payouts :
         \/ RequestPayout(p) \/ MarkApproved(p)
         \/ \E h \in Hashes : MarkPaid(p, h)

Spec == Published /\ [][Next]_rowVars

=============================================================================
