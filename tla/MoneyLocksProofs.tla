-------------------------- MODULE MoneyLocksProofs --------------------------
(* Theorems about MoneyLocks, for any number of bounties, payouts, hashes  *)
(* and transactions.                                                       *)
EXTENDS MoneyLocks, FiniteSetTheorems, TLAPS

(* What a transaction holds before the statement it has reached.           *)
DepositHolds ==
    [hash |-> {}, payouts |-> {"hash"}, refunds |-> {"hash"}, bounty |-> {"hash"},
     reward |-> {"hash", "bounty"}, commit |-> {"hash", "bounty", "reward"}]
PayHolds ==
    [hash |-> {}, payout |-> {"hash"}, payouts |-> {"hash", "payout"},
     deposits |-> {"hash", "payout"}, refunds |-> {"hash", "payout"},
     key |-> {"hash", "payout"}, reward |-> {"hash", "payout", "key"},
     recompute |-> {"hash", "payout", "key", "reward"},
     commit |-> {"hash", "payout", "key", "reward"}]
RefundHolds ==
    [hash |-> {}, bounty |-> {"hash"}, reward |-> {"hash", "bounty"},
     all |-> {"hash", "bounty", "reward"}, commit |-> {"hash", "bounty", "reward"}]
RequestHolds ==
    [bounty |-> {}, reward |-> {"bounty"}, insert |-> {"bounty", "reward"},
     recompute |-> {"bounty", "reward"}, commit |-> {"bounty", "reward"}]
MoveHolds == [bounty |-> {}, blockers |-> {"bounty"}, commit |-> {"bounty"}]

Before == [deposit |-> DepositHolds, pay |-> PayHolds, refund |-> RefundHolds,
           request |-> RequestHolds, move |-> MoveHolds]

Holds(r) == Before[tx[r].kind][tx[r].at]

LockOf(t, c) == CASE c = "hash" -> <<"hash", t.hash>>
                  [] c = "payout" -> <<"payout", t.payout>>
                  [] OTHER -> <<c, t.bounty>>

(* A hash proves one thing in the tables.                                  *)
HashRow(h) ==
    /\ \A b, c \in Bounties : depositHash[b] = h /\ depositHash[c] = h => b = c
    /\ \A b, c \in Bounties : refundHash[b] = h /\ refundHash[c] = h => b = c
    /\ \A b, c \in Bounties : ~(depositHash[b] = h /\ refundHash[c] = h)
    /\ \A p, q \in Payouts : payHash[p] = h /\ payHash[q] = h => BountyOf[p] = BountyOf[q]
    /\ \A b \in Bounties, p \in Payouts :
         payHash[p] = h => depositHash[b] # h /\ refundHash[b] # h

(* A reward has no payouts before its deposit, and then the status that    *)
(* these give it.                                                          *)
RewardRow(b) ==
    /\ reward[b] = "DEPOSIT_PENDING" => \A p \in Payouts : BountyOf[p] = b => pay[p] = "NONE"
    /\ reward[b] \in PayableStatuses =>
         reward[b] = StatusFor(b, With(b, {"PAID"}), With(b, UnsettledStatuses))

(* What a transaction has found of its hash stays true: whoever records    *)
(* that hash needs the lock of it.                                         *)
HashKnown(r) ==
    LET h == tx[r].hash
    IN  /\ /\ tx[r].kind = "deposit"
           /\ tx[r].at \in {"refunds", "bounty", "reward", "commit"}
           => \A p \in Payouts : payHash[p] # h
        /\ /\ tx[r].kind = "pay"
           /\ tx[r].at \in {"deposits", "refunds", "key", "reward", "recompute", "commit"}
           => \A p \in Payouts : payHash[p] = h => BountyOf[p] = tx[r].bounty
        /\ /\ tx[r].kind = "pay"
           /\ tx[r].at \in {"refunds", "key", "reward", "recompute", "commit"}
           => \A b \in Bounties : depositHash[b] # h
        /\ \/ tx[r].kind = "deposit" /\ tx[r].at \in {"bounty", "reward", "commit"}
           \/ /\ tx[r].kind = "pay"
              /\ tx[r].at \in {"key", "reward", "recompute", "commit"}
           => \A b \in Bounties : refundHash[b] # h
        /\ tx[r].kind = "refund" /\ At(r, "commit") =>
             /\ \A p \in Payouts : payHash[p] # h
             /\ \A b \in Bounties : depositHash[b] # h /\ refundHash[b] # h

(* The same of the rows it has locked.                                     *)
RowKnown(r) ==
    LET b == tx[r].bounty
        p == tx[r].payout
    IN  /\ tx[r].kind = "move" => tx[r].status \in BountyStatuses
        /\ tx[r].kind = "deposit" /\ At(r, "commit") => reward[b] = "DEPOSIT_PENDING"
        /\ tx[r].kind = "pay" /\ tx[r].at \notin {"hash", "payout"} => pay[p] = "APPROVED"
        /\ tx[r].kind = "request" /\ tx[r].at \in {"insert", "recompute", "commit"}
           => reward[b] \in PayableStatuses
        /\ tx[r].kind = "request" /\ tx[r].at \in {"recompute", "commit"} => pay[p] = "NONE"

(* ... and the status it has computed is the one its commit brings about.  *)
StatusKnown(r) ==
    LET b == tx[r].bounty
        own == {tx[r].payout}
    IN  At(r, "commit") =>
          /\ tx[r].kind = "pay" => tx[r].status =
               StatusFor(b, With(b, {"PAID"}) \union own, With(b, UnsettledStatuses) \ own)
          /\ tx[r].kind = "request" => tx[r].status =
               StatusFor(b, With(b, {"PAID"}), With(b, UnsettledStatuses) \union own)

Mine(r) ==
    tx[r] # Idle => /\ tx[r].held = {LockOf(tx[r], c) : c \in Holds(r)}
                    /\ HashKnown(r) /\ RowKnown(r) /\ StatusKnown(r)

Apart(r, q) ==
    tx[r] # Idle /\ tx[q] # Idle
    => \A l \in tx[r].held, m \in tx[q].held : ~Clash(l, m)

Inv ==
    /\ TypeOK
    /\ \A h \in Hashes : HashRow(h)
    /\ \A b \in Bounties : RewardRow(b)
    /\ \A r \in Requests : Mine(r)
    /\ \A r, q \in Requests : r # q => Apart(r, q)

-----------------------------------------------------------------------------
(* The order of the statements *)

Kinds == {"deposit", "pay", "refund", "request", "move"}

LEMMA ThenKinds == DOMAIN Then = Kinds
<1> QED BY DEF Then, Kinds

(* A statement is followed by one of the same transaction, and what is     *)
(* held then is what was held and the lock the statement took.             *)
Follows(kind, at) ==
    /\ Then[kind][at] \in DOMAIN Then[kind] \union {"commit"}
    /\ Then[kind][at] \in LockAt \union LookAt \union
                           {"insert", "recompute", "blockers", "commit"}
    /\ at # "commit"
    /\ at \in LockAt => Before[kind][Then[kind][at]] = Before[kind][at] \union {at}
    /\ at \notin LockAt => Before[kind][Then[kind][at]] = Before[kind][at]

LEMMA ThenHolds ==
    ASSUME NEW kind \in Kinds, NEW at \in DOMAIN Then[kind]
    PROVE  Follows(kind, at)
<1> USE DEF Follows, LockAt, LookAt
<1>1. CASE kind = "deposit"
  <2>1. Then[kind] = DepositOrder /\ Before[kind] = DepositHolds
    BY <1>1 DEF Then, Before
  <2> QED BY <1>1, <2>1 DEF DepositOrder, DepositHolds
<1>2. CASE kind = "pay"
  <2>1. Then[kind] = PayOrder /\ Before[kind] = PayHolds
    BY <1>2 DEF Then, Before
  <2> QED BY <1>2, <2>1 DEF PayOrder, PayHolds
<1>3. CASE kind = "refund"
  <2>1. Then[kind] = RefundOrder /\ Before[kind] = RefundHolds
    BY <1>3 DEF Then, Before
  <2> QED BY <1>3, <2>1 DEF RefundOrder, RefundHolds
<1>4. CASE kind = "request"
  <2>1. Then[kind] = RequestOrder /\ Before[kind] = RequestHolds
    BY <1>4 DEF Then, Before
  <2> QED BY <1>4, <2>1 DEF RequestOrder, RequestHolds
<1>5. CASE kind = "move"
  <2>1. Then[kind] = MoveOrder /\ Before[kind] = MoveHolds
    BY <1>5 DEF Then, Before
  <2> QED BY <1>5, <2>1 DEF MoveOrder, MoveHolds
<1> QED BY <1>1, <1>2, <1>3, <1>4, <1>5 DEF Kinds

(* Which locks a transaction has where it matters.                         *)
Keeps(kind, at) ==
    /\ kind \in {"deposit", "pay", "refund"} /\ at # "hash" => "hash" \in Before[kind][at]
    /\ kind = "pay" /\ at \notin {"hash", "payout"} => "payout" \in Before[kind][at]
    /\ kind = "pay" /\ at \in {"recompute", "commit"} => "reward" \in Before[kind][at]
    /\ kind = "request" /\ at \notin {"bounty", "reward"} => "reward" \in Before[kind][at]
    /\ kind # "move" /\ at = "commit" => "reward" \in Before[kind][at]
    /\ at = "hash" => kind \in {"deposit", "pay", "refund"}
    /\ at = "payout" => kind = "pay"

LEMMA WhatIsKept ==
    ASSUME NEW kind \in Kinds, NEW at \in DOMAIN Then[kind] \union {"commit"}
    PROVE  Keeps(kind, at)
<1> USE DEF Keeps
<1>1. CASE kind = "deposit"
  <2>1. Then[kind] = DepositOrder /\ Before[kind] = DepositHolds
    BY <1>1 DEF Then, Before
  <2> QED BY <1>1, <2>1 DEF DepositOrder, DepositHolds
<1>2. CASE kind = "pay"
  <2>1. Then[kind] = PayOrder /\ Before[kind] = PayHolds
    BY <1>2 DEF Then, Before
  <2> QED BY <1>2, <2>1 DEF PayOrder, PayHolds
<1>3. CASE kind = "refund"
  <2>1. Then[kind] = RefundOrder /\ Before[kind] = RefundHolds
    BY <1>3 DEF Then, Before
  <2> QED BY <1>3, <2>1 DEF RefundOrder, RefundHolds
<1>4. CASE kind = "request"
  <2>1. Then[kind] = RequestOrder /\ Before[kind] = RequestHolds
    BY <1>4 DEF Then, Before
  <2> QED BY <1>4, <2>1 DEF RequestOrder, RequestHolds
<1>5. CASE kind = "move"
  <2>1. Then[kind] = MoveOrder /\ Before[kind] = MoveHolds
    BY <1>5 DEF Then, Before
  <2> QED BY <1>5, <2>1 DEF MoveOrder, MoveHolds
<1> QED BY <1>1, <1>2, <1>3, <1>4, <1>5 DEF Kinds

LEMMA FirstHolds ==
    ASSUME NEW kind \in Kinds
    PROVE  /\ First[kind] \in DOMAIN Then[kind] /\ First[kind] \in LockAt
           /\ Before[kind][First[kind]] = {}
<1> QED BY DEF Kinds, First, LockAt, Then, DepositOrder, PayOrder, RefundOrder, RequestOrder,
              MoveOrder, Before, DepositHolds, PayHolds, RefundHolds, RequestHolds, MoveHolds

-----------------------------------------------------------------------------
(* Transactions that are apart *)

LEMMA Placed ==
    ASSUME Inv, NEW r \in Requests, tx[r] # Idle
    PROVE  /\ tx[r] \in Transactions /\ tx[r].kind \in Kinds
           /\ tx[r].at \in DOMAIN Then[tx[r].kind] \union {"commit"}
           /\ Keeps(tx[r].kind, tx[r].at)
           /\ Mine(r)
<1>1. tx[r] \in Transactions /\ tx[r].at \in DOMAIN Then[tx[r].kind] \union {"commit"}
  BY DEF Inv, TypeOK
<1>2. tx[r].kind \in Kinds
  BY <1>1, ThenKinds DEF Transactions
<1> QED BY <1>1, <1>2, WhatIsKept DEF Inv

LEMMA Exclusion ==
    ASSUME Inv, NEW r \in Requests, NEW q \in Requests, r # q, tx[r] # Idle, tx[q] # Idle
    PROVE  /\ "hash" \in Holds(r) /\ "hash" \in Holds(q) => tx[r].hash # tx[q].hash
           /\ "payout" \in Holds(r) /\ "payout" \in Holds(q) => tx[r].payout # tx[q].payout
           /\ "reward" \in Holds(r) /\ "reward" \in Holds(q) => tx[r].bounty # tx[q].bounty
<1>1. /\ tx[r].held = {LockOf(tx[r], c) : c \in Holds(r)}
      /\ tx[q].held = {LockOf(tx[q], c) : c \in Holds(q)}
  BY Placed DEF Mine
<1>2. \A l \in tx[r].held, m \in tx[q].held : ~Clash(l, m)
  BY DEF Inv, Apart
<1>3. \A c \in Holds(r), d \in Holds(q) : ~Clash(LockOf(tx[r], c), LockOf(tx[q], d))
  BY <1>1, <1>2
<1> QED BY <1>3 DEF Clash, LockOf

-----------------------------------------------------------------------------
(* Steps that write no row *)

(* The rows are the same, so what holds of the other transactions still    *)
(* holds, and one has to look at the one that moves only.                  *)
LEMMA QuietStep ==
    ASSUME Inv, NEW r \in Requests, NEW t, UNCHANGED rowVars, tx' = [tx EXCEPT ![r] = t],
           TypeOK', Mine(r)', \A q \in Requests \ {r} : Apart(r, q)'
    PROVE  Inv'
<1> USE DEF rowVars
<1>1. tx'[r] = t /\ \A q \in Requests \ {r} : tx'[q] = tx[q]
  BY DEF Inv, TypeOK
<1>2. \A h \in Hashes : HashRow(h)'
  BY DEF Inv, HashRow
<1>3. \A b \in Bounties : RewardRow(b)'
  BY DEF Inv, RewardRow, StatusFor, With
<1>4. ASSUME NEW q \in Requests \ {r} PROVE Mine(q)'
  <2>1. tx'[q] = tx[q] /\ Mine(q)
    BY <1>1 DEF Inv
  <2>2. tx[q] # Idle => tx[q]'.held = {LockOf(tx[q]', c) : c \in Holds(q)'}
    BY <2>1 DEF Mine, Holds
  <2>3. HashKnown(q) => HashKnown(q)'
    BY <2>1 DEF HashKnown, At
  <2>4. RowKnown(q) => RowKnown(q)'
    BY <2>1 DEF RowKnown, At
  <2>5. StatusKnown(q) => StatusKnown(q)'
    BY <2>1 DEF StatusKnown, At, StatusFor, With
  <2> QED BY <2>1, <2>2, <2>3, <2>4, <2>5 DEF Mine
<1>5. ASSUME NEW p \in Requests, NEW q \in Requests, p # q PROVE Apart(p, q)'
  <2>1. CASE p = r
    BY <2>1, <1>5
  <2>2. CASE q = r
    <3>1. Apart(q, p)'
      BY <2>2, <1>5
    <3>2. \A l, m : Clash(l, m) => Clash(m, l)
      BY DEF Clash
    <3> QED BY <3>1, <3>2 DEF Apart
  <2>3. CASE p # r /\ q # r
    <3>1. tx'[p] = tx[p] /\ tx'[q] = tx[q]
      BY <1>1, <2>3
    <3> QED BY <3>1, <1>5 DEF Inv, Apart
  <2> QED BY <2>1, <2>2, <2>3
<1> QED BY <1>1, <1>2, <1>3, <1>4, <1>5 DEF Inv

LEMMA AbortStep ==
    ASSUME Inv, NEW r \in Requests, Abort(r)
    PROVE  Inv'
<1>1. tx'[r] = Idle
  BY DEF Inv, TypeOK, Abort, End
<1>2. TypeOK'
  BY DEF Inv, TypeOK, Abort, End, rowVars
<1>3. Mine(r)' /\ \A q \in Requests \ {r} : Apart(r, q)'
  BY <1>1 DEF Mine, Apart
<1> QED BY <1>2, <1>3, QuietStep DEF Abort, End

LEMMA BeginStep ==
    ASSUME Inv, NEW r \in Requests, NEW kind \in Kinds, NEW h \in Hashes \union {None},
           NEW p \in Payouts \union {None}, NEW b \in Bounties,
           NEW status \in BountyStatuses \union RewardStatuses,
           kind = "move" => status \in BountyStatuses,
           kind \in {"deposit", "pay", "refund"} => h \in Hashes,
           kind \in {"pay", "request"} => p \in Payouts /\ b = BountyOf[p],
           Begin(r, kind, h, p, b, status)
    PROVE  Inv'
<1> DEFINE t == [kind |-> kind, at |-> First[kind], hash |-> h, payout |-> p,
                 bounty |-> b, status |-> status, held |-> {}]
<1>1. tx' = [tx EXCEPT ![r] = t] /\ UNCHANGED rowVars /\ tx'[r] = t
  BY DEF Begin, Inv, TypeOK
<1>2. t \in Transactions
  BY FirstHolds, ThenKinds DEF Transactions
<1>3. TypeOK'
  <2>1. /\ t.at \in DOMAIN Then[t.kind] \union {"commit"}
        /\ t.kind \in {"deposit", "pay", "refund"} => t.hash \in Hashes
        /\ t.kind \in {"pay", "request"} => t.payout \in Payouts /\ t.bounty = BountyOf[t.payout]
    BY FirstHolds
  <2> HIDE DEF t
  <2> QED BY <1>1, <1>2, <2>1 DEF Inv, TypeOK, rowVars
<1>4. Mine(r)'
  <2>1. tx'[r].held = {LockOf(tx[r]', c) : c \in Holds(r)'}
    BY <1>1, FirstHolds DEF Holds
  <2>2. HashKnown(r)' /\ RowKnown(r)' /\ StatusKnown(r)'
    BY <1>1 DEF HashKnown, RowKnown, StatusKnown, At, First, Kinds
  <2> QED BY <2>1, <2>2 DEF Mine
<1>5. \A q \in Requests \ {r} : Apart(r, q)'
  BY <1>1 DEF Apart
<1> HIDE DEF t
<1> QED BY <1>1, <1>3, <1>4, <1>5, QuietStep

LEMMA BeginsStep ==
    ASSUME Inv, NEW r \in Requests, Begins(r)
    PROVE  Inv'
<1> USE MoneyAssumption DEF Kinds, BountyStatuses, RewardStatuses, PayableStatuses
<1>1. ASSUME NEW b \in Bounties, NEW h \in Hashes, ConfirmDeposit(r, b, h) PROVE Inv'
  BY <1>1, BeginStep DEF ConfirmDeposit
<1>2. ASSUME NEW b \in Bounties, NEW h \in Hashes, RecordRefund(r, b, h) PROVE Inv'
  BY <1>2, BeginStep DEF RecordRefund
<1>3. ASSUME NEW p \in Payouts, RequestPayout(r, p) PROVE Inv'
  BY <1>3, BeginStep DEF RequestPayout
<1>4. ASSUME NEW p \in Payouts, NEW h \in Hashes, MarkPaid(r, p, h) PROVE Inv'
  BY <1>4, BeginStep DEF MarkPaid
<1>5. ASSUME NEW b \in Bounties, NEW to \in {"OPEN", "CANCELLED"}, Transition(r, b, to)
      PROVE  Inv'
  BY <1>5, BeginStep DEF Transition
<1> QED BY <1>1, <1>2, <1>3, <1>4, <1>5 DEF Begins

(* A transaction that goes on to its next statement, with the locks it     *)
(* needs there.                                                            *)
LEMMA Onward ==
    ASSUME Inv, NEW r \in Requests, tx[r] # Idle, tx[r].at # "commit",
           NEW locks \in SUBSET Locks, NEW status \in BountyStatuses \union RewardStatuses,
           UNCHANGED rowVars,
           tx' = [tx EXCEPT ![r] = [Step(r) EXCEPT !.held = locks, !.status = status]],
           locks = {LockOf(tx[r], c) :
                      c \in Before[tx[r].kind][Then[tx[r].kind][tx[r].at]]},
           HashKnown(r)', RowKnown(r)', StatusKnown(r)',
           \A q \in Requests \ {r} : Apart(r, q)'
    PROVE  Inv'
<1> DEFINE t == [Step(r) EXCEPT !.held = locks, !.status = status]
<1>1. tx[r] \in Transactions /\ tx[r].kind \in Kinds /\ Follows(tx[r].kind, tx[r].at)
  BY Placed, ThenHolds
<1>2. /\ t \in Transactions
      /\ t.kind = tx[r].kind /\ t.at = Then[tx[r].kind][tx[r].at] /\ t.hash = tx[r].hash
      /\ t.payout = tx[r].payout /\ t.bounty = tx[r].bounty /\ t.held = locks
  BY <1>1 DEF Step, Transactions, Follows
<1> HIDE DEF t
<1>3. tx' = [tx EXCEPT ![r] = t] /\ tx'[r] = t
  BY DEF Inv, TypeOK, t
<1>4. TypeOK'
  <2>1. /\ t.at \in DOMAIN Then[t.kind] \union {"commit"}
        /\ t.kind \in {"deposit", "pay", "refund"} => t.hash \in Hashes
        /\ t.kind \in {"pay", "request"} => t.payout \in Payouts /\ t.bounty = BountyOf[t.payout]
    BY <1>1, <1>2 DEF Inv, TypeOK, Follows
  <2> QED BY <1>2, <1>3, <2>1 DEF Inv, TypeOK, rowVars
<1>5. Mine(r)'
  <2>1. \A c : LockOf(tx[r]', c) = LockOf(tx[r], c)
    BY <1>2, <1>3 DEF LockOf
  <2>2. Holds(r)' = Before[tx[r].kind][Then[tx[r].kind][tx[r].at]]
    BY <1>2, <1>3 DEF Holds
  <2>3. {LockOf(tx[r]', c) : c \in Holds(r)'} = {LockOf(tx[r], c) : c \in Holds(r)'}
    BY <2>1
  <2>4. tx'[r].held = {LockOf(tx[r]', c) : c \in Holds(r)'}
    BY <1>2, <1>3, <2>2, <2>3
  <2> QED BY <2>4 DEF Mine
<1> QED BY <1>3, <1>4, <1>5, QuietStep

LEMMA LockStep ==
    ASSUME Inv, NEW r \in Requests, Lock(r)
    PROVE  Inv'
<1> DEFINE locks == tx[r].held \union {Wanted(r)}
<1>1. tx[r] # Idle /\ tx[r].at \in LockAt /\ ~Taken(r, Wanted(r)) /\ Passes(r)
  BY DEF Lock, LockAt, Idle
<1>2. /\ tx[r] \in Transactions /\ tx[r].kind \in Kinds /\ tx[r].at # "commit"
      /\ tx[r].at \in DOMAIN Then[tx[r].kind] /\ Follows(tx[r].kind, tx[r].at) /\ Mine(r)
      /\ Keeps(tx[r].kind, tx[r].at)
  BY <1>1, Placed, ThenHolds DEF LockAt
<1>3. Wanted(r) = LockOf(tx[r], tx[r].at)
  BY <1>1, <1>2 DEF Wanted, LockOf, At, LockAt
<1>4. locks \in SUBSET Locks
  <2>1. Wanted(r) \in Locks
    BY <1>1, <1>2, <1>3 DEF Inv, TypeOK, Keeps, LockOf, LockAt, Locks, Transactions
  <2> QED BY <1>2, <2>1 DEF Transactions
<1>5. locks = {LockOf(tx[r], c) : c \in Before[tx[r].kind][Then[tx[r].kind][tx[r].at]]}
  BY <1>1, <1>2, <1>3 DEF Mine, Holds, Follows
<1>6. /\ UNCHANGED rowVars
      /\ tx' = [tx EXCEPT ![r] = [Step(r) EXCEPT !.held = locks, !.status = tx[r].status]]
  BY <1>2 DEF Lock, Step, Transactions
<1>7. \A q \in Requests \ {r} : Apart(r, q)'
  <2> SUFFICES ASSUME NEW q \in Requests \ {r}, tx[q] # Idle
               PROVE  Apart(r, q)'
    BY <1>6 DEF Apart, Inv, TypeOK
  <2>1. tx'[r].held = locks /\ tx'[q] = tx[q]
    BY <1>2, <1>6 DEF Inv, TypeOK, Step, Transactions
  <2>2. \A m \in tx[q].held : ~Clash(Wanted(r), m)
    BY <1>1 DEF Taken
  <2>3. \A l \in tx[r].held, m \in tx[q].held : ~Clash(l, m)
    BY <1>1 DEF Inv, Apart
  <2> QED BY <2>1, <2>2, <2>3 DEF Apart
<1>8. /\ tx'[r].kind = tx[r].kind /\ tx'[r].at = Then[tx[r].kind][tx[r].at]
      /\ tx'[r].hash = tx[r].hash /\ tx'[r].payout = tx[r].payout
      /\ tx'[r].bounty = tx[r].bounty /\ tx'[r].status = tx[r].status
  BY <1>2, <1>6 DEF Inv, TypeOK, Step, Transactions
<1>9. HashKnown(r)' /\ RowKnown(r)' /\ StatusKnown(r)'
  <2> USE <1>1, <1>2, <1>6, <1>8
      DEF Mine, HashKnown, RowKnown, StatusKnown, At, rowVars, LockAt, Passes
  <2>1. CASE tx[r].kind = "deposit"
    BY <2>1 DEF Then, DepositOrder
  <2>2. CASE tx[r].kind = "pay"
    BY <2>2 DEF Then, PayOrder
  <2>3. CASE tx[r].kind = "refund"
    BY <2>3 DEF Then, RefundOrder
  <2>4. CASE tx[r].kind = "request"
    BY <2>4 DEF Then, RequestOrder
  <2>5. CASE tx[r].kind = "move"
    BY <2>5 DEF Then, MoveOrder
  <2> QED BY <2>1, <2>2, <2>3, <2>4, <2>5 DEF Kinds
<1> HIDE DEF locks
<1> QED BY <1>1, <1>2, <1>4, <1>5, <1>6, <1>7, <1>9, Onward DEF Transactions

(* A statement that takes no lock.                                         *)
LEMMA Unlocking ==
    ASSUME Inv, NEW r \in Requests, tx[r] # Idle, tx[r].at # "commit", tx[r].at \notin LockAt,
           NEW status \in BountyStatuses \union RewardStatuses, UNCHANGED rowVars,
           tx' = [tx EXCEPT ![r] = [Step(r) EXCEPT !.status = status]],
           HashKnown(r)', RowKnown(r)', StatusKnown(r)'
    PROVE  Inv'
<1>1. /\ tx[r] \in Transactions /\ Follows(tx[r].kind, tx[r].at) /\ Mine(r)
  BY Placed, ThenHolds
<1>2. tx' = [tx EXCEPT ![r] = [Step(r) EXCEPT !.held = tx[r].held, !.status = status]]
  BY <1>1 DEF Step, Transactions
<1>3. tx[r].held = {LockOf(tx[r], c) : c \in Before[tx[r].kind][Then[tx[r].kind][tx[r].at]]}
  BY <1>1 DEF Mine, Holds, Follows
<1>4. \A q \in Requests \ {r} : Apart(r, q)'
  <2> SUFFICES ASSUME NEW q \in Requests \ {r}, tx[q] # Idle
               PROVE  Apart(r, q)'
    BY DEF Apart, Inv, TypeOK
  <2>1. tx'[r].held = tx[r].held /\ tx'[q] = tx[q]
    BY <1>1, <1>2 DEF Inv, TypeOK, Step, Transactions
  <2>2. \A l \in tx[r].held, m \in tx[q].held : ~Clash(l, m)
    BY DEF Inv, Apart
  <2> QED BY <2>1, <2>2 DEF Apart
<1> QED BY <1>1, <1>2, <1>3, <1>4, Onward DEF Transactions

(* Where a transaction is after such a statement.                          *)
LEMMA Fields ==
    ASSUME Inv, NEW r \in Requests, tx[r] # Idle,
           NEW status \in BountyStatuses \union RewardStatuses,
           tx' = [tx EXCEPT ![r] = [Step(r) EXCEPT !.status = status]]
    PROVE  /\ tx'[r].kind = tx[r].kind /\ tx'[r].at = Then[tx[r].kind][tx[r].at]
           /\ tx'[r].hash = tx[r].hash /\ tx'[r].payout = tx[r].payout
           /\ tx'[r].bounty = tx[r].bounty /\ tx'[r].status = status
<1>1. tx[r] \in Transactions
  BY Placed
<1> QED BY <1>1 DEF Inv, TypeOK, Step, Transactions

LEMMA LookStep ==
    ASSUME Inv, NEW r \in Requests, Look(r)
    PROVE  Inv'
<1>1. tx[r] # Idle /\ tx[r].at \in LookAt /\ Unused(r) /\ UNCHANGED rowVars
  BY DEF Look, LookAt, Idle
<1>2. /\ tx[r] \in Transactions /\ tx[r].kind \in Kinds
      /\ tx[r].at \in DOMAIN Then[tx[r].kind] /\ Mine(r)
  BY <1>1, Placed DEF LookAt
<1>3. tx' = [tx EXCEPT ![r] = [Step(r) EXCEPT !.status = tx[r].status]]
  BY <1>2 DEF Look, Step, Transactions
<1>4. tx[r].status \in BountyStatuses \union RewardStatuses
  BY <1>2 DEF Transactions
<1>5. /\ tx'[r].kind = tx[r].kind /\ tx'[r].at = Then[tx[r].kind][tx[r].at]
      /\ tx'[r].hash = tx[r].hash /\ tx'[r].payout = tx[r].payout
      /\ tx'[r].bounty = tx[r].bounty /\ tx'[r].status = tx[r].status
  BY <1>1, <1>3, <1>4, Fields
<1>6. HashKnown(r)' /\ RowKnown(r)' /\ StatusKnown(r)'
  <2> USE <1>1, <1>2, <1>5
      DEF Mine, HashKnown, RowKnown, StatusKnown, At, rowVars, LookAt, Unused
  <2>1. CASE tx[r].kind = "deposit"
    BY <2>1 DEF Then, DepositOrder
  <2>2. CASE tx[r].kind = "pay"
    BY <2>2 DEF Then, PayOrder
  <2>3. CASE tx[r].kind = "refund"
    BY <2>3 DEF Then, RefundOrder
  <2>4. CASE tx[r].kind = "request"
    BY <2>4 DEF Then, RequestOrder
  <2>5. CASE tx[r].kind = "move"
    BY <2>5 DEF Then, MoveOrder
  <2> QED BY <2>1, <2>2, <2>3, <2>4, <2>5 DEF Kinds
<1> QED BY <1>1, <1>3, <1>4, <1>6, Unlocking DEF LookAt, LockAt

LEMMA InsertStep ==
    ASSUME Inv, NEW r \in Requests, Insert(r)
    PROVE  Inv'
<1>1. tx[r] # Idle /\ tx[r].at = "insert" /\ pay[tx[r].payout] = "NONE" /\ UNCHANGED rowVars
  BY DEF Insert, Idle, At
<1>2. /\ tx[r] \in Transactions /\ tx[r].kind \in Kinds
      /\ tx[r].at \in DOMAIN Then[tx[r].kind] /\ Mine(r)
  BY <1>1, Placed
<1>3. tx' = [tx EXCEPT ![r] = [Step(r) EXCEPT !.status = tx[r].status]]
  BY <1>2 DEF Insert, Step, Transactions
<1>4. tx[r].status \in BountyStatuses \union RewardStatuses
  BY <1>2 DEF Transactions
<1>5. /\ tx'[r].kind = tx[r].kind /\ tx'[r].at = Then[tx[r].kind][tx[r].at]
      /\ tx'[r].hash = tx[r].hash /\ tx'[r].payout = tx[r].payout
      /\ tx'[r].bounty = tx[r].bounty /\ tx'[r].status = tx[r].status
  BY <1>1, <1>3, <1>4, Fields
<1>6. tx[r].kind = "request"
  BY <1>1, <1>2 DEF Kinds, Then, DepositOrder, PayOrder, RefundOrder, MoveOrder
<1>7. HashKnown(r)' /\ RowKnown(r)' /\ StatusKnown(r)'
  BY <1>1, <1>2, <1>5, <1>6
     DEF Mine, HashKnown, RowKnown, StatusKnown, At, rowVars, Then, RequestOrder
<1> QED BY <1>1, <1>3, <1>4, <1>7, Unlocking DEF LockAt

LEMMA BlockersStep ==
    ASSUME Inv, NEW r \in Requests, Blockers(r)
    PROVE  Inv'
<1>1. tx[r] # Idle /\ tx[r].at = "blockers" /\ UNCHANGED rowVars
  BY DEF Blockers, Idle, At
<1>2. /\ tx[r] \in Transactions /\ tx[r].kind \in Kinds
      /\ tx[r].at \in DOMAIN Then[tx[r].kind] /\ Mine(r)
  BY <1>1, Placed
<1>3. tx' = [tx EXCEPT ![r] = [Step(r) EXCEPT !.status = tx[r].status]]
  BY <1>2 DEF Blockers, Step, Transactions
<1>4. tx[r].status \in BountyStatuses \union RewardStatuses
  BY <1>2 DEF Transactions
<1>5. /\ tx'[r].kind = tx[r].kind /\ tx'[r].at = Then[tx[r].kind][tx[r].at]
      /\ tx'[r].hash = tx[r].hash /\ tx'[r].payout = tx[r].payout
      /\ tx'[r].bounty = tx[r].bounty /\ tx'[r].status = tx[r].status
  BY <1>1, <1>3, <1>4, Fields
<1>6. tx[r].kind = "move"
  BY <1>1, <1>2 DEF Kinds, Then, DepositOrder, PayOrder, RefundOrder, RequestOrder
<1>7. HashKnown(r)' /\ RowKnown(r)' /\ StatusKnown(r)'
  BY <1>1, <1>2, <1>5, <1>6
     DEF Mine, HashKnown, RowKnown, StatusKnown, At, rowVars, Then, MoveOrder
<1> QED BY <1>1, <1>3, <1>4, <1>7, Unlocking DEF LockAt

LEMMA RecomputeStep ==
    ASSUME Inv, NEW r \in Requests, Recompute(r)
    PROVE  Inv'
<1> DEFINE own == {tx[r].payout}
           paid == With(tx[r].bounty, {"PAID"})
           unsettled == With(tx[r].bounty, UnsettledStatuses)
           status == IF tx[r].kind = "pay"
                     THEN Recomputed(tx[r].bounty, paid \union own, unsettled \ own)
                     ELSE Recomputed(tx[r].bounty, paid, unsettled \union own)
<1>1. tx[r] # Idle /\ tx[r].at = "recompute" /\ UNCHANGED rowVars
  BY DEF Recompute, Idle, At
<1>2. /\ tx[r] \in Transactions /\ tx[r].kind \in Kinds
      /\ tx[r].at \in DOMAIN Then[tx[r].kind] /\ Mine(r)
  BY <1>1, Placed
<1>3. tx' = [tx EXCEPT ![r] = [Step(r) EXCEPT !.status = status]]
  BY DEF Recompute
<1>4. status \in BountyStatuses \union RewardStatuses
  BY <1>2 DEF Inv, TypeOK, Transactions, Recomputed, StatusFor, RewardStatuses, PayableStatuses
<1> HIDE DEF status
<1>5. /\ tx'[r].kind = tx[r].kind /\ tx'[r].at = Then[tx[r].kind][tx[r].at]
      /\ tx'[r].hash = tx[r].hash /\ tx'[r].payout = tx[r].payout
      /\ tx'[r].bounty = tx[r].bounty /\ tx'[r].status = status
  BY <1>1, <1>3, <1>4, Fields
<1>6. tx[r].kind \in {"pay", "request"} /\ Then[tx[r].kind][tx[r].at] = "commit"
  BY <1>1, <1>2 DEF Kinds, Then, DepositOrder, PayOrder, RefundOrder, MoveOrder, RequestOrder
<1>7. HashKnown(r)' /\ RowKnown(r)'
  BY <1>1, <1>2, <1>5, <1>6 DEF Mine, HashKnown, RowKnown, At, rowVars
<1>8. status = IF tx[r].kind = "pay"
               THEN StatusFor(tx[r].bounty, paid \union own, unsettled \ own)
               ELSE StatusFor(tx[r].bounty, paid, unsettled \union own)
  <2>1. CASE tx[r].kind = "pay"
    BY <2>1 DEF status, Recomputed
  <2>2. CASE tx[r].kind = "request"
    <3>1. reward[tx[r].bounty] = StatusFor(tx[r].bounty, paid, unsettled)
      BY <1>1, <1>2, <2>2 DEF Mine, RowKnown, Inv, RewardRow, Transactions, At
    <3>2. paid = {} => reward[tx[r].bounty] = "FUNDED"
      BY <3>1 DEF StatusFor
    <3> QED BY <2>2, <3>2 DEF status, Recomputed, StatusFor
  <2> QED BY <1>6, <2>1, <2>2
<1>9. StatusKnown(r)'
  BY <1>1, <1>5, <1>6, <1>8 DEF StatusKnown, At, StatusFor, With, rowVars
<1> QED BY <1>1, <1>3, <1>4, <1>7, <1>9, Unlocking DEF LockAt

-----------------------------------------------------------------------------
(* Commits *)

(* What another transaction has found out, as the writer leaves it.        *)
Undisturbed(q) == (HashKnown(q) /\ RowKnown(q) /\ StatusKnown(q))'

(* The writer is gone; the others have the locks they had.                 *)
LEMMA CommitStep ==
    ASSUME Inv, NEW r \in Requests, End(r), TypeOK',
           \A h \in Hashes : HashRow(h)', \A b \in Bounties : RewardRow(b)',
           \A q \in Requests \ {r} : tx[q] # Idle => Undisturbed(q)
    PROVE  Inv'
<1>1. tx'[r] = Idle /\ \A q \in Requests \ {r} : tx'[q] = tx[q]
  BY DEF Inv, TypeOK, End
<1>2. ASSUME NEW q \in Requests PROVE Mine(q)'
  <2>1. CASE q = r
    BY <1>1, <2>1 DEF Mine
  <2>2. CASE q # r
    <3>1. tx'[q] = tx[q] /\ Mine(q)
      BY <1>1, <2>2 DEF Inv
    <3>2. tx[q] # Idle => tx[q]'.held = {LockOf(tx[q]', c) : c \in Holds(q)'}
      BY <3>1 DEF Mine, Holds
    <3> QED BY <2>2, <3>1, <3>2 DEF Mine, Undisturbed
  <2> QED BY <2>1, <2>2
<1>3. ASSUME NEW p \in Requests, NEW q \in Requests, p # q PROVE Apart(p, q)'
  <2>1. CASE p = r \/ q = r
    BY <1>1, <2>1 DEF Apart
  <2>2. CASE p # r /\ q # r
    <3>1. tx'[p] = tx[p] /\ tx'[q] = tx[q]
      BY <1>1, <2>2
    <3> QED BY <3>1, <1>3 DEF Inv, Apart
  <2> QED BY <2>1, <2>2
<1> QED BY <1>2, <1>3 DEF Inv

(* Two transactions that both have the hash, the payout or the reward they *)
(* are about locked are about different ones.                              *)
Separate(r, q) ==
    /\ /\ tx[r].kind \in {"deposit", "pay", "refund"} /\ tx[r].at # "hash"
       /\ tx[q].kind \in {"deposit", "pay", "refund"} /\ tx[q].at # "hash"
       => tx[r].hash # tx[q].hash
    /\ /\ tx[r].kind = "pay" /\ tx[r].at \notin {"hash", "payout"}
       /\ tx[q].kind = "pay" /\ tx[q].at \notin {"hash", "payout"}
       => tx[r].payout # tx[q].payout
    /\ /\ tx[r].kind # "move" /\ tx[r].at = "commit"
       /\ \/ tx[q].kind # "move" /\ tx[q].at = "commit"
          \/ tx[q].kind = "request" /\ tx[q].at \notin {"bounty", "reward"}
       => tx[r].bounty # tx[q].bounty

LEMMA Separated ==
    ASSUME Inv, NEW r \in Requests, NEW q \in Requests, r # q, tx[r] # Idle, tx[q] # Idle
    PROVE  Separate(r, q)
<1>1. Keeps(tx[r].kind, tx[r].at) /\ Keeps(tx[q].kind, tx[q].at)
  BY Placed
<1> QED BY <1>1, Exclusion DEF Separate, Keeps, Holds

(* What a transaction about to commit is like.                             *)
LEMMA AtCommit ==
    ASSUME Inv, NEW r \in Requests, At(r, "commit"), NEW kind \in Kinds, tx[r].kind = kind
    PROVE  /\ tx[r] # Idle /\ tx[r] \in Transactions /\ Mine(r)
           /\ tx[r].bounty \in Bounties
           /\ kind \in {"deposit", "pay", "refund"} => tx[r].hash \in Hashes
           /\ kind \in {"pay", "request"} =>
                tx[r].payout \in Payouts /\ tx[r].bounty = BountyOf[tx[r].payout]
<1>1. tx[r] # Idle
  BY DEF At, Idle
<1>2. tx[r] \in Transactions /\ Mine(r)
  BY <1>1, Placed
<1> QED BY <1>1, <1>2 DEF Inv, TypeOK, Transactions

LEMMA EndTyped ==
    ASSUME Inv, NEW r \in Requests, End(r)
    PROVE  /\ tx' \in [Requests -> Transactions \union {Idle}]
           /\ \A q \in Requests : tx'[q] # Idle =>
                /\ tx'[q].at \in DOMAIN Then[tx'[q].kind] \union {"commit"}
                /\ tx'[q].kind \in {"deposit", "pay", "refund"} => tx'[q].hash \in Hashes
                /\ tx'[q].kind \in {"pay", "request"} =>
                     tx'[q].payout \in Payouts /\ tx'[q].bounty = BountyOf[tx'[q].payout]
<1> QED BY DEF Inv, TypeOK, End

(* A reward that keeps its status and whose payouts keep theirs.           *)
LEMMA SameReward ==
    ASSUME Inv, NEW b \in Bounties, \A p \in Payouts : BountyOf[p] = b => pay'[p] = pay[p]
    PROVE  /\ \A s : With(b, s)' = With(b, s)
           /\ reward'[b] = reward[b] => RewardRow(b)'
<1>1. \A s : With(b, s)' = With(b, s)
  BY DEF With
<1>2. \A s, u : StatusFor(b, s, u)' = StatusFor(b, s, u)
  BY DEF StatusFor
<1>3. With(b, {"PAID"})' = With(b, {"PAID"}) /\ With(b, UnsettledStatuses)' = With(b, UnsettledStatuses)
  BY <1>1
<1>4. ASSUME reward'[b] = reward[b] PROVE RewardRow(b)'
  BY <1>3, <1>4 DEF Inv, RewardRow, StatusFor
<1> QED BY <1>1, <1>4

LEMMA DepositedStep ==
    ASSUME Inv, NEW r \in Requests, Deposited(r)
    PROVE  Inv'
<1> DEFINE h == tx[r].hash
           b == tx[r].bounty
<1>1. /\ tx[r] # Idle /\ Mine(r) /\ b \in Bounties /\ h \in Hashes
      /\ tx[r].kind = "deposit" /\ tx[r].at = "commit"
  BY AtCommit DEF Deposited, Kinds, At
<1>2. /\ \A p \in Payouts : payHash[p] # h
      /\ \A c \in Bounties : refundHash[c] # h /\ depositHash[c] # h
      /\ reward[b] = "DEPOSIT_PENDING"
  BY <1>1 DEF Mine, HashKnown, RowKnown, Deposited, At
<1>3. /\ UNCHANGED <<bounty, refundHash, pay, payHash>>
      /\ reward' = [reward EXCEPT ![b] = "FUNDED"]
      /\ depositHash' = [depositHash EXCEPT ![b] = h]
  BY DEF Deposited
<1>4. TypeOK'
  BY <1>1, <1>3, EndTyped DEF Inv, TypeOK, Deposited, RewardStatuses, PayableStatuses
<1>5. \A g \in Hashes : HashRow(g)'
  BY <1>1, <1>2, <1>3 DEF Inv, TypeOK, HashRow
<1>6. ASSUME NEW c \in Bounties PROVE RewardRow(c)'
  <2>1. With(c, {"PAID"})' = With(c, {"PAID"})
    BY <1>3, SameReward
  <2>2. CASE c = b
    <3>1. With(b, {"PAID"}) = {}
      BY <1>1, <1>2 DEF Inv, RewardRow, With
    <3> QED BY <1>1, <1>3, <2>1, <2>2, <3>1 DEF Inv, TypeOK, RewardRow, StatusFor
  <2>3. CASE c # b
    BY <1>3, <2>3, SameReward DEF Inv, TypeOK
  <2> QED BY <2>2, <2>3
<1>7. ASSUME NEW q \in Requests \ {r}, tx[q] # Idle PROVE Undisturbed(q)
  <2>1. Separate(r, q) /\ Mine(q) /\ tx'[q] = tx[q] /\ tx[q] \in Transactions
    BY <1>1, <1>7, Separated, Placed DEF Inv, TypeOK, Deposited, End
  <2>2. HashKnown(q)'
    BY <1>1, <1>3, <1>7, <2>1 DEF Separate, Mine, HashKnown, Inv, TypeOK, At
  <2>3. RowKnown(q)'
    BY <1>1, <1>2, <1>3, <1>7, <2>1
       DEF Separate, Mine, RowKnown, Inv, TypeOK, At, PayableStatuses, Transactions
  <2>4. StatusKnown(q)'
    BY <1>3, <1>7, <2>1 DEF Mine, StatusKnown, StatusFor, With, At
  <2> QED BY <2>2, <2>3, <2>4 DEF Undisturbed
<1> QED BY <1>4, <1>5, <1>6, <1>7, CommitStep DEF Deposited

LEMMA PaidStep ==
    ASSUME Inv, NEW r \in Requests, Paid(r)
    PROVE  Inv'
<1> DEFINE h == tx[r].hash
           p == tx[r].payout
           b == tx[r].bounty
<1>1. /\ tx[r] # Idle /\ Mine(r) /\ b \in Bounties /\ h \in Hashes /\ p \in Payouts
      /\ b = BountyOf[p] /\ tx[r].kind = "pay" /\ tx[r].at = "commit"
  BY AtCommit DEF Paid, Kinds, At
<1>2. /\ \A q \in Payouts : payHash[q] = h => BountyOf[q] = b
      /\ \A c \in Bounties : refundHash[c] # h /\ depositHash[c] # h
      /\ pay[p] = "APPROVED"
      /\ tx[r].status = StatusFor(b, With(b, {"PAID"}) \union {p},
                                  With(b, UnsettledStatuses) \ {p})
  BY <1>1 DEF Mine, HashKnown, RowKnown, StatusKnown, At
<1>3. /\ UNCHANGED <<bounty, depositHash, refundHash>>
      /\ pay' = [pay EXCEPT ![p] = "PAID"]
      /\ payHash' = [payHash EXCEPT ![p] = h]
      /\ reward' = [reward EXCEPT ![b] = IF @ \in PayableStatuses THEN tx[r].status ELSE @]
  BY DEF Paid, Advanced
<1>4. tx[r].status \in PayableStatuses
  BY <1>2 DEF StatusFor, PayableStatuses
<1>5. TypeOK'
  BY <1>1, <1>3, <1>4, EndTyped DEF Inv, TypeOK, Paid, RewardStatuses
<1>6. \A g \in Hashes : HashRow(g)'
  BY <1>1, <1>2, <1>3 DEF Inv, TypeOK, HashRow
<1>7. ASSUME NEW c \in Bounties PROVE RewardRow(c)'
  <2>1. CASE c = b
    <3>1. reward[b] # "DEPOSIT_PENDING"
      BY <1>1, <1>2 DEF Inv, RewardRow
    <3>2. /\ With(c, {"PAID"})' = With(c, {"PAID"}) \union {p}
          /\ With(c, UnsettledStatuses)' = With(c, UnsettledStatuses) \ {p}
      BY <1>1, <1>2, <1>3, <2>1 DEF Inv, TypeOK, With, UnsettledStatuses
    <3>3. reward[b] \in PayableStatuses =>
            reward'[c] = StatusFor(c, With(c, {"PAID"})', With(c, UnsettledStatuses)')
      BY <1>1, <1>2, <1>3, <2>1, <3>2 DEF Inv, TypeOK
    <3>4. reward[b] \notin PayableStatuses => reward'[c] = reward[b]
      BY <1>1, <1>3, <2>1 DEF Inv, TypeOK
    <3>5. reward[b] \in PayableStatuses => reward'[c] \in PayableStatuses
      BY <1>1, <1>3, <1>4, <2>1 DEF Inv, TypeOK
    <3> QED BY <2>1, <3>1, <3>3, <3>4, <3>5 DEF RewardRow, StatusFor, PayableStatuses
  <2>2. CASE c # b
    BY <1>1, <1>3, <2>2, SameReward DEF Inv, TypeOK
  <2> QED BY <2>1, <2>2
<1>8. ASSUME NEW q \in Requests \ {r}, tx[q] # Idle PROVE Undisturbed(q)
  <2>1. Separate(r, q) /\ Mine(q) /\ tx'[q] = tx[q] /\ tx[q] \in Transactions
    BY <1>1, <1>8, Separated, Placed DEF Inv, TypeOK, Paid, End
  <2>2. HashKnown(q)'
    BY <1>1, <1>3, <1>8, <2>1 DEF Separate, Mine, HashKnown, Inv, TypeOK, At
  <2>3. RowKnown(q)'
    BY <1>1, <1>2, <1>3, <1>4, <1>8, <2>1
       DEF Separate, Mine, RowKnown, Inv, TypeOK, At, Transactions
  <2>4. StatusKnown(q)'
    <3>1. CASE At(q, "commit") /\ tx[q].kind # "move"
      <4>1. tx[q].bounty # b /\ tx[q].bounty \in Bounties
        BY <1>1, <2>1, <3>1 DEF Separate, At, Transactions
      <4>2. \A s : With(tx[q].bounty, s)' = With(tx[q].bounty, s)
        BY <1>1, <1>3, <2>1, <4>1 DEF Inv, TypeOK, With
      <4> QED BY <1>8, <2>1, <4>2 DEF Mine, StatusKnown, StatusFor, At
    <3>2. CASE ~At(q, "commit") \/ tx[q].kind = "move"
      BY <2>1, <3>2 DEF StatusKnown, At
    <3> QED BY <3>1, <3>2
  <2> QED BY <2>2, <2>3, <2>4 DEF Undisturbed
<1> QED BY <1>5, <1>6, <1>7, <1>8, CommitStep DEF Paid

LEMMA RequestedStep ==
    ASSUME Inv, NEW r \in Requests, Requested(r)
    PROVE  Inv'
<1> DEFINE p == tx[r].payout
           b == tx[r].bounty
<1>1. /\ tx[r] # Idle /\ Mine(r) /\ b \in Bounties /\ p \in Payouts
      /\ b = BountyOf[p] /\ tx[r].kind = "request" /\ tx[r].at = "commit"
  BY AtCommit DEF Requested, Kinds, At
<1>2. /\ pay[p] = "NONE" /\ reward[b] \in PayableStatuses
      /\ tx[r].status = StatusFor(b, With(b, {"PAID"}),
                                  With(b, UnsettledStatuses) \union {p})
  BY <1>1 DEF Mine, RowKnown, StatusKnown, At
<1>3. /\ UNCHANGED <<bounty, depositHash, refundHash, payHash>>
      /\ pay' = [pay EXCEPT ![p] = "REQUESTED"]
      /\ reward' = [reward EXCEPT ![b] = tx[r].status]
  BY <1>2 DEF Requested, Advanced, Inv, TypeOK
<1>4. tx[r].status \in PayableStatuses
  BY <1>2 DEF StatusFor, PayableStatuses
<1>5. TypeOK'
  BY <1>1, <1>3, <1>4, EndTyped DEF Inv, TypeOK, Requested, RewardStatuses, UnsettledStatuses
<1>6. \A g \in Hashes : HashRow(g)'
  BY <1>3 DEF Inv, HashRow
<1>7. ASSUME NEW c \in Bounties PROVE RewardRow(c)'
  <2>1. CASE c = b
    <3>1. /\ With(c, {"PAID"})' = With(c, {"PAID"})
          /\ With(c, UnsettledStatuses)' = With(c, UnsettledStatuses) \union {p}
      BY <1>1, <1>2, <1>3, <2>1 DEF Inv, TypeOK, With, UnsettledStatuses
    <3>2. reward'[c] = StatusFor(c, With(c, {"PAID"})', With(c, UnsettledStatuses)')
      BY <1>1, <1>2, <1>3, <2>1, <3>1 DEF Inv, TypeOK
    <3>3. reward'[c] \in PayableStatuses
      BY <1>1, <1>3, <1>4, <2>1 DEF Inv, TypeOK
    <3> QED BY <2>1, <3>2, <3>3 DEF RewardRow, StatusFor, PayableStatuses
  <2>2. CASE c # b
    BY <1>1, <1>3, <2>2, SameReward DEF Inv, TypeOK
  <2> QED BY <2>1, <2>2
<1>8. ASSUME NEW q \in Requests \ {r}, tx[q] # Idle PROVE Undisturbed(q)
  <2>1. Separate(r, q) /\ Mine(q) /\ tx'[q] = tx[q] /\ tx[q] \in Transactions
    BY <1>1, <1>8, Separated, Placed DEF Inv, TypeOK, Requested, End
  <2>2. HashKnown(q)'
    BY <1>3, <1>8, <2>1 DEF Mine, HashKnown, At
  <2>3. RowKnown(q)'
    <3>1. tx[q].kind = "request" /\ tx[q].at \notin {"bounty", "reward"} => tx[q].payout # p
      BY <1>1, <1>8, <2>1 DEF Separate, Inv, TypeOK
    <3> QED BY <1>1, <1>2, <1>3, <1>4, <1>8, <2>1, <3>1
               DEF Separate, Mine, RowKnown, Inv, TypeOK, At, Transactions
  <2>4. StatusKnown(q)'
    <3>1. CASE At(q, "commit") /\ tx[q].kind # "move"
      <4>1. tx[q].bounty # b /\ tx[q].bounty \in Bounties
        BY <1>1, <2>1, <3>1 DEF Separate, At, Transactions
      <4>2. \A s : With(tx[q].bounty, s)' = With(tx[q].bounty, s)
        BY <1>1, <1>3, <2>1, <4>1 DEF Inv, TypeOK, With
      <4> QED BY <1>8, <2>1, <4>2 DEF Mine, StatusKnown, StatusFor, At
    <3>2. CASE ~At(q, "commit") \/ tx[q].kind = "move"
      BY <2>1, <3>2 DEF StatusKnown, At
    <3> QED BY <3>1, <3>2
  <2> QED BY <2>2, <2>3, <2>4 DEF Undisturbed
<1> QED BY <1>5, <1>6, <1>7, <1>8, CommitStep DEF Requested

LEMMA RefundedStep ==
    ASSUME Inv, NEW r \in Requests, Refunded(r)
    PROVE  Inv'
<1> DEFINE h == tx[r].hash
           b == tx[r].bounty
<1>1. /\ tx[r] # Idle /\ Mine(r) /\ b \in Bounties /\ h \in Hashes
      /\ tx[r].kind = "refund" /\ tx[r].at = "commit"
  BY AtCommit DEF Refunded, Kinds, At
<1>2. /\ \A p \in Payouts : payHash[p] # h
      /\ \A c \in Bounties : refundHash[c] # h /\ depositHash[c] # h
  BY <1>1 DEF Mine, HashKnown, At
<1>3. /\ UNCHANGED <<bounty, depositHash, pay, payHash>>
      /\ reward' = [reward EXCEPT ![b] = "REFUNDED"]
      /\ refundHash' = [refundHash EXCEPT ![b] = h]
  BY DEF Refunded
<1>4. TypeOK'
  BY <1>1, <1>3, EndTyped DEF Inv, TypeOK, Refunded, RewardStatuses
<1>5. \A g \in Hashes : HashRow(g)'
  BY <1>1, <1>2, <1>3 DEF Inv, TypeOK, HashRow
<1>6. ASSUME NEW c \in Bounties PROVE RewardRow(c)'
  <2>1. CASE c = b
    BY <1>1, <1>3, <2>1 DEF Inv, TypeOK, RewardRow, PayableStatuses
  <2>2. CASE c # b
    BY <1>3, <2>2, SameReward DEF Inv, TypeOK
  <2> QED BY <2>1, <2>2
<1>7. ASSUME NEW q \in Requests \ {r}, tx[q] # Idle PROVE Undisturbed(q)
  <2>1. Separate(r, q) /\ Mine(q) /\ tx'[q] = tx[q] /\ tx[q] \in Transactions
    BY <1>1, <1>7, Separated, Placed DEF Inv, TypeOK, Refunded, End
  <2>2. HashKnown(q)'
    BY <1>1, <1>3, <1>7, <2>1 DEF Separate, Mine, HashKnown, Inv, TypeOK, At
  <2>3. RowKnown(q)'
    BY <1>1, <1>3, <1>7, <2>1 DEF Separate, Mine, RowKnown, Inv, TypeOK, At, Transactions
  <2>4. StatusKnown(q)'
    BY <1>3, <1>7, <2>1 DEF Mine, StatusKnown, StatusFor, With, At
  <2> QED BY <2>2, <2>3, <2>4 DEF Undisturbed
<1> QED BY <1>4, <1>5, <1>6, <1>7, CommitStep DEF Refunded

LEMMA MovedStep ==
    ASSUME Inv, NEW r \in Requests, Moved(r)
    PROVE  Inv'
<1>1. /\ tx[r] # Idle /\ Mine(r) /\ tx[r].bounty \in Bounties
      /\ tx[r].kind = "move" /\ tx[r].at = "commit"
  BY AtCommit DEF Moved, Kinds, At
<1>2. /\ UNCHANGED <<reward, depositHash, refundHash, pay, payHash>>
      /\ bounty' = [bounty EXCEPT ![tx[r].bounty] = tx[r].status]
  BY DEF Moved
<1>3. TypeOK'
  BY <1>1, <1>2, EndTyped DEF Inv, TypeOK, Moved, Mine, RowKnown
<1>4. \A g \in Hashes : HashRow(g)'
  BY <1>2 DEF Inv, HashRow
<1>5. \A c \in Bounties : RewardRow(c)'
  BY <1>2, SameReward
<1>6. ASSUME NEW q \in Requests \ {r}, tx[q] # Idle PROVE Undisturbed(q)
  <2>1. Mine(q) /\ tx'[q] = tx[q]
    BY <1>1, <1>6, Placed DEF Inv, TypeOK, Moved, End
  <2>2. HashKnown(q)' /\ RowKnown(q)'
    BY <1>2, <1>6, <2>1 DEF Mine, HashKnown, RowKnown, At
  <2>3. StatusKnown(q)'
    BY <1>2, <1>6, <2>1 DEF Mine, StatusKnown, StatusFor, With, At
  <2> QED BY <2>2, <2>3 DEF Undisturbed
<1> QED BY <1>3, <1>4, <1>5, <1>6, CommitStep DEF Moved

LEMMA MarkApprovedStep ==
    ASSUME Inv, NEW p \in Payouts, MarkApproved(p)
    PROVE  Inv'
<1>1. /\ pay[p] = "REQUESTED" /\ pay' = [pay EXCEPT ![p] = "APPROVED"]
      /\ UNCHANGED <<bounty, reward, depositHash, refundHash, payHash, tx>>
  BY DEF MarkApproved
<1>2. TypeOK'
  BY <1>1 DEF Inv, TypeOK, UnsettledStatuses
<1>3. \A h \in Hashes : HashRow(h)'
  BY <1>1 DEF Inv, HashRow
<1>4. /\ \A b : With(b, {"PAID"})' = With(b, {"PAID"})
      /\ \A b : With(b, UnsettledStatuses)' = With(b, UnsettledStatuses)
  BY <1>1 DEF Inv, TypeOK, With, UnsettledStatuses
<1>5. ASSUME NEW b \in Bounties PROVE RewardRow(b)'
  <2>1. RewardRow(b) /\ reward'[b] = reward[b]
    BY <1>1 DEF Inv
  <2>2. With(b, {"PAID"})' = With(b, {"PAID"}) /\ With(b, UnsettledStatuses)' = With(b, UnsettledStatuses)
    BY <1>4
  <2>3. reward[b] = "DEPOSIT_PENDING" => BountyOf[p] # b
    BY <1>1, <2>1 DEF RewardRow
  <2>4. reward[b] = "DEPOSIT_PENDING" => \A q \in Payouts : BountyOf[q] = b => pay'[q] = "NONE"
    BY <1>1, <2>1, <2>3 DEF RewardRow, Inv, TypeOK
  <2> QED BY <2>1, <2>2, <2>4 DEF RewardRow, StatusFor
<1>6. ASSUME NEW q \in Requests PROVE Mine(q)'
  <2>1. tx'[q] = tx[q] /\ Mine(q)
    BY <1>1 DEF Inv
  <2>2. tx[q] # Idle => tx[q]'.held = {LockOf(tx[q]', c) : c \in Holds(q)'}
    BY <2>1 DEF Mine, Holds
  <2>3. HashKnown(q) => HashKnown(q)'
    BY <1>1, <2>1 DEF HashKnown, At
  <2>4. RowKnown(q) => RowKnown(q)'
    BY <1>1, <2>1 DEF RowKnown, At, Inv, TypeOK
  <2>5. StatusKnown(q) => StatusKnown(q)'
    BY <1>4, <2>1 DEF StatusKnown, At, StatusFor
  <2> QED BY <2>1, <2>2, <2>3, <2>4, <2>5 DEF Mine
<1>7. ASSUME NEW r \in Requests, NEW q \in Requests, r # q PROVE Apart(r, q)'
  BY <1>1, <1>7 DEF Inv, Apart
<1> QED BY <1>2, <1>3, <1>5, <1>6, <1>7 DEF Inv

-----------------------------------------------------------------------------
(* The invariant *)

LEMMA InvInit == Init => Inv
<1> SUFFICES ASSUME Init PROVE Inv
  OBVIOUS
<1> USE MoneyAssumption DEF Init, Published
<1>1. TypeOK
  BY DEF TypeOK, BountyStatuses, RewardStatuses
<1>2. \A h \in Hashes : HashRow(h)
  BY DEF HashRow
<1>3. \A b \in Bounties : RewardRow(b)
  BY DEF RewardRow, PayableStatuses
<1> QED BY <1>1, <1>2, <1>3 DEF Inv, Mine, Apart

LEMMA InvNext == Inv /\ [Next]_vars => Inv'
<1> SUFFICES ASSUME Inv, [Next]_vars PROVE Inv'
  OBVIOUS
<1>1. ASSUME NEW r \in Requests, Begins(r) PROVE Inv'
  BY <1>1, BeginsStep
<1>2. ASSUME NEW r \in Requests, Proceeds(r) PROVE Inv'
  BY <1>2, LockStep, LookStep, InsertStep, RecomputeStep, BlockersStep, AbortStep DEF Proceeds
<1>3. ASSUME NEW r \in Requests, Commits(r) PROVE Inv'
  BY <1>3, DepositedStep, PaidStep, RequestedStep, RefundedStep, MovedStep DEF Commits
<1>4. ASSUME NEW p \in Payouts, MarkApproved(p) PROVE Inv'
  BY <1>4, MarkApprovedStep
<1>5. CASE UNCHANGED vars
  <2> USE <1>5 DEF vars, rowVars, Inv
  <2>1. TypeOK'
    BY DEF TypeOK
  <2>2. (\A h \in Hashes : HashRow(h)') /\ \A b \in Bounties : RewardRow(b)'
    BY SameReward DEF HashRow
  <2>3. ASSUME NEW q \in Requests PROVE Mine(q)'
    BY DEF Mine, Holds, HashKnown, RowKnown, StatusKnown, At, StatusFor, With
  <2>4. \A r, q \in Requests : r # q => Apart(r, q)'
    BY DEF Apart
  <2> QED BY <2>1, <2>2, <2>3, <2>4
<1> QED BY <1>1, <1>2, <1>3, <1>4, <1>5 DEF Next

(* The invariant holds in every run.                                       *)
THEOREM Invariance == Spec => []Inv
<1> QED BY InvInit, InvNext, PTL DEF Spec

(* Every transaction is at a statement of its own, and the rows have the   *)
(* values the code writes.                                                 *)
THEOREM TypeCorrect == Spec => []TypeOK
<1>1. Inv => TypeOK
  BY DEF Inv
<1> QED BY <1>1, Invariance, PTL

(* However many operators record transactions at the same time, a hash     *)
(* proves one deposit, one refund or the payments of one bounty.           *)
THEOREM HashesProveOnce == Spec => []HashProvesOnce
<1>1. Inv => HashProvesOnce
  BY DEF Inv, HashRow, HashProvesOnce, Uses
<1> QED BY <1>1, Invariance, PTL

(* However many payouts are requested and paid at the same time, the       *)
(* status of a reward is the one that its payouts give it.                 *)
THEOREM RewardsFollowPayouts == Spec => []RewardFollowsPayouts
<1>1. Inv => RewardFollowsPayouts
  BY DEF Inv, RewardRow, RewardFollowsPayouts
<1> QED BY <1>1, Invariance, PTL

-----------------------------------------------------------------------------
(* Nobody waits in a ring *)

(* Who waits for a lock holds only locks of an earlier class.              *)
Ordered(kind, at) ==
    at \in LockAt =>
      /\ "reward" \notin Before[kind][at]
      /\ "bounty" \in Before[kind][at] \/ "key" \in Before[kind][at] => at = "reward"
      /\ "payout" \in Before[kind][at] => at \in {"key", "reward"}
      /\ "hash" \in Before[kind][at] => at # "hash"

LEMMA InOrder ==
    ASSUME NEW kind \in Kinds, NEW at \in DOMAIN Then[kind] \union {"commit"}
    PROVE  Ordered(kind, at)
<1> USE DEF Ordered, LockAt
<1>1. CASE kind = "deposit"
  <2>1. Then[kind] = DepositOrder /\ Before[kind] = DepositHolds
    BY <1>1 DEF Then, Before
  <2> QED BY <1>1, <2>1 DEF DepositOrder, DepositHolds
<1>2. CASE kind = "pay"
  <2>1. Then[kind] = PayOrder /\ Before[kind] = PayHolds
    BY <1>2 DEF Then, Before
  <2> QED BY <1>2, <2>1 DEF PayOrder, PayHolds
<1>3. CASE kind = "refund"
  <2>1. Then[kind] = RefundOrder /\ Before[kind] = RefundHolds
    BY <1>3 DEF Then, Before
  <2> QED BY <1>3, <2>1 DEF RefundOrder, RefundHolds
<1>4. CASE kind = "request"
  <2>1. Then[kind] = RequestOrder /\ Before[kind] = RequestHolds
    BY <1>4 DEF Then, Before
  <2> QED BY <1>4, <2>1 DEF RequestOrder, RequestHolds
<1>5. CASE kind = "move"
  <2>1. Then[kind] = MoveOrder /\ Before[kind] = MoveHolds
    BY <1>5 DEF Then, Before
  <2> QED BY <1>5, <2>1 DEF MoveOrder, MoveHolds
<1> QED BY <1>1, <1>2, <1>3, <1>4, <1>5 DEF Kinds

(* Whoever is waited for has the lock, or its counterpart on the bounty.   *)
LEMMA WaitedFor ==
    ASSUME Inv, NEW r \in Requests, NEW q \in Requests, WaitsFor(r, q)
    PROVE  /\ tx[r].at \in LockAt
           /\ \/ tx[r].at \in Holds(q)
              \/ tx[r].at = "bounty" /\ "key" \in Holds(q)
              \/ tx[r].at = "key" /\ "bounty" \in Holds(q)
<1>1. tx[q] # Idle /\ tx[r].at \in LockAt
  BY DEF WaitsFor
<1>2. PICK c \in Holds(q) : Clash(Wanted(r), LockOf(tx[q], c))
  BY <1>1, Placed DEF WaitsFor, Mine
<1>3. LockOf(tx[q], c)[1] = c
  BY DEF LockOf
<1>4. Wanted(r)[1] = tx[r].at
  BY <1>1 DEF Wanted, At, LockAt
<1>5. c = tx[r].at \/ {tx[r].at, c} = {"bounty", "key"}
  BY <1>2, <1>3, <1>4 DEF Clash
<1> QED BY <1>1, <1>5

(* In a ring nobody waits for a reward, as its holder waits for nothing;   *)
(* so nobody for a bounty, a payout or a hash.                             *)
THEOREM NoRings == Spec => []NoCircularWait
<1>1. ASSUME Inv, NEW ring \in SUBSET Requests, ring # {},
             \A r \in ring : \E q \in ring : WaitsFor(r, q)
      PROVE  FALSE
  <2>1. ASSUME NEW r \in ring
        PROVE  \E q \in ring : /\ tx[q].at \in LockAt /\ Ordered(tx[q].kind, tx[q].at)
                             /\ tx[r].at \in LockAt
                             /\ \/ tx[r].at \in Holds(q)
                                \/ tx[r].at = "bounty" /\ "key" \in Holds(q)
                                \/ tx[r].at = "key" /\ "bounty" \in Holds(q)
    <3>1. PICK q \in ring : WaitsFor(r, q)
      BY <1>1
    <3>2. tx[q].at \in LockAt
      BY <1>1 DEF WaitsFor
    <3>3. Ordered(tx[q].kind, tx[q].at)
      BY <1>1, <3>1, Placed, InOrder DEF WaitsFor
    <3> QED BY <1>1, <3>1, <3>2, <3>3, WaitedFor
  <2>2. \A r \in ring : tx[r].at # "reward"
    BY <2>1 DEF Ordered, Holds
  <2>3. \A r \in ring : tx[r].at \notin {"bounty", "key"}
    BY <2>1, <2>2 DEF Ordered, Holds
  <2>4. \A r \in ring : tx[r].at # "payout"
    BY <2>1, <2>2, <2>3 DEF Ordered, Holds
  <2>5. \A r \in ring : tx[r].at # "hash"
    BY <2>1, <2>2, <2>3, <2>4 DEF Ordered, Holds, LockAt
  <2> QED BY <1>1, <2>1, <2>2, <2>3, <2>4, <2>5 DEF LockAt
<1>2. Inv => NoCircularWait
  <2> SUFFICES ASSUME Inv, NEW ring \in (SUBSET Requests) \ {{}},
                      ~ \E r \in ring : \A q \in ring : ~WaitsFor(r, q)
               PROVE  FALSE
    BY DEF NoCircularWait
  <2>1. \A r \in ring : \E q \in ring : WaitsFor(r, q)
    OBVIOUS
  <2> QED BY <1>1, <2>1
<1> QED BY <1>2, Invariance, PTL

-----------------------------------------------------------------------------
(* Every transaction acts when it commits.  What it decided on the rows of *)
(* its bounty is still so then: it has had the bounty locked since, and    *)
(* whoever writes such a row has the bounty locked too, or the key of it.  *)

GuardKnown(r) ==
    LET b == tx[r].bounty
    IN  /\ tx[r].kind = "request" =>
             /\ ~At(r, "bounty") => bounty[b] = "OPEN"
             /\ tx[r].at \in {"recompute", "commit"} => Allocated(b) < Cap[b]
        /\ tx[r].kind = "refund" =>
             /\ tx[r].at \in {"reward", "all", "commit"} => bounty[b] = "CANCELLED"
             /\ tx[r].at \in {"all", "commit"} =>
                  /\ reward[b] \in PayableStatuses
                  /\ With(b, UnsettledStatuses) = {}
                  /\ Deposit[b] > Cardinality(With(b, {"PAID"}))
        /\ tx[r].kind = "move" =>
             /\ tx[r].status \in {"OPEN", "CANCELLED"}
             /\ At(r, "commit") /\ tx[r].status = "OPEN" =>
                  bounty[b] = "FUNDING_PENDING" /\ reward[b] \in PayableStatuses
             /\ At(r, "commit") /\ tx[r].status = "CANCELLED" =>
                  bounty[b] \in {"FUNDING_PENDING", "OPEN"} /\ ~UnpaidWinners(b)

Guarded == \A r \in Requests : tx[r] # Idle => GuardKnown(r)

(* Whether a transaction has decided something about its bounty.           *)
Decided(r) ==
    \/ tx[r].kind = "request" /\ ~At(r, "bounty")
    \/ tx[r].kind = "refund" /\ tx[r].at \in {"reward", "all", "commit"}
    \/ tx[r].kind = "move" /\ At(r, "commit")

SameBounty(b) ==
    /\ bounty'[b] = bounty[b] /\ reward'[b] = reward[b]
    /\ \A p \in Payouts : BountyOf[p] = b =>
         /\ pay'[p] # pay[p] => pay[p] = "REQUESTED" /\ pay'[p] = "APPROVED"

(* A rule about a bounty is about the rows of it, and an approval is       *)
(* nothing to any of them.                                                 *)
LEMMA SameRules ==
    ASSUME NEW b, SameBounty(b)
    PROVE  /\ With(b, {"PAID"})' = With(b, {"PAID"})
           /\ With(b, UnsettledStatuses)' = With(b, UnsettledStatuses)
           /\ Allocated(b)' = Allocated(b)
           /\ UnpaidWinners(b)' <=> UnpaidWinners(b)
<1>1. /\ With(b, {"PAID"})' = With(b, {"PAID"})
      /\ With(b, {"NONE"})' = With(b, {"NONE"})
      /\ With(b, UnsettledStatuses)' = With(b, UnsettledStatuses)
      /\ With(b, UnsettledStatuses \union {"PAID"})' = With(b, UnsettledStatuses \union {"PAID"})
  BY DEF SameBounty, With, UnsettledStatuses
<1>2. Allocated(b)' = Allocated(b)
  BY <1>1 DEF Allocated
<1> QED BY <1>1, <1>2 DEF UnpaidWinners, SameBounty

LEMMA GuardKept ==
    ASSUME NEW r \in Requests, GuardKnown(r), tx'[r] = tx[r],
           Decided(r) => SameBounty(tx[r].bounty)
    PROVE  GuardKnown(r)'
<1>1. CASE Decided(r)
  BY <1>1, SameRules DEF GuardKnown, SameBounty, At
<1>2. CASE ~Decided(r)
  BY <1>2 DEF GuardKnown, Decided, At
<1> QED BY <1>1, <1>2

(* Who has decided has the bounty locked.                                  *)
LocksBounty(kind, at) ==
    /\ kind = "request" /\ at # "bounty" => "bounty" \in Before[kind][at]
    /\ kind = "refund" /\ at \in {"reward", "all", "commit"} => "bounty" \in Before[kind][at]
    /\ kind = "move" /\ at = "commit" => "bounty" \in Before[kind][at]
    /\ at = "commit" => "bounty" \in Before[kind][at] \/ "key" \in Before[kind][at]

LEMMA BountyLocked ==
    ASSUME NEW kind \in Kinds, NEW at \in DOMAIN Then[kind] \union {"commit"}
    PROVE  LocksBounty(kind, at)
<1> USE DEF LocksBounty
<1>1. CASE kind = "deposit"
  <2>1. Then[kind] = DepositOrder /\ Before[kind] = DepositHolds
    BY <1>1 DEF Then, Before
  <2> QED BY <1>1, <2>1 DEF DepositOrder, DepositHolds
<1>2. CASE kind = "pay"
  <2>1. Then[kind] = PayOrder /\ Before[kind] = PayHolds
    BY <1>2 DEF Then, Before
  <2> QED BY <1>2, <2>1 DEF PayOrder, PayHolds
<1>3. CASE kind = "refund"
  <2>1. Then[kind] = RefundOrder /\ Before[kind] = RefundHolds
    BY <1>3 DEF Then, Before
  <2> QED BY <1>3, <2>1 DEF RefundOrder, RefundHolds
<1>4. CASE kind = "request"
  <2>1. Then[kind] = RequestOrder /\ Before[kind] = RequestHolds
    BY <1>4 DEF Then, Before
  <2> QED BY <1>4, <2>1 DEF RequestOrder, RequestHolds
<1>5. CASE kind = "move"
  <2>1. Then[kind] = MoveOrder /\ Before[kind] = MoveHolds
    BY <1>5 DEF Then, Before
  <2> QED BY <1>5, <2>1 DEF MoveOrder, MoveHolds
<1> QED BY <1>1, <1>2, <1>3, <1>4, <1>5 DEF Kinds

LEMMA OtherBounty ==
    ASSUME Inv, NEW r \in Requests, NEW q \in Requests, r # q, tx[r] # Idle, tx[q] # Idle,
           At(q, "commit"), Decided(r)
    PROVE  tx[r].bounty # tx[q].bounty
<1>1. /\ tx[r].held = {LockOf(tx[r], c) : c \in Holds(r)}
      /\ tx[q].held = {LockOf(tx[q], c) : c \in Holds(q)}
  BY Placed DEF Mine
<1>2. \A l \in tx[r].held, m \in tx[q].held : ~Clash(l, m)
  BY DEF Inv, Apart
<1>3. \A c \in Holds(r), d \in Holds(q) : ~Clash(LockOf(tx[r], c), LockOf(tx[q], d))
  BY <1>1, <1>2
<1>4. LocksBounty(tx[r].kind, tx[r].at) /\ LocksBounty(tx[q].kind, tx[q].at)
  BY Placed, BountyLocked
<1>5. "bounty" \in Holds(r) /\ ("bounty" \in Holds(q) \/ "key" \in Holds(q))
  BY <1>4 DEF LocksBounty, Decided, Holds, At
<1> QED BY <1>3, <1>5 DEF Clash, LockOf

(* A commit writes rows of the bounty of the transaction only.             *)
LEMMA CommitWrites ==
    ASSUME Inv, NEW q \in Requests, Commits(q)
    PROVE  /\ tx[q] # Idle /\ At(q, "commit") /\ End(q)
           /\ \A b \in Bounties \ {tx[q].bounty} : SameBounty(b)
<1>1. At(q, "commit") /\ End(q)
  BY DEF Commits, Deposited, Paid, Requested, Refunded, Moved
<1>2. tx[q] # Idle
  BY <1>1 DEF At, Idle
<1>3. /\ tx[q].kind \in {"pay", "request"} =>
           tx[q].payout \in Payouts /\ tx[q].bounty = BountyOf[tx[q].payout]
  BY <1>2 DEF Inv, TypeOK
<1> USE DEF SameBounty, Inv, TypeOK
<1>4. CASE Deposited(q)
  BY <1>1, <1>2, <1>4 DEF Deposited
<1>5. CASE Paid(q)
  BY <1>1, <1>2, <1>3, <1>5 DEF Paid, Advanced
<1>6. CASE Requested(q)
  BY <1>1, <1>2, <1>3, <1>6 DEF Requested, Advanced
<1>7. CASE Refunded(q)
  BY <1>1, <1>2, <1>7 DEF Refunded
<1>8. CASE Moved(q)
  BY <1>1, <1>2, <1>8 DEF Moved
<1> QED BY <1>1, <1>2, <1>4, <1>5, <1>6, <1>7, <1>8 DEF Commits

(* A transaction that goes on finds out what it decides by.                *)
LEMMA GuardFound ==
    ASSUME Inv, NEW r \in Requests, GuardKnown(r),
           Lock(r) \/ Look(r) \/ Insert(r) \/ Recompute(r) \/ Blockers(r)
    PROVE  GuardKnown(r)' /\ \A q \in Requests \ {r} : tx'[q] = tx[q]
<1>1. tx[r] # Idle /\ tx[r].at # "commit" /\ UNCHANGED rowVars
  BY DEF Lock, Look, Insert, Recompute, Blockers, At, LockAt, LookAt, Idle
<1>2. /\ tx[r] \in Transactions /\ tx[r].kind \in Kinds
      /\ tx[r].at \in DOMAIN Then[tx[r].kind]
  BY <1>1, Placed
<1>3. /\ tx'[r].kind = tx[r].kind /\ tx'[r].at = Then[tx[r].kind][tx[r].at]
      /\ tx'[r].bounty = tx[r].bounty
      /\ tx[r].kind = "move" => tx'[r].status = tx[r].status
      /\ \A q \in Requests \ {r} : tx'[q] = tx[q]
  <2>1. CASE Recompute(r)
    <3>1. tx[r].kind # "move"
      BY <1>2, <2>1 DEF Recompute, At, Then, MoveOrder
    <3> QED BY <1>2, <2>1, <3>1 DEF Recompute, Inv, TypeOK, Step, Transactions
  <2>2. CASE Lock(r)
    BY <1>2, <2>2 DEF Lock, Inv, TypeOK, Step, Transactions
  <2>3. CASE Look(r) \/ Insert(r) \/ Blockers(r)
    BY <1>2, <2>3 DEF Look, Insert, Blockers, Inv, TypeOK, Step, Transactions
  <2> QED BY <2>1, <2>2, <2>3
<1>4. \A b : /\ \A s : With(b, s)' = With(b, s)
             /\ Allocated(b)' = Allocated(b) /\ (UnpaidWinners(b)' <=> UnpaidWinners(b))
  BY <1>1 DEF rowVars, With, Allocated, UnpaidWinners
<1>5. CASE tx[r].kind = "request"
  <2>1. tx[r].at = "bounty" => bounty[tx[r].bounty] = "OPEN"
    BY <1>5 DEF Lock, Look, Insert, Recompute, Blockers, LookAt, Passes, At
  <2>2. tx[r].at = "insert" => Allocated(tx[r].bounty) < Cap[tx[r].bounty]
    BY <1>5 DEF Lock, Look, Insert, Recompute, Blockers, LockAt, LookAt, At
  <2>3. Then[tx[r].kind] = RequestOrder
    BY <1>5 DEF Then
  <2> QED BY <1>1, <1>2, <1>3, <1>4, <1>5, <2>1, <2>2, <2>3
             DEF GuardKnown, RequestOrder, At, rowVars
<1>6. CASE tx[r].kind = "refund"
  <2>1. tx[r].at \in {"bounty", "reward"} => Passes(r)
    BY <1>6 DEF Lock, Look, Insert, Recompute, Blockers, LookAt, At
  <2>2. Then[tx[r].kind] = RefundOrder
    BY <1>6 DEF Then
  <2> QED BY <1>1, <1>2, <1>3, <1>4, <1>6, <2>1, <2>2
             DEF GuardKnown, RefundOrder, Passes, At, rowVars
<1>7. CASE tx[r].kind = "move"
  <2>1. tx[r].at = "blockers" => Blockers(r)
    BY <1>7 DEF Lock, Look, Insert, Recompute, LockAt, LookAt, At
  <2>2. Then[tx[r].kind] = MoveOrder
    BY <1>7 DEF Then
  <2> QED BY <1>1, <1>2, <1>3, <1>4, <1>7, <2>1, <2>2
             DEF GuardKnown, MoveOrder, Blockers, At, rowVars
<1>8. CASE tx[r].kind \in {"deposit", "pay"}
  BY <1>3, <1>8 DEF GuardKnown
<1> QED BY <1>2, <1>3, <1>5, <1>6, <1>7, <1>8 DEF Kinds

LEMMA GuardedBegins ==
    ASSUME Inv, Guarded, NEW r \in Requests, Begins(r)
    PROVE  Guarded'
<1>1. UNCHANGED rowVars /\ \A q \in Requests \ {r} : tx'[q] = tx[q]
  BY DEF Begins, ConfirmDeposit, RecordRefund, RequestPayout, MarkPaid, Transition, Begin,
         Inv, TypeOK
<1>2. /\ tx'[r].kind \in Kinds /\ tx'[r].at = First[tx'[r].kind]
      /\ tx'[r].kind = "move" => tx'[r].status \in {"OPEN", "CANCELLED"}
  BY DEF Begins, ConfirmDeposit, RecordRefund, RequestPayout, MarkPaid, Transition, Begin,
         Inv, TypeOK, Kinds
<1>3. GuardKnown(r)'
  BY <1>2 DEF GuardKnown, First, Kinds, At
<1>4. ASSUME NEW q \in Requests \ {r}, tx'[q] # Idle PROVE GuardKnown(q)'
  <2>1. \A b \in Bounties : SameBounty(b)
    BY <1>1 DEF SameBounty, rowVars
  <2>2. tx[q].bounty \in Bounties
    BY <1>1, <1>4, Placed DEF Transactions
  <2> QED BY <1>1, <1>4, <2>1, <2>2, GuardKept DEF Guarded
<1> QED BY <1>3, <1>4 DEF Guarded

LEMMA GuardedProceeds ==
    ASSUME Inv, Guarded, NEW r \in Requests, Proceeds(r)
    PROVE  Guarded'
<1>1. UNCHANGED rowVars
  BY DEF Proceeds, Lock, Look, Insert, Recompute, Blockers, Abort
<1>2. tx[r] # Idle
  BY DEF Proceeds, Lock, Look, Insert, Recompute, Blockers, Abort, At, LockAt, LookAt, Idle
<1>3. /\ tx'[r] # Idle => GuardKnown(r)'
      /\ \A q \in Requests \ {r} : tx'[q] = tx[q]
  <2>1. CASE Abort(r)
    BY <2>1 DEF Abort, End, Inv, TypeOK
  <2>2. CASE ~Abort(r)
    BY <1>2, <2>2, GuardFound DEF Guarded, Proceeds
  <2> QED BY <2>1, <2>2
<1>4. ASSUME NEW q \in Requests \ {r}, tx'[q] # Idle PROVE GuardKnown(q)'
  <2>1. \A b \in Bounties : SameBounty(b)
    BY <1>1 DEF SameBounty, rowVars
  <2>2. tx[q].bounty \in Bounties
    BY <1>3, <1>4, Placed DEF Transactions
  <2> QED BY <1>3, <1>4, <2>1, <2>2, GuardKept DEF Guarded
<1> QED BY <1>3, <1>4 DEF Guarded

LEMMA GuardedCommits ==
    ASSUME Inv, Guarded, NEW r \in Requests, Commits(r)
    PROVE  Guarded'
<1>1. /\ tx[r] # Idle /\ At(r, "commit") /\ End(r)
      /\ \A b \in Bounties \ {tx[r].bounty} : SameBounty(b)
  BY CommitWrites
<1>2. tx'[r] = Idle /\ \A q \in Requests \ {r} : tx'[q] = tx[q]
  BY <1>1 DEF End, Inv, TypeOK
<1>3. ASSUME NEW q \in Requests \ {r}, tx'[q] # Idle PROVE GuardKnown(q)'
  <2>1. tx[q] # Idle /\ GuardKnown(q) /\ tx[q].bounty \in Bounties
    BY <1>2, <1>3, Placed DEF Guarded, Transactions
  <2>2. Decided(q) => SameBounty(tx[q].bounty)
    BY <1>1, <2>1, OtherBounty
  <2> QED BY <1>2, <2>1, <2>2, GuardKept
<1> QED BY <1>2, <1>3 DEF Guarded

LEMMA GuardedNext == Inv /\ Guarded /\ [Next]_vars => Guarded'
<1> SUFFICES ASSUME Inv, Guarded, [Next]_vars PROVE Guarded'
  OBVIOUS
<1>1. ASSUME NEW r \in Requests, Begins(r) \/ Proceeds(r) \/ Commits(r) PROVE Guarded'
  BY <1>1, GuardedBegins, GuardedProceeds, GuardedCommits
<1>2. ASSUME UNCHANGED tx, \A b \in Bounties : SameBounty(b) PROVE Guarded'
  <2> SUFFICES ASSUME NEW q \in Requests, tx[q] # Idle PROVE GuardKnown(q)'
    BY <1>2 DEF Guarded
  <2>1. tx[q].bounty \in Bounties
    BY Placed DEF Transactions
  <2> QED BY <1>2, <2>1, GuardKept DEF Guarded
<1>3. ASSUME NEW p \in Payouts, MarkApproved(p) PROVE Guarded'
  <2>1. \A b \in Bounties : SameBounty(b)
    BY <1>3 DEF MarkApproved, SameBounty, Inv, TypeOK
  <2> QED BY <1>2, <1>3, <2>1 DEF MarkApproved
<1>4. CASE UNCHANGED vars
  <2>1. \A b \in Bounties : SameBounty(b)
    BY <1>4 DEF vars, rowVars, SameBounty
  <2> QED BY <1>2, <1>4, <2>1 DEF vars
<1> QED BY <1>1, <1>3, <1>4 DEF Next

LEMMA GuardedAlways == Spec => [](Inv /\ Guarded)
<1>1. Init => Guarded
  BY DEF Init, Guarded
<1> QED BY <1>1, InvInit, InvNext, GuardedNext, PTL DEF Spec

-----------------------------------------------------------------------------
(* Each commit is the step of its transaction. *)

LEMMA RulesAgree ==
    /\ \A S : Steps!Cardinality(S) = Cardinality(S)
    /\ Steps!PayableStatuses = PayableStatuses /\ Steps!UnsettledStatuses = UnsettledStatuses
    /\ \A b, s : Steps!With(b, s) = With(b, s) /\ Steps!With(b, s)' = With(b, s)'
    /\ \A b : Steps!Allocated(b) = Allocated(b)
    /\ \A b : Steps!UnpaidWinners(b) <=> UnpaidWinners(b)
    /\ \A b, s, u : /\ Steps!StatusFor(b, s, u) = StatusFor(b, s, u)
                    /\ StatusFor(b, s, u)' = StatusFor(b, s, u)
<1>1. \A S : Steps!Cardinality(S) = Cardinality(S)
  BY DEF Cardinality, Steps!Cardinality
<1>2. /\ Steps!PayableStatuses = PayableStatuses
      /\ Steps!UnsettledStatuses = UnsettledStatuses
  BY DEF PayableStatuses, Steps!PayableStatuses, UnsettledStatuses, Steps!UnsettledStatuses
<1>3. \A b, s : Steps!With(b, s) = With(b, s) /\ Steps!With(b, s)' = With(b, s)'
  BY DEF With, Steps!With
<1>4. \A b : Steps!Allocated(b) = Allocated(b)
  BY <1>1, <1>2, <1>3 DEF Allocated, Steps!Allocated
<1>5. \A b : Steps!UnpaidWinners(b) <=> UnpaidWinners(b)
  BY <1>2, <1>3, <1>4 DEF UnpaidWinners, Steps!UnpaidWinners
<1>6. \A b, s, u : Steps!StatusFor(b, s, u) = StatusFor(b, s, u)
  BY <1>1 DEF StatusFor, Steps!StatusFor
<1>7. \A b, s, u : StatusFor(b, s, u)' = StatusFor(b, s, u)
  BY DEF StatusFor
<1> QED BY <1>1, <1>2, <1>3, <1>4, <1>5, <1>6, <1>7

LEMMA AdvancedAgrees ==
    ASSUME NEW b,
           reward' = [reward EXCEPT ![b] =
                        IF @ \in PayableStatuses
                        THEN StatusFor(b, With(b, {"PAID"})', With(b, UnsettledStatuses)')
                        ELSE @]
    PROVE  Steps!Advanced(b)
<1>1. /\ With(b, {"PAID"})' = Steps!With(b, {"PAID"})'
      /\ With(b, UnsettledStatuses)' = Steps!With(b, Steps!UnsettledStatuses)'
  BY DEF With, Steps!With, UnsettledStatuses, Steps!UnsettledStatuses
<1>2. /\ Steps!PayableStatuses = PayableStatuses
      /\ \A s, u : Steps!StatusFor(b, s, u) = StatusFor(b, s, u)
  BY RulesAgree
<1> QED BY <1>1, <1>2 DEF Steps!Advanced

LEMMA DepositedActs ==
    ASSUME Inv, NEW r \in Requests, Deposited(r)
    PROVE  Steps!ConfirmDeposit(tx[r].bounty, tx[r].hash)
<1>1. /\ Mine(r) /\ tx[r].kind = "deposit" /\ tx[r].at = "commit" /\ tx[r] # Idle
  BY AtCommit DEF Deposited, Kinds, At
<1>2. /\ reward[tx[r].bounty] = "DEPOSIT_PENDING"
      /\ \A p \in Payouts : payHash[p] # tx[r].hash
      /\ \A b \in Bounties : depositHash[b] # tx[r].hash /\ refundHash[b] # tx[r].hash
  BY <1>1 DEF Mine, HashKnown, RowKnown, Deposited, At
<1> QED BY <1>2 DEF Deposited, Steps!ConfirmDeposit, Steps!Unused

LEMMA RefundedActs ==
    ASSUME Inv, Guarded, NEW r \in Requests, Refunded(r)
    PROVE  Steps!RecordRefund(tx[r].bounty, tx[r].hash)
<1>1. /\ Mine(r) /\ tx[r].kind = "refund" /\ tx[r].at = "commit" /\ tx[r] # Idle
  BY AtCommit DEF Refunded, Kinds, At
<1>2. /\ \A p \in Payouts : payHash[p] # tx[r].hash
      /\ \A b \in Bounties : depositHash[b] # tx[r].hash /\ refundHash[b] # tx[r].hash
  BY <1>1 DEF Mine, HashKnown, At
<1>3. /\ bounty[tx[r].bounty] = "CANCELLED" /\ reward[tx[r].bounty] \in PayableStatuses
      /\ With(tx[r].bounty, UnsettledStatuses) = {}
      /\ Deposit[tx[r].bounty] > Cardinality(With(tx[r].bounty, {"PAID"}))
  BY <1>1 DEF Guarded, GuardKnown
<1> QED BY <1>2, <1>3, RulesAgree DEF Refunded, Steps!RecordRefund, Steps!Unused

LEMMA MovedActs ==
    ASSUME Inv, Guarded, NEW r \in Requests, Moved(r)
    PROVE  Steps!Open(tx[r].bounty) \/ Steps!Cancel(tx[r].bounty)
<1>1. /\ tx[r].kind = "move" /\ tx[r].at = "commit" /\ tx[r] # Idle
  BY AtCommit DEF Moved, Kinds, At
<1>2. GuardKnown(r) /\ tx[r].status \in {"OPEN", "CANCELLED"}
  BY <1>1 DEF Guarded, GuardKnown
<1>3. CASE tx[r].status = "OPEN"
  BY <1>1, <1>2, <1>3, RulesAgree DEF GuardKnown, At, Moved, Steps!Open
<1>4. CASE tx[r].status = "CANCELLED"
  <2>1. ~UnpaidWinners(tx[r].bounty) /\ bounty[tx[r].bounty] \in {"FUNDING_PENDING", "OPEN"}
    BY <1>1, <1>2, <1>4 DEF GuardKnown, At
  <2>2. ~Steps!UnpaidWinners(tx[r].bounty)
    BY <2>1, RulesAgree
  <2> QED BY <1>4, <2>1, <2>2 DEF Moved, Steps!Cancel
<1> QED BY <1>2, <1>3, <1>4

LEMMA RequestedActs ==
    ASSUME Inv, Guarded, NEW r \in Requests, Requested(r),
           NEW p, p = tx[r].payout, NEW b, b = tx[r].bounty
    PROVE  p \in Payouts /\ Steps!RequestPayout(p)
<1>1. /\ tx[r] # Idle /\ Mine(r) /\ b \in Bounties /\ p \in Payouts
      /\ b = BountyOf[p] /\ tx[r].kind = "request" /\ tx[r].at = "commit"
  BY AtCommit DEF Requested, Kinds, At
<1>2. /\ pay[p] = "NONE" /\ reward[b] \in PayableStatuses
      /\ tx[r].status = StatusFor(b, With(b, {"PAID"}),
                                  With(b, UnsettledStatuses) \union {p})
  BY <1>1 DEF Mine, RowKnown, StatusKnown, At
<1>3. bounty[b] = "OPEN" /\ Allocated(b) < Cap[b]
  BY <1>1 DEF Guarded, GuardKnown, At
<1>4. pay' = [pay EXCEPT ![p] = "REQUESTED"]
  BY DEF Requested
<1>5. /\ With(b, {"PAID"})' = With(b, {"PAID"})
      /\ With(b, UnsettledStatuses)' = With(b, UnsettledStatuses) \union {p}
  BY <1>1, <1>2, <1>4 DEF Inv, TypeOK, With, UnsettledStatuses
<1>6. reward' = [reward EXCEPT ![b] =
                   IF @ \in PayableStatuses
                   THEN StatusFor(b, With(b, {"PAID"})', With(b, UnsettledStatuses)')
                   ELSE @]
  BY <1>2, <1>5 DEF Requested, Advanced
<1>7. Steps!Advanced(b)
  BY <1>6, AdvancedAgrees
<1>8. Steps!Allocated(b) < Cap[b] /\ reward[b] \in Steps!PayableStatuses
  BY <1>2, <1>3, RulesAgree
<1> QED BY <1>1, <1>2, <1>3, <1>4, <1>7, <1>8 DEF Requested, Steps!RequestPayout

LEMMA PaidActs ==
    ASSUME Inv, NEW r \in Requests, Paid(r), NEW h, h = tx[r].hash,
           NEW p, p = tx[r].payout, NEW b, b = tx[r].bounty
    PROVE  p \in Payouts /\ h \in Hashes /\ Steps!MarkPaid(p, h)
<1>1. /\ tx[r] # Idle /\ Mine(r) /\ b \in Bounties /\ h \in Hashes /\ p \in Payouts
      /\ b = BountyOf[p] /\ tx[r].kind = "pay" /\ tx[r].at = "commit"
  BY AtCommit DEF Paid, Kinds, At
<1>2. /\ \A q \in Payouts : payHash[q] = h => BountyOf[q] = b
      /\ \A c \in Bounties : refundHash[c] # h /\ depositHash[c] # h
      /\ pay[p] = "APPROVED"
      /\ tx[r].status = StatusFor(b, With(b, {"PAID"}) \union {p},
                                  With(b, UnsettledStatuses) \ {p})
  BY <1>1 DEF Mine, HashKnown, RowKnown, StatusKnown, At
<1>3. pay' = [pay EXCEPT ![p] = "PAID"]
  BY DEF Paid
<1>4. /\ With(b, {"PAID"})' = With(b, {"PAID"}) \union {p}
      /\ With(b, UnsettledStatuses)' = With(b, UnsettledStatuses) \ {p}
  BY <1>1, <1>2, <1>3 DEF Inv, TypeOK, With, UnsettledStatuses
<1>5. reward' = [reward EXCEPT ![b] =
                   IF @ \in PayableStatuses
                   THEN StatusFor(b, With(b, {"PAID"})', With(b, UnsettledStatuses)')
                   ELSE @]
  BY <1>2, <1>4 DEF Paid, Advanced
<1>6. Steps!Advanced(b)
  BY <1>5, AdvancedAgrees
<1>7. Steps!UnusedElsewhere(h, b)
  BY <1>2 DEF Steps!UnusedElsewhere
<1> QED BY <1>1, <1>2, <1>3, <1>6, <1>7 DEF Paid, Steps!MarkPaid

(* Any number of money transactions, however their statements interleave,  *)
(* change the rows as if each ran alone at the moment it commits.          *)
THEOREM TransactionsActAtCommit == Spec => ActsAtCommit
<1>1. Init => Published
  BY DEF Init
<1>2. ASSUME Inv, Guarded, [Next]_vars PROVE [Steps!Next]_(Steps!rowVars)
  <2>1. ASSUME NEW r \in Requests, Begins(r) \/ Proceeds(r) PROVE UNCHANGED rowVars
    BY <2>1 DEF Begins, ConfirmDeposit, RecordRefund, RequestPayout, MarkPaid, Transition,
       Begin, Proceeds, Lock, Look, Insert, Recompute, Blockers, Abort
  <2>2. ASSUME NEW r \in Requests, Commits(r) PROVE Steps!Next
    <3>1. /\ tx[r].bounty \in Bounties
          /\ tx[r].kind \in {"deposit", "refund"} => tx[r].hash \in Hashes
      BY <1>2, <2>2, CommitWrites, Placed DEF Inv, TypeOK, Transactions
    <3>2. Deposited(r) => Steps!Next
      BY <1>2, <3>1, DepositedActs DEF Deposited, Steps!Next
    <3>3. Refunded(r) => Steps!Next
      BY <1>2, <3>1, RefundedActs DEF Refunded, Steps!Next
    <3>4. Moved(r) => Steps!Next
      BY <1>2, <3>1, MovedActs DEF Steps!Next
    <3>5. Requested(r) => Steps!Next
      BY <1>2, RequestedActs DEF Steps!Next, Requested
    <3>6. Paid(r) => Steps!Next
      BY <1>2, PaidActs DEF Steps!Next, Paid
    <3> QED BY <2>2, <3>2, <3>3, <3>4, <3>5, <3>6 DEF Commits
  <2>3. ASSUME NEW p \in Payouts, MarkApproved(p) PROVE Steps!Next
    BY <2>3 DEF MarkApproved, Steps!Next, Steps!MarkApproved
  <2>4. CASE UNCHANGED vars
    BY <2>4 DEF vars, rowVars, Steps!rowVars
  <2> QED BY <1>2, <2>1, <2>2, <2>3, <2>4 DEF Next, rowVars, Steps!rowVars
<1>3. Published => Steps!Published
  BY DEF Published, Steps!Published
<1> QED BY <1>1, <1>2, <1>3, GuardedAlways, PTL DEF Spec, ActsAtCommit, Steps!Spec

-----------------------------------------------------------------------------
(* What can be said of transactions that act at once holds of those that   *)
(* take their time.                                                        *)

RowsInv == AllocationsWithinCap /\ CancelledHasNoOpenPayout

LEMMA AllocatedIsFinite ==
    ASSUME NEW b, NEW s
    PROVE  IsFiniteSet(With(b, s)) /\ Cardinality(With(b, s)) \in Nat
<1>1. With(b, s) \in SUBSET Payouts
  BY DEF With
<1> QED BY <1>1, MoneyAssumption, FS_Subset, FS_CardinalityType

LEMMA RowsRequest ==
    ASSUME TypeOK, RowsInv, NEW p \in Payouts, Steps!RequestPayout(p)
    PROVE  RowsInv'
<1> DEFINE kept == UnsettledStatuses \union {"PAID"}
<1>1. /\ bounty[BountyOf[p]] = "OPEN" /\ pay[p] = "NONE" /\ bounty' = bounty
      /\ Allocated(BountyOf[p]) < Cap[BountyOf[p]]
      /\ pay' = [pay EXCEPT ![p] = "REQUESTED"]
  BY RulesAgree DEF Steps!RequestPayout
<1>2. ASSUME NEW b \in Bounties PROVE Allocated(b)' =< Cap[b]
  <2>1. CASE b = BountyOf[p]
    <3>1. With(b, kept)' = With(b, kept) \union {p} /\ p \notin With(b, kept)
      BY <1>1, <2>1 DEF TypeOK, With, UnsettledStatuses
    <3>2. Allocated(b)' = Allocated(b) + 1
      BY <3>1, AllocatedIsFinite, FS_AddElement DEF Allocated
    <3> QED BY <1>1, <2>1, <3>2, AllocatedIsFinite, MoneyAssumption DEF Allocated
  <2>2. CASE b # BountyOf[p]
    <3>1. With(b, kept)' = With(b, kept)
      BY <1>1, <2>2 DEF TypeOK, With
    <3> QED BY <3>1 DEF Allocated, RowsInv, AllocationsWithinCap
  <2> QED BY <2>1, <2>2
<1>3. ASSUME NEW b \in Bounties, bounty'[b] = "CANCELLED"
      PROVE  With(b, UnsettledStatuses)' = {}
  <2>1. b # BountyOf[p] /\ With(b, UnsettledStatuses) = {}
    BY <1>1, <1>3 DEF RowsInv, CancelledHasNoOpenPayout
  <2> QED BY <1>1, <2>1 DEF TypeOK, With
<1> QED BY <1>2, <1>3 DEF RowsInv, AllocationsWithinCap, CancelledHasNoOpenPayout

(* Nobody but a request makes a payout count, or opens one.                *)
LEMMA RowsOthers ==
    ASSUME RowsInv,
           \A p \in Payouts : /\ pay'[p] \in UnsettledStatuses => pay[p] \in UnsettledStatuses
                              /\ pay'[p] = "PAID" => pay[p] \in UnsettledStatuses \union {"PAID"},
           \A b \in Bounties : bounty'[b] = "CANCELLED" =>
               bounty[b] = "CANCELLED" \/ ~UnpaidWinners(b)
    PROVE  RowsInv'
<1> DEFINE kept == UnsettledStatuses \union {"PAID"}
<1>1. ASSUME NEW b \in Bounties PROVE Allocated(b)' =< Cap[b]
  <2>1. With(b, kept)' \in SUBSET With(b, kept)
    BY DEF With
  <2>2. Cardinality(With(b, kept)') =< Cardinality(With(b, kept))
    BY <2>1, AllocatedIsFinite, FS_Subset
  <2>3. With(b, kept)' \in SUBSET Payouts
    BY DEF With
  <2>4. Cardinality(With(b, kept)') \in Nat
    BY <2>3, MoneyAssumption, FS_Subset, FS_CardinalityType
  <2>5. Allocated(b) =< Cap[b] /\ Allocated(b) \in Nat
    BY AllocatedIsFinite DEF RowsInv, AllocationsWithinCap, Allocated
  <2> QED BY <2>2, <2>4, <2>5, MoneyAssumption DEF Allocated
<1>2. ASSUME NEW b \in Bounties, bounty'[b] = "CANCELLED"
      PROVE  With(b, UnsettledStatuses)' = {}
  <2>1. With(b, UnsettledStatuses) = {}
    BY <1>2 DEF RowsInv, CancelledHasNoOpenPayout, UnpaidWinners
  <2> QED BY <2>1 DEF With
<1> QED BY <1>1, <1>2 DEF RowsInv, AllocationsWithinCap, CancelledHasNoOpenPayout

LEMMA RowsStep == TypeOK /\ RowsInv /\ [Steps!Next]_(Steps!rowVars) => RowsInv'
<1> SUFFICES ASSUME TypeOK, RowsInv, [Steps!Next]_(Steps!rowVars) PROVE RowsInv'
  OBVIOUS
<1>1. ASSUME NEW b \in Bounties, Steps!Open(b) \/ Steps!Cancel(b) PROVE RowsInv'
  BY <1>1, RowsOthers, RulesAgree DEF Steps!Open, Steps!Cancel, TypeOK
<1>2. ASSUME NEW b \in Bounties, NEW h \in Hashes,
             Steps!ConfirmDeposit(b, h) \/ Steps!RecordRefund(b, h)
      PROVE  RowsInv'
  BY <1>2, RowsOthers DEF Steps!ConfirmDeposit, Steps!RecordRefund
<1>3. ASSUME NEW p \in Payouts, Steps!MarkApproved(p) PROVE RowsInv'
  BY <1>3, RowsOthers DEF Steps!MarkApproved, TypeOK, UnsettledStatuses
<1>4. ASSUME NEW p \in Payouts, NEW h \in Hashes, Steps!MarkPaid(p, h) PROVE RowsInv'
  BY <1>4, RowsOthers DEF Steps!MarkPaid, TypeOK, UnsettledStatuses
<1>5. CASE UNCHANGED rowVars
  BY <1>5, RowsOthers DEF rowVars
<1> QED BY <1>1, <1>2, <1>3, <1>4, <1>5, RowsRequest DEF Steps!Next, Steps!rowVars, rowVars

LEMMA RowsInit == Init => RowsInv
<1> SUFFICES ASSUME Init PROVE RowsInv
  OBVIOUS
<1>1. \A b : With(b, UnsettledStatuses \union {"PAID"}) = {}
  BY DEF Init, Published, With, UnsettledStatuses
<1>2. \A b \in Bounties : Allocated(b) =< Cap[b]
  BY <1>1, MoneyAssumption, FS_EmptySet DEF Allocated
<1> QED BY <1>2 DEF Init, Published, RowsInv, AllocationsWithinCap, CancelledHasNoOpenPayout

LEMMA RowsAlways == Spec => []RowsInv
<1>1. Inv => TypeOK
  BY DEF Inv
<1> QED BY <1>1, RowsInit, RowsStep, Invariance, TransactionsActAtCommit, PTL
           DEF Spec, ActsAtCommit, Steps!Spec

(* Requests for payouts of one reward, however many run at a time, never   *)
(* allocate more of it than there is.                                      *)
THEOREM RewardsAreNotOverdrawn == Spec => []AllocationsWithinCap
<1>1. RowsInv => AllocationsWithinCap
  BY DEF RowsInv
<1> QED BY <1>1, RowsAlways, PTL

(* No payout is open in a cancelled bounty, although one may be requested  *)
(* while the bounty is being cancelled.                                    *)
THEOREM CancelledBountiesAreSettled == Spec => []CancelledHasNoOpenPayout
<1>1. RowsInv => CancelledHasNoOpenPayout
  BY DEF RowsInv
<1> QED BY <1>1, RowsAlways, PTL

=============================================================================
