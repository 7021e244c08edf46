------------------------- MODULE AuthSessionsProofs -------------------------
(***************************************************************************)
(* Proofs about AuthSessions, for any number of requests, codes, sessions  *)
(* and hops.                                                               *)
(***************************************************************************)
EXTENDS AuthSessions, FiniteSetTheorems, TLAPS

(* A request that is not idle is in a transaction with all its fields.     *)
LEMMA InTransaction ==
    ASSUME TypeOK, NEW r \in Requests, ~At(r, "idle")
    PROVE  req[r] \in Running
  BY DEF TypeOK, At, Idle

(* What each kind of step leaves alone.                                    *)
LEMMA ProceedsFrame ==
    ASSUME TypeOK, NEW r \in Requests, Proceeds(r)
    PROVE  /\ UNCHANGED <<rows, outside, walked>>
           /\ req' = [req EXCEPT ![r] = req'[r]]
  BY DEF TypeOK, Proceeds, Refresh, LogoutBegins, ExchangeLoginCode, Consume, Grace,
         DetectReuse, HopBegins, HopLocks, GiveUp, Withdraw, RevokeAllBegins, Abort,
         Start, Proceed, End

LEMMA CommitsEnd ==
    ASSUME NEW r \in Requests, Commits(r)
    PROVE  req' = [req EXCEPT ![r] = Idle]
  BY DEF Commits, Issue, Rotate, RevokeChain, RevokeAllInstead, Logout, Withdrawn, End

LEMMA OutsideFrame ==
    ASSUME Outside
    PROVE  /\ UNCHANGED <<made, prev, open, req, walked>>
           /\ copy' \subseteq copy
           /\ user' = user \/ (Suspendable /\ user' \in {"ACTIVE", "SUSPENDED"})
  BY DEF Outside, IssueLoginCode, CodeExpires, WindowCloses, ClearGraceCopies, SetSuspended,
         rows, outside

-----------------------------------------------------------------------------
(* Types *)

(* TypeOK alone is not inductive: a hop counts one more, and a walk ends in *)
(* the history.                                                            *)
HopsInBound == \A r \in Requests : At(r, "hop") => req[r].hops < MaxHops

Presenting == {"begun", "consumed", "seek", "walk", "hop", "fallback"}

PresentedExists == \A r \in Requests : req[r].at \in Presenting => req[r].token \in made

TypeInv == TypeOK /\ HopsInBound /\ PresentedExists

LEMMA TypeInit == Init => TypeInv
  BY SessionAssumption
     DEF Init, TypeInv, TypeOK, HopsInBound, PresentedExists, Presenting, Idle, Tokens, At

LEMMA TypeProceeds ==
    ASSUME TypeInv, NEW r \in Requests, Proceeds(r)
    PROVE  TypeInv'
  <1> USE DEF TypeInv
  <1>1. UNCHANGED <<rows, outside, walked>> /\ req' = [req EXCEPT ![r] = req'[r]]
    BY ProceedsFrame
  <1> SUFFICES /\ req'[r] \in Running \union {Idle}
               /\ req'[r].at = "hop" => req'[r].hops < MaxHops
               /\ req'[r].at \in Presenting => req'[r].token \in made
    BY <1>1 DEF TypeOK, HopsInBound, PresentedExists, At, rows, outside
  <1> USE SessionAssumption DEF TypeOK, HopsInBound, PresentedExists, Presenting,
                                At, Running, Waiting, Idle
  <1>2. ASSUME NEW t \in Tokens, Refresh(r, t)
        PROVE  req'[r] \in Running /\ req'[r].at = "begun" /\ req'[r].token \in made
    BY <1>2 DEF Refresh, Start
  <1>3. ASSUME NEW t \in Tokens, LogoutBegins(r, t)
        PROVE  req'[r] \in Running /\ req'[r].at = "logout"
    BY <1>3 DEF LogoutBegins
  <1>4. ASSUME NEW c \in Codes, ExchangeLoginCode(r, c)
        PROVE  req'[r] \in Running /\ req'[r].at = "login"
    BY <1>4 DEF ExchangeLoginCode, Start
  <1>5. CASE Withdraw(r)
    BY <1>5 DEF Withdraw, Start
  <1>6. CASE Consume(r) \/ DetectReuse(r) \/ HopBegins(r) \/ HopLocks(r) \/ GiveUp(r)
             \/ RevokeAllBegins(r)
    <2>1. req[r] \in Running
      BY <1>6, InTransaction DEF Consume, DetectReuse, HopBegins, HopLocks, GiveUp,
                                 RevokeAllBegins
    <2>2. CASE Consume(r)
      BY <2>1, <2>2 DEF Consume, Proceed
    <2>3. CASE DetectReuse(r)
      BY <2>1, <2>3 DEF DetectReuse, Proceed
    <2>4. CASE HopBegins(r)
      BY <2>1, <2>4 DEF HopBegins
    <2>5. CASE HopLocks(r)
      <3> DEFINE found == {s \in req[r].need : prev[s] \in req[r].frontier}
      <3>1. req[r].hops + 1 \in 0 .. MaxHops
        BY <2>1, <2>5 DEF HopLocks
      <3>2. req'[r] = [req[r] EXCEPT !.at = "walk", !.held = @ \union req[r].need,
                                     !.need = {}, !.hops = @ + 1, !.frontier = found]
        BY <2>5 DEF HopLocks
      <3>3. found \subseteq Tokens /\ req[r].token \in made
        BY <2>1, <2>5 DEF HopLocks
      <3>4. req[r].held \union req[r].need \subseteq Tokens
        BY <2>1
      <3> HIDE DEF found
      <3>5. req'[r] \in Running
        <4>1. req'[r] = [at |-> "walk", held |-> req[r].held \union req[r].need,
                         need |-> {}, token |-> req[r].token, late |-> req[r].late,
                         hops |-> req[r].hops + 1, frontier |-> found, code |-> req[r].code,
                         used |-> req[r].used]
          BY <2>1, <3>2
        <4>2. /\ req[r].token \in Tokens \union {0} /\ req[r].late \subseteq Tokens
              /\ req[r].code \subseteq Codes /\ req[r].used \in BOOLEAN
          BY <2>1
        <4> QED
          BY <3>1, <3>3, <3>4, <4>1, <4>2
      <3>6. req'[r].at = "walk" /\ req'[r].token = req[r].token
        BY <2>1, <3>2
      <3> QED
        BY <3>3, <3>5, <3>6
    <2>6. CASE GiveUp(r)
      BY <2>1, <2>6 DEF GiveUp
    <2>7. CASE RevokeAllBegins(r)
      BY <2>1, <2>7 DEF RevokeAllBegins
    <2> QED
      BY <1>6, <2>2, <2>3, <2>4, <2>5, <2>6, <2>7
  <1>7. CASE Grace(r) \/ Abort(r)
    BY <1>7 DEF Grace, Abort, End
  <1> QED
    BY <1>2, <1>3, <1>4, <1>5, <1>6, <1>7 DEF Proceeds

(* A commit leaves the bookkeeping of the other transactions alone, and no *)
(* row ever goes.                                                          *)
LEMMA TypeCommits ==
    ASSUME TypeInv, NEW r \in Requests, Commits(r)
    PROVE  TypeInv'
  <1> USE DEF TypeInv, TypeOK
  <1>1. req' = [req EXCEPT ![r] = Idle]
    BY CommitsEnd
  <1>2. TypeOK' /\ made \subseteq made'
    <2>1. CASE Issue(r)
      BY <1>1, <2>1 DEF Issue, Save
    <2>2. CASE Rotate(r)
      <3>1. req[r].token \in Tokens \union {0}
        BY <2>2, InTransaction DEF Rotate, At, Running
      <3> QED
        BY <1>1, <2>2, <3>1 DEF Rotate, Save, outside
    <2>3. CASE RevokeChain(r)
      <3>1. req[r].token \in made
        BY <2>3 DEF RevokeChain, PresentedExists, Presenting, At
      <3> QED
        BY <1>1, <2>3, <3>1 DEF RevokeChain, Revoke, outside
    <2>4. CASE RevokeAllInstead(r) \/ Logout(r)
      BY <1>1, <2>4 DEF RevokeAllInstead, Logout, Revoke, outside
    <2>5. CASE Withdrawn(r)
      BY <1>1, <2>5 DEF Withdrawn, Revoke
    <2> QED
      BY <2>1, <2>2, <2>3, <2>4, <2>5 DEF Commits
  <1> QED
    BY <1>1, <1>2 DEF HopsInBound, PresentedExists, Presenting, At, Idle

LEMMA TypeStep == TypeInv /\ [Next]_vars => TypeInv'
  <1>1. TypeInv /\ Outside => TypeInv'
    BY OutsideFrame DEF TypeInv, TypeOK, HopsInBound, PresentedExists, At, Outside,
        IssueLoginCode, CodeExpires, WindowCloses, ClearGraceCopies, SetSuspended,
        rows, outside
  <1>2. TypeInv /\ UNCHANGED vars => TypeInv'
    BY DEF TypeInv, TypeOK, HopsInBound, PresentedExists, At, vars, rows, outside
  <1> QED
    BY <1>1, <1>2, TypeProceeds, TypeCommits DEF Next

(* Every row keeps to the values of its columns, and a walk along a chain  *)
(* makes no more than MaxHops hops.                                        *)
THEOREM TypeCorrect == Spec => []TypeOK
  <1>1. TypeInv => TypeOK
    BY DEF TypeInv
  <1> QED
    BY <1>1, TypeInit, TypeStep, PTL DEF Spec

-----------------------------------------------------------------------------
(* Locks and rows *)

(* Tokens are numbered without gaps: the next one is new.                  *)
Numbered == \E n \in Nat : made = 1 .. n

(* Who was rotated is closed.                                              *)
PredecessorsClosed == \A s \in made : prev[s] # 0 => prev[s] \in made \ open

LocksExclusive ==
    \A q, r \in Requests : q # r => req[q].held \intersect req[r].held = {}

(* What is locked, or waited for by a hop, exists.                         *)
LocksExist ==
    \A r \in Requests : /\ req[r].held \subseteq made
                        /\ At(r, "hop") => req[r].need \subseteq made

(* A session taken by a rotation is open and locked until that commits.    *)
ConsumedIsOpen ==
    \A r \in Requests :
        At(r, "consumed") => req[r].token \in open /\ req[r].held = {req[r].token}

(* While a transaction waits for its first lock it has none.               *)
NothingLocked == \A r \in Requests : req[r].at \in {"begun", "seek"} => req[r].held = {}

LockInv == LocksExclusive /\ LocksExist /\ ConsumedIsOpen /\ NothingLocked

RowInv == Numbered /\ PredecessorsClosed /\ SingleSuccessor /\ CopiesAreOfOpenSessions

(* What a commit does to the rows: a session more, in place of one that    *)
(* this transaction has locked or of none, or some sessions closed of      *)
(* which no other transaction has locked one.                              *)
LEMMA CommitsFrame ==
    ASSUME TypeOK, LocksExclusive, NEW r \in Requests, Commits(r)
    PROVE  \/ Save(0) /\ ~UserLocked /\ user' = user /\ walked' = walked
           \/ /\ At(r, "consumed") /\ Save(req[r].token)
              /\ ~UserLocked /\ user' = user /\ walked' = walked
           \/ \E sessions :
                /\ Revoke(sessions) /\ Free(r, sessions)
                /\ \/ user' = user
                   \/ At(r, "revokeAll") /\ sessions = req[r].need
                /\ \/ walked' = walked
                   \/ /\ At(r, "walk") /\ req[r].used
                      /\ req[r].frontier = {} /\ sessions = req[r].held
                      /\ walked' = walked \union {req[r].token}
  <1>1. CASE Issue(r)
    BY <1>1 DEF Issue
  <1>2. CASE Rotate(r)
    BY <1>2 DEF Rotate, outside
  <1>3. CASE RevokeChain(r)
    <2>1. Free(r, req[r].held)
      BY DEF Free, LocksExclusive
    <2>2. CASE req[r].used
      BY <1>3, <2>1, <2>2 DEF RevokeChain, outside
    <2>3. CASE ~req[r].used
      BY <1>3, <2>1, <2>3 DEF RevokeChain, outside
    <2> QED
      BY <2>2, <2>3
  <1>4. CASE RevokeAllInstead(r) \/ Logout(r)
    BY <1>4 DEF RevokeAllInstead, Logout, outside
  <1>5. CASE Withdrawn(r)
    BY <1>5 DEF Withdrawn
  <1> QED
    BY <1>1, <1>2, <1>3, <1>4, <1>5 DEF Commits

(* saveSession adds a row that was not there.                              *)
LEMMA SaveAdds ==
    ASSUME TypeOK, Numbered, NEW p, Save(p)
    PROVE  /\ Numbered'
           /\ \E new \in Tokens \ made :
                /\ made' = made \union {new}
                /\ prev' = [prev EXCEPT ![new] = p]
                /\ open' = (open \ {p}) \union {new}
                /\ copy' \subseteq (copy \ {p}) \union {new}
  <1>1. PICK n \in Nat : made = 1 .. n
    BY DEF Numbered
  <1>2. Cardinality(made) = n
    BY <1>1, FS_Interval
  <1>3. n + 1 \in Tokens \ made /\ made' = made \union {n + 1}
    BY <1>1, <1>2 DEF Save
  <1>4. Numbered'
    <2>1. made' = 1 .. (n + 1)
      BY <1>1, <1>3
    <2> QED
      BY <2>1 DEF Numbered
  <1>5. /\ prev' = [prev EXCEPT ![n + 1] = p]
        /\ open' = (open \ {p}) \union {n + 1}
        /\ copy' \subseteq (copy \ {p}) \union {n + 1}
    BY <1>2 DEF Save
  <1> QED
    BY <1>3, <1>4, <1>5

LEMMA LockProceeds ==
    ASSUME TypeInv, LockInv, NEW r \in Requests, Proceeds(r)
    PROVE  LockInv'
  <1>1. /\ UNCHANGED <<rows, outside, walked>>
        /\ req' = [req EXCEPT ![r] = req'[r]]
        /\ req \in [Requests -> Running \union {Idle}]
    BY ProceedsFrame DEF TypeInv, TypeOK
  <1> SUFFICES /\ Free(r, req'[r].held)
               /\ req'[r].held \subseteq made
               /\ req'[r].at = "hop" => req'[r].need \subseteq made
               /\ req'[r].at = "consumed" =>
                      req'[r].token \in open /\ req'[r].held = {req'[r].token}
               /\ req'[r].at \in {"begun", "seek"} => req'[r].held = {}
    BY <1>1 DEF LockInv, LocksExclusive, LocksExist, ConsumedIsOpen, NothingLocked, At,
                Free, rows
  <1>2. Free(r, {}) /\ Free(r, req[r].held) /\ req[r].held \subseteq made
    BY DEF Free, LockInv, LocksExclusive, LocksExist
  <1> USE DEF At, Start, Proceed, End, Idle
  <1>3. ASSUME NEW t \in Tokens, Refresh(r, t) \/ LogoutBegins(r, t)
        PROVE  req'[r].held = {} /\ req'[r].at \in {"begun", "logout"}
    BY <1>1, <1>3 DEF Refresh, LogoutBegins
  <1>4. ASSUME NEW c \in Codes, ExchangeLoginCode(r, c)
        PROVE  req'[r].held = {} /\ req'[r].at = "login"
    BY <1>1, <1>4 DEF ExchangeLoginCode
  <1>5. CASE Withdraw(r) \/ Grace(r) \/ Abort(r)
    <2>1. req'[r].held = {} /\ req'[r].at \in {"withdraw", "idle"}
      BY <1>1, <1>5 DEF Withdraw, Grace, Abort
    <2> QED
      BY <1>2, <2>1
  <1>6. CASE Consume(r) \/ DetectReuse(r) \/ HopBegins(r) \/ HopLocks(r) \/ GiveUp(r)
             \/ RevokeAllBegins(r)
    <2>1. req[r] \in Running
      BY <1>6, InTransaction DEF TypeInv, Consume, DetectReuse, HopBegins, HopLocks, GiveUp,
                                 RevokeAllBegins
    <2>2. CASE Consume(r)
      <3>1. req[r].held = {}
        BY <2>2 DEF Consume, LockInv, NothingLocked
      <3>2. CASE req[r].token \in open /\ user = "ACTIVE"
        <4>1. req' = [req EXCEPT ![r].at = "consumed", ![r].held = {req[r].token}]
          BY <2>2, <3>2 DEF Consume
        <4>2. Free(r, {req[r].token})
          BY <2>2, <3>2 DEF Consume
        <4>3. /\ req'[r].at = "consumed" /\ req'[r].held = {req[r].token}
              /\ req'[r].token = req[r].token
          BY <1>1, <2>1, <4>1 DEF Running
        <4>4. req[r].token \in open /\ open \subseteq made
          BY <3>2 DEF TypeInv, TypeOK
        <4> QED
          BY <4>2, <4>3, <4>4
      <3>3. CASE ~(req[r].token \in open /\ user = "ACTIVE")
        <4>1. req' = [req EXCEPT ![r].at = "seek"]
          BY <2>2, <3>3 DEF Consume
        <4>2. req'[r].at = "seek" /\ req'[r].held = {}
          BY <1>1, <2>1, <3>1, <4>1 DEF Running
        <4> QED
          BY <1>2, <4>2
      <3> QED
        BY <3>2, <3>3
    <2>3. CASE DetectReuse(r)
      BY <1>1, <1>2, <2>1, <2>3 DEF DetectReuse, Running
    <2>4. CASE HopBegins(r)
      BY <1>1, <1>2, <2>1, <2>4 DEF HopBegins, Running
    <2>5. CASE HopLocks(r)
      <3>1. /\ req'[r].held = req[r].held \union req[r].need
            /\ req'[r].at = "walk"
        BY <1>1, <2>1, <2>5 DEF HopLocks, Running
      <3>2. Free(r, req[r].need) /\ req[r].need \subseteq made
        BY <2>5 DEF HopLocks, LockInv, LocksExist
      <3> QED
        BY <1>2, <3>1, <3>2 DEF Free
    <2>6. CASE GiveUp(r)
      BY <1>1, <1>2, <2>1, <2>6 DEF GiveUp, Running
    <2>7. CASE RevokeAllBegins(r)
      BY <1>1, <1>2, <2>1, <2>7 DEF RevokeAllBegins, Running
    <2> QED
      BY <1>6, <2>2, <2>3, <2>4, <2>5, <2>6, <2>7
  <1> QED
    BY <1>2, <1>3, <1>4, <1>5, <1>6 DEF Proceeds

(* The rows one transaction has locked are not closed by another.          *)
LEMMA LockCommits ==
    ASSUME TypeInv, LockInv, RowInv, NEW r \in Requests, Commits(r)
    PROVE  LockInv'
  <1>1. req' = [req EXCEPT ![r] = Idle] /\ req \in [Requests -> Running \union {Idle}]
    BY CommitsEnd DEF TypeInv, TypeOK
  <1>2. SUFFICES /\ made \subseteq made'
                 /\ \A q \in Requests \ {r} :
                        At(q, "consumed") => req[q].token \in open'
    BY <1>1 DEF LockInv, LocksExclusive, LocksExist, ConsumedIsOpen, NothingLocked, At, Idle
  <1>3. CASE Save(0)
    BY <1>3, SaveAdds DEF RowInv, TypeInv, TypeOK, LockInv, ConsumedIsOpen, Tokens
  <1>4. CASE At(r, "consumed") /\ Save(req[r].token)
    <2>1. \A q \in Requests \ {r} :
              At(q, "consumed") => req[q].token \in open /\ req[q].token # req[r].token
      BY <1>4 DEF LockInv, LocksExclusive, ConsumedIsOpen
    <2> QED
      BY <1>4, <2>1, SaveAdds DEF RowInv, TypeInv
  <1>5. ASSUME NEW sessions, Revoke(sessions), Free(r, sessions)
        PROVE  /\ made \subseteq made'
               /\ \A q \in Requests \ {r} :
                      At(q, "consumed") => req[q].token \in open'
    BY <1>5 DEF Revoke, Free, LockInv, ConsumedIsOpen
  <1> QED
    BY <1>3, <1>4, <1>5, CommitsFrame DEF TypeInv, LockInv

(* A row is added after a session that is open, and so has no successor    *)
(* yet, and closes it; nothing opens a session again.                      *)
LEMMA RowCommits ==
    ASSUME TypeInv, LockInv, RowInv, NEW r \in Requests, Commits(r)
    PROVE  RowInv'
  <1> USE DEF RowInv, PredecessorsClosed, SingleSuccessor, CopiesAreOfOpenSessions
  <1>1. ASSUME NEW p \in open \union {0}, Save(p) PROVE RowInv'
    <2>1. prev \in [Tokens -> {0} \union Tokens] /\ open \subseteq made /\ 0 \notin made
          /\ made \subseteq Tokens
      BY DEF TypeInv, TypeOK, Tokens
    <2>2. PICK new \in Tokens \ made :
              /\ made' = made \union {new}
              /\ prev' = [prev EXCEPT ![new] = p]
              /\ open' = (open \ {p}) \union {new}
              /\ copy' \subseteq (copy \ {p}) \union {new}
      BY <1>1, SaveAdds DEF TypeInv
    <2>3. prev'[new] = p /\ \A s \in made : prev'[s] = prev[s]
      BY <2>1, <2>2
    <2>4. PredecessorsClosed'
      BY <2>1, <2>2, <2>3
    <2>5. SingleSuccessor'
      BY <2>1, <2>2, <2>3
    <2>6. CopiesAreOfOpenSessions'
      BY <2>2
    <2> QED
      BY <1>1, <2>4, <2>5, <2>6, SaveAdds DEF TypeInv
  <1>2. CASE At(r, "consumed") /\ Save(req[r].token)
    BY <1>1, <1>2 DEF LockInv, ConsumedIsOpen
  <1>3. ASSUME NEW sessions, Revoke(sessions) PROVE RowInv'
    BY <1>3 DEF Revoke, Numbered
  <1> QED
    BY <1>1, <1>2, <1>3, CommitsFrame DEF TypeInv, LockInv

-----------------------------------------------------------------------------
(* Withdrawal *)

(* From the statement that revokes all sessions to its commit no session   *)
(* is added: the foreign key waits for the user.                           *)
NothingMissed == \A r \in Requests : At(r, "revokeAll") => open \subseteq req[r].need

WithdrawnRotatesNothing ==
    user = "WITHDRAWN" => \A r \in Requests : ~At(r, "consumed")

WithdrawInv ==
    /\ NothingMissed
    /\ WithdrawnRotatesNothing
    /\ WithdrawalEndsRotations
    /\ ~Suspendable => user # "SUSPENDED"

LEMMA WithdrawProceeds ==
    ASSUME TypeInv, WithdrawInv, NEW r \in Requests, Proceeds(r)
    PROVE  WithdrawInv'
  <1>1. /\ UNCHANGED <<rows, outside, walked>>
        /\ req' = [req EXCEPT ![r] = req'[r]]
        /\ req \in [Requests -> Running \union {Idle}]
    BY ProceedsFrame DEF TypeInv, TypeOK
  <1> SUFFICES /\ req'[r].at = "revokeAll" => open \subseteq req'[r].need
               /\ req'[r].at = "consumed" => user # "WITHDRAWN"
    BY <1>1 DEF WithdrawInv, NothingMissed, WithdrawnRotatesNothing,
                WithdrawalEndsRotations, At, rows, outside
  <1> USE DEF At, Start, Proceed, End, Idle
  <1>2. CASE \/ \E t \in Tokens : Refresh(r, t) \/ LogoutBegins(r, t)
             \/ \E c \in Codes : ExchangeLoginCode(r, c)
             \/ Withdraw(r) \/ Grace(r) \/ Abort(r)
    <2>1. req'[r].at \in {"begun", "logout", "login", "withdraw", "idle"}
      BY <1>1, <1>2 DEF Refresh, LogoutBegins, ExchangeLoginCode, Withdraw, Grace, Abort
    <2> QED
      BY <2>1
  <1>3. CASE Consume(r) \/ DetectReuse(r) \/ HopBegins(r) \/ HopLocks(r) \/ GiveUp(r)
             \/ RevokeAllBegins(r)
    <2>1. req[r] \in Running
      BY <1>3, InTransaction DEF TypeInv, Consume, DetectReuse, HopBegins, HopLocks, GiveUp,
                                 RevokeAllBegins
    <2>2. CASE Consume(r)
      <3>1. CASE user = "ACTIVE"
        <4>1. req'[r].at \in {"consumed", "seek"}
          BY <1>1, <2>1, <2>2 DEF Consume, Running
        <4> QED
          BY <3>1, <4>1
      <3>2. CASE user # "ACTIVE"
        <4>1. req'[r].at = "seek"
          BY <1>1, <2>1, <2>2, <3>2 DEF Consume, Running
        <4> QED
          BY <4>1
      <3> QED
        BY <3>1, <3>2
    <2>3. CASE DetectReuse(r) \/ HopBegins(r) \/ HopLocks(r) \/ GiveUp(r)
      <3>1. req'[r].at \in {"walk", "hop", "fallback"}
        BY <1>1, <2>1, <2>3 DEF DetectReuse, HopBegins, HopLocks, GiveUp, Running
      <3> QED
        BY <3>1
    <2>4. CASE RevokeAllBegins(r)
      BY <1>1, <2>1, <2>4 DEF RevokeAllBegins, Running
    <2> QED
      BY <1>3, <2>2, <2>3, <2>4
  <1> QED
    BY <1>2, <1>3 DEF Proceeds

LEMMA WithdrawCommits ==
    ASSUME TypeInv, LockInv, RowInv, WithdrawInv, NEW r \in Requests, Commits(r)
    PROVE  WithdrawInv'
  <1>1. req' = [req EXCEPT ![r] = Idle] /\ req \in [Requests -> Running \union {Idle}]
    BY CommitsEnd DEF TypeInv, TypeOK
  <1>2. LockInv' /\ TypeInv'
    BY LockCommits, TypeCommits
  <1> USE DEF WithdrawInv, NothingMissed, WithdrawnRotatesNothing, WithdrawalEndsRotations,
              At, Idle
  <1>3. ASSUME ~UserLocked, user' = user, NEW p, Save(p),
               p = 0 \/ user # "WITHDRAWN"
        PROVE  WithdrawInv'
    <2>1. PICK new \in Tokens \ made :
              /\ prev' = [prev EXCEPT ![new] = p]
              /\ open' = (open \ {p}) \union {new}
      BY <1>3, SaveAdds DEF TypeInv, RowInv
    <2>2. NothingMissed'
      BY <1>1, <1>3 DEF UserLocked
    <2>3. WithdrawalEndsRotations'
      BY <1>3, <2>1 DEF TypeInv, TypeOK
    <2> QED
      BY <1>1, <1>3, <2>2, <2>3
  <1>4. CASE /\ At(r, "consumed") /\ Save(req[r].token)
             /\ ~UserLocked /\ user' = user
    BY <1>3, <1>4
  <1>5. ASSUME NEW sessions, Revoke(sessions), user' = user PROVE WithdrawInv'
    BY <1>1, <1>5 DEF Revoke
  <1>6. ASSUME Revoke(req[r].need), At(r, "revokeAll") PROVE WithdrawInv'
    <2>1. open' = {}
      BY <1>6 DEF Revoke
    <2>2. \A q \in Requests : ~At(q, "consumed")'
      BY <1>2, <2>1 DEF LockInv, ConsumedIsOpen
    <2>3. user' = user \/ user' = "WITHDRAWN"
      BY <1>6 DEF Commits, Issue, Rotate, RevokeChain, RevokeAllInstead, Logout, Withdrawn,
                  outside
    <2> QED
      BY <2>1, <2>2, <2>3
  <1> QED
    BY <1>3, <1>4, <1>5, <1>6, CommitsFrame DEF TypeInv, LockInv

-----------------------------------------------------------------------------
(* The walk along a chain *)

(* The request follows the chain of a token that had been consumed.        *)
Reused(r, places) == req[r].at \in places /\ req[r].used

(* Such a token is not rotated any more.                                   *)
ReuseIsOver(r) == Reused(r, {"seek", "walk", "hop"}) => req[r].token \notin open

WalkStarts(r) == req[r].at \in {"begun", "seek"} => req[r].frontier = {req[r].token}

(* Where the walk goes on it has locked the rows, but for the first, which *)
(* it locks with its first hop.                                            *)
FrontierKnown(r) ==
    Reused(r, {"walk", "hop"}) =>
        /\ req[r].frontier \subseteq req[r].held \union {req[r].token}
        /\ req[r].token \in req[r].held \union req[r].frontier

(* What a hop waits for is still all there is when it gets the locks.      *)
HopIsExact(r) ==
    Reused(r, {"hop"}) => req[r].need = {s \in made : {s, prev[s]} \intersect req[r].frontier # {}}

(* The successors of what was visited are visited or come next.            *)
NothingSkipped(r) ==
    Reused(r, {"walk", "hop"}) =>
        \A s \in made : prev[s] \in req[r].held \union {req[r].token} =>
            s \in req[r].held \/ prev[s] \in req[r].frontier

WalkOf(r) ==
    /\ ReuseIsOver(r) /\ WalkStarts(r) /\ FrontierKnown(r)
    /\ HopIsExact(r) /\ NothingSkipped(r)

WalkInv == (\A r \in Requests : WalkOf(r)) /\ ReuseEndsChain

LEMMA WalkProceeds ==
    ASSUME TypeInv, LockInv, WalkInv, NEW r \in Requests, Proceeds(r)
    PROVE  WalkInv'
  <1>1. /\ UNCHANGED <<made, prev, open, user, walked>>
        /\ req' = [req EXCEPT ![r] = req'[r]]
        /\ req \in [Requests -> Running \union {Idle}]
    BY ProceedsFrame DEF TypeInv, TypeOK, rows, outside
  <1>2. ReuseEndsChain'
    BY <1>1 DEF WalkInv, ReuseEndsChain, Chain, HasSuccessors
  <1> USE DEF WalkOf, ReuseIsOver, WalkStarts, FrontierKnown, HopIsExact, NothingSkipped,
              Reused, At
  <1> SUFFICES WalkOf(r)'
    BY <1>1, <1>2 DEF WalkInv
  <1>3. WalkOf(r)
    BY DEF WalkInv
  <1>4. ASSUME NEW t \in Tokens, Refresh(r, t) PROVE WalkOf(r)'
    <2>1. req'[r].at = "begun" /\ req'[r].frontier = {t} \ {0} /\ req'[r].token = t
      BY <1>1, <1>4 DEF Refresh, Start
    <2> QED
      BY <2>1 DEF Tokens
  <1>5. CASE \/ \E t \in Tokens : LogoutBegins(r, t)
             \/ \E c \in Codes : ExchangeLoginCode(r, c)
             \/ Withdraw(r) \/ Grace(r) \/ Abort(r)
    <2>1. req'[r].at \in {"logout", "login", "withdraw", "idle"}
      BY <1>1, <1>5 DEF LogoutBegins, ExchangeLoginCode, Withdraw, Grace, Abort,
                        Start, End, Idle
    <2> QED
      BY <2>1
  <1>6. CASE Consume(r) \/ DetectReuse(r) \/ HopBegins(r) \/ HopLocks(r) \/ GiveUp(r)
             \/ RevokeAllBegins(r)
    <2>1. req[r] \in Running
      BY <1>6, InTransaction DEF TypeInv, Consume, DetectReuse, HopBegins, HopLocks, GiveUp,
                                 RevokeAllBegins
    <2>2. CASE Consume(r)
      <3>1. CASE req[r].token \in open /\ user = "ACTIVE"
        <4>1. req'[r].at = "consumed"
          BY <1>1, <2>1, <2>2, <3>1 DEF Consume, Running
        <4> QED
          BY <4>1
      <3>2. CASE ~(req[r].token \in open /\ user = "ACTIVE")
        <4> DEFINE reused == req[r].token \notin open
        <4>1. req[r].at = "begun" /\ req' = [req EXCEPT ![r].at = "seek", ![r].used = reused]
          BY <2>2, <3>2 DEF Consume
        <4> HIDE DEF reused
        <4>2. /\ req'[r].at = "seek" /\ req'[r].token = req[r].token
              /\ req'[r].frontier = req[r].frontier /\ req'[r].used = reused
          BY <1>1, <2>1, <4>1 DEF Running
        <4>3. req'[r].used => req[r].token \notin open
          BY <4>2, Zenon DEF reused
        <4> QED
          BY <1>1, <1>3, <4>1, <4>2, <4>3
      <3> QED
        BY <3>1, <3>2
    <2>3. CASE DetectReuse(r)
      <3>1. /\ req[r].at = "seek" /\ req'[r].at = "walk" /\ req'[r].token = req[r].token
            /\ req'[r].frontier = req[r].frontier /\ req'[r].held = req[r].held
            /\ req'[r].used = req[r].used
        BY <1>1, <2>1, <2>3 DEF DetectReuse, Proceed, Running
      <3>2. req[r].held = {} /\ req[r].frontier = {req[r].token}
        BY <1>3, <3>1 DEF LockInv, NothingLocked
      <3> QED
        BY <1>1, <1>3, <3>1, <3>2
    <2>4. CASE HopBegins(r)
      <3> DEFINE found == {s \in made : {s, prev[s]} \intersect req[r].frontier # {}}
      <3>1. req[r].at = "walk" /\ req' = [req EXCEPT ![r].at = "hop", ![r].need = found]
        BY <2>4 DEF HopBegins
      <3> HIDE DEF found
      <3>2. /\ req'[r].at = "hop" /\ req'[r].need = found /\ req'[r].held = req[r].held
            /\ req'[r].token = req[r].token /\ req'[r].frontier = req[r].frontier
            /\ req'[r].used = req[r].used
        BY <1>1, <2>1, <3>1 DEF Running
      <3> QED
        BY <1>1, <1>3, <3>1, <3>2 DEF found
    <2>5. CASE HopLocks(r)
      <3> DEFINE next == {s \in req[r].need : prev[s] \in req[r].frontier}
      <3>1. /\ req[r].at = "hop"
            /\ req' = [req EXCEPT ![r].at = "walk", ![r].held = @ \union req[r].need,
                                  ![r].need = {}, ![r].hops = @ + 1, ![r].frontier = next]
        BY <2>5 DEF HopLocks
      <3> HIDE DEF next
      <3>2. /\ req'[r].at = "walk" /\ req'[r].held = req[r].held \union req[r].need
            /\ req'[r].token = req[r].token /\ req'[r].frontier = next
            /\ req'[r].used = req[r].used
        BY <1>1, <2>1, <3>1 DEF Running
      <3>3. req[r].used => req[r].need = {s \in made : s \in req[r].frontier \/ prev[s] \in req[r].frontier}
        BY <1>3, <3>1
      <3>4. req[r].token \in made
        BY <3>1 DEF TypeInv, PresentedExists, Presenting
      <3>5. FrontierKnown(r)'
        BY <1>3, <3>1, <3>2, <3>3, <3>4 DEF next
      <3>6. NothingSkipped(r)'
        <4> SUFFICES ASSUME req[r].used, NEW s \in made,
                            prev[s] \in req[r].held \union req[r].need \union {req[r].token}
                     PROVE  s \in req[r].held \union req[r].need \/ prev[s] \in next
          BY <1>1, <3>2
        <4>1. CASE prev[s] \in req[r].held \union {req[r].token}
          BY <1>3, <3>1, <3>3, <4>1
        <4>2. CASE prev[s] \in req[r].need
          BY <3>3, <4>2 DEF next
        <4> QED
          BY <4>1, <4>2
      <3>7. ReuseIsOver(r)'
        BY <1>1, <1>3, <3>1, <3>2
      <3>8. WalkStarts(r)' /\ HopIsExact(r)'
        BY <3>2
      <3> HIDE DEF ReuseIsOver, WalkStarts, FrontierKnown, HopIsExact, NothingSkipped
      <3> QED
        BY <3>5, <3>6, <3>7, <3>8
    <2>6. CASE GiveUp(r) \/ RevokeAllBegins(r)
      <3>1. req'[r].at \in {"fallback", "revokeAll"}
        BY <1>1, <2>1, <2>6 DEF GiveUp, RevokeAllBegins, Running
      <3> QED
        BY <3>1
    <2> QED
      BY <1>6, <2>2, <2>3, <2>4, <2>5, <2>6
  <1> QED
    BY <1>4, <1>5, <1>6 DEF Proceeds

(* A row added elsewhere does not lengthen a chain.                        *)
LEMMA ChainKept ==
    ASSUME NEW t \in made, NEW p, p \notin Chain(t), NEW new, new \notin made,
           prev \in [Tokens -> {0} \union Tokens], made \subseteq Tokens,
           made' = made \union {new}, prev' = [prev EXCEPT ![new] = p], new \in Tokens
    PROVE  Chain(t)' \subseteq Chain(t)
  <1>1. t \in Chain(t)
    BY DEF Chain
  <1>2. HasSuccessors(Chain(t))
    BY DEF HasSuccessors, Chain
  <1>3. Chain(t) \in SUBSET made'
    BY DEF Chain
  <1>4. \A s \in made' : prev'[s] \in Chain(t) => s \in Chain(t)
    BY <1>2 DEF HasSuccessors
  <1> DEFINE C == Chain(t)
  <1> HIDE DEF C
  <1>5. ASSUME NEW s \in Chain(t)' PROVE s \in C
    BY <1>1, <1>3, <1>4, <1>5 DEF Chain, HasSuccessors, C
  <1> QED
    BY <1>5 DEF C

(* The token of another request that is not being rotated, and the rows it *)
(* has locked, get no successor.                                           *)
LEMMA WalkOverSave ==
    ASSUME TypeInv, LockInv, RowInv, WalkInv, NEW r \in Requests,
           NEW p \in open \union {0}, Save(p), user' = user, walked' = walked,
           req' = [req EXCEPT ![r] = Idle],
           \A q \in Requests \ {r} :
               /\ p \notin req[q].held
               /\ Reused(q, {"walk", "hop"}) => p # req[q].token
    PROVE  WalkInv'
  <1>1. /\ prev \in [Tokens -> {0} \union Tokens] /\ open \subseteq made /\ 0 \notin made
        /\ made \subseteq Tokens /\ req \in [Requests -> Running \union {Idle}]
        /\ walked \subseteq made
    BY DEF TypeInv, TypeOK, Tokens
  <1>2. PICK new \in Tokens \ made :
            /\ made' = made \union {new}
            /\ prev' = [prev EXCEPT ![new] = p]
            /\ open' = (open \ {p}) \union {new}
    BY SaveAdds DEF TypeInv, RowInv
  <1>3. prev'[new] = p /\ \A s \in made : prev'[s] = prev[s]
    BY <1>1, <1>2
  <1>4. ASSUME NEW q \in Requests \ {r} PROVE WalkOf(q)'
    <2>1. req'[q] = req[q]
      BY <1>1
    <2>2. req[q].at \in {"seek", "walk", "hop"} => req[q].token \in made
      BY DEF TypeInv, PresentedExists, Presenting
    <2>3. WalkOf(q) /\ req[q].held \subseteq made
      BY DEF WalkInv, LockInv, LocksExist
    <2>4. ReuseIsOver(q)' /\ WalkStarts(q)' /\ FrontierKnown(q)'
      BY <1>2, <2>1, <2>2, <2>3 DEF WalkOf, ReuseIsOver, WalkStarts, FrontierKnown, Reused
    <2>5. ASSUME Reused(q, {"hop"}) PROVE HopIsExact(q)'
      <3>1. p \notin req[q].frontier /\ new \notin req[q].frontier
        BY <1>2, <2>2, <2>3, <2>5 DEF WalkOf, FrontierKnown, Reused
      <3>2. \A s \in made' : {s, prev'[s]} \intersect req[q].frontier # {} =>
                s \in made /\ {s, prev[s]} \intersect req[q].frontier # {}
        BY <1>2, <1>3, <3>1
      <3> QED
        BY <1>2, <1>3, <2>1, <2>3, <2>5, <3>2 DEF WalkOf, HopIsExact, Reused
    <2>6. NothingSkipped(q)'
      BY <1>2, <1>3, <2>1, <2>3 DEF WalkOf, NothingSkipped, Reused
    <2>7. HopIsExact(q)'
      BY <2>1, <2>5 DEF HopIsExact, Reused
    <2> QED
      BY <2>4, <2>6, <2>7 DEF WalkOf
  <1>5. WalkOf(r)'
    BY <1>1 DEF Idle, WalkOf, ReuseIsOver, WalkStarts, FrontierKnown, HopIsExact,
                NothingSkipped, Reused, At
  <1>6. ASSUME NEW t \in walked PROVE Chain(t)' \intersect open' = {}
    <2>1. Chain(t) \intersect open = {} /\ t \in made /\ Chain(t) \subseteq made
      BY <1>1 DEF WalkInv, ReuseEndsChain, Chain
    <2>2. p \notin Chain(t)
      BY <1>1, <2>1
    <2>3. Chain(t)' \subseteq Chain(t)
      BY <1>1, <1>2, <2>1, <2>2, ChainKept
    <2> QED
      BY <1>2, <2>1, <2>3
  <1> QED
    BY <1>4, <1>5, <1>6 DEF WalkInv, ReuseEndsChain

LEMMA WalkCommits ==
    ASSUME TypeInv, LockInv, RowInv, WithdrawInv, WalkInv,
           NEW r \in Requests, Commits(r)
    PROVE  WalkInv'
  <1>1. req' = [req EXCEPT ![r] = Idle] /\ req \in [Requests -> Running \union {Idle}]
    BY CommitsEnd DEF TypeInv, TypeOK
  <1>2. CASE Save(0) /\ user' = user /\ walked' = walked
    <2>1. \A q \in Requests : /\ 0 \notin req[q].held
                              /\ Reused(q, {"walk", "hop"}) => 0 # req[q].token
      BY DEF LockInv, LocksExist, TypeInv, TypeOK, Tokens, PresentedExists, Presenting, Reused
    <2> QED
      BY <1>1, <1>2, <2>1, WalkOverSave
  <1>3. CASE /\ At(r, "consumed") /\ Save(req[r].token)
             /\ user' = user /\ walked' = walked
    <2>1. req[r].token \in open /\ req[r].held = {req[r].token} /\ user # "WITHDRAWN"
      BY <1>3 DEF LockInv, ConsumedIsOpen, WithdrawInv, WithdrawnRotatesNothing
    <2>2. ASSUME NEW q \in Requests \ {r}
          PROVE  /\ req[r].token \notin req[q].held
                 /\ Reused(q, {"walk", "hop"}) => req[r].token # req[q].token
      BY <2>1 DEF LockInv, LocksExclusive, WalkInv, WalkOf, ReuseIsOver, Reused
    <2> QED
      BY <1>1, <1>3, <2>1, <2>2, WalkOverSave
  <1>4. ASSUME NEW sessions, Revoke(sessions),
               user' = user \/ user' = "WITHDRAWN",
               \/ walked' = walked
               \/ /\ Reused(r, {"walk"}) /\ req[r].frontier = {} /\ sessions = req[r].held
                  /\ walked' = walked \union {req[r].token}
        PROVE  WalkInv'
    <2>1. made' = made /\ prev' = prev /\ open' = open \ sessions
      BY <1>4 DEF Revoke
    <2>2. \A q \in Requests : WalkOf(q)'
      BY <1>1, <1>4, <2>1 DEF WalkInv, WalkOf, ReuseIsOver, WalkStarts, FrontierKnown,
                              HopIsExact, NothingSkipped, Reused, At, Idle
    <2>3. \A t \in walked : Chain(t) \intersect open' = {}
      BY <2>1 DEF WalkInv, ReuseEndsChain
    <2>4. ASSUME Reused(r, {"walk"}), req[r].frontier = {}, sessions = req[r].held
          PROVE  Chain(req[r].token) \intersect open' = {}
      <3>1. req[r].token \in req[r].held /\ req[r].held \in SUBSET made
        BY <2>4 DEF LockInv, LocksExist, WalkInv, WalkOf, FrontierKnown, Reused
      <3>2. HasSuccessors(req[r].held)
        BY <2>4, <3>1 DEF WalkInv, WalkOf, NothingSkipped, HasSuccessors, Reused
      <3>3. Chain(req[r].token) \subseteq req[r].held
        BY <3>1, <3>2 DEF Chain
      <3> QED
        BY <2>1, <2>4, <3>3
    <2>5. \A t \in walked' : Chain(t) \intersect open' = {}
      BY <1>4, <2>3, <2>4
    <2>6. ReuseEndsChain'
      BY <2>1, <2>5 DEF ReuseEndsChain, Chain, HasSuccessors
    <2> QED
      BY <2>2, <2>6 DEF WalkInv
  <1>5. user' = user \/ user' = "WITHDRAWN"
    BY DEF Commits, Issue, Rotate, RevokeChain, RevokeAllInstead, Logout, Withdrawn, outside
  <1> QED
    BY <1>2, <1>3, <1>4, <1>5, CommitsFrame DEF TypeInv, LockInv, Reused, At

-----------------------------------------------------------------------------
(* The theorems *)

SafetyInv == TypeInv /\ LockInv /\ RowInv /\ WithdrawInv

LEMMA SafetyInit == Init => SafetyInv /\ WalkInv
  <1> SUFFICES ASSUME Init PROVE SafetyInv /\ WalkInv
    OBVIOUS
  <1>1. TypeInv
    BY TypeInit
  <1>2. Numbered
    <2>1. made = 1 .. 0
      BY DEF Init
    <2> QED
      BY <2>1 DEF Numbered
  <1> QED
    BY <1>1, <1>2 DEF Init, SafetyInv, LockInv, LocksExclusive, LocksExist, ConsumedIsOpen,
        NothingLocked, RowInv, PredecessorsClosed, SingleSuccessor,
        CopiesAreOfOpenSessions, WithdrawInv, NothingMissed, WithdrawnRotatesNothing,
        WithdrawalEndsRotations, WalkInv, WalkOf, ReuseIsOver, WalkStarts, FrontierKnown,
        HopIsExact, NothingSkipped, ReuseEndsChain, Reused, Idle, At

LEMMA SafetyStep == SafetyInv /\ [Next]_vars => SafetyInv'
  <1> SUFFICES ASSUME SafetyInv, [Next]_vars PROVE SafetyInv'
    OBVIOUS
  <1>1. TypeInv'
    BY TypeStep DEF SafetyInv
  <1>2. ASSUME NEW r \in Requests, Proceeds(r) PROVE SafetyInv'
    <2>1. LockInv' /\ WithdrawInv'
      BY <1>2, LockProceeds, WithdrawProceeds DEF SafetyInv
    <2>2. UNCHANGED rows
      BY <1>2, ProceedsFrame DEF SafetyInv, TypeInv
    <2>3. RowInv'
      BY <2>2 DEF SafetyInv, RowInv, Numbered, PredecessorsClosed, SingleSuccessor,
                  CopiesAreOfOpenSessions, rows
    <2> QED
      BY <1>1, <2>1, <2>3 DEF SafetyInv
  <1>3. ASSUME NEW r \in Requests, Commits(r) PROVE SafetyInv'
    BY <1>1, <1>3, LockCommits, RowCommits, WithdrawCommits DEF SafetyInv
  <1>4. ASSUME /\ UNCHANGED <<made, prev, open, req, walked>>
               /\ copy' \subseteq copy
               /\ user' = user \/ (Suspendable /\ user' \in {"ACTIVE", "SUSPENDED"})
        PROVE  SafetyInv'
    <2>1. LockInv' /\ RowInv'
      BY <1>4 DEF SafetyInv, LockInv, LocksExclusive, LocksExist, ConsumedIsOpen,
          NothingLocked, RowInv, Numbered, PredecessorsClosed, SingleSuccessor,
          CopiesAreOfOpenSessions, At
    <2>2. WithdrawInv'
      BY <1>4 DEF SafetyInv, WithdrawInv, NothingMissed, WithdrawnRotatesNothing,
          WithdrawalEndsRotations, At
    <2> QED
      BY <1>1, <2>1, <2>2 DEF SafetyInv
  <1>5. CASE Outside
    BY <1>4, <1>5, OutsideFrame
  <1>6. CASE UNCHANGED vars
    BY <1>4, <1>6 DEF vars, rows, outside
  <1> QED
    BY <1>2, <1>3, <1>5, <1>6 DEF Next

LEMMA WalkStep ==
    SafetyInv /\ WalkInv /\ [Next]_vars => WalkInv'
  <1> SUFFICES ASSUME SafetyInv, WalkInv, [Next]_vars PROVE WalkInv'
    OBVIOUS
  <1>1. ASSUME UNCHANGED <<made, prev, open, req, walked>> PROVE WalkInv'
    BY <1>1 DEF WalkInv, WalkOf, ReuseIsOver, WalkStarts, FrontierKnown, HopIsExact,
        NothingSkipped, ReuseEndsChain, Chain, HasSuccessors, Reused, At
  <1>2. CASE Outside
    BY <1>1, <1>2, OutsideFrame
  <1>3. CASE UNCHANGED vars
    BY <1>1, <1>3 DEF vars, rows, outside
  <1> QED
    BY <1>2, <1>3, WalkProceeds, WalkCommits DEF SafetyInv, Next

LEMMA SafetyAlways == Spec => []SafetyInv
  BY SafetyInit, SafetyStep, PTL DEF Spec

(* However many requests present a token at the same time, it is rotated   *)
(* into one successor: the conditional UPDATE of refresh() and the order   *)
(* of its locks never let a chain fork.                                    *)
THEOREM ChainsNeverFork == Spec => []SingleSuccessor
  <1>1. SafetyInv => SingleSuccessor
    BY DEF SafetyInv, RowInv
  <1> QED
    BY <1>1, SafetyAlways, PTL

(* No statement that closes a session leaves its copy of a token behind.   *)
THEOREM CopiesAreKeptShort == Spec => []CopiesAreOfOpenSessions
  <1>1. SafetyInv => CopiesAreOfOpenSessions
    BY DEF SafetyInv, RowInv
  <1> QED
    BY <1>1, SafetyAlways, PTL

(* A withdrawal closes every session that came out of a rotation, although *)
(* its one UPDATE does not see rows that are added meanwhile: the foreign  *)
(* key makes the rotation wait for the lock on the user.                   *)
THEOREM WithdrawalsEndRotations == Spec => []WithdrawalEndsRotations
  <1>1. SafetyInv => WithdrawalEndsRotations
    BY DEF SafetyInv, WithdrawInv
  <1> QED
    BY <1>1, SafetyAlways, PTL

(* Once a token that had been consumed is presented again, revokeChain     *)
(* closes its whole chain, whatever is being rotated while it follows the  *)
(* chain hop by hop.                                                       *)
THEOREM ReusedChainsAreDead == Spec => []ReuseEndsChain
  <1>1. WalkInv => ReuseEndsChain
    BY DEF WalkInv
  <1> QED
    BY <1>1, SafetyInit, SafetyAlways, WalkStep, PTL DEF Spec

=============================================================================
