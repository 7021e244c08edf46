---------------------------- MODULE AuthSessions ----------------------------
(***************************************************************************)
(* The refresh sessions of one user (auth-sessions.ts): login, rotation    *)
(* with a grace window, reuse detection, logout and account withdrawal, as *)
(* transactions that overlap.                                              *)
(*                                                                         *)
(* The database runs READ COMMITTED: a statement sees what was committed   *)
(* when it began, waits for the rows it changes or locks, and looks at     *)
(* each of them again when it has the lock, but never at rows that were    *)
(* inserted since.  A statement that may wait is therefore two actions,    *)
(* one that takes its snapshot (`need`, the rows that match) and one that  *)
(* goes on once none of them is locked by another transaction.  `held` are *)
(* the rows a transaction has locked so far; its writes appear when it     *)
(* commits.                                                                *)
(*                                                                         *)
(* A session is named by its refresh token, and tokens are numbered in the *)
(* order of their commits.  now() is the start of a transaction: a request *)
(* remembers which sessions were out of their grace window when it began.  *)
(***************************************************************************)
EXTENDS Naturals, FiniteSets

CONSTANTS
    Requests,     \* transactions there may be at a time (a bound)
    Codes,        \* login codes (a bound)
    MaxTokens,    \* sessions there may ever be (a bound)
    MaxHops,      \* MAX_REVOKE_CHAIN_HOPS
    Suspendable   \* a run may suspend the account

ASSUME SessionAssumption == MaxTokens \in Nat /\ MaxHops \in Nat /\ Suspendable \in BOOLEAN

Tokens == 1 .. MaxTokens

VARIABLES
    made,       \* committed rows of auth_session
    prev,       \* [Tokens -> prev_refresh_token_hash, 0 if NULL]
    open,       \* rows with revoked_at IS NULL
    copy,       \* rows with a grace_refresh_token
    stale,      \* rows whose prev_rotated_at is more than 30 seconds ago
    user,       \* status of the account
    code,       \* [Codes -> state of oauth_login_code]
    req,        \* [Requests -> what a transaction is doing]
    walked      \* consumed tokens whose chain was revoked hop by hop (history)

rows == <<made, prev, open, copy>>
outside == <<stale, user, code>>
vars == <<rows, outside, req, walked>>

Waiting == {"begun", "consumed", "seek", "walk", "hop", "fallback", "logout", "login",
            "withdraw", "revokeAll"}

Idle == [at |-> "idle", held |-> {}]

(* What the transaction knows: the token or code it was sent, the rows     *)
(* that were stale when it began, the hops it has done and the frontier of *)
(* the chain it follows; `used` remembers that its token had been consumed *)
(* (history).                                                              *)
Running == [at : Waiting, held : SUBSET Tokens, need : SUBSET Tokens,
            token : Tokens \union {0}, late : SUBSET Tokens,
            hops : 0 .. MaxHops, frontier : SUBSET Tokens, code : SUBSET Codes,
            used : BOOLEAN]

TypeOK ==
    /\ made \subseteq Tokens
    /\ prev \in [Tokens -> {0} \union Tokens]
    /\ open \subseteq made
    /\ stale \subseteq made
    /\ user \in {"ACTIVE", "SUSPENDED", "WITHDRAWN"}
    /\ code \in [Codes -> {"unissued", "issued", "gone"}]
    /\ req \in [Requests -> Running \union {Idle}]
    /\ walked \subseteq made

Init ==
    /\ made = {}
    /\ prev = [t \in Tokens |-> 0]
    /\ open = {}
    /\ copy = {}
    /\ stale = {}
    /\ user = "ACTIVE"
    /\ code = [c \in Codes |-> "unissued"]
    /\ req = [r \in Requests |-> Idle]
    /\ walked = {}

-----------------------------------------------------------------------------
(* Transactions and their locks *)

At(r, place) == req[r].at = place

(* No other transaction has locked one of these rows.                      *)
Free(r, sessions) == \A q \in Requests \ {r} : req[q].held \intersect sessions = {}

(* The row of the user is locked by a withdrawal: the foreign key of a new *)
(* session waits for it (REFERENCES "user": FOR KEY SHARE).                *)
UserLocked == \E q \in Requests : req[q].at \in {"withdraw", "revokeAll"}

Start(r, place, token, c) ==
    /\ At(r, "idle")
    /\ req' = [req EXCEPT ![r] =
         [at |-> place, held |-> {}, need |-> {}, token |-> token,
          late |-> IF token = 0 THEN {} ELSE stale, hops |-> 0, frontier |-> {token} \ {0}, code |-> c,
          used |-> FALSE]]

Proceed(r, place) == req' = [req EXCEPT ![r].at = place]

End(r) == req' = [req EXCEPT ![r] = Idle]

(* The sessions are revoked and lose their copies.                         *)
Revoke(sessions) ==
    /\ open' = open \ sessions
    /\ copy' = copy \ sessions
    /\ UNCHANGED <<made, prev>>

(* saveSession: the next token gets a row; a successor carries a copy.     *)
MutSave(predecessor) ==
    LET new == Cardinality(made) + 1
    IN  /\ new \in Tokens
        /\ made' = made \union {new}
        /\ prev' = [prev EXCEPT ![new] = predecessor]
        /\ open' = (open \ {predecessor}) \union {new}
        /\ copy' = copy \union (IF predecessor = 0 THEN {} ELSE {new})
Save(predecessor) ==
    LET new == Cardinality(made) + 1
    IN  /\ new \in Tokens
        /\ made' = made \union {new}
        /\ prev' = [prev EXCEPT ![new] = predecessor]
        /\ open' = (open \ {predecessor}) \union {new}
        /\ copy' = (copy \ {predecessor}) \union (IF predecessor = 0 THEN {} ELSE {new})

-----------------------------------------------------------------------------
(* Login: login-codes.ts *)

IssueLoginCode(c) ==
    /\ code[c] = "unissued"
    /\ user # "WITHDRAWN"
    /\ code' = [code EXCEPT ![c] = "issued"]
    /\ UNCHANGED <<rows, stale, user, req, walked>>

(* The code is deleted, which locks it; it counts if the user is active in *)
(* the snapshot.  A second exchange waits for the first and finds nothing. *)
ExchangeLoginCode(r, c) ==
    /\ code[c] = "issued"
    /\ user = "ACTIVE"
    /\ \A q \in Requests : At(q, "login") => c \notin req[q].code
    /\ Start(r, "login", 0, {c})
    /\ UNCHANGED <<rows, outside, walked>>

(* The sixty seconds of the code are over.                                 *)
CodeExpires(c) ==
    /\ code[c] = "issued"
    /\ code' = [code EXCEPT ![c] = "gone"]
    /\ UNCHANGED <<rows, stale, user, req, walked>>

Issue(r) ==
    /\ At(r, "login")
    /\ ~UserLocked
    /\ Save(0)
    /\ code' = [c \in Codes |-> IF c \in req[r].code THEN "gone" ELSE code[c]]
    /\ End(r)
    /\ UNCHANGED <<stale, user, walked>>

-----------------------------------------------------------------------------
(* refresh() *)

Refresh(r, t) ==
    /\ t \in made
    /\ Start(r, "begun", t, {})
    /\ UNCHANGED <<rows, outside, walked>>

(* The conditional UPDATE that takes the session: of several requests with *)
(* one token the first gets it, the others wait and then match nothing.    *)
MutConsume(r) ==
    /\ At(r, "begun")
    /\ LET t == req[r].token
       IN  IF t \in open /\ user = "ACTIVE"
           THEN req' = [req EXCEPT ![r].at = "consumed", ![r].held = {t}]
           ELSE req' = [req EXCEPT ![r].at = "seek", ![r].used = (t \notin open)]
    /\ UNCHANGED <<rows, outside, walked>>
Consume(r) ==
    /\ At(r, "begun")
    /\ LET t == req[r].token
       IN  IF t \in open /\ user = "ACTIVE"
           THEN /\ Free(r, {t})
                /\ req' = [req EXCEPT ![r].at = "consumed", ![r].held = {t}]
           ELSE req' = [req EXCEPT ![r].at = "seek", ![r].used = (t \notin open)]
    /\ UNCHANGED <<rows, outside, walked>>

MutRotate(r) ==
    /\ At(r, "consumed")
    /\ Save(req[r].token)
    /\ End(r)
    /\ UNCHANGED <<outside, walked>>
Rotate(r) ==
    /\ At(r, "consumed")
    /\ ~UserLocked
    /\ Save(req[r].token)
    /\ End(r)
    /\ UNCHANGED <<outside, walked>>

(* The successors whose copy may still be handed out.                      *)
Graced(r) ==
    {s \in open : /\ prev[s] = req[r].token
                  /\ s \notin req[r].late
                  /\ s \in copy
                  /\ user = "ACTIVE"}

(* Within the window the answer is the token the winner got ...            *)
Grace(r) ==
    /\ At(r, "seek")
    /\ Cardinality(Graced(r)) = 1
    /\ End(r)
    /\ UNCHANGED <<rows, outside, walked>>

(* ... and otherwise the token was used again.                             *)
DetectReuse(r) ==
    /\ At(r, "seek")
    /\ Cardinality(Graced(r)) # 1
    /\ Proceed(r, "walk")
    /\ UNCHANGED <<rows, outside, walked>>

-----------------------------------------------------------------------------
(* revokeChain() *)

(* One hop: the rows of the frontier and their successors, FOR UPDATE.     *)
HopBegins(r) ==
    /\ At(r, "walk")
    /\ req[r].frontier # {} /\ req[r].hops < MaxHops
    /\ req' = [req EXCEPT ![r].at = "hop",
                          ![r].need = {s \in made : {s, prev[s]} \intersect req[r].frontier # {}}]
    /\ UNCHANGED <<rows, outside, walked>>

(* The rows found become the next frontier, but for the ones seen already. *)
MutHopLocks(r) ==
    /\ At(r, "hop")
    /\ req' = [req EXCEPT ![r].at = "walk", ![r].held = @ \union req[r].need, ![r].need = {},
                          ![r].hops = @ + 1,
                          ![r].frontier = {s \in req[r].need : prev[s] \in req[r].frontier}]
    /\ UNCHANGED <<rows, outside, walked>>
HopLocks(r) ==
    /\ At(r, "hop")
    /\ Free(r, req[r].need)
    /\ req' = [req EXCEPT ![r].at = "walk", ![r].held = @ \union req[r].need, ![r].need = {},
                          ![r].hops = @ + 1,
                          ![r].frontier = {s \in req[r].need : prev[s] \in req[r].frontier}]
    /\ UNCHANGED <<rows, outside, walked>>

RevokeChain(r) ==
    /\ At(r, "walk")
    /\ req[r].frontier = {}
    /\ Revoke(req[r].held)
    /\ walked' = walked \union (IF req[r].used THEN {req[r].token} ELSE {})
    /\ End(r)
    /\ UNCHANGED outside

(* A chain that does not end within MaxHops: every open session goes, in   *)
(* one statement.                                                          *)
GiveUp(r) ==
    /\ At(r, "walk")
    /\ req[r].frontier # {} /\ req[r].hops >= MaxHops
    /\ req' = [req EXCEPT ![r].at = "fallback", ![r].need = open]
    /\ UNCHANGED <<rows, outside, walked>>

RevokeAllInstead(r) ==
    /\ At(r, "fallback")
    /\ Free(r, req[r].need)
    /\ Revoke(req[r].need)
    /\ End(r)
    /\ UNCHANGED <<outside, walked>>

-----------------------------------------------------------------------------
(* Logout: revoke(), one statement *)

LogoutBegins(r, t) ==
    /\ t \in made
    /\ At(r, "idle")
    /\ req' = [req EXCEPT ![r] =
         [at |-> "logout", held |-> {}, token |-> t, late |-> {}, hops |-> 0,
          frontier |-> {}, code |-> {}, used |-> FALSE,
          need |-> {s \in open : s = t \/ (prev[s] = t /\ s \notin stale)}]]
    /\ UNCHANGED <<rows, outside, walked>>

Logout(r) ==
    /\ At(r, "logout")
    /\ Free(r, req[r].need)
    /\ Revoke(req[r].need)
    /\ End(r)
    /\ UNCHANGED <<outside, walked>>

-----------------------------------------------------------------------------
(* Account withdrawal: the row of the user first, FOR UPDATE, then (among  *)
(* what is not the business of this module) all open sessions.             *)

Withdraw(r) ==
    /\ user = "ACTIVE" /\ ~UserLocked
    /\ Start(r, "withdraw", 0, {})
    /\ UNCHANGED <<rows, outside, walked>>

RevokeAllBegins(r) ==
    /\ At(r, "withdraw")
    /\ req' = [req EXCEPT ![r].at = "revokeAll", ![r].need = open]
    /\ UNCHANGED <<rows, outside, walked>>

Withdrawn(r) ==
    /\ At(r, "revokeAll")
    /\ Free(r, req[r].need)
    /\ Revoke(req[r].need)
    /\ user' = "WITHDRAWN"
    /\ End(r)
    /\ UNCHANGED <<stale, code, walked>>

-----------------------------------------------------------------------------

(* The database breaks a deadlock, a statement times out, a connection is  *)
(* lost: everything is rolled back.                                        *)
Abort(r) ==
    /\ ~At(r, "idle")
    /\ End(r)
    /\ UNCHANGED <<rows, outside, walked>>

(* Thirty seconds after a rotation.                                        *)
WindowCloses(s) ==
    /\ s \in made \ stale
    /\ prev[s] # 0
    /\ stale' = stale \union {s}
    /\ UNCHANGED <<rows, user, code, req, walked>>

(* MaintenanceService.clearGraceCopies.                                    *)
ClearGraceCopies ==
    /\ copy \intersect stale # {}
    /\ \A q \in Requests : req[q].held \intersect copy \intersect stale = {}
    /\ copy' = copy \ stale
    /\ UNCHANGED <<made, prev, open, outside, req, walked>>

(* Operators suspend the account and lift the suspension.                  *)
SetSuspended ==
    /\ Suspendable
    /\ ~UserLocked
    /\ \/ user = "ACTIVE" /\ user' = "SUSPENDED"
       \/ user = "SUSPENDED" /\ user' = "ACTIVE"
    /\ UNCHANGED <<rows, stale, code, req, walked>>

(* A transaction begins, goes on to its next statement or rolls back ...   *)
Proceeds(r) ==
    \/ \E t \in Tokens : Refresh(r, t) \/ LogoutBegins(r, t)
    \/ \E c \in Codes : ExchangeLoginCode(r, c)
    \/ Consume(r) \/ Grace(r) \/ DetectReuse(r)
    \/ HopBegins(r) \/ HopLocks(r) \/ GiveUp(r)
    \/ Withdraw(r) \/ RevokeAllBegins(r)
    \/ Abort(r)

(* ... or commits what it has written.                                     *)
Commits(r) ==
    \/ Issue(r) \/ Rotate(r)
    \/ RevokeChain(r) \/ RevokeAllInstead(r)
    \/ Logout(r) \/ Withdrawn(r)

Outside ==
    \/ \E c \in Codes : IssueLoginCode(c) \/ CodeExpires(c)
    \/ \E s \in Tokens : WindowCloses(s)
    \/ ClearGraceCopies
    \/ SetSuspended

Next == (\E r \in Requests : Proceeds(r) \/ Commits(r)) \/ Outside

Spec == Init /\ [][Next]_vars

-----------------------------------------------------------------------------
(* Safety *)

(* A refresh token is rotated at most once, however many tabs present it   *)
(* at the same time: a chain of sessions never forks.                      *)
SingleSuccessor ==
    \A s, t \in made : prev[s] # 0 /\ prev[s] = prev[t] => s = t

(* The session t and everything that was rotated out of it: what every set *)
(* has in common that holds t and the successors of its members.           *)
HasSuccessors(D) == \A s \in made : prev[s] \in D => s \in D

Chain(t) ==
    {s \in made : \A D \in SUBSET made : t \in D /\ HasSuccessors(D) => s \in D}

(* Once a consumed token that was presented again has been answered with   *)
(* 401, its chain is closed for good, also the part that was being rotated *)
(* at the time.                                                            *)
ReuseEndsChain == \A t \in walked : Chain(t) \intersect open = {}

(* The one secret in the table, the copy of a successor's token, never     *)
(* outlives the session it opens.                                          *)
CopiesAreOfOpenSessions == copy \subseteq open

(* After a withdrawal no session that came out of a rotation is open, also *)
(* none whose rotation overlapped the withdrawal.                          *)
WithdrawalEndsRotations == user = "WITHDRAWN" => \A s \in open : prev[s] = 0

-----------------------------------------------------------------------------
(* What the source says, and what does not hold *)

(* auth-sessions.ts:147-149: revokeChain waits for what is being rotated,  *)
(* sees its successor with the next hop and goes on until there is none.   *)
RefusalEndsChain ==
    [][\A r \in Requests : RevokeChain(r) => Chain(req[r].token) \intersect open' = {}]_vars

(* auth-sessions.ts:233-235: a logout that overlaps the refresh of another *)
(* tab closes the successor as well.                                       *)
LogoutEndsSession ==
    [][\A r \in Requests : Logout(r) =>
           \A s \in open' \ stale : prev'[s] # req[r].token]_vars

=============================================================================
