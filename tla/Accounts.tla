------------------------------ MODULE Accounts ------------------------------
(***************************************************************************)
(* What accounts hold on to: the receiving wallet of a user and the agents *)
(* he registers, each of which stands for an address of its own            *)
(* (wallets.service.ts, wallet-replacement.service.ts, agents.service.ts,  *)
(* account-withdrawal.service.ts).                                         *)
(*                                                                         *)
(* Every handler is one transaction under READ COMMITTED.  It first locks  *)
(* the row of its owner, FOR SHARE or FOR UPDATE, and then the rows of     *)
(* agents it looks at; an INSERT waits for transactions that are about to  *)
(* take or to free the same entry of a unique index.  An action runs from  *)
(* one such wait to the next, and writes appear when the transaction       *)
(* commits.  `held` are the rows of agents it has locked, `need` those its *)
(* present statement found in its snapshot and locks one by one.           *)
(*                                                                         *)
(* Signatures are genuine, a wrong one only refuses the call, as do the    *)
(* payouts and NFT jobs that keep a wallet or an account from going, which *)
(* are BountyFlow's, and an account that is suspended.                     *)
(***************************************************************************)
EXTENDS AccountRows

CONSTANT Requests  \* transactions there may be at a time (a bound)

VARIABLE tx  \* [Requests -> what a transaction is doing]

vars == <<agentVars, wallet, withdrawn, tx>>

(* FOR SHARE of the owner ...                                              *)
Sharing == {"retire", "index", "recheck", "verify", "activate", "rotate", "rotated",
            "revoke", "revoked"}
(* ... or FOR UPDATE.                                                      *)
Updating == {"link", "swap", "agents"}

Idle == [at |-> "idle", held |-> {}]

Running == [at : Sharing \union Updating, user : Users, address : Addresses \union {None},
            row : Rows \union {None}, retire : SUBSET Rows,
            held : SUBSET Rows, need : SUBSET Rows]

TypeOK ==
    /\ owner \in [Rows -> Users \union {None}]
    /\ address \in [Rows -> Addresses \union {None}]
    /\ status \in [Rows -> AgentStatuses]
    /\ verified \subseteq Rows
    /\ abandoned \subseteq Rows
    /\ key \in [Rows -> {"NONE", "ACTIVE", "REVOKED"}]
    /\ reserved \in [Addresses -> Users \union {None}]
    /\ wallet \in [Users -> Addresses \union {None}]
    /\ withdrawn \subseteq Users
    /\ tx \in [Requests -> Running \union {Idle}]

Init == NoAgents /\ tx = [r \in Requests |-> Idle]

-----------------------------------------------------------------------------
(* Locks *)

At(r, place) == tx[r].at = place

Others(r) == {q \in Requests \ {r} : tx[q] # Idle}

Share(r, u) == \A q \in Others(r) : tx[q].user = u => tx[q].at \in Sharing
Update(r, u) == \A q \in Others(r) : tx[q].user # u

Free(r, g) == \A q \in Requests \ {r} : g \notin tx[q].held

Start(r, u, place, a, g, found) ==
    /\ At(r, "idle")
    /\ u \notin withdrawn
    /\ tx' = [tx EXCEPT ![r] = [at |-> place, user |-> u, address |-> a, row |-> g,
                                retire |-> {}, held |-> {}, need |-> found]]

End(r) == tx' = [tx EXCEPT ![r] = Idle]

(* SELECT ... FOR UPDATE locks in the order of the ids, an UPDATE in any.  *)
LockNext(r) ==
    /\ tx[r].at \in {"retire", "recheck", "agents"}
    /\ \E g \in tx[r].need \ tx[r].held :
         /\ At(r, "agents") \/ \A h \in tx[r].need \ tx[r].held : g =< h
         /\ Free(r, g)
         /\ tx' = [tx EXCEPT ![r].held = @ \union {g}]
    /\ UNCHANGED <<agentVars, wallet, withdrawn>>

-----------------------------------------------------------------------------
(* AgentsService.register *)

(* Rows that claim the address without being in use (retireReusableAgents).*)
Claims(g, a) == status[g] \in {"PENDING", "REVOKED"} /\ address[g] = a

MutRegisterBegins(r, u, a) ==   \* the agents before the owner
    /\ Start(r, u, "retire", a, None, {g \in Rows : Claims(g, a)})
    /\ UNCHANGED <<agentVars, wallet, withdrawn>>
RegisterBegins(r, u, a) ==
    /\ Share(r, u)
    /\ Start(r, u, "retire", a, None, {g \in Rows : Claims(g, a)})
    /\ UNCHANGED <<agentVars, wallet, withdrawn>>

(* A row as it is when it has been locked: what another owner has proved   *)
(* to be his, or may be about to prove, is not to be had.                  *)
Found(r) == {g \in tx[r].need : Claims(g, tx[r].address) /\ owner[g] # tx[r].user}
Taken(r) == \E g \in Found(r) : IF status[g] = "REVOKED" THEN g \in verified
                                                         ELSE g \notin abandoned
Abandoned(r) == {g \in Found(r) : status[g] = "PENDING"}

(* The trigger of 0028 looks at the reservations before a row is written   *)
(* and, as an INSERT may have waited, again after.                         *)
Retire(r) ==
    /\ At(r, "retire")
    /\ tx[r].need \subseteq tx[r].held
    /\ IF Taken(r) \/ ReservedByOther(tx[r].user, tx[r].address)
       THEN End(r)
       ELSE tx' = [tx EXCEPT ![r].at = "index", ![r].retire = Abandoned(r), ![r].need = {}]
    /\ UNCHANGED <<agentVars, wallet, withdrawn>>

(* uq_agent_wallet: the address is in use.  The caller gets his own        *)
(* pending row, or 409.                                                    *)
InsertFails(r) ==
    /\ At(r, "index")
    /\ LiveAt(tx[r].address) \ tx[r].retire # {}
    /\ End(r)
    /\ UNCHANGED <<agentVars, wallet, withdrawn>>

(* The INSERT, which may have waited for a row to be revoked, and the      *)
(* checks that follow it.                                                  *)
Insert(r, g) ==
    /\ At(r, "index")
    /\ LiveAt(tx[r].address) \subseteq tx[r].retire
    /\ \A q \in Others(r) : At(q, "recheck") => tx[q].address # tx[r].address
    /\ status[g] = "NONE" /\ \A q \in Others(r) : tx[q].row # g
    /\ IF \/ ReservedByOther(tx[r].user, tx[r].address)
          \/ wallet[tx[r].user] = tx[r].address
       THEN End(r)
       ELSE tx' = [tx EXCEPT ![r].at = "recheck", ![r].row = g,
                             ![r].need = {h \in Rows \ tx[r].retire : Claims(h, tx[r].address)}]
    /\ UNCHANGED <<agentVars, wallet, withdrawn>>

Registered(r) ==
    /\ At(r, "recheck")
    /\ tx[r].need \subseteq tx[r].held
    /\ IF Taken(r) THEN UNCHANGED <<owner, address, status, abandoned>>
       ELSE /\ owner' = [owner EXCEPT ![tx[r].row] = tx[r].user]
            /\ address' = [address EXCEPT ![tx[r].row] = tx[r].address]
            /\ status' = [g \in Rows |-> IF g = tx[r].row THEN "PENDING"
                                         ELSE IF g \in tx[r].retire \union Abandoned(r)
                                         THEN "DELETED" ELSE status[g]]
            /\ abandoned' = abandoned \ (tx[r].retire \union Abandoned(r))
    /\ End(r)
    /\ UNCHANGED <<verified, key, reserved, wallet, withdrawn>>

(* 24 hours after the registration.                                        *)
Ages(g) ==
    /\ status[g] = "PENDING" /\ g \notin abandoned
    /\ abandoned' = abandoned \union {g}
    /\ UNCHANGED <<owner, address, status, verified, key, reserved, wallet, withdrawn, tx>>

-----------------------------------------------------------------------------
(* What an owner does with a row of his: verifyAndIssueKey, rotateKey,     *)
(* revoke.  The row is read or locked by its id and its owner.             *)

AgentBegins(r, u, g, place) ==
    /\ owner[g] = u /\ status[g] # "DELETED"
    /\ place = "verify" => /\ status[g] = "PENDING"
                           /\ ~ReservedByOther(u, address[g])
    /\ Share(r, u)
    /\ Start(r, u, place, None, g, {})
    /\ UNCHANGED <<agentVars, wallet, withdrawn>>

(* What the row has to be when it is locked, and where that leads.         *)
Steps == [verify |-> "activate", rotate |-> "rotated", revoke |-> "revoked"]
Allowed == [verify |-> {"PENDING"}, rotate |-> {"ACTIVE"}, revoke |-> {"PENDING", "ACTIVE"}]

MutLockAgent(r) ==              \* reads the row without locking it
    /\ tx[r].at \in DOMAIN Steps
    /\ tx' = [tx EXCEPT ![r] = IF status[@.row] \in Allowed[@.at]
                               THEN [@ EXCEPT !.at = Steps[@]] ELSE Idle]
    /\ UNCHANGED <<agentVars, wallet, withdrawn>>
LockAgent(r) ==
    /\ tx[r].at \in DOMAIN Steps
    /\ LET g == tx[r].row
       IN  /\ Free(r, g)
           /\ IF status[g] \in Allowed[tx[r].at]
              THEN tx' = [tx EXCEPT ![r].at = Steps[@], ![r].held = {g}]
              ELSE End(r)
    /\ UNCHANGED <<agentVars, wallet, withdrawn>>

(* The proof reserves the address for its owner, for good.                 *)
MutActivate(r) ==               \* forgets verified_at, and with it the reservation
    /\ At(r, "activate")
    /\ status' = [status EXCEPT ![tx[r].row] = "ACTIVE"]
    /\ abandoned' = abandoned \ {tx[r].row}
    /\ key' = [key EXCEPT ![tx[r].row] = "ACTIVE"]
    /\ End(r)
    /\ UNCHANGED <<owner, address, verified, reserved, wallet, withdrawn>>
Activate(r) ==
    /\ At(r, "activate")
    /\ LET g == tx[r].row
       IN  IF ReservedByOther(tx[r].user, address[g])
           THEN UNCHANGED <<status, abandoned, verified, key, reserved>>
           ELSE /\ status' = [status EXCEPT ![g] = "ACTIVE"]
                /\ abandoned' = abandoned \ {g}
                /\ verified' = verified \union {g}
                /\ key' = [key EXCEPT ![g] = "ACTIVE"]
                /\ reserved' = [reserved EXCEPT ![address[g]] = tx[r].user]
    /\ End(r)
    /\ UNCHANGED <<owner, address, wallet, withdrawn>>

RotateKey(r) ==
    /\ At(r, "rotated")
    /\ key' = [key EXCEPT ![tx[r].row] = "ACTIVE"]
    /\ End(r)
    /\ UNCHANGED <<owner, address, status, verified, abandoned, reserved, wallet, withdrawn>>

Revoke(r) ==
    /\ At(r, "revoked")
    /\ status' = [status EXCEPT ![tx[r].row] = "REVOKED"]
    /\ abandoned' = abandoned \ {tx[r].row}
    /\ key' = Closed(key, {tx[r].row})
    /\ End(r)
    /\ UNCHANGED <<owner, address, verified, reserved, wallet, withdrawn>>

-----------------------------------------------------------------------------
(* The receiving wallet: WalletsService, WalletReplacementService *)

MutLinkBegins(r, u, a) ==       \* no look at the agents
    /\ Update(r, u)
    /\ Start(r, u, "link", a, None, {})
    /\ UNCHANGED <<agentVars, wallet, withdrawn>>
LinkBegins(r, u, a) ==
    /\ ~OwnAgentAt(u, a)
    /\ Update(r, u)
    /\ Start(r, u, "link", a, None, {})
    /\ UNCHANGED <<agentVars, wallet, withdrawn>>

(* uq_wallet_chain_address_active: nobody is about to disconnect from the  *)
(* address, or to stay connected after all.                                *)
Leaving(q, a) == tx[q].at \in {"swap", "agents"} /\ wallet[tx[q].user] = a
AddressFree(r, a) == \A q \in Others(r) : ~Leaving(q, a)

Linked(r) ==
    /\ At(r, "link")
    /\ AddressFree(r, tx[r].address)
    /\ LET u == tx[r].user
       IN  IF wallet[u] # None \/ Connected(tx[r].address)
           THEN UNCHANGED wallet
           ELSE wallet' = [wallet EXCEPT ![u] = tx[r].address]
    /\ End(r)
    /\ UNCHANGED <<agentVars, withdrawn>>

ReplaceBegins(r, u, a) ==
    /\ Replaceable(u, a)
    /\ Update(r, u)
    /\ Start(r, u, "swap", a, None, {})
    /\ UNCHANGED <<agentVars, wallet, withdrawn>>

Replaced(r) ==
    /\ At(r, "swap")
    /\ AddressFree(r, tx[r].address)
    /\ wallet' = IF Connected(tx[r].address) THEN wallet
                 ELSE [wallet EXCEPT ![tx[r].user] = tx[r].address]
    /\ End(r)
    /\ UNCHANGED <<agentVars, withdrawn>>

-----------------------------------------------------------------------------
(* AccountWithdrawalService.withdraw *)

MutWithdrawBegins(r, u) ==      \* does not lock the user
    /\ Start(r, u, "agents", None, None, {g \in Rows : owner[g] = u /\ Live(g)})
    /\ UNCHANGED <<agentVars, wallet, withdrawn>>
WithdrawBegins(r, u) ==
    /\ Update(r, u)
    /\ Start(r, u, "agents", None, None, {g \in Rows : owner[g] = u /\ Live(g)})
    /\ UNCHANGED <<agentVars, wallet, withdrawn>>

Withdrawn(r) ==
    /\ At(r, "agents")
    /\ tx[r].need \subseteq tx[r].held
    /\ LET u == tx[r].user
       IN  /\ status' = [g \in Rows |-> IF g \in tx[r].need /\ Live(g) THEN "REVOKED" ELSE status[g]]
           /\ abandoned' = abandoned \ tx[r].need
           /\ key' = Closed(key, {g \in Rows : owner[g] = u})
           /\ wallet' = [wallet EXCEPT ![u] = None]
           /\ withdrawn' = withdrawn \union {u}
    /\ End(r)
    /\ UNCHANGED <<owner, address, verified, reserved>>

(* A lost connection, a timeout, a deadlock that is broken.                *)
Abort(r) ==
    /\ tx[r] # Idle
    /\ End(r)
    /\ UNCHANGED <<agentVars, wallet, withdrawn>>

-----------------------------------------------------------------------------

Begins(r) ==
    \E u \in Users :
        \/ \E a \in AgentAddresses : RegisterBegins(r, u, a)
        \/ \E a \in Addresses : LinkBegins(r, u, a) \/ ReplaceBegins(r, u, a)
        \/ \E g \in Rows, place \in DOMAIN Steps : AgentBegins(r, u, g, place)
        \/ WithdrawBegins(r, u)

Proceeds(r) ==
    \/ LockNext(r) \/ Retire(r) \/ InsertFails(r) \/ \E g \in Rows : Insert(r, g)
    \/ LockAgent(r) \/ Abort(r)

Commits(r) ==
    \/ Registered(r) \/ Activate(r) \/ RotateKey(r) \/ Revoke(r)
    \/ Linked(r) \/ Replaced(r) \/ Withdrawn(r)

Next == (\E r \in Requests : Begins(r) \/ Proceeds(r) \/ Commits(r)) \/ \E g \in Rows : Ages(g)

Spec == Init /\ [][Next]_vars

-----------------------------------------------------------------------------
(* Safety *)

(* Who has proved to own an address keeps it: no other user ever gets an   *)
(* agent with that address, also not after it was revoked and however the  *)
(* registration of the other overlaps with the proof and the revocation.   *)
ProvedAddressKeepsOwner ==
    \A g, h \in Rows :
        key[g] # "NONE" /\ Live(h) /\ address[g] = address[h] => owner[g] = owner[h]

(* The owner's wallet and the wallets of his agents differ, whichever of   *)
(* them comes last (agents.service.ts:143, wallets.service.ts:137).        *)
AgentIsNotOwner == \A g \in Rows : Live(g) => wallet[owner[g]] # address[g]

(* A key works for an agent that is active, and for nobody who has left.   *)
KeysOfActiveAgents ==
    \A g \in Rows : key[g] = "ACTIVE" => status[g] = "ACTIVE" /\ owner[g] \notin withdrawn

(* Nothing that was under way when an account was withdrawn leaves a live  *)
(* agent or a connected wallet behind, which would occupy its address for  *)
(* good (wallets.service.ts:158).                                          *)
WithdrawnLetGo ==
    /\ \A u \in withdrawn : wallet[u] = None
    /\ \A g \in Rows : Live(g) => owner[g] \notin withdrawn

(* What the statement a transaction has reached waits for.                 *)
WaitsFor(r, q) ==
    \/ /\ tx[r].at \in {"retire", "recheck"}
       /\ \E g \in tx[r].need \ tx[r].held :
            g \in tx[q].held /\ \A h \in tx[r].need \ tx[r].held : g =< h
    \/ At(r, "agents") /\ (tx[r].need \ tx[r].held) \intersect tx[q].held # {}
    \/ tx[r].at \in DOMAIN Steps /\ tx[r].row \in tx[q].held
    \/ /\ At(r, "index")
       /\ \/ At(q, "recheck") /\ tx[q].address = tx[r].address
          \/ LiveAt(tx[r].address) \intersect tx[q].held # {}
          \/ tx[q].at \in Updating /\ tx[q].user = tx[r].user
    \/ tx[r].at \in {"link", "swap"} /\ q # r /\ Leaving(q, tx[r].address)

(* The owner comes before the agents (agents.service.ts:81): whatever a    *)
(* withdrawal waits for does not wait for it in turn.                      *)
WithdrawalNotDeadlocked ==
    \A r, q \in Requests : At(r, "agents") /\ WaitsFor(r, q) => ~WaitsFor(q, r)

-----------------------------------------------------------------------------
(* Seen from the rows, every transaction happens when it commits.          *)
AsSteps == INSTANCE AccountSteps

(* Whatever registrations, proofs, revocations, wallets and withdrawals do *)
(* to each other while they are under way, the rows change as if each had  *)
(* run alone at the moment it commits.                                     *)
ActsAtCommit == AsSteps!Spec

=============================================================================
