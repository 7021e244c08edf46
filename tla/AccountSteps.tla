---------------------------- MODULE AccountSteps ----------------------------
(***************************************************************************)
(* Wallets and agents as they are meant: every handler reads, decides and  *)
(* writes at once, and there is nothing to lock and nothing to look at     *)
(* twice.                                                                  *)
(***************************************************************************)
EXTENDS AccountRows

(* What is live at the address is others' and abandoned; it makes room.    *)
Register(u, a, g) ==
    /\ u \notin withdrawn
    /\ status[g] = "NONE"
    /\ wallet[u] # a
    /\ ~ReservedByOther(u, a)
    /\ \A h \in LiveAt(a) : status[h] = "PENDING" /\ h \in abandoned /\ owner[h] # u
    /\ owner' = [owner EXCEPT ![g] = u]
    /\ address' = [address EXCEPT ![g] = a]
    /\ status' = [h \in Rows |-> IF h = g THEN "PENDING"
                                 ELSE IF h \in LiveAt(a) THEN "DELETED" ELSE status[h]]
    /\ abandoned' = abandoned \ LiveAt(a)
    /\ UNCHANGED <<verified, key, reserved, wallet, withdrawn>>

(* 24 hours after the registration.                                        *)
Ages(g) ==
    /\ status[g] = "PENDING" /\ g \notin abandoned
    /\ abandoned' = abandoned \union {g}
    /\ UNCHANGED <<owner, address, status, verified, key, reserved, wallet, withdrawn>>

(* An owner proves the address of an agent, renews its key, gives it up.   *)
Verify(g) ==
    /\ owner[g] \notin withdrawn
    /\ status[g] = "PENDING"
    /\ ~ReservedByOther(owner[g], address[g])
    /\ status' = [status EXCEPT ![g] = "ACTIVE"]
    /\ abandoned' = abandoned \ {g}
    /\ verified' = verified \union {g}
    /\ key' = [key EXCEPT ![g] = "ACTIVE"]
    /\ reserved' = [reserved EXCEPT ![address[g]] = owner[g]]
    /\ UNCHANGED <<owner, address, wallet, withdrawn>>

RotateKey(g) ==
    /\ owner[g] \notin withdrawn
    /\ status[g] = "ACTIVE"
    /\ key' = [key EXCEPT ![g] = "ACTIVE"]
    /\ UNCHANGED <<owner, address, status, verified, abandoned, reserved, wallet, withdrawn>>

Revoke(g) ==
    /\ owner[g] \notin withdrawn
    /\ Live(g)
    /\ status' = [status EXCEPT ![g] = "REVOKED"]
    /\ abandoned' = abandoned \ {g}
    /\ key' = Closed(key, {g})
    /\ UNCHANGED <<owner, address, verified, reserved, wallet, withdrawn>>

(* A first wallet, or another one, that no agent of the user has.          *)
Link(u, a) ==
    /\ u \notin withdrawn
    /\ wallet[u] = None /\ ~OwnAgentAt(u, a) /\ ~Connected(a)
    /\ wallet' = [wallet EXCEPT ![u] = a]
    /\ UNCHANGED <<agentVars, withdrawn>>

Replace(u, a) ==
    /\ u \notin withdrawn
    /\ Replaceable(u, a)
    /\ wallet' = [wallet EXCEPT ![u] = a]
    /\ UNCHANGED <<agentVars, withdrawn>>

(* An account goes with its wallet, its agents and their keys.             *)
Withdraw(u) ==
    /\ u \notin withdrawn
    /\ status' = [g \in Rows |-> IF owner[g] = u /\ Live(g) THEN "REVOKED" ELSE status[g]]
    /\ abandoned' = abandoned \ {g \in Rows : owner[g] = u}
    /\ key' = Closed(key, {g \in Rows : owner[g] = u})
    /\ wallet' = [wallet EXCEPT ![u] = None]
    /\ withdrawn' = withdrawn \union {u}
    /\ UNCHANGED <<owner, address, verified, reserved>>

Next ==
    \/ \E u \in Users :
         \/ Withdraw(u)
         \/ \E a \in Addresses : Link(u, a) \/ Replace(u, a)
         \/ \E a \in AgentAddresses, g \in Rows : Register(u, a, g)
    \/ \E g \in Rows : Ages(g) \/ Verify(g) \/ RotateKey(g) \/ Revoke(g)

Spec == NoAgents /\ [][Next]_rowVars

=============================================================================
