---------------------------- MODULE AccountRows ----------------------------
(***************************************************************************)
(* What accounts hold on to: the receiving wallet of a user and the agents *)
(* he registers, each of which stands for an address of its own.           *)
(* AccountSteps takes each handler for one step, Accounts takes it         *)
(* statement by statement.                                                 *)
(*                                                                         *)
(* An address is an account on the chain, in whatever spelling it and its  *)
(* public key are sent or stored (agent_account_key, sameWalletAccount).   *)
(***************************************************************************)
EXTENDS Naturals

CONSTANTS
    Users,
    Addresses,
    AgentAddresses,   \* those that agents are registered with (a bound)
    Rows,       \* ids there are for rows of agent, ordered (a bound)
    None        \* no address, no owner

ASSUME AccountsAssumption ==
    /\ Rows \subseteq Nat
    /\ AgentAddresses \subseteq Addresses
    /\ None \notin Users \union Addresses

VARIABLES
    owner,      \* [Rows -> agent.owner_user_id]
    address,    \* [Rows -> agent.wallet_address]
    status,     \* [Rows -> agent.status; "DELETED" if deleted_at is set]
    verified,   \* rows with a verified_at
    abandoned,  \* PENDING rows registered more than 24 hours ago
    key,        \* [Rows -> status of the latest agent_api_key]
    reserved,   \* [Addresses -> owner in agent_identity_reservation]
    wallet,     \* [Users -> address of the connected primary wallet]
    withdrawn   \* users that have left

agentVars == <<owner, address, status, verified, abandoned, key, reserved>>
rowVars == <<agentVars, wallet, withdrawn>>

AgentStatuses == {"NONE", "PENDING", "ACTIVE", "REVOKED", "DELETED"}

(* No wallet and no agent yet.                                             *)
NoAgents ==
    /\ owner = [g \in Rows |-> None]
    /\ address = [g \in Rows |-> None]
    /\ status = [g \in Rows |-> "NONE"]
    /\ verified = {}
    /\ abandoned = {}
    /\ key = [g \in Rows |-> "NONE"]
    /\ reserved = [a \in Addresses |-> None]
    /\ wallet = [u \in Users |-> None]
    /\ withdrawn = {}

Live(g) == status[g] \in {"PENDING", "ACTIVE"}
LiveAt(a) == {g \in Rows : Live(g) /\ address[g] = a}
OwnAgentAt(u, a) == \E g \in LiveAt(a) : owner[g] = u

(* The trigger of 0028.                                                    *)
ReservedByOther(u, a) == reserved[a] \notin {u, None}

Connected(a) == \E u \in Users : wallet[u] = a
Replaceable(u, a) == wallet[u] \notin {None, a} /\ ~OwnAgentAt(u, a) /\ ~Connected(a)

(* revokeActiveAgentKeys *)
Closed(keys, gone) ==
    [g \in Rows |-> IF g \in gone /\ keys[g] = "ACTIVE" THEN "REVOKED" ELSE keys[g]]

=============================================================================
