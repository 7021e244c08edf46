--------------------------- MODULE AccountsProofs ---------------------------
(* Theorems about Accounts, for any number of users, agents and            *)
(* transactions.                                                           *)
EXTENDS Accounts, TLAPS

(* Rows that are in the table, and rows a transaction has to do with.      *)
Used(g) == status[g] # "NONE"
Touched(r) == tx[r].held \union tx[r].need \union tx[r].retire

(* The table agent and its reservations: one live row for an address, of   *)
(* the owner the address is reserved for, and a reservation for each row   *)
(* that was ever verified.                                                 *)
RowInv(g) ==
    /\ Used(g) => owner[g] \in Users /\ address[g] \in Addresses
    /\ ~Used(g) => owner[g] = None /\ key[g] = "NONE" /\ g \notin verified
    /\ Live(g) => /\ reserved[address[g]] \in {None, owner[g]}
                  /\ wallet[owner[g]] # address[g]
                  /\ owner[g] \notin withdrawn
    /\ g \in verified => reserved[address[g]] = owner[g]
    /\ key[g] # "NONE" \/ status[g] = "ACTIVE" => g \in verified
    /\ key[g] = "ACTIVE" => status[g] = "ACTIVE"

OneLiveRow == \A g, h \in Rows : Live(g) /\ Live(h) /\ address[g] = address[h] => g = h

DataInv ==
    /\ \A g \in Rows : RowInv(g)
    /\ OneLiveRow
    /\ \A u \in withdrawn : wallet[u] = None

(* What a transaction knows: the rows it has locked are as it found them,  *)
(* and the lock of the owner keeps what it has checked about him.          *)
Registering(r) ==
    tx[r].at \in {"retire", "index", "recheck"} => tx[r].address \in AgentAddresses
Retiring(r) == \A g \in tx[r].retire : g \in tx[r].held /\ status[g] = "PENDING"
Inserted(r) ==
    At(r, "recheck") => /\ tx[r].row \in Rows /\ ~Used(tx[r].row)
                        /\ LiveAt(tx[r].address) \subseteq tx[r].retire
                        /\ ~ReservedByOther(tx[r].user, tx[r].address)
                        /\ wallet[tx[r].user] # tx[r].address
Owning(r) ==
    tx[r].at \in {"verify", "rotate", "revoke", "activate", "rotated", "revoked"}
    => /\ tx[r].row \in Rows /\ Used(tx[r].row) /\ owner[tx[r].row] = tx[r].user
       /\ tx[r].retire = {}
Allows(r) ==
    /\ tx[r].at \in {"activate", "rotated", "revoked"} => tx[r].held = {tx[r].row}
    /\ At(r, "activate") => status[tx[r].row] = "PENDING"
    /\ At(r, "rotated") => status[tx[r].row] = "ACTIVE"
    /\ At(r, "revoked") => Live(tx[r].row)
Linking(r) ==
    tx[r].at \in {"link", "swap"}
    => tx[r].address \in Addresses /\ ~OwnAgentAt(tx[r].user, tx[r].address)
LeavesNone(r) ==
    At(r, "agents") => /\ \A g \in Rows : owner[g] = tx[r].user /\ Live(g) => g \in tx[r].need
                       /\ \A g \in tx[r].need : owner[g] = tx[r].user

Within(r) ==
    /\ tx[r].at \in {"retire", "index", "recheck"}
       => \A g \in Touched(r) : address[g] = tx[r].address
    /\ tx[r].at \in {"link", "swap"} => tx[r].held = {}
    /\ At(r, "agents") => /\ tx[r].held \subseteq tx[r].need
                          /\ \A g, h \in tx[r].need : address[g] = address[h] => g = h

Mine(r) ==
    tx[r] # Idle => /\ tx[r].user \notin withdrawn
                    /\ \A g \in Touched(r) : Used(g)
                    /\ Registering(r) /\ Retiring(r) /\ Inserted(r)
                    /\ Owning(r) /\ Allows(r) /\ Linking(r) /\ LeavesNone(r) /\ Within(r)

(* What keeps two transactions apart: the lock of the owner, those of the  *)
(* agents and the unique index.                                            *)
Apart(r, q) ==
    tx[r] # Idle /\ tx[q] # Idle
    => /\ tx[r].user = tx[q].user => tx[r].at \in Sharing /\ tx[q].at \in Sharing
       /\ tx[r].held \intersect tx[q].held = {}
       /\ At(r, "recheck") /\ At(q, "recheck")
          => tx[r].row # tx[q].row /\ tx[r].address # tx[q].address

Inv ==
    /\ TypeOK
    /\ DataInv
    /\ \A r \in Requests : Mine(r)
    /\ \A r, q \in Requests : r # q => Apart(r, q)

-----------------------------------------------------------------------------
(* Steps that only go on to another statement *)

(* The data is the same, so what holds of the other transactions still     *)
(* holds, and one has to look at the one that moves only.                  *)
LEMMA QuietStep ==
    ASSUME Inv, NEW r \in Requests, NEW t \in Running \union {Idle},
           UNCHANGED <<agentVars, wallet, withdrawn>>,
           tx' = [tx EXCEPT ![r] = t],
           Mine(r)', \A q \in Requests \ {r} : Apart(r, q)'
    PROVE  Inv'
<1> USE DEF agentVars
<1>1. TypeOK'
  BY DEF Inv, TypeOK
<1>2. tx'[r] = t /\ \A q \in Requests \ {r} : tx'[q] = tx[q]
  BY DEF Inv, TypeOK
<1>3. DataInv'
  BY DEF Inv, DataInv, RowInv, OneLiveRow, Used, Live
<1>4. ASSUME NEW q \in Requests \ {r} PROVE Mine(q)'
  BY <1>2 DEF Inv, Mine, Touched, Used, Registering, Retiring, Inserted, Owning, Allows,
              Linking, LeavesNone, Within, OwnAgentAt, LiveAt, Live, ReservedByOther, At
<1>5. ASSUME NEW p \in Requests, NEW q \in Requests, p # q PROVE Apart(p, q)'
  BY <1>2, <1>5 DEF Inv, Apart, At
<1> QED BY <1>1, <1>3, <1>4, <1>5 DEF Inv

(* A transaction that ends without having written anything.                *)
LEMMA EndsQuietly ==
    ASSUME Inv, NEW r \in Requests, UNCHANGED <<agentVars, wallet, withdrawn>>, End(r)
    PROVE  Inv'
<1>1. tx'[r] = Idle
  BY DEF Inv, TypeOK, End
<1>2. Mine(r)' /\ \A q \in Requests \ {r} : Apart(r, q)'
  BY <1>1 DEF Mine, Apart
<1> QED BY <1>2, QuietStep DEF End

LEMMA RegisterBeginsStep ==
    ASSUME Inv, NEW r \in Requests, NEW u \in Users, NEW a \in AgentAddresses,
           RegisterBegins(r, u, a)
    PROVE  Inv'
<1> DEFINE t == [at |-> "retire", user |-> u, address |-> a, row |-> None, retire |-> {},
                 held |-> {}, need |-> {g \in Rows : Claims(g, a)}]
<1>1. t \in Running
  BY AccountsAssumption DEF Running, Sharing
<1>2. tx' = [tx EXCEPT ![r] = t] /\ tx'[r] = t
  BY DEF Inv, TypeOK, RegisterBegins, Start
<1>3. Mine(r)'
  BY <1>2 DEF RegisterBegins, Start, agentVars, Mine, Touched, Used, Registering, Retiring,
              Inserted, Owning, Allows, Linking, LeavesNone, Within, At, Claims
<1>4. ASSUME NEW q \in Requests \ {r} PROVE Apart(r, q)'
  BY <1>2 DEF RegisterBegins, Share, Others, Apart, At, Sharing
<1> QED BY <1>1, <1>2, <1>3, <1>4, QuietStep DEF RegisterBegins

LEMMA AgentBeginsStep ==
    ASSUME Inv, NEW r \in Requests, NEW u \in Users, NEW g \in Rows,
           NEW place \in DOMAIN Steps, AgentBegins(r, u, g, place)
    PROVE  Inv'
<1> DEFINE t == [at |-> place, user |-> u, address |-> None, row |-> g, retire |-> {},
                 held |-> {}, need |-> {}]
<1>1. place \in {"verify", "rotate", "revoke"} /\ t \in Running
  BY DEF Running, Sharing, Steps
<1>2. tx' = [tx EXCEPT ![r] = t] /\ tx'[r] = t
  BY DEF Inv, TypeOK, AgentBegins, Start
<1>3. Used(g)
  BY AccountsAssumption DEF Inv, DataInv, RowInv, AgentBegins
<1>4. Mine(r)'
  BY <1>1, <1>2, <1>3 DEF AgentBegins, Start, agentVars, Mine, Touched, Used, Registering,
              Retiring, Inserted, Owning, Allows, Linking, LeavesNone, Within, At
<1>5. ASSUME NEW q \in Requests \ {r} PROVE Apart(r, q)'
  BY <1>1, <1>2 DEF AgentBegins, Share, Others, Apart, At, Sharing
<1> QED BY <1>1, <1>2, <1>4, <1>5, QuietStep DEF AgentBegins

LEMMA UpdateBeginsStep ==
    ASSUME Inv, NEW r \in Requests, NEW u \in Users, NEW a,
           \/ a \in Addresses /\ (LinkBegins(r, u, a) \/ ReplaceBegins(r, u, a))
           \/ WithdrawBegins(r, u)
    PROVE  Inv'
<1> DEFINE need == {g \in Rows : owner[g] = u /\ Live(g)}
           T(place, where, found) ==
               [at |-> place, user |-> u, address |-> where, row |-> None, retire |-> {},
                held |-> {}, need |-> found]
<1>1. PICK t \in {T("link", a, {}), T("swap", a, {}), T("agents", None, need)} :
        /\ tx' = [tx EXCEPT ![r] = t]
        /\ t.at \in {"link", "swap"} => a \in Addresses /\ ~OwnAgentAt(u, a)
  BY DEF LinkBegins, ReplaceBegins, WithdrawBegins, Replaceable, Start
<1>2. t \in Running /\ tx'[r] = t
  BY <1>1 DEF Inv, TypeOK, Running, Updating
<1>3. /\ UNCHANGED <<agentVars, wallet, withdrawn>>
      /\ u \notin withdrawn
      /\ Update(r, u)
  BY DEF LinkBegins, ReplaceBegins, WithdrawBegins, Start
<1>4. \A g, h \in need : address[g] = address[h] => g = h
  BY DEF Inv, DataInv, OneLiveRow
<1>5. Mine(r)'
  BY <1>1, <1>2, <1>3, <1>4 DEF agentVars, Mine, Touched, Used, Registering, Retiring, Inserted,
              Owning, Allows, Linking, LeavesNone, Within, At, OwnAgentAt, LiveAt, Live
<1>6. ASSUME NEW q \in Requests \ {r} PROVE Apart(r, q)'
  BY <1>1, <1>2, <1>3 DEF Update, Others, Apart, At
<1> QED BY <1>1, <1>2, <1>3, <1>5, <1>6, QuietStep

LEMMA LockNextStep ==
    ASSUME Inv, NEW r \in Requests, LockNext(r)
    PROVE  Inv'
<1>1. tx[r] \in Running /\ tx[r].at \in {"retire", "recheck", "agents"}
  BY DEF Inv, TypeOK, LockNext, Idle
<1>2. PICK g \in tx[r].need : Free(r, g) /\ tx' = [tx EXCEPT ![r].held = @ \union {g}]
  BY DEF LockNext
<1> DEFINE t == [tx[r] EXCEPT !.held = @ \union {g}]
<1>3. t \in Running /\ tx' = [tx EXCEPT ![r] = t] /\ tx'[r] = t
  BY <1>1, <1>2 DEF Inv, TypeOK, Running
<1>4. /\ t.at = tx[r].at /\ t.user = tx[r].user /\ t.address = tx[r].address
      /\ t.row = tx[r].row /\ t.need = tx[r].need /\ t.retire = tx[r].retire
      /\ t.held = tx[r].held \union {g}
  BY <1>1 DEF Running
<1>5. tx[r] # Idle /\ UNCHANGED <<agentVars, wallet, withdrawn>>
  BY <1>1 DEF Idle, LockNext
<1>6. Mine(r)'
  BY <1>1, <1>2, <1>3, <1>4, <1>5
     DEF Inv, agentVars, Mine, Touched, Used, Registering, Retiring, Inserted, Owning, Allows,
         Linking, LeavesNone, Within, At, LiveAt, Live, ReservedByOther
<1>7. ASSUME NEW q \in Requests \ {r} PROVE Apart(r, q)'
  BY <1>2, <1>3, <1>4, <1>5 DEF Inv, Apart, At, Free
<1> QED BY <1>3, <1>5, <1>6, <1>7, QuietStep

LEMMA RetireStep ==
    ASSUME Inv, NEW r \in Requests, Retire(r)
    PROVE  Inv'
<1>1. CASE End(r)
  BY <1>1, EndsQuietly DEF Retire
<1>2. CASE tx' = [tx EXCEPT ![r].at = "index", ![r].retire = Abandoned(r), ![r].need = {}]
  <2>1. tx[r] \in Running /\ tx[r] # Idle /\ UNCHANGED <<agentVars, wallet, withdrawn>>
    BY DEF Inv, TypeOK, Retire, At, Idle
  <2> DEFINE t == [tx[r] EXCEPT !.at = "index", !.retire = Abandoned(r), !.need = {}]
  <2>2. Abandoned(r) \subseteq tx[r].held /\ \A g \in Abandoned(r) : status[g] = "PENDING"
    BY DEF Retire, Abandoned, Found
  <2>3. t \in Running /\ tx' = [tx EXCEPT ![r] = t] /\ tx'[r] = t
    BY <1>2, <2>1, <2>2 DEF Inv, TypeOK, Running, Sharing
  <2>4. /\ t.at = "index" /\ t.user = tx[r].user /\ t.address = tx[r].address
        /\ t.held = tx[r].held /\ t.need = {} /\ t.retire = Abandoned(r)
    BY <2>1 DEF Running
  <2>5. Mine(r)'
    BY <2>1, <2>2, <2>3, <2>4
       DEF Inv, Retire, agentVars, Mine, Touched, Used, Registering, Retiring, Inserted, Owning,
           Allows, Linking, LeavesNone, Within, At
  <2>6. ASSUME NEW q \in Requests \ {r} PROVE Apart(r, q)'
    BY <2>1, <2>3, <2>4 DEF Inv, Retire, Apart, At, Sharing
  <2> QED BY <2>1, <2>3, <2>5, <2>6, QuietStep
<1> QED BY <1>1, <1>2 DEF Retire

LEMMA InsertStep ==
    ASSUME Inv, NEW r \in Requests, NEW g \in Rows, Insert(r, g)
    PROVE  Inv'
<1>1. CASE End(r)
  BY <1>1, EndsQuietly DEF Insert
<1>2. CASE ~End(r)
  <2> DEFINE need == {h \in Rows \ tx[r].retire : Claims(h, tx[r].address)}
             t == [tx[r] EXCEPT !.at = "recheck", !.row = g, !.need = need]
  <2>1. tx[r] \in Running /\ tx[r] # Idle /\ UNCHANGED <<agentVars, wallet, withdrawn>>
    BY DEF Inv, TypeOK, Insert, At, Idle
  <2>2. t \in Running /\ tx' = [tx EXCEPT ![r] = t] /\ tx'[r] = t
    BY <1>2, <2>1 DEF Inv, TypeOK, Running, Sharing, Insert
  <2>3. /\ t.at = "recheck" /\ t.user = tx[r].user /\ t.address = tx[r].address /\ t.row = g
        /\ t.held = tx[r].held /\ t.need = need /\ t.retire = tx[r].retire
    BY <2>1 DEF Running
  <2>4. /\ ~ReservedByOther(tx[r].user, tx[r].address)
        /\ wallet[tx[r].user] # tx[r].address
        /\ LiveAt(tx[r].address) \subseteq tx[r].retire
        /\ ~Used(g) /\ At(r, "index")
    BY <1>2 DEF Insert, Used
  <2>5. Mine(r)'
    BY <2>1, <2>2, <2>3, <2>4
       DEF Inv, agentVars, Mine, Touched, Used, Registering, Retiring, Inserted, Owning,
           Allows, Linking, LeavesNone, Within, At, Claims, LiveAt, Live, ReservedByOther
  <2>6. ASSUME NEW q \in Requests \ {r} PROVE Apart(r, q)'
    BY <2>1, <2>2, <2>3, <2>4 DEF Inv, Insert, Others, Apart, At, Sharing
  <2> QED BY <2>1, <2>2, <2>5, <2>6, QuietStep
<1> QED BY <1>1, <1>2

LEMMA LockAgentStep ==
    ASSUME Inv, NEW r \in Requests, LockAgent(r)
    PROVE  Inv'
<1>1. CASE End(r)
  BY <1>1, EndsQuietly DEF LockAgent
<1>2. CASE ~End(r)
  <2> DEFINE t == [tx[r] EXCEPT !.at = Steps[@], !.held = {tx[r].row}]
  <2>1. /\ tx[r] \in Running /\ tx[r] # Idle /\ UNCHANGED <<agentVars, wallet, withdrawn>>
        /\ tx[r].at \in {"verify", "rotate", "revoke"}
    BY DEF Inv, TypeOK, LockAgent, Idle, Steps
  <2>2. /\ tx[r].row \in Rows /\ Used(tx[r].row) /\ owner[tx[r].row] = tx[r].user
        /\ tx[r].retire = {}
    BY <2>1 DEF Inv, Mine, Owning
  <2>3. /\ Steps[tx[r].at] \in {"activate", "rotated", "revoked"}
        /\ Free(r, tx[r].row)
        /\ status[tx[r].row] \in Allowed[tx[r].at]
    BY <1>2, <2>1 DEF LockAgent, Steps
  <2>4. tx' = [tx EXCEPT ![r].at = Steps[@], ![r].held = {tx[r].row}]
    BY <1>2, <2>1 DEF LockAgent, Steps
  <2>5. t \in Running /\ tx' = [tx EXCEPT ![r] = t] /\ tx'[r] = t
    BY <2>1, <2>2, <2>3, <2>4 DEF Inv, TypeOK, Running, Sharing
  <2>6. /\ t.at = Steps[tx[r].at] /\ t.user = tx[r].user /\ t.row = tx[r].row
        /\ t.held = {tx[r].row} /\ t.need = tx[r].need /\ t.retire = tx[r].retire
    BY <2>1 DEF Running
  <2> HIDE DEF t
  <2>7. /\ t.at \in {"activate", "rotated", "revoked"}
        /\ t.at = "activate" => status[t.row] = "PENDING"
        /\ t.at = "rotated" => status[t.row] = "ACTIVE"
        /\ t.at = "revoked" => Live(t.row)
    BY <2>1, <2>3, <2>6 DEF Steps, Allowed, Live
  <2>8. Mine(r)'
    <3>1. tx'[r].user \notin withdrawn' /\ \A g \in Touched(r)' : Used(g)'
      BY <2>1, <2>2, <2>5, <2>6 DEF Inv, agentVars, Mine, Touched, Used
    <3>2. Registering(r)' /\ Retiring(r)' /\ Inserted(r)' /\ Linking(r)' /\ LeavesNone(r)' /\ Within(r)'
      BY <2>2, <2>5, <2>6, <2>7 DEF Registering, Retiring, Inserted, Linking, LeavesNone, Within, Touched, At
    <3>3. Owning(r)' /\ Allows(r)'
      BY <2>1, <2>2, <2>5, <2>6, <2>7 DEF agentVars, Owning, Allows, Used, Live, At
    <3> QED BY <3>1, <3>2, <3>3 DEF Mine
  <2>9. ASSUME NEW q \in Requests \ {r} PROVE Apart(r, q)'
    BY <2>1, <2>3, <2>5, <2>6, <2>7 DEF Inv, Free, Apart, At, Sharing
  <2> QED BY <2>1, <2>5, <2>8, <2>9, QuietStep
<1> QED BY <1>1, <1>2

-----------------------------------------------------------------------------
(* Commits *)

(* What a commit may change without touching what another transaction      *)
(* relies on.                                                              *)
Spared(q) ==
    /\ \A g \in Rows : Used(g) => Used(g)' /\ owner'[g] = owner[g] /\ address'[g] = address[g]
    /\ \A g \in tx[q].held : status'[g] = status[g]
    /\ \A g \in Rows : Live(g)' => \/ Live(g)
                                   \/ /\ tx[q].at \in Updating => owner'[g] # tx[q].user
                                      /\ At(q, "recheck") => address'[g] # tx[q].address
    /\ At(q, "recheck") => /\ status'[tx[q].row] = "NONE"
                           /\ reserved'[tx[q].address] \in {tx[q].user, None}
                           /\ wallet'[tx[q].user] # tx[q].address
    /\ tx[q].user \notin withdrawn'

LEMMA CommitStep ==
    ASSUME Inv, NEW r \in Requests, End(r), TypeOK', DataInv',
           \A q \in Requests \ {r} : tx[q] # Idle => Spared(q)
    PROVE  Inv'
<1>1. tx'[r] = Idle /\ \A q \in Requests \ {r} : tx'[q] = tx[q]
  BY DEF Inv, TypeOK, End
<1>2. ASSUME NEW q \in Requests PROVE Mine(q)'
  <2>1. CASE tx'[q] = Idle
    BY <2>1 DEF Mine
  <2>2. CASE tx'[q] # Idle
    <3>1. q # r /\ tx'[q] = tx[q] /\ tx[q] \in Running /\ Mine(q) /\ Spared(q)
      BY <1>1, <2>2 DEF Inv, TypeOK
    <3>2. Touched(q) \subseteq Rows /\ \A g \in Rows : Live(g) => Used(g)
      BY <3>1 DEF Running, Touched, Used, Live
    <3>3. (\A g \in Touched(q)' : Used(g)') /\ Registering(q)' /\ Retiring(q)'
      BY <2>2, <3>1, <3>2 DEF Mine, Spared, Touched, Registering, Retiring
    <3>4. Owning(q)' /\ Allows(q)'
      <4>1. Owning(q)'
        BY <2>2, <3>1 DEF Mine, Spared, Owning
      <4>2. Allows(q)'
        BY <2>2, <3>1 DEF Mine, Spared, Allows, At, Live
      <4> QED BY <4>1, <4>2
    <3>5. Inserted(q)'
      BY <2>2, <3>1, <3>2 DEF Mine, Spared, Inserted, Used, LiveAt, ReservedByOther, At
    <3>6. Linking(q)'
      BY <2>2, <3>1, <3>2 DEF Mine, Spared, Linking, OwnAgentAt, LiveAt, Updating
    <3>7. LeavesNone(q)'
      BY <2>2, <3>1, <3>2 DEF Mine, Spared, Touched, LeavesNone, At, Updating
    <3>8. Within(q)'
      BY <2>2, <3>1, <3>2 DEF Mine, Spared, Touched, Within, At
    <3> QED BY <3>1, <3>3, <3>4, <3>5, <3>6, <3>7, <3>8 DEF Mine, Spared
  <2> QED BY <2>1, <2>2
<1>3. ASSUME NEW p \in Requests, NEW q \in Requests, p # q PROVE Apart(p, q)'
  BY <1>1, <1>3 DEF Inv, Apart, At
<1> QED BY <1>2, <1>3 DEF Inv

LEMMA RegisteredStep ==
    ASSUME Inv, NEW r \in Requests, Registered(r)
    PROVE  Inv'
<1>1. CASE Taken(r)
  BY <1>1, EndsQuietly DEF Registered, agentVars
<1>2. CASE ~Taken(r)
  <2> DEFINE n == tx[r].row
             u == tx[r].user
             a == tx[r].address
             gone == tx[r].retire \union Abandoned(r)
  <2>1. tx[r] \in Running /\ tx[r] # Idle /\ Mine(r) /\ At(r, "recheck") /\ End(r)
    BY DEF Inv, TypeOK, Registered, At, Idle
  <2>2. /\ n \in Rows /\ ~Used(n) /\ LiveAt(a) \subseteq tx[r].retire
        /\ u \in Users /\ a \in Addresses /\ u \notin withdrawn
        /\ reserved[a] \in {None, u} /\ wallet[u] # a
    BY <2>1, AccountsAssumption
       DEF Mine, Inserted, Registering, Running, ReservedByOther, At
  <2>3. /\ gone \subseteq Rows /\ gone \subseteq tx[r].held
        /\ \A g \in gone : status[g] = "PENDING"
    BY <2>1 DEF Registered, Abandoned, Found, Mine, Retiring, Running
  <2>4. /\ owner' = [owner EXCEPT ![n] = u]
        /\ address' = [address EXCEPT ![n] = a]
        /\ status' = [g \in Rows |-> IF g = n THEN "PENDING"
                                     ELSE IF g \in gone THEN "DELETED" ELSE status[g]]
        /\ abandoned' = abandoned \ gone
        /\ UNCHANGED <<verified, key, reserved, wallet, withdrawn>>
    BY <1>2 DEF Registered
  <2> HIDE DEF gone
  <2>5. TypeOK'
    BY <2>1, <2>2, <2>4 DEF Inv, TypeOK, AgentStatuses, End
  <2>6. /\ \A g \in Rows \ {n} : owner'[g] = owner[g] /\ address'[g] = address[g]
        /\ owner'[n] = u /\ address'[n] = a /\ status'[n] = "PENDING"
        /\ \A g \in Rows \ {n} : status'[g] = IF g \in gone THEN "DELETED" ELSE status[g]
    BY <2>2, <2>4 DEF Inv, TypeOK
  <2>7. DataInv'
    <3>1. ASSUME NEW g \in Rows PROVE RowInv(g)'
      <4>1. RowInv(g) /\ RowInv(n)
        BY <2>2 DEF Inv, DataInv
      <4>2. CASE g = n
        BY <2>2, <2>4, <2>6, <4>1, <4>2 DEF RowInv, Used, Live
      <4>3. CASE g # n
        BY <2>3, <2>4, <2>6, <4>1, <4>3 DEF RowInv, Used, Live
      <4> QED BY <4>2, <4>3
    <3>2. ASSUME NEW g \in Rows, g # n, Live(g)' PROVE Live(g) /\ address'[g] # a
      <4>1. g \notin gone /\ Live(g)
        BY <2>6, <3>2 DEF Live
      <4>2. g \notin LiveAt(a)
        BY <2>2, <4>1 DEF gone
      <4> QED BY <2>6, <3>2, <4>1, <4>2 DEF LiveAt
    <3>3. OneLiveRow'
      BY <2>6, <3>2 DEF Inv, DataInv, OneLiveRow
    <3> QED BY <2>4, <3>1, <3>3 DEF Inv, DataInv
  <2>8. ASSUME NEW q \in Requests \ {r}, tx[q] # Idle PROVE Spared(q)
    <3>1. tx[q] \in Running /\ Mine(q) /\ Apart(r, q)
      BY <2>8 DEF Inv, TypeOK
    <3>2. \A g \in tx[q].held : g # n /\ g \notin gone /\ g \in Rows
      BY <2>1, <2>2, <2>3, <2>8, <3>1 DEF Apart, Mine, Touched, Running
    <3>3. tx[q].at \in Updating => tx[q].user # u
      BY <2>1, <2>8, <3>1 DEF Apart, Updating, Sharing
    <3>4. At(q, "recheck") => /\ tx[q].row \in Rows \ {n} /\ tx[q].address # a
                              /\ ~Used(tx[q].row)
      BY <2>1, <2>8, <3>1 DEF Apart, Mine, Inserted
    <3>5. \A g \in Rows : Used(g) => Used(g)' /\ owner'[g] = owner[g] /\ address'[g] = address[g]
      BY <2>2, <2>3, <2>6 DEF Used
    <3>6. \A g \in tx[q].held : status'[g] = status[g]
      BY <2>6, <3>2
    <3>7. \A g \in Rows : Live(g)' => \/ Live(g)
                                     \/ /\ tx[q].at \in Updating => owner'[g] # tx[q].user
                                        /\ At(q, "recheck") => address'[g] # tx[q].address
      BY <2>6, <3>3, <3>4 DEF Live
    <3>8. At(q, "recheck") => /\ status'[tx[q].row] = "NONE"
                              /\ reserved'[tx[q].address] \in {tx[q].user, None}
                              /\ wallet'[tx[q].user] # tx[q].address
      <4>1. At(q, "recheck") => status'[tx[q].row] = "NONE"
        BY <2>3, <2>6, <3>4 DEF Used
      <4>2. At(q, "recheck") => /\ reserved[tx[q].address] \in {tx[q].user, None}
                                /\ wallet[tx[q].user] # tx[q].address
        BY <2>8, <3>1 DEF Mine, Inserted, ReservedByOther
      <4> QED BY <2>4, <4>1, <4>2
    <3>9. tx[q].user \notin withdrawn'
      BY <2>4, <2>8, <3>1 DEF Mine
    <3> QED BY <3>5, <3>6, <3>7, <3>8, <3>9 DEF Spared
  <2> QED BY <2>1, <2>5, <2>7, <2>8, CommitStep
<1> QED BY <1>1, <1>2

(* Other commits create no rows; they change rows they have locked.        *)
LEMMA NoNewRow ==
    ASSUME Inv, NEW r \in Requests, NEW q \in Requests \ {r}, tx[r] # Idle, tx[q] # Idle,
           UNCHANGED <<owner, address>>,
           \A g \in Rows : \/ status'[g] = status[g]
                          \/ /\ g \in tx[r].held /\ status'[g] # "NONE"
                             /\ Live(g)' => Live(g),
           tx[q].user \notin withdrawn',
           At(q, "recheck") => /\ reserved'[tx[q].address] \in {tx[q].user, None}
                               /\ wallet'[tx[q].user] # tx[q].address
    PROVE  Spared(q)
<1>1. tx[q] \in Running /\ Mine(q) /\ tx[r].held \intersect tx[q].held = {}
  BY DEF Inv, TypeOK, Apart
<1>2. tx[q].held \subseteq Rows /\ At(q, "recheck") => tx[q].row \in Rows /\ ~Used(tx[q].row)
  BY <1>1 DEF Mine, Inserted, Running
<1>3. \A g \in tx[r].held : Used(g)
  BY DEF Inv, Mine, Touched
<1>4. \A g \in tx[q].held : status'[g] = status[g]
  BY <1>1 DEF Running
<1>5. At(q, "recheck") => status'[tx[q].row] = "NONE"
  BY <1>1, <1>3 DEF Mine, Inserted, Used
<1> QED BY <1>4, <1>5 DEF Spared, Used, Live

(* What a transaction at the recheck holds of its address and its owner.   *)
LEMMA AtRecheck ==
    ASSUME Inv, NEW q \in Requests, At(q, "recheck")
    PROVE  /\ tx[q].address \in Addresses /\ tx[q].user \in Users
           /\ reserved[tx[q].address] \in {tx[q].user, None}
           /\ wallet[tx[q].user] # tx[q].address
  BY AccountsAssumption
     DEF Inv, TypeOK, Running, Idle, At, Mine, Registering, Inserted, ReservedByOther

(* The rows of agents that are being verified, rotated or revoked.         *)
LEMMA Holding ==
    ASSUME Inv, NEW r \in Requests, tx[r].at \in {"activate", "rotated", "revoked"}
    PROVE  /\ tx[r] \in Running /\ tx[r] # Idle
           /\ tx[r].user \in Users /\ tx[r].user \notin withdrawn
           /\ tx[r].row \in Rows /\ Used(tx[r].row)
           /\ owner[tx[r].row] = tx[r].user /\ address[tx[r].row] \in Addresses
           /\ tx[r].held = {tx[r].row}
           /\ At(r, "activate") => status[tx[r].row] = "PENDING"
           /\ At(r, "rotated") => status[tx[r].row] = "ACTIVE"
           /\ At(r, "revoked") => Live(tx[r].row)
<1>1. tx[r] \in Running /\ tx[r] # Idle /\ Mine(r)
  BY DEF Inv, TypeOK, Idle
<1>2. tx[r].row \in Rows /\ Used(tx[r].row) /\ owner[tx[r].row] = tx[r].user
  BY <1>1 DEF Mine, Owning
<1>3. address[tx[r].row] \in Addresses
  BY <1>2 DEF Inv, DataInv, RowInv
<1> QED BY <1>1, <1>2, <1>3 DEF Mine, Allows, Running

LEMMA ActivateStep ==
    ASSUME Inv, NEW r \in Requests, Activate(r)
    PROVE  Inv'
<1> DEFINE n == tx[r].row
           u == tx[r].user
<1>1. CASE ReservedByOther(u, address[n])
  BY <1>1, EndsQuietly DEF Activate, agentVars
<1>2. CASE ~ReservedByOther(u, address[n])
  <2>1. /\ tx[r] # Idle /\ u \in Users /\ n \in Rows /\ status[n] = "PENDING"
        /\ owner[n] = u /\ address[n] \in Addresses /\ tx[r].held = {n} /\ End(r)
    BY Holding DEF Activate, At
  <2>2. /\ status' = [status EXCEPT ![n] = "ACTIVE"]
        /\ abandoned' = abandoned \ {n}
        /\ verified' = verified \union {n}
        /\ key' = [key EXCEPT ![n] = "ACTIVE"]
        /\ reserved' = [reserved EXCEPT ![address[n]] = u]
        /\ UNCHANGED <<owner, address, wallet, withdrawn>>
    BY <1>2 DEF Activate
  <2>3. TypeOK'
    BY <2>1, <2>2 DEF Inv, TypeOK, AgentStatuses, End
  <2>4. DataInv'
    <3>1. status'[n] = "ACTIVE" /\ \A g \in Rows \ {n} : status'[g] = status[g] /\ key'[g] = key[g]
      BY <2>1, <2>2 DEF Inv, TypeOK
    <3>2. /\ reserved[address[n]] \in {None, u} /\ reserved'[address[n]] = u
          /\ \A a \in Addresses \ {address[n]} : reserved'[a] = reserved[a]
      BY <1>2, <2>1, <2>2 DEF Inv, TypeOK, ReservedByOther
    <3>3. ASSUME NEW g \in Rows, address[g] = address[n], Live(g) \/ g \in verified
          PROVE  owner[g] = u
      <4>1. CASE Live(g)
        BY <2>1, <3>3, <4>1 DEF Inv, DataInv, OneLiveRow, Live
      <4>2. CASE g \in verified
        BY AccountsAssumption, <2>1, <3>2, <3>3, <4>2 DEF Inv, DataInv, RowInv
      <4> QED BY <3>3, <4>1, <4>2
    <3>4. ASSUME NEW g \in Rows PROVE RowInv(g)'
      <4>1. RowInv(g) /\ RowInv(n)
        BY <2>1 DEF Inv, DataInv
      <4>2. CASE g = n
        BY <2>1, <2>2, <3>1, <3>2, <4>1, <4>2 DEF RowInv, Used, Live
      <4>3. CASE g # n
        BY <2>1, <2>2, <3>1, <3>2, <3>3, <4>1, <4>3 DEF RowInv, Used, Live
      <4> QED BY <4>2, <4>3
    <3>5. OneLiveRow'
      BY <2>1, <2>2, <3>1 DEF Inv, DataInv, OneLiveRow, Live
    <3> QED BY <2>2, <3>4, <3>5 DEF Inv, DataInv
  <2>5. ASSUME NEW q \in Requests \ {r}, tx[q] # Idle PROVE Spared(q)
    <3>1. \A g \in Rows : \/ status'[g] = status[g]
                         \/ /\ g \in tx[r].held /\ status'[g] # "NONE"
                            /\ Live(g)' => Live(g)
      BY <2>1, <2>2 DEF Inv, TypeOK, Live
    <3>2. At(q, "recheck") => tx[q].address # address[n]
      <4> SUFFICES ASSUME At(q, "recheck"), tx[q].address = address[n] PROVE FALSE
        OBVIOUS
      <4>1. n \in LiveAt(tx[q].address)
        BY <2>1 DEF LiveAt, Live
      <4>2. n \in tx[q].held
        BY <2>5, <4>1 DEF Inv, Mine, Inserted, Retiring
      <4> QED BY <2>1, <2>5, <4>2 DEF Inv, Apart
    <3>3. At(q, "recheck") => /\ reserved'[tx[q].address] \in {tx[q].user, None}
                              /\ wallet'[tx[q].user] # tx[q].address
      BY <2>1, <2>2, <3>2, AtRecheck DEF Inv, TypeOK
    <3>4. tx[q].user \notin withdrawn'
      BY <2>2, <2>5 DEF Inv, Mine
    <3> QED BY <2>1, <2>2, <2>5, <3>1, <3>3, <3>4, NoNewRow
  <2> QED BY <2>1, <2>3, <2>4, <2>5, CommitStep
<1> QED BY <1>1, <1>2

LEMMA KeyStep ==
    ASSUME Inv, NEW r \in Requests, RotateKey(r) \/ Revoke(r)
    PROVE  Inv'
<1> DEFINE n == tx[r].row
<1>1. /\ tx[r] # Idle /\ n \in Rows /\ Live(n) /\ tx[r].held = {n} /\ End(r)
      /\ At(r, "rotated") => status[n] = "ACTIVE"
      /\ UNCHANGED <<owner, address, verified, reserved, wallet, withdrawn>>
  BY Holding DEF RotateKey, Revoke, At, Live
<1>2. TypeOK'
  BY <1>1 DEF RotateKey, Revoke, Closed, Inv, TypeOK, AgentStatuses, End
<1>3. /\ \A g \in Rows \ {n} : status'[g] = status[g] /\ key'[g] = key[g]
      /\ \/ status'[n] = status[n] /\ status[n] = "ACTIVE" /\ key'[n] = "ACTIVE"
         \/ status'[n] = "REVOKED" /\ key'[n] # "ACTIVE" /\ (key'[n] # "NONE" => key[n] # "NONE")
  BY <1>1 DEF RotateKey, Revoke, Closed, Inv, TypeOK
<1>4. DataInv'
  <2>1. ASSUME NEW g \in Rows PROVE RowInv(g)'
    <3>1. RowInv(g) /\ RowInv(n)
      BY <1>1 DEF Inv, DataInv
    <3>2. CASE g = n
      BY <1>1, <1>3, <3>1, <3>2 DEF RowInv, Used, Live
    <3>3. CASE g # n
      BY <1>1, <1>3, <3>1, <3>3 DEF RowInv, Used, Live
    <3> QED BY <3>2, <3>3
  <2>2. OneLiveRow'
    BY <1>1, <1>3 DEF Inv, DataInv, OneLiveRow, Live
  <2> QED BY <1>1, <2>1, <2>2 DEF Inv, DataInv
<1>5. ASSUME NEW q \in Requests \ {r}, tx[q] # Idle PROVE Spared(q)
  <2>1. \A g \in Rows : \/ status'[g] = status[g]
                       \/ /\ g \in tx[r].held /\ status'[g] # "NONE"
                          /\ Live(g)' => Live(g)
    BY <1>1, <1>3
  <2>2. tx[q].user \notin withdrawn'
    BY <1>1, <1>5 DEF Inv, Mine
  <2> QED BY <1>1, <1>5, <2>1, <2>2, AtRecheck, NoNewRow
<1> QED BY <1>1, <1>2, <1>4, <1>5, CommitStep

(* The wallet of one user, while he is locked and runs nothing else.       *)
LEMMA WalletStep ==
    ASSUME Inv, NEW r \in Requests, Linked(r) \/ Replaced(r)
    PROVE  Inv'
<1> DEFINE u == tx[r].user
           a == tx[r].address
<1>1. /\ tx[r] # Idle /\ u \in Users /\ u \notin withdrawn /\ a \in Addresses
      /\ ~OwnAgentAt(u, a) /\ tx[r].at \notin Sharing
  BY DEF Inv, TypeOK, Running, Idle, Sharing, Linked, Replaced, At, Mine, Linking
<1>2. /\ UNCHANGED <<agentVars, withdrawn>> /\ End(r)
      /\ wallet' = wallet \/ wallet' = [wallet EXCEPT ![u] = a]
  BY DEF Linked, Replaced
<1>3. TypeOK'
  BY <1>1, <1>2 DEF agentVars, Inv, TypeOK, End
<1>4. DataInv'
  <2>1. ASSUME NEW g \in Rows PROVE RowInv(g)'
    <3>1. RowInv(g)
      BY DEF Inv, DataInv
    <3>2. Live(g) => owner[g] \in Users /\ wallet'[owner[g]] # address[g]
      BY <1>1, <1>2, <3>1
         DEF Inv, TypeOK, RowInv, Used, Live, OwnAgentAt, LiveAt
    <3> QED BY <1>2, <3>1, <3>2 DEF agentVars, RowInv, Used, Live
  <2>2. OneLiveRow'
    BY <1>2 DEF agentVars, Inv, DataInv, OneLiveRow, Live
  <2> QED BY <1>1, <1>2, <2>1, <2>2 DEF Inv, DataInv, TypeOK
<1>5. ASSUME NEW q \in Requests \ {r}, tx[q] # Idle PROVE Spared(q)
  <2>1. tx[q].user # u /\ tx[q].user \notin withdrawn
    BY <1>1, <1>5 DEF Inv, Apart, Mine
  <2>2. At(q, "recheck") => /\ reserved'[tx[q].address] \in {tx[q].user, None}
                            /\ wallet'[tx[q].user] # tx[q].address
    BY <1>2, <2>1, AtRecheck DEF agentVars, Inv, TypeOK
  <2> QED BY <1>1, <1>2, <1>5, <2>1, <2>2, NoNewRow DEF agentVars
<1> QED BY <1>1, <1>2, <1>3, <1>4, <1>5, CommitStep

LEMMA WithdrawnStep ==
    ASSUME Inv, NEW r \in Requests, Withdrawn(r)
    PROVE  Inv'
<1> DEFINE u == tx[r].user
           gone == {g \in tx[r].need : Live(g)}
<1>1. /\ tx[r] \in Running /\ tx[r] # Idle /\ Mine(r) /\ u \in Users
      /\ tx[r].at \notin Sharing /\ At(r, "agents") /\ End(r)
  BY DEF Inv, TypeOK, Running, Idle, Sharing, Withdrawn, At
<1>2. /\ gone \subseteq Rows /\ gone \subseteq tx[r].held
      /\ \A g \in Rows : owner[g] = u /\ Live(g) => g \in gone
  BY <1>1 DEF Running, Withdrawn, Mine, LeavesNone
<1>3. /\ status' = [g \in Rows |-> IF g \in gone THEN "REVOKED" ELSE status[g]]
      /\ key' = [g \in Rows |-> IF owner[g] = u /\ key[g] = "ACTIVE" THEN "REVOKED" ELSE key[g]]
      /\ abandoned' \subseteq abandoned
      /\ wallet' = [wallet EXCEPT ![u] = None]
      /\ withdrawn' = withdrawn \union {u}
      /\ UNCHANGED <<owner, address, verified, reserved>>
  BY DEF Withdrawn, Closed
<1>4. \A g \in gone : Live(g)
  OBVIOUS
<1> HIDE DEF gone
<1>5. TypeOK'
  BY <1>1, <1>2, <1>3 DEF Inv, TypeOK, AgentStatuses, End
<1>6. \A g \in Rows : g \in gone => owner[g] = u
  BY <1>1 DEF gone, Mine, LeavesNone
<1>7. DataInv'
  <2>1. ASSUME NEW g \in Rows PROVE RowInv(g)'
    BY <1>2, <1>3, <1>4, <1>6 DEF Inv, DataInv, TypeOK, RowInv, Used, Live
  <2>2. OneLiveRow'
    BY <1>3 DEF Inv, DataInv, OneLiveRow, Live
  <2>3. \A v \in withdrawn' : wallet'[v] = None
    BY <1>1, <1>3 DEF Inv, DataInv, TypeOK
  <2> QED BY <2>1, <2>2, <2>3 DEF DataInv
<1>8. ASSUME NEW q \in Requests \ {r}, tx[q] # Idle PROVE Spared(q)
  <2>1. tx[q].user # u /\ tx[q].user \notin withdrawn'
    BY <1>1, <1>3, <1>8 DEF Inv, Apart, Mine
  <2>2. At(q, "recheck") => /\ reserved'[tx[q].address] \in {tx[q].user, None}
                            /\ wallet'[tx[q].user] # tx[q].address
    BY <1>3, <2>1, AtRecheck DEF Inv, TypeOK
  <2>3. \A g \in Rows : \/ status'[g] = status[g]
                       \/ /\ g \in tx[r].held /\ status'[g] # "NONE"
                          /\ Live(g)' => Live(g)
    BY <1>2, <1>3 DEF Live
  <2> QED BY <1>1, <1>3, <1>8, <2>1, <2>2, <2>3, NoNewRow
<1> QED BY <1>1, <1>5, <1>7, <1>8, CommitStep

LEMMA AgesStep ==
    ASSUME Inv, NEW g \in Rows, Ages(g)
    PROVE  Inv'
<1>1. /\ UNCHANGED <<owner, address, status, verified, key, reserved, wallet, withdrawn, tx>>
      /\ abandoned' \subseteq Rows
  BY DEF Ages, Inv, TypeOK
<1>2. TypeOK'
  BY <1>1 DEF Inv, TypeOK
<1>3. DataInv'
  BY <1>1 DEF Inv, DataInv, RowInv, OneLiveRow, Used, Live
<1>4. \A r \in Requests : Mine(r)'
  BY <1>1 DEF Inv, Mine, Touched, Used, Registering, Retiring, Inserted, Owning, Allows,
              Linking, LeavesNone, Within, OwnAgentAt, LiveAt, Live, ReservedByOther, At
<1>5. \A r, q \in Requests : r # q => Apart(r, q)'
  BY <1>1 DEF Inv, Apart, At
<1> QED BY <1>2, <1>3, <1>4, <1>5 DEF Inv

-----------------------------------------------------------------------------
(* The theorems *)

LEMMA InvInit == Init => Inv
<1> SUFFICES ASSUME Init PROVE Inv
  OBVIOUS
<1>1. TypeOK
  BY DEF Init, NoAgents, TypeOK, AgentStatuses
<1>2. DataInv
  BY DEF Init, NoAgents, DataInv, RowInv, OneLiveRow, Used, Live
<1>3. \A r \in Requests : tx[r] = Idle
  BY DEF Init
<1> QED BY <1>1, <1>2, <1>3 DEF Inv, Mine, Apart

LEMMA InvNext == Inv /\ [Next]_vars => Inv'
<1> SUFFICES ASSUME Inv, [Next]_vars PROVE Inv'
  OBVIOUS
<1>1. CASE UNCHANGED vars
  <2>1. UNCHANGED <<agentVars, wallet, withdrawn, tx>>
    BY <1>1 DEF vars
  <2>2. TypeOK' /\ DataInv'
    BY <2>1 DEF agentVars, Inv, TypeOK, DataInv, RowInv, OneLiveRow, Used, Live
  <2>3. \A r \in Requests : Mine(r)'
    BY <2>1 DEF agentVars, Inv, Mine, Touched, Used, Registering, Retiring, Inserted, Owning,
                Allows, Linking, LeavesNone, Within, OwnAgentAt, LiveAt, Live, ReservedByOther, At
  <2>4. \A r, q \in Requests : r # q => Apart(r, q)'
    BY <2>1 DEF Inv, Apart, At
  <2> QED BY <2>2, <2>3, <2>4 DEF Inv
<1>2. ASSUME NEW r \in Requests, Begins(r) PROVE Inv'
  BY <1>2, AccountsAssumption, RegisterBeginsStep, AgentBeginsStep, UpdateBeginsStep
     DEF Begins
<1>3. ASSUME NEW r \in Requests, Proceeds(r) PROVE Inv'
  <2>1. InsertFails(r) \/ Abort(r) => Inv'
    BY EndsQuietly DEF InsertFails, Abort
  <2> QED BY <1>3, <2>1, LockNextStep, RetireStep, InsertStep, LockAgentStep DEF Proceeds
<1>4. ASSUME NEW r \in Requests, Commits(r) PROVE Inv'
  BY <1>4, RegisteredStep, ActivateStep, KeyStep, WalletStep, WithdrawnStep DEF Commits
<1> QED BY <1>1, <1>2, <1>3, <1>4, AgesStep DEF Next

THEOREM Invariance == Spec => []Inv
<1> QED BY InvInit, InvNext, PTL DEF Spec

(* The rows and the transactions keep to their columns and statements.     *)
THEOREM TypeCorrect == Spec => []TypeOK
<1>1. Inv => TypeOK
  BY DEF Inv
<1> QED BY <1>1, Invariance, PTL

(* Whoever overlaps with whom, an address that was proved once never gets  *)
(* a live agent of somebody else.                                          *)
THEOREM ProofsAreKept == Spec => []ProvedAddressKeepsOwner
<1>1. Inv => ProvedAddressKeepsOwner
  <2> SUFFICES ASSUME Inv, NEW g \in Rows, NEW h \in Rows, key[g] # "NONE", Live(h),
                      address[g] = address[h]
               PROVE  owner[g] = owner[h]
    BY DEF ProvedAddressKeepsOwner
  <2>1. RowInv(g) /\ RowInv(h)
    BY DEF Inv, DataInv
  <2>2. owner[g] \in Users /\ reserved[address[g]] = owner[g]
    BY <2>1 DEF RowInv
  <2>3. reserved[address[h]] \in {None, owner[h]}
    BY <2>1 DEF RowInv
  <2> QED BY <2>2, <2>3, AccountsAssumption
<1> QED BY <1>1, Invariance, PTL

(* An owner never receives payouts at the address of an agent of his.      *)
THEOREM OwnersAreNotAgents == Spec => []AgentIsNotOwner
<1>1. Inv => AgentIsNotOwner
  BY DEF Inv, DataInv, RowInv, AgentIsNotOwner
<1> QED BY <1>1, Invariance, PTL

(* No rotation or verification that overlaps with a revocation or with the *)
(* withdrawal of the owner leaves a key that works.                        *)
THEOREM KeysEndWithAgents == Spec => []KeysOfActiveAgents
<1>1. Inv => KeysOfActiveAgents
  BY DEF Inv, DataInv, RowInv, KeysOfActiveAgents, Live
<1> QED BY <1>1, Invariance, PTL

(* Nothing that overlaps with a withdrawal keeps an address occupied.      *)
THEOREM WithdrawalsLetGo == Spec => []WithdrawnLetGo
<1>1. Inv => WithdrawnLetGo
  BY DEF Inv, DataInv, RowInv, WithdrawnLetGo
<1> QED BY <1>1, Invariance, PTL

(* The lock of the owner comes first, and a registration only waits for    *)
(* rows with its own address, of which a user has one that is live.        *)
THEOREM WithdrawalsGetThrough == Spec => []WithdrawalNotDeadlocked
<1>1. Inv => WithdrawalNotDeadlocked
  <2> SUFFICES ASSUME Inv, NEW r \in Requests, NEW q \in Requests,
                      At(r, "agents"), WaitsFor(r, q), WaitsFor(q, r)
               PROVE  FALSE
    BY DEF WithdrawalNotDeadlocked
  <2>1. PICK h \in tx[r].need \ tx[r].held : h \in tx[q].held
    BY DEF WaitsFor, At, Steps
  <2>2. r # q /\ tx[r] \in Running /\ tx[q] \in Running /\ tx[r] # Idle /\ tx[q] # Idle
    BY <2>1 DEF Inv, TypeOK, Idle, At
  <2>3. Mine(r) /\ Mine(q) /\ tx[r].user # tx[q].user
    BY <2>2 DEF Inv, Apart, At, Sharing
  <2>4. owner[h] = tx[r].user /\ \A g \in tx[r].held : owner[g] = tx[r].user
    BY <2>1, <2>2, <2>3 DEF Mine, LeavesNone, Within
  <2>5. CASE tx[q].at \in {"retire", "index", "recheck"}
    <3>1. address[h] = tx[q].address
      BY <2>1, <2>2, <2>3, <2>5 DEF Mine, Within, Touched
    <3>2. PICK g \in tx[r].held : address[g] = tx[q].address
      BY <2>2, <2>3, <2>5 DEF WaitsFor, At, Steps, Mine, Within, Touched, LiveAt
    <3> QED BY <2>1, <2>2, <2>3, <3>1, <3>2 DEF Mine, Within
  <2>6. CASE tx[q].at \in {"verify", "rotate", "revoke"}
    BY <2>2, <2>3, <2>4, <2>6 DEF WaitsFor, At, Steps, Mine, Owning
  <2>7. CASE At(q, "agents")
    BY <2>1, <2>2, <2>3, <2>4, <2>7 DEF Mine, LeavesNone, Within
  <2>8. CASE tx[q].at \in {"link", "swap"}
    BY <2>1, <2>2, <2>3, <2>8 DEF Mine, Within
  <2>9. CASE tx[q].at \in {"activate", "rotated", "revoked"}
    BY <2>9 DEF WaitsFor, At, Steps
  <2> QED BY <2>2, <2>5, <2>6, <2>7, <2>8, <2>9 DEF Running, Sharing, Updating, At
<1> QED BY <1>1, Invariance, PTL

-----------------------------------------------------------------------------
(* Every transaction happens when it commits *)

(* What a transaction has checked and never looks at again: the rows it is *)
(* to retire were abandoned by others, and a wallet that is replaced is    *)
(* still connected.                                                        *)
Known(r) ==
    /\ \A g \in tx[r].retire : g \in abandoned /\ owner[g] # tx[r].user
    /\ At(r, "swap") => wallet[tx[r].user] # None

Guarded ==
    /\ \A g \in abandoned : status[g] = "PENDING"
    /\ \A r \in Requests : tx[r] # Idle => Known(r)

LEMMA GuardedQuietly ==
    ASSUME Inv, Guarded, NEW r \in Requests, UNCHANGED <<agentVars, wallet, withdrawn>>,
           \A q \in Requests \ {r} : tx'[q] = tx[q], tx'[r] # Idle => Known(r)'
    PROVE  Guarded'
  BY DEF agentVars, Guarded, Known, At

LEMMA GuardedEnds ==
    ASSUME Inv, Guarded, NEW r \in Requests, UNCHANGED <<agentVars, wallet, withdrawn>>, End(r)
    PROVE  Guarded'
<1>1. tx'[r] = Idle /\ \A q \in Requests \ {r} : tx'[q] = tx[q]
  BY DEF Inv, TypeOK, End
<1> QED BY <1>1, GuardedQuietly

LEMMA GuardedBegins ==
    ASSUME Inv, Guarded, NEW r \in Requests, Begins(r)
    PROVE  Guarded'
<1>1. PICK u, place, a, g, found :
        /\ Start(r, u, place, a, g, found)
        /\ place = "swap" => wallet[u] # None
        /\ UNCHANGED <<agentVars, wallet, withdrawn>>
  BY DEF Begins, RegisterBegins, LinkBegins, ReplaceBegins, Replaceable, AgentBegins,
         WithdrawBegins, Steps
<1>2. /\ tx'[r] = [at |-> place, user |-> u, address |-> a, row |-> g,
                   retire |-> {}, held |-> {}, need |-> found]
      /\ \A q \in Requests \ {r} : tx'[q] = tx[q]
  BY <1>1 DEF Inv, TypeOK, Start
<1>3. Known(r)'
  BY <1>1, <1>2 DEF Known, At
<1> QED BY <1>1, <1>2, <1>3, GuardedQuietly

LEMMA GuardedProceeds ==
    ASSUME Inv, Guarded, NEW r \in Requests, Proceeds(r)
    PROVE  Guarded'
<1>1. UNCHANGED <<agentVars, wallet, withdrawn>>
  BY DEF Proceeds, LockNext, Retire, InsertFails, Insert, LockAgent, Abort
<1>2. CASE End(r)
  BY <1>1, <1>2, GuardedEnds
<1>3. CASE Retire(r) /\ ~End(r)
  <2>1. tx[r] \in Running
    BY <1>3 DEF Inv, TypeOK, Retire, At, Idle
  <2>2. ~Taken(r) /\ tx' = [tx EXCEPT ![r].at = "index", ![r].retire = Abandoned(r), ![r].need = {}]
    BY <1>3 DEF Retire
  <2>3. /\ tx'[r].at = "index" /\ tx'[r].user = tx[r].user /\ tx'[r].retire = Abandoned(r)
        /\ \A q \in Requests \ {r} : tx'[q] = tx[q]
    BY <2>1, <2>2 DEF Inv, TypeOK, Running
  <2>4. \A g \in Abandoned(r) : g \in abandoned /\ owner[g] # tx[r].user
    BY <2>2 DEF Abandoned, Found, Taken
  <2>5. Known(r)'
    BY <1>1, <2>3, <2>4 DEF agentVars, Known, At
  <2> QED BY <1>1, <2>3, <2>5, GuardedQuietly
<1>4. CASE ~Retire(r) /\ ~End(r)
  <2>1. LockNext(r) \/ LockAgent(r) \/ \E g \in Rows : Insert(r, g)
    BY <1>4 DEF Proceeds, InsertFails, Abort
  <2>2. tx[r] \in Running /\ tx[r] # Idle
    <3>1. tx[r].at # "idle"
      BY <2>1 DEF LockNext, LockAgent, Insert, At, Steps
    <3> QED BY <3>1 DEF Inv, TypeOK, Idle
  <2>3. /\ tx'[r].user = tx[r].user /\ tx'[r].retire = tx[r].retire /\ tx'[r].at # "swap"
        /\ \A q \in Requests \ {r} : tx'[q] = tx[q]
    <3>1. CASE LockNext(r)
      BY <2>2, <3>1 DEF Inv, TypeOK, Running, LockNext
    <3>2. CASE LockAgent(r)
      BY <1>4, <2>2, <3>2 DEF Inv, TypeOK, Running, LockAgent, Steps
    <3>3. CASE \E g \in Rows : Insert(r, g)
      BY <1>4, <2>2, <3>3 DEF Inv, TypeOK, Running, Insert
    <3> QED BY <2>1, <3>1, <3>2, <3>3
  <2>4. Known(r)'
    BY <1>1, <2>2, <2>3 DEF agentVars, Guarded, Known, At
  <2> QED BY <1>1, <2>3, <2>4, GuardedQuietly
<1> QED BY <1>2, <1>3, <1>4

(* A commit only takes away what it has locked, or what belongs to a user  *)
(* it has locked.                                                          *)
LEMMA GuardedCommits ==
    ASSUME Inv, Guarded, NEW r \in Requests, tx[r] # Idle, End(r),
           \A g \in abandoned' : g \in abandoned /\ status'[g] = "PENDING",
           abandoned \ abandoned' \subseteq tx[r].held,
           \A g \in Rows : Used(g) => owner'[g] = owner[g],
           \A u \in Users : wallet'[u] = wallet[u] \/ (u = tx[r].user /\ tx[r].at \in Updating)
    PROVE  Guarded'
<1>1. tx'[r] = Idle /\ \A q \in Requests \ {r} : tx'[q] = tx[q]
  BY DEF Inv, TypeOK, End
<1>2. ASSUME NEW q \in Requests, tx'[q] # Idle PROVE Known(q)'
  <2>1. q # r /\ tx'[q] = tx[q] /\ tx[q] \in Running /\ Mine(q) /\ Apart(r, q) /\ Known(q)
    BY <1>1, <1>2 DEF Inv, TypeOK, Guarded
  <2>2. ASSUME NEW g \in tx[q].retire PROVE g \in abandoned' /\ owner'[g] # tx[q].user
    <3>1. g \in Rows /\ Used(g) /\ g \notin tx[r].held
      BY <1>2, <2>1 DEF Running, Mine, Retiring, Touched, Apart
    <3> QED BY <2>1, <3>1 DEF Known
  <2>3. At(q, "swap") => wallet'[tx[q].user] # None
    BY <1>2, <2>1 DEF Running, Apart, Known, At, Sharing
  <2> QED BY <2>1, <2>2, <2>3 DEF Known, At
<1> QED BY <1>2 DEF Guarded

LEMMA GuardedAtCommit ==
    ASSUME Inv, Guarded, NEW r \in Requests, Commits(r)
    PROVE  Guarded'
<1>1. tx[r] # Idle /\ tx[r] \in Running /\ Mine(r) /\ End(r)
  BY DEF Inv, TypeOK, Commits, Registered, Activate, RotateKey, Revoke, Linked, Replaced,
         Withdrawn, At, Idle
<1>2. CASE Registered(r)
  <2>1. CASE Taken(r)
    BY <1>1, <1>2, <2>1, GuardedEnds DEF Registered, agentVars
  <2>2. CASE ~Taken(r)
    <3> DEFINE gone == tx[r].retire \union Abandoned(r)
    <3>1. gone \subseteq tx[r].held
      BY <1>1, <1>2 DEF Registered, Abandoned, Found, Mine, Retiring
    <3>2. tx[r].row \in Rows /\ ~Used(tx[r].row) /\ abandoned \subseteq Rows
      BY <1>1, <1>2 DEF Registered, Mine, Inserted, Inv, TypeOK
    <3>3. /\ owner' = [owner EXCEPT ![tx[r].row] = tx[r].user]
          /\ status' = [g \in Rows |-> IF g = tx[r].row THEN "PENDING"
                                       ELSE IF g \in gone THEN "DELETED" ELSE status[g]]
          /\ abandoned' = abandoned \ gone /\ wallet' = wallet
      BY <1>2, <2>2 DEF Registered
    <3> HIDE DEF gone
    <3>4. \A g \in abandoned' : g \in abandoned /\ status'[g] = "PENDING"
      BY <3>2, <3>3 DEF Guarded
    <3>5. \A g \in Rows : Used(g) => owner'[g] = owner[g]
      BY <3>2, <3>3 DEF Inv, TypeOK
    <3>6. abandoned \ abandoned' \subseteq tx[r].held
      BY <3>1, <3>3
    <3>7. \A v \in Users : wallet'[v] = wallet[v]
      BY <3>3
    <3> QED BY <1>1, <3>4, <3>5, <3>6, <3>7, GuardedCommits
  <2> QED BY <2>1, <2>2
<1>3. CASE Activate(r) \/ RotateKey(r) \/ Revoke(r)
  <2>1. tx[r].row \in Rows /\ tx[r].held = {tx[r].row}
    BY <1>3, Holding DEF Activate, RotateKey, Revoke, At
  <2>2. /\ \/ abandoned' = abandoned /\ status' = status
           \/ /\ abandoned' = abandoned \ {tx[r].row}
              /\ \A g \in Rows \ {tx[r].row} : status'[g] = status[g]
        /\ owner' = owner /\ wallet' = wallet
    BY <1>3 DEF Activate, RotateKey, Revoke, Inv, TypeOK
  <2>3. \A g \in abandoned' : g \in abandoned /\ status'[g] = "PENDING"
    BY <2>2 DEF Guarded, Inv, TypeOK
  <2>4. abandoned \ abandoned' \subseteq tx[r].held
    BY <2>1, <2>2
  <2>5. /\ \A g \in Rows : Used(g) => owner'[g] = owner[g]
        /\ \A v \in Users : wallet'[v] = wallet[v]
    BY <2>2
  <2> QED BY <1>1, <2>3, <2>4, <2>5, GuardedCommits
<1>4. CASE Linked(r) \/ Replaced(r)
  <2>1. /\ UNCHANGED agentVars /\ tx[r].at \in Updating
        /\ wallet' = wallet \/ wallet' = [wallet EXCEPT ![tx[r].user] = tx[r].address]
    BY <1>4 DEF Linked, Replaced, At, Updating
  <2>2. \A u \in Users : wallet'[u] = wallet[u] \/ u = tx[r].user
    BY <2>1 DEF Inv, TypeOK
  <2> QED BY <1>1, <2>1, <2>2, GuardedCommits DEF agentVars, Guarded
<1>5. CASE Withdrawn(r)
  <2>1. /\ abandoned' = abandoned \ tx[r].need /\ tx[r].need \subseteq tx[r].held
        /\ owner' = owner /\ wallet' = [wallet EXCEPT ![tx[r].user] = None]
        /\ tx[r].at \in Updating
        /\ status' = [g \in Rows |-> IF g \in tx[r].need /\ Live(g) THEN "REVOKED" ELSE status[g]]
    BY <1>5 DEF Withdrawn, At, Updating
  <2>2. \A g \in abandoned' : g \in abandoned /\ status'[g] = "PENDING"
    BY <2>1 DEF Inv, TypeOK, Guarded
  <2>3. \A u \in Users : wallet'[u] = wallet[u] \/ u = tx[r].user
    BY <2>1 DEF Inv, TypeOK
  <2> QED BY <1>1, <2>1, <2>2, <2>3, GuardedCommits
<1> QED BY <1>2, <1>3, <1>4, <1>5 DEF Commits

LEMMA GuardedInit == Init => Guarded
  BY DEF Init, NoAgents, Guarded

LEMMA GuardedNext == Inv /\ Guarded /\ [Next]_vars => Guarded'
<1> SUFFICES ASSUME Inv, Guarded, [Next]_vars PROVE Guarded'
  OBVIOUS
<1>1. CASE UNCHANGED vars
  BY <1>1 DEF vars, agentVars, Guarded, Known, At
<1>2. ASSUME NEW g \in Rows, Ages(g) PROVE Guarded'
  BY <1>2 DEF Ages, Guarded, Known, At
<1> QED BY <1>1, <1>2, GuardedBegins, GuardedProceeds, GuardedAtCommit DEF Next

(* What is retired is all there is at the address, and nothing else.       *)
LEMMA RegisteredActs ==
    ASSUME Inv, Guarded, NEW r \in Requests, Registered(r)
    PROVE  [AsSteps!Next]_AsSteps!rowVars
<1> USE DEF rowVars, agentVars, AsSteps!rowVars, AsSteps!agentVars
<1> DEFINE n == tx[r].row
           u == tx[r].user
           a == tx[r].address
           gone == tx[r].retire \union Abandoned(r)
<1>1. CASE Taken(r)
  BY <1>1 DEF Registered
<1>2. CASE ~Taken(r)
  <2>1. tx[r] \in Running /\ At(r, "recheck") /\ tx[r] # Idle
    BY DEF Inv, TypeOK, Registered, At, Idle
  <2>2. /\ n \in Rows /\ status[n] = "NONE" /\ u \in Users /\ a \in AgentAddresses
        /\ u \notin withdrawn /\ wallet[u] # a /\ ~ReservedByOther(u, a)
        /\ LiveAt(a) \subseteq tx[r].retire
    BY <2>1 DEF Inv, Mine, Inserted, Registering, Running, Used, At
  <2>3. \A g \in tx[r].retire : /\ g \in LiveAt(a) /\ status[g] = "PENDING"
                               /\ g \in abandoned /\ owner[g] # u
    BY <2>1 DEF Inv, Mine, Retiring, Within, Touched, Guarded, Known, Running, LiveAt, Live, At
  <2>4. Abandoned(r) \subseteq LiveAt(a)
    BY <2>1 DEF Abandoned, Found, Claims, LiveAt, Live, Running
  <2>5. gone = LiveAt(a)
    BY <2>2, <2>3, <2>4
  <2>6. AsSteps!Register(u, a, n)
    BY <1>2, <2>2, <2>3, <2>5
       DEF Registered, AsSteps!Register, LiveAt, AsSteps!LiveAt, Live, AsSteps!Live,
           ReservedByOther, AsSteps!ReservedByOther
  <2> QED BY <2>2, <2>6 DEF AsSteps!Next
<1> QED BY <1>1, <1>2

LEMMA AgentActs ==
    ASSUME Inv, NEW r \in Requests, Activate(r) \/ RotateKey(r) \/ Revoke(r)
    PROVE  [AsSteps!Next]_AsSteps!rowVars
<1> USE DEF rowVars, agentVars, AsSteps!rowVars, AsSteps!agentVars
<1> DEFINE n == tx[r].row
<1>1. /\ n \in Rows /\ owner[n] = tx[r].user /\ owner[n] \notin withdrawn
      /\ At(r, "activate") => status[n] = "PENDING"
      /\ At(r, "rotated") => status[n] = "ACTIVE"
      /\ At(r, "revoked") => Live(n)
  BY Holding DEF Activate, RotateKey, Revoke, At
<1>2. CASE Activate(r)
  <2>1. CASE ReservedByOther(tx[r].user, address[n])
    BY <1>2, <2>1 DEF Activate
  <2>2. CASE ~ReservedByOther(tx[r].user, address[n])
    <3>1. AsSteps!Verify(n)
      BY <1>1, <1>2, <2>2 DEF Activate, AsSteps!Verify, ReservedByOther, AsSteps!ReservedByOther
    <3> QED BY <1>1, <3>1 DEF AsSteps!Next
  <2> QED BY <2>1, <2>2
<1>3. CASE RotateKey(r)
  <2>1. AsSteps!RotateKey(n)
    BY <1>1, <1>3 DEF RotateKey, AsSteps!RotateKey
  <2> QED BY <1>1, <2>1 DEF AsSteps!Next
<1>4. CASE Revoke(r)
  <2>1. AsSteps!Revoke(n)
    BY <1>1, <1>4 DEF Revoke, AsSteps!Revoke, Live, AsSteps!Live, Closed, AsSteps!Closed
  <2> QED BY <1>1, <2>1 DEF AsSteps!Next
<1> QED BY <1>2, <1>3, <1>4

LEMMA WalletActs ==
    ASSUME Inv, Guarded, NEW r \in Requests, Linked(r) \/ Replaced(r)
    PROVE  [AsSteps!Next]_AsSteps!rowVars
<1> USE DEF rowVars, agentVars, AsSteps!rowVars, AsSteps!agentVars
<1> DEFINE u == tx[r].user
           a == tx[r].address
<1>1. /\ u \in Users /\ u \notin withdrawn /\ a \in Addresses /\ ~OwnAgentAt(u, a)
      /\ At(r, "swap") => wallet[u] # None
  BY DEF Inv, TypeOK, Running, Idle, Linked, Replaced, At, Mine, Linking, Guarded, Known
<1>2. ~AsSteps!OwnAgentAt(u, a)
  BY <1>1 DEF OwnAgentAt, AsSteps!OwnAgentAt, LiveAt, AsSteps!LiveAt, Live, AsSteps!Live
<1>3. CASE wallet' = wallet
  BY <1>3 DEF Linked, Replaced
<1>4. CASE Linked(r) /\ wallet' # wallet
  <2>1. AsSteps!Link(u, a)
    BY <1>1, <1>2, <1>4 DEF Linked, AsSteps!Link, Connected, AsSteps!Connected
  <2> QED BY <1>1, <2>1 DEF AsSteps!Next
<1>5. CASE Replaced(r) /\ wallet' # wallet
  <2>1. /\ ~Connected(a) /\ wallet' = [wallet EXCEPT ![u] = a] /\ wallet[u] \notin {None, a}
        /\ UNCHANGED <<agentVars, withdrawn>>
    BY <1>1, <1>5 DEF Replaced, Connected
  <2>2. AsSteps!Replace(u, a)
    BY <1>1, <1>2, <2>1 DEF AsSteps!Replace, AsSteps!Replaceable, Connected, AsSteps!Connected
  <2> QED BY <1>1, <2>2 DEF AsSteps!Next
<1> QED BY <1>3, <1>4, <1>5

(* Nothing of his became live since the agents of the user were found.     *)
LEMMA WithdrawnActs ==
    ASSUME Inv, Guarded, NEW r \in Requests, Withdrawn(r)
    PROVE  [AsSteps!Next]_AsSteps!rowVars
<1> USE DEF rowVars, agentVars, AsSteps!rowVars, AsSteps!agentVars
<1> DEFINE u == tx[r].user
<1>1. tx[r] \in Running /\ u \in Users /\ u \notin withdrawn /\ LeavesNone(r) /\ At(r, "agents")
  BY DEF Inv, TypeOK, Running, Idle, Withdrawn, At, Mine
<1>2. ASSUME NEW g \in Rows PROVE g \in tx[r].need /\ Live(g) <=> owner[g] = u /\ Live(g)
  BY <1>1 DEF LeavesNone
<1>3. abandoned \ tx[r].need = abandoned \ {g \in Rows : owner[g] = u}
  BY <1>1, <1>2 DEF Inv, TypeOK, Guarded, Live, LeavesNone, Running
<1>4. AsSteps!Withdraw(u)
  BY <1>1, <1>2, <1>3
     DEF Withdrawn, AsSteps!Withdraw, Live, AsSteps!Live, Closed, AsSteps!Closed
<1> QED BY <1>1, <1>4 DEF AsSteps!Next

LEMMA AccountsAct == Inv /\ Guarded /\ [Next]_vars => [AsSteps!Next]_AsSteps!rowVars
<1> USE DEF rowVars, agentVars, AsSteps!rowVars, AsSteps!agentVars
<1> SUFFICES ASSUME Inv, Guarded, [Next]_vars PROVE [AsSteps!Next]_AsSteps!rowVars
  OBVIOUS
<1>1. CASE UNCHANGED vars
  BY <1>1 DEF vars
<1>2. ASSUME NEW r \in Requests, Begins(r) \/ Proceeds(r) PROVE UNCHANGED rowVars
  BY <1>2 DEF Begins, RegisterBegins, LinkBegins, ReplaceBegins, AgentBegins, WithdrawBegins,
              Proceeds, LockNext, Retire, InsertFails, Insert, LockAgent, Abort
<1>3. ASSUME NEW r \in Requests, Commits(r) PROVE [AsSteps!Next]_AsSteps!rowVars
  BY <1>3, RegisteredActs, AgentActs, WalletActs, WithdrawnActs DEF Commits
<1>4. ASSUME NEW g \in Rows, Ages(g) PROVE [AsSteps!Next]_AsSteps!rowVars
  <2>1. AsSteps!Ages(g)
    BY <1>4 DEF Ages, AsSteps!Ages
  <2> QED BY <2>1 DEF AsSteps!Next
<1> QED BY <1>1, <1>2, <1>3, <1>4 DEF Next

(* Whatever overlaps - registrations, proofs, revocations, wallets and     *)
(* withdrawals - wallets and agents change as if each handler had run      *)
(* alone at the moment it commits.                                         *)
THEOREM HandlersActAtCommit == Spec => ActsAtCommit
<1>1. Init => AsSteps!NoAgents
  BY DEF Init, NoAgents, AsSteps!NoAgents
<1>2. Spec => [](Inv /\ Guarded)
  BY InvInit, InvNext, GuardedInit, GuardedNext, PTL DEF Spec
<1> QED BY <1>1, <1>2, AccountsAct, PTL DEF Spec, ActsAtCommit, AsSteps!Spec

=============================================================================
