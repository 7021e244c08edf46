--------------------------- MODULE NftWorkerProofs ---------------------------
(* Theorems about NftWorker, for any number of children, of executions at a *)
(* time and of attempts, whatever crashes, stalls or gets lost.             *)
EXTENDS NftWorker, TLAPS

MintAt == {"mark", "exists", "recheck", "send", "record", "follow", "queue", "paused"}
Late == {"follow", "queue", "done"}

Queued(n) == n \in Children /\ status[<<n, "ATTACH">>] # "NONE"
Succeeded(n) == status[<<n, "MINT">>] = "SUCCEEDED"

(* What the rows say holds of the chain.                                   *)
ChainInv == attached \subseteq minted /\ minted \subseteq chain

(* What an execution has found out stays true, whoever owns the job now.   *)
ExecInv(s) ==
    exec[s] # Idle =>
      /\ exec[s].pc \in MintAt => exec[s].job[2] = "MINT"
      /\ exec[s].pc \in {"attach", "deferred"} => exec[s].job[2] = "ATTACH"
      /\ At(s, "record") => Nft(s) \in chain
      /\ exec[s].pc \in {"follow", "queue"} => Nft(s) \in minted
      /\ At(s, "queue") => Nft(s) \in Children
      /\ At(s, "done") => IF exec[s].job[2] = "MINT" THEN Nft(s) \in minted
                                                     ELSE Nft(s) \in attached
      /\ exec[s].seen = "ATTACHED" => Nft(s) \in attached

(* The execution that owns the mint job of n has come to one of pcs.       *)
Carries(s, n, pcs) == exec[s].pc \in pcs /\ exec[s].job = <<n, "MINT">> /\ Owns(s)

(* While the mint job is being followed up, or is done with, nothing but   *)
(* the attach job touches the NFT.                                         *)
Good(n) == nft[n] # "MINTING" /\ (n \in attached \/ Queued(n) \/ nft[n] = "MINTED")
FollowInv(n) == Succeeded(n) \/ (\E s \in Slots : Carries(s, n, Late)) => Good(n)

(* Of a parent and a child that have both been followed up one has seen    *)
(* the other.                                                              *)
Passed(n) == Succeeded(n) \/ \E s \in Slots : Carries(s, n, {"done"})
SeenInv(c) == Passed(Parent) /\ Passed(c) => Queued(c) \/ c \in attached

(* What the rows of an NFT and of its jobs say of each other.              *)
JobInv(j) ==
    /\ status[j] \notin {"FAILED", "SUCCEEDED"} => retries[j] < MaxRetry
    /\ status[j] = "SUCCEEDED" => IF j[2] = "MINT" THEN j[1] \in minted ELSE j[1] \in attached

RowInv(n) ==
    /\ nft[n] \in MintedOrLater => n \in minted
    /\ nft[n] = "ATTACHED" => n \in attached
    /\ nft[n] = "NONE" => status[<<n, "MINT">>] = "NONE"
    /\ nft[n] = "FAILED" => \E j \in Jobs : j[1] = n /\ status[j] = "FAILED"
    /\ nft[n] = "MINTING" /\ n \notin attached =>
         status[<<n, "MINT">>] \in {"PENDING", "PROCESSING"}

Inv ==
    /\ TypeOK /\ ChainInv
    /\ \A j \in Jobs : JobInv(j)
    /\ \A n \in Nfts : RowInv(n) /\ FollowInv(n)
    /\ \A s \in Slots : ExecInv(s)
    /\ \A c \in Children : SeenInv(c)

-----------------------------------------------------------------------------

LEMMA Job ==
    ASSUME TypeOK, NEW s \in Slots, exec[s] # Idle
    PROVE  /\ exec[s] \in Executions /\ exec[s].job \in Jobs /\ Nft(s) \in Nfts
           /\ exec[s].job = <<Nft(s), exec[s].job[2]>>
           /\ exec[s].job[2] \in {"MINT", "ATTACH"}
           /\ exec[s].job[2] = "ATTACH" => Nft(s) \in Children
<1>1. exec[s] \in Executions /\ exec[s].job \in Jobs
  BY DEF TypeOK, Executions
<1> QED BY <1>1 DEF Jobs, Nfts, Nft

LEMMA NotIdle ==
    ASSUME TypeOK, NEW s \in Slots, exec[s].pc # "idle"
    PROVE  exec[s] # Idle
BY DEF Idle

(* Executions of the two jobs of an NFT.                                   *)
LEMMA JobsOf ==
    /\ \A n \in Nfts : <<n, "MINT">> \in Jobs
    /\ \A c \in Children : <<c, "ATTACH">> \in Jobs /\ c \in Nfts
    /\ \A j \in Jobs : /\ j = <<j[1], j[2]>> /\ j[1] \in Nfts /\ j[2] \in {"MINT", "ATTACH"}
                       /\ j[2] = "ATTACH" => j[1] \in Children
    /\ Parent \in Nfts
BY DEF Jobs, Nfts

(* A step of one execution that changes no row.                            *)
LEMMA QuietStep ==
    ASSUME Inv, NEW s \in Slots, NEW t \in Executions \union {Idle},
           exec' = [exec EXCEPT ![s] = t],
           UNCHANGED <<nft, minted, attached, status, retries, claim>>,
           chain \subseteq chain', chain' \subseteq Nfts, late' \subseteq Nfts,
           minting' \in BOOLEAN, calm' \in BOOLEAN,
           ExecInv(s)',
           \A n \in Nfts : /\ Carries(s, n, Late)' => Carries(s, n, Late) \/ Good(n)
                           /\ Carries(s, n, {"done"})' => \/ Carries(s, n, {"done"})
                                                          \/ /\ n \in Children
                                                             /\ Passed(Parent) => Queued(n) \/ n \in attached
    PROVE  Inv'
<1>1. exec'[s] = t /\ \A q \in Slots \ {s} : exec'[q] = exec[q]
  BY DEF Inv, TypeOK
<1>2. TypeOK' /\ ChainInv' /\ (\A j \in Jobs : JobInv(j)') /\ (\A n \in Nfts : RowInv(n)')
  BY DEF Inv, TypeOK, ChainInv, JobInv, RowInv
<1>3. ASSUME NEW q \in Slots PROVE ExecInv(q)'
  BY <1>1 DEF Inv, ExecInv, At, Nft
<1>4. ASSUME NEW q \in Slots \ {s}, NEW n \in Nfts, NEW pcs
      PROVE  Carries(q, n, pcs)' <=> Carries(q, n, pcs)
  BY <1>1 DEF Carries, Owns
<1>5. \A n \in Nfts : (Queued(n)' <=> Queued(n)) /\ (Succeeded(n)' <=> Succeeded(n))
  BY DEF Queued, Succeeded
<1>6. ASSUME NEW n \in Nfts PROVE FollowInv(n)'
  <2>1. \A q \in Slots : Carries(q, n, Late)' => Carries(q, n, Late) \/ Good(n)
    BY <1>4
  <2>2. FollowInv(n) /\ (Good(n)' <=> Good(n))
    BY <1>5 DEF Inv, Good
  <2> QED BY <1>5, <2>1, <2>2 DEF FollowInv
<1>7. ASSUME NEW c \in Children, Passed(Parent)', Passed(c)' PROVE Queued(c)' \/ c \in attached'
  <2>1. c \in Nfts /\ Parent \in Nfts /\ Parent # c /\ Parent \notin Children
    BY JobsOf, NftAssumption
  <2>2. Passed(Parent)
    BY <1>4, <1>5, <1>7, <2>1 DEF Passed
  <2>3. Passed(c) \/ (Passed(Parent) => Queued(c) \/ c \in attached)
    BY <1>4, <1>5, <1>7, <2>1 DEF Passed
  <2> QED BY <1>5, <2>1, <2>2, <2>3 DEF Inv, SeenInv
<1>8. \A c \in Children : SeenInv(c)'
  BY <1>7 DEF SeenInv
<1> QED BY <1>2, <1>3, <1>6, <1>8 DEF Inv

(* What a place says of the execution that comes to it.                    *)
Fitting(s, p) ==
    /\ p \in MintAt => exec[s].job[2] = "MINT"
    /\ p \in {"attach", "deferred"} => exec[s].job[2] = "ATTACH"
    /\ p = "record" => Nft(s) \in chain'
    /\ p \in {"follow", "queue"} => Nft(s) \in minted
    /\ p = "queue" => Nft(s) \in Children
    /\ p = "done" => IF exec[s].job[2] = "MINT" THEN Nft(s) \in minted ELSE Nft(s) \in attached

LEMMA EndStep ==
    ASSUME Inv, NEW s \in Slots, End(s),
           UNCHANGED <<nft, minted, attached, status, retries, claim>>,
           chain \subseteq chain', chain' \subseteq Nfts, late' \subseteq Nfts,
           minting' \in BOOLEAN, calm' \in BOOLEAN
    PROVE  Inv'
<1>1. exec'[s] = Idle
  BY DEF End, Inv, TypeOK
<1>2. ExecInv(s)' /\ \A n \in Nfts, pcs \in {Late, {"done"}} : ~Carries(s, n, pcs)'
  BY <1>1 DEF ExecInv, Carries, Idle, Late
<1> QED BY <1>2, QuietStep DEF End

LEMMA GotoStep ==
    ASSUME Inv, NEW s \in Slots, NEW p \in RunningAt \union OutcomeAt, exec[s] # Idle, Goto(s, p),
           UNCHANGED <<nft, minted, attached, status, retries, claim>>,
           chain \subseteq chain', chain' \subseteq Nfts, late' \subseteq Nfts,
           minting' \in BOOLEAN, calm' \in BOOLEAN,
           Fitting(s, p),
           p \in Late /\ exec[s].job[2] = "MINT" =>
             /\ exec[s].pc \in Late
             /\ p = "done" => \/ exec[s].pc = "done"
                              \/ Nft(s) \in Children
                                 /\ (Passed(Parent) => Queued(Nft(s)) \/ Nft(s) \in attached)
    PROVE  Inv'
<1>1. CASE End(s)
  BY <1>1, EndStep
<1>2. CASE exec' = [exec EXCEPT ![s].pc = p]
  <2> DEFINE t == [exec[s] EXCEPT !.pc = p]
  <2>1. /\ t \in Executions /\ t.pc = p /\ t.job = exec[s].job /\ t.seen = exec[s].seen
        /\ t # Idle
    BY Job DEF Inv, Executions, Idle, RunningAt, OutcomeAt
  <2>2. exec' = [exec EXCEPT ![s] = t] /\ exec'[s] = t
    BY <1>2 DEF Inv, TypeOK
  <2> HIDE DEF t
  <2>3. ExecInv(s)'
    BY <2>1, <2>2 DEF Inv, ExecInv, Fitting, At, Nft
  <2>4. ASSUME NEW n \in Nfts, NEW pcs, Carries(s, n, pcs)'
        PROVE  p \in pcs /\ exec[s].job = <<n, "MINT">> /\ Nft(s) = n /\ exec[s].job[2] = "MINT" /\ Owns(s)
    BY <2>1, <2>2, <2>4 DEF Carries, Owns, Nft
  <2>5. ASSUME NEW n \in Nfts, Carries(s, n, Late)' PROVE Carries(s, n, Late)
    BY <2>4, <2>5 DEF Carries
  <2>6. ASSUME NEW n \in Nfts, Carries(s, n, {"done"})'
        PROVE  Carries(s, n, {"done"})
               \/ (n \in Children /\ (Passed(Parent) => Queued(n) \/ n \in attached))
    BY <2>4, <2>6 DEF Carries, Late
  <2> QED BY <2>1, <2>2, <2>3, <2>5, <2>6, QuietStep
<1> QED BY <1>1, <1>2 DEF Goto

LEMMA QuietActions ==
    ASSUME Inv, NEW s \in Slots,
           \/ LosesClaim(s) \/ TokenExists(s) \/ Recheck(s) \/ MintLands(s) \/ MintRefused(s)
           \/ MintUnknown(s) \/ Fails(s) \/ Crash(s)
    PROVE  Inv'
<1> USE DEF nftVars, jobVars, chainVars, runVars
<1>1. CASE LosesClaim(s)
  BY <1>1, EndStep DEF LosesClaim, Inv, TypeOK
<1>2. CASE Crash(s)
  <2>1. late' \subseteq Nfts
    BY <1>2, Job DEF Crash, Inv, TypeOK
  <2> QED BY <1>2, <2>1, EndStep DEF Crash, Inv, TypeOK
<1>3. CASE TokenExists(s)
  <2>1. exec[s] # Idle /\ exec[s].job[2] = "MINT"
    BY <1>3, NotIdle DEF TokenExists, At, Inv, ExecInv, MintAt
  <2>2. CASE Nft(s) \in chain
    BY <1>3, <2>1, <2>2, GotoStep
       DEF TokenExists, Fitting, RunningAt, Late, MintAt, Inv, TypeOK
  <2>3. CASE Nft(s) \notin chain
    BY <1>3, <2>1, <2>3, GotoStep
       DEF TokenExists, Fitting, RunningAt, Late, MintAt, Inv, TypeOK
  <2> QED BY <2>2, <2>3
<1>4. CASE Recheck(s)
  <2>1. exec[s] # Idle /\ exec[s].job[2] = "MINT"
    BY <1>4, NotIdle DEF Recheck, At, Inv, ExecInv, MintAt
  <2>2. PICK p \in {"send", "paused"} : Goto(s, p)
    BY <1>4 DEF Recheck
  <2> QED BY <1>4, <2>1, <2>2, GotoStep
          DEF Recheck, Fitting, RunningAt, OutcomeAt, Late, MintAt, Inv, TypeOK
<1>5. CASE MintLands(s)
  <2>1. exec[s] # Idle /\ exec[s].job[2] = "MINT"
    BY <1>5, NotIdle DEF MintLands, At, Inv, ExecInv, MintAt
  <2>2. chain \subseteq chain' /\ chain' \subseteq Nfts /\ late' \subseteq Nfts /\ Nft(s) \in chain'
    BY <1>5, <2>1, Job DEF MintLands, Inv, TypeOK
  <2> QED BY <1>5, <2>1, <2>2, GotoStep
          DEF MintLands, Fitting, RunningAt, Late, MintAt, Inv, TypeOK
<1>6. CASE MintRefused(s) \/ MintUnknown(s) \/ Fails(s)
  <2>1. exec[s] # Idle /\ Goto(s, "error")
    BY <1>6, NotIdle DEF MintRefused, MintUnknown, Fails, At, RunningAt, Inv
  <2>2. /\ UNCHANGED <<nft, minted, attached, status, retries, claim, chain, runVars>>
        /\ late' \subseteq Nfts
    BY <1>6, <2>1, Job DEF MintRefused, MintUnknown, Fails, Inv, TypeOK
  <2> QED BY <2>1, <2>2, GotoStep DEF Fitting, OutcomeAt, Late, MintAt, Inv, TypeOK
<1> QED BY <1>1, <1>2, <1>3, <1>4, <1>5, <1>6

LEMMA ReadParentStep ==
    ASSUME Inv, NEW s \in Slots, ReadParent(s)
    PROVE  Inv'
<1> USE DEF nftVars, jobVars, chainVars, runVars
<1>1. /\ At(s, "follow") /\ exec[s] # Idle /\ exec[s].job[2] = "MINT" /\ Nft(s) \in minted
      /\ Nft(s) \in Children
  BY NotIdle DEF ReadParent, At, Inv, ExecInv, MintAt
<1>2. CASE Goto(s, "queue")
  BY <1>1, <1>2, GotoStep DEF ReadParent, Fitting, RunningAt, Late, MintAt, Inv, TypeOK, At
<1>3. CASE Goto(s, "done") /\ exec[s].seen = "ATTACHED"
  <2>1. Nft(s) \in attached
    BY <1>1, <1>3 DEF Inv, ExecInv
  <2> QED BY <1>1, <1>3, <2>1, GotoStep
          DEF ReadParent, Fitting, OutcomeAt, Late, MintAt, Inv, TypeOK, At
<1>4. CASE Goto(s, "done") /\ nft[Parent] \notin ParentReady
  <2>1. ~Passed(Parent)
    <3>1. Good(Parent) => nft[Parent] = "MINTED"
      BY NftAssumption DEF Good, Queued, Inv, TypeOK
    <3>2. Passed(Parent) => Good(Parent)
      BY JobsOf DEF Inv, FollowInv, Passed, Carries, Late
    <3> QED BY <1>4, <3>1, <3>2 DEF ParentReady
  <2> QED BY <1>1, <1>4, <2>1, GotoStep
          DEF ReadParent, Fitting, OutcomeAt, Late, MintAt, Inv, TypeOK, At
<1> QED BY <1>2, <1>3, <1>4 DEF ReadParent

LEMMA AttachNothingStep ==
    ASSUME Inv, NEW s \in Slots, AttachNothing(s)
    PROVE  Inv'
<1> USE DEF nftVars, jobVars, chainVars, runVars
<1>1. exec[s] # Idle /\ exec[s].job[2] = "ATTACH"
  BY NotIdle DEF AttachNothing, At, Inv, ExecInv
<1>2. PICK p \in {"done", "deferred", "error"} :
        Goto(s, p) /\ (p = "done" => exec[s].seen = "ATTACHED")
  BY DEF AttachNothing
<1>3. p = "done" => Nft(s) \in attached
  BY <1>1, <1>2 DEF Inv, ExecInv
<1> QED BY <1>1, <1>2, <1>3, GotoStep
        DEF AttachNothing, Fitting, OutcomeAt, MintAt, Inv, TypeOK

LEMMA ReadNftStep ==
    ASSUME Inv, NEW s \in Slots, ReadNft(s)
    PROVE  Inv'
<1> USE DEF nftVars, jobVars, chainVars, runVars
<1>1. At(s, "claimed") /\ exec[s] # Idle
  BY NotIdle DEF ReadNft, At, Inv
<1> DEFINE now == nft[Nft(s)]
           p == IF exec[s].job[2] = "ATTACH" THEN "attach"
                ELSE IF now \in MintAlreadyDone THEN "follow" ELSE "mark"
           seen == IF now \in MintedOrLater THEN now ELSE "NONE"
<1>2. /\ exec' = [exec EXCEPT ![s].pc = p, ![s].seen = seen]
      /\ p \in {"attach", "follow", "mark"} /\ seen \in MintedOrLater \union {"NONE"}
      /\ p = "attach" <=> exec[s].job[2] = "ATTACH"
      /\ p = "follow" => nft[Nft(s)] \in MintAlreadyDone
      /\ seen = "ATTACHED" => nft[Nft(s)] = "ATTACHED"
  BY DEF ReadNft
<1> HIDE DEF now, p, seen
<1> DEFINE t == [exec[s] EXCEPT !.pc = p, !.seen = seen]
<1>3. /\ t \in Executions /\ t.pc = p /\ t.job = exec[s].job /\ t.seen = seen
      /\ t # Idle
  BY <1>1, <1>2, Job DEF Inv, Executions, Idle, RunningAt, OutcomeAt
<1>4. exec' = [exec EXCEPT ![s] = t] /\ exec'[s] = t
  BY <1>2 DEF Inv, TypeOK
<1> HIDE DEF t
<1>5. Nft(s) \in Nfts /\ exec[s].job[2] \in {"MINT", "ATTACH"}
  BY <1>1, Job DEF Inv
<1>6. /\ seen = "ATTACHED" => Nft(s) \in attached
      /\ p = "follow" => Nft(s) \in minted /\ Good(Nft(s))
  BY <1>2, <1>5 DEF Inv, RowInv, MintedOrLater, MintAlreadyDone, Good
<1>7. ExecInv(s)'
  BY <1>2, <1>3, <1>4, <1>5, <1>6 DEF ExecInv, At, Nft, MintAt, ReadNft
<1>8. ASSUME NEW n \in Nfts
      PROVE  (Carries(s, n, Late)' => Good(n)) /\ ~Carries(s, n, {"done"})'
  <2>1. exec'[s].pc = p /\ exec'[s].job = exec[s].job
    BY <1>3, <1>4
  <2>2. exec[s].job = <<n, "MINT">> => Nft(s) = n
    BY DEF Nft
  <2> QED BY <1>2, <1>6, <2>1, <2>2 DEF Carries, Late
<1> QED BY <1>3, <1>4, <1>7, <1>8, QuietStep DEF ReadNft, Inv, TypeOK

LEMMA ExpireStep ==
    ASSUME Inv, NEW s \in Slots, NEW w \in {"expired", "gone"}, exec[s] # Idle,
           exec' = [exec EXCEPT ![s].watch = w],
           UNCHANGED <<nft, minted, attached, status, retries, claim>>,
           UNCHANGED <<chain, late, minting, calm>>
    PROVE  Inv'
<1> DEFINE t == [exec[s] EXCEPT !.watch = w]
<1>1. /\ t \in Executions /\ t.pc = exec[s].pc /\ t.job = exec[s].job /\ t.seen = exec[s].seen
      /\ t # Idle
  BY Job DEF Inv, Executions, Idle
<1>2. exec' = [exec EXCEPT ![s] = t] /\ exec'[s] = t
  BY DEF Inv, TypeOK
<1> HIDE DEF t
<1>3. ExecInv(s)'
  BY <1>1, <1>2 DEF Inv, ExecInv, At, Nft
<1>4. \A n \in Nfts : /\ Carries(s, n, Late)' => Carries(s, n, Late)
                      /\ Carries(s, n, {"done"})' => Carries(s, n, {"done"})
  BY <1>1, <1>2 DEF Carries, Owns
<1> QED BY <1>1, <1>2, <1>3, <1>4, QuietStep DEF Inv, TypeOK

(* A step of the executions S on the rows of n.  Of other NFTs it may only *)
(* queue the attachment.                                                   *)
LEMMA RowStep ==
    ASSUME Inv, TypeOK', NEW S \in SUBSET Slots, NEW n \in Nfts,
           minted \subseteq minted', attached \subseteq attached', chain \subseteq chain',
           ChainInv',
           \A q \in Slots \ S : exec'[q] = exec[q],
           \A q \in Slots \ S, j \in Jobs :
              status'[j] = "PROCESSING" /\ claim'[j] = q => status[j] = "PROCESSING" /\ claim[j] = q,
           \A j \in Jobs : j[1] # n =>
              /\ retries'[j] = retries[j]
              /\ \/ status'[j] = status[j]
                 \/ j[2] = "ATTACH" /\ status[j] = "NONE" /\ status'[j] = "PENDING",
           \A j \in Jobs : status[j] # "NONE" => status'[j] # "NONE",
           \A m \in Nfts \ {n} : nft'[m] = nft[m],
           \A q \in S : ExecInv(q)' /\ \A m \in Nfts : Carries(q, m, Late)' => m = n,
           \A j \in Jobs : j[1] = n => JobInv(j)',
           RowInv(n)', FollowInv(n)',
           (\A m \in Nfts : Passed(m)' => Passed(m)) \/ (\A c \in Children : SeenInv(c)')
    PROVE  Inv'
<1>1. ASSUME NEW q \in Slots PROVE ExecInv(q)'
  <2>1. CASE q \in S
    BY <2>1
  <2>2. CASE q \notin S
    BY <2>2 DEF Inv, ExecInv, At, Nft
  <2> QED BY <2>1, <2>2
<1>2. ASSUME NEW q \in Slots \ S, NEW m \in Nfts, NEW pcs, Carries(q, m, pcs)'
      PROVE  Carries(q, m, pcs)
  BY <1>2, JobsOf DEF Carries, Owns
<1>3. ASSUME NEW j \in Jobs PROVE JobInv(j)'
  <2>1. CASE j[1] = n
    BY <2>1
  <2>2. CASE j[1] # n
    BY <2>2 DEF Inv, JobInv
  <2> QED BY <2>1, <2>2
<1>4. \A m \in Nfts : Queued(m) => Queued(m)'
  BY JobsOf DEF Queued
<1>5. ASSUME NEW m \in Nfts, m # n
      PROVE  RowInv(m)' /\ FollowInv(m)' /\ (Succeeded(m)' <=> Succeeded(m))
  <2>1. /\ <<m, "MINT">> \in Jobs /\ nft'[m] = nft[m]
        /\ status'[<<m, "MINT">>] = status[<<m, "MINT">>]
    BY <1>5, JobsOf
  <2>2. \A j \in Jobs : j[1] = m /\ status[j] = "FAILED" => status'[j] = "FAILED"
    BY <1>5
  <2>3. RowInv(m)'
    BY <2>1, <2>2 DEF Inv, RowInv
  <2>4. Succeeded(m)' <=> Succeeded(m)
    BY <2>1 DEF Succeeded
  <2>5. \A q \in Slots : Carries(q, m, Late)' => Carries(q, m, Late)
    BY <1>2, <1>5
  <2>6. Good(m) => Good(m)'
    BY <1>4, <2>1 DEF Good
  <2>7. FollowInv(m)'
    BY <2>4, <2>5, <2>6 DEF Inv, FollowInv
  <2> QED BY <2>3, <2>4, <2>7
<1>6. \A m \in Nfts : RowInv(m)' /\ FollowInv(m)'
  BY <1>5
<1>7. \A c \in Children : SeenInv(c)'
  <2>1. CASE \A m \in Nfts : Passed(m)' => Passed(m)
    BY <1>4, <2>1, JobsOf DEF Inv, SeenInv
  <2> QED BY <2>1
<1> QED BY <1>1, <1>3, <1>6, <1>7 DEF Inv

(* Only one execution owns a job.                                          *)
LEMMA OneOwner ==
    ASSUME NEW s \in Slots, NEW q \in Slots, NEW n, NEW pcs,
           Owns(s), exec[s].job = <<n, "MINT">>, Carries(q, n, pcs)
    PROVE  q = s
BY DEF Owns, Carries

LEMMA EnqueueStep ==
    ASSUME Inv, NEW n \in Nfts, Enqueue(n)
    PROVE  Inv'
<1> USE DEF nftVars, jobVars, chainVars, runVars
<1> DEFINE k == <<n, "MINT">>
<1>1. /\ k \in Jobs /\ k[1] = n /\ k[2] = "MINT" /\ status[k] = "NONE" /\ n \in Nfts
      /\ status' = [status EXCEPT ![k] = "PENDING"] /\ nft' = [nft EXCEPT ![n] = "PENDING"]
      /\ nft[n] = "NONE"
  BY JobsOf DEF Enqueue, Inv, RowInv
<1> HIDE DEF k
<1>2. TypeOK' /\ ChainInv'
  BY <1>1 DEF Enqueue, Inv, TypeOK, ChainInv, NftStatuses, JobStatuses
<1>3. /\ \A j \in Jobs : status'[j] = IF j = k THEN "PENDING" ELSE status[j]
      /\ \A m \in Nfts : nft'[m] = IF m = n THEN "PENDING" ELSE nft[m]
  BY <1>1 DEF Inv, TypeOK
<1>4. \A j \in Jobs : JobInv(j)'
  BY <1>1, <1>3 DEF Enqueue, Inv, JobInv
<1>5. RowInv(n)' /\ ~Succeeded(n)'
  BY <1>1, <1>3 DEF RowInv, Succeeded, MintedOrLater, k
<1>6. \A q \in Slots : ~Carries(q, n, Late)' /\ ~Carries(q, n, {"done"})'
  BY <1>1, <1>3 DEF Carries, Owns, k
<1>7. \A m \in Nfts : Passed(m)' => Passed(m)
  <2>1. \A m \in Nfts : Succeeded(m)' => Succeeded(m)
    BY <1>3, JobsOf DEF Succeeded
  <2>2. \A q \in Slots, m \in Nfts : Carries(q, m, {"done"})' => Carries(q, m, {"done"})
    BY <1>3, JobsOf DEF Carries, Owns, Enqueue
  <2> QED BY <2>1, <2>2 DEF Passed
<1>8. FollowInv(n)'
  BY <1>5, <1>6 DEF FollowInv
<1>9. /\ \A q \in Slots, j \in Jobs :
              status'[j] = "PROCESSING" /\ claim'[j] = q => status[j] = "PROCESSING" /\ claim[j] = q
      /\ \A j \in Jobs : j[1] # n => retries'[j] = retries[j] /\ status'[j] = status[j]
      /\ \A j \in Jobs : status[j] # "NONE" => status'[j] # "NONE"
      /\ \A m \in Nfts \ {n} : nft'[m] = nft[m]
      /\ exec' = exec /\ minted' = minted /\ attached' = attached /\ chain' = chain
  BY <1>1, <1>3 DEF Enqueue
<1>10. {} \in SUBSET Slots /\ Slots \ {} = Slots /\ ~(\E q \in {} : TRUE)
  OBVIOUS
<1> QED BY <1>2, <1>4, <1>5, <1>7, <1>8, <1>9, <1>10, RowStep

(* A job that is nobody's any more, or not yet somebody's again.           *)
LEMMA ReleaseStep ==
    ASSUME Inv, TypeOK', NEW j \in Jobs,
           status[j] \in {"PROCESSING", "FAILED"},
           status'[j] \in {"PENDING", "FAILED", "SUCCEEDED"},
           \A k \in Jobs \ {j} : /\ status'[k] = status[k]
                                 /\ retries'[k] = retries[k] /\ claim'[k] = claim[k],
           \A m \in Nfts \ {j[1]} : nft'[m] = nft[m],
           UNCHANGED <<minted, attached, chain>>,
           \A q \in Slots : \/ exec'[q] = exec[q]
                            \/ ExecInv(q)' /\ (exec'[q] = Idle \/ exec'[q].job = j),
           JobInv(j)', RowInv(j[1])',
           nft'[j[1]] = "MINTING" => nft[j[1]] = "MINTING",
           status'[j] = "SUCCEEDED" /\ j[2] = "MINT" =>
              nft'[j[1]] = nft[j[1]] /\ \E s \in Slots : Carries(s, j[1], {"done"})
    PROVE  Inv'
<1> DEFINE n == j[1]
           S == {q \in Slots : exec'[q] # exec[q]}
<1>0. PICK to \in {"PENDING", "FAILED", "SUCCEEDED"} : status'[j] = to
  OBVIOUS
<1>1. /\ n \in Nfts /\ j = <<n, j[2]>> /\ j[2] \in {"MINT", "ATTACH"}
      /\ \A k \in Jobs : status'[k] = IF k = j THEN to ELSE status[k]
      /\ to = "SUCCEEDED" /\ j[2] = "MINT" =>
           nft'[n] = nft[n] /\ \E s \in Slots : Carries(s, n, {"done"})
  BY <1>0, JobsOf
<1>2. \A q \in Slots \ S, k \in Jobs :
         status'[k] = "PROCESSING" /\ claim'[k] = q => status[k] = "PROCESSING" /\ claim[k] = q
  BY <1>1
<1>3. ASSUME NEW q \in S, NEW m \in Nfts, NEW pcs \in {Late, {"done"}} PROVE ~Carries(q, m, pcs)'
  <2>1. CASE exec'[q] = Idle
    BY <2>1 DEF Carries, Idle, Late
  <2>2. CASE exec'[q].job = j
    BY <1>1, <2>2 DEF Carries, Owns
  <2> QED BY <2>1, <2>2
<1>4. ASSUME NEW q \in Slots, NEW m \in Nfts, NEW pcs \in {Late, {"done"}}, Carries(q, m, pcs)'
      PROVE  Carries(q, m, pcs) /\ <<m, "MINT">> # j
  <2>1. q \notin S
    BY <1>3, <1>4
  <2> QED BY <1>1, <1>2, <1>4, <2>1, JobsOf DEF Carries, Owns
<1>5. ASSUME NEW m \in Nfts, Succeeded(m)'
      PROVE  Succeeded(m) \/ (m = n /\ nft'[n] = nft[n] /\ \E s \in Slots : Carries(s, n, {"done"}))
  <2>1. CASE <<m, "MINT">> = j
    BY <1>1, <1>5, <2>1 DEF Succeeded
  <2>2. CASE <<m, "MINT">> # j
    BY <1>1, <1>5, <2>2, JobsOf DEF Succeeded
  <2> QED BY <2>1, <2>2
<1>6. \A m \in Nfts : Passed(m)' => Passed(m)
  BY <1>4, <1>5 DEF Passed
<1>7. \A m \in Nfts : Queued(m) => Queued(m)'
  BY <1>1, JobsOf DEF Queued
<1>8. FollowInv(n)'
  <2> SUFFICES ASSUME Succeeded(n)' \/ \E s \in Slots : Carries(s, n, Late)'
               PROVE  Good(n)'
    BY DEF FollowInv
  <2>1. Succeeded(n) \/ \E s \in Slots : Carries(s, n, Late)
    BY <1>1, <1>4, <1>5 DEF Carries, Late
  <2>2. Good(n)
    BY <1>1, <2>1 DEF Inv, FollowInv
  <2>3. CASE nft'[n] = nft[n]
    BY <1>1, <1>7, <2>2, <2>3 DEF Good
  <2>4. CASE nft'[n] # nft[n]
    <3>1. j[2] = "ATTACH"
      <4>1. CASE j[2] = "MINT"
        <5>1. ~Succeeded(n)'
          BY <1>1, <2>4, <4>1 DEF Succeeded
        <5> QED BY <1>1, <1>4, <4>1, <5>1
      <4> QED BY <1>1, <4>1
    <3>2. Queued(n)'
      BY <1>1, <3>1, JobsOf DEF Queued
    <3> QED BY <1>1, <2>2, <3>2 DEF Good
  <2> QED BY <2>3, <2>4
<1>9. /\ \A k \in Jobs : k[1] # n => retries'[k] = retries[k] /\ status'[k] = status[k]
      /\ \A k \in Jobs : status[k] # "NONE" => status'[k] # "NONE"
      /\ \A m \in Nfts \ {n} : nft'[m] = nft[m]
  BY <1>1
<1>10. ASSUME NEW k \in Jobs, k[1] = n PROVE JobInv(k)'
  <2>1. CASE k # j
    BY <1>1, <2>1 DEF Inv, JobInv
  <2> QED BY <2>1
<1>11. ChainInv'
  BY DEF Inv, ChainInv
<1>12. \A q \in S : ExecInv(q)' /\ \A m \in Nfts : Carries(q, m, Late)' => m = n
  BY <1>3
<1>13. n \in Nfts /\ RowInv(n)'
  BY <1>1
<1> HIDE DEF n
<1> QED BY <1>2, <1>6, <1>8, <1>9, <1>10, <1>11, <1>12, <1>13, RowStep

LEMMA OperatorRetryStep ==
    ASSUME Inv, NEW j \in Jobs, OperatorRetry(j)
    PROVE  Inv'
<1> USE DEF nftVars, jobVars, chainVars, runVars
<1> DEFINE n == j[1]
           v == IF nft[n] = "FAILED" THEN Restored(n) ELSE nft[n]
<1>1. /\ n \in Nfts /\ v \in NftStatuses /\ j = <<n, j[2]>>
      /\ nft' = [nft EXCEPT ![n] = v] /\ status' = [status EXCEPT ![j] = "PENDING"]
  BY JobsOf DEF OperatorRetry, Restored, Inv, TypeOK, NftStatuses
<1>2. /\ v = "MINTING" => nft[n] = "MINTING"
      /\ v # "FAILED"
      /\ v = "NONE" => nft[n] = "NONE"
      /\ v \in MintedOrLater => n \in minted
      /\ v = "ATTACHED" => n \in attached
  BY <1>1 DEF Restored, Inv, RowInv, ChainInv, MintedOrLater
<1>3. TypeOK'
  BY <1>1, NftAssumption DEF OperatorRetry, Inv, TypeOK, JobStatuses
<1>4. /\ nft'[n] = v
      /\ \A k \in Jobs : status'[k] = IF k = j THEN "PENDING" ELSE status[k]
  BY <1>1 DEF Inv, TypeOK
<1>5. JobInv(j)'
  BY <1>4, NftAssumption DEF OperatorRetry, Inv, TypeOK, JobInv
<1>6. RowInv(n)'
  <2>1. status[j] = "FAILED" /\ minted' = minted /\ attached' = attached
    BY DEF OperatorRetry
  <2>2. <<n, "MINT">> \in Jobs /\ RowInv(n)
    BY <1>1, JobsOf DEF Inv
  <2> HIDE DEF v, n
  <2> QED BY <1>2, <1>4, <2>1, <2>2 DEF RowInv
<1> HIDE DEF v
<1>7. /\ \A k \in Jobs \ {j} : retries'[k] = retries[k] /\ claim'[k] = claim[k]
      /\ UNCHANGED <<minted, attached, chain, exec>> /\ status[j] = "FAILED"
  BY DEF OperatorRetry, Inv, TypeOK
<1>8. /\ \A k \in Jobs \ {j} : /\ status'[k] = status[k]
                             /\ retries'[k] = retries[k] /\ claim'[k] = claim[k]
      /\ \A m \in Nfts \ {n} : nft'[m] = nft[m]
      /\ status[j] \in {"PROCESSING", "FAILED"} /\ status'[j] = "PENDING"
      /\ nft'[n] = "MINTING" => nft[n] = "MINTING"
  BY <1>1, <1>2, <1>4, <1>7 DEF Inv, TypeOK
<1> QED BY <1>3, <1>5, <1>6, <1>7, <1>8, ReleaseStep

LEMMA RequeueStaleStep ==
    ASSUME Inv, NEW j \in Jobs, RequeueStale(j)
    PROVE  Inv'
<1> USE DEF nftVars, jobVars, chainVars, runVars
<1> DEFINE n == j[1]
           v == IF nft[n] = "MINTING" THEN "PENDING" ELSE nft[n]
<1>1. /\ n \in Nfts /\ v \in NftStatuses /\ j = <<n, j[2]>>
      /\ nft' = [nft EXCEPT ![n] = v] /\ status' = [status EXCEPT ![j] = "PENDING"]
  BY JobsOf DEF RequeueStale, Inv, TypeOK, NftStatuses
<1>2. v # "MINTING" /\ (v = nft[n] \/ v = "PENDING")
  OBVIOUS
<1>3. TypeOK'
  BY <1>1, NftAssumption DEF RequeueStale, Inv, TypeOK, JobStatuses
<1>4. /\ nft'[n] = v
      /\ \A k \in Jobs : status'[k] = IF k = j THEN "PENDING" ELSE status[k]
  BY <1>1 DEF Inv, TypeOK
<1>5. JobInv(j)'
  BY <1>4 DEF RequeueStale, Inv, JobInv
<1>6. RowInv(n)'
  <2>1. status[j] = "PROCESSING" /\ minted' = minted /\ attached' = attached
    BY DEF RequeueStale
  <2>2. <<n, "MINT">> \in Jobs /\ RowInv(n)
    BY <1>1, JobsOf DEF Inv
  <2> HIDE DEF v, n
  <2> QED BY <1>2, <1>4, <2>1, <2>2 DEF RowInv, MintedOrLater
<1> HIDE DEF v
<1>7. /\ \A k \in Jobs \ {j} : retries'[k] = retries[k] /\ claim'[k] = claim[k]
      /\ UNCHANGED <<minted, attached, chain, exec>> /\ status[j] = "PROCESSING"
  BY DEF RequeueStale, Inv, TypeOK
<1>8. /\ \A k \in Jobs \ {j} : /\ status'[k] = status[k]
                             /\ retries'[k] = retries[k] /\ claim'[k] = claim[k]
      /\ \A m \in Nfts \ {n} : nft'[m] = nft[m]
      /\ status[j] \in {"PROCESSING", "FAILED"} /\ status'[j] = "PENDING"
      /\ nft'[n] = "MINTING" => nft[n] = "MINTING"
  BY <1>1, <1>2, <1>4, <1>7 DEF Inv, TypeOK
<1> QED BY <1>3, <1>5, <1>6, <1>7, <1>8, ReleaseStep

(* An execution that ends, or that nobody waits for any more.              *)
LEMMA Left ==
    ASSUME Inv, NEW s \in Slots, exec[s] # Idle,
           End(s) \/ exec' = [exec EXCEPT ![s].watch = "gone"],
           minted' = minted, attached' = attached, chain' = chain
    PROVE  /\ exec' \in [Slots -> Executions \union {Idle}]
           /\ \A q \in Slots \ {s} : exec'[q] = exec[q]
           /\ ExecInv(s)' /\ (exec'[s] = Idle \/ exec'[s].job = exec[s].job)
<1>1. CASE End(s)
  BY <1>1 DEF End, Inv, TypeOK, ExecInv
<1>2. CASE exec' = [exec EXCEPT ![s].watch = "gone"]
  <2> DEFINE t == [exec[s] EXCEPT !.watch = "gone"]
  <2>1. /\ t \in Executions /\ t.pc = exec[s].pc /\ t.job = exec[s].job /\ t.seen = exec[s].seen
        /\ t # Idle
    BY Job DEF Inv, Executions, Idle
  <2>2. exec' = [exec EXCEPT ![s] = t] /\ exec'[s] = t
    BY <1>2 DEF Inv, TypeOK
  <2> HIDE DEF t
  <2>3. ExecInv(s)'
    BY <2>1, <2>2 DEF Inv, ExecInv, At, Nft
  <2> QED BY <2>1, <2>2, <2>3 DEF Inv, TypeOK
<1> QED BY <1>1, <1>2

(* What a release does to the rows.                                        *)
LEMMA Released ==
    ASSUME Inv, NEW s \in Slots, exec[s] # Idle, Owns(s), NEW to, Release(s, to)
    PROVE  /\ \A k \in Jobs : status'[k] = IF k = exec[s].job THEN to ELSE status[k]
           /\ \A k \in Jobs \ {exec[s].job} : claim'[k] = claim[k]
           /\ to \in JobStatuses => status' \in [Jobs -> JobStatuses]
           /\ claim' \in [Jobs -> Slots \union {NoClaim}]
           /\ status[exec[s].job] = "PROCESSING"
           /\ retries[exec[s].job] \in Nat /\ retries[exec[s].job] < MaxRetry
<1>1. exec[s].job \in Jobs
  BY Job DEF Inv
<1> QED BY <1>1, NftAssumption DEF Release, Owns, Inv, TypeOK, JobInv

LEMMA FailStep ==
    ASSUME Inv, NEW s \in Slots, exec[s] # Idle, Owns(s), RecordFailure(s),
           UNCHANGED <<minted, attached, chainVars, runVars>>,
           End(s) \/ exec' = [exec EXCEPT ![s].watch = "gone"]
    PROVE  Inv'
<1> USE DEF chainVars, runVars
<1>0. PICK j \in Jobs : exec[s].job = j
  BY Job DEF Inv
<1> DEFINE n == j[1]
           to == IF Exhausted(j) THEN "FAILED" ELSE "PENDING"
           v == IF Exhausted(j) THEN FailedNft(n) ELSE nft[n]
<1>1. /\ j \in Jobs /\ n \in Nfts /\ j = <<n, j[2]>> /\ <<n, "MINT">> \in Jobs
      /\ j[2] \in {"MINT", "ATTACH"}
  BY JobsOf
<1>2. /\ v \in NftStatuses /\ nft' = [nft EXCEPT ![n] = v] /\ nft' \in [Nfts -> NftStatuses]
      /\ Release(s, to)
  BY <1>0, <1>1 DEF RecordFailure, FailedNft, Inv, TypeOK, NftStatuses
<1>3. /\ \A k \in Jobs : status'[k] = IF k = j THEN to ELSE status[k]
      /\ \A k \in Jobs \ {j} : claim'[k] = claim[k]
      /\ status' \in [Jobs -> JobStatuses] /\ claim' \in [Jobs -> Slots \union {NoClaim}]
      /\ status[j] = "PROCESSING" /\ retries[j] \in Nat /\ retries[j] < MaxRetry
  BY <1>0, <1>2, Released DEF JobStatuses
<1>4. /\ retries' \in [Jobs -> 0 .. MaxRetry]
      /\ \A k \in Jobs : retries'[k] = IF k = j THEN retries[j] + 1 ELSE retries[k]
  BY <1>0, <1>1, <1>3, NftAssumption DEF RecordFailure, Inv, TypeOK
<1>5. /\ exec' \in [Slots -> Executions \union {Idle}]
      /\ \A q \in Slots \ {s} : exec'[q] = exec[q]
      /\ ExecInv(s)' /\ (exec'[s] = Idle \/ exec'[s].job = j)
  BY <1>0, Left
<1>6. TypeOK'
  BY <1>2, <1>3, <1>4, <1>5 DEF Inv, TypeOK
<1>7. JobInv(j)'
  BY <1>1, <1>3, <1>4, NftAssumption DEF JobInv, Exhausted
<1>8. v = nft[n] \/ (v = "FAILED" /\ to = "FAILED")
  BY DEF FailedNft
<1>9. v = "MINTING" /\ n \notin attached => to = "PENDING"
  BY DEF FailedNft
<1>10. nft'[n] = v /\ RowInv(n)
  BY <1>1, <1>2 DEF Inv, TypeOK
<1>11. status' = [status EXCEPT ![j] = to] /\ to \in {"PENDING", "FAILED", "SUCCEEDED"}
  BY <1>0, <1>2 DEF Release
<1> HIDE DEF v, to, n
<1>12. RowInv(n)'
  <2>1. CASE v = "FAILED" /\ to = "FAILED"
    BY <1>1, <1>3, <1>10, <2>1 DEF RowInv, MintedOrLater
  <2>2. CASE v = nft[n]
    <3>1. nft'[n] = "FAILED" => \E k \in Jobs : k[1] = n /\ status'[k] = "FAILED"
      BY <1>3, <1>10, <2>2 DEF RowInv
    <3>2. nft'[n] = "MINTING" /\ n \notin attached'
            => status'[<<n, "MINT">>] \in {"PENDING", "PROCESSING"}
      BY <1>1, <1>3, <1>9, <1>10, <2>2 DEF RowInv
    <3>3. nft'[n] = "NONE" => status'[<<n, "MINT">>] = "NONE"
      <4>1. CASE j = <<n, "MINT">>
        BY <1>3, <1>10, <2>2, <4>1 DEF RowInv
      <4>2. CASE j # <<n, "MINT">>
        BY <1>1, <1>3, <1>10, <2>2, <4>2 DEF RowInv
      <4> QED BY <4>1, <4>2
    <3> QED BY <1>10, <2>2, <3>1, <3>2, <3>3 DEF RowInv
  <2> QED BY <1>8, <2>1, <2>2
<1>13. /\ \A k \in Jobs \ {j} : /\ status'[k] = status[k]
                              /\ retries'[k] = retries[k] /\ claim'[k] = claim[k]
       /\ \A m \in Nfts \ {n} : nft'[m] = nft[m]
       /\ status[j] \in {"PROCESSING", "FAILED"}
       /\ status'[j] \in {"PENDING", "FAILED"}
       /\ nft'[n] = "MINTING" => nft[n] = "MINTING"
  BY <1>2, <1>3, <1>4, <1>8, <1>10 DEF Inv, TypeOK, to
<1>14. ASSUME NEW q \in Slots, exec'[q] # exec[q]
       PROVE  ExecInv(q)' /\ (exec'[q] = Idle \/ exec'[q].job = j)
  <2>1. q = s
    BY <1>5, <1>14
  <2> QED BY <1>5, <2>1
<1> USE DEF n
<1> QED BY <1>6, <1>7, <1>12, <1>13, <1>14, ReleaseStep

(* The job goes back to the queue, or is done with; no attempt is counted. *)
LEMMA HandBackStep ==
    ASSUME Inv, NEW s \in Slots, exec[s] # Idle, Owns(s), End(s),
           NEW to \in {"PENDING", "SUCCEEDED"}, NEW v \in NftStatuses, Release(s, to),
           v = nft[Nft(s)] \/ (to = "PENDING" /\ v = "PENDING" /\ nft[Nft(s)] = "MINTING"),
           to = "SUCCEEDED" => At(s, "done"),
           nft' = [nft EXCEPT ![Nft(s)] = v],
           UNCHANGED <<minted, attached, retries, chainVars, runVars>>
    PROVE  Inv'
<1> USE DEF chainVars, runVars
<1>0. PICK j \in Jobs : exec[s].job = j
  BY Job DEF Inv
<1> DEFINE n == j[1]
<1>1. /\ n \in Nfts /\ j = <<n, j[2]>> /\ <<n, "MINT">> \in Jobs /\ Nft(s) = n
      /\ j[2] \in {"MINT", "ATTACH"}
  BY <1>0, JobsOf DEF Nft
<1>2. nft' = [nft EXCEPT ![n] = v] /\ nft' \in [Nfts -> NftStatuses] /\ nft'[n] = v
  BY <1>1 DEF Inv, TypeOK
<1>3. /\ \A k \in Jobs : status'[k] = IF k = j THEN to ELSE status[k]
      /\ \A k \in Jobs \ {j} : claim'[k] = claim[k]
      /\ status' \in [Jobs -> JobStatuses] /\ claim' \in [Jobs -> Slots \union {NoClaim}]
      /\ status[j] = "PROCESSING" /\ retries[j] < MaxRetry
      /\ status' = [status EXCEPT ![j] = to]
  BY <1>0, Released DEF JobStatuses, Release
<1>4. /\ exec' \in [Slots -> Executions \union {Idle}]
      /\ \A q \in Slots \ {s} : exec'[q] = exec[q]
      /\ \A q \in {s} : ExecInv(q)' /\ (exec'[q] = Idle \/ exec'[q].job = j)
  BY <1>0, Left
<1>5. TypeOK'
  BY <1>2, <1>3, <1>4 DEF Inv, TypeOK
<1>6. to = "SUCCEEDED" => /\ v = nft[n]
                          /\ IF j[2] = "MINT" THEN n \in minted ELSE n \in attached
  BY <1>0, <1>1 DEF Inv, ExecInv, At
<1>7. to = "SUCCEEDED" /\ j[2] = "MINT" =>
        v = nft[n] /\ Carries(s, n, {"done"}) /\ Good(n)
  BY <1>0, <1>1, <1>6 DEF Carries, At, Inv, FollowInv, Late
<1>8. JobInv(j)'
  BY <1>3, <1>6 DEF JobInv
<1>9. RowInv(n)'
  <2>1. RowInv(n)
    BY <1>1 DEF Inv
  <2>2. CASE to = "PENDING" /\ v = "PENDING"
    BY <1>2, <2>2 DEF RowInv, MintedOrLater
  <2>3. CASE v = nft[n]
    <3>1. nft'[n] = "FAILED" => \E k \in Jobs : k[1] = n /\ status'[k] = "FAILED"
      BY <1>2, <1>3, <2>1, <2>3 DEF RowInv
    <3>2. nft'[n] = "MINTING" /\ n \notin attached'
            => status'[<<n, "MINT">>] \in {"PENDING", "PROCESSING"}
      <4>1. CASE j = <<n, "MINT">>
        BY <1>2, <1>3, <1>7, <2>3, <4>1 DEF Good
      <4>2. CASE j # <<n, "MINT">>
        BY <1>1, <1>2, <1>3, <2>1, <2>3, <4>2 DEF RowInv
      <4> QED BY <4>1, <4>2
    <3>3. nft'[n] = "NONE" => status'[<<n, "MINT">>] = "NONE"
      BY <1>1, <1>2, <1>3, <2>1, <2>3 DEF RowInv
    <3> QED BY <1>2, <2>1, <2>3, <3>1, <3>2, <3>3 DEF RowInv
  <2> QED BY <1>1, <2>2, <2>3
<1>10. /\ \A k \in Jobs \ {j} : /\ status'[k] = status[k]
                              /\ retries'[k] = retries[k] /\ claim'[k] = claim[k]
       /\ \A m \in Nfts \ {n} : nft'[m] = nft[m]
       /\ status[j] \in {"PROCESSING", "FAILED"} /\ status'[j] = to
       /\ nft'[n] = "MINTING" => nft[n] = "MINTING"
  BY <1>1, <1>2, <1>3 DEF Inv, TypeOK
<1>11. ASSUME NEW q \in Slots, exec'[q] # exec[q]
       PROVE  ExecInv(q)' /\ (exec'[q] = Idle \/ exec'[q].job = j)
  <2>1. q = s
    BY <1>4, <1>11
  <2> QED BY <1>4, <2>1
<1>12. to = "SUCCEEDED" /\ j[2] = "MINT" =>
           nft'[n] = nft[n] /\ \E q \in Slots : Carries(q, n, {"done"})
  BY <1>2, <1>7
<1> QED BY <1>5, <1>8, <1>9, <1>10, <1>11, <1>12, ReleaseStep

LEMMA FinishStep ==
    ASSUME Inv, NEW s \in Slots, Finish(s)
    PROVE  Inv'
<1> USE DEF nftVars, jobVars
<1>1. exec[s] # Idle /\ End(s) /\ UNCHANGED <<chainVars, runVars>> /\ exec[s].pc \in OutcomeAt
  BY NotIdle DEF Finish, Inv, OutcomeAt
<1>2. Nft(s) \in Nfts /\ nft[Nft(s)] \in NftStatuses /\ nft = [nft EXCEPT ![Nft(s)] = nft[Nft(s)]]
  <2>1. Nft(s) \in Nfts /\ nft \in [Nfts -> NftStatuses]
    BY <1>1, Job DEF Inv, TypeOK
  <2> QED BY <2>1
<1>3. CASE ~Owns(s)
  BY <1>1, <1>3, EndStep DEF Finish, chainVars, runVars, Inv, TypeOK
<1>4. CASE Owns(s) /\ At(s, "error")
  BY <1>1, <1>4, FailStep DEF Finish, At
<1>5. CASE Owns(s) /\ At(s, "paused")
  <2>1. PICK v \in NftStatuses :
          /\ nft' = [nft EXCEPT ![Nft(s)] = v]
          /\ v = nft[Nft(s)] \/ (v = "PENDING" /\ nft[Nft(s)] = "MINTING")
    <3>1. nft' = [nft EXCEPT ![Nft(s)] =
                    IF nft[Nft(s)] = "MINTING" /\ Nft(s) \notin minted THEN "PENDING"
                    ELSE nft[Nft(s)]]
      BY <1>5 DEF Finish, At
    <3> QED BY <1>2, <3>1 DEF NftStatuses
  <2>2. Release(s, "PENDING") /\ UNCHANGED <<minted, attached, retries>>
    BY <1>5 DEF Finish, At
  <2> QED BY <1>1, <1>5, <2>1, <2>2, HandBackStep
<1>6. CASE Owns(s) /\ ~At(s, "error") /\ ~At(s, "paused")
  <2>1. /\ Release(s, StatusAfter(exec[s].pc)) /\ UNCHANGED <<nft, minted, attached, retries>>
        /\ exec[s].pc \in {"done", "deferred"}
    BY <1>1, <1>6 DEF Finish, At, OutcomeAt
  <2>2. PICK to \in {"PENDING", "SUCCEEDED"} :
          Release(s, to) /\ (to = "SUCCEEDED" => At(s, "done"))
    BY <2>1 DEF StatusAfter, At
  <2>3. PICK v \in NftStatuses : v = nft[Nft(s)] /\ nft' = [nft EXCEPT ![Nft(s)] = v]
    BY <1>2, <2>1
  <2> QED BY <1>1, <1>6, <2>1, <2>2, <2>3, HandBackStep
<1> QED BY <1>3, <1>4, <1>5, <1>6

LEMMA ReleaseUnstartedStep ==
    ASSUME Inv, NEW s \in Slots, ReleaseUnstarted(s)
    PROVE  Inv'
<1>1. exec[s] # Idle /\ Owns(s) /\ End(s) /\ Release(s, "PENDING")
  BY NotIdle DEF ReleaseUnstarted, At, Inv
<1>2. UNCHANGED <<nft, minted, attached, retries, chainVars, runVars>>
  BY DEF ReleaseUnstarted, nftVars
<1>3. PICK v \in NftStatuses : v = nft[Nft(s)] /\ nft' = [nft EXCEPT ![Nft(s)] = v]
  BY <1>1, <1>2, Job DEF Inv, TypeOK
<1> QED BY <1>1, <1>2, <1>3, HandBackStep

LEMMA RecordExpiryStep ==
    ASSUME Inv, NEW s \in Slots, RecordExpiry(s)
    PROVE  Inv'
<1> USE DEF nftVars, jobVars
<1>1. /\ exec[s] # Idle /\ UNCHANGED <<chainVars, runVars>>
      /\ End(s) \/ exec' = [exec EXCEPT ![s].watch = "gone"]
  BY DEF RecordExpiry
<1>2. CASE Owns(s)
  BY <1>1, <1>2, FailStep DEF RecordExpiry
<1>3. CASE ~Owns(s)
  <2>1. UNCHANGED <<nft, minted, attached, status, retries, claim, chain, late, minting, calm>>
    BY <1>1, <1>3 DEF RecordExpiry, chainVars, runVars
  <2>2. CASE End(s)
    BY <2>1, <2>2, EndStep DEF Inv, TypeOK
  <2>3. CASE exec' = [exec EXCEPT ![s].watch = "gone"]
    BY <1>1, <2>1, <2>3, ExpireStep
  <2> QED BY <1>1, <2>2, <2>3
<1> QED BY <1>2, <1>3

(* An execution that has come to p, having changed rows.                   *)
LEMMA Came ==
    ASSUME Inv, NEW s \in Slots, NEW p \in RunningAt \union OutcomeAt, exec[s] # Idle, Goto(s, p),
           minted \subseteq minted', attached \subseteq attached', chain \subseteq chain',
           p \in MintAt => exec[s].job[2] = "MINT",
           p \notin {"attach", "deferred", "record"},
           p \in {"follow", "queue"} => Nft(s) \in minted',
           p = "queue" => Nft(s) \in Children,
           p = "done" => IF exec[s].job[2] = "MINT" THEN Nft(s) \in minted' ELSE Nft(s) \in attached'
    PROVE  /\ exec' \in [Slots -> Executions \union {Idle}]
           /\ \A q \in Slots \ {s} : exec'[q] = exec[q]
           /\ ExecInv(s)'
           /\ exec'[s] = Idle \/ (exec'[s].job = exec[s].job /\ exec'[s].pc = p)
<1>1. CASE End(s)
  BY <1>1 DEF End, Inv, TypeOK, ExecInv
<1>2. CASE exec' = [exec EXCEPT ![s].pc = p]
  <2> DEFINE t == [exec[s] EXCEPT !.pc = p]
  <2>1. /\ t \in Executions /\ t.pc = p /\ t.job = exec[s].job /\ t.seen = exec[s].seen
        /\ t # Idle
    BY Job DEF Inv, Executions, Idle, RunningAt, OutcomeAt
  <2>2. exec' = [exec EXCEPT ![s] = t] /\ exec'[s] = t
    BY <1>2 DEF Inv, TypeOK
  <2> HIDE DEF t
  <2>3. ExecInv(s)'
    BY <2>1, <2>2 DEF Inv, ExecInv, At, Nft
  <2> QED BY <2>1, <2>2, <2>3 DEF Inv, TypeOK
<1> QED BY <1>1, <1>2 DEF Goto

(* An execution writes what it has achieved into the row of its NFT.       *)
LEMMA WriteStep ==
    ASSUME Inv, NEW s \in Slots, exec[s] # Idle, Owns(s),
           NEW p \in {"exists", "follow", "done"}, Goto(s, p),
           NEW v \in NftStatuses \ {"NONE", "FAILED"}, nft' = [nft EXCEPT ![Nft(s)] = v],
           minted \subseteq minted', minted' \subseteq minted \union {Nft(s)}, minted' \subseteq chain,
           attached \subseteq attached', attached' \subseteq attached \union {Nft(s)},
           attached' \subseteq minted', attached' \subseteq Children,
           UNCHANGED <<jobVars, chainVars, runVars>>,
           p \in {"exists", "follow"} => exec[s].job[2] = "MINT",
           p = "follow" => v = "MINTED",
           p = "done" => exec[s].job[2] = "ATTACH" /\ Nft(s) \in attached',
           v \in MintedOrLater => Nft(s) \in minted',
           v = "ATTACHED" => Nft(s) \in attached',
           v = "MINTING" => p = "exists"
    PROVE  Inv'
<1> USE DEF jobVars, chainVars, runVars
<1>0. PICK n \in Nfts : n = Nft(s)
  BY Job DEF Inv
<1>1. PICK j \in Jobs : exec[s].job = j
  BY Job DEF Inv
<1>2. j = <<n, j[2]>> /\ j[2] \in {"MINT", "ATTACH"} /\ <<n, "MINT">> \in Jobs
  BY <1>0, <1>1, JobsOf DEF Nft
<1>3. /\ exec' \in [Slots -> Executions \union {Idle}]
      /\ \A q \in Slots \ {s} : exec'[q] = exec[q]
      /\ ExecInv(s)'
      /\ exec'[s] = Idle \/ (exec'[s].job = j /\ exec'[s].pc = p)
  <2>1. /\ p \in RunningAt \union OutcomeAt /\ p \notin {"attach", "deferred", "record", "queue"}
        /\ p = "follow" => Nft(s) \in minted'
    BY DEF RunningAt, OutcomeAt, MintedOrLater
  <2>2. p \in MintAt => exec[s].job[2] = "MINT"
    BY DEF MintAt
  <2> QED BY <1>1, <2>1, <2>2, Came
<1>4. /\ nft' \in [Nfts -> NftStatuses]
      /\ \A m \in Nfts : nft'[m] = IF m = n THEN v ELSE nft[m]
  BY <1>0 DEF Inv, TypeOK
<1>5. TypeOK' /\ ChainInv'
  BY <1>0, <1>3, <1>4 DEF Inv, TypeOK, ChainInv
<1>6. \A k \in Jobs : JobInv(k)'
  BY DEF Inv, JobInv
<1>7. status[j] = "PROCESSING" /\ claim[j] = s
  BY <1>1 DEF Owns
<1>8. RowInv(n)'
  <2>1. v = "MINTING" => status[<<n, "MINT">>] = "PROCESSING"
    BY <1>1, <1>2, <1>7
  <2> QED BY <1>0, <1>4, <2>1 DEF RowInv
<1>9. \A m \in Nfts : /\ Queued(m)' <=> Queued(m)
                      /\ Succeeded(m)' <=> Succeeded(m)
  BY DEF Queued, Succeeded
<1>10. ASSUME NEW q \in Slots \ {s}, NEW m \in Nfts, NEW pcs
       PROVE  Carries(q, m, pcs)' <=> Carries(q, m, pcs)
  BY <1>3 DEF Carries, Owns
<1>11. ASSUME NEW m \in Nfts, NEW pcs \in {Late, {"done"}}, Carries(s, m, pcs)'
       PROVE  m = n /\ p = "follow" /\ pcs = Late /\ j[2] = "MINT"
  <2>1. exec'[s].pc # "idle"
    BY <1>11 DEF Carries, Late
  <2>2. exec'[s] # Idle
    BY <2>1 DEF Idle
  <2>3. exec'[s].job = j /\ exec'[s].pc = p
    BY <1>3, <2>2
  <2>4. j = <<m, "MINT">> /\ p \in pcs
    BY <1>11, <2>3 DEF Carries
  <2> QED BY <1>1, <1>2, <2>4 DEF Late
<1>12. FollowInv(n)'
  <2> SUFFICES ASSUME Succeeded(n)' \/ \E q \in Slots : Carries(q, n, Late)'
               PROVE  Good(n)'
    BY DEF FollowInv
  <2>1. CASE p = "follow"
    BY <1>4, <2>1 DEF Good
  <2>2. CASE p = "done"
    BY <1>0, <1>4, <2>2 DEF Good
  <2>3. CASE p = "exists"
    <3>1. j = <<n, "MINT">>
      BY <1>1, <1>2, <2>3
    <3>2. ~Succeeded(n)'
      BY <1>7, <3>1 DEF Succeeded
    <3>3. \A q \in Slots \ {s} : ~Carries(q, n, Late)
      BY <1>1, <3>1, OneOwner
    <3>4. ~Carries(s, n, Late)'
      BY <1>11, <2>3
    <3> QED BY <1>10, <3>2, <3>3, <3>4
  <2> QED BY <2>1, <2>2, <2>3
<1>13. \A m \in Nfts : Passed(m)' => Passed(m)
  <2>1. ASSUME NEW m \in Nfts, NEW q \in Slots, Carries(q, m, {"done"})' PROVE Carries(q, m, {"done"})
    <3>1. q # s
      BY <1>11, <2>1 DEF Late
    <3> QED BY <1>10, <2>1, <3>1
  <2> QED BY <1>9, <2>1 DEF Passed
<1>14. \A q \in {s} : ExecInv(q)' /\ \A m \in Nfts : Carries(q, m, Late)' => m = n
  BY <1>3, <1>11
<1>15. {s} \in SUBSET Slots /\ \A m \in Nfts \ {n} : nft'[m] = nft[m]
  BY <1>4
<1>16. /\ \A q \in Slots \ {s}, k \in Jobs :
             status'[k] = "PROCESSING" /\ claim'[k] = q => status[k] = "PROCESSING" /\ claim[k] = q
       /\ \A k \in Jobs : k[1] # n => retries'[k] = retries[k] /\ status'[k] = status[k]
       /\ \A k \in Jobs : status[k] # "NONE" => status'[k] # "NONE"
       /\ \A q \in Slots \ {s} : exec'[q] = exec[q]
       /\ chain \subseteq chain'
  BY <1>3
<1> QED BY <1>5, <1>6, <1>8, <1>12, <1>13, <1>14, <1>15, <1>16, RowStep

LEMMA WritingActions ==
    ASSUME Inv, NEW s \in Slots, MarkMinting(s) \/ RecordMinted(s) \/ Attach(s)
    PROVE  Inv'
<1> USE DEF jobVars
<1>1. CASE MarkMinting(s)
  <2>1. exec[s] # Idle /\ exec[s].job[2] = "MINT"
    BY <1>1, NotIdle DEF MarkMinting, At, Inv, ExecInv, MintAt
  <2>2. "MINTING" \in NftStatuses \ {"NONE", "FAILED"}
    BY DEF NftStatuses
  <2> QED BY <1>1, <2>1, <2>2, WriteStep
          DEF MarkMinting, MintedOrLater, Inv, TypeOK, ChainInv
<1>2. CASE RecordMinted(s)
  <2>1. exec[s] # Idle /\ exec[s].job[2] = "MINT" /\ Nft(s) \in chain
    BY <1>2, NotIdle DEF RecordMinted, At, Inv, ExecInv, MintAt
  <2>2. "MINTED" \in NftStatuses \ {"NONE", "FAILED"}
    BY DEF NftStatuses
  <2>3. /\ minted \subseteq minted' /\ minted' \subseteq minted \union {Nft(s)} /\ minted' \subseteq chain
        /\ attached' = attached /\ attached \subseteq minted' /\ attached \subseteq Children
        /\ Nft(s) \in minted'
    BY <1>2, <2>1 DEF RecordMinted, Inv, TypeOK, ChainInv
  <2> QED BY <1>2, <2>1, <2>2, <2>3, WriteStep DEF RecordMinted
<1>3. CASE Attach(s)
  <2>1. exec[s] # Idle /\ exec[s].job[2] = "ATTACH"
    BY <1>3, NotIdle DEF Attach, At, Inv, ExecInv
  <2>2. "ATTACHED" \in NftStatuses \ {"NONE", "FAILED"}
    BY DEF NftStatuses
  <2>3. Nft(s) \in Children /\ Nft(s) \in Nfts
    BY <2>1, Job DEF Inv
  <2>4. Nft(s) \in minted
    BY <1>3, <2>3 DEF Attach, Attachable, MintedOrLater, Inv, RowInv
  <2>5. /\ minted' = minted /\ minted \subseteq chain
        /\ attached \subseteq attached' /\ attached' \subseteq attached \union {Nft(s)}
        /\ attached' \subseteq minted' /\ attached' \subseteq Children /\ Nft(s) \in attached'
    BY <1>3, <2>3, <2>4 DEF Attach, Inv, TypeOK, ChainInv
  <2> QED BY <1>3, <2>1, <2>2, <2>4, <2>5, WriteStep DEF Attach
<1> QED BY <1>1, <1>2, <1>3

(* The execution that has minted an NFT queues attachments.                *)
LEMMA QueueStep ==
    ASSUME Inv, NEW s \in Slots, exec[s].pc \in {"follow", "queue"}, Owns(s), Goto(s, "done"),
           status' \in [Jobs -> JobStatuses],
           \A k \in Jobs : \/ status'[k] = status[k]
                           \/ k[2] = "ATTACH" /\ status[k] = "NONE" /\ status'[k] = "PENDING",
           \A c \in Children : SeenInv(c)',
           UNCHANGED <<nftVars, retries, claim, chainVars, runVars>>
    PROVE  Inv'
<1> USE DEF nftVars, chainVars, runVars
<1>1. exec[s] # Idle /\ exec[s].job[2] = "MINT" /\ Nft(s) \in minted
  BY NotIdle DEF Inv, ExecInv, MintAt
<1>2. PICK n \in Nfts : n = Nft(s) /\ exec[s].job = <<n, "MINT">>
  BY <1>1, Job DEF Inv
<1>3. /\ exec' \in [Slots -> Executions \union {Idle}]
      /\ \A q \in Slots \ {s} : exec'[q] = exec[q]
      /\ ExecInv(s)'
      /\ exec'[s] = Idle \/ exec'[s].job = exec[s].job
  BY <1>1, Came DEF MintAt, OutcomeAt
<1>4. TypeOK' /\ ChainInv'
  BY <1>3 DEF Inv, TypeOK, ChainInv
<1>5. \A k \in Jobs : JobInv(k)'
  BY DEF Inv, JobInv
<1>6. <<n, "MINT">> \in Jobs /\ status'[<<n, "MINT">>] = status[<<n, "MINT">>]
  BY JobsOf
<1>7. RowInv(n)'
  <2>1. \A k \in Jobs : status[k] = "FAILED" => status'[k] = "FAILED"
    OBVIOUS
  <2> QED BY <1>6, <2>1 DEF Inv, RowInv
<1>8. FollowInv(n)'
  <2>1. Carries(s, n, Late)
    BY <1>2 DEF Carries, Late
  <2>2. Good(n)
    BY <2>1 DEF Inv, FollowInv
  <2>3. Queued(n) => Queued(n)'
    BY JobsOf DEF Queued
  <2> QED BY <2>2, <2>3 DEF Good, FollowInv
<1>9. \A q \in {s} : ExecInv(q)' /\ \A m \in Nfts : Carries(q, m, Late)' => m = n
  <2>1. ASSUME NEW m \in Nfts, Carries(s, m, Late)' PROVE m = n
    <3>1. exec'[s] # Idle
      BY <2>1 DEF Carries, Late, Idle
    <3> QED BY <1>2, <1>3, <2>1, <3>1 DEF Carries
  <2> QED BY <1>3, <2>1
<1>10. {s} \in SUBSET Slots
  OBVIOUS
<1>11. /\ \A q \in Slots \ {s}, j \in Jobs :
            status'[j] = "PROCESSING" /\ claim'[j] = q => status[j] = "PROCESSING" /\ claim[j] = q
       /\ \A j \in Jobs : j[1] # n =>
            /\ retries'[j] = retries[j]
            /\ \/ status'[j] = status[j]
               \/ j[2] = "ATTACH" /\ status[j] = "NONE" /\ status'[j] = "PENDING"
       /\ \A j \in Jobs : status[j] # "NONE" => status'[j] # "NONE"
       /\ UNCHANGED <<nft, minted, attached, chain>>
  OBVIOUS
<1> QED BY <1>3, <1>4, <1>5, <1>7, <1>8, <1>9, <1>10, <1>11, RowStep

LEMMA QueueWaitingChildrenStep ==
    ASSUME Inv, NEW s \in Slots, QueueWaitingChildren(s)
    PROVE  Inv'
<1>1. /\ At(s, "follow") /\ Owns(s) /\ Nft(s) = Parent /\ Goto(s, "done")
      /\ UNCHANGED <<nftVars, retries, claim, chainVars, runVars>>
      /\ status' = [j \in Jobs |->
                      IF j[2] = "ATTACH" /\ status[j] = "NONE" /\ nft[j[1]] = "MINTED"
                      THEN "PENDING" ELSE status[j]]
  BY DEF QueueWaitingChildren
<1>2. status' \in [Jobs -> JobStatuses]
  BY <1>1 DEF Inv, TypeOK, JobStatuses
<1>3. ASSUME NEW c \in Children, Passed(c)' PROVE Queued(c)' \/ c \in attached'
  <2>1. c \in Nfts /\ c # Parent /\ <<c, "ATTACH">> \in Jobs /\ <<c, "MINT">> \in Jobs
    BY JobsOf, NftAssumption
  <2>2. exec[s].job[1] = Parent /\ exec[s] # Idle
    BY <1>1, NotIdle DEF Nft, At, Inv
  <2>3. exec'[s] = Idle \/ exec'[s].job[1] = Parent
    <3>1. exec[s] \in Executions
      BY <2>2, Job DEF Inv
    <3>2. CASE End(s)
      BY <3>2 DEF End, Inv, TypeOK
    <3>3. CASE exec' = [exec EXCEPT ![s].pc = "done"]
      BY <2>2, <3>1, <3>3 DEF Executions, Inv, TypeOK
    <3> QED BY <1>1, <3>2, <3>3 DEF Goto
  <2>4. \A q \in Slots \ {s} : exec'[q] = exec[q]
    BY <1>1 DEF Goto, End, Inv, TypeOK
  <2>5. ~Carries(s, c, {"done"})'
    BY <2>1, <2>3 DEF Carries, Idle
  <2>6. \A q \in Slots \ {s} : Carries(q, c, {"done"})' => Carries(q, c, Late)
    BY <1>1, <2>1, <2>4 DEF Carries, Owns, Late
  <2>7. Succeeded(c)' => Succeeded(c)
    BY <1>1, <2>1 DEF Succeeded
  <2>8. Succeeded(c) \/ \E q \in Slots : Carries(q, c, Late)
    BY <1>3, <2>5, <2>6, <2>7 DEF Passed
  <2>9. Good(c)
    BY <2>1, <2>8 DEF Inv, FollowInv
  <2> QED BY <1>1, <2>1, <2>9 DEF Good, Queued, nftVars
<1>4. \A c \in Children : SeenInv(c)'
  BY <1>3 DEF SeenInv
<1> QED BY <1>1, <1>2, <1>4, QueueStep DEF At

LEMMA QueueAttachStep ==
    ASSUME Inv, NEW s \in Slots, QueueAttach(s)
    PROVE  Inv'
<1>1. /\ At(s, "queue") /\ Owns(s) /\ Goto(s, "done")
      /\ UNCHANGED <<nftVars, retries, claim, chainVars, runVars>>
  BY DEF QueueAttach
<1>2. exec[s] # Idle /\ exec[s].job[2] = "MINT" /\ Nft(s) \in Children
  BY <1>1, NotIdle DEF At, Inv, ExecInv, MintAt
<1>3. PICK n \in Children : n = Nft(s) /\ exec[s].job = <<n, "MINT">>
  BY <1>2, Job DEF Inv
<1>4. PICK k \in Jobs : k = <<n, "ATTACH">>
  BY JobsOf
<1>5. status' = [status EXCEPT ![k] = IF @ = "NONE" THEN "PENDING" ELSE @]
  BY <1>3, <1>4 DEF QueueAttach
<1>6. /\ status' \in [Jobs -> JobStatuses]
      /\ \A j \in Jobs : status'[j] = IF j = k /\ status[k] = "NONE" THEN "PENDING" ELSE status[j]
      /\ Queued(n)'
  BY <1>4, <1>5 DEF Inv, TypeOK, JobStatuses, Queued
<1>7. \A q \in Slots \ {s} : exec'[q] = exec[q]
  BY <1>1 DEF Goto, End, Inv, TypeOK
<1>8. exec'[s] = Idle \/ exec'[s].job = exec[s].job
  <2>1. exec[s] \in Executions
    BY <1>2, Job DEF Inv
  <2>2. CASE End(s)
    BY <2>2 DEF End, Inv, TypeOK
  <2>3. CASE exec' = [exec EXCEPT ![s].pc = "done"]
    BY <2>1, <2>3 DEF Executions, Inv, TypeOK
  <2> QED BY <1>1, <2>2, <2>3 DEF Goto
<1>9. ASSUME NEW m \in Nfts, m # n, Passed(m)' PROVE Passed(m)
  <2>1. ~Carries(s, m, {"done"})'
    BY <1>3, <1>8, <1>9 DEF Carries, Idle
  <2>2. <<m, "MINT">> \in Jobs /\ <<m, "MINT">> # k
    BY <1>4, JobsOf
  <2>3. \A q \in Slots \ {s} : Carries(q, m, {"done"})' => Carries(q, m, {"done"})
    BY <1>1, <1>6, <1>7, <2>2 DEF Carries, Owns
  <2>4. Succeeded(m)' => Succeeded(m)
    BY <1>6, <2>2 DEF Succeeded
  <2> QED BY <1>9, <2>1, <2>3, <2>4 DEF Passed
<1>10. ASSUME NEW c \in Children PROVE SeenInv(c)'
  <2>1. CASE c = n
    BY <1>6, <2>1 DEF SeenInv
  <2>2. CASE c # n
    <3>1. Queued(c) => Queued(c)'
      BY <1>6, JobsOf DEF Queued
    <3>2. c \in Nfts /\ Parent \in Nfts /\ Parent # n
      BY JobsOf, NftAssumption
    <3> QED BY <1>1, <1>9, <2>2, <3>1, <3>2 DEF Inv, SeenInv, nftVars
  <2> QED BY <2>1, <2>2
<1> QED BY <1>1, <1>4, <1>6, <1>10, QueueStep DEF At

LEMMA ClaimStep ==
    ASSUME Inv, NEW s \in Slots, NEW j \in Jobs, Claim(s, j)
    PROVE  Inv'
<1> USE DEF nftVars, chainVars, runVars
<1> DEFINE n == j[1]
           t == [pc |-> "claimed", job |-> j, seen |-> "NONE", watch |-> "waiting"]
<1>1. n \in Nfts /\ j = <<n, j[2]>> /\ <<n, "MINT">> \in Jobs
  BY JobsOf
<1>2. /\ t \in Executions /\ t.pc = "claimed" /\ t.seen = "NONE" /\ exec'[s] = t
      /\ \A q \in Slots \ {s} : exec'[q] = exec[q]
      /\ exec' \in [Slots -> Executions \union {Idle}]
  BY DEF Claim, Executions, Inv, TypeOK
<1> HIDE DEF t
<1>3. /\ status[j] = "PENDING"
      /\ \A k \in Jobs : status'[k] = IF k = j THEN "PROCESSING" ELSE status[k]
      /\ \A k \in Jobs : claim'[k] = IF k = j THEN s ELSE claim[k]
      /\ status' \in [Jobs -> JobStatuses] /\ claim' \in [Jobs -> Slots \union {NoClaim}]
      /\ UNCHANGED <<nft, minted, attached, retries, chain, late, minting, calm>>
  BY DEF Claim, Inv, TypeOK, JobStatuses
<1>4. TypeOK' /\ ChainInv'
  BY <1>2, <1>3 DEF Inv, TypeOK, ChainInv
<1>5. \A k \in Jobs : JobInv(k)'
  BY <1>3 DEF Inv, JobInv
<1>6. RowInv(n)'
  <2>1. RowInv(n)
    BY <1>1 DEF Inv
  <2>2. \A k \in Jobs : status[k] = "FAILED" => status'[k] = "FAILED"
    BY <1>3
  <2> QED BY <1>1, <1>3, <2>1, <2>2 DEF RowInv
<1>7. \A pcs \in {Late, {"done"}} : \A m \in Nfts : ~Carries(s, m, pcs)'
  BY <1>2 DEF Carries, Late
<1>8. ASSUME NEW q \in Slots, NEW m \in Nfts, NEW pcs \in {Late, {"done"}}, Carries(q, m, pcs)'
      PROVE  Carries(q, m, pcs)
  <2>1. q # s
    BY <1>7, <1>8
  <2> QED BY <1>2, <1>3, <1>8, <2>1, JobsOf DEF Carries, Owns
<1>9. \A m \in Nfts : (Succeeded(m)' => Succeeded(m)) /\ (Queued(m) => Queued(m)')
  BY <1>3, JobsOf DEF Succeeded, Queued
<1>10. FollowInv(n)' /\ \A m \in Nfts : Passed(m)' => Passed(m)
  BY <1>1, <1>3, <1>8, <1>9 DEF Inv, FollowInv, Good, Passed
<1>11. ExecInv(s)'
  BY <1>2 DEF ExecInv, At, MintAt
<1>12. \A q \in {s} : ExecInv(q)' /\ \A m \in Nfts : Carries(q, m, Late)' => m = n
  BY <1>7, <1>11
<1>13. /\ \A q \in Slots \ {s}, k \in Jobs :
             status'[k] = "PROCESSING" /\ claim'[k] = q => status[k] = "PROCESSING" /\ claim[k] = q
       /\ \A k \in Jobs : k[1] # n => retries'[k] = retries[k] /\ status'[k] = status[k]
       /\ \A k \in Jobs : status[k] # "NONE" => status'[k] # "NONE"
       /\ {s} \in SUBSET Slots
  BY <1>3
<1>14. /\ minted \subseteq minted' /\ attached \subseteq attached' /\ chain \subseteq chain'
       /\ \A m \in Nfts \ {n} : nft'[m] = nft[m]
       /\ \A q \in Slots \ {s} : exec'[q] = exec[q]
       /\ n \in Nfts
  BY <1>1, <1>2, <1>3
<1> HIDE DEF n
<1> QED BY <1>4, <1>5, <1>6, <1>10, <1>12, <1>13, <1>14, RowStep

(* What happens outside of the executions and the rows.                    *)
LEMMA OutsideStep ==
    ASSUME Inv, (\E n \in Nfts : LateMint(n)) \/ SwitchMinting \/ UNCHANGED vars
    PROVE  Inv'
<1> USE DEF nftVars, jobVars, chainVars, runVars
<1>1. /\ UNCHANGED <<nft, minted, attached, status, retries, claim, exec>>
      /\ chain \subseteq chain' /\ chain' \subseteq Nfts /\ late' \subseteq Nfts
      /\ minting' \in BOOLEAN /\ calm' \in BOOLEAN
  BY DEF LateMint, SwitchMinting, vars, Inv, TypeOK
<1>2. TypeOK' /\ ChainInv'
  BY <1>1 DEF Inv, TypeOK, ChainInv
<1>3. \A s \in Slots : ExecInv(s)'
  BY <1>1 DEF Inv, ExecInv, At, Nft
<1>4. \A s \in Slots, n \in Nfts, pcs \in {Late, {"done"}} : Carries(s, n, pcs)' <=> Carries(s, n, pcs)
  BY <1>1 DEF Carries, Owns
<1>5. \A n \in Nfts : /\ Succeeded(n)' <=> Succeeded(n)
                      /\ Queued(n)' <=> Queued(n)
  BY <1>1 DEF Succeeded, Queued
<1>6. \A n \in Nfts : RowInv(n)' /\ FollowInv(n)'
  BY <1>1, <1>4, <1>5 DEF Inv, RowInv, FollowInv, Good
<1>7. \A n \in Nfts : Passed(n)' <=> Passed(n)
  BY <1>4, <1>5 DEF Passed
<1>8. \A c \in Children : SeenInv(c)'
  BY <1>1, <1>5, <1>7, JobsOf DEF Inv, SeenInv
<1>9. \A j \in Jobs : JobInv(j)'
  BY <1>1 DEF Inv, JobInv
<1> QED BY <1>2, <1>3, <1>6, <1>8, <1>9 DEF Inv

LEMMA InvInit == Init => Inv
<1> SUFFICES ASSUME Init PROVE Inv
  OBVIOUS
<1>1. TypeOK /\ ChainInv
  BY NftAssumption DEF Init, TypeOK, ChainInv, NftStatuses, JobStatuses
<1>2. \A j \in Jobs : JobInv(j)
  BY NftAssumption DEF Init, JobInv
<1>3. \A s \in Slots : ExecInv(s)
  BY DEF Init, ExecInv
<1>4. \A n \in Nfts : ~Passed(n) /\ ~Succeeded(n) /\ \A s \in Slots : ~Carries(s, n, Late)
  BY JobsOf DEF Init, Passed, Succeeded, Carries, Late, Idle
<1>5. \A n \in Nfts : RowInv(n) /\ FollowInv(n)
  BY <1>4, JobsOf DEF Init, RowInv, FollowInv, MintedOrLater
<1>6. \A c \in Children : SeenInv(c)
  BY <1>4, JobsOf DEF SeenInv
<1> QED BY <1>1, <1>2, <1>3, <1>5, <1>6 DEF Inv

LEMMA InvNext == Inv /\ [Next]_vars => Inv'
<1> SUFFICES ASSUME Inv, [Next]_vars PROVE Inv'
  OBVIOUS
<1>1. CASE \E n \in Nfts : Enqueue(n)
  BY <1>1, EnqueueStep
<1>2. CASE (\E n \in Nfts : LateMint(n)) \/ SwitchMinting \/ UNCHANGED vars
  BY <1>2, OutsideStep
<1>3. CASE \E j \in Jobs : OperatorRetry(j) \/ RequeueStale(j)
  BY <1>3, OperatorRetryStep, RequeueStaleStep
<1>4. CASE \E s \in Slots, j \in Jobs : Claim(s, j)
  BY <1>4, ClaimStep
<1>5. ASSUME NEW s \in Slots, Advance(s) PROVE Inv'
  <2>1. CASE LosesClaim(s) \/ TokenExists(s) \/ Recheck(s) \/ MintLands(s) \/ MintRefused(s)
    BY <2>1, QuietActions
  <2>2. CASE ReadNft(s) \/ ReadParent(s) \/ AttachNothing(s)
    BY <2>2, ReadNftStep, ReadParentStep, AttachNothingStep
  <2>3. CASE MarkMinting(s) \/ RecordMinted(s) \/ Attach(s)
    BY <2>3, WritingActions
  <2>4. CASE QueueWaitingChildren(s) \/ QueueAttach(s)
    BY <2>4, QueueWaitingChildrenStep, QueueAttachStep
  <2>5. CASE Finish(s) \/ RecordExpiry(s)
    BY <2>5, FinishStep, RecordExpiryStep
  <2> QED BY <1>5, <2>1, <2>2, <2>3, <2>4, <2>5 DEF Advance
<1>6. ASSUME NEW s \in Slots, Disturb(s) PROVE Inv'
  <2>1. CASE ReleaseUnstarted(s)
    BY <2>1, ReleaseUnstartedStep
  <2>2. CASE MintUnknown(s) \/ Fails(s) \/ Crash(s)
    BY <2>2, QuietActions
  <2>3. CASE Expire(s)
    <3>1. exec[s] # Idle
      BY <2>3, NotIdle DEF Expire, RunningAt, Inv
    <3> QED BY <2>3, <3>1, ExpireStep DEF Expire, nftVars, jobVars, chainVars, runVars
  <2> QED BY <1>6, <2>1, <2>2, <2>3 DEF Disturb
<1> QED BY <1>1, <1>2, <1>3, <1>4, <1>5, <1>6 DEF Next

-----------------------------------------------------------------------------

(* Every reachable state satisfies the inductive invariant: what the rows  *)
(* of an NFT and of its jobs say fits, what an execution of the worker has *)
(* found out stays true, and parent and child that are followed up see     *)
(* each other.                                                             *)
THEOREM Invariance == Spec => []Inv
BY InvInit, InvNext, PTL DEF Spec

(* Every row and every execution has a value the code can give it.         *)
THEOREM TypeCorrect == Spec => []TypeOK
<1>1. Inv => TypeOK
  BY DEF Inv
<1> QED BY <1>1, Invariance, PTL

(* The worker never records a mint that is not on the chain, however many  *)
(* executions, crashes, stalls and lost answers there are.                 *)
THEOREM MintsAreOnChain == Spec => []MintedIsOnChain
<1>1. Inv => MintedIsOnChain
  BY DEF Inv, ChainInv, RowInv, MintedIsOnChain, MintedOrLater
<1> QED BY <1>1, Invariance, PTL

(* The worker closes a job as succeeded only when what it is for is done.  *)
THEOREM SuccessIsReal == Spec => []SucceededIsDone
<1>1. Inv => SucceededIsDone
  BY DEF Inv, JobInv, SucceededIsDone
<1> QED BY <1>1, Invariance, PTL

(* Once the worker has closed the mint jobs of the parent and of a child,  *)
(* the child is attached or has a job that can attach it, whichever of the *)
(* two was minted last and whoever read the other when.                    *)
THEOREM AttachmentsAreKept == Spec => []NoAttachmentLost
<1>1. ASSUME Inv, NEW c \in Children,
             status[<<Parent, "MINT">>] = "SUCCEEDED", status[<<c, "MINT">>] = "SUCCEEDED",
             c \notin attached
      PROVE  status[<<c, "ATTACH">>] \in {"PENDING", "PROCESSING", "FAILED"}
  <2>1. Passed(Parent) /\ Passed(c)
    BY <1>1 DEF Passed, Succeeded
  <2>2. status[<<c, "ATTACH">>] # "NONE"
    BY <1>1, <2>1 DEF Inv, SeenInv, Queued
  <2>3. PICK j \in Jobs : j = <<c, "ATTACH">>
    BY JobsOf
  <2>4. status[j] # "SUCCEEDED"
    BY <1>1, <2>3 DEF Inv, JobInv
  <2> QED BY <1>1, <2>2, <2>3, <2>4 DEF Inv, TypeOK, JobStatuses
<1>2. Inv => NoAttachmentLost
  BY <1>1 DEF NoAttachmentLost
<1> QED BY <1>2, Invariance, PTL

(* Whatever the worker gave up an operator can revive: a failed NFT has a  *)
(* failed job.                                                             *)
THEOREM FailuresCanBeRetried == Spec => []FailedCanBeRetried
<1>1. Inv => FailedCanBeRetried
  BY DEF Inv, RowInv, FailedCanBeRetried
<1> QED BY <1>1, Invariance, PTL

(* The worker leaves no NFT behind as being minted: its job is still to be *)
(* run, or is running.                                                     *)
THEOREM MintsGoOn == Spec => []MintingGoesOn
<1>1. Inv => MintingGoesOn
  BY DEF Inv, RowInv, MintingGoesOn
<1> QED BY <1>1, Invariance, PTL

=============================================================================
