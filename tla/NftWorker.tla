----------------------------- MODULE NftWorker -----------------------------
(***************************************************************************)
(* The queue of NFT jobs of one person: the parent NFT, the completion     *)
(* NFTs that are attached to it, and the instances of NftJobWorker that    *)
(* work on the queue (nft-job.worker.ts).                                  *)
(*                                                                         *)
(* An instance claims a job by writing a fresh claim token into its row,   *)
(* executes it while no lock is held, and shows the token with every       *)
(* write.  What one instance does with one claim is an execution; it       *)
(* occupies one of the Slots, whose name serves as the claim token: a slot *)
(* is not taken again while a row still carries it, so the token is fresh. *)
(* A process may crash, or stall so long that its job is taken away; the   *)
(* chain may be slow, refuse, or include a transaction after the answer    *)
(* was lost; an execution past its deadline is given up but runs on.       *)
(*                                                                         *)
(* Time is left out: a PENDING job may be due or not, and a PROCESSING job *)
(* is stale once its execution is gone or, before the system calms down,   *)
(* at any moment.  An instance that claims ten jobs in one statement and   *)
(* serves them one after the other is a special case of claims one by one. *)
(***************************************************************************)
EXTENDS Naturals

CONSTANTS
    Parent,    \* the parent NFT
    Children,  \* the completion NFTs
    Slots,     \* executions there may be at a time (a bound on the runs)
    NoClaim,   \* claim_token IS NULL
    MaxRetry,  \* MAX_RETRY
    Pausable,  \* a run may switch minting off and on
    Unstable   \* processes may crash and stall, at first

ASSUME NftAssumption ==
    /\ Parent \notin Children
    /\ NoClaim \notin Slots
    /\ MaxRetry \in Nat \ {0}
    /\ Pausable \in BOOLEAN /\ Unstable \in BOOLEAN

Nfts == Children \union {Parent}

(* Every NFT has a job that mints it, every child one that attaches it: an *)
(* idempotency key keeps each to one row, "NONE" is no row.                *)
Jobs == (Nfts \X {"MINT"}) \union (Children \X {"ATTACH"})

VARIABLES
    nft,        \* [Nfts -> nft.status]
    minted,     \* NFTs with a token_id
    attached,   \* NFTs with an attached_at
    status,     \* [Jobs -> nft_job.status]
    retries,    \* [Jobs -> nft_job.retry_count]
    claim,      \* [Jobs -> nft_job.claim_token]
    exec,       \* [Slots -> execution]
    chain,      \* tokens that exist on the chain
    late,       \* tokens whose mint may still be included
    minting,    \* NFT_MINTING_ENABLED
    calm        \* no process crashes or stalls any more

nftVars == <<nft, minted, attached>>
jobVars == <<status, retries, claim>>
chainVars == <<chain, late>>
runVars == <<minting, calm>>
vars == <<nftVars, jobVars, exec, chainVars, runVars>>

NftStatuses == {"NONE", "PENDING", "MINTING", "MINTED", "ATTACHING",
                "ATTACHED", "FAILED"}
ParentReady == {"MINTED", "ATTACHED"}
MintAlreadyDone == {"MINTED", "ATTACHED"}
Attachable == {"MINTED", "ATTACHING"}
MintedOrLater == {"MINTED", "ATTACHING", "ATTACHED"}

JobStatuses == {"NONE", "PENDING", "PROCESSING", "SUCCEEDED", "FAILED"}

(* Where execute() is.  The last ones are its results.                     *)
RunningAt == {"mark", "exists", "recheck", "send", "record", "follow", "queue",
              "attach"}
OutcomeAt == {"done", "deferred", "paused", "error"}

Idle == [pc |-> "idle"]

Executions == [pc : {"claimed"} \union RunningAt \union OutcomeAt, job : Jobs,
               seen : MintedOrLater \union {"NONE"}, watch : {"waiting", "expired", "gone"}]

TypeOK ==
    /\ nft \in [Nfts -> NftStatuses]
    /\ minted \subseteq Nfts
    /\ attached \subseteq Children
    /\ status \in [Jobs -> JobStatuses]
    /\ retries \in [Jobs -> 0 .. MaxRetry]
    /\ claim \in [Jobs -> Slots \union {NoClaim}]
    /\ exec \in [Slots -> Executions \union {Idle}]
    /\ chain \subseteq Nfts
    /\ late \subseteq Nfts
    /\ minting \in BOOLEAN
    /\ calm \in BOOLEAN

Init ==
    /\ nft = [n \in Nfts |-> "NONE"]
    /\ minted = {}
    /\ attached = {}
    /\ status = [j \in Jobs |-> "NONE"]
    /\ retries = [j \in Jobs |-> 0]
    /\ claim = [j \in Jobs |-> NoClaim]
    /\ exec = [s \in Slots |-> Idle]
    /\ chain = {}
    /\ late = {}
    /\ minting = TRUE
    /\ calm = ~Unstable

-----------------------------------------------------------------------------
(* The queue, from outside: NftsService, NftJobsAdminService *)

(* A wallet is verified, or a payout recorded: one NFT and the job that    *)
(* mints it.  Whoever is paid has a wallet, hence a parent NFT: that the   *)
(* child is linked to it is BountyFlow's CompletionHasParent.              *)
Enqueue(n) ==
    /\ nft[n] = "NONE"
    /\ n \in Children => nft[Parent] # "NONE"
    /\ nft' = [nft EXCEPT ![n] = "PENDING"]
    /\ status' = [status EXCEPT ![<<n, "MINT">>] = "PENDING"]
    /\ UNCHANGED <<minted, attached, retries, claim, exec, chainVars, runVars>>

Restored(n) == IF n \in attached THEN "ATTACHED"
               ELSE IF n \in minted THEN "MINTED" ELSE "PENDING"

(* An operator revives a failed job, and the NFT that failed with it.      *)
MutOperatorRetry(j) ==
    /\ status[j] = "FAILED"
    /\ status' = [status EXCEPT ![j] = "PENDING"]
    /\ retries' = [retries EXCEPT ![j] = 0]
    /\ UNCHANGED <<nftVars, claim, exec, chainVars, runVars>>
OperatorRetry(j) ==
    /\ status[j] = "FAILED"
    /\ status' = [status EXCEPT ![j] = "PENDING"]
    /\ retries' = [retries EXCEPT ![j] = 0]
    /\ nft' = [nft EXCEPT ![j[1]] = IF @ = "FAILED" THEN Restored(j[1]) ELSE @]
    /\ UNCHANGED <<minted, attached, claim, exec, chainVars, runVars>>

-----------------------------------------------------------------------------
(* An execution up to the NFT it works on: pollOnce, process, execute *)

At(s, pc) == exec[s].pc = pc
Nft(s) == exec[s].job[1]

Claim(s, j) ==
    /\ minting
    /\ exec[s] = Idle /\ \A k \in Jobs : claim[k] # s
    /\ status[j] = "PENDING"
    /\ status' = [status EXCEPT ![j] = "PROCESSING"]
    /\ claim' = [claim EXCEPT ![j] = s]
    /\ exec' = [exec EXCEPT ![s] = [pc |-> "claimed", job |-> j, seen |-> "NONE",
                                    watch |-> "waiting"]]
    /\ UNCHANGED <<nftVars, retries, chainVars, runVars>>

(* The claim an execution has to show: WHERE id = $1 AND status =          *)
(* 'PROCESSING' AND claim_token = $2.                                      *)
Owns(s) == /\ status[exec[s].job] = "PROCESSING"
           /\ claim[exec[s].job] = s

End(s) == exec' = [exec EXCEPT ![s] = Idle]

(* An execution nobody waits for any more just ends.                       *)
Goto(s, pc) ==
    IF pc \in OutcomeAt /\ exec[s].watch = "gone" THEN End(s)
    ELSE exec' = [exec EXCEPT ![s].pc = pc]

(* The job leaves the execution for the status `to`.                       *)
Release(s, to) ==
    /\ status' = [status EXCEPT ![exec[s].job] = to]
    /\ claim' = [claim EXCEPT ![exec[s].job] = NoClaim]

(* The process shuts down, minting is paused or the chain not configured:  *)
(* the claimed job goes back untouched.                                    *)
ReleaseUnstarted(s) ==
    /\ calm => ~minting
    /\ At(s, "claimed") /\ Owns(s)
    /\ Release(s, "PENDING")
    /\ End(s)
    /\ UNCHANGED <<nftVars, retries, chainVars, runVars>>

(* Every write of the execution checks the claim in its transaction; an    *)
(* execution whose claim was taken away ends there.                        *)
OwnedAt == {"claimed", "mark", "recheck", "record", "follow", "queue", "attach",
            "paused"}

LosesClaim(s) ==
    /\ exec[s].pc \in OwnedAt /\ ~Owns(s)
    /\ End(s)
    /\ UNCHANGED <<nftVars, jobVars, chainVars, runVars>>

(* The NFT as it is read here decides the steps that follow, although it   *)
(* may change under them; of an unminted one they distinguish nothing.     *)
MutReadNft(s) ==
    /\ At(s, "claimed") /\ Owns(s)
    /\ LET now == nft[Nft(s)]
           next == IF exec[s].job[2] = "ATTACH" THEN "attach"
                   ELSE IF now \in MintAlreadyDone THEN "done" ELSE "mark"
       IN  exec' = [exec EXCEPT ![s].pc = next,
                                ![s].seen = IF now \in MintedOrLater THEN now ELSE "NONE"]
    /\ UNCHANGED <<nftVars, jobVars, chainVars, runVars>>
ReadNft(s) ==
    /\ At(s, "claimed") /\ Owns(s)
    /\ LET now == nft[Nft(s)]
           next == IF exec[s].job[2] = "ATTACH" THEN "attach"
                   ELSE IF now \in MintAlreadyDone THEN "follow" ELSE "mark"
       IN  exec' = [exec EXCEPT ![s].pc = next,
                                ![s].seen = IF now \in MintedOrLater THEN now ELSE "NONE"]
    /\ UNCHANGED <<nftVars, jobVars, chainVars, runVars>>

-----------------------------------------------------------------------------
(* Minting: runMintJob *)

MarkMinting(s) ==
    /\ At(s, "mark") /\ Owns(s)
    /\ nft' = [nft EXCEPT ![Nft(s)] = "MINTING"]
    /\ Goto(s, "exists")
    /\ UNCHANGED <<minted, attached, jobVars, chainVars, runVars>>

(* An earlier execution may have minted and not lived to record it.        *)
TokenExists(s) ==
    /\ At(s, "exists")
    /\ Goto(s, IF Nft(s) \in chain THEN "record" ELSE "recheck")
    /\ UNCHANGED <<nftVars, jobVars, chainVars, runVars>>

Recheck(s) ==
    /\ At(s, "recheck") /\ Owns(s)
    /\ Goto(s, IF minting THEN "send" ELSE "paused")
    /\ UNCHANGED <<nftVars, jobVars, chainVars, runVars>>

(* The contract accepts a token once; a second mint of it is refused, also *)
(* one that was still under way.                                           *)
MintLands(s) ==
    /\ At(s, "send")
    /\ Nft(s) \notin chain
    /\ chain' = chain \union {Nft(s)}
    /\ late' = late \ {Nft(s)}
    /\ Goto(s, "record")
    /\ UNCHANGED <<nftVars, jobVars, runVars>>

MintRefused(s) ==
    /\ At(s, "send")
    /\ Nft(s) \in chain
    /\ Goto(s, "error")
    /\ UNCHANGED <<nftVars, jobVars, chainVars, runVars>>

(* The answer to the broadcast is lost: it may still be included.          *)
MutMintUnknown(s) ==
    /\ At(s, "send")
    /\ Nft(s) \notin chain
    /\ late' = late \union {Nft(s)}
    /\ Goto(s, "record")
    /\ UNCHANGED <<nftVars, jobVars, chain, runVars>>
MintUnknown(s) ==
    /\ At(s, "send")
    /\ Nft(s) \notin chain
    /\ late' = late \union {Nft(s)}
    /\ Goto(s, "error")
    /\ UNCHANGED <<nftVars, jobVars, chain, runVars>>

LateMint(n) ==
    /\ n \in late
    /\ late' = late \ {n}
    /\ chain' = chain \union {n} \/ UNCHANGED chain
    /\ UNCHANGED <<nftVars, jobVars, exec, runVars>>

RecordMinted(s) ==
    /\ At(s, "record") /\ Owns(s)
    /\ nft' = [nft EXCEPT ![Nft(s)] = "MINTED"]
    /\ minted' = minted \union {Nft(s)}
    /\ Goto(s, "follow")
    /\ UNCHANGED <<attached, jobVars, chainVars, runVars>>

(* The minted parent queues the attachment of every child that waits.      *)
MutQueueWaitingChildren(s) ==
    /\ At(s, "follow") /\ Owns(s)
    /\ Nft(s) = Parent
    /\ status' = [j \in Jobs |->
                    IF j[2] = "ATTACH" /\ status[j] = "NONE" /\ status[<<j[1], "MINT">>] = "SUCCEEDED"
                    THEN "PENDING" ELSE status[j]]
    /\ Goto(s, "done")
    /\ UNCHANGED <<nftVars, retries, claim, chainVars, runVars>>
QueueWaitingChildren(s) ==
    /\ At(s, "follow") /\ Owns(s)
    /\ Nft(s) = Parent
    /\ status' = [j \in Jobs |->
                    IF j[2] = "ATTACH" /\ status[j] = "NONE" /\ nft[j[1]] = "MINTED"
                    THEN "PENDING" ELSE status[j]]
    /\ Goto(s, "done")
    /\ UNCHANGED <<nftVars, retries, claim, chainVars, runVars>>

(* The minted child reads its parent only now, so that one of the two sees *)
(* the other.                                                              *)
ReadParent(s) ==
    /\ At(s, "follow")
    /\ Nft(s) \in Children
    /\ exec[s].seen = "ATTACHED" \/ Owns(s)
    /\ Goto(s, IF exec[s].seen # "ATTACHED" /\ nft[Parent] \in ParentReady
               THEN "queue" ELSE "done")
    /\ UNCHANGED <<nftVars, jobVars, chainVars, runVars>>

QueueAttach(s) ==
    /\ At(s, "queue") /\ Owns(s)
    /\ LET j == <<Nft(s), "ATTACH">>
       IN  status' = [status EXCEPT ![j] = IF @ = "NONE" THEN "PENDING" ELSE @]
    /\ Goto(s, "done")
    /\ UNCHANGED <<nftVars, retries, claim, chainVars, runVars>>

-----------------------------------------------------------------------------
(* Attaching: runAttachJob.  A child whose parent is not ready is put off. *)

Attach(s) ==
    /\ At(s, "attach")
    /\ exec[s].seen # "ATTACHED" /\ Owns(s)
    /\ nft[Nft(s)] \in Attachable /\ nft[Parent] \in ParentReady
    /\ nft' = [nft EXCEPT ![Nft(s)] = "ATTACHED"]
    /\ attached' = attached \union {Nft(s)}
    /\ Goto(s, "done")
    /\ UNCHANGED <<minted, jobVars, chainVars, runVars>>

AttachNothing(s) ==
    /\ At(s, "attach")
    /\ \/ exec[s].seen = "ATTACHED" /\ Goto(s, "done")
       \/ /\ exec[s].seen # "ATTACHED" /\ Owns(s)
          /\ ~(nft[Nft(s)] \in Attachable /\ nft[Parent] \in ParentReady)
          /\ Goto(s, IF exec[s].seen \in Attachable THEN "deferred" ELSE "error")
    /\ UNCHANGED <<nftVars, jobVars, chainVars, runVars>>

-----------------------------------------------------------------------------
(* The end of an execution: process() *)

(* A call to the chain or the database throws.                             *)
Fails(s) ==
    /\ exec[s].pc \in RunningAt
    /\ Goto(s, "error")
    /\ UNCHANGED <<nftVars, jobVars, chainVars, runVars>>

(* One attempt less, and after the last the job and its NFT have failed;   *)
(* an attachment that was completed is not undone.                         *)
Exhausted(j) == retries[j] + 1 >= MaxRetry

MutFailedNft(n) == nft[n]
FailedNft(n) == IF nft[n] = "ATTACHED" \/ n \in attached THEN nft[n] ELSE "FAILED"

RecordFailure(s) ==
    LET j == exec[s].job
    IN  /\ Release(s, IF Exhausted(j) THEN "FAILED" ELSE "PENDING")
        /\ retries' = [retries EXCEPT ![j] = @ + 1]
        /\ nft' = [nft EXCEPT ![j[1]] = IF Exhausted(j) THEN FailedNft(j[1]) ELSE @]

MutStatusAfter(outcome) == "SUCCEEDED"
StatusAfter(outcome) == IF outcome = "deferred" THEN "PENDING" ELSE "SUCCEEDED"

(* process() records the outcome it waited for, if the claim still holds.  *)
Finish(s) ==
    /\ exec[s].pc \in OutcomeAt /\ exec[s].watch = "waiting"
    /\ CASE ~Owns(s) -> UNCHANGED <<nftVars, jobVars>>
         [] Owns(s) /\ At(s, "error") -> RecordFailure(s) /\ UNCHANGED <<minted, attached>>
         [] Owns(s) /\ At(s, "paused") ->
              /\ Release(s, "PENDING")
              /\ nft' = [nft EXCEPT ![Nft(s)] =
                           IF @ = "MINTING" /\ Nft(s) \notin minted THEN "PENDING" ELSE @]
              /\ UNCHANGED <<minted, attached, retries>>
         [] OTHER -> /\ Release(s, StatusAfter(exec[s].pc))
                     /\ UNCHANGED <<nftVars, retries>>
    /\ End(s)
    /\ UNCHANGED <<chainVars, runVars>>

(* The deadline of the execution passes: process() stops waiting for it,   *)
(* counts a failure and goes on, while the execution itself runs on.       *)
Expire(s) ==
    /\ exec[s].pc \in RunningAt /\ exec[s].watch = "waiting"
    /\ exec' = [exec EXCEPT ![s].watch = "expired"]
    /\ UNCHANGED <<nftVars, jobVars, chainVars, runVars>>

RecordExpiry(s) ==
    /\ exec[s] # Idle /\ ~At(s, "claimed") /\ exec[s].watch = "expired"
    /\ IF Owns(s) THEN RecordFailure(s) /\ UNCHANGED <<minted, attached>>
                  ELSE UNCHANGED <<nftVars, jobVars>>
    /\ IF exec[s].pc \in OutcomeAt THEN End(s)
       ELSE exec' = [exec EXCEPT ![s].watch = "gone"]
    /\ UNCHANGED <<chainVars, runVars>>

-----------------------------------------------------------------------------
(* What happens to processes *)

(* The process dies; a mint it has sent may still be included.             *)
Crash(s) ==
    /\ ~calm
    /\ exec[s] # Idle
    /\ End(s)
    /\ \/ late' = late
       \/ At(s, "send") /\ Nft(s) \notin chain /\ late' = late \union {Nft(s)}
    /\ UNCHANGED <<nftVars, jobVars, chain, runVars>>

(* A job is stale: its execution is gone, or stalled for over 15 minutes.  *)
MutRequeueStale(j) ==
    /\ minting
    /\ status[j] = "PROCESSING" /\ nft[j[1]] = "MINTING"
    /\ calm => exec[claim[j]] = Idle
    /\ status' = [status EXCEPT ![j] = "PENDING"]
    /\ claim' = [claim EXCEPT ![j] = NoClaim]
    /\ nft' = [nft EXCEPT ![j[1]] = "PENDING"]
    /\ UNCHANGED <<minted, attached, retries, exec, chainVars, runVars>>
RequeueStale(j) ==
    /\ minting
    /\ status[j] = "PROCESSING"
    /\ calm => exec[claim[j]] = Idle
    /\ status' = [status EXCEPT ![j] = "PENDING"]
    /\ claim' = [claim EXCEPT ![j] = NoClaim]
    /\ nft' = [nft EXCEPT ![j[1]] = IF @ = "MINTING" THEN "PENDING" ELSE @]
    /\ UNCHANGED <<minted, attached, retries, exec, chainVars, runVars>>

SwitchMinting ==
    /\ Pausable /\ ~calm
    /\ minting' = ~minting
    /\ UNCHANGED <<nftVars, jobVars, exec, chainVars, calm>>

CalmDown ==
    /\ ~calm
    /\ calm' = TRUE /\ minting' = TRUE
    /\ UNCHANGED <<nftVars, jobVars, exec, chainVars>>

-----------------------------------------------------------------------------

(* The next statement of an execution, when nothing goes wrong.            *)
Advance(s) ==
    \/ LosesClaim(s) \/ ReadNft(s)
    \/ MarkMinting(s) \/ TokenExists(s) \/ Recheck(s) \/ MintLands(s) \/ MintRefused(s)
    \/ RecordMinted(s)
    \/ QueueWaitingChildren(s) \/ ReadParent(s) \/ QueueAttach(s)
    \/ Attach(s) \/ AttachNothing(s)
    \/ Finish(s) \/ RecordExpiry(s)

Disturb(s) == ReleaseUnstarted(s) \/ MintUnknown(s) \/ Fails(s) \/ Expire(s) \/ Crash(s)

Next ==
    \/ \E n \in Nfts : Enqueue(n) \/ LateMint(n)
    \/ \E j \in Jobs : OperatorRetry(j) \/ RequeueStale(j)
    \/ \E s \in Slots, j \in Jobs : Claim(s, j)
    \/ \E s \in Slots : Advance(s) \/ Disturb(s)
    \/ SwitchMinting

Spec == Init /\ [][Next]_vars

-----------------------------------------------------------------------------
(* Safety *)

(* What the database takes for minted exists on the chain, in spite of     *)
(* lost answers, crashes between broadcast and record, and executions that *)
(* outlive their claim.                                                    *)
MintedIsOnChain ==
    /\ minted \subseteq chain
    /\ \A n \in Nfts : nft[n] \in {"MINTED", "ATTACHED"} => n \in minted

(* A job closed as succeeded has done what it was for: it is never run     *)
(* again, its key keeps a second one out.                                  *)
SucceededIsDone ==
    \A j \in Jobs : status[j] = "SUCCEEDED" =>
        IF j[2] = "MINT" THEN j[1] \in minted ELSE j[1] \in attached

(* Whichever of parent and child is minted last, one of the two queues the *)
(* attachment (header of nft-job.worker.ts): once both mint jobs are done  *)
(* no child is left minted without a job that can attach it.               *)
NoAttachmentLost ==
    \A c \in Children :
        /\ status[<<Parent, "MINT">>] = "SUCCEEDED"
        /\ status[<<c, "MINT">>] = "SUCCEEDED"
        /\ c \notin attached
        => status[<<c, "ATTACH">>] \in {"PENDING", "PROCESSING", "FAILED"}

(* A failed NFT can be revived: operators revive failed jobs, and one of   *)
(* its jobs is one.                                                        *)
FailedCanBeRetried ==
    \A n \in Nfts : nft[n] = "FAILED" => \E j \in Jobs : j[1] = n /\ status[j] = "FAILED"

(* An NFT shown as being minted has a job that will take it further: every *)
(* way out of an execution leaves one or resets the NFT.                   *)
MintingGoesOn ==
    \A n \in Nfts \ attached : nft[n] = "MINTING" =>
        status[<<n, "MINT">>] \in {"PENDING", "PROCESSING"}

(* nft-status.ts:4 gives the order PENDING, MINTING, MINTED, ATTACHED, and *)
(* nft-job.worker.ts:333 says of an attachment that was completed: "Never  *)
(* undo that completed phase".                                             *)
AttachedIsNotUndone == \A c \in attached : nft[c] = "ATTACHED"

-----------------------------------------------------------------------------
(* Liveness.  Instances poll every minute, claim in the order of           *)
(* scheduled_at, and every call to the chain ends some day; a stale job is *)
(* requeued.  Nothing is assumed of failures, deadlines and lost answers.  *)
Fairness ==
    /\ WF_vars(CalmDown)
    /\ \A s \in Slots : WF_vars(Advance(s))
    /\ \A j \in Jobs : /\ SF_vars(\E s \in Slots : Claim(s, j))
                       /\ WF_vars(RequeueStale(j))

FairSpec == Init /\ [][Next \/ CalmDown]_vars /\ Fairness

(* An enqueued NFT is minted some day, or its job waits for the operator.  *)
EveryNftIsMinted ==
    \A n \in Nfts : nft[n] # "NONE" ~> n \in minted \/ status[<<n, "MINT">>] = "FAILED"

(* A minted child of a minted parent is attached some day, or one of the   *)
(* jobs waits for the operator.                                            *)
EveryChildIsAttached ==
    \A c \in Children :
        {Parent, c} \subseteq minted ~>
            c \in attached \/ \E j \in Jobs : status[j] = "FAILED"

=============================================================================
