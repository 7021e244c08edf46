# A TLA+ verification of NinjaLabsBE

NinjaLabsBE is the backend of a bounty platform: a NestJS service on one
PostgreSQL database, deployed as several instances, with a multisig wallet and
an NFT contract on the Injective chain beside it. Sponsors post bounties,
people and their agents apply and submit, operators review and pay, and every
person and every paid submission gets an NFT.

This directory holds TLA+ models of the parts whose correctness depends on the
order of things, the TLC runs that check them on small instances, and TLAPS
proofs of what matters most. `PROJECT.json` lists the components, the runs, the
mutants that show each property can fail, the source lines of every definition,
the findings, the hazards and the theorems.

## 1. Inventory

| Component | State | Operations | What is hard |
|---|---|---|---|
| Bounties (`bounties/admin`, `bounty-status.ts`) | `bounty.status`, terms, deadlines, `deleted_at` | create, update, transition, remove | transitions are guarded by the state of applications, submissions, rewards and payouts, all of which move at the same time |
| Applications, submissions (`bounties/applications`, `bounties/submissions`) | one row per participant and bounty | apply, withdraw, review, submit, resubmit, review, forfeit (script) | decisions race with closing, withdrawal and new terms |
| Rewards, payouts (`rewards`) | `bounty_reward`, `payout`, the refund's audit row | confirm deposit, request, approve, mark paid, record refund (script), operator SQL | money must never be promised twice, a failed transfer may have been sent, the deposit may exceed the posted amount, one transaction hash may be named twice, many rows are locked by many handlers |
| NFT issuing (`nfts`) | `nft`, `nft_job`, tokens on the chain | enqueue, claim, execute, retry, requeue | several instances, crashes, stalls, lost answers, expired deadlines; parent and child depend on each other |
| Sessions (`auth`) | `auth_session`, login codes, a cache per process | login, refresh, logout, revoke | refresh tokens rotate under concurrent tabs; reuse revokes a chain that is still growing |
| Wallets (`wallets`) | `wallet`, challenges | challenge, verify, replace | an address belongs to one account at a time; the owner's wallet must differ from his agents'; replacement must not strand a payout or an NFT |
| Agents (`agents`) | `agent`, `agent_api_key`, `agent_identity_reservation` | register, verify, rotate, revoke, authenticate | whoever has proved an address keeps it, against registrations that overlap; requests outlive the check that let them in |
| Account withdrawal (`users`) | the account and everything it owns | withdraw | one transaction over six tables against everything else |
| Cohorts (`cohorts`) | `cohort`, its questions, `cohort_application` | open, close, remove, put questions, apply, edit, withdraw, review | questions and window change under an application on its way; several cohorts are opened at once |
| Common services | throttle rows, alert counters, running tasks | increment, notify, run, stop | windows, cooldowns, shutdown |
| Content, users and profiles, audit, HTTP, scripts | independent rows | create, read, update, delete | nothing a model would tell |

They interact through the database only: a handler is one transaction that
locks the rows it decides on (the bounty first, then the user, then
applications, submissions, payouts; a user before his agents; a cohort before
the user before the application), the NFT worker polls its queue, and agents'
requests carry the outcome of a guard that ran in an earlier transaction. An
account withdrawal is the one handler that touches nearly everything; each
module has the part of it that meets its own rows.

What makes them correct: awards are backed, bounded and paid once within the
deposit, and a transfer proves one thing; a finished bounty is settled and
final; an NFT is minted once and attached; a session chain that was reused is
dead; a proved address stays with its owner and an account that left holds
nothing; one cohort is open and nothing is handed in that does not answer it.
Section 3 says which run checks which property.

## 2. Modules

| Module | Models | Extends / used by |
|---|---|---|
| `BountyRules` | the status sets and rules of the policy files and the sums of `payout-status.ts`, constant level | extended by `BountyFlow` |
| `BountyFlow` | one bounty with its participants, reward, payouts, and the accounts, wallets, agents and NFTs they depend on | `MCBountyFlow` |
| `EscrowLedger` | abstract: what the platform promises about the money of one bounty | implemented by `BountyFlow` (`ImplementsEscrow`) |
| `MoneyRows` | the rows of several bounties, rewards and payouts, and the rules about them | extended by `MoneySteps`, `MoneyLocks` |
| `MoneySteps` | abstract: the money transactions of several bounties, each as one step | implemented by `MoneyLocks` (`ActsAtCommit`) |
| `MoneyLocks` | the same transactions, statement by statement, with their locks and transaction hashes | `MCMoneyLocks` |
| `NftWorker` | the NFT job queue of one person and the executions of all instances | `MCNftWorker` |
| `AuthSessions` | the refresh sessions of one user and the transactions that work on them | `MCAuthSessions` |
| `AccountRows` | the rows of wallets, agents and reservations, and the rules about them | extended by `AccountSteps`, `Accounts` |
| `AccountSteps` | abstract: what users do with wallets and agents, each handler as one step | implemented by `Accounts` (`ActsAtCommit`) |
| `Accounts` | the same handlers, statement by statement, with their locks | `MCAccounts` |
| `CohortRows` | the rows of cohorts and applications, and the rules about them | extended by `CohortSteps`, `Cohorts` |
| `CohortSteps` | abstract: what operators and applicants do, each handler as one step | implemented by `Cohorts` (`ActsAtCommit`) |
| `Cohorts` | the same handlers, statement by statement, with their locks | `MCCohorts` |
| `SumProofs` | what sums over finite sets of payouts satisfy | extended by `BountyFlowProofs` |
| `*Proofs` | the inductive invariant of a module and its theorems, for `BountyFlow`, `MoneyLocks`, `NftWorker`, `AuthSessions`, `Accounts`, `Cohorts` | |

Two grains are used. `BountyFlow` takes a handler for one step, which is what
its locks give it, so that a whole bounty with everybody around it fits. The
modules about locks (`MoneyLocks`, `AuthSessions`, `Accounts`, `Cohorts`) cut a
handler at every statement that may have to wait and write PostgreSQL's READ
COMMITTED out: a statement sees what was committed when it began, waits for the
rows it locks and looks at them again, and what a transaction writes appears
with its commit. For three of them the two grains are tied together: `MoneyLocks`,
`Accounts` and `Cohorts` each say in `ActsAtCommit` that they implement a module
in which every handler is one step, taken when its transaction commits.

### BountyFlow

One bounty, any number of participants (`Actors`): people acting for themselves
and agents of people (`OwnerOf`, `AgentActors`). Every handler runs in one
transaction and locks the rows it decides on, so a handler is one action: its
guard is the conjunction of the handler's refusals, its effect every write of
the transaction, including `advanceRewardStatus` at the end of `RequestPayout`
and `MarkPaid`, `closeOpenWork` in `Transition`, and the queued NFTs. The one
place where a decision is carried from one transaction to the next is the agent
guard: `Authenticate` puts the agent `inFlight`, and `Apply` and `Submit` of an
agent need no more than that.

| State | Code |
|---|---|
| `bStatus`, `deleted`, `terms`, `deadlinePassed` | `bounty.status`, `deleted_at`, the terms the rules read (`max_winners`, `application_required`, `submission_mode`), `submission_deadline < now()` |
| `app`, `sub` | `bounty_application.status`, `bounty_submission.status` per participant |
| `rw`, `deposited`, `refunded` | `bounty_reward.status`, `deposited_amount`, the amount of the REWARD_REFUNDED audit row |
| `pay`, `payAmount`, `payTo` | `payout` of the submission (one per submission by its unique index) |
| `user`, `wallet`, `revoked` | `"user".status`, the primary connected wallet, `agent.status = 'REVOKED'` |
| `nft` | parent NFT of a user, completion NFT of a submission: none, with unfinished jobs, or settled |
| `inFlight` | agent requests past `AgentApiGuard` and before their transaction |

Abstractions: the application deadline (the same check against a second time),
revision numbers, comments and profile data (they could only refuse; onboarding
is taken as done), who the admin is and the two-person rule, transaction hashes
(they could only refuse, and `MoneyLocks` has them), `opened_at`. A bounty has at most one reward, as in
the code that creates it. `REFUND_PENDING` and the reward status `CANCELLED` are
read but never written by the code and stay unreachable here; payout statuses
`AWAITING_MULTISIG_APPROVAL`, `BROADCASTING`, `FAILED` are written by operators
only (`OperatorSetsStatus`); their documented corrections (runbook 7.4) are
actions too. Accounts are suspended by operators only (`Suspendable`).

### MoneyLocks

What `BountyFlow` takes for one step each - `ConfirmDeposit`, `RequestPayout`,
`MarkPaid`, `RecordRefund`, `Transition` - is here the sequence of statements
that lock or decide (`DepositOrder`, `RequestOrder`, `PayOrder`, `RefundOrder`,
`MoveOrder`), each running with others in between, on several bounties. `Lock`
takes the next lock and looks at the row; `Look` is a look-up among the
recorded hashes; `Insert`, `Recompute` and `Blockers` decide on committed rows
and what the transaction itself has written; the commit writes. `ActsAtCommit`
says that this comes to the steps of `MoneySteps`: seen from the rows each
transaction happens at the moment it commits, on what is committed then. It is
what justifies the grain of `BountyFlow`, and it is not a matter of course: each
handler reads most of its rows several statements before it writes.

| State | Code |
|---|---|
| `bounty`, `reward` (`MoneyRows`) | `bounty.status` ("OPEN" for every status in progress), `bounty_reward.status` |
| `depositHash`, `refundHash`, `payHash` | `bounty_reward.deposit_tx_hash`, the hash of the REWARD_REFUNDED audit row, `payout.payout_tx_hash` |
| `pay` | `payout.status` of the submission's one payout |
| `tx` | an open transaction: the statement it has reached, its parameters, the status it computed, the locks it holds |
| locks `hash`, `payout`, `bounty`, `key`, `reward` | `pg_advisory_xact_lock(hashtext(...))`, the rows FOR UPDATE, and the FOR KEY SHARE on the bounty that the foreign key of an inserted completion NFT takes |

Abstractions: two hashes that `hashtext` maps to one value only wait for each
other. The NFT that `markPaid` inserts also locks the user and the submission
FOR KEY SHARE, behind the bounty (triggers fire in the order of the columns),
which clashes with nobody who holds less than the bounty. Statuses an operator
writes by hand are `BountyFlow`'s. A recomputation that finds nothing paid
leaves the status alone, as its UPDATE matches no row.

### NftWorker

One person's parent NFT and completion NFTs. What an instance does with one
claim is an execution in a slot; the slot's name is the claim token. `execute()`
holds no lock, so it is cut at every statement: read the NFT, mark it, ask the
chain, check the claim again, broadcast, record, queue the attachments. `seen`
keeps what was read at the start, because later steps decide on it. `watch`
says whether `process()` still waits for the execution, has seen its deadline
pass, or has recorded the failure and gone. Actions of the outside world:
`Crash`, `MintUnknown`/`LateMint` (the answer to a broadcast is lost, the
transaction may or may not be included later), `SwitchMinting`, `OperatorRetry`.

Time is abstracted: a pending job may be due at any moment, a processing job may
be stale at any moment while the system is `~calm`, and afterwards once its
execution is gone. A batch of ten claimed jobs is ten claims. `ReleaseUnstarted`
stands for shutdown, pause and missing configuration.

### AuthSessions

One user, any number of requests. PostgreSQL's READ COMMITTED is part of the
model, because the code argues with it: a statement works on what was committed
when it began, waits for the rows it changes, looks at those again, and never
sees rows inserted since. So every statement that may have to wait is two
actions (`LogoutBegins`/`Logout`, `HopBegins`/`HopLocks`,
`GiveUp`/`RevokeAllInstead`, `RevokeAllBegins`/`Withdrawn`); between them `need`
holds the rows the snapshot matched. `held` are the rows a transaction has
locked; what it writes appears with its commit. A successor's insert and its
commit are one action (`Rotate`): before the commit nobody sees the row. The
foreign key of `auth_session` makes an insert wait while a withdrawal has the
user locked (`UserLocked`).

| State | Code |
|---|---|
| `made`, `prev`, `open`, `copy` | rows of `auth_session`: `prev_refresh_token_hash`, `revoked_at IS NULL`, `grace_refresh_token IS NOT NULL` |
| `stale` | rows whose `prev_rotated_at` is out of the 30-second window; a request remembers in `late` which were so when its transaction began (`now()`) |
| `code`, `user` | `oauth_login_code`, `"user".status` |
| `req` | the local variables of `refresh` and `revokeChain` and the statement reached |
| `walked` | history: tokens for which `revokeChain` committed a complete walk |

Abstractions: a session is its token, tokens are numbered in the order of their
commits, all rows belong to the user. Expiry (`expires_at`) and the sweep of old
rows are left out, a copy always decrypts, code and verifier always match. The
condition on the user in `refresh()` is evaluated when the row is taken, not when
the statement began. `Abort` rolls any transaction back (deadlock, lost
connection, timeout).

### Accounts

Any number of users, addresses and rows of `agent`. A transaction first locks
the row of the owner - FOR SHARE (`Sharing`: register, verify, rotate, revoke)
or FOR UPDATE (`Updating`: first wallet, replaced wallet, withdrawal) - and then
rows of agents, one by one (`LockNext`, `LockAgent`); `need` is what its
statement found in its snapshot, `held` what it has locked.

| State | Code |
|---|---|
| `owner`, `address`, `status`, `verified` | the columns of `agent` (`DELETED`: `deleted_at` is set) |
| `abandoned` | PENDING rows registered more than 24 hours ago |
| `key` | status of the agent's latest `agent_api_key` |
| `reserved` | `agent_identity_reservation`, written by the trigger of migration 0028 |
| `wallet`, `withdrawn` | the connected primary `wallet` of a user, accounts that have left |
| `tx` | local variables, locks and the statement reached |

Registration is the long one: `RegisterBegins`, `Retire` (what others claim is
locked, taken or retired), `Insert`/`InsertFails` (the unique index and the
trigger), the second look at what became visible while the INSERT waited, and
`Registered`. In `AccountSteps` it is one step, `Register`: what is live at the
address belongs to others and is abandoned, and makes room.

Abstractions: an address stands for the account behind all spellings and public
keys of it, so the look-up by public key is that by address; challenges are
dropped (a nonce is used up by one conditional UPDATE) and signatures are
genuine; users are onboarded; the payouts and NFT jobs that forbid a replacement
or withdrawal only refuse here and are `BountyFlow`'s; the clean-up of keys that
old pending EVM rows carry is left out. Two registrations of one address may
each wait for the other's row (the second look of `agents.service.ts:94`, after
the INSERT); the database breaks that deadlock, which is an `Abort`.

### Cohorts

| State | Code |
|---|---|
| `cohort`, `questions` | `cohort.status`, the list in `cohort.questions`, of which matters which questions there are and which need an answer |
| `application`, `answers`, `reviewed` | `cohort_application.status`, the questions answered, rows with a reviewer |
| `withdrawn` | accounts that have left |
| `tx` | the statement a transaction has reached and what it has read |

Which locks a transaction holds follows from where it is (`CohortShared`,
`CohortUpdated`, `UserShared`, `UserUpdated`, `RowUpdated`). `OpenBegins` and
`Opened` are the check and the unique index of the single open cohort; `apply`
is `ApplyBegins`, `Onboarded`, then `Reapply` or `NoneYet` and `Insert`; an edit
locks the application, then the cohort, then the user of the audit row. What an
operator does is one statement under the lock of the cohort but for the opening;
`CohortSteps` takes the opening, the applications and the end of an account for
one step too.

Abstractions: outside its window an open cohort refuses, and a draft is not
found: refusals are `Abort`, as any call may be refused for its input. A PATCH
without answers changes nothing a property speaks of. A new cohort's list may be
any list (the code has a fixed default); ids of new questions may be any that
are not in the list. An edit or withdrawal of an application may deadlock with
the end of the account, which the database breaks (`Abort`).

## 3. Runs and bounds

| Run | Instance | Shows |
|---|---|---|
| `money` | two people, amounts 1..3, deposits 3 and 4 for a posted 3, one or two winners, no applications | `PayoutsWithinCap`, `WinnersBounded`, `DeletedHoldsNoFunds`, `RewardStatusAgrees`, `ImplementsEscrow` |
| `flow` | a person and an agent of the same account with two wallets, suspensions, bounties of both modes with and without applications | `PayoutBacked`, `UnsettledPayoutFollowsWallet`, `CompletionHasParent`, `OpenImpliesFunded`, `ClosedMeansSettled`, `ClosedHasNoOpenWork`, `ClosedIsFinal` |
| `revoked_agent` | a person and an agent of the same account | violation: `RevokedAgentCannotSubmit` |
| `money_locks` | two transactions, two bounties, four payouts, three hashes | `HashProvesOnce`, `RewardFollowsPayouts`, `AllocationsWithinCap`, `NoCircularWait`, `ActsAtCommit` |
| `nft_safety` | parent and child, two executions at a time, two attempts per job, crashes, stalls, lost answers, operator retries | `MintedIsOnChain`, `SucceededIsDone`, `NoAttachmentLost`, `FailedCanBeRetried`, `MintingGoesOn` |
| `nft_liveness` | parent and child, one execution at a time, two attempts, crashes, stalls and pauses until calm | `EveryNftIsMinted`, `EveryChildIsAttached` |
| `nft_undone` | parent and child, two executions | violation: `AttachedIsNotUndone` |
| `sessions` | two requests, four sessions, chains up to and past the bound of three hops, suspensions | `SingleSuccessor`, `ReuseEndsChain`, `CopiesAreOfOpenSessions`, `WithdrawalEndsRotations` |
| `sessions_suspended` | two requests, suspensions | violation: `RefusalEndsChain` |
| `sessions_logout` | two requests | violation: `LogoutEndsSession` |
| `accounts` | two requests, two users, two addresses, agents at one of them, three rows | `ProvedAddressKeepsOwner`, `AgentIsNotOwner`, `KeysOfActiveAgents`, `WithdrawnLetGo`, `WithdrawalNotDeadlocked`, `ActsAtCommit` |
| `cohorts` | three requests, one user, two cohorts, one question | `HistoryIsKept`, `NobodyLeftWaits`, `ReviewedMeansDecided`, `DecisionStands`, `HandedInFits`, `ActsAtCommit` |

Bounds: two participants are what winners, shares of a cap and races over them
need (one who holds a share and one who wants it); amounts 1..3 against a cap of
3 let payouts split, exhaust and overrun it, and a deposit of 4 exceeds it. Two
transactions are what a race over a hash, a reward or an address needs, and
four payouts put three on a bounty of two units, so that the third is one too
many, and one on another, with three hashes for a deposit and two more uses. Two executions are what a stale one and its
successor need, two attempts what a retry and its exhaustion need, one child
what the parent/child race needs. That race is the subject of
`NoAttachmentLost`, which is proved for any number of executions, so the
liveness run has one execution at a time and spends its states on crashes. Four
sessions in one chain let it grow while it is followed, and reach the bound of
hops. Three rows of agents are a proved one, a pending one and a new one;
two cohorts and three requests are two openings and a third party. The proofs
of section 4 need none of these bounds. `MaxWallets`, `MaxRetry`, `MaxTokens`,
`MaxHops`, `Slots` and `Rows` are the bounds of counters, tokens and ids.
Deadlock is not checked where the system may stop: a deleted bounty, an idle
queue, an account all of whose sessions are closed, all ids used up. What may
wait for what in the database is stated instead (`NoCircularWait`,
`WithdrawalNotDeadlocked`).

Symmetry is used over requests, users and ids that nothing orders, in the runs
of safety properties only.

Fairness (`NftWorker`): each instance polls every minute and takes due jobs in
the order of `scheduled_at`, so a job that is due again and again is claimed
some day (strong fairness of `Claim` per job); an execution goes on to its next
statement, since every call ends with an answer or an error (weak fairness of
`Advance`); stale jobs are requeued by the same poll (weak fairness of
`RequeueStale`). Nothing is assumed of failures or of the operator, and the
liveness properties end in "or the job waits for the operator".

## 4. What is proved

`BountyFlowProofs` proves, for every set of participants, users, terms, deposits
and amounts allowed by the assumptions of `BountyFlow`, that `SafetyInv` is
inductive and implies the properties listed under `theorems` in `PROJECT.json`.
The properties alone are not inductive. `SafetyInv` adds `RewardStages` (a
reward without confirmed deposit has no payouts and no deposit; that is what
makes `OpenImpliesFunded` survive transitions), `PayoutHasWallet` (a payout was
recorded for a wallet that existed; that carries `UnsettledPayoutFollowsWallet`
over a withdrawal) and `ParentNftsQueued` (a wallet implies a parent NFT; that
carries `CompletionHasParent` over `MarkPaid`). The proof has one lemma per
group of actions and, in it, one step per action and conjunct that the action
disturbs.

Money is proved in amounts, not in examples. `SumProofs` shows what `SumOver`, a
fold over a finite set, does when an element joins, leaves or changes, or when the
set grows. That every finite set of naturals has a sum at all needs induction over
sets; the library's theorem for it takes an operator, so the argument is run
backwards: the sets without the wanted property form a set, proper inclusion of
finite sets is well-founded (`FS_StrictSubsetOrderingWellFounded`), hence a set
without the property has a smallest one among its subsets (`SmallestSubset`), and
taking one element out of that one contradicts its being the smallest
(`SumsExist`, `SumUnfolds`). On these lemmas rests `MoneyInv`: payouts have
amounts, what is allocated and what is paid stay within the cap, the deposit
covers the cap once it is confirmed, what was refunded is the deposit less what
was paid and nothing is under way then, and a deleted bounty is settled. It
implies `PayoutsWithinCap` and `DeletedHoldsNoFunds`, and with it every action
maps to a step of `EscrowLedger` or leaves the ledger alone (`BountyIsAnEscrow`).

`MoneyLocksProofs` proves `HashProvesOnce`, `RewardFollowsPayouts` and
`NoCircularWait` for any number of transactions, bounties, payouts and hashes.
Its invariant adds to the types and to what the rows say (`HashRow`, `RewardRow`)
two parts about transactions: `Mine`, that the locks a transaction holds are
exactly those of the statements behind it, and that what those statements found
out still stands (the hash is unused where it was looked for, the locked row has
the status it was let through with, the status computed is the one the payouts
give); and `Apart`, that no two hold clashing locks. A commit disturbs what
nobody else relies on, because whoever relies on it would hold a clashing lock.
`TransactionsActAtCommit` is the refinement of `MoneySteps`: only commits change
rows, and with what `Mine` says of the committing transaction each of them is the
atomic step. For that the invariant has a third part, `Guarded`: a transaction
that decides about a bounty's payouts holds the bounty, or its key, or the reward,
so that none of the rows it has counted can have moved. `AllocationsWithinCap`
and `CancelledHasNoOpenPayout` are then proved of `MoneySteps`, where a step sees
everything it decides on, and carried over through the refinement.
`NoRings` goes up the lock order: in a ring nobody waits for a reward, since
whoever holds it waits for nothing; so nobody for a bounty or its key, then for
a payout, then for a hash.

`NftWorkerProofs` proves every safety property of the worker for any number of
slots, children and attempts. The invariant has, beside types, `ChainInv` (what
the rows say and what is on the chain), `JobInv` and `RowInv` (a row and its job
agree), `ExecInv` (what an execution has found out stays true until it uses it),
`FollowInv` (while a mint job is followed up, or once it is done, nothing but the
attach job touches the NFT) and `SeenInv`, the heart of `NoAttachmentLost`: of a
parent and a child that are both followed up one has seen the other.

`AuthSessionsProofs` proves, for any number of requests, codes, sessions and
hops, everything the passing run checks. `SafetyInv` has four parts: `TypeInv`
(a hop in progress is within the bound, a presented token has a row), `LockInv`
(locks exclude each other; a session that is being rotated is open and locked by
that rotation alone), `RowInv` (a session that has a successor is closed, so an
open one can be rotated: hence `SingleSuccessor`) and `WithdrawInv` (while a
withdrawal waits for its locks no session is added, so its snapshot is complete
when it commits). `ReuseEndsChain` needs `WalkInv` on top: the frontier of a walk
is locked by the walk but for the presented token, and nobody rotates that one,
because it was found closed; so what a hop waited for is still all there is when
it has the locks, and no successor of a visited row is left out.

`AccountsProofs` and `CohortsProofs` prove type correctness and every property
of their runs. Both invariants have the shape of `MoneyLocks`': what the rows say
(`DataInv`: an address that was proved has one owner among its rows, an address
has one live row, an account that left holds nothing; respectively that reviews,
decisions and cohorts agree), what a transaction knows at each statement
(`Mine`), and who excludes whom (`Apart`). In `Accounts` the delicate case is a
registration against a proof and a revocation of the same address: either it
sees the reservation, or it holds the row the proof would need.

`HandlersActAtCommit`, in both modules, is the refinement of `AccountSteps` and
of `CohortSteps`: transactions that are under way leave the rows alone, and a
commit is the step its handler would have been, had it run alone at that moment.
One lemma per commit shows that what the abstract step asks of the rows still
holds, whatever others have committed since the transaction looked. `Cohorts`
needs no more than its invariant for it: an end of an account, say, withdraws all
open applications of the user, because none was handed in since they were found
(`AccountClosedActs`). `Accounts` needs one more, `Guarded`: a registration looks
for the last time at the rows it retires before its INSERT waits, so it has to be
carried along that they are still others' and abandoned when it commits; then
they are exactly what is live at the address (`RegisteredActs`). And a wallet that
is being replaced is still connected, as nobody else may work on its locked owner.

Assumed by the proofs are only the named assumptions on constants in each
module, which every run evaluates. Model-checked only: liveness (`EveryNftIsMinted`,
`EveryChildIsAttached`), since fairness and ENABLED are out of the prover's
reach. No module uses a RECURSIVE operator. Proved and not checked again by a run
are the type invariants of all modules, `SingleOpen` of `Cohorts` and
`CancelledHasNoOpenPayout` of `MoneyLocks`; the last two are also what
`ActsAtCommit` gives, which the runs check.

## 5. Disagreements with the source's own words

* `revoked_agent`: `bounty-lifecycle.service.ts:53` leaves revoked agents out of
  the UNSUBMITTED blocker because a revoked agent "cannot submit either"; a
  request that passed `AgentApiGuard` before the revocation does.
* `nft_undone`: `nft-job.worker.ts:332` says a completed attachment is never
  undone; `runMintJob` sets the NFT to MINTING on the strength of a status read
  before a peer attached it. An NFT set back like that whose mint job then fails
  for good stays MINTING, so `MintingGoesOn` speaks of NFTs never attached.
* `sessions_suspended`: `auth-sessions.ts:147-149` argues that the hop after a
  wait sees the committed successor. There is no such hop when the presented
  token itself was being rotated: its hash has been seen, the frontier is empty.
  It takes a suspended account, whose token `refresh()` refuses without waiting
  for the rotation (`RefusalEndsChain`). A token that was used before is not
  affected: `ReuseEndsChain` holds with suspensions and is proved.
* `sessions_logout`: `auth-sessions.ts:233-235` promises that a logout that
  overlaps a refresh closes the successor; its one UPDATE does so only if the
  rotation had committed when it began (`LogoutEndsSession`).

Further differences no run states, because nothing goes wrong or the text only
suggests a promise. Past the hop bound `revokeAllSessionsOfUser` is one statement
and misses the successor of a rotation under way (`auth-sessions.ts:151-152` says
all open sessions are revoked), and a login whose code was accepted before a
withdrawal gets its session after it (`Withdrawn`, then `Issue`); that is why
`walked` records complete walks only and `WithdrawalEndsRotations` speaks of
rotated sessions. `cohort-applications.service.ts:30` has every write of an
application under the lock of the cohort; `withdraw()` takes none, which
`HandedInFits` and `DecisionStands` do not need.

## 6. Not modelled

* Content (notices, highlights, media, members), users and profiles: rows that
  depend on no others, edited one at a time under unique indexes.
* Audit log, HTTP surface, validation, logging, health: they record or translate;
  the one audit row that decides something (a refund's hash) is in `MoneyLocks`.
* Database access: its transactions are the steps of every module; it retries
  nothing.
* The throttler: each hit is one upsert of one row, with the arithmetic in SQL.
  `SingleFlightTask` and the shutdown flags: one process with one event loop and
  a flag; what a shutdown means for claimed jobs is in `NftWorker`.
* The payout monitor counts and raises an alert.
* Maintenance and deployment scripts, run by hand once at a time, but for those
  that move a bounty (forfeit, refund, the runbook's corrections), which are
  actions of `BountyFlow`.
* Deadlocks of a cancellation (applications, then submissions) with an account
  withdrawal (submissions, then applications): both orders are in the code, the
  database breaks the ring and the caller repeats.
* The per-process cache of account statuses and the expiry of keys and sessions:
  a window of seconds in which a reader serves what was true.

The modelled services are a minor part of the repository's lines; database
tests, end-to-end tests, scripts and plain create-read-update-delete make up
the larger part.
