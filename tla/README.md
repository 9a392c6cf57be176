# A formal model of thot market

These modules model the parts of the repository that hold other people's tokens,
recordings or consent, check them with TLC on small instances, and prove the
properties that matter most with TLAPS for every value of the constants. The
reference is the code; every definition names, in `PROJECT.json` (`map`), the
lines it stands for.

## 1. The system

thot market buys and sells recorded working sessions ("traces"). Contributors
capture traces with paired devices, the parts are stored encrypted, checked and
shown to their owner. A trace is sold in two ways: for the THOT token, in an
on-chain escrow that a buyer or the treasury funds, and under mandates that
buyers fund in a currency, which is settled in a ledger and can be spent on calls
to an inference provider. A treasury buys samples for the library out of campaign
budgets and pays interest to stakers.

### 1.1 Components

| Component | State it keeps | Operations | Hard behaviour |
| --- | --- | --- | --- |
| `ThotMarket.sol`, `ThotFeeDiscounts.sol` | offers, dispute cases, liabilities, claims, attributions, reviews, authorizations, tariff, pause, timelock | 26 external calls | buyer, seller, reviewers, operator and governor interleave; deadlines meet; roundings; consent spent long after it was signed |
| `ThotCampaignReserve.sol` | campaigns, budgets, acquisitions | create, close, pause, purchase, collect, cancel | budgets promised while gifts, returns and purchases move the balance |
| `ThotTreasury.sol` | the reserve's, and the staking pool it governs | + create, close, collect staking budgets | one balance promised to two uses |
| `ThotStakingPool.sol` | campaigns, positions, lists, totals | create, close, pause, stake, claim, recover | rewards promised in advance, rounded, released and recovered concurrently |
| `packages/chain/thot.ts` (journal) | signed transactions | send, reconcile, settle | crash between signing and sending, reorganizations, nonce races |
| `thot-market.ts` (sales) | jobs, content claims, cursors | prepare a sale, the worker's cycle | the worker races buyers, other workers and the chain; each step may fail half way |
| `thot-market.ts`, `service.ts` (retention) | listings, prepared sales, sealed copies, the deletion job | list, activate, unlist, prepare, delete, sweep | chain reads made without the lock and used after it; removals a rollback does not undo |
| `service.ts`, `chain-worker.ts`, `packages/ledger`, `packages/storage` | mandates, policies, candidates, licenses, settlements, the book, the outbox | commands and jobs, one transaction each | rollbacks that leave the vault changed, jobs retried and given up, budgets and exclusivity across mandates |
| `staged-storage.ts` | write attempts, claims of keys | reserve, upload, confirm, commit, undo, clean up | leases that lapse under a running upload, commits of unknown outcome, crashes |
| `agent-capture.ts`, `capture-projection.ts` | captures, traces, their objects, jobs | upload, save, finish, view, expire, delete | a client, a worker and newer saves race; views are computed without a transaction |
| `trace-qc.ts` | jobs with leases, marks, reports | ask, claim, check, publish, retry | attempts overlap and end late, the trace changes or goes |
| `thot-streams.ts`, `device-pairing.ts`, `capture-devices.ts`, `openrouter-relay.ts` (connecting) | stream policies, devices, pairing codes, recordings, their listings | prepare, activate, revoke a policy; approve a code, create, connect, revoke a device; offer what was recorded | a browser's request and a worker's pass are several transactions, between which consent is stopped, a device is revoked, or a process dies |
| `inference-gateway.ts`, `inference-reconciliation.ts` | requests, credit, texts, evidence | create, execute, cancel, sweep, submit, review | a call that was charged and whose answer is lost; late answers; replayed evidence |
| `packages/vault` (remote) | rows, usage and allowances; the provider's objects | put, delete, each in three steps | crashes and uploads accepted after they seemed to fail |
| `ThotLockVault.sol`, `ThotHolderRewards.sol`, `ThotReserveVault.sol`, `ThotLaunchMarket.sol`, mandate contracts | lots, caps, budgets | as named | not modelled (section 6) |
| everything else | - | protocol encoding, policy, scrubbing, numerics of quality control, user interface, scripts | pure functions or I/O |

### 1.2 Interaction

The market takes tokens from buyers and from the reserve/treasury (its
`acquisitionVault`), reads the governor's owners to know who may vote, and asks
`ThotFeeDiscounts` for both parties' discounts; that contract reads token
balances and staked principal. The treasury is the only governor of its staking
pool, and calls the market to buy and to cancel. Off chain, the sale worker
(`processSales`) reads the chain and sends the operator's calls (funding of
automatic purchases, finalization, refunds of overdue sales, expired disputes,
claims) through the journal of `packages/chain/thot.ts`; anyone else may send the
same calls. The journal's rows are kept by `thot-market.ts` in one table that all
workers share, each row written by its own transaction. The retention sweep reads
the same contract at the confirmed snapshot, and the vault it cleans is not part
of the database's transactions.

A capture is uploaded and saved through staged storage; saving queues a view job
and a quality check, which publish through staged storage as well. A mandate is
matched with traces under their owners' policies; authorizing a candidate licenses
it, and the outbox settles the license in the ledger. Sale credit chosen by the
contributor is what the inference gateway reserves. A
browser that approves a helper's code binds the device it makes to a stream policy,
and the worker lists what that device recorded under the policy, without asking
again. Commands and jobs are one
database transaction each under `service_lock`; the vault and the providers are
outside of it. `apps/worker/main.ts` runs the sweeps, the outbox and the sale
worker one after the other, and begins again.

### 1.3 What makes each part correct

* Market: tokens held equal tokens owed; an escrow leaves once and in full;
  rulings follow the quorum, hear the seller and are final; consent is used only
  as signed; a review that is stale counts for nothing; referrals are earned and
  never form a circle; every sale settles and every claim is paid.
* Staking pool: always solvent; the reward set aside covers the rest of the cap
  at every rate; every matured position can be claimed.
* Reserve: budgets are backed, within the lifetime authority, on schedule; an
  acquisition is committed once.
* Treasury: no token is promised to both uses; the pool under it behaves as the
  pool's own specification says.
* Operator journal: an operation is signed and sent as one transaction, ever; two
  operations never share a nonce and none waits behind a gap; settled rows say
  the truth about the chain; what keeps being asked for ends on the chain.
* Sale worker: the content of a funded reserve purchase stays its own; a job that
  is complete has nothing left to do; funded sales are settled and paid out.
* Retention: a copy paid for with its listing's authorization stays while the licence
  runs; a listing of a deleted source keeps no copy nobody pays for.
* Mandate market: the tables and the ledger agree; no mandate sells more than it
  asked for or was paid for, an exclusive trace is sold once; a sold release can be
  fetched until its license ends; no match is forgotten; queued work is done.
* Connections: nothing is shown for sale once its policy, device or listing was
  withdrawn; a code makes one device and hands out one credential; a policy has
  one source; what was recorded is offered or found ineligible.
* Staged storage and captures: what was published is never reclaimed, what was not
  can still be found and removed; a view shows the root it was built from.
* Quality control: the mark says what the queue does; a deleted trace keeps no
  report; every source that stays gets a report or is shown as failed.
* Inference: what the provider charged stays held until it is paid, once; a
  request is submitted at most once; texts last until their retention ends or their
  owner, the request being over, wants them deleted.
* Vault: whatever is or may still be stored is charged, once, within the limits.

`PROJECT.json` lists the hazards, each at its line, with the properties that
would catch it going wrong.

## 2. Modules

```
SaleEscrow  <---- implements ----  ThotMarket  <-- MCThotMarket, MCThotMarketMoney
                                        ^---------- ThotMarketProofs
CampaignReserve <--- extended by --- ThotTreasury --- instance (Pool) ---> StakingPool
      ^                                ^   ^-- CustodyProofs                   ^
      |                                |-- MCThotTreasury                      |
      |-- MCCustody --> VaultAccounting, ReleaseRetention <-- CustodyProofs     |
                                         ^-- MCReleaseRetention                |
StakingPoolProofs ------------------------------------------------------------>|
MCSpending -------------------------------------------------------------------->
MCSpending ---> InferenceGateway --- extends ---> Ledger
                       ^-- GatewayAndSaleWorkerProofs
                                                    ^
MCMandateMarket --> MandateMarket --- extends ------|
      |      ^--------- MandateMarketProofs --> Connections
      |--> Connections                              |
SumTheorems --- extends ----------------------------|
OperatorJournal <-- MCOperatorJournal, OperatorJournalProofs
SaleWorker      <-- MCSaleWorker, GatewayAndSaleWorkerProofs
StagedStorage   <-- AgentCapture, TraceQc <-- MCCaptures, CapturesProofs
```

Four MC modules put several components in one run; in MCSpending, MCCustody and
MCMandateMarket a behaviour runs one of them (`live`) and leaves the others where
they are, so that the run is the union of their state spaces. In MCCaptures captures
and quality checks share one vault, one table of attempts and one clean-up, and two
cases let both run.

* **ThotMarket** - one action per external call of `ThotMarket.sol`. A
  transaction is atomic and `nonReentrant`, so one call is one step; a call that
  reverts is a call whose guard is false. An offer id is the pair (buyer, nonce)
  that `offerId` hashes; a hash is the record it commits to. `now` is a bounded
  counter and every window of the code a constant. Signatures are a constant set
  of (digest, signer) pairs: what has been signed, by whom, is given. A sale that
  the reserve makes carries `treasury = TRUE`. `rateBps` is what
  `ThotFeeDiscounts.rateBps` answers; `holdingsChange` lets it change at any
  time, which covers transfers, stakes, claims and new policies.
  Gifts of tokens to the market are left out: no function reads its balance
  except to compare it across one transfer.
* **SaleEscrow** - what the market promises: a payment is taken once with a fixed
  allocation, and leaves once, as that allocation, as a refund, or halved by a
  ruling. `ThotMarket!ImplementsEscrow` maps offers and claims to it.
* **StakingPool** - one action per external call of `ThotStakingPool.sol`.
  `createCampaign` and `closeCampaign` take what their caller moves in the same
  transaction (`carried`, `recovered`), so that the treasury's calls are steps of
  this specification.
* **CampaignReserve** - one action per external call of `ThotCampaignReserve.sol`;
  `Shared = TRUE` turns on the changes the subclass `ThotTreasury.sol` makes. The
  market appears as what it holds for an acquisition and what it has credited.
* **ThotTreasury** - extends CampaignReserve with the staking calls, and
  instantiates StakingPool over the pool's own variables and the same clock.
* **OperatorJournal** - `operatorTransaction`, `reconcileJournal` and
  `settleJournal` of `packages/chain/thot.ts` over the journal of
  `thot-market.ts`. Each process is one worker (its `operatorQueue` serialises
  it) with a program counter `at[w].pc` and what it has read so far; one step is
  one database transaction or one read of the chain. `Begin ... Reconciled` is
  the reconciliation (newest row first, then the binary search for the suffix
  that was reorganized, then the unsettled rows), `FindReceipt ... Record` the
  settling of one row, `LookUp ... Return` the operation itself. The chain is a
  tree of blocks with a moving head; `pool` is what the node remembers, `sent`
  what the network ever received; `SendForeign` is a transaction with the same
  key from outside the journal. `Crash` forgets a worker's place and nothing else.
* **SaleWorker** - `processSales` with `prepareOffer` and `queueSamples`. A worker
  keeps a whole copy of a job's document across its steps and writes the whole copy
  back; a step is one database transaction, one read of the confirmed chain or one
  operator transaction. Buyers, who pay with the authorization (`Fund`) or offer without
  it (`CreateOffer`, `AcceptOffer`, `CancelOffer`), revocations, disputes, votes,
  deadlines and calls sent by hand move the chain in between; `Fork` and `Reorganize` replace its last
  blocks once; `ProcessDies` forgets a worker's place. The journal is what
  OperatorJournal shows of it: an operation is sent once and its outcome found again.
* **ReleaseRetention** - the sealed copies sold from one trace. A sweep
  (`BeginSweep`, `ReadAuthorization`, `ReadOffer`, `Apply`, `Discard`, `Commit`)
  reads rows, then the chain without the lock, then takes the lock if neither
  rows nor deadlines moved; the deletion job (`BeginJob`) does all under the
  lock. `copies` is the vault: `Discard` changes it at once, the rows change at
  `Commit`, and `Fail` between them rolls back the rows only. `listingFails` is
  `listTrace` cut off between the seal and the commit: its copy has no row (a stray).
  Deadlines are events; the chain has a head and a confirmed snapshot. A sale is
  funded with the listing's authorization (`Fund`) or, by a buyer who calls the
  contract himself, without it (`createOffer`, `acceptOffer`).
* **Ledger** - `packages/ledger`: books of journals by reference; a balance is the
  sum of its entries.
* **MandateMarket** - `ThotService` of `service.ts` with the worker of
  `chain-worker.ts`. `tables` is the whole database, so that a command is an update
  of one value and a failed one leaves it alone; `vault` keeps what a failed
  transaction removed or sealed. A job runs (`RunJob`) or fails (`FailJob`), which
  counts an attempt; `past` holds the times that have come. A job that changes
  several rows is one function of the tables. A case says which mandates, traces
  and events a behaviour has.
* **Connections** - stream policies, devices, pairing codes and the worker's pass
  that lists recordings. An action is one transaction: where a browser's request is
  stands in `calls`, where a worker's pass is in `passes`, and between two actions
  everybody else may act or the process may die. A device is named after the
  request that made it, a listing after its recording, the contents of a recording
  by their version. `setting` says which requests, recordings, passes, events and
  faults a behaviour has.
* **InferenceGateway** - `InferenceGateway` and `InferenceReconciliation`. The
  process that executes a request is `running[r]`; the provider charges or refuses
  (`Charge`, `Refuse`) between `Generate` and what the process learns of it.
  Evidence is a sequence of signed records two different operators pass. A deletion and
  the sweep take texts out of the vault before their transaction commits:
  `DeleteFails` and `SweepFails` are those that are rolled back with some texts gone.
* **StagedStorage** - `staged-storage.ts`: a run reserves an attempt under its key,
  writes an object down, uploads it, confirms it, and publishes in one transaction
  fenced by the attempt; what it reads and writes itself comes from the module that
  extends it (`Publish`, `Refuse`, `Changed`).
* **AgentCapture**, **TraceQc** - extend it with captures and their views, and with
  quality checks. `KeyOf` says which requests of the owner share an idempotency key. A root is the number of the parts it covers; a version of a
  source is a number, and versions may have the same content.
* **VaultAccounting** - `SqlRemoteAccounting` and the remote half of `VaultStore`:
  put and delete, each in three steps in two stores; `sent` are uploads nobody
  waits for that the provider may still accept.
* **MC...** - the instances TLC checks. **...Proofs** - the theorems. SumTheorems
  holds those about finite sums and the balances of a ledger, which five other proof
  modules cite.

An operator named `X_Y`, just before an operator `X`, is `X` with a plausible
bug: a dropped guard, a missing reset, a rounding the wrong way. No specification
uses it. `PROJECT.json` (`mutants`) says which property of which run catches it
when it takes the place of `X`: each property is known to be able to fail.

## 3. Runs

All bounds are in the configurations and the MC modules; prices, tariffs and rates
are chosen so that roundings and caps are reached.

| Run | What it explores | Bounds, and why they are enough |
| --- | --- | --- |
| market_disputes | one sale, all dispute calls, three reviewers of whom one buys and one may be the referrer; the market perhaps paused for ever; under fairness | a threshold of two with one party excluded is the smallest case where quorum, exclusion and default differ; the clock (9) runs beyond the last deadline of the longest path (disputed, upheld, finalized) |
| market_money | sales that overlap, with discounts, referral, treasury sale, refunds, burns, claims by all three kinds of account; the referrer and the policy are bound before the first sale and the market is not paused; or three wallets that refer one another | one ordinary and one treasury sale have every way of leaving escrow while the other is still held; a cycle needs two wallets, and a third one to close it elsewhere |
| market_consent | sale and stream authorizations, spent by two buyers, while reviews race governance | three purchases within the time in which all authorizations are valid: one usable twice, by either buyer; one that reuses its nonce with other terms and expires first; two signed under a stream that allows one sale, one of them for the treasury only. Minimum retentions lie between what the two tariffs leave the seller, so that a change of tariff decides whether a use is allowed. Changes of the tariff and of the operator are queued, cancelled and executed around every sale. Consent is used when a sale is funded and no later, so sales go no further than their acceptance (`ConsentBound`). Nobody is referred and no holder has a discount here: these conjuncts of `ReviewsAreCurrent` are exercised by the theorem only |
| spending | two owners, three positions, one campaign, two menus of rates; or two requests to the provider | the list of an owner has two entries, so a claim moves one; rewards are rounded both ways. Credit and the daily budget are two reservations, so the second request is refused while the first is held; one of them fails and lapses; two records of evidence are what a conflict needs. Deletions and sweeps may be rolled back after any of their removals, and leave rows that name removed texts; `RequestsEnd` assumes that some later sweep succeeds (below) |
| treasury | one acquisition campaign and one staking campaign over nine tokens | either may take all the tokens, and each can return its budget to the other |
| custody | the reserve (two campaigns, two purchases, two steps of unlocking); or the vault (three objects, three calls); or retention (one listing, two sales of an authorization for one) | either campaign may be closed, spent or refunded while the other is open; two objects fill the owner's and the users' limits and the third is the journal's, and three calls overlap on one object; the second sale is what makes an authorization used up while another sale is prepared, or is offered directly, while no other sale is prepared (`DirectAlone`); any listing may fail half-way |
| operator | two processes that sign one operation at two fees; or one and a transaction sent by hand; or one with two operations and a reorganization; crashes anywhere; under fairness | two writers and two fees are what a second signing needs; the foreign transaction takes a nonce before or after theirs; one reorganization drops any suffix that is settled, recorded or half recorded, and two rows make "newest" and "earlier" differ |
| sale_worker | five scenarios of at most two sales of one content: two workers on one sale, an automatic and a manual purchase, a sale nobody pays for beside one that is disputed, a reorganization, a sale that may be offered without the authorization, also after its job was closed; under fairness | a page of one job (`PAGE`) makes the second wait for the cursor; two sales of one content are what a claim is for; failures and crashes happen at every step |
| mandate_market | six cases: evidence, deletion, times and failing jobs; operators' pauses; two traces and partial funding; what a contributor does with the money; two mandates on one trace, one exclusive, under policies that expire; a standing policy with an exclusive mandate and deletion; or six settings of the connections: two browsers approving one code amid denial and lapses, a device and the relay with one policy, revocation, unlisting, disconnection, reprocessing and lapses under two workers | each case holds what interferes with one of the properties; two units or two mandates are what a budget and exclusivity need; two failed attempts give a job up (`MAX_ATTEMPTS`, 5 in the code). A page of one recording (`PAGE`, 20 in the code) makes another wait, two devices are the limit (`MAX_DEVICES`, 40); two policies, one code, two recordings, two workers and one fault are what a second use, source or listing needs |
| captures | sixteen cases of captures or of checks, and two with both: the same part sent twice and under two keys, two checkpoints, a save beside the final one; two workers, or a worker and the owner, who may ask twice under two keys or under one, on versions that report, throw or are too large | a crash, a lapse, a fault and an ending once each, in the combinations the case names; each pair of runs is one that meets in the code |
| operator_newest | the operator instance: a finding (below) | |
| retention_funded | the retention instance without sampling: a finding (below) | |

`CHECK_DEADLOCK FALSE`: these instances bound their clocks and what is ever created,
so a system whose business is done stops. The operator's runs check deadlock.

Several properties are conjunctions of named parts: `OutcomeIsTheQuorums` (with
`CaseMatchesOffer`), `EveryOfferSettles` (with the payment of claims),
`ReferralsAreEarned` (with `NoReferralCycle`), `ConsentIsHonoured`
(`ConsentIsBounded`, `AuthorizedSalesHonourTerms`), `MaturedAreClaimable` (with
`PoolTotalsAreSums` and `ActiveListsMatchIndex`), `SpendingIsAuthorized`
(`AllocationsAreBacked`, `AuthorityIsFinite`, `SpendingFollowsSchedule`,
`AcquisitionsAreFinal`), `ImplementsPool` (with `TreasuryOnlySpendsOrStakes`),
`FundedSalesArePaidOut` (with `DroppedCompletionsReopen`), `QueuedWorkIsDone`
(`LicensesAreSettled`, `DeletedTracesLeaveNoCopies`), `ChargesAreHeld` (with
`SubmittedOnce`), `UsageIsTheSum` (with `QuotasHold`), `SalesMatchTheLedger`
(`LedgerMatchesTables`, `SalesStayWithinTerms`), `ReportsAreCurrent`
(`MarksMatchJobs`, `DeletedTracesKeepNoReports`), `CaptureWorkEnds` (`CapturesEnd`,
`ChecksEnd`) and `ObjectsStayAndAreTracked`.
Their parts break one at a time in the same states, and share one exploration.

### Fairness

* `market_disputes`: weak fairness of the clock, of `refundExpired`,
  `refundUndelivered`, `finalize` and `finalizeExpiredDispute` for each sale, and
  of the claim of each account. The contract leaves the four calls open to
  everyone, and the sale worker sends each of them again every cycle until the
  chain shows it done; claims are the account's own interest, or are sent for it
  by `claimFor`. Nothing is assumed of buyers, sellers, reviewers or the
  governor; in particular the market may stay paused for ever.
* `operator`: of one process `w1`: it keeps taking its steps and crashes only
  finitely often; its cycle reconciles each time and asks again for what is not
  settled (strong fairness of `Begin`, since another operation may be at work when
  it is due); a send repeated for ever gets through once. Of the chain: a
  transaction the node holds again and again is mined, and blocks keep coming.
  Nothing is assumed of the second process: it may stop anywhere. Reorganizations
  and forgetting are bounded or unfair, never excluded.
* `sale_worker`: each worker of the scenario takes its next step (the loop of
  `apps/worker/main.ts` begins a cycle again), crashes and failures end at some
  point, and deadlines come. Nothing is assumed of buyers and sellers.
* `mandate_market`: the worker runs the oldest job again and again, which completes
  or fails; a job that fails too often is given up, and the properties say so. Of the
  connections: a pass of the worker takes its next step and passes begin again, and
  the release of a recording is prepared in the end. Nothing is assumed of browsers
  and helpers.
* `custody`: the worker's cycle begins a sweep again and again (strong fairness:
  the lock may be taken when it would begin), finishes what it began, and fails
  only finitely often. The deletion job may end as failed for good (five
  attempts), so the sweep alone must remove what is left.
* `captures`: processes that run go on, the worker, the clean-up and the sweeps are
  called again and again, leases end. A crash ends a client for good; its user need
  not come back.
* `spending`: the sweep is called again and again, and the times it looks at come; a
  sweep may fail, but not always. Nothing is assumed of processes, the provider or
  operators.

### Findings

* `operator_newest`: `thot.ts:392` says that checking the newest recorded block
  "also verifies ancestry of earlier entries". It does not when a
  reorganization falls between that check and the next row's record: the newest
  row is then on the new branch while an older one names a dropped block, and
  `reconcileJournal` returns early from then on. `OnlyTheJournaledIsSent` still
  holds; the older operation is only sent again when it is asked for, when a
  later reorganization drops the newest row, or by nobody. (`EveryOperationLands`
  holds because jobs keep asking.)
* `retention_funded`: `docs/private-retention.md:7` says that deleting a source
  does not revoke funded copies. Retention reads the chain at the confirmed
  snapshot: a sale funded in a block above it reads as not funded, and once the
  source is deleted nothing else keeps the copy. A live source keeps it, because
  the authorization then still reads as unused.

Met while modelling, without a run of their own:

* with a listing prepared for a stream (`Streamed = {l1}`) TLC finds
  `PaidReleaseIsKept` violated. After the 15 minutes for signing, a sweep removes
  the copy of the unsigned listing; the transaction then fails and its rows are
  rolled back; a stream listing may be activated however late
  (`thot-market.ts:221`), and is sold without a copy. `custody` checks the property
  for listings that are not prepared for a stream;
* outside development `fundMandate` sets a mandate that is already fully funded to
  `pending_funding` (`service.ts:278-281`); a confirmation of its funding then
  replays, or is refused by the limit, and the mandate stays there;
* in a matching job, a standing authorization that fails for one trace rolls the
  whole job back (`service.ts:402`), also the candidates of other traces; releases
  it had sealed stay in the vault and no row names them
  (`DeletedTracesLeaveNoCopies` does not speak of them). The same happens to a
  listing: `listTrace` seals before it inserts and commits (`thot-market.ts:211-214`),
  and when that fails the copy stays, no row names it, and the record of a later
  deletion says that everything is deleted. `DeletionReportIsTrue` names these copies
  (`Strays`); only the operator's inventory of a stopped local installation
  (`packages/operations/src/orphans.ts`, `inventoryOrphans`) finds them;
* a buyer who calls `createOffer` himself for a prepared sale needs no authorization.
  Retention keeps the copy for him while the confirmed chain shows the offer, but
  nothing else does: when the authorization can no longer be used, a sweep that reads
  a snapshot from before the offer removes the copy, which the seller may then accept
  to sell. `PaidReleaseIsKept` speaks of sales under the authorization. Likewise the
  sale worker never looks at a job again that it closed unfunded; an offer made after
  that ends when the buyer cancels it or anybody calls `refundExpired`
  (`OfferedLate` in `FundedSalesArePaidOut`);
* the reserve contracts' own `purchase` (`ThotCampaignReserve.sol:176`,
  `ThotReserveVault.sol:147`) offers without an authorization too; the application
  only ever prepares `purchaseAuthorized` (`thot-market.ts:350`, `367`), so
  SaleWorker and ReleaseRetention have no direct offers of the treasury;
* a policy whose `effective_at` is in the future is matched when it is created and
  then only when something else queues a matching job;
* the context of an expired capture without a trace is never removed
  (`service.ts:473` against `capture-devices.ts:70`);
* `openrouter-relay.ts:162` stores what the relay records with `save_privately`, so
  `listTrace` answers `TRACE_INELIGIBLE` and the recording becomes ineligible, while
  the notice at `openrouter-relay.ts:8` says that it is offered for sale;
* an offer stays where it is for ever when its listing is withdrawn before it was
  signed, when its contents change after `listTrace`, or when a recording of the
  relay has no assessment; a page (20) of them keeps later recordings from being
  offered (`RecordingsAreOffered` speaks of those that are not stuck);
* an approval whose process dies leaves its code `approving` until it expires;
* `agent-capture.ts:206-218` marks the view as failed although a commit of unknown
  outcome stored it as ready; after a commit of unknown outcome in the last attempt
  of a quality check the mark says failed although the report exists, which
  `readCurrent` hides by looking for the report first;
* of two requests of the owner under one idempotency key, the first may ask and wait
  while the second publishes without coming to know it, and has its check shown as
  failed and retried; the first then claims the new job, its command is answered from
  the result under the key, and `performJob` ends the job while the mark stays
  "running", although the report is there (`trace-qc.ts:175-178`, `202`, `267-268`).
  The run reaches this. The properties name it (`Replayed`) and hold otherwise; no job
  is queued for such a version again, and its retry is refused.

## 4. Proofs

The theorems hold for every value of the constants that satisfies the named
assumptions. Each is `Init => IInv`, `IInv /\ [Next]_vars => IInv'` (one step per
action) and `IInv => Inv`.

| Module | Theorems | Argument |
| --- | --- | --- |
| ThotMarketProofs | TypeCorrect, PaymentsAddUp, MarketIsSolvent, CasesMatchOffers, SellersAreHeard, NoRulingIsReopened, DiscountsLeaveTheDirectCost | `Typed` (types and `OffersAddUp`) is inductive; solvency, the agreement of cases and offers, and the seller's hearing are inductive on top of it, one step per call |
| | OutcomesAreTheQuorums | `AllTallied`: a tally is the number of votes on it; with `CasesKept`, what a case was opened with stays |
| | ReferralsAreAlwaysEarned | `ReferralsKept`: the walk of at most `MaxReferralDepth` steps that refuses a referrer finds any circle (`NumberInduction` over its length) |
| | MarketImplementsEscrow | `AllSound`: what SaleEscrow sees of a sale is what it was funded with; each call is a step of one sale, a claim or a stutter |
| | ConsentIsAlwaysHonoured, ReviewsAreAlwaysCurrent | `UsesAreAllowed`: only an authorized funding moves a nonce, by one use of its terms; a revoked or used-up nonce moves no more; a share rounded up is enough (`RoundedUpIsEnough`). Every funding is what the digest of a current review says (`FundedAsSeen`) |
| StakingPoolProofs | PoolTypeCorrect, PoolIsAlwaysSolvent, RewardAlwaysCoversTheCap, MaturedAreAlwaysClaimable | `PoolInv`: types, solvency, deposits within the cap, and the budget covering the rest of the cap at every rate; `PoolBooks`: totals are sums over the positions, each list agrees with its index, and every open position is staked. That a claim is possible is its guard (`MayClaim`), proved true |
| OperatorJournalProofs | JournalTypeCorrect, OperationsAreSentOnce, NoncesAreExclusive, RecordsStayTrue, RowsAreKept | `TypeOK` (types, and what a worker holds at each place) is inductive; on top of it `JournalInv`: rows match their operation, nonces differ, what is sent or about to be settled is journaled, settled rows are true |
| CustodyProofs | ReserveTypeCorrect, AllocationsStayBacked, AuthorityStaysFinite, SpendingStaysOnSchedule, AcquisitionsStayFinal, SpendingStaysAuthorized | `ReserveInv` adds that created campaigns are well formed and the others blank |
| | TreasuryKeepsItsPromises, TreasuryImplementsPool, TreasuryNeverLocksStakersOut | `TreasuryInv`: `ReserveInv`, the pool's `PoolInv` under the treasury's names, and what is held for an acquisition. Each call of the treasury is a step of the pool or leaves it alone, so the pool's theorems carry over |
| | StorageIsCharged, QuotasAreKept, UsageIsAlwaysTheSum | `VaultInv`: types, and at each place of a call the status its row must have; usage is the sum of the rows charged to it (`RowsAddUp`) |
| | RetentionInvariant, OrdinaryReleasesAreKept, PaidReleasesAreAlwaysKept, DeletionReportsAreTrue | `RetentionInv`, below |
| GatewayAndSaleWorkerProofs | GatewayInvariant, ProviderChargesAreHeld, ChargesAreInvoicedOnce, TextsOfRowsLast | `GatewayInv`: a request's row agrees with its process, the provider and the evidence; texts are of one row; a journal is posted only for what its row says, and the balances are the sums of that |
| | SaleWorkerInvariant, FundedContentStaysHeld, CompletedSalesAreOver | `SaleWorkerInv`, below |
| MandateMarketProofs | ConnectionsTypes, NothingStoppedIsSold, ConnectionsStaySingle | `ConnectionsInv`: a code serves one request, a policy and its device name each other, a pass that signs holds a listing of a device |
| | SoldReleasesAreAlwaysKept, SalesAlwaysMatchTheLedger, MatchesAreAlwaysQueued | `MarketInv`, below |
| CapturesProofs | CapturedObjectsStay, ReadyViewsShowTheirRoot, ShownReportsAreCurrent | `StagedInv`, `CaptureInv` and `QcInv`, below |
| SumTheorems | SubsetInduction, SumTakesAny, SumOfUnion, SumChanges | see "Sums" |

Why the strengthenings are needed. `OffersAddUp` is what makes the amounts a
finalization pays natural numbers; it holds because the two discounts and the
largest referral are each a share of the contribution
(`DiscountsLeaveTheDirectCost`), and because `_createOffer` refuses what does not
add up. `RewardCoversTheCap` needs that rewards rounded down are superadditive
(`RewardSplits`) and grow with the rate (`RewardMonotone`), both proved from
`RewardIsFloor`: the code's division before multiplication is the exact floor.
`SpendingFollowsSchedule` needs that the unlocked part grows with time and stays
within the budget (`UnlockedGrows`), which holds only of campaigns whose first
tranche is within their budget and that end after they start (`AllWellFormed`).
`OnlyTheJournaledIsSent` is not inductive by itself: a worker sends the
transaction of a row it read many steps ago, so the invariant must say that every
row a worker still holds is the journal's (`TodoHeld`), and that in turn needs
that no writer ever replaces a row's transaction, which is the condition `put`
checks (`CanPut`) and the action property `RowsKeepTheirTransaction`.
`StoredIsCharged` is not inductive either: a call that uploads must have its row
pending, and one that removes must have it deleting, until its own last step.

Retention. A sweep reads the chain without the lock and removes copies by what it
read. `PaidReleaseIsKept` therefore needs what a read still implies when it is
applied: the confirmed snapshot is behind the head, an authorization that reads as
unusable is never used again (`SpentIsFinal`), and a sale that reads as not running
is over, or was never prepared while the rows stayed (`SalesArePrepared`,
`ReadsAreSound`). `LockIsHeld` and `PlacesAreSound` say that the rows a sweep acts on
are those it read, `CopiesAreKept` and `CopiesAreLost` that a copy goes only with the
last use of its listing, and `CopiesAreRecorded` that every copy is one of a row or a
stray of a listing that failed, whence `DeletionReportsAreTrue`. `OrdinaryReleasesAreKept` is for the listings that are not
for a stream: for those TLC has the counterexample of section 3.

The mandate market. `MarketInv` has five parts over types and `JobsAreSound` (a job
names rows there are). For `LicensedReleasesAreKept`, `ReleasesAreRight`: a candidate
has one release, a license that runs keeps its candidate, and a release goes only
when no license needs it. A job that is rolled back changes the vault
and not the rows, so the part is proved of the old rows in the new vault
(`ReleasesStay`). For `SalesMatchTheLedger`, `WithinTerms` and `LedgerIsRight`: a
journal is posted once and only for a row, shares of a license add up to its price,
and the balance of each account, also of one no row has yet, is what the rows say.
For `MatchesAreQueued`, `MatchesAsked`: while sales are open, a pair that could be
matched is matched, asked for or given up. A matching job walks the traces; that it
leaves none out is induction over those that are left. Actions that change nothing
matching reads are proved together ("quiet").

Captures and checks. What every step of staged storage leaves true is proved once.
`StagedInv`: an object in the vault belongs to an attempt that is older than its run's,
or to one that got as far as the upload, and where a run is says what its attempt has
noted. `Steady` says of each step that objects whose attempt is over and forgotten
(`Out`: published, or never stored) stay out and stay stored, and that whatever else is
in the vault is noted in an attempt. A process that lost its lease may still upload,
confirm and commit; that it harms nothing published is this lemma, not an assumption.
`CaptureInv` adds what is shown (`ShownOk`: it is out, not among what is about to be
removed, and stored unless the trace is deleted) and, of each job, that what it is about to remove is
shown nowhere (`JobOk`). `QcInv` adds that the mark follows the queue (`Matches`), that a
version's claims are counted by its retries and attempts (`CountsOk`), that a command
with a result has left a report (`DoneOk`), and of each run (`CheckOk`) that its key is
its own, that what it read is still good for the commit, and that a run that is done and
still authorized has its mark. Where a run's key is another request's too (not `Alone`),
its command may have had a result before it began; then the report is there, which is all
the invariant says of it, and `ShownReportsAreCurrent` excepts its mark (section 3).

The sale worker. `FundedContentIsHeld` and `CompleteJobsAreOver` are not inductive:
buyers fund, sellers revoke and others settle between any two steps of a worker, and a
worker writes whole copies of documents it read long before. `SaleWorkerInv` says that
a reserve sale that is *or may still be* funded holds its content (`AliveSalesHold`), so
that a funding between the worker's read and its write finds the claim there; that
no revoked authorization is ever used (`RevokedIsUnused`), so that a sale found closed
stays closed, except to an offer without authorization, which its closed job may outlive; that complete documents are of sales that are over, in the table
(`DocumentsAreOver`) and in the copies each worker still holds (`JobsAreSound`); and, at
each place of a worker, what it read that the chain cannot take back (`ReadsStand`).
`Kept` is what no step takes back: a funded sale stays funded, a finished one
keeps its outcome, and an authorization that cannot be used never can again. Two workers on one
job are covered, since nothing in it depends on who holds the job. The pages are sorted
sequences the library only chooses; that there is one to choose is `SortingExists`, by
induction over finite sets. After a deep reorganization the invariant claims
nothing, as the two properties do: what then holds is that the work is taken up again,
which is liveness.

Sums. The library's sums take an element they choose and are recursive functions on
sets, for which no induction theorem can be instantiated with an operator. `SubsetInduction`
states induction for a *set* of sets, so that a statement becomes the set of subsets
it holds of; `SumTakesAny` (the choice does not matter) and the others follow, and
the balances of Ledger (`BalanceIsSum`) from them.

The proofs rest on the named assumptions of the modules (`AccountsAssumption`,
`ConsentAssumption`, `WindowsAssumption`, `PricesAssumption`, `PoolAssumption`,
`ReserveAssumption`, `TreasuryAssumption`, `OperatorAssumption`, `NoneAssumption`,
`VaultAssumption`, `RetentionAssumption`, `InferenceGatewayAssumption`,
`MandateMarketAssumption`, `CaseAssumption`, `ConnectionsAssumption`,
`AgentCaptureAssumption`, `TraceQcAssumption`, `SaleWorkerAssumption`,
`ScenarioAssumption`), which TLC
evaluates in every run. They say that amounts, times, prices, uses and limits are
natural numbers and basis points positive, that the sets summed or sorted over (objects,
reviewers, requests, sales, a case's mandates and traces) are finite, that values which mean
"none" are not among the others, and what constructors, setters and schemas require:
a mandate's budget pays for one unit (`mandate-draft.ts:41`), the referral walk has a
bounded depth, listings and sales have different identifiers, the provider's costs are
within the reservation, the root revision a client saves is at least 1
(`agent-capture.ts:281`).

Model-checked only: liveness under fairness, and whatever needs ENABLED, which are
beyond the prover. Every safety property of a passing run is stated by a theorem. What a
recursive definition computes for every input cannot be proved either; no module with a
theorem uses one except through the induction above.

## 5. What the models leave out of the code they model

* OperatorJournal: the guarded reads of `packages/chain/thot.ts` other than those of
  the journal.
* ReleaseRetention: trade evidence, direct offers of the treasury (section 3), the private objects of a trace (MandateMarket
  removes those of a mandate's trace), a second worker or listing.
* SaleWorker: direct offers of the treasury (section 3), documents of listings, sampling of streams, the API's reads, evidence.
* MandateMarket: the path with real money (`chain/anvil.ts`), the mock adapter,
  `editMandate`, direct costs, several currencies, several receipts for a trace. What
  a policy allows is the set of mandates it allows, which stands for categories, buyers,
  purposes and licenses alike; `expires_at` is an event (`PolicyExpires`),
  `effective_at` is in section 3.
* Connections: one contributor; the wallet's signatures verify; what a relay's requests
  carry; pairing for history and Robinhood; the revocation of a stream on the chain,
  which ThotMarket has.
* InferenceGateway: a verifier's final evidence, the operational controls; a sweep is
  one transaction; a process that generates after the sweep took its request is the
  same late answer.
* StagedStorage: one object stands for those a command seals in a row; the rows of
  abandoned attempts with nothing written down are forgotten.
* AgentCapture: edits of the library, reprocessing, imports, `context_ref`, inherited
  personal objects, the in-process join of identical calls, quotas, heartbeats; one
  worker; identical pending deletions are one job.
* TraceQc: what a check computes, owners' reviews and consents, the storage quota,
  cached manual reads, a key reused for another version.
* VaultAccounting: encryption and the file store, which accounts in the same process.

## 6. Not modelled, and the plan

`PROJECT.json` lists every component with its status. Wording, logging,
rendering, byte encodings, cryptography and the numerics of quality control are
left out for good; the token is a fixed-supply ERC-20 whose transfers are part of
the calling contract's step. The governor's timelock (`ThotMarket.sol:306`) is
modelled but no property is about it alone.

In order:

1. **LockVault / HolderRewards**, **ReserveVault**, **LaunchMarket**: the
   remaining token contracts; rebates against the fee actually retained.
2. The mandate contracts (`AtomicTraceMarket`, `MandateEscrow`) under the path with
   real money.
