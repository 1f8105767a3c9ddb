# Accord: a TLA+ verification of the multisig treasury and its services

Accord is a multisig treasury on Stellar: a Soroban contract that holds the
owners, their weights and roles, the proposals and the money
(`contracts/accord/src/lib.rs`), an indexer that copies its events into a
database and pushes them to subscribers (`indexer/src`), an analytics API over
that database (`analytics-api/src`), a TypeScript SDK (`packages/sdk/src`), a
web console (`frontend/src`) and scripts that run beside them (`scripts`). This
directory specifies and checks the parts whose correctness depends on the order
of steps, and proves the most important properties for every instance.

Paths below are relative to `src/`; `lib.rs` is the contract.

## 1. Inventory

| Component | State it keeps | Operations | What makes it hard | What makes it correct |
|---|---|---|---|---|
| Proposal lifecycle (`lib.rs`) | `PROP` records, `APPR` weights, `ACTIDS`, `ACTCNT`, `NEXT` | `create_*_proposal`, `approve`, `approve_sponsored`, `revoke`, `cancel_proposal`, `execute`, `cancel_expired`, `sweep_expired` | status is derived from stored status, tally and time; the index of active proposals is purged lazily; a proposal is validated when made and again, against another state, when executed | statuses only move forward; the tally is the sum of the recorded votes; the index misses nothing open; a quorum always has its timer |
| Owners, roles, threshold (`lib.rs`) | `OWNERS`, `TWGT`, `THRESH`, `ROLE`, `ROLEMEM`, `MAXOWNP` | `initialize`, seven proposal kinds, `set_max_single_owner_weight_pct` | open proposals depend on an electorate that other proposals change | threshold and open quorums stay attainable; removed owners' votes vanish; the total covers the weights |
| Emergency stop (`lib.rs`) | `GUARDIAN`, `FROZEN` | `freeze`, `unfreeze`, `set_guardian`, `TransferGuardian` | lands between any two other calls | nothing is created or executed while frozen |
| Treasury (`lib.rs`) | token balances, `ESC`, reserved amounts, spend trackers and windows, approved tokens, `RECOV` | `create_proposal`, `Transfer`, `CreateEscrow`, `release_escrow*`, `refund_escrow`, `SetSpendingLimit*`, registry kinds, `enter/exit_recovery` | batches with a failing leg; several ways to spend one balance; window boundaries | an escrow is paid once and can be paid; a limit bounds what a window spends |
| Recurring payments (`lib.rs`) | `RECUR` schedules, `ACTREC` | create, cancel, pause, resume, modify, `disburse_recurring`, `claim_stream` | arithmetic of vesting; status derived from time; a count kept by five entrypoints | never pays more than the terms it had; the count matches the active schedules |
| Classic aliases, migrations, upgrade (`lib.rs`) | names; version flags | `set_classic_asset`, `migrate_to_*`, `upgrade` | - | not modelled |
| Indexer sync (`indexing.js`, `finality.js`) | cursor, next ledger, last seen ledger | one batch per timer tick, rewind on rollback | held-back tail, page limits, a head that goes backwards, crashes between writes | every final event is stored once, eventually |
| Indexer store (`store/`) | entries, balances, events, outbox tables, destinations, schema | `recordTransfer`, `recordAccordEvent`, `rewindToLedger`, `enqueue*`, `claim*`, `complete*`, reconciliation, migrations | transactions versus single statements; two back ends that must agree | running balances fold the entries; both back ends answer alike |
| History commands (`commands.js`, `replay.js`) | a resumable checkpoint | `backfill`, `reindex`, `replay`, requeue | run beside the live indexer; are interrupted | same content as a live index |
| Outbox (`webhooks.js`, `notifications.js`) | cursor per subscriber, deliveries with attempts | enqueue, claim, send, complete, requeue | crash after sending; late answers; retries overtaken | every matching event is delivered or dead, in at most the allowed attempts |
| Notification destinations (`notifications.js`, `api.js`, the console's panel) | the table of destinations, their cursors | save, delete, test, load and send | edited while the worker works with the list it read | every letter goes by the destination that holds when it is sent |
| Service shell (`index.js`, `metrics.js`, `health.js`) | timers | - | overlap of ticks | read-only |
| Alerts and cache (`alerts.rs`, `limits.rs`) | cooldowns, storm window, cursor, `alerts` table; cached answers | evaluate, record, dispatch; admit, answer, invalidate | crash between record and dispatch; an answer computed before the cache was dropped | an alert is raised exactly when its rule says, and sent once; an answer is as new as the last drop but for those that crossed it |
| Report schedule, queries (`schedule.rs`, ...) | run log | run and mail reports | repeated runs | not modelled |
| SDK (`client.ts`) and console calls (`submit.ts`, `contract.ts`) | in-flight keys | validate, encode, simulate, sign, submit, poll, co-sign | a timed-out transaction may still land | no double submission; the wire form fits the contract |
| Console screens (`App.tsx`, `useContract.ts`, `useEventPolling.ts`, `eventPush.ts`) | what is on screen, loads in flight, timers, the push connection, the wallet | load, patch, poll, push, reconnect | loads, polls and pushes overlap and outlive the page | the screen shows the newest load and catches up |
| Dialogs (`Create*Modal.tsx`, ...) | step, fields, simulations and submissions under way | edit, review, preview, confirm, close | answers arrive after the user went on | what is sent is what was reviewed |
| Analytics screen, outlook, timeline (`useTreasuryAnalytics.ts`, `forecast.ts`, `contract.ts`, ...) | filters, five requests, schedules, weights, pages of events | query, fold, predict, page | several requests make one picture; pages overlap and repeat | figures agree with the records they are computed from |
| Scripts (`indexer.js`, `keeper-recurring.js`, `status-page.mjs`, `query-analytics.js`) | one file; a cycle; a committed document | page and fold; scan and disburse; probe and publish | interrupted between two writes; others act meanwhile | resumes without loss; pays what is due; publishes what it saw |
| Other pages, examples, fuzz, ops, docs | - | - | - | not modelled |

How they interact: owners and executors call the contract, each call an atomic
transaction; the contract publishes events; the indexer polls them ledger by
ledger, stores them and the outbox pushes them; the analytics API and the
console read the database and the contract; the keeper and the file indexer do
with the contract alone. Inside the contract the parts share storage: a
proposal's execution dispatches into governance, treasury or recurring payments,
and the electorate decides every later proposal.

`PROJECT.json` lists the hazards of the code line by line, with the properties
that watch each, and for every module the lines its definitions stand for.

## 2. Plan

Done: the contract (governance, treasury, recurring payments), the indexer with
its outbox, stores and commands, the clients, the console's screens and dialogs,
the analytics service, the scripts; proofs about the contract, the indexer, the
clients, the console's page, dialogs, reports and timeline, the alerts and cache,
the keeper, the status page, the notification destinations, the file indexer and the
schema of the store.

Left: a theorem about the rollback of a node that goes back (the theorems about
gaps, order and balances leave such nodes to TLC), the other half of
`AlertsExactOnce`, `OutlookSound`, the rest of `BackendsSound` and `ConsoleFits`
(section 5).

## 3. Modules

### The contract

| Module | Models | State and actions |
|---|---|---|
| `Sums` | sums of weights and amounts | `Total(f, S)`, by counting units |
| `Proposals` | lifecycle in `lib.rs` | `proposals` = `PROP`, `counted` = `APPR`, `activeIds`/`activeCount` = `ACTIDS`/`ACTCNT`; `Register`, `Approve`, `Revoke`, `CancelProposal`, `CancelExpired`, `SweepExpired`, `MayExecute`, `FinishExecute`; `Tick` is the ledger's clock |
| `Guardian` | `freeze`, `unfreeze`, `set_guardian` | `guardian`, `frozen` |
| `Governance` | `initialize`, the seven self-governing kinds, the weight cap | `Init`; `Propose<Kind>` = `create_*_proposal`; `Execute<Kind>` = the arm of `execute`; `SetMaxPct`; `ImplementsBallots`, by the mapping `BallotView` |
| `Ballots` | abstract: what a multisig promises | open, vote, retract, withdraw, lapse, carry; no tallies, no stored status |
| `Vault` | the treasury as outflows see it | `balance` (held by the token contracts), `reserved`, `limit`/`window`/`tracker` = `SLIM`/`SWIND`/`SPENT`, `registryOn`, `approved`, `recovery` = `RECOV`; `EnterRecovery`, `ExitRecovery`, `Deposit` |
| `Treasury` | the treasury kinds and escrow settlement | `escrows`, `nextEscrow` = `ESC`; `Propose<Kind>`, `Execute<Kind>`, `ReleaseEscrow`, `ReleaseEscrowByDeadline`, `RefundEscrow` |
| `SpendingHistory` | what the comment on `SPENDING_WINDOW` describes | history variable `spending`: start and sum of the current window |
| `Recurring` | schedules, over everything `Treasury` does | `schedules`, `activeRecurring`; five proposal kinds, `Disburse`, `ClaimStream`; history variable `terms`: the amounts, intervals and ends each schedule was ever under (`TermsSpec`) |

`Governance` and `Treasury` both extend `Proposals` through `Guardian`:
who decides is `Governance`'s concern, what decided proposals do to the money is
`Treasury`'s, which keeps the electorate of `initialize`.

A contract call is one transaction: it commits all its writes or, on `Err` or a
trap, none. So every successful call is one action, the conditions of its early
returns are the guards, and failing calls are stutters. Where the code writes and
then returns an error (`execute` on an expired proposal, lib.rs:3698-3702) the
host reverts the writes, and the model has no such step: the comment there
("Persist the expired status and free up the active slot") does not describe what
remains in storage.

Abstractions. `weight[a] = 0` stands for an address missing from the owner map.
An approval record is the weight it added, 0 when absent. `approval_weight`
always equals `approvals` and is dropped. Descriptions, categories, attachments,
events, storage lifetimes, `NEXT` (the length of the sequence) and authentication
(a caller is who it says it is) are left out. No entrypoint writes a delegation,
so the effective weight is the raw weight. Weights are at most 100 000 for at most
20 owners, so `u32` cannot overflow within the bounds `initialize` checks; the
model uses unbounded integers. Time starts at 1: ledger timestamps are positive,
and the code uses `ready_at == 0` for "unset". Amounts are small naturals: the
code's `i128` arithmetic is checked and reverts on overflow. A token contract is
external; it moves the amount when the balance suffices, and a call it refuses
reverts the whole invocation, so a batch that fails on a later leg is no step.
Recipients are outside the treasury (creation refuses the treasury itself) and
are dropped. The registry may start with any tokens approved, as earlier
proposals could have left it; `Standing` is likewise the schedules that earlier
proposals have left, valid and not yet paid from. `create_recurring_schedule`
(lib.rs:2424) stores records that nothing ever pays from and is left out.

### The indexer

| Module | Models | State and actions |
|---|---|---|
| `IndexerStore` | the store's methods | `db` = tables, checkpoints, cursors and outbox; one operator per method, each atomic as its transaction is; `conf` = a deployment's settings |
| `LedgerSync` | one indexing batch | `b` = the batch's local variables; each await a step: rollback check, page, each event, checkpoints; `closed`, `seen` = the network and the node's answers |
| `HistoryWalk` | `backfill`, `reindex` | `h` = the command's local variables; a checkpoint per page; interruption and reruns |
| `DeliveryOutbox` | both dispatchers | `t` = the tick; copy past the cursor, claim, send, answer, record, back off; `requests`, `accepted` = what receivers saw |
| `Indexer` | `serve()`: batch and dispatcher in one process, commands beside it | crash and restart; `FinalLog` by `ImplementsFinalLog` |
| `FinalLog` | abstract: what the indexer promises | a prefix of the final events that grows to the final ledger; a rollback may shorten it |
| `StoreBackends` | both back ends side by side, reconciliation, replays, migrations | every call made on a store of each kind, the answers compared |
| `Notifications` | destinations while they are edited, saved, tested and used | the table, cursors, letters; the panel's requests by slot, the worker's ticks |

An event of the chain is its position in `Chain`, which is what the tables'
unique key identifies. Everything between two awaits of the code is one step; a
crash loses the local variables and keeps the store. A page is what the node
answers for a ledger range or a cursor, from a view that may lag behind the head
and, where a deployment says `regress`, go back. The two channels of the outbox
differ in where their targets come from: subscriptions when the process starts,
destinations on every tick.

### Clients and console

| Module | Models | State and actions |
|---|---|---|
| `ContractInterface` | the exported functions | the wire form of arguments and answers |
| `SdkClient`, `ConsoleCalls` | every method of the SDK, every call of the console | what is validated, sent and made of the answer: the fields read of a record, the names known of an enum, what a proposal's card says by its kind |
| `Submission` | a call from click to outcome | `op` per click, `flight` = `inFlightSubmissions`; the node's `pool`, `landed`; simulate, sign, send, poll, retry, co-sign; lost requests and answers |
| `ConsoleAccounts` | accounts | - |
| `ConsoleScreens`, `LiveUpdates` | `useContract`, `App`, wallet; push channel and polling | `loads` in flight, `shown`, `owners`, `inflight`; `link`, `timers`, `tasks`, `left` |
| `Dialogs` | the dialogs that make proposals, one action per component of the screen | `step`, `draft`, `reviewed`, `ownersRead` (what the open dialog has loaded), `previews`, `calls`, `sent` |
| `AnalyticsScreen` | reports on the server, in the library, in the tool; the page's hook | `query`, `asking`, `figures`, `indexed` |
| `Outlook` | forecast, runway, health rating | `plan`, `purse`, `weights`, `fetched` |
| `EventTimeline` | a proposal's events, the weight history | `chain`, `answer`, `status`, `asOf` |

The contract is a version number on the screens: what matters of a read is which
version it saw. A React effect runs in the step that changes one of its
dependencies. What can be typed into a dialog is a table of drafts.

### Services and scripts

| Module | Models | State and actions |
|---|---|---|
| `AnalyticsApi` | the alert engine and watcher, statement by statement, and the response cache | `windows`, `lastFired`, `fired`, `seen`; `task`, `batch`, `raised`; `cache`, `requests`, `stamp` |
| `FileIndexer` | `scripts/indexer.js` | `file` replaced as a whole unless something in it has no JSON form, `process`, `resume` |
| `Keeper` | `scripts/keeper-recurring.js` | `cycle` = its local variables; the contract and whoever else disburses |
| `StatusPage` | `scripts/status-page.mjs`, its workflow | `job` = checkout and samples, `repo` |

`MCGovernance`, `MCTreasury`, `MCRecurring`, `MCIndexer`, `MCClients` and
`MCReaders` instantiate them for TLC. `MCTreasury` picks one of two deployments
at the start (`SceneSpec`), `MCIndexer` and `MCClients` one of several settings,
and `MCReaders` runs one of twelve readers, which share nothing.

## 4. Runs

| Run | Question | Bounds and why they are enough |
|---|---|---|
| `governance_membership` | do owner, weight, threshold and role changes, decided in any order, keep quorums attainable, tallies exact and the role maps inverse? | three proposals, two active: one can change the electorate while another waits and a third is made against the result; the initial quorum of 3 needs both owners; time stands still, no proposal expires |
| `governance_lifecycle` | do status, index and timers survive time passing, and does the contract implement `Ballots`? | timestamps 1..3 with lifetime 1 and a time-lock of 1: a proposal can become ready, wait, execute at the last moment or expire; requested lifetimes 0 and 2 are refused; two proposals fill the index of two, so expiry decides whether a slot is free |
| `governance_total` | INV-01: is the total the sum of the weights? *violated* | two AddOwner proposals for `carol` |
| `treasury` | do reservations match the open escrows, does each escrow end once, does a freeze hold all money, and recovery and the registry all that is not in escrow, do transfers made before a limit or window changed respect what holds when they execute? | escrow scene: 3 units, two proposals out of a payment, a batch of two legs, an escrow of 2 until a quorum and one of 1 until a deadline, so that payments and escrows, or two escrows, compete for the funds; timestamps 1..3 around the escrows' time 2; a guardian, income. Policy scene: three proposals out of payments of 1, a limit of 2, a limit of 1 per window of 1, the registry and its token; two timestamps |
| `treasury_window` | does the limit bound what every window spends, as the comment on the window says? *violated* | a limit of 1 per window of 1, three payments of 1, four timestamps |
| `recurring_terms` | does a schedule never pay more than the terms it had allow, and is the count that bounds creation exact, whatever is paused, resumed, changed and cancelled? | one schedule of each sort (2 a period capped at 3; vesting 2 until 5, cliff 2; stream of 1 until 4, cliff 2), interval 2, two proposals, five timestamps, at most two active: a change lands before the cliff, between two payments and after the end |
| `indexer_sync` | are the tables at all times a gapless prefix of the final events, each once, with balances that fold them, and do they catch up? | four events in three ledgers, two in one of them, money in and out; a node one ledger behind, one behind by nothing with pages of one event, one that goes back; both back ends; a backfill and a reindex on SQLite that are interrupted once, a backfill on Postgres beside the live service, each command up to twice |
| `indexer_ranges` | does a history command that completes leave nothing of its range out, whatever stood in its checkpoint? *violated* | pages of one event; a backfill of the last ledger, interrupted after a page; one of all three, interrupted before its first page and run again |
| `indexer_outbox` | is nothing behind a cursor unqueued, nothing marked delivered that was not taken in, are attempts bounded, and does every delivery settle? | two events of one ledger for one target, two attempts, batches of two, one failure, one edit or requeue: a retry can be overtaken, a crash fall between sending and recording, a target be removed and come back, the service come back without any (its timer then never starts); both channels |
| `clients_session` | is no call in flight sent twice, do success and failure mean what they say, does every call settle, and what of it fits the contract? | every method once with every flaw of its input (`Probe`); two clicks of one account on the same or different buttons with two failures; co-signing; both clients at once; an answer that is lost |
| `readers` | twelve scenes, below | below |
| `alerts_lost` | is every alert the engine raises recorded? *violated* | five rows, one database error |

Unprivileged choices are unrestricted: any address may approve, revoke, execute,
sweep any set of ids, or co-sign in any combination, in any order. Bounded are
who proposes (`Proposers`), what (`Menu`, `Kind`), the requested lifetimes, the
number of proposals ever made and the last timestamp; for the services, the
ledgers, the failures (`MaxFailures`, `MaxFaults`, `MaxTroubles`, `Budget`), the
operator's acts and the calls.

Deadlock is checked in the contract's runs: sweeping nothing is always possible,
as it is in the code. The other runs say `CHECK_DEADLOCK FALSE`: a page that was
left, a client whose clicks are answered and a service whose bounded
environment is used up stop for good.

The scenes of `readers`:

| Scene | Properties | Bounds |
|---|---|---|
| page | `SerialPolling`, `NewestShown`, `CatchesUp` | one wallet, one change of the contract, one fault, transaction or switch of accounts, two loads in flight; with and without push |
| dialogs | `SentAsReviewed` | 16 drafts in seven menus, two submissions, three time zones, two timestamps |
| api | `AlertsExactOnce`, `CacheKeepsUp` | four rows in two tables, three rules, one trouble, one cached query; storm cap 1 or none |
| reports | `ReportsAgree` | a book of seven entries, two of them indexed late, seven filters, six requests a minute, one failing |
| forecast, health | `OutlookSound` | four plans, horizons of 3 and 6 months of 4 ticks, four purses; three voters of weight at most 2 |
| timeline | `TimelineSound` | five events, pages of four, a node that reaches one ledger back |
| script | `FileOfOnePiece` | seven events in five ledgers, pages of three, a snapshot every 2 |
| keeper | `KeeperThorough` | three schedules, ids up to 5, the contract with and without the view the script expects |
| status | `StatusPageTrue` | days of two ticks, three runs, one edit of an incident |
| notify | `NotificationsSound` | two destinations, one event, one change asked for, one mishap |
| stores | `BackendsSound` | up to six calls on each kind of store, four of reconciliation and replay, three replicas that migrate |

Fairness. For the contract none is assumed: nothing obliges owners to act, so it
promises no progress and no liveness is stated for it. For the indexer
(`Indexer!Fairness`) a batch under way goes on, a node is asked and from time to
time answers from a view that has caught up (strong fairness of `FetchFresh`: it
may lag again before each page, but not for ever), the dispatcher's timer fires
and its steps go on (`Enqueue`, `Deliver`, `Backoff`), and an operator runs an
interrupted command again, as the runbook asks. Ledgers need not close, faults
need not happen. This carries the liveness of `FinalLog` and `DeliveriesSettle`;
the latter leaves out deliveries of a service that was started without a
subscription, whose timer webhooks.js:295 never starts.
For the clients every step of a call and the clock are weakly fair: wallet and
node answer or the call times out (`CallsSettle`). For the page a load that is
under way answers unless it is cancelled first, timers fire and ledgers close.
That does not oblige a load to answer within a polling interval, and each poll
cancels the one before it: `CatchesUp` says that the page catches up or is
starved in this way for ever.

Each property of a passing run has a mutant: an operator next to the definition
it mutates, whose comment names the mistake it stands for.

### What the violated runs mean

*Total.* The contract does not keep INV-01 (`INVARIANTS.md:14`): the second
`AddOwner` (lib.rs:3842) adds a weight nobody holds to the total, so the total
only *covers* the owners' weight (`TotalCoversOwners`, proved). Since guards
compare with the total, phantom weight also lets owners be removed, or the
threshold raised, beyond what the owners can reach.

*Window.* The epoch of a spend tracker never moves (lib.rs:3801): after the first
window the stored amount is ignored and each payment is compared with the limit
alone, against the comment on lib.rs:999. `FirstWindowBounded` (proved) shows that
the limit does bound the window that setting it opens, transfers made beforehand
included.

*Ranges.* A history command writes its own range down (commands.js:126-128)
before anything replaces the cursor of the range before it. Interrupted there, it
takes that cursor for its own when it is run again, and completes without having
asked for what lies before it, against commands.js:114-116 and `RUNBOOK.md:49`.
`WalkCovers` (proved) shows what is kept: with one kind of command and one range
nothing is left out.

*Alerts.* The engine marks a row as seen (alerts.rs:950) before the alert is
stored: a database error between the two loses the alert, against the promise on
alerts.rs:6.

### What else the models show of the code

Seen while modelling, each built into the model as the code has it; none is a
run of its own.

*Contract.* Revoking does not restart the review period: a quorum made, unmade and
made again keeps its first `ready_at` (`docs/AUDIT_PREP.md:97` says otherwise). The
approver guard (lib.rs:4993) protects role revocation only: a later threshold raise
can strand the contract, since `ChangeThreshold` looks at all weight and not at the
weight that may approve. A batch checks each leg against what is not reserved, but
the sum of its legs only against the full balance: split into legs, a payment
reaches reserved funds and leaves an escrow that cannot be paid
(`CONTRACT_API.md:255`); `FundsAccounted` shows that this is the only way in
`Treasury`. `claim_stream` is another: it ignores recovery mode, reservations and
the registry, and uses the default window. Recovery mode does not stop all outflows,
although the comment on lib.rs:5581 says so: streams pay, and an escrow may be agreed to and
released while it lasts (`execute` asks for it at transfers only); `StopsHoldFunds`
says what it does hold. A disbursement that reaches the cap (lib.rs:2825) does not
complete the schedule, although `CONTRACT_API.md:1427` says so: it keeps its place
among the active ones, and cannot be cancelled. Limits of recurring payments are
only checked when they are proposed; modified terms are retroactive; a vesting goes
on paying after its derived status is Completed; a completed schedule cannot be
cancelled; a disbursement compares the balance with the amount before the cap is
applied.

*Indexer.* A full page advances the cursor past events that were held back as not
final (indexing.js:108), so a batch that stops there drops them, against
indexing.js:16-18; after a rewind, a batch cut at `maxPages` leaves the old next
ledger, from which the next tick resumes; a failure between the rewind and the
checkpoint (indexing.js:78-87) does the same. A backfill that was interrupted
resumes from its cursor although a reindex has cleared the rows behind it, and a
backfill that starts beyond what is indexed leaves a gap; a reindex with an earlier
start that is interrupted between clearing and blanking the checkpoint is not
modelled; the head moving on in the middle of a batch breaks the order in which
running balances are computed; a self-transfer is an inflow. After a reindex the
cursors are empty, so a new process treats what is stored as history and never sends
it. Webhook deliveries that are pending when the service is restarted without
subscriptions stay pending. One slow endpoint delays the others of its batch
(webhooks.js:265), and an error there ends the tick while the others go on.

*Stores.* The two differ in ids alone. After a rewind SQLite gives out ids again
that a cursor may have passed, and such an event is never queued; a requeue with
an empty subscription means all on SQLite and none on Postgres; the order of the
destinations depends on Postgres' collation. Two processes that open an old
SQLite file together both add the column; the second fails and is restarted. A
replay into a kept file holds the union of its ranges, with balances that start
at zero before each. The drift that reconciliation reports is what is not indexed
yet. Left out: SQLite's busy errors, Postgres ids that become visible out of
order with two writers.

*Notification destinations.* The panel sends `topics: null` for a blank field
("blank = all", NotificationDestinationsPanel.tsx:237) and notifications.js:63
refuses it. The cursor outlives a deleted destination, so one made again under
the same id gets everything since the deletion. A body built for the old kind is
sent after the kind was changed. A lost answer of a delete leaves the row listed;
overlapping refreshes can show the older list; a verdict of a test remains beside
edited fields. Input errors about mail addresses and duplicate ids answer 500.

*Clients.* A co-signed transaction expires 30 s after it is built, though it is
polled for 60 s; a failing poll is reported as an error while the transaction may
land; `TRY_AGAIN_LATER` counts as sent; a retry after a lost answer can create the
proposal twice, once each attempt (the `LostAnswers` settings; `ClicksActOnce` says
that only a lost answer can). Reads turn errors into defaults. What the SDK and the
console send that the contract's functions do not take is listed in
`ContractInterface`, `SdkClient` and `ConsoleCalls`: among them the order of
`initialize`, symbols for unit variants, the extra category, entrypoints that do not
exist (`get_claimable_amount`, `get_recurring_payments`, `create_delegation`, ...),
and the swapped arguments of `has_approved`. `ConsoleFits` says of each call of the
console whether the host can take it and what of the answer is understood: an
owner's outgoing delegation is read as one record where the contract answers with a
list (contract.ts:248, lib.rs:271), the progress of a proposal as an array where it
is a record, and every enum as a name or an object of one key (contract.ts:66-68).
An enum of the contract is a vector that begins with its symbol (as submit.ts:328
and conversion.ts:117 send it), which the decoder turns into an array whose first
key is "0": so the status of every proposal reads "0", its category and kind and the
kind of every schedule fall to their defaults, roles are lost, and each proposal
appears as a transfer of 0 to nobody. The SDK casts the same arrays to strings.

*Console.* A change between the last poll and the opening of a push channel is
missed until the next push. The optimistic patch of a failed transaction stays until
the next load. A load that takes longer than the poll interval (5 s, App.tsx:91) is
cancelled by each poll (useContract.ts:168-170), so that a slow node can leave the
page at its old state for good. Owners and weights are set without the guard that
protects proposals (App.tsx:197-204). A wallet check that answers late can clear a
newer address. The preview enables Confirm with an older simulation's answer
(CreateProposalModal.tsx:162-164). A success of an earlier submission closes a
dialog opened since. The first poll of the recurring page's ledger is asked once:
when it fails, that page's polling never starts, though its comment promises a
retry.

*Reports and outlook.* The summary and flow ignore the filters for category and
owner; a date-time end includes part of the next day in two of the reports; the
five answers of one batch may come from different states of the index;
`query-analytics` ignores weeks and counts records with a "-" amount, which makes
the total NaN. The runway is computed for a default purse of 10000 under the label
"at current treasury balance"; the dashboard's health rating is given no threshold
and uses half of the weight. The contract has neither the fields nor the
entrypoint the forecast reads, so on it forecasts are empty.

*Timeline.* The events' key is ledger, transaction and 0, so that of one
transaction's events only the first is kept: an executed proposal whose execution
emits another event first never shows as executed. The 100 events asked for are
the oldest of the range, though contract.ts:1381 says the most recent. Topics of
recurring payments are not recognised.

*Services and scripts.* The analytics cache may keep an answer that was computed
before the tick that dropped it, against "never older than the data" in
limits.rs:5-7 and `ANALYTICS_API.md:71`; the first tick takes its baseline without
dropping what was cached before it (alerts.rs:1090); between two ticks pass 15 s;
and the stamp is the newest ledger, so that rows added to it later drop nothing.
Rows added to a ledger that a poll has partly seen are never evaluated; a ledger
larger than a poll's batch loses its rest; a restart forgets cooldowns. A crash
between storing and sending an alert loses the sending. The file indexer cannot
store what it is for: the contract's events of proposals and payments carry a u64 or
an i128, which decode to a BigInt, and `JSON.stringify` throws on it
(indexer.js:237), so that the process ends at the first page with one, on every run,
although `scripts/README.md:21` says that they are persisted. It advances to the
node's newest ledger after a full page and so skips the rest for good (`cut`). The
keeper counts on a view and error numbers the contract does not have
(keeper-recurring.js:11-17, lib.rs:672), so on this contract nothing is ever due;
schedules above `MAX_SCAN_IDS` are never paid. A status sample taken after midnight
is counted on neither day; a failed push loses what was seen.

Abstractions of the readers: months have equal length and amounts are whole; an
owner filter is an equality; rows of the timeline are sets of event indices;
bodies of messages, texts, charts and layout are left out.

## 5. Proofs

Every theorem holds for all values of the constants that the named assumptions
type; there is no other assumption except the ones that `OutboxSafe`,
`StatusTrue`, `ReportsTrue` and the theorems about gaps, order and balances of
`IndexerProofs` state. The runs evaluate the assumptions.

| Module | Theorems (property) | Inductive invariant |
|---|---|---|
| `GovernanceProofs` | `Inductive`, `TypeCorrect`, `QuorumSafe`, `IndexSafe`, `VotesSafe`, `TimerSafe`, `TalliesExact`, `TotalCovers`, `RolesExact`, `Implements` (`ImplementsBallots`), `MovesLegal` (`LifecycleMoves`) | `IInv`, `Books` |
| `TreasuryProofs` | `Inductive`, `FundsSafe` (`FundsAccounted`), `EscrowsEnd` (`EscrowsEndOnce`), `StopsSafe` (`StopsHoldFunds`), `WindowBounded` (`FirstWindowBounded`) | `IInv`, `WindowsInStep` |
| `RecurringProofs` | `CountSafe` and `CountSafeWithTerms` (`CountCoversActive`), `PaymentsSafe` (`NeverAheadOfTerms`) | `CountInv`, `TermsInv` |
| `IndexerProofs` | `IndexerInvariant`, `OneRowPerEvent`, `DeliveredWasAccepted`, `NothingSkipped`, `OutboxSafe` (`OutboxSound`), `CacheIsTheSum`, `NoEventLeftBehind` (`NothingDropped`, `WalkCovers`), `TablesStayExact` (`TablesExact`), `TablesAreThePrefix` (safety of `ImplementsFinalLog`), these three also with the ending `ByWholePages` | `IndexerInv`, `GapInv`, `CacheInv`, `OrderInv`, `Prefixed` |
| `ConsoleProofs` | `ClicksSafe` (`ClicksActOnce`), `TimelineTrue` (`TimelineSound`), `ReportsTrue` (`ReportsAgree`) | `SubmissionInv`; one per reader |
| `ReaderProofs` | `PollingSerial`, `ScreensNewest`, `CacheYoung`, `AlertsSentOnce`, `ScanThorough`, `ReviewedIsSent` (`SentAsReviewed`), `StatusTrue` (`StatusPageTrue`), `NotificationsTrue` (`NotificationsSound`), `FileStaysWhole` (`FileOfOnePiece`), `SchemaStaysSafe` (`SchemaSafe`, a part of `BackendsSound`) | one per reader, `SchemaInv` |
| `ProposalsProofs`, `SumsProofs` | lemmas on the lifecycle; on sums, products, quotients and loops | - |

### Governance

`IInv` is the conjunction of `TypeOK`, `QuorumAttainable`, `ActiveIndexExact`,
`NoGhostVotes`, `ReadyHasTimer` and `TimersPast` (a timer was set in the past).
None of them is inductive alone:

- a weight change looks for open quorums in the active index, so
  `QuorumAttainable` survives it only because `ActiveIndexExact` says that the
  index holds every open proposal;
- the count stays within its cap only because it is the size of the index, which
  only creation enlarges, under the guard;
- `NoGhostVotes` survives the removal of an owner because the votes are taken off
  exactly the proposals that are active, and terminal or expired proposals never
  become active again (time does not go back, closing is final);
- `ReadyHasTimer` survives a revocation because the timer is kept, and an approval
  because the timer, when unset, is set to a positive time.

The argument goes by kinds of step: `ProposeStep` (append), `VoteStep` (approve,
revoke), `CloseStep` (cancel, and execution of every kind but one, through
`ExecuteStep`), `RemoveOwnerStep` (rewrites every open record), `SweepStep`,
`TickStep` and `QuietStep`; the first ones share `RewriteStep`, which says when a
step that rewrites records without activating any keeps the invariant, and
`RemoveActiveExact`, which says that purging keeps the index exact.

`Books` adds `TallyMatches`, `TotalCoversOwners` and `RoleIndexExact`. The first two
are about sums. A sum is defined in `Sums` by counting: `Total(f, S)` is the number
of pairs of a member of `S` and a unit of its value, so that the library's facts
about cardinality give what a step does to it (`SumsProofs`: `TotalUpdate` is the
one the actions need) without an induction on sets. What a loop computes is shown
from a property of numbers alone (`StepByStep`: a set of numbers that holds 0 and
the successor of each of its members up to n holds n; `Iterates`: the function that
a recursive definition describes exists), which stands in for induction on data: the
lemma is about the set of the steps for which the loop's invariant holds.
`MCGovernance` checks, as `SumsAgree`, that it is the sum of the community modules
for functions from four members to 0..3. A vote moves the tally by what it moves its
own record (`VoteTally`); the removal of an owner moves every open tally by the
record it erases (`RemoveOwnerTally`); and one owner's new weight never moves the
sum by more than the total (`Reweigh`), which admitting an address twice shows to be
the best that can be said.

The refinement of `Ballots` needs `IInv` and `TallyMatches`: each call maps to
one of open, vote, retract, withdraw, lapse, carry, carry with a removal, or to a
stutter. The abstract quorum is any positive number, not one bounded by the
possible weights, because the total may drift upward when an address is admitted
twice. `LifecycleMoves` follows from the same invariant, action by action.

### Treasury

`IInv` = `TreasuryTypeOK`, reservations equal the sum of the open escrows of the
token (`ReservedMatchesEscrows`), and they stay covered while no batch has paid a
token twice (`CoveredUnlessSplit`). The last is not inductive without the
equality: settling an escrow must free exactly what it pays. `EscrowsEndOnce` and
`StopsHoldFunds` are action properties: an escrow leaves the table only paid or
returned and never comes back, since ids only grow; a freeze bars every outflow,
recovery and the registry each one but the amount of an escrow that ends, taken
from what was set aside for it. `FirstWindowBounded` relates the
contract's tracker to the history variable (`WindowsInStep`): inside the window
that setting the limit opened, the tracker is at least what was spent.

The run checks `SceneSpec`, whose steps are steps of `HistorySpec`, which the
theorems are about.

### Recurring payments

The count equals the number of Active and Paused schedules (`CountExact`), which
is inductive because a schedule that is cancelled or completed never reopens. It
bounds what creation admits whatever derived status says. `TermsInv` says, for
each sort of schedule, that what has been paid is within what the schedule
*earned*: for a fixed payment at most its largest amount for each period between
start and last payment, for a vesting or stream at most what has accrued under
some mix of the terms it had, a quantity that never shrinks. The lemmas are about
integer division (`Accrued` grows with time, and a full duration accrues the
total).

### Indexer

`IndexerInv` has two halves. `TablesInv`: the batch, the command and the tables
are typed; a table has one row for each event it holds and one for each id, all
below the next id; and a node that never goes back is never taken to have rolled
back. `OutboxInv`: a tick holds what it claimed (`ClaimsKept`), what it knows of
an answer is true (`AnswersTrue`), the rows it copies are still in the table
(`CopyInStep`), nothing is marked delivered that was not taken in; and, where ids
are stable, cursors are below the next id and what they have passed is queued.
Each method of the store has a lemma (`RecordTransferSound` to `EnqueueSound`).
That a page's rows come in the order of their ids and reach its highest id without
a gap (`IdOrder`, `PageOfRows`) is proved from the library's facts about bijections
of finite sets.

`StableIds` says that the back end is Postgres or the node never goes back. On
SQLite a rollback frees ids which a cursor has passed, and the event that gets one
is never queued: `OutboxSound` is false there, and `OutboxSafe` has the hypothesis
that leaves such deployments out, which the run's deployments satisfy.
`OneRowPerEvent` and `DeliveredWasAccepted` hold without it.

*Gaps.* `NoEventLeftBehind` says that no checkpoint passes an event that is not
stored and that no command completes over a gap. It is not inductive by itself:
`GapInv` adds what every half-done step relies on. `Checkpoints`: what lies behind
the stored ledger and cursor is recorded (unless a rebuild is pending), and nothing
beyond the final ledger is recorded or passed. `BatchPlace`: the places a batch has
copied are as true as the stored ones, and of a fetched page each event is
recorded, still to do, or no earlier than the first one held back. `RunPlace`: the
same of a command's page, and a stored walk cursor is true or such that it will not
be resumed from. The hypotheses are where the code itself stops keeping the promise:

- `FullPagesFinal`: a full page ends among the final ledgers. Otherwise `NextPage`
  stores a cursor beyond events it held back. `WholePages` (lag 0, or a page limit
  above the number of events) implies it for settings alone.
- `Orderly`: the node's answers never go back; one kind of command is run; and its
  range begins in one place, not after the first ledger of the indexer. What a walk
  resumes from is a stored cursor, and nothing takes it back when the rows it has
  passed are removed, by a rollback or by the other command; and a walk writes its
  new range before its first page but keeps the old cursor until that page is stored
  (commands.js 113-131), so that a run of another range that is interrupted in
  between takes up, when it is run again, a cursor that was true of the old range.

*Balances.* A cached balance is the sum of the stored transfers of its token in
every deployment and at all times (`CacheIsTheSum`). SQLite's balance is read
before it is written; `CacheInv` says why that is sound: what a batch or command
has read is still the cached value, because of the writers on SQLite only one
is at work (`Alone`). The folds are sums over sets (`SumByEvents`), so that the
sum does not depend on ids (`SumsProofs`). A row's own balance is that of the rows
up to its id, so it is right only if rows are added in the order of the chain or
folded again afterwards: `OrderInv` says that what is recorded is no younger than
what is missing, except within the reach of a pending command, and that nothing
before the first ledger is asked for. For this a command must begin at that ledger
(`OneStart`): one that begins earlier and ends before it sends the live indexer
back (`FinishHistoryRun`), which may then store older transfers after newer ones.

*Prefix.* `Prefixed` sharpens the order from ledgers to single events, and the step
of the refinement follows: an event that is recorded is the first one missing
(`NextOfLog`, by counting), its ledger is final, and everything else leaves the
tables alone or, in a rebuild, empties them (`LogMoves`).

`MCIndexer` assumes, and TLC evaluates, that the deployments of its runs whose node
does not go back meet these hypotheses (`WholePagesOrRegress`). The others, where a
rollback is real, are checked by the runs only.

### Clients

`SubmissionInv` relates a click's stage to three things: the key under which its
call is in flight (`FlightExact`: whoever executes a guarded call is the one the
key names), the transaction it has built (`BuiltInTime`: its own, and polled for
until its time is over) and what the node has of it (`NodeKnowsLast`: while no
answer is lost, the last transaction of a click that is past sending, queued or
landed but not both). `ClicksActOnce` needs all three: the first half is the key;
an effect is counted once because the node's transaction *is* its click's last
one, so that from effects to clicks there is an injection; and an error means that
nothing can land any more because the polling outlasts the transaction, which
`PollingAssumption` states of the two constants in submit.ts. `GoKeeps` is the
step of one click, `EndKeeps` the end of an execution for all who share it
(`FailEnds`, `SucceedEnds`); each request and answer is one of them.

### Readers

- *Polling.* At most one of armed timers and running polls, and none that could
  start another once the page is left.
- *Screen.* Only the newest load has not been overtaken; its reader is the
  address; what is shown is never newer than the load, nor the load than the
  contract.
- *Cache.* A kept answer is from before the tick that crossed it or at least as
  new as the last drop, for any capacity, 0 included.
- *Alerts.* An alert not stored was not sent, and one being sent is stored and
  unsent: `NotifiedOnce`, the half of `AlertsExactOnce` that says an alert goes to
  the channels once.
- *Keeper.* What a scan reads is what there was, a scan that ended is past the
  last schedule or at its reach, and what it found is what it still owes or has
  tried.
- *Dialogs.* From the preview on, the fields are those that were reviewed; a
  preview that no longer waits has been filled by a simulation; a deadline is
  accepted if it is a later midnight than the last one, which on a clock at UTC is
  one to come (`MidnightAhead`), for any length of the days.
- *Notifications.* A worker's tick is alone until the store has refused to record
  an outcome, from when on an earlier tick's request may still be out; what a tick
  has claimed are letters with the attempts and the place of the claim, so that one
  request is made per attempt; a destination with a letter has a cursor, and the
  cursor is below the next event; a letter is sent where its destination's row says
  at that moment. The panel waits for one answer at a time.
- *File indexer.* What the process has filed lies before its checkpoint and what it
  fetches lies behind. A page is written only if no event in it is wide, hence
  none has a number or an amount, and nothing is derived from it (`NarrowPage`).
- *Status page.* The document's days lie in its window and its bars are the worst
  of the samples of the jobs that ended well; a job that publishes nothing has seen
  what the document tells already (equal fingerprints, a day it has a bar for); a
  push succeeds only from the document that is on the branch. `NothingThere`, the
  theorem's hypothesis, says that a file that is not there is not a document.

- *Timeline.* An answer holds the events the node had when it was given, and the
  chain only grows. The pages of the answer are put in the order of the chain: that
  the n-th element of an order is the one with n - 1 before it (`FirstOnes`) gives
  what a page leaves out.
- *Reports.* The server's, the library's and the tool's tables are the same folds
  over the book (`Tabled`); a table adds up to the total because its groups
  partition the entries (`Regrouped`); a bucket holds whole days since a bucket's
  start is the floor of its entries' times (`FloorOfUnit`); the running total is that
  of the greatest period. The hypothesis `Comparable` leaves out two sorts of filters
  for which the code's reports do differ: a token that is named otherwise than in the
  records (the summary compares the raw name and has no default), and an end without
  a start where all the activity lies later on the last day than its first instant
  (the flow is then empty). `MCReaders` checks that the run's filters are comparable
  (`FiltersComparable`).

- *Schema of the store.* Two invariants, by the kind of database. Postgres: at work is
  exactly who holds the advisory lock, so that nobody else applies anything between
  its reading of the applied migrations and its commit; what it has passed over agrees
  with the database and with its own list, hence the next one is the next number.
  What an opener found complete stays so, since the list of applied ones only grows.
  SQLite: nothing serialises the openers, but columns and indexes only become more,
  and each has left none behind that it did not see or add. `BackendsAssumption` says
  that null is no process and that checksums are texts.

These theorems are about the readers' own specifications (`LiveSpec`, `ApiSpec`,
`KeeperSpec`, `DialogsSpec`, `StatusSpec`, `NotifySpec`, `FileSpec`, `BackendsSpec`,
`TimelineSpec`, `ReportsSpec`), of whose steps the scenes of `MCReaders` consist.

### Model-checked only

- Liveness, which is outside the prover's temporal rules: the catching up of
  `FinalLog`, `DeliveriesSettle`, `CallsSettle`, `CatchesUp`.
- `AlertsExactOnce` in its other half (an alert is raised exactly when the rule's
  window says), `OutlookSound` (a walk by recursion over states of a schedule),
  and of `BackendsSound` the agreement of the stores (some forty pairs of queries), the
  drifts and the replays, which fold tables by recursion.
- `NothingDropped`, `WalkCovers`, `TablesExact` and `ImplementsFinalLog` for a node
  that goes back, where they are true of the deployments of the run only: a rollback
  while processes fail or pages are small breaks them. `FirstSendsInOrder`, which
  compares orders of sending over the whole behaviour.
- `ConsoleFits`: a table of methods, each of which TLC visits.

## 6. Not modelled

Classic aliases (a lookup before `create_proposal`), legacy migrations and
`upgrade` (they concern other programs), storage lifetimes and their renewal,
validation of texts, token interfaces. The report schedule: one loop that sleeps,
builds a report and mails it; its period ends at the instant it wakes up, so that
the check for a period already delivered (schedule.rs:242-264) never matches
across restarts or replicas. The request limiter of the analytics API: one counter
per client under one lock. Read-only queries, metrics and health; the console's
remaining pages; tests, examples, fuzzing, operations and documents.
