# A formal model of Aster Team

This directory holds TLA+ specifications of the parts of Aster Team in which
several processes, tasks, operators and crashes meet: the settlement of paid
model requests, the accounts behind it, admission and shutdown of a Control
process, the dispatch of requests to runners, what administrators change, and the
upgrades and host commands that replace the program while it is in use. TLC
checks them on small instances; TLAPS proves the most important properties for
every instance.

`PROJECT.json` is the index: the components, the runs with their properties,
the source lines behind every definition, the hazards of the code, the
findings and the theorems. Paths below are relative to
`src/customer/backend` unless they start with `src/`.

To repeat a run: `tlc -workers 2 -config MCX.cfg MCX`. To repeat a proof:
`tlapm X_proofs.tla`.

Contents: 1 inventory, 2 modules, 3 runs, 4 findings, 5 bounds, 6 fairness,
7 proofs, 8 only model-checked, 9 abstractions, 10 observations, 11 plan.

## 1. Inventory

An installation runs one or, during an upgrade, two **Control slots** behind a
proxy. Control accepts model requests, authorizes and bills them, dispatches
them to a **runner**, and keeps its state in SQLite or MariaDB, plus files that
the slots share (settlement records, license, plugins). A separate **maintenance executor**
upgrades the installation and talks to Control slots over a local socket. Operators
run commands on the host, and members configure their clients with `asterctl`.

| Component | State | Operations | What makes it correct |
| --- | --- | --- | --- |
| Settlement outbox (`control/src/gateway/settlement_outbox.rs`) | a directory of `{key}.lock` and `{key}.json`, `registry.lock`, `installation.json` | open, acquire, publish, finish, drop | one owner per request among all tasks of all slots, whoever unlinks, recreates or dies |
| Durable settlement (`durable_settlement.rs`, `quota_recovery.rs`) | records, reservations, ledger entries, audit markers | complete, recover, reclaim expired, the recovery loop | an outcome that was made durable is entered exactly once; an expired reservation is never reclaimed under a running request; everything is settled in the end |
| Admission in money (`model_authorization.rs`, `crates/policy-core/src/billing*`) | balance and limit in the database, permits in the memory of a slot | reserve, charge, release | references in flight never exceed a balance that was read; no permit leaks; the queue ends |
| Prices (`crates/policy-core/src/billing*`, `official_prices.rs`) | price books, versions, drafts, frozen prices | save, synchronise, freeze, charge | one price at every moment, on record for as long as anything was admitted with it |
| Money account and quota requests (`control/src/lib.rs`, `crates/storage/src/money_ledger.rs`) | balance row, ledger, audit chain, requests | append an entry, create, change, withdraw, approve, reject | no reference twice; the row is the sum of the entries; approval and grant together |
| Token quotas, image quotas, vouchers (`crates/storage`) | balances, reservations with children, vouchers and redemptions | reserve, settle, release, grant, redeem, delete | the books balance, every amount is entered once |
| Usage reports, audit pages (`control/src/lib.rs`) | none of their own | ranges, buckets, totals, pages | figures agree with the ledger and with each other, pages are complete |
| Members, API keys, audit chain (`control/src/lib.rs`, `crates/storage`) | member and key rows with seals, seat registry, chained events | create, status, password, key, revoke, verify | limits hold, seals match, the chain verifies, whatever handlers race |
| Request lifecycle (`control/src/lifecycle.rs`, end of `main.rs`) | registry of leases, admission revision, mutation gate, shutdown task | admit, own and release leases, drain, retire, shut down | drained means empty and stays so; no mutation is cut off; a shutdown ends |
| Runtime control (`control/src/runtime_control.rs`) | readiness proof, generation of the runner connection, two locks | evaluate, open, close, retire | admission opens only on a readiness result that still holds |
| Online upgrade (`crates/upgrade-core/src/online*`, `retirement.rs`, adapters in `cli/src`) | two journals, proxy configuration live and on disk, two slots, active slot, job | the phases of cutover, switchback, retirement, commit, archive | traffic always meets an open slot; recovery is never locked out; one outcome; it is reached |
| Slot preparation (`crates/upgrade-core/src/preparation*`, `cli/src/slot_preparation*`) | intent, captured units, plan | stage, start, probe, hand over, abort | nothing of a candidate is left without an owner |
| Maintenance executor (`cli/src/maintenance_executor.rs`) | job file, links, units, releases, backup, runner receipts | upgrade offline, restore, recover, delete a release | never two Controls; when it is over, one release |
| Runner registry (`control/src/lib.rs`, `crates/storage/src/runner_quota.rs`) | rows, enrollment tokens, receipts of upgrades | enroll, delete, provision, reconcile | the quota holds, receipts and rows agree |
| Runner hub and dispatch (`control/src/lib.rs`, `runner/src`) | sessions, queues, subscriptions, workers | connect, dispatch, retry, cancel, stream | at most one upstream call per request; an answer whole or reported as broken |
| Gateway handlers (`control/src/lib.rs`, `plugins.rs`, `model_execution.rs`) | one request in its stages | authorize, reserve, dispatch, stream, settle | charged as executed; authorized at the step that spends |
| Protocol adapters (`control/src/gateway/*.rs`) | none | translate requests, answers, streams, options | nothing lost, repeated or reordered |
| License state (`crates/license-state`) | active, history, staged, pending intent, audit outbox | import, activate, observe, copy audits | recoverable after every crash, monotone, audited |
| Upstream accounts and connections (`control/src/lib.rs`, `crates/storage`) | accounts, credentials, leases, connections, models | enroll, refresh, connect, discover | no late answer undoes a newer secret |
| Model access (`crates/storage/src/model_access*`) | policy, grants | update, list, admit | admitted only as the policy in force allows |
| Provider plugins (`control/src/plugins.rs`) | archive, record, incoming file | submit, activate, switch, watch, recover | what runs is what the record says |
| Host commands (`cli/src/main.rs`, `src/customer/deploy/*.sh`) | installed tree, workspace, archives, services | install, uninstall, backup, restore, license, password | Control runs on one complete installation, none is lost |
| Client configuration (`asterctl/src`) | Codex and Claude configuration, state file, catalog, backups | setup, update, remove | nothing of the user is overwritten or lost |
| Credential vault; operations backend; user interfaces, website, build scripts | | | not modelled, see section 9 |

How they interact. A request passes the *lifecycle* registry (its lease keeps a
drain waiting), is authorized by the *gateway* against keys, license, *model
access* and *accounts*, takes its *outbox* lock, is reserved by *admission* at a
*price* that is frozen, is *dispatched* to a runner through the *adapters*, and
hands its outcome to *durable settlement*, which publishes a record, enters the
outcome in the *ledger* and removes the record. The recovery loop of either slot
does the same for requests whose slot died. The *upgrade* executor prepares a
slot, drives *runtime control* of both slots, which in turn drives the
lifecycle, and replaces the local runner in the *registry*.

What is hard, and where the hazards of `PROJECT.json` come from:

- a lock file that is unlinked and recreated while others open it;
- writes that take effect although their reply is lost, and retries of them;
- a crash between any two of several files that belong together (record and
  ledger, license files, plugin files, client configuration, installed tree);
- values that are read in one query and used after another, in two slots;
- a notification between the look at a registry and the sleep;
- admission commands, evaluations and reconnections that overtake each other;
- a session that breaks when upstream may have been called;
- grants that are withdrawn between a check and the step that spends;
- journals, proxy and processes that survive an executor that died mid-step.

## 2. Modules

```
RequestLock  <--refined by--  SettlementOutbox ---- SettlementOutbox_proofs
     ^ instantiated by
DurableSettlement  --refines-->  SettlementContract ---- DurableSettlement_proofs
Totals <--extended by-- MoneyLedger, MemberQuota
MoneyLedger, PriceBook, MemberQuota ---- MoneyLedger_proofs
UsageReports
RequestLifecycle <--extended and refined by-- RuntimeControl
RunnerRegistry <--extended by-- MaintenanceUpgrade
MaintenanceUpgrade, SlotPreparation, RuntimeControl ---- Upgrade_proofs
OnlineUpgrade
AuditedStore, RunnerRegistry, ModelAccess, UpstreamAccounts, PluginStore
     ---- Administration_proofs
LicenseState ---- LicenseState_proofs
RunnerDispatch, GatewayRequest, MoneyAdmission ---- RunnerDispatch_proofs
ProtocolAdapters
ClientConfig ---- ClientConfig_proofs
HostInstallation
```

An `MC` module gives the constants of its specifications their values.
`MCDurableState`, `MCMoneyLedger`, `MCAdministration`, `MCRunnerDispatch` and
`MCMaintenanceUpgrade` check several specifications in one run: these share no
variable, and a variable `part` chooses in the initial state which of them
moves, so the state spaces are added and not multiplied. (`MaintenanceUpgrade`
and `RunnerRegistry` do move together.) Definitions
named `X_Something` above a definition `X` are deliberate mistakes, one for each
property: with the mistake in place of `X` the property fails.

**RequestLock** is what the outbox promises: `Acquire`, `Release`, `Crash` on a
function from tasks to keys.

**SettlementOutbox** is the outbox, one system call per step. `registry` is the
holder of `registry.lock`; `lockPath` maps a key to the inode behind the name
`{key}.lock`; `flock` maps an inode to the task that locked it; `pc`, `key`,
`fd` are local to a task. `OpenStore`/`BindStore` are `Outbox::open`;
`AcquireKey`, `LockRegistry`, `RegistryTimeout`, `OpenLock`, `TryLock`,
`AcquireFails`, `LeaveRegistry` are `acquire_key`; `DropTryRegistry`,
`DropCloseFile`, `DropUnlink` are `Drop for RequestLock`. Inodes without name
and descriptor are handed out again. A crash releases locks and descriptors and
leaves names.

**SettlementContract** says what settlement promises: the first durable outcome
decides, one entry, an expired reservation takes no outcome.

**DurableSettlement** is `complete`, `attempt`, `persist`, `recover_owned`,
`reclaim_expired` and the two recovery scans. A task advances through `step`:
publish, ledger entry (`AppendMoney` with `Confirm`, or `SettleTokens`),
`Audit`, `MarkCompleted`, `RemoveRecord`, `Complete`. Each write exists with and
without acknowledgement (`ack`), and `StepFails` fails it without effect. A
request retries for ever, a scanner gives up its lock. The outbox is used through
the actions of `RequestLock`.

**MoneyAdmission** is `reserve_model_money`: `ReadBalance`, `ReadLimit`,
`TryAcquire` with `Decision` (`AdmissionSnapshot::decide`), `PollAgain`,
`QueueTimeout`, then `Charge` and `Release` in either order of reads by others.
Each slot has its own `permits`.

**MoneyLedger** is `append_money_entry` and its callers, the review of quota
requests, and the storage transactions. An operation (constant `Op`, with
`Kind`, `Ref`, `Amount`) goes through `Start`, `Load`, `Reload`,
`EnsureBalance`, `Snapshot`, `PrepareAudit`, `Commit` or `Conflict`, in the
order its kind prescribes, and remembers what it read (`snap`, `seen`, `tail`).
`Commit` compares it with what is there (`Unchanged`). `Fits` is the width of
`i64`, with `MaxNanos` for its largest value. **Totals** defines the sum of the
amounts of a ledger as the number of their units, which needs no recursion.

**PriceBook** has the windows, schedules and plans of a version with their
validation (`WindowsOverlap` is `windows_overlap`, on one week), the save and
synchronisation of a book with the comparison of its revision, the price frozen
at admission and the charge made with it.

**MemberQuota** is the same pattern as `MoneyLedger` for tokens, images and
vouchers: a teller reads rows, leaves a call on its desk and commits it if the
rows are unchanged. **UsageReports** are operators on a ledger that grows while time
passes, and the walk through the pages of the audit log, by the page numbers of
the administrator's view (`src/` has no other client) or by a sequence number.

**RequestLifecycle**: `owners[r]` are the holders of a lease of request `r`
(middleware, handler task, stream task, response body, detached mutation); a
request is in flight as long as it has one. `SetAdmission` and `RetireDrained`
compare the admission revision. The shutdown task is `WaitShutdown`,
`BeginShutdown`, `EnableDrained`, `CheckDrained`, `AwaitDrained`; `woken` models
a `Notify` that wakes only who listens. `ListenersEnd`, `ListenerFails`,
`DrainMutations`, `Exit` are the end of `serve`.

**RuntimeControl** extends it with readiness evaluations (lock, read
generations, verify, store the proof), opening (`OpenTake`, `OpenSet`), closing
(`CloseSet`, `CloseTake`) and `Retire`; `HubFree` and `ProofFree` are the two
locks that span several steps. What an evaluation checks is one nondeterministic
result.

**OnlineUpgrade** has the two journals (`forward`, `back`), the proxy (`live`,
`disk`), both slots with their local runner, `active`, `job`, and one executor
(`pc`, `intent`). `advance` is one of `OpeningCandidate` ...
`CommittingPrevious`: it looks, and either writes a checkpoint or issues a
command (`Commands(applied, ok)`: open, close, switch, retire, commit). `Claim`
turns a failed cutover into a switchback; `WriteHistory`, `RemoveForward`,
`RemoveBack` archive it. `ExecutorDies`, `Replaced`, `ProxyRestarts`, `Reboot`,
`Exits` and `Elapse` are the environment.

**SlotPreparation** is the way to that journal: intent, units written, enabled and
started, invocations captured, probes, handover; and the cancellation from any
of these points. A service is known by the number of its invocation.

**MaintenanceUpgrade** runs the executor as a list of steps (`UpgradeScript`,
`RestoreScript`, `RecoverScript`, ...); a step succeeds, fails with or without
effect, or is where executor or machine die. `host` is what the machine keeps:
links, units, processes, releases, active slot.

**RunnerRegistry**: a handler reads the rows and receipts, checks, takes the
registration lease or not, and commits if what it read is unchanged;
`Provision` and `Reconcile` are the two ends of an upgrade of a slot's runner.
`Verified` is the validation of the receipts against the rows.

**AuditedStore**: a call reads a row, counts, prepares an audit event on the tail
it saw and commits after comparing; an auditor reads the gate and then the
events. **ModelAccess**: a policy and its grants are read in two statements and
sealed together. **LicenseState** has one step per file.
**UpstreamAccounts**: secrets are modelled by the row they are encrypted for and
the number of the token inside. **PluginStore**: archive, record, use, and a watched
file.

**RunnerDispatch** has one task per attempt: `req` is the handler, `down` and `up`
the channels of a session, `work` the worker at the runner, `events` the
channel that feeds the handler, `subs` the subscription. **GatewayRequest** is one
request through the stages of a handler, with `Withdraw` at any time; `ran` is the
history of what upstream can have done.
**ProtocolAdapters** are operators on sequences of blocks, items and events: a
conversation that grows, an upstream that generates items in parts and announces
them as it likes (`truth`, against the reduced `output`), and the catalog of model
names, which a request looks up in the cache or reads, in two steps, while the
models change and the cache is invalidated.

**HostInstallation** is the tree of an installation, part by part, with the
commands of `cli/src/main.rs` and the two shell engines; `apart` is the history of
services that a command failed to stop and of purges that lost their lock. **ClientConfig** is the
sequence of writes of `asterctl setup` and `remove`.

## 3. Runs

| Run | Instance | Shows |
| --- | --- | --- |
| `outbox_lock` | 2 slots, 3 tasks, 2 keys, 3 inodes | `ImplementsRequestLock`: the file protocol, with unlinked and recreated files and crashing slots, is one mutual exclusion lock per request |
| `durable_state` | settlement: a request of each kind, 2 slots, a scanner in each, unlimited crashes and failures; host: one installation, one backup and restore, 2 operators, one fault; client: three commands, one edit | `LedgerMatchesPromise`, `NoReclaimDuringExecution`, `ImplementsContract`; `HostSound` (what Control runs on is one installation; one that nobody purged can be brought back), `CommandsComplete` (services run again, a restore is all or nothing); `ClientSound` |
| `settlement_liveness` | one request of each kind, one slot, one scanner | `ReservationsClose`, `PublishedSettles`: for money, only the record can make the settlement happen |
| `admission` | 3 requests in one slot, balance 2, limit 1 or none, one grant | `ExposureCovered`, `ReservationReturns` |
| `overdraft` | 3 requests in 2 slots | *violation*, see section 4 |
| `money_ledger` | money: a charge and a failure with one reference and two grants that do not both fit, or create, change, withdraw, approve, reject; quotas: 2 tellers, 2 accounts, 2 vouchers; reports: 3 entries; prices: any two windows of a small calendar, or 2 administrators | `OneEntryPerReference`, `LedgerReconstructsBalance`, `ApprovedIffGranted`, `QuotaBooks`, `ReportsSound`, `PricesSound` |
| `runtime_control` | one request, one evaluation at a time, 2 revisions, one reconnection | `DrainedStaysEmpty`, `ExitCutsNothing`, `OpensOnlyReady`, `ImplementsLifecycle`, `ShutdownEnds` |
| `online_upgrade` | no parameters | `TrafficServed`, `OneOutcome`, `UpgradeEnds` |
| `administration` | license: an importer, a served request, a fault; members: 2 clients at limits of 1; registry: 2 enrollments, an upgrade, limit 2; upstream: 2 handlers, limit 1; access: 2 handlers; plugins: 3 archives, 2 releases, 2 faults | `LicenseSound`, `LicenseAdvances`, `StoreSound`, `QuotaHolds`, `UpstreamSound`, `AccessGoverned`, `PluginsCoherent` |
| `dispatch` | one streaming request and its retry, 2 runners, 2 sessions; gateway: up to 2 images or frames, 2 withdrawals; conversations of 2 messages, answers of 2 items | `UpstreamAtMostOnce`, `AnswerDelivered`, `ChargedAsExecuted`, `DispatchAuthorized`, `AdaptersFaithful` |
| `maintenance` | 2 jobs, one fault, an enrollment beside them; preparation with 3 invocations, one fault | `OneControl`, `UpgradeSettled`, `NoOrphanCandidate` |
| `upgrade_documented` | no fault | *violation*, see section 4 |

Several properties are conjunctions of named parts, each with a comment of its own:

- `LedgerReconstructsBalance`: the row agrees with itself (`AccountConsistent`),
  is the sum of the entries, of credits and of debits, and every entry has its
  audit event (`AuditCoversLedger`);
- `QuotaBooks`: `BooksBalance` and `CreditedOnce`; `ReportsSound`:
  `UsageReportsAgree` and `AuditWalkComplete`; `PricesSound`: `OnePrice`,
  `PriceOnRecord`, `ChargeCovered`;
- `StoreSound`: `LimitsRespected`, `RowsSealed`, `AuditVerifies`; `LicenseSound`:
  `LicenseRecoverable`, `LicenseAudited`; `LicenseAdvances`: `SeatsWithinLicense`,
  `NoReplay`; `UpstreamSound`: `UpstreamRowsCoherent`, `SecretsAdvance`;
  `PluginsCoherent`: `RecordRestorable`, `ActiveAsRecorded`, `ChoiceHolds`,
  `SwitchReplacesSeen`;
- `AnswerDelivered`: `CompleteAnswer`, `NoOrphanSubscription`; `AdaptersFaithful`:
  `ConversationKept`, `AnswerKept`, `OptionsKept`, `CatalogCurrent`;
- `UpgradeSettled`: `ArchivedCoherent`, `RunnerSettled`; `HostSound`:
  `HostCoherent`, `InstallationRetained`; `ClientSound`: `NothingOverwritten`,
  `RemovedRestores`, `FailedSetupUndone`, `ConfiguredReady`, `SettingsKept`.

The largest run is `dispatch` (3.1 million states); each takes at most three to
four minutes on two cores.

`CHECK_DEADLOCK FALSE` stands where the system really stops: a process exits, an
upgrade, a request or a command ends, everything has been entered, or a bound of
section 5 is reached.

## 4. Findings

- `overdraft`: `src/docs/guides/quota-reservation-and-usage-accounting.md`
  (line 5) says reservations prevent concurrent requests from all spending the
  same balance. The balance is read before the tracker is asked and the tracker
  belongs to one slot, so a request that read before a charge, or one in the
  other slot, is admitted on a balance already spent. `admission` shows what
  does hold: within a slot, references in flight never exceed the balance each
  admission has read.
- `upgrade_documented`: with an external database on Linux the candidate slot
  gets a runner of its own, and `restore_runner` waits for a session of it.
  Control refuses that session while the executor holds the maintenance lock,
  while the job is running and while `current` does not point to the candidate;
  all three hold whenever the executor waits. So an administrator's upgrade with
  a running local runner is rolled back although nothing failed, where
  `src/website/docs/en/administration/backup-upgrade.md:23` says that the system
  restores the "previously running local Runner after health checks".

## 5. Bounds, and why they suffice

- *Outbox*: two slots are all there are. Three tasks give every race the outbox
  has: two contenders inside a process, or one in each, and a third that
  recreates the file. Three inodes let a freed one be reused while another is
  open; more only delay reuse. The theorems are for any number.
- *Settlement*: crashes and failing calls are unbounded; one request of each
  kind suffices because requests share nothing but their slot. For liveness one slot
  suffices, since a crash leaves to the scanner what another slot would do.
- *Admission*: `MaxPolls`, `MaxGrants`: one poll and one grant make every outcome
  of the queue reachable. Reference prices 2, 1 and 1 against a balance of 2 reach
  exact exhaustion and a queued request. `MaxCost` exceeds one reference.
- *Ledger*: `MaxTries` is 2 instead of 4: all rounds are alike, and two include a
  lost comparison and giving up. `MaxAudit` is 3 commits, enough for a race of two
  operations after a first one. `MaxNanos` is small enough for credits to reach it.
- *Quotas, reports, prices*: `MaxCalls` calls of the tellers, `MaxLedger` entries
  and `MaxDelays` delays (an hour, a day and a quarter cross every kind of
  boundary) from `Epoch`, the last seconds of a month in one time
  zone and its last evening in the other; `MaxAuditEvents` for a walk over three pages, with events
  added between them; `MaxVersions` versions, a day of 3 minutes and a million of 2 tokens, which only scale the
  arithmetic.
- *Lifecycle*: `MaxRevision` is 2: a stale command needs one command in between.
  `MaxEvaluations` is 2, `MaxGeneration` is 1: one overlap, one reconnection. The
  run has one checker; the theorems have any number.
- `OnlineUpgrade` has no bounds: its state space is finite and covered.
- *Administration*: limits of one or two are where races matter. `MaxEvents` audit
  events, `Retries` rounds, `MaxImports`, `MaxTime` (before, within and after a
  license), `MaxFaults`, `MaxSeats`, `MaxRequests` calls of the upstream handlers,
  `MaxActivations`, `MaxSubmissions` and `MaxPluginFaults` let every operation
  happen twice, or once after each other one.
- *Dispatch*: `MaxSessions` is one reconnection, `MaxInflight` 1 makes a queue
  full, `EventCap` 2 makes the channel of a slow reader overflow, `MaxChunks` 1 is
  an answer with a middle. `MaxImages` and `MaxChanges` are 2: one that succeeds
  and one that does not. `MaxMessages`, `MaxBlocks`, `MaxItems`, `MaxParts`, `MaxPieces`
  cover each kind of block, item and part next to each other. Two requests (`Asker`)
  and `MaxModelChanges` of 2 let a stale catalog be cached and found by another
  request.
- *Maintenance, preparation*: `JobCount` is an upgrade and what follows it,
  `MaxInvocation` a start, a restart and one more, `MaxFaults` one fault anywhere,
  the ones a restoration meets included.
- *Host, client*: `MaxGenerations` (an installation and its successor;
  the last one is not purged, since nothing could follow),
  `MaxRestores`, `MaxArchives`; `MaxHostFaults` is 1 because the two properties
  are about one fault, and do not hold with two (section 8); `MaxSetups` commands with
  `MaxEdits` edits of the user between them.

## 6. Fairness

- *Settlement*: `OutagesEnd` says that crashes and failing calls end at some
  time. The code retries for ever, so it needs no more, and with less it could
  not promise anything. Then tasks proceed, executions end (they have a
  deadline), the service manager restarts slots, reservations expire, and the recovery
  loops, which run periodically for as long as a slot runs, visit each key and each
  reservation again and again. The last is strong
  fairness, because a busy request is skipped and visited again later. A charge
  that overflows an `i64` is retried for ever by the code; `OutagesEnd` excludes it.
- *Admission*: a queued request is polled until its timeout, which needs nothing from
  others. Order among the queued is not assumed: there is none in the code.
- *Lifecycle*: handlers, streams and mutations end (deadlines of executions,
  and settlements once the database answers), middleware and bodies have timers,
  the runtime polls the shutdown task and `serve`. Requests need not arrive.
- *Upgrade*: `aster-upgrade.path` starts the executor for as long as the job file is there;
  it is not killed, and its calls do not fail, at the same step for ever; a
  check that cannot succeed is reported as a failure; processes that are asked
  to stop end; time passes. Nothing forces a call that can succeed to fail.
- The outbox also states weak fairness of a task between two system calls
  (critical sections run on the blocking pool and wait for nothing but their
  two-second deadline); its one property is safety. The other specifications have
  no fairness and no liveness property.

## 7. Proofs

All theorems are for arbitrary constants that satisfy the `ASSUME` of their
module; TLC evaluates the assumptions on every run. None of the bounds of
section 5 is small in a theorem: a bound is any natural number. `PROJECT.json`
lists the theorems; each rests on an inductive invariant, one lemma per action or
group of actions, and the lemmas those share.

**SettlementOutbox_proofs** (from `OutboxAssumption`). Mutual exclusion alone is
not inductive: two owners of a key could have locked two inodes. `IInv` says
what excludes it: who is in a registry section holds the registry
(`RegistryInv`), an open descriptor is of the inode its name refers to at the
moment of `try_lock` (`FileInv`), an owner's inode is still the linked one
(`OwnerOnLinkedInode`), locks belong to owners (`FlockInv`), two names never
share an inode (`NamesDistinct`), nobody owns what is about to be unlinked
(`UnlinkInv`), and nothing is in an unbound directory (`BoundInv`,
`BindingPrecedesEntries`). From it follow `OutboxMutualExclusion`,
`OutboxBinding`, `OutboxUnlink`, and `OutboxRefinement`: every step is a step of
`RequestLock` or changes no owner.

**DurableSettlement_proofs** (from `SettlementAssumption`). Whoever changes the
record or the ledger entry of a request owns its lock, and the step at which the
owner stands says how far both have come (`Progress`): before `publish` there is
neither, then the record, the entry, the audit marker, in this order. A crash drops
the owner; what is left still obeys `Kept` (the entry is that of the published
outcome, and the record stays until entry and marker exist), from which a
later owner can go on. From this invariant follow `SettlementLedger`, `SettlementRecord`,
`SettlementReply`, `SettlementNoReclaim`, and the refinement
`SettlementContractImplemented`, for any number of slots, scanners, requests,
crashes and lost replies.

**MoneyLedger_proofs** (from `LedgerAssumption`). `LedgerInv` adds to the
invariants of the run what an operation knows before it writes: the request it
loaded is pending (`LoadedPending`) and the successor of the row it read fits
(`SuccessorFits`). The comparisons in the transaction carry both to the stored
state. Theorems: `LedgerConsistent`, `LedgerUnique`, `LedgerApproval`,
`LedgerSuccess`, and the action property `LedgerFinal`. They hold for any number
of operations and retries and for the real width of `i64`.

*Sums.* A sum is a number of units, so that one more entry, or one changed
amount, is a bijection between finite sets and no induction over the ledger is
needed (`OneMore`, `SumsAdd`). `BooksInv` says that the row is the sum
of the entries, of credits and of debits, and that the audit events of the account
are its entries in their order. `LedgerReconstructs` follows.

*Quotas* (from `QuotaAssumption`). `QuotaInv` ties each row to what it summarises:
a purse to its entries and their chain (`ChainSound`), what is reserved to the
reservations that are active (`ReservedSound`), images to adjustments and holds
(`ImagesSound`); `ChargesOnce`, `GrantsOnce` and `VouchersOnce` say that each
reference is entered once. Of a call on a desk little needs to be known
(`CallSound`), since its commit compares every row it was computed from.
The delicate point is a charge that exceeds its reservation: it takes from what is
available and never from what others reserved. `QuotaBooksBalance` follows, for any
number of members, tellers, vouchers and calls.

*Prices* (from `PriceAssumption`). `OverlapExact`: `windows_overlap`,
which compares two windows on one week of the dates they have in common, says
exactly whether they ever apply at the same minute, in both directions. The
argument is that any day both windows have in common can be moved by whole weeks
into the first week of their common dates (`WeekRepeats`), past midnight
included. `PriceInv` says that versions are valid plans under distinct names, that
a draft has a name its book did not have, and that every frozen price is in the
book; `PricesUnique` and `PricesOnRecord` follow.

**RunnerDispatch_proofs** (from `DispatchAssumption`). `DispatchInv` says where the
tasks of a request can be when its handler stands at a given step: nothing of a
task before its dispatch, one frame or one worker after it, nothing that could
still call upstream once an attempt was given up (`SessionInv`; per task
`FrameInv`, `FrameTruth`; per request `Chosen`, `AttemptInv`, `ResultInv`). The
crux is that a frame that permits a retry is sent only by a task that made no
call and is over. `DispatchAtMostOnce` and `DispatchNoOrphan` follow. `AnswerInv`
adds what a handler has read: as long as a session feeds it, the chunks it
has not read are in its channel or in the session's queue, in order
(`ChunkInv`, `OrderInv`), and nothing follows the frame that ends an answer;
`DispatchAnswers` follows.

*Gateway* (from `GatewayAssumption`). Where the handler stands says
what upstream can have done: nothing before the first attempt, the delivered
images and no more between attempts. An answer with a 5xx counts as an execution
that may have happened, as `normalize_status` has it; the only place where the code
settles one as certainly failed is a stream (`errorStart`, section 10), and
`Progress` says that no other path does. `GatewayCharges` follows. Grants are only
withdrawn, so one that stands at a later check stood when the
authorization began: `GatewayAuthorized`.

*Admission* (from `AdmissionAssumption`). `ExposureCovered` is not inductive: the
request whose balance covers all the others may be released first. `CoveredSets`
therefore says it of every subset of the requests in flight, each of which has a
member admitted last. `ExposureStaysCovered` follows, and `PermitsMatchExecutions`,
for any number of slots, members and requests.

**Administration_proofs** (from `StoreAssumption`, `RegistryAssumption`,
`AccessAssumption`, `PluginAssumption`, `UpstreamAssumption`). What a handler read may be outdated when its
transaction runs, so the invariants say nothing of how it relates to the tables,
only what the handler concluded from it; the comparison in the transaction
makes the conclusion one about the tables.

- *Store*: for the chain, an event is sealed onto a tail that is unchanged at the
  commit; the auditor reads the gate before the events, and the chain only grows.
  `StoreSoundness`.
- *Registry*: receipts fit the rows, name known runners and keep apart from each
  other; the places taken are within the quota; and what a handler intends would
  keep all this in the state it read. `RegistryQuota` starts from any registered
  runners within the quota and allows any upgrades, and shows that the comparison
  in the transaction suffices, whoever holds the registration lease.
- *Access*: a handler that has read the grants of a policy compares the policy
  again; an update writes the successor of the policy it compares. `AccessGovernance`.
- *Plugins*: how far a submission has come says what the archive, the record and the
  Control's memory hold, so a crash between any two writes leaves a version that can be
  restored. `PluginCoherence` is about one Control, with arbitrary versions,
  releases and faults: a Control in the other slot learns of an activation only when
  it starts, and no submission is taken while an upgrade runs.
- *Upstream*: every id was drawn once, so a handler that is about to create an account
  owns the id it will use (`IdsApart`); what a handler that refreshes a
  credential got from the upstream is newer than the row exactly as long as the
  row has the revision the handler saw; a key that is to be written carries the
  successor of the key's revision as long as the connection has the revision
  that was read. `Evolves` says how rows may change, which keeps
  the tasks of the other handlers true and is the step of `SecretsAdvance`.
  The proof of `UpstreamSoundness` does not use the lease: it saves calls, and the
  comparison of revisions is what protects the secret.

**LicenseState_proofs** (from `LicenseAssumption`). A writer holds both locks, and
where it stands says which files are already those its intent names: history,
license, outbox, in this order (`Written`, `Writes`), each other file being the
one the intent saw (`FilesFit`). A crash leaves an intent with which anyone can
finish or return. Every document a task has read was reached by a history that only
moves forward (`Reached`, `Holds`), so what it decides stays right after the
next writer. `LicenseSoundness`, and with `Advance` the action property
`LicensesOnlyAdvance`.

**Upgrade_proofs** (from `PreparationAssumption`, `MaintenanceAssumption`,
`LifecycleAssumption`, `RuntimeAssumption`).
`PrepInv` says what the journals hold at every step of the executor: without a
recorded startup the candidate is down, and a service that is being stopped is the
one that was captured (`RecordSound`, `CandidateOwned`, `StopPinned`).
`CandidateNeverOrphaned` follows for any number of faults. `ControlInv` is about the
list of steps still to do: a Control is started only after the other was
stopped and enabled only after the other was disabled (`PlanSafe`, `Careful`), and
this survives the replacement of the list by a restoration at any point.
`ControlsExclusive` follows for any number of jobs, faults and deaths.

*Runtime control* (from `LifecycleAssumption`, `RuntimeAssumption`).
`LifecycleInv` says that a stopping process never accepts (`StoppedShut`) and in
which order gate, `serve` and shutdown task end (`GateOrder`). Theorems:
`LifecycleDrained`, `LifecycleRetired`, `LifecycleExit`, `LifecycleOnlyDrains`, for
any number of requests and revisions. `RuntimeInv` adds `InHand`: a stored proof,
and the one an opening has taken, are of the last evaluation begun, and the one
taken is of the current connection; whoever begins an evaluation needs the mutex
of the proof and a connection the lock of the hub, and an opening has both.
`RuntimeImplements` shows that the commands do to the registry what the lifecycle
allows, `RuntimeOpens` that admission opens only on the last evaluation, for its
revision and connection. Neither the revisions of the commands nor the number
of concurrent evaluations matters.

**ClientConfig_proofs** (from `ClientAssumption`). `ClientSound` is not inductive: a
command that is under way has written some of its files and not others, and what it
will write follows from what it read. `CodexInv` says, for every step of setup and
of its undoing, which of configuration, state file, catalog and key are the
old ones and which the new ones (`SetupFiles`, `RemoveFiles`), and what the command
concluded from what it read (`SetupKnows`, `RemoveKnows`): every value of the
configuration is one the user accepted or one the state file says was installed,
and what the state file would put back was accepted (`Removable`). What the
user chose last is in the configuration or in a backup (`Saved`). `ClaudeInv` says
the same of Claude's one file and its copies. `ClientKeepsUserFiles` follows for any
number of commands, edits, failing writes and deaths, with any values and catalogs;
set apart are only the two cases section 10 names (`torn`, `lost`).
`ClientAssumption` only keeps a file apart from no file, and a user's settings
from rendered ones. The invariant was checked with TLC first (three setups, two
edits).

Proof attempts corrected the model. The retry of a deletion did
not recheck that the runner is not part of an upgrade, as the code does;
`CanProvision` allowed two receipts of one job, which the validation refuses;
several `CASE` expressions had arms that overlap, whose value TLA+ leaves open; and a
`UNION` without parentheses was read in two ways by the two parsers. `NoReplay`
refused a document of the same identity and issue time with a higher sequence,
which the code accepts. The two outcomes of a failed maintenance step overlapped.

## 8. Only model-checked

- Liveness (`ReservationsClose`, `PublishedSettles`, `ReservationReturns`,
  `ShutdownEnds`, `UpgradeEnds`): fairness and ENABLED are out of the prover's reach.
- The `ChargeCovered` part of `PricesSound`, `ReportsSound` and
  `AdaptersFaithful` say what a fold over buckets, pages or events computes, which
  needs induction over data (`CatalogCurrent`, which is part of the last, does not;
  it is left with the module it belongs to). The other parts of `PricesSound` are proved
  (`PricesUnique`, `PricesOnRecord`).
- `TrafficServed` and `OneOutcome`: `OnlineUpgrade` has no parameter, so its run is
  complete as it stands.
- `UpgradeSettled` relates the archived job to every link, unit and receipt, for each of the
  scripts; an invariant would have to say so of each position of each script. It was
  also checked with three faults in one job.
- `HostSound` and `CommandsComplete` hold for one fault in a behaviour and not for
  more: with `MaxHostFaults` 2 TLC shows a restore in which two moves fail and
  trees are nested (section 10). There is no theorem for arbitrary faults to prove.

## 9. Abstractions, and what is not modelled

- *Coverage*. The map covers about 30 % of the backend's lines. Most of the rest is
  validation of inputs, formatting, queries for pages, schema migrations, cryptography,
  tests inside source files, and Windows services. Storage transactions exist
  twice, for SQLite and for MariaDB, and are the same; the map names one of them
  per definition.
- *Outbox*: checks of file types and permissions are left out.
- *Settlement*: one step per SQL transaction; the money transaction is
  `MoneyLedger`'s. Handlers run in spawned tasks, so a client that disconnects
  does not cancel a settlement; a panic inside one is not modelled.
- *Quotas*: `reserve_model_quota` is, at this commit, called by tests only; so are
  reservation, dispatch and confirmation of images. Settlement and recovery of
  such reservations are live code. Member status is not checked there.
- *Admission*: refusals of authorization are one nondeterministic step; prices,
  frozen anew in each round of the queue, are constant.
- *Ledger*: integrity tags are left out, since the store is not tampered with;
  the currency is fixed.
- *Prices*: image rates and the conversion between currencies are left out; the
  version name `builtin` is assumed not to be chosen by an administrator.
- *Reports*: filters of the audit log are left out; daylight saving is, as in the
  code, one offset per request.
- *Lifecycle*: deadlines are steps that can happen at any time.
- *Upgrade*: what one step observes is observed at once; a command is applied
  while its call lasts or never, so a command that arrives after its timeout
  is outside the model (listed as a hazard); a replaced runner and the validation of plans and keys are left out; the several
  pointers of a commit are one. `Stranded` names the cases the code itself
  leaves to the operator.
- *Registry*: the revision of the receipts is left out (they are compared as a
  whole); the number of retries is nondeterministic.
- *Dispatch*: the capacity of a queue beyond the bound is nondeterministic, the
  handshake of a connection is one step, token arithmetic and the score of a route
  are left out.
- *Adapters*: parts that are neither text nor calls (refusals, reasoning), which
  `canonical_output` leaves out, and the trimming of texts are not modelled; nor are
  names too long to be asked for. The cache of models is that of one process: the
  other slot has its own and learns of a change when it next reads.
- *License*: signatures are left out; the switch to the free license has no caller
  in production. *Accounts*: encryption is a binding to a row. *Plugins*: one
  Control; the Lua interpreter and the formats are left out.
- *Host*: Linux with a local SQLCipher database. Units of caddy and of the upgrade
  path are treated like the runner's; logs and `install.json` are left out; the role checks before the
  lock are merged with it; an engine dies with
  the command that started it; the alternative of
  `request.json` and writes to the database are not modelled. A failing stop is
  one service that runs on, or one that stays enabled. The lock file is known
  by its holder, not by its inode: a purge that unlinks it gives the lock away, and
  what follows when another command takes it (`raced`) is not pursued. A selection record
  written between two moves counts as a fault. `Installers` only run `install`,
  because every other command holds the lock throughout.
- *Client*: starting the client, checking the key, paths and the lock file are left out.
- Not modelled: the credential vault (cryptography and encodings), the operations
  backend (a separate program), user interfaces, website, build scripts. Two
  hazards have no property: a `close_admission` applied after its timeout
  (above), and in part the endless retry of a charge that does not fit (section 6).

## 10. Observations

Facts about the code that modelling brought up. No run isolates them: they are
outside of what the properties say, or the models set them apart by a flag that the
properties name.

- *Settlement*. A request billed in money whose slot dies before the record is
  published leaves no trace of an execution that may have happened.
- *Preparation*. A job whose state cannot be read stays where it is
  (`maintenance_executor.rs:289`); after a reboot at some points a preparation can
  neither be resumed nor cancelled; a `systemctl start` outlives the executor that
  issued it (`preparation_command.rs:70`).
- *Maintenance*. A job submitted by the CLI (`maintenance_executor.rs:466`) always fails when a slot
  runner is provisioned; a deleted local runner blocks the end of an upgrade; a commit
  that fails after its effect, followed by a failing restoration, leaves the
  candidate's CLI; the capabilities offer only maintenance mode.
- *Gateway*. A stream that is answered with a 5xx is settled as certainly
  failed (`lib.rs:19830`), although `providers/openai.rs:263` and its test call the
  execution unknown, and an answer that is not streamed is settled so (`errorStart`);
  a client that leaves takes its handler along, and only the settlement goes on;
  an Anthropic usage counts cached input twice (`anthropic.rs:64`).
- *Adapters*. A request that has read the models before a change and caches them
  after the invalidation leaves a catalog that is outdated until the next one
  (`lib.rs:8845`), and a change of the status of an account, a credential or a
  connection, or a handler that is dropped after its commit, invalidates nothing
  (both `stale`). The reducer drops a call of which upstream sent only the finished
  arguments (`responses.rs:182`; `heard` is FALSE). Arguments that are no JSON become
  `{}` in the Messages protocol (`lib.rs:19423`; `ParsedArguments`), and the
  tool calls of a user's chat message are accepted and dropped (`chat.rs:132`).
- *Reports*. The view of the audit log pages by an offset from the newest event
  (`AuditEventsView.vue:88`, `lib.rs:13776`): what is logged between two pages pushes
  lines down, and they appear again on the next page. `AuditWalkComplete` says that
  none is passed over and that no more repeat than were added.
- *Plugins*. The record is written after the archive and before the switch
  (`plugins.rs:1679`), and a restart repeats the latter.
- *Administration*. The check that no account exists when the currency is changed
  is not part of the transaction that changes it (`update_admin_billing_settings`).
- *Client*. What the user changes while setup asks for the key is overwritten and is
  not in the backup. An interrupted change of the URL makes remove report a conflict
  for ever, and a later setup takes Aster's value for the user's (`torn`). A second
  setup of Claude followed by a remove leaves the first file of Aster. A failed
  write of the state followed by a failed restoration loses the settings (`lost`).
  An interrupted remove after the restoration makes remove refuse. Claude commands
  take no lock. Setup overwrites a catalog that was edited by hand.
- *Host*. The EXIT trap of a restore deletes the tree it found, although
  `src/docs/customer-guide.md:50` says that workspace and failed state are kept; after two failing moves trees are
  nested; a restore does not restart slot runners and `create_backup` stops only
  `aster-runner.service`; a failing stop in a license or password command returns
  without a restart, and so does `license install` when it finds no current
  release after its stop (`main.rs:1933`; `CommandsComplete` names the case);
  uninstall and restore do not look whether a stop worked and then move or
  delete the files of a service that runs (`main.rs:2482`, `unstopped`);
  purge deletes the lock file with the root, in any order, and an installer that
  waits gets a new one and installs under the deletion (`main.rs:2382`, `raced`);
  the restore script takes no lock; the selection record is written after the lock was
  released (`main.rs:3155`); rollback leaves `aster-runner@.service`; recovery resets
  the slot to blue; a failed first installation leaves `current`.

## 11. Plan

The core came first (settlement, account, lifecycle, upgrade), then dispatch,
administration, maintenance, host and client. What is left, in this order:

1. `UpgradeSettled` as a theorem: for each position of each script, which links,
   units and receipts are the old ones and which the new ones;
2. commands that arrive after their timeout, in `OnlineUpgrade`.
