# VereinOrder: TLA+ models, model checking and proofs

VereinOrder is the ordering, cash and receipt-printing system of a club
festival.  This directory holds TLA+ modules translated from its source, the
TLC configurations that check them on small instances, and TLAPS proofs that
establish the most important properties for every size of the system.

How to run it (inside this directory):

    tlc -workers 2 -config PrintQueue_fencing.cfg MCPrintQueue   # one run
    tlapm PrintQueueProofs.tla                                   # the proofs
    tlapm CashDeskProofs.tla      # and InventoryProofs, OfflineQueueProofs,
                                  # RestoreSwapProofs, FulfilmentProofs, BackupsProofs,
                                  # QuickSaleProofs

`PROJECT.json` lists components, runs, mutants (one plausible bug per
property that the property catches), the map from every definition to the
source lines it models, the hazards and the theorems.  A run checks the
properties that matter most for its part of the system; section 5 lists what
else was checked with the same configurations: properties that hold, and
statements of documents, comments and messages that the code does not keep.

## 1. Inventory of the system

| Part | Source | State it keeps | Operations that change it |
|---|---|---|---|
| Print queue (backend) | `apps/backend/src/print-jobs` | `PrintJob` (status, phase, leaseId, leaseExpiresAt, printerId, activePrinterId, failoverCount), `Printer` (isActive, fallbackPrinterId, lastOkAt, lastErrorAt) | claim, phase, heartbeat, status, resolve, reprint; reaper sweep; create/update printer |
| Print worker | `apps/print-worker/src` | one attempt in memory: job, lease, heartbeat flag | claim loop, delivery adapters (TCP, CUPS/IPP, simulator, console), persistent report |
| Maintenance | `apps/backend/src/maintenance` | `SystemState.maintenancePhase` (OPEN, DRAINING, LOCKED) | start, tryAdvanceToLocked, end; guard in front of every route |
| Restore swap | `apps/backend/src/backup/restore-swap.ts`, `native-restore.service.ts` | state file on disk (phase, database names), three PostgreSQL databases | execute, resume on start, rollback, accept |
| Backups | `apps/backend/src/backup` | backup files, manifest, schedule | create, verify, rotate, JSON export/import |
| Orders and payments | `apps/backend/src/orders` | `Order`, `OrderItem`, `Payment`, pickup number counter | createOrder, createQuickSale, addPayments, splitPayment, cancelOrder, cancelOrderItem, reprint, discard offline entry |
| Offline queue (browser) | `apps/frontend/src/lib/offline*` | IndexedDB entries and their status | enqueue, claim for sending, confirm, conflict, recover, clean up |
| Cashier sessions | `apps/backend/src/sessions` | `CashierSession` | start, close |
| Inventory | `apps/backend/src/inventory` | stock movements ledger, settings | reserve, record, reverse, mutate |
| Value vouchers | `apps/backend/src/value-vouchers` | voucher status and balance | issue, redeem, cancel |
| Fulfilment | `stations`, `runner`, `orders/fulfillment-status` | item status, order status, runner | update item, claim order, deliver |
| Events | `apps/backend/src/events` | `Event.status` | create, activate, change status, duplicate, import, export, clean test data |
| Set-up, login, secrets | `setup`, `auth`, `secrets` | first administrator, throttle, secret files | create administrator, login, ensure secrets |
| Realtime, audit, reports, health | the directories of those names | none of their own (reads, append-only log, SSE fan-out) | broadcast, append |
| User interface | `apps/frontend/src` (pages, components, store) | React state | - |
| Operation scripts | `scripts/ops`, `docker-entrypoint.sh` | containers, dump files | upgrade, rollback, backup, restore |

How they interact: browsers and print workers call the backend over HTTP, and
calls are lost, delayed and repeated; the backend keeps all shared state in
PostgreSQL and runs several requests at once, so that what is safe is decided
by the condition of each UPDATE and by row locks, not by what a handler read
before; the reaper is a timer inside the backend; the worker's printers are
outside every transaction; the maintenance phase gates all of them; the
restore swap renames the database under the backend and must survive its
death between any two of its steps.

What is hard, and therefore what the properties are about: requests that
arrive after the row moved on (print queue), a paper that cannot be taken
back (print queue), processes that die between two steps (worker, restore
swap), a check in one statement and a write in another (reaper, printer
administration, payments), retries of something that already happened
(offline queue, report loop), and counters and amounts at their limits.
## 2. Modules

### 2.1 `PrintQueue`, `MCPrintQueue`, `PrintQueueProofs`

State and code.  `status`, `phase`, `leaseId`, `leaseLive`, `printerId`,
`activePrinterId`, `failoverCount` are the columns of `PrintJob`; `isActive`
and `charged` those of `Printer` (`charged` is the lease whose report last
wrote `lastOkAt`/`lastErrorAt`).  A lease stands for the UUID of a claim; leases
are numbered in the order in which they are issued, and `leaseJob`,
`leasePrinter`, `verdict` hold what a claim handed out and what its worker
concluded.  `worker` is one record per print-worker process.  `net` is the set
of requests under way: a request is handled at any later time, handled twice
(status reports), or lost.  `failing` holds `finalizeNotPrinted` handlers
between their read and their write, `sweep` the candidates a reaper sweep has
read and not yet written.  `spooled` and `onPaper` are the physical world.
`reprints`, `epoch` and `misread` are history variables: they occur in no
guard that stands for code except as the bound on reprints.

| Action | Code |
|---|---|
| `CreateJob` | job creation (`createTestJob`, order dispatch) |
| `Claim`, `ClaimAnswerLost` | `claimNextJob` (one conditional UPDATE, SKIP LOCKED), with and without the answer arriving |
| `TransitionPhase`, `Heartbeat` | `transitionPhase`, `heartbeat` |
| `FinalizeAsPrinted`, `FinalizeAsUnresolved` | `reportOutcome` with PRINTED and UNCLEAR |
| `ReadNotPrinted`, `TryFailover`, `FinalizeAsFailed` | `finalizeNotPrinted`, in two steps because it reads outside the transaction it writes in |
| `SweepClaimed`, `SweepDelivering`, `RequeueClaimedExpired`, `UnresolveActiveExpired` | the reaper's two reads and its conditional writes |
| `ResolveReprinted`, `ResolveFinally`, `SetPrinterActive` | `resolveJob`, `updatePrinter` |
| `StartMaintenance`, `TryAdvanceToLocked`, `EndMaintenance` | `maintenance.service.ts` |
| `ConfigurationInvalid` ... `RequestFails` | `processJob`, the adapters, the report loop of the worker |
| `WorkerCrashes`, `BackendRestarts`, `RequestLost`, `LeaseExpires`, `CupsPrints` | the environment |

Abstractions.  Time is `leaseLive`: a lease may run out at any moment, so every
timing of heartbeats, clock drift and stalls is included.  The document is not
modelled, only whether bytes of it left.  Retry counters and wording of errors
are left out; the error codes are kept only as far as they decide about a
failover (`FAILED_SETUP`).

Runs.

| Run | Instance | What it shows |
|---|---|---|
| `print_fencing` | 1 job, 2 leases, 2 workers, 2 requests under way, 1 reprint, maintenance, no CUPS | no two attempts under one decision put bytes on paper, the status never denies paper, nothing but a decision leaves UNRESOLVED, no outcome is written while LOCKED |
| `print_failover` | 1 job, 3 leases, printers that are each other's fallback, one CUPS, fairness | a claimed job does not stay PROCESSING; one print per decision except for misread CUPS cancels, results are booked on the printer that made the attempt |

Bounds.  Two attempts at one job are what every double-print scenario needs
(an old and a new lease); three are the first attempt, the failover and a
reprint.  Jobs do not interact except through the order of claims, which no
property mentions; the proofs cover any number of jobs, leases and workers.
Two requests under way are enough for one late request to meet one current
one.  `PrintQueue_maintenance.cfg` is the instance with a CUPS printer, where a cancel
from pending is taken as proof that nothing was printed (section 5).  `CHECK_DEADLOCK FALSE`: with all bounds used up and all jobs finished the
queue stops.

Fairness (`print_failover`).  Leases run out, the timer of
the reaper fires, the worker's adapter and report loop go on, and a request
that is repeated for ever is at some time handled (strong fairness: it is
disabled again and again by losses and by the bound `MaxNet`).  Nothing is
assumed of administrators or of job creation.  This is a deployment whose
outages end; the reaper's interval and the report loop without an upper limit
justify it.

Proofs (`PrintQueueProofs`), for all values of the constants.  `IInv` is the
inductive invariant.  `OnePrintPerDecision` is not inductive: it says nothing
about an attempt that may still print.  The strengthening follows the idea of
the code: permission to deliver (the confirmed `DELIVERING`) is what must be
unique.  `CurrentInv` says that an attempt admitted under the present decision
still holds its row in DELIVERING or SPOOLED, or the row has left the automatic
path (PRINTED, UNRESOLVED, CANCELLED), or the attempt concluded NOT_PRINTED.
`PairInv` says that of two attempts under one decision one concluded
NOT_PRINTED, and `DisownedInv` that such an attempt never prints any more.  A
new permission needs a CLAIMED row, so by `CurrentInv` every earlier attempt
under the decision has concluded NOT_PRINTED, which re-establishes `PairInv`.  The
remaining parts (`LeaseInv`, `RowInv`, `RequestInv`, `WorkerInv`, `DocumentInv`,
`EpochInv`) are the bookkeeping these need; `HolderInv` and `ChargedInv` carry
`ChargesTheRightPrinter`.  Two more invariants stand on `IInv`: `AttemptInv` for `NoThirdAttempt`
and `LockedInv` for `NoOutcomeWhileLocked`.  Liveness is only model-checked.

### 2.2 `RestoreSwap`, `MCRestoreSwap`, `RestoreSwapProofs`

A restore builds the backup in a second database and swaps names.  `live`,
`staged[n]`, `pre[n]` are the three databases by name, with what they hold
(the festival's data 0, the backup of swap n, nothing, an empty schema, half a
dump); `file` is `restore-swap-state.json`, `maint` the maintenance file, `up`,
`busy`, `exiting` the process; `task[h]` is the program counter of a request or
of the start of the process.  `owner` is history: the data that were live when a
restore was accepted last, the festival's until then.  `AutoMigrate` is what a start may do
before the process looks at anything: the container as shipped migrates, and where
`SKIP_AUTO_MIGRATE` is set it does not; the run has both.  Every await on a file or a PostgreSQL command ends a step.

| Action | Code |
|---|---|
| `ExecuteStarts` ... `Begin`, `Cleanup` | `execute` with its catch block, `coordinator.begin` |
| `Resume`, `ListForward`, `RenameLiveToPre`, `RenameStagedToLive` | `resume`, `resumeForward` |
| `ListRollback`, `RenameLiveToStaged`, `RenamePreToLive` | `rollback`, `resumeRollback` |
| `WriteState`, `ClearState` | the atomic state file |
| `WriteAuditOnce`, `MarkCompleted`, `Done` | `finalizeForward`, `finalizeRollback`, `schedule` |
| `RollbackStarts`, `AcceptStarts` ... `EndOpens` | `rollback`, `accept`, `maintenanceService.end` |
| `StartProcess`, `BootReads` | `docker-entrypoint.sh`, `onModuleInit` |
| `Crash`, `Fails`, `ScheduledExit` | death of the process, a failing command, `RESTORE_EXIT_AFTER_SWAP` |

| Run | Instance | What it shows |
|---|---|---|
| `restore_recovery` | 2 swaps, 4 faults, one request at a time, fairness, each start migrating or not | the state file is never more than one command away from the databases; OPEN means the decided data; the festival's data survive everything up to an acceptance; the process comes up again from every phase |

The automatic migration is the exception all but `FestivalDataKept` name.  A start
between two renames finds no live database and creates an empty one (`Overlaid`).  In
the phases `REQUESTED`, `LIVE_RENAMED` and `ROLLBACK_LIVE_RENAMED` every later start is
refused (`Refused`), with the restored and the previous database intact; in `COMPLETED`
(a rollback that died after its first rename) the process comes up, and an
administrator may accept the empty database, after which `owner` is `Empty` and only the
restored data are left, under their staged name.  `EveryRestartComesUp`, without the exception, is refuted with
`RestoreSwap_migrate.cfg` (section 5).

Loading the dump may stop half-way with an error, and so may the check of what was
loaded; a rename that would meet an existing name fails as PostgreSQL's does
(`MayRename`).

Bounds.  Two swaps are a restore and the one after it (leftover databases of the
first); four faults are a crash, a crash while recovering, and failing commands around them.
Limits of `FestivalDataKept`: with two requests at once *and* faults or the
scheduled exit it is false.  A second rollback that stalled between its listing
and its rename for as long as a complete rollback and the drop of an accept,
followed by the exit of the process and the automatic migration, parks the
festival's data under the staged name, which the repeated accept drops.  It is the
race of `RestoreSwap_accept_race.cfg` with more steps.  Two requests at once without
faults are in `RestoreSwap_concurrent.cfg`: with one swap the festival's data survive every
interleaving.  With two they do not (`FestivalDataKept` with `RestoreSwap_double_execute.cfg`): a rollback of the
first swap that stalls until the second one renames under it mixes up the names, and an accept drops the
festival's database; two executes at once are in `RestoreSwap_double_execute.cfg`, the start
with the automatic migration in `RestoreSwap_migrate.cfg` (section 5).

Fairness: `restart: always` starts the process, and handlers that run go on;
nothing is assumed of administrators.  `CHECK_DEADLOCK FALSE`: when the bounds are
used up the model stops.

### 2.3 `CashDesk`, `MCCashDesk`, `CashDeskProofs`

Orders and money: `orders.service.ts` (creating, paying, cancelling), all of
`value-vouchers.service.ts` and all of `sessions.service.ts`.  `order`, `item`,
`voucher`, `session` are the rows; `order[o].paid` is the sum of the order's
payments and `cash` the sum of cash booked on a session; `booked` holds the
idempotency keys of the voucher movements.  `spent`, `splitUnits`, `expected` are
history.  A request that reads something without a lock, or must keep what it locked, is a
transaction `tx[t]` of two steps; `lock` says which transaction holds a row.

| Action | Code |
|---|---|
| `CreateStarts`, `CreateOrder` | `createOrder` with payments: event lock, session read without a lock, insert |
| `QuickSaleStarts`, `QuickSale` | `createQuickSale`: event and session locked |
| `AddStarts`, `AddPayments` | `lockOrderForPayment`, `addPaymentsToOrder` |
| `SplitStarts`, `SplitPayment` | `splitPaymentOrder` |
| `CancelOrder`, `CancelOrderItem` | `cancelOrder`, `cancelOrderItem`: one step, as all they read and write is under the order's lock |
| `IssueVoucher`, `CancelVoucher`, `RedeemStarts`, `RedeemLocksOrder`, `Redeem` | `issue`, `cancel`, `redeem` (SERIALIZABLE) |
| `StartSession`, `CloseSession` | `startSession`, `closeSession` |

Isolation.  PostgreSQL runs the order transactions READ COMMITTED: a locked row is
read as it is after the lock was granted.  `redeem` runs SERIALIZABLE: it reads from
the snapshot of its first statement, and a row it locks or writes that changed since
aborts it (`OrderUnchanged`, `VoucherUnchanged`).  The voucher itself is not
locked; its UPDATE compares status and balance with what was read.

Elsewhere: the idempotency of `createOrder` in `OfflineQueue`, the whole quick sale with its
product vouchers and deposits in `QuickSale`, print tickets, fulfilment and priority in
`Fulfilment`.
One cashier; every order has the same positions.

| Run | Instance | What it shows |
|---|---|---|
| `cash_orders` | 2 orders of a position of up to 2 units, refunds 0 and 1, 1 voucher, 2 keys, 1 session, 2 requests at once | PAID means covered, no unit is paid twice by position, neither payments by amount nor redemptions overpay, no redemption is lost or booked twice, a voucher is never overdrawn |

Bounds.  Two requests at once are what a lost update needs; two orders are what one
voucher needs to be spent twice.  Orders of two positions, two sessions, card payments and a refund of 3,
which exceeds what is left after a cancellation, are in `CashDesk_positions.cfg` and
`CashDesk_vouchers.cfg` (section 5).  `CHECK_DEADLOCK FALSE`: when everything is paid
or cancelled and the sessions are used up, the desk stops.

### 2.4 `Inventory`, `MCInventory`, `InventoryProofs`

The stock of `inventory.service.ts`.  `stock` is the row per product, `ledger` the sum
of the quantity deltas of its movements and `after` the `quantityAfter` of its last
one; `item`, `sale`, `returned` are the positions of an order with their SALE and
CANCELLATION movements; `shown` is what a till displays.

| Action | Code |
|---|---|
| `SaleStarts`, `LocksRow`, `Sells`, `SaleRejected` | event lock of `createOrder`/`createQuickSale`; `reserveSale`, `recordSales` |
| `CancelOrderStarts`, `CancelItemStarts`, `LocksRow`, `Reverses` | order lock of `cancelOrder`/`cancelOrderItem`; `reverseSales` |
| `Initialize`, `CorrectionStarts`, `Correct`, `Settings` | `mutate`, `settings` (SERIALIZABLE) |
| `Publish`, `LoadContext` | the broadcast after the commit, `onmessage` and loading at the till |

The rows of a sale are locked one at a time, so that the order of locking is part
of the model.  `Settings` and `Initialize` are one step: a concurrent change of the
row they read makes PostgreSQL abort them, which leaves nothing behind.

| Run | Instance | What it shows |
|---|---|---|
| `stock` | 2 products, 2 orders of 1 unit each, stock 1, 1 correction, 2 requests at once | the ledger adds up to the stock, which is never negative; a position gives back once what it took; no circular wait |

Bounds.  `MaxVersion` bounds only `Settings`, the one operation nothing else limits:
sales and cancellations are bounded by the orders, corrections by the keys.  Two
products are the least for a circular wait.  The view of `stock` leaves out what
the tills show: no guard but that of `LoadContext` reads it.  What a till shows is the subject of
`TillsShowStock` and `TillsShowBlocked` (section 5).

### 2.5 `OfflineQueue`, `BasketFate`, `MCOfflineQueue`, `OfflineQueueProofs`

The browser's queue (`offlineQueueDb.ts`, `offlineSync.ts`, `OfflineQueuePanel.tsx`, the
checkout of `Dashboard.tsx`) together with the part of `createOrder` that makes repeats
harmless.  `entry` is the object store all tabs share; `pc`, `copy`, `cur`, `seen` are the
local variables of a tab's loop, of the panel (`Hand`) and of the checkout (`Till`): the records and
the context they have read, and work on while the store changes.  `known`, `basket`, `cart`
are the page; `net` the requests under way; `orders` and `audited` the server.

| Action | Code |
|---|---|
| `Upgrade` | the `upgrade` callback of the database, with entries of version 1 |
| `Submits`, `SubmitEnds`, `ClearsCart` | `handleCheckoutSubmit`, `enqueueOfflineOrder` |
| `SyncStarts`, `SyncReads`, `SyncFails`, `SyncStep` | `runOfflineQueueSync` with recovery, clean-up, context and `attemptSendEntry` |
| `RetryStarts`, `RetryChecks`, `Adopt`, `DiscardStarts` ... `DiscardDeletes` | the panel's buttons |
| `ServerChecks`, `ServerCommits`, `ServerFails` | key lookup, transaction with the unique key, P2002 |
| `Receives`, `TimesOut` | an answer, or the abort after 15 s; the request may still be served |
| `LogsIn`, `EventChanges`, `SessionOpens`, `SessionCloses`, `Crash` | the world |

`BasketFate` is the abstract specification: a basket that was held back is ordered or, after an
audit entry, discarded; it is never just gone.  `FateOfBaskets` is the refinement
(`INSTANCE BasketFate`, with `fate` derived from the orders, the audit log and the store).

Run `offline`: one tab, one old entry and a new basket, up to three requests under way, one
fault.  `ConfirmedIsOrdered`: what the till shows as confirmed is exactly one order.
`EntryIsSettled`: every entry becomes confirmed, conflicting, failed, discarded or
cleaned up while the user who captured it is logged in.  Fairness: a
tab starts a run every minute and works it off, requests end or time out, waiting times end, and the
context can be fetched now and then (strong fairness: a till that is offline for ever settles
nothing).  Operators are not assumed to do anything.  Two attempts (`MAX_AUTOMATIC_ATTEMPTS`) make the last one and the one before it differ;
two tabs are in `OfflineQueue_tabs.cfg`.

### 2.6 `OptionGroups`, `QuickSale` with their MC modules, `QuickSaleProofs`

`OptionGroups` is the form of a product's option groups (`ProductOptionGroupsEditor.tsx`), every
control an action; the payload, its validation and the rows (`product-option-groups.ts`); and
the price that the waiter's dialog, a tile of the quick sale and the server make of the same
answers.  `saved` is the stored product, `form` what an administrator's dialog holds.  The rows
of a save are written one after the other, and a partial unique index looks at each state in
between (`UniqueThroughout`).  Names are left out.

Run `option_groups`: two administrators, four stored configurations, two edits, two saves.
`NoRawDatabaseError`: no save the validator accepts is refused by the database.
`SavingAgainIsHarmless`: opening and saving a product changes nothing.  `WaiterPriceIsCharged`: the server
charges what the waiter was shown.

`QuickSale` extends it with the voucher till (`QuickSaleDashboard.tsx`) and the station till
(`StationSaleDashboard.tsx`) against `createQuickSale`.  A till loads a `context` and works
on it; `key` is its idempotency key, `waiting` the request it waits for, `net` holds requests and
answers; a request may be served after its till gave up.  `Disturb` is what others do:
a session ends, a printer or a station is switched off.  `customer` is history.

Run `sales`: one till of each kind, one product, one change of price, one disturbance, two
requests, a limit of one voucher per sale.  `OneOrderPerCustomer`: timeouts, changed
carts and repeats never charge a customer twice.  `ShownSaleIsBooked`: the order a till shows has the
items, the refund and the payment of the sale it asked for.  Two requests are a sale and its repeat; a larger
limit only makes larger carts.

### 2.7 `EventMode`, `MCEventMode`, `CashDeskProofs`

The status of an event and the clean-up of test data: `events.service.ts` (activate,
changeStatus, update, remove, cleanTestData), the sessions, orders, vouchers and stock
movements that carry a data mode, and the administrator's page with its dialogs.  `cleanTestData` is SERIALIZABLE: `BeginClean` takes the snapshot
and the lock, `EndClean` commits, fails, or finds its key done; `stale` says that what it read has
changed (`Serializes`).

Run `events`: an event from DRAFT to live operation, two orders, one session, two clean-ups, a page
that shows an old state.  `ModesNeverMix`: in test or live operation every order and every session carries the
mode of that operation.  `TestStockExplained`: the stock of the test is the sum of the
movements that are left.  `CleaningNeverEndsLive`: a late or repeated clean-up never takes an event out of
live operation.

### 2.8 `Assortment`, `MCAssortment`, `FulfilmentProofs`

Categories, products and stations of an event, the forms that edit them, and duplicate,
copyAssortment, export and import.  A form keeps what it loaded; the event selected when
it is saved may be another.  The transfers run under a key in SERIALIZABLE transactions: `Arrives` reads, `Commits` or `Fails`
writes, `Replays` answers a repeat.  `Checked` comes before the lookup of the key (`Existing`): a copy whose target or mapping
does not fit any more is refused even if it has been done.  A key counts in its `Scope`: the source of a duplicate, the target of
a copy, one for all imports.  `Serializes` stands for what PostgreSQL detects: two transfers that each read what the
other writes.  What a form saves meanwhile it does not detect (`NamesStayDistinct`, section 5).  The status of an event does
not change here; `EventMode` has that.

Run `assortment`: an active event, a draft, a file of version 1, one administrator with two edits,
one dialog and a repeat.  `RoutedInOwnEvent`: no product or category is routed to a station of another
event.  `RoutesKept`: a duplicated event sends every product to the station that corresponds to its old one.
`ImportedGroupsAccepted`: an import never hands the database a group its checks refuse.

### 2.9 `Backups`, `MCBackups`, `BackupsProofs`

The directory of `native-backup.service.ts`: `dumps` and `manifests` by number, the two flags
`backupInProgress` and `restoreVerificationInProgress`, and `jobs`, the step each administrator's
request or the hourly clock is at.  Every file operation and every tool is a step.
Requests are sequences of tasks, because a restore verifies, makes a safety backup and
then uses the dump it was given.  A listing reads a manifest and writes its copy back later without any flag
(`listReads`, `listRewrites`); `overtaken` is history: manifests so written that had changed.  A rotation computes the set of backups that may go
(`plan`) and removes it the youngest first (`NextDeletion`).  A removal whose failure the code swallows may leave its file
(`removeIfPresent`), and a verdict may not be written (`verdictIsLost`).  The database is the number of its rows, which
requests raise (`createQuickSale`) and lower (`cleanTestData`).  `Restart`
loses everything in memory, may raise the schema and may find moved files; `Damage` spoils a dump.

Run `backups`: one administrator and the clock, two backups, two requests, one write to a database of at most one row, one fault.
`FlagsFollowJobs`: one job at a time, and no failure leaves a flag behind.  `OrphansOnlyInvisible`, of steps: publishing, failing,
rotating, verifying and dying leave at most a dump without a manifest.  Two ways are excepted because the code has them: a withdrawal removes the dump although the
manifest could not be removed before it, and a listing writes a manifest back after its dump has gone.
`RotationSparesTheNet`: the rotation never takes a manual backup, the last valid or the youngest
verified one.  It is exact about what it does not cover: no dump is damaged between the plan of a rotation and its deletions
(`Damage` waits), and of a verified backup nothing is said when a listing has written an older manifest over it or over a
younger one (`overtaken`).  Nothing is claimed of the verdicts themselves: a dump can be damaged after its `PASSED`, and a listing can bring an older verdict
back (section 5).  Two backups are the least with something to rotate; retention counts of 0 and 1 make the rotation happen.

### 2.10 `Fulfilment`, `MCFulfilment`, `FulfilmentProofs`

From the order to the table: kitchen monitors (`StationView.tsx`, `stations.service.ts`), runners
(`RunnerDashboard.tsx`, `runner.service.ts`), the derived status of an order, and the tickets an
order and a reprint create.  `shown` and `page` are what pages loaded last, `sent` and `calls` requests under way, which may be late,
reordered or lost, also after the page gave up.  A claim and a station's update lock the order row first and are one
step; `deliverOrder` reads before it writes and is two.

Run `fulfilment`: one order of two positions of one station without a printer of its own, one monitor,
two runners, two requests, one timeout, reprint, star or switch of the event.  `OnlyTheClaimerDelivers`: of
two runners who take an order over at once one gets it, and what a request has read of the claim, or an old page shows as the runner's,
is still true when the request writes.  `CarriedByOne`:
what is on its way is on the list of exactly one runner.  `OneTicketPerPosition`: no reprint makes the kitchen cook again.

## 3. What is proved

All theorems hold for every value of the constants that satisfies the `ASSUME`s of
the module, not only for the instances above.  Every one rests on an inductive invariant
`IInv` that TLC has checked on the configuration of the run before it was proved; the
proof has one lemma per action (`...Step`), and the theorems follow from `IInv`.

| Module | Theorems | Property of a run |
|---|---|---|
| `PrintQueueProofs` | `TypeCorrect`, `OnePrint`, `NoDoublePrint`, `StatusAdmits`, `RightPrinter`, `AttemptsBounded`, `NothingDeliversLocked`, `LockHolds`, `DecisionsStand` | `OnePrintPerDecision`, `NoAutomaticDoublePrint`, `StatusAdmitsPaper`, `ChargesTheRightPrinter`, `NoOutcomeWhileLocked`, `OnlyADecisionLeavesUnresolved` |
| `CashDeskProofs` | `TypeCorrect`, `VouchersAreConserved`, `UnitsArePaidOnce`, `PaymentsNeverOverpay`, `PaidIsCovered`; of `EventMode`: `NoMixedModes`, `LiveIsNotCleaned`, `TestLedger` | `VouchersConserved`, `UnitsPaidOnce`, `NeverOverpays`, `PaidMeansCovered`; `ModesNeverMix`, `CleaningNeverEndsLive`, `TestStockExplained` |
| `InventoryProofs` | `TypeCorrect`, `LedgerCorrect`, `NothingReturnedTwice`, `NoDeadlock` | `LedgerExplainsStock`, `ReturnedOnce`, `NoWaitCycle` |
| `OfflineQueueProofs` | `TypeCorrect`, `ConfirmedHasItsOrder`, `QueueKeepsFates` | `ConfirmedIsOrdered`, `FateOfBaskets` (refinement) |
| `RestoreSwapProofs` | `TypeCorrect`, `DataKept`, `PhaseFits`, `OpensOnDecidedData` | `FestivalDataKept`, `PhaseFitsLayout`, `OpenOnDecidedData` |
| `FulfilmentProofs` | `TypeCorrect`, `ClaimerDelivers`, `OneRunnerCarries`, `OneTicket`, `ClaimStays`; of `Assortment`: `RoutedInside`, `ImportsAccepted`, `DuplicatesKeepRoutes` | `OnlyTheClaimerDelivers`, `CarriedByOne`, `OneTicketPerPosition`; `RoutedInOwnEvent`, `ImportedGroupsAccepted`, `RoutesKept` |
| `BackupsProofs` | `TypeCorrect`, `FlagsFollow`, `Orphans`, `RotationSpares` | `FlagsFollowJobs`, `OrphansOnlyInvisible`, `RotationSparesTheNet` |
| `QuickSaleProofs` | `GroupTypeCorrect`, `NoDatabaseError`, `AlwaysAnswerable`, `SavingHarmless`, `WaiterPays`, `TillsKeepGroups`, `NobodyPaysTwice`, `ShownIsBooked`, `PickupNumbers` | `NoRawDatabaseError`, `SavingAgainIsHarmless`, `WaiterPriceIsCharged`, `OneOrderPerCustomer`, `ShownSaleIsBooked` |

`PrintQueueProofs`.  The invariant is about the leases: what a lease that
is not the job's current one may still do, and what the status of a job says of the
paper of its present decision.  At most one attempt per decision
prints (`OnePrint`); without CUPS printers there is no double print at all
(`NoDoublePrint`); a job with paper is never offered again (`StatusAdmits`); outcomes
are booked on the printer that made the attempt (`RightPrinter`).  `AttemptInv` counts the permission
a row may still give along with those given, so that each is paid for by the first claim, the failover or a decision
(`AttemptsBounded`).  The two action properties follow from one lemma, `StatusStep`: the five ways in
which a status moves and what the writer found.  A sweep that began before the lock does no harm
because its candidates need a row that delivers, and of those there is none (`LockedInv`).

`CashDeskProofs`.  The properties are not inductive: between the two steps of a
transaction nothing in the state of the rows says that what was read is still true.
The inductive invariant adds that.  `TxInv`: a transaction that holds the lock of an
order remembers the order as it is (`CreatesInv`, `PaysInv`, `RedeemsInv`); `UnitsInv`:
the units paid by position are those the positions record.
`PaidIsCovered` needs more than the rows: `CoverInv` says of every
order that what is left of its positions is worth at most its total and refund, that a `PAID` order's payments reach the
total and that an unpaid one's reach the units marked as paid (`OrderCovered`), and of every transaction that pays that its order
is not settled and that its amount is the worth of its units (`Unsettled`).  The step of `cancelOrderItem`, which lowers
the total and may thereby make an order `PAID`, is the one that uses all of it.

The sums are the community module's fold, which recurs over the subsets of a finite set.  What the proofs need of it (that
such a table exists, the sum of a set with one element more, of two functions added, of a
greater function) is proved from the well-foundedness of the strict subsets of a
finite set: of the subsets for which a statement fails one is the smallest, and its sum is the
sum of a smaller one plus one element.

`CashDeskProofs` also extends `EventMode`, whose ledger is a sum too.  `EventInv`: the
rows are well-typed, `ModesNeverMix`, and a clean-up that nothing has disturbed has read the event as it is (`FreshInv`);
with it `EndClean` finds the event in the status `BeginClean` checked, hence `LiveIsNotCleaned`.  `LedgerInv`:
the stock is the balance of the movements, and no movement is of an order that does not exist yet.  `StockAssumption`: the initial stock is a natural number.

`InventoryProofs`.  `RequestsInv` says of every request what it holds and still has
to lock: a sale holds the event and its order does not exist yet (`SaleInv`), a cancellation is of an order that exists
(`CancelInv`), and every row a request waits for comes after those it holds (`LocksInv`).  `SoldInv`: a
position that does not exist has sold nothing, and what was sold from a tracked stock is tracked for good.  `NoWaitCycle` is stated of any set of requests; its proof takes
the request with the greatest held row and shows that it waits for nobody in the set.
`ORDER BY "productId" ... FOR UPDATE` is what makes that true: with the rows in any order (`LocksRow_AnyOrder`)
TLC finds the circle.

`OfflineQueueProofs`.  The invariant has a conjunct per place a basket can be in: `StoreInv`
(an entry and the number of its attempts), `LocalInv` (what a tab, the panel or the checkout is at
and which entry it has in hand), `NetInv` (every request belongs to the one who still waits for it, or to nobody,
and "ok" is only ever said of an order), `ServerInv` (at most one order per key, the unique index) and
`DiscardInv` (the panel deletes only after the audit log was written).  `QueueKeepsFates` is the refinement
of `BasketFate`, step by step: `Submits` holds, `ServerCommits` orders, `DiscardDeletes` discards, and every other step, crashes
included, leaves each basket's fate as it is.  The assumptions are about names
(tabs, panel, checkout and nobody are different) and bounds (`BoundsAreNumbers`).

`RestoreSwapProofs`.  The invariant says for each phase of the state file which layouts of the three
databases are possible: before, between or after the two renames, at most one command apart (`FileInv`); for each step
of the coordinator what it knows of the file and of the databases (`ControlOK`, `DataOK`); and that one handler runs (`OneRuns`).
The theorems have one hypothesis, and TLC shows that it is needed.  `OneRequest`: one
administrator's request at a time; `operationInProgress` is read before an await and set after
it, and with two requests at once, two swaps and no fault at all `FestivalDataKept`, `OpenOnDecidedData`,
`PhaseFitsLayout` and `SwapsOnlyWhenLocked` are all violated.
Whether starts migrate is left open: a migration between the two renames puts an empty database under
the live name (`Migrated`), which an administrator may accept (`AcceptedEmpty`), and the invariant has these two
layouts among the others.  The run `restore_recovery` satisfies the hypothesis; `MaxSwaps`, `MaxFaults` and
`AutoMigrate` are any.

`FulfilmentProofs`.  `PlacedInv` (pages and requests only name positions of orders that exist), `TicketInv` (the
tickets of a position are those of its order's creation) and `CarriedInv`: what is on its way belongs
to an order that a runner has claimed.  `ClaimStays` is an action property: no late or repeated request
takes an order from its runner.  `ClaimerDelivers` rests on it: requests and pages only ever show a claim they have read (`CallStep`,
`PageStep`), and a claim once read stays.

`FulfilmentProofs` also extends `Assortment`.  `AssortmentInv` says of each event that its rows
refer to its own categories and stations and that the database accepts its groups (`EventsFit`), of the forms and dialogs what they
loaded (`PagesFit`), and of a transfer under way that what it read is an earlier state of the events
(`RequestsFit`): stations come and never go (`Grows`), so that a route read then still leads to a station (`Earlier`).  `RoutedInside` needs
nothing of the form but that; the station in it may be of any event, and `StationBelongsToEvent` decides.  `InitialAssumption`: the first events are consistent
with the keys of the database, and a file numbers its categories.

`BackupsProofs`.  A manifest may only come where its dump stands: `DraftOK` says that a backup that runs has no manifest yet
and, once its dump has its name, that the dump is there; `CopiedOK` that the dump a verification reads stays, because the
one job that runs is that verification (`FlagsInv`, `Alone`) and nothing else removes; `RemovalOK` that a rotation comes to a dump when its manifest has
gone or a listing has written it back.  The number of a running backup is new, so that no copy a listing holds can be of
it (`NewInv`).  With these each action is shown to make no new manifest without a dump (`StepOrphans`).  Numbers of administrators, backups, requests, writes, faults and restarts are any.
`RotationInv` is about the plan of a rotation, which is carried out long after it was made: of every backup in it a younger
valid one is outside of it, and a younger verified one if it is verified itself (`PlanOK`).  It survives what
others do meanwhile because a listing writes back the trigger it read, and all copies of a manifest
agree on it (`OneTrigger`), and because a verification only adds to what stays.  `overtaken` restricts the last
part: a listing that writes back an old copy of a manifest can undo a verification, and then nothing is said of
that backup.  That no dump is damaged while a rotation removes is in the model (`Damage`), not in the invariant.

`QuickSaleProofs`, of `OptionGroups` first.  `GroupInv`: stored rows are ones the validation let through
(`Stored`), their ids and those of every form are different and were given by a save already made (`GoodRows`,
`GoodForm`), whatever is typed and however old the form is.  `NoDatabaseError`: the validator
allows one price group and one group with tiles (`OnePriceGroup`), the rows kept are neutralised
before the first write (`Neutral`), so at no point of the writing are there two (`UniqueThroughout`).  `SavingHarmless` is the round trip: of `Stored` rows,
loading, clamping, payload and writing give the same rows back.  The proof of it needs that the form is
`Loaded` from what is stored now, and nothing of who else has a dialog open.  `TillsKeepGroups` lets these theorems hold while
sales go on: each step of a till leaves `groupVars` alone.  `WaiterPays`: of the stored
groups at most one sets the price (`OneAbsoluteSaved`), it is `SINGLE` and thus has at most one answer, and with that the
waiter's sum over the groups and the server's sum over the answers are the same number.  Of the tills: `KeysFit` (a failed sale keeps its key, a new key is fresh) and
`OrdersFit` (at most one order per key, of the customer the key is for) give `NobodyPaysTwice`.
Assumptions: `InitialAssumption`, that what is stored at first is what a save has written (a row's `isRequired` is `minSelect >= 1`,
ids differ, at most one group sets the price), and `NumbersAssumption`, that prices typed and bounds are numbers.

`EventMode` and `Assortment` prefix the names every component has (`ModeSpec`, `AssortmentTypeOK`, `MaxTransfers`)
and write operations of other services in another form (`CreatesOrder` for `createOrder`), so that a module of proofs can extend
them next to another component; neither shares state with it.

Model-checked only:
- liveness (`ProcessingEnds`, `RestartComesUp`, `EntryIsSettled`): fairness and ENABLED are out of the
  prover's reach;
- the further properties of section 5 that no theorem above names, `CleansOncePerDialog` among them.

## 4. Plan

Done: `PrintQueue`, `CashDesk`, `RestoreSwap`, `Inventory`, `OfflineQueue` with its
abstract specification `BasketFate`, `Backups`, `Fulfilment`, `OptionGroups`, `QuickSale`, `EventMode` and `Assortment`,
each with proofs: every safety and action property of a passing run is a theorem.  Left, in this order:

1. An abstract single-print specification that `PrintQueue` implements, and an abstract
   store with one owner that `RestoreSwap` implements, as refinements.
2. `PrinterAdmin`: the check that fallback printers form no cycle, against concurrent updates.
3. `Setup` and `Login`: the first administrator's race, the throttle, the secret files; JSON backups.


## 5. Further results

`PROJECT.json` lists one run per part of the system.  What follows can be seen by
putting the property named, as its INVARIANT or PROPERTY, in place of the properties
of the configuration named.

Refuted: a document, a comment or a message of the code says it, and the code does not do it.

- `NoAutomaticDoublePrint` with `PrintQueue_maintenance.cfg`
  (`src/apps/print-worker/src/adapters/cups.ts:343`): After the wait time the CUPS
  adapter cancels the job and reports CUPS_JOB_CANCELED_PENDING (NOT_PRINTED, which
  triggers the failover or permits a reprint) whenever none of its polls saw
  "processing"; the document may have gone to the printer between the last poll and the
  cancel. src/apps/print-worker/src/adapters/types.ts:19 says "`NOT_PRINTED` gilt nur,
  wenn nachweisbar kein einziges Byte den Druckerport erreicht hat", and
  src/apps/print-worker/src/index.ts:270 calls the protocol "die Sicherung gegen
  Doppeldruck". The run shows the same job on paper twice without any decision of an
  administrator.
- `LockedMeansNoDelivery` with `PrintQueue_fencing.cfg`
  (`src/apps/backend/src/maintenance/maintenance.guard.ts:60`): The guard answers every
  POST and PATCH with 503 in DRAINING, the heartbeat, phase and status calls of a print
  worker included, so the lease of a running delivery runs out, the reaper moves the row
  to UNRESOLVED and tryAdvanceToLocked locks while the worker still delivers.
  src/apps/backend/src/maintenance/maintenance.service.ts:124 says "ein Blatt Papier,
  das gerade entsteht, wird nicht mitten im Vorgang begraben", and
  src/apps/backend/src/maintenance/maintenance.types.ts:7 "neue schreibende Vorgänge
  werden abgewiesen, laufende dürfen zu Ende".
- `ReapsOnlyExpiredLeases` with `PrintQueue_fencing.cfg`
  (`src/apps/backend/src/print-jobs/print-jobs.reaper.ts:140`): The reaper writes
  UNRESOLVED (and PENDING at line 71) where status and phase are as read, without
  looking at leaseExpiresAt or leaseId again; a heartbeat that renewed the lease after
  the read does not stop it. The comment at
  src/apps/backend/src/print-jobs/print-jobs.reaper.ts:106 says "DELIVERING/SPOOLED +
  Lease abgelaufen -> UNRESOLVED".
- `AbandonedJobsAreReleased` with `PrintQueue_failover.cfg`
  (`src/apps/backend/src/print-jobs/print-jobs.reaper.ts:118`): A worker that dies after
  DELIVERING was confirmed leaves a job that unresolveActiveExpired moves to UNRESOLVED
  after the lease of 60 s; nothing puts it back. src/docs/development/printing.md:251
  says "Ein Neustart des Workers mit offenem Auftrag ist unkritisch: Das Backend gibt
  Aufträge frei, die länger als fünf Minuten in `PROCESSING` stehen."
- `EveryRestartComesUp` with `RestoreSwap_migrate.cfg`
  (`src/apps/backend/docker-entrypoint.sh:118`): The entrypoint runs `prisma migrate
  deploy` before the backend starts; that command creates a missing database. After a
  crash between the two renames it creates an empty database under the live name, and
  resumeForward (restore-swap.ts:371) then finds live, staged and previous database at
  once and throws on every start. src/docs/development/datensicherung.md:404 says
  "Stürzt es während einer Wiederherstellung ab, muss es **im Wartungsmodus** wieder
  hochkommen, nicht offen."
- `SwapsOnlyWhenLocked` with `RestoreSwap_concurrent.cfg`
  (`src/apps/backend/src/backup/native-restore.service.ts:116`): execute asks for LOCKED
  once, at its start; MaintenanceService.end refuses only if the state file exists,
  which execute writes after restoring the whole dump. Maintenance can be ended in
  between, and the swap takes place in the open system.
  src/apps/backend/src/backup/native-restore.service.ts:588 says "Die Wiederherstellung
  ist ausschließlich im vollständig gesperrten Wartungsmodus erlaubt."
- `LiveReturns` with `RestoreSwap_accept_race.cfg`
  (`src/apps/backend/src/backup/native-restore.service.ts:298`): accept and rollback do
  not exclude each other. accept, having read COMPLETED, drops the previous database
  while a rollback has renamed the live one away and is about to rename the previous one
  back: no live database is left, the state file is cleared and the maintenance ended.
  src/docs/development/datensicherung.md:569 says "Es gibt keinen Zustand „halb
  wiederhergestellt"." and :572 "Zwei Umbenennungen sind nahezu augenblicklich, und die
  Rückfallebene ist eine dritte Umbenennung".
- `RestoreContinues` with `RestoreSwap_recovery.cfg`
  (`src/apps/backend/src/backup/native-restore.service.ts:241`): After a failed rename
  or write execute answers "Die Wiederherstellung wurde unterbrochen und wird aus dem
  persistenten Zustand fortgesetzt."
  (src/apps/backend/src/backup/native-restore.service.ts:241); the only code that
  resumes is onModuleInit, the restart is scheduled only after success, and a new
  execute, rollback or accept is refused in this phase. The process goes on running, and
  the restore is not continued.
- `OneExecuteAtATime` with `RestoreSwap_double_execute.cfg`
  (`src/apps/backend/src/backup/native-restore.service.ts:117`): operationInProgress is
  checked before and set after `await this.store.read()`, so two executes arriving
  together both go on; each prepares a staged database and a pre-restore backup, and the
  second fails only in begin, or not at all if the first has been accepted by then.
  src/apps/backend/src/backup/native-restore.service.ts:118 says "Eine Wiederherstellung
  läuft bereits."
- `SplitNeverOverpays` with `CashDesk_orders.cfg`
  (`src/apps/backend/src/orders/orders.service.ts:2304`): splitPaymentOrder compares the
  chosen quantity with the units not yet paid by position and never looks at the
  payments of the order: after a payment by amount, or with a deposit refund in the
  total, the sum of the payments exceeds the total. addPaymentsToOrder refuses the same
  with "Die Zahlung würde die Bestellung überzahlen."
  (src/apps/backend/src/orders/orders.service.ts:2195).
- `CancelledIsNotPaid` with `CashDesk_orders.cfg`
  (`src/apps/backend/src/orders/orders.service.ts:2183`): addPaymentsToOrder checks
  paymentStatus but not lifecycleStatus, so that money is booked on a cancelled order.
  src/apps/backend/src/orders/orders.service.ts:2281 says "Eine stornierte Bestellung
  kann nicht bezahlt werden." and
  src/apps/backend/src/value-vouchers/value-vouchers.service.ts:208 "Stornierte
  Bestellungen können nicht bezahlt werden."
- `ClosedTotalsFinal` with `CashDesk_orders.cfg`
  (`src/apps/backend/src/orders/orders.service.ts:2202`): addPaymentsToOrder,
  splitPaymentOrder and createOrder read the active session without a lock; closeSession
  may count the cash and close it before the payment is written, which is then booked on
  the closed session and missing in the recorded expected cash. src/README.md:28 says
  "Centgenaue Erfassung von Startguthaben, Barumsätzen, Soll-Bestand, gezähltem
  Ist-Bestand und Differenzen."
- `SettledIsPaid` with `CashDesk_orders.cfg`
  (`src/apps/backend/src/orders/orders.service.ts:2566`): cancelOrderItem recomputes the
  total and leaves paymentStatus alone: a partly paid order whose open position is
  cancelled stays PARTIALLY_PAID with nothing open, and addPaymentsToOrder refuses every
  amount for it. src/docs/architecture/datenmodell.md:106 says "PARTIALLY_PAID --> PAID
  : Restbetrag beglichen".
- `TillsShowStock` with `Inventory_stock.cfg`
  (`src/apps/frontend/src/pages/QuickSaleDashboard.tsx:152`): A change is broadcast
  after its transaction has committed, in no order with other broadcasts, and a till
  takes payload.data.version without comparing it with the version it shows: the older
  of two changes may be shown until the next change. src/CHANGELOG.md:21 says "Warenkorb
  mit Live-Bestandsanzeige".
- `TillsShowBlocked` with `Inventory_stock.cfg`
  (`src/apps/backend/src/inventory/inventory.service.ts:486`): publishChanges computes
  the availability with manualBlocked: false; reverseSales gives stock back to a blocked
  product, so the tills are told that the product is available.
  src/apps/backend/src/inventory/inventory.service.ts:441 says "Der finale Status wird
  beim Broadcast gegen den aktuellen manuellen Override aufgeloest; hier reicht ein
  Platzhalter nicht."
- `BookedAsCaptured` with `OfflineQueue_queue.cfg`
  (`src/apps/frontend/src/lib/offlineSync.ts:267`): The loop compares an entry with the
  context it has fetched and with the user it was started for; the payload names neither
  user nor mode, the token is read when the request leaves (api.ts:21), and the server
  books for whoever sends it in the mode of now.
  src/docs/development/offline-warteschlange.md:243 says of an entry "wird
  ausschließlich in genau diesem Kontext gesendet".
- `OnlyOperatorReopens` with `OfflineQueue_tabs.cfg`
  (`src/apps/frontend/src/lib/offlineSync.ts:293`): attemptSendEntry writes back the
  copy that the loop has read, without looking at the record again; the lock of
  runOfflineQueueSync is a variable of one tab.
  src/docs/development/offline-warteschlange.md:136 says "Aus `CONFLICT` und `FAILED`
  führt kein Weg ohne Bedienerentscheidung heraus".
- `DiscardedIsNotSent` with `OfflineQueue_tabs.cfg`
  (`src/apps/frontend/src/lib/offlineSync.ts:312`): An entry that was deleted after its
  discarding was audited is put back as SENDING by a tab that had read it before.
  src/docs/development/offline-warteschlange.md:471 says "dass diese Vormerkung nicht an
  den Server geht".
- `BasketOrderedOnce` with `OfflineQueue_basket.cfg`
  (`src/apps/frontend/src/pages/Dashboard.tsx:741`): Every press makes a new idempotency
  key; after a lost answer to an order of a tracked product nothing is held back, the
  cart stays, and the next press orders it a second time.
  src/apps/frontend/src/pages/Dashboard.tsx:804 says "Sie wird nicht offline vorgemerkt,
  damit der Bestand nicht überbucht wird."
- `ResendConfirms` with `OfflineQueue_refund.cfg`
  (`src/apps/frontend/src/lib/offlineSync.ts:267`): handleCheckoutSubmit sends
  depositRefundTotal, enqueueOfflineOrder and buildOrderPayload do not know it: an order
  whose answer was lost is refused as DUPLICATE_KEY_MISMATCH when the queue sends it
  again, and one that never arrived is stored without its refund.
  src/docs/development/offline-warteschlange.md:176 says "der Kurzschluss findet sie
  über `idempotencyKey` und gibt sie zurück".
- `TileIsAccepted` with `OptionGroups_groups.cfg`
  (`src/apps/frontend/src/lib/quickSaleTiles.ts:124`): deriveQuickSaleTiles takes one
  answer of every other required group; for a group of type MULTIPLE with minSelect 2
  the tile carries too few and createQuickSale refuses it. The comment
  (src/apps/frontend/src/lib/quickSaleTiles.ts:80) says "wird die erste Antwort in
  gepflegter Reihenfolge vorbelegt" as if that were enough.
- `TilePriceIsCharged` with `OptionGroups_groups.cfg`
  (`src/apps/frontend/src/lib/quickSaleTiles.ts:157`): A required group with priceMode
  ABSOLUTE, without tiles and with only free answers is taken for a group without
  surcharge: the tile shows product.price, the server charges 0.
  src/apps/frontend/src/lib/quickSaleTiles.ts:83 says "Trägt eine von ihnen einen
  Aufpreis, ist der Kachelpreis unbestimmt und das Produkt wird nicht angeboten."
- `CardAmountIsBooked` with `QuickSale_sales.cfg`
  (`src/apps/frontend/src/pages/QuickSaleDashboard.tsx:355`): For CARD the page sends no
  tenderedAmount, so the server cannot compare: after a change of price the order is
  booked with the new total while the terminal took the old one.
  src/apps/backend/src/orders/orders.service.ts:1015 says "Der Kartenbetrag muss dem
  Gesamtbetrag entsprechen."
- `PayoutShownIsBooked` with `QuickSale_payoutshownisbooked.cfg`
  (`src/apps/frontend/src/pages/QuickSaleDashboard.tsx:846`): With items worth less than
  the refund in the cart the button reads "Pfand bar auszahlen" with the whole refund
  (depositRefundTotal); booked is the refund less the items
  (src/apps/backend/src/orders/orders.service.ts:974).
- `AbortedIsNotBooked` with `QuickSale_sales.cfg`
  (`src/apps/frontend/src/pages/StationSaleDashboard.tsx:353`): "Warenkorb abbrechen"
  stays enabled while a sale is on its way: the cart is emptied and the key replaced,
  and the sale is booked all the same; its answer then also empties the cart of the next
  customer. src/docs/development/stationskasse.md:285 says "Bis hierher ist nichts
  gebucht — ein Abbruch kann deshalb serverseitig auch nichts auditieren."
- `CartCanBeEmptied` with `QuickSale_sales.cfg`
  (`src/apps/frontend/src/pages/StationSaleDashboard.tsx:247`): When the selected
  station is deactivated and the context reloaded, the selection is dropped although the
  cart is not empty: the buttons of the other stations are disabled because of the cart
  and the cart with "Warenkorb abbrechen" is not shown without a station.
  src/apps/frontend/src/pages/StationSaleDashboard.tsx:668 says "Die Station lässt sich
  erst nach Leeren des Warenkorbs wechseln."
- `CleanedMeansNoTestData` with `EventMode_events.cfg`
  (`src/apps/backend/src/events/events.service.ts:575`): The order ids are read in the
  snapshot of the first statement, the lock is taken later: a test order committed in
  between survives and the event is PREPARED. src/docs/architecture/datenmodell.md:76
  says "TEST_MODE --> PREPARED : Testdaten bereinigt".
- `RemovedInDraftOrTest` with `EventMode_events.cfg`
  (`src/apps/backend/src/events/events.service.ts:1787`): remove() does not look at the
  status. src/docs/api/endpunkte.md:30 says "Veranstaltung löschen (nur im
  Entwurf/Testmodus)". With products the database refuses in every status, drafts
  included, because a category restricts.
- `StatusFollowsDiagram` with `EventMode_events.cfg`
  (`src/apps/backend/src/events/events.service.ts:321`): changeStatus accepts every
  status (the page itself goes from DRAFT to TEST_MODE and from DRAFT to COMPLETED). The
  diagram in src/docs/architecture/datenmodell.md:72 starts with "DRAFT --> PREPARED :
  Sortiment & Stationen fertig".
- `UndisturbedCleanupSucceeds` with `EventMode_events.cfg`
  (`src/apps/backend/src/events/events.service.ts:612`): ValueVoucher restricts the
  deletion of the session it was issued in and cleanTestData deletes no value vouchers:
  after one was issued in a test no clean-up succeeds. The comment at
  src/apps/backend/src/events/events.service.ts:589 describes this trap for the ledger:
  "die Veranstaltung liesse sich nie wieder auf Echtbetrieb umstellen".
- `DepositsKept` with `Assortment_assortment.cfg`
  (`src/apps/backend/src/events/events.service.ts:743`): duplicate and copyAssortment
  copy neither deposit nor isActive of a category, nor the deposit of a product.
  src/docs/api/endpunkte.md:27 says "Veranstaltung samt Sortiment und Stationen
  duplizieren".
- `NamesStayDistinct` with `Assortment_assortment.cfg`
  (`src/apps/backend/src/events/events.service.ts:923`): The names of the target are
  counted in the snapshot of the first statement
  (src/apps/backend/src/events/events.service.ts:866), the lock on the event is taken
  later (src/apps/backend/src/events/events.service.ts:881). createCategory and
  createProduct run outside SERIALIZABLE transactions
  (src/apps/backend/src/products/products.service.ts:453, 310): a name they save in
  between is not seen and no conflict is raised.
  src/apps/backend/src/events/events.service.ts:932 says "Im Ziel bestehen
  Namenskonflikte bei Kategorien oder Produkten."
- `AvailabilityImported` with `Assortment_assortment.cfg`
  (`src/apps/backend/src/events/events.service.ts:1221`): importConfig writes
  product.manualAvailability, but validateImport returns that field as availability
  (src/apps/backend/src/events/events.service.ts:1756), so the column gets its default.
  The export writes it on purpose: "availability: p.manualAvailability" at
  src/apps/backend/src/events/events.service.ts:1055.
- `HourlyBackup` with `Backups_hourlybackup.cfg`
  (`src/apps/backend/src/backup/native-backup.service.ts:232`): createdAt is taken after
  the dump, so at the next call, an hour after the last one began, the last backup is
  still younger than SCHEDULE_DUE_AFTER_MS (60 minutes) and the call returns: a backup
  is made every second hour. src/docs/ops/backup-recovery.md:8 says "VereinOrder
  erstellt stündlich einen PostgreSQL-Custom-Dump".
- `BracketedDumpsAccepted` with `Backups_backups.cfg`
  (`src/apps/backend/src/backup/native-backup.service.ts:695`): The verification
  compares with countsAfter for equality: a backup made while something was sold is
  recorded as FAILED although its dump is sound.
  src/docs/development/datensicherung.md:277 gives the check as "min(countsBefore[t],
  countsAfter[t]) <= wiederhergestellt[t] <= max(countsBefore[t], countsAfter[t])".
- `ManifestHasDump` with `Backups_backups.cfg`
  (`src/apps/backend/src/backup/native-backup.service.ts:444`): listBackups writes back
  the manifest it read before hashing; when the rotation of a backup removed the pair
  meanwhile, a manifest without a dump remains. The comment at
  src/apps/backend/src/backup/native-backup.service.ts:1452 says a crash leaves
  "höchstens einen ignorierten Dump, nie aber ein scheinbar vollständiges Paar".
- `VerdictKept` with `Backups_backups.cfg`
  (`src/apps/backend/src/backup/native-backup.service.ts:444`): listBackups takes no
  part in the flags: the manifest it writes back carries the verdict of before a
  verification that ended meanwhile, so a FAILED can turn into an older PASSED.
  src/docs/development/datensicherung.md:241 calls the manifest "die Quelle über seine
  Verwendbarkeit".
- `SelectedStillThere` with `Backups_selectedstillthere.cfg`
  (`src/apps/backend/src/backup/native-restore.service.ts:149`): The PRE_RESTORE backup
  a restore makes of the current state runs the rotation, which protects neither the
  file just selected nor its neighbours: when that is the last PRE_RESTORE within
  BACKUP_RETENTION_EVENT_KEEP it is deleted before restoreDump reads it.
  src/docs/ops/backup-recovery.md:45 says the restore "erstellt `PRE_RESTORE`, stellt in
  einer Nebendatenbank wieder her".
- `NoWayBack` with `Fulfilment_delivery.cfg`
  (`src/apps/backend/src/stations/stations.service.ts:140`): updateItemStatus writes the
  status it is sent whatever the position has, so a late "PREPARING" takes a position
  that is on its way or delivered back to the kitchen;
  src/docs/product/master-prompt.md:690 says "Ungültige Statuswechsel müssen vom Backend
  verhindert werden."
- `CancelledNotDelivered` with `Fulfilment_delivery.cfg`
  (`src/apps/backend/src/stations/stations.service.ts:159`): A monitor that still shows
  a position cancelled meanwhile sets it READY again, and a runner delivers what has
  been given back; src/docs/product/master-prompt.md:690 says "Ungültige Statuswechsel
  müssen vom Backend verhindert werden."
- `FulfilmentMatchesItems` with `Fulfilment_delivery.cfg`
  (`src/apps/backend/src/orders/orders.service.ts:2570`): cancelOrderItem writes total
  and lifecycle of the order but not fulfillmentStatus: when the last position that is
  not ready is cancelled the order stays PARTIALLY_READY, though deriveFulfillmentStatus
  ("const activeItems = items.filter((item) => item.status !== \"CANCELLED\")",
  src/apps/backend/src/orders/fulfillment-status.ts:8) leaves cancelled positions out.
- `StarredIsPrioritised` with `Fulfilment_delivery.cfg`
  (`src/apps/frontend/src/pages/StationView.tsx:295`): The star calls
  togglePriority(item.order.id, ...), and getPendingItems selects orderNumber, createdAt
  and isPriority of the order but not its id
  (src/apps/backend/src/stations/stations.service.ts:131), so that the request names no
  order; src/docs/product/master-prompt.md:779 lists "Priorität ändern" among the
  functions of a station.

Holding: further properties of the instances above.

- `PrintQueue_fencing.cfg`: `TypeOK`
- `PrintQueue_failover.cfg`: `NoThirdAttempt`
- `RestoreSwap_recovery.cfg`: `TypeOK`
- `CashDesk_orders.cfg`: `QuickSalesOnOpenSession`
- `Inventory_stock.cfg`: `TypeOK`
- `OfflineQueue_queue.cfg`: `TypeOK`
- `OptionGroups_groups.cfg`: `GroupTypeOK`, `Answerable`
- `QuickSale_sales.cfg`: `TypeOK`, `PickupNumbersDiffer`
- `EventMode_events.cfg`: `ModeTypeOK`, `CleansOncePerDialog`
- `Assortment_assortment.cfg`: `AssortmentTypeOK`
- `Backups_backups.cfg`: `TypeOK`
- `Fulfilment_delivery.cfg`: `TypeOK`, `ClaimKept`

Holding: configurations of their own, for instances the runs leave out.

- `PrintQueue_maintenance.cfg` (`NoOutcomeWhileLocked`): The same with a CUPS printer:
  spooled jobs hold the lock back too.
- `RestoreSwap_concurrent.cfg` (`FestivalDataKept`): Two administrators' requests at the
  same time and one swap, in every interleaving of their steps: the festival's data are
  never lost before a restore is accepted.
- `CashDesk_positions.cfg` (`TypeOK`, `PaidMeansCovered`, `UnitsPaidOnce`,
  `NeverOverpays`, `QuickSalesOnOpenSession`): One order of two positions, two sessions,
  cash and card, without vouchers.
- `CashDesk_vouchers.cfg` (`VouchersConserved`, `NeverOverpays`): Two orders of two
  positions and one voucher.
- `OfflineQueue_tabs.cfg` (`TypeOK`, `ConfirmedIsOrdered`, `FateOfBaskets`): The safety
  properties with two tabs and two requests at a time.
- `OfflineQueue_settled.cfg` (`EntryIsSettled`): The liveness property with two tabs and
  one request at a time.
## 6. Not modelled

Rendering of pages and receipts, PDF and CSV layout, the database schema's migrations,
CI scripts and container files hold no protocol of their own; reports, audit and health only
read or append.  Set-up, login, secrets and the JSON backups have small protocols and are in
the plan.  `PROJECT.json` lists every part with its reason.  Of the pages, `OfflineQueue`,
`OptionGroups`, `QuickSale`, `EventMode`, `Assortment` and `Fulfilment` model the control (what a button reads, sends and
does with the answer), never the rendering.
