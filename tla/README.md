# Incudal: a TLA+ model of its task queue, billing, recharges and transfers

Incudal is a panel that rents containers and virtual machines on Incus hosts. A
Node server (`src/server`) keeps everything in PostgreSQL, talks to the Incus API
of each host, and receives reports from a Go agent on the hosts (`src/agent`). The
interesting part is what several processes, timers, requests and reports do to the
same few rows: the queue of instance operations, the status and the owner of an
instance, and the money that is frozen, charged, refunded and recharged around it.

This directory holds TLA+ modules of that part, TLC configurations that check them
on small instances, and proofs for any instance. Paths below are relative to
`src/server/src` unless they start with `src/`.

## 1. Inventory

| Component | State | Operations | Interacts with | Hard because | Correct when |
|---|---|---|---|---|---|
| Task queue and executor (`workers/instanceTaskWorker.ts`) | rows of `instance_tasks`, one execution per claimed row | poll, claim light / heavy, execute, quarantine, clean up | requests, deletion, Incus, hourly billing | several processes, overlapping polls, lost leases, crashes | heavy tasks are alone on their host; no two executions touch one instance; nothing waits for ever |
| Execution lease (`workers/instance-task-lease.ts`) | `executionToken`, `leaseExpiresAt` | renew, check, finish by compare-and-set, recovery rule | executor, recover route | statements carry an old clock value | who lost the lease does not finish the task |
| Task rows, advisory locks (`db/instance-tasks.ts`, `db/advisory-locks.ts`) | rows, transaction-scoped locks | create, cancel, lock | routes, claims, deletion | reads and writes in separate statements | one active task per instance |
| Hourly billing (`services/hourly-billing-scheduler.ts`, `lib/hourly-billing.ts`) | the account of an instance, the owner's balance and frozen balance, records, the host owner's income | reserve, activate, settle, pause, resume, close; the five-minute job | every writer of an instance's status | any order, any number of times, retried transactions, partial payment | the books balance, no time is charged twice, a running instance is billed |
| Status synchroniser (`services/status-scheduler.ts`) | none of its own | compare with Incus, update, bill | Incus, billing | the row changes meanwhile; crash between update and billing | status follows Incus, billing follows status |
| Agent reports (`services/agent-instance-report.ts`) | none of its own | take a report, update, bill | agent, billing | late reports | as above |
| Creation (`routes/instances/create-async.ts`, `services/provisioning-cleanup.ts`) | the row in `creating` | create, start, settle a failure, time out | Incus, billing, timeout worker | the creator and the timeout worker race | a failed creation is refunded once, a late answer does no harm |
| Instance routes (`routes/instances.ts`, `db/instances.ts`) | none of their own | start, stop, restart, suspend, unsuspend, sync-status, retry-provision, recover, cancel ... | queue, billing | unconditional status writes | suspensions and deletions are not undone |
| Deletion (`routes/instance-destroy.ts`, `routes/hosts.ts`, `routes/admin-billing.ts`, recovery in `services/schedulers.ts`) | `deletionBillingPending` and its companions on the row | claim, quote, remove, mark, settle, restore, recover | queue, billing, Incus | a saga over Incus and the database; request and recovery at once; crashes | refund once, only after removal, no more than was paid; what was claimed is settled |
| Prepaid billing (`db/billing-operations.ts`, `services/billing-scheduler.ts`) | billing records, expiry date | renew, extend, refund, change plan | routes, jobs, deletion | stale lists, versions some writers skip, partial refunds | no period is bought unasked, refunds within payments |
| Expiry (`db/instance-suspend.ts`, `services/billing-scheduler.ts`) | `suspendReason`, `suspendedAt` | suspend and stop, claim, delete, restore | Incus, renewal, deletion | Incus is called under a lock whose transaction times out | what expired is stopped, then deleted, unless paid for |
| Transfers (`routes/transfers.ts`, `db/transfers.ts`, `db/transfer-safety.ts`) | rows of `instance_transfers` with a claim (token, lease), the owner and the Incus name of the instance | offer, claim, rename in Incus, commit, rename back, give up; reject, cancel, clean up | Incus, deletion, synchroniser, billing | a saga over Incus and the database whose lease may end under it; deletions take little notice of it | one offer at a time, given once or paid back once; a claim ends; the name in Incus is that of the row |
| Quota and resources (`db/quota-operations.ts`) | counters of users and hosts | reserve, roll back, claim for retry | creation | sums under concurrency | counters equal the sum of the rows |
| Recharges (`routes/recharge.ts`, `db/recharge-records.ts`) | recharge records, marks of handled callbacks, balances | create, callback, query, complete / fail by the staff, cancel, clean up | payment providers | duplicated, late and reordered callbacks, stale reads, lost answers | credited once, only when paid; a payment is not lost |
| Distributed lock (`lib/distributed-lock.ts`) | Redis keys with tokens | acquire, extend, release | schedulers | expiry under a live holder | released by its owner only |
| Address reservations (`db/ip-addresses.ts`) | reservations | reserve, confirm, release | creation | crashes in between | one instance per address |
| Traffic (`services/traffic-*.ts`) | counters, periods | collect, bill, reset | agent, routes | counters restart | monotone totals |
| The rest | | coupons, lottery, affiliates, mail, tickets, the client, the agent program | | | |

`PROJECT.json` lists the same components with what is modelled of each.

## 2. The modules

| Module | What it is |
|---|---|
| `HostSlots` | the abstract promise of the queue: a readers-writer lock per host, one holder per instance |
| `HostTasks` | the queue: rows, claims, executions, leases, and the requests that race with them |
| `HourlyBilling` | the account of one hourly instance and its owners' wallets, transactions in any order |
| `HourlyPower` | who calls the billing and when: creator, executor, synchroniser, agent, job, routes; it implements `HourlyBilling` |
| `PrepaidLedger` | the abstract promise of a prepaid instance: bought, refunded within the payments, closed once, and not before it is gone |
| `Prepaid` | one prepaid instance: deletions of four kinds, their recovery, expiry, renewal, suspension by hand; it implements `PrepaidLedger` |
| `RechargeOrders` | the abstract promise of a recharge order: credited at most once, within its face value |
| `Recharge` | orders, the requests and callbacks that settle them, the provider's notices; it implements `RechargeOrders` |
| `TransferDeeds` | the abstract promise of the transfers: one open offer at a time, given at once or paid back; so fees and ownership balance |
| `Transfers` | offers, claims, the rename in Incus, the commit and its undoing, with deletions and the synchroniser; it implements `TransferDeeds` |
| `HostTasksProofs`, `HourlyBillingProofs`, `HourlyPowerProofs`, `PrepaidProofs`, `RechargeProofs`, `TransferDeedsProofs`, `TransfersProofs` | theorems and proofs |
| `MCHostTasks`, `MCHourlyBilling`, `MCHourlyPower`, `MCPrepaid`, `MCRecharge`, `MCTransfers` | definitions for the configurations |

Operators that begin "Mutant:" in their comment are not part of the model. Each is a
plausible mistake in the definition that follows it, and stands there to show that a
property notices the mistake.

### HostTasks

One step is one statement, or one transaction that holds an advisory lock over all it
reads. Where the code reads in one statement and writes in a later one without such a
lock, the model has two steps.

* `RequestTask` / `CreateInstanceTask`: the route's checks, then the insert, which the
  partial unique index on active rows may refuse.
* `ClaimLightTask` / `ClaimNextTask` open a claim: the host lock is held and the counts
  are read; `ClaimCommit` is the update by id and commit; `ClaimAbort` the roll-back.
  The pending row is not locked in between, so a cancel, a recovery or a synchroniser
  may come. `claiming[h]` is the host lock and, with `destroy`, the instance lock.
* `BeginExecution`, `WorkDone`, `WorkFails`, `AssertFails`, `FinishExecution`,
  `QuarantineTask` are the places of `executeTask` (`exec[t]`). The body of a task is one
  place, "work".
* `HeartbeatSend` / `HeartbeatLand`: a renewal is sent with the clock of its sending and
  lands later, even after its process died or the lease expired.
* `CancelRead` / `CancelWrite`: the two statements of `cancelInstanceTask`.
* `RecoverTask`: the recover route. For a PROCESSING row the model lets it succeed
  when the execution has ended: the route asks the administrator to confirm this, and
  nothing in the server checks it.
* `DestroyCheck`, `DestroyCommit`, `DestroyEnd`: the claim of an instance for deletion,
  and its release when the removal fails.
* `CleanupTimeoutTasks`, `Crash`, `Restart`: quarantine by the timer and at start-up.

A token is a random UUID; a row is claimed at most once (`ExecutedOnce`), so the process
that drew it stands for it. Checks for retired task kinds (restore, backup upload) are
left out of claims and deletions, as `app.ts` fails such tasks at start-up.

### HourlyBilling

Every operation of `hourly-billing-scheduler.ts` is a serializable transaction that locks
the account row first: one action each. Money is counted in the price of one unit of
running time, so `s` units cost `s`. `Settlement` says what a charge of `s` units takes
from the prepayment, what it reserves anew, what it leaves unpaid; `Post` books it on the
account and the wallet. The "now" of a settlement was read before the row was locked, so it
may charge any part of the time that passed (`Settlements`). `WriteStatus` lets the
instance's status change in any order with the transactions, `TransferInstance` its
owner: the transaction checks no status, and what the routes saw before the claim may have
changed, except that an instance under its first creation cannot have been offered. `funds` and `activeTime` are auxiliary: what a user brought in, and the time the
account was active. `pending` stands for the unpaid billing records.

### HourlyPower

`power` is the instance in Incus: absent, on or off. Each caller is a small process
whose place is a variable: `creator` (createInstanceAsync), `task` (the executor of a
start, stop or restart), `sync` (the synchroniser), `agent` and `seen` (a report on its
way, and the row the server read for it), `job` (the five-minute job), `route` (a
suspend, unsuspend or sync-status request). Each moves between Incus, the status and the
billing in the order of the code. A crash of the server loses all places. A failure ends
a task at any place. `Agents` says whether the host has an agent ("none" is a report that
has not come yet, "absent" a host without one). `Write` is `updateInstanceStatus`, which never overwrites a deletion;
`Overwrite` is what `suspendInstance` and `unsuspendInstance` do, which may.

Simplified there:

* one creation at a time; a late failure of an earlier creation, which may remove the
  instance a retry has made (`create-async.ts:294`), is not covered;
* the two-step claim of a failed creation (`provisioningCleanupPending`) is one step,
  `SettleCreation`;
* one place for the job: overlapping job runs would repeat the same transactions, which
  `HourlyBilling` allows in any order;
* the synchroniser's update also compares `version`; without it the model lets an update
  through that the code refuses when the status changed and changed back;
* passive status updates of the statistics route, an Incus status "error", changes of
  resources, and the billing calls of rebuild, recreate and change_host are left out, and
  deletion requests are left to `HourlyBilling`.

### Prepaid

One row of `instances` with a prepaid package, its billing records, and the instance in
Incus. Every writer of the row is there with the guard it really has: the advisory lock of
the instance (`Unlocked`: only the suspension at expiry holds it over a call to Incus),
the row lock of an open transaction (`RowFree`), the version (`Current`, `Bump`), or
none. `unchanged` is the set of those who read the row at its present version; it stands
for the version numbers.

* `Claim`, `QuoteRefund`, `Remove`, `Mark`, `Settle`, `BatchMarksDeleted`, `RequestFails`
  and `Restore` are the places of a deletion request. The four kinds (`user`, `owner`
  of the host, `admin`, `batch`) go through the same places and differ where the code
  differs: who bumps the version, who keeps the claim when the quote or the mark fails,
  who may refund everything paid.
* `Recovery...` is `runDeletionBillingRecovery`: it takes up any deletion whose billing
  is pending, also one whose request is still at work.
* `Suspend...` and `LateStop` are `processExpirySuspend` with its rolled back
  transactions; `Expiry...` is `processExpiryDelete`.
* `BeginPayment`, `Renew`, `Extend`, `PaymentFails` are the renewal by the owner, by the
  job and the staff's extension; `SuspendRequest`, `SuspendManually`, `Unsuspend`,
  `RefundByHand` the staff's routes; `StartRequest`, `TaskPowersOn`, `TaskWrites` a
  start task; `SyncStatus` the synchroniser.
* Time is counted in paid periods (`periods` says of each one to come whether it was
  paid for, as a free extension is not refunded); `Tick` ends one, `Age` makes a
  suspension three days old. The fee of a destruction is a tenth, rounded, and waived
  once. `settled` is auxiliary: the settlements that refunded or recorded anything.

Balances, coupons and the income of the host's owner are left out: `refunded` and `paid`
are sums of the instance's own records, from which the code computes what may be
refunded.

### Recharge

A handler is a place: it reads the order ("read"; a query asks the provider first,
"asked"), looks for the mark of an earlier callback, writes the order in a transaction
("completing", "ending"), leaves its mark and answers ("marking"). `handler[h].seen` is
the status it read, which the later steps go by, as the code does. `Pay` is the provider:
`invoice[o]` is the state of the payment there, `sent[o]` its notices, which it may
deliver at any time, again and in any order, until they are answered (`acked`). Finding
no mark although there is one (`FindsNoMark`), losing an answer, failing to leave a mark
and a crash are the faults.

### Transfers

To accept a transfer, or to push it, is a saga. `ClaimTransfer` is the transaction that
takes the row with a fresh token and a lease of thirty minutes; `MarkRenaming` and
`Rename` go to Incus; `ExecuteTransfer` is the transaction that gives the instance to the
receiver if token, owner, name and version are those of the claim; `RenameBack` and
`Rollback` undo. The token and the new Incus name are both drawn at random by the claim,
so one member of `Claims` stands for both, and `handler[c]` is the place of the handler
that drew it. `LeaseEnds` is the clock, `CleanupTimeoutTransfers` the five-minute timer
that opens such a transfer again while its handler may still be at work. `RenameFails`,
`ExecuteFails` and `RenameBackFails` include calls that took effect although they
failed. `cut` is auxiliary: the handlers that died or failed after they had renamed.

* `OfferChecks` and `CreateTransferWithFee` are the look of the request and the
  transaction that looks again; `SettleTransferWithRefund` is a rejection or a cancel.
* `current` is the set of those who read the instance's row at its present version;
  `OtherWriter` stands for all other writers that increment it.
* `Deletion...` is a deletion by the owner of the instance (`user`), of the host
  (`owner`) or by the staff (`admin`), with the guard each has: only the host's owner
  is stopped by an open transfer, only the others increment the version.
  `RecoveryLists` takes up what a request has left. `SyncMisses` and `SyncMarksDeleted`
  are the synchroniser that finds no instance of the name it has read.

Left out: the tasks that refuse a claim, whether the instance runs (a refusal may come
at any claim), the batch and database-only deletions, the column `phase`, the snapshots,
ports and policies removed after the commit, and transfers without a fee. Every user
can pay the fee: a refusal for lack of money changes nothing.

Four things a reader of that code should know; the model has them, and no run is
devoted to them. `ensureInstanceDeleted`
takes a 404 for the old name as the proof of removal, so a deletion in the middle of a
rename is settled while the instance lives on. The synchroniser marks an instance
deleted while it is being renamed, since `shouldSuppressMissingIncusDeletion` is called
by a test script only. `cleanupStaleTransfers` rolls nothing back at start-up, whatever
its comment says, so a claim lasts its thirty minutes. `cleanupTimeoutTransfers` goes by
`claimExpiresAt`, not by `updatedAt` as its comment has it.

## 3. What is checked

Invariants and action properties (all runs finish; the counts are distinct states).

| Run | Bounds | Shows |
|---|---|---|
| `HostTasks_safety` | two tasks: either a heavy and a light task of two instances on one host and one server, or two tasks of one instance on two hosts and two servers (`PairSpec`); servers may crash at any step | `HostExclusive`, `SlotsSpec` (the queue implements `HostSlots`), `ExecutorOwnsRow`, `ExecutionExclusive`, `DestroyedUntouched`, `ExecutedOnce` |
| `HostTasks_live` (73 thousand) | no instance disappears; a heavy and a light task with crashes, restarts and cancels; and a third task, light too, asked for while the first light one waits, from then on without renewals, cancels or crashes under work (`CrowdedSpec`) | `ClaimedTaskSettles`, `PendingTaskServed` |
| `HourlyBilling_safety` (2.2 million) | two owners, a quantum of 2, funds up to 6, time up to 3, so charges that do not divide the quantum, partial payment, debt and resume happen | the books (`LedgerBalanced`, `IncomeIsPaid`, `DebtRecorded`), `PausedTimeFree`, `DebtStopsAccount`, `ClosedForGood` |
| `HourlyPower_live` (193 thousand) | one owner, funds up to 3, time up to 2, two acts of the environment (requests, failures, crashes); with an agent, funds up to 1 and no time, since what is asked there is whether billing starts, not what it charges, and the second act is a failure or a crash; without one, money and time rest while a request is in progress (`CalmSpec`) | `BillingSpec` (the callers implement `HourlyBilling`), `WalletBacked`, `UnpaidInstanceStopped`, and `MeterFollowsPower`: the meter of an instance that does not run ends, and with an agent one that runs is billed |
| `Prepaid_safety` (127 thousand) | every kind of deletion and payment, two periods, three acts of the environment (requests, failures, crashes), requests only among the first two (`SparseSpec`) | `LedgerSpec` (everything implements `PrepaidLedger`), `RefundWithinPaid`, `DestroySettledOnce`, `RefundAfterRemoval`, `AutoRenewsLastPeriod`, `PendingSettles`, `ExpiredStops`, `ExpiredDeleted` |
| `Recharge_safety` (232 thousand) | two requests at a time, one fault; an order at a provider that reports every outcome, or one that is paid in full or not at all and another beside it that is left to time and the staff (`OneSidedSpec`) | `OrdersSpec` (everything implements `RechargeOrders`), `CreditMatchesOrder`, `CreditJustified`, `AckedPaymentCredited`, `PaymentCredited` |
| `Transfers_safety` (315 thousand) | two users, two transfers of the instance and two claims, the first of each first (`OrderedSpec`: they are alike), every kind of deletion, two acts of the environment (deletions, failures, crashes, other writers) | `DeedsSpec` (everything implements `TransferDeeds`), `DeedsBalanced` (its balances of fees and ownership), `NameKnown`, `ClaimEnds` |

Why small bounds are enough. Every property of the queue is about two tasks, of one host
or one instance. The code treats tasks, hosts and processes alike, and the proofs below
hold for any number. `LIGHT_TASK_CONCURRENCY` is 1 instead of 5, so that
the two light tasks of `HostTasks_live` reach its limit: the second is not among the first
of a poll until the first is claimed. Rows are finitely many and each is claimed once, so
`PendingTaskServed` says nothing about a heavy task behind an endless stream of light
ones. In the billing, the cases are told apart by comparing
charge, prepayment and balance; small amounts reach every outcome of the comparisons. In
`HourlyPower`, one creation needs no act of the environment and each hazard needs one or
two (a restart and a failure; a retry and a crash). In `Prepaid`, the jobs, the
recovery and time need no act, so three acts are two requests that race and a failure, or
a request and two crashes (a third request, as a start after an unsuspension after a
suspension by hand, is not reached); every action fires, and the seeded mistakes are found.
In `Recharge`, two handlers are what a race on one order needs; the second order is there
for the jobs and the shared wallet. In `Transfers`, two claims are an expired one and
the one that follows it, of one transfer or of two; leases end without an act, so two acts
are a deletion and a failure, or two failures of a handler. The price of 10 makes a fee of 1; rounding is reached
by the refund of 5 by hand. All safety properties of these runs are also proved for any
bounds. Deadlock is allowed in the `HourlyPower`, `Prepaid`, `Recharge` and `Transfers` runs because
everything may be done when the bounds are used up.

Runs that end in a violation, on purpose. Each shows where the code departs from one of
the repository's own texts, which `PROJECT.json` quotes.

| Run | Property | What happens |
|---|---|---|
| `HostTasks_cancel` | `HeavyTaskRunsAlone` | `cancelInstanceTask` reads PENDING, the claim commits, the cancel's update by id makes the row FAILED: the execution goes on and the host looks free |
| `HostTasks_deleted` | `DeletedTaskCancelled` | claims skip tasks of a deleted instance, so the branch that cancels them is not reached |
| `HourlyBilling_transfer` | `FrozenCovers` | the instance changes hands, its prepayment stays frozen in the old wallet |
| `HourlyPower_unbilled` | `RunningTimeCharged` | no agent; the job pauses an account by a list it read before a restart activated it (the trace TLC gives), or a crash or failure comes between status and billing; nothing repairs a running instance's paused account. A retried creation runs unbilled too: its failure closed the account |
| `Prepaid_refund` | `PrivilegedSettledOnce` | a host owner's deletion and the recovery that took it up both refund it; the function checks only that the removal is confirmed, which a settlement leaves so |

The safety properties of `HostTasks` name the exception that the first of these makes
(`Overtaken`): everything else that races is covered without exception. In
`AckedPaymentCredited` the exception is the mark of an earlier cancel or failure: an
invoice that was cancelled and then paid keeps its number, so the notice of the payment
is answered as a repetition and the order is not credited by it. `PaymentCredited` takes
an answered notice for settled, so it does not say that such a payment reaches the wallet.
(The comment at recharge.ts:2420 that an answer "never discards funds" stands in the branch
for expired orders, which this answer comes before.)

### Fairness

* `HostTasks`: statements and Incus calls have timeouts, so an execution ends; a lease
  that no live execution renews expires; timers of a running server fire; a dead server
  is restarted. A poll offers every claim again and again, so a claim that is possible
  again and again is made (strong fairness). Users are never obliged to act. `CrowdedSpec`
  adds that no instance disappears: without that, `HostTasks_deleted` is the
  counterexample. What it leaves out once there is a third task are steps that no
  fairness asks for, so it never keeps a fair step from being taken.
* `HourlyPower`: weak fairness on each step of a process that was begun, and on the
  timers of the synchroniser, the agent and the job. No fairness on requests, failures,
  crashes, recharges or time. Failures and crashes are bounded by `MaxUses`, that is,
  they do not go on for ever.
* `Prepaid`: weak fairness on the steps of requests that were begun, of the recovery, of
  the jobs and of the start task. Strong fairness on two: `SuspendBegins`, because
  between two claims of the daily deletion job the suspension job, which runs far more
  often, finds the row suspended; and `ExpiryStep`, because who waits for the advisory
  lock is served in turn. None on time, requests, payments, failures and crashes.
* `Recharge`: weak fairness on the steps of a request that was begun, strong fairness on
  the provider's repetition of an unanswered notice of a payment (a request can always
  be taken when a handler is free, and both handlers are free again and again). None on
  the customer, the staff and the jobs.
* `Transfers`: weak fairness on the end of a lease, which is the clock, and on the
  clean-up, which is a timer of every running server. None on handlers, users,
  deletions, failures and crashes: a claim must end although its handler does not.

## 4. What is proved

TLAPS checks the following for every value of the constants, from the assumptions
`TasksAssumption`, `BillingAssumption`, `PowerAssumption`, `PrepaidAssumption`,
`RechargeAssumption` and `TransferAssumption` on them (finite tasks, a host and an instance for each; finite
orders and transfers; a positive
quantum; a positive price; known kinds of deleters and payers; natural bounds).

* `HostTasksProofs`. `TypeCorrect`, then `QueueInvariant`: `QueueInv` is inductive.
  `HostExclusive` alone is not: a claim reads its counts when it opens and writes when it
  commits, so the invariant must say what an open claim may rely on meanwhile
  (`OpenClaims`: no heavy row on the host, no deletion of the instance), that a row never
  claimed has no token and no executor (`UnclaimedRows`), that a PROCESSING row is not
  being deleted (`Deletions`), and that an executor owns its row or was overtaken by a
  cancel (`ExecutorOwnsRow`). From it: `HostExclusion`, `ExecutorsOwnRows`, `ExecutionExclusion`,
  `DeletionExclusion`, `SingleExecution`, and `SlotsImplemented`, which maps every step to
  an acquisition, a release or a stutter of `HostSlots`. `ClaimsEndable` is what can be
  proved here of `ClaimedTaskSettles`: a row has a lease exactly as long as it has a token,
  and each execution and each open claim has a process that is up. So no state leaves a
  claim to a dead executor; that the lease then ends and the clean-up comes is fairness.
* `HourlyBillingProofs`. `AccountInvariant`: the conjunction of the books is inductive for
  the transactions in any order, through one lemma on what a settlement does. From it
  `TypeCorrect`, `DebtorsStopped`, `IncomePaid`, `DebtsRecorded`, `BooksBalance`,
  `TimeChargedOnce` and `ClosedStaysClosed`. `WalletInvariant` adds the
  owner's wallet, for behaviours without a change of owner (with one, it fails:
  `HourlyBilling_transfer`). `SettlementExact` states what a settlement does for itself, for
  any quantum: what it consumes, covers and leaves unpaid is what was charged, and it
  reserves no quantum more than it needs. From it `ReservesBounded`: whatever follows
  whatever, less than two quanta are ever reserved (one by the charge, one more when a
  resumption has paid the debt from its reserve).
* `HourlyPowerProofs`. `CallersImplementBilling`: every step of the callers is a
  step of `HourlyBilling` or changes none of its variables. So `PowerWallet` follows from
  `WalletInvariant`, and `PowerAccount` (the books, the bound of the reserve, closed
  accounts) from the theorems above.
  `PlacesCorrect` is the type of the callers' places.
* `PrepaidProofs`. `BooksCorrect`: the types, `RefundWithinPaid`, that the owner's
  destruction was settled once if its record exists and never before, and that each place of
  a request, of the recovery and of the expiry job that comes after a removal, each mark
  and each settlement finds the instance gone. `RefundAfterRemoval` alone is not
  inductive: a restore clears the mark of a removal that another request or the recovery
  goes on from, so the invariant must follow every one of them. That the instance never
  comes back holds because every action that powers it on needs it to be there. From it:
  `TypeCorrect`, `RefundsWithinPayments`, `DestructionSettledOnce`, `RefundsAfterRemoval`
  and `LedgerImplemented`; from the last, `NothingTakenBack`: payments and refunds only
  grow, what is gone or settled stays so. `AutoRenewsOnce` proves `AutoRenewsLastPeriod`, which needs
  `AutoReads`: while the row is unchanged since the job has read it, no more than the
  present period is paid for; a writer that skips the version must not add one.
* `RechargeProofs`. `OrdersCorrect`: the credits match the orders, and each request in
  progress justifies what it may do next: one that will complete an order carries the
  staff's decision or a notice the provider has sent, one that will answer a paid notice
  found the order completed. From it: `TypeCorrect`, `CreditedOnce`, `CreditsJustified`,
  `PaymentsAcknowledged` and `OrdersImplemented`. Through the refinement, `OutcomesFinal`
  (no credit is ever taken back) and `WalletJustified`: the wallet holds at least one unit
  and at most the face value of each completed order, and nothing else. That it is
  exactly the sum of the credits needs an induction over the set of orders, which is out
  of the provers' reach; the two bounds do not.
* `TransfersProofs`. `TypeCorrect` rests on `BaseInv`, which adds that one transfer is
  open at a time and that the fee of an open one is paid (else a refund could go below
  zero). `NamesTraced`: `NameKnown` alone is not inductive, since a handler renames back
  to a name it read long ago. `NamesInv` adds that the row's name, and any name a
  handler has read, was drawn by a handler that is done or was cut off (`NamesRead`),
  and that while a handler at work has given the instance its name, no other name is
  left and the one it replaced is known (`NamesGiven`): so it can commit or go back.
  `TransfersImplementDeeds` maps every step to an offer, a gift, a return, a drop or a
  stutter of `TransferDeeds`. `ClaimsEndable` is what can be proved of `ClaimEnds`: a
  claimed transfer has a lease, and the token of the one handler that drew it for it.
* `TransferDeedsProofs` proves of the abstract specification that fees and ownership
  balance (`DeedsBalanced`). The transfers inherit it: `FeesAndOwnerBalance` is that
  theorem under the refinement mapping. `OutcomesFinal` follows from the refinement too.

Every safety property the passing runs check is also proved. Only model-checked are the
liveness properties (liveness under fairness and ENABLED are beyond this prover):
`ClaimedTaskSettles`, `PendingTaskServed`, `MeterFollowsPower`, `UnpaidInstanceStopped`,
`PendingSettles`, `ExpiredStops`, `ExpiredDeleted`,
`PaymentCredited` and `ClaimEnds`. No module needs recursion, so nothing depends on induction over data.

## 5. What is not modelled, and the plan

Not modelled, because there is little to check: user interface, message texts, mail,
single-transaction counters (coupons, lottery, affiliates), the retired restore and
backup-upload workers, the agent's program. Rounding of prices (Decimal(20,8), price per
minute) is abstracted to whole units. Serializable transactions are taken as atomic and a
retried one as one that ran once, with its old "now".

In the deletion of a prepaid instance, what is released with it (ports, snapshots,
addresses, host counters), plan changes, traffic packages, coupons and the balances of
users are left out; in the recharges, signatures, fees, provider configuration and the
metadata of a payment.

Order of the work that remains:

1. The heavy tasks' bodies (rebuild, recreate, change_host, clone), composed with
   `HostTasks` and with the synchroniser that may take an instance for deleted.
2. In `Transfers`, what is removed after the commit (ports, snapshots, policies), which the
   receiver may already have made anew, and the tasks that refuse a claim.
3. A second creator in `HourlyPower`, for the late failure of an earlier creation.
4. `DistributedLock`, `AddressReservation`, `Quota`: counters and reservations against the
   rows, under the same claims and clean-ups.
5. Plan changes in `Prepaid`, where a change of price meets a refund quote.
6. Proofs: the inductive invariants and refinements of the new modules, and an abstract
   specification of the hourly account (what is frozen, consumed and owed), which
   `HourlyBilling` would implement.
