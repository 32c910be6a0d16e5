---------------------------- MODULE HourlyBilling ----------------------------
(***************************************************************************)
(* Hourly billing of one instance (services/hourly-billing-scheduler.ts):  *)
(* the account of the instance, the wallets of the users who own it in     *)
(* turn, and the transactions that move money between them.                *)
(*                                                                         *)
(* Every operation of that file is one serializable transaction that locks *)
(* the account row first, so each is one step here, whole.  The callers    *)
(* (the task executor, the status synchroniser, the agent report, the      *)
(* five-minute job, the routes) write the instance's status in separate    *)
(* transactions: module HourlyPower orders them, this one lets them happen *)
(* in any order.                                                           *)
(*                                                                         *)
(* Money is counted in the price of one unit of running time, so the       *)
(* charge of s units is s, and time in those units since lastSettledAt.    *)
(* "now" is read before the row is locked, and a retried transaction keeps *)
(* it: a settlement charges any part of the time that has passed.          *)
(***************************************************************************)
EXTENDS Integers

CONSTANTS
    Users,
    Creator,        \* the user who creates the instance
    reserveQuantum, \* the plan's hourlyReserveQuantum
    MaxFunds,       \* bound: money a user brings in
    MaxTime,        \* bound: units of time
    MaxReserved     \* bound: totalReserved

ASSUME BillingAssumption ==
    /\ Creator \in Users
    /\ reserveQuantum \in Nat \ {0}
    /\ MaxFunds \in Nat /\ MaxTime \in Nat /\ MaxReserved \in Nat

VARIABLES
    instance,      \* instances.status; "none" before the row exists
    owner,         \* instances.userId
    account,       \* hourly_billing_accounts.status
    prepaid,       \* prepaidBalance
    outstanding,   \* outstandingAmount
    totalCost,
    totalReserved,
    totalReleased,
    since,         \* time passed since lastSettledAt
    pending,       \* a record of the account has the status 'pending'
    income,        \* hosting income credited to the host's owner
    balance,       \* users.balance
    frozen,        \* users.hourlyReservedBalance
    funds,         \* auxiliary: what a user brought in, less other purchases
    activeTime     \* auxiliary: time during which the account was active

meter == <<prepaid, outstanding, totalCost, totalReserved, totalReleased, since,
           pending, income>>
wallets == <<balance, frozen, funds>>
vars == <<instance, owner, account, meter, wallets, activeTime>>

\* "suspended" has the reason hourly_billing_insufficient_balance, "barred" is
\* suspended for another reason.
Statuses == {"none", "creating", "running", "stopped", "suspended", "barred", "error",
             "deleted"}

TypeOK ==
    /\ instance \in Statuses
    /\ owner \in Users
    /\ account \in {"none", "paused", "active", "suspended", "closed"}
    /\ prepaid \in Nat /\ outstanding \in Nat
    /\ totalCost \in Nat /\ totalReserved \in Nat /\ totalReleased \in Nat
    /\ since \in Nat /\ income \in Nat /\ activeTime \in Nat
    /\ pending \in BOOLEAN
    /\ balance \in [Users -> Nat]
    /\ frozen \in [Users -> Int]
    /\ funds \in [Users -> Int]

Init ==
    /\ instance = "none" /\ owner = Creator /\ account = "none"
    /\ prepaid = 0 /\ outstanding = 0
    /\ totalCost = 0 /\ totalReserved = 0 /\ totalReleased = 0
    /\ since = 0 /\ income = 0 /\ activeTime = 0
    /\ pending = FALSE
    /\ balance = [u \in Users |-> 0]
    /\ frozen = [u \in Users |-> 0]
    /\ funds = [u \in Users |-> 0]

------------------------------------------------------------------------------
(* Arithmetic. *)

CeilToQuantum(n) ==
    ((n + reserveQuantum - 1) \div reserveQuantum) * reserveQuantum

Lesser(m, n) == IF m <= n THEN m ELSE n

\* reserveForHourlyCharge: all or nothing.
Reserved(n) == IF n <= balance[owner] THEN n ELSE 0

\* Mutant: the reserve is taken to suffice.
SettlementInFull(s) ==
    LET added == IF s > prepaid THEN Reserved(CeilToQuantum(s - prepaid)) ELSE 0
    IN [seconds |-> s, added |-> added, paid |-> s, unpaid |-> 0]

\* The amounts settleInTransaction works out for s units of an active account.
Settlement(s) ==
    LET added == IF s > prepaid THEN Reserved(CeilToQuantum(s - prepaid)) ELSE 0
        paid == Lesser(prepaid + added, s)
    IN [seconds |-> s, added |-> added, paid |-> paid, unpaid |-> s - paid]

NoSettlement == [seconds |-> 0, added |-> 0, paid |-> 0, unpaid |-> 0]

\* Mutant: a paused account is settled too.
SettlementsOfAny == {Settlement(s) : s \in 0..since}

\* What settleInTransaction may find, with "force", in the account's state.
Settlements ==
    IF account = "active" THEN {Settlement(s) : s \in 0..since} ELSE {NoSettlement}

\* Mutant: the record is pending when the last settlement left a debt.
RecordsOfLast(c) == pending' = (c.unpaid > 0) /\ income' = income + c.paid

\* Mutant: the host's owner is credited the charge.
RecordsOfCharge(c) == pending' = (pending \/ c.unpaid > 0) /\ income' = income + c.seconds

\* The billing record and the hosting income of a settlement.
Records(c) == pending' = (pending \/ c.unpaid > 0) /\ income' = income + c.paid

\* A settlement is written, with n of the prepayment left on the account and the
\* rest returned to the owner's balance.
Post(c, n) ==
    LET released == prepaid + c.added - c.paid - n IN
    /\ totalReserved + c.added <= MaxReserved
    /\ prepaid' = n
    /\ outstanding' = outstanding + c.unpaid
    /\ totalCost' = totalCost + c.seconds
    /\ totalReserved' = totalReserved + c.added
    /\ totalReleased' = totalReleased + released
    /\ since' = since - c.seconds
    /\ Records(c)
    /\ balance' = [balance EXCEPT ![owner] = @ - c.added + released]
    /\ frozen' = [frozen EXCEPT ![owner] = @ + c.added - c.paid - released]
    /\ UNCHANGED <<funds, activeTime, owner>>

\* instance.updateMany where the status is one of S: it becomes 'suspended'.
SuspendIf(S) == instance' = IF instance \in S THEN "suspended" ELSE instance

\* The instance an unpaid settlement leaves behind.
SuspendUnpaid(c) == SuspendIf(IF c.unpaid > 0 THEN {"running"} ELSE {})

------------------------------------------------------------------------------
(* The transactions.  None but the settlement without "force" looks at the     *)
(* status of the instance: they come in any order with its changes.            *)

\* The creating route reserves one quantum, inserts the instance and its account.
CreateInstance ==
    /\ account = "none" /\ balance[owner] >= reserveQuantum
    /\ reserveQuantum <= MaxReserved
    /\ instance' = "creating" /\ account' = "paused"
    /\ prepaid' = reserveQuantum /\ totalReserved' = reserveQuantum
    /\ since' = 0
    /\ balance' = [balance EXCEPT ![owner] = @ - reserveQuantum]
    /\ frozen' = [frozen EXCEPT ![owner] = @ + reserveQuantum]
    /\ UNCHANGED <<owner, outstanding, totalCost, totalReleased, pending, income,
                   funds, activeTime>>

\* failCreatingInstanceAndRefund, after the cleanup in Incus.
FailCreatingInstance ==
    /\ instance = "creating"
    /\ instance' = "error" /\ account' = "closed"
    /\ Post(NoSettlement, 0)

\* Mutant: the account goes on although part of the charge was not paid.
SettleHourlyInstanceOn ==
    /\ account = "active" /\ instance = "running"
    /\ \E c \in Settlements :
        Post(c, prepaid + c.added - c.paid) /\ SuspendUnpaid(c)
    /\ UNCHANGED account

\* settleHourlyInstance of an active account: the job, a change of resources.
SettleHourlyInstance ==
    /\ account = "active" /\ instance = "running"
    /\ \E c \in Settlements :
        /\ Post(c, prepaid + c.added - c.paid)
        /\ account' = IF c.unpaid > 0 THEN "suspended" ELSE "active"
        /\ SuspendUnpaid(c)

\* ... which finds that the instance does not run any more.
SettleStopped ==
    /\ account = "active" /\ instance # "running"
    /\ account' = "paused"
    /\ UNCHANGED <<instance, owner, meter, wallets, activeTime>>

\* activateHourlyBilling: a debt, old or new, keeps the instance suspended.
ActivateRefused ==
    /\ \/ account = "suspended"
       \/ account = "paused" /\ outstanding > 0
       \/ account = "paused" /\ prepaid = 0 /\ balance[owner] < reserveQuantum
    /\ account' = "suspended"
    /\ SuspendIf({"running", "stopped"})
    /\ UNCHANGED <<owner, meter, wallets, activeTime>>

\* activateHourlyBilling: the prepayment is there, or one quantum is reserved.
ActivateHourlyBilling ==
    LET added == IF prepaid = 0 THEN Reserved(reserveQuantum) ELSE 0 IN
    /\ account = "paused" /\ outstanding = 0
    /\ prepaid + added > 0
    /\ totalReserved + added <= MaxReserved
    /\ account' = "active"
    /\ since' = 0
    /\ prepaid' = prepaid + added
    /\ totalReserved' = totalReserved + added
    /\ balance' = [balance EXCEPT ![owner] = @ - added]
    /\ frozen' = [frozen EXCEPT ![owner] = @ + added]
    /\ UNCHANGED <<instance, owner, outstanding, totalCost, totalReleased, pending,
                   income, funds, activeTime>>

\* Mutant: the debt is cleared, and the whole reserve is kept.
ResumeUnpaid ==
    LET n == CeilToQuantum(outstanding + reserveQuantum) IN
    /\ account = "suspended"
    /\ n <= balance[owner]
    /\ totalReserved + n <= MaxReserved
    /\ account' = "paused"
    /\ prepaid' = n /\ outstanding' = 0
    /\ totalReserved' = totalReserved + n
    /\ since' = 0 /\ pending' = (pending /\ outstanding = 0) /\ income' = income + outstanding
    /\ balance' = [balance EXCEPT ![owner] = @ - n]
    /\ frozen' = [frozen EXCEPT ![owner] = @ + n - outstanding]
    /\ UNCHANGED <<instance, owner, totalCost, totalReleased, funds, activeTime>>

\* resumeHourlyBilling: the owner pays the debt and reserves at least a quantum.
ResumeHourlyBilling ==
    LET n == CeilToQuantum(outstanding + reserveQuantum) IN
    /\ account = "suspended"
    /\ n <= balance[owner]
    /\ totalReserved + n <= MaxReserved
    /\ account' = "paused"
    /\ prepaid' = n - outstanding
    /\ outstanding' = 0
    /\ totalReserved' = totalReserved + n
    /\ since' = 0
    /\ pending' = (pending /\ outstanding = 0)
    /\ income' = income + outstanding
    /\ balance' = [balance EXCEPT ![owner] = @ - n]
    /\ frozen' = [frozen EXCEPT ![owner] = @ + n - outstanding]
    /\ UNCHANGED <<instance, owner, totalCost, totalReleased, funds, activeTime>>

\* Mutant: a late pause opens a closed account.
PauseClosed ==
    /\ account # "none"
    /\ account' = "paused"
    /\ \E c \in Settlements : Post(c, 0) /\ SuspendUnpaid(c)

\* pauseHourlyBilling: settle, and return the rest of the prepayment.
PauseHourlyBilling ==
    /\ account \notin {"none", "closed"}
    /\ account' = "paused"
    /\ \E c \in Settlements : Post(c, 0) /\ SuspendUnpaid(c)

\* closeHourlyBilling, called after the instance was removed.
CloseHourlyBilling ==
    /\ account \notin {"none", "closed"}
    /\ account' = "closed"
    /\ \E c \in Settlements : Post(c, 0) /\ SuspendUnpaid(c)

------------------------------------------------------------------------------
(* The other writers of the rows, and time. *)

\* The executors, the synchronisers and the routes write a status.  Only
\* suspendInstance and unsuspendInstance write it over a deletion, and only a
\* failed creation is tried again, with its account as it is.
WriteStatus(s) ==
    /\ instance # "none" /\ s # instance
    /\ s = "creating" => instance = "error"
    /\ instance = "deleted" => s \in {"barred", "stopped"}
    /\ instance' = s
    /\ UNCHANGED <<owner, account, meter, wallets, activeTime>>

\* executeTransferTransaction: the account goes with the instance as it is.  Its
\* status is checked by the routes only, before the claim: an instance that is being
\* created is not offered (it may be created again later), a running one not accepted.
TransferInstance(u) ==
    /\ instance # "none" /\ u # owner
    /\ instance = "creating" => account = "closed"
    /\ owner' = u
    /\ UNCHANGED <<instance, account, meter, wallets, activeTime>>

\* Recharges, and purchases of other things.
UseWallet(u, n) ==
    /\ balance[u] + n >= 0 /\ funds[u] + n <= MaxFunds
    /\ balance' = [balance EXCEPT ![u] = @ + n]
    /\ funds' = [funds EXCEPT ![u] = @ + n]
    /\ UNCHANGED <<instance, owner, account, meter, frozen, activeTime>>

Tick ==
    /\ since < MaxTime /\ activeTime < MaxTime
    /\ since' = since + 1
    /\ activeTime' = IF account = "active" THEN activeTime + 1 ELSE activeTime
    /\ UNCHANGED <<instance, owner, account, prepaid, outstanding, totalCost,
                   totalReserved, totalReleased, pending, income, wallets>>

------------------------------------------------------------------------------

Billing ==
    \/ CreateInstance \/ FailCreatingInstance
    \/ SettleHourlyInstance \/ SettleStopped
    \/ ActivateRefused \/ ActivateHourlyBilling
    \/ ResumeHourlyBilling
    \/ PauseHourlyBilling \/ CloseHourlyBilling

Next ==
    \/ Billing
    \/ \E s \in {"creating", "running", "stopped", "barred", "deleted"} : WriteStatus(s)
    \/ \E u \in Users : TransferInstance(u)
    \/ \E u \in Users, n \in (0 - MaxFunds)..MaxFunds : UseWallet(u, n)
    \/ Tick

Spec == Init /\ [][Next]_vars

\* The behaviours in which the instance keeps its owner.
OwnedSpec == Init /\ [][Next /\ UNCHANGED owner]_vars

------------------------------------------------------------------------------
(* Safety. *)

\* While there is a debt, nothing is prepaid and the account does not run: the
\* resume, which overwrites prepaidBalance, loses no money.
DebtStopsAccount ==
    /\ outstanding > 0 => prepaid = 0 /\ account # "active"
    /\ account \in {"suspended", "closed"} => prepaid = 0

\* Every amount ever reserved was consumed, was released or is still prepaid,
\* over any sequence of settlements, pauses, debts and resumes.
LedgerBalanced == totalReserved = (totalCost - outstanding) + totalReleased + prepaid

\* The host's owner is credited what the user paid: a debt when it is paid, once.
IncomeIsPaid == income = totalCost - outstanding

\* No unit of time is charged twice, nor one in which the account was not active.
PausedTimeFree ==
    totalCost + (IF account = "active" THEN since ELSE 0) <= activeTime

\* The records show a debt as long as there is one.
DebtRecorded == pending <=> outstanding > 0

\* A closed account never bills again, whichever caller comes late.
ClosedForGood ==
    [][account = "closed" =>
           /\ account' = "closed"
           /\ UNCHANGED <<prepaid, totalCost, totalReserved, totalReleased, income,
                          frozen>>]_vars

\* While the instance keeps its owner, what is frozen in the wallet is the
\* prepayment of the account, and the wallet adds up: nothing is lost or created
\* between balance, frozen money and what was paid.
WalletBacked ==
    /\ frozen[owner] = prepaid
    /\ balance[owner] + frozen[owner] + totalCost - outstanding = funds[owner]

\* The inductive invariant of the account, whoever owns it.
AccountInv ==
    /\ TypeOK
    /\ account = "none" => prepaid = 0 /\ outstanding = 0 /\ totalReserved = 0
    /\ account = "none" <=> instance = "none"
    /\ DebtStopsAccount
    /\ LedgerBalanced
    /\ IncomeIsPaid
    /\ PausedTimeFree
    /\ DebtRecorded

------------------------------------------------------------------------------

\* schema.prisma:254: a consumption is settled from the frozen balance of its
\* user, which holds it, also after the instance changed hands.
FrozenCovers == \A u \in Users : frozen[u] >= 0
==============================================================================
