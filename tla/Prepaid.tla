------------------------------- MODULE Prepaid -------------------------------
(***************************************************************************)
(* One instance of a prepaid package, from its first renewal to its last   *)
(* refund: the owner's destruction, the deletions with a refund by the     *)
(* host's owner or the staff, the recovery of a deletion that was left     *)
(* half done, the jobs that suspend and delete it when it has expired, its *)
(* renewal by hand, by the job or by an extension, and the suspension by   *)
(* hand (routes/instance-destroy.ts, routes/instances.ts, routes/hosts.ts, *)
(* routes/admin-billing.ts, services/billing-scheduler.ts,                 *)
(* services/schedulers.ts, db/billing-operations.ts).                      *)
(*                                                                         *)
(* All of them write one row.  Some hold the instance's advisory lock,     *)
(* some compare the version they read, some do neither.  What happens in   *)
(* Incus and what happens in the database are separate steps.  Time is     *)
(* counted in paid periods; the fee is a tenth of the refund.  Money is    *)
(* the instance's own billing records; balances, coupons and the share of  *)
(* the host's owner are left out, as is the counting of host resources.    *)
(***************************************************************************)
EXTENDS Naturals, Sequences, FiniteSets

CONSTANTS
    Deleters,    \* who asks for deletions
    Payers,      \* who buys further time
    Price,       \* of a period
    Amounts,     \* what the staff refunds by hand
    MaxPeriods,  \* bound: periods paid ahead
    MaxActs,     \* bound: requests, failures and other acts of the environment
    NoValue      \* deletionRefundableValue is null

ASSUME PrepaidAssumption ==
    /\ Deleters \subseteq {"user", "owner", "admin", "batch"}
    /\ Payers \subseteq {"renew", "auto", "extend"}
    /\ Price \in Nat \ {0} /\ Amounts \subseteq Nat \ {0}
    /\ MaxPeriods \in Nat \ {0} /\ MaxActs \in Nat
    /\ NoValue \notin Nat

VARIABLES
    status,     \* of the row; "gone" once the row is deleted
    mark,       \* why and since when it is suspended; survives some status changes
    pending,    \* deletionBillingPending
    remote,     \* deletionRemoteDeleted
    mode,       \* deletionBillingMode
    value,      \* deletionRefundableValue
    unchanged,  \* who read the row at its present version
    periods,    \* periods still to come: whether each one was paid for
    paid,       \* sum of the billing records of purchases
    refunded,   \* sum of the billing records of refunds
    destroyed,  \* a UserDestroyRecord exists
    settled,    \* auxiliary: settlements that refunded or recorded, by mode
    power,      \* the instance in Incus
    request,    \* the deletion requests: place, status claimed, quoted refund
    recovery,   \* place of runDeletionBillingRecovery and what it read
    expiry,     \* place of processExpiryDelete
    suspend,    \* place of processExpirySuspend
    payment,    \* place of each purchase and what it read
    admin,      \* place of a suspension by hand
    task,       \* place of a start task
    acts        \* auxiliary: acts of the environment so far

row == <<status, mark, pending, remote, mode, value, unchanged>>
books == <<periods, paid, refunded, destroyed, settled>>
places == <<request, recovery, expiry, suspend, payment, admin, task>>
vars == <<row, books, power, places, acts>>

Statuses == {"running", "stopped", "suspended", "deleted", "gone"}
Modes == {"none", "user_destroy", "privileged_delete"}
Value == Nat \cup {NoValue}
Requests ==
    [at : {"idle", "claimed", "quoted", "removed", "marked", "failing", "settled"},
     from : Statuses, amount : Nat]
Recoveries == [at : {"idle", "listed", "removed", "marked"}, mode : Modes, value : Value]
Idle == [at |-> "idle", from |-> "deleted", amount |-> 0]
Waiting == [at |-> "idle", mode |-> "none", value |-> NoValue]

TypeOK ==
    /\ status \in Statuses /\ mark \in {"none", "manual", "recent", "old"}
    /\ pending \in BOOLEAN /\ remote \in BOOLEAN /\ mode \in Modes /\ value \in Value
    /\ unchanged \subseteq Payers \cup {"expiry"}
    /\ periods \in Seq(BOOLEAN) /\ paid \in Nat /\ refunded \in Nat
    /\ destroyed \in BOOLEAN /\ settled \in [Modes -> Nat]
    /\ power \in {"on", "off", "absent"}
    /\ request \in [Deleters -> Requests] /\ recovery \in Recoveries
    /\ expiry \in {"idle", "listed", "claimed", "removed", "failing"}
    /\ suspend \in {"idle", "suspending", "retrying", "late"}
    /\ payment \in [Payers -> {"idle", "live", "expired"}]
    /\ admin \in {"idle", "suspending"}
    /\ task \in {"none", "start", "started"}
    /\ acts \in Nat

Init ==
    /\ status = "running" /\ mark = "none" /\ power = "on"
    /\ pending = FALSE /\ remote = FALSE /\ mode = "none" /\ value = NoValue
    /\ unchanged = {} /\ acts = 0
    /\ periods = <<TRUE>> /\ paid = Price /\ refunded = 0
    /\ destroyed = FALSE /\ settled = [m \in Modes |-> 0]
    /\ request = [k \in Deleters |-> Idle] /\ recovery = Waiting
    /\ expiry = "idle" /\ suspend = "idle" /\ admin = "idle" /\ task = "none"
    /\ payment = [p \in Payers |-> "idle"]

------------------------------------------------------------------------------
(* The row, its lock, its version and its value. *)

\* An act of the environment.
Use == acts < MaxActs /\ acts' = acts + 1

Exists == status # "gone"
Live == status \in {"running", "stopped"}
Expired == periods = <<>>
MarkedExpired == mark \in {"recent", "old"}
ExpiredSuspension == status = "suspended" /\ MarkedExpired

\* Nobody holds the instance's advisory lock over a call to Incus.
Unlocked == suspend \notin {"suspending", "retrying"}
\* Nobody has written the row in a transaction that is still open.
RowFree == suspend # "suspending"

\* The version is incremented: only those in readers know it.
Bump(readers) == unchanged' = readers

Lesser(m, n) == IF m <= n THEN m ELSE n
MaxRefundable == IF paid > refunded THEN paid - refunded ELSE 0
\* calculateInstanceRemainingRefundQuote: the paid value of the time to come.
Quote == Lesser(Price * Cardinality({i \in DOMAIN periods : periods[i]}), MaxRefundable)
\* Mutant: a fixed fee, however little is left.
FixedFee(v, first) == IF first THEN 0 ELSE 5
\* A tenth, rounded; waived for the first instance its owner destroys.
Fee(v, first) == IF first THEN 0 ELSE (v + 5) \div 10

\* The row leaves the deletion, or its refund is settled (clearDeletionBillingStateData).
ClearDeletion(isRemote) ==
    /\ pending' = FALSE /\ remote' = isRemote /\ mode' = "none" /\ value' = NoValue

\* Mutant: the version is not compared.
CurrentUnchecked(reader) == TRUE
\* The version is still the one the reader read.
Current(reader) == reader \in unchanged

------------------------------------------------------------------------------
(* Settling a deletion. *)

\* Mutant: the amount is not capped again.
SettlementUncapped(v) == v
\* What a settlement refunds at most: the quote, capped by what is left of the payments.
Settlement(v) == Lesser(v, MaxRefundable)

\* REMOTE_DELETION_NOT_CONFIRMED
Confirmed == Exists /\ remote

\* Mutant: the UserDestroyRecord is not looked up.
SettleDestroyAgain(v) ==
    /\ \E first \in BOOLEAN :
         refunded' = refunded + Settlement(v) - Fee(Settlement(v), first)
    /\ destroyed' = TRUE
    /\ settled' = [settled EXCEPT !["user_destroy"] = @ + 1]
    /\ ClearDeletion(TRUE)
    /\ UNCHANGED <<periods, paid>>

\* settleUserDestroyBilling, once the remote deletion is confirmed.
SettleDestroy(v) ==
    /\ IF destroyed
       THEN UNCHANGED <<refunded, destroyed, settled>>
       ELSE /\ \E first \in BOOLEAN :
                 refunded' = refunded + (Settlement(v) - Fee(Settlement(v), first))
            /\ destroyed' = TRUE
            /\ settled' = [settled EXCEPT !["user_destroy"] = @ + 1]
    /\ ClearDeletion(TRUE)
    /\ UNCHANGED <<periods, paid>>

\* settlePrivilegedDeletionBilling, likewise.
SettlePrivileged(v) ==
    /\ refunded' = refunded + Settlement(v)
    /\ settled' = [settled EXCEPT !["privileged_delete"] =
                     @ + (IF Settlement(v) > 0 THEN 1 ELSE 0)]
    /\ ClearDeletion(TRUE)
    /\ UNCHANGED <<periods, paid, destroyed>>

------------------------------------------------------------------------------
(* A request that deletes the instance and refunds what is left. *)

Goto(k, place, quoted) ==
    request' = [request EXCEPT ![k] = [at |-> place, from |-> @.from, amount |-> quoted]]
Advance(k, place) == Goto(k, place, request[k].amount)
End(k) == request' = [request EXCEPT ![k] = Idle]
OthersRest == UNCHANGED <<recovery, expiry, suspend, payment, admin, task>>

\* The claims of host owners and of batch deletions keep the version.
Bumps(k) == k \in {"user", "admin"}

\* claimInstanceForUserDestroy, claimInstanceForAdminDelete, claimInstanceForDelete.
Claim(k) ==
    /\ Use /\ request[k].at = "idle" /\ Unlocked /\ task = "none"
    /\ Live \/ status = "suspended"
    /\ k = "user" => Live \/ (ExpiredSuspension /\ Expired)
    /\ status' = "deleted" /\ pending' = TRUE /\ remote' = FALSE /\ value' = NoValue
    /\ mode' = IF k = "user" THEN "user_destroy" ELSE "privileged_delete"
    /\ IF Bumps(k) THEN Bump({}) ELSE UNCHANGED unchanged
    /\ request' = [request EXCEPT ![k] = [at |-> "claimed", from |-> status, amount |-> 0]]
    /\ UNCHANGED <<mark, books, power>> /\ OthersRest

\* The quote is read after the claim and written to the row by its id.  The staff may
\* also choose to refund all that was paid.
QuoteRefund(k) ==
    /\ request[k].at = "claimed" /\ Exists /\ RowFree
    /\ \E v \in {Quote} \cup (IF k = "admin" THEN {MaxRefundable} ELSE {}) :
         value' = v /\ Goto(k, "quoted", v)
    /\ UNCHANGED <<status, mark, pending, remote, mode, unchanged, books, power, acts>>
    /\ OthersRest

\* ensureInstanceDeleted returns once Incus no longer has the instance.
Remove(k) ==
    /\ request[k].at = "quoted"
    /\ power' = "absent" /\ Advance(k, "removed")
    /\ UNCHANGED <<row, books, acts>> /\ OthersRest

\* Mutant: the removal is recorded before it is asked for.
MarkEarly(k) ==
    /\ request[k].at \in {"quoted", "removed"} /\ Exists /\ RowFree
    /\ remote' = TRUE /\ Advance(k, "marked")
    /\ UNCHANGED <<status, mark, pending, mode, value, unchanged, books, power, acts>>
    /\ OthersRest

\* ... which is recorded by the row's id.
Mark(k) ==
    /\ request[k].at = "removed" /\ Exists /\ RowFree
    /\ remote' = TRUE /\ Advance(k, "marked")
    /\ UNCHANGED <<status, mark, pending, mode, value, unchanged, books, power, acts>>
    /\ OthersRest

Settle(k) ==
    /\ request[k].at = "marked" /\ Unlocked /\ Confirmed
    /\ IF k = "user" THEN SettleDestroy(request[k].amount)
                     ELSE SettlePrivileged(request[k].amount)
    /\ IF k = "batch" THEN Advance(k, "settled") ELSE End(k)
    /\ UNCHANGED <<status, mark, unchanged, power, acts>> /\ OthersRest

\* The batch deletion ends with updateInstanceStatus, which throws when the row is gone.
BatchMarksDeleted(k) ==
    /\ request[k].at = "settled" /\ RowFree /\ End(k)
    /\ status' = IF Exists THEN "deleted" ELSE status
    /\ UNCHANGED <<mark, pending, remote, mode, value, unchanged, books, power, acts>>
    /\ OthersRest

\* A step of the request fails.  Before the removal is known, the claim is given back,
\* except by the staff's route when the quote failed; after it, the claim stays, except
\* when the staff's route could not record the removal.
RequestFails(k) ==
    /\ \/ Use
       \/ /\ \/ request[k].at \in {"claimed", "removed"} /\ ~Exists
             \/ request[k].at = "marked" /\ ~Confirmed
          /\ UNCHANGED acts
    /\ \/ /\ request[k].at = "claimed"
          /\ IF k = "admin" THEN End(k) ELSE Advance(k, "failing")
          /\ UNCHANGED power
       \/ /\ request[k].at = "quoted" /\ Advance(k, "failing")
          /\ power' \in {power, "absent"}
       \/ /\ request[k].at = "removed"
          /\ IF k = "admin" THEN Advance(k, "failing") ELSE End(k)
          /\ UNCHANGED power
       \/ request[k].at \in {"marked", "settled"} /\ End(k) /\ UNCHANGED power
    /\ UNCHANGED <<row, books>> /\ OthersRest

\* restoreClaimedInstanceStatus and its like: where the row is still deleted, and for
\* the batch still pending.
Restore(k) ==
    /\ request[k].at = "failing" /\ RowFree /\ End(k)
    /\ IF status = "deleted" /\ (k = "batch" => pending)
       THEN /\ status' = request[k].from /\ ClearDeletion(FALSE)
            /\ IF k = "owner" THEN UNCHANGED unchanged ELSE Bump({})
       ELSE UNCHANGED <<status, pending, remote, mode, value, unchanged>>
    /\ UNCHANGED <<mark, books, power, acts>> /\ OthersRest

DeletionStep(k) ==
    \/ QuoteRefund(k) \/ Remove(k) \/ Mark(k) \/ Settle(k) \/ BatchMarksDeleted(k)
    \/ Restore(k)

------------------------------------------------------------------------------
(* runDeletionBillingRecovery, every two minutes. *)

RecoveryAt(place) ==
    recovery' = [at |-> place, mode |-> recovery.mode, value |-> recovery.value]
RecoveryRest == UNCHANGED <<request, expiry, suspend, payment, admin, task>>

\* Mutant: only deletions whose removal is confirmed are taken up again.
RecoveryListsRemoved ==
    /\ recovery.at = "idle" /\ status = "deleted" /\ pending /\ remote
    /\ recovery' = [at |-> "listed", mode |-> mode, value |-> value]
    /\ UNCHANGED <<row, books, power, acts>> /\ RecoveryRest

RecoveryLists ==
    /\ recovery.at = "idle" /\ status = "deleted" /\ pending
    /\ recovery' = [at |-> "listed", mode |-> mode, value |-> value]
    /\ UNCHANGED <<row, books, power, acts>> /\ RecoveryRest

\* Mutant: a removal that fails is taken for one of an instance that is gone.
RecoveryAssumesRemoved ==
    /\ recovery.at = "listed"
    /\ power' \in {power, "absent"} /\ RecoveryAt("removed")
    /\ UNCHANGED <<row, books, acts>> /\ RecoveryRest

RecoveryRemoves ==
    /\ recovery.at = "listed"
    /\ power' = "absent" /\ RecoveryAt("removed")
    /\ UNCHANGED <<row, books, acts>> /\ RecoveryRest

\* Conditional, but nobody looks whether it found the row.
RecoveryMarks ==
    /\ recovery.at = "removed" /\ RowFree
    /\ remote' = IF status = "deleted" /\ pending THEN TRUE ELSE remote
    /\ RecoveryAt("marked")
    /\ UNCHANGED <<status, mark, pending, mode, value, unchanged, books, power, acts>>
    /\ RecoveryRest

\* Without a quote, the owner's destruction is quoted anew, a privileged one refunds 0.
RecoverySettles ==
    /\ recovery.at = "marked" /\ Unlocked /\ Confirmed
    /\ IF recovery.mode = "user_destroy"
       THEN SettleDestroy(IF recovery.value = NoValue THEN Quote ELSE recovery.value)
       ELSE SettlePrivileged(IF recovery.value = NoValue THEN 0 ELSE recovery.value)
    /\ recovery' = Waiting
    /\ UNCHANGED <<status, mark, unchanged, power, acts>> /\ RecoveryRest

RecoveryFails ==
    /\ \/ recovery.at \in {"listed", "marked"} /\ Use
       \/ recovery.at = "marked" /\ ~Confirmed /\ UNCHANGED acts
    /\ power' \in {power} \cup (IF recovery.at = "listed" THEN {"absent"} ELSE {})
    /\ recovery' = Waiting
    /\ UNCHANGED <<row, books>> /\ RecoveryRest

RecoveryStep == RecoveryLists \/ RecoveryRemoves \/ RecoveryMarks \/ RecoverySettles

------------------------------------------------------------------------------
(* The expired instance is suspended ... *)

SuspendRest == UNCHANGED <<request, recovery, expiry, payment, admin, task>>

\* Mutant: an instance that is already suspended is not stopped again.
SuspendBeginsOnce ==
    /\ suspend = "idle" /\ Expired /\ Live /\ suspend' = "suspending"
    /\ UNCHANGED <<row, books, power, acts>> /\ SuspendRest

\* suspendInstanceByExpiry takes the lock; what it writes is seen when it commits.
SuspendBegins ==
    /\ suspend = "idle" /\ Expired
    /\ \/ Live /\ suspend' = "suspending"
       \/ ExpiredSuspension /\ suspend' = "retrying"
    /\ UNCHANGED <<row, books, power, acts>> /\ SuspendRest

\* The instance stops in Incus, and the transaction commits.
SuspendCommits ==
    /\ ~Unlocked /\ power # "absent"
    /\ power' = "off" /\ suspend' = "idle"
    /\ IF suspend = "suspending"
       THEN status' = "suspended" /\ mark' = "recent" /\ Bump({})
       ELSE UNCHANGED <<status, mark, unchanged>>
    /\ UNCHANGED <<pending, remote, mode, value, books, acts>> /\ SuspendRest

\* It does not stop, and the transaction is rolled back; or the transaction is rolled
\* back after fifteen seconds while the call to Incus goes on.
SuspendFails ==
    /\ ~Unlocked
    /\ \/ power = "absent" /\ suspend' = "idle" /\ UNCHANGED acts
       \/ power # "absent" /\ Use /\ suspend' \in {"idle", "late"}
    /\ UNCHANGED <<row, books, power>> /\ SuspendRest

LateStop ==
    /\ suspend = "late" /\ suspend' = "idle"
    /\ power' = IF power = "on" THEN "off" ELSE power
    /\ UNCHANGED <<row, books, acts>> /\ SuspendRest

SuspendStep == SuspendCommits \/ LateStop \/ (SuspendFails /\ UNCHANGED acts)

------------------------------------------------------------------------------
(* ... and deleted three days later. *)

ExpiryRest == UNCHANGED <<request, recovery, suspend, payment, admin, task>>

\* Mutant: a claim of a job that died is not taken up again.
ExpiryListsSuspended ==
    /\ expiry = "idle" /\ mark = "old" /\ status = "suspended"
    /\ expiry' = "listed" /\ unchanged' = unchanged \cup {"expiry"}
    /\ UNCHANGED <<status, mark, pending, remote, mode, value, books, power, acts>>
    /\ ExpiryRest

\* A deleted row with an expiry mark is taken for the job's own unfinished work.
ExpiryLists ==
    /\ expiry = "idle" /\ mark = "old" /\ status \in {"suspended", "deleted"}
    /\ expiry' = "listed" /\ unchanged' = unchanged \cup {"expiry"}
    /\ UNCHANGED <<status, mark, pending, remote, mode, value, books, power, acts>>
    /\ ExpiryRest

\* claimExpiredInstanceForDeletion
ExpiryClaims ==
    /\ expiry = "listed" /\ Unlocked
    /\ IF Current("expiry") /\ MarkedExpired /\ status \in {"suspended", "deleted"}
       THEN /\ expiry' = "claimed" /\ status' = "deleted"
            /\ IF status = "suspended" THEN Bump({"expiry"}) ELSE UNCHANGED unchanged
       ELSE expiry' = "idle" /\ UNCHANGED <<status, unchanged>>
    /\ UNCHANGED <<mark, pending, remote, mode, value, books, power, acts>>
    /\ ExpiryRest

\* deleteInstance without a stop: Incus refuses a running instance.
ExpiryRemoves ==
    /\ expiry = "claimed" /\ power # "on"
    /\ power' = "absent" /\ expiry' = "removed"
    /\ UNCHANGED <<row, books, acts>> /\ ExpiryRest

ExpiryFails ==
    /\ \/ expiry = "claimed" /\ power = "on" /\ UNCHANGED <<power, acts>>
       \/ expiry = "claimed" /\ power # "on" /\ Use /\ power' \in {power, "absent"}
       \/ expiry = "removed" /\ Use /\ UNCHANGED power
    /\ expiry' = "failing"
    /\ UNCHANGED <<row, books>> /\ ExpiryRest

StillClaimed == status = "deleted" /\ MarkedExpired /\ Current("expiry")

\* deleteExpiredInstanceAndRollbackResources
ExpiryFinishes ==
    /\ expiry = "removed" /\ Unlocked /\ expiry' = "idle"
    /\ IF StillClaimed
       THEN status' = "gone" /\ mark' = "none" /\ ClearDeletion(FALSE) /\ Bump({})
       ELSE UNCHANGED row
    /\ UNCHANGED <<books, power, acts>> /\ ExpiryRest

\* restoreExpiredInstanceDeletionClaim
ExpiryRestores ==
    /\ expiry = "failing" /\ Unlocked /\ expiry' = "idle"
    /\ IF StillClaimed THEN status' = "suspended" /\ Bump({})
                       ELSE UNCHANGED <<status, unchanged>>
    /\ UNCHANGED <<mark, pending, remote, mode, value, books, power, acts>> /\ ExpiryRest

ExpiryStep ==
    \/ ExpiryClaims \/ ExpiryRemoves \/ ExpiryFinishes \/ ExpiryRestores
    \/ (ExpiryFails /\ UNCHANGED acts)

------------------------------------------------------------------------------
(* Renewal and extension. *)

PaymentRest == UNCHANGED <<request, recovery, expiry, suspend, admin, task>>

\* The row is read.  The renewal job lists instances in the last day of their time.
BeginPayment(p) ==
    /\ Use /\ payment[p] = "idle" /\ Exists /\ Len(periods) < MaxPeriods
    /\ \/ p = "renew" /\ (Live \/ ExpiredSuspension)
       \/ p = "auto" /\ Live /\ Len(periods) = 1
       \/ p = "extend" /\ status # "deleted"
    /\ payment' = [payment EXCEPT ![p] = IF ExpiredSuspension THEN "expired" ELSE "live"]
    /\ unchanged' = unchanged \cup {p}
    /\ UNCHANGED <<status, mark, pending, remote, mode, value, books, power>>
    /\ PaymentRest

Lifted(lifts) ==
    IF lifts THEN status' = "stopped" /\ mark' = "none" ELSE UNCHANGED <<status, mark>>

\* performRenewal
Renew(p) ==
    /\ p # "extend" /\ payment[p] # "idle" /\ Unlocked
    /\ Current(p) /\ (Live \/ ExpiredSuspension)
    /\ Lifted(ExpiredSuspension) /\ Bump({})
    /\ periods' = Append(periods, TRUE) /\ paid' = paid + Price
    /\ payment' = [payment EXCEPT ![p] = "idle"]
    /\ UNCHANGED <<pending, remote, mode, value, refunded, destroyed, settled, power, acts>>
    /\ PaymentRest

\* The staff's extension, charged or free: no lock, and only the version is compared.
Extend(p) ==
    /\ p = "extend" /\ payment[p] # "idle" /\ RowFree
    /\ Current(p) /\ Exists
    /\ Lifted(payment[p] = "expired") /\ Bump({})
    /\ \E charged \in BOOLEAN :
         /\ periods' = Append(periods, charged)
         /\ paid' = IF charged THEN paid + Price ELSE paid
    /\ payment' = [payment EXCEPT ![p] = "idle"]
    /\ UNCHANGED <<pending, remote, mode, value, refunded, destroyed, settled, power, acts>>
    /\ PaymentRest

\* The balance does not suffice, or the row has changed.
PaymentFails(p) ==
    /\ payment[p] # "idle" /\ payment' = [payment EXCEPT ![p] = "idle"]
    /\ UNCHANGED <<row, books, power, acts>> /\ PaymentRest

------------------------------------------------------------------------------
(* The staff's other routes, the start task, the synchroniser, time. *)

\* POST /admin/instances/:id/suspend stops a running instance, if that works, ...
SuspendRequest ==
    /\ Use /\ admin = "idle" /\ Live /\ admin' = "suspending"
    /\ power' \in {power} \cup (IF status = "running" /\ power = "on" THEN {"off"} ELSE {})
    /\ UNCHANGED <<row, books, request, recovery, expiry, suspend, payment, task>>

\* ... and then suspendInstanceManually overwrites what it finds.
SuspendManually ==
    /\ admin = "suspending" /\ Unlocked /\ admin' = "idle"
    /\ IF Exists /\ ~(status = "deleted" /\ MarkedExpired)
       THEN status' = "suspended" /\ mark' = "manual" /\ Bump({})
       ELSE UNCHANGED <<status, mark, unchanged>>
    /\ UNCHANGED <<pending, remote, mode, value, books, power, acts>>
    /\ UNCHANGED <<request, recovery, expiry, suspend, payment, task>>

Unsuspend ==
    /\ Use /\ status = "suspended" /\ Unlocked
    /\ status' = "stopped" /\ mark' = "none" /\ Bump({})
    /\ UNCHANGED <<pending, remote, mode, value, books, power, places>>

\* POST /admin/instances/:id/refund
RefundByHand ==
    /\ Use /\ Unlocked /\ status \notin {"deleted", "gone"} /\ ~pending
    /\ \E n \in Amounts : n <= MaxRefundable /\ refunded' = refunded + n
    /\ UNCHANGED <<row, periods, paid, destroyed, settled, power, places>>

\* A start task of the owner: it powers the instance on and then writes its status,
\* without a lock and without a new version.
StartRequest ==
    /\ Use /\ task = "none" /\ status = "stopped" /\ task' = "start"
    /\ UNCHANGED <<row, books, power, request, recovery, expiry, suspend, payment, admin>>

TaskPowersOn ==
    /\ task = "start" /\ Unlocked /\ status \notin {"deleted", "gone"}
    /\ power # "absent" /\ power' = "on" /\ task' = "started"
    /\ UNCHANGED <<row, books, acts, request, recovery, expiry, suspend, payment, admin>>

TaskWrites ==
    /\ task = "started" /\ RowFree /\ task' = "none"
    /\ status' = IF status \in {"deleted", "gone"} THEN status ELSE "running"
    /\ UNCHANGED <<mark, pending, remote, mode, value, unchanged, books, power, acts>>
    /\ UNCHANGED <<request, recovery, expiry, suspend, payment, admin>>

TaskFails ==
    /\ task = "start" /\ task' = "none"
    /\ status \in {"deleted", "gone"} \/ power = "absent"
    /\ UNCHANGED <<row, books, power, acts>>
    /\ UNCHANGED <<request, recovery, expiry, suspend, payment, admin>>

\* syncInstanceStatus, of an instance that runs or is stopped.
SyncStatus ==
    /\ Live /\ RowFree
    /\ status' = CASE power = "on" -> "running"
                   [] power = "off" -> "stopped"
                   [] power = "absent" -> "deleted"
    /\ IF status' = status THEN UNCHANGED unchanged ELSE Bump({})
    /\ UNCHANGED <<mark, pending, remote, mode, value, books, power, places, acts>>

\* A period ends.
Tick ==
    /\ periods # <<>> /\ periods' = Tail(periods)
    /\ UNCHANGED <<row, paid, refunded, destroyed, settled, power, places, acts>>

\* The suspension becomes three days old.
Age ==
    /\ mark = "recent" /\ RowFree /\ mark' = "old"
    /\ UNCHANGED <<status, pending, remote, mode, value, unchanged, books, power>>
    /\ UNCHANGED <<places, acts>>

\* The server dies; a removal under way in Incus may still happen.
Crash ==
    /\ Use
    /\ power' \in {power} \cup
         (IF \/ \E k \in Deleters : request[k].at = "quoted"
             \/ recovery.at = "listed" \/ (expiry = "claimed" /\ power # "on")
          THEN {"absent"} ELSE {})
    /\ request' = [k \in Deleters |-> Idle] /\ recovery' = Waiting
    /\ expiry' = "idle" /\ suspend' = "idle" /\ admin' = "idle" /\ task' = "none"
    /\ payment' = [p \in Payers |-> "idle"]
    /\ UNCHANGED <<row, books>>

------------------------------------------------------------------------------
Next ==
    \/ \E k \in Deleters : Claim(k) \/ DeletionStep(k) \/ RequestFails(k)
    \/ RecoveryStep \/ RecoveryFails
    \/ SuspendBegins \/ SuspendCommits \/ SuspendFails \/ LateStop
    \/ ExpiryLists \/ ExpiryStep \/ ExpiryFails
    \/ \E p \in Payers : BeginPayment(p) \/ Renew(p) \/ Extend(p) \/ PaymentFails(p)
    \/ SuspendRequest \/ SuspendManually \/ Unsuspend \/ RefundByHand
    \/ StartRequest \/ TaskPowersOn \/ TaskWrites \/ TaskFails
    \/ SyncStatus \/ Tick \/ Age \/ Crash

Spec == Init /\ [][Next]_vars

\* The jobs run again and again, requests in progress and tasks go on.  Who waits for the
\* advisory lock is served in turn, and between two claims of the deletion job the
\* suspension job, which runs far more often, finds the row suspended.
Fairness ==
    /\ \A k \in Deleters : WF_vars(DeletionStep(k))
    /\ WF_vars(RecoveryStep) /\ WF_vars(RecoveryFails /\ UNCHANGED acts)
    /\ SF_vars(SuspendBegins) /\ WF_vars(SuspendStep)
    /\ WF_vars(ExpiryLists) /\ SF_vars(ExpiryStep)
    /\ WF_vars(TaskPowersOn) /\ WF_vars(TaskWrites) /\ WF_vars(TaskFails)

FairSpec == Spec /\ Fairness

------------------------------------------------------------------------------
(* Properties. *)

\* However deletions, recoveries, refunds by hand and renewals interleave, no more is
\* refunded than was paid for the instance.
RefundWithinPaid == refunded <= paid

\* The request, its repetition and the recovery together settle the owner's destruction
\* once, across crashes and restored claims.
DestroySettledOnce == settled["user_destroy"] <= 1

\* The refund of a deletion is made only when Incus no longer has the instance, even if
\* the claim was restored, claimed again or taken over by the recovery in between.
RefundAfterRemoval ==
    remote \/ settled["user_destroy"] + settled["privileged_delete"] > 0
        => power = "absent"

\* The renewal job buys at most one period ahead, whoever else renews meanwhile.
AutoRenewsLastPeriod ==
    [][\A p \in Payers : p = "auto" /\ Renew(p) => Len(periods) <= 1]_vars

\* A deletion that was claimed is settled, or its claim given back, although the server
\* may die at any point of it.
PendingSettles ==
    status = "deleted" /\ pending ~> status # "deleted" \/ ~pending

\* An instance that runs after its time is stopped, unless time is bought for it or it
\* was suspended by hand.
ExpiredStops ==
    Expired /\ power = "on" /\ mark # "manual"
        ~> power # "on" \/ ~Expired \/ mark = "manual"

\* An instance that has been suspended for three days is deleted at last, unless it is
\* paid for or the staff or a late start change its suspension.
ExpiredDeleted ==
    Expired /\ mark = "old" /\ status \in {"suspended", "deleted"}
        ~> status \notin {"suspended", "deleted"} \/ ~Expired \/ mark # "old"

\* What settlePrivilegedDeletionBilling says of itself: the refund of a privileged
\* deletion is made once.
PrivilegedSettledOnce == settled["privileged_delete"] <= 1

\* The instance keeps the abstract ledger.
Ledger == INSTANCE PrepaidLedger WITH present <- power # "absent", closed <- destroyed
LedgerSpec == Ledger!LedgerSpec
==============================================================================
