------------------------------ MODULE HostTasks ------------------------------
(***************************************************************************)
(* The queue of instance operations (start, stop, restart, rebuild, clone, *)
(* recreate, change_host) of the panel: the rows of instance_tasks, the    *)
(* server processes that claim and execute them                            *)
(* (workers/instanceTaskWorker.ts), the execution lease                    *)
(* (workers/instance-task-lease.ts), and the requests that race with them: *)
(* creation, cancellation, manual recovery, instance deletion and the      *)
(* status synchroniser.                                                    *)
(*                                                                         *)
(* What is atomic.  One statement, or one transaction that holds an        *)
(* advisory lock over everything it reads, is one step.  Where the code    *)
(* reads in one statement and writes in a later one without such a lock,   *)
(* there are two steps: claims (the pending task is not locked), deletion  *)
(* (task creation takes no lock), cancellation, creation, and every        *)
(* statement of an executor whose "now" was read before it was sent.       *)
(*                                                                         *)
(* Time.  A lease is "live" or "expired"; LeaseExpires is the clock        *)
(* passing leaseExpiresAt.  An execution token is a random UUID drawn by   *)
(* the claim; a task is claimed at most once, so the process that drew it  *)
(* stands for it.                                                          *)
(***************************************************************************)
EXTENDS Naturals, FiniteSets

CONSTANTS
    Tasks,                  \* rows that may be created in instance_tasks
    Instances,              \* instances the tasks are about
    Hosts,                  \* Incus hosts
    Workers,                \* server processes that run the worker
    InstanceOf,             \* InstanceOf[t]: instanceId of task t
    HostOf,                 \* HostOf[t]: hostId of task t
    HeavyTasks,             \* rebuild, clone, recreate, change_host
    LIGHT_TASK_CONCURRENCY, \* light tasks tried per poll of a host
    NoTask,
    NoWorker

ASSUME TasksAssumption ==
    /\ IsFiniteSet(Tasks)
    /\ InstanceOf \in [Tasks -> Instances]
    /\ HostOf \in [Tasks -> Hosts]
    /\ HeavyTasks \subseteq Tasks
    /\ NoTask \notin Tasks
    /\ NoWorker \notin Workers
    /\ LIGHT_TASK_CONCURRENCY \in Nat \ {0}

VARIABLES
    status,       \* instance_tasks.status; "absent" before the row exists
    created,      \* createdAt, as a rank; 0 before the row exists
    token,        \* executionToken
    lease,        \* leaseExpiresAt compared with the clock
    orphaned,     \* progress = 'orphaned': the quarantine mark
    instance,     \* instances.status is 'deleted' or not
    destroy,      \* per instance: the deletion request in flight
    requests,     \* create requests that passed the route's checks
    cancelling,   \* cancel requests that have read a PENDING row
    up,           \* the process runs
    claiming,     \* per host: task of the open claim transaction
    claimer,      \* per host: process of the open claim transaction
    exec,         \* where executeTask stands for the task
    runner,       \* the process that executes, and the token it remembers
    beat          \* tasks with a lease renewal on its way to the database

row == <<status, created, token, lease, orphaned>>
inst == <<instance, destroy>>
asks == <<requests, cancelling>>
claims == <<claiming, claimer>>
executor == <<exec, runner, beat>>
vars == <<row, inst, asks, up, claims, executor>>

------------------------------------------------------------------------------
(* Reading the tables. *)

LightTasks == Tasks \ HeavyTasks
Active(t) == status[t] \in {"PENDING", "PROCESSING"}
Processing(h) == {t \in Tasks : HostOf[t] = h /\ status[t] = "PROCESSING"}
Pending(h) == {t \in Tasks : HostOf[t] = h /\ status[t] = "PENDING"}

IdleInstance(i) == \A t \in Tasks : InstanceOf[t] = i => ~Active(t)

\* Mutant: the index covers the pending rows only.
UniqueAmongPending(t) ==
    \A u \in Tasks \ {t} : InstanceOf[u] = InstanceOf[t] => status[u] # "PENDING"

\* The partial unique index on the active rows of an instance admits row t.
UniqueActive(t) ==
    \A u \in Tasks \ {t} : InstanceOf[u] = InstanceOf[t] => ~Active(u)

\* pg_try_advisory_xact_lock(INSTANCE_OPERATION_LOCK_NAMESPACE, i) is free.
Unlocked(i) ==
    /\ destroy[i] # "checked"
    /\ \A h \in Hosts : claiming[h] # NoTask => InstanceOf[claiming[h]] # i

\* Mutant: the poll lists the light tasks that are done or under way too.
FirstLightOfAll(t) ==
    Cardinality({u \in LightTasks :
        HostOf[u] = HostOf[t] /\ created[u] \in 1..(created[t] - 1)})
            < LIGHT_TASK_CONCURRENCY

\* The task is among the first LIGHT_TASK_CONCURRENCY light tasks of the poll.
FirstLight(t) ==
    Cardinality({u \in Pending(HostOf[t]) \ HeavyTasks : created[u] < created[t]})
        < LIGHT_TASK_CONCURRENCY

\* status = PROCESSING and executionToken is the one the executor remembers.
Owns(t) == status[t] = "PROCESSING" /\ token[t] = runner[t]
\* hasActiveInstanceTaskLease, as assertActive sees it.
LeaseHeld(t) == Owns(t) /\ lease[t] = "live"
\* Between the claim and the finally block of executeTask.
Executing(t) == exec[t] # "none"
\* A cancel took effect after the claim: it clears neither token nor lease.
Overtaken(t) == status[t] = "FAILED" /\ token[t] # NoWorker

TypeOK ==
    /\ status \in [Tasks -> {"absent", "PENDING", "PROCESSING", "COMPLETED", "FAILED"}]
    /\ created \in [Tasks -> Nat]
    /\ token \in [Tasks -> Workers \cup {NoWorker}]
    /\ lease \in [Tasks -> {"none", "live", "expired"}]
    /\ orphaned \in [Tasks -> BOOLEAN]
    /\ instance \in [Instances -> {"present", "deleted"}]
    /\ destroy \in [Instances -> {"idle", "checked", "remote"}]
    /\ requests \subseteq Tasks
    /\ cancelling \subseteq Tasks
    /\ up \in [Workers -> BOOLEAN]
    /\ claiming \in [Hosts -> Tasks \cup {NoTask}]
    /\ claimer \in [Hosts -> Workers \cup {NoWorker}]
    /\ exec \in [Tasks ->
           {"none", "ready", "work", "lost", "finish", "fail", "quarantine"}]
    /\ runner \in [Tasks -> Workers \cup {NoWorker}]
    /\ beat \subseteq Tasks

Init ==
    /\ status = [t \in Tasks |-> "absent"]
    /\ created = [t \in Tasks |-> 0]
    /\ token = [t \in Tasks |-> NoWorker]
    /\ lease = [t \in Tasks |-> "none"]
    /\ orphaned = [t \in Tasks |-> FALSE]
    /\ instance = [i \in Instances |-> "present"]
    /\ destroy = [i \in Instances |-> "idle"]
    /\ requests = {}
    /\ cancelling = {}
    /\ up = [w \in Workers |-> TRUE]
    /\ claiming = [h \in Hosts |-> NoTask]
    /\ claimer = [h \in Hosts |-> NoWorker]
    /\ exec = [t \in Tasks |-> "none"]
    /\ runner = [t \in Tasks |-> NoWorker]
    /\ beat = {}

------------------------------------------------------------------------------
(* Requests. *)

\* A route found the instance usable and without an active task.
RequestTask(t) ==
    /\ status[t] = "absent" /\ t \notin requests
    /\ instance[InstanceOf[t]] = "present"
    /\ IdleInstance(InstanceOf[t])
    /\ requests' = requests \cup {t}
    /\ UNCHANGED <<row, inst, cancelling, up, claims, executor>>

\* The row is inserted, unless the partial unique index refuses it.
CreateInstanceTask(t) ==
    /\ t \in requests
    /\ requests' = requests \ {t}
    /\ IF UniqueActive(t)
       THEN /\ status' = [status EXCEPT ![t] = "PENDING"]
            /\ created' = [created EXCEPT ![t] =
                   1 + Cardinality({u \in Tasks : created[u] > 0})]
       ELSE UNCHANGED <<status, created>>
    /\ UNCHANGED <<token, lease, orphaned, inst, cancelling, up, claims, executor>>

\* cancelInstanceTask reads the row ...
CancelRead(t) ==
    /\ status[t] = "PENDING" /\ t \notin cancelling
    /\ cancelling' = cancelling \cup {t}
    /\ UNCHANGED <<row, inst, requests, up, claims, executor>>

\* Mutant: a status of its own for cancelled rows, which the enum lacks.
CancelWriteCancelled(t) ==
    /\ t \in cancelling
    /\ cancelling' = cancelling \ {t}
    /\ status' = [status EXCEPT ![t] = "CANCELLED"]
    /\ UNCHANGED <<created, token, lease, orphaned, inst, requests, up, claims, executor>>

\* ... and then updates it by its id alone.
CancelWrite(t) ==
    /\ t \in cancelling
    /\ cancelling' = cancelling \ {t}
    /\ status' = [status EXCEPT ![t] = "FAILED"]
    /\ UNCHANGED <<created, token, lease, orphaned, inst, requests, up, claims, executor>>

\* Mutant: an expired lease is enough to recover a task, its executor alive.
RecoverableExpired(t) ==
    status[t] = "PENDING" \/ (status[t] = "PROCESSING" /\ lease[t] # "live")

\* canRecoverInstanceTask and the compare-and-set of the recover route.  For a
\* PROCESSING task only an administrator may force it, who by the route's own
\* text "must confirm the old worker has stopped".
Recoverable(t) ==
    \/ status[t] = "PENDING"
    \/ status[t] = "PROCESSING" /\ lease[t] # "live" /\ ~Executing(t)

RecoverTask(t) ==
    /\ Recoverable(t)
    /\ status' = [status EXCEPT ![t] = "FAILED"]
    /\ token' = [token EXCEPT ![t] = NoWorker]
    /\ lease' = [lease EXCEPT ![t] = "none"]
    /\ orphaned' = [orphaned EXCEPT ![t] = FALSE]
    /\ UNCHANGED <<created, inst, asks, up, claims, executor>>

\* Mutant: the deletion does not take the instance lock.
DestroyCheckUnlocked(i) ==
    /\ destroy[i] = "idle" /\ instance[i] = "present" /\ IdleInstance(i)
    /\ destroy' = [destroy EXCEPT ![i] = "checked"]
    /\ UNCHANGED <<row, instance, asks, up, claims, executor>>

\* claimInstanceForUserDestroy / claimInstanceForDelete: under the instance
\* lock, no task of the instance is active ...
DestroyCheck(i) ==
    /\ destroy[i] = "idle" /\ instance[i] = "present"
    /\ Unlocked(i) /\ IdleInstance(i)
    /\ destroy' = [destroy EXCEPT ![i] = "checked"]
    /\ UNCHANGED <<row, instance, asks, up, claims, executor>>

\* ... and the row is marked deleted where its status is still the one read;
\* the instance is then removed from Incus.
DestroyCommit(i) ==
    /\ destroy[i] = "checked"
    /\ IF instance[i] = "present"
       THEN /\ instance' = [instance EXCEPT ![i] = "deleted"]
            /\ destroy' = [destroy EXCEPT ![i] = "remote"]
       ELSE /\ destroy' = [destroy EXCEPT ![i] = "idle"]
            /\ UNCHANGED instance
    /\ UNCHANGED <<row, asks, up, claims, executor>>

\* The removal from Incus ends: done, or failed and the old status restored.
DestroyEnd(i) ==
    /\ destroy[i] = "remote"
    /\ destroy' = [destroy EXCEPT ![i] = "idle"]
    /\ \E s \in {"deleted", "present"} : instance' = [instance EXCEPT ![i] = s]
    /\ UNCHANGED <<row, asks, up, claims, executor>>

\* The status synchroniser does not find the instance in Incus.
SyncNotFound(i) ==
    /\ instance[i] = "present"
    /\ instance' = [instance EXCEPT ![i] = "deleted"]
    /\ UNCHANGED <<row, destroy, asks, up, claims, executor>>

------------------------------------------------------------------------------
(* Claims.  The host lock is held from the reads to the commit. *)

OpenClaim(w, h, t) ==
    /\ up[w] /\ claiming[h] = NoTask
    /\ Unlocked(InstanceOf[t])
    /\ instance[InstanceOf[t]] # "deleted"
    /\ claiming' = [claiming EXCEPT ![h] = t]
    /\ claimer' = [claimer EXCEPT ![h] = w]
    /\ UNCHANGED <<row, inst, asks, up, executor>>

\* Mutant: no look at the heavy task of the host under the lock.
ClaimLightTaskUnchecked(w, t) ==
    /\ t \in LightTasks /\ status[t] = "PENDING" /\ FirstLight(t)
    /\ OpenClaim(w, HostOf[t], t)

ClaimLightTask(w, t) ==
    /\ t \in LightTasks /\ status[t] = "PENDING" /\ FirstLight(t)
    /\ Processing(HostOf[t]) \cap HeavyTasks = {}
    /\ OpenClaim(w, HostOf[t], t)

\* Only the earliest pending task is considered, whatever its type.
ClaimNextTask(w, h) ==
    /\ Pending(h) \cap HeavyTasks # {}
    /\ Processing(h) = {}
    /\ \E t \in Pending(h) :
        /\ \A u \in Pending(h) : created[t] <= created[u]
        /\ OpenClaim(w, h, t)

\* The update by id, refused by the unique index if the instance has another
\* active task; executeTask is then called.
ClaimCommit(h) ==
    LET t == claiming[h] IN
    /\ t # NoTask
    /\ UniqueActive(t)
    /\ status' = [status EXCEPT ![t] = "PROCESSING"]
    /\ token' = [token EXCEPT ![t] = claimer[h]]
    /\ lease' = [lease EXCEPT ![t] = "live"]
    /\ exec' = [exec EXCEPT ![t] = "ready"]
    /\ runner' = [runner EXCEPT ![t] = claimer[h]]
    /\ claiming' = [claiming EXCEPT ![h] = NoTask]
    /\ claimer' = [claimer EXCEPT ![h] = NoWorker]
    /\ UNCHANGED <<created, orphaned, inst, asks, up, beat>>

\* The transaction is rolled back: unique index, or a database error.
ClaimAbort(h) ==
    /\ claiming[h] # NoTask
    /\ claiming' = [claiming EXCEPT ![h] = NoTask]
    /\ claimer' = [claimer EXCEPT ![h] = NoWorker]
    /\ UNCHANGED <<row, inst, asks, up, executor>>

------------------------------------------------------------------------------
(* executeTask. *)

Goto(t, pc) == exec' = [exec EXCEPT ![t] = pc]

\* The row is read back; the operation starts, fails early (instance deleted or
\* gone, an earlier active task, no host), or the row is not claimed any more.
BeginExecution(t) ==
    /\ exec[t] = "ready"
    /\ \/ LeaseHeld(t) /\ instance[InstanceOf[t]] # "deleted" /\ Goto(t, "work")
       \/ Owns(t) /\ Goto(t, IF lease[t] = "live" THEN "fail" ELSE "none")
       \/ ~LeaseHeld(t) /\ Goto(t, IF Owns(t) THEN "quarantine" ELSE "none")
    /\ UNCHANGED <<row, inst, asks, up, claims, runner, beat>>

\* assertActive finds the lease gone before or after an Incus call, or the
\* execution was aborted since the last one.
AssertFails(t) ==
    /\ exec[t] = "lost" \/ (exec[t] = "work" /\ ~LeaseHeld(t))
    /\ Goto(t, "quarantine")
    /\ UNCHANGED <<row, inst, asks, up, claims, runner, beat>>

\* The operation throws; finishInstanceTaskExecution(FAILED) is sent.
WorkFails(t) ==
    /\ exec[t] = "work"
    /\ Goto(t, IF LeaseHeld(t) THEN "fail" ELSE "none")
    /\ UNCHANGED <<row, inst, asks, up, claims, runner, beat>>

\* The last assertActive passes; finishInstanceTaskExecution(COMPLETED) is sent.
WorkDone(t) ==
    /\ exec[t] = "work" /\ LeaseHeld(t)
    /\ Goto(t, "finish")
    /\ UNCHANGED <<row, inst, asks, up, claims, runner, beat>>

\* The compare-and-set lands.  Its "now" was read when it was sent, so it may
\* still match a lease that has expired since.  It may be refused, or meet a
\* database error, after which a success is reported as a failure.
FinishExecution(t) ==
    /\ exec[t] \in {"finish", "fail"}
    /\ \/ /\ Owns(t)
          /\ status' = [status EXCEPT ![t] =
                 IF exec[t] = "finish" THEN "COMPLETED" ELSE "FAILED"]
          /\ token' = [token EXCEPT ![t] = NoWorker]
          /\ lease' = [lease EXCEPT ![t] = "none"]
          /\ Goto(t, "none")
       \/ /\ UNCHANGED <<status, token, lease>>
          /\ \E pc \in {"none"} \cup (IF exec[t] = "finish" THEN {"fail"} ELSE {}) :
                Goto(t, pc)
    /\ UNCHANGED <<created, orphaned, inst, asks, up, claims, runner, beat>>

\* The lease was lost: the row stays PROCESSING and is marked orphaned; an error
\* of that update is ignored.
QuarantineTask(t) ==
    /\ exec[t] = "quarantine"
    /\ Goto(t, "none")
    /\ \E q \in {orphaned[t], orphaned[t] \/ Owns(t)} :
           orphaned' = [orphaned EXCEPT ![t] = q]
    /\ UNCHANGED <<status, created, token, lease, inst, asks, up, claims, runner, beat>>

\* The interval timer of executeTask sends renewInstanceTaskLease ...
HeartbeatSend(t) ==
    /\ Executing(t) /\ exec[t] # "ready" /\ up[runner[t]]
    /\ t \notin beat /\ lease[t] = "live"
    /\ beat' = beat \cup {t}
    /\ UNCHANGED <<row, inst, asks, up, claims, exec, runner>>

\* ... which lands later: it may even revive a lease that expired meanwhile.
HeartbeatLand(t) ==
    /\ t \in beat
    /\ beat' = beat \ {t}
    /\ IF Owns(t)
       THEN /\ \E l \in {"live", lease[t]} : lease' = [lease EXCEPT ![t] = l]
            /\ UNCHANGED exec
       ELSE /\ Goto(t, IF exec[t] = "work" THEN "lost" ELSE exec[t])
            /\ UNCHANGED lease
    /\ UNCHANGED <<status, created, token, orphaned, inst, asks, up, claims, runner>>

\* A renewal is refused or fails with a database error: invalidateLease aborts
\* the execution, which goes on until its next guarded call.
HeartbeatFails(t) ==
    /\ exec[t] = "work"
    /\ Goto(t, "lost")
    /\ UNCHANGED <<row, inst, asks, up, claims, runner, beat>>

------------------------------------------------------------------------------
(* The clock, the timers of the worker, crashes. *)

LeaseExpires(t) ==
    /\ lease[t] = "live"
    /\ lease' = [lease EXCEPT ![t] = "expired"]
    /\ UNCHANGED <<status, created, token, orphaned, inst, asks, up, claims, executor>>

\* Mutant: only tasks that have no lease at all.
QuarantinedIfNull == [t \in Tasks |->
    orphaned[t] \/ (status[t] = "PROCESSING" /\ lease[t] = "none")]

Quarantined == [t \in Tasks |->
    orphaned[t] \/ (status[t] = "PROCESSING" /\ lease[t] # "live")]

\* Mutant: a task whose lease has expired is failed, and its host opened.
CleanupFails(w) ==
    /\ up[w]
    /\ status' = [t \in Tasks |->
           IF status[t] = "PROCESSING" /\ lease[t] # "live" THEN "FAILED" ELSE status[t]]
    /\ token' = [t \in Tasks |-> IF lease[t] # "live" THEN NoWorker ELSE token[t]]
    /\ UNCHANGED <<created, lease, orphaned, inst, asks, up, claims, executor>>

\* Mutant: ... or queued again.
CleanupRequeues(w) ==
    /\ up[w]
    /\ status' = [t \in Tasks |->
           IF status[t] = "PROCESSING" /\ lease[t] # "live" THEN "PENDING" ELSE status[t]]
    /\ UNCHANGED <<created, token, lease, orphaned, inst, asks, up, claims, executor>>

CleanupTimeoutTasks(w) ==
    /\ up[w] /\ orphaned # Quarantined
    /\ orphaned' = Quarantined
    /\ UNCHANGED <<status, created, token, lease, inst, asks, up, claims, executor>>

\* The process dies: its executions stop and its claim is rolled back; a
\* renewal already sent may still land.
Crash(w) ==
    /\ up[w]
    /\ up' = [up EXCEPT ![w] = FALSE]
    /\ exec' = [t \in Tasks |-> IF runner[t] = w THEN "none" ELSE exec[t]]
    /\ claiming' = [h \in Hosts |-> IF claimer[h] = w THEN NoTask ELSE claiming[h]]
    /\ claimer' = [h \in Hosts |-> IF claimer[h] = w THEN NoWorker ELSE claimer[h]]
    /\ UNCHANGED <<row, inst, asks, runner, beat>>

\* startSchedulers awaits cleanupStaleTasks before it starts the worker.
Restart(w) ==
    /\ ~up[w]
    /\ up' = [up EXCEPT ![w] = TRUE]
    /\ orphaned' = Quarantined
    /\ UNCHANGED <<status, created, token, lease, inst, asks, claims, executor>>

------------------------------------------------------------------------------

ExecutorStep(t) ==
    \/ BeginExecution(t) \/ AssertFails(t) \/ WorkFails(t) \/ WorkDone(t)
    \/ FinishExecution(t) \/ QuarantineTask(t)

Next ==
    \/ \E t \in Tasks :
        \/ RequestTask(t) \/ CreateInstanceTask(t)
        \/ CancelRead(t) \/ CancelWrite(t) \/ RecoverTask(t)
        \/ ExecutorStep(t)
        \/ HeartbeatSend(t) \/ HeartbeatLand(t) \/ HeartbeatFails(t)
        \/ LeaseExpires(t)
    \/ \E i \in Instances :
        DestroyCheck(i) \/ DestroyCommit(i) \/ DestroyEnd(i) \/ SyncNotFound(i)
    \/ \E w \in Workers, t \in Tasks : ClaimLightTask(w, t)
    \/ \E w \in Workers, h \in Hosts : ClaimNextTask(w, h)
    \/ \E h \in Hosts : ClaimCommit(h) \/ ClaimAbort(h)
    \/ \E w \in Workers : CleanupTimeoutTasks(w) \/ Crash(w) \/ Restart(w)

Spec == Init /\ [][Next]_vars

------------------------------------------------------------------------------
(* Fairness.  A process that dies is restarted by its supervisor; timers of a  *)
(* running process fire; every Incus call and every statement has a timeout,   *)
(* so an executor ends; a lease nobody renews expires.  Nothing makes a user   *)
(* create, cancel, recover or delete.                                          *)

Fairness ==
    /\ \A t \in Tasks :
        /\ WF_vars(BeginExecution(t) \/ QuarantineTask(t) \/ FinishExecution(t))
        /\ WF_vars(AssertFails(t) \/ WorkFails(t) \/ WorkDone(t))
        /\ WF_vars(HeartbeatLand(t))
        /\ WF_vars(~Executing(t) /\ LeaseExpires(t))
    /\ \A h \in Hosts : WF_vars(ClaimCommit(h) \/ ClaimAbort(h))
    /\ \A i \in Instances : WF_vars(DestroyCommit(i)) /\ WF_vars(DestroyEnd(i))
    /\ \A w \in Workers : WF_vars(CleanupTimeoutTasks(w)) /\ WF_vars(Restart(w))

\* A poll offers every claim of the host again and again: a claim that is
\* possible again and again is made, and not rolled back for ever.
PollFairness ==
    /\ \A w \in Workers :
        /\ \A t \in LightTasks : SF_vars(ClaimLightTask(w, t))
        /\ \A h \in Hosts : SF_vars(ClaimNextTask(w, h))
    /\ \A h \in Hosts : SF_vars(ClaimCommit(h))

FairSpec == Spec /\ Fairness /\ PollFairness

------------------------------------------------------------------------------
(* Safety. *)

\* The rows obey the slots of HostSlots: a heavy row is PROCESSING alone on its
\* host, whatever claims, cancels and recoveries raced for it (the host lock and
\* the counts of claimLightTask and claimNextTask).
Slots == INSTANCE HostSlots WITH held <- {t \in Tasks : status[t] = "PROCESSING"}
HostExclusive == Slots!SlotsCompatible
SlotsSpec == Slots!Spec

\* An executor that runs either still owns its row, so that no other claim can
\* pass, or a cancel that read the row before the claim took it away.
ExecutorOwnsRow == \A t \in Tasks : Executing(t) => Owns(t) \/ Overtaken(t)

\* No two executions of incompatible tasks overlap unless such a cancel hit one:
\* quarantine keeps the host and the instance closed after a lost lease, until
\* an administrator recovers the task.
ExecutionExclusive ==
    \A t, u \in Tasks :
        (t # u /\ Executing(t) /\ Executing(u) /\ ~Slots!Compatible(t, u))
            => Overtaken(t) \/ Overtaken(u)

\* An instance that is being removed from Incus by a deletion request is not
\* being operated on by a task (claims and deletions exclude each other on the
\* instance lock), unless such a cancel hit the task.
DestroyedUntouched ==
    \A t \in Tasks :
        Executing(t) /\ destroy[InstanceOf[t]] # "idle" => Overtaken(t)

\* A task leaves the queue for good after it ran: no row is executed twice, even
\* when a cancel or a recovery fails it while a claim of it is being committed.
ExecutedOnce ==
    [][\A t \in Tasks : runner[t] # NoWorker =>
           runner'[t] = runner[t] /\ (exec'[t] = "ready" => exec[t] = "ready")]_vars

------------------------------------------------------------------------------
(* The inductive invariant behind the safety properties. *)

\* A row that was never claimed has no token and nobody executes it.
UnclaimedRows ==
    \A t \in Tasks :
        /\ status[t] \in {"absent", "PENDING"} =>
               token[t] = NoWorker /\ exec[t] = "none" /\ runner[t] = NoWorker
        /\ t \in requests => status[t] = "absent"
        /\ t \in cancelling => status[t] # "absent"

\* A PROCESSING row has a token.
ClaimedRows == \A t \in Tasks : status[t] = "PROCESSING" => token[t] # NoWorker

\* What the transaction that holds the host lock relies on at its commit.
OpenClaims ==
    \A h \in Hosts : LET t == claiming[h] IN
        t # NoTask =>
            /\ HostOf[t] = h /\ claimer[h] # NoWorker
            /\ status[t] \in {"PENDING", "FAILED"}
            /\ token[t] = NoWorker /\ exec[t] = "none" /\ runner[t] = NoWorker
            /\ destroy[InstanceOf[t]] = "idle"
            /\ \A u \in Tasks : HostOf[u] = h /\ status[u] = "PROCESSING"
                   => u \notin HeavyTasks /\ t \notin HeavyTasks

\* Deletions and claims exclude each other.
Deletions ==
    /\ \A i \in Instances : destroy[i] = "remote" => instance[i] = "deleted"
    /\ \A t \in Tasks :
           status[t] = "PROCESSING" => destroy[InstanceOf[t]] = "idle"

\* HostExclusive, as a formula about two rows.
RowsCompatible ==
    \A t, u \in Tasks :
        (t # u /\ status[t] = "PROCESSING" /\ status[u] = "PROCESSING") =>
            /\ InstanceOf[t] # InstanceOf[u]
            /\ HostOf[t] = HostOf[u] => t \notin HeavyTasks /\ u \notin HeavyTasks

\* What the claim transactions, the deletions and the executors keep together;
\* it implies every safety invariant above.
QueueInv ==
    /\ TypeOK
    /\ UnclaimedRows
    /\ ClaimedRows
    /\ OpenClaims
    /\ Deletions
    /\ RowsCompatible
    /\ ExecutorOwnsRow

------------------------------------------------------------------------------
(* Liveness. *)

\* A claimed task ends or is quarantined, where an operator sees it: it never
\* stays PROCESSING unnoticed, also when its process died (cleanupTimeoutTasks,
\* cleanupStaleTasks).
ClaimedTaskSettles ==
    \A t \in Tasks :
        status[t] = "PROCESSING" ~> (status[t] # "PROCESSING" \/ orphaned[t])

\* While no instance disappears, a pending task does not wait for ever behind
\* finitely many others, a light one not behind the first that a poll takes, unless
\* a quarantined task keeps the host closed (the poll of processQueue, the order of
\* claimNextTask).  An endless stream of new light tasks is outside: rows are finite.
PendingTaskServed ==
    \A t \in Tasks :
        status[t] = "PENDING" ~>
            \/ status[t] # "PENDING"
            \/ \E u \in Processing(HostOf[t]) : orphaned[u]

------------------------------------------------------------------------------
(* What the code's texts say and the code does not do. *)

\* instanceTaskWorker.ts:3: "only one instance operation task is executing on a
\* host at a time", light tasks apart (:7): also when a cancel races the claim.
HeavyTaskRunsAlone ==
    \A t, u \in Tasks :
        t # u /\ HostOf[t] = HostOf[u] /\ t \in HeavyTasks
            => ~(Executing(t) /\ Executing(u))

\* instanceTaskWorker.ts:490: a task whose instance is deleted is cancelled.
DeletedTaskCancelled ==
    \A t \in Tasks :
        (status[t] = "PENDING" /\ instance[InstanceOf[t]] = "deleted")
            ~> (status[t] # "PENDING" \/ instance[InstanceOf[t]] # "deleted")
==============================================================================
