----------------------------- MODULE HourlyPower -----------------------------
(***************************************************************************)
(* Who calls the hourly billing of an instance, and when: the executor of  *)
(* its start, stop and restart tasks (workers/instanceTaskWorker.ts), the  *)
(* status synchroniser (services/status-scheduler.ts), the reports of the  *)
(* host's agent (services/agent-instance-report.ts), the five-minute job   *)
(* (runHourlyBillingJob), the creation of the instance and the routes that *)
(* suspend, unsuspend and synchronise it (routes/instances.ts).            *)
(*                                                                         *)
(* The instance itself is on, off or absent in Incus.  Its power, its      *)
(* status in the database and its billing change in separate steps, so     *)
(* each caller is a small process whose place is a variable, and a crash   *)
(* of the server loses all the places.  The billing transactions are those *)
(* of HourlyBilling, which this module implements.  Deletion requests and  *)
(* ownership are left to it.                                               *)
(***************************************************************************)
EXTENDS HourlyBilling

CONSTANTS
    Agents,     \* "none" if the host may have an agent, "absent" if it may have none
    AgentFunds, AgentTime,  \* bounds: money and time where it has one
    MaxUses     \* bound: requests, failures and other acts of the environment

ASSUME PowerAssumption ==
    /\ Agents \subseteq {"none", "absent"}
    /\ AgentFunds \in Nat /\ AgentTime \in Nat /\ MaxUses \in Nat

VARIABLES
    power,    \* the instance in Incus
    creator,  \* place of createInstanceAsync
    task,     \* place of the executor of the instance's task
    sync,     \* place of syncInstanceStatus
    agent,    \* place of a report of the agent; "absent" if there is none
    seen,     \* the status processOneAgentInstanceReport was given
    job,      \* place of runHourlyBillingJob
    route,    \* place of a suspend, unsuspend or synchronise request
    uses      \* auxiliary: acts of the environment so far

places == <<creator, task, sync, agent, seen, job, route>>
allVars == <<vars, power, places, uses>>

PlacesOK ==
    /\ power \in {"absent", "on", "off"}
    /\ creator \in {"none", "create", "made", "created", "written"}
    /\ task \in {"none", "start", "started", "written", "stop", "stopped", "paused",
                 "restart", "cycle"}
    /\ sync \in {"none", "sawOn", "sawOff", "pause", "activate", "close"}
    /\ agent \in {"absent", "none", "on", "off", "pause", "activate"}
    /\ seen \in {"none", "running", "stopped", "error"}
    /\ job \in {"none", "kill", "stale", "due"}
    /\ route \in {"none", "pause", "suspend", "resume", "unsuspend", "sawOn", "sawOff"}
    /\ uses \in 0..MaxUses

PowerInit ==
    /\ Init
    /\ power = "absent" /\ uses = 0
    /\ creator = "none" /\ task = "none" /\ sync = "none" /\ agent \in Agents
    /\ seen = "none" /\ job = "none" /\ route = "none"

------------------------------------------------------------------------------
(* What the callers do in one step. *)

\* An act of the environment.
Use == uses < MaxUses /\ uses' = uses + 1

\* activateHourlyBilling, also where it changes nothing.
Activate ==
    \/ ActivateRefused \/ ActivateHourlyBilling
    \/ account \in {"active", "closed"} /\ UNCHANGED vars

\* Mutant: the account is paused without a settlement.
PauseUnsettled ==
    /\ account' = "paused"
    /\ UNCHANGED <<instance, owner, meter, wallets, activeTime>>

\* pauseHourlyBilling, also where it changes nothing.
Pause == PauseHourlyBilling \/ (account = "closed" /\ UNCHANGED vars)

\* updateInstanceStatus: not over a deletion.
Write(s) == IF instance \in {s, "deleted"} THEN UNCHANGED vars ELSE WriteStatus(s)

\* suspendInstance and unsuspendInstance: over any status.
Overwrite(s) == IF instance = s THEN UNCHANGED vars ELSE WriteStatus(s)

------------------------------------------------------------------------------
(* Creation. *)

CreateRequest ==
    /\ CreateInstance
    /\ creator' = "create"
    /\ UNCHANGED <<power, task, sync, agent, seen, job, route, uses>>

\* retry-provision of a failed creation: claimInstanceAndReserveResources.
RetryRequest ==
    /\ Use /\ instance = "error" /\ creator = "none"
    /\ WriteStatus("creating") /\ creator' = "create"
    /\ UNCHANGED <<power, task, sync, agent, seen, job, route>>

\* Incus makes the instance ...
CreateMakes ==
    /\ creator = "create" /\ power = "absent"
    /\ power' = "off" /\ creator' = "made"
    /\ UNCHANGED <<vars, task, sync, agent, seen, job, route, uses>>

\* ... and starts it.
CreatePowersOn ==
    /\ creator = "made" /\ power # "absent"
    /\ power' = "on" /\ creator' = "created"
    /\ UNCHANGED <<vars, task, sync, agent, seen, job, route, uses>>

\* The update where the status is still 'creating'; if it is not, and the instance
\* is not running either, what was created in Incus is removed, if that works.
CreateWrites ==
    /\ creator = "created" /\ creator' = "written"
    /\ IF instance = "creating"
       THEN WriteStatus("running") /\ UNCHANGED power
       ELSE /\ power' \in {power} \cup (IF instance = "running" THEN {} ELSE {"absent"})
            /\ UNCHANGED vars
    /\ UNCHANGED <<task, sync, agent, seen, job, route, uses>>

\* cleanupAndSettleFailedProvision of a creation: Incus made the instance after all
\* (markCreatingInstanceProvisioned), or it is settled as failed.
SettleCreation ==
    /\ instance = "creating"
    /\ \/ power = "on" /\ WriteStatus("running")
       \/ power = "off" /\ WriteStatus("stopped")
       \/ power = "absent" /\ FailCreatingInstance
    /\ UNCHANGED power

\* Incus fails the creation, as it does when an instance of that name is left, and
\* createInstanceAsync settles it; only if the instance is there after all does it
\* return as if all was well.  It may also find a creation settled as failed, whose
\* remains it removes, or no answer from Incus.
CreateFails ==
    /\ creator \in {"create", "made", "created"}
    /\ IF creator = "create" /\ power # "absent" THEN UNCHANGED uses ELSE Use
    /\ \/ SettleCreation /\ creator' = (IF instance' = "error" THEN "none" ELSE "written")
       \/ /\ instance \in {"running", "stopped"} /\ power # "absent"
          /\ creator' = "written" /\ UNCHANGED <<vars, power>>
       \/ /\ creator' = "none"
          /\ power' \in {power} \cup (IF instance = "error" THEN {"absent"} ELSE {})
          /\ UNCHANGED vars
    /\ UNCHANGED <<task, sync, agent, seen, job, route>>

\* The timeout worker settles a creation whose server died, or one that takes more
\* than ten minutes.
CreateTimesOut ==
    /\ SettleCreation
    /\ IF creator = "none" THEN UNCHANGED uses ELSE Use
    /\ UNCHANGED places

\* The creating route bills once createInstanceAsync has returned.  The retry route
\* does not, but the account of a failed creation is closed: activation is nothing.
CreateActivates ==
    /\ creator = "written"
    /\ Activate /\ creator' = "none"
    /\ UNCHANGED <<power, task, sync, agent, seen, job, route, uses>>

------------------------------------------------------------------------------
(* The tasks.  A task runs alone (module HostTasks). *)

\* A start, stop or restart request that the routes accept, and its claim.  A
\* suspended instance is stopped for the owner of its host only.
TaskRequest(k) ==
    /\ Use /\ task = "none"
    /\ instance \in {"creating", "error"} \cup
           CASE k = "start" -> {"stopped"}
             [] k = "stop" -> {"running", "suspended", "barred"}
             [] k = "restart" -> {"running", "stopped"}
    /\ task' = k
    /\ UNCHANGED <<vars, power, creator, sync, agent, seen, job, route>>

\* executeStartTask starts the instance; executeRestartTask restarts it.
TaskPowersOn ==
    /\ task \in {"start", "cycle"} /\ power # "absent"
    /\ power' = "on" /\ task' = "started"
    /\ UNCHANGED <<vars, creator, sync, agent, seen, job, route, uses>>

\* updateInstanceStatus(running), then activateHourlyBilling.
TaskWritesRunning ==
    /\ task = "started"
    /\ Write("running") /\ task' = "written"
    /\ UNCHANGED <<power, creator, sync, agent, seen, job, route, uses>>

TaskActivates ==
    /\ task = "written"
    /\ Activate /\ task' = "none"
    /\ UNCHANGED <<power, creator, sync, agent, seen, job, route, uses>>

\* executeStopTask: Incus first, then pauseHourlyBilling, then the status.
TaskPowersOff ==
    /\ task = "stop" /\ power # "absent"
    /\ power' = "off" /\ task' = "stopped"
    /\ UNCHANGED <<vars, creator, sync, agent, seen, job, route, uses>>

\* executeRestartTask pauses first.
TaskPauses ==
    /\ task \in {"stopped", "restart"}
    /\ Pause /\ task' = (IF task = "stopped" THEN "paused" ELSE "cycle")
    /\ UNCHANGED <<power, creator, sync, agent, seen, job, route, uses>>

TaskWritesStopped ==
    /\ task = "paused"
    /\ Write("stopped") /\ task' = "none"
    /\ UNCHANGED <<power, creator, sync, agent, seen, job, route, uses>>

\* Incus or the database fails the next step, or the execution lost its lease.
TaskFails ==
    /\ task # "none"
    /\ IF power = "absent" THEN UNCHANGED uses ELSE Use
    /\ task' = "none"
    /\ UNCHANGED <<vars, power, creator, sync, agent, seen, job, route>>

TaskStep ==
    \/ TaskPowersOn \/ TaskWritesRunning \/ TaskActivates
    \/ TaskPowersOff \/ TaskPauses \/ TaskWritesStopped

------------------------------------------------------------------------------
(* The synchroniser and the agent. *)

\* syncInstanceStatus finds the instance in another state than its row.
SyncSees ==
    /\ sync = "none"
    /\ \/ instance = "running" /\ power = "off" /\ sync' = "sawOff"
       \/ instance = "stopped" /\ power = "on" /\ sync' = "sawOn"
    /\ UNCHANGED <<vars, power, creator, task, agent, seen, job, route, uses>>

\* The update where the status is still the one read, then the billing.
SyncWrites ==
    /\ \/ /\ sync = "sawOff" /\ instance = "running"
          /\ WriteStatus("stopped") /\ sync' = "pause"
       \/ /\ sync = "sawOn" /\ instance = "stopped"
          /\ WriteStatus("running") /\ sync' = "activate"
       \/ /\ \/ sync = "sawOff" /\ instance # "running"
             \/ sync = "sawOn" /\ instance # "stopped"
          /\ sync' = "none" /\ UNCHANGED vars
    /\ UNCHANGED <<power, creator, task, agent, seen, job, route, uses>>

\* An instance that Incus does not know is marked deleted.
SyncNotFound ==
    /\ sync = "none" /\ power = "absent"
    /\ instance \in {"running", "stopped"} /\ WriteStatus("deleted")
    /\ sync' = "close"
    /\ UNCHANGED <<power, creator, task, agent, seen, job, route, uses>>

SyncBills ==
    /\ \/ sync = "pause" /\ Pause
       \/ sync = "activate" /\ Activate
       \/ sync = "close" /\ (CloseHourlyBilling \/ (account = "closed" /\ UNCHANGED vars))
    /\ sync' = "none"
    /\ UNCHANGED <<power, creator, task, agent, seen, job, route, uses>>

\* The agent takes its picture of the host; the report is on its way.
AgentSees ==
    /\ agent = "none" /\ power # "absent"
    /\ agent' = power
    /\ UNCHANGED <<vars, power, creator, task, sync, seen, job, route, uses>>

\* The server takes the report, with the instance as it is in the database.
AgentReads ==
    /\ agent \in {"on", "off"} /\ seen = "none"
    /\ IF instance \in {"running", "stopped", "error"}
       THEN seen' = instance /\ UNCHANGED agent
       ELSE agent' = "none" /\ UNCHANGED seen
    /\ UNCHANGED <<vars, power, creator, task, sync, job, route, uses>>

\* Mutant: only a report that changes the status reaches the billing.
AgentWritesChange ==
    /\ agent \in {"on", "off"} /\ seen # "none" /\ seen' = "none"
    /\ LET s == IF agent = "on" THEN "running" ELSE "stopped" IN
       IF instance = seen /\ s # seen
       THEN WriteStatus(s) /\ agent' = (IF agent = "on" THEN "activate" ELSE "pause")
       ELSE agent' = "none" /\ UNCHANGED vars
    /\ UNCHANGED <<power, creator, task, sync, job, route, uses>>

\* processOneAgentInstanceReport: the update where the status is still the one
\* read, even when it changes nothing.
AgentWrites ==
    /\ agent \in {"on", "off"} /\ seen # "none" /\ seen' = "none"
    /\ IF instance = seen
       THEN /\ Write(IF agent = "on" THEN "running" ELSE "stopped")
            /\ agent' = (IF agent = "on" THEN "activate" ELSE "pause")
       ELSE agent' = "none" /\ UNCHANGED vars
    /\ UNCHANGED <<power, creator, task, sync, job, route, uses>>

AgentBills ==
    /\ \/ agent = "pause" /\ Pause
       \/ agent = "activate" /\ Activate
    /\ agent' = "none"
    /\ UNCHANGED <<power, creator, task, sync, seen, job, route, uses>>

------------------------------------------------------------------------------
(* The five-minute job: a list is read, then each account on it is handled. *)

\* Mutant: only the accounts that are due.
JobListsDue ==
    /\ job = "none"
    /\ account = "active" /\ instance = "running" /\ job' = "due"
    /\ UNCHANGED <<vars, power, creator, task, sync, agent, seen, route, uses>>

JobLists ==
    /\ job = "none"
    /\ \/ account = "suspended" /\ instance = "suspended" /\ job' = "kill"
       \/ account = "active" /\ instance # "running" /\ job' = "stale"
       \/ account = "active" /\ instance = "running" /\ job' = "due"
    /\ UNCHANGED <<vars, power, creator, task, sync, agent, seen, route, uses>>

\* The physical stop of an unpaid instance; an error is logged and retried by
\* the next run.
JobStops ==
    /\ job = "kill"
    /\ power' = (IF power = "on" THEN "off" ELSE power) /\ job' = "none"
    /\ UNCHANGED <<vars, creator, task, sync, agent, seen, route, uses>>

JobPausesStale ==
    /\ job = "stale"
    /\ Pause /\ job' = "none"
    /\ UNCHANGED <<power, creator, task, sync, agent, seen, route, uses>>

\* settleHourlyInstance; an instance it leaves, or finds, suspended is stopped.
JobSettles ==
    /\ job = "due"
    /\ \/ SettleHourlyInstance \/ SettleStopped
       \/ account # "active" /\ UNCHANGED vars
    /\ job' = (IF account' = "suspended" THEN "kill" ELSE "none")
    /\ UNCHANGED <<power, creator, task, sync, agent, seen, route, uses>>

------------------------------------------------------------------------------
(* The routes. *)

\* The suspend route stops a running instance, and goes on if that fails.
SuspendRequest ==
    /\ Use /\ route = "none"
    /\ instance \notin {"none", "suspended", "barred", "deleted"}
    /\ \/ power' = power
       \/ instance = "running" /\ power = "on" /\ power' = "off"
    /\ route' = "pause"
    /\ UNCHANGED <<vars, creator, task, sync, agent, seen, job>>

SuspendPauses ==
    /\ route = "pause"
    /\ Pause /\ route' = "suspend"
    /\ UNCHANGED <<power, creator, task, sync, agent, seen, job, uses>>

SuspendWrites ==
    /\ route = "suspend"
    /\ Overwrite("barred")
    /\ route' = "none"
    /\ UNCHANGED <<power, creator, task, sync, agent, seen, job, uses>>

\* The unsuspend route: the owner has a debt to pay first, an administrator not.
UnsuspendRequest ==
    /\ Use /\ route = "none"
    /\ \/ instance = "suspended" /\ route' = "resume"
       \/ instance \in {"suspended", "barred"} /\ route' = "unsuspend"
    /\ UNCHANGED <<vars, power, creator, task, sync, agent, seen, job>>

\* resumeHourlyBilling; without a suspended account it does nothing, without
\* enough money the request ends.
UnsuspendPays ==
    /\ route = "resume"
    /\ \/ ResumeHourlyBilling /\ route' = "unsuspend"
       \/ account # "suspended" /\ UNCHANGED vars /\ route' = "unsuspend"
       \/ /\ account = "suspended"
          /\ balance[owner] < CeilToQuantum(outstanding + reserveQuantum)
          /\ UNCHANGED vars /\ route' = "none"
    /\ UNCHANGED <<power, creator, task, sync, agent, seen, job, uses>>

UnsuspendWrites ==
    /\ route = "unsuspend"
    /\ Overwrite("stopped") /\ route' = "none"
    /\ UNCHANGED <<power, creator, task, sync, agent, seen, job, uses>>

\* The sync-status route writes the state Incus gives over any status, and leaves
\* the billing alone.
SyncRequest ==
    /\ Use /\ route = "none" /\ power # "absent"
    /\ route' = (IF power = "on" THEN "sawOn" ELSE "sawOff")
    /\ UNCHANGED <<vars, power, creator, task, sync, agent, seen, job>>

SyncRequestWrites ==
    /\ \/ route = "sawOn" /\ Write("running")
       \/ route = "sawOff" /\ Write("stopped")
    /\ route' = "none"
    /\ UNCHANGED <<power, creator, task, sync, agent, seen, job, uses>>

------------------------------------------------------------------------------
(* The rest of the world. *)

\* The guest shuts down or the host fails; the instance starts by itself.
PowerChanges ==
    /\ Use /\ power # "absent"
    /\ power' = (IF power = "on" THEN "off" ELSE "on")
    /\ UNCHANGED <<vars, places>>

\* The server dies between two statements and is started again.
Crash ==
    /\ Use
    /\ creator' = "none" /\ task' = "none" /\ sync' = "none"
    /\ agent' = (IF agent = "absent" THEN "absent" ELSE "none")
    /\ seen' = "none" /\ job' = "none" /\ route' = "none"
    /\ UNCHANGED <<vars, power>>

\* The owner recharges, or time passes.
WalletOrTime ==
    /\ \/ \E n \in 1..MaxFunds : UseWallet(owner, n)
       \/ Tick
    /\ agent # "absent" => funds'[owner] <= AgentFunds /\ since' <= AgentTime
    /\ UNCHANGED <<power, places, uses>>

------------------------------------------------------------------------------

CreateStep == CreateMakes \/ CreatePowersOn \/ CreateWrites \/ CreateActivates

RouteStep ==
    \/ SuspendPauses \/ SuspendWrites
    \/ UnsuspendPays \/ UnsuspendWrites
    \/ SyncRequestWrites

SystemStep ==
    \/ CreateStep \/ CreateTimesOut \/ TaskStep
    \/ SyncSees \/ SyncWrites \/ SyncNotFound \/ SyncBills
    \/ AgentSees \/ AgentReads \/ AgentWrites \/ AgentBills
    \/ JobLists \/ JobStops \/ JobPausesStale \/ JobSettles
    \/ RouteStep

Environment ==
    \/ CreateRequest \/ RetryRequest \/ CreateFails
    \/ \E k \in {"start", "stop", "restart"} : TaskRequest(k)
    \/ TaskFails
    \/ SuspendRequest \/ UnsuspendRequest \/ SyncRequest
    \/ PowerChanges \/ Crash \/ WalletOrTime

PowerNext == SystemStep \/ Environment

PowerSpec == PowerInit /\ [][PowerNext]_allVars

\* A request that was begun is carried on; the timers of the synchroniser, the
\* agent and the job fire; Incus answers or times out.
Fairness ==
    /\ WF_allVars(CreateStep) /\ WF_allVars(CreateTimesOut) /\ WF_allVars(TaskStep)
    /\ WF_allVars(SyncSees \/ SyncNotFound) /\ WF_allVars(SyncWrites \/ SyncBills)
    /\ WF_allVars(AgentSees) /\ WF_allVars(AgentReads \/ AgentWrites \/ AgentBills)
    /\ WF_allVars(JobLists) /\ WF_allVars(JobStops \/ JobPausesStale \/ JobSettles)
    /\ WF_allVars(RouteStep)

FairSpec == PowerSpec /\ Fairness

------------------------------------------------------------------------------
(* Properties. *)

\* The callers respect the billing: their steps are steps of HourlyBilling.
BillingSpec == OwnedSpec

\* The meter runs although the instance does not, or an instance that runs and is known
\* to run is not billed although its account is open, on a host with an agent.
MeterWrong ==
    \/ account = "active" /\ power # "on"
    \/ agent # "absent" /\ power = "on" /\ instance = "running"
       /\ account \notin {"active", "closed"}

\* That does not last, nor does one alternate with the other for ever: the synchroniser,
\* the stale list of the job or a report of the agent puts it right, also after a crash
\* between the status and the billing.
MeterFollowsPower == MeterWrong ~> ~MeterWrong

\* An instance suspended for its debt is stopped in Incus, also when the server
\* dies between the settlement and the stop (runHourlyBillingJob retries).
UnpaidInstanceStopped ==
    (account = "suspended" /\ instance = "suspended" /\ power = "on")
        ~> (account # "suspended" \/ instance # "suspended" \/ power # "on")

\* zh-CN.ts:6424: charges follow the time the instance actually runs.
RunningTimeCharged ==
    (power = "on" /\ instance = "running")
        ~> (account = "active" \/ power # "on" \/ instance # "running")
==============================================================================
