--------------------------- MODULE HostTasksProofs ---------------------------
(***************************************************************************)
(* Proofs about HostTasks for any tasks, hosts, instances and processes.   *)
(* The safety properties follow from QueueInv, which adds to them what     *)
(* makes them inductive: what an open claim transaction has already        *)
(* checked stays true until its commit, because the host lock keeps other  *)
(* claims out and the instance lock keeps deletions out.                   *)
(***************************************************************************)
EXTENDS HostTasks, FiniteSetTheorems, TLAPS

------------------------------------------------------------------------------

\* The rank given to a new row is a natural number: there are finitely many rows.
LEMMA RankIsNat ==
    Cardinality({u \in Tasks : created[u] > 0}) \in Nat
<1>1. IsFiniteSet({u \in Tasks : created[u] > 0})
  BY FS_Subset, TasksAssumption
<1>2. QED
  BY <1>1, FS_CardinalityType

\* Every variable keeps its type (the columns of instance_tasks, the phases of
\* executeTask).
THEOREM TypeCorrect == Spec => []TypeOK
<1> USE TasksAssumption
<1>1. Init => TypeOK
  BY DEF Init, TypeOK
<1>2. TypeOK /\ [Next]_vars => TypeOK'
  <2> SUFFICES ASSUME TypeOK, [Next]_vars PROVE TypeOK'
    OBVIOUS
  <2> USE DEF TypeOK, row, inst, asks, claims, executor
  <2>1. ASSUME NEW t \in Tasks, RequestTask(t) PROVE TypeOK'
    BY <2>1 DEF RequestTask
  <2>2. ASSUME NEW t \in Tasks, CreateInstanceTask(t) PROVE TypeOK'
    BY <2>2, RankIsNat DEF CreateInstanceTask
  <2>3. ASSUME NEW t \in Tasks, CancelRead(t) \/ CancelWrite(t) PROVE TypeOK'
    BY <2>3 DEF CancelRead, CancelWrite
  <2>4. ASSUME NEW t \in Tasks, RecoverTask(t) PROVE TypeOK'
    BY <2>4 DEF RecoverTask
  <2>5. ASSUME NEW t \in Tasks, ExecutorStep(t) PROVE TypeOK'
    <3>1. CASE BeginExecution(t)
      BY <3>1 DEF BeginExecution, Goto
    <3>2. CASE AssertFails(t) \/ WorkFails(t) \/ WorkDone(t)
      BY <3>2 DEF AssertFails, WorkFails, WorkDone, Goto
    <3>3. CASE FinishExecution(t)
      BY <3>3 DEF FinishExecution, Goto
    <3>4. CASE QuarantineTask(t)
      <4>1. PICK q \in {orphaned[t], orphaned[t] \/ Owns(t)} :
                orphaned' = [orphaned EXCEPT ![t] = q]
        BY <3>4 DEF QuarantineTask
      <4>2. q \in BOOLEAN
        BY <4>1, Zenon DEF Owns
      <4>3. QED
        BY <3>4, <4>1, <4>2 DEF QuarantineTask, Goto
    <3>5. QED
      BY <2>5, <3>1, <3>2, <3>3, <3>4 DEF ExecutorStep
  <2>6. ASSUME NEW t \in Tasks, HeartbeatSend(t) \/ HeartbeatLand(t) \/ HeartbeatFails(t)
        PROVE TypeOK'
    BY <2>6 DEF HeartbeatSend, HeartbeatLand, HeartbeatFails, Goto
  <2>7. ASSUME NEW t \in Tasks, LeaseExpires(t) PROVE TypeOK'
    BY <2>7 DEF LeaseExpires
  <2>8. ASSUME NEW i \in Instances,
               DestroyCheck(i) \/ DestroyCommit(i) \/ DestroyEnd(i) \/ SyncNotFound(i)
        PROVE TypeOK'
    BY <2>8 DEF DestroyCheck, DestroyCommit, DestroyEnd, SyncNotFound
  <2>9. ASSUME NEW w \in Workers, NEW t \in Tasks, ClaimLightTask(w, t) PROVE TypeOK'
    BY <2>9 DEF ClaimLightTask, OpenClaim
  <2>10. ASSUME NEW w \in Workers, NEW h \in Hosts, ClaimNextTask(w, h) PROVE TypeOK'
    BY <2>10 DEF ClaimNextTask, OpenClaim, Pending
  <2>11. ASSUME NEW h \in Hosts, ClaimCommit(h) PROVE TypeOK'
    BY <2>11 DEF ClaimCommit
  <2>12. ASSUME NEW h \in Hosts, ClaimAbort(h) PROVE TypeOK'
    BY <2>12 DEF ClaimAbort
  <2>13. ASSUME NEW w \in Workers, CleanupTimeoutTasks(w) \/ Crash(w) \/ Restart(w)
         PROVE TypeOK'
    <3>1. Quarantined \in [Tasks -> BOOLEAN]
      BY Zenon DEF Quarantined
    <3>2. CASE CleanupTimeoutTasks(w)
      BY <3>1, <3>2 DEF CleanupTimeoutTasks
    <3>3. CASE Crash(w)
      BY <3>3 DEF Crash
    <3>4. CASE Restart(w)
      BY <3>1, <3>4 DEF Restart
    <3>5. QED
      BY <2>13, <3>2, <3>3, <3>4
  <2>14. CASE UNCHANGED vars
    BY <2>14 DEF vars
  <2>15. QED
    BY <2>1, <2>2, <2>3, <2>4, <2>5, <2>6, <2>7, <2>8, <2>9, <2>10, <2>11,
       <2>12, <2>13, <2>14 DEF Next
<1>3. QED
  BY <1>1, <1>2, PTL DEF Spec

\* The parts of QueueInv that steps can disturb.
QueueSteps ==
    UnclaimedRows /\ ClaimedRows /\ OpenClaims /\ Deletions /\ RowsCompatible
        /\ ExecutorOwnsRow

\* QueueInv is inductive: the host lock is held from the counts to the commit of
\* a claim, the instance lock keeps deletions out, and an executor is the only
\* one besides cancel and administrator to take its row out of PROCESSING.
LEMMA QueueStep ==
    ASSUME TypeOK, QueueSteps, [Next]_vars
    PROVE  QueueSteps'
<1> USE TasksAssumption DEF TypeOK, row, inst, asks, claims, executor
<1> USE DEF QueueSteps, UnclaimedRows, ClaimedRows, OpenClaims, Deletions,
            RowsCompatible, ExecutorOwnsRow, Executing, Owns, Overtaken
<1>1. ASSUME NEW t \in Tasks, RequestTask(t) PROVE QueueSteps'
  BY <1>1 DEF RequestTask, Active, IdleInstance
<1>2. ASSUME NEW t \in Tasks, CreateInstanceTask(t) PROVE QueueSteps'
  BY <1>2 DEF CreateInstanceTask, Active, UniqueActive
<1>3. ASSUME NEW t \in Tasks, CancelRead(t) PROVE QueueSteps'
  BY <1>3 DEF CancelRead
<1>4. ASSUME NEW t \in Tasks, CancelWrite(t) PROVE QueueSteps'
  BY <1>4 DEF CancelWrite
<1>5. ASSUME NEW t \in Tasks, RecoverTask(t) PROVE QueueSteps'
  BY <1>5 DEF RecoverTask, Recoverable
<1>6. ASSUME NEW t \in Tasks, BeginExecution(t) PROVE QueueSteps'
  BY <1>6 DEF BeginExecution, Goto
<1>7. ASSUME NEW t \in Tasks, AssertFails(t) PROVE QueueSteps'
  BY <1>7 DEF AssertFails, Goto
<1>8. ASSUME NEW t \in Tasks, WorkFails(t) PROVE QueueSteps'
  BY <1>8 DEF WorkFails, Goto
<1>9. ASSUME NEW t \in Tasks, WorkDone(t) PROVE QueueSteps'
  BY <1>9 DEF WorkDone, Goto
<1>10. ASSUME NEW t \in Tasks, FinishExecution(t) PROVE QueueSteps'
  <2>1. /\ exec[t] # "none" /\ \E pc \in {"none", "fail"} : exec' = [exec EXCEPT ![t] = pc]
        /\ \/ UNCHANGED <<status, token>>
           \/ /\ status[t] = "PROCESSING" /\ token[t] # NoWorker
              /\ \E s \in {"COMPLETED", "FAILED"} : status' = [status EXCEPT ![t] = s]
              /\ token' = [token EXCEPT ![t] = NoWorker]
              /\ exec' = [exec EXCEPT ![t] = "none"]
        /\ UNCHANGED <<inst, asks, claims, runner>>
    BY <1>10 DEF FinishExecution, Goto
  <2>2. UnclaimedRows' /\ ClaimedRows'
    BY <2>1
  <2>3. OpenClaims'
    BY <2>1
  <2>4. Deletions' /\ RowsCompatible'
    BY <2>1
  <2>5. ExecutorOwnsRow'
    BY <2>1
  <2>6. QED
    BY <2>2, <2>3, <2>4, <2>5
<1>11. ASSUME NEW t \in Tasks, QuarantineTask(t) PROVE QueueSteps'
  BY <1>11 DEF QuarantineTask, Goto
<1>12. ASSUME NEW t \in Tasks, HeartbeatSend(t) PROVE QueueSteps'
  BY <1>12 DEF HeartbeatSend
<1>13. ASSUME NEW t \in Tasks, HeartbeatLand(t) PROVE QueueSteps'
  BY <1>13 DEF HeartbeatLand, Goto
<1>14. ASSUME NEW t \in Tasks, HeartbeatFails(t) PROVE QueueSteps'
  BY <1>14 DEF HeartbeatFails, Goto
<1>15. ASSUME NEW t \in Tasks, LeaseExpires(t) PROVE QueueSteps'
  BY <1>15 DEF LeaseExpires
<1>16. ASSUME NEW i \in Instances, DestroyCheck(i) PROVE QueueSteps'
  BY <1>16 DEF DestroyCheck, Unlocked, IdleInstance, Active
<1>17. ASSUME NEW i \in Instances, DestroyCommit(i) PROVE QueueSteps'
  BY <1>17 DEF DestroyCommit
<1>18. ASSUME NEW i \in Instances, DestroyEnd(i) PROVE QueueSteps'
  BY <1>18 DEF DestroyEnd
<1>19. ASSUME NEW i \in Instances, SyncNotFound(i) PROVE QueueSteps'
  BY <1>19 DEF SyncNotFound
<1>20. ASSUME NEW w \in Workers, NEW t \in Tasks, ClaimLightTask(w, t) PROVE QueueSteps'
  BY <1>20 DEF ClaimLightTask, LightTasks, OpenClaim, Unlocked, Processing
<1>21. ASSUME NEW w \in Workers, NEW h \in Hosts, ClaimNextTask(w, h) PROVE QueueSteps'
  BY <1>21 DEF ClaimNextTask, OpenClaim, Unlocked, Processing, Pending
<1>22. ASSUME NEW h \in Hosts, ClaimCommit(h) PROVE QueueSteps'
  BY <1>22 DEF ClaimCommit, UniqueActive, Active
<1>23. ASSUME NEW h \in Hosts, ClaimAbort(h) PROVE QueueSteps'
  BY <1>23 DEF ClaimAbort
<1>24. ASSUME NEW w \in Workers, CleanupTimeoutTasks(w) PROVE QueueSteps'
  BY <1>24 DEF CleanupTimeoutTasks
<1>25. ASSUME NEW w \in Workers, Crash(w) PROVE QueueSteps'
  BY <1>25 DEF Crash
<1>26. ASSUME NEW w \in Workers, Restart(w) PROVE QueueSteps'
  BY <1>26 DEF Restart
<1>27. CASE UNCHANGED vars
  BY <1>27 DEF vars
<1>28. QED
  BY <1>1, <1>2, <1>3, <1>4, <1>5, <1>6, <1>7, <1>8, <1>9, <1>10, <1>11, <1>12, <1>13, <1>14, <1>15, <1>16, <1>17, <1>18, <1>19, <1>20, <1>21, <1>22, <1>23, <1>24, <1>25, <1>26, <1>27 DEF Next, ExecutorStep

\* QueueInv holds in every reachable state.
THEOREM QueueInvariant == Spec => []QueueInv
<1>1. Init => QueueSteps
  BY TasksAssumption DEF Init, QueueSteps, UnclaimedRows, ClaimedRows, OpenClaims,
     Deletions, RowsCompatible, ExecutorOwnsRow, Executing
<1>2. TypeOK /\ QueueSteps /\ [Next]_vars => QueueSteps'
  BY QueueStep
<1>3. TypeOK /\ QueueSteps => QueueInv
  BY DEF QueueInv, QueueSteps
<1>4. QED
  BY <1>1, <1>2, <1>3, TypeCorrect, PTL DEF Spec

------------------------------------------------------------------------------

\* RowsCompatible says of the rows what HostExclusive says of the slots.
LEMMA CompatibleRows == RowsCompatible <=> HostExclusive
<1>1. RowsCompatible => HostExclusive
  BY DEF RowsCompatible, HostExclusive, Slots!SlotsCompatible, Slots!Compatible
<1>2. HostExclusive => RowsCompatible
  BY DEF RowsCompatible, HostExclusive, Slots!SlotsCompatible, Slots!Compatible
<1>3. QED
  BY <1>1, <1>2

\* claimLightTask and claimNextTask keep a heavy task alone on its host, and an
\* instance in one PROCESSING row.
THEOREM HostExclusion == Spec => []HostExclusive
<1>1. QueueInv => HostExclusive
  BY CompatibleRows DEF QueueInv
<1>2. QED
  BY <1>1, QueueInvariant, PTL

\* An executor owns the row it works on, or a cancel that read the row before its claim
\* has failed it: leases, crashes, quarantine and recovery do not take it away.
THEOREM ExecutorsOwnRows == Spec => []ExecutorOwnsRow
<1>1. QueueInv => ExecutorOwnsRow
  BY DEF QueueInv
<1>2. QED
  BY <1>1, QueueInvariant, PTL

\* So executions overlap on a host or an instance only after such a cancel.
THEOREM ExecutionExclusion == Spec => []ExecutionExclusive
<1>1. RowsCompatible /\ ExecutorOwnsRow => ExecutionExclusive
  BY DEF RowsCompatible, ExecutorOwnsRow, ExecutionExclusive, Owns, Slots!Compatible
<1>2. QueueInv => ExecutionExclusive
  BY <1>1 DEF QueueInv
<1>3. QED
  BY <1>2, QueueInvariant, PTL

\* A deletion that passed claimInstanceForDelete finds no execution on its
\* instance, except one that such a cancel has overtaken.
THEOREM DeletionExclusion == Spec => []DestroyedUntouched
<1>1. QueueInv => DestroyedUntouched
  BY TasksAssumption
  DEF QueueInv, Deletions, ExecutorOwnsRow, DestroyedUntouched, Owns
<1>2. QED
  BY <1>1, QueueInvariant, PTL

\* The claim protocol implements the readers-writer slots of HostSlots: every
\* step acquires one slot, releases one, or leaves the slots alone.
THEOREM SlotsImplemented == Spec => SlotsSpec
<1> DEFINE held == {t \in Tasks : status[t] = "PROCESSING"}
<1>1. Init => held = {}
  BY DEF Init
<1>2. TypeOK /\ QueueSteps /\ QueueSteps' /\ [Next]_vars => [Slots!Next]_held
  <2> SUFFICES ASSUME TypeOK, QueueSteps, QueueSteps', [Next]_vars
               PROVE  [Slots!Next]_held
    OBVIOUS
  <2> USE TasksAssumption DEF TypeOK, row, inst, asks, claims, executor
  <2>1. ASSUME NEW t \in Tasks, CreateInstanceTask(t) PROVE held' = held
    BY <2>1 DEF CreateInstanceTask, QueueSteps, UnclaimedRows
  <2>2. ASSUME NEW t \in Tasks, CancelWrite(t) \/ RecoverTask(t) \/ FinishExecution(t)
        PROVE held' = held \/ (t \in held /\ held' = held \ {t})
    BY <2>2 DEF CancelWrite, RecoverTask, FinishExecution
  <2>3. ASSUME NEW h \in Hosts, ClaimCommit(h)
        PROVE LET t == claiming[h] IN
              /\ t \in Tasks \ held /\ held' = held \cup {t}
              /\ \A u \in held : Slots!Compatible(t, u)
    <3>1. claiming[h] \in Tasks \ held
      BY <2>3 DEF ClaimCommit, QueueSteps, OpenClaims
    <3>2. held' = held \cup {claiming[h]}
      BY <2>3, <3>1 DEF ClaimCommit
    <3>3. ASSUME NEW u \in held PROVE Slots!Compatible(claiming[h], u)
      BY <2>3, <3>1, <3>2, <3>3
      DEF Slots!Compatible, ClaimCommit, UniqueActive, Active, QueueSteps, OpenClaims
    <3>4. QED
      BY <3>1, <3>2, <3>3
  <2>4. ASSUME UNCHANGED status PROVE held' = held
    BY <2>4
  <2>5. ASSUME NEW t \in Tasks, held' = held \/ (t \in held /\ held' = held \ {t})
        PROVE [Slots!Next]_held
    BY <2>5 DEF Slots!Next, Slots!Release
  <2>6. ASSUME NEW h \in Hosts, ClaimCommit(h) PROVE [Slots!Next]_held
    BY <2>3, <2>6 DEF Slots!Next, Slots!Acquire
  <2>7. CASE \E t \in Tasks : CreateInstanceTask(t) \/ CancelWrite(t)
                              \/ RecoverTask(t) \/ FinishExecution(t)
    BY <2>1, <2>2, <2>5, <2>7
  <2>8. CASE \E h \in Hosts : ClaimCommit(h)
    BY <2>6, <2>8
  <2>9. CASE UNCHANGED status
    BY <2>4, <2>9
  <2>10. QED
    BY <2>7, <2>8, <2>9
    DEF Next, ExecutorStep, vars, RequestTask, CancelRead, DestroyCheck,
        DestroyCommit, DestroyEnd, SyncNotFound, ClaimLightTask, ClaimNextTask,
        OpenClaim, ClaimAbort, BeginExecution, AssertFails, WorkFails, WorkDone,
        QuarantineTask, HeartbeatSend, HeartbeatLand, HeartbeatFails,
        LeaseExpires, CleanupTimeoutTasks, Crash, Restart
<1>3. QueueInv => TypeOK /\ QueueSteps
  BY DEF QueueInv, QueueSteps
<1>4. QED
  BY <1>1, <1>2, <1>3, QueueInvariant, PTL DEF Spec, SlotsSpec, Slots!Spec, Slots!Init

\* A task is claimed once: neither a cancel nor a recovery that fails the row
\* while its claim commits makes it run a second time.
THEOREM SingleExecution == Spec => ExecutedOnce
<1>1. TypeOK /\ QueueSteps /\ [Next]_vars =>
          [\A t \in Tasks : runner[t] # NoWorker =>
               runner'[t] = runner[t] /\ (exec'[t] = "ready" => exec[t] = "ready")]_vars
  <2> SUFFICES ASSUME TypeOK, QueueSteps, [Next]_vars,
                      NEW t \in Tasks, runner[t] # NoWorker
               PROVE  runner'[t] = runner[t] /\ (exec'[t] = "ready" => exec[t] = "ready")
    OBVIOUS
  <2> USE DEF TypeOK
  <2>1. ASSUME NEW h \in Hosts, ClaimCommit(h)
        PROVE  runner'[t] = runner[t] /\ (exec'[t] = "ready" => exec[t] = "ready")
    BY <2>1 DEF ClaimCommit, QueueSteps, OpenClaims
  <2>2. ASSUME NEW u \in Tasks, ExecutorStep(u) \/ HeartbeatLand(u) \/ HeartbeatFails(u)
        PROVE  runner' = runner /\ (exec'[t] = "ready" => exec[t] = "ready")
    BY <2>2 DEF ExecutorStep, BeginExecution, AssertFails, WorkFails, WorkDone,
       FinishExecution, QuarantineTask, HeartbeatLand, HeartbeatFails, Goto
  <2>3. ASSUME NEW w \in Workers, Crash(w)
        PROVE  runner' = runner /\ (exec'[t] = "ready" => exec[t] = "ready")
    BY <2>3 DEF Crash
  <2>4. CASE UNCHANGED <<exec, runner>>
    BY <2>4
  <2>5. QED
    BY <2>1, <2>2, <2>3, <2>4
    DEF Next, vars, row, inst, asks, claims, executor, RequestTask,
        CreateInstanceTask, CancelRead, CancelWrite, RecoverTask, DestroyCheck,
        DestroyCommit, DestroyEnd, SyncNotFound, ClaimLightTask, ClaimNextTask,
        OpenClaim, ClaimAbort, HeartbeatSend, LeaseExpires, CleanupTimeoutTasks,
        Restart
<1>2. QueueInv => TypeOK /\ QueueSteps
  BY DEF QueueInv, QueueSteps
<1>3. QED
  BY <1>1, <1>2, QueueInvariant, PTL DEF Spec, ExecutedOnce
------------------------------------------------------------------------------
(* Every claim has an end: what ClaimedTaskSettles rests on in each state. *)

\* A row has a lease exactly as long as it has a token, so a claimed one ends; a claim
\* transaction and an execution belong to a process that is up.
ClaimsAccounted ==
    /\ \A t \in Tasks : lease[t] # "none" <=> token[t] # NoWorker
    /\ \A t \in Tasks : Executing(t) => runner[t] \in Workers /\ up[runner[t]]
    /\ \A h \in Hosts : claiming[h] # NoTask => claimer[h] \in Workers /\ up[claimer[h]]

\* Claim, renewal, finish, recovery and crash keep it: token and lease are written
\* together, and a process takes its executions and its claims with it.
LEMMA AccountedStep ==
    ASSUME TypeOK, ClaimedRows, ClaimsAccounted, [Next]_vars
    PROVE  ClaimsAccounted'
<1> USE TasksAssumption DEF TypeOK, ClaimsAccounted, Executing, row, inst, asks, claims, executor
<1>1. ASSUME NEW h \in Hosts, ClaimCommit(h) PROVE ClaimsAccounted'
  BY <1>1 DEF ClaimCommit
<1>2. ASSUME NEW h \in Hosts, ClaimAbort(h) PROVE ClaimsAccounted'
  BY <1>2 DEF ClaimAbort
<1>3. ASSUME NEW t \in Tasks, FinishExecution(t) PROVE ClaimsAccounted'
  <2>1. /\ exec[t] # "none" /\ exec' \in [Tasks -> {"none", "ready", "work", "lost", "finish", "fail", "quarantine"}]
        /\ \A u \in Tasks : u # t => exec'[u] = exec[u]
        /\ \/ UNCHANGED <<token, lease>>
           \/ /\ token' = [token EXCEPT ![t] = NoWorker]
              /\ lease' = [lease EXCEPT ![t] = "none"]
        /\ UNCHANGED <<claims, runner, up>>
    BY <1>3 DEF FinishExecution, Goto
  <2> QED
    BY <2>1
<1>4. ASSUME NEW t \in Tasks,
             \/ BeginExecution(t) \/ AssertFails(t) \/ WorkFails(t) \/ WorkDone(t)
             \/ QuarantineTask(t) \/ HeartbeatFails(t)
      PROVE  ClaimsAccounted'
  BY <1>4 DEF BeginExecution, AssertFails, WorkFails, WorkDone, QuarantineTask, HeartbeatFails, Goto
<1>5. ASSUME NEW t \in Tasks, HeartbeatLand(t) PROVE ClaimsAccounted'
  <2>1. CASE Owns(t)
    <3>1. lease[t] # "none"
      BY <2>1 DEF Owns, ClaimedRows
    <3>2. PICK l \in {"live", lease[t]} : lease' = [lease EXCEPT ![t] = l]
      BY <1>5, <2>1 DEF HeartbeatLand
    <3>3. UNCHANGED <<token, exec, runner, claiming, claimer, up>>
      BY <1>5, <2>1 DEF HeartbeatLand
    <3>4. l # "none"
      BY <3>1, <3>2
    <3> QED
      BY <3>1, <3>2, <3>3, <3>4
  <2>2. CASE ~Owns(t)
    BY <1>5, <2>2 DEF HeartbeatLand, Goto
  <2> QED
    BY <2>1, <2>2
<1>6. ASSUME NEW t \in Tasks, HeartbeatSend(t) \/ LeaseExpires(t) \/ RecoverTask(t)
      PROVE  ClaimsAccounted'
  BY <1>6 DEF HeartbeatSend, LeaseExpires, RecoverTask
<1>7. ASSUME NEW t \in Tasks,
             RequestTask(t) \/ CreateInstanceTask(t) \/ CancelRead(t) \/ CancelWrite(t)
      PROVE  ClaimsAccounted'
  BY <1>7 DEF RequestTask, CreateInstanceTask, CancelRead, CancelWrite
<1>8. ASSUME NEW i \in Instances,
             DestroyCheck(i) \/ DestroyCommit(i) \/ DestroyEnd(i) \/ SyncNotFound(i)
      PROVE  ClaimsAccounted'
  BY <1>8 DEF DestroyCheck, DestroyCommit, DestroyEnd, SyncNotFound
<1>9. ASSUME NEW w \in Workers, NEW t \in Tasks, ClaimLightTask(w, t) PROVE ClaimsAccounted'
  BY <1>9 DEF ClaimLightTask, OpenClaim
<1>10. ASSUME NEW w \in Workers, NEW h \in Hosts, ClaimNextTask(w, h) PROVE ClaimsAccounted'
  BY <1>10 DEF ClaimNextTask, OpenClaim
<1>11. ASSUME NEW w \in Workers, CleanupTimeoutTasks(w) \/ Crash(w) \/ Restart(w)
       PROVE  ClaimsAccounted'
  BY <1>11 DEF CleanupTimeoutTasks, Crash, Restart
<1>12. CASE UNCHANGED vars
  BY <1>12 DEF vars
<1> QED
  BY <1>1, <1>2, <1>3, <1>4, <1>5, <1>6, <1>7, <1>8, <1>9, <1>10, <1>11, <1>12
     DEF Next, ExecutorStep

\* However processes die and renewals come late, a PROCESSING row is either worked on by
\* a process that is up, or nobody's, with a lease that runs out: the clean-up will see
\* it (executeTask, cleanupTimeoutTasks).  No state leaves it to a dead executor.
THEOREM ClaimsEndable ==
    Spec => [](/\ ClaimsAccounted
               /\ \A t \in Tasks : status[t] = "PROCESSING" => lease[t] # "none")
<1>1. Init => ClaimsAccounted
  BY DEF Init, ClaimsAccounted, Executing
<1>2. QueueInv /\ ClaimsAccounted =>
        \A t \in Tasks : status[t] = "PROCESSING" => lease[t] # "none"
  BY DEF QueueInv, ClaimedRows, ClaimsAccounted
<1>3. QueueInv /\ ClaimsAccounted /\ [Next]_vars => ClaimsAccounted'
  BY AccountedStep DEF QueueInv
<1> QED
  BY <1>1, <1>2, <1>3, QueueInvariant, PTL DEF Spec
==============================================================================
