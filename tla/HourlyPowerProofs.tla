-------------------------- MODULE HourlyPowerProofs --------------------------
(* The callers of HourlyPower implement HourlyBilling, so that what is proved   *)
(* of the billing transactions in any order holds for them.                     *)
EXTENDS HourlyPower, HourlyBillingProofs

\* Every transaction of the billing leaves the owner alone.
LEMMA BillingKeepsOwner == Billing => UNCHANGED owner
BY DEF Billing, CreateInstance, FailCreatingInstance, SettleHourlyInstance, SettleStopped,
   ActivateRefused, ActivateHourlyBilling, ResumeHourlyBilling, PauseHourlyBilling,
   CloseHourlyBilling, Post

\* What the callers do to the rows is a step of HourlyBilling, or nothing.
LEMMA CallerSteps ==
    /\ Activate => [Next /\ UNCHANGED owner]_vars
    /\ Pause => [Next /\ UNCHANGED owner]_vars
    /\ \A s \in {"creating", "running", "stopped", "barred", "deleted"} :
           (WriteStatus(s) \/ Write(s) \/ Overwrite(s)) => [Next /\ UNCHANGED owner]_vars
    /\ Billing => [Next /\ UNCHANGED owner]_vars
<1>1. Billing => Next /\ UNCHANGED owner
  BY BillingKeepsOwner DEF Next
<1>2. Activate => [Next /\ UNCHANGED owner]_vars
  BY <1>1 DEF Activate, Billing
<1>3. Pause => [Next /\ UNCHANGED owner]_vars
  BY <1>1 DEF Pause, Billing
<1>4. ASSUME NEW s \in {"creating", "running", "stopped", "barred", "deleted"}, WriteStatus(s)
      PROVE  Next /\ UNCHANGED owner
  <2>1. UNCHANGED owner
    BY <1>4 DEF WriteStatus
  <2> QED
    BY <1>4, <2>1 DEF Next
<1> QED
  BY <1>1, <1>2, <1>3, <1>4 DEF Write, Overwrite

\* Every step of the composition is a step of HourlyBilling, or changes none of
\* its variables.
LEMMA PowerStep ==
    AccountInv /\ [PowerNext]_allVars => [Next /\ UNCHANGED owner]_vars
<1> SUFFICES ASSUME AccountInv, [PowerNext]_allVars
             PROVE  [Next /\ UNCHANGED owner]_vars
  OBVIOUS
<1>1. CASE TaskStep
  BY <1>1, CallerSteps DEF TaskStep, TaskPowersOn, TaskWritesRunning, TaskActivates,
     TaskPowersOff, TaskPauses, TaskWritesStopped
<1>2. CASE SyncSees \/ SyncWrites \/ SyncNotFound \/ SyncBills
  BY <1>2, CallerSteps DEF SyncSees, SyncWrites, SyncNotFound, SyncBills, Billing
<1>3. CASE AgentSees \/ AgentReads \/ AgentWrites \/ AgentBills
  BY <1>3, CallerSteps DEF AgentSees, AgentReads, AgentWrites, AgentBills
<1>4. CASE JobLists \/ JobStops \/ JobPausesStale \/ JobSettles
  BY <1>4, CallerSteps DEF JobLists, JobStops, JobPausesStale, JobSettles, Billing
<1>5. CASE RouteStep
  BY <1>5, CallerSteps DEF RouteStep, SuspendPauses, SuspendWrites, UnsuspendPays,
     UnsuspendWrites, SyncRequestWrites, Billing
<1>6. CASE CreateStep \/ CreateTimesOut \/ CreateRequest \/ RetryRequest \/ CreateFails
  BY <1>6, CallerSteps DEF CreateStep, CreateMakes, CreatePowersOn, CreateWrites, CreateActivates,
     CreateTimesOut, SettleCreation, CreateRequest, RetryRequest, CreateFails, Billing
<1>7. CASE \/ \E k \in {"start", "stop", "restart"} : TaskRequest(k)
           \/ TaskFails \/ SuspendRequest \/ UnsuspendRequest \/ SyncRequest
           \/ PowerChanges \/ Crash
  BY <1>7 DEF TaskRequest, TaskFails, SuspendRequest, UnsuspendRequest, SyncRequest,
     PowerChanges, Crash
<1>8. CASE WalletOrTime
  <2>1. CASE Tick
    BY <2>1 DEF Next, Tick
  <2>2. CASE \E n \in 1..MaxFunds : UseWallet(owner, n)
    <3>1. PICK n \in 1..MaxFunds : UseWallet(owner, n)
      BY <2>2
    <3>2. n \in (0 - MaxFunds)..MaxFunds /\ owner \in Users
      BY BillingAssumption DEF AccountInv, TypeOK
    <3>3. UNCHANGED owner
      BY <3>1 DEF UseWallet
    <3> QED
      BY <3>1, <3>2, <3>3 DEF Next
  <2> QED
    BY <1>8, <2>1, <2>2 DEF WalletOrTime
<1>9. CASE UNCHANGED allVars
  BY <1>9 DEF allVars
<1> QED
  BY <1>1, <1>2, <1>3, <1>4, <1>5, <1>6, <1>7, <1>8, <1>9
     DEF PowerNext, SystemStep, Environment

\* The creator, the executor, the synchroniser, the agent, the job and the routes
\* implement the billing of one owner.
THEOREM CallersImplementBilling == PowerSpec => BillingSpec
<1>1. PowerInit => Init /\ AccountInv
  BY AccountInit DEF PowerInit
<1>2. AccountInv /\ [PowerNext]_allVars => AccountInv'
  BY PowerStep, AccountStep
<1> QED
  BY <1>1, <1>2, PowerStep, PTL DEF PowerSpec, BillingSpec, OwnedSpec

\* So whatever these callers do, in whatever order and with whatever crashes, the
\* owner's wallet adds up.
THEOREM PowerWallet == PowerSpec => []WalletBacked
BY CallersImplementBilling, WalletInvariant, PTL DEF BillingSpec

\* Nor do the callers, in whatever order they come, upset the account: it has no debt
\* while it is active, its books balance, it freezes less than two quanta, and once it is
\* closed none of them, however late, bills it again.
THEOREM PowerAccount == PowerSpec => []AccountInv /\ []PrepaymentBounded /\ ClosedForGood
<1>1. OwnedSpec => Spec
  <2>1. [Next /\ UNCHANGED owner]_vars => [Next]_vars
    OBVIOUS
  <2> QED
    BY <2>1, PTL DEF OwnedSpec, Spec
<1> QED
  BY <1>1, CallersImplementBilling, AccountInvariant, ReservesBounded, ClosedStaysClosed, PTL
     DEF BillingSpec

\* Every caller keeps to its places, and the environment to its bound.
THEOREM PlacesCorrect == PowerSpec => []PlacesOK
<1>1. PowerInit => PlacesOK
  BY PowerAssumption DEF PowerInit, PlacesOK
<1>2. PlacesOK /\ [PowerNext]_allVars => PlacesOK'
  <2> SUFFICES ASSUME PlacesOK, [PowerNext]_allVars PROVE PlacesOK'
    OBVIOUS
  <2> USE PowerAssumption DEF PlacesOK, places
  <2>1. Use => uses' \in 0..MaxUses
    BY DEF Use
  <2>2. CASE TaskStep \/ TaskFails \/ \E k \in {"start", "stop", "restart"} : TaskRequest(k)
    BY <2>1, <2>2 DEF TaskStep, TaskPowersOn, TaskWritesRunning, TaskActivates,
       TaskPowersOff, TaskPauses, TaskWritesStopped, TaskFails, TaskRequest
  <2>3. CASE SyncSees \/ SyncWrites \/ SyncNotFound \/ SyncBills
    BY <2>3 DEF SyncSees, SyncWrites, SyncNotFound, SyncBills
  <2>4. CASE AgentSees \/ AgentReads \/ AgentWrites \/ AgentBills
    BY <2>4 DEF AgentSees, AgentReads, AgentWrites, AgentBills
  <2>5. CASE JobLists \/ JobStops \/ JobPausesStale \/ JobSettles
    BY <2>5 DEF JobLists, JobStops, JobPausesStale, JobSettles
  <2>6. CASE RouteStep \/ SuspendRequest \/ UnsuspendRequest \/ SyncRequest
    BY <2>1, <2>6 DEF RouteStep, SuspendPauses, SuspendWrites, UnsuspendPays,
       UnsuspendWrites, SyncRequestWrites, SuspendRequest, UnsuspendRequest, SyncRequest
  <2>7. CASE CreateStep \/ CreateTimesOut \/ CreateRequest \/ RetryRequest \/ CreateFails
    <3>1. SettleCreation => UNCHANGED power
      BY DEF SettleCreation
    <3>2. CASE CreateStep
      BY <3>2 DEF CreateStep, CreateMakes, CreatePowersOn, CreateWrites, CreateActivates
    <3>3. CASE CreateTimesOut \/ CreateRequest \/ RetryRequest
      BY <2>1, <3>1, <3>3 DEF CreateTimesOut, CreateRequest, RetryRequest
    <3>4. CASE CreateFails
      BY <2>1, <3>1, <3>4 DEF CreateFails
    <3> QED
      BY <2>7, <3>2, <3>3, <3>4
  <2>8. CASE PowerChanges \/ Crash \/ WalletOrTime
    BY <2>1, <2>8 DEF PowerChanges, Crash, WalletOrTime
  <2>9. CASE UNCHANGED allVars
    BY <2>9 DEF allVars
  <2> QED
    BY <2>2, <2>3, <2>4, <2>5, <2>6, <2>7, <2>8, <2>9 DEF PowerNext, SystemStep, Environment
<1> QED
  BY <1>1, <1>2, PTL DEF PowerSpec
==============================================================================
