----------------------------- MODULE MCHostTasks -----------------------------
(***************************************************************************)
(* Instances of HostTasks for TLC: who works on what, for the task and     *)
(* instance names of the configurations.                                   *)
(***************************************************************************)
EXTENDS HostTasks, TLC

CONSTANTS t1, t2, t3, i1, i2, i3, h1, w1

\* Every task is about an instance of its own.
OwnInstance == 
    [t \in Tasks |-> CASE t = t1 -> i1 [] t = t2 -> i2 [] OTHER -> i3]
\* All tasks are queued on one host.
OneHost == [t \in Tasks |-> h1]

\* Three tasks: t1 and t2 share the host h1, t1 and t3 the instance i1.
SharedInstance == [t \in Tasks |-> IF t = t2 THEN i2 ELSE i1]
SharedHost == [t \in Tasks |-> IF t = t3 THEN CHOOSE h \in Hosts : h # h1 ELSE h1]
Requested(t) == status[t] # "absent" \/ t \in requests
\* t2 and its instance do not occur.
OneInstance == ~Requested(t2) /\ instance[i2] = "present" /\ destroy[i2] = "idle"
\* t3 does not occur, only the server w1 claims, and the others stay up.
OneServer ==
    /\ ~Requested(t3)
    /\ \A h \in Hosts : claimer[h] \in {w1, NoWorker}
    /\ \A w \in Workers \ {w1} : up[w]
\* Either two tasks of one instance and two servers, or two of one host.
PairSpec == Init /\ [][Next /\ (OneInstance \/ OneServer)']_vars

\* Nobody cancels, leases are not renewed, and the server is up while it has work.
\* (A cancel, a renewal, a crash: steps that Fairness does not ask for.)
Undisturbed ==
    /\ cancelling = {} /\ beat = {}
    /\ (\E t \in Tasks : Active(t) \/ Executing(t)) => \A w \in Workers : up[w]
\* t3 is asked for while t2, a light task like it, waits.
ThirdQueues == ~Requested(t3) /\ Requested(t3)' => status[t2] = "PENDING"
\* No instance disappears; once the third task is there, nothing disturbs the queue.
CrowdedSpec ==
    /\ Init
    /\ [][/\ Next /\ UNCHANGED inst
          /\ (Requested(t3) => Undisturbed)'
          /\ ThirdQueues]_vars
    /\ Fairness /\ PollFairness
==============================================================================
