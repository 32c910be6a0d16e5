------------------------------ MODULE HostSlots ------------------------------
(***************************************************************************)
(* What the claim protocol of the task queue promises, without its locks,  *)
(* leases and processes: the PROCESSING rows of a host behave like the     *)
(* holders of a readers-writer lock.  A heavy task holds the host alone,   *)
(* light tasks share it, and one instance is in at most one of them.       *)
(***************************************************************************)
CONSTANTS Tasks, InstanceOf, HostOf, HeavyTasks

VARIABLE held       \* the tasks that hold a slot on their host

\* The two tasks may run at the same time.
Compatible(t, u) ==
    /\ InstanceOf[t] # InstanceOf[u]
    /\ HostOf[t] = HostOf[u] => t \notin HeavyTasks /\ u \notin HeavyTasks

Init == held = {}

Acquire(t) ==
    /\ t \notin held
    /\ \A u \in held : Compatible(t, u)
    /\ held' = held \cup {t}

Release(t) ==
    /\ t \in held
    /\ held' = held \ {t}

Next == \E t \in Tasks : Acquire(t) \/ Release(t)

Spec == Init /\ [][Next]_held

\* Tasks that hold slots together are compatible: claimLightTask and
\* claimNextTask never put a heavy task beside another task of its host.
SlotsCompatible == \A t, u \in held : t # u => Compatible(t, u)
==============================================================================
