---------------------------- MODULE MCHourlyPower ----------------------------
(* Small instances of HourlyPower: one owner. *)
EXTENDS HourlyPower

CONSTANT u1
OneUser == {u1}

\* What the users, the staff and the host do to the instance.
Request ==
    \/ RetryRequest \/ SuspendRequest \/ UnsuspendRequest \/ SyncRequest
    \/ \E k \in {"start", "stop", "restart"} : TaskRequest(k)
    \/ PowerChanges

\* On a host with an agent only the first act is one of these, and a failure or a crash
\* may follow.  Without one, the wallet and the time rest while a request is in progress.
\* Only acts of the environment are left out, none that Fairness asks for.
Calm ==
    /\ agent # "absent" /\ uses > 0 => ~Request
    /\ agent = "absent" /\ (creator # "none" \/ task # "none" \/ route # "none")
         => ~WalletOrTime
CalmSpec == PowerInit /\ [][PowerNext /\ Calm]_allVars /\ Fairness
==============================================================================
