---------------------------- MODULE TransferDeeds ----------------------------
(***************************************************************************)
(* What the transfers of an instance promise its users: who owns it and    *)
(* who has paid, without claims, leases, names in Incus and deletions.     *)
(***************************************************************************)
EXTENDS Naturals, FiniteSets

CONSTANTS Users, Seller, Transfers

VARIABLES
    state,     \* of each transfer
    from, to,  \* its parties
    owner,     \* of the instance
    fees       \* fees each user has paid and not got back

deeds == <<state, from, to, owner, fees>>

Init ==
    /\ state = [t \in Transfers |-> "none"]
    /\ from = [t \in Transfers |-> Seller] /\ to = [t \in Transfers |-> Seller]
    /\ owner = Seller /\ fees = [u \in Users |-> 0]

Move(t, old, new) == state[t] = old /\ state' = [state EXCEPT ![t] = new]

\* The owner offers the instance and pays, while no other offer is open.
Offer(t, u, v) ==
    /\ owner = u /\ u # v /\ \A s \in Transfers : state[s] # "open"
    /\ Move(t, "none", "open")
    /\ from' = [from EXCEPT ![t] = u] /\ to' = [to EXCEPT ![t] = v]
    /\ fees' = [fees EXCEPT ![u] = @ + 1]
    /\ UNCHANGED owner

\* The receiver gets the instance from the one who offered it.
Give(t) ==
    /\ Move(t, "open", "given")
    /\ owner = from[t] /\ owner' = to[t]
    /\ UNCHANGED <<from, to, fees>>

\* The offer is rejected or withdrawn, and the fee comes back.
Return(t) ==
    /\ Move(t, "open", "returned")
    /\ fees' = [fees EXCEPT ![from[t]] = @ - 1]
    /\ UNCHANGED <<from, to, owner>>

\* The offer ends with the instance; the fee is kept.
Drop(t) == Move(t, "open", "dropped") /\ UNCHANGED <<from, to, owner, fees>>

Next ==
    \E t \in Transfers :
        \/ \E u, v \in Users : Offer(t, u, v)
        \/ Give(t) \/ Return(t) \/ Drop(t)

Spec == Init /\ [][Next]_deeds

------------------------------------------------------------------------------

\* The transfers of a user that were paid and not returned, and those that gave the
\* instance away or brought it.
Paid(u) == {t \in Transfers : from[t] = u /\ state[t] \in {"open", "given", "dropped"}}
Parted(u) == {t \in Transfers : from[t] = u /\ state[t] = "given"}
Received(u) == {t \in Transfers : to[t] = u /\ state[t] = "given"}

Has(u, v) == IF u = v THEN 1 ELSE 0

\* Each user has paid for the transfers that were not returned, and for no other; and
\* who had the instance or received it, and has not parted with it since, is its owner.
Balanced ==
    \A u \in Users :
        /\ fees[u] = Cardinality(Paid(u))
        /\ Has(u, Seller) + Cardinality(Received(u)) = Cardinality(Parted(u)) + Has(u, owner)
==============================================================================
