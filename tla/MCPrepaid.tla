------------------------------ MODULE MCPrepaid ------------------------------
(* Small instances of Prepaid. *)
EXTENDS Prepaid

CONSTANT MaxRequests  \* bound: acts after which only failures and crashes happen

\* What the owner, the staff, the hosts' owners and the renewal job start.
Request ==
    \/ \E k \in Deleters : Claim(k)
    \/ \E p \in Payers : BeginPayment(p)
    \/ SuspendRequest \/ Unsuspend \/ RefundByHand \/ StartRequest

\* Only acts of the environment are left out, none that Fairness asks for.
FewRequests == acts' <= MaxRequests \/ ~Request
SparseSpec == Init /\ [][Next /\ FewRequests]_vars /\ Fairness
==============================================================================
