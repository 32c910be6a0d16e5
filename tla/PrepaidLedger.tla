----------------------------- MODULE PrepaidLedger -----------------------------
(***************************************************************************)
(* What the deletion and the renewal of a prepaid instance promise its     *)
(* owner, in money: nothing is refunded that was not paid, and the refund  *)
(* of a destruction is made once, after the instance is gone from Incus.   *)
(***************************************************************************)
EXTENDS Naturals

VARIABLES
    paid,      \* what was paid for the instance
    refunded,  \* what was paid back
    present,   \* the instance exists in Incus
    closed     \* the refund of a destruction by the owner was made

ledger == <<paid, refunded, present, closed>>

Open ==
    /\ paid \in Nat /\ refunded = 0
    /\ present = TRUE /\ closed = FALSE

\* A purchase of further time, possibly a free one.
Buy == paid' \in Nat /\ paid' >= paid /\ UNCHANGED <<refunded, present, closed>>

\* A refund by the staff, at any time.
Refund ==
    /\ refunded' \in refunded..paid
    /\ UNCHANGED <<paid, present, closed>>

Remove == present /\ present' = FALSE /\ UNCHANGED <<paid, refunded, closed>>

\* The owner's destruction is settled.
Close ==
    /\ ~present /\ ~closed /\ closed' = TRUE
    /\ refunded' \in refunded..paid
    /\ UNCHANGED <<paid, present>>

LedgerSpec == Open /\ [][Buy \/ Refund \/ Remove \/ Close]_ledger
==============================================================================
