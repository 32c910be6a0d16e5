---------------------------- MODULE RechargeOrders ----------------------------
(***************************************************************************)
(* What the recharges promise: an order credits the wallet at most once,   *)
(* with no more than its face value; an order that was closed may still be *)
(* credited, a rejected one never.                                         *)
(***************************************************************************)
EXTENDS Naturals

CONSTANTS Orders, Amount

VARIABLES
    order,    \* open, closed, credited or rejected
    balance   \* what the orders brought

Opened == order = [o \in Orders |-> "open"] /\ balance = 0

Credit(o) ==
    /\ order[o] \in {"open", "closed"}
    /\ order' = [order EXCEPT ![o] = "credited"]
    /\ \E amount \in 1..Amount : balance' = balance + amount

Reject(o) ==
    /\ order[o] = "open" /\ order' = [order EXCEPT ![o] = "rejected"]
    /\ UNCHANGED balance

\* By the customer, by the provider or, several at once, by time.
Close ==
    /\ \E closed \in SUBSET {o \in Orders : order[o] = "open"} :
         order' = [o \in Orders |-> IF o \in closed THEN "closed" ELSE order[o]]
    /\ UNCHANGED balance

OrdersSpec ==
    Opened /\ [][Close \/ \E o \in Orders : Credit(o) \/ Reject(o)]_<<order, balance>>
===============================================================================
