------------------------------- MODULE Recharge -------------------------------
(***************************************************************************)
(* Recharge orders and what completes, cancels and fails them: the         *)
(* provider's callbacks, the queries of the customer and the staff, the    *)
(* staff's own decisions, the customer's cancel and the clean-up jobs      *)
(* (routes/recharge.ts, routes/admin-billing.ts, db/recharge-records.ts,   *)
(* services/billing-scheduler.ts).                                         *)
(*                                                                         *)
(* A handler reads the order, looks for the mark of an earlier callback,   *)
(* writes the order in a transaction, marks the callback and answers: four *)
(* steps, between which other handlers run and the server may die.  The    *)
(* provider repeats a notice until it is answered with success, and its    *)
(* notices arrive in any order.  Left out: signatures and the provider's   *)
(* configuration, the metadata of a payment, logs and mail, and the        *)
(* status 'refunded', which no code writes.                                *)
(***************************************************************************)
EXTENDS Naturals, FiniteSets

CONSTANTS
    Orders,
    Heleket,    \* the orders whose provider also reports cancels and failures
    Handlers,   \* bound: requests handled at a time
    Amount,     \* the face value of an order
    MaxFaults,  \* bound: crashes, errors and lost answers
    NoOrder

ASSUME RechargeAssumption ==
    /\ IsFiniteSet(Orders) /\ Heleket \subseteq Orders /\ NoOrder \notin Orders
    /\ Amount \in Nat \ {0} /\ MaxFaults \in Nat

VARIABLES
    status,    \* of the order; "none" before it is created
    actual,    \* actualAmount
    marks,     \* the notices whose handling left a PaymentCallback of the order
    wallet,    \* what recharges have added to the balance
    credited,  \* auxiliary: what the order has added
    manual,    \* auxiliary: the orders the staff completed
    invoice,   \* the state of the payment at the provider
    sent,      \* the notices the provider has sent
    acked,     \* the notices answered with success
    handler,   \* the requests in progress
    faults     \* auxiliary: faults so far

orders == <<status, actual, wallet, credited, manual>>
provider == <<invoice, sent>>
vars == <<orders, marks, provider, acked, handler, faults>>

Statuses == {"none", "pending", "paid", "completed", "failed", "cancelled"}
Notices == {"paid", "short", "cancelled", "failed"}
Kinds == {"callback", "query", "complete", "fail", "cancel"}
Places == {"idle", "asked", "read", "completing", "ending", "marking"}
Idle == [at |-> "idle", kind |-> "query", order |-> NoOrder, notice |-> "none",
         seen |-> "none", amount |-> 0]
Requests ==
    [at : Places, kind : Kinds, order : Orders \cup {NoOrder},
     notice : Notices \cup {"none"}, seen : Statuses, amount : 0..Amount]

TypeOK ==
    /\ status \in [Orders -> Statuses] /\ actual \in [Orders -> 1..Amount]
    /\ marks \in [Orders -> SUBSET Notices]
    /\ wallet \in Nat /\ credited \in [Orders -> Nat] /\ manual \subseteq Orders
    /\ invoice \in [Orders -> Notices \cup {"open"}]
    /\ sent \in [Orders -> SUBSET Notices] /\ acked \in [Orders -> SUBSET Notices]
    /\ handler \in [Handlers -> Requests]
    /\ \A h \in Handlers : handler[h].at # "idle" => handler[h].order \in Orders
    /\ faults \in Nat

Init ==
    /\ status = [o \in Orders |-> "none"] /\ actual = [o \in Orders |-> Amount]
    /\ marks = [o \in Orders |-> {}]
    /\ wallet = 0 /\ credited = [o \in Orders |-> 0] /\ manual = {}
    /\ invoice = [o \in Orders |-> "open"]
    /\ sent = [o \in Orders |-> {}] /\ acked = [o \in Orders |-> {}]
    /\ handler = [h \in Handlers |-> Idle] /\ faults = 0

------------------------------------------------------------------------------
Use == faults < MaxFaults /\ faults' = faults + 1

\* The statuses a cancel, a failure and a completion find acceptable.
Open == {"pending", "paid"}
\* Mutant: an order that was cancelled is not credited any more.
CreditableOpen == Open
Creditable == Open \cup {"cancelled"}

\* Mutant: any amount the staff enters.
AmountsUnchecked == 1..(Amount + 1)
\* validateRechargeActualAmount: positive, and no more than the order.
Amounts == 1..Amount

\* The order of a request, and where the request goes.
OrderOf(h) == handler[h].order
Goto(h, place) == handler' = [handler EXCEPT ![h].at = place]
End(h) == handler' = [handler EXCEPT ![h] = Idle]
\* A route reads the order and keeps what it read; a new request.
Read(h, o, kind, place, notice, amount) ==
    /\ handler[h].at = "idle" /\ status[o] # "none"
    /\ handler' = [handler EXCEPT ![h] =
         [at |-> place, kind |-> kind, order |-> o, notice |-> notice,
          seen |-> status[o], amount |-> amount]]
    /\ UNCHANGED <<orders, marks, provider, acked, faults>>

\* The answer that ends a callback.
Answer(h) == acked' = [acked EXCEPT ![OrderOf(h)] = @ \cup {handler[h].notice}]

------------------------------------------------------------------------------
(* Requests. *)

\* POST /recharge/orders; the amount to be credited is the face value less a fee.
CreateOrder(o) ==
    /\ status[o] = "none" /\ status' = [status EXCEPT ![o] = "pending"]
    /\ \E amount \in Amounts : actual' = [actual EXCEPT ![o] = amount]
    /\ UNCHANGED <<wallet, credited, manual, marks, provider, acked, handler, faults>>

\* handlePaymentCallback reads the order before it looks for a mark.
Callback(h, o, n) ==
    /\ n \in sent[o]
    /\ Read(h, o, "callback", "read", n, IF n = "paid" THEN actual[o] ELSE 0)

\* POST /orders/:orderNo/verify, and the staff's sync.
Query(h, o) ==
    status[o] \in Open /\ Read(h, o, "query", "asked", "none", actual[o])

\* POST /admin/recharge/orders/:orderNo/complete
ManualComplete(h, o) ==
    /\ status[o] \in Open
    /\ \E amount \in Amounts \cup {actual[o]} :
         Read(h, o, "complete", "completing", "none", amount)

\* POST /admin/recharge/orders/:orderNo/fail
ManualFail(h, o) ==
    status[o] \in Open \cup {"cancelled"} /\ Read(h, o, "fail", "ending", "none", 0)

\* POST /orders/:orderNo/cancel, and a repayment that finds the order expired.
Cancel(h, o) ==
    status[o] = "pending" /\ Read(h, o, "cancel", "ending", "none", 0)

\* Mutant: the amount that was paid is not compared.
ProviderAnswersAny(h) ==
    /\ handler[h].at = "asked"
    /\ LET n == invoice[OrderOf(h)] IN
         CASE n \in {"paid", "short"} ->
                handler' = [handler EXCEPT ![h].at = "read", ![h].notice = "paid"]
           [] n \in {"cancelled", "failed"} ->
                handler' = [handler EXCEPT ![h].at = "ending", ![h].notice = n]
           [] OTHER -> End(h)
    /\ UNCHANGED <<orders, marks, provider, acked, faults>>

\* The provider is asked; a payment that falls short is refused.
ProviderAnswers(h) ==
    /\ handler[h].at = "asked"
    /\ LET n == invoice[OrderOf(h)] IN
         CASE n = "paid" ->
                handler' = [handler EXCEPT ![h].at = "read", ![h].notice = n]
           [] n \in {"cancelled", "failed"} ->
                handler' = [handler EXCEPT ![h].at = "ending", ![h].notice = n]
           [] OTHER -> End(h)
    /\ UNCHANGED <<orders, marks, provider, acked, faults>>

\* isCallbackProcessed finds a mark: a callback is answered, a query ends.
FindDuplicate(h) ==
    /\ handler[h].at = "read" /\ marks[OrderOf(h)] # {}
    /\ IF handler[h].kind = "callback" THEN Answer(h) ELSE UNCHANGED acked
    /\ End(h)
    /\ UNCHANGED <<orders, marks, provider, faults>>

\* There is no mark, or looking for it fails.
FindsNoMark(h) ==
    \/ marks[OrderOf(h)] = {} /\ UNCHANGED faults
    \/ marks[OrderOf(h)] # {} /\ Use

\* Mutant: a failed order is treated like a completed one.
ProceedFailed(h) ==
    /\ handler[h].at = "read" /\ FindsNoMark(h)
    /\ LET seen == handler[h].seen  n == handler[h].notice IN
         CASE n = "paid" /\ seen \in Creditable -> Goto(h, "completing")
           [] n \in {"cancelled", "failed"} /\ seen \in Open -> Goto(h, "ending")
           [] n = "paid" /\ seen \in {"completed", "failed"} -> Goto(h, "marking")
           [] n \in {"cancelled", "failed"} /\ seen \notin Open -> Goto(h, "marking")
           [] OTHER -> End(h)
    /\ UNCHANGED <<orders, marks, provider, acked>>

\* The callback goes by the order as it was read.
Proceed(h) ==
    /\ handler[h].at = "read" /\ FindsNoMark(h)
    /\ LET seen == handler[h].seen  n == handler[h].notice IN
         CASE n = "paid" /\ seen \in Creditable -> Goto(h, "completing")
           [] n \in {"cancelled", "failed"} /\ seen \in Open -> Goto(h, "ending")
           [] n = "paid" /\ seen = "completed" -> Goto(h, "marking")
           [] n \in {"cancelled", "failed"} /\ seen \notin Open -> Goto(h, "marking")
           [] OTHER -> End(h)
    /\ UNCHANGED <<orders, marks, provider, acked>>

------------------------------------------------------------------------------
(* The transactions. *)

\* Callbacks and queries leave a mark once the order is settled.
Succeed(h) ==
    IF \/ handler[h].kind = "callback"
       \/ handler[h].kind = "query" /\ handler[h].at = "completing"
    THEN Goto(h, "marking") ELSE End(h)

\* Mutant: the status is not a condition of the update.
CompleteRechargeAgain(h) ==
    LET o == OrderOf(h)  amount == handler[h].amount IN
    /\ handler[h].at = "completing"
    /\ IF status[o] # "failed"
       THEN /\ status' = [status EXCEPT ![o] = "completed"]
            /\ actual' = [actual EXCEPT ![o] = amount]
            /\ wallet' = wallet + amount
            /\ credited' = [credited EXCEPT ![o] = @ + amount]
            /\ manual' = IF handler[h].kind = "complete" THEN manual \cup {o} ELSE manual
            /\ Succeed(h)
       ELSE UNCHANGED orders /\ End(h)
    /\ UNCHANGED <<marks, provider, acked, faults>>

\* completeRecharge: what its first read decides, the conditional update decides again.
CompleteRecharge(h) ==
    LET o == OrderOf(h)  amount == handler[h].amount IN
    /\ handler[h].at = "completing"
    /\ \/ /\ status[o] \in Creditable
          /\ status' = [status EXCEPT ![o] = "completed"]
          /\ actual' = [actual EXCEPT ![o] = amount]
          /\ wallet' = wallet + amount
          /\ credited' = [credited EXCEPT ![o] = @ + amount]
          /\ manual' = IF handler[h].kind = "complete" THEN manual \cup {o} ELSE manual
          /\ Succeed(h)
       \/ status[o] = "completed" /\ UNCHANGED orders /\ Succeed(h)
       \/ status[o] \notin Creditable \cup {"completed"} /\ UNCHANGED orders /\ End(h)
    /\ UNCHANGED <<marks, provider, acked, faults>>

\* The status a request asks for when it does not complete the order.
Target(h) ==
    IF handler[h].kind = "cancel" \/ handler[h].notice = "cancelled" THEN "cancelled"
    ELSE "failed"

\* Mutant: the order is cancelled whatever became of it since it was read.
CancelOrFailAnyway(h) ==
    LET o == OrderOf(h) IN
    /\ handler[h].at = "ending"
    /\ status' = [status EXCEPT ![o] = Target(h)] /\ Succeed(h)
    /\ UNCHANGED <<actual, wallet, credited, manual, marks, provider, acked, faults>>

\* cancelRecharge and failRecharge
CancelOrFail(h) ==
    LET o == OrderOf(h) IN
    /\ handler[h].at = "ending"
    /\ \/ status[o] \in Open /\ status' = [status EXCEPT ![o] = Target(h)] /\ Succeed(h)
       \/ status[o] = Target(h) /\ UNCHANGED status /\ Succeed(h)
       \/ status[o] \notin Open \cup {Target(h)} /\ UNCHANGED status /\ End(h)
    /\ UNCHANGED <<actual, wallet, credited, manual, marks, provider, acked, faults>>

\* markCallbackProcessed, whose failure is ignored, and the answer, which may be lost.
Mark(h) ==
    LET o == OrderOf(h)  marked == [marks EXCEPT ![o] = @ \cup {handler[h].notice}] IN
    /\ handler[h].at = "marking" /\ End(h)
    /\ \/ /\ marks' = marked /\ UNCHANGED faults
          /\ IF handler[h].kind = "callback" THEN Answer(h) ELSE UNCHANGED acked
       \/ /\ Use /\ marks' = marks
          /\ IF handler[h].kind = "callback" THEN Answer(h) ELSE UNCHANGED acked
       \/ Use /\ marks' = marked /\ UNCHANGED acked
    /\ UNCHANGED <<orders, provider>>

\* An error: the request ends, unless the order turns out to be completed by another.
HandlerFails(h) ==
    /\ Use /\ handler[h].at # "idle"
    /\ \/ End(h)
       \/ /\ handler[h].at = "completing" /\ handler[h].kind \in {"callback", "query"}
          /\ status[OrderOf(h)] = "completed" /\ Goto(h, "marking")
    /\ UNCHANGED <<orders, marks, provider, acked>>

\* The server dies.
Crash ==
    /\ Use /\ handler' = [h \in Handlers |-> Idle]
    /\ UNCHANGED <<orders, marks, provider, acked>>

------------------------------------------------------------------------------
(* Jobs, time and the provider. *)

\* cleanExpiredRechargeOrders: any of the pending orders may be past expiredAt.
CleanOrders ==
    /\ \E expired \in SUBSET {o \in Orders : status[o] = "pending"} :
         status' = [o \in Orders |-> IF o \in expired THEN "cancelled" ELSE status[o]]
    /\ UNCHANGED <<actual, wallet, credited, manual, marks, provider, acked, handler, faults>>

\* cleanOldPaymentCallbacks: thirty days pass.
CleanCallbacks(o) ==
    /\ marks[o] # {} /\ marks' = [marks EXCEPT ![o] = {}]
    /\ UNCHANGED <<orders, provider, acked, handler, faults>>

\* What becomes of a payment; a cancelled one may be made late, one made be returned.
Outcomes(o) ==
    IF o \in Heleket
    THEN CASE invoice[o] = "open" -> Notices
           [] invoice[o] = "cancelled" -> {"paid"}
           [] invoice[o] = "paid" -> {"failed"}
           [] OTHER -> {}
    ELSE IF invoice[o] = "open" THEN {"paid", "short"} ELSE {}

Pay(o) ==
    /\ status[o] # "none"
    /\ \E n \in Outcomes(o) :
         /\ invoice' = [invoice EXCEPT ![o] = n]
         /\ sent' = [sent EXCEPT ![o] = @ \cup {n}]
    /\ UNCHANGED <<orders, marks, acked, handler, faults>>

------------------------------------------------------------------------------
HandlerStep(h) ==
    \/ ProviderAnswers(h) \/ FindDuplicate(h) \/ Proceed(h)
    \/ CompleteRecharge(h) \/ CancelOrFail(h) \/ Mark(h)

Request(h, o) ==
    \/ \E n \in Notices : Callback(h, o, n)
    \/ Query(h, o) \/ ManualComplete(h, o) \/ ManualFail(h, o) \/ Cancel(h, o)

Next ==
    \/ \E h \in Handlers, o \in Orders : Request(h, o)
    \/ \E h \in Handlers : HandlerStep(h) \/ HandlerFails(h)
    \/ \E o \in Orders : CreateOrder(o) \/ CleanCallbacks(o) \/ Pay(o)
    \/ CleanOrders \/ Crash

Spec == Init /\ [][Next]_vars

\* The provider repeats a notice of a payment until it is answered with success.
Repeat(o) ==
    "paid" \notin acked[o] /\ \E h \in Handlers : Callback(h, o, "paid")

Fairness ==
    /\ \A h \in Handlers : WF_vars(HandlerStep(h))
    /\ \A o \in Orders : SF_vars(Repeat(o))

FairSpec == Spec /\ Fairness

------------------------------------------------------------------------------
(* Properties. *)

\* However callbacks, queries and the staff race, an order has credited the amount it
\* shows exactly once if it is completed, and nothing otherwise.
CreditMatchesOrder ==
    \A o \in Orders : credited[o] = IF status[o] = "completed" THEN actual[o] ELSE 0

\* No order is completed that was neither paid in full at the provider nor completed by
\* the staff, whatever the order's own status was when it was decided.
CreditJustified ==
    \A o \in Orders : status[o] = "completed" => "paid" \in sent[o] \/ o \in manual

\* The notice of a payment is answered with success, and so never repeated, only when the
\* order is credited, unless an earlier cancel or failure of the payment left its mark.
AckedPaymentCredited ==
    [][\A o \in Orders : "paid" \in acked'[o] \ acked[o] =>
         status'[o] = "completed" \/ marks[o] \cap {"cancelled", "failed"} # {}]_vars

\* A payment that was made is dealt with although the order was cancelled or expired
\* before it, answers are lost and the server dies: the order is credited, or failed, the
\* payment is returned, or its notice answered (AckedPaymentCredited says when).
PaymentCredited ==
    \A o \in Orders :
        invoice[o] = "paid" ~>
            \/ status[o] \in {"completed", "failed"} \/ invoice[o] # "paid"
            \/ "paid" \in acked[o]

\* The orders and the wallet keep what RechargeOrders promises.
Settled == [o \in Orders |->
    CASE status[o] \in {"none", "pending", "paid"} -> "open"
      [] status[o] = "completed" -> "credited"
      [] status[o] = "failed" -> "rejected"
      [] status[o] = "cancelled" -> "closed"]
Abstract == INSTANCE RechargeOrders WITH order <- Settled, balance <- wallet
OrdersSpec == Abstract!OrdersSpec
==============================================================================
