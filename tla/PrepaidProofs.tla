---------------------------- MODULE PrepaidProofs ----------------------------
(***************************************************************************)
(* Proofs about Prepaid for any deleters, payers, price and amounts.  The  *)
(* money and the removal are tied together by BooksInv: whoever is past    *)
(* the removal, or has left a trace of it, finds the instance absent, and  *)
(* the record of the owner's destruction counts its settlements.           *)
(***************************************************************************)
EXTENDS Prepaid, FiniteSetTheorems, TLAPS

\* Someone has seen the instance gone, or settled on that ground.
SeenRemoved ==
    \/ remote
    \/ settled["user_destroy"] > 0 \/ settled["privileged_delete"] > 0
    \/ \E k \in Deleters : request[k].at \in {"removed", "marked"}
    \/ recovery.at \in {"removed", "marked"}

BooksInv ==
    /\ TypeOK
    /\ refunded <= paid
    /\ settled["user_destroy"] = IF destroyed THEN 1 ELSE 0
    /\ SeenRemoved => power = "absent"

------------------------------------------------------------------------------
(* Amounts. *)

\* The quote of a refund is a natural number.
LEMMA QuoteIsNat == TypeOK => Quote \in Nat /\ MaxRefundable \in Nat
<1> SUFFICES ASSUME TypeOK PROVE Quote \in Nat /\ MaxRefundable \in Nat
  OBVIOUS
<1>1. Cardinality({i \in DOMAIN periods : periods[i]}) \in Nat
  <2>1. IsFiniteSet(1..Len(periods))
    BY FS_Interval DEF TypeOK
  <2>2. IsFiniteSet({i \in DOMAIN periods : periods[i]})
    BY <2>1, FS_Subset DEF TypeOK
  <2> QED
    BY <2>2, FS_CardinalityType
<1>2. MaxRefundable \in Nat
  BY DEF MaxRefundable, TypeOK
<1> DEFINE c == Cardinality({i \in DOMAIN periods : periods[i]})
<1>3. Price * c \in Nat
  BY <1>1, PrepaidAssumption
<1> QED
  BY <1>2, <1>3 DEF Quote, Lesser

\* A settlement takes no more than what is left, and the fee no more than that.
LEMMA SettlementFits ==
    ASSUME TypeOK, refunded <= paid, NEW v \in Nat, NEW first \in BOOLEAN
    PROVE  /\ Settlement(v) \in Nat
           /\ refunded + Settlement(v) \in refunded..paid
           /\ refunded + (Settlement(v) - Fee(Settlement(v), first)) \in refunded..paid
<1>1. Settlement(v) \in 0..(paid - refunded)
  BY DEF Settlement, Lesser, MaxRefundable, TypeOK
<1>2. \A n \in Nat : (n + 5) \div 10 \in 0..n \/ n = 0
  OBVIOUS
<1>3. Fee(Settlement(v), first) \in 0..Settlement(v)
  BY <1>1, <1>2 DEF Fee, TypeOK
<1> QED
  BY <1>1, <1>3 DEF TypeOK

------------------------------------------------------------------------------
(* Types. *)

\* The settlements keep the types of the money and of the columns they clear.
LEMMA SettleTypes ==
    ASSUME TypeOK, refunded <= paid, NEW v \in Nat, SettleDestroy(v) \/ SettlePrivileged(v)
    PROVE  /\ pending' \in BOOLEAN /\ remote' \in BOOLEAN /\ mode' \in Modes /\ value' \in Value
           /\ periods' = periods /\ paid' = paid /\ refunded' \in refunded..paid
           /\ destroyed' \in BOOLEAN /\ settled' \in [Modes -> Nat]
<1>1. pending' \in BOOLEAN /\ remote' \in BOOLEAN /\ mode' \in Modes /\ value' \in Value
  BY DEF SettleDestroy, SettlePrivileged, ClearDeletion, Modes, Value
<1>2. /\ Settlement(v) \in Nat
      /\ refunded + Settlement(v) \in refunded..paid
      /\ \A first \in BOOLEAN :
           refunded + (Settlement(v) - Fee(Settlement(v), first)) \in refunded..paid
  BY SettlementFits
<1>3. refunded \in Nat /\ paid \in Nat /\ destroyed \in BOOLEAN /\ settled \in [Modes -> Nat]
  BY DEF TypeOK
<1>4. refunded \in refunded..paid
  BY <1>3
<1>5. CASE SettlePrivileged(v)
  <2>1. settled' \in [Modes -> Nat]
    BY <1>2, <1>3, <1>5 DEF SettlePrivileged, Modes
  <2> QED
    BY <1>1, <1>2, <1>3, <1>5, <2>1 DEF SettlePrivileged
<1>6. CASE SettleDestroy(v)
  <2>1. settled' \in [Modes -> Nat]
    BY <1>3, <1>6 DEF SettleDestroy, Modes
  <2> QED
    BY <1>1, <1>2, <1>3, <1>4, <1>6, <2>1 DEF SettleDestroy
<1> QED
  BY <1>5, <1>6

\* So do the moves of a request.
LEMMA RequestTypes ==
    ASSUME TypeOK, NEW k \in Deleters
    PROVE  /\ request[k].amount \in Nat /\ request[k].from \in Statuses
           /\ End(k) => request' \in [Deleters -> Requests]
           /\ \A place \in {"quoted", "removed", "marked", "failing", "settled"}, n \in Nat :
                Goto(k, place, n) => request' \in [Deleters -> Requests]
<1>1. request \in [Deleters -> Requests]
  BY DEF TypeOK
<1>2. request[k] \in Requests /\ Idle \in Requests
  BY <1>1 DEF Requests, Idle, Statuses
<1>3. request[k].amount \in Nat /\ request[k].from \in Statuses
  BY <1>2 DEF Requests
<1>4. \A place \in {"quoted", "removed", "marked", "failing", "settled"}, n \in Nat :
          [at |-> place, from |-> request[k].from, amount |-> n] \in Requests
  BY <1>3 DEF Requests
<1> QED
  BY <1>1, <1>2, <1>3, <1>4 DEF Goto, End

\* A step of a deletion request keeps the types.
LEMMA DeletionTypes ==
    ASSUME TypeOK, refunded <= paid, NEW k \in Deleters,
           Claim(k) \/ DeletionStep(k) \/ RequestFails(k)
    PROVE  TypeOK'
<1> USE DEF OthersRest, Advance, Use
<1>1. CASE Claim(k)
  <2>1. [at |-> "claimed", from |-> status, amount |-> 0] \in Requests
    BY DEF Requests, TypeOK
  <2>2. request \in [Deleters -> Requests]
    BY DEF TypeOK
  <2>3. request' \in [Deleters -> Requests]
    BY <1>1, <2>1, <2>2 DEF Claim
  <2>4. /\ status' \in Statuses /\ pending' \in BOOLEAN /\ remote' \in BOOLEAN
        /\ mode' \in Modes /\ value' \in Value /\ unchanged' \subseteq Payers \cup {"expiry"}
    BY <1>1 DEF Claim, Bump, TypeOK, Statuses, Modes, Value
  <2> QED
    BY <1>1, <2>3, <2>4 DEF Claim, TypeOK, books
<1>2. CASE QuoteRefund(k)
  <2>1. value' \in Nat /\ Goto(k, "quoted", value')
    BY <1>2, QuoteIsNat DEF QuoteRefund
  <2> QED
    BY <1>2, <2>1, RequestTypes DEF QuoteRefund, TypeOK, books, Value
<1>3. CASE Remove(k)
  BY <1>3, RequestTypes DEF Remove, TypeOK, row, books
<1>4. CASE Mark(k)
  BY <1>4, RequestTypes DEF Mark, TypeOK, books
<1>5. CASE Settle(k)
  <2>1. SettleDestroy(request[k].amount) \/ SettlePrivileged(request[k].amount)
    BY <1>5 DEF Settle
  <2>2. /\ pending' \in BOOLEAN /\ remote' \in BOOLEAN /\ mode' \in Modes /\ value' \in Value
        /\ periods' = periods /\ paid' = paid /\ refunded' \in refunded..paid
        /\ destroyed' \in BOOLEAN /\ settled' \in [Modes -> Nat]
    BY <2>1, RequestTypes, SettleTypes
  <2> QED
    BY <1>5, <2>2, RequestTypes DEF Settle, TypeOK
<1>6. CASE BatchMarksDeleted(k)
  BY <1>6, RequestTypes DEF BatchMarksDeleted, TypeOK, books, Statuses
<1>7. CASE Restore(k)
  <2>1. request' \in [Deleters -> Requests] /\ request[k].from \in Statuses
    BY <1>7, RequestTypes DEF Restore
  <2>2. status' \in Statuses /\ unchanged' \subseteq Payers \cup {"expiry"}
    BY <1>7, <2>1 DEF Restore, Bump, TypeOK
  <2>3. pending' \in BOOLEAN /\ remote' \in BOOLEAN /\ mode' \in Modes /\ value' \in Value
    BY <1>7 DEF Restore, ClearDeletion, TypeOK, Modes, Value
  <2> QED
    BY <1>7, <2>1, <2>2, <2>3 DEF Restore, TypeOK, books
<1>8. CASE RequestFails(k)
  <2>1. request' \in [Deleters -> Requests]
    BY <1>8, RequestTypes DEF RequestFails
  <2> QED
    BY <1>8, <2>1 DEF RequestFails, TypeOK, row, books
<1> QED
  BY <1>1, <1>2, <1>3, <1>4, <1>5, <1>6, <1>7, <1>8 DEF DeletionStep

\* The other steps keep them too.
LEMMA TypeStep == TypeOK /\ refunded <= paid /\ [Next]_vars => TypeOK'
<1> SUFFICES ASSUME TypeOK, refunded <= paid, [Next]_vars PROVE TypeOK'
  OBVIOUS
<1> USE DEF Use, Bump
<1>1. ASSUME NEW k \in Deleters, Claim(k) \/ DeletionStep(k) \/ RequestFails(k) PROVE TypeOK'
  BY <1>1, DeletionTypes
<1>2. CASE RecoveryStep \/ RecoveryFails
  <2> USE DEF RecoveryRest
  <2>1. recovery \in Recoveries /\ Waiting \in Recoveries
    BY DEF TypeOK, Waiting, Recoveries, Modes, Value
  <2>2. \A place \in {"removed", "marked"} : RecoveryAt(place) => recovery' \in Recoveries
    BY <2>1 DEF RecoveryAt, Recoveries
  <2>3. CASE RecoveryLists
    <3>1. mode \in Modes /\ value \in Value
      BY DEF TypeOK
    <3>2. recovery' \in Recoveries
      BY <2>3, <3>1 DEF RecoveryLists, Recoveries
    <3> QED
      BY <2>3, <3>2 DEF RecoveryLists, TypeOK, row, books
  <2>4. CASE RecoveryRemoves
    BY <2>2, <2>4 DEF RecoveryRemoves, TypeOK, row, books
  <2>5. CASE RecoveryMarks
    <3>1. recovery' \in Recoveries
      BY <2>2, <2>5 DEF RecoveryMarks
    <3>2. remote' \in BOOLEAN
      BY <2>5, Zenon DEF RecoveryMarks, TypeOK
    <3>3. UNCHANGED <<status, mark, pending, mode, value, unchanged, books, power, acts,
                      request, expiry, suspend, payment, admin, task>>
      BY <2>5 DEF RecoveryMarks
    <3> QED
      BY <3>1, <3>2, <3>3 DEF TypeOK, books
  <2>6. CASE RecoverySettles
    <3>1. PICK v \in Nat : SettleDestroy(v) \/ SettlePrivileged(v)
      <4>1. recovery.value \in Nat \cup {NoValue}
        BY <2>1 DEF Recoveries, Value
      <4> QED
        BY <2>6, <4>1, QuoteIsNat DEF RecoverySettles
    <3>2. /\ pending' \in BOOLEAN /\ remote' \in BOOLEAN /\ mode' \in Modes /\ value' \in Value
          /\ periods' = periods /\ paid' = paid /\ refunded' \in refunded..paid
          /\ destroyed' \in BOOLEAN /\ settled' \in [Modes -> Nat]
      BY <3>1, SettleTypes
    <3> QED
      BY <2>1, <2>6, <3>2 DEF RecoverySettles, TypeOK
  <2>7. CASE RecoveryFails
    BY <2>1, <2>7 DEF RecoveryFails, TypeOK, row, books
  <2> QED
    BY <1>2, <2>3, <2>4, <2>5, <2>6, <2>7 DEF RecoveryStep
<1>3. CASE SuspendBegins \/ SuspendCommits \/ SuspendFails \/ LateStop
  BY <1>3 DEF SuspendBegins, SuspendCommits, SuspendFails, LateStop, SuspendRest, TypeOK,
     row, books, Statuses
<1>4. CASE ExpiryLists \/ ExpiryStep \/ ExpiryFails
  <2> USE DEF ExpiryRest
  <2>1. CASE ExpiryLists \/ ExpiryRemoves \/ ExpiryFails
    BY <2>1 DEF ExpiryLists, ExpiryRemoves, ExpiryFails, TypeOK, row, books
  <2>2. CASE ExpiryClaims \/ ExpiryRestores
    BY <2>2 DEF ExpiryClaims, ExpiryRestores, TypeOK, books, Statuses
  <2>3. CASE ExpiryFinishes
    <3>1. /\ status' \in Statuses /\ mark' \in {"none", "manual", "recent", "old"}
          /\ unchanged' \subseteq Payers \cup {"expiry"}
      BY <2>3 DEF ExpiryFinishes, TypeOK, row, Statuses
    <3>2. pending' \in BOOLEAN /\ remote' \in BOOLEAN /\ mode' \in Modes /\ value' \in Value
      BY <2>3 DEF ExpiryFinishes, ClearDeletion, TypeOK, row, Modes, Value
    <3> QED
      BY <2>3, <3>1, <3>2 DEF ExpiryFinishes, TypeOK, books
  <2> QED
    BY <1>4, <2>1, <2>2, <2>3 DEF ExpiryStep
<1>5. ASSUME NEW p \in Payers, BeginPayment(p) \/ Renew(p) \/ Extend(p) \/ PaymentFails(p)
      PROVE  TypeOK'
  <2>1. payment' \in [Payers -> {"idle", "live", "expired"}]
    BY <1>5 DEF BeginPayment, Renew, Extend, PaymentFails, TypeOK
  <2>2. \A charged \in BOOLEAN : Append(periods, charged) \in Seq(BOOLEAN)
    BY DEF TypeOK
  <2>3. paid \in Nat /\ paid + Price \in Nat
    BY PrepaidAssumption DEF TypeOK
  <2>4. CASE Renew(p)
    BY <2>1, <2>2, <2>3, <2>4 DEF Renew, PaymentRest, Lifted, TypeOK, Statuses
  <2>5. CASE Extend(p)
    <3>1. periods' \in Seq(BOOLEAN) /\ paid' \in Nat
      BY <2>2, <2>3, <2>5 DEF Extend
    <3> QED
      BY <2>1, <2>5, <3>1 DEF Extend, PaymentRest, Lifted, TypeOK, Statuses
  <2>6. CASE BeginPayment(p) \/ PaymentFails(p)
    BY <2>1, <2>6 DEF BeginPayment, PaymentFails, PaymentRest, TypeOK, row, books
  <2> QED
    BY <1>5, <2>4, <2>5, <2>6
<1>6. CASE SuspendRequest \/ SuspendManually \/ Unsuspend \/ RefundByHand
  <2>1. CASE SuspendRequest
    BY <2>1 DEF SuspendRequest, TypeOK, row, books
  <2>2. CASE SuspendManually
    BY <2>2 DEF SuspendManually, TypeOK, books, Statuses
  <2>3. CASE Unsuspend
    BY <2>3 DEF Unsuspend, TypeOK, books, places, Statuses
  <2>4. CASE RefundByHand
    <3>1. refunded' \in Nat
      BY <2>4, PrepaidAssumption DEF RefundByHand, TypeOK
    <3> QED
      BY <2>4, <3>1 DEF RefundByHand, TypeOK, row, places
  <2> QED
    BY <1>6, <2>1, <2>2, <2>3, <2>4
<1>7. CASE StartRequest \/ TaskPowersOn \/ TaskWrites \/ TaskFails
  BY <1>7 DEF StartRequest, TaskPowersOn, TaskWrites, TaskFails, TypeOK, row, books, Statuses
<1>8. CASE SyncStatus \/ Tick \/ Age \/ UNCHANGED vars
  <2>1. CASE SyncStatus
    BY <2>1 DEF SyncStatus, TypeOK, books, places, Statuses
  <2>2. CASE Tick
    BY <2>2 DEF Tick, TypeOK, row, places
  <2>3. CASE Age \/ UNCHANGED vars
    BY <2>3 DEF Age, TypeOK, row, books, places, vars
  <2> QED
    BY <1>8, <2>1, <2>2, <2>3
<1>9. CASE Crash
  <2>1. Idle \in Requests /\ Waiting \in Recoveries
    BY DEF Idle, Waiting, Requests, Recoveries, Statuses, Modes, Value
  <2> QED
    BY <1>9, <2>1 DEF Crash, TypeOK, row, books
<1> QED
  BY <1>1, <1>2, <1>3, <1>4, <1>5, <1>6, <1>7, <1>8, <1>9 DEF Next

------------------------------------------------------------------------------
(* Money and removal. *)

\* Steps that touch neither the books nor the traces of a removal, and keep what is
\* absent absent.
LEMMA Untouched ==
    ASSUME BooksInv, TypeOK', UNCHANGED <<refunded, settled, destroyed>>, paid' >= paid,
           remote' => remote \/ power' = "absent",
           \A k \in Deleters : request'[k].at \in {"removed", "marked"} =>
               request[k].at \in {"removed", "marked"} \/ power' = "absent",
           recovery'.at \in {"removed", "marked"} =>
               recovery.at \in {"removed", "marked"} \/ power' = "absent",
           power = "absent" => power' = "absent"
    PROVE  BooksInv'
<1>1. SeenRemoved' => SeenRemoved \/ power' = "absent"
  BY DEF SeenRemoved
<1>2. refunded' <= paid'
  BY DEF BooksInv, TypeOK
<1> QED
  BY <1>1, <1>2 DEF BooksInv

\* A settlement after the removal keeps the books in order.
LEMMA Settled ==
    ASSUME BooksInv, TypeOK', UNCHANGED power, power = "absent",
           NEW v \in Nat, SettleDestroy(v) \/ SettlePrivileged(v)
    PROVE  BooksInv'
<1>1. refunded' <= paid'
  <2>1. refunded' \in refunded..paid /\ paid' = paid
    BY SettleTypes DEF BooksInv
  <2> QED
    BY <2>1 DEF BooksInv, TypeOK
<1>2. settled'["user_destroy"] = IF destroyed' THEN 1 ELSE 0
  <2>1. settled \in [Modes -> Nat] /\ settled["user_destroy"] = IF destroyed THEN 1 ELSE 0
    BY DEF BooksInv, TypeOK
  <2>2. CASE SettlePrivileged(v)
    BY <2>1, <2>2 DEF SettlePrivileged, Modes
  <2>3. CASE SettleDestroy(v)
    BY <2>1, <2>3 DEF SettleDestroy, Modes
  <2> QED
    BY <2>2, <2>3
<1> QED
  BY <1>1, <1>2 DEF BooksInv

\* Whoever settles has seen the row's remote deletion confirmed.
LEMMA Settles ==
    ASSUME BooksInv, [Next]_vars,
           (\E k \in Deleters : Settle(k)) \/ RecoverySettles
    PROVE  /\ power = "absent" /\ UNCHANGED power
           /\ \E v \in Nat : SettleDestroy(v) \/ SettlePrivileged(v)
<1>1. power = "absent" /\ UNCHANGED power
  BY DEF Settle, RecoverySettles, Confirmed, BooksInv, SeenRemoved
<1>2. ASSUME NEW k \in Deleters, Settle(k)
      PROVE  \E v \in Nat : SettleDestroy(v) \/ SettlePrivileged(v)
  <2>1. request[k].amount \in Nat
    BY RequestTypes DEF BooksInv
  <2> QED
    BY <1>2, <2>1 DEF Settle
<1>3. ASSUME RecoverySettles
      PROVE  \E v \in Nat : SettleDestroy(v) \/ SettlePrivileged(v)
  <2>1. recovery.value \in Nat \cup {NoValue} /\ Quote \in Nat
    BY QuoteIsNat DEF BooksInv, TypeOK, Recoveries, Value
  <2>2. CASE recovery.mode = "user_destroy"
    <3>1. SettleDestroy(IF recovery.value = NoValue THEN Quote ELSE recovery.value)
      BY <1>3, <2>2, Zenon DEF RecoverySettles
    <3>2. (IF recovery.value = NoValue THEN Quote ELSE recovery.value) \in Nat
      BY <2>1
    <3> QED
      BY <3>1, <3>2, Zenon
  <2>3. CASE recovery.mode # "user_destroy"
    <3>1. SettlePrivileged(IF recovery.value = NoValue THEN 0 ELSE recovery.value)
      BY <1>3, <2>3, Zenon DEF RecoverySettles
    <3>2. (IF recovery.value = NoValue THEN 0 ELSE recovery.value) \in Nat
      BY <2>1
    <3> QED
      BY <3>1, <3>2, Zenon
  <2> QED
    BY <2>2, <2>3
<1> QED
  BY <1>1, <1>2, <1>3

\* Every step keeps the books in order.
LEMMA BooksStep == BooksInv /\ [Next]_vars => BooksInv'
<1> SUFFICES ASSUME BooksInv, [Next]_vars PROVE BooksInv'
  OBVIOUS
<1>t. TypeOK' /\ TypeOK
  BY TypeStep DEF BooksInv
<1>n. refunded \in Nat /\ paid \in Nat
  BY <1>t DEF TypeOK
<1> USE DEF row, books
<1>1. CASE (\E k \in Deleters : Settle(k)) \/ RecoverySettles
  BY <1>1, <1>t, Settles, Settled
<1>2. ASSUME NEW k \in Deleters,
             \/ Claim(k) \/ QuoteRefund(k) \/ Remove(k) \/ Mark(k)
             \/ BatchMarksDeleted(k) \/ Restore(k) \/ RequestFails(k)
      PROVE  BooksInv'
  <2> USE DEF OthersRest, Goto, Advance, End, Idle
  <2>0. \A j \in Deleters : request[j].at \in {"removed", "marked"} => power = "absent"
    BY DEF BooksInv, SeenRemoved
  <2>1. request \in [Deleters -> Requests]
    BY <1>t DEF TypeOK
  <2>2. \A j \in Deleters : request'[j].at \in {"removed", "marked"} =>
            request[j].at \in {"removed", "marked"} \/ power' = "absent"
    <3>1. \A j \in Deleters : j # k => request'[j] = request[j]
      BY <1>2, <2>1 DEF Claim, QuoteRefund, Remove, Mark, BatchMarksDeleted, Restore, RequestFails
    <3>2. CASE Remove(k) \/ Mark(k)
      BY <2>1, <3>1, <3>2 DEF Remove, Mark
    <3>3. CASE RequestFails(k)
      BY <2>1, <3>1, <3>3 DEF RequestFails
    <3>4. CASE \/ Claim(k) \/ QuoteRefund(k) \/ BatchMarksDeleted(k) \/ Restore(k)
      <4>1. request'[k].at \notin {"removed", "marked"}
        <5>1. CASE Claim(k)
          BY <2>1, <5>1 DEF Claim
        <5>2. CASE QuoteRefund(k)
          <6>1. PICK n : Goto(k, "quoted", n)
            BY <5>2 DEF QuoteRefund
          <6> QED
            BY <2>1, <6>1
        <5>3. CASE BatchMarksDeleted(k) \/ Restore(k)
          <6>1. request' = [request EXCEPT ![k] = Idle]
            BY <5>3, Zenon DEF BatchMarksDeleted, Restore, End
          <6> QED
            BY <2>1, <6>1
        <5> QED
          BY <3>4, <5>1, <5>2, <5>3
      <4> QED
        BY <3>1, <4>1
    <3> QED
      BY <1>2, <3>2, <3>3, <3>4
  <2>3. /\ UNCHANGED <<refunded, settled, destroyed, paid, recovery>>
        /\ power = "absent" => power' = "absent"
    BY <1>2 DEF Claim, QuoteRefund, Remove, Mark, BatchMarksDeleted, Restore, RequestFails
  <2>4. remote' => remote \/ power' = "absent"
    BY <1>2, <2>0 DEF Claim, QuoteRefund, Remove, Mark, BatchMarksDeleted, Restore,
       RequestFails, ClearDeletion
  <2> QED
    BY <1>t, <1>n, <2>2, <2>3, <2>4, Untouched
<1>3. CASE RecoveryLists \/ RecoveryRemoves \/ RecoveryMarks \/ RecoveryFails
  <2>1. recovery'.at \in {"removed", "marked"} =>
            recovery.at \in {"removed", "marked"} \/ power' = "absent"
    <3>1. CASE RecoveryLists \/ RecoveryFails
      BY <3>1 DEF RecoveryLists, RecoveryFails, Waiting
    <3>2. CASE RecoveryRemoves
      BY <3>2 DEF RecoveryRemoves
    <3>3. CASE RecoveryMarks
      BY <3>3 DEF RecoveryMarks
    <3> QED
      BY <1>3, <3>1, <3>2, <3>3
  <2>2. /\ UNCHANGED <<refunded, settled, destroyed, paid, request>>
        /\ power = "absent" => power' = "absent"
    BY <1>3 DEF RecoveryLists, RecoveryRemoves, RecoveryMarks, RecoveryFails, RecoveryRest
  <2>3. remote' => remote \/ power' = "absent"
    <3>1. recovery.at = "removed" => power = "absent"
      BY DEF BooksInv, SeenRemoved
    <3>2. CASE RecoveryMarks
      BY <3>1, <3>2 DEF RecoveryMarks
    <3>3. CASE RecoveryLists \/ RecoveryRemoves \/ RecoveryFails
      BY <3>3 DEF RecoveryLists, RecoveryRemoves, RecoveryFails
    <3> QED
      BY <1>3, <3>2, <3>3
  <2> QED
    BY <1>t, <1>n, <2>1, <2>2, <2>3, Untouched
<1>4. CASE \/ SuspendBegins \/ SuspendCommits \/ SuspendFails \/ LateStop
           \/ ExpiryLists \/ ExpiryStep \/ ExpiryFails
  <2>1. /\ UNCHANGED <<refunded, settled, destroyed, paid, request, recovery>>
        /\ power = "absent" => power' = "absent"
    BY <1>4 DEF SuspendBegins, SuspendCommits, SuspendFails, LateStop, SuspendRest, ExpiryLists,
       ExpiryStep, ExpiryClaims, ExpiryRemoves, ExpiryFinishes, ExpiryRestores, ExpiryFails,
       ExpiryRest
  <2>2. remote' => remote
    BY <1>4 DEF SuspendBegins, SuspendCommits, SuspendFails, LateStop, ExpiryLists, ExpiryStep,
       ExpiryClaims, ExpiryRemoves, ExpiryFinishes, ExpiryRestores, ExpiryFails, ClearDeletion
  <2> QED
    BY <1>t, <1>n, <2>1, <2>2, Untouched
<1>5. ASSUME NEW p \in Payers, BeginPayment(p) \/ Renew(p) \/ Extend(p) \/ PaymentFails(p)
      PROVE  BooksInv'
  <2>1. /\ UNCHANGED <<refunded, settled, destroyed, request, recovery, power, remote>>
        /\ paid' = paid \/ paid' = paid + Price
    BY <1>5 DEF BeginPayment, Renew, Extend, PaymentFails, PaymentRest
  <2>2. paid' >= paid
    BY <1>n, <2>1, PrepaidAssumption
  <2> QED
    BY <1>t, <2>1, <2>2, Untouched
<1>6. CASE RefundByHand
  <2>1. PICK n \in Amounts : n <= MaxRefundable /\ refunded' = refunded + n
    BY <1>6 DEF RefundByHand
  <2>2. refunded' <= paid
    BY <1>n, <2>1, PrepaidAssumption DEF MaxRefundable
  <2>3. UNCHANGED <<paid, settled, destroyed, power, remote, request, recovery>>
    BY <1>6 DEF RefundByHand, places
  <2> QED
    BY <1>t, <2>2, <2>3 DEF BooksInv, SeenRemoved
<1>7. CASE \/ SuspendRequest \/ SuspendManually \/ Unsuspend
           \/ StartRequest \/ TaskPowersOn \/ TaskWrites \/ TaskFails
           \/ SyncStatus \/ Tick \/ Age \/ UNCHANGED vars
  <2>1. /\ UNCHANGED <<refunded, settled, destroyed, paid, request, recovery, remote>>
        /\ power = "absent" => power' = "absent"
    BY <1>7 DEF SuspendRequest, SuspendManually, Unsuspend, StartRequest, TaskPowersOn,
       TaskWrites, TaskFails, SyncStatus, Tick, Age, places, vars
  <2> QED
    BY <1>t, <1>n, <2>1, Untouched
<1>8. CASE Crash
  <2>1. /\ UNCHANGED <<refunded, settled, destroyed, paid, remote>>
        /\ recovery'.at \notin {"removed", "marked"}
        /\ \A k \in Deleters : request'[k].at \notin {"removed", "marked"}
        /\ power = "absent" => power' = "absent"
    BY <1>8 DEF Crash, Idle, Waiting
  <2> QED
    BY <1>t, <1>n, <2>1, Untouched
<1> QED
  BY <1>1, <1>2, <1>3, <1>4, <1>5, <1>6, <1>7, <1>8 DEF Next, DeletionStep, RecoveryStep

\* Nothing is settled or removed at first.
LEMMA BooksInit == Init => BooksInv
<1> SUFFICES ASSUME Init PROVE BooksInv
  OBVIOUS
<1>1. Idle \in Requests /\ Waiting \in Recoveries
  BY DEF Idle, Waiting, Requests, Recoveries, Statuses, Modes, Value
<1>2. TypeOK
  <2>1. periods \in Seq(BOOLEAN) /\ paid \in Nat
    BY PrepaidAssumption DEF Init
  <2>2. request \in [Deleters -> Requests] /\ recovery \in Recoveries
    BY <1>1 DEF Init
  <2> QED
    BY <2>1, <2>2 DEF Init, TypeOK, Statuses, Modes, Value
<1>3. ~SeenRemoved
  BY DEF Init, SeenRemoved, Idle, Waiting, Modes
<1> QED
  BY <1>2, <1>3, PrepaidAssumption DEF Init, BooksInv, Modes

\* The books are always in order.
THEOREM BooksCorrect == Spec => []BooksInv
<1> QED
  BY BooksInit, BooksStep, PTL DEF Spec

\* Every variable of the model keeps its type, whatever the routes and jobs do to the row.
THEOREM TypeCorrect == Spec => []TypeOK
<1>1. BooksInv => TypeOK
  BY DEF BooksInv
<1> QED
  BY <1>1, BooksCorrect, PTL

\* However the settlements, the recovery, the refunds by hand and the purchases interleave,
\* the billing records of refunds never exceed those of payments: every refund is capped
\* again, under the lock, by what is left.
THEOREM RefundsWithinPayments == Spec => []RefundWithinPaid
<1>1. BooksInv => RefundWithinPaid
  BY DEF BooksInv, RefundWithinPaid
<1> QED
  BY <1>1, BooksCorrect, PTL

\* The owner's destruction is settled once, however often the request and the recovery
\* reach the settlement: the UserDestroyRecord outlives claims, restores and crashes.
THEOREM DestructionSettledOnce == Spec => []DestroySettledOnce
<1>1. BooksInv => DestroySettledOnce
  BY DEF BooksInv, DestroySettledOnce
<1> QED
  BY <1>1, BooksCorrect, PTL

\* A refund of a deletion is made only once Incus no longer has the instance, and no step
\* brings it back.
THEOREM RefundsAfterRemoval == Spec => []RefundAfterRemoval
<1>1. BooksInv => RefundAfterRemoval
  <2> SUFFICES ASSUME BooksInv, remote \/ settled["user_destroy"] + settled["privileged_delete"] > 0
               PROVE  power = "absent"
    BY DEF RefundAfterRemoval
  <2>1. settled["user_destroy"] \in Nat /\ settled["privileged_delete"] \in Nat
    BY DEF BooksInv, TypeOK, Modes
  <2> QED
    BY <2>1 DEF BooksInv, SeenRemoved
<1> QED
  BY <1>1, BooksCorrect, PTL

------------------------------------------------------------------------------
(* Renewal by the job. *)

\* As long as the row is as the renewal job read it, at most its last period is left.
AutoReads == "auto" \in unchanged => Len(periods) <= 1

\* What a step does to the readers of the row and to the paid periods: it adds none but
\* the expiry job and at most takes a period, or it leaves no payer a reader, or it is the
\* first step of a payment.
LEMMA ReadersStep ==
    TypeOK /\ [Next]_vars =>
        \/ /\ unchanged' \subseteq unchanged \cup {"expiry"}
           /\ periods' = periods \/ (periods # <<>> /\ periods' = Tail(periods))
        \/ unchanged' \subseteq {"expiry"}
        \/ \E p \in Payers : BeginPayment(p)
<1> SUFFICES ASSUME TypeOK, [Next]_vars, ~\E p \in Payers : BeginPayment(p)
             PROVE  \/ /\ unchanged' \subseteq unchanged \cup {"expiry"}
                       /\ periods' = periods \/ (periods # <<>> /\ periods' = Tail(periods))
                    \/ unchanged' \subseteq {"expiry"}
  OBVIOUS
<1> USE DEF row, books, Bump
<1>1. ASSUME NEW k \in Deleters, Claim(k) \/ DeletionStep(k) \/ RequestFails(k)
      PROVE  periods' = periods /\ (unchanged' = unchanged \/ unchanged' = {})
  <2>1. CASE Claim(k) \/ QuoteRefund(k) \/ Remove(k) \/ Mark(k)
    BY <2>1 DEF Claim, QuoteRefund, Remove, Mark
  <2>2. CASE Settle(k)
    BY <2>2 DEF Settle, SettleDestroy, SettlePrivileged
  <2>3. CASE BatchMarksDeleted(k) \/ Restore(k) \/ RequestFails(k)
    BY <2>3 DEF BatchMarksDeleted, Restore, RequestFails
  <2> QED
    BY <1>1, <2>1, <2>2, <2>3 DEF DeletionStep
<1>2. CASE RecoveryStep \/ RecoveryFails
  <2>1. CASE RecoverySettles
    BY <2>1 DEF RecoverySettles, SettleDestroy, SettlePrivileged
  <2>2. CASE RecoveryLists \/ RecoveryRemoves \/ RecoveryMarks \/ RecoveryFails
    BY <2>2 DEF RecoveryLists, RecoveryRemoves, RecoveryMarks, RecoveryFails
  <2> QED
    BY <1>2, <2>1, <2>2 DEF RecoveryStep
<1>3. CASE SuspendBegins \/ SuspendCommits \/ SuspendFails \/ LateStop
  BY <1>3 DEF SuspendBegins, SuspendCommits, SuspendFails, LateStop, SuspendRest
<1>4. CASE ExpiryLists \/ ExpiryStep \/ ExpiryFails
  BY <1>4 DEF ExpiryLists, ExpiryStep, ExpiryClaims, ExpiryRemoves, ExpiryFinishes,
     ExpiryRestores, ExpiryFails, ExpiryRest
<1>5. ASSUME NEW p \in Payers, Renew(p) \/ Extend(p) \/ PaymentFails(p)
      PROVE  unchanged' = {} \/ UNCHANGED <<unchanged, periods>>
  BY <1>5 DEF Renew, Extend, PaymentFails
<1>6. CASE SuspendRequest \/ SuspendManually \/ Unsuspend \/ RefundByHand
  BY <1>6 DEF SuspendRequest, SuspendManually, Unsuspend, RefundByHand
<1>7. CASE StartRequest \/ TaskPowersOn \/ TaskWrites \/ TaskFails
  BY <1>7 DEF StartRequest, TaskPowersOn, TaskWrites, TaskFails
<1>8. CASE SyncStatus \/ Tick \/ Age \/ Crash \/ UNCHANGED vars
  BY <1>8 DEF SyncStatus, Tick, Age, Crash, vars
<1> QED
  BY <1>1, <1>2, <1>3, <1>4, <1>5, <1>6, <1>7, <1>8 DEF Next

\* Whoever renews, extends or changes the row between the reading and the purchase of the
\* renewal job, the job buys only when at most the last period is left: the version it
\* compares was read with that period, and every purchase of another increments it.
THEOREM AutoRenewsOnce == Spec => AutoRenewsLastPeriod
<1>1. Init => AutoReads
  BY DEF Init, AutoReads
<1>2. TypeOK /\ AutoReads /\ [Next]_vars => AutoReads'
  <2> SUFFICES ASSUME TypeOK, AutoReads, [Next]_vars PROVE AutoReads'
    OBVIOUS
  <2>1. CASE /\ unchanged' \subseteq unchanged \cup {"expiry"}
             /\ periods' = periods \/ (periods # <<>> /\ periods' = Tail(periods))
    <3>1. Len(periods') <= Len(periods)
      BY <2>1 DEF TypeOK
    <3>2. Len(periods') \in Nat /\ Len(periods) \in Nat
      BY <2>1 DEF TypeOK
    <3> QED
      BY <2>1, <3>1, <3>2 DEF AutoReads
  <2>2. CASE unchanged' \subseteq {"expiry"}
    BY <2>2 DEF AutoReads
  <2>3. ASSUME NEW p \in Payers, BeginPayment(p) PROVE AutoReads'
    BY <2>3 DEF BeginPayment, AutoReads, books
  <2> QED
    BY <2>1, <2>2, <2>3, ReadersStep
<1>3. AutoReads => \A p \in Payers : p = "auto" /\ Renew(p) => Len(periods) <= 1
  BY DEF AutoReads, Renew, Current
<1> QED
  BY <1>1, <1>2, <1>3, TypeCorrect, PTL DEF Spec, AutoRenewsLastPeriod

------------------------------------------------------------------------------
(* The abstract ledger. *)

LedgerNext == Ledger!Buy \/ Ledger!Refund \/ Ledger!Remove \/ Ledger!Close

\* Steps that leave the books alone and bring nothing back are removals or stutters.
LEMMA QuietStep ==
    ASSUME UNCHANGED <<paid, refunded, destroyed>>, power = "absent" => power' = "absent"
    PROVE  [LedgerNext]_(Ledger!ledger)
<1>1. CASE power # "absent" /\ power' = "absent"
  BY <1>1 DEF LedgerNext, Ledger!Remove
<1>2. CASE (power # "absent") = (power' # "absent")
  BY <1>2 DEF Ledger!ledger
<1> QED
  BY <1>1, <1>2

\* A settlement refunds, or closes the account of the owner's destruction, or does nothing.
LEMMA SettlementStep ==
    ASSUME BooksInv, UNCHANGED power, power = "absent",
           NEW v \in Nat, SettleDestroy(v) \/ SettlePrivileged(v)
    PROVE  [LedgerNext]_(Ledger!ledger)
<1>1. refunded' \in refunded..paid /\ paid' = paid
  BY SettleTypes DEF BooksInv
<1>2. CASE SettlePrivileged(v)
  BY <1>1, <1>2 DEF SettlePrivileged, LedgerNext, Ledger!Refund
<1>3. CASE SettleDestroy(v) /\ ~destroyed
  <2>1. destroyed' = TRUE
    BY <1>3 DEF SettleDestroy
  <2> QED
    BY <1>1, <1>3, <2>1 DEF LedgerNext, Ledger!Close
<1>4. CASE SettleDestroy(v) /\ destroyed
  <2>1. UNCHANGED <<refunded, destroyed>>
    BY <1>4 DEF SettleDestroy
  <2> QED
    BY <1>1, <2>1 DEF Ledger!ledger
<1> QED
  BY <1>2, <1>3, <1>4

\* Every step is a step of the ledger.
LEMMA LedgerStep == BooksInv /\ BooksInv' /\ [Next]_vars => [LedgerNext]_(Ledger!ledger)
<1> SUFFICES ASSUME BooksInv, BooksInv', [Next]_vars PROVE [LedgerNext]_(Ledger!ledger)
  OBVIOUS
<1>n. refunded \in Nat /\ paid \in Nat /\ refunded' \in Nat /\ paid' \in Nat /\ refunded' <= paid'
  BY DEF BooksInv, TypeOK
<1> USE DEF row, books
<1>1. CASE (\E k \in Deleters : Settle(k)) \/ RecoverySettles
  BY <1>1, Settles, SettlementStep
<1>2. ASSUME NEW k \in Deleters,
             \/ Claim(k) \/ QuoteRefund(k) \/ Remove(k) \/ Mark(k)
             \/ BatchMarksDeleted(k) \/ Restore(k) \/ RequestFails(k)
      PROVE  [LedgerNext]_(Ledger!ledger)
  <2>1. UNCHANGED <<paid, refunded, destroyed>> /\ (power = "absent" => power' = "absent")
    BY <1>2 DEF Claim, QuoteRefund, Remove, Mark, BatchMarksDeleted, Restore, RequestFails
  <2> QED
    BY <2>1, QuietStep
<1>3. CASE \/ RecoveryLists \/ RecoveryRemoves \/ RecoveryMarks \/ RecoveryFails
           \/ SuspendBegins \/ SuspendCommits \/ SuspendFails \/ LateStop
           \/ ExpiryLists \/ ExpiryStep \/ ExpiryFails
  <2>1. UNCHANGED <<paid, refunded, destroyed>> /\ (power = "absent" => power' = "absent")
    BY <1>3 DEF RecoveryLists, RecoveryRemoves, RecoveryMarks, RecoveryFails,
       SuspendBegins, SuspendCommits, SuspendFails, LateStop, ExpiryLists, ExpiryStep,
       ExpiryClaims, ExpiryRemoves, ExpiryFinishes, ExpiryRestores, ExpiryFails
  <2> QED
    BY <2>1, QuietStep
<1>4. ASSUME NEW p \in Payers, BeginPayment(p) \/ Renew(p) \/ Extend(p) \/ PaymentFails(p)
      PROVE  [LedgerNext]_(Ledger!ledger)
  <2>1. /\ UNCHANGED <<refunded, destroyed, power>>
        /\ paid' = paid \/ paid' = paid + Price
    BY <1>4 DEF BeginPayment, Renew, Extend, PaymentFails
  <2>2. paid' >= paid
    BY <1>n, <2>1, PrepaidAssumption
  <2> QED
    BY <1>n, <2>1, <2>2 DEF LedgerNext, Ledger!Buy
<1>5. CASE RefundByHand
  <2>1. PICK n \in Amounts : refunded' = refunded + n
    BY <1>5 DEF RefundByHand
  <2>2. UNCHANGED <<paid, destroyed, power>>
    BY <1>5 DEF RefundByHand
  <2>3. refunded' \in refunded..paid
    BY <1>n, <2>1, <2>2, PrepaidAssumption
  <2> QED
    BY <2>2, <2>3 DEF LedgerNext, Ledger!Refund
<1>6. CASE \/ SuspendRequest \/ SuspendManually \/ Unsuspend
           \/ StartRequest \/ TaskPowersOn \/ TaskWrites \/ TaskFails
           \/ SyncStatus \/ Tick \/ Age \/ Crash \/ UNCHANGED vars
  <2>1. UNCHANGED <<paid, refunded, destroyed>> /\ (power = "absent" => power' = "absent")
    BY <1>6 DEF SuspendRequest, SuspendManually, Unsuspend, StartRequest, TaskPowersOn,
       TaskWrites, TaskFails, SyncStatus, Tick, Age, Crash, vars
  <2> QED
    BY <2>1, QuietStep
<1> QED
  BY <1>1, <1>2, <1>3, <1>4, <1>5, <1>6 DEF Next, DeletionStep, RecoveryStep

\* The model implements the ledger: payments only grow, each refund is covered by them,
\* and the owner's destruction is settled once and after the removal.
THEOREM LedgerImplemented == Spec => LedgerSpec
<1>1. Init => Ledger!Open
  BY PrepaidAssumption DEF Init, Ledger!Open
<1> QED
  BY <1>1, LedgerStep, BooksCorrect, PTL DEF Spec, LedgerSpec, Ledger!LedgerSpec, LedgerNext

\* So the books only go forward, whatever is restored, recovered or repeated: no payment
\* and no refund is taken back, an instance that is gone stays gone, and the owner's
\* destruction stays settled.
BooksGoForward ==
    [][/\ paid <= paid' /\ refunded <= refunded'
       /\ power = "absent" => power' = "absent"
       /\ destroyed => destroyed']_(Ledger!ledger)

\* It follows from the refinement: every step of PrepaidLedger goes forward (deletions,
\* restores, the recovery and the payments of Prepaid).
THEOREM NothingTakenBack == Spec => BooksGoForward
<1>1. BooksInv /\ [LedgerNext]_(Ledger!ledger) =>
        [/\ paid <= paid' /\ refunded <= refunded'
         /\ power = "absent" => power' = "absent"
         /\ destroyed => destroyed']_(Ledger!ledger)
  BY DEF BooksInv, TypeOK, LedgerNext, Ledger!Buy, Ledger!Refund, Ledger!Remove, Ledger!Close,
     Ledger!ledger
<1> QED
  BY <1>1, BooksCorrect, LedgerImplemented, PTL
     DEF LedgerSpec, Ledger!LedgerSpec, LedgerNext, BooksGoForward
==============================================================================
