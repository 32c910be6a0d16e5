------------------------- MODULE HourlyBillingProofs -------------------------
(* Proofs about HourlyBilling, for every set of users, quantum and bound. *)
EXTENDS HourlyBilling, TLAPS

\* Rounding up to the quantum (ceilToQuantum) gives at least the amount, and less than a
\* quantum more.
LEMMA CeilCovers ==
    ASSUME NEW n \in Nat
    PROVE  /\ CeilToQuantum(n) \in Nat /\ CeilToQuantum(n) >= n
           /\ CeilToQuantum(n) < n + reserveQuantum
<1> DEFINE q == reserveQuantum
           x == n + q - 1
           k == x \div q
<1>1. q \in Nat /\ q > 0
  BY BillingAssumption
<1>2. x \in Nat
  BY <1>1
<1> HIDE DEF x, q
<1>3. k \in Nat /\ (x % q) \in 0..(q - 1) /\ x = (q * k) + (x % q)
  BY <1>1, <1>2, Z3
<1>4. k * q >= x - (q - 1) /\ k * q \in Nat /\ k * q <= x
  BY <1>1, <1>2, <1>3
<1> QED
  BY <1>1, <1>4 DEF CeilToQuantum, x, q

\* What settleInTransaction may work out: it charges no more time than passed,
\* splits the charge into paid and unpaid, reserves no more than the balance, and
\* leaves something unpaid only when the prepayment is used up.
LEMMA SettlementFacts ==
    ASSUME TypeOK, NEW c \in Settlements
    PROVE  /\ c.seconds \in Nat /\ c.added \in Nat /\ c.paid \in Nat /\ c.unpaid \in Nat
           /\ c.seconds = c.paid + c.unpaid
           /\ c.paid <= prepaid + c.added
           /\ c.unpaid > 0 => c.paid = prepaid + c.added
           /\ c.added <= balance[owner]
           /\ c.seconds <= since
           /\ account # "active" => c.seconds = 0 /\ c.added = 0
<1>1. CASE account # "active"
  <2>1. c = NoSettlement
    BY <1>1 DEF Settlements
  <2> QED
    BY <1>1, <2>1 DEF NoSettlement, TypeOK
<1>2. CASE account = "active"
  <2>1. PICK s \in 0..since : c = Settlement(s)
    BY <1>2 DEF Settlements
  <2> DEFINE added == IF s > prepaid THEN Reserved(CeilToQuantum(s - prepaid)) ELSE 0
             paid == Lesser(prepaid + added, s)
  <2>2. s \in Nat /\ s <= since /\ prepaid \in Nat /\ balance[owner] \in Nat
    BY DEF TypeOK
  <2>3. added \in Nat /\ added <= balance[owner]
    <3>1. CASE s > prepaid
      <4>1. s - prepaid \in Nat
        BY <2>2, <3>1
      <4>2. CeilToQuantum(s - prepaid) \in Nat
        BY <4>1, CeilCovers
      <4> QED
        BY <2>2, <3>1, <4>2 DEF Reserved
    <3>2. CASE ~(s > prepaid)
      BY <2>2, <3>2
    <3> QED
      BY <3>1, <3>2
  <2>4. paid \in Nat /\ paid <= s /\ paid <= prepaid + added
        /\ (s - paid > 0 => paid = prepaid + added)
    BY <2>2, <2>3 DEF Lesser
  <2>5. /\ c.seconds = s /\ c.added = added /\ c.paid = paid /\ c.unpaid = s - paid
    BY <2>1 DEF Settlement
  <2> HIDE DEF added, paid
  <2> QED
    BY <1>2, <2>2, <2>3, <2>4, <2>5
<1> QED
  BY <1>1, <1>2

\* A settlement of no time is one of them: the refund of a failed creation writes
\* it, whatever the account's status.
LEMMA NothingSettled ==
    ASSUME TypeOK
    PROVE  NoSettlement \in Settlements
<1>1. prepaid \in Nat /\ since \in Nat
  BY DEF TypeOK
<1>2. Settlement(0) = NoSettlement
  BY <1>1 DEF Settlement, NoSettlement, Lesser
<1>3. 0 \in 0..since
  BY <1>1
<1> QED
  BY <1>2, <1>3 DEF Settlements

\* Writing a settlement keeps the books of the account, whatever part n of the
\* remaining prepayment stays on it.
LEMMA PostKeepsBooks ==
    ASSUME AccountInv, NEW c \in Settlements, NEW n \in Nat,
           n <= prepaid + c.added - c.paid, Post(c, n)
    PROVE  /\ prepaid' = n /\ owner' = owner /\ activeTime' = activeTime
           /\ outstanding' = outstanding + c.unpaid
           /\ prepaid' \in Nat /\ outstanding' \in Nat
           /\ totalCost' \in Nat /\ totalReserved' \in Nat /\ totalReleased' \in Nat
           /\ since' \in Nat /\ income' \in Nat /\ activeTime' \in Nat
           /\ pending' \in BOOLEAN
           /\ balance' \in [Users -> Nat] /\ frozen' \in [Users -> Int]
           /\ funds' \in [Users -> Int] /\ owner' \in Users
           /\ LedgerBalanced' /\ IncomeIsPaid' /\ DebtRecorded'
           /\ totalCost' + since' = totalCost + since
           /\ totalCost' <= activeTime'
           /\ account # "active" => totalCost' = totalCost
<1>1. TypeOK /\ LedgerBalanced /\ IncomeIsPaid /\ DebtRecorded /\ PausedTimeFree
  BY DEF AccountInv
<1>2. /\ c.seconds \in Nat /\ c.added \in Nat /\ c.paid \in Nat /\ c.unpaid \in Nat
      /\ c.seconds = c.paid + c.unpaid
      /\ c.paid <= prepaid + c.added
      /\ c.added <= balance[owner]
      /\ c.seconds <= since
      /\ account # "active" => c.seconds = 0 /\ c.added = 0
  BY <1>1, SettlementFacts
<1> DEFINE released == prepaid + c.added - c.paid - n
<1>3. released \in Nat
  BY <1>1, <1>2 DEF TypeOK
<1>4. /\ prepaid' = n /\ owner' = owner /\ activeTime' = activeTime /\ funds' = funds
      /\ outstanding' = outstanding + c.unpaid
      /\ totalCost' = totalCost + c.seconds
      /\ totalReserved' = totalReserved + c.added
      /\ totalReleased' = totalReleased + released
      /\ since' = since - c.seconds
      /\ pending' = (pending \/ c.unpaid > 0)
      /\ income' = income + c.paid
      /\ balance' = [balance EXCEPT ![owner] = @ - c.added + released]
      /\ frozen' = [frozen EXCEPT ![owner] = @ + c.added - c.paid - released]
  BY DEF Post, Records
<1> HIDE DEF released
<1>5. balance' \in [Users -> Nat] /\ frozen' \in [Users -> Int]
  <2>1. balance[owner] - c.added + released \in Nat
    BY <1>1, <1>2, <1>3 DEF TypeOK
  <2>2. frozen[owner] + c.added - c.paid - released \in Int
    BY <1>1, <1>2, <1>3 DEF TypeOK
  <2> QED
    BY <1>1, <1>4, <2>1, <2>2 DEF TypeOK
<1>6. /\ outstanding' \in Nat /\ totalCost' \in Nat /\ totalReserved' \in Nat
      /\ totalReleased' \in Nat /\ since' \in Nat /\ income' \in Nat
  BY <1>1, <1>2, <1>3, <1>4 DEF TypeOK
<1>7. pending' \in BOOLEAN
  BY <1>1, <1>4, Zenon DEF TypeOK
<1>8. LedgerBalanced'
  BY <1>1, <1>2, <1>3, <1>4 DEF LedgerBalanced, TypeOK, released
<1>9. IncomeIsPaid'
  BY <1>1, <1>2, <1>4 DEF IncomeIsPaid, TypeOK
<1>10. DebtRecorded'
  <2>1. outstanding' > 0 <=> (outstanding > 0 \/ c.unpaid > 0)
    BY <1>1, <1>2, <1>4 DEF TypeOK
  <2> QED
    BY <1>1, <1>4, <2>1, Zenon DEF DebtRecorded
<1>11. /\ totalCost' + since' = totalCost + since
       /\ totalCost' <= activeTime'
       /\ account # "active" => totalCost' = totalCost
  BY <1>1, <1>2, <1>4 DEF TypeOK, PausedTimeFree
<1> QED
  BY <1>1, <1>4, <1>5, <1>6, <1>7, <1>8, <1>9, <1>10, <1>11 DEF TypeOK

\* The transactions that write a settlement keep the invariant of the account.
LEMMA PostStep ==
    ASSUME AccountInv, NEW c \in Settlements, NEW n \in Nat,
           n <= prepaid + c.added - c.paid, Post(c, n),
           instance' \in Statuses \ {"none"},
           \/ account = "active" /\ account' = "active" /\ c.unpaid = 0
           \/ account' = "suspended" /\ n = 0
           \/ account' = "paused" /\ n = 0
           \/ account' = "closed" /\ n = 0
    PROVE  AccountInv'
<1>1. TypeOK /\ DebtStopsAccount /\ PausedTimeFree
  BY DEF AccountInv
<1>2. /\ prepaid' = n /\ activeTime' = activeTime /\ outstanding' = outstanding + c.unpaid
      /\ totalCost' + since' = totalCost + since
      /\ totalCost' <= activeTime'
      /\ LedgerBalanced' /\ IncomeIsPaid' /\ DebtRecorded'
  BY PostKeepsBooks
<1>3. TypeOK'
  BY PostKeepsBooks DEF TypeOK
<1>4. DebtStopsAccount'
  BY <1>1, <1>2, SettlementFacts DEF DebtStopsAccount, TypeOK
<1>5. PausedTimeFree'
  <2>1. account' = "active" => account = "active"
    OBVIOUS
  <2>2. totalCost' \in Nat /\ since' \in Nat
    BY <1>3 DEF TypeOK
  <2>3. CASE account' = "active"
    <3>1. totalCost + since <= activeTime
      BY <1>1, <2>1, <2>3 DEF PausedTimeFree
    <3>2. totalCost' + since' <= activeTime'
      BY <1>2, <3>1
    <3> QED
      BY <2>3, <3>2 DEF PausedTimeFree
  <2>4. CASE account' # "active"
    BY <1>2, <2>2, <2>4 DEF PausedTimeFree
  <2> QED
    BY <2>3, <2>4
<1>6. account' # "none"
  OBVIOUS
<1> QED
  BY <1>2, <1>3, <1>4, <1>5, <1>6 DEF AccountInv

\* Every step keeps the invariant of the account.
LEMMA AccountStep == AccountInv /\ [Next]_vars => AccountInv'
<1> SUFFICES ASSUME AccountInv, [Next]_vars
             PROVE  AccountInv'
  OBVIOUS
<1> USE DEF AccountInv
<1>q. reserveQuantum \in Nat /\ reserveQuantum > 0
  BY BillingAssumption
<1>t. TypeOK
  OBVIOUS
<1>1. CASE CreateInstance
  <2>1. balance[owner] - reserveQuantum \in Nat /\ frozen[owner] + reserveQuantum \in Int
    BY <1>1, <1>q DEF CreateInstance, TypeOK
  <2>2. TypeOK'
    BY <1>1, <1>q, <2>1 DEF CreateInstance, TypeOK, Statuses
  <2> QED
    BY <1>1, <1>q, <2>2 DEF CreateInstance, TypeOK, DebtStopsAccount, LedgerBalanced,
          IncomeIsPaid, PausedTimeFree, DebtRecorded
<1>2. CASE FailCreatingInstance
  <2>1. NoSettlement \in Settlements /\ Post(NoSettlement, 0)
    BY <1>2, <1>t, NothingSettled DEF FailCreatingInstance
  <2>2. 0 <= prepaid + NoSettlement.added - NoSettlement.paid
    BY <1>t DEF NoSettlement, TypeOK
  <2> QED
    BY <1>2, <2>1, <2>2, PostStep DEF FailCreatingInstance, Statuses
<1>3. CASE SettleHourlyInstance
  <2>1. PICK c \in Settlements :
          /\ Post(c, prepaid + c.added - c.paid)
          /\ account' = IF c.unpaid > 0 THEN "suspended" ELSE "active"
          /\ SuspendUnpaid(c)
    BY <1>3 DEF SettleHourlyInstance
  <2>2. /\ c.added \in Nat /\ c.paid \in Nat /\ c.unpaid \in Nat /\ prepaid \in Nat
        /\ c.paid <= prepaid + c.added
        /\ c.unpaid > 0 => c.paid = prepaid + c.added
    BY <1>t, SettlementFacts DEF TypeOK
  <2>3. account = "active" /\ instance' \in {"running", "suspended"}
    BY <1>3, <2>1 DEF SettleHourlyInstance, SuspendUnpaid, SuspendIf
  <2>4. \/ account' = "active" /\ c.unpaid = 0
        \/ account' = "suspended" /\ prepaid + c.added - c.paid = 0
    BY <2>1, <2>2
  <2>5. prepaid + c.added - c.paid \in Nat
    BY <2>2
  <2> QED
    BY <2>1, <2>3, <2>4, <2>5, PostStep DEF Statuses
<1>4. CASE SettleStopped
  BY <1>4 DEF SettleStopped, TypeOK, DebtStopsAccount, LedgerBalanced, IncomeIsPaid,
        PausedTimeFree, DebtRecorded, meter, wallets
<1>5. CASE ActivateRefused
  <2>1. instance' \in Statuses \ {"none"}
    BY <1>5, <1>t DEF ActivateRefused, SuspendIf, TypeOK, Statuses
  <2> QED
    BY <1>5, <2>1 DEF ActivateRefused, TypeOK, DebtStopsAccount, LedgerBalanced,
          IncomeIsPaid, PausedTimeFree, DebtRecorded, meter, wallets
<1>6. CASE ActivateHourlyBilling
  <2> DEFINE added == IF prepaid = 0 THEN Reserved(reserveQuantum) ELSE 0
  <2>1. added \in Nat /\ added <= balance[owner]
    BY <1>q, <1>t DEF Reserved, TypeOK
  <2>2. /\ instance' = instance /\ owner' = owner /\ account' = "active" /\ since' = 0
        /\ account = "paused" /\ outstanding = 0
        /\ prepaid' = prepaid + added /\ totalReserved' = totalReserved + added
        /\ balance' = [balance EXCEPT ![owner] = @ - added]
        /\ frozen' = [frozen EXCEPT ![owner] = @ + added]
        /\ UNCHANGED <<outstanding, totalCost, totalReleased, pending, income, funds,
                       activeTime>>
    BY <1>6 DEF ActivateHourlyBilling
  <2> HIDE DEF added
  <2>3. balance[owner] - added \in Nat /\ frozen[owner] + added \in Int
    BY <1>t, <2>1 DEF TypeOK
  <2>4. TypeOK'
    BY <1>t, <2>1, <2>2, <2>3 DEF TypeOK
  <2> QED
    BY <2>1, <2>2, <2>4 DEF TypeOK, DebtStopsAccount, LedgerBalanced, IncomeIsPaid,
          PausedTimeFree, DebtRecorded
<1>7. CASE ResumeHourlyBilling
  <2> DEFINE n == CeilToQuantum(outstanding + reserveQuantum)
  <2>1. n \in Nat /\ n >= outstanding
    <3>1. outstanding + reserveQuantum \in Nat /\ outstanding \in Nat
      BY <1>q, <1>t DEF TypeOK
    <3> QED
      BY <1>q, <3>1, CeilCovers
  <2>2. /\ instance' = instance /\ owner' = owner /\ account' = "paused" /\ since' = 0
        /\ account = "suspended" /\ n <= balance[owner]
        /\ prepaid' = n - outstanding /\ outstanding' = 0
        /\ totalReserved' = totalReserved + n
        /\ income' = income + outstanding
        /\ balance' = [balance EXCEPT ![owner] = @ - n]
        /\ frozen' = [frozen EXCEPT ![owner] = @ + n - outstanding]
        /\ UNCHANGED <<totalCost, totalReleased, funds, activeTime>>
    BY <1>7 DEF ResumeHourlyBilling
  <2> HIDE DEF n
  <2>p. ~pending'
    <3>1. pending' = (pending /\ outstanding = 0)
      BY <1>7 DEF ResumeHourlyBilling
    <3>2. outstanding > 0 => outstanding # 0
      BY <1>t DEF TypeOK
    <3> QED
      BY <3>1, <3>2, Zenon DEF DebtRecorded
  <2>3. /\ balance[owner] - n \in Nat /\ frozen[owner] + n - outstanding \in Int
        /\ n - outstanding \in Nat
    BY <1>t, <2>1, <2>2 DEF TypeOK
  <2>4. TypeOK'
    <3>1. pending' \in BOOLEAN
      <4>1. pending' = (pending /\ outstanding = 0)
        BY <1>7 DEF ResumeHourlyBilling
      <4> QED
        BY <4>1, Zenon
    <3>2. balance' \in [Users -> Nat] /\ frozen' \in [Users -> Int]
      BY <1>t, <2>2, <2>3 DEF TypeOK
    <3> QED
      BY <1>t, <2>1, <2>2, <2>3, <3>1, <3>2 DEF TypeOK
  <2>5. DebtRecorded'
    <3>1. ~(outstanding' > 0)
      BY <2>2
    <3> QED
      BY <2>p, <3>1, Zenon DEF DebtRecorded
  <2> QED
    BY <2>1, <2>2, <2>4, <2>5 DEF TypeOK, DebtStopsAccount, LedgerBalanced, IncomeIsPaid,
          PausedTimeFree
<1>8. CASE PauseHourlyBilling
  <2>1. PICK c \in Settlements : Post(c, 0) /\ SuspendUnpaid(c)
    BY <1>8 DEF PauseHourlyBilling
  <2>2. instance' \in Statuses \ {"none"} /\ account' = "paused"
    BY <1>8, <1>t, <2>1 DEF PauseHourlyBilling, SuspendUnpaid, SuspendIf, TypeOK, Statuses
  <2>3. 0 <= prepaid + c.added - c.paid
    BY <1>t, SettlementFacts DEF TypeOK
  <2> QED
    BY <2>1, <2>2, <2>3, PostStep
<1>9. CASE CloseHourlyBilling
  <2>1. PICK c \in Settlements : Post(c, 0) /\ SuspendUnpaid(c)
    BY <1>9 DEF CloseHourlyBilling
  <2>2. instance' \in Statuses \ {"none"} /\ account' = "closed"
    BY <1>9, <1>t, <2>1 DEF CloseHourlyBilling, SuspendUnpaid, SuspendIf, TypeOK, Statuses
  <2>3. 0 <= prepaid + c.added - c.paid
    BY <1>t, SettlementFacts DEF TypeOK
  <2> QED
    BY <2>1, <2>2, <2>3, PostStep
<1>10. ASSUME NEW s \in {"creating", "running", "stopped", "barred", "deleted"}, WriteStatus(s)
       PROVE  AccountInv'
  BY <1>10 DEF WriteStatus, TypeOK, Statuses, DebtStopsAccount, LedgerBalanced,
        IncomeIsPaid, PausedTimeFree, DebtRecorded, meter, wallets
<1>11. ASSUME NEW u \in Users, TransferInstance(u)
       PROVE  AccountInv'
  BY <1>11 DEF TransferInstance, TypeOK, DebtStopsAccount, LedgerBalanced,
        IncomeIsPaid, PausedTimeFree, DebtRecorded, meter, wallets
<1>12. ASSUME NEW u \in Users, NEW n \in (0 - MaxFunds)..MaxFunds, UseWallet(u, n)
       PROVE  AccountInv'
  <2>1. n \in Int
    BY BillingAssumption
  <2>2. balance[u] + n \in Nat /\ funds[u] + n \in Int
    BY <1>12, <1>t, <2>1 DEF UseWallet, TypeOK
  <2> QED
    BY <1>12, <2>2 DEF UseWallet, TypeOK, DebtStopsAccount, LedgerBalanced,
          IncomeIsPaid, PausedTimeFree, DebtRecorded, meter
<1>13. CASE Tick
  <2>1. TypeOK'
    BY <1>13, <1>t DEF Tick, TypeOK, wallets
  <2> QED
    BY <1>13, <2>1 DEF Tick, TypeOK, DebtStopsAccount, LedgerBalanced, IncomeIsPaid,
          PausedTimeFree, DebtRecorded, wallets
<1>14. CASE UNCHANGED vars
  BY <1>14 DEF vars, TypeOK, DebtStopsAccount, LedgerBalanced, IncomeIsPaid,
        PausedTimeFree, DebtRecorded, meter, wallets
<1> QED
  BY <1>1, <1>2, <1>3, <1>4, <1>5, <1>6, <1>7, <1>8, <1>9, <1>10, <1>11, <1>12, <1>13,
     <1>14 DEF Next, Billing

\* Before the instance exists, every amount is zero.
LEMMA AccountInit == Init => AccountInv
<1> SUFFICES ASSUME Init
             PROVE  AccountInv
  OBVIOUS
<1>1. pending \in BOOLEAN /\ ~pending
  BY Zenon DEF Init
<1>2. TypeOK
  BY <1>1, BillingAssumption DEF Init, TypeOK, Statuses
<1>3. DebtRecorded
  BY <1>1 DEF Init, DebtRecorded
<1>4. DebtStopsAccount /\ LedgerBalanced /\ IncomeIsPaid /\ PausedTimeFree
  BY DEF Init, DebtStopsAccount, LedgerBalanced, IncomeIsPaid, PausedTimeFree
<1> QED
  BY <1>2, <1>3, <1>4 DEF Init, AccountInv

\* The account's books are right whatever order the callers come in: debts,
\* prepayment, income and billed time agree, for every owner.
THEOREM AccountInvariant == Spec => []AccountInv
<1> QED
  BY AccountInit, AccountStep, PTL DEF Spec

\* Every variable keeps its type: no amount of the account goes below zero.
THEOREM TypeCorrect == Spec => []TypeOK
<1>1. AccountInv => TypeOK
  BY DEF AccountInv
<1> QED
  BY <1>1, AccountInvariant, PTL

\* An account with a debt holds no prepayment and is not active: resumeHourlyBilling
\* loses nothing when it overwrites the prepayment.
THEOREM DebtorsStopped == Spec => []DebtStopsAccount
<1>1. AccountInv => DebtStopsAccount
  BY DEF AccountInv
<1> QED
  BY <1>1, AccountInvariant, PTL

\* The host's owner is credited what the user paid, and a debt when it is paid.
THEOREM IncomePaid == Spec => []IncomeIsPaid
<1>1. AccountInv => IncomeIsPaid
  BY DEF AccountInv
<1> QED
  BY <1>1, AccountInvariant, PTL

\* There is a pending record exactly as long as there is a debt.
THEOREM DebtsRecorded == Spec => []DebtRecorded
<1>1. AccountInv => DebtRecorded
  BY DEF AccountInv
<1> QED
  BY <1>1, AccountInvariant, PTL

\* What was reserved was consumed, released or is still prepaid.
THEOREM BooksBalance == Spec => []LedgerBalanced
<1>1. AccountInv => LedgerBalanced
  BY DEF AccountInv
<1> QED
  BY <1>1, AccountInvariant, PTL

\* No unit of time is charged twice, none while the account was not active.
THEOREM TimeChargedOnce == Spec => []PausedTimeFree
<1>1. AccountInv => PausedTimeFree
  BY DEF AccountInv
<1> QED
  BY <1>1, AccountInvariant, PTL

\* A pause, a settlement or an activation that comes after the account was
\* closed changes nothing.
THEOREM ClosedStaysClosed == Spec => ClosedForGood
<1> DEFINE Keeps == account = "closed" =>
               /\ account' = "closed"
               /\ UNCHANGED <<prepaid, totalCost, totalReserved, totalReleased, income,
                              frozen>>
<1>1. AccountInv /\ [Next]_vars => [Keeps]_vars
  <2> SUFFICES ASSUME AccountInv, Next, account = "closed"
               PROVE  Keeps
    OBVIOUS
  <2>1. prepaid = 0 /\ TypeOK
    BY DEF AccountInv, DebtStopsAccount
  <2>2. CASE FailCreatingInstance
    <3>1. account' = "closed" /\ Post(NoSettlement, 0)
      BY <2>2 DEF FailCreatingInstance
    <3> QED
      BY <2>1, <3>1 DEF Post, Records, NoSettlement, TypeOK
  <2> QED
    BY <2>2 DEF Next, Billing, CreateInstance, SettleHourlyInstance, SettleStopped,
       ActivateRefused, ActivateHourlyBilling, ResumeHourlyBilling,
       PauseHourlyBilling, CloseHourlyBilling, WriteStatus, TransferInstance, UseWallet,
       Tick, meter, wallets
<1> QED
  BY <1>1, AccountInvariant, PTL DEF Spec, ClosedForGood

\* Writing a settlement keeps the owner's wallet backed.
LEMMA PostKeepsWallet ==
    ASSUME AccountInv, WalletBacked, NEW c \in Settlements, NEW n \in Nat,
           n <= prepaid + c.added - c.paid, Post(c, n)
    PROVE  WalletBacked'
<1>1. TypeOK
  BY DEF AccountInv
<1>2. /\ c.seconds \in Nat /\ c.added \in Nat /\ c.paid \in Nat /\ c.unpaid \in Nat
      /\ c.seconds = c.paid + c.unpaid
  BY <1>1, SettlementFacts
<1> DEFINE released == prepaid + c.added - c.paid - n
<1>3. /\ prepaid' = n /\ owner' = owner /\ funds' = funds
      /\ outstanding' = outstanding + c.unpaid
      /\ totalCost' = totalCost + c.seconds
      /\ balance'[owner] = balance[owner] - c.added + released
      /\ frozen'[owner] = frozen[owner] + c.added - c.paid - released
  BY <1>1 DEF Post, Records, TypeOK
<1>4. released = prepaid + c.added - c.paid - n /\ released \in Int
  BY <1>1, <1>2 DEF TypeOK
<1> HIDE DEF released
<1> QED
  BY <1>1, <1>2, <1>3, <1>4 DEF WalletBacked, TypeOK

\* While the owner stays, every step keeps the wallet backed.
LEMMA WalletStep ==
    AccountInv /\ WalletBacked /\ [Next /\ UNCHANGED owner]_vars => WalletBacked'
<1> SUFFICES ASSUME AccountInv, WalletBacked, [Next /\ UNCHANGED owner]_vars
             PROVE  WalletBacked'
  OBVIOUS
<1>t. TypeOK /\ DebtStopsAccount
  BY DEF AccountInv
<1>q. reserveQuantum \in Nat
  BY BillingAssumption
<1>p. \A c \in Settlements :
        /\ c.added \in Nat /\ c.paid \in Nat
        /\ prepaid + c.added - c.paid \in Nat
  BY <1>t, SettlementFacts DEF TypeOK
<1>1. CASE CreateInstance
  BY <1>1, <1>t, <1>q DEF CreateInstance, WalletBacked, TypeOK, AccountInv
<1>2. CASE FailCreatingInstance
  <2>1. NoSettlement \in Settlements /\ Post(NoSettlement, 0)
    BY <1>2, <1>t, NothingSettled DEF FailCreatingInstance
  <2> QED
    BY <1>p, <2>1, PostKeepsWallet
<1>3. CASE SettleHourlyInstance
  BY <1>3, <1>p, PostKeepsWallet DEF SettleHourlyInstance
<1>4. CASE SettleStopped
  BY <1>4 DEF SettleStopped, WalletBacked, meter, wallets
<1>5. CASE ActivateRefused
  BY <1>5 DEF ActivateRefused, WalletBacked, meter, wallets
<1>6. CASE ActivateHourlyBilling
  <2> DEFINE added == IF prepaid = 0 THEN Reserved(reserveQuantum) ELSE 0
  <2>1. added \in Nat
    BY <1>q, <1>t DEF Reserved, TypeOK
  <2>2. /\ owner' = owner /\ prepaid' = prepaid + added
        /\ balance' = [balance EXCEPT ![owner] = @ - added]
        /\ frozen' = [frozen EXCEPT ![owner] = @ + added]
        /\ UNCHANGED <<outstanding, totalCost, funds>>
    BY <1>6 DEF ActivateHourlyBilling
  <2> HIDE DEF added
  <2> QED
    BY <1>t, <2>1, <2>2 DEF WalletBacked, TypeOK
<1>7. CASE ResumeHourlyBilling
  <2> DEFINE n == CeilToQuantum(outstanding + reserveQuantum)
  <2>1. n \in Nat
    <3>1. outstanding + reserveQuantum \in Nat
      BY <1>q, <1>t DEF TypeOK
    <3> QED
      BY <3>1, CeilCovers
  <2>2. /\ owner' = owner /\ account = "suspended"
        /\ prepaid' = n - outstanding /\ outstanding' = 0
        /\ balance' = [balance EXCEPT ![owner] = @ - n]
        /\ frozen' = [frozen EXCEPT ![owner] = @ + n - outstanding]
        /\ UNCHANGED <<totalCost, funds>>
    BY <1>7 DEF ResumeHourlyBilling
  <2> HIDE DEF n
  <2> QED
    BY <1>t, <2>1, <2>2 DEF WalletBacked, DebtStopsAccount, TypeOK
<1>8. CASE PauseHourlyBilling
  BY <1>8, <1>p, PostKeepsWallet DEF PauseHourlyBilling
<1>9. CASE CloseHourlyBilling
  BY <1>9, <1>p, PostKeepsWallet DEF CloseHourlyBilling
<1>10. ASSUME NEW s \in {"creating", "running", "stopped", "barred", "deleted"}, WriteStatus(s)
       PROVE  WalletBacked'
  BY <1>10 DEF WriteStatus, WalletBacked, meter, wallets
<1>11. ASSUME NEW u \in Users, TransferInstance(u), UNCHANGED owner
       PROVE  WalletBacked'
  BY <1>11 DEF TransferInstance
<1>12. ASSUME NEW u \in Users, NEW n \in (0 - MaxFunds)..MaxFunds, UseWallet(u, n)
       PROVE  WalletBacked'
  <2>1. n \in Int
    BY BillingAssumption
  <2> QED
    BY <1>12, <1>t, <2>1 DEF UseWallet, WalletBacked, TypeOK, meter
<1>13. CASE Tick
  BY <1>13 DEF Tick, WalletBacked, wallets
<1>14. CASE UNCHANGED vars
  BY <1>14 DEF vars, WalletBacked, meter, wallets
<1> QED
  BY <1>1, <1>2, <1>3, <1>4, <1>5, <1>6, <1>7, <1>8, <1>9, <1>10, <1>11, <1>12, <1>13,
     <1>14 DEF Next, Billing

\* While the instance keeps its owner, the frozen money is the prepayment, and no
\* money is lost or created between balance, frozen money and payments.
THEOREM WalletInvariant == OwnedSpec => []WalletBacked
<1>1. Init => WalletBacked
  BY BillingAssumption DEF Init, WalletBacked
<1>2. AccountInv /\ [Next /\ UNCHANGED owner]_vars => AccountInv'
  BY AccountStep
<1> QED
  BY <1>1, <1>2, AccountInit, WalletStep, PTL DEF OwnedSpec

------------------------------------------------------------------------------
(* How much is frozen. *)

\* A settlement is exact: a charge the prepayment covers reserves nothing; one that
\* reserves is paid in full, and less than a quantum is left; one that leaves a debt has
\* reserved nothing and takes all of the prepayment, since the balance was short.
LEMMA SettlementExact ==
    ASSUME TypeOK, NEW s \in 0..since
    PROVE  LET c == Settlement(s)
           IN  \/ s <= prepaid /\ c.added = 0 /\ c.paid = s /\ c.unpaid = 0
               \/ /\ s > prepaid /\ c.paid = s /\ c.unpaid = 0
                  /\ c.added \in Nat /\ prepaid + c.added - c.paid \in 0..(reserveQuantum - 1)
               \/ /\ s > prepaid /\ c.added = 0 /\ c.paid = prepaid /\ c.unpaid = s - prepaid
                  /\ balance[owner] < CeilToQuantum(s - prepaid)
<1>1. /\ s \in Nat /\ prepaid \in Nat /\ balance[owner] \in Nat
      /\ reserveQuantum \in Nat /\ reserveQuantum > 0
  BY BillingAssumption DEF TypeOK
<1>2. CASE s <= prepaid
  <2>1. ~(s > prepaid) /\ Lesser(prepaid + 0, s) = s /\ s - s = 0
    BY <1>1, <1>2 DEF Lesser
  <2> QED
    BY <1>2, <2>1 DEF Settlement
<1>3. CASE s > prepaid
  <2> DEFINE n == CeilToQuantum(s - prepaid)
  <2>1. s - prepaid \in Nat
    BY <1>1, <1>3
  <2>2. n \in Nat /\ n >= s - prepaid /\ n < s - prepaid + reserveQuantum
    BY <2>1, CeilCovers
  <2>3. /\ Settlement(s).added = Reserved(n)
        /\ Settlement(s).paid = Lesser(prepaid + Reserved(n), s)
        /\ Settlement(s).unpaid = s - Lesser(prepaid + Reserved(n), s)
    BY <1>3 DEF Settlement
  <2> HIDE DEF n
  <2>4. CASE n <= balance[owner]
    <3>1. Reserved(n) = n /\ Lesser(prepaid + n, s) = s
      BY <1>1, <2>2, <2>4 DEF Reserved, Lesser
    <3>2. prepaid + n - s \in 0..(reserveQuantum - 1) /\ s - s = 0
      BY <1>1, <2>2
    <3> QED
      BY <1>3, <2>2, <2>3, <3>1, <3>2
  <2>5. CASE ~(n <= balance[owner])
    <3>1. Reserved(n) = 0 /\ Lesser(prepaid + 0, s) = prepaid /\ balance[owner] < n
      BY <1>1, <1>3, <2>2, <2>5 DEF Reserved, Lesser
    <3> QED
      BY <1>3, <2>3, <3>1 DEF n
  <2> QED
    BY <2>4, <2>5
<1> QED
  BY <1>1, <1>2, <1>3

\* An account holds less than two quanta of its owner's money.
PrepaymentBounded == prepaid < 2 * reserveQuantum

\* What a settlement leaves of the prepayment is no more than there was, or less than a
\* quantum.
LEMMA RestBounded ==
    ASSUME TypeOK, PrepaymentBounded, NEW c \in Settlements
    PROVE  prepaid + c.added - c.paid < 2 * reserveQuantum
<1>1. reserveQuantum \in Nat /\ reserveQuantum > 0 /\ prepaid \in Nat
  BY BillingAssumption DEF TypeOK
<1>2. CASE account # "active"
  BY <1>1, <1>2 DEF Settlements, NoSettlement, PrepaymentBounded
<1>3. CASE account = "active"
  <2>1. PICK s \in 0..since : c = Settlement(s)
    BY <1>3 DEF Settlements
  <2>2. s \in Nat
    BY DEF TypeOK
  <2> QED
    BY <1>1, <2>1, <2>2, SettlementExact DEF PrepaymentBounded
<1> QED
  BY <1>2, <1>3

\* However settlements, pauses, resumes and late callers interleave, no account freezes
\* two quanta or more: rounding never adds up, and a resume, which pays the debt from what
\* it reserves, is the only one that reserves more than what is due and a quantum.
THEOREM ReservesBounded == Spec => []PrepaymentBounded
<1>1. Init => PrepaymentBounded
  BY BillingAssumption DEF Init, PrepaymentBounded
<1>2. TypeOK /\ PrepaymentBounded /\ [Next]_vars => PrepaymentBounded'
  <2> SUFFICES ASSUME TypeOK, PrepaymentBounded, [Next]_vars PROVE PrepaymentBounded'
    OBVIOUS
  <2>q. reserveQuantum \in Nat /\ reserveQuantum > 0 /\ prepaid \in Nat /\ outstanding \in Nat
    BY BillingAssumption DEF TypeOK
  <2>1. CASE CreateInstance
    BY <2>1, <2>q DEF CreateInstance, PrepaymentBounded
  <2>2. CASE FailCreatingInstance \/ PauseHourlyBilling \/ CloseHourlyBilling
    <3>1. prepaid' = 0
      BY <2>2 DEF FailCreatingInstance, PauseHourlyBilling, CloseHourlyBilling, Post
    <3> QED
      BY <2>q, <3>1 DEF PrepaymentBounded
  <2>3. CASE SettleHourlyInstance
    BY <2>3, RestBounded DEF SettleHourlyInstance, Post, PrepaymentBounded
  <2>4. CASE ActivateHourlyBilling
    <3>1. CASE prepaid = 0
      BY <2>4, <2>q, <3>1 DEF ActivateHourlyBilling, Reserved, PrepaymentBounded
    <3>2. CASE prepaid # 0
      BY <2>4, <2>q, <3>2 DEF ActivateHourlyBilling, PrepaymentBounded
    <3> QED
      BY <3>1, <3>2
  <2>5. CASE ResumeHourlyBilling
    <3> DEFINE n == CeilToQuantum(outstanding + reserveQuantum)
    <3>1. n \in Nat /\ n < (outstanding + reserveQuantum) + reserveQuantum
      BY <2>q, CeilCovers
    <3>2. prepaid' = n - outstanding
      BY <2>5 DEF ResumeHourlyBilling
    <3> HIDE DEF n
    <3> QED
      BY <2>q, <3>1, <3>2 DEF PrepaymentBounded
  <2>6. CASE UNCHANGED vars
    BY <2>6 DEF vars, meter, PrepaymentBounded
  <2>7. CASE SettleStopped \/ ActivateRefused \/ Tick
    BY <2>7 DEF SettleStopped, ActivateRefused, Tick, meter, PrepaymentBounded
  <2>8. ASSUME NEW s \in {"creating", "running", "stopped", "barred", "deleted"}, WriteStatus(s)
        PROVE  PrepaymentBounded'
    BY <2>8 DEF WriteStatus, meter, PrepaymentBounded
  <2>9. ASSUME NEW u \in Users, TransferInstance(u) PROVE PrepaymentBounded'
    BY <2>9 DEF TransferInstance, meter, PrepaymentBounded
  <2>10. ASSUME NEW u \in Users, NEW n \in (0 - MaxFunds)..MaxFunds, UseWallet(u, n)
         PROVE  PrepaymentBounded'
    BY <2>10 DEF UseWallet, meter, PrepaymentBounded
  <2> QED
    BY <2>1, <2>2, <2>3, <2>4, <2>5, <2>6, <2>7, <2>8, <2>9, <2>10 DEF Next, Billing
<1> QED
  BY <1>1, <1>2, TypeCorrect, PTL DEF Spec
==============================================================================
