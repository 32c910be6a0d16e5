\* An order that is paid, or not, at a provider that reports every outcome, and an order
\* beside it that shares the wallet and the jobs; two requests at a time, one fault.
SPECIFICATION OneSidedSpec
CONSTANTS
    o1 = o1
    o2 = o2
    Orders = {o1, o2}
    Heleket = {o1}
    Handlers = {h1, h2}
    Amount = 2
    MaxFaults = 1
    NoOrder = NoOrder
INVARIANTS
    TypeOK
    CreditMatchesOrder
    CreditJustified
PROPERTIES
    AckedPaymentCredited
    OrdersSpec
    PaymentCredited
\* Nothing need happen once the orders are settled.
CHECK_DEADLOCK FALSE
