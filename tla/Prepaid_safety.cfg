\* Every kind of deletion and payment; three acts of the environment, of which two may be
\* requests and the others are failures and crashes.
SPECIFICATION SparseSpec
CONSTANTS
    Deleters = {"user", "owner", "admin", "batch"}
    Payers = {"renew", "auto", "extend"}
    Price = 10
    Amounts = {5}
    MaxPeriods = 2
    MaxActs = 3
    MaxRequests = 2
    NoValue = NoValue
INVARIANTS
    TypeOK
    RefundWithinPaid
    DestroySettledOnce
    RefundAfterRemoval
PROPERTIES
    LedgerSpec
    AutoRenewsLastPeriod
    PendingSettles
    ExpiredStops
    ExpiredDeleted
\* The row may be gone and everything at rest.
CHECK_DEADLOCK FALSE
