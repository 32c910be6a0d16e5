\* The host's owner deletes an instance that was renewed; no failure, no crash.
SPECIFICATION SparseSpec
CONSTANTS
    Deleters = {"owner"}
    Payers = {"renew"}
    Price = 10
    Amounts = {5}
    MaxPeriods = 2
    MaxActs = 2
    MaxRequests = 2
    NoValue = NoValue
INVARIANTS
    PrivilegedSettledOnce
CHECK_DEADLOCK FALSE
