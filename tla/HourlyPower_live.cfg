\* With and without an agent: the callers respect the billing, the wallet adds up, the
\* meter follows the power, unpaid instances are stopped.
SPECIFICATION CalmSpec
CONSTANTS
    u1 = u1
    Users <- OneUser
    Creator = u1
    reserveQuantum = 1
    MaxFunds = 3
    MaxTime = 2
    MaxReserved = 20
    Agents = {"none", "absent"}
    AgentFunds = 1
    AgentTime = 0
    MaxUses = 2
INVARIANTS
    WalletBacked
PROPERTIES
    BillingSpec
    MeterFollowsPower
    UnpaidInstanceStopped
CHECK_DEADLOCK FALSE
