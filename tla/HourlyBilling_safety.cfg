\* Two owners in turn; a quantum of two units of time, so that charges do not
\* divide it.
SPECIFICATION Spec
CONSTANTS
    u1 = u1
    u2 = u2
    Users <- TwoUsers
    Creator = u1
    reserveQuantum = 2
    MaxFunds = 6
    MaxTime = 3
    MaxReserved = 8
INVARIANTS
    TypeOK
    DebtStopsAccount
    LedgerBalanced
    IncomeIsPaid
    PausedTimeFree
    DebtRecorded
PROPERTIES
    ClosedForGood
