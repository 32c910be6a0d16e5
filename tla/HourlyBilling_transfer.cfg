\* Two owners in turn: the wallets and the account.
SPECIFICATION Spec
CONSTANTS
    u1 = u1
    u2 = u2
    Users <- TwoUsers
    Creator = u1
    reserveQuantum = 2
    MaxFunds = 3
    MaxTime = 3
    MaxReserved = 8
INVARIANTS
    FrozenCovers
