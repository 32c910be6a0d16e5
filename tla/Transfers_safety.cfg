\* Two users, two transfers, two claims, and two acts of deletions, failures or crashes.
SPECIFICATION OrderedSpec
CONSTANTS
    u1 = u1
    u2 = u2
    t1 = t1
    t2 = t2
    c1 = c1
    c2 = c2
    Users <- TwoUsers
    Seller = u1
    Transfers <- TwoTransfers
    Claims <- TwoClaims
    Original = Original
    NoClaim = NoClaim
    NoTransfer = NoTransfer
    Deleters <- AllDeleters
    MaxActs = 2
INVARIANTS
    TypeOK
    NameKnown
    DeedsBalanced
PROPERTIES
    DeedsSpec
    ClaimEnds
CHECK_DEADLOCK FALSE
