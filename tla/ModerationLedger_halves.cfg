\* Three roots and one more wallet, one moderator, proposals that expire.
\* Two verdicts a day of five instants, in thirds: refills are rounded.
\* Two reactions fill a counter; the third would run into the next.
SPECIFICATION LedgerSpec
CONSTANTS
    w1 = w1
    w2 = w2
    w3 = w3
    w4 = w4
    People <- FourWallets
    FirstRoots <- ThreeWallets
    Candidates = {m}
    ProposalTTL = 1
    MaxClock = 2
    WarningsToRestrict = 2
    MaxWarnings = 3
    Retention = 2
    MaxTime = 7
    VerdictsPerDay = 2
    Unit = 3
    Day = 5
    MaxOrders = 2
    Publishers = {"ann", "bea", "cy"}
    Owner = "ann"
    ShardKinds = {"channel", "beacon", "avatar"}
    Emojis = 2
    PerLeaf = 2
    Base = 3
    LeafCap = 2
    SafeCap = 3
    MaxReactions = 4
SYMMETRY Interchangeable
INVARIANTS RestrictedForCause QuotaHolds SlotsExact ThreeRoots CouncilKept
PROPERTIES SinceKept HiddenByVerdict
CHECK_DEADLOCK FALSE
