\* Both ways to resolve, settlement and closing of positions, against the book.
SPECIFICATION Spec
CONSTANTS
    t1 = t1
    t2 = t2
    op = op
    feed = feed
    pricer = pricer
    r1 = r1
    r2 = r2
    r3 = r3
    outsider = outsider
    default = default
    NoAccount = NoAccount
    MaxU64 = 1000
    MICROS_ONE = 100
    Keys <- MCKeys
    DefaultKey = default
    CandidateConfigs <- MCOneConfig
    StakeBounds <- MCStakeBounds
    Traders = {t1, t2}
    Operator = op
    Stranger = outsider
    InitialFunds <- MCFunds
    Amounts = {2, 11}
    OrderArgs <- MCOrdersMatched
    MaxOrders = 2
    PayloadVariants = {1}
    GenuineVariants = {1}
    RecordedPrices <- MCRecordedPrices
    SPREAD_MICROS = 1
    FinalStats <- MCTwoStats
    MaxTime = 0
    VoidEligibleAt = 0
    AccountingBound = 5
SYMMETRY Symmetry
INVARIANTS
    SettlementNeverBlocked
    CountersMatchPositions
PROPERTIES
    SettlementPaysTheTerms
    FinalityHolds
    ImplementsBook
CHECK_DEADLOCK FALSE
