\* No vault field changes on a stale refund, as documented.
SPECIFICATION Spec
CONSTANTS
    t1 = t1
    t2 = t2
    op = op
    feed = feed
    pricer = pricer
    r1 = r1
    r2 = r2
    r3 = r3
    outsider = outsider
    default = default
    NoAccount = NoAccount
    MaxU64 = 1000
    MICROS_ONE = 100
    Keys <- MCKeys
    DefaultKey = default
    CandidateConfigs <- MCOneConfig
    StakeBounds <- MCStakeBounds
    Traders = {t1, t2}
    Operator = op
    Stranger = outsider
    InitialFunds <- MCFunds
    Amounts = {2, 11}
    OrderArgs <- MCOrdersExpiring
    MaxOrders = 2
    PayloadVariants = {1}
    GenuineVariants = {1}
    RecordedPrices <- MCRecordedPrices
    SPREAD_MICROS = 1
    FinalStats <- MCTwoStats
    MaxTime = 1
    VoidEligibleAt = 1
    AccountingBound = 2
SYMMETRY Symmetry
PROPERTIES
    StaleRefundLeavesVaultAlone
CHECK_DEADLOCK FALSE
