\* Both epochs, two traders, two orders, no void; words that two deposits
\* overflow.
SPECIFICATION Spec
CONSTANTS
    t1 = t1
    t2 = t2
    op = op
    feed = feed
    pricer = pricer
    r1 = r1
    r2 = r2
    r3 = r3
    outsider = outsider
    default = default
    NoAccount = NoAccount
    MaxU64 = 14
    MICROS_ONE = 100
    Keys <- MCKeys
    DefaultKey = default
    CandidateConfigs <- MCOneConfig
    StakeBounds <- MCStakeBounds
    Traders = {t1, t2}
    Operator = op
    Stranger = outsider
    InitialFunds <- MCAmpleFunds
    Amounts = {2, 13}
    OrderArgs <- MCOrders
    MaxOrders = 2
    PayloadVariants = {1, 2}
    GenuineVariants = {1}
    RecordedPrices <- MCRecordedPrices
    SPREAD_MICROS = 1
    FinalStats <- MCTwoStats
    MaxTime = 0
    VoidEligibleAt = 1
    AccountingBound = 3
SYMMETRY Symmetry
INVARIANTS
    TypeOK
    LedgerExplainsBalance
    VerifiedQuoteHasEvidence
    FilledAtAttestedTerms
PROPERTIES
    NoFillAcrossTheGoal
    OnlyFillsCost
CHECK_DEADLOCK FALSE
