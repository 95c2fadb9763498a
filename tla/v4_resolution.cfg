\* Who resolves, and that it settles: candidate authority configs, all signers,
\* both ways to resolve.
SPECIFICATION FairSpec
CONSTANTS
    t1 = t1
    t2 = t2
    op = op
    feed = feed
    pricer = pricer
    r1 = r1
    r2 = r2
    r3 = r3
    outsider = outsider
    default = default
    NoAccount = NoAccount
    MaxU64 = 1000
    MICROS_ONE = 100
    Keys <- MCKeys
    DefaultKey = default
    CandidateConfigs <- MCConfigs
    StakeBounds <- MCStakeBoundsChecked
    Traders = {t1, t2}
    Operator = op
    Stranger = outsider
    InitialFunds <- MCTightFunds
    Amounts = {4}
    OrderArgs <- MCOrdersExpiring
    MaxOrders = 2
    PayloadVariants = {1}
    GenuineVariants = {1}
    RecordedPrices <- MCRecordedPrices
    SPREAD_MICROS = 1
    FinalStats <- MCStats
    MaxTime = 1
    VoidEligibleAt = 1
    AccountingBound = 1
INVARIANTS
    ResolutionIsAuthorised
PROPERTIES
    ProposalsEmptyTheReserve
CHECK_DEADLOCK FALSE
