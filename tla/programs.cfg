\* Both generations of the program under each of their users.
SPECIFICATION MCSpec
CONSTANTS
    NoAccount = NoAccount
    Null = Null
    t1 = t1
    m3 = m3
    m4 = m4
    f1 = f1
    f2 = f2
    canonical = canonical
    sandbox = sandbox
    other = other
    Operator = op
    DefaultMarket = m1
    CustomMarket = m2
    Flows = {f1, f2}
    FlowKinds = {"initialize", "initialize-custom", "ingest-event", "reprice", "place-order", "evaluate-order", "full-demo", "custom-order", "full-settlement-demo"}
    Markets <- MCMarkets
    Orders <- MCOrders
    Users = {t1, op}
    Commitments = {canonical, sandbox, other}
    CanonicalCommitment = canonical
    CustomInputs <- MCCustomInputs
    MICROS_ONE = 100
    MaxTime = 1
    MAX_SCORE = 2
    CANONICAL_INITIAL_SEQ = 1
    CANONICAL_EVENT_SEQ = 2
    CANONICAL_DISPLAYED_PRICE = 56
    CANONICAL_FAIR_PRICE = 79
    TOLERANCE_2C = 2
    FairMove = 23
    FairCap = 99
    STAKE_LAMPORTS = 2
    CUSTOM_STAKE_LAMPORTS = 1
    SETTLEMENT_STAKE_LAMPORTS = 2
    CANONICAL_FIXTURE_ID = 7
    CANONICAL_HOME_SCORE = 1
    CANONICAL_AWAY_SCORE = 0
    Transactions <- MCTransactions
    Traders <- MCTraders
    V2Orders <- MCV2Orders
    Admin = "admin"
    AuthoritySets <- MCAuthoritySets
    Terms <- MCTerms2
    OrderArgs <- MCOrderArgs
    Events = {2}
    Odds <- MCOdds
    Evidence <- MCEvidence
    AUTHORITY_TIMELOCK = 1
    MaxClock = 2
    MaxDeposited = 7
    TicketWallets = {"me", "you"}
    Nobody = Nobody
    Refreshes = {3}
    Clicks = {1, 2}
    Stake = 2
    Slippage = 1
    OrderLife = 1
    NotRead = NotRead
    Runs = {1, 2}
    Scripts = {"record", "initialize"}
    WalletA = "a"
    WalletB = "b"
    WalletC = "c"
    OperatorRoles <- MCOperatorRoles
    STAKE = 2
    OldPrice = 40
    NewPrice = 60
    RecordTolerance = 2
    PreviousSeq = 1
    PreviousOdds = 1
    CloseTime = 1
    OrderExpiry = 1
    FinalScore <- MCFinalScore
SYMMETRY SymmetryOfFlows
INVARIANTS
    ProgramsTypeOK
    MarketsAreCovered
    ServerFlowsAreSound
    OutcomesShownAreTrue
    MirrorIsFaithful
PROPERTIES
    ResultIsFinal
    AuthoritiesWaited
CHECK_DEADLOCK FALSE
