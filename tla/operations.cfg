\* Each service of MCOperations, alone.
\*
\* The cache: two pages, one just opened, two scans, two ticks; the snapshot goes stale
\* after one.  The deployment: two runs of the sender, two writes and the deployment, a
\* look at devnet before each, money for several attempts.  The status is young for one
\* tick.
SPECIFICATION OneOperationSpec
CONSTANTS
    Null = Null
    NoAccount = NoAccount
    NoLastTrade = NoLastTrade
    Pages = {"p1", "p2"}
    Mounting = {"p1"}
    MaxScans = 2
    MaxScanTime = 2
    VerifiedTtl = 1
    FailedTtl = 1
    UnknownTtl = 1
    Patience = 2
    Timeout = 1
    Deployers = {"s1", "s2"}
    BINARY_SIZE = 3
    CHUNK_SIZE = 2
    RevalidateEvery = 1
    ProgramRent = 2
    ProgramDataRent = 3
    StartBalance = 30
    MaxOther = 1
    LiveRuns = {"run"}
    MICROS_ONE = 100
    Skew = 0
    RawBooks <- TwoBooks
    Descriptors <- ThreeDescriptors
    Mapping <- ApprovedMapping
    Policy <- MidpointPolicy
    MAX_CAPTURE_AGE = 1
    CloseTime = 5
    MaxLiveTime = 3
    MaxBooks = 2
    MaxEdits = 1
    StatusPages = {"p"}
    Programs <- ThreePrograms
    Records <- TwoRecords
    ProbeOutcomes <- TwoOutcomes
    SettlementV5Length = 5
    SettlementV4Length = 4
    SettlementV3Length = 3
    MarketConfigLength = 2
    StatusCacheTtl = 1
    PageTimeout = 1
    MaxStatusTime = 2
    MaxStatusCalls = 2
    Tabs = {"ta", "tb"}
    MarketIds = {"m1", "created"}
    Catalog <- OneMarketCatalog
    CreatorInputs <- OneInput
    MaxEventSeq = 3
    MaxPlaced = 1
    MaxReloads = 1
    MaxPanelCalls = 2
    MaxSaveFailures = 1
    ScenarioIds = {"france-morocco", "argentina-brazil"}
    Scenarios <- TwoScenarios
    PreGoalOdds <- OddsBeforeGoal
    PostGoalOdds <- OddsAfterGoal
    PreGoalSequence = 738
    PostGoalSequence = 739
    QuoteSpread = 1
    QuoteLifetime = 12
    LabStake = 10
    OperatorInputs <- OperatorOrders
    MaxLamports = 1000
    ReplaySpread = 1
    ReplayStake = 10
    ReplayDeposit = 40
INVARIANTS
    OperationsTypeOK
    ShownChecksAreTrue
    DeploymentIsSound
    RecordingsAreTrue
    MarketsAreSound
    MarketOpensAtASoundQuote
PROPERTIES
    VerifiedIsKept
CHECK_DEADLOCK FALSE
