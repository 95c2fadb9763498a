\* Odds without a sequence push the counter past the scores.
SPECIFICATION AppSpec
CONSTANTS
    Null = Null
    demoFixture = demoFixture
    otherFixture = otherFixture
    proof1 = proof1
    Fixtures = {demoFixture, otherFixture}
    DemoFixture = demoFixture
    BOT_STAKE_USD = 5
    BotStartingBalance = 12
    MaxSeq = 5
    MaxEvents = 3
    Streams = {"scores", "odds"}
    Events <- MCEvents
    OnChainProofs = {proof1}
    DemoGoal <- MCDemoGoal
    CapturedEvents <- MCCapturedEvents
    MaxRuns = 2
    Payloads <- MCPayloads
    Samples <- MCSamples
    HealthFixture = Null
    MarketMakerActs = TRUE
    UserStreams = {"scores"}
    UserEvents = 2
INVARIANT
    InSyncMeansFairWhenLive
CHECK_DEADLOCK FALSE
