----------------------------- MODULE Operations -----------------------------
(***************************************************************************)
(* What is operated around the programs: the verifier's cache with its     *)
(* pages, the deployment of the vault, the opening of a live market, the   *)
(* runtime status, the market pages in the browser, the incident of the    *)
(* front page, the replay of the recorded match and the integration kit    *)
(* with its lab.  They share no state and go on at the same time.          *)
(***************************************************************************)
EXTENDS Integers, FiniteSets, Sequences

CONSTANTS
    Null,
    Pages, Mounting, MaxScans, MaxScanTime,                 \* of the cache
    VerifiedTtl, FailedTtl, UnknownTtl, Patience, Timeout,
    Deployers, BINARY_SIZE, CHUNK_SIZE, RevalidateEvery,      \* of the deployment
    ProgramRent, ProgramDataRent, StartBalance, MaxOther,
    LiveRuns, MICROS_ONE, Skew, NoLastTrade,                \* of a live market
    RawBooks, Descriptors, Mapping, Policy, MAX_CAPTURE_AGE, CloseTime,
    MaxLiveTime, MaxBooks, MaxEdits,
    StatusPages, Programs, Records, ProbeOutcomes,          \* of the status
    SettlementV5Length, SettlementV4Length, SettlementV3Length, MarketConfigLength,
    StatusCacheTtl, PageTimeout, MaxStatusTime, MaxStatusCalls,
    Tabs, MarketIds, Catalog, CreatorInputs, MaxEventSeq,   \* of the market pages
    MaxPlaced, MaxReloads, MaxPanelCalls, MaxSaveFailures,
    ScenarioIds, Scenarios,                                 \* of the incident
    PreGoalOdds, PostGoalOdds, PreGoalSequence, PostGoalSequence,  \* of the kit
    QuoteSpread, QuoteLifetime, LabStake, OperatorInputs(_, _), MaxLamports,
    ReplaySpread, ReplayStake, ReplayDeposit                \* of the recorded match

VARIABLES
    clock, verified, lastAttempt, inFlight, scans, result, request, unattended, mount,
    page,
    chain, tool, run, pending, touched, others,
    liveNow, host, prepare, opener, file, liveMarket, edits, published,
    statusNow, env, deployed, matches, cachedStatus, statusRequest, statusCalls, panels,
    snapshot, storage, workspace, timer, call, ready, placed, reloads, panelCalls,
    saveFailures, heard,
    scenarioId, stage, playing, incidentTimer,
    lab, labRun, shownRun, operatorOrder,
    replayStage, replaying, speed, replayTimer

cacheVars == <<clock, verified, lastAttempt, inFlight, scans, result, request,
               unattended, mount, page>>
deployVars == <<chain, tool, run, pending, touched, others>>
liveVars == <<liveNow, host, prepare, opener, file, liveMarket, edits, published>>
statusVars == <<statusNow, env, deployed, matches, cachedStatus, statusRequest,
                statusCalls, panels>>
workspaceVars == <<snapshot, storage, workspace, timer, call, ready, placed, reloads,
                   panelCalls, saveFailures, heard>>
incidentVars == <<scenarioId, stage, playing, incidentTimer>>
labVars == <<lab, labRun, shownRun, operatorOrder>>
replayVars == <<replayStage, replaying, speed, replayTimer>>
operationsVars == <<cacheVars, deployVars, liveVars, statusVars, workspaceVars,
                    incidentVars, labVars, replayVars>>

Cache == INSTANCE VerificationCache WITH MaxRuns <- MaxScans, MaxTime <- MaxScanTime
Deploy == INSTANCE Deployment WITH Runs <- Deployers
Live == INSTANCE LiveMarket
    WITH now <- liveNow, market <- liveMarket, Runs <- LiveRuns, MaxTime <- MaxLiveTime
Status == INSTANCE RuntimeStatus
    WITH calls <- statusCalls, Pages <- StatusPages, MaxTime <- MaxStatusTime,
         MaxCalls <- MaxStatusCalls
\* Fixtures, the bot's stake and its balance are of the terminal.
Workspace == INSTANCE MarketWorkspace
    WITH calls <- panelCalls, Ids <- MarketIds, MaxSeq <- MaxEventSeq,
         MaxOrders <- MaxPlaced, MaxCalls <- MaxPanelCalls,
         Fixtures <- {}, BOT_STAKE_USD <- 0, BotStartingBalance <- 0
Incident == INSTANCE IncidentReplay WITH timer <- incidentTimer
Lab == INSTANCE ConformanceLab
    WITH PreOdds <- PreGoalOdds, PostOdds <- PostGoalOdds,
         PreSequence <- PreGoalSequence, PostSequence <- PostGoalSequence,
         Spread <- QuoteSpread, DefaultMaxAge <- QuoteLifetime, Stake <- LabStake,
         MaxU64 <- MaxLamports
Replay == INSTANCE VaultReplay
    WITH PreOdds <- PreGoalOdds.prices, PostOdds <- PostGoalOdds.prices,
         DefaultMaxAge <- QuoteLifetime, Spread <- ReplaySpread, Stake <- ReplayStake,
         Deposit <- ReplayDeposit, MaxU64 <- MaxLamports

OperationsInit ==
    /\ Cache!Init /\ Deploy!DeployInit /\ Live!LiveInit /\ Status!StatusInit
    /\ Workspace!Init /\ Incident!IncidentInit /\ Lab!LabInit /\ Replay!ReplayInit

CacheStep ==
    /\ Cache!Next
    /\ UNCHANGED <<deployVars, liveVars, statusVars, workspaceVars, incidentVars,
                   labVars, replayVars>>
DeployStep ==
    /\ Deploy!DeployNext
    /\ UNCHANGED <<cacheVars, liveVars, statusVars, workspaceVars, incidentVars,
                   labVars, replayVars>>
LiveStep ==
    /\ Live!LiveNext
    /\ UNCHANGED <<cacheVars, deployVars, statusVars, workspaceVars, incidentVars,
                   labVars, replayVars>>
StatusStep ==
    /\ Status!StatusNext
    /\ UNCHANGED <<cacheVars, deployVars, liveVars, workspaceVars, incidentVars,
                   labVars, replayVars>>
WorkspaceStep ==
    /\ Workspace!Next
    /\ UNCHANGED <<cacheVars, deployVars, liveVars, statusVars, incidentVars,
                   labVars, replayVars>>
IncidentStep ==
    /\ Incident!IncidentNext
    /\ UNCHANGED <<cacheVars, deployVars, liveVars, statusVars, workspaceVars,
                   labVars, replayVars>>
LabStep ==
    /\ Lab!LabNext
    /\ UNCHANGED <<cacheVars, deployVars, liveVars, statusVars, workspaceVars,
                   incidentVars, replayVars>>
ReplayStep ==
    /\ Replay!ReplayNext
    /\ UNCHANGED <<cacheVars, deployVars, liveVars, statusVars, workspaceVars,
                   incidentVars, labVars>>

OperationsNext ==
    \/ CacheStep \/ DeployStep \/ LiveStep \/ StatusStep \/ WorkspaceStep
    \/ IncidentStep \/ LabStep \/ ReplayStep

OperationsSpec == OperationsInit /\ [][OperationsNext]_operationsVars

\* The bounds and lifetimes are numbers, and what is not there is none of the things
\* that may be.
OperationsAssumption ==
    /\ {MaxScans, MaxScanTime, VerifiedTtl, FailedTtl, UnknownTtl} \subseteq Nat
    /\ Null \notin Nat
    /\ Null \notin [run : Cache!Runs, status : Cache!Statuses]
    /\ {BINARY_SIZE, CHUNK_SIZE, RevalidateEvery} \subseteq Nat \ {0}
    /\ {ProgramRent, ProgramDataRent, StartBalance, MaxOther} \subseteq Nat
    /\ "attempt" \notin Deployers /\ "others" \notin Deployers
    /\ Null \notin {"landed", "failed", "expired", "guard", "network"}
    /\ Null \notin [1 .. BINARY_SIZE -> 0 .. BINARY_SIZE]
    /\ Null \notin [data : [1 .. BINARY_SIZE -> 0 .. BINARY_SIZE], lamports : Nat]
    /\ Null \notin [tx : {Deploy!Transactions(TRUE)[i] :
                            i \in DOMAIN Deploy!Transactions(TRUE)},
                   result : {Null, "landed", "failed", "expired"}]
    /\ StatusCacheTtl \in Nat \ {0} /\ PageTimeout \in Nat

\* Of a live market: levels are of numbers, and the reference method is the one that the
\* descriptor of the committed pricing model names, and the default; the environment can
\* name another.
LiveAssumption ==
    /\ {MICROS_ONE, Skew, MAX_CAPTURE_AGE} \subseteq Nat
    /\ {Policy.maxSpread, Policy.minDepth, Policy.maxAge} \subseteq Nat
    /\ Policy.method = "ORDERBOOK_MIDPOINT"
    /\ \A raw \in RawBooks :
          {raw.bids, raw.asks} \subseteq Seq([price : Int, size : Int])

\* Of the market pages: the catalogue has markets, and those that are not stale show
\* their fair price.
WorkspaceAssumption ==
    /\ Catalog \in [DOMAIN Catalog -> Workspace!FairXMarket]
    /\ DOMAIN Catalog \subseteq MarketIds
    /\ \A i \in DOMAIN Catalog :
          Workspace!IsFairXMarketStale(Catalog[i])
             \/ Catalog[i].displayed = Catalog[i].fair
    /\ MaxEventSeq \in Nat

\* Of the incidents: sequences and stakes are numbers, and a stake is of units fine
\* enough that what it wins is one at least.
IncidentAssumption ==
    /\ MICROS_ONE \in Nat \ {0} /\ Null \notin Int
    /\ \A id \in Incident!Playable :
          LET s == Scenarios[id]
              price == s.quote.after[s.synchronizedOrder.side]
          IN  /\ {s.initial.eventSequence, s.event.sequence, s.quote.sequence,
                  s.incomingOrder.stake, s.synchronizedOrder.stake} \subseteq Int
              /\ s.synchronizedOrder.side \in {"YES", "NO"}
              /\ s.synchronizedOrder.stake * (MICROS_ONE - price) >= price

\* Of the recorded odds: they pass assertOdds, the goal is between them, and the price
\* that they make is one.  Operators send sequences that are numbers.
LabAssumption ==
    /\ MICROS_ONE \in Nat \ {0}
    /\ QuoteLifetime \in Nat \ {0} /\ LabStake \in Nat \ {0} /\ QuoteSpread \in Int
    /\ PreGoalSequence \in Nat /\ PostGoalSequence \in Nat
    /\ PreGoalSequence < PostGoalSequence
    /\ \A odds \in {PreGoalOdds, PostGoalOdds} :
          /\ odds # Null /\ odds.ts \in Int
          /\ odds.prices \in [1 .. 3 -> Int] /\ Lab!AssertOdds(odds)
    /\ Lab!PostQuote.commitment.YES \in 1 .. MICROS_ONE - 1
    /\ Null \notin [vector : Lab!LabCases, reselected : BOOLEAN]
    /\ \A input \in OperatorInputs(Lab!PreQuote, Lab!PostQuote) :
          {input.latest, input.quote.commitment.materialEventSequence} \subseteq Int

\* Of the recorded match: its prices can be traded at, the goal moves the price by more
\* than a rounding can hide, and the deposit covers what the bets may win.
ReplayAssumption ==
    /\ MICROS_ONE \in Nat \ {0} /\ MaxLamports \in Nat
    /\ ReplayStake \in Nat \ {0} /\ ReplayDeposit \in Nat /\ ReplaySpread \in Int
    /\ \A odds \in {PreGoalOdds, PostGoalOdds} :
          odds.prices \in [1 .. 3 -> Int] /\ \A i \in 1 .. 3 : odds.prices[i] > 0
    /\ \A id \in Replay!Ids : Replay!PriceOf(id) \in 1 .. MICROS_ONE - 1
    /\ LET stale == Replay!PriceOf("stale-bot")
           synchronized == Replay!PriceOf("post-yes")
       IN  ReplayStake * MICROS_ONE * (synchronized - stale) >= stale * synchronized
    /\ Replay!Liability("pre-yes") + Replay!Liability("pre-no")
          + Replay!Liability("post-yes") <= ReplayDeposit
    /\ ReplayDeposit + 3 * ReplayStake <= MaxLamports

-----------------------------------------------------------------------------
(* The properties, as the modules state them.                              *)

\* VerificationCache: one scan runs at a time, and a page shows no failure that a
\* success has followed.  RuntimeStatus: a fresh proof is offered for a program that was
\* looked at, by a check that is recent.  IncidentReplay: a stage shows what the rule
\* makes of its numbers, and the timer is up while it plays.  ConformanceLab: an outcome
\* is that of its run, and an order is decided as the vault would.  VaultReplay: each
\* stage shows the vault that the program makes of the recorded match, and the timer is
\* up while it plays.
ShownChecksAreTrue ==
    /\ Cache!OneScanAtATime /\ Cache!ShownAttemptIsLater
    /\ Status!OfferedProofsWereChecked /\ Status!ShownStatusIsRecent
    /\ Incident!ShownDecisionIsTheRule /\ Incident!TimerMeansPlaying
    /\ Lab!LabShowsItsRun /\ Lab!KitDecidesAsTheVault
    /\ Replay!ShownVaultIsTheProgram /\ Replay!ReplayTimerMeansPlaying

\* VerificationCache: only a later success replaces a verified result, and a page
\* that says "fresh" shows one that ended after its button was pressed.
VerifiedIsKept == Cache!VerifiedIsKept /\ Cache!FreshMeansSince

\* Deployment: what is deployed is the binary, one run deploys it, a run alone is
\* not stopped by its own guards, and a report stays true.
DeploymentIsSound ==
    /\ Deploy!DeployedIsTheBinary
    /\ Deploy!OneRunDeploys
    /\ Deploy!LoneRunIsNotStopped
    /\ Deploy!ReportIsKept

\* LiveMarket: a market opens at the midpoint of a sound and recent book that the
\* exchange published.
MarketOpensAtASoundQuote == Live!MarketOpensAtASoundQuote

\* MarketWorkspace: fills are fair, orders keep their receipts, and events that
\* come in outside of requests are kept.
MarketsAreSound ==
    /\ Workspace!FillsAreFair
    /\ Workspace!OrdersKeepTheirReceipts
    /\ Workspace!EventsOutsideRequestsAreKept
=============================================================================
