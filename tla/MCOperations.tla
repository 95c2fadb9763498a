---------------------------- MODULE MCOperations ----------------------------
(***************************************************************************)
(* What is operated around the programs, for TLC: the verifier's cache,    *)
(* the deployment scripts, the lifecycle scripts, the market workspace,    *)
(* the live market scripts, the runtime status, the two replays and the    *)
(* integration kit.  They share no state, so a behaviour is one of one of  *)
(* them, with the others at rest.                                          *)
(***************************************************************************)
EXTENDS Operations, TLC

CONSTANT NoAccount

ASSUME OperationsAreProper ==
    /\ OperationsAssumption /\ LiveAssumption /\ WorkspaceAssumption
    /\ IncidentAssumption /\ LabAssumption /\ ReplayAssumption

VARIABLES
    service,
    initialized, authority_config, market, quote, quote_receipts, vault, ledger,
    counters, stake_bounds, positions, resolution_receipt, resolution_proposal,
    spendable, wallet, now, script, sender, evidence, landed, meddled

scriptVars == <<initialized, authority_config, market, quote, quote_receipts, vault,
                ledger, counters, stake_bounds, positions, resolution_receipt,
                resolution_proposal, spendable, wallet, now, script, sender,
                evidence, landed, meddled>>

-----------------------------------------------------------------------------
(* The constants of Operations.                                            *)

Level(price, size) == [price |-> price, size |-> size]
Book(bids, asks) == [asset |-> "yes", condition |-> "c", bids |-> bids, asks |-> asks,
                     lastTrade |-> NoLastTrade]
MappedIds == [event |-> "e", condition |-> "c", yes |-> "yes", no |-> "no", market |-> "m"]

\* A sound book that is not sorted, with an uneven midpoint, and a wide one with a level
\* that is none.
TwoBooks == { Book(<<Level(38, 1), Level(40, 2)>>, <<Level(43, 1), Level(44, 1)>>),
              Book(<<Level(40, 2)>>, <<Level(101, 1), Level(90, 2)>>) }

\* The market as mapped, closed, and with its tokens swapped.
ThreeDescriptors ==
    { MappedIds @@ [closed |-> FALSE, active |-> TRUE],
      MappedIds @@ [closed |-> TRUE, active |-> TRUE],
      [MappedIds EXCEPT !.yes = "no", !.no = "yes"] @@ [closed |-> FALSE, active |-> TRUE] }
ApprovedMapping == MappedIds @@ [semanticsMatch |-> TRUE, mappingHash |-> <<MappedIds, TRUE>>]
MidpointPolicy ==
    [method |-> "ORDERBOOK_MIDPOINT", maxSpread |-> 5, minDepth |-> 2,
     maxAge |-> 0, window |-> 2, maxDivergence |-> 3]

\* The recorded program, another of its size, a closed one; every probe of TxLINE
\* answers, or one of them.
ThreePrograms == {[hash |-> "v3", length |-> 5], [hash |-> "x", length |-> 5], Null}
TwoRecords == {"v3", Null}
TwoOutcomes == { {"odds"}, {"fixtures", "scores", "odds", "scoresStream", "oddsStream"} }

\* One market of the catalogue and one that is created away from its fair price.
OneMarketCatalog ==
    "m1" :> [type |-> "MATCH_WINNER", status |-> "TRADING", displayed |-> 40,
             fair |-> 40, materialSeq |-> 1, pricedAtSeq |-> 1,
             tolerance |-> 2, source |-> "demo", createdBy |-> "demo",
             rules |-> {"goals", "redCards", "penalties", "oddsUpdates"},
             lastSeq |-> 0, lastMaterial |-> FALSE, onChain |-> {}]
OneInput == {[type |-> "MATCH_WINNER", displayed |-> 50, fair |-> 60,
              tolerance |-> 2, source |-> "demo", rules |-> {"goals"}]}

Quoted(yes) == [YES |-> yes, NO |-> 100 - yes]
Scenario(sequence, before, after, side) ==
    [ initial |-> [eventSequence |-> sequence],
      event |-> [sequence |-> sequence + 1],
      quote |-> [sequence |-> sequence, before |-> Quoted(before), after |-> Quoted(after)],
      incomingOrder |-> [side |-> side, stake |-> 10],
      synchronizedOrder |-> [side |-> "YES", stake |-> 10] ]

\* The two incidents, in hundredths.
TwoScenarios ==
    "france-morocco" :> Scenario(738, 53, 87, "YES")
        @@ "argentina-brazil" :> Scenario(411, 48, 64, "NO")

PreGoalPrices == <<19, 27, 95>>
PostGoalPrices == <<12, 88, 475>>
Odds(ts, message, prices) ==
    [ fixtureId |-> 1, ts |-> ts, messageId |-> message, prices |-> prices,
      kind |-> "1X2_PARTICIPANT_RESULT" ]

OddsBeforeGoal == Odds(0, "pre", PreGoalPrices)
OddsAfterGoal == Odds(20, "post", PostGoalPrices)

\* A quote as it is, and with one field changed.
WithOneChange(q) ==
    { q, [q EXCEPT !.commitment.YES = @ - 5], [q EXCEPT !.commitment.NO = @ - 5],
      [q EXCEPT !.commitment.probability = @ + 1],
      [q EXCEPT !.commitment.expiresAt = @ + 9],
      [q EXCEPT !.commitment.quoteSequence = 3 - @],
      [q EXCEPT !.commitment.quoteSequence = 7],
      [q EXCEPT !.commitment.materialEventSequence = @ + 1] }
OperatorOrders(pre, post) ==
    [ marketId : {"v4"}, side : {"YES", "NO"}, stake : {10},
      quote : WithOneChange(pre) \cup WithOneChange(post), latest : {738, 739},
      submittedAt : {11, 40} ]

-----------------------------------------------------------------------------
(* The lifecycle scripts.                                                  *)

Traders == {"t0", "t1", "t2", "t3"}

\* The scripts' traders and amounts, scaled; two recorders and two finalizers.
Scripts == INSTANCE LifecycleScripts
    WITH DefaultKey <- "default", Operator <- "op", Stranger <- "outsider",
         Keys <- {"op", "feed", "pricer", "r1", "r2", "r3", "outsider", "default"},
         CandidateConfigs <-
             {[operator |-> "op", feed_authority |-> "feed",
               pricing_authority |-> "pricer",
               resolution_authorities |-> <<"r1", "r2", "r3">>]},
         StakeBounds <- {<<2, 20>>},
         InitialFunds <- ("op" :> 50) @@ ("outsider" :> 2) @@ ("t0" :> 30)
                            @@ ("t1" :> 20) @@ ("t2" :> 20) @@ ("t3" :> 20),
         Amounts <- {}, OrderArgs <- {}, MaxOrders <- 4,
         PayloadVariants <- {1}, GenuineVariants <- {1},
         RecordedPrices <- << <<19, 27, 95>>, <<12, 88, 475>> >>,
         SPREAD_MICROS <- 1,
         FinalStats <- {(1001 :> 1) @@ (1002 :> 0) @@ (3001 :> 1) @@ (3002 :> 0)},
         MaxTime <- 1, VoidEligibleAt <- 1, AccountingBound <- 100, MaxU64 <- 1000,
         MICROS_ONE <- 100, Players <- <<"t0", "t1", "t2", "t3">>, Stake <- 10,
         Deposit <- 40, Recorders <- {"rec1", "rec2"}, Finalizers <- {"fin1", "fin2"},
         Meddlings <- 2

-----------------------------------------------------------------------------
\* At rest: an initial state, the same for all behaviours of the others.
CacheRests == Cache!Init
DeployRests ==
    /\ Deploy!DeployInit
    /\ chain.buffer = Null
ScriptsRest ==
    /\ Scripts!ScriptsInit
    /\ script.name = "devnet"
WorkspaceRests ==
    /\ Workspace!Init
    /\ ready = FALSE
LiveRests ==
    /\ Live!LiveInit
    /\ Len(host.bids) = 1
StatusRests ==
    /\ Status!StatusInit
    /\ env = [cluster |-> "unconfigured", programIdValid |-> FALSE, recorded |-> Null,
              balance |-> "none", vaultExists |-> FALSE]
    /\ deployed = Null
IncidentRests == Incident!IncidentInit /\ scenarioId = "france-morocco"
ReplayRests == Replay!ReplayInit /\ replayStage = 1
OlderRest ==
    CacheRests /\ DeployRests /\ ScriptsRest /\ WorkspaceRests /\ LiveRests
ShownRest == StatusRests /\ IncidentRests /\ Lab!LabInit /\ ReplayRests

\* One call that nobody waits for at a time.
CacheBounds == unattended' <= 1

\* The sender has a partner as long as nobody constructs a deployment.
DeployBounds == tool'.pc # "off" => run'["s2"].pc = "off"

\* One tab that can go to devnet, with one event in the catalogue's market and either
\* one request and a save that fails or two requests, or with no request, an order and
\* both markets; or two tabs with one market, two events, a reload and a save that fails.
WorkspaceBounds ==
    LET OneMarket == \A t \in {"ta", "tb"} : DOMAIN snapshot'[t].markets = {"m1"}
    IN  \/ /\ ready
           /\ snapshot'["tb"] = snapshot["tb"] /\ workspace'["tb"] = Null
           /\ snapshot'["ta"].markets["m1"].materialSeq <= 2
           /\ reloads' = 0
           /\ panelCalls' = 2 => placed' = 0
           /\ saveFailures' > 0 => placed' = 0 /\ panelCalls' <= 1
        \/ /\ ~ ready /\ OneMarket
           /\ \A t \in {"ta", "tb"} : snapshot'[t].markets["m1"].materialSeq <= 2

\* There is nothing more to see once the market is open.
LiveBounds == liveMarket = Null

\* Where there is no recorded program on devnet nothing else varies but the reason, and
\* only an operator with money meets every program; one run is kept.
StatusStarts ==
    /\ env.vaultExists = (env.recorded # Null)
    /\ ~ env.programIdValid => env.cluster = "devnet"
    /\ env.recorded = Null \/ env.cluster # "devnet" \/ ~ env.programIdValid =>
          env.balance = "none" /\ deployed # Null /\ deployed.hash = "v3"
    /\ env.balance # "safe" => deployed # Null /\ deployed.hash = "v3"
StatusBounds == \A p \in DOMAIN panels' : Len(panels'[p].runs) <= 1

\* An operator sends one order, in a behaviour of its own.
LabBounds == operatorOrder' # Null => operatorOrder = Null /\ lab.outcome = Null /\ labRun' = Null

OneOperationInit ==
    \/ /\ service = "cache" /\ Cache!Init
       /\ DeployRests /\ ScriptsRest /\ WorkspaceRests /\ LiveRests /\ ShownRest
    \/ /\ service = "deployment" /\ Deploy!DeployInit
       /\ CacheRests /\ ScriptsRest /\ WorkspaceRests /\ LiveRests /\ ShownRest
    \/ /\ service = "scripts" /\ Scripts!ScriptsInit
       /\ CacheRests /\ DeployRests /\ WorkspaceRests /\ LiveRests /\ ShownRest
    \/ /\ service = "workspace" /\ Workspace!Init
       /\ CacheRests /\ DeployRests /\ ScriptsRest /\ LiveRests /\ ShownRest
    \/ /\ service = "live" /\ Live!LiveInit
       /\ CacheRests /\ DeployRests /\ ScriptsRest /\ WorkspaceRests /\ ShownRest
    \/ /\ service = "status" /\ Status!StatusInit /\ StatusStarts
       /\ OlderRest /\ IncidentRests /\ Lab!LabInit /\ ReplayRests
    \/ /\ service = "incident" /\ Incident!IncidentInit
       /\ OlderRest /\ StatusRests /\ Lab!LabInit /\ ReplayRests
    \/ /\ service = "lab" /\ Lab!LabInit
       /\ OlderRest /\ StatusRests /\ IncidentRests /\ ReplayRests
    \/ /\ service = "replay" /\ Replay!ReplayInit
       /\ OlderRest /\ StatusRests /\ IncidentRests /\ Lab!LabInit

OneOperationNext ==
    /\ UNCHANGED service
    /\ \/ /\ \/ service = "cache" /\ CacheStep /\ CacheBounds
             \/ service = "deployment" /\ DeployStep /\ DeployBounds
             \/ service = "live" /\ LiveStep /\ LiveBounds
             \/ service = "status" /\ StatusStep /\ StatusBounds
             \/ service = "workspace" /\ WorkspaceStep /\ WorkspaceBounds
             \/ service = "incident" /\ IncidentStep
             \/ service = "lab" /\ LabStep /\ LabBounds
             \/ service = "replay" /\ ReplayStep
          /\ UNCHANGED scriptVars
       \/ /\ service = "scripts" /\ Scripts!ScriptsNext
          /\ UNCHANGED operationsVars

vars == <<service, operationsVars, scriptVars>>

OneOperationSpec == OneOperationInit /\ [][OneOperationNext]_vars

-----------------------------------------------------------------------------
(* The properties, as the modules state them.                              *)

\* Every variable keeps its type, in everything that is operated.
OperationsTypeOK ==
    /\ service = "cache" => Cache!CacheTypeOK
    /\ service = "deployment" => Deploy!DeployTypeOK
    /\ service = "scripts" => Scripts!ScriptsTypeOK
    /\ service = "workspace" => Workspace!WorkspaceTypeOK
    /\ service = "live" => Live!LiveTypeOK
    /\ service = "status" => Status!StatusTypeOK
    /\ service = "incident" => Incident!IncidentTypeOK
    /\ service = "lab" => Lab!LabTypeOK
    /\ service = "replay" => Replay!ReplayTypeOK

\* LifecycleScripts: the local scripts pass, the recorded transactions land once
\* and in order, and the evidence says what happened.
RecordingsAreTrue ==
    service = "scripts" =>
        /\ Scripts!LocalScriptsPass
        /\ Scripts!LandsOnceInOrder
        /\ Scripts!EvidenceIsTrue
=============================================================================
