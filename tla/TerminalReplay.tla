--------------------------- MODULE TerminalReplay ---------------------------
(***************************************************************************)
(* The scripted replay, hooks/useReplay.ts, driving the terminal.  A run   *)
(* sets one timer per step; starting another run, resetting or unmounting  *)
(* cancels the timers that are left.  A timer that fires dispatches its    *)
(* action, and the reducer takes it or ignores it.  While a run is playing *)
(* the user still clicks: side, mode, receipt, on-chain proof, captured    *)
(* payloads.                                                               *)
(***************************************************************************)
EXTENDS Terminal, Sequences

CONSTANTS
    DemoGoal,       \* DEMO_GOAL_EVENT
    CapturedEvents, \* payloads the captured-payload panel may replay
    MaxRuns         \* bound of the runs started or reset

\* The goal is the one literal of demoFeed.ts; what the captured-payload panel
\* replays is tagged as captured.
ASSUME ReplayAssumption ==
    /\ DemoGoal = [ eventType |-> "GOAL", source |-> "demo", fixtureId |-> DemoFixture,
                    seq |-> 2, forBacked |-> TRUE, implied |-> 0 ]
    /\ DemoGoal \in Event
    /\ CapturedEvents \subseteq Event
    /\ \A event \in CapturedEvents : event.source = "captured"
    /\ MaxRuns \in Nat

VARIABLES
    playing,
    token,      \* the current run
    script,     \* the steps of the current run
    timers      \* those whose timers have not fired

replayVars == <<playing, token, script, timers>>
replayStateVars == <<terminalVars, replayVars>>

PHASES ==
    << <<"GOAL_ON_PITCH">>,
       <<"INGEST_TXLINE_EVENT">>,
       <<"BOT_PREPARE_ORDER", "BOT_SUBMIT_ORDER", "ESCROW_ORDER",
         "EVALUATE_ORDER">>,
       <<"REVEAL_VERDICT", "REFUND_ORDER", "CREATE_RECEIPT",
         "VERIFY_RECEIPT">>,
       <<"REPRICE_MARKET">> >>

AllSteps == PHASES[1] \o PHASES[2] \o PHASES[3] \o PHASES[4] \o PHASES[5]

\* When the reducer does not ignore a scripted action.
Accepts ==
    [ GOAL_ON_PITCH       |-> ~ goalOnPitch /\ ~ IsStale(market),
      INGEST_TXLINE_EVENT |-> txline.eventsSeen < MaxEvents,
      BOT_PREPARE_ORDER   |-> IsStale(market) /\ order = Null,
      BOT_SUBMIT_ORDER    |-> IsStale(market) /\ order = Null,
      ESCROW_ORDER        |-> OrderIs("submitted"),
      EVALUATE_ORDER      |-> OrderIs("escrowed"),
      REVEAL_VERDICT      |-> OrderIs("evaluating") /\ verdict = Null,
      REFUND_ORDER        |-> OrderIs("voided"),
      CREATE_RECEIPT      |-> verdict # Null /\ order # Null /\ receipt = Null,
      VERIFY_RECEIPT      |-> receipt # Null,
      REPRICE_MARKET      |-> IsStale(market) ]

Dispatch(step) ==
    \/ step = "GOAL_ON_PITCH" /\ GoalOnPitch
    \/ step = "INGEST_TXLINE_EVENT" /\ IngestTxlineEvent(DemoGoal)
    \/ step = "BOT_PREPARE_ORDER" /\ BotPrepareOrder
    \/ step = "BOT_SUBMIT_ORDER" /\ BotSubmitOrder
    \/ step = "ESCROW_ORDER" /\ ReducerEscrowOrder
    \/ step = "EVALUATE_ORDER" /\ EvaluateOrder
    \/ step = "REVEAL_VERDICT" /\ RevealVerdict
    \/ step = "REFUND_ORDER" /\ RefundOrder
    \/ step = "CREATE_RECEIPT" /\ CreateReceipt
    \/ step = "VERIFY_RECEIPT" /\ VerifyReceipt
    \/ step = "REPRICE_MARKET" /\ ReducerRepriceMarket

ReplayInit ==
    /\ Init
    /\ playing = FALSE
    /\ token = 0
    /\ script = <<>>
    /\ timers = <<>>

\* Slip: the timers of the run before are not cancelled.
ScheduleAfterTheOthers(steps) ==
    /\ token < MaxRuns
    /\ token' = token + 1
    /\ script' = steps
    /\ timers' = timers \o steps
    /\ playing' = (steps # <<>>)

\* clearTimers, and schedule when there are steps.
Schedule(steps) ==
    /\ token < MaxRuns
    /\ token' = token + 1
    /\ script' = steps
    /\ timers' = steps
    /\ playing' = (steps # <<>>)

RunFull ==
    /\ ResetDemo(mode)
    /\ Schedule(AllSteps)

RunPhase(i) ==
    /\ Schedule(PHASES[i])
    /\ UNCHANGED terminalVars

Reset ==
    /\ ResetDemo(mode)
    /\ Schedule(<<>>)

\* Slip: the last step does not tell that the run is over.
FireWithoutOnDone ==
    /\ timers # <<>>
    /\ IF Accepts[Head(timers)] THEN Dispatch(Head(timers))
                                ELSE UNCHANGED terminalVars
    /\ timers' = Tail(timers)
    /\ UNCHANGED <<playing, token, script>>

\* Slip: the steps fire last first.
FireLast ==
    /\ timers # <<>>
    /\ LET last == timers[Len(timers)]
       IN  IF Accepts[last] THEN Dispatch(last) ELSE UNCHANGED terminalVars
    /\ timers' = SubSeq(timers, 1, Len(timers) - 1)
    /\ playing' = (Len(timers) > 1)
    /\ UNCHANGED <<token, script>>

Fire ==
    /\ timers # <<>>
    /\ IF Accepts[Head(timers)] THEN Dispatch(Head(timers))
                                ELSE UNCHANGED terminalVars
    /\ timers' = Tail(timers)
    /\ playing' = (Len(timers) > 1)
    /\ UNCHANGED <<token, script>>

\* What the panels dispatch while the replay runs.
Click ==
    /\ \/ \E m \in Modes : SetMode(m)
       \/ \E side \in Sides : SetBotSide(side)
       \/ \E event \in CapturedEvents : IngestTxlineEvent(event)
       \/ VerifyReceipt
       \/ AttachOnChainProof
       \/ ClearOnChainProof
    /\ UNCHANGED replayVars

ReplayNext ==
    \/ RunFull
    \/ \E i \in DOMAIN PHASES : RunPhase(i)
    \/ Reset
    \/ Fire
    \/ Click

\* Timers fire; nobody has to click.
ReplaySpec == ReplayInit /\ [][ReplayNext]_replayStateVars /\ WF_replayStateVars(Fire)

-----------------------------------------------------------------------------
ReplayTypeOK ==
    /\ TypeOK
    /\ playing \in BOOLEAN
    /\ token \in 0 .. MaxRuns
    /\ script \in {AllSteps, <<>>} \cup {PHASES[i] : i \in DOMAIN PHASES}
    /\ \E n \in 0 .. Len(script) : timers = SubSeq(script, n + 1, Len(script))

\* A full run that ingested the goal into this scenario, and nothing else, has
\* told the whole story when its last timer fired, whatever was clicked
\* meanwhile: the order that profits from the goal is refunded and the one that
\* does not is filled, and the market shows the new price.
FullRunTellsTheStory ==
    script = AllSteps /\ timers = <<>>
        /\ txline.eventsSeen = 1 /\ txline.lastEvent = DemoGoal =>
        /\ order # Null
        /\ order.status = IF order.side = "YES" THEN "refunded" ELSE "filled"
        /\ receipt # Null
        /\ receiptVerification # Null /\ receiptVerification.valid
        /\ market.status = "trading" /\ market.yes = 63

\* Playing is what the timers say, and every run that is not restarted for ever
\* stops playing.
RunsEnd == playing ~> (~ playing /\ timers = <<>>)
=============================================================================
