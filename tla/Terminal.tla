------------------------------ MODULE Terminal ------------------------------
(***************************************************************************)
(* The terminal's state machine, lib/terminal/reducer.ts: one deterministic *)
(* reducer, one action per case of its switch.  Timers, clicks and network *)
(* callbacks dispatch these actions and nothing orders them: whatever the   *)
(* reducer does not refuse can happen next.  A case that returns the state  *)
(* unchanged is an action that is not enabled; OPEN_STALE_WINDOW and        *)
(* RUN_REPLAY_STEP always do and have none.                                 *)
(***************************************************************************)
EXTENDS LineGuardRules

CONSTANTS
    Streams,        \* which of the two TxLINE streams there are
    Events,         \* events that may be ingested
    OnChainProofs,  \* proofs the on-chain panel may attach
    DemoFixture,
    MaxEvents       \* bound of the events ingested in one scenario

ASSUME TerminalAssumption ==
    /\ Streams \subseteq {"scores", "odds"}
    /\ Events \subseteq Event
    /\ DemoFixture \in Fixtures
    /\ MaxEvents \in Nat
    /\ MaxSeq >= 1
    /\ BOT_STAKE_USD <= BotStartingBalance
    /\ Null \notin OnChainProofs

VARIABLES
    mode,                \* "demo" or "live"
    txline,              \* server health, stream states, last event
    market,
    goalOnPitch,
    botSide,
    botPlan,
    order,
    ledger,
    verdict,
    verdictContext,      \* registers frozen at the moment of the verdict
    onChainProof,
    receipt,
    receiptVerification

feedVars == <<mode, txline, goalOnPitch>>
botVars == <<botSide, botPlan>>
orderVars == <<order, ledger>>
verdictVars == <<verdict, verdictContext>>
proofVars == <<onChainProof, receipt, receiptVerification>>
terminalVars ==
    <<feedVars, market, botVars, orderVars, verdictVars, proofVars>>

Modes == {"demo", "live"}
StreamStatuses == {"disconnected", "connecting", "live", "error"}

TxLineSlice ==
    [ liveCapable : BOOLEAN,         \* health.liveCapable, FALSE without health
      stream      : [Streams -> StreamStatuses],
      error       : BOOLEAN,
      lastEvent   : Event \cup {Null},
      eventsSeen  : 0 .. MaxEvents ]

INITIAL_TXLINE ==
    [ liveCapable |-> FALSE,
      stream |-> [s \in Streams |-> "disconnected"],
      error |-> FALSE,
      lastEvent |-> Null,
      eventsSeen |-> 0 ]

INITIAL_MARKET ==
    [ kind |-> "WINNER",
      fixtureId |-> DemoFixture,
      yes |-> 40,
      fairYes |-> 40,
      materialSeq |-> 1,
      pricedAtSeq |-> 1,
      status |-> "trading",
      lastMaterialEvent |-> Null ]

VerdictResult ==
    [ verdict : Verdicts, staleness : Int, edge : Edges,
      fairSidePrice : Prices, observedPrice : Prices ]

VerdictContext ==
    [ materialSeq : 0 .. MaxSeq, pricedAtSeq : 0 .. MaxSeq,
      fairYes : Prices, event : Event \cup {Null} ]

BotPlan ==
    [side : Sides, observedPrice : Prices, edge : Edges, attackReady : BOOLEAN]

-----------------------------------------------------------------------------
(* Receipts.  The hash of a receipt is a hash of every other field, modelled *)
(* by these fields themselves: equal hashes are equal contents.              *)

SourceModes == {"live", "captured", "guided"}

ReceiptFields ==
    [ side : Sides, observedPrice : Prices, fairSidePrice : Prices,
      fairYes : Prices, materialSeq : 0 .. MaxSeq, pricedAtSeq : 0 .. MaxSeq,
      staleness : Int, edge : Edges, verdict : Verdicts,
      sourceMode : SourceModes, onChain : OnChainProofs \cup {Null} ]

Receipt == [fields : ReceiptFields, receiptHash : ReceiptFields]
ReceiptVerification == [valid : BOOLEAN, expectedHash : ReceiptFields]

CreateSealed(fields) == [fields |-> fields, receiptHash |-> fields]

VerifySealed(r) ==
    [valid |-> r.receiptHash = r.fields, expectedHash |-> r.receiptHash]

SourceModeOf(event) ==
    IF event # Null /\ event.source \in {"live", "captured"}
    THEN event.source ELSE "guided"

\* null is none of the records it stands in for.
ASSUME NullAssumption ==
    /\ Null \notin Event
    /\ Null \notin Order
    /\ Null \notin BotPlan
    /\ Null \notin VerdictResult
    /\ Null \notin VerdictContext
    /\ Null \notin Receipt
    /\ Null \notin ReceiptVerification

-----------------------------------------------------------------------------
InitialScenario(m) ==
    /\ mode = m
    /\ txline = INITIAL_TXLINE
    /\ market = INITIAL_MARKET
    /\ goalOnPitch = FALSE
    /\ botSide = "YES"
    /\ botPlan = Null
    /\ order = Null
    /\ ledger = InitialLedger
    /\ verdict = Null
    /\ verdictContext = Null
    /\ onChainProof = Null
    /\ receipt = Null
    /\ receiptVerification = Null

Init == InitialScenario("demo")

\* createInitialState for a running terminal, with the slice it keeps.
FreshScenario(m, slice) ==
    /\ mode' = m
    /\ txline' = slice
    /\ market' = INITIAL_MARKET
    /\ goalOnPitch' = FALSE
    /\ botSide' = "YES"
    /\ botPlan' = Null
    /\ order' = Null
    /\ ledger' = InitialLedger
    /\ verdict' = Null
    /\ verdictContext' = Null
    /\ onChainProof' = Null
    /\ receipt' = Null
    /\ receiptVerification' = Null

ResetDemo(m) == FreshScenario(m, INITIAL_TXLINE)

\* Switching the mode keeps the server's health.
SetMode(m) ==
    /\ m # mode
    /\ FreshScenario(m, [INITIAL_TXLINE EXCEPT
                            !.liveCapable = txline.liveCapable])

SetHealth(liveCapable) ==
    /\ txline' = [txline EXCEPT !.liveCapable = liveCapable]
    /\ UNCHANGED <<mode, goalOnPitch, market, botVars, orderVars, verdictVars,
                   proofVars>>

\* TXLINE_CONNECTING, _CONNECTED, _ERROR and _STATUS.
StreamStatus(s, status) ==
    /\ txline' = [txline EXCEPT
            !.stream[s] = status,
            !.error = CASE status = "error" -> TRUE
                        [] status \in {"connecting", "live"} -> FALSE
                        [] OTHER -> @]
    /\ UNCHANGED <<mode, goalOnPitch, market, botVars, orderVars, verdictVars,
                   proofVars>>

GoalOnPitch ==
    /\ ~ goalOnPitch
    /\ ~ IsStale(market)
    /\ goalOnPitch' = TRUE
    /\ UNCHANGED <<mode, txline, market, botVars, orderVars, verdictVars,
                   proofVars>>

IngestTxlineEvent(event) ==
    /\ txline.eventsSeen < MaxEvents
    /\ market' = IngestEvent(market, event)
    /\ txline' = [txline EXCEPT !.lastEvent = event, !.eventsSeen = @ + 1]
    /\ UNCHANGED <<mode, goalOnPitch, botVars, orderVars, verdictVars, proofVars>>

SetBotSide(side) ==
    /\ order = Null
    /\ botSide' = side
    /\ UNCHANGED <<feedVars, market, botPlan, orderVars, verdictVars, proofVars>>

BotPrepareOrder ==
    /\ IsStale(market)
    /\ order = Null
    /\ botPlan' = ReadMarket(market, botSide)
    /\ UNCHANGED <<feedVars, market, botSide, orderVars, verdictVars, proofVars>>

\* The price is frozen on the order here.
BotSubmitOrder ==
    /\ IsStale(market)
    /\ order = Null
    /\ order' = [ side |-> botSide,
                  observedPrice |-> SidePrice(market.yes, botSide),
                  status |-> "submitted" ]
    /\ UNCHANGED <<feedVars, market, botVars, ledger, verdictVars, proofVars>>

OrderIs(status) == order # Null /\ order.status = status

Move(transition) ==
    /\ order' = transition.order
    /\ ledger' = transition.ledger

ReducerEscrowOrder ==
    /\ OrderIs("submitted")
    /\ Move(EscrowOrder(ledger, order))
    /\ UNCHANGED <<feedVars, market, botVars, verdictVars, proofVars>>

EvaluateOrder ==
    /\ OrderIs("escrowed")
    /\ Move(BeginEvaluation(ledger, order))
    /\ UNCHANGED <<feedVars, market, botVars, verdictVars, proofVars>>

\* Slip: an order without edge in a stale market is voided as well.
RevealVoidsEveryStaleOrder ==
    /\ OrderIs("evaluating")
    /\ verdict = Null
    /\ verdict' = EvaluateLineGuard(order.side, order.observedPrice, market)
    /\ verdictContext' = [ materialSeq |-> market.materialSeq,
                           pricedAtSeq |-> market.pricedAtSeq,
                           fairYes |-> market.fairYes,
                           event |-> market.lastMaterialEvent ]
    /\ Move(IF verdict'.verdict # "ALLOWED"
            THEN VoidOrder(ledger, order) ELSE FillEscrow(ledger, order))
    /\ UNCHANGED <<feedVars, market, botVars, proofVars>>

\* The decision.  A voided order's refund is a step of its own.
RevealVerdict ==
    /\ OrderIs("evaluating")
    /\ verdict = Null
    /\ verdict' = EvaluateLineGuard(order.side, order.observedPrice, market)
    /\ verdictContext' = [ materialSeq |-> market.materialSeq,
                           pricedAtSeq |-> market.pricedAtSeq,
                           fairYes |-> market.fairYes,
                           event |-> market.lastMaterialEvent ]
    /\ Move(IF verdict'.verdict = "VOIDED_REFUNDED"
            THEN VoidOrder(ledger, order) ELSE FillEscrow(ledger, order))
    /\ UNCHANGED <<feedVars, market, botVars, proofVars>>

RefundOrder ==
    /\ OrderIs("voided")
    /\ Move(RefundEscrow(ledger, order))
    /\ UNCHANGED <<feedVars, market, botVars, verdictVars, proofVars>>

\* Slip: FILL_ORDER does not look at the order's status.
FillAnyOrder ==
    /\ order # Null
    /\ Move(FillEscrow(ledger, [order EXCEPT !.status = "evaluating"]))
    /\ UNCHANGED <<feedVars, market, botVars, verdictVars, proofVars>>

FillOrder ==
    /\ OrderIs("evaluating")
    /\ Move(FillEscrow(ledger, order))
    /\ UNCHANGED <<feedVars, market, botVars, verdictVars, proofVars>>

\* The event a receipt names: the one frozen with the verdict.
ReceiptEvent ==
    IF verdictContext.event # Null
    THEN verdictContext.event ELSE market.lastMaterialEvent

\* Slip: the receipt takes the registers from the market of the moment.
CreateReceiptFromMarket ==
    /\ verdict # Null
    /\ order # Null
    /\ receipt = Null
    /\ receipt' = CreateSealed(
          [ side |-> order.side,
            observedPrice |-> verdict.observedPrice,
            fairSidePrice |-> verdict.fairSidePrice,
            fairYes |-> market.fairYes,
            materialSeq |-> market.materialSeq,
            pricedAtSeq |-> market.pricedAtSeq,
            staleness |-> verdict.staleness,
            edge |-> verdict.edge,
            verdict |-> verdict.verdict,
            sourceMode |-> SourceModeOf(ReceiptEvent),
            onChain |-> onChainProof ])
    /\ UNCHANGED <<feedVars, market, botVars, orderVars, verdictVars,
                   onChainProof, receiptVerification>>

CreateReceipt ==
    /\ verdict # Null
    /\ order # Null
    /\ receipt = Null
    /\ receipt' = CreateSealed(
          [ side |-> order.side,
            observedPrice |-> verdict.observedPrice,
            fairSidePrice |-> verdict.fairSidePrice,
            fairYes |-> verdictContext.fairYes,
            materialSeq |-> verdictContext.materialSeq,
            pricedAtSeq |-> verdictContext.pricedAtSeq,
            staleness |-> verdict.staleness,
            edge |-> verdict.edge,
            verdict |-> verdict.verdict,
            sourceMode |-> SourceModeOf(ReceiptEvent),
            onChain |-> onChainProof ])
    /\ UNCHANGED <<feedVars, market, botVars, orderVars, verdictVars,
                   onChainProof, receiptVerification>>

\* ATTACH_ONCHAIN_PROOF and, with Null, CLEAR_ONCHAIN_PROOF: the receipt is
\* sealed again, its verification stays.
SetOnChainProof(proof) ==
    /\ onChainProof' = proof
    /\ receipt' = IF receipt = Null THEN Null
                  ELSE CreateSealed([receipt.fields EXCEPT !.onChain = proof])
    /\ UNCHANGED <<feedVars, market, botVars, orderVars, verdictVars,
                   receiptVerification>>

AttachOnChainProof == \E proof \in OnChainProofs : SetOnChainProof(proof)

\* Slip: clearing the proof edits the receipt without sealing it again.
ClearWithoutResealing ==
    /\ onChainProof' = Null
    /\ receipt' = IF receipt = Null THEN Null
                  ELSE [receipt EXCEPT !.fields.onChain = Null]
    /\ UNCHANGED <<feedVars, market, botVars, orderVars, verdictVars,
                   receiptVerification>>

ClearOnChainProof == SetOnChainProof(Null)

VerifyReceipt ==
    /\ receipt # Null
    /\ receiptVerification' = VerifySealed(receipt)
    /\ UNCHANGED <<feedVars, market, botVars, orderVars, verdictVars,
                   onChainProof, receipt>>

ReducerRepriceMarket ==
    /\ IsStale(market)
    /\ market' = RepriceMarket(market)
    /\ UNCHANGED <<feedVars, botVars, orderVars, verdictVars, proofVars>>

Next ==
    \/ \E m \in Modes : ResetDemo(m) \/ SetMode(m)
    \/ \E liveCapable \in BOOLEAN : SetHealth(liveCapable)
    \/ \E s \in Streams, status \in StreamStatuses : StreamStatus(s, status)
    \/ GoalOnPitch
    \/ \E event \in Events : IngestTxlineEvent(event)
    \/ \E side \in Sides : SetBotSide(side)
    \/ BotPrepareOrder
    \/ BotSubmitOrder
    \/ ReducerEscrowOrder
    \/ EvaluateOrder
    \/ RevealVerdict
    \/ RefundOrder
    \/ FillOrder
    \/ CreateReceipt
    \/ AttachOnChainProof
    \/ ClearOnChainProof
    \/ VerifyReceipt
    \/ ReducerRepriceMarket

Spec == Init /\ [][Next]_terminalVars

-----------------------------------------------------------------------------
TypeOK ==
    /\ mode \in Modes
    /\ txline \in TxLineSlice
    /\ market \in Market
    /\ goalOnPitch \in BOOLEAN
    /\ botSide \in Sides
    /\ botPlan \in BotPlan \cup {Null}
    /\ order \in Order \cup {Null}
    /\ ledger \in EscrowLedger
    /\ verdict \in VerdictResult \cup {Null}
    /\ verdictContext \in VerdictContext \cup {Null}
    /\ onChainProof \in OnChainProofs \cup {Null}
    /\ receipt \in Receipt \cup {Null}
    /\ receiptVerification \in ReceiptVerification \cup {Null}

\* Whatever order the actions come in, the five buckets of the ledger say where
\* the order is: its stake is in exactly one of them, a refund has gone back to
\* the bot in full, and only a refunded order counts as refunded.
MoneyFollowsOrder ==
    LET stakeIf(statuses) ==
            IF order # Null /\ order.status \in statuses
            THEN BOT_STAKE_USD ELSE 0
    IN  /\ ledger.escrowedAmount = stakeIf({"escrowed", "evaluating", "voided"})
        /\ ledger.refundedAmount = stakeIf({"refunded"})
        /\ ledger.filledAmount = stakeIf({"filled"})
        /\ ledger.protocolBalance = stakeIf({"filled"})
        /\ ledger.botAvailableBalance = BotStartingBalance
              - ledger.escrowedAmount - ledger.protocolBalance

\* The verdict shown, the registers frozen beside it and what became of the
\* order agree: the rules give this verdict for these registers, a void order
\* is never filled and an allowed one is never refunded, however the market
\* moved since.
VerdictDecidesFate ==
    verdict # Null =>
        /\ order # Null
        /\ verdictContext # Null
        /\ order.status \in IF verdict.verdict = "VOIDED_REFUNDED"
                            THEN {"voided", "refunded"} ELSE {"filled"}
        /\ verdict = EvaluateLineGuard(order.side, order.observedPrice,
                        [ materialSeq |-> verdictContext.materialSeq,
                          pricedAtSeq |-> verdictContext.pricedAtSeq,
                          fairYes |-> verdictContext.fairYes ])

\* A market that says it is trading shows the fair price: no sequence of
\* ingested events, in order or not, and reprices closes the window without
\* moving the quote.
TradingMeansFair ==
    market.status = "trading" =>
        /\ ~ IsStale(market)
        /\ market.yes = market.fairYes

\* The receipt tells the verdict that was given, from the registers that were
\* frozen with it, and carries exactly the linked proof; its seal matches after
\* any number of attached and cleared proofs.
ReceiptTellsTheVerdict ==
    receipt # Null =>
        /\ receipt.receiptHash = receipt.fields
        /\ receipt.fields.onChain = onChainProof
        /\ verdict # Null
        /\ receipt.fields.verdict = verdict.verdict
        /\ receipt.fields.edge = verdict.edge
        /\ receipt.fields.staleness
              = receipt.fields.materialSeq - receipt.fields.pricedAtSeq
        /\ receipt.fields.fairSidePrice
              = SidePrice(receipt.fields.fairYes, receipt.fields.side)
        /\ receipt.fields.edge
              = receipt.fields.fairSidePrice - receipt.fields.observedPrice

IsFresh == order' = Null /\ verdict' = Null /\ receipt' = Null

\* Within a scenario a decided order stays decided: a filled or refunded order,
\* a verdict and what a receipt says of it never change; only starting the
\* scenario over clears them.
DecisionsAreFinal ==
    [][ \/ IsFresh
        \/ /\ order # Null /\ order.status \in {"filled", "refunded"}
                => order' = order /\ ledger' = ledger
           /\ verdict # Null
                => verdict' = verdict /\ verdictContext' = verdictContext
           /\ receipt # Null
                => /\ receipt' # Null
                   /\ receipt'.fields = [receipt.fields EXCEPT
                                            !.onChain = onChainProof']
      ]_terminalVars
=============================================================================
