-------------------------- MODULE TerminalAppProofs --------------------------
(***************************************************************************)
(* Proofs about the terminal under each of its drivers.  The reducer is    *)
(* what they share: whatever a user clicks, a timer fires or a stream      *)
(* delivers is one of its cases, so its invariants are proved once, of     *)
(* ReducerStep, and then of the terminal alone and of the composition.     *)
(***************************************************************************)
EXTENDS TerminalApp, SequenceTheorems, TLAPS

USE LineGuardRulesAssumption, TerminalAssumption, NullAssumption

\* A dispatch: a new scenario, a report of the feed, or a case of the reducer.
\* The events are any that are typed and the slice any that is typed, so that it
\* covers what the two streams make of their payloads.
FeedReports ==
    /\ txline' \in TxLineSlice
    /\ UNCHANGED <<mode, goalOnPitch, market, botVars, orderVars, verdictVars,
                   proofVars>>

Restarts == \E m \in Modes, slice \in TxLineSlice : FreshScenario(m, slice)

ReducerStep ==
    \/ Restarts
    \/ FeedReports
    \/ GoalOnPitch
    \/ \E event \in Event : IngestTxlineEvent(event)
    \/ \E side \in Sides : SetBotSide(side)
    \/ BotPrepareOrder
    \/ BotSubmitOrder
    \/ ReducerEscrowOrder
    \/ EvaluateOrder
    \/ RevealVerdict
    \/ RefundOrder
    \/ FillOrder
    \/ CreateReceipt
    \/ \E proof \in OnChainProofs \cup {Null} : SetOnChainProof(proof)
    \/ VerifyReceipt
    \/ ReducerRepriceMarket

(***************************************************************************)
(* The rules are typed.                                                    *)
(***************************************************************************)

\* A fair value is a price, whatever the event.
LEMMA FairValueTyped ==
    ASSUME NEW m \in Market, NEW event \in Event
    PROVE  ComputeFairValueFromEvent(event, m, m.fairYes) \in Prices
<1>1. \A p \in Int : ClampPrice(p) \in Prices
  BY DEF ClampPrice, Prices
<1>2. /\ m.fairYes \in Prices
      /\ m.fairYes \in Int
      /\ event.implied \in Int
  BY DEF Market, Event, Prices
<1>3. m.fairYes + GOAL_TOTAL \in Int
  BY <1>2 DEF GOAL_TOTAL
<1>4. ASSUME NEW x \in DOMAIN FairShift
      PROVE  /\ m.fairYes + FairShift[x].for \in Int
             /\ m.fairYes + FairShift[x].against \in Int
  BY <1>2, <1>4 DEF FairShift
<1>. QED
  BY <1>1, <1>2, <1>3, <1>4 DEF ComputeFairValueFromEvent

\* Ingesting an event and repricing keep a market a market.
LEMMA MarketTyped ==
    ASSUME NEW m \in Market
    PROVE  /\ \A event \in Event : IngestEvent(m, event) \in Market
           /\ RepriceMarket(m) \in Market
           /\ INITIAL_MARKET \in Market
<1>1. ASSUME NEW event \in Event
      PROVE  IngestEvent(m, event) \in Market
  <2> DEFINE fair == ComputeFairValueFromEvent(event, m, m.fairYes)
             seq == IF event.seq > m.materialSeq THEN event.seq ELSE m.materialSeq
  <2>1. fair \in Prices
    BY FairValueTyped
  <2>2. seq \in 0 .. MaxSeq
    BY DEF Market, Event
  <2>3. IngestEvent(m, event) =
           IF EventImpactsMarket(event, m)
           THEN [m EXCEPT !.materialSeq = seq, !.fairYes = fair, !.status = "stale",
                          !.lastMaterialEvent = event]
           ELSE m
    BY DEF IngestEvent
  <2> HIDE DEF fair, seq
  <2>. QED BY <2>1, <2>2, <2>3 DEF Market
<1>2. RepriceMarket(m) \in Market
  BY DEF RepriceMarket, Market
<1>3. INITIAL_MARKET \in Market
  BY DEF INITIAL_MARKET, Market, MarketKinds, Prices
<1>. QED BY <1>1, <1>2, <1>3

\* A side's price and the difference of two prices.
LEMMA PricesTyped ==
    /\ \A yes \in Prices, side \in Sides : SidePrice(yes, side) \in Prices
    /\ \A p, q \in Prices : p - q \in Edges
<1>1. ASSUME NEW yes \in Prices, NEW side \in Sides
      PROVE  SidePrice(yes, side) \in Prices
  BY DEF SidePrice, Prices
<1>2. ASSUME NEW p \in Prices, NEW q \in Prices
      PROVE  p - q \in Edges
  BY DEF Prices, Edges
<1>. QED BY <1>1, <1>2

\* A verdict and a reading are typed.
LEMMA VerdictTyped ==
    ASSUME NEW m \in Market, NEW side \in Sides, NEW observed \in Prices
    PROVE  /\ EvaluateLineGuard(side, observed, m) \in VerdictResult
           /\ ReadMarket(m, side) \in BotPlan
<1> DEFINE fair == SidePrice(m.fairYes, side)
           shown == SidePrice(m.yes, side)
<1>1. m.fairYes \in Prices /\ m.yes \in Prices
  BY DEF Market
<1>2. fair \in Prices /\ shown \in Prices
  BY <1>1, PricesTyped
<1>3. fair - observed \in Edges /\ fair - shown \in Edges
  BY <1>2, PricesTyped
<1>4. m.materialSeq - m.pricedAtSeq \in Int
  BY DEF Market
<1>5. EvaluateLineGuard(side, observed, m).verdict \in Verdicts
  BY DEF EvaluateLineGuard, Verdicts
<1>6. EvaluateLineGuard(side, observed, m) =
         [ verdict |-> EvaluateLineGuard(side, observed, m).verdict,
           staleness |-> m.materialSeq - m.pricedAtSeq,
           edge |-> fair - observed,
           fairSidePrice |-> fair,
           observedPrice |-> observed ]
  BY DEF EvaluateLineGuard
<1>7. ReadMarket(m, side) =
         [ side |-> side, observedPrice |-> shown, edge |-> fair - shown,
           attackReady |-> IsStale(m) /\ fair - shown > TOLERANCE ]
  BY DEF ReadMarket
<1>8. (IsStale(m) /\ fair - shown > TOLERANCE) \in BOOLEAN
  OBVIOUS
<1> HIDE DEF fair, shown
<1>9. EvaluateLineGuard(side, observed, m) \in VerdictResult
  BY <1>2, <1>3, <1>4, <1>5, <1>6 DEF VerdictResult
<1>10. ReadMarket(m, side) \in BotPlan
  BY <1>2, <1>3, <1>7, <1>8 DEF BotPlan
<1>. QED BY <1>9, <1>10

(***************************************************************************)
(* The escrow.                                                             *)
(***************************************************************************)

\* The buckets say where order o is, which is Null or in the escrow's hands.
Held(o, statuses) == IF o # Null /\ o.status \in statuses THEN BOT_STAKE_USD ELSE 0

MoneyAt(l, o) ==
    /\ l.escrowedAmount = Held(o, {"escrowed", "evaluating", "voided"})
    /\ l.refundedAmount = Held(o, {"refunded"})
    /\ l.filledAmount = Held(o, {"filled"})
    /\ l.protocolBalance = Held(o, {"filled"})
    /\ l.botAvailableBalance
          = BotStartingBalance - l.escrowedAmount - l.protocolBalance

\* This is the invariant, of the ledger and the order of the moment.
LEMMA MoneyIsMoneyAt == MoneyFollowsOrder <=> MoneyAt(ledger, order)
BY DEF MoneyFollowsOrder, MoneyAt, Held

\* A ledger whose buckets say where the order is, is typed: none is negative and
\* none holds more than the bot started with.
LEMMA MoneyTyped ==
    ASSUME NEW o, NEW l, MoneyAt(l, o),
           l = [ botAvailableBalance |-> l.botAvailableBalance,
                 escrowedAmount |-> l.escrowedAmount,
                 refundedAmount |-> l.refundedAmount,
                 filledAmount |-> l.filledAmount,
                 protocolBalance |-> l.protocolBalance ]
    PROVE  l \in EscrowLedger
<1>1. /\ l.escrowedAmount \in Money
      /\ l.refundedAmount \in Money
      /\ l.filledAmount \in Money
      /\ l.protocolBalance \in Money
  BY DEF MoneyAt, Held, Money
<1>2. l.escrowedAmount = 0 \/ l.protocolBalance = 0
  BY DEF MoneyAt, Held
<1>3. l.botAvailableBalance \in Money
  BY <1>1, <1>2 DEF MoneyAt, Money
<1>. QED BY <1>1, <1>3 DEF EscrowLedger

\* A transition of the escrow moves the stake with the order, or moves neither.
LEMMA EscrowMoves ==
    ASSUME NEW l \in EscrowLedger, NEW o \in Order, MoneyAt(l, o),
           NEW t \in { EscrowOrder(l, o), BeginEvaluation(l, o), VoidOrder(l, o),
                       RefundEscrow(l, o), FillEscrow(l, o) }
    PROVE  /\ t.order \in Order
           /\ t.ledger \in EscrowLedger
           /\ MoneyAt(t.ledger, t.order)
           /\ t.order.side = o.side
           /\ t.order.observedPrice = o.observedPrice
<1> DEFINE S == BOT_STAKE_USD
           B == BotStartingBalance
           q == t.order
           m == t.ledger
<1>1. /\ o # Null
      /\ l.escrowedAmount \in Int /\ l.refundedAmount \in Int /\ l.filledAmount \in Int
      /\ l.protocolBalance \in Int /\ l.botAvailableBalance \in Int
      /\ S \in Int /\ B \in Int
  BY DEF EscrowLedger, Money
<1>2. CASE t = [ledger |-> l, order |-> o]
  BY <1>2
<1>3. ASSUME NEW status \in OrderStatuses, q = [o EXCEPT !.status = status]
      PROVE  /\ q \in Order
             /\ q # Null
             /\ q.status = status
             /\ q.side = o.side
             /\ q.observedPrice = o.observedPrice
  BY <1>3 DEF Order
<1>4. ASSUME MoneyAt(m, q),
             m = [ botAvailableBalance |-> m.botAvailableBalance,
                   escrowedAmount |-> m.escrowedAmount,
                   refundedAmount |-> m.refundedAmount,
                   filledAmount |-> m.filledAmount,
                   protocolBalance |-> m.protocolBalance ]
      PROVE  m \in EscrowLedger /\ MoneyAt(m, q)
  BY <1>4, MoneyTyped
<1>5. CASE t = EscrowOrder(l, o) /\ t # [ledger |-> l, order |-> o]
  <2>1. o.status = "submitted"
    BY <1>5 DEF EscrowOrder, Unmoved
  <2>2. /\ q = [o EXCEPT !.status = "escrowed"]
        /\ m = [ l EXCEPT !.botAvailableBalance = @ - S, !.escrowedAmount = @ + S ]
    BY <1>5, <2>1 DEF EscrowOrder, Unmoved
  <2>3. q.status = "escrowed" /\ q # Null
    BY <1>3, <2>2 DEF OrderStatuses
  <2>4. /\ m.escrowedAmount = l.escrowedAmount + S
        /\ m.refundedAmount = l.refundedAmount
        /\ m.filledAmount = l.filledAmount
        /\ m.protocolBalance = l.protocolBalance
        /\ m.botAvailableBalance = l.botAvailableBalance - S
    BY <2>2 DEF EscrowLedger
  <2> HIDE DEF q, m
  <2>5. MoneyAt(m, q)
    BY <1>1, <2>1, <2>3, <2>4 DEF MoneyAt, Held
  <2>. QED BY <1>3, <1>4, <2>2, <2>5 DEF q, m, OrderStatuses, EscrowLedger
<1>6. CASE t = BeginEvaluation(l, o) /\ t # [ledger |-> l, order |-> o]
  <2>1. o.status = "escrowed" /\ m = l /\ q = [o EXCEPT !.status = "evaluating"]
    BY <1>6 DEF BeginEvaluation, Unmoved
  <2>2. q.status = "evaluating" /\ q # Null
    BY <1>3, <2>1 DEF OrderStatuses
  <2> HIDE DEF q, m
  <2>3. MoneyAt(m, q)
    BY <1>1, <2>1, <2>2 DEF MoneyAt, Held
  <2>. QED BY <1>3, <2>1, <2>3 DEF q, m, OrderStatuses
<1>7. CASE t = VoidOrder(l, o) /\ t # [ledger |-> l, order |-> o]
  <2>1. o.status = "evaluating" /\ m = l /\ q = [o EXCEPT !.status = "voided"]
    BY <1>7 DEF VoidOrder, Unmoved
  <2>2. q.status = "voided" /\ q # Null
    BY <1>3, <2>1 DEF OrderStatuses
  <2> HIDE DEF q, m
  <2>3. MoneyAt(m, q)
    BY <1>1, <2>1, <2>2 DEF MoneyAt, Held
  <2>. QED BY <1>3, <2>1, <2>3 DEF q, m, OrderStatuses
<1>8. CASE t = RefundEscrow(l, o) /\ t # [ledger |-> l, order |-> o]
  <2>1. o.status = "voided"
    BY <1>8 DEF RefundEscrow, Unmoved
  <2>2. /\ q = [o EXCEPT !.status = "refunded"]
        /\ m = [ l EXCEPT !.escrowedAmount = @ - S, !.botAvailableBalance = @ + S,
                          !.refundedAmount = @ + S ]
    BY <1>8, <2>1 DEF RefundEscrow, Unmoved
  <2>3. q.status = "refunded" /\ q # Null
    BY <1>3, <2>2 DEF OrderStatuses
  <2>4. /\ m.escrowedAmount = l.escrowedAmount - S
        /\ m.refundedAmount = l.refundedAmount + S
        /\ m.filledAmount = l.filledAmount
        /\ m.protocolBalance = l.protocolBalance
        /\ m.botAvailableBalance = l.botAvailableBalance + S
    BY <2>2 DEF EscrowLedger
  <2> HIDE DEF q, m
  <2>5. MoneyAt(m, q)
    BY <1>1, <2>1, <2>3, <2>4 DEF MoneyAt, Held
  <2>. QED BY <1>3, <1>4, <2>2, <2>5 DEF q, m, OrderStatuses, EscrowLedger
<1>9. CASE t = FillEscrow(l, o) /\ t # [ledger |-> l, order |-> o]
  <2>1. o.status = "evaluating"
    BY <1>9 DEF FillEscrow, Unmoved
  <2>2. /\ q = [o EXCEPT !.status = "filled"]
        /\ m = [ l EXCEPT !.escrowedAmount = @ - S, !.filledAmount = @ + S,
                          !.protocolBalance = @ + S ]
    BY <1>9, <2>1 DEF FillEscrow, Unmoved
  <2>3. q.status = "filled" /\ q # Null
    BY <1>3, <2>2 DEF OrderStatuses
  <2>4. /\ m.escrowedAmount = l.escrowedAmount - S
        /\ m.refundedAmount = l.refundedAmount
        /\ m.filledAmount = l.filledAmount + S
        /\ m.protocolBalance = l.protocolBalance + S
        /\ m.botAvailableBalance = l.botAvailableBalance
    BY <2>2 DEF EscrowLedger
  <2> HIDE DEF q, m
  <2>5. MoneyAt(m, q)
    BY <1>1, <2>1, <2>3, <2>4 DEF MoneyAt, Held
  <2>. QED BY <1>3, <1>4, <2>2, <2>5 DEF q, m, OrderStatuses, EscrowLedger
<1>. QED BY <1>2, <1>5, <1>6, <1>7, <1>8, <1>9

(***************************************************************************)
(* Types and money, after any dispatch.  Neither holds alone: the ledger   *)
(* stays within its range because the stake is in one bucket only.         *)
(***************************************************************************)

\* A new scenario is typed and its money is where it started.
LEMMA FreshTyped ==
    ASSUME NEW m \in Modes, NEW slice \in TxLineSlice, FreshScenario(m, slice)
    PROVE  TypeOK' /\ MoneyFollowsOrder'
<1>1. INITIAL_MARKET \in Market
  BY DEF INITIAL_MARKET, Market, MarketKinds, Prices
<1>2. MoneyFollowsOrder'
  BY DEF FreshScenario, MoneyFollowsOrder, InitialLedger
<1>3. InitialLedger \in EscrowLedger
  BY DEF InitialLedger, EscrowLedger, Money
<1>. QED BY <1>1, <1>2, <1>3 DEF FreshScenario, TypeOK, Sides

\* A transition of the escrow that the reducer makes for the order it has.
LEMMA MoveTyped ==
    ASSUME TypeOK, MoneyFollowsOrder, order # Null,
           NEW t \in { EscrowOrder(ledger, order), BeginEvaluation(ledger, order),
                       VoidOrder(ledger, order), RefundEscrow(ledger, order),
                       FillEscrow(ledger, order) },
           Move(t)
    PROVE  /\ order' \in Order
           /\ ledger' \in EscrowLedger
           /\ MoneyFollowsOrder'
           /\ order' # Null
           /\ order'.side = order.side
           /\ order'.observedPrice = order.observedPrice
<1>1. order \in Order /\ ledger \in EscrowLedger /\ MoneyAt(ledger, order)
  BY MoneyIsMoneyAt DEF TypeOK
<1>2. /\ t.order \in Order
      /\ t.ledger \in EscrowLedger
      /\ MoneyAt(t.ledger, t.order)
      /\ t.order.side = order.side
      /\ t.order.observedPrice = order.observedPrice
  BY <1>1, EscrowMoves
<1>3. order' = t.order /\ ledger' = t.ledger
  BY DEF Move
<1>4. MoneyFollowsOrder'
  <2>1. MoneyAt(ledger', order')
    BY <1>2, <1>3
  <2>. QED BY <2>1 DEF MoneyFollowsOrder, MoneyAt, Held
<1>. QED BY <1>2, <1>3, <1>4

\* The verdict that is revealed is typed.
LEMMA RevealTyped ==
    ASSUME TypeOK, RevealVerdict
    PROVE  verdict' \in VerdictResult
<1>1. market \in Market /\ order.side \in Sides /\ order.observedPrice \in Prices
  BY DEF RevealVerdict, OrderIs, TypeOK, Order
<1>. QED BY <1>1, VerdictTyped DEF RevealVerdict

\* The receipt of a verdict is typed.
LEMMA CreateTyped ==
    ASSUME TypeOK, VerdictDecidesFate, CreateReceipt
    PROVE  receipt' \in Receipt
<1>1. /\ order \in Order
      /\ verdict \in VerdictResult
      /\ verdictContext \in VerdictContext
      /\ onChainProof \in OnChainProofs \cup {Null}
  BY DEF CreateReceipt, TypeOK, VerdictDecidesFate
<1> DEFINE source == SourceModeOf(ReceiptEvent)
           fields ==
              [ side |-> order.side,
                observedPrice |-> verdict.observedPrice,
                fairSidePrice |-> verdict.fairSidePrice,
                fairYes |-> verdictContext.fairYes,
                materialSeq |-> verdictContext.materialSeq,
                pricedAtSeq |-> verdictContext.pricedAtSeq,
                staleness |-> verdict.staleness,
                edge |-> verdict.edge,
                verdict |-> verdict.verdict,
                sourceMode |-> source,
                onChain |-> onChainProof ]
<1>2. source \in SourceModes
  BY DEF SourceModeOf, SourceModes
<1>3. fields \in ReceiptFields
  <2> HIDE DEF source
  <2>. QED BY <1>1, <1>2 DEF Order, VerdictResult, VerdictContext, ReceiptFields
<1>4. receipt' = [fields |-> fields, receiptHash |-> fields]
  BY DEF CreateReceipt, CreateSealed
<1> HIDE DEF fields
<1>. QED BY <1>3, <1>4 DEF Receipt

\* A receipt stays one when it is sealed again with another proof.
LEMMA ResealTyped ==
    ASSUME TypeOK, NEW proof \in OnChainProofs \cup {Null}, SetOnChainProof(proof),
           receipt # Null
    PROVE  receipt' \in Receipt
<1>1. receipt.fields \in ReceiptFields
  BY DEF TypeOK, Receipt
<1>2. [receipt.fields EXCEPT !.onChain = proof] \in ReceiptFields
  BY <1>1 DEF ReceiptFields
<1>. QED BY <1>2 DEF SetOnChainProof, CreateSealed, Receipt

\* What a verification of the receipt finds is typed.
LEMMA VerifyTyped ==
    ASSUME TypeOK, VerifyReceipt
    PROVE  receiptVerification' \in ReceiptVerification
BY DEF VerifyReceipt, TypeOK, Receipt, VerifySealed, ReceiptVerification

\* The terminal's variables stay typed and its money follows its order.
LEMMA ReducerTyped ==
    ASSUME TypeOK, MoneyFollowsOrder, VerdictDecidesFate, ReducerStep
    PROVE  TypeOK' /\ MoneyFollowsOrder'
<1> USE DEF feedVars, botVars, orderVars, verdictVars, proofVars
<1>1. CASE Restarts
  BY <1>1, FreshTyped DEF Restarts
<1>2. CASE FeedReports
  BY <1>2 DEF FeedReports, TypeOK, MoneyFollowsOrder
<1>3. CASE GoalOnPitch
  BY <1>3 DEF GoalOnPitch, TypeOK, MoneyFollowsOrder
<1>4. ASSUME NEW event \in Event, IngestTxlineEvent(event)
      PROVE  TypeOK' /\ MoneyFollowsOrder'
  <2>1. market' \in Market
    BY <1>4, MarketTyped DEF IngestTxlineEvent, TypeOK
  <2>2. txline' \in TxLineSlice
    <3>1. txline \in TxLineSlice /\ txline.eventsSeen + 1 \in 0 .. MaxEvents
      BY <1>4 DEF IngestTxlineEvent, TypeOK, TxLineSlice
    <3>2. txline' = [txline EXCEPT !.lastEvent = event, !.eventsSeen = txline.eventsSeen + 1]
      BY <1>4 DEF IngestTxlineEvent
    <3>. QED BY <3>1, <3>2 DEF TxLineSlice
  <2>3. MoneyFollowsOrder'
    BY <1>4 DEF IngestTxlineEvent, MoneyFollowsOrder
  <2>. QED BY <1>4, <2>1, <2>2, <2>3 DEF IngestTxlineEvent, TypeOK
<1>5. ASSUME NEW side \in Sides, SetBotSide(side)
      PROVE  TypeOK' /\ MoneyFollowsOrder'
  BY <1>5 DEF SetBotSide, TypeOK, MoneyFollowsOrder
<1>6. CASE BotPrepareOrder
  <2>1. botPlan' \in BotPlan
    <3>1. market \in Market /\ botSide \in Sides /\ 0 \in Prices
      BY DEF TypeOK, Prices
    <3>. QED BY <1>6, <3>1, VerdictTyped DEF BotPrepareOrder
  <2>. QED BY <1>6, <2>1 DEF BotPrepareOrder, TypeOK, MoneyFollowsOrder
<1>7. CASE BotSubmitOrder
  <2>1. /\ order = Null
        /\ order' = [ side |-> botSide,
                      observedPrice |-> SidePrice(market.yes, botSide),
                      status |-> "submitted" ]
    BY <1>7 DEF BotSubmitOrder
  <2>2. order' \in Order
    <3>1. market.yes \in Prices /\ botSide \in Sides
      BY DEF TypeOK, Market
    <3>. QED BY <2>1, <3>1, PricesTyped DEF Order, OrderStatuses
  <2>3. MoneyFollowsOrder'
    BY <1>7, <2>1 DEF BotSubmitOrder, MoneyFollowsOrder
  <2>. QED BY <1>7, <2>2, <2>3 DEF BotSubmitOrder, TypeOK
<1>8. CASE ReducerEscrowOrder \/ EvaluateOrder \/ RefundOrder \/ FillOrder
  <2>1. /\ order' \in Order
        /\ ledger' \in EscrowLedger
        /\ MoneyFollowsOrder'
    BY <1>8, MoveTyped
       DEF ReducerEscrowOrder, EvaluateOrder, RefundOrder, FillOrder, OrderIs
  <2>. QED
    BY <1>8, <2>1
       DEF ReducerEscrowOrder, EvaluateOrder, RefundOrder, FillOrder, TypeOK
<1>9. CASE RevealVerdict
  <2>1. /\ order' \in Order
        /\ ledger' \in EscrowLedger
        /\ MoneyFollowsOrder'
    BY <1>9, MoveTyped DEF RevealVerdict, OrderIs
  <2>2. verdict' \in VerdictResult
    BY <1>9, RevealTyped
  <2>3. verdictContext' \in VerdictContext
    BY <1>9 DEF RevealVerdict, VerdictContext, TypeOK, Market
  <2>. QED BY <1>9, <2>1, <2>2, <2>3 DEF RevealVerdict, TypeOK
<1>10. CASE CreateReceipt
  BY <1>10, CreateTyped DEF CreateReceipt, TypeOK, MoneyFollowsOrder
<1>11. ASSUME NEW proof \in OnChainProofs \cup {Null}, SetOnChainProof(proof)
       PROVE  TypeOK' /\ MoneyFollowsOrder'
  <2>1. receipt' \in Receipt \cup {Null}
    BY <1>11, ResealTyped DEF SetOnChainProof
  <2>. QED BY <1>11, <2>1 DEF SetOnChainProof, TypeOK, MoneyFollowsOrder
<1>12. CASE VerifyReceipt
  BY <1>12, VerifyTyped DEF VerifyReceipt, TypeOK, MoneyFollowsOrder
<1>13. CASE ReducerRepriceMarket
  <2>1. market' \in Market
    BY <1>13, MarketTyped DEF ReducerRepriceMarket, TypeOK
  <2>. QED BY <1>13, <2>1 DEF ReducerRepriceMarket, TypeOK, MoneyFollowsOrder
<1>. QED
  BY <1>1, <1>2, <1>3, <1>4, <1>5, <1>6, <1>7, <1>8, <1>9, <1>10, <1>11, <1>12, <1>13
     DEF ReducerStep

(***************************************************************************)
(* The verdict, the market and the receipt, after any dispatch.            *)
(***************************************************************************)

\* A verdict agrees with the registers frozen beside it and with what becomes of
\* its order: it is given to an order that is being evaluated, which it voids or
\* fills, and from there a fill is not possible and a refund only of what is void.
LEMMA FateStep ==
    ASSUME TypeOK, MoneyFollowsOrder, VerdictDecidesFate, ReducerStep
    PROVE  VerdictDecidesFate'
<1> USE DEF feedVars, botVars, orderVars, verdictVars, proofVars
<1>1. CASE Restarts
  BY <1>1 DEF Restarts, FreshScenario, VerdictDecidesFate
<1>2. CASE UNCHANGED <<verdictVars, order>>
  BY <1>2 DEF VerdictDecidesFate
<1>3. CASE BotSubmitOrder \/ ReducerEscrowOrder \/ EvaluateOrder \/ FillOrder
  <2>1. verdict = Null /\ verdict' = verdict
    BY <1>3
       DEF BotSubmitOrder, ReducerEscrowOrder, EvaluateOrder, FillOrder, OrderIs,
           VerdictDecidesFate
  <2>. QED BY <2>1 DEF VerdictDecidesFate
<1>4. CASE RefundOrder
  <2>1. /\ order # Null /\ order.status = "voided"
        /\ UNCHANGED verdictVars
        /\ order' = [order EXCEPT !.status = "refunded"]
    BY <1>4 DEF RefundOrder, OrderIs, Move, RefundEscrow
  <2>2. /\ order \in Order /\ order' # Null
        /\ order'.status = "refunded"
        /\ order'.side = order.side
        /\ order'.observedPrice = order.observedPrice
    BY <2>1 DEF TypeOK, Order, OrderStatuses
  <2>. QED BY <2>1, <2>2 DEF VerdictDecidesFate
<1>5. CASE RevealVerdict
  <2>1. /\ order # Null /\ order.status = "evaluating" /\ order \in Order
        /\ verdict' = EvaluateLineGuard(order.side, order.observedPrice, market)
        /\ verdictContext' = [ materialSeq |-> market.materialSeq,
                               pricedAtSeq |-> market.pricedAtSeq,
                               fairYes |-> market.fairYes,
                               event |-> market.lastMaterialEvent ]
        /\ Move(IF verdict'.verdict = "VOIDED_REFUNDED"
                THEN VoidOrder(ledger, order) ELSE FillEscrow(ledger, order))
    BY <1>5 DEF RevealVerdict, OrderIs, TypeOK
  <2>2. order' = [order EXCEPT !.status =
                    IF verdict'.verdict = "VOIDED_REFUNDED" THEN "voided" ELSE "filled"]
    BY <2>1 DEF Move, VoidOrder, FillEscrow
  <2>3. /\ order' # Null
        /\ order'.status = IF verdict'.verdict = "VOIDED_REFUNDED" THEN "voided" ELSE "filled"
        /\ order'.side = order.side
        /\ order'.observedPrice = order.observedPrice
    BY <2>1, <2>2 DEF Order, OrderStatuses
  <2>4. verdictContext' # Null
    BY <2>1 DEF TypeOK, Market, VerdictContext
  <2>5. verdict' = EvaluateLineGuard(order'.side, order'.observedPrice,
                        [ materialSeq |-> verdictContext'.materialSeq,
                          pricedAtSeq |-> verdictContext'.pricedAtSeq,
                          fairYes |-> verdictContext'.fairYes ])
    BY <2>1, <2>3 DEF EvaluateLineGuard, IsStale
  <2>. QED BY <2>3, <2>4, <2>5 DEF VerdictDecidesFate
<1>. QED
  BY <1>1, <1>2, <1>3, <1>4, <1>5
     DEF ReducerStep, FeedReports, GoalOnPitch, IngestTxlineEvent, SetBotSide,
         BotPrepareOrder, CreateReceipt, SetOnChainProof, VerifyReceipt,
         ReducerRepriceMarket

\* A market that says it is trading shows the fair price.
LEMMA TradingStep ==
    ASSUME TypeOK, TradingMeansFair, ReducerStep
    PROVE  TradingMeansFair'
<1> USE DEF feedVars, botVars, orderVars, verdictVars, proofVars
<1>1. market \in Market
  BY DEF TypeOK
<1>2. CASE UNCHANGED market
  BY <1>2 DEF TradingMeansFair
<1>3. CASE Restarts
  BY <1>3 DEF Restarts, FreshScenario, INITIAL_MARKET, TradingMeansFair, IsStale
<1>4. ASSUME NEW event \in Event, IngestTxlineEvent(event)
      PROVE  TradingMeansFair'
  <2>1. \/ market' = market
        \/ market'.status = "stale"
    BY <1>1, <1>4 DEF IngestTxlineEvent, IngestEvent, Market
  <2>. QED BY <1>2, <2>1 DEF TradingMeansFair
<1>5. CASE ReducerRepriceMarket
  <2>1. /\ market'.yes = market'.fairYes
        /\ market'.pricedAtSeq = market'.materialSeq
        /\ market'.materialSeq \in Int
    BY <1>1, <1>5 DEF ReducerRepriceMarket, RepriceMarket, Market
  <2>. QED BY <2>1 DEF TradingMeansFair, IsStale
<1>. QED
  BY <1>2, <1>3, <1>4, <1>5
     DEF ReducerStep, FeedReports, GoalOnPitch, SetBotSide, BotPrepareOrder,
         BotSubmitOrder, ReducerEscrowOrder, EvaluateOrder, RevealVerdict, RefundOrder,
         FillOrder, CreateReceipt, SetOnChainProof, VerifyReceipt

\* The receipt tells the verdict of its order from the registers frozen with it,
\* and is sealed over the proof that is linked.
LEMMA ReceiptStep ==
    ASSUME TypeOK, VerdictDecidesFate, ReceiptTellsTheVerdict, ReducerStep
    PROVE  ReceiptTellsTheVerdict'
<1> USE DEF feedVars, botVars, orderVars, verdictVars, proofVars
<1>1. CASE Restarts
  BY <1>1 DEF Restarts, FreshScenario, ReceiptTellsTheVerdict
<1>2. CASE UNCHANGED <<receipt, onChainProof>> /\ (verdict # Null => verdict' = verdict)
  BY <1>2 DEF ReceiptTellsTheVerdict
<1>3. CASE CreateReceipt
  <2>1. /\ order \in Order
        /\ verdict \in VerdictResult
        /\ verdictContext \in VerdictContext
        /\ verdict # Null
        /\ verdict' = verdict
        /\ onChainProof' = onChainProof
    BY <1>3 DEF CreateReceipt, TypeOK, VerdictDecidesFate
  <2>2. /\ receipt'.receiptHash = receipt'.fields
        /\ receipt'.fields.onChain = onChainProof
        /\ receipt'.fields.verdict = verdict.verdict
        /\ receipt'.fields.edge = verdict.edge
        /\ receipt'.fields.staleness = verdict.staleness
        /\ receipt'.fields.materialSeq = verdictContext.materialSeq
        /\ receipt'.fields.pricedAtSeq = verdictContext.pricedAtSeq
        /\ receipt'.fields.fairSidePrice = verdict.fairSidePrice
        /\ receipt'.fields.fairYes = verdictContext.fairYes
        /\ receipt'.fields.side = order.side
        /\ receipt'.fields.observedPrice = verdict.observedPrice
    BY <1>3 DEF CreateReceipt, CreateSealed
  <2>3. /\ verdict.staleness = verdictContext.materialSeq - verdictContext.pricedAtSeq
        /\ verdict.fairSidePrice = SidePrice(verdictContext.fairYes, order.side)
        /\ verdict.edge = verdict.fairSidePrice - verdict.observedPrice
    BY <2>1 DEF VerdictDecidesFate, EvaluateLineGuard
  <2>. QED BY <2>1, <2>2, <2>3 DEF ReceiptTellsTheVerdict
<1>4. ASSUME NEW proof \in OnChainProofs \cup {Null}, SetOnChainProof(proof)
      PROVE  ReceiptTellsTheVerdict'
  <2>1. CASE receipt = Null
    BY <1>4, <2>1 DEF SetOnChainProof, ReceiptTellsTheVerdict
  <2>2. CASE receipt # Null
    <3>1. receipt.fields \in ReceiptFields
      BY <2>2 DEF TypeOK, Receipt
    <3>2. /\ receipt' = CreateSealed([receipt.fields EXCEPT !.onChain = proof])
          /\ onChainProof' = proof
          /\ verdict' = verdict
      BY <1>4, <2>2 DEF SetOnChainProof
    <3>. QED
      BY <2>2, <3>1, <3>2 DEF ReceiptTellsTheVerdict, CreateSealed, ReceiptFields
  <2>. QED BY <2>1, <2>2
<1>. QED
  BY <1>1, <1>2, <1>3, <1>4
     DEF ReducerStep, FeedReports, GoalOnPitch, IngestTxlineEvent, SetBotSide,
         BotPrepareOrder, BotSubmitOrder, ReducerEscrowOrder, EvaluateOrder,
         RevealVerdict, RefundOrder, FillOrder, VerifyReceipt, ReducerRepriceMarket

\* What is decided stays decided until the scenario starts over.
FinalStep ==
    \/ IsFresh
    \/ /\ order # Null /\ order.status \in {"filled", "refunded"}
             => order' = order /\ ledger' = ledger
       /\ verdict # Null
             => verdict' = verdict /\ verdictContext' = verdictContext
       /\ receipt # Null
             => /\ receipt' # Null
                /\ receipt'.fields = [receipt.fields EXCEPT !.onChain = onChainProof']

\* A dispatch starts over or leaves the decided order, its verdict and the
\* receipt but for the linked proof.
LEMMA DecidedStep ==
    ASSUME TypeOK, TypeOK', ReceiptTellsTheVerdict, ReducerStep \/ UNCHANGED terminalVars
    PROVE  FinalStep
<1> USE DEF terminalVars, feedVars, botVars, orderVars, verdictVars, proofVars
<1>1. CASE Restarts
  BY <1>1 DEF Restarts, FreshScenario, FinalStep, IsFresh
<1>2. ASSUME UNCHANGED <<receipt, onChainProof>>
      PROVE  receipt # Null =>
                /\ receipt' # Null
                /\ receipt'.fields = [receipt.fields EXCEPT !.onChain = onChainProof']
  <2>1. receipt # Null => receipt.fields \in ReceiptFields
    BY DEF TypeOK, Receipt
  <2>2. receipt # Null => receipt.fields.onChain = onChainProof
    BY DEF ReceiptTellsTheVerdict
  <2>. QED BY <1>2, <2>1, <2>2 DEF ReceiptFields
<1>3. CASE UNCHANGED <<orderVars, verdictVars, receipt, onChainProof>>
  BY <1>2, <1>3 DEF FinalStep
<1>4. CASE \/ BotSubmitOrder \/ ReducerEscrowOrder \/ EvaluateOrder \/ RevealVerdict
           \/ RefundOrder \/ FillOrder
  BY <1>2, <1>4
     DEF FinalStep, BotSubmitOrder, ReducerEscrowOrder, EvaluateOrder, RevealVerdict,
         RefundOrder, FillOrder, OrderIs
<1>5. CASE CreateReceipt
  BY <1>5 DEF CreateReceipt, FinalStep
<1>6. ASSUME NEW proof \in OnChainProofs \cup {Null}, SetOnChainProof(proof)
      PROVE  FinalStep
  <2>1. receipt # Null => receipt' = CreateSealed([receipt.fields EXCEPT !.onChain = proof])
    BY <1>6 DEF SetOnChainProof
  <2>2. receipt # Null =>
           /\ receipt \in Receipt
           /\ receipt'.fields = [receipt.fields EXCEPT !.onChain = onChainProof']
    BY <1>6, <2>1 DEF SetOnChainProof, CreateSealed, TypeOK
  <2>3. receipt # Null => receipt' # Null
    BY <1>6, ResealTyped
  <2>. QED BY <1>6, <2>2, <2>3 DEF SetOnChainProof, FinalStep
<1>. QED
  BY <1>1, <1>3, <1>4, <1>5, <1>6
     DEF ReducerStep, FeedReports, GoalOnPitch, IngestTxlineEvent, SetBotSide,
         BotPrepareOrder, VerifyReceipt, ReducerRepriceMarket

(***************************************************************************)
(* The terminal.                                                           *)
(***************************************************************************)
TerminalInv ==
    /\ TypeOK
    /\ MoneyFollowsOrder
    /\ VerdictDecidesFate
    /\ TradingMeansFair
    /\ ReceiptTellsTheVerdict

\* Every invariant survives a dispatch.
LEMMA TerminalInvStep ==
    ASSUME TerminalInv, ReducerStep \/ UNCHANGED terminalVars
    PROVE  TerminalInv' /\ FinalStep
<1>1. CASE ReducerStep
  BY <1>1, ReducerTyped, FateStep, TradingStep, ReceiptStep, DecidedStep DEF TerminalInv
<1>2. CASE UNCHANGED terminalVars
  <2>1. TerminalInv'
    BY <1>2
       DEF TerminalInv, TypeOK, MoneyFollowsOrder, VerdictDecidesFate, TradingMeansFair,
           ReceiptTellsTheVerdict, terminalVars, feedVars, botVars, orderVars,
           verdictVars, proofVars
  <2>. QED BY <1>2, <2>1, DecidedStep DEF TerminalInv
<1>. QED BY <1>1, <1>2

\* The initial scenario satisfies them.
LEMMA TerminalInvStart ==
    ASSUME Init
    PROVE  TerminalInv
<1>1. txline \in TxLineSlice
  BY DEF Init, InitialScenario, INITIAL_TXLINE, TxLineSlice, StreamStatuses
<1>2. market \in Market /\ ledger \in EscrowLedger
  BY DEF Init, InitialScenario, INITIAL_MARKET, Market, MarketKinds, Prices,
         InitialLedger, EscrowLedger, Money
<1>3. TypeOK
  BY <1>1, <1>2 DEF Init, InitialScenario, TypeOK, Modes, Sides
<1>4. MoneyFollowsOrder /\ VerdictDecidesFate /\ ReceiptTellsTheVerdict
  BY DEF Init, InitialScenario, InitialLedger, MoneyFollowsOrder, VerdictDecidesFate,
         ReceiptTellsTheVerdict
<1>5. TradingMeansFair
  BY DEF Init, InitialScenario, INITIAL_MARKET, TradingMeansFair, IsStale
<1>. QED BY <1>3, <1>4, <1>5 DEF TerminalInv

\* What a user does is a dispatch.
LEMMA UserDispatches ==
    ASSUME TypeOK, Next
    PROVE  ReducerStep
<1>1. ASSUME NEW m \in Modes, ResetDemo(m) \/ SetMode(m)
      PROVE  ReducerStep
  <2>1. INITIAL_TXLINE \in TxLineSlice
    BY DEF INITIAL_TXLINE, TxLineSlice, StreamStatuses
  <2>2. [INITIAL_TXLINE EXCEPT !.liveCapable = txline.liveCapable] \in TxLineSlice
    BY <2>1 DEF TypeOK, TxLineSlice
  <2>. QED BY <1>1, <2>1, <2>2 DEF ReducerStep, Restarts, ResetDemo, SetMode
<1>2. ASSUME NEW liveCapable \in BOOLEAN, SetHealth(liveCapable)
      PROVE  ReducerStep
  BY <1>2 DEF SetHealth, TypeOK, TxLineSlice, ReducerStep, FeedReports
<1>3. ASSUME NEW s \in Streams, NEW status \in StreamStatuses, StreamStatus(s, status)
      PROVE  ReducerStep
  <2>1. txline' \in TxLineSlice
    BY <1>3 DEF StreamStatus, TypeOK, TxLineSlice
  <2>. QED BY <1>3, <2>1 DEF StreamStatus, ReducerStep, FeedReports
<1>. QED
  BY <1>1, <1>2, <1>3 DEF Next, ReducerStep, AttachOnChainProof, ClearOnChainProof

\* A user's step, or a stutter, keeps the invariant.
LEMMA TerminalKeepsInv ==
    ASSUME TerminalInv, [Next]_terminalVars
    PROVE  TerminalInv' /\ FinalStep
BY UserDispatches, TerminalInvStep DEF TerminalInv

\* In whatever order actions are dispatched, the ledger's buckets say where the
\* order is.
THEOREM MoneyCorrect == Spec => []MoneyFollowsOrder
<1>1. TerminalInv => MoneyFollowsOrder
  BY DEF TerminalInv
<1>. QED BY <1>1, TerminalInvStart, TerminalKeepsInv, PTL DEF Spec

\* A verdict decides what becomes of its order, however the market moves since.
THEOREM FateCorrect == Spec => []VerdictDecidesFate
<1>1. TerminalInv => VerdictDecidesFate
  BY DEF TerminalInv
<1>. QED BY <1>1, TerminalInvStart, TerminalKeepsInv, PTL DEF Spec

\* A decided order, its verdict and its receipt stay until the scenario starts
\* over.
THEOREM DecisionsCorrect == Spec => DecisionsAreFinal
<1>1. TerminalInv /\ [Next]_terminalVars => [FinalStep]_terminalVars
  BY TerminalKeepsInv
<1>. QED
  BY <1>1, TerminalInvStart, TerminalKeepsInv, PTL
     DEF Spec, DecisionsAreFinal, FinalStep

(***************************************************************************)
(* The scripted replay.  Its timers, restarts and clicks are dispatches.   *)
(***************************************************************************)
\* What the replay does to the terminal is a dispatch.
LEMMA ReplayDispatches ==
    ASSUME TypeOK, ReplayNext
    PROVE  ReducerStep \/ UNCHANGED terminalVars
<1> USE ReplayAssumption
<1>1. INITIAL_TXLINE \in TxLineSlice
  BY DEF INITIAL_TXLINE, TxLineSlice, StreamStatuses
<1>2. CASE RunFull \/ Reset
  <2>1. mode \in Modes
    BY DEF TypeOK
  <2>. QED BY <1>1, <1>2, <2>1 DEF RunFull, Reset, ResetDemo, ReducerStep, Restarts
<1>3. ASSUME NEW i \in DOMAIN PHASES, RunPhase(i)
      PROVE  UNCHANGED terminalVars
  BY <1>3 DEF RunPhase
<1>4. ASSUME NEW step, Dispatch(step)
      PROVE  ReducerStep
  BY <1>4 DEF Dispatch, ReducerStep
<1>5. CASE Fire
  BY <1>4, <1>5 DEF Fire
<1>6. CASE Click
  <2>1. ASSUME NEW m \in Modes, SetMode(m)
        PROVE  ReducerStep
    <3>1. [INITIAL_TXLINE EXCEPT !.liveCapable = txline.liveCapable] \in TxLineSlice
      BY <1>1 DEF TypeOK, TxLineSlice
    <3>. QED BY <2>1, <3>1 DEF ReducerStep, Restarts, SetMode
  <2>. QED
    BY <1>6, <2>1 DEF Click, ReducerStep, AttachOnChainProof, ClearOnChainProof
<1>. QED BY <1>2, <1>3, <1>5, <1>6 DEF ReplayNext

\* What remains of a script when n of its steps have fired.
Remaining(n) == SubSeq(script, n + 1, Len(script))

\* Of n + 1 of them, the next to fire is step n + 1.
LEMMA RemainingSteps ==
    ASSUME NEW S, NEW s \in Seq(S), NEW n \in 0 .. Len(s) - 1
    PROVE  /\ SubSeq(s, n + 1, Len(s)) # <<>>
           /\ Len(SubSeq(s, n + 1, Len(s))) = Len(s) - n
           /\ Head(SubSeq(s, n + 1, Len(s))) = s[n + 1]
           /\ Tail(SubSeq(s, n + 1, Len(s))) = SubSeq(s, (n + 1) + 1, Len(s))
<1>1. /\ Len(s) \in Int
      /\ n + 1 \in 1 .. Len(s)
      /\ Len(s) \in n + 1 .. Len(s)
  OBVIOUS
<1>2. /\ Head(SubSeq(s, n + 1, Len(s))) = s[n + 1]
      /\ Tail(SubSeq(s, n + 1, Len(s))) = SubSeq(s, (n + 1) + 1, Len(s))
  BY <1>1, HeadTailOfSubSeq
<1>3. /\ SubSeq(s, n + 1, Len(s)) \in Seq(S)
      /\ Len(SubSeq(s, n + 1, Len(s))) = Len(s) - n
  <2>1. \A i \in n + 1 .. Len(s) : s[i] \in S
    OBVIOUS
  <2>. QED BY <1>1, <2>1, SubSeqProperties
<1>4. SubSeq(s, n + 1, Len(s)) # <<>>
  <2> DEFINE rest == SubSeq(s, n + 1, Len(s))
  <2>1. rest \in Seq(S) /\ Len(rest) > 0
    BY <1>1, <1>3
  <2> HIDE DEF rest
  <2>2. rest # <<>>
    BY <2>1
  <2>. QED BY <2>2 DEF rest
<1>. QED BY <1>2, <1>3, <1>4

\* Of none of them, the whole script remains, and of all of them nothing.
LEMMA WholeScript ==
    ASSUME NEW S, NEW s \in Seq(S)
    PROVE  /\ Len(s) \in Nat
           /\ s = SubSeq(s, 0 + 1, Len(s))
           /\ SubSeq(s, Len(s) + 1, Len(s)) = <<>>
BY SubSeqFull, SubSeqEmpty

Scripts == {AllSteps, <<>>} \cup {PHASES[i] : i \in DOMAIN PHASES}

\* Every script is a sequence of steps.
LEMMA ScriptsAreSequences == Scripts \subseteq Seq(DOMAIN Accepts)
<1>1. AllSteps \in Seq(DOMAIN Accepts)
  BY DEF AllSteps, PHASES, Accepts
<1>2. ASSUME NEW i \in DOMAIN PHASES
      PROVE  PHASES[i] \in Seq(DOMAIN Accepts)
  <2>1. DOMAIN PHASES = 1 .. 5
    BY DEF PHASES
  <2>2. i = 1 \/ i = 2 \/ i = 3 \/ i = 4 \/ i = 5
    BY <2>1
  <2>3. CASE i = 1
    BY <2>3 DEF PHASES, Accepts
  <2>4. CASE i = 2
    BY <2>4 DEF PHASES, Accepts
  <2>5. CASE i = 3
    BY <2>5 DEF PHASES, Accepts
  <2>6. CASE i = 4
    BY <2>6 DEF PHASES, Accepts
  <2>7. CASE i = 5
    BY <2>7 DEF PHASES, Accepts
  <2>. QED BY <2>2, <2>3, <2>4, <2>5, <2>6, <2>7
<1>3. <<>> \in Seq(DOMAIN Accepts)
  OBVIOUS
<1>. QED BY <1>1, <1>2, <1>3 DEF Scripts

\* A run's variables are typed, and the timers are what remains of its script.
RunInv ==
    /\ playing \in BOOLEAN
    /\ token \in 0 .. MaxRuns
    /\ script \in Scripts
    /\ \E n \in 0 .. Len(script) : timers = Remaining(n)

\* Starting a run, firing a timer and clicking keep them so.
LEMMA RunStep ==
    ASSUME RunInv, ReplayNext
    PROVE  RunInv'
<1> USE ReplayAssumption
<1>1. ASSUME NEW steps \in Scripts, Schedule(steps)
      PROVE  RunInv'
  <2>1. steps \in Seq(DOMAIN Accepts) /\ Len(steps) \in Nat
    BY ScriptsAreSequences
  <2>2. steps = SubSeq(steps, 0 + 1, Len(steps))
    BY <2>1, WholeScript
  <2>3. timers' = SubSeq(script', 0 + 1, Len(script')) /\ 0 \in 0 .. Len(script')
    BY <1>1, <2>1, <2>2 DEF Schedule
  <2>4. script' \in Scripts
    BY <1>1 DEF Schedule
  <2>. QED BY <1>1, <2>3, <2>4 DEF Schedule, RunInv, Remaining, Scripts
<1>2. CASE RunFull \/ Reset
  BY <1>1, <1>2 DEF RunFull, Reset, Scripts
<1>3. ASSUME NEW i \in DOMAIN PHASES, RunPhase(i)
      PROVE  RunInv'
  BY <1>1, <1>3 DEF RunPhase, Scripts
<1>4. CASE Fire
  <2>1. PICK n \in 0 .. Len(script) : timers = Remaining(n)
    BY DEF RunInv
  <2>2. script \in Seq(DOMAIN Accepts) /\ Len(script) \in Nat
    BY ScriptsAreSequences DEF RunInv
  <2>3. n # Len(script)
    BY <1>4, <2>1, <2>2, WholeScript DEF Fire, Remaining
  <2>4. n \in 0 .. Len(script) - 1 /\ n + 1 \in 0 .. Len(script)
    BY <2>2, <2>3
  <2>5. timers' = SubSeq(script, (n + 1) + 1, Len(script))
    BY <1>4, <2>1, <2>2, <2>4, RemainingSteps DEF Fire, Remaining
  <2>6. playing' \in BOOLEAN /\ UNCHANGED <<token, script>>
    BY <1>4 DEF Fire
  <2>. QED BY <2>4, <2>5, <2>6 DEF RunInv, Remaining, Scripts
<1>5. CASE Click
  BY <1>5 DEF Click, replayVars, RunInv, Remaining, Scripts
<1>. QED BY <1>2, <1>3, <1>4, <1>5 DEF ReplayNext

(***************************************************************************)
(* What a full replay has told when n of its steps have fired.             *)
(***************************************************************************)

\* Nothing happened yet in this scenario.
Untouched ==
    txline.eventsSeen = 0 =>
        market = INITIAL_MARKET /\ order = Null /\ verdict = Null /\ receipt = Null

\* The market after the goal and nothing else.
GoalMarket == IngestEvent(INITIAL_MARKET, DemoGoal)

OnlyTheGoal == txline.eventsSeen = 1 /\ txline.lastEvent = DemoGoal

\* The status of the order when n steps have fired, the submission among them.
StatusAfter(n, side) ==
    CASE n = 4 -> "submitted"
      [] n = 5 -> "escrowed"
      [] n = 6 -> "evaluating"
      [] n = 7 /\ side = "YES" -> "voided"
      [] n > 7 /\ side = "YES" -> "refunded"
      [] OTHER -> "filled"

\* The scenario after the goal alone, n steps into the script.
StoryAt(n) ==
    /\ n >= 2
    /\ market = IF n < 11 THEN GoalMarket ELSE RepriceMarket(GoalMarket)
    /\ order = Null <=> n < 4
    /\ n >= 4 => /\ order.observedPrice = SidePrice(40, order.side)
                 /\ order.status = StatusAfter(n, order.side)
    /\ verdict = Null <=> n < 7
    /\ receipt = Null <=> n < 9
    /\ n >= 10 => receiptVerification # Null /\ receiptVerification.valid

\* The goal comes with the second step and no earlier, and the story follows it.
Told(n) ==
    /\ n < 2 => txline.lastEvent # DemoGoal
    /\ OnlyTheGoal => StoryAt(n)

\* The goal opens the stale window: the fair price rises by 23 cents, the
\* displayed one stays.
LEMMA GoalMarketIs ==
    /\ IsStale(GoalMarket)
    /\ GoalMarket.yes = 40
    /\ GoalMarket.fairYes = 63
    /\ RepriceMarket(GoalMarket).yes = 63
    /\ RepriceMarket(GoalMarket).status = "trading"
<1> USE ReplayAssumption
<1>1. EventImpactsMarket(DemoGoal, INITIAL_MARKET)
  BY DEF EventImpactsMarket, INITIAL_MARKET, MaterialEventTypes
<1>2. ComputeFairValueFromEvent(DemoGoal, INITIAL_MARKET, 40) = 63
  BY DEF ComputeFairValueFromEvent, INITIAL_MARKET, FairShift, ClampPrice
<1>3. /\ GoalMarket.materialSeq = 2
      /\ GoalMarket.pricedAtSeq = 1
      /\ GoalMarket.yes = 40
      /\ GoalMarket.fairYes = 63
  BY <1>1, <1>2 DEF GoalMarket, IngestEvent, INITIAL_MARKET
<1>4. /\ RepriceMarket(GoalMarket).yes = GoalMarket.fairYes
      /\ RepriceMarket(GoalMarket).status = "trading"
  BY <1>1 DEF RepriceMarket, GoalMarket, IngestEvent, INITIAL_MARKET
<1>. QED BY <1>3, <1>4 DEF IsStale

\* In that window the side that profits from the goal is voided, the other one
\* is filled.
LEMMA GoalVerdict ==
    ASSUME NEW side \in Sides
    PROVE  EvaluateLineGuard(side, SidePrice(40, side), GoalMarket).verdict
              = IF side = "YES" THEN "VOIDED_REFUNDED" ELSE "STALE_ALLOWED_NO_EDGE"
BY GoalMarketIs DEF EvaluateLineGuard, SidePrice, Sides, TOLERANCE

\* The script of a full replay.
LEMMA StorySteps ==
    /\ AllSteps # <<>>
    /\ Len(AllSteps) = 11
    /\ AllSteps[1] = "GOAL_ON_PITCH"
    /\ AllSteps[2] = "INGEST_TXLINE_EVENT"
    /\ AllSteps[3] = "BOT_PREPARE_ORDER"
    /\ AllSteps[4] = "BOT_SUBMIT_ORDER"
    /\ AllSteps[5] = "ESCROW_ORDER"
    /\ AllSteps[6] = "EVALUATE_ORDER"
    /\ AllSteps[7] = "REVEAL_VERDICT"
    /\ AllSteps[8] = "REFUND_ORDER"
    /\ AllSteps[9] = "CREATE_RECEIPT"
    /\ AllSteps[10] = "VERIFY_RECEIPT"
    /\ AllSteps[11] = "REPRICE_MARKET"
BY DEF AllSteps, PHASES

\* A transition changes the status of an order and nothing else.
LEMMA OrderMoves ==
    ASSUME NEW o \in Order, NEW status \in OrderStatuses
    PROVE  /\ [o EXCEPT !.status = status] # Null
           /\ [o EXCEPT !.status = status].side = o.side
           /\ [o EXCEPT !.status = status].observedPrice = o.observedPrice
           /\ [o EXCEPT !.status = status].status = status
<1>1. [o EXCEPT !.status = status] \in Order
  BY DEF Order
<1>. QED BY <1>1 DEF Order

\* A receipt whose seal matches verifies.
LEMMA VerifiedIsValid ==
    ASSUME TypeOK, ReceiptTellsTheVerdict, VerifyReceipt
    PROVE  receiptVerification' # Null /\ receiptVerification'.valid
<1>1. receiptVerification' # Null
  BY VerifyTyped
<1>. QED BY <1>1 DEF VerifyReceipt, VerifySealed, ReceiptTellsTheVerdict

\* Before the first event nothing can be done but to wait for it.
LEMMA UntouchedStep ==
    ASSUME TypeOK, Untouched, ReplayNext
    PROVE  Untouched'
<1> USE DEF terminalVars, feedVars, botVars, orderVars, verdictVars, proofVars
<1>1. ~ IsStale(INITIAL_MARKET)
  BY DEF IsStale, INITIAL_MARKET
<1>2. ASSUME NEW m, NEW slice, FreshScenario(m, slice)
      PROVE  Untouched'
  BY <1>2 DEF FreshScenario, Untouched
<1>3. CASE UNCHANGED terminalVars
  BY <1>3 DEF Untouched
<1>4. ASSUME NEW event, IngestTxlineEvent(event)
      PROVE  Untouched'
  <2>1. txline'.eventsSeen = txline.eventsSeen + 1 /\ txline.eventsSeen \in 0 .. MaxEvents
    BY <1>4 DEF IngestTxlineEvent, TypeOK, TxLineSlice
  <2>2. txline'.eventsSeen # 0
    BY <2>1
  <2>. QED BY <2>2 DEF Untouched
<1>5. ASSUME NEW proof, SetOnChainProof(proof)
      PROVE  Untouched'
  BY <1>5 DEF SetOnChainProof, Untouched
<1>6. CASE \/ GoalOnPitch \/ BotPrepareOrder \/ VerifyReceipt
           \/ \E side \in Sides : SetBotSide(side)
  BY <1>6 DEF GoalOnPitch, BotPrepareOrder, VerifyReceipt, SetBotSide, Untouched
<1>7. CASE \/ BotSubmitOrder \/ ReducerEscrowOrder \/ EvaluateOrder \/ RevealVerdict
           \/ RefundOrder \/ CreateReceipt \/ ReducerRepriceMarket
  BY <1>1, <1>7
     DEF BotSubmitOrder, ReducerEscrowOrder, EvaluateOrder, RevealVerdict, RefundOrder,
         CreateReceipt, ReducerRepriceMarket, OrderIs, Untouched
<1>8. CASE RunFull \/ Reset
  BY <1>2, <1>8 DEF RunFull, Reset, ResetDemo
<1>9. CASE \E i \in DOMAIN PHASES : RunPhase(i)
  BY <1>3, <1>9 DEF RunPhase
<1>10. CASE Fire
  <2>1. ASSUME NEW step, Dispatch(step)
        PROVE  Untouched'
    BY <1>4, <1>6, <1>7, <2>1 DEF Dispatch
  <2>. QED BY <1>3, <1>10, <2>1 DEF Fire
<1>11. CASE Click
  BY <1>2, <1>4, <1>5, <1>6, <1>11
     DEF Click, SetMode, AttachOnChainProof, ClearOnChainProof
<1>. QED BY <1>8, <1>9, <1>10, <1>11 DEF ReplayNext

\* What the reducer accepts, it does.
LEMMA Dispatched ==
    ASSUME NEW step, IF Accepts[step] THEN Dispatch(step) ELSE UNCHANGED terminalVars
    PROVE  /\ step = "BOT_PREPARE_ORDER" /\ IsStale(market) /\ order = Null
                => BotPrepareOrder
           /\ step = "BOT_SUBMIT_ORDER" /\ IsStale(market) /\ order = Null
                => BotSubmitOrder
           /\ step = "ESCROW_ORDER" /\ OrderIs("submitted") => ReducerEscrowOrder
           /\ step = "EVALUATE_ORDER" /\ OrderIs("escrowed") => EvaluateOrder
           /\ step = "REVEAL_VERDICT" /\ OrderIs("evaluating") /\ verdict = Null
                => RevealVerdict
           /\ step = "REFUND_ORDER" /\ OrderIs("voided") => RefundOrder
           /\ step = "REFUND_ORDER" /\ ~ OrderIs("voided") => UNCHANGED terminalVars
           /\ step = "CREATE_RECEIPT" /\ verdict # Null /\ order # Null /\ receipt = Null
                => CreateReceipt
           /\ step = "VERIFY_RECEIPT" /\ receipt # Null => VerifyReceipt
           /\ step = "REPRICE_MARKET" /\ IsStale(market) => ReducerRepriceMarket
<1>1. CASE step = "BOT_PREPARE_ORDER"
  <2>1. Accepts[step] = (IsStale(market) /\ order = Null)
    BY <1>1 DEF Accepts
  <2>. QED BY <1>1, <2>1 DEF Dispatch
<1>2. CASE step = "BOT_SUBMIT_ORDER"
  <2>1. Accepts[step] = (IsStale(market) /\ order = Null)
    BY <1>2 DEF Accepts
  <2>. QED BY <1>2, <2>1 DEF Dispatch
<1>3. CASE step = "ESCROW_ORDER"
  <2>1. Accepts[step] = OrderIs("submitted")
    BY <1>3 DEF Accepts
  <2>. QED BY <1>3, <2>1 DEF Dispatch
<1>4. CASE step = "EVALUATE_ORDER"
  <2>1. Accepts[step] = OrderIs("escrowed")
    BY <1>4 DEF Accepts
  <2>. QED BY <1>4, <2>1 DEF Dispatch
<1>5. CASE step = "REVEAL_VERDICT"
  <2>1. Accepts[step] = (OrderIs("evaluating") /\ verdict = Null)
    BY <1>5 DEF Accepts
  <2>. QED BY <1>5, <2>1 DEF Dispatch
<1>6. CASE step = "REFUND_ORDER"
  <2>1. Accepts[step] = OrderIs("voided")
    BY <1>6 DEF Accepts
  <2>. QED BY <1>6, <2>1 DEF Dispatch
<1>7. CASE step = "CREATE_RECEIPT"
  <2>1. Accepts[step] = (verdict # Null /\ order # Null /\ receipt = Null)
    BY <1>7 DEF Accepts
  <2>. QED BY <1>7, <2>1 DEF Dispatch
<1>8. CASE step = "VERIFY_RECEIPT"
  <2>1. Accepts[step] = (receipt # Null)
    BY <1>8 DEF Accepts
  <2>. QED BY <1>8, <2>1 DEF Dispatch
<1>9. CASE step = "REPRICE_MARKET"
  <2>1. Accepts[step] = IsStale(market)
    BY <1>9 DEF Accepts
  <2>. QED BY <1>9, <2>1 DEF Dispatch
<1>. QED BY <1>1, <1>2, <1>3, <1>4, <1>5, <1>6, <1>7, <1>8, <1>9

\* A timer that fires tells the next step, whether the reducer takes it or not.
LEMMA ToldFire ==
    ASSUME TerminalInv, Untouched, NEW n \in 0 .. 10, Told(n),
           IF Accepts[AllSteps[n + 1]] THEN Dispatch(AllSteps[n + 1])
                                       ELSE UNCHANGED terminalVars
    PROVE  Told(n + 1)'
<1> USE StorySteps
<1> USE DEF terminalVars, feedVars, botVars, orderVars, verdictVars, proofVars
<1>1. CASE n = 0
  BY <1>1 DEF Accepts, Dispatch, GoalOnPitch, Told, OnlyTheGoal
<1>2. CASE n = 1
  <2>1. CASE UNCHANGED terminalVars
    BY <1>2, <2>1 DEF Told, OnlyTheGoal
  <2>2. CASE IngestTxlineEvent(DemoGoal)
    <3>1. /\ txline.eventsSeen \in Nat
          /\ txline'.eventsSeen = txline.eventsSeen + 1
          /\ market' = IngestEvent(market, DemoGoal)
          /\ UNCHANGED <<order, verdict, receipt>>
      BY <2>2 DEF IngestTxlineEvent, TerminalInv, TypeOK, TxLineSlice
    <3>2. OnlyTheGoal' => Untouched /\ txline.eventsSeen = 0
      BY <3>1 DEF OnlyTheGoal
    <3>3. OnlyTheGoal' => StoryAt(2)'
      BY <3>1, <3>2 DEF Untouched, StoryAt, GoalMarket
    <3>. QED BY <1>2, <3>3 DEF Told
  <2>. QED BY <1>2, <2>1, <2>2 DEF Accepts, Dispatch
<1>3. CASE n \in 2 .. 10
  <2>1. /\ AllSteps[n + 1] \in DOMAIN Accepts
        /\ AllSteps[n + 1] \notin {"GOAL_ON_PITCH", "INGEST_TXLINE_EVENT"}
    BY <1>3 DEF Accepts
  <2>2. UNCHANGED txline
    BY <2>1
       DEF Dispatch, BotPrepareOrder, BotSubmitOrder, ReducerEscrowOrder, EvaluateOrder,
           RevealVerdict, RefundOrder, CreateReceipt, VerifyReceipt, ReducerRepriceMarket
  <2>3. SUFFICES ASSUME OnlyTheGoal, StoryAt(n)
                 PROVE  StoryAt(n + 1)'
    BY <1>3, <2>2 DEF Told, OnlyTheGoal
  <2>4. /\ order # Null => order \in Order
        /\ ledger \in EscrowLedger
        /\ MoneyFollowsOrder
    BY DEF TerminalInv, TypeOK
  <2>5. CASE n = 2
    <3>1. StoryAt(2) /\ AllSteps[n + 1] = "BOT_PREPARE_ORDER"
      BY <2>3, <2>5
    <3>2. BotPrepareOrder
      BY <3>1, GoalMarketIs, Dispatched DEF StoryAt
    <3>3. StoryAt(3)'
      BY <3>1, <3>2 DEF BotPrepareOrder, StoryAt
    <3>. QED BY <2>5, <3>3
  <2>6. CASE n = 3
    <3>1. StoryAt(3) /\ AllSteps[n + 1] = "BOT_SUBMIT_ORDER"
      BY <2>3, <2>6
    <3>2. BotSubmitOrder
      BY <3>1, GoalMarketIs, Dispatched DEF StoryAt
    <3>3. botSide \in Sides
      BY DEF TerminalInv, TypeOK
    <3>4. /\ order'.side = botSide
          /\ order'.observedPrice = SidePrice(40, botSide)
          /\ order'.status = "submitted"
          /\ order' \in Order
      BY <3>1, <3>2, <3>3, GoalMarketIs
         DEF BotSubmitOrder, StoryAt, Order, SidePrice, Sides, Prices, OrderStatuses
    <3>5. StoryAt(4)'
      BY <3>1, <3>2, <3>4 DEF BotSubmitOrder, StoryAt, StatusAfter
    <3>. QED BY <2>6, <3>5
  <2>7. CASE n = 4
    <3>1. StoryAt(4) /\ AllSteps[n + 1] = "ESCROW_ORDER"
      BY <2>3, <2>7
    <3>2. order \in Order /\ order.status = "submitted"
      BY <2>4, <3>1 DEF StoryAt, StatusAfter
    <3>3. ReducerEscrowOrder
      BY <3>1, <3>2, Dispatched DEF OrderIs
    <3>4. ledger.botAvailableBalance >= BOT_STAKE_USD
      BY <2>4, <3>2 DEF MoneyFollowsOrder, EscrowLedger, Money
    <3>5. order' = [order EXCEPT !.status = "escrowed"]
      BY <3>2, <3>3, <3>4 DEF ReducerEscrowOrder, Move, EscrowOrder
    <3>6. /\ order' # Null
          /\ order'.side = order.side
          /\ order'.observedPrice = order.observedPrice
          /\ order'.status = "escrowed"
      BY <3>2, <3>5, OrderMoves DEF OrderStatuses
    <3>7. StoryAt(5)'
      BY <3>1, <3>3, <3>6 DEF ReducerEscrowOrder, StoryAt, StatusAfter
    <3>. QED BY <2>7, <3>7
  <2>8. CASE n = 5
    <3>1. StoryAt(5) /\ AllSteps[n + 1] = "EVALUATE_ORDER"
      BY <2>3, <2>8
    <3>2. order \in Order /\ order.status = "escrowed"
      BY <2>4, <3>1 DEF StoryAt, StatusAfter
    <3>3. EvaluateOrder
      BY <3>1, <3>2, Dispatched DEF OrderIs
    <3>4. order' = [order EXCEPT !.status = "evaluating"]
      BY <3>2, <3>3 DEF EvaluateOrder, Move, BeginEvaluation
    <3>5. /\ order' # Null
          /\ order'.side = order.side
          /\ order'.observedPrice = order.observedPrice
          /\ order'.status = "evaluating"
      BY <3>2, <3>4, OrderMoves DEF OrderStatuses
    <3>6. StoryAt(6)'
      BY <3>1, <3>3, <3>5 DEF EvaluateOrder, StoryAt, StatusAfter
    <3>. QED BY <2>8, <3>6
  <2>9. CASE n = 6
    <3>1. StoryAt(6) /\ AllSteps[n + 1] = "REVEAL_VERDICT"
      BY <2>3, <2>9
    <3>2. /\ order \in Order
          /\ order.status = "evaluating"
          /\ order.observedPrice = SidePrice(40, order.side)
          /\ market = GoalMarket
          /\ verdict = Null
      BY <2>4, <3>1 DEF StoryAt, StatusAfter
    <3>3. RevealVerdict
      BY <3>1, <3>2, Dispatched DEF OrderIs
    <3>4. verdict' # Null
      BY <3>3, RevealTyped DEF TerminalInv
    <3>5. verdict'.verdict = IF order.side = "YES" THEN "VOIDED_REFUNDED"
                                                   ELSE "STALE_ALLOWED_NO_EDGE"
      <4>1. order.side \in Sides
        BY <3>2 DEF Order
      <4>. QED BY <3>2, <3>3, <4>1, GoalVerdict DEF RevealVerdict
    <3> DEFINE status == IF order.side = "YES" THEN "voided" ELSE "filled"
    <3>6. order' = [order EXCEPT !.status = status]
      BY <3>2, <3>3, <3>5 DEF RevealVerdict, Move, VoidOrder, FillEscrow
    <3>7. /\ order' # Null
          /\ order'.side = order.side
          /\ order'.observedPrice = order.observedPrice
          /\ order'.status = status
      BY <3>2, <3>6, OrderMoves DEF OrderStatuses
    <3>8. StoryAt(7)'
      BY <3>1, <3>3, <3>4, <3>7 DEF RevealVerdict, StoryAt, StatusAfter
    <3>. QED BY <2>9, <3>8
  <2>10. CASE n = 7
    <3>1. StoryAt(7) /\ AllSteps[n + 1] = "REFUND_ORDER"
      BY <2>3, <2>10
    <3>2. /\ order \in Order
          /\ order.status = IF order.side = "YES" THEN "voided" ELSE "filled"
      BY <2>4, <3>1 DEF StoryAt, StatusAfter
    <3>3. CASE order.side = "YES"
      <4>1. RefundOrder
        BY <3>1, <3>2, <3>3, Dispatched DEF OrderIs
      <4>2. order' = [order EXCEPT !.status = "refunded"]
        BY <3>2, <3>3, <4>1 DEF RefundOrder, Move, RefundEscrow
      <4>3. /\ order' # Null
            /\ order'.side = order.side
            /\ order'.observedPrice = order.observedPrice
            /\ order'.status = "refunded"
        BY <3>2, <4>2, OrderMoves DEF OrderStatuses
      <4>4. StoryAt(8)'
        BY <3>1, <3>3, <4>1, <4>3 DEF RefundOrder, StoryAt, StatusAfter
      <4>. QED BY <2>10, <4>4
    <3>4. CASE order.side # "YES"
      <4>1. UNCHANGED terminalVars
        BY <3>1, <3>2, <3>4, Dispatched DEF OrderIs
      <4>2. StoryAt(8)'
        BY <3>1, <3>4, <4>1 DEF StoryAt, StatusAfter
      <4>. QED BY <2>10, <4>2
    <3>. QED BY <3>3, <3>4
  <2>11. CASE n = 8
    <3>1. StoryAt(8) /\ AllSteps[n + 1] = "CREATE_RECEIPT"
      BY <2>3, <2>11
    <3>2. CreateReceipt
      BY <3>1, Dispatched DEF StoryAt
    <3>3. receipt' # Null
      BY <3>2, CreateTyped DEF TerminalInv
    <3>4. StoryAt(9)'
      BY <3>1, <3>2, <3>3 DEF CreateReceipt, StoryAt, StatusAfter
    <3>. QED BY <2>11, <3>4
  <2>12. CASE n = 9
    <3>1. StoryAt(9) /\ AllSteps[n + 1] = "VERIFY_RECEIPT"
      BY <2>3, <2>12
    <3>2. VerifyReceipt
      BY <3>1, Dispatched DEF StoryAt
    <3>3. receiptVerification' # Null /\ receiptVerification'.valid
      BY <3>2, VerifiedIsValid DEF TerminalInv
    <3>4. StoryAt(10)'
      BY <3>1, <3>2, <3>3 DEF VerifyReceipt, StoryAt, StatusAfter
    <3>. QED BY <2>12, <3>4
  <2>13. CASE n = 10
    <3>1. StoryAt(10) /\ AllSteps[n + 1] = "REPRICE_MARKET"
      BY <2>3, <2>13
    <3>2. ReducerRepriceMarket
      BY <3>1, GoalMarketIs, Dispatched DEF StoryAt
    <3>3. StoryAt(11)'
      BY <3>1, <3>2 DEF ReducerRepriceMarket, StoryAt, StatusAfter
    <3>. QED BY <2>13, <3>3
  <2>. QED BY <1>3, <2>5, <2>6, <2>7, <2>8, <2>9, <2>10, <2>11, <2>12, <2>13
<1>. QED BY <1>1, <1>2, <1>3

\* What is clicked meanwhile does not change it: it starts the scenario over, adds
\* an event, or leaves the order, the verdict and the market alone.
LEMMA ToldClick ==
    ASSUME TerminalInv, NEW n \in 0 .. 11, Told(n), Click
    PROVE  Told(n)'
<1> USE ReplayAssumption
<1> USE DEF terminalVars, feedVars, botVars, orderVars, verdictVars, proofVars
<1>1. ASSUME NEW m \in Modes, SetMode(m)
      PROVE  Told(n)'
  <2>1. txline'.lastEvent = Null
    BY <1>1 DEF SetMode, FreshScenario, INITIAL_TXLINE
  <2>. QED BY <2>1 DEF Told, OnlyTheGoal
<1>2. ASSUME NEW event \in CapturedEvents, IngestTxlineEvent(event)
      PROVE  Told(n)'
  <2>1. txline'.lastEvent = event
    BY <1>2 DEF IngestTxlineEvent, TerminalInv, TypeOK, TxLineSlice
  <2>2. event # DemoGoal
    OBVIOUS
  <2>. QED BY <2>1, <2>2 DEF Told, OnlyTheGoal
<1>3. CASE \E side \in Sides : SetBotSide(side)
  BY <1>3 DEF SetBotSide, Told, OnlyTheGoal, StoryAt
<1>4. CASE VerifyReceipt
  BY <1>4, VerifiedIsValid DEF TerminalInv, VerifyReceipt, Told, OnlyTheGoal, StoryAt
<1>5. ASSUME NEW proof \in OnChainProofs \cup {Null}, SetOnChainProof(proof)
      PROVE  Told(n)'
  <2>1. receipt' = Null <=> receipt = Null
    BY <1>5, ResealTyped DEF TerminalInv, SetOnChainProof
  <2>. QED BY <1>5, <2>1 DEF SetOnChainProof, Told, OnlyTheGoal, StoryAt
<1>. QED
  BY <1>1, <1>2, <1>3, <1>4, <1>5 DEF Click, AttachOnChainProof, ClearOnChainProof

\* A full replay has told what its fired steps tell.
StoryInv ==
    /\ Untouched
    /\ script = AllSteps => \E n \in 0 .. 11 : timers = Remaining(n) /\ Told(n)

\* A full replay that fires, is clicked at or starts over keeps telling it; the
\* other runs have no story.
LEMMA StoryStep ==
    ASSUME TerminalInv, RunInv, StoryInv, ReplayNext
    PROVE  StoryInv'
<1> USE ReplayAssumption
<1>1. Untouched'
  BY UntouchedStep DEF TerminalInv, StoryInv
<1>2. AllSteps \in Seq(DOMAIN Accepts) /\ Len(AllSteps) = 11
  BY StorySteps, ScriptsAreSequences DEF Scripts
<1>3. CASE RunFull
  <2>1. timers' = SubSeq(script', 0 + 1, Len(script'))
    BY <1>2, <1>3, WholeScript DEF RunFull, Schedule
  <2>2. Told(0)'
    <3>1. txline'.lastEvent = Null
      BY <1>3 DEF RunFull, ResetDemo, FreshScenario, INITIAL_TXLINE
    <3>. QED BY <3>1 DEF Told, OnlyTheGoal
  <2>. QED BY <1>1, <2>1, <2>2 DEF StoryInv, Remaining
<1>4. CASE Reset
  <2>1. script' # AllSteps
    BY <1>4, StorySteps DEF Reset, Schedule
  <2>. QED BY <1>1, <2>1 DEF StoryInv
<1>5. ASSUME NEW i \in DOMAIN PHASES, RunPhase(i)
      PROVE  StoryInv'
  <2>1. PHASES[i] # AllSteps
    BY DEF PHASES, AllSteps
  <2>. QED BY <1>1, <1>5, <2>1 DEF RunPhase, Schedule, StoryInv
<1>6. CASE Fire
  <2>1. SUFFICES ASSUME script = AllSteps
                 PROVE  \E n \in 0 .. 11 : (timers = Remaining(n) /\ Told(n))'
    BY <1>1, <1>6 DEF Fire, StoryInv
  <2>2. PICK n \in 0 .. 11 : timers = Remaining(n) /\ Told(n)
    BY <2>1 DEF StoryInv
  <2>3. n # 11
    BY <1>2, <1>6, <2>1, <2>2, WholeScript DEF Fire, Remaining
  <2>4. n \in 0 .. 10 /\ n \in 0 .. Len(AllSteps) - 1 /\ n + 1 \in 0 .. 11
    BY <1>2, <2>3
  <2>5. /\ Head(timers) = AllSteps[n + 1]
        /\ Tail(timers) = SubSeq(AllSteps, (n + 1) + 1, Len(AllSteps))
    BY <1>2, <2>1, <2>2, <2>4, RemainingSteps DEF Remaining
  <2>6. Told(n + 1)'
    BY <1>6, <2>2, <2>4, <2>5, ToldFire DEF Fire, StoryInv
  <2>7. timers' = SubSeq(script', (n + 1) + 1, Len(script'))
    BY <1>6, <2>1, <2>5 DEF Fire
  <2>. QED BY <2>4, <2>6, <2>7 DEF Remaining
<1>7. CASE Click
  <2>1. ASSUME NEW n \in 0 .. 11, Told(n)
        PROVE  Told(n)'
    BY <1>7, <2>1, ToldClick
  <2>. QED BY <1>1, <1>7, <2>1 DEF Click, replayVars, StoryInv, Remaining
<1>. QED BY <1>3, <1>4, <1>5, <1>6, <1>7 DEF ReplayNext

\* When its last timer has fired, the whole story is told.
LEMMA StoryEnds ==
    ASSUME StoryInv
    PROVE  FullRunTellsTheStory
<1>1. AllSteps \in Seq(DOMAIN Accepts) /\ Len(AllSteps) = 11
  BY StorySteps, ScriptsAreSequences DEF Scripts
<1>2. SUFFICES ASSUME script = AllSteps, timers = <<>>, OnlyTheGoal
               PROVE  StoryAt(11)
  BY GoalMarketIs DEF FullRunTellsTheStory, OnlyTheGoal, StoryAt, StatusAfter
<1>3. PICK n \in 0 .. 11 : timers = Remaining(n) /\ Told(n)
  BY <1>2 DEF StoryInv
<1>4. n = 11
  <2>1. ASSUME n # 11
        PROVE  FALSE
    <3>1. n \in 0 .. Len(AllSteps) - 1
      BY <1>1, <2>1
    <3>. QED BY <1>1, <1>2, <1>3, <3>1, RemainingSteps DEF Remaining
  <2>. QED BY <2>1
<1>. QED BY <1>2, <1>3, <1>4 DEF Told

(***************************************************************************)
(* The live feed.                                                          *)
(***************************************************************************)

\* A slice with streams that open or close is typed.
LEMMA StatusesTyped ==
    ASSUME NEW streams, NEW slice \in TxLineSlice, NEW liveCapable \in BOOLEAN
    PROVE  [slice EXCEPT !.liveCapable = liveCapable,
                         !.stream = StatusesWhenOpen(streams)] \in TxLineSlice
<1>1. StatusesWhenOpen(streams) \in [Streams -> StreamStatuses]
  BY DEF StatusesWhenOpen, StreamStatuses
<1>. QED BY <1>1 DEF TxLineSlice

\* A payload becomes an event.
LEMMA NormalizedIsEvent ==
    ASSUME NEW payload \in Payload, NEW source \in Sources, NEW fixture \in Fixtures,
           NEW fallback \in 0 .. MaxSeq
    PROVE  NormalizeTxLineEvent(payload, source, fixture, fallback) \in Event
<1>1. SeqOf(payload, fallback) \in 0 .. MaxSeq
  BY DEF SeqOf, Payload
<1>. QED BY <1>1 DEF NormalizeTxLineEvent, Payload, Event

\* What the live feed does to the terminal is a dispatch.
LEMMA LiveDispatches ==
    ASSUME TypeOK, fallbackSeq \in Nat, open \subseteq Streams, LiveNext
    PROVE  ReducerStep \/ UNCHANGED terminalVars
<1> USE LiveFeedAssumption
<1>1. /\ INITIAL_TXLINE \in TxLineSlice
      /\ txline \in TxLineSlice
      /\ txline.liveCapable \in BOOLEAN
      /\ mode \in Modes
      /\ market \in Market
  BY DEF INITIAL_TXLINE, TxLineSlice, StreamStatuses, TypeOK
<1>2. ASSUME NEW m \in Modes, SwitchMode(m)
      PROVE  ReducerStep
  <2>1. \E slice \in TxLineSlice : FreshScenario(m, slice)
    BY <1>1, <1>2, StatusesTyped DEF SwitchMode
  <2>. QED BY <2>1 DEF ReducerStep, Restarts
<1>3. CASE Restart
  BY <1>1, <1>3 DEF Restart, ResetDemo, ReducerStep, Restarts
<1>4. CASE HealthArrives
  <2>1. ASSUME NEW liveCapable \in BOOLEAN,
               txline' = [txline EXCEPT !.liveCapable = liveCapable,
                                        !.stream = StatusesWhenOpen(Wanted(mode, liveCapable))]
        PROVE  txline' \in TxLineSlice
    BY <1>1, <2>1, StatusesTyped
  <2>. QED BY <1>4, <2>1 DEF HealthArrives, ReducerStep, FeedReports
<1>5. CASE StreamReports
  <2>1. ASSUME NEW s \in open, NEW status \in {"connecting", "live", "error"},
               StreamStatus(s, status)
        PROVE  ReducerStep
    <3>1. txline' \in TxLineSlice
      BY <1>1, <2>1 DEF StreamStatus, TxLineSlice, StreamStatuses
    <3>. QED BY <2>1, <3>1 DEF StreamStatus, ReducerStep, FeedReports
  <2>. QED BY <1>5, <2>1 DEF StreamReports
<1>6. ASSUME NEW s \in Streams, NEW payload \in Payloads, IngestPayload(s, payload)
      PROVE  ReducerStep
  <2>1. fallbackSeq + 1 \in 0 .. MaxSeq
    BY <1>6 DEF IngestPayload
  <2>2. FallbackFixture(market.fixtureId) \in Fixtures
    BY <1>1 DEF FallbackFixture, Market
  <2>3. NormalizeTxLineEvent(payload, "live", FallbackFixture(market.fixtureId),
                             fallbackSeq + 1) \in Event
    BY <2>1, <2>2, NormalizedIsEvent DEF Sources
  <2>. QED BY <1>6, <2>3 DEF IngestPayload, ReducerStep
<1>7. ASSUME NEW sample \in Samples, ReplaySample(sample)
      PROVE  ReducerStep
  <2>1. market.materialSeq + 1 \in 0 .. MaxSeq /\ market.fixtureId \in Fixtures
    BY <1>1, <1>7 DEF ReplaySample, Market
  <2>2. NormalizeTxLineEvent(sample, "captured", market.fixtureId,
                             market.materialSeq + 1) \in Event
    BY <2>1, NormalizedIsEvent DEF Sources
  <2>. QED BY <1>7, <2>2 DEF ReplaySample, ReducerStep
<1>8. CASE MarketMaker
  BY <1>8 DEF MarketMaker, ReducerStep
<1>. QED BY <1>2, <1>3, <1>4, <1>5, <1>6, <1>7, <1>8 DEF LiveNext

\* What the live feed keeps beside the terminal: the open streams are the ones
\* wanted, nothing shows as connected without a handle, the counter is ahead of
\* what came from a stream; a server is known to be capable only once it was
\* asked, and the market has no event that the slice has forgotten.
FeedInv ==
    /\ open \subseteq Streams
    /\ fallbackSeq \in 1 .. MaxSeq
    /\ fetched \in BOOLEAN
    /\ open = Wanted(mode, txline.liveCapable)
    /\ txline.liveCapable => fetched
    /\ txline.lastEvent = Null => market.lastMaterialEvent = Null
    /\ LiveBadgeIsHonest
    /\ StatusesHaveHandles
    /\ FallbackStaysAhead

\* A new scenario shows no event.
LEMMA FreshFeed ==
    ASSUME NEW m \in Modes, NEW slice \in TxLineSlice, FreshScenario(m, slice),
           slice.lastEvent = Null,
           open' = Wanted(m, slice.liveCapable),
           \A s \in Streams : slice.stream[s] # "disconnected" => s \in open',
           UNCHANGED <<fallbackSeq, fetched>>,
           fallbackSeq \in 1 .. MaxSeq, fetched \in BOOLEAN,
           slice.liveCapable => fetched
    PROVE  FeedInv'
<1>1. /\ txline' = slice /\ mode' = m
      /\ market'.lastMaterialEvent = Null
  BY DEF FreshScenario, INITIAL_MARKET
<1>2. LiveBadgeIsHonest' /\ FallbackStaysAhead' /\ StatusesHaveHandles'
  BY <1>1
     DEF LiveBadgeIsHonest, ActiveDataSource, FallbackStaysAhead, StatusesHaveHandles
<1>. QED BY <1>1, <1>2 DEF FeedInv, Wanted

\* An event that is ingested is the last one; it shows as live only if a stream
\* delivered it.
LEMMA IngestFeed ==
    ASSUME TypeOK, FeedInv, NEW event \in Event, IngestTxlineEvent(event), UNCHANGED open,
           UNCHANGED fetched, fallbackSeq' \in 1 .. MaxSeq,
           event.source = "live" => open # {} /\ event.seq <= fallbackSeq'
    PROVE  FeedInv'
<1>1. /\ txline'.lastEvent = event
      /\ txline'.stream = txline.stream
      /\ txline'.liveCapable = txline.liveCapable
      /\ mode' = mode
      /\ event # Null
  BY DEF IngestTxlineEvent, TypeOK, TxLineSlice
<1>2. StatusesHaveHandles' /\ FallbackStaysAhead'
  BY <1>1 DEF FeedInv, StatusesHaveHandles, FallbackStaysAhead
<1>3. LiveBadgeIsHonest'
  <2>1. ActiveDataSource' = event.source
    BY <1>1 DEF ActiveDataSource
  <2>2. event.source = "live" => mode = "live" /\ txline.liveCapable /\ open # {}
    BY DEF FeedInv, Wanted
  <2>. QED BY <1>1, <2>1, <2>2 DEF LiveBadgeIsHonest
<1>. QED BY <1>1, <1>2, <1>3 DEF FeedInv

\* Every step of the live feed keeps it.
LEMMA FeedStep ==
    ASSUME TypeOK, FeedInv, LiveNext
    PROVE  FeedInv'
<1> USE LiveFeedAssumption
<1> USE DEF feedVars, botVars, orderVars, verdictVars, proofVars, terminalVars, hookVars
<1>1. /\ INITIAL_TXLINE \in TxLineSlice
      /\ txline \in TxLineSlice
      /\ txline.liveCapable \in BOOLEAN
      /\ txline.stream \in [Streams -> StreamStatuses]
      /\ mode \in Modes
      /\ market \in Market
      /\ fallbackSeq \in 1 .. MaxSeq
      /\ fetched \in BOOLEAN
      /\ open \subseteq Streams
  BY DEF INITIAL_TXLINE, TxLineSlice, StreamStatuses, TypeOK, FeedInv
<1>2. ASSUME NEW m \in Modes, SwitchMode(m)
      PROVE  FeedInv'
  <2> DEFINE streams == Wanted(m, txline.liveCapable)
             slice == [INITIAL_TXLINE EXCEPT !.liveCapable = txline.liveCapable,
                                             !.stream = StatusesWhenOpen(streams)]
  <2>1. /\ slice \in TxLineSlice
        /\ slice.lastEvent = Null
        /\ slice.liveCapable = txline.liveCapable
        /\ slice.stream = StatusesWhenOpen(streams)
    BY <1>1, StatusesTyped DEF INITIAL_TXLINE
  <2>2. FreshScenario(m, slice) /\ open' = streams /\ UNCHANGED <<fallbackSeq, fetched>>
    BY <1>2 DEF SwitchMode
  <2>3. txline.liveCapable => fetched
    BY DEF FeedInv
  <2>4. \A s \in Streams : StatusesWhenOpen(streams)[s] # "disconnected" => s \in streams
    BY DEF StatusesWhenOpen
  <2> HIDE DEF slice
  <2>. QED BY <1>1, <2>1, <2>2, <2>3, <2>4, FreshFeed
<1>3. CASE Restart
  <2>1. FreshScenario(mode, INITIAL_TXLINE) /\ open' = {} /\ UNCHANGED <<fallbackSeq, fetched>>
    BY <1>3 DEF Restart, ResetDemo
  <2>2. /\ INITIAL_TXLINE.lastEvent = Null
        /\ INITIAL_TXLINE.liveCapable = FALSE
        /\ \A s \in Streams : INITIAL_TXLINE.stream[s] = "disconnected"
    BY DEF INITIAL_TXLINE
  <2>3. open' = Wanted(mode, INITIAL_TXLINE.liveCapable)
    BY <2>1, <2>2 DEF Wanted
  <2>. QED BY <1>1, <2>1, <2>2, <2>3, FreshFeed
<1>4. CASE HealthArrives
  <2>1. CASE UNCHANGED <<terminalVars, open>>
    BY <1>4, <2>1
       DEF HealthArrives, FeedInv, LiveBadgeIsHonest, ActiveDataSource,
           StatusesHaveHandles, FallbackStaysAhead, Wanted
  <2>2. ASSUME NEW liveCapable \in BOOLEAN,
               txline' = [txline EXCEPT !.liveCapable = liveCapable,
                                        !.stream = StatusesWhenOpen(Wanted(mode, liveCapable))],
               open' = Wanted(mode, liveCapable), mode' = mode, market' = market
        PROVE  FeedInv'
    <3>1. /\ txline'.liveCapable = liveCapable
          /\ txline'.stream = StatusesWhenOpen(open')
          /\ txline'.lastEvent = txline.lastEvent
      BY <1>1, <2>2 DEF TxLineSlice
    <3>2. ~ txline.liveCapable /\ fetched' = TRUE /\ fallbackSeq' = fallbackSeq
      BY <1>4 DEF HealthArrives, FeedInv
    <3>3. ActiveDataSource # "live"
      BY <3>2 DEF FeedInv, LiveBadgeIsHonest
    <3>4. LiveBadgeIsHonest'
      BY <2>2, <3>1, <3>3 DEF LiveBadgeIsHonest, ActiveDataSource
    <3>5. StatusesHaveHandles' /\ FallbackStaysAhead'
      BY <3>1, <3>2
         DEF FeedInv, StatusesHaveHandles, FallbackStaysAhead, StatusesWhenOpen
    <3>. QED BY <1>1, <2>2, <3>1, <3>2, <3>4, <3>5 DEF FeedInv, Wanted
  <2>. QED BY <1>4, <2>1, <2>2 DEF HealthArrives
<1>5. CASE StreamReports
  <2>1. ASSUME NEW s \in open, NEW status \in {"connecting", "live", "error"},
               StreamStatus(s, status), UNCHANGED hookVars
        PROVE  FeedInv'
    <3>1. /\ txline'.liveCapable = txline.liveCapable
          /\ txline'.lastEvent = txline.lastEvent
          /\ txline'.stream = [txline.stream EXCEPT ![s] = status]
          /\ UNCHANGED <<mode, market>>
      BY <1>1, <2>1 DEF StreamStatus, TxLineSlice
    <3>2. StatusesHaveHandles'
      BY <1>1, <2>1, <3>1 DEF FeedInv, StatusesHaveHandles
    <3>3. LiveBadgeIsHonest' /\ FallbackStaysAhead'
      BY <2>1, <3>1 DEF FeedInv, LiveBadgeIsHonest, ActiveDataSource, FallbackStaysAhead
    <3>. QED BY <2>1, <3>1, <3>2, <3>3 DEF FeedInv
  <2>. QED BY <1>5, <2>1 DEF StreamReports
<1>6. ASSUME NEW s \in Streams, NEW payload \in Payloads, IngestPayload(s, payload)
      PROVE  FeedInv'
  <2> DEFINE event == NormalizeTxLineEvent(payload, "live",
                          FallbackFixture(market.fixtureId), fallbackSeq + 1)
  <2>1. fallbackSeq + 1 \in 1 .. MaxSeq
    BY <1>1, <1>6 DEF IngestPayload
  <2>2. FallbackFixture(market.fixtureId) \in Fixtures
    BY <1>1 DEF FallbackFixture, Market
  <2>3. event \in Event
    BY <2>1, <2>2, NormalizedIsEvent DEF Sources
  <2>4. /\ IngestTxlineEvent(event)
        /\ fallbackSeq' = IF event.seq >= fallbackSeq + 1 THEN event.seq ELSE fallbackSeq + 1
        /\ s \in open
        /\ UNCHANGED <<open, fetched>>
    BY <1>6 DEF IngestPayload
  <2>5. event.seq \in 0 .. MaxSeq
    BY <2>3 DEF Event
  <2> HIDE DEF event
  <2>6. fallbackSeq' \in 1 .. MaxSeq /\ event.seq <= fallbackSeq'
    BY <2>1, <2>4, <2>5
  <2>. QED BY <2>3, <2>4, <2>6, IngestFeed
<1>7. ASSUME NEW sample \in Samples, ReplaySample(sample)
      PROVE  FeedInv'
  <2> DEFINE event == NormalizeTxLineEvent(sample, "captured", market.fixtureId,
                                           market.materialSeq + 1)
  <2>1. market.materialSeq + 1 \in 0 .. MaxSeq /\ market.fixtureId \in Fixtures
    BY <1>1, <1>7 DEF ReplaySample, Market
  <2>2. event \in Event
    BY <2>1, NormalizedIsEvent DEF Sources
  <2>3. event.source # "live"
    BY DEF NormalizeTxLineEvent
  <2>4. IngestTxlineEvent(event) /\ UNCHANGED hookVars
    BY <1>7 DEF ReplaySample
  <2> HIDE DEF event
  <2>. QED BY <1>1, <2>2, <2>3, <2>4, IngestFeed
<1>8. CASE MarketMaker
  <2>1. /\ UNCHANGED <<mode, txline, open, fallbackSeq, fetched>>
        /\ market'.lastMaterialEvent = market.lastMaterialEvent
    BY <1>1, <1>8 DEF MarketMaker, ReducerRepriceMarket, RepriceMarket, Market
  <2>. QED
    BY <2>1
       DEF FeedInv, LiveBadgeIsHonest, ActiveDataSource, StatusesHaveHandles,
           FallbackStaysAhead
<1>. QED BY <1>2, <1>3, <1>4, <1>5, <1>6, <1>7, <1>8 DEF LiveNext

(***************************************************************************)
(* The composition.  The terminal's invariant holds under each driver; each *)
(* driver keeps its own variables and the others' stay as they started.    *)
(***************************************************************************)
AppInv ==
    /\ TerminalInv
    /\ driver \in {"user", "replay", "live feed"}
    /\ driver = "replay" => RunInv /\ StoryInv
    /\ driver = "live feed" => FeedInv

\* Whoever drives it, a step is a dispatch.
LEMMA AppDispatches ==
    ASSUME AppInv, AppNext
    PROVE  ReducerStep \/ UNCHANGED terminalVars
<1>1. TypeOK
  BY DEF AppInv, TerminalInv
<1>2. CASE driver = "user" /\ Next
  BY <1>1, <1>2, UserDispatches
<1>3. CASE driver = "replay" /\ ReplayNext
  BY <1>1, <1>3, ReplayDispatches
<1>4. CASE driver = "live feed" /\ LiveNext
  <2>1. fallbackSeq \in 1 .. MaxSeq /\ open \subseteq Streams
    BY <1>4 DEF AppInv, FeedInv
  <2>2. fallbackSeq \in Nat
    BY <2>1
  <2>. QED BY <1>1, <1>4, <2>1, <2>2, LiveDispatches
<1>. QED BY <1>2, <1>3, <1>4 DEF AppNext

\* Every step of every driver keeps the invariant.
LEMMA AppStep ==
    ASSUME AppInv, [AppNext]_vars
    PROVE  AppInv' /\ FinalStep
<1>1. CASE AppNext
  <2>1. TerminalInv' /\ FinalStep
    BY <1>1, AppDispatches, TerminalInvStep DEF AppInv
  <2>2. driver' = driver /\ TypeOK
    BY <1>1 DEF AppNext, AppInv, TerminalInv
  <2>3. driver = "replay" => RunInv' /\ StoryInv'
    BY <1>1, RunStep, StoryStep DEF AppInv, AppNext
  <2>4. driver = "live feed" => FeedInv'
    BY <1>1, <2>2, FeedStep DEF AppInv, AppNext
  <2>. QED BY <2>1, <2>2, <2>3, <2>4 DEF AppInv
<1>2. CASE UNCHANGED vars
  <2>1. UNCHANGED terminalVars
    BY <1>2 DEF vars
  <2>2. TerminalInv' /\ FinalStep
    BY <2>1, TerminalInvStep DEF AppInv
  <2>3. RunInv => RunInv'
    BY <1>2 DEF vars, replayVars, RunInv, Remaining
  <2>4. StoryInv => StoryInv'
    BY <1>2
       DEF vars, replayVars, terminalVars, feedVars, orderVars, verdictVars, proofVars,
           StoryInv, Untouched, Remaining, Told, OnlyTheGoal, StoryAt
  <2>5. FeedInv => FeedInv'
    BY <1>2
       DEF vars, hookVars, terminalVars, feedVars, FeedInv, LiveBadgeIsHonest,
           ActiveDataSource, StatusesHaveHandles, FallbackStaysAhead
  <2>. QED BY <1>2, <2>2, <2>3, <2>4, <2>5 DEF vars, AppInv
<1>. QED BY <1>1, <1>2

\* Every driver starts with it.
LEMMA AppStart ==
    ASSUME AppInit
    PROVE  AppInv
<1> USE ReplayAssumption
<1>1. Init
  BY DEF AppInit, ReplayInit, LiveInit
<1>2. TerminalInv
  BY <1>1, TerminalInvStart
<1>3. ASSUME playing = FALSE, token = 0, script = <<>>, timers = <<>>
      PROVE  RunInv
  <2>1. 0 \in 0 .. Len(script) /\ timers = Remaining(0)
    BY <1>3, WholeScript DEF Remaining
  <2>2. script \in Scripts
    BY <1>3 DEF Scripts
  <2>3. token \in 0 .. MaxRuns
    BY <1>3
  <2>. QED BY <1>3, <2>1, <2>2, <2>3 DEF RunInv
<1>4. ASSUME script = <<>>
      PROVE  StoryInv
  <2>1. script # AllSteps
    BY <1>4, StorySteps
  <2>2. Untouched
    BY <1>1 DEF Init, InitialScenario, Untouched
  <2>. QED BY <2>1, <2>2 DEF StoryInv
<1>5. ASSUME open = {}, fallbackSeq = 1, fetched = FALSE
      PROVE  FeedInv
  <2>1. /\ mode = "demo"
        /\ txline.liveCapable = FALSE
        /\ txline.lastEvent = Null
        /\ \A s \in Streams : txline.stream[s] = "disconnected"
        /\ market.lastMaterialEvent = Null
    BY <1>1 DEF Init, InitialScenario, INITIAL_TXLINE, INITIAL_MARKET
  <2>2. LiveBadgeIsHonest /\ StatusesHaveHandles /\ FallbackStaysAhead
    BY <2>1
       DEF LiveBadgeIsHonest, ActiveDataSource, StatusesHaveHandles, FallbackStaysAhead
  <2>3. fallbackSeq \in 1 .. MaxSeq
    BY <1>5
  <2>. QED BY <1>5, <2>1, <2>2, <2>3 DEF FeedInv, Wanted
<1>. QED
  BY <1>2, <1>3, <1>4, <1>5 DEF AppInit, ReplayInit, LiveInit, AppInv

\* The invariant holds throughout.
LEMMA AppInvariant == AppSpec => []AppInv
BY AppStart, AppStep, PTL DEF AppSpec

\* Every variable keeps its type under every driver.
THEOREM AppTyped == AppSpec => []AppTypeOK
<1>1. AppInv => AppTypeOK
  BY DEF AppInv, TerminalInv, RunInv, FeedInv, AppTypeOK, ReplayTypeOK, LiveTypeOK,
         Scripts, Remaining
<1>. QED BY <1>1, AppInvariant, PTL

\* A receipt tells the verdict of its order, whoever drives the terminal, and a
\* full replay that got its goal tells the whole story.
THEOREM StoryCorrect == AppSpec => []ReceiptsTellTheStory
<1>1. AppInv => ReceiptsTellTheStory
  BY StoryEnds DEF AppInv, TerminalInv, ReceiptsTellTheStory
<1>. QED BY <1>1, AppInvariant, PTL

\* A market that shows itself trading shows its fair price, and what the live feed
\* shows is what its connections are.
THEOREM ShownCorrect == AppSpec => []ShownStateIsTrue
<1>1. AppInv => ShownStateIsTrue
  BY DEF AppInv, TerminalInv, FeedInv, ShownStateIsTrue
<1>. QED BY <1>1, AppInvariant, PTL

\* The money, the fate of an order and the finality of decisions do not depend on
\* who dispatches.
THEOREM EveryDriverIsSafe ==
    AppSpec => [](MoneyFollowsOrder /\ VerdictDecidesFate) /\ DecisionsAreFinal
<1>1. AppInv => MoneyFollowsOrder /\ VerdictDecidesFate
  BY DEF AppInv, TerminalInv
<1>2. AppInv /\ [AppNext]_vars => [FinalStep]_terminalVars
  BY AppStep
<1>. QED
  BY <1>1, <1>2, AppStart, AppStep, PTL DEF AppSpec, DecisionsAreFinal, FinalStep

=============================================================================
