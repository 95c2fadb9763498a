--------------------------- MODULE LineGuardRules ---------------------------
(***************************************************************************)
(* The pure rules the terminal is built from: which TxLINE events move a   *)
(* market and by how much (lib/markets), what LineGuard decides about an   *)
(* order (lib/lineguard/evaluate.ts), what the sniper reads from a market  *)
(* (lib/bot/sniper.ts) and how the escrow moves money                      *)
(* (lib/escrow/engine.ts).                                                 *)
(*                                                                         *)
(* Prices are in cents.  The code keeps them as doubles rounded to 1e-4,   *)
(* which is exact for every price that these rules produce from whole      *)
(* cents; YES stands for YES or OVER and NO for NO or UNDER, which the     *)
(* code treats alike.                                                      *)
(***************************************************************************)
EXTENDS Integers

CONSTANTS
    Null,            \* JavaScript's null
    Fixtures,        \* fixture ids
    BOT_STAKE_USD,
    BotStartingBalance,
    MaxSeq           \* bound of the event sequences in a run

ASSUME LineGuardRulesAssumption ==
    /\ BOT_STAKE_USD \in Nat
    /\ BotStartingBalance \in Nat
    /\ MaxSeq \in Nat

Sides == {"YES", "NO"}
MarketKinds == {"WINNER", "OVER_UNDER"}
Sources == {"live", "historical", "captured", "demo"}
Prices == 0 .. 100
TOLERANCE == 2

EventTypes ==
    { "GOAL", "RED_CARD", "YELLOW_CARD", "PENALTY", "VAR", "ODDS_UPDATE",
      "MATCH_STATE", "UNKNOWN" }
MaterialEventTypes == {"GOAL", "RED_CARD", "PENALTY", "VAR", "ODDS_UPDATE"}

\* A normalized event.  forBacked: it names the team the market backs;
\* implied: the YES price an odds payload implies, or 0 when it implies none.
Event ==
    [ eventType : EventTypes,
      source    : Sources,
      fixtureId : Fixtures,
      seq       : 0 .. MaxSeq,
      forBacked : BOOLEAN,
      implied   : Prices ]

Market ==
    [ kind              : MarketKinds,
      fixtureId         : Fixtures,
      yes               : Prices,
      fairYes           : Prices,
      materialSeq       : 0 .. MaxSeq,
      pricedAtSeq       : 0 .. MaxSeq,
      status            : {"trading", "stale"},
      lastMaterialEvent : Event \cup {Null} ]

IsStale(market) == market.materialSeq > market.pricedAtSeq

\* fairSidePrice and displayedSidePrice: the same complement rule.
SidePrice(yes, side) == IF side = "YES" THEN yes ELSE 100 - yes

-----------------------------------------------------------------------------
(* Materiality and fair value.                                             *)

EventImpactsMarket(event, market) ==
    /\ event.eventType \in MaterialEventTypes
    /\ event.fixtureId = market.fixtureId
    /\ event.eventType \in {"RED_CARD", "PENALTY", "VAR"}
        => market.kind = "WINNER"

ClampPrice(p) == IF p < 1 THEN 1 ELSE IF p > 99 THEN 99 ELSE p

GOAL_TOTAL == 20
\* What a goal, a red card or a penalty adds to the winner's price, by whether
\* the event names the backed team.
FairShift ==
    [ GOAL     |-> [for |-> 23,    against |-> 0 - 18],
      RED_CARD |-> [for |-> 0 - 15, against |-> 12],
      PENALTY  |-> [for |-> 8,     against |-> 0 - 7] ]

ComputeFairValueFromEvent(event, market, previousFairYes) ==
    CASE event.eventType = "GOAL" /\ market.kind = "OVER_UNDER" ->
            ClampPrice(previousFairYes + GOAL_TOTAL)
      [] event.eventType \in DOMAIN FairShift /\ market.kind = "WINNER" ->
            LET shift == FairShift[event.eventType]
            IN  ClampPrice(previousFairYes + (IF event.forBacked
                                              THEN shift.for ELSE shift.against))
      [] event.eventType = "ODDS_UPDATE" /\ event.implied # 0 ->
            ClampPrice(event.implied)
      [] OTHER -> previousFairYes

\* Slip: a material event moves the displayed price along with the fair one.
IngestMovesQuote(market, event) ==
    IF EventImpactsMarket(event, market)
    THEN LET fair == ComputeFairValueFromEvent(event, market, market.fairYes)
         IN  [market EXCEPT !.fairYes = fair, !.yes = fair,
                            !.status = "stale", !.lastMaterialEvent = event]
    ELSE market

\* ingestEvent: the sequence and the fair value advance, the quote does not.
IngestEvent(market, event) ==
    IF EventImpactsMarket(event, market)
    THEN [market EXCEPT
            !.materialSeq = IF event.seq > @ THEN event.seq ELSE @,
            !.fairYes = ComputeFairValueFromEvent(event, market, market.fairYes),
            !.status = "stale",
            !.lastMaterialEvent = event]
    ELSE market

\* Slip: a reprice leaves the displayed price where it was.
RepriceSequenceOnly(market) ==
    [market EXCEPT !.pricedAtSeq = market.materialSeq, !.status = "trading"]

RepriceMarket(market) ==
    [market EXCEPT !.yes = market.fairYes,
                   !.pricedAtSeq = market.materialSeq,
                   !.status = "trading"]

-----------------------------------------------------------------------------
(* The verdict and the sniper's reading.                                   *)

Verdicts == {"ALLOWED", "VOIDED_REFUNDED", "STALE_ALLOWED_NO_EDGE"}
Edges == -100 .. 100

EvaluateLineGuard(side, observedPrice, market) ==
    LET fair == SidePrice(market.fairYes, side)
        edge == fair - observedPrice
    IN  [ verdict |-> CASE ~ IsStale(market) -> "ALLOWED"
                        [] IsStale(market) /\ edge > TOLERANCE -> "VOIDED_REFUNDED"
                        [] OTHER -> "STALE_ALLOWED_NO_EDGE",
          staleness |-> market.materialSeq - market.pricedAtSeq,
          edge |-> edge,
          fairSidePrice |-> fair,
          observedPrice |-> observedPrice ]

ReadMarket(market, side) ==
    LET edge == SidePrice(market.fairYes, side) - SidePrice(market.yes, side)
    IN  [ side |-> side,
          observedPrice |-> SidePrice(market.yes, side),
          edge |-> edge,
          attackReady |-> IsStale(market) /\ edge > TOLERANCE ]

-----------------------------------------------------------------------------
(* The escrow.  A transition the order's status does not allow is a no-op. *)

OrderStatuses ==
    {"submitted", "escrowed", "evaluating", "filled", "voided", "refunded"}
Order == [side : Sides, observedPrice : Prices, status : OrderStatuses]

Money == 0 .. BotStartingBalance
EscrowLedger ==
    [ botAvailableBalance : Money,
      escrowedAmount      : Money,
      refundedAmount      : Money,
      filledAmount        : Money,
      protocolBalance     : Money ]

InitialLedger ==
    [ botAvailableBalance |-> BotStartingBalance,
      escrowedAmount |-> 0,
      refundedAmount |-> 0,
      filledAmount |-> 0,
      protocolBalance |-> 0 ]

Unmoved(ledger, order) == [ledger |-> ledger, order |-> order]

EscrowOrder(ledger, order) ==
    IF order.status = "submitted" /\ ledger.botAvailableBalance >= BOT_STAKE_USD
    THEN [ ledger |-> [ledger EXCEPT !.botAvailableBalance = @ - BOT_STAKE_USD,
                                     !.escrowedAmount = @ + BOT_STAKE_USD],
           order |-> [order EXCEPT !.status = "escrowed"] ]
    ELSE Unmoved(ledger, order)

BeginEvaluation(ledger, order) ==
    IF order.status = "escrowed"
    THEN [ledger |-> ledger, order |-> [order EXCEPT !.status = "evaluating"]]
    ELSE Unmoved(ledger, order)

VoidOrder(ledger, order) ==
    IF order.status = "evaluating"
    THEN [ledger |-> ledger, order |-> [order EXCEPT !.status = "voided"]]
    ELSE Unmoved(ledger, order)

\* Slip: the refund is paid from the escrow but not to the bot.
RefundWithoutCredit(ledger, order) ==
    IF order.status = "voided"
    THEN [ ledger |-> [ledger EXCEPT !.escrowedAmount = @ - BOT_STAKE_USD,
                                     !.refundedAmount = @ + BOT_STAKE_USD],
           order |-> [order EXCEPT !.status = "refunded"] ]
    ELSE Unmoved(ledger, order)

\* Slip: the order stays void, and can be refunded again.
RefundStayingVoid(ledger, order) ==
    IF order.status = "voided"
    THEN [ ledger |-> [ledger EXCEPT !.escrowedAmount = @ - BOT_STAKE_USD,
                                     !.botAvailableBalance = @ + BOT_STAKE_USD,
                                     !.refundedAmount = @ + BOT_STAKE_USD],
           order |-> order ]
    ELSE Unmoved(ledger, order)

RefundEscrow(ledger, order) ==
    IF order.status = "voided"
    THEN [ ledger |-> [ledger EXCEPT !.escrowedAmount = @ - BOT_STAKE_USD,
                                     !.botAvailableBalance = @ + BOT_STAKE_USD,
                                     !.refundedAmount = @ + BOT_STAKE_USD],
           order |-> [order EXCEPT !.status = "refunded"] ]
    ELSE Unmoved(ledger, order)

FillEscrow(ledger, order) ==
    IF order.status = "evaluating"
    THEN [ ledger |-> [ledger EXCEPT !.escrowedAmount = @ - BOT_STAKE_USD,
                                     !.filledAmount = @ + BOT_STAKE_USD,
                                     !.protocolBalance = @ + BOT_STAKE_USD],
           order |-> [order EXCEPT !.status = "filled"] ]
    ELSE Unmoved(ledger, order)
=============================================================================
