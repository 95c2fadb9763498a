---------------------------- MODULE FairXMarkets ----------------------------
(***************************************************************************)
(* The market descriptors of lib/markets and their pure transitions: what  *)
(* an event does to a market, what a reprice does, and what LineGuard      *)
(* decides about an order at the quote that a market shows (routes.ts,     *)
(* fairx.ts, createMarket.ts).                                             *)
(*                                                                         *)
(* Prices are in cents, as in LineGuardRules, from which the fair value of *)
(* the match markets is taken.  Titles, teams and hashes are left out: an  *)
(* event is for the side that YES backs or it is not.                      *)
(***************************************************************************)
EXTENDS LineGuardRules

FairXMarketTypes == {"MATCH_WINNER", "TOTAL_GOALS", "NEXT_GOAL", "CUSTOM_YES_NO"}
FairXStatuses == {"TRADING", "STALE", "REPRICING", "SETTLED"}
Rules == {"goals", "redCards", "penalties", "oddsUpdates"}

\* materialityRules: the rules that are enabled.  onChain: what the descriptor
\* says of its devnet market.  lastSeq and lastMaterial: of lastEvent.
FairXMarket ==
    [ type         : FairXMarketTypes,
      status       : FairXStatuses,
      displayed    : Prices,
      fair         : Prices,
      materialSeq  : 0 .. MaxSeq,
      pricedAtSeq  : 0 .. MaxSeq,
      tolerance    : 0 .. 25,
      source       : Sources,
      createdBy    : {"demo", "user"},
      rules        : SUBSET Rules,
      lastSeq      : 0 .. MaxSeq,
      lastMaterial : BOOLEAN,
      onChain      : SUBSET {"initialized", "settled"} ]

\* validateFairXMarketInput: what a creator may ask for.
ValidInput(in) ==
    /\ in.displayed \in 1 .. 99
    /\ in.fair \in 1 .. 99
    /\ in.tolerance \in 0 .. 25
    /\ in.rules # {}
    /\ in.source # "historical"

\* createFairXMarket.
CreateFairXMarket(in) ==
    [ type |-> in.type, status |-> "TRADING", displayed |-> in.displayed,
      fair |-> in.fair, materialSeq |-> 1, pricedAtSeq |-> 1,
      tolerance |-> in.tolerance, source |-> in.source, createdBy |-> "user",
      rules |-> in.rules, lastSeq |-> 0, lastMaterial |-> FALSE, onChain |-> {} ]

IsFairXMarketStale(market) == market.materialSeq > market.pricedAtSeq

-----------------------------------------------------------------------------
(* Events.                                                                 *)

RuleOf ==
    [ GOAL |-> "goals", RED_CARD |-> "redCards", PENALTY |-> "penalties",
      ODDS_UPDATE |-> "oddsUpdates" ]

EventAllowedByRules(market, event) ==
    /\ event.eventType \in DOMAIN RuleOf
    /\ RuleOf[event.eventType] \in market.rules

HighestOf(S) == CHOOSE n \in S : \A k \in S : k <= n

HighestKnownEventSeq(market) ==
    HighestOf({market.materialSeq, market.pricedAtSeq, market.lastSeq})

CustomShift == [GOAL |-> 10, RED_CARD |-> 12, PENALTY |-> 7]

\* customFairPrice: the markets that are not about a match have a fallback of
\* their own, except for odds.
CustomFairPrice(market, event) ==
    ClampPrice(market.fair + (IF event.forBacked THEN 1 ELSE -1)
                                * CustomShift[event.eventType])

\* legacyMarketShape: what the terminal's rules see of the market.
LegacyMarketShape(market) ==
    [kind |-> IF market.type = "TOTAL_GOALS" THEN "OVER_UNDER" ELSE "WINNER"]

\* explicit: the price a data adapter sends along, or 0.
ComputeEventFairPrice(market, event, explicit) ==
    CASE explicit \in 1 .. 99 -> explicit
      [] /\ explicit \notin 1 .. 99
         /\ market.type = "CUSTOM_YES_NO"
         /\ event.eventType # "ODDS_UPDATE" -> CustomFairPrice(market, event)
      [] OTHER ->
            ComputeFairValueFromEvent(event, LegacyMarketShape(market), market.fair)

AcceptsEvent(market, event) ==
    /\ market.status # "SETTLED"
    /\ event.seq > HighestKnownEventSeq(market)

\* applyMarketEvent, for an event of the market's fixture.  An event that the
\* rules do not enable is only recorded.
ApplyMarketEvent(market, event, explicit) ==
    IF ~ AcceptsEvent(market, event) THEN market
    ELSE IF ~ EventAllowedByRules(market, event)
    THEN [market EXCEPT !.lastSeq = event.seq, !.lastMaterial = FALSE]
    ELSE [market EXCEPT !.fair = ComputeEventFairPrice(market, event, explicit),
                        !.materialSeq = event.seq,
                        !.status = "STALE",
                        !.source = event.source,
                        !.lastSeq = event.seq,
                        !.lastMaterial = TRUE]

\* repriceFairXMarket.
RepriceFairXMarket(market) ==
    IF market.status = "SETTLED" THEN market
    ELSE [market EXCEPT !.displayed = market.fair,
                        !.pricedAtSeq = market.materialSeq,
                        !.status = "TRADING"]

-----------------------------------------------------------------------------
(* Orders.                                                                 *)

Actors == {"bot", "user"}
ExecutionModes == {"demo_replay", "local_simulation"}

ValidPrice(p) == p \in 1 .. 99

\* validateOrder, for a stake and a side that the page offers.
ValidOrder(market, side) ==
    /\ market.status # "SETTLED"
    /\ ValidPrice(SidePrice(market.displayed, side))
    /\ ValidPrice(market.fair)

\* modeForMarket, which resolveExecutionMode keeps.
ModeForMarket(market) ==
    IF market.source = "live" THEN "local_simulation" ELSE "demo_replay"

\* The numbers an order is frozen with; its receipt repeats them.
Quote(market, side) ==
    [ side |-> side,
      observed |-> SidePrice(market.displayed, side),
      fairSide |-> SidePrice(market.fair, side),
      materialSeq |-> market.materialSeq,
      pricedAtSeq |-> market.pricedAtSeq,
      tolerance |-> market.tolerance ]

\* evaluateLineGuard, as previewGuardedOrder calls it.
Verdict(quote) ==
    CASE quote.materialSeq <= quote.pricedAtSeq -> "ALLOWED"
      [] /\ quote.materialSeq > quote.pricedAtSeq
         /\ quote.fairSide - quote.observed > quote.tolerance -> "VOIDED_REFUNDED"
      [] OTHER -> "STALE_ALLOWED_NO_EDGE"

GuardedOrderStatus(verdict) ==
    IF verdict = "VOIDED_REFUNDED" THEN "refunded" ELSE "filled"

\* createGuardedOrder: submitted, evaluated and settled in one call.
CreateGuardedOrder(id, market, side, actor) ==
    LET quote == Quote(market, side)
    IN  [ id |-> id, actor |-> actor, quote |-> quote,
          mode |-> ModeForMarket(market),
          verdict |-> Verdict(quote),
          status |-> GuardedOrderStatus(Verdict(quote)) ]

\* The receipt of an order: sealed with the order's numbers, with the event that
\* the market heard last, material or not, and with where the stake went.
Receipt(order, market) ==
    [ orderId |-> order.id, quote |-> order.quote, verdict |-> order.verdict,
      event |-> market.lastSeq,
      destination |-> IF order.verdict = "VOIDED_REFUNDED"
                      THEN "REFUNDED_TO_TRADER" ELSE "RETAINED_IN_ESCROW" ]
=============================================================================
