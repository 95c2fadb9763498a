---------------------------- MODULE QuotePolicy ----------------------------
(***************************************************************************)
(* The reference quote of an order book and its durable capture:           *)
(* lib/polymarket's schemas.ts, orderbook.ts, pricing.ts, capture.ts,      *)
(* hash.ts, mapping.ts and verify.ts, as operators.                        *)
(*                                                                         *)
(* Prices are micros of MICROS_ONE and sizes whole shares; Math.round of a *)
(* half goes up.  A hash is what it is a hash of.  The policy is a record, *)
(* because a capture is verified under the policy it was made with.        *)
(***************************************************************************)
EXTENDS Integers, Sequences, SequencesExt, FiniteSets, FiniteSetsExt, Functions

CONSTANTS
    MICROS_ONE,
    Skew,            \* 5 s: how far ahead of the clock a book may be
    NoLastTrade        \* a book without a last trade

ReferenceMethods == {"ORDERBOOK_MIDPOINT", "DEPTH_WEIGHTED_MIDPOINT", "LAST_TRADE_FALLBACK"}
Prices == 0 .. MICROS_ONE

-----------------------------------------------------------------------------
(* The book.                                                               *)

\* parseClobBook: levels that are no level are dropped, the book is kept.
ParseLevels(raw) ==
    LET Kept[n \in 0 .. Len(raw)] ==
            IF n = 0 THEN <<>>
            ELSE IF raw[n].price \in Prices /\ raw[n].size >= 0 THEN Append(Kept[n - 1], raw[n])
            ELSE Kept[n - 1]
    IN  Kept[Len(raw)]

ParseClobBook(raw) == [raw EXCEPT !.bids = ParseLevels(@), !.asks = ParseLevels(@)]

\* Highest bid first, lowest ask first; the order of levels at one price is nobody's
\* concern.
BidOrder(levels) ==
    CHOOSE p \in Bijection(DOMAIN levels, DOMAIN levels) :
        \A i, j \in DOMAIN levels : i < j => levels[p[i]].price >= levels[p[j]].price
AskOrder(levels) ==
    CHOOSE p \in Bijection(DOMAIN levels, DOMAIN levels) :
        \A i, j \in DOMAIN levels : i < j => levels[p[i]].price <= levels[p[j]].price

SortedBids(book) == [i \in DOMAIN book.bids |-> book.bids[BidOrder(book.bids)[i]]]
SortedAsks(book) == [i \in DOMAIN book.asks |-> book.asks[AskOrder(book.asks)[i]]]

Depth(levels) == MapThenSumSet(LAMBDA i : levels[i].size, DOMAIN levels)

\* Slip: the best levels are taken as they come.
MetricsUnsorted(book) ==
    LET bids == book.bids
        asks == book.asks
        bestBid == IF bids = <<>> THEN 0 ELSE bids[1].price
        bestAsk == IF asks = <<>> THEN 0 ELSE asks[1].price
        both == bids # <<>> /\ asks # <<>>
    IN  [ bestBid |-> bestBid, bestAsk |-> bestAsk,
          midpoint |-> IF both THEN (bestBid + bestAsk + 1) \div 2 ELSE 0,
          spread |-> IF both THEN bestAsk - bestBid ELSE 0,
          bidDepth |-> Depth(bids), askDepth |-> Depth(asks) ]

ComputeOrderBookMetrics(book) ==
    LET bids == SortedBids(book)
        asks == SortedAsks(book)
        bestBid == IF bids = <<>> THEN 0 ELSE bids[1].price
        bestAsk == IF asks = <<>> THEN 0 ELSE asks[1].price
        both == bids # <<>> /\ asks # <<>>
    IN  [ bestBid |-> bestBid, bestAsk |-> bestAsk,
          midpoint |-> IF both THEN (bestBid + bestAsk + 1) \div 2 ELSE 0,
          spread |-> IF both THEN bestAsk - bestBid ELSE 0,
          bidDepth |-> Depth(bids), askDepth |-> Depth(asks) ]

\* consume: the best levels, up to a cumulative size of window.
Consume(levels, window) ==
    FoldLeft(LAMBDA taken, l :
                 LET take == IF l.size < window - taken.size THEN l.size
                             ELSE window - taken.size
                 IN  [notional |-> taken.notional + take * l.price,
                      size |-> taken.size + take],
             [notional |-> 0, size |-> 0], levels)

Rounded(n, d) == (2 * n + d) \div (2 * d)

ComputeDepthWeightedQuote(book, window) ==
    LET bid == Consume(SortedBids(book), window)
        ask == Consume(SortedAsks(book), window)
        Average(side) == IF side.size > 0 THEN Rounded(side.notional, side.size) ELSE 0
        filled == window > 0 /\ bid.size = window /\ ask.size = window
    IN  [ filled |-> filled,
          midpoint |-> IF filled THEN (Average(bid) + Average(ask) + 1) \div 2 ELSE 0 ]

-----------------------------------------------------------------------------
(* The pricing policy: [method, maxSpread, minDepth, maxAge, window,       *)
(* maxDivergence].                                                         *)

InUnitRange(price) == price \in 1 .. MICROS_ONE - 1
Gap(a, b) == IF a < b THEN b - a ELSE a - b

\* Every check that fails, m being the book's metrics and weighted its quote by depth.
Reasons(m, weighted, book, now, closed, policy) ==
    LET timestampValid == book.timestamp \in 1 .. now + Skew
        both == book.bids # <<>> /\ book.asks # <<>>
        fails == [
          INVALID_TIMESTAMP |-> ~ timestampValid,
          EMPTY_BID |-> book.bids = <<>>,
          EMPTY_ASK |-> book.asks = <<>>,
          CROSSED_BOOK |-> both /\ m.bestBid >= m.bestAsk,
          SPREAD_TOO_WIDE |-> both /\ m.spread > policy.maxSpread,
          INSUFFICIENT_DEPTH |->
              m.bidDepth < policy.minDepth \/ m.askDepth < policy.minDepth,
          QUOTE_TOO_OLD |-> timestampValid /\ now - book.timestamp > policy.maxAge,
          MARKET_CLOSED |-> closed,
          PRICE_OUT_OF_RANGE |->
              both /\ ~ (InUnitRange(m.bestBid) /\ InUnitRange(m.bestAsk)
                            /\ InUnitRange(m.midpoint)),
          METHOD_DIVERGENCE |->
              both /\ weighted.filled
                   /\ Gap(weighted.midpoint, m.midpoint) > policy.maxDivergence ]
    IN  {reason \in DOMAIN fails : fails[reason]}

Blockers == {"MARKET_CLOSED", "QUOTE_TOO_OLD", "INVALID_TIMESTAMP"}

\* Why the configured method has no price, reasons being the checks that fail.
Rejections(reasons, weighted, book, policy) ==
    LET noLastTrade == book.lastTrade = NoLastTrade \/ ~ InUnitRange(book.lastTrade)
        blocked == (reasons \cap Blockers) # {} \/ noLastTrade
    IN  CASE policy.method = "ORDERBOOK_MIDPOINT" -> reasons
          [] policy.method = "DEPTH_WEIGHTED_MIDPOINT" ->
                reasons \cup (IF weighted.filled THEN {} ELSE {"DEPTH_WINDOW_UNFILLED"})
          [] policy.method = "LAST_TRADE_FALLBACK" ->
                IF ~ blocked THEN {}
                ELSE reasons \cup (IF noLastTrade THEN {"NO_LAST_TRADE"} ELSE {})

QuoteOf(m, weighted, rejections, book, policy) ==
    LET valid == rejections = {}
    IN  [ method |-> IF valid THEN policy.method ELSE "UNAVAILABLE",
          quoteValid |-> valid,
          rejectionReasons |-> rejections,
          bestBid |-> m.bestBid, bestAsk |-> m.bestAsk, spread |-> m.spread,
          bidDepth |-> m.bidDepth, askDepth |-> m.askDepth,
          midpoint |->
              CASE ~ valid \/ policy.method = "ORDERBOOK_MIDPOINT" -> m.midpoint
                [] valid /\ policy.method = "DEPTH_WEIGHTED_MIDPOINT" -> weighted.midpoint
                [] valid /\ policy.method = "LAST_TRADE_FALLBACK" -> book.lastTrade ]

\* The one quote of the book: m and weighted are computed once.
BuildReferenceQuote(book, now, closed, policy) ==
    CHOOSE quote \in
        UNION { { QuoteOf(m, weighted, Rejections(reasons, weighted, book, policy),
                          book, policy)
                    : reasons \in {Reasons(m, weighted, book, now, closed, policy)} }
                : m \in {ComputeOrderBookMetrics(book)},
                  weighted \in {ComputeDepthWeightedQuote(book, policy.window)} } : TRUE

-----------------------------------------------------------------------------
(* Mappings and captures.  An identity is [event, condition, yes, no,      *)
(* market]; a mapping is one with [semanticsMatch, mappingHash].           *)

Identity(of) ==
    [event |-> of.event, condition |-> of.condition, yes |-> of.yes, no |-> of.no,
     market |-> of.market]

\* finalizeMapping and verifyMapping.
ComputeMappingHash(mapping) == <<Identity(mapping), mapping.semanticsMatch>>

VerifyMapping(mapping) ==
    /\ mapping.mappingHash = ComputeMappingHash(mapping)
    /\ mapping.semanticsMatch

\* computeNormalizedQuoteHash: of what was derived, with the book's identity.
NormalizedQuoteHash(mapping, orderbook, derived) ==
    << mapping.condition, mapping.yes, derived.bestBid, derived.bestAsk,
       derived.midpoint, derived.spread, derived.bidDepth, derived.askDepth,
       derived.method, orderbook.timestamp >>

\* buildReferenceCapture.
BuildReferenceCapture(mapping, descriptor, book, quote, policy, capturedAt) ==
    [ capturedAt |-> capturedAt, mapping |-> mapping,
      market |-> Identity(descriptor), orderbook |-> book, derived |-> quote,
      policy |-> policy,
      rawPayloadHash |-> book,
      mappingHash |-> mapping.mappingHash,
      normalizedQuoteHash |-> NormalizedQuoteHash(mapping, book, quote),
      pricingPolicyHash |-> policy ]

\* verifyReferenceCapture: the quote is derived again from the stored book, at the
\* time of the capture and not at the time of the quote.
VerifyReferenceCapture(c) ==
    /\ VerifyMapping(c.mapping)
    /\ [c.market EXCEPT !.event = c.mapping.event] = Identity(c.mapping)
    /\ c.mappingHash = c.mapping.mappingHash
    /\ c.rawPayloadHash = c.orderbook
    /\ c.derived = BuildReferenceQuote(c.orderbook, c.capturedAt,
                       "MARKET_CLOSED" \in c.derived.rejectionReasons, c.policy)
    /\ c.normalizedQuoteHash = NormalizedQuoteHash(c.mapping, c.orderbook, c.derived)
    /\ c.pricingPolicyHash = c.policy
=============================================================================
