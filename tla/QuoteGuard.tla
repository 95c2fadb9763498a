----------------------------- MODULE QuoteGuard -----------------------------
(***************************************************************************)
(* lib/quote-guard: the commitment to a quote that follows from a record   *)
(* of TxLINE odds, and its verification by computing it again.             *)
(*                                                                         *)
(* A hash is the value it is of: it tells two values apart and nothing     *)
(* more.                                                                   *)
(***************************************************************************)
EXTENDS Integers

CONSTANTS
    MICROS_ONE,
    DefaultMaxAge    \* DEFAULT_QUOTE_MAX_AGE_MS

\* assertOdds: three positive prices of the regulation-time result, in their order.
AssertOdds(odds) ==
    /\ odds.kind = "1X2_PARTICIPANT_RESULT"
    /\ \A i \in 1 .. 3 : odds.prices[i] > 0

HashTxlineOdds(odds) == [hashOf |-> odds]

\* deriveQuoteGuardPrices
DeriveQuoteGuardPrices(prices, spread) ==
    LET drawAway == prices[2] * prices[3]
        denominator == drawAway + prices[1] * prices[3] + prices[1] * prices[2]
        probability == (drawAway * MICROS_ONE + denominator \div 2) \div denominator
    IN  [ probability |-> probability,
          YES |-> probability + spread,
          NO |-> MICROS_ONE - probability + spread ]

CommitmentDigest(fields) == [digestOf |-> fields]

\* createQuoteGuardCommitment, for odds that pass assertOdds.
CreateQuoteGuardCommitment(odds, quoteSequence, materialEventSequence, spread, maxAge) ==
    LET prices == DeriveQuoteGuardPrices(odds.prices, spread)
        fields == [ version |-> 1, fixtureId |-> odds.fixtureId,
                    quoteSequence |-> quoteSequence,
                    materialEventSequence |-> materialEventSequence,
                    txlineOddsSequence |-> odds.messageId,
                    oddsHash |-> HashTxlineOdds(odds), normalizationVersion |-> 1,
                    probability |-> prices.probability, YES |-> prices.YES,
                    NO |-> prices.NO, spread |-> spread, sourceTimestamp |-> odds.ts,
                    expiresAt |-> odds.ts + maxAge ]
    IN  [commitment |-> fields, commitmentHash |-> CommitmentDigest(fields)]

\* Slip: the quoted prices are not computed again.
RecomputesProbability(c, d) == c.probability = d.probability

\* The checks "probability" and "generated-quote".
Recomputes(c, d) ==
    c.probability = d.probability /\ c.YES = d.YES /\ c.NO = d.NO

\* verifyQuoteGuard: with the sequences, the spread and the lifetime that the
\* commitment itself names.
VerifyQuoteGuard(quote, odds, onchainHash) ==
    /\ AssertOdds(odds)
    /\ LET c == quote.commitment
           derived == CreateQuoteGuardCommitment(odds, c.quoteSequence,
                          c.materialEventSequence, c.spread,
                          c.expiresAt - c.sourceTimestamp)
           d == derived.commitment
       IN  /\ c.fixtureId = odds.fixtureId
           /\ c.txlineOddsSequence = odds.messageId
           /\ c.oddsHash = d.oddsHash
           /\ c.version = 1 /\ c.normalizationVersion = 1
           /\ Recomputes(c, d)
           /\ c.sourceTimestamp = odds.ts /\ c.expiresAt > c.sourceTimestamp
           /\ quote.commitmentHash = derived.commitmentHash
           /\ c.oddsHash = onchainHash
=============================================================================
