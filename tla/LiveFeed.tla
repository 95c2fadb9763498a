------------------------------ MODULE LiveFeed ------------------------------
(***************************************************************************)
(* The terminal fed by TxLINE: hooks/useTxLineStream.ts and TxLineProvider *)
(* open and close the two streams as the mode and the server's health      *)
(* allow, normalize what arrives (lib/txline/normalize.ts) and dispatch it;*)
(* the captured-payload panel replays saved payloads through the same      *)
(* normalizer.  The sequence of a payload that carries none comes from a   *)
(* counter shared by both streams.                                         *)
(*                                                                         *)
(* An effect that a click triggers runs before the click's event ends, and *)
(* a chunk that arrives is handled before the next event: a dispatch and   *)
(* the closing or opening of streams that follows from it are one action.  *)
(***************************************************************************)
EXTENDS Terminal

CONSTANTS
    Payloads,        \* raw payloads a stream may deliver
    Samples,         \* captured payloads
    HealthFixture,   \* the server's fixture id, or Null
    MarketMakerActs  \* whether the displayed price is ever repriced

Payload ==
    [ eventType : EventTypes,
      fixtureId : Fixtures \cup {Null},   \* Null: the payload names none
      seq       : 0 .. MaxSeq,            \* 0: the payload has no sequence
      forBacked : BOOLEAN,
      implied   : Prices ]

ASSUME LiveFeedAssumption ==
    /\ Null \notin Fixtures
    /\ Payloads \subseteq Payload
    /\ Samples \subseteq Payload
    /\ HealthFixture \in Fixtures \cup {Null}
    /\ MarketMakerActs \in BOOLEAN

VARIABLES
    open,            \* streams with an open handle
    fallbackSeq,
    fetched          \* the provider has asked for the health, once

hookVars == <<open, fallbackSeq, fetched>>
liveVars == <<terminalVars, hookVars>>

-----------------------------------------------------------------------------
(* normalizeTxLineEvent.                                                   *)

SeqOf(payload, fallback) == IF payload.seq # 0 THEN payload.seq ELSE fallback

FallbackFixture(fallback) == IF HealthFixture # Null THEN HealthFixture
                                                     ELSE fallback

NormalizeTxLineEvent(payload, source, fallbackFixture, fallback) ==
    [ eventType |-> payload.eventType,
      source    |-> source,
      fixtureId |-> IF payload.fixtureId # Null THEN payload.fixtureId
                                                ELSE fallbackFixture,
      seq       |-> SeqOf(payload, fallback),
      forBacked |-> payload.forBacked,
      implied   |-> payload.implied ]

-----------------------------------------------------------------------------
LiveInit ==
    /\ Init
    /\ open = {}
    /\ fallbackSeq = 1
    /\ fetched = FALSE

\* The effect's condition: which streams should be open.
Wanted(m, liveCapable) == IF m = "live" /\ liveCapable THEN Streams ELSE {}

\* A handle that opens reports "connecting" before it returns, one that closes
\* reports "disconnected".
StatusesWhenOpen(streams) ==
    [s \in Streams |-> IF s \in streams THEN "connecting" ELSE "disconnected"]

\* Slip: the effect has no cleanup: its handles outlive a mode switch.
SwitchModeWithoutCleanup(m) ==
    /\ m # mode
    /\ LET streams == Wanted(m, txline.liveCapable) \cup open
       IN  /\ FreshScenario(m, [INITIAL_TXLINE EXCEPT
                                    !.liveCapable = txline.liveCapable,
                                    !.stream = StatusesWhenOpen(streams)])
           /\ open' = streams
    /\ UNCHANGED <<fallbackSeq, fetched>>

\* Slip: a new scenario keeps what the streams last reported.
SwitchModeKeepingStatuses(m) ==
    /\ m # mode
    /\ LET streams == Wanted(m, txline.liveCapable)
       IN  /\ FreshScenario(m, [INITIAL_TXLINE EXCEPT
                                    !.liveCapable = txline.liveCapable,
                                    !.stream = txline.stream])
           /\ open' = streams
    /\ UNCHANGED <<fallbackSeq, fetched>>

SwitchMode(m) ==
    /\ m # mode
    /\ LET streams == Wanted(m, txline.liveCapable)
       IN  /\ FreshScenario(m, [INITIAL_TXLINE EXCEPT
                                    !.liveCapable = txline.liveCapable,
                                    !.stream = StatusesWhenOpen(streams)])
           /\ open' = streams
    /\ UNCHANGED <<fallbackSeq, fetched>>

\* RESET_DEMO forgets the health, and with it the streams.
Restart ==
    /\ ResetDemo(mode)
    /\ open' = {}
    /\ UNCHANGED <<fallbackSeq, fetched>>

\* The provider fetches the health once; a failure is not retried.
HealthArrives ==
    /\ ~ fetched
    /\ fetched' = TRUE
    /\ \/ UNCHANGED <<terminalVars, open>>
       \/ \E liveCapable \in BOOLEAN :
            LET streams == Wanted(mode, liveCapable)
            IN  /\ txline' = [txline EXCEPT !.liveCapable = liveCapable,
                                            !.stream = StatusesWhenOpen(streams)]
                /\ open' = streams
                /\ UNCHANGED <<mode, goalOnPitch, market, botVars, orderVars,
                               verdictVars, proofVars>>
    /\ UNCHANGED fallbackSeq

\* What an open stream reports of its connection.
StreamReports ==
    /\ \E s \in open, status \in {"connecting", "live", "error"} :
          StreamStatus(s, status)
    /\ UNCHANGED hookVars

\* Slip: the counter does not catch up with a real sequence.
IngestPayloadOwnCounter(s, payload) ==
    /\ s \in open
    /\ txline.stream[s] = "live"
    /\ fallbackSeq < MaxSeq
    /\ fallbackSeq' = fallbackSeq + 1
    /\ IngestTxlineEvent(NormalizeTxLineEvent(payload, "live",
            FallbackFixture(market.fixtureId), fallbackSeq'))
    /\ UNCHANGED <<open, fetched>>

\* Slip: the counter follows every payload, those without a sequence as well.
IngestPayloadFollowing(s, payload) ==
    /\ s \in open
    /\ txline.stream[s] = "live"
    /\ fallbackSeq < MaxSeq
    /\ IngestTxlineEvent(NormalizeTxLineEvent(payload, "live",
            FallbackFixture(market.fixtureId), fallbackSeq + 1))
    /\ fallbackSeq' = payload.seq
    /\ UNCHANGED <<open, fetched>>

IngestPayload(s, payload) ==
    /\ s \in open
    /\ txline.stream[s] = "live"
    /\ fallbackSeq < MaxSeq
    /\ LET next == fallbackSeq + 1
           event == NormalizeTxLineEvent(payload, "live",
                        FallbackFixture(market.fixtureId), next)
       IN  /\ IngestTxlineEvent(event)
           /\ fallbackSeq' = IF event.seq >= next THEN event.seq ELSE next
    /\ UNCHANGED <<open, fetched>>

\* toReplayEvent: the captured-payload panel, in either mode.
ReplaySample(sample) ==
    /\ market.materialSeq < MaxSeq
    /\ IngestTxlineEvent(NormalizeTxLineEvent(sample, "captured",
            market.fixtureId, market.materialSeq + 1))
    /\ UNCHANGED hookVars

MarketMaker ==
    /\ MarketMakerActs
    /\ ReducerRepriceMarket
    /\ UNCHANGED hookVars

LiveNext ==
    \/ \E m \in Modes : SwitchMode(m)
    \/ Restart
    \/ HealthArrives
    \/ StreamReports
    \/ \E s \in Streams, payload \in Payloads : IngestPayload(s, payload)
    \/ \E sample \in Samples : ReplaySample(sample)
    \/ MarketMaker

LiveSpec == LiveInit /\ [][LiveNext]_liveVars

-----------------------------------------------------------------------------
LiveTypeOK ==
    /\ TypeOK
    /\ open \subseteq Streams
    /\ fallbackSeq \in 1 .. MaxSeq
    /\ fetched \in BOOLEAN

ActiveDataSource ==
    IF txline.lastEvent # Null THEN txline.lastEvent.source
    ELSE IF market.lastMaterialEvent # Null
         THEN market.lastMaterialEvent.source ELSE "demo"

\* "The badge can never claim live for data that didn't come from a live
\* connection" (state.ts): while it says live the terminal is in live mode, its
\* server can go live and the streams are open, and what came before a mode
\* switch or a restart no longer shows.
LiveBadgeIsHonest ==
    ActiveDataSource = "live" => mode = "live" /\ txline.liveCapable /\ open # {}

\* The status of a stream is that of a handle: none is shown as connecting, live
\* or failed after the hook has let go of it.
StatusesHaveHandles ==
    \A s \in Streams : txline.stream[s] # "disconnected" => s \in open

\* "Keep the fallback counter ahead of any real sequence we observe"
\* (useTxLineStream.ts): the next payload without a sequence gets one above all
\* that came from either stream.
FallbackStaysAhead ==
    txline.lastEvent # Null /\ txline.lastEvent.source = "live"
        => txline.lastEvent.seq <= fallbackSeq

\* evaluate.ts: a market in sync "already reflects every known event".  With the
\* counter ahead of the scores, their next sequence is behind the quote.
InSyncMeansFair == ~ IsStale(market) => market.yes = market.fairYes
=============================================================================
