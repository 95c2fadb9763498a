--------------------------- MODULE OperatorFlows ---------------------------
(***************************************************************************)
(* The server's devnet flows (lib/solana/lineguardServer.ts), behind the   *)
(* routes under app/api/solana/lineguard and the buttons of OnChainPanel,  *)
(* FreshDevnetPanel and CustomMarketDevnetInit.                            *)
(*                                                                         *)
(* A flow is one request: it reads accounts, sends transactions one after  *)
(* the other, each only when the one before it was confirmed, and answers  *)
(* with what it reads at the end, one account after the other.  Several    *)
(* requests run at once, the chain is LineGuardLegacy, and nothing undoes  *)
(* what a flow has already sent.                                           *)
(*                                                                         *)
(* A transaction may be refused, in the simulation or on the chain; may be *)
(* lost; or may land although the server gave up waiting for it (90        *)
(* seconds, or an RPC error while it waited).                              *)
(***************************************************************************)
EXTENDS LineGuardLegacy, Sequences

CONSTANTS
    Flows,           \* requests
    FlowKinds,       \* the kinds of request in a run
    Operator,        \* the configured signer
    DefaultMarket, CustomMarket,
    CanonicalCommitment,
    CustomInputs,    \* what callers describe: a definition, prices, a tolerance
    CANONICAL_INITIAL_SEQ, CANONICAL_EVENT_SEQ,
    CANONICAL_DISPLAYED_PRICE, CANONICAL_FAIR_PRICE, TOLERANCE_2C,
    FairMove,        \* 23 cents: what the sandbox event moves a custom market
    FairCap,         \* 99 cents
    STAKE_LAMPORTS, CUSTOM_STAKE_LAMPORTS, SETTLEMENT_STAKE_LAMPORTS,
    CANONICAL_FIXTURE_ID, CANONICAL_HOME_SCORE, CANONICAL_AWAY_SCORE,
    Null

VARIABLE flow

flowVars == <<flow, legacyVars>>

-----------------------------------------------------------------------------
(* The steps of a request, in the order of the code.                       *)

\* The default market of the plain routes, and one with the caller's terms.
InitializePlan == <<"read_market", "read_config", "create", "read_state">>
InitializeCustomPlan == <<"read_market", "read_config", "create">>

\* Market and config are made where they are missing, read again, and must be what
\* the caller described before the sandbox event and the order are sent.
CustomOrderPlan ==
    <<"read_market", "read_config", "create", "read_again",
      "read_vault", "vault", "ingest", "place", "evaluate", "read_state">>

\* Exactly four transactions on a market of its own, and never one for the vault.
FullDemoPlan ==
    <<"create", "ingest", "require_vault", "place", "evaluate", "read_state">>

\* A whole lifecycle: an exploit in the stale window, the repricing, one order of
\* each side, the result, and the winner's claim.
SettlementDemoPlan ==
    <<"create", "read_vault", "vault", "ingest",
      "place_exploit", "evaluate_exploit", "reprice",
      "place", "evaluate", "place_no", "evaluate_no",
      "close", "submit", "confirm", "resolve", "settle">>

\* ensureVault comes before the evaluation.
EvaluatePlan == <<"read_vault", "vault", "evaluate", "read_state">>

Plan(kind) ==
    CASE kind = "initialize" -> InitializePlan
      [] kind = "initialize-custom" -> InitializeCustomPlan
      [] kind = "ingest-event" -> <<"ingest", "read_state">>
      [] kind = "reprice" -> <<"reprice", "read_state">>
      [] kind = "place-order" -> <<"place", "read_state">>
      [] kind = "evaluate-order" -> EvaluatePlan
      [] kind = "full-demo" -> FullDemoPlan
      [] kind = "custom-order" -> CustomOrderPlan
      [] kind = "full-settlement-demo" -> SettlementDemoPlan

Reads == {"read_market", "read_config", "read_again", "read_vault",
          "require_vault", "read_state"}

\* A demo makes a market for itself, at an address drawn at random.
MarketOf(f) ==
    CASE flow[f].kind \in {"full-demo", "full-settlement-demo"} -> f
      [] flow[f].kind \in {"custom-order", "initialize-custom"} -> CustomMarket
      [] OTHER -> DefaultMarket

\* The orders of the plain routes have fixed addresses, one for each side; the
\* other flows draw theirs at random.
OrderOf(f, step) ==
    LET n == CASE step \in {"place_exploit", "evaluate_exploit"} -> "exploit"
               [] step \in {"place_no", "evaluate_no"} -> "No"
               [] OTHER -> flow[f].side
        by == IF MarketOf(f) = DefaultMarket THEN DefaultMarket ELSE f
    IN  [market |-> MarketOf(f), by |-> by, n |-> n]

StakeOf(f) ==
    CASE flow[f].kind = "custom-order" -> CUSTOM_STAKE_LAMPORTS
      [] flow[f].kind = "full-settlement-demo" -> SETTLEMENT_STAKE_LAMPORTS
      [] OTHER -> STAKE_LAMPORTS

IsCustom(f) == flow[f].kind \in {"custom-order", "initialize-custom"}

\* The server's own description, of the default market and of the demos'.
CanonicalInput ==
    [ displayed |-> CANONICAL_DISPLAYED_PRICE, fair |-> CANONICAL_DISPLAYED_PRICE,
      tolerance |-> TOLERANCE_2C, commitment |-> CanonicalCommitment ]

TermsWithSeq(input, seq) ==
    [ fixture |-> CANONICAL_FIXTURE_ID, material |-> seq, priced |-> seq,
      displayed |-> input.displayed, fair |-> input.fair,
      tolerance |-> input.tolerance, close_time |-> Zero,
      commitment |-> input.commitment ]

\* What a flow would open its market with.
TermsOf(f) ==
    TermsWithSeq(flow[f].input, IF IsCustom(f) THEN 1 ELSE CANONICAL_INITIAL_SEQ)

AtMost(a, b) == IF a < b THEN a ELSE b
AtLeast(a, b) == IF a > b THEN a ELSE b

\* The sandbox event of a custom order: one past the sequence that was read when
\* the flow started.
NewSeq(f) == AtLeast(flow[f].sawSeq + 1, 2)
NewFair(f) == AtMost(FairCap, flow[f].input.displayed + FairMove)

NoTx == [ix |-> "none"]

\* The transaction of a step; a flow that saw what it would create sends none.
CreateTx(f) ==
    IF flow[f].sawMarket /\ flow[f].sawConfig THEN NoTx
    ELSE [ix |-> IF flow[f].sawMarket THEN "attach_market_config"
                 ELSE "initialize_market_config",
          market |-> MarketOf(f), signer |-> Operator, terms |-> TermsOf(f)]

IngestTx(f) ==
    [ ix |-> "ingest_material_event", market |-> MarketOf(f), signer |-> Operator,
      seq |-> IF IsCustom(f) THEN NewSeq(f) ELSE CANONICAL_EVENT_SEQ,
      price |-> IF IsCustom(f) THEN NewFair(f) ELSE CANONICAL_FAIR_PRICE ]

PlaceTx(f, step) ==
    [ ix |-> "place_order", order |-> OrderOf(f, step), signer |-> Operator,
      side |-> CASE step = "place_exploit" -> "Yes"
                 [] step = "place_no" -> "No"
                 [] OTHER -> flow[f].side,
      stake |-> StakeOf(f) ]

MarketTx(f, ix) == [ix |-> ix, market |-> MarketOf(f), signer |-> Operator]

Tx(f, step) ==
    CASE step = "create" -> CreateTx(f)
      [] step = "vault" ->
            IF flow[f].sawVault THEN NoTx ELSE [ix |-> "initialize_vault"]
      [] step = "ingest" -> IngestTx(f)
      [] step = "reprice" ->
            [ ix |-> "reprice_market", market |-> MarketOf(f),
              signer |-> Operator, price |-> CANONICAL_FAIR_PRICE ]
      [] step \in {"place", "place_exploit", "place_no"} -> PlaceTx(f, step)
      [] step \in {"evaluate", "evaluate_exploit", "evaluate_no"} ->
            [ix |-> "evaluate_order", order |-> OrderOf(f, step)]
      [] step = "close" -> MarketTx(f, "close_market")
      [] step = "submit" ->
            [ ix |-> "submit_txline_validation", market |-> MarketOf(f),
              signer |-> Operator, fixture |-> CANONICAL_FIXTURE_ID,
              home |-> CANONICAL_HOME_SCORE, away |-> CANONICAL_AWAY_SCORE ]
      [] step = "confirm" -> MarketTx(f, "confirm_validation")
      [] step = "resolve" -> MarketTx(f, "resolve_market_from_txline")
      [] step = "settle" ->
            [ix |-> "settle_order", order |-> OrderOf(f, "place")]

-----------------------------------------------------------------------------
Idle == [stage |-> "idle"]

FlowInit == LegacyInit /\ flow = [f \in Flows |-> Idle]

Running(f) == flow[f].stage = "running"

Step(f) == Plan(flow[f].kind)[flow[f].pc]

AtStep(f) == Running(f) /\ flow[f].pc <= Len(Plan(flow[f].kind))

\* A request that is authorised and valid finds a signer, a cluster and a program
\* that the environment configures, or fails at once.
ServerConfig == {"running", "failed"}

\* What the routes let through: the caller's own terms for a custom market, a side
\* where it matters.
InputsOf(kind) ==
    IF kind \in {"custom-order", "initialize-custom"} THEN CustomInputs
    ELSE {CanonicalInput}

SidesOf(kind) ==
    IF kind \in {"place-order", "evaluate-order", "full-demo", "custom-order"}
    THEN Sides ELSE {"Yes"}

\* A request comes in.
Request(f) ==
    /\ flow[f].stage = "idle"
    /\ \E kind \in FlowKinds, stage \in ServerConfig :
          \E side \in SidesOf(kind), input \in InputsOf(kind) :
              flow' = [flow EXCEPT ![f] =
                [ stage |-> stage, kind |-> kind, pc |-> 1, side |-> side,
                  input |-> input,
                  sawMarket |-> FALSE, sawConfig |-> FALSE, sawVault |-> FALSE,
                  sawSeq |-> 0, seen |-> Null, sent |-> 0,
                  proof |-> Null, state |-> Null ]]
    /\ UNCHANGED legacyVars

\* What the server makes of an account it reads, Null when there is none.
FetchMarket(m) ==
    IF ~ Exists(market[m]) THEN Null
    ELSE [ materialSeq |-> market[m].material_seq,
           pricedAtSeq |-> market[m].priced_at_seq,
           displayed |-> market[m].displayed,
           pool |-> market[m].pool,
           resolution |-> CASE market[m].resolution = "None" -> "UNRESOLVED"
                            [] market[m].resolution = "Yes" -> "YES_WON"
                            [] market[m].resolution = "No" -> "NO_WON"
                            [] market[m].resolution = "Void" -> "VOIDED",
           marketTotalPaid |-> market[m].total_paid ]

FetchMarketConfig(m) == IF ~ Exists(config[m]) THEN Null ELSE config[m]

FetchReceipt(m) == IF ~ Exists(receipt[m]) THEN Null ELSE receipt[m]

FetchOrder(o) ==
    IF ~ Exists(order[o]) THEN Null
    ELSE [ status |-> order[o].status, verdict |-> order[o].verdict,
           stake |-> order[o].stake, edge |-> order[o].edge,
           event |-> order[o].event ]

\* The request ends without its answer: signatures so far and a reason.
Fails(f) == flow' = [flow EXCEPT ![f].stage = "failed"]

ConfigMatches(f) ==
    /\ FetchMarketConfig(MarketOf(f)) # Null
    /\ FetchMarketConfig(MarketOf(f)).commitment = flow[f].input.commitment

\* The sequence a sandbox event goes on from.
SeqSeen(m) == IF FetchMarket(m) = Null THEN 1 ELSE FetchMarket(m).materialSeq

\* Slip: the config that is there is taken for the one the caller described.
SeesAnyConfig(f) ==
    CASE Step(f) = "read_market" ->
            [flow[f] EXCEPT !.sawMarket = FetchMarket(MarketOf(f)) # Null,
                            !.sawSeq = SeqSeen(MarketOf(f))]
      [] Step(f) = "read_config" ->
            [flow[f] EXCEPT !.sawConfig = Exists(config[MarketOf(f)])]
      [] Step(f) = "read_again" -> flow[f]
      [] Step(f) \in {"read_vault", "require_vault"} ->
            [flow[f] EXCEPT !.sawVault = Exists(vault)]
      [] Step(f) = "read_state" -> [flow[f] EXCEPT !.seen = FetchMarket(MarketOf(f))]

\* What a flow knows after a read, Null when it stops there: a config that is
\* not the one the caller described, or no vault where one must be.
Sees(f) ==
    LET m == MarketOf(f)
    IN  CASE Step(f) = "read_market" ->
                [flow[f] EXCEPT !.sawMarket = FetchMarket(m) # Null,
                                !.sawSeq = SeqSeen(m)]
          [] Step(f) = "read_config" ->
                IF /\ flow[f].kind = "initialize-custom" /\ flow[f].sawMarket
                   /\ Exists(config[m]) /\ ~ ConfigMatches(f)
                THEN Null
                ELSE [flow[f] EXCEPT !.sawConfig = Exists(config[m])]
          [] Step(f) = "read_again" ->
                IF ~ ConfigMatches(f) THEN Null
                ELSE IF flow[f].sawMarket THEN flow[f]
                ELSE [flow[f] EXCEPT !.sawSeq = SeqSeen(m)]
          [] Step(f) = "read_vault" ->
                [flow[f] EXCEPT !.sawVault = Exists(vault)]
          [] Step(f) = "require_vault" ->
                IF Exists(vault) THEN flow[f] ELSE Null
          [] Step(f) = "read_state" -> [flow[f] EXCEPT !.seen = FetchMarket(m)]

\* Ends with getOnChainState, which swallows what its reads throw.
HasState(f) == flow[f].kind \in {"initialize", "ingest-event", "reprice",
                                 "place-order", "evaluate-order", "full-demo"}

Read(f) ==
    /\ AtStep(f) /\ Step(f) \in Reads
    /\ IF Sees(f) = Null THEN Fails(f)
       ELSE flow' = [flow EXCEPT ![f] = [Sees(f) EXCEPT !.pc = @ + 1]]
    /\ UNCHANGED legacyVars

\* The market cannot be read, nor what would be read after it: the answer is given
\* without them.
ReadIsSwallowed(f) ==
    /\ AtStep(f) /\ Step(f) = "read_state" /\ HasState(f)
    /\ flow' = [flow EXCEPT ![f].pc = @ + 1]
    /\ UNCHANGED legacyVars

Sending(f) == AtStep(f) /\ Step(f) \notin Reads

\* There is nothing to create: the next step.
Skip(f) ==
    /\ Sending(f) /\ Tx(f, Step(f)) = NoTx
    /\ flow' = [flow EXCEPT ![f].pc = @ + 1]
    /\ UNCHANGED legacyVars

\* The approved instruction of a stage of the full demo, and nothing else is sent.
CanonicalTx(f, stage) ==
    CASE stage = "create" ->
            [ ix |-> "initialize_market_config", market |-> f, signer |-> Operator,
              terms |-> TermsWithSeq(CanonicalInput, CANONICAL_INITIAL_SEQ) ]
      [] stage = "ingest" ->
            [ ix |-> "ingest_material_event", market |-> f, signer |-> Operator,
              seq |-> CANONICAL_EVENT_SEQ, price |-> CANONICAL_FAIR_PRICE ]
      [] stage = "place" ->
            [ ix |-> "place_order", signer |-> Operator, side |-> flow[f].side,
              order |-> [market |-> f, by |-> f, n |-> flow[f].side],
              stake |-> STAKE_LAMPORTS ]
      [] stage = "evaluate" ->
            [ ix |-> "evaluate_order",
              order |-> [market |-> f, by |-> f, n |-> flow[f].side] ]

SafetyStop(f) ==
    flow[f].kind = "full-demo" /\ Tx(f, Step(f)) # CanonicalTx(f, Step(f))

\* sendInstruction: the simulation, or the chain, refuses.
Refused(f) ==
    /\ Sending(f) /\ Tx(f, Step(f)) # NoTx
    /\ SafetyStop(f) \/ ~ Accepts(Tx(f, Step(f)))
    /\ Fails(f)
    /\ UNCHANGED legacyVars

\* It is finalized, and the flow goes on.
Confirmed(f) ==
    /\ Sending(f) /\ Tx(f, Step(f)) # NoTx /\ ~ SafetyStop(f)
    /\ Execute(Tx(f, Step(f)))
    /\ flow' = [flow EXCEPT ![f].pc = @ + 1, ![f].sent = @ + 1]

\* Slip: a transaction that was not seen in time is taken for confirmed.
LandsUnseenAndOn(f) ==
    /\ Sending(f) /\ Tx(f, Step(f)) # NoTx
    /\ Accepts(Tx(f, Step(f)))
    /\ flow' = [flow EXCEPT ![f].pc = @ + 1]
    /\ UNCHANGED legacyVars

\* confirmSignatureHttp gives up, and the transaction lands all the same.
LandsUnseen(f) ==
    /\ Sending(f) /\ Tx(f, Step(f)) # NoTx /\ ~ SafetyStop(f)
    /\ Execute(Tx(f, Step(f)))
    /\ Fails(f)

\* The RPC node fails a read or a send, the blockhash expires, or the route's time
\* is up.
Lost(f) ==
    /\ Running(f)
    /\ Fails(f)
    /\ UNCHANGED legacyVars

-----------------------------------------------------------------------------
(* The answer: what the accounts say when every step is through.           *)

EvaluatedBy(f) == OrderOf(f, "evaluate")

HasProof(f) == flow[f].kind \in {"evaluate-order", "full-demo", "custom-order"}

\* The order, read after the market was: none without a market, and none either when
\* getOnChainState cannot read it, or the config that it reads in between.
OrderReads(f) ==
    IF flow[f].seen = Null THEN {Null}
    ELSE {FetchOrder(EvaluatedBy(f))} \cup (IF HasState(f) THEN {Null} ELSE {})

\* Slip: the receipt's destination is told from the edge.
ToProofFromEdge(f, m, o) ==
    [ order |-> EvaluatedBy(f), verdict |-> o.verdict,
      destination |-> IF o.edge > flow[f].input.tolerance
                      THEN "REFUNDED_TO_TRADER" ELSE "FINALIZED_TO_VAULT",
      edge |-> o.edge, materialSeq |-> m.materialSeq, event |-> o.event ]

\* toProof: the order's fields from the order, the market's from the market.
ToProof(f, m, o) ==
    [ order |-> EvaluatedBy(f), verdict |-> o.verdict,
      destination |-> IF o.verdict = "VOIDED_REFUNDED"
                      THEN "REFUNDED_TO_TRADER" ELSE "FINALIZED_TO_VAULT",
      edge |-> o.edge, materialSeq |-> m.materialSeq, event |-> o.event ]

\* The settlement demo's own account of it: its payout is computed, not read.
SettlementProof(f) ==
    LET m == FetchMarket(MarketOf(f))
        yes == FetchOrder(EvaluatedBy(f))
        total == m.pool["Yes"] + m.pool["No"]
    IN  [ resolution |-> IF m.resolution = "NO_WON" THEN "NO_WON" ELSE "YES_WON",
          payout |-> IF m.pool["Yes"] > 0
                     THEN (yes.stake * total) \div m.pool["Yes"] ELSE 0,
          winner |-> yes.status,
          loser |-> FetchOrder(OrderOf(f, "place_no")).status,
          protectionRefunded |->
              FetchOrder(OrderOf(f, "place_exploit")).status = "VoidedRefunded",
          validationConfirmed |-> FetchReceipt(MarketOf(f)).confirmed ]

\* An order that could be read makes a proof, for which its market's config is there.
Proof(f, o) ==
    IF HasProof(f) /\ o # Null /\ FetchMarketConfig(MarketOf(f)) # Null
    THEN ToProof(f, flow[f].seen, o) ELSE Null

Answer(f) ==
    /\ Running(f) /\ flow[f].pc > Len(Plan(flow[f].kind))
    /\ \E o \in OrderReads(f) :
          flow' = [flow EXCEPT
              ![f].stage = "ok",
              ![f].state = IF HasState(f)
                           THEN [market |-> flow[f].seen, order |-> o] ELSE Null,
              ![f].proof = IF flow[f].kind = "full-settlement-demo"
                           THEN SettlementProof(f) ELSE Proof(f, o)]
    /\ UNCHANGED legacyVars

FlowStep(f) ==
    \/ Request(f)
    \/ Read(f)
    \/ ReadIsSwallowed(f)
    \/ Skip(f)
    \/ Refused(f)
    \/ Confirmed(f)
    \/ LandsUnseen(f)
    \/ Lost(f)
    \/ Answer(f)

\* Anyone may evaluate an order that waits.
Passerby ==
    /\ \E o \in Orders : EvaluateOrder(o)
    /\ UNCHANGED flow

FlowNext == (\E f \in Flows : FlowStep(f)) \/ Passerby

-----------------------------------------------------------------------------
(* The requests, and what they work with.                                  *)

FlowFields ==
    { "stage", "kind", "pc", "side", "input", "sawMarket", "sawConfig", "sawVault",
      "sawSeq", "seen", "sent", "proof", "state" }

\* What a market is described by, with prices and tolerance as clampMicros leaves them.
Inputs ==
    [displayed : Prices, fair : Prices, tolerance : Prices, commitment : Commitments]

\* A request that has come in.
IsRequest(r) ==
    /\ DOMAIN r = FlowFields
    /\ r.stage \in {"running", "ok", "failed"} /\ r.kind \in FlowKinds
    /\ r.pc \in Nat \ {0} /\ r.side \in Sides /\ r.input \in InputsOf(r.kind)
    /\ {r.sawMarket, r.sawConfig, r.sawVault} \subseteq BOOLEAN
    /\ r.sawSeq \in Nat /\ r.sent \in Nat

FlowTypeOK ==
    /\ DOMAIN flow = Flows
    /\ \A f \in Flows : flow[f] = Idle \/ IsRequest(flow[f])

\* What the server makes of an order that is there.
OrderViews ==
    [ status : {"Escrowed", "Filled", "VoidedRefunded", "Settled"},
      verdict : {"ALLOWED", "VOIDED_REFUNDED", "STALE_ALLOWED_NO_EDGE"},
      stake : Nat \ {0}, edge : Int, event : Nat ]

\* And of a market.
MarketViews ==
    [ materialSeq : Nat, pricedAtSeq : Nat, displayed : Prices, pool : [Sides -> Nat],
      resolution : {"UNRESOLVED", "YES_WON", "NO_WON", "VOIDED"},
      marketTotalPaid : Nat ]

\* The operator, the markets and the orders of the flows are accounts of the system, at
\* addresses that differ.  The demo's figures are ones that the program takes: the event
\* moves YES by more than the tolerance, and YES has won.  The tolerance goes into the
\* hashes of a commitment.  Null is neither an order nor a market.
FlowAssumption ==
    /\ FlowKinds \subseteq
          { "initialize", "initialize-custom", "ingest-event", "reprice", "place-order",
            "evaluate-order", "full-demo", "custom-order", "full-settlement-demo" }
    /\ Operator \in Users /\ {DefaultMarket, CustomMarket} \cup Flows \subseteq Markets
    /\ \A side \in Sides :
          /\ [market |-> DefaultMarket, by |-> DefaultMarket, n |-> side] \in Orders
          /\ \A f \in Flows : [market |-> CustomMarket, by |-> f, n |-> side] \in Orders
    /\ \A f \in Flows, n \in Sides \cup {"exploit"} :
          [market |-> f, by |-> f, n |-> n] \in Orders
    /\ CustomInputs \subseteq Inputs /\ CanonicalInput \in Inputs
    /\ \A a, b \in CustomInputs :
          a.commitment = b.commitment => a.tolerance = b.tolerance
    /\ DefaultMarket # CustomMarket /\ {DefaultMarket, CustomMarket} \cap Flows = {}
    /\ CANONICAL_INITIAL_SEQ \in Nat \ {0} /\ CANONICAL_EVENT_SEQ \in Nat
    /\ CANONICAL_INITIAL_SEQ < CANONICAL_EVENT_SEQ
    /\ CANONICAL_FAIR_PRICE \in Prices
    /\ CANONICAL_FAIR_PRICE - CANONICAL_DISPLAYED_PRICE > TOLERANCE_2C
    /\ CANONICAL_HOME_SCORE \in Nat /\ CANONICAL_AWAY_SCORE \in Nat
    /\ CANONICAL_HOME_SCORE > CANONICAL_AWAY_SCORE
    /\ Null \notin OrderViews /\ Null \notin MarketViews
    /\ STAKE_LAMPORTS \in Nat \ {0} /\ CUSTOM_STAKE_LAMPORTS \in Nat
    /\ SETTLEMENT_STAKE_LAMPORTS \in Nat
    /\ CANONICAL_FIXTURE_ID \in Int

-----------------------------------------------------------------------------
(* Properties.                                                             *)

Answered(f) == flow[f].stage = "ok"

ServersMarkets == {DefaultMarket, CustomMarket} \cup Flows

\* However a flow ends, between whichever steps, and whatever other requests and
\* passers-by do meanwhile: no stake of it is left in an order that nobody can
\* evaluate any more.  Trading is only closed by a flow whose own orders have all
\* been evaluated.
NoStakeIsStranded ==
    \A o \in Present :
        o.market \in ServersMarkets /\ order[o].status = "Escrowed" =>
            ~ market[o.market].trading_closed /\ market[o.market].resolution = "None"

\* The proof in an answer is about its own order, and tells where the stake went:
\* refunded means that the trader has it, finalized that the market counts it, and
\* an order that was refunded was evaluated in a stale window it had an edge in.
ProofTellsTheStake ==
    \A f \in Flows :
        (Answered(f) /\ HasProof(f) /\ flow[f].proof # Null) =>
            LET proof == flow[f].proof
                o == proof.order
            IN  /\ order[o].status \in
                      (IF proof.destination = "REFUNDED_TO_TRADER"
                       THEN {"VoidedRefunded"} ELSE {"Filled", "Settled"})
                /\ order[o].lamports = 0
                /\ proof.destination = "REFUNDED_TO_TRADER" =>
                      proof.edge > market[o.market].tolerance /\ proof.event > 0
                /\ proof.event <= proof.materialSeq

\* A plain answer that is ok shows, as far as the accounts could be read, what its own
\* transaction did: the market has the event, or the new price; the order is the one
\* that was placed, or has been evaluated.  Others' requests run meanwhile, also
\* between the reads.
AnswerShowsItsEffect ==
    \A f \in Flows :
        (Answered(f) /\ HasState(f)) =>
            LET m == flow[f].state.market
                o == flow[f].state.order
            IN  /\ m # Null =>
                      /\ flow[f].kind = "ingest-event" =>
                            m.materialSeq >= CANONICAL_EVENT_SEQ
                      /\ flow[f].kind = "reprice" =>
                            m.displayed = CANONICAL_FAIR_PRICE
                /\ o # Null =>
                      /\ flow[f].kind = "place-order" => o.stake = STAKE_LAMPORTS
                      /\ flow[f].kind \in {"evaluate-order", "full-demo"} =>
                            o.status \in {"Filled", "VoidedRefunded"}

\* A custom order is only placed on a market whose config is the one its caller
\* described, and which guards the order with the tolerance its caller gave, whoever
\* opened the market and however they described it.
CustomMarketIsAsDescribed ==
    \A f \in Flows :
        /\ flow[f].stage # "idle"
        /\ flow[f].kind = "custom-order"
        /\ Exists(order[OrderOf(f, "place")])
        => /\ config[CustomMarket].commitment = flow[f].input.commitment
           /\ market[CustomMarket].tolerance = flow[f].input.tolerance

\* The full settlement demo, when it says ok: the exploit was refunded, YES has
\* been paid exactly what the demo computes, and the market owes nothing.
SettlementDemoSettles ==
    \A f \in Flows :
        (Answered(f) /\ flow[f].kind = "full-settlement-demo") =>
            LET proof == flow[f].proof
                m == market[MarketOf(f)]
            IN  /\ proof.protectionRefunded /\ proof.validationConfirmed
                /\ proof.winner = "Settled" /\ proof.loser = "Filled"
                /\ m.resolution = "Yes" /\ proof.resolution = "YES_WON"
                /\ proof.payout = m.total_paid
                /\ m.total_in = 2 * SETTLEMENT_STAKE_LAMPORTS
                /\ PaidOut(MarketOf(f)) = m.total_in

\* Of the server's markets, which nobody else but passers-by uses: no stake of a flow is
\* stranded, proofs tell where the stake went, answers show their effect, custom
\* orders are placed as described, a settlement demo settles.
ServerFlowsAreSound ==
    /\ NoStakeIsStranded
    /\ ProofTellsTheStake
    /\ AnswerShowsItsEffect
    /\ CustomMarketIsAsDescribed
    /\ SettlementDemoSettles
=============================================================================
