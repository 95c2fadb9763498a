---------------------- MODULE LineGuardProgramsProofs ----------------------
(***************************************************************************)
(* Proofs about the LineGuard program under all of its users at once: any  *)
(* number of requests, traders and clicks, any stakes and any constants    *)
(* that the assumptions allow.                                             *)
(*                                                                         *)
(* What a user does to the program is a step of the program, LegacyStep or *)
(* MarketStep: the transactions of the flows, the ticket and the scripts   *)
(* name accounts of the system and have arguments of the program's types.  *)
(* That is all the program's books ask of them, and so LegacyInv and V2Inv *)
(* hold, next to what each user knows of itself.                           *)
(***************************************************************************)
EXTENDS LineGuardPrograms, LineGuardLegacyProofs, LineGuardV2Proofs

(***************************************************************************)
(* The server's flows.                                                     *)
(***************************************************************************)

\* The transactions that the plans send, one step each.
SendingSteps ==
    { "create", "vault", "ingest", "reprice", "place", "place_exploit", "place_no",
      "evaluate", "evaluate_exploit", "evaluate_no", "close", "submit", "confirm",
      "resolve", "settle" }

\* The steps of the plans, and the only plan with an exploit.
LEMMA StepsOfPlans ==
    ASSUME NEW kind \in { "initialize", "initialize-custom", "ingest-event", "reprice",
                          "place-order", "evaluate-order", "full-demo", "custom-order",
                          "full-settlement-demo" },
           NEW i \in Nat \ {0}, i <= Len(Plan(kind))
    PROVE  /\ Plan(kind)[i] \in Reads \cup SendingSteps
           /\ Plan(kind)[i] \in {"place_exploit", "evaluate_exploit"} =>
                 kind = "full-settlement-demo"
<1> USE DEF Reads, SendingSteps
<1>0. CASE kind = "initialize"
  <2>1. Plan(kind) = <<"read_market", "read_config", "create", "read_state">>
      BY <1>0 DEF Plan, InitializePlan
  <2>2. Len(Plan(kind)) = 4
      BY <2>1
  <2> QED  BY <1>0, <2>1, <2>2
<1>1. CASE kind = "initialize-custom"
  <2>1. Plan(kind) = <<"read_market", "read_config", "create">>
      BY <1>1 DEF Plan, InitializeCustomPlan
  <2>2. Len(Plan(kind)) = 3
      BY <2>1
  <2> QED  BY <1>1, <2>1, <2>2
<1>2. CASE kind = "ingest-event"
  <2>1. Plan(kind) = <<"ingest", "read_state">>
      BY <1>2 DEF Plan
  <2>2. Len(Plan(kind)) = 2
      BY <2>1
  <2> QED  BY <1>2, <2>1, <2>2
<1>3. CASE kind = "reprice"
  <2>1. Plan(kind) = <<"reprice", "read_state">>
      BY <1>3 DEF Plan
  <2>2. Len(Plan(kind)) = 2
      BY <2>1
  <2> QED  BY <1>3, <2>1, <2>2
<1>4. CASE kind = "place-order"
  <2>1. Plan(kind) = <<"place", "read_state">>
      BY <1>4 DEF Plan
  <2>2. Len(Plan(kind)) = 2
      BY <2>1
  <2> QED  BY <1>4, <2>1, <2>2
<1>5. CASE kind = "evaluate-order"
  <2>1. Plan(kind) = <<"read_vault", "vault", "evaluate", "read_state">>
      BY <1>5 DEF Plan, EvaluatePlan
  <2>2. Len(Plan(kind)) = 4
      BY <2>1
  <2> QED  BY <1>5, <2>1, <2>2
<1>6. CASE kind = "full-demo"
  <2>1. Plan(kind) =
            <<"create", "ingest", "require_vault", "place", "evaluate", "read_state">>
      BY <1>6 DEF Plan, FullDemoPlan
  <2>2. Len(Plan(kind)) = 6
      BY <2>1
  <2> QED  BY <1>6, <2>1, <2>2
<1>7. CASE kind = "custom-order"
  <2>1. Plan(kind) = <<"read_market", "read_config", "create", "read_again",
                       "read_vault", "vault", "ingest", "place", "evaluate", "read_state">>
      BY <1>7 DEF Plan, CustomOrderPlan
  <2>2. Len(Plan(kind)) = 10
      BY <2>1
  <2> QED  BY <1>7, <2>1, <2>2
<1>8. CASE kind = "full-settlement-demo"
  <2>1. Plan(kind) = 
            <<"create", "read_vault", "vault", "ingest",
              "place_exploit", "evaluate_exploit", "reprice",
              "place", "evaluate", "place_no", "evaluate_no",
              "close", "submit", "confirm", "resolve", "settle">>
      BY <1>8 DEF Plan, SettlementDemoPlan
  <2>2. Len(Plan(kind)) = 16
      BY <2>1
  <2> QED  BY <1>8, <2>1, <2>2
<1> QED  BY <1>0, <1>1, <1>2, <1>3, <1>4, <1>5, <1>6, <1>7, <1>8

\* The step that a flow is at.
LEMMA StepOfFlow ==
    ASSUME FlowAssumption, FlowTypeOK, NEW f \in Flows, AtStep(f)
    PROVE  /\ Step(f) \in Reads \cup SendingSteps
           /\ Step(f) \in {"place_exploit", "evaluate_exploit"} =>
                 flow[f].kind = "full-settlement-demo"
<1>1. IsRequest(flow[f])
    BY DEF AtStep, Running, FlowTypeOK, Idle
<1>2. flow[f].kind \in FlowKinds /\ flow[f].pc \in Nat \ {0}
    BY <1>1 DEF IsRequest
<1>3. flow[f].kind \in { "initialize", "initialize-custom", "ingest-event", "reprice",
                         "place-order", "evaluate-order", "full-demo", "custom-order",
                         "full-settlement-demo" }
    BY <1>2 DEF FlowAssumption
<1>4. flow[f].pc <= Len(Plan(flow[f].kind)) /\ Step(f) = Plan(flow[f].kind)[flow[f].pc]
    BY DEF AtStep, Step
<1> QED  BY <1>2, <1>3, <1>4, StepsOfPlans

\* A caller describes a market in the types of the program.
LEMMA RequestInput ==
    ASSUME FlowAssumption, NEW f \in Flows, IsRequest(flow[f])
    PROVE  /\ flow[f].input \in Inputs
           /\ IsCustom(f) => flow[f].input \in CustomInputs
           /\ ~ IsCustom(f) => flow[f].input = CanonicalInput
           /\ flow[f].side \in Sides
<1>1. flow[f].input \in InputsOf(flow[f].kind)
    BY DEF IsRequest
<1>2. CustomInputs \subseteq Inputs /\ CanonicalInput \in Inputs
    BY DEF FlowAssumption
<1>3. flow[f].side \in Sides
    BY DEF IsRequest
<1> QED  BY <1>1, <1>2, <1>3 DEF InputsOf, IsCustom

\* And a market is opened in them.
LEMMA TermsTyped ==
    ASSUME FlowAssumption, NEW input \in Inputs, NEW seq \in Nat
    PROVE  TermsWithSeq(input, seq) \in MarketTerms
BY DEF TermsWithSeq, Inputs, MarketTerms, FlowAssumption, Prices, Zero

\* The accounts that a flow names.
LEMMA FlowNamesAccounts ==
    ASSUME FlowAssumption, NEW f \in Flows, IsRequest(flow[f])
    PROVE  /\ MarketOf(f) \in Markets /\ Operator \in Users
           /\ \A step : step \notin {"place_exploit", "evaluate_exploit"} =>
                 OrderOf(f, step) \in Orders
           /\ flow[f].kind = "full-settlement-demo" =>
                 \A step : OrderOf(f, step) \in Orders
           /\ TermsOf(f) \in MarketTerms
           /\ StakeOf(f) \in Nat
           /\ flow[f].kind = "full-demo" => MarketOf(f) = f
<1>1. /\ flow[f].side \in Sides /\ "No" \in Sides /\ flow[f].input \in Inputs
    BY RequestInput DEF Sides
<1>2. MarketOf(f) \in {f, CustomMarket, DefaultMarket}
    BY DEF MarketOf
<1>3. ASSUME NEW n \in Sides
      PROVE  [market |-> MarketOf(f),
              by |-> IF MarketOf(f) = DefaultMarket THEN DefaultMarket ELSE f,
              n |-> n] \in Orders
    BY <1>2 DEF FlowAssumption
<1>4. flow[f].kind = "full-settlement-demo" =>
          [market |-> MarketOf(f),
           by |-> IF MarketOf(f) = DefaultMarket THEN DefaultMarket ELSE f,
           n |-> "exploit"] \in Orders
    BY DEF FlowAssumption, MarketOf
<1>5. ASSUME NEW step, step \notin {"place_exploit", "evaluate_exploit"}
      PROVE  OrderOf(f, step) \in Orders
    BY <1>1, <1>3, <1>5 DEF OrderOf
<1>6. ASSUME NEW step, flow[f].kind = "full-settlement-demo"
      PROVE  OrderOf(f, step) \in Orders
    BY <1>4, <1>5, <1>6 DEF OrderOf
<1>7. /\ MarketOf(f) \in Markets /\ Operator \in Users
      /\ StakeOf(f) \in Nat
    BY <1>2 DEF FlowAssumption, StakeOf
<1>8. TermsOf(f) \in MarketTerms
  <2>1. 1 \in Nat /\ CANONICAL_INITIAL_SEQ \in Nat
      BY DEF FlowAssumption
  <2> QED  BY <1>1, <2>1, TermsTyped DEF TermsOf
<1>9. flow[f].kind = "full-demo" => MarketOf(f) = f
    BY DEF MarketOf
<1> QED  BY <1>5, <1>6, <1>7, <1>8, <1>9

\* Whatever a flow sends is a transaction of the program's types, between accounts of
\* the system.
LEMMA FlowsSendTyped ==
    ASSUME FlowAssumption, FlowTypeOK, NEW f \in Flows, Sending(f)
    PROVE  TypedTransaction(Tx(f, Step(f)))
<1> DEFINE step == Step(f)
           t == Tx(f, step)
<1>1. /\ IsRequest(flow[f]) /\ AtStep(f) /\ step \notin Reads
    BY DEF Sending, AtStep, Running, FlowTypeOK, Idle
<1>2. /\ step \in SendingSteps
      /\ step \in {"place_exploit", "evaluate_exploit"} =>
                 flow[f].kind = "full-settlement-demo"
    BY <1>1, StepOfFlow
<1>3. /\ MarketOf(f) \in Markets /\ Operator \in Users
      /\ OrderOf(f, step) \in Orders /\ OrderOf(f, "place") \in Orders
      /\ TermsOf(f) \in MarketTerms /\ StakeOf(f) \in Nat
  <2> HIDE DEF step
  <2> QED  BY <1>1, <1>2, FlowNamesAccounts
<1>4. flow[f].side \in Sides /\ flow[f].sawSeq \in Nat
    BY <1>1 DEF IsRequest
<1> SUFFICES TypedTransaction(t)
    OBVIOUS
<1> HIDE DEF step
<1> USE DEF TypedTransaction, ByMarketInstructions, ByOrderInstructions
<1>5. CASE step = "create"
  <2>1. t \in { NoTx,
                [ix |-> "attach_market_config", market |-> MarketOf(f),
                 signer |-> Operator, terms |-> TermsOf(f)],
                [ix |-> "initialize_market_config", market |-> MarketOf(f),
                 signer |-> Operator, terms |-> TermsOf(f)] }
      BY <1>5 DEF Tx, CreateTx
  <2> HIDE DEF t
  <2> QED  BY <1>3, <2>1 DEF NoTx, t
<1>6. CASE step = "vault"
  <2>1. t \in {NoTx, [ix |-> "initialize_vault"]}
      BY <1>6 DEF Tx
  <2> HIDE DEF t
  <2> QED  BY <2>1 DEF NoTx, t
<1>7. CASE step = "ingest"
  <2>1. NewSeq(f) \in Nat /\ CANONICAL_EVENT_SEQ \in Nat
      BY <1>4 DEF NewSeq, AtLeast, FlowAssumption
  <2>2. t = IngestTx(f)
      BY <1>7 DEF Tx
  <2> QED  BY <1>3, <2>1, <2>2 DEF IngestTx
<1>8. CASE step = "reprice"
  <2>1. t = [ix |-> "reprice_market", market |-> MarketOf(f), signer |-> Operator,
             price |-> CANONICAL_FAIR_PRICE]
      BY <1>8 DEF Tx
  <2> QED  BY <1>3, <2>1
<1>9. CASE step \in {"place", "place_exploit", "place_no"}
  <2>1. t = PlaceTx(f, step)
      BY <1>9 DEF Tx
  <2>2. PlaceTx(f, step).side \in Sides
      BY <1>4, <1>9 DEF PlaceTx, Sides
  <2> QED  BY <1>3, <2>1, <2>2 DEF PlaceTx
<1>10. CASE step \in {"evaluate", "evaluate_exploit", "evaluate_no"}
  <2>1. t = [ix |-> "evaluate_order", order |-> OrderOf(f, step)]
      BY <1>10 DEF Tx
  <2> QED  BY <1>3, <2>1
<1>11. CASE step = "submit"
  <2>1. t = [ ix |-> "submit_txline_validation", market |-> MarketOf(f),
              signer |-> Operator, fixture |-> CANONICAL_FIXTURE_ID,
              home |-> CANONICAL_HOME_SCORE, away |-> CANONICAL_AWAY_SCORE ]
      BY <1>11 DEF Tx
  <2> QED  BY <1>3, <2>1
<1>12. CASE step = "settle"
  <2>1. t = [ix |-> "settle_order", order |-> OrderOf(f, "place")]
      BY <1>12 DEF Tx
  <2> QED  BY <1>3, <2>1
<1>13. CASE step \in {"close", "confirm", "resolve"}
  <2>1. t \in { MarketTx(f, "close_market"), MarketTx(f, "confirm_validation"),
                MarketTx(f, "resolve_market_from_txline") }
      BY <1>13 DEF Tx
  <2> HIDE DEF t
  <2> QED  BY <1>3, <2>1 DEF MarketTx, t
<1> QED
    BY <1>2, <1>5, <1>6, <1>7, <1>8, <1>9, <1>10, <1>11, <1>12, <1>13 DEF SendingSteps

\* A request that changes and stays a request.
LEMMA RequestChanges ==
    ASSUME FlowTypeOK, NEW f \in Flows, NEW r, IsRequest(r),
           flow' = [flow EXCEPT ![f] = r]
    PROVE  FlowTypeOK'
BY DEF FlowTypeOK

\* What a flow knows after a read is typed.
LEMMA SeesTyped ==
    ASSUME FlowAssumption, LegacyTypeOK, NEW f \in Flows, IsRequest(flow[f]),
           Step(f) \in Reads, Sees(f) # Null
    PROVE  IsRequest([Sees(f) EXCEPT !.pc = @ + 1])
<1> DEFINE m == MarketOf(f)
           r == flow[f]
<1>1. m \in Markets
    BY FlowNamesAccounts
<1>2. SeqSeen(m) \in Nat
  <2>1. Exists(market[m]) => market[m].material_seq \in Nat
      BY <1>1 DEF LegacyTypeOK, MarketAccount, Exists
  <2>2. Exists(market[m]) => FetchMarket(m).materialSeq = market[m].material_seq
      BY DEF FetchMarket
  <2>3. ~ Exists(market[m]) => FetchMarket(m) = Null
      BY DEF FetchMarket
  <2> QED  BY <2>1, <2>2, <2>3 DEF SeqSeen
<1> DEFINE seq == SeqSeen(m)
           there == FetchMarket(m) # Null
           agreed == Exists(config[m])
           paid == Exists(vault)
           seen == FetchMarket(m)
<1>3. Sees(f) \in { r, [r EXCEPT !.sawMarket = there, !.sawSeq = seq],
                    [r EXCEPT !.sawConfig = agreed], [r EXCEPT !.sawSeq = seq],
                    [r EXCEPT !.sawVault = paid], [r EXCEPT !.seen = seen] }
  <2>1. CASE Step(f) = "read_market"
      BY <2>1, Zenon DEF Sees
  <2>2. CASE Step(f) = "read_config"
      BY <2>2, Zenon DEF Sees
  <2>3. CASE Step(f) = "read_again"
      BY <2>3, Zenon DEF Sees
  <2>4. CASE Step(f) = "read_vault"
      BY <2>4, Zenon DEF Sees
  <2>5. CASE Step(f) = "require_vault"
      BY <2>5, Zenon DEF Sees
  <2>6. CASE Step(f) = "read_state"
      BY <2>6, Zenon DEF Sees
  <2> QED  BY <2>1, <2>2, <2>3, <2>4, <2>5, <2>6 DEF Reads
<1>4. seq \in Nat /\ there \in BOOLEAN /\ agreed \in BOOLEAN /\ paid \in BOOLEAN
    BY <1>2 DEF Exists
<1> DEFINE s == Sees(f)
<1> HIDE DEF m, seq, there, agreed, paid, seen, s
<1>5. IsRequest(s)
  <2> USE DEF IsRequest, FlowFields
  <2>1. CASE s = r
      BY <2>1
  <2>2. CASE s = [r EXCEPT !.sawMarket = there, !.sawSeq = seq]
      BY <1>4, <2>2
  <2>3. CASE s = [r EXCEPT !.sawConfig = agreed]
      BY <1>4, <2>3
  <2>4. CASE s = [r EXCEPT !.sawSeq = seq]
      BY <1>4, <2>4
  <2>5. CASE s = [r EXCEPT !.sawVault = paid]
      BY <1>4, <2>5
  <2>6. CASE s = [r EXCEPT !.seen = seen]
      BY <1>4, <2>6
  <2> QED  BY <1>3, <2>1, <2>2, <2>3, <2>4, <2>5, <2>6 DEF s
<1>6. IsRequest([s EXCEPT !.pc = @ + 1])
    BY <1>5 DEF IsRequest, FlowFields
<1> QED  BY <1>6 DEF s

\* A flow's step leaves every request one.
LEMMA FlowStepKeeps ==
    ASSUME FlowAssumption, LegacyTypeOK, FlowTypeOK, NEW f \in Flows, FlowStep(f)
    PROVE  FlowTypeOK'
<1> DEFINE r == flow[f]
<1>1. Running(f) => IsRequest(r)
    BY DEF Running, FlowTypeOK, Idle
<1>2. CASE Request(f)
  <2>0. PICK kind \in FlowKinds, stage \in ServerConfig :
            \E side \in SidesOf(kind), input \in InputsOf(kind) :
                flow' = [flow EXCEPT ![f] =
                [ stage |-> stage, kind |-> kind, pc |-> 1, side |-> side,
                  input |-> input,
                  sawMarket |-> FALSE, sawConfig |-> FALSE, sawVault |-> FALSE,
                  sawSeq |-> 0, seen |-> Null, sent |-> 0,
                  proof |-> Null, state |-> Null ]]
      BY <1>2 DEF Request
  <2>1. PICK side \in SidesOf(kind), input \in InputsOf(kind) :
                flow' = [flow EXCEPT ![f] =
                [ stage |-> stage, kind |-> kind, pc |-> 1, side |-> side,
                  input |-> input,
                  sawMarket |-> FALSE, sawConfig |-> FALSE, sawVault |-> FALSE,
                  sawSeq |-> 0, seen |-> Null, sent |-> 0,
                  proof |-> Null, state |-> Null ]]
      BY <2>0
  <2>2. side \in Sides
      BY DEF SidesOf, Sides
  <2> DEFINE n == [ stage |-> stage, kind |-> kind, pc |-> 1, side |-> side,
                  input |-> input,
                  sawMarket |-> FALSE, sawConfig |-> FALSE, sawVault |-> FALSE,
                  sawSeq |-> 0, seen |-> Null, sent |-> 0,
                  proof |-> Null, state |-> Null ]
  <2>3. IsRequest(n)
      BY <2>2 DEF IsRequest, FlowFields, ServerConfig
  <2> HIDE DEF n
  <2> QED  BY <2>1, <2>3, RequestChanges DEF n
<1>3. CASE Read(f) /\ Sees(f) # Null
  <2>1. /\ IsRequest(r) /\ Step(f) \in Reads
        /\ flow' = [flow EXCEPT ![f] = [Sees(f) EXCEPT !.pc = @ + 1]]
      BY <1>1, <1>3 DEF Read, AtStep
  <2> QED  BY <1>3, <2>1, SeesTyped, RequestChanges
<1>4. CASE Running(f) /\ Fails(f)
  <2>1. /\ IsRequest([r EXCEPT !.stage = "failed"])
        /\ flow' = [flow EXCEPT ![f] = [r EXCEPT !.stage = "failed"]]
      BY <1>1, <1>4 DEF IsRequest, FlowFields, Fails
  <2> QED  BY <2>1, RequestChanges
<1>5. CASE Skip(f) \/ ReadIsSwallowed(f)
  <2>1. /\ IsRequest([r EXCEPT !.pc = @ + 1])
        /\ flow' = [flow EXCEPT ![f] = [r EXCEPT !.pc = @ + 1]]
      BY <1>1, <1>5 DEF IsRequest, FlowFields, Skip, ReadIsSwallowed, Sending, AtStep
  <2> QED  BY <2>1, RequestChanges
<1>6. CASE Confirmed(f)
  <2>1. IsRequest(r) /\ flow' = [flow EXCEPT ![f].pc = @ + 1, ![f].sent = @ + 1]
      BY <1>1, <1>6 DEF Confirmed, Sending, AtStep
  <2> DEFINE pc == r.pc + 1
             sent == r.sent + 1
  <2>2. pc \in Nat \ {0} /\ sent \in Nat
      BY <2>1 DEF IsRequest
  <2>4. f \in DOMAIN flow /\ {"pc", "sent"} \subseteq DOMAIN r
      BY <2>1 DEF FlowTypeOK, IsRequest, FlowFields
  <2>5. flow' = [flow EXCEPT ![f] = [r EXCEPT !.pc = pc, !.sent = sent]]
      BY <2>1, <2>4
  <2> HIDE DEF pc, sent
  <2>3. IsRequest([r EXCEPT !.pc = pc, !.sent = sent])
      BY <2>1, <2>2 DEF IsRequest, FlowFields
  <2> QED  BY <2>3, <2>5, RequestChanges
<1>7. CASE Answer(f)
  <2>1. PICK state, proof :
            flow' = [flow EXCEPT ![f].stage = "ok", ![f].state = state,
                                 ![f].proof = proof]
      BY <1>7, Zenon DEF Answer
  <2>2. IsRequest(r) /\ f \in DOMAIN flow
      BY <1>1, <1>7 DEF FlowTypeOK, Answer
  <2>3. IsRequest([r EXCEPT !.stage = "ok", !.state = state, !.proof = proof])
      BY <2>2 DEF IsRequest, FlowFields
  <2>4. {"stage", "state", "proof"} \subseteq DOMAIN r
      BY <2>2 DEF IsRequest, FlowFields
  <2>5. flow' = [flow EXCEPT ![f] = [r EXCEPT !.stage = "ok", !.state = state,
                                             !.proof = proof]]
      BY <2>1, <2>2, <2>4
  <2> QED  BY <2>3, <2>5, RequestChanges
<1>8. \/ Request(f)
      \/ Read(f) /\ Sees(f) # Null
      \/ Running(f) /\ Fails(f)
      \/ Skip(f) \/ ReadIsSwallowed(f) \/ Confirmed(f) \/ Answer(f)
    BY DEF FlowStep, Read, Refused, LandsUnseen, Lost, Sending, AtStep
<1> QED  BY <1>2, <1>3, <1>4, <1>5, <1>6, <1>7, <1>8

\* Of the first generation, the traders and the flows take the program's steps, and no
\* others.
LEMMA FirstIsLegacyStep ==
    ASSUME ProgramsAssumption, FlowTypeOK, FirstStep
    PROVE  LegacyStep
<1>1. CASE TradersStep
    BY <1>1 DEF TradersStep, LegacyStep, ProgramsAssumption
<1>2. CASE \E o \in Orders : EvaluateOrder(o)
  <2>1. PICK o \in Orders : EvaluateOrder(o)
      BY <1>2
  <2> DEFINE t == [ix |-> "evaluate_order", order |-> o]
  <2>2. TypedTransaction(t) /\ Execute(t)
      BY <2>1 DEF TypedTransaction, Execute, ByMarketInstructions, ByOrderInstructions
  <2> QED  BY <2>2 DEF LegacyStep
<1>3. ASSUME NEW f \in Flows, FlowStep(f)
      PROVE  LegacyStep
  <2>1. CASE Sending(f) /\ Execute(Tx(f, Step(f)))
      BY <2>1, FlowsSendTyped DEF LegacyStep, ProgramsAssumption
  <2>2. CASE UNCHANGED legacyVars
      BY <2>2 DEF LegacyStep
  <2> QED  BY <1>3, <2>1, <2>2
           DEF FlowStep, Request, Read, ReadIsSwallowed, Skip, Refused, Confirmed,
               LandsUnseen, Lost, Answer
<1> QED  BY <1>1, <1>2, <1>3 DEF FirstStep, FlowNext, Passerby

(***************************************************************************)
(* Where they start.                                                       *)
(***************************************************************************)
EarlierOrder ==
    [ trader |-> Operator, side |-> "Yes", stake |-> STAKE_LAMPORTS,
      observed |-> CANONICAL_DISPLAYED_PRICE, edge |-> 0,
      status |-> "Escrowed", verdict |-> "ALLOWED",
      event |-> Zero, lamports |-> STAKE_LAMPORTS ]

EarlierMarket ==
    [NewMarket(Operator, DefaultTerms)
        EXCEPT !.material_seq = CANONICAL_EVENT_SEQ, !.status = "Stale",
               !.source_event = CANONICAL_EVENT_SEQ, !.fair = CANONICAL_FAIR_PRICE]

\* The accounts that earlier requests left are accounts of the program.
LEMMA EarlierIsTyped ==
    ASSUME ProgramsAssumption
    PROVE  /\ EarlierOrder \in OrderAccount /\ OrderLeftWaiting \in Orders
           /\ EarlierMarket \in MarketAccount
           /\ StatusTells(EarlierMarket)
           /\ EarlierMarket.resolution = "None" /\ EarlierMarket.total_in = 0
           /\ EarlierMarket.total_paid = 0 /\ EarlierMarket.total_refunded = 0
           /\ EarlierMarket.pool = [s \in Sides |-> 0]
           /\ Operator \in Users /\ DefaultMarket \in Markets
           /\ CanonicalCommitment \in Commitments
           /\ STAKE_LAMPORTS \in Nat \ {0}
<1>1. FlowAssumption /\ MICROS_ONE \in Nat
    BY DEF ProgramsAssumption, LegacyAssumption
<1>2. /\ Operator \in Users /\ DefaultMarket \in Markets
      /\ CanonicalCommitment \in Commitments
      /\ CANONICAL_INITIAL_SEQ \in Nat /\ CANONICAL_EVENT_SEQ \in Nat
      /\ CANONICAL_INITIAL_SEQ < CANONICAL_EVENT_SEQ
      /\ CANONICAL_DISPLAYED_PRICE \in Prices /\ CANONICAL_FAIR_PRICE \in Prices
      /\ TOLERANCE_2C \in Prices
      /\ STAKE_LAMPORTS \in Nat \ {0} /\ CANONICAL_FIXTURE_ID \in Int
    BY <1>1 DEF FlowAssumption, CanonicalInput, Inputs
<1>3. OrderLeftWaiting \in Orders
    BY <1>1 DEF FlowAssumption, OrderLeftWaiting, Sides
<1>4. EarlierOrder \in OrderAccount
    BY <1>2 DEF EarlierOrder, OrderAccount, Sides, Zero
<1> DEFINE n == NewMarket(Operator, DefaultTerms)
<1>5. /\ n \in MarketAccount
      /\ n.priced_at_seq = CANONICAL_INITIAL_SEQ
      /\ n.resolution = "None" /\ n.total_in = 0
      /\ n.total_paid = 0 /\ n.total_refunded = 0
      /\ n.pool = [s \in Sides |-> 0]
  <2> DEFINE pool == [s \in Sides |-> 0]
  <2>1. pool \in [Sides -> Nat]
      OBVIOUS
  <2> HIDE DEF pool
  <2> QED  BY <1>2, <2>1 DEF NewMarket, DefaultTerms, TermsWithSeq, CanonicalInput,
                             MarketAccount, Zero, pool
<1>6. EarlierMarket = [n EXCEPT !.material_seq = CANONICAL_EVENT_SEQ,
                                !.status = "Stale",
                                !.source_event = CANONICAL_EVENT_SEQ,
                                !.fair = CANONICAL_FAIR_PRICE]
    BY DEF EarlierMarket
<1> HIDE DEF n
<1>7. /\ EarlierMarket \in MarketAccount
      /\ EarlierMarket.material_seq = CANONICAL_EVENT_SEQ
      /\ EarlierMarket.priced_at_seq = CANONICAL_INITIAL_SEQ
      /\ EarlierMarket.status = "Stale"
      /\ EarlierMarket.resolution = "None" /\ EarlierMarket.total_in = 0
      /\ EarlierMarket.total_paid = 0 /\ EarlierMarket.total_refunded = 0
      /\ EarlierMarket.pool = [s \in Sides |-> 0]
    BY <1>2, <1>5, <1>6 DEF MarketAccount
<1> QED  BY <1>2, <1>3, <1>4, <1>7 DEF StatusTells

\* The books are in order where earlier requests left the program: the stake that
\* waits is what the operator is out of pocket.
LEMMA EarlierStarts ==
    ASSUME ProgramsAssumption, EarlierRequests
    PROVE  LegacyInv
<1> DEFINE none == [o \in Orders |-> NoAccount]
           w == OrderLeftWaiting
           x == EarlierOrder
           a == EarlierMarket
           zero == [u \in Users |-> 0]
           stake == STAKE_LAMPORTS
<1>1. /\ x \in OrderAccount /\ w \in Orders /\ a \in MarketAccount
      /\ StatusTells(a) /\ a.resolution = "None" /\ a.total_in = 0
      /\ a.total_paid = 0 /\ a.total_refunded = 0 /\ a.pool = [s \in Sides |-> 0]
      /\ Operator \in Users /\ DefaultMarket \in Markets
      /\ CanonicalCommitment \in Commitments /\ stake \in Nat \ {0}
    BY EarlierIsTyped
<1>2. /\ x.lamports = stake /\ x.status = "Escrowed" /\ x.stake = stake
      /\ w.market = DefaultMarket
    BY DEF EarlierOrder, OrderLeftWaiting
<1>3. /\ order = [none EXCEPT ![w] = x]
      /\ market = [m \in Markets |-> IF m # DefaultMarket THEN NoAccount ELSE a]
      /\ vault = [total_finalized |-> 0, fill_count |-> 0, lamports |-> 0]
      /\ receipt = [m \in Markets |-> NoAccount] /\ now = 0
      /\ config = [m \in Markets |->
                      IF m # DefaultMarket THEN NoAccount
                      ELSE [authority |-> Operator, commitment |-> CanonicalCommitment]]
      /\ spent = [u \in Users |-> IF u = Operator THEN stake ELSE 0]
  <2>1. order = [o \in Orders |-> IF o # w THEN NoAccount ELSE x]
      BY DEF EarlierRequests, EarlierOrder
  <2> HIDE DEF x, w
  <2> QED  BY <2>1, <1>1 DEF EarlierRequests, EarlierMarket, x, w
<1>4. LegacyAssumption
    BY DEF ProgramsAssumption
<1> HIDE DEF x, a, w, stake
<1>5. Exists(x) /\ Exists(a) /\ Exists(vault)
    BY <1>1, <1>3, <1>4 DEF Exists, LegacyAssumption, VaultAccount
<1>6. LegacyTypeOK
  <2>1. order \in [Orders -> OrderAccount \cup {NoAccount}]
      BY <1>1, <1>3
  <2>2. market \in [Markets -> MarketAccount \cup {NoAccount}]
      BY <1>1, <1>3
  <2>3. /\ config \in [Markets -> ConfigAccount \cup {NoAccount}]
        /\ receipt \in [Markets -> ReceiptAccount \cup {NoAccount}]
        /\ vault \in VaultAccount
      BY <1>1, <1>3 DEF ConfigAccount, VaultAccount
  <2>4. spent \in [Users -> Int] /\ now \in 0 .. MaxTime
      BY <1>1, <1>3, <1>4 DEF LegacyAssumption
  <2>5. \A m \in Markets :
            Exists(market[m]) => (market[m].status = "Stale" <=> IsStale(m))
      BY <1>1, <1>3 DEF Exists, StatusTells, IsStale
  <2> QED  BY <2>1, <2>2, <2>3, <2>4, <2>5 DEF LegacyTypeOK
<1>7. none \in [Orders -> OrderAccount \cup {NoAccount}] /\ none[w] = NoAccount
    BY <1>1
<1>8. SumsMove(none, order, w, x)
  <2>1. SameSide(none[w], x)
      BY <1>7 DEF SameSide, Exists
  <2> HIDE DEF none
  <2> QED  BY <1>1, <1>3, <1>4, <1>7, <2>1, OpenMoves
<1>9. ASSUME NEW m \in Markets, NEW side \in Sides
      PROVE  OpenStakes(order, m)[side] = 0
  <2> DEFINE f == OpenIn(none, m, side)
  <2>1. IsFiniteSet(Orders) /\ \A o \in Orders : f[o] = 0
      BY <1>4 DEF OpenIn, Exists, LegacyAssumption
  <2> HIDE DEF f
  <2>2. SumOver(f, Orders) = 0
      BY <2>1, SumOfZeros
  <2>3. OpenStakes(none, m)[side] = 0
      BY <2>2 DEF OpenStakes, f
  <2>4. OpenStake(x) = 0 /\ OpenStake(none[w]) = 0
      BY <1>2, <1>7 DEF OpenStake, Exists
  <2> HIDE DEF none
  <2> QED  BY <1>8, <2>3, <2>4 DEF SumsMove
<1>10. TotalEscrow(order) = stake
  <2> DEFINE f == EscrowIn(none)
  <2>1. IsFiniteSet(Orders) /\ \A o \in Orders : f[o] = 0
      BY <1>4 DEF EscrowIn, Exists, LegacyAssumption
  <2>2. f[w] = 0
      BY <1>1, <2>1
  <2> HIDE DEF f
  <2>3. TotalEscrow(none) = 0
      BY <2>1, SumOfZeros DEF TotalEscrow, f
  <2>4. TotalEscrow(order) = TotalEscrow(none) + (x.lamports - f[w])
      BY <1>8 DEF SumsMove, f
  <2> HIDE DEF none
  <2> QED  BY <1>1, <1>2, <2>2, <2>3, <2>4
<1>11. TotalHeld(market) = 0
  <2> DEFINE f == HeldIn(market)
  <2>1. HeldBy(a) = 0 /\ HeldBy(NoAccount) = 0
      BY <1>1 DEF HeldBy, Exists
  <2>2. IsFiniteSet(Markets) /\ \A m \in Markets : f[m] = 0
      BY <1>3, <1>4, <2>1 DEF LegacyAssumption, HeldIn
  <2> HIDE DEF f
  <2> QED  BY <2>2, SumOfZeros DEF TotalHeld, f
<1>12. TotalSpent(spent) = stake
  <2>1. zero \in [Users -> Int] /\ zero[Operator] = 0 /\ stake \in Int
      BY <1>1
  <2>2. spent = [zero EXCEPT ![Operator] = zero[Operator] + stake]
      BY <1>1, <1>3
  <2>3. TotalSpent(zero) = 0
    <3>1. IsFiniteSet(Users) /\ \A u \in Users : zero[u] = 0
        BY <1>4 DEF LegacyAssumption
    <3> HIDE DEF zero
    <3> QED  BY <3>1, SumOfZeros DEF TotalSpent
  <2> HIDE DEF zero
  <2>4. TotalSpent(spent) = TotalSpent(zero) + stake
      BY <1>1, <1>4, <2>1, <2>2, SpentMoves
  <2> QED  BY <2>1, <2>3, <2>4
<1>13. MoneyOf(vault) = 0
    BY <1>3 DEF MoneyOf, Exists
<1>14. \A o \in Orders :
          Exists(order[o]) => OrderSound(order[o], market[o.market], vault)
    BY <1>1, <1>2, <1>3, <1>5, <1>7 DEF OrderSound, Exists
<1>15. ASSUME NEW m \in Markets, Exists(market[m])
       PROVE  Balanced(market[m], OpenStakes(order, m)) /\ ResultSound(market[m], receipt[m])
  <2>1. market[m] = a
      BY <1>3, <1>15 DEF Exists
  <2>2. a.pool["Yes"] = 0 /\ a.pool["No"] = 0 /\ a.resolution \notin Sides
      BY <1>1 DEF Sides
  <2> QED  BY <1>1, <1>9, <2>1, <2>2 DEF Balanced, ResultSound
<1> QED  BY <1>1, <1>6, <1>10, <1>11, <1>12, <1>13, <1>14, <1>15 DEF LegacyInv

(***************************************************************************)
(* What the ticket knows.  While the market trades, the stakes that the    *)
(* page, a reading and a click have of a wallet's positions are at most    *)
(* what the positions hold, so an order that was accepted since shows in   *)
(* the position that is read back: until the market closes, and the        *)
(* position can go.  Of a click that was made over another wallet's        *)
(* positions nothing is known.                                             *)
(***************************************************************************)

\* By the accounts s: positions that were read for a wallet, or none for nobody's.
AtMostHeld(accepted, holder, s) ==
    ~ IsClosed(s) =>
        \A w \in TicketWallets, side \in Sides :
            holder \in {w, Nobody} => accepted[side] <= AcceptedIn(s)[<<w, side>>]

PositionsKnown ==
    /\ AtMostHeld(page.accepted, page.holder, v2)
    /\ \A r \in Readings :
          refresh[r].stage = "positions read" =>
              AtMostHeld(refresh[r].accepted, refresh[r].wallet, v2)

Own(call) == call.holder \in {call.trader, Nobody}

\* Of a call of submit(), its transaction t and what became of it.
CallKnows(call, t, became, s) ==
    LET p == <<call.trader, call.args.side>>
    IN  /\ call.stage # "none" /\ Own(call) /\ ~ IsClosed(s) =>
               call.previous <= AcceptedIn(s)[p]
        /\ t = "landed" <=> became # "none"
        /\ call.stage \in {"none", "slot", "simulating", "signing"} => t = "none"
        /\ call.stage = "reading" => t = "landed"
        /\ became = "accepted" /\ Own(call) =>
              IF Exists(s.position[p]) THEN AcceptedIn(s)[p] > call.previous ELSE IsClosed(s)

CallsKnow == \A k \in Clicks : CallKnows(submit[k], tx[k], outcome[k], v2)

ResultKnown ==
    page.state = "REFUNDED" =>
        /\ page.shown \in Clicks /\ submit[page.shown].stage # "none"
        /\ Own(submit[page.shown]) => outcome[page.shown] = "refunded"

TicketKnows == PositionsKnown /\ CallsKnow /\ ResultKnown

\* The positions of a ticket's wallet.
LEMMA WalletsPositions ==
    ASSUME V2Assumption, TicketAssumption, NEW w \in TicketWallets, NEW side \in Sides
    PROVE  /\ <<w, side>> \in Positions
           /\ AcceptedOf(w, side) = AcceptedIn(v2)[<<w, side>>]
BY DEF Positions, TicketAssumption, AcceptedOf, AcceptedIn

\* What is known of positions outlasts every step of the program.
LEMMA HeldLasts ==
    ASSUME V2Assumption, TicketAssumption, V2Inv, MarketStep, NEW accepted, NEW holder,
           accepted \in [Sides -> Nat], AtMostHeld(accepted, holder, v2)
    PROVE  AtMostHeld(accepted, holder, v2')
<1>1. ASSUME NEW w \in TicketWallets, NEW side \in Sides, ~ IsClosed(v2'),
             holder \in {w, Nobody}
      PROVE  accepted[side] <= AcceptedIn(v2')[<<w, side>>]
  <2> DEFINE p == <<w, side>>
             x == accepted[side]
  <2>1. p \in Positions /\ x \in Nat
      BY WalletsPositions
  <2>2. ~ IsClosed(v2) => x <= AcceptedIn(v2)[p]
      BY <1>1 DEF AtMostHeld
  <2>3. ~ Exists(v2.position[p]) => AcceptedIn(v2)[p] = 0
      BY <2>1 DEF AcceptedIn
  <2> HIDE DEF p, x
  <2>4. /\ IsClosed(v2) => IsClosed(v2')
        /\ Exists(v2.position[p]) /\ ~ Exists(v2'.position[p]) => IsClosed(v2)
        /\ Exists(v2'.position[p]) => AcceptedIn(v2)[p] <= AcceptedIn(v2')[p]
        /\ AcceptedIn(v2)[p] \in Nat /\ AcceptedIn(v2')[p] \in Nat
      BY <2>1, PositionsGrow
  <2>5. x <= AcceptedIn(v2')[p]
      BY <1>1, <2>1, <2>2, <2>3, <2>4
  <2> QED  BY <2>5 DEF p, x
<1> QED  BY <1>1 DEF AtMostHeld

\* What a call knows outlasts them too, and the call's own next step where it asks
\* nothing else.
LEMMA CallLasts ==
    ASSUME V2Assumption, TicketAssumption, V2Inv, MarketStep,
           NEW call \in Submissions, NEW next \in Submissions,
           NEW t, NEW became, CallKnows(call, t, became, v2),
           next.previous = call.previous, next.args.side = call.args.side,
           next.trader = call.trader, next.holder = call.holder,
           next.stage \in {"slot", "simulating", "signing"} => t = "none",
           next.stage = "reading" => t = "landed"
    PROVE  CallKnows(next, t, became, v2')
<1> DEFINE p == <<call.trader, call.args.side>>
           own == Own(call)
<1>1. /\ call.args.side \in Sides /\ call.previous \in Nat /\ call.trader \in TicketWallets
      /\ call.stage # "none" /\ next.stage # "none"
    BY DEF Submissions
<1>2. p \in Positions
    BY <1>1, WalletsPositions
<1>3. /\ IsClosed(v2) => IsClosed(v2')
      /\ Exists(v2.position[p]) /\ ~ Exists(v2'.position[p]) => IsClosed(v2)
      /\ ~ Exists(v2.position[p]) /\ Exists(v2'.position[p]) => ~ IsClosed(v2)
      /\ Exists(v2'.position[p]) => AcceptedIn(v2)[p] <= AcceptedIn(v2')[p]
      /\ AcceptedIn(v2)[p] \in Nat /\ AcceptedIn(v2')[p] \in Nat
  <2> HIDE DEF p
  <2> QED  BY <1>2, PositionsGrow
<1>4. ~ Exists(v2.position[p]) => AcceptedIn(v2)[p] = 0
    BY <1>2 DEF AcceptedIn
<1>5. /\ own /\ ~ IsClosed(v2) => call.previous <= AcceptedIn(v2)[p]
      /\ t = "landed" <=> became # "none"
      /\ became = "accepted" /\ own =>
            IF Exists(v2.position[p]) THEN AcceptedIn(v2)[p] > call.previous ELSE IsClosed(v2)
      /\ p = <<next.trader, next.args.side>> /\ own = Own(next)
    BY <1>1 DEF CallKnows, Own
<1> HIDE DEF p, own
<1>6. own /\ ~ IsClosed(v2') => call.previous <= AcceptedIn(v2')[p]
    BY <1>1, <1>3, <1>4, <1>5
<1>7. became = "accepted" /\ own =>
            IF Exists(v2'.position[p]) THEN AcceptedIn(v2')[p] > call.previous ELSE IsClosed(v2')
    BY <1>1, <1>3, <1>5
<1> QED  BY <1>1, <1>5, <1>6, <1>7 DEF CallKnows

\* A click that was not made has sent nothing, and nothing has become of it.
LEMMA IdleKnows ==
    ASSUME NEW t, NEW became, NEW s, NEW n, CallKnows(NotClicked, t, became, s)
    PROVE  t = "none" /\ became = "none" /\ CallKnows(NotClicked, t, became, n)
BY DEF CallKnows, NotClicked

\* A step of the ticket leaves what is known of positions: only ReadPositions learns,
\* and learns what there is.
LEMMA PositionsStayKnown ==
    ASSUME V2Assumption, TicketAssumption, V2Inv, TicketTypeOK, PositionsKnown, MarketStep,
           TicketStep \/ UNCHANGED ticketVars
    PROVE  PositionsKnown'
<1>1. AtMostHeld(page.accepted, page.holder, v2')
    BY HeldLasts DEF TicketTypeOK, PositionsKnown
<1>2. ASSUME NEW r \in Readings, refresh[r].stage = "positions read"
      PROVE  /\ AtMostHeld(refresh[r].accepted, refresh[r].wallet, v2')
             /\ AtMostHeld(refresh[r].accepted, refresh[r].wallet, v2)
  <2> DEFINE accepted == refresh[r].accepted
             wallet == refresh[r].wallet
  <2>0. NoRefresh.stage = "none"
      BY DEF NoRefresh
  <2>1. refresh[r] \in RefreshesBegun \cup {NoRefresh} /\ refresh[r] # NoRefresh
      BY <1>2, <2>0 DEF TicketTypeOK
  <2>2. accepted \in [Sides -> Nat] /\ AtMostHeld(accepted, wallet, v2)
      BY <1>2, <2>1 DEF RefreshesBegun, PositionsKnown
  <2> HIDE DEF accepted, wallet
  <2>3. AtMostHeld(accepted, wallet, v2')
      BY <2>2, HeldLasts
  <2> QED  BY <2>2, <2>3 DEF accepted, wallet
<1>3. \A r \in Readings :
          refresh[r].stage = "positions read" =>
              AtMostHeld(refresh[r].accepted, refresh[r].wallet, v2')
    BY <1>2
<1>4. ASSUME NEW r \in Readings, NEW new, refresh' = [refresh EXCEPT ![r] = new],
             new.stage = "positions read" => AtMostHeld(new.accepted, new.wallet, v2'),
             AtMostHeld(page'.accepted, page'.holder, v2')
      PROVE  PositionsKnown'
  <2>1. ASSUME NEW j \in Readings
        PROVE  refresh'[j] = IF j = r THEN new ELSE refresh[j]
      BY <1>4 DEF TicketTypeOK
  <2> QED  BY <1>3, <1>4, <2>1 DEF PositionsKnown
<1>5. \A w : Begun(w).stage = "snapshot"
    BY DEF Begun
<1>6. NoRefresh.stage = "none"
    BY DEF NoRefresh
<1>7. CASE UNCHANGED ticketVars
    BY <1>1, <1>3, <1>7 DEF PositionsKnown, ticketVars
<1>8. ASSUME page'.accepted = page.accepted, page'.holder = page.holder,
             refresh' = refresh
      PROVE  PositionsKnown'
    BY <1>1, <1>3, <1>8 DEF PositionsKnown
<1>9. ASSUME NEW k \in Clicks,
             \/ \E side \in Sides : Click(k, side)
             \/ SlotIsKnown(k) \/ Simulated(k) \/ Signed(k) \/ SeenFinalized(k)
             \/ Throws(k) \/ TransactionLands(k) \/ TransactionExpires(k)
      PROVE  PositionsKnown'
  <2>1. refresh' = refresh
      BY <1>9, Zenon DEF Click, SlotIsKnown, Simulated, Signed, SeenFinalized, Throws,
                         TransactionLands, TransactionExpires
  <2>2. \/ page' = page
        \/ \E state : page' = [page EXCEPT !.state = state]
        \/ page' = [page EXCEPT !.state = "ERROR", !.shown = k]
      BY <1>9, Zenon DEF Click, SlotIsKnown, Simulated, Signed, SeenFinalized, Throws,
                         TransactionLands, TransactionExpires, Show
  <2>3. page'.accepted = page.accepted /\ page'.holder = page.holder
      BY <2>2 DEF TicketTypeOK
  <2> QED  BY <1>8, <2>1, <2>3
<1>10. ASSUME NEW k \in Clicks, ReadsPosition(k)
       PROVE  PositionsKnown'
  <2>1. /\ refresh' = [refresh EXCEPT ![k] = Begun(submit[k].trader)] /\ k \in Readings
        /\ page'.accepted = page.accepted /\ page'.holder = page.holder
      BY <1>10 DEF ReadsPosition, ShowResult, Readings, TicketTypeOK
  <2> QED  BY <1>1, <1>4, <1>5, <2>1
<1>11. ASSUME NEW w \in Connected, ConnectWallet(w)
       PROVE  PositionsKnown'
  <2>1. PICK r \in Refreshes : refresh' = [refresh EXCEPT ![r] = Begun(w)]
      BY <1>11 DEF ConnectWallet
  <2>2. r \in Readings /\ page'.accepted = page.accepted /\ page'.holder = page.holder
      BY <1>11 DEF ConnectWallet, Readings, TicketTypeOK
  <2> QED  BY <1>1, <1>4, <1>5, <2>1, <2>2
<1>12. ASSUME NEW r \in Refreshes, RefreshAgain(r)
       PROVE  PositionsKnown'
    BY <1>1, <1>4, <1>5, <1>12 DEF RefreshAgain, Readings
<1>13. ASSUME NEW r \in Readings, ReadSnapshot(r)
       PROVE  PositionsKnown'
  <2> DEFINE m == ShownMarket
             new == [refresh[r] EXCEPT !.stage = "snapshot read", !.market = m]
  <2>1. /\ refresh[r] \in RefreshesBegun
        /\ refresh' = [refresh EXCEPT ![r] = new] /\ page' = page
      BY <1>6, <1>13 DEF ReadSnapshot, TicketTypeOK
  <2> HIDE DEF m
  <2>2. new.stage = "snapshot read"
      BY <2>1 DEF RefreshesBegun
  <2> HIDE DEF new
  <2> QED  BY <1>1, <1>4, <2>1, <2>2
<1>14. ASSUME NEW r \in Readings, ShowSnapshot(r)
       PROVE  PositionsKnown'
  <2>1. refresh[r] \in RefreshesBegun
      BY <1>6, <1>14 DEF ShowSnapshot, TicketTypeOK
  <2>2. CASE refresh[r].wallet = Nobody
    <3>1. /\ refresh' = [refresh EXCEPT ![r] = NoRefresh] /\ v2' = v2
          /\ page'.accepted = NoPositions
        BY <1>14, <2>2 DEF ShowSnapshot, TicketTypeOK, v2Vars
    <3>2. AtMostHeld(NoPositions, page'.holder, v2')
      <4>1. ASSUME NEW w \in TicketWallets, NEW side \in Sides
            PROVE  NoPositions[side] <= AcceptedIn(v2')[<<w, side>>]
        <5>1. <<w, side>> \in Positions
            BY WalletsPositions
        <5>2. AcceptedIn(v2')[<<w, side>>] \in Nat
            BY <5>1, PositionsGrow
        <5> QED  BY <5>2 DEF NoPositions
      <4> QED  BY <4>1 DEF AtMostHeld
    <3> QED  BY <1>4, <1>6, <3>1, <3>2
  <2>3. CASE refresh[r].wallet # Nobody
    <3> DEFINE new == [refresh[r] EXCEPT !.stage = "positions", !.market = NotRead]
    <3>1. /\ refresh' = [refresh EXCEPT ![r] = new]
          /\ page'.accepted = page.accepted /\ page'.holder = page.holder
        BY <1>14, <2>3 DEF ShowSnapshot, TicketTypeOK
    <3>2. new.stage = "positions"
        BY <2>1 DEF RefreshesBegun
    <3> HIDE DEF new
    <3> QED  BY <1>1, <1>4, <3>1, <3>2
  <2> QED  BY <2>2, <2>3
<1>15. ASSUME NEW r \in Readings, ReadPositions(r)
       PROVE  PositionsKnown'
  <2> DEFINE wallet == refresh[r].wallet
             a == [s \in Sides |-> AcceptedOf(wallet, s)]
             new == [refresh[r] EXCEPT !.stage = "positions read", !.accepted = a]
  <2>1. /\ refresh[r] \in RefreshesBegun /\ wallet # Nobody
        /\ refresh' = [refresh EXCEPT ![r] = new] /\ page' = page /\ v2' = v2
      BY <1>6, <1>15 DEF ReadPositions, TicketTypeOK, v2Vars
  <2>2. AtMostHeld(a, wallet, v2')
    <3>1. ASSUME NEW w \in TicketWallets, NEW side \in Sides, wallet \in {w, Nobody}
          PROVE  a[side] <= AcceptedIn(v2)[<<w, side>>]
      <4>1. /\ <<w, side>> \in Positions
            /\ a[side] = AcceptedIn(v2)[<<w, side>>]
          BY <2>1, <3>1, WalletsPositions
      <4>2. AcceptedIn(v2)[<<w, side>>] \in Nat
          BY <4>1, PositionsGrow
      <4> QED  BY <4>1, <4>2
    <3> HIDE DEF a, wallet
    <3> QED  BY <2>1, <3>1 DEF AtMostHeld
  <2> HIDE DEF a
  <2>3. new.accepted = a /\ new.wallet = wallet
      BY <2>1 DEF RefreshesBegun
  <2> HIDE DEF new, wallet
  <2> QED  BY <1>1, <1>4, <2>1, <2>2, <2>3
<1>16. ASSUME NEW r \in Readings, ShowPositions(r)
       PROVE  PositionsKnown'
  <2>1. /\ refresh' = [refresh EXCEPT ![r] = NoRefresh]
        /\ page'.accepted = refresh[r].accepted /\ page'.holder = refresh[r].wallet
        /\ refresh[r].stage = "positions read"
      BY <1>16 DEF ShowPositions, TicketTypeOK
  <2> QED  BY <1>2, <1>4, <1>6, <2>1
<1>17. ASSUME NEW r \in Readings, RefreshFails(r)
       PROVE  PositionsKnown'
  <2> DEFINE state == IF r \in Clicks THEN "ERROR" ELSE page.state
  <2>1. /\ refresh' = [refresh EXCEPT ![r] = NoRefresh]
        /\ page' = [page EXCEPT !.state = state]
      BY <1>17 DEF RefreshFails, TicketTypeOK
  <2> HIDE DEF state
  <2>2. page'.accepted = page.accepted /\ page'.holder = page.holder
      BY <2>1 DEF TicketTypeOK
  <2> QED  BY <1>1, <1>4, <1>6, <2>1, <2>2
<1>18. CASE RefreshStep
    BY <1>11, <1>12, <1>13, <1>14, <1>15, <1>16, <1>17, <1>18, Zenon
       DEF RefreshStep, Connected
<1> QED  BY <1>7, <1>9, <1>10, <1>18, Zenon DEF TicketStep

\* A reading leaves the clicks alone.
LEMMA ReadingsLeaveClicks ==
    ASSUME RefreshStep
    PROVE  UNCHANGED <<v2Vars, submit, tx, outcome>>
BY Zenon DEF RefreshStep, ConnectWallet, RefreshAgain, ReadSnapshot, ShowSnapshot,
             ReadPositions, ShowPositions, RefreshFails

\* A step of the ticket keeps what its clicks know.
LEMMA CallsKeepKnowing ==
    ASSUME V2Assumption, TicketAssumption, V2Inv, TicketTypeOK, PositionsKnown, CallsKnow,
           MarketStep, TicketStep \/ UNCHANGED ticketVars
    PROVE  CallsKnow'
<1>1. ASSUME NEW k \in Clicks
      PROVE  /\ CallKnows(submit[k], tx[k], outcome[k], v2)
             /\ submit[k].stage # "none" => submit[k] \in Submissions
             /\ submit[k].stage = "none" => submit[k] = NotClicked
  <2>1. submit[k] \in Submissions \cup {NotClicked}
      BY DEF TicketTypeOK
  <2>2. ASSUME submit[k] \in Submissions PROVE submit[k].stage # "none"
      BY <2>2 DEF Submissions
  <2> QED  BY <2>1, <2>2, ClickedIsTyped DEF CallsKnow
<1>3. ASSUME NEW k \in Clicks
      PROVE  CallKnows(submit[k], tx[k], outcome[k], v2')
  <2>1. CASE submit[k].stage = "none"
      BY <1>1, <2>1, IdleKnows
  <2>2. CASE submit[k].stage # "none"
    <3> DEFINE call == submit[k]
               t == tx[k]
               became == outcome[k]
    <3>1. call \in Submissions /\ CallKnows(call, t, became, v2)
        BY <1>1, <2>2
    <3>2. /\ call.stage \in {"slot", "simulating", "signing"} => t = "none"
          /\ call.stage = "reading" => t = "landed"
        BY <3>1 DEF CallKnows
    <3> HIDE DEF call, t, became
    <3>3. CallKnows(call, t, became, v2')
        BY <3>1, <3>2, CallLasts
    <3> QED  BY <3>3 DEF call, t, became
  <2> QED  BY <2>1, <2>2
\* Most steps move one call.
<1>5. ASSUME NEW k \in Clicks, NEW next \in Submissions, UNCHANGED <<tx, outcome>>,
             submit[k].stage # "none", submit' = [submit EXCEPT ![k] = next],
             next.previous = submit[k].previous, next.args.side = submit[k].args.side,
             next.trader = submit[k].trader, next.holder = submit[k].holder,
             next.stage \in {"slot", "simulating", "signing"} => tx[k] = "none",
             next.stage = "reading" => tx[k] = "landed"
      PROVE  CallsKnow'
  <2> DEFINE call == submit[k]
             t == tx[k]
             became == outcome[k]
  <2>1. call \in Submissions /\ CallKnows(call, t, became, v2)
      BY <1>1, <1>5
  <2>2. /\ next.previous = call.previous /\ next.args.side = call.args.side
        /\ next.trader = call.trader /\ next.holder = call.holder
        /\ next.stage \in {"slot", "simulating", "signing"} => t = "none"
        /\ next.stage = "reading" => t = "landed"
      BY <1>5
  <2> HIDE DEF call, t, became
  <2>3. CallKnows(next, t, became, v2')
      BY <2>1, <2>2, CallLasts
  <2>4. ASSUME NEW j \in Clicks
        PROVE  CallKnows(submit'[j], tx'[j], outcome'[j], v2')
    <3>1. submit'[j] = IF j = k THEN next ELSE submit[j]
        BY <1>5 DEF TicketTypeOK
    <3> QED  BY <1>3, <1>5, <2>3, <3>1 DEF t, became
  <2> QED  BY <2>4 DEF CallsKnow
<1>6. CASE UNCHANGED ticketVars
    BY <1>3, <1>6 DEF CallsKnow, ticketVars
<1>7. CASE RefreshStep
    BY <1>3, <1>7, ReadingsLeaveClicks DEF CallsKnow
<1>9. ASSUME NEW k \in Clicks, NEW side \in Sides, Click(k, side)
      PROVE  CallsKnow'
  <2> DEFINE call == [ stage |-> "slot", trader |-> page.wallet,
            previous |-> page.accepted[side], holder |-> page.holder,
            args |-> [ side |-> side, stake |-> Stake,
                       max_edge |-> page.market.tolerance,
                       price |-> SidePrice(side, page.market.displayed),
                       slippage |-> Slippage,
                       priced_seq |-> page.market.priced_seq,
                       odds_seq |-> page.market.odds_seq, expiry |-> 0 ] ]
  <2>1. /\ submit[k].stage = "none" /\ submit' = [submit EXCEPT ![k] = call]
        /\ UNCHANGED <<v2, page, tx, outcome>> /\ page.wallet \in TicketWallets
      BY <1>9 DEF Click, v2Vars, ready, TicketTypeOK, Connected
  <2>2. tx[k] = "none" /\ outcome[k] = "none"
      BY <1>1, <2>1, IdleKnows
  <2>3. /\ call.stage = "slot" /\ call.previous = page.accepted[side]
        /\ call.args.side = side
        /\ call.trader = page.wallet /\ call.holder = page.holder
      OBVIOUS
  <2> HIDE DEF call
  <2>4. Own(call) /\ ~ IsClosed(v2) =>
            page.accepted[side] <= AcceptedIn(v2)[<<page.wallet, side>>]
      BY <2>1, <2>3 DEF PositionsKnown, AtMostHeld, Own
  <2>5. CallKnows(call, tx[k], outcome[k], v2)
      BY <2>2, <2>3, <2>4 DEF CallKnows
  <2>6. ASSUME NEW j \in Clicks
        PROVE  CallKnows(submit'[j], tx'[j], outcome'[j], v2')
    <3>1. submit'[j] = IF j = k THEN call ELSE submit[j]
        BY <2>1 DEF TicketTypeOK
    <3> QED  BY <1>3, <2>1, <2>5, <3>1
  <2> QED  BY <2>6 DEF CallsKnow
<1>10. ASSUME NEW k \in Clicks, SlotIsKnown(k)
       PROVE  CallsKnow'
  <2> DEFINE expiry == clock + OrderLife
             call == submit[k]
             next == [call EXCEPT !.stage = "simulating", !.args.expiry = expiry]
  <2>1. /\ call \in Submissions /\ call.stage = "slot"
        /\ UNCHANGED <<tx, outcome>>
      BY <1>1, <1>10 DEF SlotIsKnown
  <2>2. submit' = [submit EXCEPT ![k] = next]
      BY <1>10 DEF SlotIsKnown, TicketTypeOK
  <2>3. expiry \in Int
      BY DEF TicketAssumption, V2Inv, V2Assumption
  <2>4. tx[k] = "none"
      BY <1>1, <2>1 DEF CallKnows
  <2> HIDE DEF expiry, call
  <2>5. /\ next \in Submissions /\ next.previous = call.previous
        /\ next.trader = call.trader /\ next.holder = call.holder
        /\ next.args.side = call.args.side /\ next.stage = "simulating"
      BY <2>1, <2>3 DEF Submissions
  <2> HIDE DEF next
  <2> QED  BY <1>5, <2>1, <2>2, <2>4, <2>5 DEF call
<1>11. ASSUME NEW k \in Clicks, submit[k].stage # "none",
              NEW stage \in {"slot", "simulating", "signing", "confirming", "reading", "done"}
       PROVE  LET next == [submit[k] EXCEPT !.stage = stage]
              IN  /\ next \in Submissions /\ next.previous = submit[k].previous
                  /\ next.trader = submit[k].trader /\ next.holder = submit[k].holder
                  /\ next.args.side = submit[k].args.side /\ next.stage = stage
  <2>1. submit[k] \in Submissions
      BY <1>1, <1>11
  <2> QED  BY <2>1 DEF Submissions
<1>12. ASSUME NEW k \in Clicks,
              Simulated(k) \/ SeenFinalized(k) \/ ReadsPosition(k) \/ Throws(k)
       PROVE  CallsKnow'
  <2>1. PICK stage \in {"signing", "reading", "done"} :
           /\ submit' = [submit EXCEPT ![k] = [submit[k] EXCEPT !.stage = stage]]
           /\ stage = "signing" => submit[k].stage = "simulating"
           /\ stage = "reading" => tx[k] = "landed"
      BY <1>12 DEF Simulated, SeenFinalized, ReadsPosition, Throws, Goes
  <2>2. UNCHANGED <<tx, outcome>> /\ submit[k].stage # "none"
      BY <1>12 DEF Simulated, SeenFinalized, ReadsPosition, Throws, Goes
  <2> DEFINE next == [submit[k] EXCEPT !.stage = stage]
  <2>3. /\ next \in Submissions /\ next.previous = submit[k].previous
        /\ next.trader = submit[k].trader /\ next.holder = submit[k].holder
        /\ next.args.side = submit[k].args.side /\ next.stage = stage
    <3>1. stage \in {"slot", "simulating", "signing", "confirming", "reading", "done"}
        OBVIOUS
    <3> QED  BY <1>11, <2>2, <3>1
  <2>4. stage = "signing" => tx[k] = "none"
      BY <1>1, <2>1 DEF CallKnows
  <2> HIDE DEF next
  <2> QED  BY <1>5, <2>1, <2>2, <2>3, <2>4 DEF next
\* A transaction is sent, lands or fails: its call stays where it is.
<1>14. ASSUME NEW k \in Clicks, NEW call, NEW t, NEW became,
              submit' = [submit EXCEPT ![k] = call], tx' = [tx EXCEPT ![k] = t],
              outcome' = [outcome EXCEPT ![k] = became],
              CallKnows(call, t, became, v2')
       PROVE  CallsKnow'
  <2>1. ASSUME NEW j \in Clicks
        PROVE  CallKnows(submit'[j], tx'[j], outcome'[j], v2')
    <3>1. /\ submit'[j] = IF j = k THEN call ELSE submit[j]
          /\ tx'[j] = IF j = k THEN t ELSE tx[j]
          /\ outcome'[j] = IF j = k THEN became ELSE outcome[j]
        BY <1>14 DEF TicketTypeOK
    <3> QED  BY <1>3, <1>14, <3>1
  <2> QED  BY <2>1 DEF CallsKnow
<1>15. ASSUME NEW k \in Clicks, Signed(k)
       PROVE  CallsKnow'
  <2> DEFINE next == [submit[k] EXCEPT !.stage = "confirming"]
  <2>1. /\ submit[k].stage = "signing" /\ submit' = [submit EXCEPT ![k] = next]
        /\ tx' = [tx EXCEPT ![k] = "pending"] /\ UNCHANGED <<v2, outcome>>
      BY <1>15 DEF Signed, Goes, v2Vars
  <2>2. tx[k] = "none" /\ outcome[k] = "none"
      BY <1>1, <2>1 DEF CallKnows
  <2>3. /\ next \in Submissions /\ next.previous = submit[k].previous
        /\ next.trader = submit[k].trader /\ next.holder = submit[k].holder
        /\ next.args.side = submit[k].args.side /\ next.stage = "confirming"
      BY <1>11, <2>1
  <2> HIDE DEF next
  <2>4. CallKnows(next, "pending", "none", v2')
      BY <1>1, <2>1, <2>2, <2>3 DEF CallKnows, Own
  <2>5. outcome' = [outcome EXCEPT ![k] = "none"]
      BY <2>1, <2>2 DEF TicketTypeOK
  <2> QED  BY <1>14, <2>1, <2>4, <2>5
\* What a call on its way knows of itself.
<1>16. ASSUME NEW k \in Clicks, tx[k] = "pending"
       PROVE  /\ outcome[k] = "none" /\ submit[k] \in Submissions
              /\ submit[k].stage \in {"confirming", "done"}
              /\ submit' = submit => submit' = [submit EXCEPT ![k] = submit[k]]
              /\ outcome' = outcome => outcome' = [outcome EXCEPT ![k] = "none"]
  <2>1. /\ outcome[k] = "none"
        /\ submit[k].stage \notin {"none", "slot", "simulating", "signing", "reading"}
      BY <1>1, <1>16 DEF CallKnows
  <2>2. submit[k] \in Submissions
      BY <1>1, <2>1
  <2>3. submit[k].stage \in {"confirming", "done"}
      BY <2>1, <2>2 DEF Submissions
  <2>4. /\ submit' = submit => submit' = [submit EXCEPT ![k] = submit[k]]
        /\ outcome' = outcome => outcome' = [outcome EXCEPT ![k] = "none"]
      BY <2>1 DEF TicketTypeOK
  <2> QED  BY <2>1, <2>2, <2>3, <2>4
<1>17. ASSUME NEW k \in Clicks, tx[k] = "pending", tx' = [tx EXCEPT ![k] = "failed"],
              UNCHANGED <<v2, submit, outcome>>
       PROVE  CallsKnow'
  <2>1. CallKnows(submit[k], "failed", "none", v2')
      BY <1>1, <1>16, <1>17 DEF CallKnows
  <2> QED  BY <1>14, <1>16, <1>17, <2>1
<1>18. ASSUME NEW k \in Clicks, TransactionLands(k), Executes(k)
       PROVE  CallsKnow'
  <2> DEFINE call == submit[k]
             o == OrderOfClick(k)
             p == <<call.trader, call.args.side>>
             refunded == Refunds(Placed(v2, o, call.args), o)
             became == IF refunded THEN "refunded" ELSE "accepted"
  <2>1. /\ tx[k] = "pending" /\ submit' = submit
        /\ tx' = [tx EXCEPT ![k] = "landed"]
        /\ outcome' = [outcome EXCEPT ![k] = became]
      BY <1>18 DEF TransactionLands
  <2>2. o.by = call.trader
      BY DEF OrderOfClick, OrderOf2
  <2>3. PlacesAndEvaluates(o, call.args)
      BY <1>18, <2>2 DEF TransactionLands, Executes, PlacesAndEvaluates
  <2>4. call \in Submissions
      BY <1>16, <2>1
  <2>5. /\ o \in V2Orders /\ TypedArgs(call.args) /\ call.stage # "none"
        /\ call.trader \in TicketWallets /\ call.args.side \in Sides
      BY <2>4 DEF TicketAssumption, OrderOfClick, Submissions, TypedArgs
  <2>6. /\ ~ IsClosed(v2) /\ call.args.stake \in Nat \ {0}
        /\ Exists(v2'.position[p])
        /\ ~ refunded => AcceptedIn(v2')[p] = AcceptedIn(v2)[p] + call.args.stake
    <3> DEFINE args == call.args
    <3>1. /\ BooksOf(v2, outlay) /\ o \in V2Orders /\ TypedArgs(args)
          /\ PlacesAndEvaluates(o, args) /\ p = <<o.by, args.side>>
          /\ refunded = Refunds(Placed(v2, o, args), o)
        BY <2>2, <2>3, <2>5 DEF V2Inv
    <3> HIDE DEF args, o, p, refunded
    <3>2. /\ ~ IsClosed(v2) /\ args.stake \in Nat \ {0}
          /\ Exists(v2'.position[p])
          /\ ~ refunded => AcceptedIn(v2')[p] = AcceptedIn(v2)[p] + args.stake
        BY <3>1, DecidedAtOnce
    <3> QED  BY <3>2 DEF args
  <2> HIDE DEF refunded
  <2>7. ~ refunded /\ Own(call) => AcceptedIn(v2')[p] > call.previous
    <3>1. (Own(call) => call.previous <= AcceptedIn(v2)[p]) /\ call.previous \in Nat
        BY <1>1, <2>4, <2>5, <2>6 DEF CallKnows, Submissions
    <3>2. AcceptedIn(v2)[p] \in Nat
      <4>1. p \in Positions
          BY <2>5, WalletsPositions
      <4> HIDE DEF p
      <4> QED  BY <4>1, PositionsGrow
    <3> QED  BY <2>6, <3>1, <3>2
  <2>8. CallKnows(call, "landed", became, v2')
    <3>1. Own(call) /\ ~ IsClosed(v2') => call.previous <= AcceptedIn(v2')[p]
        BY <1>3, <2>5 DEF CallKnows
    <3> QED  BY <1>16, <2>1, <2>6, <2>7, <3>1 DEF CallKnows
  <2>9. submit' = [submit EXCEPT ![k] = call]
      BY <1>16, <2>1
  <2> HIDE DEF became, call
  <2> QED  BY <1>14, <2>1, <2>8, <2>9
<1>19. ASSUME NEW k \in Clicks, TransactionLands(k) \/ TransactionExpires(k)
       PROVE  CallsKnow'
    BY <1>17, <1>18, <1>19 DEF TransactionLands, TransactionExpires, v2Vars
<1> QED
    BY <1>6, <1>7, <1>9, <1>10, <1>12, <1>15, <1>19, Zenon DEF TicketStep

\* A click that was made is still of its trader, over the positions it was made over.
LEMMA ClicksStay ==
    ASSUME TicketTypeOK, NEW j \in Clicks, submit[j].stage # "none",
           TicketStep \/ UNCHANGED ticketVars
    PROVE  /\ submit'[j].stage # "none" /\ Own(submit'[j]) = Own(submit[j])
           /\ outcome[j] # "none" => tx[j] = "pending" \/ outcome'[j] = outcome[j]
<1>1. submit[j] \in Submissions
    BY ClickedIsTyped
<1>2. ASSUME submit' = submit
      PROVE  submit'[j].stage # "none" /\ Own(submit'[j]) = Own(submit[j])
    BY <1>2
<1>3. ASSUME NEW k \in Clicks,
             NEW next \in Submissions, submit' = [submit EXCEPT ![k] = next],
             next.trader = submit[k].trader, next.holder = submit[k].holder
      PROVE  submit'[j].stage # "none" /\ Own(submit'[j]) = Own(submit[j])
  <2>1. submit'[j] = IF j = k THEN next ELSE submit[j]
      BY <1>3 DEF TicketTypeOK
  <2>2. next.stage # "none"
      BY DEF Submissions
  <2> QED  BY <1>3, <2>1, <2>2 DEF Own
<1>4. ASSUME NEW k \in Clicks, submit[k].stage # "none",
              NEW stage \in {"slot", "simulating", "signing", "confirming", "reading", "done"},
              submit' = [submit EXCEPT ![k].stage = stage]
      PROVE  submit'[j].stage # "none" /\ Own(submit'[j]) = Own(submit[j])
  <2> DEFINE next == [submit[k] EXCEPT !.stage = stage]
  <2>1. submit[k] \in Submissions
      BY <1>4, ClickedIsTyped
  <2>2. /\ next \in Submissions /\ next.trader = submit[k].trader
        /\ next.holder = submit[k].holder
      BY <2>1 DEF Submissions
  <2>3. submit' = [submit EXCEPT ![k] = next]
      BY <1>4
  <2> HIDE DEF next
  <2> QED  BY <1>3, <2>2, <2>3
<1>5. ASSUME NEW k \in Clicks, SlotIsKnown(k)
      PROVE  submit'[j].stage # "none" /\ Own(submit'[j]) = Own(submit[j])
  <2>1. submit[k].stage = "slot" /\ submit[k] \in Submissions
    <3>1. submit[k].stage = "slot"
        BY <1>5 DEF SlotIsKnown
    <3> QED  BY <3>1, ClickedIsTyped
  <2> DEFINE expiry == clock + OrderLife
             now2 == [submit[k] EXCEPT !.stage = "simulating", !.args.expiry = expiry]
  <2>2. submit' = [submit EXCEPT ![k] = now2]
      BY <1>5 DEF SlotIsKnown, TicketTypeOK
  <2> HIDE DEF expiry
  <2>3. /\ now2.stage = "simulating" /\ now2.trader = submit[k].trader
        /\ now2.holder = submit[k].holder
      BY <2>1 DEF Submissions
  <2> HIDE DEF now2
  <2>4. submit'[j] = IF j = k THEN now2 ELSE submit[j]
      BY <2>2 DEF TicketTypeOK
  <2> QED  BY <2>3, <2>4 DEF Own
<1>6. ASSUME NEW k \in Clicks, NEW side \in Sides, Click(k, side)
      PROVE  submit'[j].stage # "none" /\ Own(submit'[j]) = Own(submit[j])
  <2>1. j # k
      BY <1>6 DEF Click
  <2>2. PICK call : submit' = [submit EXCEPT ![k] = call]
      BY <1>6 DEF Click
  <2>3. submit'[j] = submit[j]
      BY <2>1, <2>2 DEF TicketTypeOK
  <2> QED  BY <2>3
<1>7. ASSUME NEW k \in Clicks, Simulated(k) \/ Signed(k) \/ SeenFinalized(k)
                                 \/ ReadsPosition(k) \/ Throws(k)
      PROVE  submit'[j].stage # "none" /\ Own(submit'[j]) = Own(submit[j])
    BY <1>4, <1>7 DEF Simulated, Signed, SeenFinalized, ReadsPosition, Throws, Goes
<1>8. ASSUME NEW k \in Clicks, TransactionLands(k) \/ TransactionExpires(k)
      PROVE  /\ submit' = submit
             /\ outcome'[j] = outcome[j] \/ tx[j] = "pending"
    BY <1>8 DEF TransactionLands, TransactionExpires, TicketTypeOK
<1>9. ASSUME NEW k \in Clicks,
             \/ \E side \in Sides : Click(k, side)
             \/ SlotIsKnown(k) \/ Simulated(k) \/ Signed(k) \/ SeenFinalized(k)
             \/ ReadsPosition(k) \/ Throws(k)
      PROVE  outcome' = outcome
    BY <1>9, Zenon DEF Click, SlotIsKnown, Simulated, Signed, SeenFinalized, ReadsPosition,
                       Throws
<1>10. CASE UNCHANGED ticketVars \/ RefreshStep
  <2>1. submit' = submit /\ outcome' = outcome
      BY <1>10, ReadingsLeaveClicks DEF ticketVars
  <2> QED  BY <1>2, <2>1
<1> QED  BY <1>2, <1>5, <1>6, <1>7, <1>8, <1>9, <1>10, Zenon DEF TicketStep

\* A result that is shown stays what it was, and the next one is compared with what the
\* click knew.
LEMMA ResultStaysKnown ==
    ASSUME V2Assumption, TicketAssumption, V2Inv, TicketTypeOK, CallsKnow, ResultKnown,
           MarketStep, TicketStep \/ UNCHANGED ticketVars
    PROVE  ResultKnown'
<1>1. ASSUME page'.state = "REFUNDED" => page.state = "REFUNDED" /\ page'.shown = page.shown
      PROVE  ResultKnown'
  <2> SUFFICES ASSUME page'.state = "REFUNDED"
               PROVE  /\ page'.shown \in Clicks /\ submit'[page'.shown].stage # "none"
                      /\ Own(submit'[page'.shown]) => outcome'[page'.shown] = "refunded"
      BY DEF ResultKnown
  <2> DEFINE k == page.shown
  <2>1. /\ k \in Clicks /\ submit[k].stage # "none" /\ page'.shown = k
        /\ Own(submit[k]) => outcome[k] = "refunded"
      BY <1>1 DEF ResultKnown
  <2> HIDE DEF k
  <2>2. outcome[k] = "refunded" => tx[k] # "pending"
      BY <2>1 DEF CallsKnow, CallKnows
  <2>3. /\ submit'[k].stage # "none" /\ Own(submit'[k]) = Own(submit[k])
        /\ outcome[k] # "none" => tx[k] = "pending" \/ outcome'[k] = outcome[k]
      BY <2>1, ClicksStay
  <2> QED  BY <2>1, <2>2, <2>3
<1>2. CASE UNCHANGED ticketVars
    BY <1>1, <1>2 DEF ticketVars
<1>3. CASE RefreshStep
  <2>1. \/ page' = page
        \/ \E w : page' = [page EXCEPT !.wallet = w]
        \/ \E m : page' = [page EXCEPT !.market = m]
        \/ \E m, x, w : page' = [page EXCEPT !.market = m, !.accepted = x, !.holder = w]
        \/ \E x, w : page' = [page EXCEPT !.accepted = x, !.holder = w]
        \/ page' = [page EXCEPT !.state = "ERROR"]
        \/ page' = [page EXCEPT !.state = page.state]
    <3>1. \A w \in Connected : ConnectWallet(w) => page' = [page EXCEPT !.wallet = w]
        BY DEF ConnectWallet
    <3>2. \A r \in Refreshes : RefreshAgain(r) => page' = page
        BY DEF RefreshAgain
    <3>3. \A r \in Readings : ReadSnapshot(r) \/ ReadPositions(r) => page' = page
        BY DEF ReadSnapshot, ReadPositions
    <3>4. ASSUME NEW r \in Readings, ShowSnapshot(r)
          PROVE  \/ \E m, x, w : page' =
                        [page EXCEPT !.market = m, !.accepted = x, !.holder = w]
                 \/ \E m : page' = [page EXCEPT !.market = m]
      <4>1. \/ page' = [page EXCEPT !.market = refresh[r].market,
                                    !.accepted = NoPositions, !.holder = Nobody]
            \/ page' = [page EXCEPT !.market = refresh[r].market]
          BY <3>4 DEF ShowSnapshot
      <4> QED  BY <4>1, Zenon
    <3>5. \A r \in Readings : ShowPositions(r) =>
              \E x, w : page' = [page EXCEPT !.accepted = x, !.holder = w]
        BY DEF ShowPositions
    <3>6. \A r \in Readings : RefreshFails(r) =>
              \/ page' = [page EXCEPT !.state = "ERROR"]
              \/ page' = [page EXCEPT !.state = page.state]
        BY DEF RefreshFails
    <3> QED  BY <1>3, <3>1, <3>2, <3>3, <3>4, <3>5, <3>6, Zenon DEF RefreshStep, Connected
  <2>2. page'.shown = page.shown /\ (page'.state = page.state \/ page'.state = "ERROR")
      BY <2>1 DEF TicketTypeOK
  <2> QED  BY <1>1, <2>2
<1>4. ASSUME NEW k \in Clicks,
             \/ \E side \in Sides : Click(k, side)
             \/ SlotIsKnown(k) \/ Simulated(k) \/ Signed(k) \/ SeenFinalized(k)
             \/ Throws(k) \/ TransactionLands(k) \/ TransactionExpires(k)
      PROVE  ResultKnown'
  <2>1. \/ page' = page
        \/ page' = [page EXCEPT !.state = "ERROR", !.shown = k]
        \/ \E state \in {"SIMULATING", "AWAITING_SIGNATURE", "CONFIRMING"} :
              page' = [page EXCEPT !.state = state]
      BY <1>4, Zenon DEF Click, SlotIsKnown, Simulated, Signed, SeenFinalized, Throws,
                         TransactionLands, TransactionExpires, Show
  <2>2. page' = page \/ page'.state # "REFUNDED"
      BY <2>1 DEF TicketTypeOK
  <2> QED  BY <1>1, <2>2
<1>5. ASSUME NEW k \in Clicks, ReadsPosition(k)
      PROVE  ResultKnown'
  <2> DEFINE call == submit[k]
             side == call.args.side
             p == <<call.trader, side>>
             more == ReadBack(k) > call.previous
  <2>1. /\ call.stage = "reading" /\ submit' = [submit EXCEPT ![k].stage = "done"]
        /\ Exists(v2.position[p]) /\ outcome' = outcome
        /\ page' = [page EXCEPT !.state = IF more THEN "POSITION_OPENED" ELSE "REFUNDED",
                                !.shown = k]
      BY <1>5 DEF ReadsPosition, ShowResult, Goes
  <2>2. call \in Submissions
      BY <2>1, ClickedIsTyped
  <2>3. side \in Sides /\ call.trader \in TicketWallets
      BY <2>2 DEF Submissions
  <2>4. ReadBack(k) = AcceptedIn(v2)[p]
      BY <2>3, WalletsPositions DEF ReadBack
  <2>5. CallKnows(call, tx[k], outcome[k], v2)
      BY DEF CallsKnow
  <2>6. Own(call) /\ ~ more => outcome[k] = "refunded"
    <3>1. outcome[k] # "none" /\ (outcome[k] = "accepted" /\ Own(call) => more)
        BY <2>1, <2>4, <2>5 DEF CallKnows
    <3>2. outcome[k] \in {"none", "refunded", "accepted"}
        BY DEF TicketTypeOK
    <3> QED  BY <3>1, <3>2
  <2>7. submit'[k].stage # "none" /\ Own(submit'[k]) = Own(call)
      BY <2>1, ClicksStay, <1>5 DEF TicketStep
  <2> HIDE DEF more, call
  <2>8. page'.shown = k /\ (page'.state = "REFUNDED" => ~ more)
      BY <2>1 DEF TicketTypeOK
  <2> QED  BY <2>1, <2>6, <2>7, <2>8 DEF ResultKnown
<1> QED  BY <1>2, <1>3, <1>4, <1>5, Zenon DEF TicketStep

\* A step of the ticket keeps what the page, its readings and its clicks know.
LEMMA TicketKeepsKnowing ==
    ASSUME V2Assumption, TicketAssumption, V2Inv, TicketTypeOK, TicketKnows, MarketStep,
           TicketStep \/ UNCHANGED ticketVars
    PROVE  TicketKnows'
BY PositionsStayKnown, CallsKeepKnowing, ResultStaysKnown DEF TicketKnows

\* Before the first click there is nothing to know.
LEMMA TicketStartsKnowing ==
    ASSUME V2Assumption, TicketAssumption, V2Init, TicketInit
    PROVE  TicketKnows
<1>1. \A p \in Positions : AcceptedIn(v2)[p] = 0
    BY DEF V2Init, AcceptedIn, Exists
<1>2. ASSUME NEW w \in TicketWallets, NEW side \in Sides
      PROVE  page.accepted[side] <= AcceptedIn(v2)[<<w, side>>]
  <2>1. <<w, side>> \in Positions /\ page.accepted[side] = 0
      BY WalletsPositions DEF TicketInit, NoPositions
  <2> QED  BY <1>1, <2>1
<1>3. \A r \in Readings : refresh[r].stage = "none"
    BY DEF TicketInit, NoRefresh
<1>4. PositionsKnown
    BY <1>2, <1>3 DEF PositionsKnown, AtMostHeld
<1>5. ASSUME NEW k \in Clicks
      PROVE  CallKnows(submit[k], tx[k], outcome[k], v2)
    BY DEF TicketInit, CallKnows, NotClicked
<1>6. ResultKnown
    BY DEF TicketInit, ResultKnown
<1> QED  BY <1>4, <1>5, <1>6 DEF TicketKnows, CallsKnow

\* A refund that is shown was one, or was compared with another wallet's position.
LEMMA KnownRefundIsTrue == ASSUME TicketKnows PROVE RefundShownIsTrue
BY DEF TicketKnows, ResultKnown, Own, RefundShownIsTrue

(***************************************************************************)
(* What a recorded run knows.  The run looks at little: it takes a         *)
(* transaction that landed for a step of its plan done.  Its milestones    *)
(* are the steps whose landing says something for good: the three orders,  *)
(* the second approval, the claim, and the last account's closing.         *)
(*                                                                         *)
(* An order that landed and was refunded has left the vault's counter of   *)
(* refunds higher, one that was accepted the counter of accepted stakes.   *)
(* So when the counters are those of the plan, A and B have bought and     *)
(* C has not, and nobody else has a stake in the market, whatever other    *)
(* runs placed, claimed and closed with the same keys.                     *)
(***************************************************************************)
Milestones == {3, 4, 6, 10, 12, 14}

Landed(call) ==
    { n \in Milestones : /\ call.status # "idle"
                         /\ call.at > n \/ (call.at = n /\ call.tx = "landed") }

PositionA == PositionOfWallet(WalletA)
PositionB == PositionOfWallet(WalletB)
PositionC == PositionOfWallet(WalletC)

Stakes(out) == out[WalletA] + out[WalletB] + out[WalletC]
Untouched(stake) == stake = 0 \/ stake >= STAKE

\* The wallets have no orders but those decided on placing, each has one position, and
\* it holds what the wallet paid in.
WalletsHold(s, out) ==
    /\ \A o \in V2Orders : o.by \in Wallets => ~ Exists(s.order[o])
    /\ \A p \in Positions :
          p[1] \in Wallets /\ Exists(s.position[p]) => p = PositionOfWallet(p[1])
    /\ \A w \in Wallets :
          LET p == PositionOfWallet(w)
          IN  IF Exists(s.position[p]) THEN s.position[p].accepted = out[w]
              ELSE ~ IsClosed(s) => out[w] = 0
    /\ Untouched(out[WalletB]) /\ Untouched(out[WalletC])

\* A's position has not been claimed.
Unclaimed(s) == Exists(s.market) /\ (~ s.market.resolved \/ Exists(s.position[PositionA]))

\* Until then the wallets' stakes are counted in the vault, and if the vault has counted
\* no others then nobody else has any and nothing is paid.
StakesCounted(s, out) ==
    Unclaimed(s) =>
        /\ Untouched(out[WalletA]) /\ Stakes(out) <= s.vault.accepted
        /\ Stakes(out) = s.vault.accepted =>
              /\ s.vault.paid = 0
              /\ \A p \in Positions : p[1] \notin Wallets => AcceptedIn(s)[p] = 0

\* The stakes of the orders that landed, of wallets that have bought nothing.
Missed(done, n, stake) == IF n \in done /\ stake = 0 THEN STAKE ELSE 0
StakesMissed(done, out) ==
    Missed(done, 3, out[WalletA]) + Missed(done, 4, out[WalletB])
        + Missed(done, 6, out[WalletC])

\* A has claimed.  If the market was the plan's, A and B have paid for it alone.
AfterClaim(s, out) ==
    /\ Exists(s.market) /\ s.market.resolved /\ ~ Exists(s.position[PositionA])
    /\ s.vault.accepted = 2 * STAKE /\ s.vault.refunded <= STAKE /\ out[WalletC] = 0 =>
          /\ out[WalletA] + s.vault.paid = STAKE /\ out[WalletB] = STAKE
          /\ \A p \in Positions : p # PositionB => AcceptedIn(s)[p] = 0

AfterClosing(s, out) ==
    IsClosed(s) /\ ~ Exists(s.position[PositionC]) /\ out[WalletC] = 0

Approved(s) == Exists(s.validation) /\ Cardinality(s.validation.approvals) >= 2

\* Of a run that has done these milestones.
RunKnows(s, out, done) ==
    /\ done \cap {3, 4, 6} # {} => Exists(s.market)
    /\ Unclaimed(s) => StakesMissed(done, out) <= s.vault.refunded
    /\ 10 \in done => Approved(s)
    /\ 12 \in done => AfterClaim(s, out)
    /\ 14 \in done => AfterClosing(s, out)

ApprovalsCounted(s) ==
    Exists(s.validation) =>
        IsFiniteSet(s.validation.approvals) /\ s.validation.approvals # {}

\* A record that is written.
RecordStands(s) ==
    Exists(record) =>
        /\ RecordIsTrue
        /\ Exists(s.market) /\ s.market.resolved
        /\ \A w \in Wallets : ~ Exists(s.position[PositionOfWallet(w)])

OnPlan(call) == call.status # "idle" /\ call.tx # "none" => call.at <= 14

ScriptKnows ==
    IF script # "record" THEN ~ Exists(record)
    ELSE /\ WalletsHold(v2, outlay) /\ StakesCounted(v2, outlay)
         /\ ApprovalsCounted(v2) /\ RecordStands(v2)
         /\ \A r \in Runs : OnPlan(run[r]) /\ RunKnows(v2, outlay, Landed(run[r]))

-----------------------------------------------------------------------------
\* A trader whose orders and positions stay as they are has paid and got nothing.
LEMMA OutlayStays ==
    ASSUME V2Assumption, V2Inv, MarketStep, NEW t \in Traders,
           \A o \in V2Orders : o.by = t => v2'.order[o] = v2.order[o],
           \A p \in Positions : p[1] = t => v2'.position[p] = v2.position[p]
    PROVE  outlay'[t] = outlay[t]
<1>1. BooksOf(v2, outlay) /\ outlay \in [Traders -> Int] /\ v2 \in V2Accounts
    BY DEF V2Inv, BooksOf
<1>2. CASE outlay' = outlay
    BY <1>2
<1>3. CASE GovernanceStep \/ ControlStep
    BY <1>3, ControlGrows
<1>4. ASSUME NEW o \in V2Orders, NEW args, TypedArgs(args), PlaceOrderV2(o, args)
      PROVE  outlay'[t] = outlay[t]
  <2>1. ~ Exists(v2.order[o]) /\ v2' = Placed(v2, o, args)
        /\ outlay' = [outlay EXCEPT ![o.by] = @ + args.stake]
        /\ CanPlaceV2(v2, o, args)
      BY <1>4 DEF PlaceOrderV2, CanPlaceV2
  <2>2. Exists(v2'.order[o])
      BY <1>1, <1>4, <2>1, PlacedFields
  <2>3. v2'.order[o] # v2.order[o]
      BY <2>1, <2>2
  <2> QED  BY <1>1, <2>1, <2>3
<1>5. ASSUME NEW o \in V2Orders, NEW args, TypedArgs(args), PlacesAndEvaluates(o, args)
      PROVE  outlay'[t] = outlay[t]
  <2> DEFINE p == <<o.by, args.side>>
             refunded == Refunds(Placed(v2, o, args), o)
  <2>1. /\ p \in Positions /\ args.stake \in Nat \ {0}
        /\ refunded => outlay' = outlay
        /\ ~ refunded => /\ outlay' = [outlay EXCEPT ![o.by] = @ + args.stake]
                         /\ AcceptedIn(v2')[p] = AcceptedIn(v2)[p] + args.stake
      BY <1>1, <1>5, DecidedAtOnce
  <2> HIDE DEF refunded
  <2>2. CASE ~ refunded /\ o.by = t
    <3>1. v2'.position[p] = v2.position[p] /\ AcceptedIn(v2)[p] \in Nat
        BY <1>1, <2>1, <2>2, TotalsTyped
    <3>2. AcceptedIn(v2')[p] = AcceptedIn(v2)[p]
        BY <2>1, <3>1 DEF AcceptedIn
    <3> QED  BY <2>1, <2>2, <3>1, <3>2
  <2>3. CASE ~ refunded /\ o.by # t
      BY <1>1, <2>1, <2>3
  <2> QED  BY <2>1, <2>2, <2>3
<1>6. ASSUME NEW o \in V2Orders, EvaluateOrderV2(o) \/ CancelOrderV2(o)
      PROVE  outlay'[t] = outlay[t]
  <2>1. Exists(v2.order[o])
      BY <1>6 DEF EvaluateOrderV2, CancelOrderV2, CanEvaluateV2
  <2>2. CASE EvaluateOrderV2(o)
    <3>1. /\ CanEvaluateV2(v2, o)
          /\ Refunds(v2, o) \/ SharesOf(v2, o) > 0
          /\ v2' = Evaluated(v2, o)
          /\ outlay' = outlay \/ outlay' = [outlay EXCEPT ![o.by] = @ - v2.order[o].stake]
        BY <2>2 DEF EvaluateOrderV2
    <3>2. v2'.order = [v2.order EXCEPT ![o] = NoAccount]
        BY <1>1, <3>1, EvaluatedTrades
    <3>3. v2'.order[o] # v2.order[o]
        BY <1>1, <2>1, <3>2 DEF V2Accounts, Exists
    <3> QED  BY <1>1, <3>1, <3>3
  <2>3. CASE CancelOrderV2(o)
    <3>1. ~ Exists(v2'.order[o])
        BY <1>1, <2>3, CancelTrades
    <3>2. outlay' = [outlay EXCEPT ![o.by] = @ - v2.order[o].stake]
        BY <2>3 DEF CancelOrderV2
    <3> QED  BY <1>1, <2>1, <3>1, <3>2
  <2> QED  BY <1>6, <2>2, <2>3
<1>7. ASSUME NEW p \in Positions, ClaimPositionV2(p)
      PROVE  outlay'[t] = outlay[t]
  <2>1. /\ Exists(v2.position[p]) /\ ~ Exists(v2'.position[p])
        /\ outlay' = [outlay EXCEPT ![p[1]] = @ - PayoutV2(p)]
      BY <1>1, <1>7, ClaimLeaves DEF Leaves
  <2> QED  BY <1>1, <2>1
<1>8. ASSUME NEW p \in Positions, ClosePositionV2(p)
      PROVE  outlay'[t] = outlay[t]
    BY <1>1, <1>8, CloseLeaves
<1>9. CASE MoneyStep
    BY <1>4, <1>5, <1>6, <1>7, <1>8, <1>9, Zenon DEF MoneyStep
<1>10. CASE ClockTicks \/ UNCHANGED v2Vars
    BY <1>10 DEF ClockTicks, v2Vars
<1> QED  BY <1>3, <1>9, <1>10 DEF MarketStep

\* The wallets' names.
LEMMA WalletNames ==
    ASSUME V2Assumption, RecorderAssumption
    PROVE  /\ \A w \in Wallets :
                 /\ w \in Traders /\ PositionOfWallet(w) \in Positions
                 /\ PositionOfWallet(w)[1] = w
                 /\ OrderOfWallet(w) \in V2Orders /\ OrderOfWallet(w).by = w
           /\ WalletA \in Wallets /\ WalletB \in Wallets /\ WalletC \in Wallets
           /\ WalletA # WalletB /\ WalletA # WalletC /\ WalletB # WalletC
           /\ STAKE \in Nat /\ STAKE > 0
<1>1. \A w \in Wallets : w \in Traders /\ SideOf(w) \in Sides
    BY DEF RecorderAssumption, SideOf, Sides
<1> QED
    BY <1>1 DEF RecorderAssumption, PositionOfWallet, OrderOfWallet, Positions, Wallets

\* What the wallets paid in is a number, and so are the counters of the vault.
LEMMA WalletsPayNumbers ==
    ASSUME V2Assumption, RecorderAssumption, NEW s, NEW out, BooksOf(s, out)
    PROVE  /\ \A w \in Wallets : out[w] \in Int
           /\ \A p \in Positions : AcceptedIn(s)[p] \in Nat
           /\ Exists(s.market) =>
                 /\ s.vault.accepted \in Nat /\ s.vault.refunded \in Nat
                 /\ s.vault.paid \in Nat /\ s.vault.claimable \in Nat
                 /\ s.vault.lamports = s.vault.claimable
                 /\ s.vault.accepted = s.vault.paid + s.vault.claimable
<1>1. \A w \in Wallets : out[w] \in Int
    BY WalletNames DEF BooksOf
<1>2. \A p \in Positions : AcceptedIn(s)[p] \in Nat
    BY TotalsTyped DEF BooksOf
<1>3. ASSUME Exists(s.market)
      PROVE  s.vault \in MarketVault /\ VaultBalances(s)
    BY <1>3, VaultOfMarket DEF BooksOf
<1> QED  BY <1>1, <1>2, <1>3 DEF MarketVault, VaultBalances

\* Approvals are not withdrawn.
LEMMA ApprovalsGrow ==
    ASSUME V2Assumption, V2Inv, MarketStep, ApprovalsCounted(v2)
    PROVE  ApprovalsCounted(v2') /\ (Approved(v2) => Approved(v2'))
<1> DEFINE old == v2.validation.approvals
           new == v2'.validation.approvals
<1>1. MarketGrows(v2, v2')
    BY StepGrows
<1>2. CASE ~ Exists(v2'.validation)
    BY <1>1, <1>2 DEF MarketGrows, ApprovalsCounted, Approved
<1>3. CASE Exists(v2'.validation) /\ ~ Exists(v2.validation)
  <2>1. \E k : new = {k}
      BY <1>1, <1>3 DEF MarketGrows
  <2>2. PICK k : new = {k}
      BY <2>1
  <2>3. IsFiniteSet(new) /\ new # {}
      BY <2>2, FS_Singleton
  <2> QED  BY <1>3, <2>3 DEF ApprovalsCounted, Approved
<1>4. CASE Exists(v2'.validation) /\ Exists(v2.validation)
  <2>1. old \subseteq new /\ \E k : new \subseteq old \cup {k}
      BY <1>1, <1>4 DEF MarketGrows
  <2>2. IsFiniteSet(old) /\ old # {}
      BY <1>4 DEF ApprovalsCounted
  <2>3. PICK k : new \subseteq old \cup {k}
      BY <2>1
  <2> HIDE DEF old, new
  <2>4. IsFiniteSet(old \cup {k})
      BY <2>2, FS_AddElement
  <2>5. IsFiniteSet(new)
      BY <2>3, <2>4, FS_Subset
  <2>6. Cardinality(old) <= Cardinality(new)
      BY <2>1, <2>5, FS_Subset
  <2>7. Cardinality(old) \in Nat /\ Cardinality(new) \in Nat
      BY <2>2, <2>5, FS_CardinalityType
  <2>8. Cardinality(old) >= 2 => Cardinality(new) >= 2
      BY <2>6, <2>7
  <2> QED  BY <1>4, <2>1, <2>2, <2>5, <2>8 DEF ApprovalsCounted, Approved, old, new
<1> QED  BY <1>2, <1>3, <1>4

-----------------------------------------------------------------------------
(* A step that is none of the wallets'.                                    *)
Foreign ==
    \A w \in Wallets :
        /\ outlay'[w] = outlay[w]
        /\ \A o \in V2Orders : o.by = w => v2'.order[o] = v2.order[o]
        /\ \A p \in Positions : p[1] = w => v2'.position[p] = v2.position[p]

\* Of the wallets' accounts, such a step leaves everything as it is.
LEMMA ForeignLeaves ==
    ASSUME V2Assumption, RecorderAssumption, Foreign
    PROVE  /\ outlay'[WalletA] = outlay[WalletA] /\ outlay'[WalletB] = outlay[WalletB]
           /\ outlay'[WalletC] = outlay[WalletC] /\ Stakes(outlay') = Stakes(outlay)
           /\ v2'.position[PositionA] = v2.position[PositionA]
           /\ v2'.position[PositionB] = v2.position[PositionB]
           /\ v2'.position[PositionC] = v2.position[PositionC]
           /\ \A w \in Wallets :
                 v2'.position[PositionOfWallet(w)] = v2.position[PositionOfWallet(w)]
<1>1. \A w \in Wallets :
         v2'.position[PositionOfWallet(w)] = v2.position[PositionOfWallet(w)]
    BY WalletNames DEF Foreign
<1> QED  BY <1>1, WalletNames DEF Foreign, Stakes, PositionA, PositionB, PositionC

\* What is known of the wallets' accounts is still known.
LEMMA ForeignHolds ==
    ASSUME V2Assumption, RecorderAssumption, V2Inv, MarketStep, Foreign,
           WalletsHold(v2, outlay)
    PROVE  WalletsHold(v2', outlay')
<1>1. IsClosed(v2) => IsClosed(v2')
    BY StepGrows DEF MarketGrows
<1>2. \A o \in V2Orders : o.by \in Wallets => ~ Exists(v2'.order[o])
    BY DEF Foreign, WalletsHold
<1>3. \A p \in Positions :
          p[1] \in Wallets /\ Exists(v2'.position[p]) => p = PositionOfWallet(p[1])
    BY DEF Foreign, WalletsHold
<1>4. ASSUME NEW w \in Wallets
      PROVE  LET p == PositionOfWallet(w)
             IN  IF Exists(v2'.position[p]) THEN v2'.position[p].accepted = outlay'[w]
                 ELSE ~ IsClosed(v2') => outlay'[w] = 0
  <2>1. /\ v2'.position[PositionOfWallet(w)] = v2.position[PositionOfWallet(w)]
        /\ outlay'[w] = outlay[w]
      BY ForeignLeaves DEF Foreign
  <2> QED  BY <1>1, <2>1 DEF WalletsHold
<1>5. Untouched(outlay'[WalletB]) /\ Untouched(outlay'[WalletC])
    BY ForeignLeaves DEF WalletsHold
<1> QED  BY <1>2, <1>3, <1>4, <1>5 DEF WalletsHold

\* Their stakes are still counted.
LEMMA ForeignCounts ==
    ASSUME V2Assumption, RecorderAssumption, V2Inv, MarketStep, Foreign,
           StakesCounted(v2, outlay)
    PROVE  StakesCounted(v2', outlay')
<1> SUFFICES ASSUME Unclaimed(v2')
             PROVE  /\ Untouched(outlay'[WalletA]) /\ Stakes(outlay') <= v2'.vault.accepted
                    /\ Stakes(outlay') = v2'.vault.accepted =>
                          /\ v2'.vault.paid = 0
                          /\ \A p \in Positions :
                                p[1] \notin Wallets => AcceptedIn(v2')[p] = 0
    BY DEF StakesCounted
<1>1. BooksOf(v2, outlay) /\ BooksOf(v2', outlay')
    BY V2StepKeeps DEF V2Inv
<1>2. /\ outlay'[WalletA] = outlay[WalletA] /\ Stakes(outlay') = Stakes(outlay)
      /\ v2'.position[PositionA] = v2.position[PositionA]
    BY ForeignLeaves
<1>3. MarketGrows(v2, v2')
    BY StepGrows
<1>4. Exists(v2'.market)
    BY DEF Unclaimed
<1>5. Stakes(outlay) \in Int
    BY <1>1, WalletNames, WalletsPayNumbers DEF Stakes
<1>6. \A p \in Positions : AcceptedIn(v2)[p] \in Nat /\ AcceptedIn(v2')[p] \in Nat
    BY <1>1, WalletsPayNumbers
<1>7. v2'.vault.accepted \in Nat
    BY <1>1, <1>4, WalletsPayNumbers
<1>8. CASE ~ Exists(v2.market)
  <2>1. Stakes(outlay) = 0 /\ outlay[WalletA] = 0
      BY <1>1, <1>8, WalletNames DEF BooksOf, NoMarket, Stakes
  <2>2. ~ Trades(v2, v2') /\ ~ \E p \in Positions : Leaves(v2, v2', p)
      BY <1>8 DEF Trades, Leaves
  <2>3. v2'.position = v2.position
      BY <2>2, StepGrows DEF Rests
  <2>4. \A p \in Positions : AcceptedIn(v2')[p] = 0
      BY <1>1, <1>8, <2>3 DEF BooksOf, NoMarket, AcceptedIn
  <2>5. v2'.vault.accepted = 0 => v2'.vault.paid = 0
      BY <1>1, <1>4, WalletsPayNumbers
  <2> QED  BY <1>2, <1>7, <2>1, <2>4, <2>5 DEF Untouched
<1>9. CASE Exists(v2.market)
  <2>1. Unclaimed(v2)
      BY <1>2, <1>3, <1>9 DEF Unclaimed, MarketGrows
  <2>2. /\ Untouched(outlay[WalletA]) /\ Stakes(outlay) <= v2.vault.accepted
        /\ Stakes(outlay) = v2.vault.accepted =>
              /\ v2.vault.paid = 0
              /\ \A p \in Positions : p[1] \notin Wallets => AcceptedIn(v2)[p] = 0
      BY <2>1 DEF StakesCounted
  <2>3. v2.vault.accepted \in Nat
      BY <1>1, <1>9, WalletsPayNumbers
  <2>4. CASE Trades(v2, v2')
    <3>1. /\ v2.vault.accepted <= v2'.vault.accepted /\ v2'.vault.paid = v2.vault.paid
          /\ \A p \in Positions :
                /\ AcceptedIn(v2)[p] <= AcceptedIn(v2')[p]
                /\ AcceptedIn(v2)[p] < AcceptedIn(v2')[p]
                      => v2.vault.accepted < v2'.vault.accepted
        BY <2>4 DEF Trades
    <3>2. CASE Stakes(outlay') = v2'.vault.accepted
      <4>1. v2'.vault.accepted = v2.vault.accepted /\ Stakes(outlay) = v2.vault.accepted
          BY <1>2, <1>5, <1>7, <2>2, <2>3, <3>1, <3>2
      <4>2. \A p \in Positions : AcceptedIn(v2')[p] = AcceptedIn(v2)[p]
          BY <1>6, <2>3, <3>1, <4>1
      <4> QED  BY <1>2, <2>2, <3>1, <4>1, <4>2
    <3>3. Stakes(outlay') <= v2'.vault.accepted
        BY <1>2, <1>5, <1>7, <2>2, <2>3, <3>1
    <3> QED  BY <1>2, <2>2, <3>2, <3>3
  <2>5. ASSUME NEW q \in Positions, Leaves(v2, v2', q)
        PROVE  /\ v2'.vault.accepted = v2.vault.accepted
               /\ v2'.vault.paid # v2.vault.paid => AcceptedIn(v2)[q] > 0
               /\ Exists(v2.position[q]) /\ ~ Exists(v2'.position[q])
               /\ AcceptedIn(v2')[q] = 0
               /\ \A p \in Positions : p # q => AcceptedIn(v2')[p] = AcceptedIn(v2)[p]
    BY <2>5 DEF Leaves, AcceptedIn
  <2>6. ASSUME NEW q \in Positions, Leaves(v2, v2', q)
        PROVE  q[1] \notin Wallets
    <3>1. v2'.position[q] # v2.position[q]
        BY <2>5, <2>6
    <3> QED  BY <3>1 DEF Foreign
  <2>7. CASE \E q \in Positions : Leaves(v2, v2', q)
    <3>1. PICK q \in Positions : Leaves(v2, v2', q)
        BY <2>7
    <3>2. CASE Stakes(outlay') = v2'.vault.accepted
      <4>1. v2.vault.paid = 0 /\ AcceptedIn(v2)[q] = 0
          BY <1>2, <2>2, <2>5, <2>6, <3>1, <3>2
      <4> QED  BY <1>2, <2>2, <2>5, <2>6, <3>1, <3>2, <4>1
    <3> QED  BY <1>2, <2>2, <2>5, <3>1, <3>2
  <2>8. CASE Rests(v2, v2')
    <3>1. v2'.vault = v2.vault /\ AcceptedIn(v2') = AcceptedIn(v2)
        BY <1>9, <2>8 DEF Rests, AcceptedIn
    <3> QED  BY <1>2, <2>2, <3>1
  <2> QED  BY <2>4, <2>7, <2>8, StepGrows
<1> QED  BY <1>8, <1>9

\* What the runs know is still known.
LEMMA ForeignKnows ==
    ASSUME V2Assumption, RecorderAssumption, V2Inv, MarketStep, Foreign,
           ApprovalsCounted(v2), NEW done, RunKnows(v2, outlay, done)
    PROVE  RunKnows(v2', outlay', done)
<1>1. BooksOf(v2, outlay) /\ BooksOf(v2', outlay')
    BY V2StepKeeps DEF V2Inv
<1>2. /\ outlay'[WalletA] = outlay[WalletA] /\ outlay'[WalletB] = outlay[WalletB]
      /\ outlay'[WalletC] = outlay[WalletC]
      /\ v2'.position[PositionA] = v2.position[PositionA]
      /\ v2'.position[PositionB] = v2.position[PositionB]
      /\ v2'.position[PositionC] = v2.position[PositionC]
    BY ForeignLeaves
<1>3. MarketGrows(v2, v2')
    BY StepGrows
<1>4. \A p \in Positions : AcceptedIn(v2)[p] \in Nat /\ AcceptedIn(v2')[p] \in Nat
    BY <1>1, WalletsPayNumbers
<1>5. ASSUME NEW n \in {v2, v2'}, Exists(n.market)
      PROVE  /\ n.vault.accepted \in Nat /\ n.vault.refunded \in Nat
             /\ n.vault.paid \in Nat
    BY <1>1, <1>5, WalletsPayNumbers
<1>6. StakesMissed(done, outlay') = StakesMissed(done, outlay)
    BY <1>2 DEF StakesMissed
\* How a step of a market moves its counters.
<1>7. ASSUME Exists(v2.market)
      PROVE  /\ v2.vault.refunded <= v2'.vault.refunded
             /\ IsClosed(v2) => v2'.vault.accepted = v2.vault.accepted
  <2>1. CASE Trades(v2, v2')
      BY <2>1 DEF Trades
  <2>2. CASE \E p \in Positions : Leaves(v2, v2', p)
      BY <1>5, <1>7, <2>2 DEF Leaves
  <2>3. CASE Rests(v2, v2')
      BY <1>5, <1>7, <2>3 DEF Rests
  <2> QED  BY <2>1, <2>2, <2>3, StepGrows
<1>8. done \cap {3, 4, 6} # {} => Exists(v2'.market)
    BY <1>3 DEF RunKnows, MarketGrows
<1>9. ASSUME Unclaimed(v2')
      PROVE  StakesMissed(done, outlay') <= v2'.vault.refunded
  <2>1. CASE Exists(v2.market)
    <3>1. Unclaimed(v2)
        BY <1>2, <1>3, <1>9, <2>1 DEF Unclaimed, MarketGrows
    <3>2. StakesMissed(done, outlay) <= v2.vault.refunded
        BY <3>1 DEF RunKnows
    <3>3. StakesMissed(done, outlay) \in Int
        BY WalletNames DEF StakesMissed, Missed
    <3>4. v2.vault.refunded \in Nat /\ v2'.vault.refunded \in Nat
        BY <1>5, <1>9, <2>1 DEF Unclaimed
    <3> QED  BY <1>6, <1>7, <2>1, <3>2, <3>3, <3>4
  <2>2. CASE ~ Exists(v2.market)
    <3>1. 3 \notin done /\ 4 \notin done /\ 6 \notin done
        BY <2>2 DEF RunKnows
    <3>2. StakesMissed(done, outlay) = 0
        BY <3>1 DEF StakesMissed, Missed
    <3>3. v2'.vault.refunded \in Nat
        BY <1>5, <1>9 DEF Unclaimed
    <3> QED  BY <1>6, <3>2, <3>3
  <2> QED  BY <2>1, <2>2
<1>10. 10 \in done => Approved(v2')
    BY ApprovalsGrow DEF RunKnows
<1>11. ASSUME 12 \in done
       PROVE  AfterClaim(v2', outlay')
  <2>1. AfterClaim(v2, outlay)
      BY <1>11 DEF RunKnows
  <2>2. Exists(v2.market) /\ v2.market.resolved /\ IsClosed(v2)
      BY <2>1 DEF AfterClaim, IsClosed
  <2>3. Exists(v2'.market) /\ v2'.market.resolved /\ ~ Exists(v2'.position[PositionA])
      BY <1>2, <1>3, <2>1, <2>2 DEF AfterClaim, MarketGrows
  <2>4. ASSUME v2'.vault.accepted = 2 * STAKE, v2'.vault.refunded <= STAKE,
               outlay'[WalletC] = 0
        PROVE  /\ outlay[WalletA] + v2.vault.paid = STAKE /\ outlay[WalletB] = STAKE
               /\ \A p \in Positions : p # PositionB => AcceptedIn(v2)[p] = 0
    <3>1. v2.vault.refunded <= STAKE
        BY <1>5, <1>7, <2>2, <2>3, <2>4, WalletNames
    <3> QED  BY <1>2, <1>7, <2>1, <2>2, <2>4, <3>1 DEF AfterClaim
  <2>5. ASSUME \A p \in Positions : p # PositionB => AcceptedIn(v2)[p] = 0
        PROVE  /\ v2'.vault.paid = v2.vault.paid
               /\ \A p \in Positions : p # PositionB => AcceptedIn(v2')[p] = 0
    <3>1. CASE Trades(v2, v2')
      <4>1. /\ v2'.vault.accepted = v2.vault.accepted /\ v2'.vault.paid = v2.vault.paid
            /\ \A p \in Positions :
                  /\ AcceptedIn(v2)[p] <= AcceptedIn(v2')[p]
                  /\ AcceptedIn(v2)[p] < AcceptedIn(v2')[p]
                        => v2.vault.accepted < v2'.vault.accepted
          BY <2>2, <3>1 DEF Trades
      <4>2. \A p \in Positions : AcceptedIn(v2')[p] = AcceptedIn(v2)[p]
          BY <1>4, <1>5, <2>2, <4>1
      <4> QED  BY <2>5, <4>1, <4>2
    <3>2. ASSUME NEW q \in Positions, Leaves(v2, v2', q)
          PROVE  /\ v2'.vault.paid # v2.vault.paid => AcceptedIn(v2)[q] > 0
                 /\ Exists(v2.position[q]) /\ ~ Exists(v2'.position[q])
                 /\ AcceptedIn(v2')[q] = 0
                 /\ \A p \in Positions : p # q => AcceptedIn(v2')[p] = AcceptedIn(v2)[p]
        BY <3>2 DEF Leaves, AcceptedIn
    <3>3. CASE \E q \in Positions : Leaves(v2, v2', q)
      <4>1. PICK q \in Positions : Leaves(v2, v2', q)
          BY <3>3
      <4>2. q # PositionB
          BY <1>2, <3>2, <4>1
      <4>3. AcceptedIn(v2)[q] = 0
          BY <2>5, <4>2
      <4> QED  BY <2>5, <3>2, <4>1, <4>3
    <3>4. CASE Rests(v2, v2')
      <4>1. v2'.vault = v2.vault /\ AcceptedIn(v2') = AcceptedIn(v2)
          BY <2>2, <3>4 DEF Rests, AcceptedIn
      <4> QED  BY <2>5, <4>1
    <3> QED  BY <3>1, <3>3, <3>4, StepGrows
  <2> QED  BY <1>2, <2>3, <2>4, <2>5 DEF AfterClaim
<1>12. 14 \in done => AfterClosing(v2', outlay')
    BY <1>2, <1>3 DEF RunKnows, AfterClosing, MarketGrows
<1> QED  BY <1>8, <1>9, <1>10, <1>11, <1>12 DEF RunKnows

\* What a record says stays so, once the wallets have no positions: they cannot pay in
\* any more, and the vault is empty for good.
LEMMA ForeignStands ==
    ASSUME V2Assumption, RecorderAssumption, V2Inv, MarketStep, Foreign,
           RecordStands(v2), record' = record
    PROVE  RecordStands(v2)'
<1> SUFFICES ASSUME Exists(record)
             PROVE  /\ RecordIsTrue'
                    /\ Exists(v2'.market) /\ v2'.market.resolved
                    /\ \A w \in Wallets : ~ Exists(v2'.position[PositionOfWallet(w)])
    BY DEF RecordStands
<1>1. BooksOf(v2, outlay) /\ BooksOf(v2', outlay')
    BY V2StepKeeps DEF V2Inv
<1>2. /\ RecordIsTrue /\ Exists(v2.market) /\ v2.market.resolved
      /\ \A w \in Wallets : ~ Exists(v2.position[PositionOfWallet(w)])
    BY DEF RecordStands
<1>3. Exists(v2'.market) /\ v2'.market.resolved
    BY <1>2, StepGrows DEF MarketGrows
<1>4. \A w \in Wallets :
          ~ Exists(v2'.position[PositionOfWallet(w)]) /\ outlay'[w] = outlay[w]
    BY <1>2, ForeignLeaves DEF Foreign
<1>5. v2'.vault.lamports = 0
  <2>1. /\ v2.vault.accepted \in Nat /\ v2.vault.paid \in Nat
        /\ v2.vault.accepted = v2.vault.paid
      BY <1>1, <1>2, WalletsPayNumbers DEF RecordIsTrue
  <2>2. /\ v2'.vault.accepted \in Nat /\ v2'.vault.paid \in Nat
        /\ v2'.vault.claimable \in Nat
        /\ v2'.vault.lamports = v2'.vault.claimable
        /\ v2'.vault.accepted = v2'.vault.paid + v2'.vault.claimable
      BY <1>1, <1>3, WalletsPayNumbers
  <2>3. IsClosed(v2)
      BY <1>2 DEF IsClosed
  <2>4. v2'.vault.accepted = v2.vault.accepted /\ v2.vault.paid <= v2'.vault.paid
    <3>1. CASE Trades(v2, v2')
        BY <2>1, <2>3, <3>1 DEF Trades
    <3>2. CASE \E p \in Positions : Leaves(v2, v2', p)
        BY <3>2 DEF Leaves
    <3>3. CASE Rests(v2, v2')
        BY <1>2, <2>1, <3>3 DEF Rests
    <3> QED  BY <3>1, <3>2, <3>3, StepGrows
  <2> QED  BY <2>1, <2>2, <2>4
<1> QED  BY <1>2, <1>3, <1>4, <1>5 DEF RecordIsTrue

-----------------------------------------------------------------------------
(* The wallets' own transactions.                                          *)
StepOfWallet(w) == IF w = WalletA THEN 3 ELSE IF w = WalletB THEN 4 ELSE 6

\* What an order of wallet w, decided at once, does: its stake is in the wallet's
\* position and in the vault, or given back and counted so.
LEMMA WalletOrder ==
    ASSUME V2Assumption, RecorderAssumption, BooksOf(v2, outlay), WalletsHold(v2, outlay),
           NEW w \in Wallets, NEW args, TypedArgs(args), args.side = SideOf(w),
           args.stake = STAKE, PlacesAndEvaluates(OrderOfWallet(w), args)
    PROVE  LET p == PositionOfWallet(w)
           IN  /\ Trades(v2, v2') /\ ~ IsClosed(v2) /\ p \in Positions
               /\ Exists(v2'.position[p]) /\ v2'.position[p].accepted = outlay'[w]
               /\ \A q \in Positions : q # p => v2'.position[q] = v2.position[q]
               /\ \A o \in V2Orders : v2'.order[o] = v2.order[o]
               /\ \/ /\ outlay' = outlay
                     /\ v2'.vault.refunded = v2.vault.refunded + STAKE
                     /\ v2'.vault.accepted = v2.vault.accepted
                  \/ /\ outlay' = [outlay EXCEPT ![w] = @ + STAKE]
                     /\ v2'.vault.refunded = v2.vault.refunded
                     /\ v2'.vault.accepted = v2.vault.accepted + STAKE
<1> DEFINE o == OrderOfWallet(w)
           p == PositionOfWallet(w)
           refunded == Refunds(Placed(v2, o, args), o)
<1>1. /\ o \in V2Orders /\ o.by = w /\ p = <<o.by, args.side>>
      /\ PlacesAndEvaluates(o, args) /\ w \in Traders
    BY WalletNames DEF PositionOfWallet
<1> HIDE DEF o, p
<1>2. /\ Trades(v2, v2') /\ ~ IsClosed(v2) /\ p \in Positions
      /\ Exists(v2'.position[p])
      /\ \A q \in Positions : q # p => v2'.position[q] = v2.position[q]
      /\ \A q \in V2Orders : v2'.order[q] = v2.order[q]
      /\ refunded =>
            /\ outlay' = outlay
            /\ v2'.vault.refunded = v2.vault.refunded + args.stake
            /\ v2'.vault.accepted = v2.vault.accepted
            /\ AcceptedIn(v2')[p] = AcceptedIn(v2)[p]
      /\ ~ refunded =>
            /\ outlay' = [outlay EXCEPT ![o.by] = @ + args.stake]
            /\ v2'.vault.refunded = v2.vault.refunded
            /\ v2'.vault.accepted = v2.vault.accepted + args.stake
            /\ AcceptedIn(v2')[p] = AcceptedIn(v2)[p] + args.stake
    BY <1>1, DecidedAtOnce
<1> HIDE DEF refunded
<1>3. AcceptedIn(v2)[p] = outlay[w]
    BY <1>2 DEF WalletsHold, AcceptedIn, p
<1>4. v2'.position[p].accepted = AcceptedIn(v2')[p]
    BY <1>2 DEF AcceptedIn
<1>5. outlay \in [Traders -> Int]
    BY DEF BooksOf
<1>6. v2'.position[p].accepted = outlay'[w]
    BY <1>1, <1>2, <1>3, <1>4, <1>5
<1> QED  BY <1>1, <1>2, <1>6 DEF p

\* It keeps what is known, and if it lands for a run then the run knows so too.
LEMMA WalletOrderKeeps ==
    ASSUME V2Assumption, RecorderAssumption, V2Inv, WalletsHold(v2, outlay),
           StakesCounted(v2, outlay), NEW w \in Wallets, NEW args, TypedArgs(args),
           args.side = SideOf(w), args.stake = STAKE,
           PlacesAndEvaluates(OrderOfWallet(w), args)
    PROVE  /\ WalletsHold(v2', outlay') /\ StakesCounted(v2', outlay') /\ ~ IsClosed(v2)
           /\ v2'.validation = v2.validation
           /\ \A done : \A next \in {done, done \cup {StepOfWallet(w)}} :
                 RunKnows(v2, outlay, done) => RunKnows(v2', outlay', next)
<1> DEFINE p == PositionOfWallet(w)
<1>1. BooksOf(v2, outlay)
    BY DEF V2Inv
<1>2. /\ Trades(v2, v2') /\ ~ IsClosed(v2) /\ p \in Positions
      /\ Exists(v2'.position[p]) /\ v2'.position[p].accepted = outlay'[w]
      /\ \A q \in Positions : q # p => v2'.position[q] = v2.position[q]
      /\ \A o \in V2Orders : v2'.order[o] = v2.order[o]
      /\ \/ /\ outlay' = outlay
            /\ v2'.vault.refunded = v2.vault.refunded + STAKE
            /\ v2'.vault.accepted = v2.vault.accepted
         \/ /\ outlay' = [outlay EXCEPT ![w] = @ + STAKE]
            /\ v2'.vault.refunded = v2.vault.refunded
            /\ v2'.vault.accepted = v2.vault.accepted + STAKE
    BY <1>1, WalletOrder
<1> HIDE DEF p
<1>3. /\ Exists(v2.market) /\ Exists(v2'.market) /\ Unclaimed(v2)
      /\ v2'.vault.paid = v2.vault.paid /\ v2'.validation = v2.validation
      /\ ~ v2.market.resolved /\ ~ IsClosed(v2')
    BY <1>2 DEF Trades, IsClosed, Unclaimed
<1>4. /\ outlay[WalletA] \in Int /\ outlay[WalletB] \in Int /\ outlay[WalletC] \in Int
      /\ v2.vault.accepted \in Nat /\ v2.vault.refunded \in Nat /\ STAKE \in Nat /\ STAKE > 0
    BY <1>1, <1>3, WalletNames, WalletsPayNumbers
<1>5. /\ Untouched(outlay[WalletA]) /\ Untouched(outlay[WalletB])
      /\ Untouched(outlay[WalletC]) /\ Stakes(outlay) <= v2.vault.accepted
      /\ Stakes(outlay) = v2.vault.accepted =>
            /\ v2.vault.paid = 0
            /\ \A q \in Positions : q[1] \notin Wallets => AcceptedIn(v2)[q] = 0
    BY <1>3 DEF StakesCounted, WalletsHold
\* The stakes paid in, in the six cases.
<1>6. /\ Untouched(outlay'[WalletA]) /\ Untouched(outlay'[WalletB])
      /\ Untouched(outlay'[WalletC])
      /\ Stakes(outlay') - v2'.vault.accepted = Stakes(outlay) - v2.vault.accepted
      /\ Stakes(outlay) \in Int /\ Stakes(outlay') \in Int /\ v2'.vault.accepted \in Int
  <2>1. CASE outlay' = outlay /\ v2'.vault.accepted = v2.vault.accepted
      BY <1>4, <1>5, <2>1 DEF Stakes
  <2>2. CASE /\ outlay' = [outlay EXCEPT ![w] = @ + STAKE]
             /\ v2'.vault.accepted = v2.vault.accepted + STAKE
    <3>1. \A u \in Wallets :
             outlay'[u] = IF u = w THEN outlay[u] + STAKE ELSE outlay[u]
        BY <1>1, <2>2, WalletNames DEF BooksOf
    <3> QED  BY <1>4, <1>5, <2>2, <3>1, WalletNames DEF Stakes, Untouched, Wallets
  <2> QED  BY <1>2, <2>1, <2>2
<1>7. WalletsHold(v2', outlay')
  <2>1. \A q \in Positions :
           q[1] \in Wallets /\ Exists(v2'.position[q]) => q = PositionOfWallet(q[1])
    <3>1. p[1] = w
        BY WalletNames DEF p
    <3> QED  BY <1>2, <3>1 DEF WalletsHold, p
  <2>2. ASSUME NEW u \in Wallets
        PROVE  LET q == PositionOfWallet(u)
               IN  IF Exists(v2'.position[q]) THEN v2'.position[q].accepted = outlay'[u]
                   ELSE ~ IsClosed(v2') => outlay'[u] = 0
    <3> DEFINE q == PositionOfWallet(u)
    <3>1. CASE u = w
        BY <1>2, <3>1 DEF p
    <3>2. CASE u # w
      <4>1. q \in Positions /\ q # p
          BY <3>2, WalletNames DEF p
      <4>2. v2'.position[q] = v2.position[q]
          BY <1>2, <4>1
      <4>3. outlay'[u] = outlay[u]
          BY <1>1, <1>2, <3>2, WalletNames DEF BooksOf
      <4> QED  BY <1>2, <4>2, <4>3 DEF WalletsHold
    <3> QED  BY <3>1, <3>2
  <2>3. \A o \in V2Orders : o.by \in Wallets => ~ Exists(v2'.order[o])
      BY <1>2 DEF WalletsHold
  <2> QED  BY <1>6, <2>1, <2>2, <2>3 DEF WalletsHold
<1>8. StakesCounted(v2', outlay')
  <2>1. ASSUME NEW q \in Positions, q[1] \notin Wallets
        PROVE  AcceptedIn(v2')[q] = AcceptedIn(v2)[q]
    <3>1. q # p
        BY <2>1, WalletNames DEF p
    <3> QED  BY <1>2, <3>1 DEF AcceptedIn
  <2>2. Stakes(outlay') <= v2'.vault.accepted
      BY <1>4, <1>5, <1>6
  <2>3. Stakes(outlay') = v2'.vault.accepted => Stakes(outlay) = v2.vault.accepted
      BY <1>4, <1>6
  <2> QED  BY <1>3, <1>5, <1>6, <2>1, <2>2, <2>3 DEF StakesCounted
<1>9. ASSUME NEW done, NEW next \in {done, done \cup {StepOfWallet(w)}},
             RunKnows(v2, outlay, done)
      PROVE  RunKnows(v2', outlay', next)
  <2>1. StakesMissed(done, outlay) <= v2.vault.refunded
      BY <1>3, <1>9 DEF RunKnows
  <2>2. /\ 3 \in next => 3 \in done \/ w = WalletA
        /\ 4 \in next => 4 \in done \/ w = WalletB
        /\ 6 \in next => 6 \in done \/ w = WalletC
        /\ 10 \in next => 10 \in done
        /\ 12 \in next => 12 \in done
        /\ 14 \in next => 14 \in done
    <3>1. StepOfWallet(w) \in {3, 4, 6}
        BY DEF StepOfWallet
    <3>2. StepOfWallet(w) = 3 => w = WalletA
        BY DEF StepOfWallet
    <3>3. StepOfWallet(w) = 4 => w = WalletB
        BY DEF StepOfWallet
    <3>4. StepOfWallet(w) = 6 => w = WalletC
        BY DEF StepOfWallet, Wallets
    <3>5. \A n \in next : n \in done \/ n = StepOfWallet(w)
        BY <1>9
    <3> QED  BY <3>1, <3>2, <3>3, <3>4, <3>5
  <2> DEFINE a == Missed(done, 3, outlay[WalletA])
             b == Missed(done, 4, outlay[WalletB])
             c == Missed(done, 6, outlay[WalletC])
             x == Missed(next, 3, outlay'[WalletA])
             y == Missed(next, 4, outlay'[WalletB])
             z == Missed(next, 6, outlay'[WalletC])
  <2>3. StakesMissed(next, outlay') <= v2'.vault.refunded
    <3>1. {a, b, c, x, y, z} \subseteq {0, STAKE}
        BY DEF Missed
    <3>2. a + b + c <= v2.vault.refunded /\ StakesMissed(next, outlay') = x + y + z
        BY <2>1 DEF StakesMissed
    <3>3. CASE outlay' = outlay /\ v2'.vault.refunded = v2.vault.refunded + STAKE
      <4>1. /\ w # WalletA => x <= a
            /\ w # WalletB => y <= b
            /\ w # WalletC => z <= c
          BY <1>4, <2>2, <3>3 DEF Missed
      <4> HIDE DEF a, b, c, x, y, z
      <4> QED  BY <1>4, <3>1, <3>2, <3>3, <4>1, WalletNames
    <3>4. CASE /\ outlay' = [outlay EXCEPT ![w] = @ + STAKE]
               /\ v2'.vault.refunded = v2.vault.refunded
      <4>1. \A u \in Wallets :
               outlay'[u] = IF u = w THEN outlay[u] + STAKE ELSE outlay[u]
          BY <1>1, <3>4, WalletNames DEF BooksOf
      <4>2. ASSUME NEW u \in Wallets, NEW n, n \in next => n \in done \/ u = w
            PROVE  Missed(next, n, outlay'[u]) <= Missed(done, n, outlay[u])
        <5>1. outlay[u] \in Int /\ Untouched(outlay[u])
            BY <1>4, <1>5 DEF Wallets
        <5>2. CASE u = w
          <6>1. outlay'[u] # 0
              BY <1>4, <4>1, <5>1, <5>2 DEF Untouched
          <6> QED  BY <1>4, <6>1 DEF Missed
        <5>3. CASE u # w
          <6>1. outlay'[u] = outlay[u]
              BY <4>1, <5>3
          <6> QED  BY <1>4, <4>2, <5>3, <6>1 DEF Missed
        <5> QED  BY <5>2, <5>3
      <4>3. x <= a /\ y <= b /\ z <= c
          BY <2>2, <4>2, WalletNames
      <4> HIDE DEF a, b, c, x, y, z
      <4> QED  BY <1>4, <3>1, <3>2, <3>4, <4>3
    <3> QED  BY <1>2, <3>3, <3>4
  <2>4. 12 \notin done /\ 14 \notin done
      BY <1>2, <1>3, <1>9 DEF RunKnows, AfterClaim, AfterClosing
  <2>5. 10 \in next => Approved(v2')
      BY <1>3, <1>9, <2>2 DEF RunKnows, Approved
  <2> QED  BY <1>3, <2>2, <2>3, <2>4, <2>5 DEF RunKnows
<1> QED  BY <1>2, <1>3, <1>7, <1>8, <1>9

\* A's claim keeps what is known.  A run whose three orders have landed knows, of a
\* market of the plan's counters, that A and B alone have paid for it: B's stake is
\* there because an order of B landed and only one stake was given back, to C.
LEMMA WalletClaimKeeps ==
    ASSUME V2Assumption, RecorderAssumption, V2Inv, WalletsHold(v2, outlay),
           StakesCounted(v2, outlay), ClaimPositionV2(PositionA)
    PROVE  /\ WalletsHold(v2', outlay') /\ StakesCounted(v2', outlay')
           /\ v2'.validation = v2.validation
           /\ \A done : RunKnows(v2, outlay, done) => RunKnows(v2', outlay', done)
           /\ \A done : {3, 4, 6} \subseteq done /\ RunKnows(v2, outlay, done)
                           => RunKnows(v2', outlay', done \cup {12})
<1> DEFINE payout == PayoutV2(PositionA)
<1>1. BooksOf(v2, outlay) /\ outlay \in [Traders -> Int] /\ v2 \in V2Accounts
    BY DEF V2Inv, BooksOf
<1>2. PositionA \in Positions /\ PositionA[1] = WalletA /\ WalletA \in Traders
    BY WalletNames DEF PositionA
<1>3. /\ Leaves(v2, v2', PositionA) /\ payout \in Nat
      /\ v2'.vault.paid = v2.vault.paid + payout
      /\ outlay' = [outlay EXCEPT ![PositionA[1]] = @ - payout]
      /\ v2.market.resolved
    BY <1>1, <1>2, ClaimLeaves
<1>4. v2.position[PositionA].accepted > 0
    BY DEF ClaimPositionV2, CanClaim
<1> HIDE DEF payout
<1>5. /\ IsClosed(v2) /\ Exists(v2.market) /\ Exists(v2'.market) /\ v2'.market.resolved
      /\ IsClosed(v2')
      /\ v2'.validation = v2.validation /\ v2'.order = v2.order
      /\ v2'.vault.accepted = v2.vault.accepted /\ v2'.vault.refunded = v2.vault.refunded
      /\ Exists(v2.position[PositionA]) /\ ~ Exists(v2'.position[PositionA])
      /\ \A q \in Positions : q # PositionA => v2'.position[q] = v2.position[q]
    BY <1>3 DEF Leaves, IsClosed
<1>6. /\ outlay'[WalletA] = outlay[WalletA] - payout
      /\ \A w \in Wallets : w # WalletA => outlay'[w] = outlay[w]
      /\ outlay'[WalletB] = outlay[WalletB] /\ outlay'[WalletC] = outlay[WalletC]
    BY <1>1, <1>2, <1>3, WalletNames
<1>7. \A w \in Wallets : w # WalletA =>
         v2'.position[PositionOfWallet(w)] = v2.position[PositionOfWallet(w)]
    BY <1>2, <1>5, WalletNames
<1>8. WalletsHold(v2', outlay')
  <2>1. \A w \in Wallets :
          LET q == PositionOfWallet(w)
          IN  IF Exists(v2'.position[q]) THEN v2'.position[q].accepted = outlay'[w]
              ELSE ~ IsClosed(v2') => outlay'[w] = 0
      BY <1>5, <1>6, <1>7 DEF WalletsHold, PositionA
  <2>2. \A q \in Positions :
           q[1] \in Wallets /\ Exists(v2'.position[q]) => q = PositionOfWallet(q[1])
      BY <1>5 DEF WalletsHold
  <2>3. \A o \in V2Orders : o.by \in Wallets => ~ Exists(v2'.order[o])
      BY <1>5 DEF WalletsHold
  <2>4. Untouched(outlay'[WalletB]) /\ Untouched(outlay'[WalletC])
      BY <1>6 DEF WalletsHold
  <2> QED  BY <2>1, <2>2, <2>3, <2>4 DEF WalletsHold
<1>9. ~ Unclaimed(v2') /\ Unclaimed(v2)
    BY <1>5 DEF Unclaimed
<1>10. StakesCounted(v2', outlay')
    BY <1>9 DEF StakesCounted
<1>11. ASSUME NEW done, RunKnows(v2, outlay, done)
       PROVE  RunKnows(v2', outlay', done)
  <2>1. 12 \notin done
      BY <1>5, <1>11 DEF RunKnows, AfterClaim
  <2>2. 14 \in done => AfterClosing(v2', outlay')
    <3>1. v2'.position[PositionC] = v2.position[PositionC]
        BY <1>7, WalletNames DEF PositionC
    <3> QED  BY <1>5, <1>6, <1>11, <3>1 DEF RunKnows, AfterClosing
  <2>3. 10 \in done => Approved(v2')
      BY <1>5, <1>11 DEF RunKnows, Approved
  <2> QED  BY <1>5, <1>9, <2>1, <2>2, <2>3 DEF RunKnows
<1>12. ASSUME NEW done, {3, 4, 6} \subseteq done, RunKnows(v2, outlay, done)
       PROVE  AfterClaim(v2', outlay')
  <2> SUFFICES ASSUME v2'.vault.accepted = 2 * STAKE, v2'.vault.refunded <= STAKE,
                      outlay'[WalletC] = 0
               PROVE  /\ outlay'[WalletA] + v2'.vault.paid = STAKE
                      /\ outlay'[WalletB] = STAKE
                      /\ \A q \in Positions : q # PositionB => AcceptedIn(v2')[q] = 0
      BY <1>5 DEF AfterClaim
  <2>1. /\ outlay[WalletA] \in Int /\ outlay[WalletB] \in Int
        /\ v2.vault.accepted \in Nat /\ v2.vault.refunded \in Nat
        /\ v2.vault.paid \in Nat /\ STAKE \in Nat /\ STAKE > 0
      BY <1>1, <1>5, WalletNames, WalletsPayNumbers
  <2>2. outlay[WalletA] = v2.position[PositionA].accepted
      BY <1>5, WalletNames DEF WalletsHold, PositionA
  <2>3. /\ Untouched(outlay[WalletA]) /\ Stakes(outlay) <= v2.vault.accepted
        /\ Stakes(outlay) = v2.vault.accepted =>
              /\ v2.vault.paid = 0
              /\ \A q \in Positions : q[1] \notin Wallets => AcceptedIn(v2)[q] = 0
      BY <1>9 DEF StakesCounted
  <2>4. outlay[WalletA] >= STAKE
      BY <1>4, <2>1, <2>2, <2>3 DEF Untouched
  <2>5. StakesMissed(done, outlay) <= v2.vault.refunded /\ outlay[WalletC] = 0
      BY <1>6, <1>9, <1>12 DEF RunKnows
  <2>6. outlay[WalletB] # 0
    <3>1. /\ Missed(done, 3, outlay[WalletA]) \in {0, STAKE}
          /\ Missed(done, 6, outlay[WalletC]) = STAKE
          /\ outlay[WalletB] = 0 => Missed(done, 4, outlay[WalletB]) = STAKE
        BY <1>12, <2>5 DEF Missed
    <3> QED  BY <1>5, <2>1, <2>5, <3>1 DEF StakesMissed
  <2>7. outlay[WalletB] >= STAKE
      BY <2>1, <2>6 DEF WalletsHold, Untouched
  <2>8. /\ outlay[WalletA] = STAKE /\ outlay[WalletB] = STAKE
        /\ Stakes(outlay) = v2.vault.accepted
      BY <1>5, <2>1, <2>3, <2>4, <2>5, <2>7 DEF Stakes
  <2>9. v2.vault.paid = 0
      BY <2>3, <2>8
  <2>10. outlay'[WalletA] + v2'.vault.paid = STAKE /\ outlay'[WalletB] = STAKE
      BY <1>3, <1>6, <2>1, <2>8, <2>9
  <2>11. ASSUME NEW q \in Positions, q # PositionB
         PROVE  AcceptedIn(v2')[q] = 0
    <3>1. CASE q = PositionA \/ ~ Exists(v2'.position[q])
        BY <1>5, <3>1 DEF AcceptedIn
    <3>2. CASE q # PositionA /\ Exists(v2'.position[q]) /\ q[1] \in Wallets
      <4>1. q = PositionOfWallet(q[1])
          BY <1>8, <3>2 DEF WalletsHold
      <4>2. q = PositionC
          BY <2>11, <3>2, <4>1 DEF PositionA, PositionB, PositionC, Wallets
      <4>3. v2'.position[q].accepted = outlay'[WalletC]
          BY <1>8, <3>2, <4>2, WalletNames DEF WalletsHold, PositionC
      <4> QED  BY <4>3 DEF AcceptedIn
    <3>3. CASE q # PositionA /\ q[1] \notin Wallets
      <4>1. AcceptedIn(v2')[q] = AcceptedIn(v2)[q]
          BY <1>5, <3>3 DEF AcceptedIn
      <4> QED  BY <2>3, <2>8, <3>3, <4>1
    <3> QED  BY <3>1, <3>2, <3>3
  <2> QED  BY <2>10, <2>11
<1>13. ASSUME NEW done, {3, 4, 6} \subseteq done, RunKnows(v2, outlay, done)
       PROVE  RunKnows(v2', outlay', done \cup {12})
  <2>1. RunKnows(v2', outlay', done) /\ AfterClaim(v2', outlay')
      BY <1>11, <1>12, <1>13
  <2> QED  BY <1>5, <1>9, <2>1 DEF RunKnows
<1> QED  BY <1>5, <1>8, <1>10, <1>11, <1>13

\* So does the closing of B's or C's position, and C's was closed because C has bought
\* nothing.
LEMMA WalletCloseKeeps ==
    ASSUME V2Assumption, RecorderAssumption, V2Inv, WalletsHold(v2, outlay),
           StakesCounted(v2, outlay), NEW w \in {WalletB, WalletC},
           ClosePositionV2(PositionOfWallet(w))
    PROVE  /\ WalletsHold(v2', outlay') /\ StakesCounted(v2', outlay')
           /\ v2'.validation = v2.validation
           /\ \A done : RunKnows(v2, outlay, done) => RunKnows(v2', outlay', done)
           /\ w = WalletC /\ v2.position[PositionC].accepted = 0 =>
                 \A done : RunKnows(v2, outlay, done)
                              => RunKnows(v2', outlay', done \cup {14})
<1> DEFINE p == PositionOfWallet(w)
<1>1. BooksOf(v2, outlay)
    BY DEF V2Inv
<1>2. p \in Positions /\ p[1] = w /\ w \in Wallets /\ p # PositionA
      /\ PositionA \in Positions /\ PositionC \in Positions
    BY WalletNames DEF PositionA, PositionC
<1>3. /\ Leaves(v2, v2', p) /\ outlay' = outlay
      /\ v2'.market = v2.market /\ v2'.vault = v2.vault
    BY <1>1, <1>2, CloseLeaves
<1>4. w = WalletC => p = PositionC
    BY DEF PositionC
<1>5. Exists(v2.position[p]) => v2.position[p].accepted = outlay[w]
    BY <1>2 DEF WalletsHold
<1> HIDE DEF p
<1>6. /\ IsClosed(v2) /\ IsClosed(v2')
      /\ v2'.validation = v2.validation /\ v2'.order = v2.order
      /\ Exists(v2.position[p]) /\ ~ Exists(v2'.position[p])
      /\ \A q \in Positions : q # p => v2'.position[q] = v2.position[q]
    BY <1>3 DEF Leaves, IsClosed
<1>7. WalletsHold(v2', outlay')
  <2>1. \A u \in Wallets :
          LET q == PositionOfWallet(u)
          IN  IF Exists(v2'.position[q]) THEN v2'.position[q].accepted = outlay'[u]
              ELSE ~ IsClosed(v2') => outlay'[u] = 0
      BY <1>3, <1>6, WalletNames DEF WalletsHold
  <2> QED  BY <1>3, <1>6, <2>1 DEF WalletsHold
<1>8. Unclaimed(v2') <=> Unclaimed(v2)
    BY <1>2, <1>3, <1>6 DEF Unclaimed
<1>9. \A q \in Positions : q # p => AcceptedIn(v2')[q] = AcceptedIn(v2)[q]
    BY <1>6 DEF AcceptedIn
<1>10. StakesCounted(v2', outlay')
    BY <1>2, <1>3, <1>8, <1>9 DEF StakesCounted
<1>11. ASSUME NEW done, RunKnows(v2, outlay, done)
       PROVE  RunKnows(v2', outlay', done)
  <2>1. AcceptedIn(v2')[p] = 0
      BY <1>2, <1>6 DEF AcceptedIn
  <2>2. 12 \in done => AfterClaim(v2', outlay')
      BY <1>2, <1>3, <1>6, <1>9, <1>11, <2>1 DEF RunKnows, AfterClaim
  <2>3. 14 \in done => AfterClosing(v2', outlay')
      BY <1>2, <1>3, <1>6, <1>11 DEF RunKnows, AfterClosing
  <2>4. 10 \in done => Approved(v2')
      BY <1>6, <1>11 DEF RunKnows, Approved
  <2> QED  BY <1>3, <1>8, <1>11, <2>2, <2>3, <2>4 DEF RunKnows
<1>12. ASSUME NEW done, RunKnows(v2, outlay, done), w = WalletC,
              v2.position[PositionC].accepted = 0
       PROVE  RunKnows(v2', outlay', done \cup {14})
  <2>1. AfterClosing(v2', outlay')
      BY <1>3, <1>4, <1>5, <1>6, <1>12 DEF AfterClosing
  <2>2. RunKnows(v2', outlay', done)
      BY <1>11, <1>12
  <2>3. StakesMissed(done \cup {14}, outlay') = StakesMissed(done, outlay')
      BY DEF StakesMissed, Missed
  <2> QED  BY <2>1, <2>2, <2>3 DEF RunKnows
<1> QED  BY <1>6, <1>7, <1>10, <1>11, <1>12

-----------------------------------------------------------------------------
(* The plan.                                                               *)

\* The steps of the record's plan, by their numbers.
LEMMA PlanOfRecord ==
    ASSUME script = "record"
    PROVE  /\ Len(Steps) = 14
           /\ Steps[10] = "secondApproval"
           /\ \A n \in 1 .. 14 :
                 /\ Steps[n] = "walletAHonestYes" <=> n = 3
                 /\ Steps[n] = "walletBHonestNo" <=> n = 4
                 /\ Steps[n] = "walletCStaleExploitRefund" <=> n = 6
                 /\ Steps[n] = "walletAClaim" <=> n = 12
                 /\ Steps[n] = "walletCCloseRefunded" <=> n = 14
                 /\ Steps[n] = "walletBCloseLoss" <=> n = 13
<1>1. Steps = << "fundWallets", "initialize", "walletAHonestYes", "walletBHonestNo",
            "materialEventAndOdds", "walletCStaleExploitRefund", "reprice", "close",
            "txlineCpiProof", "secondApproval", "resolution", "walletAClaim",
            "walletBCloseLoss", "walletCCloseRefunded" >>
    BY DEF Steps
<1>2. \A n \in 1 .. 14 : n \in {1, 2, 3, 4, 5, 6, 7, 8, 9, 10, 11, 12, 13, 14}
    OBVIOUS
<1> QED  BY <1>1, <1>2

\* What lands for a run is a step of the market's authorities, or an order, a claim or a
\* closing of the wallets, as the plan has it.
LEMMA PerformsPlan ==
    ASSUME V2Assumption, RecorderAssumption, V2Inv, NEW r, run[r] \in StartedRuns,
           NEW n \in 1 .. 14, script = "record", NEW set \in OperatorRoles,
           Performs(r, Steps[n], set)
    PROVE  /\ MarketStep
           /\ \/ /\ Foreign /\ n \notin {3, 4, 6, 12, 14}
                 /\ n = 10 => \E k : ApproveResolutionV2(k)
              \/ \E w \in Wallets :
                    /\ n = StepOfWallet(w) /\ TypedArgs(OrderArgsOf(r, w))
                    /\ PlacesAndEvaluates(OrderOfWallet(w), OrderArgsOf(r, w))
              \/ n = 12 /\ ClaimPositionV2(PositionA)
              \/ n = 13 /\ ClosePositionV2(PositionB)
              \/ /\ n = 14 /\ ClosePositionV2(PositionC)
                 /\ v2.position[PositionC].accepted = 0
<1> DEFINE step == Steps[n]
<1>1. MarketStep
    BY PerformsIsMarketStep
<1>2. /\ step = "walletAHonestYes" <=> n = 3
      /\ step = "walletBHonestNo" <=> n = 4
      /\ step = "walletCStaleExploitRefund" <=> n = 6
      /\ step = "walletAClaim" <=> n = 12
      /\ step = "walletCCloseRefunded" <=> n = 14
      /\ step = "walletBCloseLoss" <=> n = 13
      /\ n = 10 => step = "secondApproval"
    BY PlanOfRecord
<1>3. ASSUME GovernanceStep \/ ControlStep \/ UNCHANGED v2Vars
      PROVE  Foreign
  <2>1. CASE GovernanceStep \/ ControlStep
      BY <2>1, ControlGrows DEF Foreign
  <2>2. CASE UNCHANGED v2Vars
      BY <2>2 DEF Foreign, v2Vars
  <2> QED  BY <1>3, <2>1, <2>2
<1>4. Performs(r, step, set)
    OBVIOUS
<1> HIDE DEF step
<1>5. ASSUME step \in ControlSteps
      PROVE  n \notin {3, 4, 6, 12, 14}
    BY <1>2, <1>5 DEF ControlSteps
<1>6. ASSUME NEW w \in Wallets, step = OrderStep(w)
      PROVE  n = StepOfWallet(w)
    BY <1>2, <1>6, WalletNames DEF OrderStep, StepOfWallet, Wallets
<1>7. \/ /\ step \in ControlSteps
         /\ GovernanceStep \/ ControlStep \/ UNCHANGED v2Vars
         /\ step = "secondApproval" => \E k : ApproveResolutionV2(k)
      \/ \E w \in Wallets :
            /\ step = OrderStep(w) /\ TypedArgs(OrderArgsOf(r, w))
            /\ PlacesAndEvaluates(OrderOfWallet(w), OrderArgsOf(r, w))
      \/ step = "walletAClaim" /\ ClaimPositionV2(PositionA)
      \/ step = "walletBCloseLoss" /\ ClosePositionV2(PositionB)
      \/ /\ step = "walletCCloseRefunded"
         /\ v2.position[PositionC].accepted = 0 /\ ClosePositionV2(PositionC)
    BY <1>4, PerformsOf DEF PositionA, PositionB, PositionC
<1>8. CASE /\ step \in ControlSteps
           /\ GovernanceStep \/ ControlStep \/ UNCHANGED v2Vars
           /\ step = "secondApproval" => \E k : ApproveResolutionV2(k)
    BY <1>1, <1>2, <1>3, <1>5, <1>8
<1>9. CASE \E w \in Wallets :
              /\ step = OrderStep(w) /\ TypedArgs(OrderArgsOf(r, w))
              /\ PlacesAndEvaluates(OrderOfWallet(w), OrderArgsOf(r, w))
    BY <1>1, <1>6, <1>9, Zenon
<1>10. CASE \/ step = "walletAClaim" /\ ClaimPositionV2(PositionA)
            \/ step = "walletBCloseLoss" /\ ClosePositionV2(PositionB)
            \/ /\ step = "walletCCloseRefunded"
               /\ v2.position[PositionC].accepted = 0 /\ ClosePositionV2(PositionC)
    BY <1>1, <1>2, <1>10, Zenon
<1> QED  BY <1>7, <1>8, <1>9, <1>10

\* A run's milestones are those behind it, and the one it is at once that has landed.
LEMMA LandedMoves ==
    ASSUME NEW call \in StartedRuns
    PROVE  /\ \A next : next.status # "idle" /\ next.at = call.at
                        /\ (next.tx = "landed" <=> call.tx = "landed")
                           => Landed(next) = Landed(call)
           /\ \A next : next.status # "idle" /\ next.at = call.at + 1
                        /\ next.tx = "none" /\ call.tx = "landed"
                           => Landed(next) = Landed(call)
           /\ \A next : next.status # "idle" /\ next.at = call.at
                        /\ next.tx = "landed" /\ call.tx # "landed"
                           => /\ call.at \in Milestones =>
                                    Landed(next) = Landed(call) \cup {call.at}
                              /\ call.at \notin Milestones => Landed(next) = Landed(call)
           /\ \A n \in Milestones : n < call.at => n \in Landed(call)
           /\ \A n \in Milestones : n \in Landed(call) => n <= call.at
<1>1. call.at \in Nat /\ call.status # "idle" /\ Milestones \subseteq Nat
    BY DEF StartedRuns, Milestones
<1>2. \A x : \A n : n \in Landed(x) <=>
          /\ n \in Milestones /\ x.status # "idle"
          /\ x.at > n \/ (x.at = n /\ x.tx = "landed")
    BY DEF Landed
<1>3. \A n \in Milestones : n \in Nat
    BY <1>1
<1>4. ASSUME NEW next, next.status # "idle", next.at = call.at,
             next.tx = "landed" <=> call.tx = "landed"
      PROVE  Landed(next) = Landed(call)
    BY <1>1, <1>2, <1>4
<1>5. ASSUME NEW next, next.status # "idle", next.at = call.at + 1, next.tx = "none",
             call.tx = "landed"
      PROVE  Landed(next) = Landed(call)
  <2>1. \A n \in Milestones :
           next.at > n \/ (next.at = n /\ next.tx = "landed")
              <=> call.at > n \/ (call.at = n /\ call.tx = "landed")
      BY <1>1, <1>3, <1>5
  <2> QED  BY <1>1, <1>2, <1>5, <2>1
<1>6. ASSUME NEW next, next.status # "idle", next.at = call.at, next.tx = "landed",
             call.tx # "landed"
      PROVE  /\ call.at \in Milestones => Landed(next) = Landed(call) \cup {call.at}
             /\ call.at \notin Milestones => Landed(next) = Landed(call)
    BY <1>1, <1>2, <1>6
<1>7. \A n \in Milestones : n < call.at => n \in Landed(call)
    BY <1>1, <1>2, <1>3
<1>8. \A n \in Milestones : n \in Landed(call) => n <= call.at
    BY <1>1, <1>2, <1>3
<1> QED  BY <1>4, <1>5, <1>6, <1>7, <1>8

\* What a run that has landed its second approval knows.
LEMMA SecondApproval ==
    ASSUME V2Assumption, V2Inv, ApprovalsCounted(v2), NEW k, ApproveResolutionV2(k)
    PROVE  Approved(v2')
<1> DEFINE old == v2.validation.approvals
<1>1. /\ Exists(v2.validation) /\ k \notin old /\ v2 \in V2Accounts
      /\ v2' = [v2 EXCEPT !.validation.approvals = @ \cup {k}]
    BY DEF ApproveResolutionV2, V2Inv, BooksOf
<1>2. v2.validation \in ValidationAccount
    BY <1>1, AccountsTyped
<1>3. /\ v2'.validation.approvals = old \cup {k}
      /\ v2'.validation = [v2.validation EXCEPT !.approvals = old \cup {k}]
    BY <1>1, <1>2 DEF V2Accounts, ValidationAccount
<1>4. IsFiniteSet(old) /\ old # {}
    BY <1>1 DEF ApprovalsCounted
<1>5. Exists(v2'.validation)
  <2>1. ControlStep
      BY Zenon DEF ControlStep
  <2>2. MarketStep
      BY <2>1 DEF MarketStep
  <2> QED  BY <1>1, <2>2, StepGrows DEF MarketGrows
<1> HIDE DEF old
<1>6. Cardinality(old) \in Nat /\ Cardinality(old) # 0
    BY <1>4, FS_CardinalityType, FS_EmptySet
<1>7. Cardinality(old \cup {k}) = Cardinality(old) + 1
    BY <1>1, <1>4, FS_AddElement DEF old
<1>8. Cardinality(old \cup {k}) >= 2
    BY <1>6, <1>7
<1> QED  BY <1>3, <1>5, <1>8 DEF Approved

-----------------------------------------------------------------------------
(* The runs.                                                               *)

\* A transaction that lands keeps what is known, and its run knows what it says.
LEMMA LandsKeeps ==
    ASSUME V2Assumption, RecorderAssumption, V2Inv, RecorderTypeOK, script = "record",
           ScriptKnows, NEW r \in Runs, Lands(r)
    PROVE  ScriptKnows'
<1> DEFINE call == run[r]
           next == [call EXCEPT !.tx = "landed"]
           n == call.at
           done == Landed(call)
<1>1. /\ call.status = "running" /\ call.tx = "pending" /\ run[r] # NoRun
      /\ \E set \in OperatorRoles : Performs(r, Steps[n], set)
      /\ run' = [run EXCEPT ![r] = next]
      /\ script' = "record" /\ record' = record
    BY DEF Lands, NoRun
<1>2. call \in StartedRuns /\ run \in [Runs -> StartedRuns \cup {NoRun}]
    BY <1>1 DEF RecorderTypeOK
<1>3. /\ WalletsHold(v2, outlay) /\ StakesCounted(v2, outlay)
      /\ ApprovalsCounted(v2) /\ RecordStands(v2)
      /\ \A q \in Runs : OnPlan(run[q]) /\ RunKnows(v2, outlay, Landed(run[q]))
    BY DEF ScriptKnows
<1>4. n \in 1 .. 14
    BY <1>1, <1>2, <1>3 DEF StartedRuns, OnPlan
<1>5. next.status # "idle" /\ next.at = n /\ next.tx = "landed" /\ OnPlan(next)
    BY <1>1, <1>2, <1>4 DEF StartedRuns, OnPlan
<1>6. /\ n \in Milestones => Landed(next) = done \cup {n}
      /\ n \notin Milestones => Landed(next) = done
    BY <1>1, <1>2, <1>5, LandedMoves
<1>7. RunKnows(v2, outlay, done)
    BY <1>3
<1>8. /\ MarketStep
      /\ \/ /\ Foreign /\ n \notin {3, 4, 6, 12, 14}
            /\ n = 10 => \E k : ApproveResolutionV2(k)
         \/ \E w \in Wallets :
               /\ n = StepOfWallet(w) /\ TypedArgs(OrderArgsOf(r, w))
               /\ PlacesAndEvaluates(OrderOfWallet(w), OrderArgsOf(r, w))
         \/ n = 12 /\ ClaimPositionV2(PositionA)
         \/ n = 13 /\ ClosePositionV2(PositionB)
         \/ /\ n = 14 /\ ClosePositionV2(PositionC)
            /\ v2.position[PositionC].accepted = 0
  <2>1. PICK set \in OperatorRoles : Performs(r, Steps[n], set)
      BY <1>1
  <2>2. run[r] \in StartedRuns
      BY <1>2
  <2> HIDE DEF n
  <2> QED  BY <1>4, <2>1, <2>2, PerformsPlan
<1>9. \A q \in Runs : run'[q] = IF q = r THEN next ELSE run[q]
    BY <1>1, <1>2
<1> HIDE DEF next, n, done
<1>10. ASSUME WalletsHold(v2', outlay'), StakesCounted(v2', outlay'), RecordStands(v2)',
              \A d : RunKnows(v2, outlay, d) => RunKnows(v2', outlay', d),
              RunKnows(v2', outlay', Landed(next))
       PROVE  ScriptKnows'
  <2>1. ApprovalsCounted(v2')
      BY <1>3, <1>8, ApprovalsGrow
  <2>2. ASSUME NEW q \in Runs
        PROVE  OnPlan(run'[q]) /\ RunKnows(v2', outlay', Landed(run'[q]))
      BY <1>3, <1>5, <1>9, <1>10
  <2> QED  BY <1>1, <1>10, <2>1, <2>2 DEF ScriptKnows
\* There is no record as long as a wallet can still trade or claim.
<1>11. ASSUME Exists(record)
       PROVE  IsClosed(v2) /\ \A w \in Wallets : ~ Exists(v2.position[PositionOfWallet(w)])
    BY <1>3, <1>11 DEF RecordStands, IsClosed
<1>12. ~ Exists(record) => RecordStands(v2)'
    BY <1>1 DEF RecordStands, Exists
<1>13. CASE /\ Foreign /\ n \notin {3, 4, 6, 12, 14}
            /\ n = 10 => \E k : ApproveResolutionV2(k)
  <2>1. WalletsHold(v2', outlay') /\ StakesCounted(v2', outlay') /\ RecordStands(v2)'
      BY <1>1, <1>3, <1>8, <1>13, ForeignHolds, ForeignCounts, ForeignStands
  <2>2. \A d : RunKnows(v2, outlay, d) => RunKnows(v2', outlay', d)
      BY <1>3, <1>8, <1>13, ForeignKnows
  <2>3. RunKnows(v2', outlay', Landed(next))
    <3>1. CASE n = 10
      <4>1. Approved(v2')
          BY <1>3, <1>13, <3>1, SecondApproval
      <4>2. RunKnows(v2', outlay', done) /\ Landed(next) = done \cup {10}
          BY <1>6, <1>7, <2>2, <3>1 DEF Milestones
      <4>3. StakesMissed(done \cup {10}, outlay') = StakesMissed(done, outlay')
          BY DEF StakesMissed, Missed
      <4> QED  BY <4>1, <4>2, <4>3 DEF RunKnows
    <3>2. CASE n # 10
      <4>1. n \notin Milestones
          BY <1>13, <3>2 DEF Milestones
      <4> QED  BY <1>6, <1>7, <2>2, <4>1
    <3> QED  BY <3>1, <3>2
  <2> QED  BY <1>10, <2>1, <2>2, <2>3
<1>14. ASSUME NEW w \in Wallets, n = StepOfWallet(w), TypedArgs(OrderArgsOf(r, w)),
              PlacesAndEvaluates(OrderOfWallet(w), OrderArgsOf(r, w))
       PROVE  ScriptKnows'
  <2> DEFINE args == OrderArgsOf(r, w)
  <2>1. args.side = SideOf(w) /\ args.stake = STAKE
      BY DEF OrderArgsOf
  <2> HIDE DEF args
  <2>2. /\ WalletsHold(v2', outlay') /\ StakesCounted(v2', outlay') /\ ~ IsClosed(v2)
        /\ \A d : \A x \in {d, d \cup {StepOfWallet(w)}} :
              RunKnows(v2, outlay, d) => RunKnows(v2', outlay', x)
    <3>1. TypedArgs(args) /\ PlacesAndEvaluates(OrderOfWallet(w), args)
        BY <1>14 DEF args
    <3> QED  BY <1>3, <2>1, <3>1, WalletOrderKeeps
  <2>3. n \in Milestones
      BY <1>14 DEF StepOfWallet, Milestones
  <2>4. RecordStands(v2)'
      BY <1>11, <1>12, <2>2
  <2>5. Landed(next) \in {done, done \cup {StepOfWallet(w)}}
      BY <1>6, <1>14, <2>3
  <2> QED  BY <1>7, <1>10, <2>2, <2>4, <2>5
<1>15. CASE n = 12 /\ ClaimPositionV2(PositionA)
  <2>1. {3, 4, 6} \subseteq done
    <3>1. 3 < n /\ 4 < n /\ 6 < n
        BY <1>15
    <3> QED  BY <1>2, <3>1, LandedMoves DEF Milestones, n, done
  <2>2. /\ WalletsHold(v2', outlay') /\ StakesCounted(v2', outlay')
        /\ \A d : RunKnows(v2, outlay, d) => RunKnows(v2', outlay', d)
        /\ RunKnows(v2', outlay', done \cup {12})
      BY <1>3, <1>7, <1>15, <2>1, WalletClaimKeeps
  <2>3. Landed(next) = done \cup {12}
      BY <1>6, <1>15 DEF Milestones
  <2>4. Exists(v2.position[PositionOfWallet(WalletA)])
      BY <1>15 DEF ClaimPositionV2, CanClaim, PositionA
  <2>5. RecordStands(v2)'
      BY <1>11, <1>12, <2>4, WalletNames
  <2> QED  BY <1>10, <2>2, <2>3, <2>5
<1>16. CASE n = 13 /\ ClosePositionV2(PositionB)
  <2>1. /\ WalletsHold(v2', outlay') /\ StakesCounted(v2', outlay')
        /\ \A d : RunKnows(v2, outlay, d) => RunKnows(v2', outlay', d)
      BY <1>3, <1>16, WalletCloseKeeps DEF PositionB
  <2>2. Landed(next) = done
      BY <1>6, <1>16 DEF Milestones
  <2>3. Exists(v2.position[PositionOfWallet(WalletB)])
      BY <1>16 DEF ClosePositionV2, CanClosePosition, PositionB
  <2>4. RecordStands(v2)'
      BY <1>11, <1>12, <2>3, WalletNames
  <2> QED  BY <1>7, <1>10, <2>1, <2>2, <2>4
<1>17. CASE /\ n = 14 /\ ClosePositionV2(PositionC)
            /\ v2.position[PositionC].accepted = 0
  <2>1. /\ WalletsHold(v2', outlay') /\ StakesCounted(v2', outlay')
        /\ \A d : RunKnows(v2, outlay, d) => RunKnows(v2', outlay', d)
        /\ RunKnows(v2', outlay', done \cup {14})
      BY <1>3, <1>7, <1>17, WalletCloseKeeps DEF PositionC
  <2>2. Landed(next) = done \cup {14}
      BY <1>6, <1>17 DEF Milestones
  <2>3. Exists(v2.position[PositionOfWallet(WalletC)])
      BY <1>17 DEF ClosePositionV2, CanClosePosition, PositionC
  <2>4. RecordStands(v2)'
      BY <1>11, <1>12, <2>3, WalletNames
  <2> QED  BY <1>10, <2>1, <2>2, <2>4
<1> QED  BY <1>8, <1>13, <1>14, <1>15, <1>16, <1>17

\* A run that has reached the end writes what the wallets got.
LEMMA WritesTruly ==
    ASSUME V2Assumption, RecorderAssumption, V2Inv, RecorderTypeOK, script = "record",
           ScriptKnows, NEW r \in Runs, Writes(r)
    PROVE  RecordStands(v2)'
<1>1. /\ run[r].status = "running" /\ run[r].at > Len(Steps) /\ run[r] # NoRun
      /\ AsPlanned /\ record' = TheRecord /\ UNCHANGED v2Vars
    BY DEF Writes, NoRun
<1>2. run[r] \in StartedRuns /\ run[r].at \in Nat /\ run[r].at > 14
    BY <1>1, PlanOfRecord DEF RecorderTypeOK, StartedRuns
<1>3. RunKnows(v2, outlay, Landed(run[r]))
    BY DEF ScriptKnows
<1>4. {10, 12, 14} \subseteq Landed(run[r])
    BY <1>2, LandedMoves DEF Milestones
<1>5. Approved(v2) /\ AfterClaim(v2, outlay) /\ AfterClosing(v2, outlay)
    BY <1>3, <1>4 DEF RunKnows
<1>6. /\ v2.vault.accepted = 2 * STAKE /\ v2.vault.refunded = STAKE
      /\ v2.vault.paid = 2 * STAKE /\ v2.vault.claimable = 0
      /\ v2.market.resolved /\ Exists(v2.market)
      /\ \A w \in Wallets : ~ Exists(v2.position[PositionOfWallet(w)])
    BY <1>1, <1>5 DEF AsPlanned, AfterClaim
<1>7. BooksOf(v2, outlay)
    BY DEF V2Inv
<1>8. outlay[WalletA] \in Int /\ STAKE \in Nat /\ v2.vault.lamports = 0
    BY <1>6, <1>7, WalletNames, WalletsPayNumbers
<1>9. /\ outlay[WalletA] = STAKE - 2 * STAKE - 0 /\ outlay[WalletB] = STAKE - 0 - 0
      /\ outlay[WalletC] = STAKE - 0 - STAKE
    BY <1>5, <1>6, <1>8 DEF AfterClaim, AfterClosing
<1>10. \A w \in Wallets :
          outlay[w] = STAKE - TheRecord.payout[w] - TheRecord.refund[w]
    BY <1>9, WalletNames DEF TheRecord, Wallets
<1>11. Cardinality(TheRecord.approvals) >= 2
    BY <1>5 DEF Approved, TheRecord
<1> QED  BY <1>1, <1>6, <1>8, <1>10, <1>11 DEF RecordStands, RecordIsTrue, v2Vars

\* No trader but a script's touches a wallet's accounts.
LEMMA OthersAreForeign ==
    ASSUME ProgramsAssumption, V2Inv, TicketTypeOK, MarketStep,
           OthersStep \/ TicketStep \/ UNCHANGED v2Vars
    PROVE  Foreign
<1>1. V2Assumption /\ TicketAssumption /\ RecorderAssumption
      /\ TicketWallets \cap Wallets = {}
    BY DEF ProgramsAssumption
<1>2. BooksOf(v2, outlay)
    BY DEF V2Inv
<1>3. /\ \A o \in V2Orders : o.by \in Wallets => v2'.order[o] = v2.order[o]
      /\ \A p \in Positions : p[1] \in Wallets => v2'.position[p] = v2.position[p]
  <2>1. CASE OthersStep
      BY <2>1 DEF OthersStep, LeavesScripts
  <2>2. CASE v2' = v2
      BY <2>2
  <2>3. ASSUME NEW k \in Clicks, TransactionLands(k), Executes(k)
        PROVE  /\ \A o \in V2Orders : v2'.order[o] = v2.order[o]
               /\ \A p \in Positions : p[1] \in Wallets => v2'.position[p] = v2.position[p]
    <3> DEFINE args == submit[k].args
               o == OrderOfClick(k)
               p == <<submit[k].trader, args.side>>
    <3>0. submit[k].stage # "none" /\ o.by = submit[k].trader
        BY <2>3 DEF TransactionLands, TicketTypeOK, OrderOfClick, OrderOf2
    <3>1. submit[k] \in Submissions
        BY <3>0, ClickedIsTyped
    <3>2. /\ TypedArgs(args) /\ o \in V2Orders
          /\ p = <<o.by, args.side>> /\ p[1] \notin Wallets
        BY <1>1, <3>0, <3>1 DEF TypedArgs, Submissions, TicketAssumption, OrderOfClick
    <3>4. PlacesAndEvaluates(o, args)
        BY <2>3, <3>0 DEF TransactionLands, Executes, PlacesAndEvaluates
    <3> HIDE DEF args, o, p
    <3>3. /\ \A q \in V2Orders : v2'.order[q] = v2.order[q]
          /\ \A q \in Positions : q # p => v2'.position[q] = v2.position[q]
        BY <1>1, <1>2, <3>2, <3>4, DecidedAtOnce
    <3> QED  BY <3>2, <3>3
  <2>4. CASE TicketStep
    <3>1. UNCHANGED v2 \/ \E k \in Clicks : TransactionLands(k) /\ Executes(k)
        BY <2>4, ReadingsLeaveClicks
           DEF TicketStep, Click, SlotIsKnown, Simulated, Signed, SeenFinalized,
               ReadsPosition, Throws, TransactionLands, TransactionExpires, v2Vars
    <3> QED  BY <1>1, <2>2, <2>3, <3>1
  <2> QED  BY <2>1, <2>2, <2>4 DEF v2Vars
<1>4. ASSUME NEW w \in Wallets
      PROVE  outlay'[w] = outlay[w]
  <2>1. w \in Traders
      BY <1>1 DEF RecorderAssumption
  <2> QED  BY <1>1, <1>3, <2>1, OutlayStays
<1> QED  BY <1>3, <1>4 DEF Foreign

\* What the runs know is true at every step of any user.
LEMMA ScriptKeepsKnowing ==
    ASSUME V2Assumption, RecorderAssumption, V2Inv, RecorderTypeOK, ScriptKnows,
           MarketStep, RecorderStep \/ (Foreign /\ UNCHANGED scriptVars)
    PROVE  ScriptKnows'
<1>1. script' = script
    BY DEF RecorderStep, Start, Send, Lands, GivesUp, Finalized, Writes, scriptVars
<1>2. CASE script # "record"
  <2>1. record' = record
      BY <1>2 DEF RecorderStep, Start, Send, Lands, GivesUp, Finalized, Writes, scriptVars
  <2> QED  BY <1>1, <1>2, <2>1 DEF ScriptKnows, Exists
<1>3. CASE script = "record" /\ \E r \in Runs : Lands(r)
    BY <1>3, LandsKeeps
\* The runs' other steps, and everyone else's, leave the milestones where they are.
<1>4. ASSUME script = "record", Foreign, NEW calls \in [Runs -> StartedRuns \cup {NoRun}],
             run' = calls, record' = record \/ RecordStands(v2)',
             \A q \in Runs : OnPlan(calls[q]) /\ Landed(calls[q]) = Landed(run[q])
      PROVE  ScriptKnows'
  <2>1. /\ WalletsHold(v2, outlay) /\ StakesCounted(v2, outlay)
        /\ ApprovalsCounted(v2) /\ RecordStands(v2)
        /\ \A q \in Runs : RunKnows(v2, outlay, Landed(run[q]))
      BY <1>4 DEF ScriptKnows
  <2>2. /\ WalletsHold(v2', outlay') /\ StakesCounted(v2', outlay')
        /\ ApprovalsCounted(v2') /\ RecordStands(v2)'
      BY <1>4, <2>1, ForeignHolds, ForeignCounts, ForeignStands, ApprovalsGrow
  <2>3. ASSUME NEW q \in Runs
        PROVE  OnPlan(run'[q]) /\ RunKnows(v2', outlay', Landed(run'[q]))
      BY <1>4, <2>1, ForeignKnows
  <2> QED  BY <1>1, <1>4, <2>2, <2>3 DEF ScriptKnows
<1>5. CASE script = "record" /\ Foreign /\ UNCHANGED scriptVars
  <2>1. run \in [Runs -> StartedRuns \cup {NoRun}] /\ \A q \in Runs : OnPlan(run[q])
      BY <1>5 DEF RecorderTypeOK, ScriptKnows
  <2> QED  BY <1>4, <1>5, <2>1 DEF scriptVars
<1>6. ASSUME script = "record", NEW r \in Runs,
             Start(r) \/ Send(r) \/ GivesUp(r) \/ Finalized(r) \/ Writes(r)
      PROVE  ScriptKnows'
  <2>1. UNCHANGED v2Vars
      BY <1>6 DEF Start, Send, GivesUp, Finalized, Writes
  <2>2. Foreign
      BY <2>1 DEF Foreign, v2Vars
  <2>3. record' = record \/ RecordStands(v2)'
      BY <1>6, WritesTruly DEF Start, Send, GivesUp, Finalized
  <2>4. run' \in [Runs -> StartedRuns \cup {NoRun}]
    <3>1. RecorderStep
        BY <1>6 DEF RecorderStep
    <3>2. RecorderTypeOK'
        BY <3>1, BooksAreTyped, RecorderStepKeeps
    <3> QED  BY <3>2 DEF RecorderTypeOK
  <2>5. ASSUME NEW next, run' = [run EXCEPT ![r] = next], OnPlan(next),
               Landed(next) = Landed(run[r])
        PROVE  ScriptKnows'
    <3>1. \A q \in Runs : run'[q] = IF q = r THEN next ELSE run[q]
        BY <2>5 DEF RecorderTypeOK
    <3>2. \A q \in Runs : OnPlan(run'[q]) /\ Landed(run'[q]) = Landed(run[q])
        BY <1>6, <2>5, <3>1 DEF ScriptKnows
    <3> QED  BY <1>4, <1>6, <2>2, <2>3, <2>4, <3>2
  <2>6. CASE Start(r)
    <3> DEFINE next == [status |-> "running", at |-> 1, tx |-> "none",
                        priced_seq |-> 0, odds_seq |-> 0]
    <3>1. run[r].status = "idle" /\ run' = [run EXCEPT ![r] = next]
        BY <2>6 DEF Start
    <3>2. Landed(run[r]) = {}
        BY <3>1 DEF Landed
    <3>3. Landed(next) = {}
        BY DEF Landed, Milestones
    <3>4. OnPlan(next)
        BY DEF OnPlan
    <3> QED  BY <2>5, <3>1, <3>2, <3>3, <3>4
  <2>7. CASE Send(r) \/ GivesUp(r) \/ Finalized(r) \/ Writes(r)
    <3>1. run[r] \in StartedRuns /\ run[r].status = "running"
        BY <2>7 DEF Send, GivesUp, Finalized, Writes, RecorderTypeOK, NoRun
    <3>2. run[r].at \in Nat /\ OnPlan(run[r])
        BY <1>6, <3>1 DEF StartedRuns, ScriptKnows
    <3>3. CASE Send(r)
      <4> DEFINE priced == IF Exists(v2.market) THEN v2.market.priced_at_seq ELSE 0
                 odds == IF Exists(v2.market) THEN v2.market.odds_sequence ELSE 0
                 next == [run[r] EXCEPT !.tx = "pending", !.priced_seq = priced,
                                        !.odds_seq = odds]
      <4>1. /\ run' = [run EXCEPT ![r] = next] /\ run[r].tx = "none"
            /\ run[r].at <= 14
          BY <1>6, <3>3, PlanOfRecord DEF Send, RecorderTypeOK
      <4>2. next.status = "running" /\ next.at = run[r].at /\ next.tx = "pending"
          BY <3>1 DEF StartedRuns
      <4> HIDE DEF next
      <4>3. Landed(next) = Landed(run[r]) /\ OnPlan(next)
          BY <3>1, <4>1, <4>2, LandedMoves DEF OnPlan
      <4> QED  BY <2>5, <4>1, <4>3
    <3>4. CASE GivesUp(r)
      <4> DEFINE next == [run[r] EXCEPT !.status = "stopped"]
      <4>1. run' = [run EXCEPT ![r] = next]
          BY <3>4 DEF GivesUp
      <4>2. next.status = "stopped" /\ next.at = run[r].at /\ next.tx = run[r].tx
          BY <3>1 DEF StartedRuns
      <4> HIDE DEF next
      <4>3. Landed(next) = Landed(run[r]) /\ OnPlan(next)
          BY <3>1, <3>2, <4>2, LandedMoves DEF OnPlan
      <4> QED  BY <2>5, <4>1, <4>3
    <3>5. CASE Finalized(r)
      <4> DEFINE next == [run[r] EXCEPT !.tx = "none", !.at = run[r].at + 1]
      <4>1. run' = [run EXCEPT ![r] = next] /\ run[r].tx = "landed"
          BY <3>5 DEF Finalized
      <4>2. next.status = "running" /\ next.at = run[r].at + 1 /\ next.tx = "none"
          BY <3>1 DEF StartedRuns
      <4> HIDE DEF next
      <4>3. Landed(next) = Landed(run[r]) /\ OnPlan(next)
          BY <3>1, <4>1, <4>2, LandedMoves DEF OnPlan
      <4> QED  BY <2>5, <4>1, <4>3
    <3>6. CASE Writes(r)
      <4> DEFINE next == [run[r] EXCEPT !.status = "done"]
      <4>1. run' = [run EXCEPT ![r] = next]
          BY <3>6 DEF Writes
      <4>2. next.status = "done" /\ next.at = run[r].at /\ next.tx = run[r].tx
          BY <3>1 DEF StartedRuns
      <4> HIDE DEF next
      <4>3. Landed(next) = Landed(run[r]) /\ OnPlan(next)
          BY <3>1, <3>2, <4>2, LandedMoves DEF OnPlan
      <4> QED  BY <2>5, <4>1, <4>3
    <3> QED  BY <2>7, <3>3, <3>4, <3>5, <3>6
  <2> QED  BY <1>6, <2>6, <2>7
<1> QED  BY <1>2, <1>3, <1>5, <1>6 DEF RecorderStep

\* Before the first run there is nothing to know.
LEMMA ScriptStartsKnowing ==
    ASSUME V2Assumption, RecorderAssumption, V2Init, RecorderInit
    PROVE  ScriptKnows
<1>1. /\ \A p \in Positions : ~ Exists(v2.position[p])
      /\ \A o \in V2Orders : ~ Exists(v2.order[o])
      /\ \A t \in Traders : outlay[t] = 0
      /\ ~ Exists(v2.market) /\ ~ Exists(v2.validation) /\ ~ Exists(record)
    BY DEF V2Init, RecorderInit, Exists
<1>2. WalletsHold(v2, outlay)
    BY <1>1, WalletNames DEF WalletsHold, Untouched
<1>3. StakesCounted(v2, outlay) /\ ApprovalsCounted(v2) /\ RecordStands(v2)
    BY <1>1 DEF StakesCounted, Unclaimed, ApprovalsCounted, RecordStands
<1>4. ASSUME NEW r \in Runs
      PROVE  OnPlan(run[r]) /\ RunKnows(v2, outlay, Landed(run[r]))
  <2>1. run[r].status = "idle"
      BY DEF RecorderInit, NoRun
  <2>2. Landed(run[r]) = {} /\ OnPlan(run[r])
      BY <2>1 DEF Landed, OnPlan
  <2> QED  BY <1>1, <2>2 DEF RunKnows, Unclaimed
<1> QED  BY <1>1, <1>2, <1>3, <1>4 DEF ScriptKnows

\* A record that stands is true.
LEMMA KnownRecordIsTrue == ASSUME ScriptKnows PROVE RecordIsTrue
BY DEF ScriptKnows, RecordStands, RecordIsTrue

(***************************************************************************)
(* The whole.                                                              *)
(***************************************************************************)
ProgramsInv ==
    /\ LegacyInv /\ FlowTypeOK
    /\ V2Inv /\ TicketTypeOK /\ RecorderTypeOK
    /\ TicketKnows /\ ScriptKnows

\* Of the second generation, the authorities, the traders, the ticket and the scripts
\* take the program's steps, and no others.
LEMMA SecondIsMarketStep ==
    ASSUME ProgramsAssumption, TicketTypeOK, RecorderTypeOK,
           SecondStep \/ UNCHANGED v2Vars
    PROVE  MarketStep
<1>1. V2Assumption /\ TicketAssumption /\ RecorderAssumption
    BY DEF ProgramsAssumption
<1>2. CASE OthersStep \/ UNCHANGED v2Vars
    BY <1>1, <1>2, NextIsMarketStep DEF OthersStep
<1>3. CASE TicketStep
    BY <1>1, <1>3, TicketIsMarketStep
<1>4. CASE RecorderStep
    BY <1>1, <1>4, RecorderIsMarketStep
<1> QED  BY <1>2, <1>3, <1>4 DEF SecondStep

\* A step of a user of one generation is a step of that program and leaves the other
\* as it is.
LEMMA ProgramsStep ==
    ASSUME ProgramsAssumption, ProgramsInv, [ProgramsNext]_programVars
    PROVE  /\ LegacyStep /\ MarketStep
           /\ FirstStep \/ UNCHANGED flowVars
           /\ TicketStep \/ UNCHANGED ticketVars
           /\ RecorderStep \/ UNCHANGED scriptVars
           /\ \/ RecorderStep
              \/ OthersStep \/ TicketStep \/ UNCHANGED v2Vars
<1>1. /\ FirstStep \/ UNCHANGED flowVars
      /\ SecondStep \/ UNCHANGED <<v2Vars, ticketVars, scriptVars>>
    BY DEF ProgramsNext, programVars, firstVars, secondVars
<1>2. LegacyStep
    BY <1>1, FirstIsLegacyStep DEF ProgramsInv, LegacyStep, flowVars
<1>3. MarketStep
    BY <1>1, SecondIsMarketStep DEF ProgramsInv
<1>4. /\ TicketStep \/ UNCHANGED ticketVars
      /\ RecorderStep \/ UNCHANGED scriptVars
      /\ \/ RecorderStep
         \/ OthersStep \/ TicketStep \/ UNCHANGED v2Vars
    BY <1>1 DEF SecondStep, OthersStep, LeavesTicket, LeavesScripts
<1> QED  BY <1>1, <1>2, <1>3, <1>4

\* A fresh deployment is in order, and so is one on which earlier requests have left
\* a waiting order.
LEMMA ProgramsStart ==
    ASSUME ProgramsAssumption, ProgramsInit
    PROVE  ProgramsInv
<1>1. LegacyAssumption /\ V2Assumption
    BY DEF ProgramsAssumption
<1>2. LegacyInv
  <2>1. CASE LegacyInit
      BY <1>1, <2>1, LegacyStarts
  <2>2. CASE EarlierRequests
      BY <2>2, EarlierStarts
  <2> QED  BY <2>1, <2>2 DEF ProgramsInit, FirstInit, FlowInit
<1>3. FlowTypeOK
    BY DEF ProgramsInit, FirstInit, FlowInit, EarlierRequests, FlowTypeOK
<1>4. V2Inv /\ TicketTypeOK /\ RecorderTypeOK
    BY <1>1, V2Starts, TicketStarts, RecorderStarts DEF ProgramsInit, SecondInit
<1>5. TicketKnows /\ ScriptKnows
    BY TicketStartsKnowing, ScriptStartsKnowing DEF ProgramsInit, SecondInit, ProgramsAssumption
<1> QED  BY <1>2, <1>3, <1>4, <1>5 DEF ProgramsInv

\* No user's step brings either generation out of order, nor what a user knows of its
\* own out of its type.
LEMMA ProgramsStepKeeps ==
    ASSUME ProgramsAssumption, ProgramsInv, [ProgramsNext]_programVars
    PROVE  ProgramsInv'
<1>1. /\ LegacyAssumption /\ FlowAssumption
      /\ V2Assumption /\ TicketAssumption /\ RecorderAssumption
    BY DEF ProgramsAssumption
<1>2. /\ LegacyStep /\ MarketStep
      /\ FirstStep \/ UNCHANGED flowVars
      /\ TicketStep \/ UNCHANGED ticketVars
      /\ RecorderStep \/ UNCHANGED scriptVars
      /\ \/ RecorderStep
         \/ OthersStep \/ TicketStep \/ UNCHANGED v2Vars
    BY ProgramsStep
<1>3. LegacyInv' /\ V2Inv'
    BY <1>1, <1>2, LegacyStepKeeps, V2StepKeeps DEF ProgramsInv
<1>4. FlowTypeOK'
  <2>1. CASE UNCHANGED flow
      BY <2>1 DEF ProgramsInv, FlowTypeOK
  <2>2. CASE \E f \in Flows : FlowStep(f)
      BY <1>1, <2>2, FlowStepKeeps DEF ProgramsInv, LegacyInv
  <2> QED  BY <1>2, <2>1, <2>2 DEF FirstStep, TradersStep, FlowNext, Passerby, flowVars
<1>5. V2TypeOK
    BY <1>1, BooksAreTyped DEF ProgramsInv
<1>6. TicketTypeOK'
    BY <1>1, <1>2, <1>5, TicketStepKeeps DEF ProgramsInv
<1>7. RecorderTypeOK'
    BY <1>1, <1>2, <1>5, RecorderStepKeeps DEF ProgramsInv
<1>8. TicketKnows'
    BY <1>1, <1>2, TicketKeepsKnowing DEF ProgramsInv
<1>9. ScriptKnows'
  <2>1. CASE RecorderStep
      BY <1>1, <1>2, <2>1, ScriptKeepsKnowing DEF ProgramsInv
  <2>2. CASE /\ OthersStep \/ TicketStep \/ UNCHANGED v2Vars
             /\ UNCHANGED scriptVars
    <3>1. Foreign
        BY <1>2, <2>2, OthersAreForeign DEF ProgramsInv
    <3> QED  BY <1>1, <1>2, <2>2, <3>1, ScriptKeepsKnowing DEF ProgramsInv
  <2> QED  BY <1>2, <2>1, <2>2
<1> QED  BY <1>3, <1>4, <1>6, <1>7, <1>8, <1>9 DEF ProgramsInv

\* Under all of the program's users at once, the books of both generations stay in
\* order, and what each user knows of its own keeps its type.
THEOREM ProgramsStayInOrder ==
    ASSUME ProgramsAssumption
    PROVE  ProgramsSpec => []ProgramsInv
<1>1. ProgramsInit => ProgramsInv
    BY ProgramsStart
<1>2. ProgramsInv /\ [ProgramsNext]_programVars => ProgramsInv'
    BY ProgramsStepKeeps
<1> QED  BY <1>1, <1>2, PTL DEF ProgramsSpec

\* Every account keeps the types of lib.rs: no total goes below zero, and a market is
\* marked stale exactly while an event came in after its last pricing.  So do the
\* requests, the ticket and the scripts.
THEOREM ProgramsTyped ==
    ASSUME ProgramsAssumption
    PROVE  ProgramsSpec => []ProgramsTypeOK
<1>1. ProgramsInv => ProgramsTypeOK
    BY BooksAreTyped DEF ProgramsInv, LegacyInv, ProgramsTypeOK, ProgramsAssumption
<1> QED  BY <1>1, ProgramsStayInOrder, PTL

\* The vaults of both generations hold what their markets may still have to pay: the
\* vault that all legacy markets share is the sum of what each has left, every winner
\* and every void can be paid in whatever order claims come, and no order is kept by
\* the program's accounting.
THEOREM MarketsCoveredCorrect ==
    ASSUME ProgramsAssumption
    PROVE  ProgramsSpec => []MarketsAreCovered
<1>1. LegacyAssumption /\ V2Assumption
    BY DEF ProgramsAssumption
<1>2. ProgramsInv => EveryMarketIsCovered /\ ClaimsAreCovered
    BY <1>1, MarketsCovered, ClaimsCovered DEF ProgramsInv
<1>3. ProgramsInv => VaultCoversPositions /\ ClaimsAreNeverBlocked /\ EscrowIsNeverBlocked
    BY <1>1, BooksCover, BooksBackClaims, BooksFreeEscrow DEF ProgramsInv
<1>4. ProgramsInv => MarketsAreCovered
    BY <1>2, <1>3 DEF MarketsAreCovered
<1> QED  BY <1>4, ProgramsStayInOrder, PTL

\* The ticket's mirror of the placement rules says of an order exactly what the program
\* says of it, whoever else uses the program.
THEOREM MirrorStaysFaithful ==
    ASSUME ProgramsAssumption
    PROVE  ProgramsSpec => []MirrorIsFaithful
<1>1. ProgramsInv => MirrorIsFaithful
    BY BooksAreTyped, MirrorAgrees DEF ProgramsInv, ProgramsAssumption
<1> QED  BY <1>1, ProgramsStayInOrder, PTL

\* A ticket that says "refunded" says so of a refunded order, unless the click was made
\* while the page still showed another wallet's position: whoever else trades, however
\* clicks, readings and switches of the wallet overlap, and whatever was read late or
\* lost; and the file of the recorded lifecycle gives each
\* wallet what it got, with two approvals and an empty vault, whatever others did to the
\* market and whichever runs of the script were started or died next to it.
THEOREM OutcomesShownCorrect ==
    ASSUME ProgramsAssumption
    PROVE  ProgramsSpec => []OutcomesShownAreTrue
<1>1. ProgramsInv => OutcomesShownAreTrue
    BY KnownRefundIsTrue, KnownRecordIsTrue DEF ProgramsInv, OutcomesShownAreTrue
<1> QED  BY <1>1, ProgramsStayInOrder, PTL

\* A legacy market that is resolved stays so, with its pools, by the score that was
\* confirmed for it, and a confirmed score is not replaced, whoever sends what.
THEOREM ResultIsFinalCorrect ==
    ASSUME ProgramsAssumption
    PROVE  ProgramsSpec => ResultIsFinal
<1>1. ProgramsInv /\ [ProgramsNext]_programVars =>
        [\A m \in Markets :
          /\ (Exists(receipt[m]) /\ receipt[m].confirmed) => receipt'[m] = receipt[m]
          /\ (Exists(market[m]) /\ market[m].resolution # "None") =>
                /\ market'[m].resolution = market[m].resolution
                /\ market'[m].pool = market[m].pool
          /\ (Exists(market'[m]) /\ market'[m].resolution \in Sides) =>
                /\ Derive(receipt'[m].home, receipt'[m].away) = market'[m].resolution
                /\ receipt'[m].confirmed]_legacyVars
  <2>1. ASSUME ProgramsInv, [ProgramsNext]_programVars
        PROVE  LegacyAssumption /\ LegacyInv /\ LegacyStep
      BY <2>1, ProgramsStep DEF ProgramsAssumption, ProgramsInv
  <2> QED  BY <2>1, ResultsStay
<1> QED  BY <1>1, ProgramsStayInOrder, PTL DEF ProgramsSpec, ResultIsFinal

\* The authorities change only to a set that was proposed a whole timelock before,
\* whatever the market, its traders and the operator's scripts do meanwhile.
THEOREM TimelockHolds ==
    ASSUME ProgramsAssumption
    PROVE  ProgramsSpec => AuthoritiesWaited
<1>1. ProgramsInv /\ [ProgramsNext]_programVars =>
        [Exists(authorities) /\ authorities'.current # authorities.current
            => clock - proposedAt >= AUTHORITY_TIMELOCK
               /\ authorities'.current = authorities.pending]_v2Vars
  <2> SUFFICES ASSUME ProgramsInv, [ProgramsNext]_programVars, Exists(authorities),
                      authorities'.current # authorities.current
               PROVE  /\ clock - proposedAt >= AUTHORITY_TIMELOCK
                      /\ authorities'.current = authorities.pending
      OBVIOUS
  <2>1. MarketStep /\ DueAfterTimelock /\ AUTHORITY_TIMELOCK \in Int
      BY ProgramsStep DEF ProgramsInv, V2Inv, ProgramsAssumption, V2Assumption
  <2> QED  BY <2>1, TheyWaited
<1> QED  BY <1>1, ProgramsStayInOrder, PTL DEF ProgramsSpec, AuthoritiesWaited

(***************************************************************************)
(* What a request of the server may conclude: several requests at once,    *)
(* each between the others and passers-by at the terminal, any of whose    *)
(* transactions may be lost, be refused or land unseen.                    *)
(*                                                                         *)
(* The proof has two halves.  What any order, market and configuration of  *)
(* the server's keep telling, whoever acts (MarketsOfFlows, ClosedByDemos, *)
(* OrdersTell), and what a request knows at each step of its plan          *)
(* (RequestInv): the demos' part of it, DemoAt, says for each step which   *)
(* of the demo's orders are open, what the market looks like, and what the *)
(* proof being gathered has to say.                                        *)
(***************************************************************************)

DemoOrder(f, n) == [market |-> f, by |-> f, n |-> n]
Came(f) == flow[f].stage # "idle"
IsKind(f, kind) == Came(f) /\ flow[f].kind = kind
HasDemo(f) == IsKind(f, "full-demo") \/ IsKind(f, "full-settlement-demo")

(***************************************************************************)
(* The server's markets.                                                   *)
(***************************************************************************)

\* The custom market has a config, and both were described by one caller.
DescribedByCaller(a, c) ==
    /\ Exists(c)
    /\ \E input \in CustomInputs :
          c.commitment = input.commitment /\ a.tolerance = input.tolerance

\* The server opens its markets with prices that are up to date; the plain routes'
\* orders have one stake.  A demo's market is only there for its demo, with the demo's
\* orders; an order in the custom market was described by the request that sent it.
MarketsOfFlows ==
    /\ \A m \in ServersMarkets : VoidedForEvents(m)
    /\ Exists(market[CustomMarket]) =>
          DescribedByCaller(market[CustomMarket], config[CustomMarket])
    /\ \A f \in Flows : Exists(market[f]) => HasDemo(f)
    /\ \A o \in Orders : Exists(order[o]) =>
          /\ o.market = DefaultMarket => order[o].stake = STAKE_LAMPORTS
          /\ o.market \in Flows => \E n \in Sides \cup {"exploit"} : o = DemoOrder(o.market, n)
          /\ o.market = CustomMarket =>
                /\ o.by \in Flows /\ IsKind(o.by, "custom-order")
                /\ Exists(config[CustomMarket])
                /\ config[CustomMarket].commitment = flow[o.by].input.commitment

\* Only a settlement demo closes a market, when its orders have been evaluated.
ClosedByDemos ==
    \A m \in ServersMarkets :
        /\ Exists(market[m])
        /\ market[m].trading_closed \/ market[m].resolution # "None"
        => /\ m \in Flows /\ IsKind(m, "full-settlement-demo") /\ flow[m].pc >= 12
           /\ \A o \in Orders :
                 o.market = m /\ Exists(order[o]) => order[o].status # "Escrowed"

(***************************************************************************)
(* What a request has achieved.                                            *)
(***************************************************************************)
WasEvaluated(o) == Exists(order[o]) /\ order[o].status # "Escrowed"

\* Past the step that does it, on markets others use as well.
PastItsStep(f, n) == Came(f) /\ flow[f].pc > n

RequestKnows(f) ==
    /\ IsKind(f, "ingest-event") /\ PastItsStep(f, 1) =>
          /\ Exists(market[DefaultMarket])
          /\ market[DefaultMarket].material_seq >= CANONICAL_EVENT_SEQ
    /\ IsKind(f, "reprice") /\ PastItsStep(f, 1) =>
          /\ Exists(market[DefaultMarket])
          /\ market[DefaultMarket].displayed = CANONICAL_FAIR_PRICE
    /\ \/ IsKind(f, "evaluate-order") /\ PastItsStep(f, 3)
       \/ IsKind(f, "full-demo") /\ PastItsStep(f, 5)
       \/ IsKind(f, "custom-order") /\ PastItsStep(f, 9)
       => WasEvaluated(EvaluatedBy(f))
    /\ IsKind(f, "custom-order") /\ PastItsStep(f, 4) =>
          Exists(config[CustomMarket])
          /\ config[CustomMarket].commitment = flow[f].input.commitment

\* The market that a request has read shows what the request had done by then, and the
\* event that its order was evaluated at.
SeenShows(f) ==
    Came(f) /\ flow[f].seen # Null =>
        /\ flow[f].kind = "ingest-event" =>
              flow[f].seen.materialSeq >= CANONICAL_EVENT_SEQ
        /\ flow[f].kind = "reprice" => flow[f].seen.displayed = CANONICAL_FAIR_PRICE
        /\ HasProof(f) =>
              /\ WasEvaluated(EvaluatedBy(f))
              /\ order[EvaluatedBy(f)].event <= flow[f].seen.materialSeq

\* An order of the settlement demo.
DemoStake(x, side) == x.side = side /\ x.stake = SETTLEMENT_STAKE_LAMPORTS
Counted(x) ==
    IF Exists(x) /\ x.status \in {"Filled", "Settled"} THEN SETTLEMENT_STAKE_LAMPORTS ELSE 0

\* The settlement demo at its step c: its market, the receipt, the exploit and the
\* orders on YES and NO.
DemoAt(c, a, r, x, y, z) ==
    /\ Exists(a) <=> c > 1
    /\ Exists(x) <=> c > 5
    /\ Exists(y) <=> c > 8
    /\ Exists(z) <=> c > 10
    /\ c > 1 =>
          /\ a.material_seq = IF c > 4 THEN CANONICAL_EVENT_SEQ ELSE CANONICAL_INITIAL_SEQ
          /\ a.priced_at_seq = IF c > 7 THEN CANONICAL_EVENT_SEQ ELSE CANONICAL_INITIAL_SEQ
          /\ c > 4 => a.fair = CANONICAL_FAIR_PRICE
          /\ c <= 7 => a.displayed = CANONICAL_DISPLAYED_PRICE
          /\ a.tolerance = TOLERANCE_2C
          /\ a.pool["Yes"] = Counted(y) /\ a.pool["No"] = Counted(z)
          /\ a.total_in = Counted(y) + Counted(z)
          /\ a.trading_closed <=> c > 12
          /\ a.resolution = IF c > 15 THEN "Yes" ELSE "None"
          /\ a.total_paid = IF c > 16 THEN 2 * SETTLEMENT_STAKE_LAMPORTS ELSE 0
          /\ a.total_refunded = 0
    /\ c > 5 =>
          /\ DemoStake(x, "Yes") /\ x.observed = CANONICAL_DISPLAYED_PRICE
          /\ x.status = "VoidedRefunded" \/ (c = 6 /\ x.status = "Escrowed")
    /\ c > 8 =>
          /\ DemoStake(y, "Yes")
          /\ IF c > 16 THEN y.status = "Settled"
             ELSE y.status = "Filled" \/ (c = 9 /\ y.status = "Escrowed")
    /\ c > 10 =>
          /\ DemoStake(z, "No")
          /\ z.status = "Filled" \/ (c = 11 /\ z.status = "Escrowed")
    /\ c > 13 => Exists(r) /\ r.home = CANONICAL_HOME_SCORE /\ r.away = CANONICAL_AWAY_SCORE
    /\ c > 14 => r.confirmed

DemoOf(f) ==
    DemoAt(flow[f].pc, market[f], receipt[f], order[DemoOrder(f, "exploit")],
           order[DemoOrder(f, "Yes")], order[DemoOrder(f, "No")])

DemoKnows(f) ==
    IsKind(f, "full-settlement-demo") =>
        /\ flow[f].side = "Yes" /\ flow[f].sawMarket = FALSE
        /\ flow[f].stage # "failed" => flow[f].pc <= 17 /\ DemoOf(f)

(***************************************************************************)
(* What a request has answered.                                            *)
(***************************************************************************)
AnsweredAtTheEnd(f) == Answered(f) => flow[f].pc > Len(Plan(flow[f].kind))

DemoProof ==
    [ resolution |-> "YES_WON", payout |-> 2 * SETTLEMENT_STAKE_LAMPORTS,
      winner |-> "Settled", loser |-> "Filled", protectionRefunded |-> TRUE,
      validationConfirmed |-> TRUE ]

DemoAnswers(f) ==
    Answered(f) /\ IsKind(f, "full-settlement-demo") => flow[f].proof = DemoProof

\* A proof says of its order what the order said then, and still says.
ProofStands(f) ==
    Answered(f) /\ HasProof(f) /\ flow[f].proof # Null =>
        LET proof == flow[f].proof
            x == order[EvaluatedBy(f)]
        IN  /\ proof.order = EvaluatedBy(f)
            /\ proof.verdict = x.verdict /\ proof.edge = x.edge /\ proof.event = x.event
            /\ proof.destination = IF x.verdict = "VOIDED_REFUNDED"
                                   THEN "REFUNDED_TO_TRADER" ELSE "FINALIZED_TO_VAULT"
            /\ proof.event <= proof.materialSeq

\* A plain answer shows, as far as it could be read, what its own transaction did.
EffectShown(f) ==
    Answered(f) /\ HasState(f) =>
        LET m == flow[f].state.market
            o == flow[f].state.order
        IN  /\ m # Null /\ flow[f].kind = "ingest-event" =>
                  m.materialSeq >= CANONICAL_EVENT_SEQ
            /\ m # Null /\ flow[f].kind = "reprice" =>
                  m.displayed = CANONICAL_FAIR_PRICE
            /\ o # Null /\ flow[f].kind = "place-order" => o.stake = STAKE_LAMPORTS
            /\ o # Null /\ flow[f].kind \in {"evaluate-order", "full-demo"} =>
                  o.status \in {"Filled", "VoidedRefunded"}

\* What is known of one request.
RequestInv(f) ==
    /\ RequestKnows(f) /\ SeenShows(f) /\ DemoKnows(f)
    /\ AnsweredAtTheEnd(f) /\ DemoAnswers(f) /\ ProofStands(f) /\ EffectShown(f)

FlowsInv ==
    /\ OrdersTell /\ MarketsOfFlows /\ ClosedByDemos
    /\ \A f \in Flows : RequestInv(f)

Kinds ==
    { "initialize", "initialize-custom", "ingest-event", "reprice", "place-order",
      "evaluate-order", "full-demo", "custom-order", "full-settlement-demo" }

\* Which plans have which of the steps that matter to others, and where.
LEMMA PlacesInPlans ==
    ASSUME NEW kind \in Kinds, NEW i \in Nat \ {0}, i <= Len(Plan(kind))
    PROVE  /\ Plan(kind)[i] \in {"read_market", "read_state"} => kind # "full-settlement-demo"
           /\ Plan(kind)[i] \in {"close", "submit", "confirm", "resolve", "settle"} =>
                 kind = "full-settlement-demo" /\ i >= 12
           /\ Plan(kind)[i] \in {"place", "place_exploit", "place_no"} =>
                 \/ kind \in {"place-order", "full-demo"}
                 \/ kind = "custom-order" /\ i = 8
                 \/ kind = "full-settlement-demo" /\ i \in {5, 8, 10}
           /\ kind \in {"ingest-event", "reprice"} =>
                 i <= 2 /\ (i = 2 => Plan(kind)[i] = "read_state")
           /\ kind = "ingest-event" /\ i = 1 => Plan(kind)[i] = "ingest"
           /\ kind = "reprice" /\ i = 1 => Plan(kind)[i] = "reprice"
           /\ kind = "evaluate-order" =>
                 /\ i <= 4 /\ (i = 3 => Plan(kind)[i] = "evaluate")
                 /\ Plan(kind)[i] = "read_state" => i = 4
           /\ kind = "full-demo" =>
                 /\ i <= 6 /\ (i = 5 => Plan(kind)[i] = "evaluate")
                 /\ Plan(kind)[i] = "read_state" => i = 6
           /\ kind = "custom-order" =>
                 /\ i <= 10 /\ (i = 9 => Plan(kind)[i] = "evaluate")
                 /\ i = 4 => Plan(kind)[i] = "read_again"
                 /\ Plan(kind)[i] = "read_state" => i = 10
<1>0. CASE kind = "initialize"
  <2>1. Plan(kind) = <<"read_market", "read_config", "create", "read_state">>
      BY <1>0 DEF Plan, InitializePlan
  <2>2. Len(Plan(kind)) = 4
      BY <2>1
  <2>3. i \in {1, 2, 3, 4}
      BY <2>2
  <2> QED  BY <1>0, <2>1, <2>3
<1>1. CASE kind = "initialize-custom"
  <2>1. Plan(kind) = <<"read_market", "read_config", "create">>
      BY <1>1 DEF Plan, InitializeCustomPlan
  <2>2. Len(Plan(kind)) = 3
      BY <2>1
  <2>3. i \in {1, 2, 3}
      BY <2>2
  <2> QED  BY <1>1, <2>1, <2>3
<1>2. CASE kind = "ingest-event"
  <2>1. Plan(kind) = <<"ingest", "read_state">>
      BY <1>2 DEF Plan
  <2>2. Len(Plan(kind)) = 2
      BY <2>1
  <2>3. i \in {1, 2}
      BY <2>2
  <2> QED  BY <1>2, <2>1, <2>3
<1>3. CASE kind = "reprice"
  <2>1. Plan(kind) = <<"reprice", "read_state">>
      BY <1>3 DEF Plan
  <2>2. Len(Plan(kind)) = 2
      BY <2>1
  <2>3. i \in {1, 2}
      BY <2>2
  <2> QED  BY <1>3, <2>1, <2>3
<1>4. CASE kind = "place-order"
  <2>1. Plan(kind) = <<"place", "read_state">>
      BY <1>4 DEF Plan
  <2>2. Len(Plan(kind)) = 2
      BY <2>1
  <2>3. i \in {1, 2}
      BY <2>2
  <2> QED  BY <1>4, <2>1, <2>3
<1>5. CASE kind = "evaluate-order"
  <2>1. Plan(kind) = <<"read_vault", "vault", "evaluate", "read_state">>
      BY <1>5 DEF Plan, EvaluatePlan
  <2>2. Len(Plan(kind)) = 4
      BY <2>1
  <2>3. i \in {1, 2, 3, 4}
      BY <2>2
  <2> QED  BY <1>5, <2>1, <2>3
<1>6. CASE kind = "full-demo"
  <2>1. Plan(kind) = <<"create", "ingest", "require_vault", "place", "evaluate",
                       "read_state">>
      BY <1>6 DEF Plan, FullDemoPlan
  <2>2. Len(Plan(kind)) = 6
      BY <2>1
  <2>3. i \in {1, 2, 3, 4, 5, 6}
      BY <2>2
  <2> QED  BY <1>6, <2>1, <2>3
<1>7. CASE kind = "custom-order"
  <2>1. Plan(kind) = <<"read_market", "read_config", "create", "read_again",
                       "read_vault", "vault", "ingest", "place",
                       "evaluate", "read_state">>
      BY <1>7 DEF Plan, CustomOrderPlan
  <2>2. Len(Plan(kind)) = 10
      BY <2>1
  <2>3. i \in {1, 2, 3, 4, 5, 6, 7, 8, 9, 10}
      BY <2>2
  <2> QED  BY <1>7, <2>1, <2>3
<1>8. CASE kind = "full-settlement-demo"
  <2>1. Plan(kind) = 
            <<"create", "read_vault", "vault", "ingest",
              "place_exploit", "evaluate_exploit", "reprice",
              "place", "evaluate", "place_no", "evaluate_no",
              "close", "submit", "confirm", "resolve", "settle">>
      BY <1>8 DEF Plan, SettlementDemoPlan
  <2>2. Len(Plan(kind)) = 16
      BY <2>1
  <2>3. i \in {1, 2, 3, 4, 5, 6, 7, 8, 9, 10, 11, 12, 13, 14, 15, 16}
      BY <2>2
  <2> QED  BY <1>8, <2>1, <2>3
<1> QED  BY <1>0, <1>1, <1>2, <1>3, <1>4, <1>5, <1>6, <1>7, <1>8 DEF Kinds

\* The settlement demo, step by step.
LEMMA DemoSteps ==
    /\ Len(Plan("full-settlement-demo")) = 16
    /\ SettlementDemoPlan[1] = "create" /\ SettlementDemoPlan[2] = "read_vault"
    /\ SettlementDemoPlan[3] = "vault" /\ SettlementDemoPlan[4] = "ingest"
    /\ SettlementDemoPlan[5] = "place_exploit"
    /\ SettlementDemoPlan[6] = "evaluate_exploit"
    /\ SettlementDemoPlan[7] = "reprice" /\ SettlementDemoPlan[8] = "place"
    /\ SettlementDemoPlan[9] = "evaluate" /\ SettlementDemoPlan[10] = "place_no"
    /\ SettlementDemoPlan[11] = "evaluate_no" /\ SettlementDemoPlan[12] = "close"
    /\ SettlementDemoPlan[13] = "submit" /\ SettlementDemoPlan[14] = "confirm"
    /\ SettlementDemoPlan[15] = "resolve" /\ SettlementDemoPlan[16] = "settle"
    /\ Plan("full-settlement-demo") = SettlementDemoPlan
<1>1. Plan("full-settlement-demo") = SettlementDemoPlan
    BY DEF Plan
<1> QED  BY <1>1 DEF SettlementDemoPlan

\* A request that is at a step.
LEMMA ActiveRequest ==
    ASSUME FlowAssumption, FlowTypeOK, NEW f \in Flows, AtStep(f)
    PROVE  /\ IsRequest(flow[f]) /\ Came(f) /\ flow[f].stage = "running"
           /\ flow[f].kind \in Kinds /\ flow[f].pc \in Nat \ {0}
           /\ flow[f].pc <= Len(Plan(flow[f].kind))
           /\ Step(f) = Plan(flow[f].kind)[flow[f].pc]
<1>1. IsRequest(flow[f]) /\ flow[f].stage = "running"
    BY DEF AtStep, Running, FlowTypeOK, Idle
<1>2. flow[f].kind \in FlowKinds /\ flow[f].pc \in Nat \ {0}
    BY <1>1 DEF IsRequest
<1>3. flow[f].kind \in Kinds
    BY <1>2 DEF FlowAssumption, Kinds
<1> QED  BY <1>1, <1>2, <1>3 DEF AtStep, Step, Came

(***************************************************************************)
(* What a step does to a request.                                          *)
(***************************************************************************)
SameRequest(r, s) ==
    /\ s.kind = r.kind /\ s.side = r.side /\ s.input = r.input
    /\ r.kind = "full-settlement-demo" => s.sawMarket = r.sawMarket

\* It comes in.
RequestComes(r, s) ==
    /\ r = Idle /\ s.stage \in {"running", "failed"} /\ s.pc = 1 /\ s.sawMarket = FALSE
    /\ s.seen = Null
    /\ s.kind = "full-settlement-demo" => s.side = "Yes"

\* It ends there.
RequestStops(r, s) ==
    /\ r.stage = "running" /\ s.stage = "failed" /\ SameRequest(r, s) /\ s.pc = r.pc
    /\ s.seen = r.seen

RequestGoesOn(r, s) ==
    r.stage = "running" /\ s.stage = "running" /\ SameRequest(r, s) /\ s.pc = r.pc + 1

RequestIsAnswered(r, s) ==
    /\ r.stage = "running" /\ s.stage = "ok" /\ SameRequest(r, s) /\ s.pc = r.pc
    /\ r.pc > Len(Plan(r.kind)) /\ s.seen = r.seen

\* What a flow has done when it goes on.
Passes(f) ==
    /\ AtStep(f)
    /\ \/ /\ UNCHANGED legacyVars
          /\ \/ Step(f) \in Reads /\ (Step(f) = "read_again" => ConfigMatches(f))
             \/ Sending(f) /\ Tx(f, Step(f)) = NoTx
       \/ Sending(f) /\ Execute(Tx(f, Step(f)))

\* And what it has read of its market.
ReadsState(f) ==
    \/ flow'[f].seen = flow[f].seen
    \/ /\ Step(f) = "read_state" /\ UNCHANGED legacyVars
       /\ flow'[f].seen = FetchMarket(MarketOf(f))

\* A step of a flow changes its own request, in one of four ways.
LEMMA FlowMoves ==
    ASSUME FlowAssumption, LegacyTypeOK, FlowTypeOK, NEW f \in Flows, FlowStep(f)
    PROVE  /\ \A g \in Flows \ {f} : flow'[g] = flow[g]
           /\ \/ RequestComes(flow[f], flow'[f]) /\ UNCHANGED legacyVars
              \/ /\ RequestStops(flow[f], flow'[f])
                 /\ \/ UNCHANGED legacyVars
                    \/ Sending(f) /\ Execute(Tx(f, Step(f)))
              \/ RequestGoesOn(flow[f], flow'[f]) /\ Passes(f) /\ ReadsState(f)
              \/ RequestIsAnswered(flow[f], flow'[f]) /\ Answer(f)
<1> DEFINE r == flow[f]
<1>1. /\ f \in DOMAIN flow /\ DOMAIN flow = Flows
      /\ Running(f) => IsRequest(r)
    BY DEF Running, FlowTypeOK, Idle
<1>2. CASE Request(f)
  <2>0. PICK kind \in FlowKinds, stage \in ServerConfig :
            \E side \in SidesOf(kind), input \in InputsOf(kind) :
              flow' = [flow EXCEPT ![f] =
                [ stage |-> stage, kind |-> kind, pc |-> 1, side |-> side,
                  input |-> input,
                  sawMarket |-> FALSE, sawConfig |-> FALSE, sawVault |-> FALSE,
                  sawSeq |-> 0, seen |-> Null, sent |-> 0,
                  proof |-> Null, state |-> Null ]]
      BY <1>2 DEF Request
  <2>1. PICK side \in SidesOf(kind), input \in InputsOf(kind) :
            flow' = [flow EXCEPT ![f] =
                [ stage |-> stage, kind |-> kind, pc |-> 1, side |-> side,
                  input |-> input,
                  sawMarket |-> FALSE, sawConfig |-> FALSE, sawVault |-> FALSE,
                  sawSeq |-> 0, seen |-> Null, sent |-> 0,
                  proof |-> Null, state |-> Null ]]
      BY <2>0
  <2>2. kind = "full-settlement-demo" => side = "Yes"
      BY DEF SidesOf
  <2>3. r = Idle /\ UNCHANGED legacyVars
      BY <1>1, <1>2 DEF Request, FlowTypeOK, IsRequest
  <2> QED  BY <1>1, <2>1, <2>2, <2>3 DEF RequestComes, ServerConfig
<1>3. ASSUME Running(f), NEW s, flow' = [flow EXCEPT ![f] = s], s.stage = "failed",
             s.kind = r.kind, s.side = r.side, s.input = r.input,
             s.sawMarket = r.sawMarket, s.pc = r.pc, s.seen = r.seen
      PROVE  (\A g \in Flows \ {f} : flow'[g] = flow[g]) /\ RequestStops(flow[f], flow'[f])
    BY <1>1, <1>3 DEF RequestStops, SameRequest, Running
<1>4. CASE Running(f) /\ Fails(f)
           /\ (UNCHANGED legacyVars \/ (Sending(f) /\ Execute(Tx(f, Step(f)))))
  <2> DEFINE s == [r EXCEPT !.stage = "failed"]
  <2>1. /\ flow' = [flow EXCEPT ![f] = s]
        /\ s.stage = "failed" /\ s.kind = r.kind /\ s.side = r.side
        /\ s.input = r.input /\ s.sawMarket = r.sawMarket /\ s.pc = r.pc
        /\ s.seen = r.seen
      BY <1>1, <1>4 DEF Fails, IsRequest, FlowFields
  <2> HIDE DEF s
  <2> QED  BY <1>3, <1>4, <2>1
<1>5. CASE Read(f) /\ Sees(f) # Null
  <2> DEFINE m == MarketOf(f)
             seq == SeqSeen(m)
             there == FetchMarket(m) # Null
             agreed == Exists(config[m])
             paid == Exists(vault)
             shown == FetchMarket(m)
             a == Sees(f)
             s == [a EXCEPT !.pc = @ + 1]
  <2>1. /\ flow' = [flow EXCEPT ![f] = s] /\ AtStep(f) /\ Step(f) \in Reads
        /\ UNCHANGED legacyVars /\ IsRequest(r)
      BY <1>1, <1>5 DEF Read, AtStep
  <2>2. \/ Step(f) = "read_market" /\ a = [r EXCEPT !.sawMarket = there, !.sawSeq = seq]
        \/ a \in { r, [r EXCEPT !.sawConfig = agreed], [r EXCEPT !.sawSeq = seq],
                   [r EXCEPT !.sawVault = paid] }
        \/ Step(f) = "read_state" /\ a = [r EXCEPT !.seen = shown]
    <3>1. CASE Step(f) = "read_market"
        BY <3>1, Zenon DEF Sees
    <3>2. CASE Step(f) = "read_config"
        BY <1>5, <3>2, Zenon DEF Sees
    <3>3. CASE Step(f) = "read_again"
        BY <1>5, <3>3, Zenon DEF Sees
    <3>4. CASE Step(f) = "read_vault"
        BY <3>4, Zenon DEF Sees
    <3>5. CASE Step(f) = "require_vault"
        BY <1>5, <3>5, Zenon DEF Sees
    <3>6. CASE Step(f) = "read_state"
        BY <3>6, Zenon DEF Sees
    <3> QED  BY <2>1, <3>1, <3>2, <3>3, <3>4, <3>5, <3>6 DEF Reads
  <2>3. Step(f) = "read_again" => ConfigMatches(f)
      BY <1>5, Zenon DEF Sees
  <2>4. Step(f) = "read_market" => r.kind # "full-settlement-demo"
    <3>1. r.kind \in Kinds /\ r.pc \in Nat \ {0}
        BY <2>1 DEF IsRequest, FlowAssumption, Kinds
    <3> QED  BY <2>1, <3>1, PlacesInPlans DEF AtStep, Step
  <2>s. shown = FetchMarket(MarketOf(f))
      OBVIOUS
  <2> HIDE DEF m, seq, there, agreed, paid, shown, a
  <2>5. /\ a.stage = r.stage /\ a.pc = r.pc /\ SameRequest(r, a) /\ "pc" \in DOMAIN a
        /\ "stage" \in DOMAIN a /\ r.pc \in Nat
        /\ a.seen = r.seen \/ (Step(f) = "read_state" /\ a.seen = shown)
      BY <2>1, <2>2, <2>4 DEF SameRequest, IsRequest, FlowFields
  <2>6. s.stage = r.stage /\ s.pc = r.pc + 1 /\ SameRequest(r, s) /\ s.seen = a.seen
      BY <2>5 DEF SameRequest
  <2>7. flow'[f] = s /\ \A g \in Flows \ {f} : flow'[g] = flow[g]
      BY <1>1, <2>1
  <2>8. RequestGoesOn(r, s)
      BY <2>1, <2>6 DEF RequestGoesOn, AtStep, Running
  <2>9. ReadsState(f)
      BY <2>s, <2>1, <2>5, <2>6, <2>7 DEF ReadsState
  <2> QED  BY <2>1, <2>3, <2>7, <2>8, <2>9 DEF Passes
<1>6. CASE Skip(f) \/ ReadIsSwallowed(f)
  <2> DEFINE s == [r EXCEPT !.pc = @ + 1]
  <2>1. /\ IsRequest(r) /\ flow' = [flow EXCEPT ![f] = s] /\ AtStep(f)
        /\ \/ Sending(f) /\ Tx(f, Step(f)) = NoTx
           \/ Step(f) \in Reads /\ Step(f) # "read_again"
        /\ UNCHANGED legacyVars
      BY <1>1, <1>6 DEF Skip, ReadIsSwallowed, Sending, AtStep, Reads
  <2>2. s.stage = r.stage /\ s.pc = r.pc + 1 /\ SameRequest(r, s) /\ s.seen = r.seen
      BY <2>1 DEF SameRequest, IsRequest, FlowFields
  <2> HIDE DEF s
  <2>3. flow'[f] = s /\ \A g \in Flows \ {f} : flow'[g] = flow[g]
      BY <1>1, <2>1
  <2>4. RequestGoesOn(r, s)
      BY <2>1, <2>2 DEF RequestGoesOn, AtStep, Running
  <2> QED  BY <2>1, <2>2, <2>3, <2>4 DEF Passes, ReadsState
<1>7. CASE Confirmed(f)
  <2>1. /\ IsRequest(r) /\ flow' = [flow EXCEPT ![f].pc = @ + 1, ![f].sent = @ + 1]
        /\ Sending(f) /\ Execute(Tx(f, Step(f))) /\ AtStep(f)
      BY <1>1, <1>7 DEF Confirmed, Sending, AtStep
  <2> DEFINE pc == r.pc + 1
             sent == r.sent + 1
             s == [r EXCEPT !.pc = pc, !.sent = sent]
  <2>2. {"pc", "sent"} \subseteq DOMAIN r
      BY <2>1 DEF IsRequest, FlowFields
  <2>3. flow' = [flow EXCEPT ![f] = s]
      BY <1>1, <2>1, <2>2
  <2>4. s.stage = r.stage /\ s.pc = r.pc + 1 /\ SameRequest(r, s) /\ s.seen = r.seen
      BY <2>1 DEF SameRequest, IsRequest, FlowFields
  <2> HIDE DEF s
  <2>5. flow'[f] = s /\ \A g \in Flows \ {f} : flow'[g] = flow[g]
      BY <1>1, <2>3
  <2>6. RequestGoesOn(r, s)
      BY <2>1, <2>4 DEF RequestGoesOn, AtStep, Running
  <2> QED  BY <2>1, <2>4, <2>5, <2>6 DEF Passes, ReadsState
<1>8. CASE Answer(f)
  <2>0. PICK o \in OrderReads(f) :
            flow' = [flow EXCEPT
              ![f].stage = "ok",
              ![f].state = IF HasState(f)
                           THEN [market |-> flow[f].seen, order |-> o] ELSE Null,
              ![f].proof = IF flow[f].kind = "full-settlement-demo"
                           THEN SettlementProof(f) ELSE Proof(f, o)]
      BY <1>8, Zenon DEF Answer
  <2>1. PICK state, proof :
            flow' = [flow EXCEPT ![f].stage = "ok", ![f].state = state,
                                 ![f].proof = proof]
      BY <2>0, Zenon
  <2>2. IsRequest(r) /\ Running(f) /\ r.pc > Len(Plan(r.kind))
      BY <1>1, <1>8 DEF Answer
  <2> DEFINE s == [r EXCEPT !.stage = "ok", !.state = state, !.proof = proof]
  <2>3. {"stage", "state", "proof"} \subseteq DOMAIN r
      BY <2>2 DEF IsRequest, FlowFields
  <2>4. flow' = [flow EXCEPT ![f] = s]
      BY <1>1, <2>1, <2>3
  <2>5. s.stage = "ok" /\ s.pc = r.pc /\ SameRequest(r, s) /\ s.seen = r.seen
      BY <2>2 DEF SameRequest, IsRequest, FlowFields
  <2> HIDE DEF s
  <2>6. flow'[f] = s /\ \A g \in Flows \ {f} : flow'[g] = flow[g]
      BY <1>1, <2>4
  <2>7. RequestIsAnswered(r, s)
      BY <2>2, <2>5 DEF RequestIsAnswered, Running
  <2> QED  BY <1>8, <2>6, <2>7
<1>9. \/ Request(f)
      \/ Read(f) /\ Sees(f) # Null
      \/ /\ Running(f) /\ Fails(f)
         /\ UNCHANGED legacyVars \/ (Sending(f) /\ Execute(Tx(f, Step(f))))
      \/ Skip(f) \/ ReadIsSwallowed(f) \/ Confirmed(f) \/ Answer(f)
    BY DEF FlowStep, Read, Refused, LandsUnseen, Lost, Sending, AtStep
<1> QED  BY <1>2, <1>4, <1>5, <1>6, <1>7, <1>8, <1>9

\* What a request has told stays, and it does not go back.
RequestLasts(r, s) ==
    r.stage # "idle" =>
        /\ s.stage # "idle" /\ SameRequest(r, s)
        /\ r.pc \in Nat \ {0} /\ s.pc \in Nat \ {0} /\ s.pc >= r.pc
        /\ r.stage # "running" => s = r

\* Whatever happens, no request goes back.
LEMMA RequestsLast ==
    ASSUME FlowAssumption, LegacyTypeOK, FlowTypeOK,
           UNCHANGED flow \/ (\E f \in Flows : FlowStep(f))
    PROVE  \A f \in Flows : RequestLasts(flow[f], flow'[f])
<1>1. \A g \in Flows : flow[g].stage # "idle" => flow[g].pc \in Nat \ {0}
    BY DEF FlowTypeOK, Idle, IsRequest
<1>2. ASSUME NEW g \in Flows, flow'[g] = flow[g]
      PROVE  RequestLasts(flow[g], flow'[g])
    BY <1>1, <1>2 DEF RequestLasts, SameRequest
<1>3. ASSUME NEW f \in Flows, FlowStep(f)
      PROVE  \A g \in Flows : RequestLasts(flow[g], flow'[g])
  <2>1. /\ \A g \in Flows \ {f} : flow'[g] = flow[g]
        /\ \/ RequestComes(flow[f], flow'[f])
           \/ RequestStops(flow[f], flow'[f])
           \/ RequestGoesOn(flow[f], flow'[f])
           \/ RequestIsAnswered(flow[f], flow'[f])
      BY <1>3, FlowMoves
  <2>2. RequestLasts(flow[f], flow'[f])
      BY <1>1, <2>1 DEF RequestLasts, RequestComes, RequestStops, RequestGoesOn,
                        RequestIsAnswered, Idle
  <2> QED  BY <1>2, <2>1, <2>2
<1> QED  BY <1>2, <1>3

(***************************************************************************)
(* Whose transactions change the server's markets.                         *)
(***************************************************************************)

\* What a flow sends is about its own market and its own orders.
LEMMA TxOfFlow ==
    ASSUME FlowAssumption, FlowTypeOK, NEW f \in Flows, Sending(f), NEW t,
           t = Tx(f, Step(f))
    PROVE  /\ t.ix \in ByMarketInstructions => t.market = MarketOf(f)
           /\ t.ix \in ByOrderInstructions => t.order.market = MarketOf(f)
           /\ t.ix \notin {"initialize_market", "emergency_void_market"}
           /\ t.ix = "initialize_market_config" => t.terms = TermsOf(f)
           /\ t.ix \in {"close_market", "resolve_market_from_txline"} =>
                 Step(f) \in {"close", "resolve"}
           /\ t.ix = "place_order" =>
                 /\ Step(f) \in {"place", "place_exploit", "place_no"}
                 /\ t.order = OrderOf(f, Step(f)) /\ t.stake = StakeOf(f)
           /\ t.ix = "reprice_market" => t.price = CANONICAL_FAIR_PRICE
<1> DEFINE step == Step(f)
<1>1. AtStep(f) /\ step \notin Reads
    BY DEF Sending
<1>2. step \in SendingSteps
    BY <1>1, StepOfFlow
<1>3. \A n : OrderOf(f, n).market = MarketOf(f)
    BY DEF OrderOf
<1> HIDE DEF step
<1>0. t = Tx(f, step)
    BY DEF step
<1> USE DEF ByMarketInstructions, ByOrderInstructions
<1>5. CASE step = "create"
  <2>1. t \in { NoTx,
                [ix |-> "attach_market_config", market |-> MarketOf(f),
                 signer |-> Operator, terms |-> TermsOf(f)],
                [ix |-> "initialize_market_config", market |-> MarketOf(f),
                 signer |-> Operator, terms |-> TermsOf(f)] }
      BY <1>0, <1>5 DEF Tx, CreateTx
  <2> QED  BY <2>1 DEF NoTx
<1>6. CASE step = "vault"
  <2>1. t \in {NoTx, [ix |-> "initialize_vault"]}
      BY <1>0, <1>6 DEF Tx
  <2> QED  BY <2>1 DEF NoTx
<1>7. CASE step = "ingest"
  <2>1. t = IngestTx(f)
      BY <1>0, <1>7 DEF Tx
  <2> QED  BY <2>1 DEF IngestTx
<1>8. CASE step = "reprice"
  <2>1. t = [ix |-> "reprice_market", market |-> MarketOf(f), signer |-> Operator,
             price |-> CANONICAL_FAIR_PRICE]
      BY <1>0, <1>8 DEF Tx
  <2> QED  BY <2>1
<1>9. CASE step \in {"place", "place_exploit", "place_no"}
  <2>1. t = PlaceTx(f, step)
      BY <1>0, <1>9 DEF Tx
  <2> QED  BY <1>3, <1>9, <2>1 DEF PlaceTx, step
<1>10. CASE step \in {"evaluate", "evaluate_exploit", "evaluate_no"}
  <2>1. t = [ix |-> "evaluate_order", order |-> OrderOf(f, step)]
      BY <1>0, <1>10 DEF Tx
  <2> QED  BY <1>3, <2>1
<1>11. CASE step = "submit"
  <2>1. t = [ ix |-> "submit_txline_validation", market |-> MarketOf(f),
              signer |-> Operator, fixture |-> CANONICAL_FIXTURE_ID,
              home |-> CANONICAL_HOME_SCORE, away |-> CANONICAL_AWAY_SCORE ]
      BY <1>0, <1>11 DEF Tx
  <2> QED  BY <2>1
<1>12. CASE step = "settle"
  <2>1. t = [ix |-> "settle_order", order |-> OrderOf(f, "place")]
      BY <1>0, <1>12 DEF Tx
  <2> QED  BY <1>3, <2>1
<1>13. CASE step = "confirm"
  <2>1. t = MarketTx(f, "confirm_validation")
      BY <1>0, <1>13 DEF Tx
  <2> QED  BY <2>1 DEF MarketTx
<1>14. CASE step = "close"
  <2>1. t = MarketTx(f, "close_market")
      BY <1>0, <1>14 DEF Tx
  <2> QED  BY <1>14, <2>1 DEF MarketTx, step
<1>15. CASE step = "resolve"
  <2>1. t = MarketTx(f, "resolve_market_from_txline")
      BY <1>0, <1>15 DEF Tx
  <2> QED  BY <1>15, <2>1 DEF MarketTx, step
<1> QED
    BY <1>2, <1>5, <1>6, <1>7, <1>8, <1>9, <1>10, <1>11, <1>12, <1>13, <1>14, <1>15
    DEF SendingSteps

\* A flow sends a transaction about that market, and it lands.
SendsTo(f, m, t) ==
    /\ FlowStep(f) /\ Sending(f) /\ MarketOf(f) = m
    /\ t = Tx(f, Step(f)) /\ TypedTransaction(t) /\ Execute(t)

\* A market of the server is left alone, but for a passer-by who has an order
\* evaluated, and the flows it is for.
LEMMA WhoTouches ==
    ASSUME ProgramsAssumption, TradersElsewhere, LegacyInv, FlowTypeOK,
           FirstStep \/ UNCHANGED flowVars,
           NEW m \in ServersMarkets
    PROVE  /\ m \in Markets
           /\ \/ MarketRests(m)
              \/ UNCHANGED flow /\ (\E o \in Orders : EvaluateOrder(o) /\ o.market = m)
              \/ \E f \in Flows : \E t : SendsTo(f, m, t)
<1>1. LegacyAssumption /\ FlowAssumption /\ m \in Markets
    BY DEF ProgramsAssumption, FlowAssumption, ServersMarkets
<1>2. CASE UNCHANGED legacyVars
    BY <1>1, <1>2 DEF legacyVars, MarketRests
<1>3. CASE TradersStep
  <2>1. CASE Tick
      BY <1>1, <2>1 DEF Tick, MarketRests
  <2>2. CASE \E t \in Transactions : Accepts(t) /\ Execute(t)
    <3>1. PICK t \in Transactions : Execute(t)
        BY <2>2
    <3>2. TypedTransaction(t) /\ ~ OnServersMarket(t)
        BY DEF ProgramsAssumption, TradersElsewhere
    <3>3. MarketRests(m)
        BY <1>1, <3>1, <3>2, OtherMarketsRest DEF OnServersMarket
    <3> QED  BY <1>1, <3>3
  <2> QED  BY <1>1, <1>3, <2>1, <2>2 DEF TradersStep
<1>4. CASE Passerby
  <2>1. PICK o \in Orders : EvaluateOrder(o)
      BY <1>4 DEF Passerby
  <2>2. CASE o.market # m
    <3> DEFINE t == [ix |-> "evaluate_order", order |-> o]
    <3>1. TypedTransaction(t) /\ Execute(t)
        BY <2>1 DEF TypedTransaction, Execute, ByMarketInstructions, ByOrderInstructions
    <3>2. t.ix \notin ByMarketInstructions /\ t.order.market # m
        BY <2>2 DEF ByMarketInstructions
    <3> HIDE DEF t
    <3>3. MarketRests(m)
        BY <1>1, <3>1, <3>2, OtherMarketsRest
    <3> QED  BY <1>1, <3>3
  <2> QED  BY <1>1, <1>4, <2>1, <2>2 DEF Passerby
<1>5. ASSUME NEW f \in Flows, FlowStep(f), Sending(f), Execute(Tx(f, Step(f)))
      PROVE  MarketRests(m) \/ (\E g \in Flows : \E t : SendsTo(g, m, t))
  <2>1. PICK t : t = Tx(f, Step(f))
      OBVIOUS
  <2>2. TypedTransaction(t) /\ Execute(t)
      BY <1>1, <1>5, <2>1, FlowsSendTyped
  <2>3. CASE MarketOf(f) = m
      BY <1>5, <2>1, <2>2, <2>3 DEF SendsTo
  <2>4. CASE MarketOf(f) # m
    <3>1. /\ t.ix \in ByMarketInstructions => t.market # m
          /\ t.ix \in ByOrderInstructions => t.order.market # m
        BY <1>1, <1>5, <2>1, <2>4, TxOfFlow
    <3> QED  BY <1>1, <2>2, <3>1, OtherMarketsRest
  <2> QED  BY <2>3, <2>4
<1>6. ASSUME NEW f \in Flows, FlowStep(f)
      PROVE  UNCHANGED legacyVars \/ (Sending(f) /\ Execute(Tx(f, Step(f))))
    BY <1>6 DEF FlowStep, Request, Read, ReadIsSwallowed, Skip, Refused, Confirmed,
                LandsUnseen, Lost, Answer
<1>7. CASE UNCHANGED flowVars
    BY <1>2, <1>7 DEF flowVars
<1> QED  BY <1>1, <1>2, <1>3, <1>4, <1>5, <1>6, <1>7 DEF FirstStep, FlowNext

\* A step of the first generation, or of the second, which leaves it as it is.
FlowsStep == FirstStep \/ UNCHANGED flowVars

LEMMA FlowsStepLasts ==
    ASSUME ProgramsAssumption, TradersElsewhere, LegacyInv, FlowTypeOK, OrdersTell, FlowsStep
    PROVE  /\ LegacyStep /\ LegacyInv' /\ AccountsLast /\ OrdersTell'
           /\ \A f \in Flows : RequestLasts(flow[f], flow'[f])
<1>1. LegacyAssumption /\ FlowAssumption
    BY DEF ProgramsAssumption
<1>2. LegacyStep
    BY FirstIsLegacyStep DEF FlowsStep, LegacyStep, flowVars
<1>3. LegacyInv' /\ AccountsLast /\ OrdersTell'
    BY <1>1, <1>2, LegacyStepKeeps, StepLasts
<1>4. UNCHANGED flow \/ (\E f \in Flows : FlowStep(f))
    BY DEF FlowsStep, FirstStep, TradersStep, FlowNext, Passerby, flowVars
<1>5. \A f \in Flows : RequestLasts(flow[f], flow'[f])
    BY <1>1, <1>4, RequestsLast DEF LegacyInv
<1> QED  BY <1>2, <1>3, <1>5

\* The kind, the side and the terms of a request that was there.
LEMMA KindLasts ==
    ASSUME NEW f \in Flows, RequestLasts(flow[f], flow'[f]), NEW kind, IsKind(f, kind)
    PROVE  /\ IsKind(f, kind)' /\ flow'[f].input = flow[f].input
           /\ flow'[f].side = flow[f].side /\ flow'[f].pc >= flow[f].pc
BY DEF RequestLasts, SameRequest, IsKind, Came

\* The server's markets and the orders in them come from the flows they are for.
LEMMA MarketsStayOfFlows ==
    ASSUME ProgramsAssumption, TradersElsewhere, LegacyInv, FlowTypeOK, FlowsInv, FlowsStep
    PROVE  MarketsOfFlows'
<1>1. LegacyAssumption /\ FlowAssumption /\ OrdersTell /\ MarketsOfFlows
    BY DEF ProgramsAssumption, FlowsInv
<1>2. /\ AccountsLast /\ LegacyInv'
      /\ \A f \in Flows : RequestLasts(flow[f], flow'[f])
    BY <1>1, FlowsStepLasts
<1>3. \A m \in ServersMarkets : m \in Markets
    BY <1>1 DEF FlowAssumption, ServersMarkets
<1>l. LegacyStep
    BY <1>1, FlowsStepLasts
<1>4. ASSUME NEW m \in ServersMarkets, ~ Exists(market[m]), Exists(market'[m])
      PROVE  /\ StaleByEvent(market'[m])
             /\ m \in Flows => HasDemo(m)'
             /\ m = CustomMarket => DescribedByCaller(market'[m], config'[m])
  <2>1. ~ MarketRests(m)
      BY <1>4 DEF MarketRests
  <2>2. ASSUME NEW o \in Orders, EvaluateOrder(o), o.market = m
        PROVE  FALSE
    <3>1. Exists(order[o])
        BY <2>2 DEF EvaluateOrder, CanEvaluate
    <3> QED  BY <1>1, <1>4, <2>2, <3>1, OrderFacts
  <2>f. PICK f \in Flows : \E t : SendsTo(f, m, t)
      BY <2>1, <2>2, WhoTouches DEF FlowsStep
  <2>3. PICK t : SendsTo(f, m, t)
    BY <2>f
  <2>4. /\ Sending(f) /\ MarketOf(f) = m /\ t = Tx(f, Step(f))
        /\ TypedTransaction(t) /\ Execute(t)
      BY <2>3 DEF SendsTo
  <2>r. IsRequest(flow[f])
      BY <1>1, <2>4, ActiveRequest DEF Sending
  <2>5. /\ t.ix = "initialize_market_config" /\ t.market = m
        /\ market'[m] = NewMarket(t.signer, t.terms)
        /\ t.terms = TermsOf(f)
    <3>1. /\ t.market = m
          /\ \/ t.ix = "initialize_market"
             \/ /\ t.ix = "initialize_market_config"
                /\ market'[m] = NewMarket(t.signer, t.terms)
        BY <1>1, <1>3, <1>4, <2>4, OpensMarket
    <3> QED  BY <1>1, <2>4, <3>1, TxOfFlow
  <2>6. StaleByEvent(market'[m])
    <3>1. /\ market'[m].material_seq = TermsOf(f).material
          /\ market'[m].priced_at_seq = TermsOf(f).priced
        BY <2>5 DEF NewMarket
    <3>2. TermsOf(f).priced = TermsOf(f).material /\ TermsOf(f).material \in Nat
        BY <1>1 DEF TermsOf, TermsWithSeq, FlowAssumption
    <3> QED  BY <3>1, <3>2 DEF StaleByEvent
  <2>7. m \in Flows => HasDemo(m)'
    <3>1. m \in Flows => m = f /\ flow[f].kind \in {"full-demo", "full-settlement-demo"}
        BY <1>1, <2>4 DEF MarketOf, FlowAssumption
    <3>2. Came(f)
        BY <2>4 DEF Sending, AtStep, Running, Came
    <3> QED  BY <1>2, <3>1, <3>2 DEF HasDemo, IsKind, RequestLasts, SameRequest, Came
  <2>8. ASSUME m = CustomMarket
        PROVE  DescribedByCaller(market'[m], config'[m])
    <3> DEFINE input == flow[f].input
    <3>1. flow[f].kind \in {"custom-order", "initialize-custom"}
        BY <1>1, <2>4, <2>8 DEF MarketOf, FlowAssumption
    <3>2. input \in CustomInputs
        BY <2>r, <3>1 DEF IsRequest, InputsOf
    <3>3. /\ t.terms.commitment = input.commitment /\ t.terms.tolerance = input.tolerance
        BY <2>5 DEF TermsOf, TermsWithSeq
    <3>4. market'[m].tolerance = input.tolerance
        BY <2>5, <3>3 DEF NewMarket
    <3> DEFINE signer == t.signer
               commitment == t.terms.commitment
               c == [authority |-> signer, commitment |-> commitment]
    <3>5. config' = [config EXCEPT ![m] = c]
        BY <2>4, <2>5 DEF Execute, InitializeMarketConfig
    <3>6. signer \in Users /\ commitment \in Commitments
      <4>1. t.signer \in Users /\ t.terms \in MarketTerms
          BY <2>4, <2>5 DEF TypedTransaction, ByMarketInstructions
      <4> QED  BY <4>1 DEF MarketTerms
    <3> HIDE DEF signer, commitment, input
    <3>7. c \in ConfigAccount /\ c.commitment = commitment
        BY <3>6 DEF ConfigAccount
    <3> HIDE DEF c
    <3>8. config'[m] = c
        BY <1>3, <3>5 DEF LegacyInv, LegacyTypeOK
    <3>9. Exists(c)
        BY <1>1, <3>7 DEF Exists, LegacyAssumption
    <3> QED  BY <3>2, <3>3, <3>4, <3>7, <3>8, <3>9 DEF DescribedByCaller, commitment
  <2> QED  BY <2>6, <2>7, <2>8
<1>5. ASSUME NEW m \in ServersMarkets
      PROVE  /\ VoidedForEvents(m)'
             /\ Exists(market'[m]) /\ m \in Flows => HasDemo(m)'
             /\ Exists(market'[m]) /\ m = CustomMarket =>
                   DescribedByCaller(market'[m], config'[m])
  <2>1. VoidedForEvents(m)'
      BY <1>1, <1>3, <1>4, <1>l, VoidedForEventsLasts DEF MarketsOfFlows
  <2>2. ASSUME Exists(market[m]), m \in Flows
        PROVE  HasDemo(m)'
    <3>1. HasDemo(m)
        BY <1>1, <2>2 DEF MarketsOfFlows
    <3> QED  BY <1>2, <2>2, <3>1 DEF HasDemo, IsKind, RequestLasts, SameRequest, Came
  <2>3. ASSUME Exists(market[m]), m = CustomMarket
        PROVE  DescribedByCaller(market'[m], config'[m])
    <3>1. DescribedByCaller(market[m], config[m])
        BY <1>1, <2>3 DEF MarketsOfFlows
    <3>2. market'[m].tolerance = market[m].tolerance /\ config'[m] = config[m]
        BY <1>2, <1>3, <2>3, <3>1 DEF AccountsLast, MarketLasts, DescribedByCaller
    <3> QED  BY <3>1, <3>2 DEF DescribedByCaller
  <2> QED  BY <1>4, <2>1, <2>2, <2>3
<1>6. ASSUME NEW o \in Orders, Exists(order'[o])
      PROVE  /\ o.market = DefaultMarket => order'[o].stake = STAKE_LAMPORTS
             /\ o.market \in Flows =>
                    \E n \in Sides \cup {"exploit"} : o = DemoOrder(o.market, n)
             /\ o.market = CustomMarket =>
                    /\ o.by \in Flows /\ IsKind(o.by, "custom-order")'
                    /\ Exists(config'[CustomMarket])
                    /\ config'[CustomMarket].commitment = flow'[o.by].input.commitment
  <2>1. CASE Exists(order[o])
    <3>1. CustomMarket \in Markets
        BY <1>3 DEF ServersMarkets
    <3>2. Exists(config[CustomMarket]) => config'[CustomMarket] = config[CustomMarket]
        BY <1>2, <3>1 DEF AccountsLast
    <3>3. /\ o.market = DefaultMarket => order[o].stake = STAKE_LAMPORTS
          /\ o.market \in Flows =>
                \E n \in Sides \cup {"exploit"} : o = DemoOrder(o.market, n)
          /\ o.market = CustomMarket =>
                /\ o.by \in Flows /\ IsKind(o.by, "custom-order")
                /\ Exists(config[CustomMarket])
                /\ config[CustomMarket].commitment = flow[o.by].input.commitment
        BY <1>1, <2>1 DEF MarketsOfFlows
    <3>4. o.market = CustomMarket =>
              /\ IsKind(o.by, "custom-order")'
              /\ flow'[o.by].input.commitment = flow[o.by].input.commitment
        BY <1>2, <3>3, KindLasts
    <3>5. order'[o].stake = order[o].stake
        BY <1>1, <1>l, <2>1, StakesStay
    <3> QED  BY <3>2, <3>3, <3>4, <3>5
  <2>2. CASE ~ Exists(order[o]) /\ o.market \in ServersMarkets
    <3>1. o.market \in ServersMarkets /\ ~ MarketRests(o.market)
        BY <1>6, <2>2 DEF MarketRests, ServersMarkets
    <3>2. ASSUME NEW p \in Orders, EvaluateOrder(p)
          PROVE  FALSE
      <4> DEFINE t == [ix |-> "evaluate_order", order |-> p]
      <4>1. TypedTransaction(t) /\ Execute(t)
          BY <3>2 DEF TypedTransaction, Execute, ByMarketInstructions, ByOrderInstructions
      <4>2. t.ix # "place_order"
          OBVIOUS
      <4> HIDE DEF t
      <4> QED  BY <1>1, <1>6, <2>2, <4>1, <4>2, PlacesOrder
    <3>f. PICK f \in Flows : \E t : SendsTo(f, o.market, t)
        BY <3>1, <3>2, WhoTouches DEF FlowsStep
    <3>3. PICK t : SendsTo(f, o.market, t)
      BY <3>f
    <3>4. /\ Sending(f) /\ MarketOf(f) = o.market /\ t = Tx(f, Step(f))
          /\ TypedTransaction(t) /\ Execute(t)
        BY <3>3 DEF SendsTo
    <3>5. /\ Step(f) \in {"place", "place_exploit", "place_no"}
          /\ o = OrderOf(f, Step(f)) /\ t.stake = StakeOf(f)
          /\ t.ix = "place_order" /\ t.order = o
      <4>1. t.ix = "place_order" /\ t.order = o
          BY <1>1, <1>6, <2>2, <3>4, PlacesOrder
      <4> QED  BY <1>1, <3>4, <4>1, TxOfFlow
    <3>6. IsRequest(flow[f]) /\ AtStep(f) /\ Came(f)
        BY <3>4 DEF Sending, AtStep, Running, FlowTypeOK, Idle, Came
    <3>7. ASSUME o.market # DefaultMarket
          PROVE  o = [market |-> o.market, by |-> f, n |-> o.n]
                 /\ o.n \in Sides \cup {"exploit"}
      <4>1. flow[f].side \in Sides
          BY <3>6 DEF IsRequest
      <4> QED  BY <3>4, <3>5, <3>7, <4>1 DEF OrderOf, Sides
    <3>8. CASE o.market \in Flows
      <4>1. o.market = f /\ o.market \notin {CustomMarket, DefaultMarket}
          BY <1>1, <3>4, <3>8 DEF MarketOf, FlowAssumption
      <4> QED  BY <3>7, <3>8, <4>1 DEF DemoOrder
    <3>9. CASE o.market = CustomMarket
      <4>1. /\ flow[f].kind \in Kinds /\ flow[f].pc \in Nat \ {0}
            /\ flow[f].pc <= Len(Plan(flow[f].kind))
            /\ Step(f) = Plan(flow[f].kind)[flow[f].pc]
          BY <1>1, <3>6 DEF IsRequest, FlowAssumption, Kinds, AtStep, Step
      <4>2. flow[f].kind \in {"custom-order", "initialize-custom"}
          BY <1>1, <3>4, <3>9 DEF MarketOf, FlowAssumption
      <4>3. flow[f].kind = "custom-order" /\ flow[f].pc = 8
          BY <3>5, <4>1, <4>2, PlacesInPlans
      <4>4. /\ Exists(config[CustomMarket])
            /\ config[CustomMarket].commitment = flow[f].input.commitment
          BY <3>6, <4>3 DEF FlowsInv, RequestInv, RequestKnows, IsKind, PastItsStep
      <4>5. config'[CustomMarket] = config[CustomMarket]
          BY <1>2, <1>3, <4>4 DEF AccountsLast, ServersMarkets
      <4>6. /\ IsKind(f, "custom-order")'
            /\ flow'[f].input.commitment = flow[f].input.commitment
          BY <1>2, <3>6, <4>3, KindLasts DEF IsKind
      <4>7. o.by = f /\ o.market \notin Flows /\ o.market # DefaultMarket
          BY <1>1, <3>7, <3>9 DEF FlowAssumption
      <4> QED  BY <4>4, <4>5, <4>6, <4>7
    <3>10. CASE o.market = DefaultMarket
      <4>1. flow[f].kind \notin {"custom-order", "full-settlement-demo"}
          BY <1>1, <3>4, <3>10 DEF MarketOf, FlowAssumption
      <4> DEFINE stake == t.stake
      <4>2. stake = STAKE_LAMPORTS
          BY <3>5, <4>1 DEF StakeOf
      <4>3. PlaceOrder(o, t.signer, t.side, stake)
          BY <3>4, <3>5 DEF Execute
      <4>4. order \in [Orders -> OrderAccount \cup {NoAccount}]
          BY DEF LegacyInv, LegacyTypeOK
      <4> HIDE DEF stake
      <4>5. order'[o].stake = stake
          BY <4>3, <4>4 DEF PlaceOrder
      <4> QED  BY <1>1, <3>10, <4>2, <4>5 DEF FlowAssumption
    <3> QED  BY <2>2, <3>8, <3>9, <3>10 DEF ServersMarkets
  <2>3. CASE o.market \notin ServersMarkets
      BY <2>3 DEF ServersMarkets
  <2> QED  BY <2>1, <2>2, <2>3
<1> QED  BY <1>5, <1>6 DEF MarketsOfFlows, ServersMarkets

\* A settlement demo that closes its market, or is past that, has no order waiting.
LEMMA NoneWaits ==
    ASSUME FlowsInv, NEW f \in Flows, IsKind(f, "full-settlement-demo"),
           flow[f].stage # "failed", flow[f].pc \in Nat, flow[f].pc >= 12,
           NEW o \in Orders, o.market = f, Exists(order[o])
    PROVE  order[o].status # "Escrowed"
<1>1. DemoOf(f)
    BY DEF FlowsInv, RequestInv, DemoKnows
<1>2. PICK n \in Sides \cup {"exploit"} : o = DemoOrder(f, n)
    BY DEF FlowsInv, MarketsOfFlows
<1>3. n \in {"Yes", "No", "exploit"}
    BY DEF Sides
<1>4. /\ order[DemoOrder(f, "exploit")].status = "VoidedRefunded"
      /\ order[DemoOrder(f, "Yes")].status \in {"Filled", "Settled"}
      /\ order[DemoOrder(f, "No")].status = "Filled"
    BY <1>1 DEF DemoOf, DemoAt
<1> QED  BY <1>2, <1>3, <1>4

\* A market of the server is closed when its demo has no order waiting, and stays so.
LEMMA ClosedStayByDemos ==
    ASSUME ProgramsAssumption, TradersElsewhere, LegacyInv, FlowTypeOK, FlowsInv, FlowsStep
    PROVE  ClosedByDemos'
<1>1. LegacyAssumption /\ FlowAssumption /\ OrdersTell /\ ClosedByDemos
    BY DEF ProgramsAssumption, FlowsInv
<1>2. /\ AccountsLast /\ LegacyInv'
      /\ \A f \in Flows : RequestLasts(flow[f], flow'[f])
    BY <1>1, FlowsStepLasts
<1> DEFINE Shut(a) == Exists(a) /\ (a.trading_closed \/ a.resolution # "None")
           QuietIn(m) == \A o \in Orders :
                            o.market = m /\ Exists(order[o]) => order[o].status # "Escrowed"
           Demo(m) == m \in Flows /\ IsKind(m, "full-settlement-demo") /\ flow[m].pc >= 12
<1>3. ASSUME NEW m \in ServersMarkets, Shut(market'[m])
      PROVE  Demo(m) /\ QuietIn(m)
  <2>1. CASE Shut(market[m])
      BY <1>1, <2>1 DEF ClosedByDemos
  <2>2. CASE ~ Shut(market[m])
    <3>1. ASSUME NEW t, TypedTransaction(t), Execute(t)
          PROVE  t.ix \in {"close_market", "resolve_market_from_txline",
                           "emergency_void_market"}
        BY <1>1, <1>3, <2>2, <3>1, ClosesMarket DEF FlowAssumption, ServersMarkets
    <3>2. ASSUME NEW o \in Orders, EvaluateOrder(o)
          PROVE  FALSE
      <4> DEFINE t == [ix |-> "evaluate_order", order |-> o]
      <4>1. TypedTransaction(t) /\ Execute(t)
          BY <3>2 DEF TypedTransaction, Execute, ByMarketInstructions, ByOrderInstructions
      <4>2. t.ix = "evaluate_order"
          OBVIOUS
      <4> HIDE DEF t
      <4> QED  BY <3>1, <4>1, <4>2
    <3>3. ~ MarketRests(m)
        BY <1>3, <2>2 DEF MarketRests
    <3>f. PICK f \in Flows : \E t : SendsTo(f, m, t)
        BY <3>2, <3>3, WhoTouches DEF FlowsStep
    <3>4. PICK t : SendsTo(f, m, t)
      BY <3>f
    <3>5. /\ Sending(f) /\ MarketOf(f) = m /\ t = Tx(f, Step(f))
          /\ TypedTransaction(t) /\ Execute(t)
        BY <3>4 DEF SendsTo
    <3>6. Step(f) \in {"close", "resolve"}
        BY <1>1, <3>1, <3>5, TxOfFlow
    <3>7. /\ flow[f].kind \in Kinds /\ flow[f].pc \in Nat \ {0}
          /\ flow[f].pc <= Len(Plan(flow[f].kind))
          /\ Step(f) = Plan(flow[f].kind)[flow[f].pc]
          /\ flow[f].stage = "running"
        BY <1>1, <3>5, ActiveRequest DEF Sending
    <3>8. flow[f].kind = "full-settlement-demo" /\ flow[f].pc >= 12
        BY <3>6, <3>7, PlacesInPlans
    <3>9. m = f /\ IsKind(f, "full-settlement-demo")
        BY <3>5, <3>7, <3>8 DEF MarketOf, IsKind, Came
    <3>10. QuietIn(m)
        BY <3>7, <3>8, <3>9, NoneWaits
    <3> QED  BY <3>8, <3>9, <3>10
  <2> QED  BY <2>1, <2>2
<1>4. ASSUME NEW m \in Flows, Demo(m), QuietIn(m), NEW o \in Orders, o.market = m,
             Exists(order'[o])
      PROVE  order'[o].status # "Escrowed"
  <2>1. CASE Exists(order[o])
      BY <1>2, <1>4, <2>1 DEF AccountsLast, OrderLasts
  <2>2. CASE ~ Exists(order[o])
    <3>1. m \in ServersMarkets /\ ~ MarketRests(m)
        BY <1>4, <2>2 DEF ServersMarkets, MarketRests
    <3>2. ASSUME NEW t, TypedTransaction(t), Execute(t)
          PROVE  t.ix = "place_order" /\ t.order = o
        BY <1>1, <1>4, <2>2, <3>2, PlacesOrder
    <3>3. ASSUME NEW p \in Orders, EvaluateOrder(p)
          PROVE  FALSE
      <4> DEFINE t == [ix |-> "evaluate_order", order |-> p]
      <4>1. TypedTransaction(t) /\ Execute(t)
          BY <3>3 DEF TypedTransaction, Execute, ByMarketInstructions, ByOrderInstructions
      <4>2. t.ix = "evaluate_order"
          OBVIOUS
      <4> HIDE DEF t
      <4> QED  BY <3>2, <4>1, <4>2
    <3>f. PICK f \in Flows : \E t : SendsTo(f, m, t)
        BY <3>1, <3>3, WhoTouches DEF FlowsStep
    <3>4. PICK t : SendsTo(f, m, t)
      BY <3>f
    <3>5. /\ Sending(f) /\ MarketOf(f) = m /\ t = Tx(f, Step(f))
          /\ TypedTransaction(t) /\ Execute(t)
        BY <3>4 DEF SendsTo
    <3>6. Step(f) \in {"place", "place_exploit", "place_no"}
        BY <1>1, <3>2, <3>5, TxOfFlow
    <3>7. /\ flow[f].kind \in Kinds /\ flow[f].pc \in Nat \ {0}
          /\ flow[f].pc <= Len(Plan(flow[f].kind))
          /\ Step(f) = Plan(flow[f].kind)[flow[f].pc]
        BY <1>1, <3>5, ActiveRequest DEF Sending
    <3>8. f = m
        BY <1>1, <1>4, <3>5 DEF MarketOf, FlowAssumption
    <3> QED  BY <1>4, <3>6, <3>7, <3>8, PlacesInPlans DEF IsKind
  <2> QED  BY <2>1, <2>2
<1>5. ASSUME NEW m \in Flows, Demo(m)
      PROVE  IsKind(m, "full-settlement-demo")' /\ flow'[m].pc >= 12
  <2>1. /\ IsKind(m, "full-settlement-demo")' /\ flow'[m].pc >= flow[m].pc
        /\ flow[m].pc \in Nat /\ flow'[m].pc \in Nat
      BY <1>2, <1>5, KindLasts DEF RequestLasts, IsKind, Came
  <2> QED  BY <1>5, <2>1
<1> QED  BY <1>3, <1>4, <1>5 DEF ClosedByDemos, ServersMarkets

(***************************************************************************)
(* What a request achieves on markets that others use as well.             *)
(***************************************************************************)

\* An evaluation leaves its order evaluated.
LEMMA EvaluationTells ==
    ASSUME LegacyAssumption, LegacyInv, NEW o \in Orders, EvaluateOrder(o)
    PROVE  \E status \in {"Filled", "VoidedRefunded"} :
              /\ order'[o] = EvaluatedOrder(o, status)
              /\ Exists(order'[o]) /\ order'[o].status = status
<1>1. PICK status \in {"Filled", "VoidedRefunded"} :
          order' = [order EXCEPT ![o] = EvaluatedOrder(o, status)]
    BY DEF EvaluateOrder, VoidAndRefund, Fill
<1> DEFINE x == EvaluatedOrder(o, status)
<1>2. x \in OrderAccount /\ x.status = status
    BY EvaluatedTyped DEF EvaluateOrder
<1> HIDE DEF x
<1>3. order' = [order EXCEPT ![o] = x] /\ order \in [Orders -> OrderAccount \cup {NoAccount}]
    BY <1>1 DEF LegacyInv, LegacyTypeOK, x
<1>4. order'[o] = x /\ Exists(x)
    BY <1>2, <1>3 DEF Exists, LegacyAssumption
<1> QED  BY <1>2, <1>4 DEF x

\* What the steps that others rely on have done when a flow passes them.
LEMMA PassingDoes ==
    ASSUME ProgramsAssumption, TradersElsewhere, LegacyInv, FlowTypeOK,
           NEW f \in Flows, Passes(f),
           NEW kind, kind = flow[f].kind, NEW pc, pc = flow[f].pc
    PROVE  /\ kind = "ingest-event" /\ pc = 1 =>
                 /\ Exists(market'[DefaultMarket])
                 /\ market'[DefaultMarket].material_seq >= CANONICAL_EVENT_SEQ
           /\ kind = "reprice" /\ pc = 1 =>
                 /\ Exists(market'[DefaultMarket])
                 /\ market'[DefaultMarket].displayed = CANONICAL_FAIR_PRICE
           /\ \/ kind = "evaluate-order" /\ pc = 3
              \/ kind = "full-demo" /\ pc = 5
              \/ kind = "custom-order" /\ pc = 9
              => /\ Exists(order'[EvaluatedBy(f)])
                 /\ order'[EvaluatedBy(f)].status # "Escrowed"
           /\ kind = "custom-order" /\ pc = 4 =>
                 /\ Exists(config[CustomMarket])
                 /\ config[CustomMarket].commitment = flow[f].input.commitment
<1>1. LegacyAssumption /\ FlowAssumption
    BY DEF ProgramsAssumption
<1>2. /\ AtStep(f) /\ IsRequest(flow[f]) /\ kind \in Kinds /\ pc \in Nat \ {0}
      /\ pc <= Len(Plan(kind)) /\ Step(f) = Plan(kind)[pc]
    BY <1>1, ActiveRequest DEF Passes
<1>3. /\ market \in [Markets -> MarketAccount \cup {NoAccount}]
      /\ order \in [Orders -> OrderAccount \cup {NoAccount}]
    BY DEF LegacyInv, LegacyTypeOK
\* A step that sends has sent.
<1>4. ASSUME NEW t, t = Tx(f, Step(f)), t.ix # "none", Step(f) \notin Reads
      PROVE  Execute(t)
    BY <1>4 DEF Passes, NoTx
<1>5. CASE kind = "ingest-event" /\ pc = 1
  <2>1. Step(f) = "ingest" /\ MarketOf(f) = DefaultMarket
      BY <1>2, <1>5, PlacesInPlans DEF MarketOf
  <2> DEFINE t == IngestTx(f)
  <2>2. /\ t.ix = "ingest_material_event" /\ t.market = DefaultMarket
        /\ t.seq = CANONICAL_EVENT_SEQ
      BY <1>5, <2>1 DEF IngestTx, IsCustom
  <2>3. Tx(f, Step(f)) = t
      BY <2>1 DEF Tx
  <2> HIDE DEF t
  <2>4. IngestMaterialEvent(DefaultMarket, t.signer, CANONICAL_EVENT_SEQ, t.price)
      BY <1>4, <2>1, <2>2, <2>3 DEF Execute, Reads
  <2> DEFINE price == t.price
             seq == CANONICAL_EVENT_SEQ
             status == IF seq > market[DefaultMarket].priced_at_seq THEN "Stale"
                       ELSE market[DefaultMarket].status
             a == [market[DefaultMarket] EXCEPT !.material_seq = seq, !.fair = price,
                       !.source_event = seq, !.status = status]
  <2>5. Exists(market[DefaultMarket]) /\ price \in 1 .. MICROS_ONE - 1
      BY <2>4 DEF IngestMaterialEvent, CanIngest
  <2>6. market[DefaultMarket] \in MarketAccount /\ seq \in Nat /\ DefaultMarket \in Markets
      BY <1>1, <1>3, <2>5 DEF Exists, FlowAssumption
  <2>7. market' = [market EXCEPT ![DefaultMarket].material_seq = seq,
                         ![DefaultMarket].fair = price,
                         ![DefaultMarket].source_event = seq,
                         ![DefaultMarket].status = status]
      BY <2>4, <2>6 DEF IngestMaterialEvent, MarketAccount
  <2>8. price \in Prices /\ status \in {"Trading", "Stale"}
      BY <1>1, <2>5, <2>6 DEF Prices, LegacyAssumption, MarketAccount
  <2> HIDE DEF price, seq, status
  <2>9. a \in MarketAccount /\ a.material_seq = seq
      BY <2>6, <2>8 DEF MarketAccount
  <2>10. market'[DefaultMarket] = a
      BY <1>3, <2>6, <2>7 DEF MarketAccount
  <2> HIDE DEF a
  <2>11. Exists(a)
      BY <1>1, <2>9 DEF Exists, LegacyAssumption
  <2>12. market'[DefaultMarket].material_seq >= CANONICAL_EVENT_SEQ
      BY <2>6, <2>9, <2>10 DEF seq
  <2> QED  BY <1>5, <2>10, <2>11, <2>12
<1>6. CASE kind = "reprice" /\ pc = 1
  <2>1. Step(f) = "reprice" /\ MarketOf(f) = DefaultMarket
      BY <1>2, <1>6, PlacesInPlans DEF MarketOf
  <2> DEFINE t == [ ix |-> "reprice_market", market |-> MarketOf(f),
                    signer |-> Operator, price |-> CANONICAL_FAIR_PRICE ]
  <2>2. /\ t.ix = "reprice_market" /\ t.market = DefaultMarket
        /\ t.price = CANONICAL_FAIR_PRICE
      BY <2>1
  <2>3. Tx(f, Step(f)) = t
      BY <2>1 DEF Tx
  <2> HIDE DEF t
  <2>4. RepriceMarket(DefaultMarket, t.signer, CANONICAL_FAIR_PRICE)
      BY <1>4, <2>1, <2>2, <2>3 DEF Execute, Reads
  <2> DEFINE price == CANONICAL_FAIR_PRICE
             seq == market[DefaultMarket].material_seq
             a == [market[DefaultMarket] EXCEPT !.displayed = price,
                       !.priced_at_seq = seq, !.status = "Trading"]
  <2>5. Exists(market[DefaultMarket]) /\ price \in Prices
      BY <2>4 DEF RepriceMarket, CanReprice
  <2>6. market[DefaultMarket] \in MarketAccount /\ seq \in Nat /\ DefaultMarket \in Markets
      BY <1>1, <1>3, <2>5 DEF Exists, FlowAssumption, MarketAccount
  <2>7. market' = [market EXCEPT ![DefaultMarket].displayed = price,
                         ![DefaultMarket].priced_at_seq = seq,
                         ![DefaultMarket].status = "Trading"]
      BY <2>4 DEF RepriceMarket
  <2> HIDE DEF price, seq
  <2>8. a \in MarketAccount /\ a.displayed = price
      BY <2>5, <2>6 DEF MarketAccount
  <2>9. market'[DefaultMarket] = a
      BY <1>3, <2>6, <2>7 DEF MarketAccount
  <2> HIDE DEF a
  <2>10. Exists(a)
      BY <1>1, <2>8 DEF Exists, LegacyAssumption
  <2> QED  BY <1>6, <2>8, <2>9, <2>10 DEF price
<1>7. CASE \/ kind = "evaluate-order" /\ pc = 3
           \/ kind = "full-demo" /\ pc = 5
           \/ kind = "custom-order" /\ pc = 9
  <2>1. Step(f) = "evaluate"
      BY <1>2, <1>7, PlacesInPlans
  <2> DEFINE o == EvaluatedBy(f)
             t == [ix |-> "evaluate_order", order |-> o]
  <2>2. Tx(f, Step(f)) = t
      BY <2>1 DEF Tx, EvaluatedBy
  <2>3. o \in Orders
      BY <1>1, <1>2, FlowNamesAccounts DEF EvaluatedBy
  <2>4. t.ix = "evaluate_order" /\ t.order = o
      OBVIOUS
  <2> HIDE DEF o, t
  <2>5. EvaluateOrder(o)
      BY <1>4, <2>1, <2>2, <2>4 DEF Execute, Reads
  <2>6. Exists(order'[o]) /\ order'[o].status # "Escrowed"
      BY <1>1, <2>3, <2>5, EvaluationTells
  <2> QED  BY <1>7, <2>6 DEF o
<1>8. CASE kind = "custom-order" /\ pc = 4
  <2>1. Step(f) = "read_again" /\ MarketOf(f) = CustomMarket
      BY <1>2, <1>8, PlacesInPlans DEF MarketOf
  <2>2. ConfigMatches(f)
      BY <2>1 DEF Passes, Sending, Reads
  <2>3. Exists(config[CustomMarket])
      BY <2>1, <2>2 DEF ConfigMatches, FetchMarketConfig
  <2>4. config[CustomMarket].commitment = flow[f].input.commitment
      BY <2>1, <2>2, <2>3 DEF ConfigMatches, FetchMarketConfig
  <2> QED  BY <1>8, <2>3, <2>4
<1> QED  BY <1>5, <1>6, <1>7, <1>8

\* Names of a request that keeps its kind and side.
LEMMA NamesLast ==
    ASSUME FlowAssumption, NEW f \in Flows, IsRequest(flow[f]),
           SameRequest(flow[f], flow'[f])
    PROVE  /\ EvaluatedBy(f)' = EvaluatedBy(f) /\ EvaluatedBy(f) \in Orders
           /\ OrderOf(f, "place")' = OrderOf(f, "place") /\ OrderOf(f, "place") \in Orders
           /\ MarketOf(f)' = MarketOf(f)
<1>1. EvaluatedBy(f) \in Orders /\ OrderOf(f, "place") \in Orders
    BY FlowNamesAccounts DEF EvaluatedBy
<1>2. MarketOf(f)' = MarketOf(f)
    BY DEF MarketOf, SameRequest
<1>3. \A n : OrderOf(f, n)' = OrderOf(f, n)
    BY <1>2 DEF OrderOf, SameRequest
<1> QED  BY <1>1, <1>2, <1>3 DEF EvaluatedBy

\* The default market's price is that of the requests that repriced it.
LEMMA PriceStaysCanonical ==
    ASSUME ProgramsAssumption, TradersElsewhere, LegacyInv, FlowTypeOK, OrdersTell, FlowsStep,
           Exists(market[DefaultMarket]),
           market[DefaultMarket].displayed = CANONICAL_FAIR_PRICE
    PROVE  /\ Exists(market'[DefaultMarket])
           /\ market'[DefaultMarket].displayed = CANONICAL_FAIR_PRICE
<1>1. LegacyAssumption /\ FlowAssumption
    BY DEF ProgramsAssumption
<1>2. DefaultMarket \in Markets /\ DefaultMarket \in ServersMarkets
    BY <1>1 DEF FlowAssumption, ServersMarkets
<1>3. Exists(market'[DefaultMarket])
    BY <1>2, FlowsStepLasts DEF AccountsLast, MarketLasts
<1>4. CASE MarketRests(DefaultMarket)
    BY <1>4 DEF MarketRests
<1>5. ASSUME NEW t, TypedTransaction(t), Execute(t),
             t.ix = "reprice_market" => t.price = CANONICAL_FAIR_PRICE
      PROVE  market'[DefaultMarket].displayed = CANONICAL_FAIR_PRICE
    BY <1>1, <1>2, <1>5, PricesStay
<1>6. ASSUME NEW o \in Orders, EvaluateOrder(o)
      PROVE  market'[DefaultMarket].displayed = CANONICAL_FAIR_PRICE
  <2> DEFINE t == [ix |-> "evaluate_order", order |-> o]
  <2>1. TypedTransaction(t) /\ Execute(t)
      BY <1>6 DEF TypedTransaction, Execute, ByMarketInstructions, ByOrderInstructions
  <2>2. t.ix # "reprice_market"
      OBVIOUS
  <2> HIDE DEF t
  <2> QED  BY <1>5, <2>1, <2>2
<1>7. ASSUME NEW f \in Flows, NEW t, SendsTo(f, DefaultMarket, t)
      PROVE  market'[DefaultMarket].displayed = CANONICAL_FAIR_PRICE
  <2>1. /\ Sending(f) /\ t = Tx(f, Step(f)) /\ TypedTransaction(t) /\ Execute(t)
      BY <1>7 DEF SendsTo
  <2>2. t.ix = "reprice_market" => t.price = CANONICAL_FAIR_PRICE
      BY <1>1, <2>1, TxOfFlow
  <2> QED  BY <1>5, <2>1, <2>2
<1>8. \/ MarketRests(DefaultMarket)
      \/ \E o \in Orders : EvaluateOrder(o)
      \/ \E f \in Flows : \E t : SendsTo(f, DefaultMarket, t)
    BY <1>2, WhoTouches DEF FlowsStep
<1> QED  BY <1>3, <1>4, <1>6, <1>7, <1>8

\* Whether a request passes a step now, and what it sees then.
LEMMA RequestEvolves ==
    ASSUME FlowAssumption, LegacyTypeOK, FlowTypeOK, FlowsStep, NEW f \in Flows,
           NEW r, r = flow[f], NEW s, s = flow'[f]
    PROVE  \/ s = r
           \/ r = Idle /\ s.pc = 1 /\ s.stage # "ok" /\ s.seen = Null
           \/ /\ r.stage = "running" /\ SameRequest(r, s) /\ s.pc = r.pc
              /\ s.stage = "ok" => r.pc > Len(Plan(r.kind))
              /\ s.seen = r.seen
           \/ /\ r.stage = "running" /\ SameRequest(r, s) /\ s.pc = r.pc + 1
              /\ s.stage = "running" /\ Passes(f) /\ ReadsState(f)
<1>1. UNCHANGED flow \/ (\E g \in Flows : FlowStep(g))
    BY DEF FlowsStep, FirstStep, TradersStep, FlowNext, Passerby, flowVars
<1>2. ASSUME NEW g \in Flows, FlowStep(g), g # f
      PROVE  s = r
    BY <1>2, FlowMoves
<1>3. CASE FlowStep(f)
  <2>1. \/ RequestComes(r, s)
        \/ RequestStops(r, s)
        \/ RequestGoesOn(r, s) /\ Passes(f) /\ ReadsState(f)
        \/ RequestIsAnswered(r, s)
      BY <1>3, FlowMoves
  <2> QED  BY <2>1 DEF RequestComes, RequestStops, RequestGoesOn, RequestIsAnswered
<1> QED  BY <1>1, <1>2, <1>3

\* What a request has achieved stays so, and it has achieved what its steps say.
LEMMA KnowingLasts ==
    ASSUME ProgramsAssumption, TradersElsewhere, LegacyInv, FlowTypeOK, FlowsInv, FlowsStep,
           NEW f \in Flows
    PROVE  RequestKnows(f)' /\ AnsweredAtTheEnd(f)'
<1>1. /\ LegacyAssumption /\ FlowAssumption /\ OrdersTell /\ RequestKnows(f)
      /\ AnsweredAtTheEnd(f) /\ LegacyTypeOK
    BY DEF ProgramsAssumption, FlowsInv, RequestInv, LegacyInv
<1>2. /\ AccountsLast /\ LegacyInv' /\ RequestLasts(flow[f], flow'[f])
    BY <1>1, FlowsStepLasts
<1>3. DefaultMarket \in Markets /\ CustomMarket \in Markets
    BY <1>1 DEF FlowAssumption
<1> DEFINE r == flow[f]
           s == flow'[f]
<1>4. \/ s = r
      \/ r = Idle /\ s.pc = 1 /\ s.stage # "ok"
      \/ /\ r.stage = "running" /\ SameRequest(r, s)
         /\ \/ s.pc = r.pc /\ (s.stage = "ok" => r.pc > Len(Plan(r.kind)))
            \/ s.pc = r.pc + 1 /\ s.stage = "running" /\ Passes(f)
    BY <1>1, RequestEvolves
<1>5. CASE r = Idle
  <2>1. s = Idle \/ (s.pc = 1 /\ s.stage # "ok")
      BY <1>4, <1>5 DEF Idle
  <2> QED  BY <2>1
           DEF Idle, RequestKnows, AnsweredAtTheEnd, Answered, IsKind, Came, PastItsStep
<1>6. CASE r # Idle
  <2>1. /\ IsRequest(r) /\ Came(f) /\ SameRequest(r, s) /\ r.pc \in Nat
        /\ \/ s.pc = r.pc
           \/ s.pc = r.pc + 1 /\ Passes(f)
      BY <1>4, <1>6 DEF FlowTypeOK, IsRequest, Came, SameRequest
  <2>2. EvaluatedBy(f)' = EvaluatedBy(f) /\ EvaluatedBy(f) \in Orders
      BY <1>1, <2>1, NamesLast
  <2>3. AnsweredAtTheEnd(f)'
      BY <1>1, <1>4, <1>6, <2>1 DEF AnsweredAtTheEnd, Answered, SameRequest
  <2> DEFINE Ingested(a) == Exists(a) /\ a.material_seq >= CANONICAL_EVENT_SEQ
             Repriced(a) == Exists(a) /\ a.displayed = CANONICAL_FAIR_PRICE
             Done(x) == Exists(x) /\ x.status # "Escrowed"
             Agreed(c) == Exists(c) /\ c.commitment = r.input.commitment
             kind == r.kind
  <2>4. Ingested(market[DefaultMarket]) => Ingested(market'[DefaultMarket])
    <3>1. MarketLasts(market[DefaultMarket], market'[DefaultMarket])
        BY <1>2, <1>3 DEF AccountsLast
    <3>2. /\ market[DefaultMarket] \in MarketAccount \cup {NoAccount}
          /\ market'[DefaultMarket] \in MarketAccount \cup {NoAccount}
        BY <1>2, <1>3 DEF LegacyInv, LegacyTypeOK
    <3>3. CANONICAL_EVENT_SEQ \in Nat
        BY <1>1 DEF FlowAssumption
    <3> QED  BY <3>1, <3>2, <3>3 DEF MarketLasts, MarketAccount, Exists
  <2>5. Repriced(market[DefaultMarket]) => Repriced(market'[DefaultMarket])
      BY <1>1, PriceStaysCanonical
  <2>6. Agreed(config[CustomMarket]) => Agreed(config'[CustomMarket])
      BY <1>2, <1>3 DEF AccountsLast
  <2>7. ASSUME Passes(f)
        PROVE  /\ kind = "ingest-event" /\ r.pc = 1 => Ingested(market'[DefaultMarket])
               /\ kind = "reprice" /\ r.pc = 1 => Repriced(market'[DefaultMarket])
               /\ \/ kind = "evaluate-order" /\ r.pc = 3
                  \/ kind = "full-demo" /\ r.pc = 5
                  \/ kind = "custom-order" /\ r.pc = 9
                  => Done(order'[EvaluatedBy(f)])
               /\ kind = "custom-order" /\ r.pc = 4 => Agreed(config[CustomMarket])
      BY <2>7, PassingDoes
  <2> DEFINE Past(n) == r.pc > n
             PastNow(n) == s.pc > n
  <2>8. ASSUME NEW n \in Nat, PastNow(n)
        PROVE  Past(n) \/ (r.pc = n /\ Passes(f))
      BY <2>1, <2>8
  <2>9. /\ kind = "ingest-event" /\ Past(1) => Ingested(market[DefaultMarket])
        /\ kind = "reprice" /\ Past(1) => Repriced(market[DefaultMarket])
        /\ \/ kind = "evaluate-order" /\ Past(3)
           \/ kind = "full-demo" /\ Past(5)
           \/ kind = "custom-order" /\ Past(9)
           => Done(order[EvaluatedBy(f)])
        /\ kind = "custom-order" /\ Past(4) => Agreed(config[CustomMarket])
      BY <1>1, <2>1 DEF RequestKnows, IsKind, PastItsStep, WasEvaluated
  <2> DEFINE x == order[EvaluatedBy(f)]
             xn == order'[EvaluatedBy(f)]
  <2>10. Done(x) => Done(xn)
    <3>1. OrderLasts(x, xn)
        BY <1>2, <2>2 DEF AccountsLast
    <3> QED  BY <3>1 DEF OrderLasts
  <2> HIDE DEF Ingested, Repriced, Done, Agreed, Past, x, xn
  <2>11. /\ kind = "ingest-event" /\ PastNow(1) => Ingested(market'[DefaultMarket])
         /\ kind = "reprice" /\ PastNow(1) => Repriced(market'[DefaultMarket])
         /\ \/ kind = "evaluate-order" /\ PastNow(3)
            \/ kind = "full-demo" /\ PastNow(5)
            \/ kind = "custom-order" /\ PastNow(9)
            => Done(xn)
         /\ kind = "custom-order" /\ PastNow(4) => Agreed(config'[CustomMarket])
    <3> HIDE DEF PastNow
    <3>1. \A n \in {1, 3, 4, 5, 9} : PastNow(n) => Past(n) \/ (r.pc = n /\ Passes(f))
        BY <2>8
    <3>2. kind = "ingest-event" /\ PastNow(1) => Ingested(market'[DefaultMarket])
        BY <2>4, <2>7, <2>9, <3>1
    <3>3. kind = "reprice" /\ PastNow(1) => Repriced(market'[DefaultMarket])
        BY <2>5, <2>7, <2>9, <3>1
    <3>4. \/ kind = "evaluate-order" /\ PastNow(3)
          \/ kind = "full-demo" /\ PastNow(5)
          \/ kind = "custom-order" /\ PastNow(9)
          => Done(xn)
        BY <2>7, <2>9, <2>10, <3>1 DEF x, xn
    <3>5. kind = "custom-order" /\ PastNow(4) => Agreed(config'[CustomMarket])
        BY <2>6, <2>7, <2>9, <3>1
    <3> QED  BY <3>2, <3>3, <3>4, <3>5
  <2>12. RequestKnows(f)'
      BY <2>1, <2>2, <2>11
         DEF RequestKnows, IsKind, PastItsStep, WasEvaluated, Ingested, Repriced, Done,
             Agreed, xn, SameRequest
  <2> QED  BY <2>3, <2>12
<1> QED  BY <1>5, <1>6

\* What a request reads of its market at the end shows what it has achieved.
LEMMA ReadingShows ==
    ASSUME LegacyAssumption, FlowAssumption, LegacyInv, FlowTypeOK, FlowsInv,
           NEW f \in Flows, AtStep(f), Step(f) = "read_state",
           NEW a, a = FetchMarket(MarketOf(f)), a # Null
    PROVE  /\ flow[f].kind = "ingest-event" => a.materialSeq >= CANONICAL_EVENT_SEQ
           /\ flow[f].kind = "reprice" => a.displayed = CANONICAL_FAIR_PRICE
           /\ HasProof(f) =>
                 /\ WasEvaluated(EvaluatedBy(f))
                 /\ order[EvaluatedBy(f)].event <= a.materialSeq
<1> DEFINE kind == flow[f].kind
           pc == flow[f].pc
           m == MarketOf(f)
<1>1. /\ IsRequest(flow[f]) /\ Came(f) /\ kind \in Kinds /\ pc \in Nat \ {0}
      /\ pc <= Len(Plan(kind)) /\ Step(f) = Plan(kind)[pc]
    BY ActiveRequest
<1>2. Exists(market[m])
    BY DEF FetchMarket
<1>3. a.materialSeq = market[m].material_seq /\ a.displayed = market[m].displayed
    BY <1>2 DEF FetchMarket
<1>4. RequestKnows(f) /\ OrdersTell
    BY DEF FlowsInv, RequestInv
<1>5. ASSUME kind \in {"ingest-event", "reprice"}
      PROVE  pc > 1 /\ m = DefaultMarket
  <2>1. pc # 1
      BY <1>1, <1>5, PlacesInPlans
  <2> QED  BY <1>1, <1>5, <2>1 DEF MarketOf
<1>6. kind = "ingest-event" => a.materialSeq >= CANONICAL_EVENT_SEQ
    BY <1>1, <1>3, <1>4, <1>5 DEF RequestKnows, IsKind, PastItsStep
<1>7. kind = "reprice" => a.displayed = CANONICAL_FAIR_PRICE
    BY <1>1, <1>3, <1>4, <1>5 DEF RequestKnows, IsKind, PastItsStep
<1>8. ASSUME HasProof(f)
      PROVE  /\ WasEvaluated(EvaluatedBy(f))
             /\ order[EvaluatedBy(f)].event <= a.materialSeq
  <2>1. kind \in {"evaluate-order", "full-demo", "custom-order"}
      BY <1>8 DEF HasProof
  <2>2. /\ kind = "evaluate-order" => pc > 3
        /\ kind = "full-demo" => pc > 5
        /\ kind = "custom-order" => pc > 9
      BY <1>1, PlacesInPlans
  <2>3. WasEvaluated(EvaluatedBy(f))
      BY <1>1, <1>4, <2>1, <2>2 DEF RequestKnows, IsKind, PastItsStep
  <2>4. EvaluatedBy(f) \in Orders /\ EvaluatedBy(f).market = m
      BY <1>1, FlowNamesAccounts DEF EvaluatedBy, OrderOf
  <2>5. order[EvaluatedBy(f)].event <= market[m].material_seq
      BY <1>4, <2>3, <2>4 DEF OrdersTell, OrderTells, WasEvaluated
  <2> QED  BY <1>3, <2>3, <2>5
<1> QED  BY <1>6, <1>7, <1>8

\* And it shows that still, whatever happens afterwards.
LEMMA SeeingLasts ==
    ASSUME ProgramsAssumption, TradersElsewhere, LegacyInv, FlowTypeOK, FlowsInv, FlowsStep,
           NEW f \in Flows
    PROVE  SeenShows(f)'
<1>1. /\ LegacyAssumption /\ FlowAssumption /\ OrdersTell /\ SeenShows(f) /\ LegacyTypeOK
    BY DEF ProgramsAssumption, FlowsInv, RequestInv, LegacyInv
<1>2. AccountsLast
    BY <1>1, FlowsStepLasts
<1> DEFINE r == flow[f]
           s == flow'[f]
<1>3. \/ s = r
      \/ r = Idle /\ s.seen = Null
      \/ /\ r.stage = "running" /\ SameRequest(r, s)
         /\ s.seen = r.seen \/ (Passes(f) /\ ReadsState(f))
    BY <1>1, RequestEvolves
<1>4. CASE r = Idle
  <2>1. s = Idle \/ s.seen = Null
      BY <1>3, <1>4 DEF Idle
  <2> QED  BY <2>1 DEF Idle, SeenShows, Came
<1>5. CASE r # Idle
  <2>1. IsRequest(r) /\ Came(f) /\ SameRequest(r, s)
      BY <1>3, <1>5 DEF FlowTypeOK, IsRequest, Came, SameRequest
  <2>2. EvaluatedBy(f)' = EvaluatedBy(f) /\ EvaluatedBy(f) \in Orders
      BY <1>1, <2>1, NamesLast
  <2>3. s.kind = r.kind /\ (HasProof(f)' <=> HasProof(f))
      BY <2>1 DEF SameRequest, HasProof
  <2> DEFINE x == order[EvaluatedBy(f)]
             xn == order'[EvaluatedBy(f)]
  <2>4. WasEvaluated(EvaluatedBy(f)) =>
            /\ Exists(xn) /\ xn.status # "Escrowed" /\ xn.event = x.event
    <3>1. OrderLasts(x, xn)
        BY <1>2, <2>2 DEF AccountsLast
    <3> QED  BY <3>1 DEF OrderLasts, WasEvaluated
  <2> HIDE DEF x, xn
  <2>5. CASE s.seen = r.seen
    <3>1. s.seen # Null =>
            /\ s.kind = "ingest-event" => s.seen.materialSeq >= CANONICAL_EVENT_SEQ
            /\ s.kind = "reprice" => s.seen.displayed = CANONICAL_FAIR_PRICE
            /\ HasProof(f) => WasEvaluated(EvaluatedBy(f)) /\ x.event <= s.seen.materialSeq
        BY <1>1, <2>1, <2>3, <2>5 DEF SeenShows, x
    <3> QED  BY <2>2, <2>3, <2>4, <3>1 DEF SeenShows, WasEvaluated, xn
  <2>6. CASE s.seen # r.seen
    <3>1. /\ AtStep(f) /\ Step(f) = "read_state"
          /\ s.seen = FetchMarket(MarketOf(f))
      <4>1. Passes(f) /\ ReadsState(f)
          BY <1>3, <1>5, <2>6
      <4> QED  BY <2>6, <4>1 DEF Passes, ReadsState
    <3>2. s.seen # Null =>
            /\ s.kind = "ingest-event" => s.seen.materialSeq >= CANONICAL_EVENT_SEQ
            /\ s.kind = "reprice" => s.seen.displayed = CANONICAL_FAIR_PRICE
            /\ HasProof(f) => WasEvaluated(EvaluatedBy(f)) /\ x.event <= s.seen.materialSeq
        BY <1>1, <2>3, <3>1, ReadingShows DEF x
    <3> QED  BY <2>2, <2>3, <2>4, <3>2 DEF SeenShows, WasEvaluated, xn
  <2> QED  BY <2>5, <2>6
<1> QED  BY <1>4, <1>5

(***************************************************************************)
(* The settlement demo.                                                    *)
(***************************************************************************)

\* A settlement demo of request f, as it is asked for.
IsDemo(f) ==
    /\ IsRequest(flow[f]) /\ flow[f].kind = "full-settlement-demo"
    /\ flow[f].side = "Yes" /\ flow[f].sawMarket = FALSE

\* Its market and its orders.
LEMMA DemoNames ==
    ASSUME FlowAssumption, LegacyAssumption, NEW f \in Flows, IsDemo(f)
    PROVE  /\ MarketOf(f) = f /\ f \in Markets
           /\ \A n \in {"Yes", "No", "exploit"} :
                 DemoOrder(f, n) \in Orders /\ DemoOrder(f, n).market = f
           /\ DemoOrder(f, "exploit") # DemoOrder(f, "Yes")
           /\ DemoOrder(f, "exploit") # DemoOrder(f, "No")
           /\ DemoOrder(f, "Yes") # DemoOrder(f, "No")
           /\ \A step \in {"place_exploit", "evaluate_exploit"} :
                 OrderOf(f, step) = DemoOrder(f, "exploit")
           /\ \A step \in {"place", "evaluate"} : OrderOf(f, step) = DemoOrder(f, "Yes")
           /\ \A step \in {"place_no", "evaluate_no"} : OrderOf(f, step) = DemoOrder(f, "No")
           /\ StakeOf(f) = SETTLEMENT_STAKE_LAMPORTS
           /\ \A step \in {"place_exploit", "place"} : PlaceTx(f, step).side = "Yes"
           /\ PlaceTx(f, "place_no").side = "No"
           /\ ~ IsCustom(f)
<1>1. flow[f].kind = "full-settlement-demo" /\ flow[f].side = "Yes"
    BY DEF IsDemo
<1>2. MarketOf(f) = f /\ f \in Markets /\ f # DefaultMarket
    BY <1>1 DEF MarketOf, FlowAssumption
<1>3. \A n \in {"Yes", "No", "exploit"} :
          DemoOrder(f, n) \in Orders /\ DemoOrder(f, n).market = f /\ DemoOrder(f, n).n = n
    BY DEF FlowAssumption, DemoOrder, Sides
<1>4. \A step : OrderOf(f, step) =
          DemoOrder(f, CASE step \in {"place_exploit", "evaluate_exploit"} -> "exploit"
                         [] step \in {"place_no", "evaluate_no"} -> "No"
                         [] OTHER -> "Yes")
    BY <1>1, <1>2 DEF OrderOf, DemoOrder
<1>5. /\ StakeOf(f) = SETTLEMENT_STAKE_LAMPORTS /\ ~ IsCustom(f)
      /\ \A step \in {"place_exploit", "place"} : PlaceTx(f, step).side = "Yes"
      /\ PlaceTx(f, "place_no").side = "No"
    BY <1>1 DEF StakeOf, IsCustom, PlaceTx
<1>6. /\ DemoOrder(f, "exploit") # DemoOrder(f, "Yes")
      /\ DemoOrder(f, "exploit") # DemoOrder(f, "No")
      /\ DemoOrder(f, "Yes") # DemoOrder(f, "No")
    BY <1>3
<1>7. /\ \A step \in {"place_exploit", "evaluate_exploit"} :
            OrderOf(f, step) = DemoOrder(f, "exploit")
      /\ \A step \in {"place", "evaluate"} : OrderOf(f, step) = DemoOrder(f, "Yes")
      /\ \A step \in {"place_no", "evaluate_no"} : OrderOf(f, step) = DemoOrder(f, "No")
    BY <1>4
<1> QED  BY <1>2, <1>3, <1>5, <1>6, <1>7

\* Its accounts, with their types.
LEMMA DemoAccounts ==
    ASSUME FlowAssumption, LegacyAssumption, LegacyInv, NEW f \in Flows, IsDemo(f)
    PROVE  /\ market[f] \in MarketAccount \cup {NoAccount}
           /\ \A n \in {"Yes", "No", "exploit"} :
                 order[DemoOrder(f, n)] \in OrderAccount \cup {NoAccount}
           /\ receipt[f] \in ReceiptAccount \cup {NoAccount}
           /\ Exists(market[f]) => market[f] \in MarketAccount
           /\ \A n \in {"Yes", "No", "exploit"} :
                 Exists(order[DemoOrder(f, n)]) => order[DemoOrder(f, n)] \in OrderAccount
BY DemoNames DEF LegacyInv, LegacyTypeOK, Exists

\* Whoever has an order of the demo evaluated, it is the one that waits, and what comes
\* of it is what the demo goes on with.
LEMMA DemoEvaluates ==
    ASSUME FlowAssumption, LegacyAssumption, LegacyInv, NEW f \in Flows, IsDemo(f),
           MarketsOfFlows, NEW c \in 1 .. 17,
           DemoAt(c, market[f], receipt[f], order[DemoOrder(f, "exploit")],
                  order[DemoOrder(f, "Yes")], order[DemoOrder(f, "No")]),
           NEW o \in Orders, o.market = f, EvaluateOrder(o)
    PROVE  /\ DemoAt(c, market'[f], receipt'[f], order'[DemoOrder(f, "exploit")],
                     order'[DemoOrder(f, "Yes")], order'[DemoOrder(f, "No")])
           /\ order'[o].status # "Escrowed"
<1> DEFINE X == DemoOrder(f, "exploit")
           Y == DemoOrder(f, "Yes")
           Z == DemoOrder(f, "No")
           a == market[f]
           x == order[X]
           y == order[Y]
           z == order[Z]
           S == SETTLEMENT_STAKE_LAMPORTS
<1>1. /\ f \in Markets /\ X \in Orders /\ Y \in Orders /\ Z \in Orders
      /\ X # Y /\ X # Z /\ Y # Z
    BY DemoNames
<1>2. /\ CanEvaluate(o) /\ receipt' = receipt
      /\ Exists(order[o]) /\ order[o].status = "Escrowed"
    BY DEF EvaluateOrder, CanEvaluate
<1>3. Exists(a) /\ a \in MarketAccount
    BY <1>2, OrderFacts, MarketFacts
<1>4. o \in {X, Y, Z}
  <2>1. PICK n \in Sides \cup {"exploit"} : o = DemoOrder(f, n)
      BY <1>2 DEF MarketsOfFlows
  <2> QED  BY <2>1 DEF Sides
<1>5. /\ order \in [Orders -> OrderAccount \cup {NoAccount}]
      /\ market \in [Markets -> MarketAccount \cup {NoAccount}]
    BY DEF LegacyInv, LegacyTypeOK
<1>6. PICK status \in {"Filled", "VoidedRefunded"} :
          /\ order' = [order EXCEPT ![o] = EvaluatedOrder(o, status)]
          /\ status = "VoidedRefunded" <=> GuardVerdict(o) = "VOIDED_REFUNDED"
          /\ status = "VoidedRefunded" => market' = market
          /\ status = "Filled" => Fill(o)
    BY DEF EvaluateOrder, VoidAndRefund, Fill
<1> DEFINE e == EvaluatedOrder(o, status)
<1>7. /\ e \in OrderAccount /\ e.status = status /\ e.stake = order[o].stake
      /\ e.side = order[o].side /\ e.observed = order[o].observed
  <2>1. /\ e \in OrderAccount /\ e.status = status /\ e.stake = order[o].stake
        /\ e.side = order[o].side
      BY <1>2, EvaluatedTyped
  <2>2. order[o] \in OrderAccount
      BY <1>2, <1>5 DEF Exists
  <2>3. e.observed = order[o].observed
      BY <2>2 DEF EvaluatedOrder, OrderAccount
  <2> QED  BY <2>1, <2>3
<1> HIDE DEF e
<1>8. order' = [order EXCEPT ![o] = e]
    BY <1>6 DEF e
<1>9. order'[o] = e /\ Exists(e)
    BY <1>5, <1>7, <1>8 DEF Exists, LegacyAssumption
<1> HIDE DEF X, Y, Z, a, S
<1>10. /\ DemoAt(c, a, receipt[f], x, y, z) /\ receipt'[f] = receipt[f]
    BY <1>2 DEF X, Y, Z, a
<1>11. CASE o = X
  <2>1. c = 6 /\ x.side = "Yes" /\ x.observed = CANONICAL_DISPLAYED_PRICE
        /\ a.material_seq = CANONICAL_EVENT_SEQ /\ a.priced_at_seq = CANONICAL_INITIAL_SEQ
        /\ a.fair = CANONICAL_FAIR_PRICE /\ a.tolerance = TOLERANCE_2C
        /\ e.stake = S
      BY <1>2, <1>7, <1>10, <1>11 DEF DemoAt, DemoStake, S
  <2>2. status = "VoidedRefunded"
    <3>1. IsStale(f)
        BY <2>1 DEF IsStale, FlowAssumption, a
    <3>2. EdgeOf(o) > market[f].tolerance
        BY <1>11, <2>1 DEF EdgeOf, SidePrice, FlowAssumption, a
    <3> QED  BY <1>6, <3>1, <3>2 DEF GuardVerdict
  <2>3. order'[X] = e /\ order'[Y] = y /\ order'[Z] = z /\ market' = market
      BY <1>1, <1>5, <1>6, <1>8, <1>9, <1>11, <2>2 DEF X, Y, Z
  <2>4. DemoAt(c, a, receipt[f], e, y, z)
      BY <1>7, <1>9, <1>10, <1>11, <2>1, <2>2 DEF DemoAt, DemoStake
  <2> QED  BY <1>7, <1>9, <1>10, <2>2, <2>3, <2>4 DEF a, X, Y, Z
<1>12. CASE o \in {Y, Z}
  <2>1. /\ a.material_seq = CANONICAL_EVENT_SEQ /\ a.priced_at_seq = CANONICAL_EVENT_SEQ
        /\ a.resolution = "None"
        /\ o = Y => c = 9 /\ y.side = "Yes" /\ y.stake = S
        /\ o = Z => c = 11 /\ z.side = "No" /\ z.stake = S
      BY <1>2, <1>10, <1>12 DEF DemoAt, DemoStake, S
  <2>2. status = "Filled" /\ Fill(o)
    <3>1. ~ IsStale(f)
        BY <2>1 DEF IsStale, FlowAssumption, a
    <3> QED  BY <1>6, <3>1 DEF GuardVerdict
  <2> DEFINE side == IF o = Y THEN "Yes" ELSE "No"
             b == market'[f]
  <2>3. market' = [market EXCEPT ![f].pool[side] = @ + S, ![f].total_in = @ + S]
      BY <1>12, <2>1, <2>2 DEF Fill
  <2>4. side \in Sides /\ S \in Nat
      BY DEF Sides, FlowAssumption, S
  <2> HIDE DEF side
  <2>5. /\ b.material_seq = a.material_seq /\ b.priced_at_seq = a.priced_at_seq
        /\ b.fair = a.fair /\ b.displayed = a.displayed /\ b.tolerance = a.tolerance
        /\ b.trading_closed = a.trading_closed /\ b.resolution = a.resolution
        /\ b.total_paid = a.total_paid /\ b.total_refunded = a.total_refunded
        /\ b.total_in = a.total_in + S
        /\ b.pool = [a.pool EXCEPT ![side] = @ + S]
      BY <1>1, <1>3, <1>5, <2>3 DEF MarketAccount, a
  <2>6. a.pool \in [Sides -> Nat] /\ a.total_in \in Nat
      BY <1>3 DEF MarketAccount
  <2>7. Exists(b)
    <3>1. b = [a EXCEPT !.pool = b.pool, !.total_in = b.total_in]
        BY <1>1, <1>3, <1>5, <2>3 DEF MarketAccount, a
    <3>2. b.pool \in [Sides -> Nat] /\ b.total_in \in Nat
        BY <2>4, <2>5, <2>6
    <3> DEFINE pool == b.pool
               in == b.total_in
    <3>3. b = [a EXCEPT !.pool = pool, !.total_in = in]
        BY <3>1
    <3> HIDE DEF pool, in, b
    <3>4. b \in MarketAccount
        BY <1>3, <3>2, <3>3 DEF MarketAccount, pool, in
    <3> QED  BY <3>4 DEF Exists, LegacyAssumption
  <2> HIDE DEF b
  <2>8. CASE o = Y
    <3>1. order'[X] = x /\ order'[Y] = e /\ order'[Z] = z
        BY <1>1, <1>5, <1>8, <1>9, <2>8 DEF X, Y, Z
    <3>2. b.pool["Yes"] = a.pool["Yes"] + S /\ b.pool["No"] = a.pool["No"]
        BY <2>5, <2>6, <2>8 DEF side, Sides
    <3>3. Counted(y) = 0 /\ Counted(e) = S /\ Counted(z) = 0
      <4>1. y.status = "Escrowed" /\ c = 9 /\ ~ Exists(z)
          BY <1>2, <1>10, <2>1, <2>8 DEF DemoAt
      <4> QED  BY <1>7, <1>9, <2>2, <4>1 DEF Counted, S
    <3>4. Exists(x) /\ Exists(y) /\ ~ Exists(z) /\ c = 9
        BY <1>2, <1>10, <2>1, <2>8 DEF DemoAt
    <3>5. /\ a.pool["Yes"] = 0 /\ a.pool["No"] = 0 /\ a.total_in = 0
        BY <1>10, <3>3, <3>4 DEF DemoAt
    <3>6. /\ b.pool["Yes"] = Counted(e) /\ b.pool["No"] = Counted(z)
          /\ b.total_in = Counted(e) + Counted(z)
        BY <2>4, <2>5, <3>2, <3>3, <3>5
    <3>7. DemoStake(e, "Yes") /\ e.status = "Filled"
        BY <1>7, <2>1, <2>2, <2>8 DEF DemoStake, S
    <3>8. DemoAt(9, a, receipt[f], x, y, z)
        BY <1>10, <3>4
    <3>9. DemoAt(9, b, receipt[f], x, e, z)
        BY ONLY <1>3, <1>9, <2>5, <2>7, <3>4, <3>6, <3>7, <3>8 DEF DemoAt
    <3>10. DemoAt(c, b, receipt[f], x, e, z)
        BY <3>4, <3>9
    <3> QED  BY <1>7, <1>9, <1>10, <2>2, <3>1, <3>10 DEF b, X, Y, Z
  <2>9. CASE o = Z
    <3>1. order'[X] = x /\ order'[Y] = y /\ order'[Z] = e
        BY <1>1, <1>5, <1>8, <1>9, <2>9 DEF X, Y, Z
    <3>2. b.pool["No"] = a.pool["No"] + S /\ b.pool["Yes"] = a.pool["Yes"]
        BY <1>1, <2>5, <2>6, <2>9 DEF side, Sides
    <3>3. Counted(z) = 0 /\ Counted(e) = S /\ Counted(y) = S
      <4>1. z.status = "Escrowed" /\ c = 11 /\ Exists(y) /\ y.status = "Filled"
          BY <1>2, <1>10, <2>1, <2>9 DEF DemoAt
      <4> QED  BY <1>7, <1>9, <2>2, <4>1 DEF Counted, S
    <3>4. Exists(x) /\ Exists(y) /\ Exists(z) /\ c = 11
        BY <1>2, <1>10, <2>1, <2>9 DEF DemoAt
    <3>5. /\ a.pool["Yes"] = S /\ a.pool["No"] = 0 /\ a.total_in = S + 0
        BY <1>10, <3>3, <3>4 DEF DemoAt
    <3>6. /\ b.pool["Yes"] = Counted(y) /\ b.pool["No"] = Counted(e)
          /\ b.total_in = Counted(y) + Counted(e)
      <4>1. Counted(e) = S
          BY <1>7, <1>9, <2>2 DEF Counted, S
      <4> QED  BY <2>4, <2>5, <3>2, <3>3, <3>5, <4>1
    <3>7. DemoStake(e, "No") /\ e.status = "Filled"
        BY <1>7, <2>1, <2>2, <2>9 DEF DemoStake, S
    <3>8. DemoAt(11, a, receipt[f], x, y, z)
        BY <1>10, <3>4
    <3>9. DemoAt(11, b, receipt[f], x, y, e)
        BY ONLY <1>3, <1>9, <2>5, <2>7, <3>4, <3>6, <3>7, <3>8 DEF DemoAt
    <3>10. DemoAt(c, b, receipt[f], x, y, e)
        BY <3>4, <3>9
    <3> QED  BY <1>7, <1>9, <1>10, <2>2, <3>1, <3>10 DEF b, X, Y, Z
  <2> QED  BY <1>12, <2>8, <2>9
<1> QED  BY <1>4, <1>11, <1>12

\* What passing a step does to the chain.
LEMMA DemoActs ==
    ASSUME FlowAssumption, FlowTypeOK, LegacyAssumption, NEW f \in Flows, IsDemo(f),
           Passes(f), NEW c, c = flow[f].pc
    PROVE  /\ c \in 1 .. 16
           /\ c = 1 => InitializeMarketConfig(f, Operator, TermsOf(f))
           /\ c \in {2, 3} => UNCHANGED <<market, order, receipt>>
           /\ c = 4 => IngestMaterialEvent(f, Operator, CANONICAL_EVENT_SEQ,
                                           CANONICAL_FAIR_PRICE)
           /\ c = 5 => PlaceOrder(DemoOrder(f, "exploit"), Operator, "Yes",
                                  SETTLEMENT_STAKE_LAMPORTS)
           /\ c = 6 => EvaluateOrder(DemoOrder(f, "exploit"))
           /\ c = 7 => RepriceMarket(f, Operator, CANONICAL_FAIR_PRICE)
           /\ c = 8 => PlaceOrder(DemoOrder(f, "Yes"), Operator, "Yes",
                                  SETTLEMENT_STAKE_LAMPORTS)
           /\ c = 9 => EvaluateOrder(DemoOrder(f, "Yes"))
           /\ c = 10 => PlaceOrder(DemoOrder(f, "No"), Operator, "No",
                                   SETTLEMENT_STAKE_LAMPORTS)
           /\ c = 11 => EvaluateOrder(DemoOrder(f, "No"))
           /\ c = 12 => CloseMarket(f, Operator)
           /\ c = 13 => SubmitTxlineValidation(f, Operator, CANONICAL_FIXTURE_ID,
                                               CANONICAL_HOME_SCORE, CANONICAL_AWAY_SCORE)
           /\ c = 14 => ConfirmValidation(f, Operator)
           /\ c = 15 => ResolveMarketFromTxline(f, Operator)
           /\ c = 16 => SettleOrder(DemoOrder(f, "Yes"))
<1>1. /\ AtStep(f) /\ c \in Nat \ {0} /\ c <= 16
      /\ Step(f) = SettlementDemoPlan[c]
    BY ActiveRequest, DemoSteps DEF Passes, IsDemo, IsRequest
<1>2. c \in 1 .. 16
    BY <1>1
<1> DEFINE t == Tx(f, Step(f))
<1>3. c # 2 => Step(f) \notin Reads
    BY <1>1, <1>2, DemoSteps DEF Reads
<1>4. c \notin {2, 3} => t # NoTx
  <2>1. c = 1 => t.ix = "initialize_market_config"
      BY <1>1, DemoSteps DEF Tx, CreateTx, IsDemo
  <2>2. c = 4 => t.ix = "ingest_material_event"
      BY <1>1, DemoSteps DEF Tx, IngestTx
  <2>3. c \in {5, 8, 10} => t.ix = "place_order"
      BY <1>1, DemoSteps DEF Tx, PlaceTx
  <2>4. c \in {6, 9, 11} => t.ix = "evaluate_order"
      BY <1>1, DemoSteps DEF Tx
  <2>5. c = 7 => t.ix = "reprice_market"
      BY <1>1, DemoSteps DEF Tx
  <2>6. c \in 12 .. 16 =>
            t.ix \in {"close_market", "submit_txline_validation", "confirm_validation",
                      "resolve_market_from_txline", "settle_order"}
      BY <1>1, DemoSteps DEF Tx, MarketTx
  <2>7. NoTx.ix = "none"
      BY DEF NoTx
  <2> QED  BY <1>2, <2>1, <2>2, <2>3, <2>4, <2>5, <2>6, <2>7
<1>5. c \notin {2, 3} => Execute(t)
    BY <1>3, <1>4 DEF Passes
<1>6. c \in {2, 3} => UNCHANGED <<market, order, receipt>>
  <2>1. CASE c = 2
      BY <1>1, <2>1, DemoSteps DEF Passes, Sending, Reads, legacyVars
  <2>2. CASE c = 3
    <3>1. t = NoTx \/ t = [ix |-> "initialize_vault"]
        BY <1>1, <2>2, DemoSteps DEF Tx
    <3>2. Execute(t) => UNCHANGED <<market, order, receipt>>
        BY <3>1 DEF Execute, InitializeVault, NoTx
    <3> QED  BY <3>2 DEF Passes, legacyVars
  <2> QED  BY <2>1, <2>2
<1> USE DemoNames
<1>7. c = 1 => InitializeMarketConfig(f, Operator, TermsOf(f))
  <2>1. c = 1 => t = [ ix |-> "initialize_market_config", market |-> f,
                       signer |-> Operator, terms |-> TermsOf(f) ]
    <3>1. c = 1 => t = CreateTx(f)
        BY <1>1, DemoSteps DEF Tx
    <3>2. flow[f].sawMarket = FALSE /\ MarketOf(f) = f
        BY DEF IsDemo
    <3>3. CreateTx(f) = [ ix |-> "initialize_market_config", market |-> f,
                          signer |-> Operator, terms |-> TermsOf(f) ]
        BY ONLY <3>2 DEF CreateTx
    <3> QED  BY ONLY <3>1, <3>3
  <2> QED  BY <1>5, <2>1 DEF Execute
<1>8. c = 4 => IngestMaterialEvent(f, Operator, CANONICAL_EVENT_SEQ, CANONICAL_FAIR_PRICE)
  <2>1. c = 4 => t = [ ix |-> "ingest_material_event", market |-> f, signer |-> Operator,
                       seq |-> CANONICAL_EVENT_SEQ, price |-> CANONICAL_FAIR_PRICE ]
      BY <1>1, DemoSteps DEF Tx, IngestTx
  <2> QED  BY <1>5, <2>1 DEF Execute
<1>9. ASSUME NEW n \in {"exploit", "Yes", "No"},
             c = CASE n = "exploit" -> 5 [] n = "Yes" -> 8 [] n = "No" -> 10
      PROVE  PlaceOrder(DemoOrder(f, n), Operator, IF n = "No" THEN "No" ELSE "Yes",
                        SETTLEMENT_STAKE_LAMPORTS)
  <2> DEFINE step == CASE n = "exploit" -> "place_exploit" [] n = "Yes" -> "place"
                       [] n = "No" -> "place_no"
  <2>1. Step(f) = step
      BY <1>1, <1>9, DemoSteps
  <2>2. t = PlaceTx(f, step)
      BY <2>1 DEF Tx
  <2>3. /\ t.ix = "place_order" /\ t.order = OrderOf(f, step) /\ t.signer = Operator
        /\ t.stake = StakeOf(f) /\ t.side = PlaceTx(f, step).side
      BY <2>2 DEF PlaceTx
  <2>4. /\ OrderOf(f, step) = DemoOrder(f, n)
        /\ PlaceTx(f, step).side = IF n = "No" THEN "No" ELSE "Yes"
      OBVIOUS
  <2> HIDE DEF step, t
  <2>5. Execute(t)
      BY <1>5, <1>9 DEF t
  <2> QED  BY <2>3, <2>4, <2>5 DEF Execute
<1>10. ASSUME NEW n \in {"exploit", "Yes", "No"},
              c = CASE n = "exploit" -> 6 [] n = "Yes" -> 9 [] n = "No" -> 11
       PROVE  EvaluateOrder(DemoOrder(f, n))
  <2> DEFINE step == CASE n = "exploit" -> "evaluate_exploit" [] n = "Yes" -> "evaluate"
                       [] n = "No" -> "evaluate_no"
  <2>1. Step(f) = step
      BY <1>1, <1>10, DemoSteps
  <2>2. t = [ix |-> "evaluate_order", order |-> OrderOf(f, step)]
      BY <2>1 DEF Tx
  <2>3. OrderOf(f, step) = DemoOrder(f, n)
      OBVIOUS
  <2> HIDE DEF step, t
  <2>4. Execute(t)
      BY <1>5, <1>10 DEF t
  <2> QED  BY <2>2, <2>3, <2>4 DEF Execute
<1>11. c = 7 => RepriceMarket(f, Operator, CANONICAL_FAIR_PRICE)
  <2>1. c = 7 => t = [ ix |-> "reprice_market", market |-> f, signer |-> Operator,
                       price |-> CANONICAL_FAIR_PRICE ]
      BY <1>1, DemoSteps DEF Tx
  <2> QED  BY <1>5, <2>1 DEF Execute
<1>12. /\ c = 12 => CloseMarket(f, Operator)
       /\ c = 14 => ConfirmValidation(f, Operator)
       /\ c = 15 => ResolveMarketFromTxline(f, Operator)
  <2>1. /\ c = 12 => t = [ix |-> "close_market", market |-> f, signer |-> Operator]
        /\ c = 14 => t = [ix |-> "confirm_validation", market |-> f, signer |-> Operator]
        /\ c = 15 => t = [ ix |-> "resolve_market_from_txline", market |-> f,
                           signer |-> Operator ]
      BY <1>1, DemoSteps DEF Tx, MarketTx
  <2> QED  BY <1>5, <2>1 DEF Execute
<1>13. c = 13 => SubmitTxlineValidation(f, Operator, CANONICAL_FIXTURE_ID,
                                        CANONICAL_HOME_SCORE, CANONICAL_AWAY_SCORE)
  <2>1. c = 13 => t = [ ix |-> "submit_txline_validation", market |-> f,
                        signer |-> Operator, fixture |-> CANONICAL_FIXTURE_ID,
                        home |-> CANONICAL_HOME_SCORE, away |-> CANONICAL_AWAY_SCORE ]
      BY <1>1, DemoSteps DEF Tx
  <2> QED  BY <1>5, <2>1 DEF Execute
<1>14. c = 16 => SettleOrder(DemoOrder(f, "Yes"))
  <2>1. c = 16 => t = [ix |-> "settle_order", order |-> DemoOrder(f, "Yes")]
      BY <1>1, DemoSteps DEF Tx
  <2> QED  BY <1>5, <2>1 DEF Execute
<1>15. /\ c = 5 => PlaceOrder(DemoOrder(f, "exploit"), Operator, "Yes",
                              SETTLEMENT_STAKE_LAMPORTS)
       /\ c = 8 => PlaceOrder(DemoOrder(f, "Yes"), Operator, "Yes",
                              SETTLEMENT_STAKE_LAMPORTS)
       /\ c = 10 => PlaceOrder(DemoOrder(f, "No"), Operator, "No",
                               SETTLEMENT_STAKE_LAMPORTS)
    BY <1>9
<1>16. /\ c = 6 => EvaluateOrder(DemoOrder(f, "exploit"))
       /\ c = 9 => EvaluateOrder(DemoOrder(f, "Yes"))
       /\ c = 11 => EvaluateOrder(DemoOrder(f, "No"))
    BY <1>10
<1> QED  BY <1>2, <1>6, <1>7, <1>8, <1>11, <1>12, <1>13, <1>14, <1>15, <1>16

\* From one step of the demo to the next.
LEMMA DemoOpens ==
    ASSUME FlowAssumption, LegacyAssumption, LegacyInv, NEW f \in Flows, IsDemo(f),
           NEW r, NEW x, NEW y, NEW z, DemoAt(1, market[f], r, x, y, z),
           InitializeMarketConfig(f, Operator, TermsOf(f)), Exists(market'[f])
    PROVE  DemoAt(2, market'[f], r, x, y, z)
<1> DEFINE a == NewMarket(Operator, TermsOf(f))
           T == TermsOf(f)
           b == market'[f]
<1>1. market' = [market EXCEPT ![f] = a]
    BY DEF InitializeMarketConfig
<1>2. /\ a.material_seq = T.material /\ a.priced_at_seq = T.priced /\ a.displayed = T.displayed
      /\ a.tolerance = T.tolerance /\ a.pool = [s \in Sides |-> 0] /\ a.total_in = 0
      /\ a.total_paid = 0 /\ a.total_refunded = 0 /\ a.trading_closed = FALSE
      /\ a.resolution = "None"
    BY DEF NewMarket
<1>3. /\ T.material = CANONICAL_INITIAL_SEQ /\ T.priced = CANONICAL_INITIAL_SEQ
      /\ T.displayed = CANONICAL_DISPLAYED_PRICE /\ T.tolerance = TOLERANCE_2C
  <2>1. flow[f].input = CanonicalInput
      BY DEF IsDemo, IsRequest, InputsOf
  <2> QED  BY <2>1, DemoNames DEF TermsOf, TermsWithSeq, CanonicalInput
<1> HIDE DEF a, T
<1>4. b = a
    BY <1>1, DemoNames DEF LegacyInv, LegacyTypeOK
<1>5. a.pool["Yes"] = 0 /\ a.pool["No"] = 0
    BY <1>2 DEF Sides
<1>6. ~ Exists(y) /\ ~ Exists(z) /\ ~ Exists(x)
    BY DEF DemoAt
<1>7. Counted(y) = 0 /\ Counted(z) = 0
    BY <1>6 DEF Counted
<1> HIDE DEF b
<1>8. Exists(b)
    BY DEF b
<1>9. DemoAt(2, b, r, x, y, z)
    BY ONLY <1>2, <1>3, <1>4, <1>5, <1>6, <1>7, <1>8 DEF DemoAt
<1> QED  BY <1>9 DEF b

LEMMA DemoWaits ==
    ASSUME NEW c \in {2, 3, 6, 9, 11}, NEW a, NEW r, NEW x, NEW y, NEW z,
           DemoAt(c, a, r, x, y, z), c = 6 => x.status # "Escrowed",
           c = 9 => y.status # "Escrowed", c = 11 => z.status # "Escrowed"
    PROVE  DemoAt(c + 1, a, r, x, y, z)
<1>1. CASE c = 2
  <2>1. DemoAt(2, a, r, x, y, z)
      BY <1>1
  <2>2. DemoAt(3, a, r, x, y, z)
      BY <2>1 DEF DemoAt
  <2> QED  BY <1>1, <2>2
<1>2. CASE c = 3
  <2>1. DemoAt(3, a, r, x, y, z)
      BY <1>2
  <2>2. DemoAt(4, a, r, x, y, z)
      BY <2>1 DEF DemoAt
  <2> QED  BY <1>2, <2>2
<1>3. CASE c = 6
  <2>1. DemoAt(6, a, r, x, y, z) /\ x.status # "Escrowed"
      BY <1>3
  <2>2. DemoAt(7, a, r, x, y, z)
      BY <2>1 DEF DemoAt
  <2> QED  BY <1>3, <2>2
<1>4. CASE c = 9
  <2>1. DemoAt(9, a, r, x, y, z) /\ y.status # "Escrowed"
      BY <1>4
  <2>2. DemoAt(10, a, r, x, y, z)
      BY <2>1 DEF DemoAt
  <2> QED  BY <1>4, <2>2
<1>5. CASE c = 11
  <2>1. DemoAt(11, a, r, x, y, z) /\ z.status # "Escrowed"
      BY <1>5
  <2>2. DemoAt(12, a, r, x, y, z)
      BY <2>1 DEF DemoAt
  <2> QED  BY <1>5, <2>2
<1> QED  BY <1>1, <1>2, <1>3, <1>4, <1>5

\* The event, the repricing and the closing change the market alone.
LEMMA DemoTouches ==
    ASSUME FlowAssumption, LegacyAssumption, LegacyInv, NEW f \in Flows, IsDemo(f),
           NEW c, NEW r, NEW x, NEW y, NEW z, DemoAt(c, market[f], r, x, y, z),
           Exists(market'[f]),
           \/ c = 4 /\ IngestMaterialEvent(f, Operator, CANONICAL_EVENT_SEQ,
                                           CANONICAL_FAIR_PRICE)
           \/ c = 7 /\ RepriceMarket(f, Operator, CANONICAL_FAIR_PRICE)
           \/ c = 12 /\ CloseMarket(f, Operator)
    PROVE  DemoAt(c + 1, market'[f], r, x, y, z)
<1> DEFINE a == market[f]
           b == market'[f]
<1>1. /\ market \in [Markets -> MarketAccount \cup {NoAccount}] /\ f \in Markets
      /\ a \in MarketAccount
  <2>1. Exists(a)
      BY DEF IngestMaterialEvent, CanIngest, RepriceMarket, CanReprice, CloseMarket, CanClose
  <2> QED  BY <2>1, DemoNames, DemoAccounts DEF LegacyInv, LegacyTypeOK
<1>2. CASE c = 4 /\ IngestMaterialEvent(f, Operator, CANONICAL_EVENT_SEQ,
                                        CANONICAL_FAIR_PRICE)
  <2> DEFINE seq == CANONICAL_EVENT_SEQ
             price == CANONICAL_FAIR_PRICE
             status == IF seq > a.priced_at_seq THEN "Stale" ELSE a.status
  <2>s. market' = [market EXCEPT ![f].material_seq = seq, ![f].fair = price,
                         ![f].source_event = seq, ![f].status = status]
      BY <1>1, <1>2 DEF IngestMaterialEvent, MarketAccount
  <2> HIDE DEF status
  <2>1. b = [a EXCEPT !.material_seq = seq, !.fair = price, !.source_event = seq,
                      !.status = status]
      BY <1>1, <2>s DEF MarketAccount
  <2> HIDE DEF a, b
  <2>2. /\ b.material_seq = CANONICAL_EVENT_SEQ /\ b.fair = CANONICAL_FAIR_PRICE
        /\ b.priced_at_seq = a.priced_at_seq /\ b.displayed = a.displayed
        /\ b.tolerance = a.tolerance /\ b.pool = a.pool /\ b.total_in = a.total_in
        /\ b.trading_closed = a.trading_closed /\ b.resolution = a.resolution
        /\ b.total_paid = a.total_paid /\ b.total_refunded = a.total_refunded
      BY <1>1, <2>1 DEF MarketAccount
  <2>3. DemoAt(4, a, r, x, y, z) /\ Exists(b)
      BY <1>2 DEF a, b
  <2>4. DemoAt(5, b, r, x, y, z)
      BY ONLY <2>2, <2>3 DEF DemoAt
  <2> QED  BY <1>2, <2>4 DEF b
<1>3. CASE c = 7 /\ RepriceMarket(f, Operator, CANONICAL_FAIR_PRICE)
  <2>1. b = [a EXCEPT !.displayed = CANONICAL_FAIR_PRICE, !.priced_at_seq = a.material_seq,
                      !.status = "Trading"]
      BY <1>1, <1>3 DEF RepriceMarket, MarketAccount
  <2> HIDE DEF a, b
  <2>2. /\ b.material_seq = a.material_seq /\ b.fair = a.fair
        /\ b.priced_at_seq = a.material_seq
        /\ b.tolerance = a.tolerance /\ b.pool = a.pool /\ b.total_in = a.total_in
        /\ b.trading_closed = a.trading_closed /\ b.resolution = a.resolution
        /\ b.total_paid = a.total_paid /\ b.total_refunded = a.total_refunded
      BY <1>1, <2>1 DEF MarketAccount
  <2>3. DemoAt(7, a, r, x, y, z) /\ Exists(b)
      BY <1>3 DEF a, b
  <2>4. DemoAt(8, b, r, x, y, z)
      BY ONLY <2>2, <2>3 DEF DemoAt
  <2> QED  BY <1>3, <2>4 DEF b
<1>4. CASE c = 12 /\ CloseMarket(f, Operator)
  <2>1. b = [a EXCEPT !.trading_closed = TRUE]
      BY <1>1, <1>4 DEF CloseMarket
  <2> HIDE DEF a, b
  <2>2. /\ b.material_seq = a.material_seq /\ b.fair = a.fair
        /\ b.priced_at_seq = a.priced_at_seq
        /\ b.tolerance = a.tolerance /\ b.pool = a.pool /\ b.total_in = a.total_in
        /\ b.trading_closed = TRUE /\ b.resolution = a.resolution
        /\ b.total_paid = a.total_paid /\ b.total_refunded = a.total_refunded
      BY <1>1, <2>1 DEF MarketAccount
  <2>3. DemoAt(12, a, r, x, y, z) /\ Exists(b)
      BY <1>4 DEF a, b
  <2>4. DemoAt(13, b, r, x, y, z)
      BY ONLY <2>2, <2>3 DEF DemoAt
  <2> QED  BY <1>4, <2>4 DEF b
<1> QED  BY <1>2, <1>3, <1>4

\* An order of the demo is placed.
LEMMA DemoPlaces ==
    ASSUME FlowAssumption, LegacyAssumption, LegacyInv, LegacyInv', NEW f \in Flows,
           IsDemo(f), NEW n \in {"exploit", "Yes", "No"},
           NEW c, c = CASE n = "exploit" -> 5 [] n = "Yes" -> 8 [] n = "No" -> 10,
           DemoAt(c, market[f], receipt[f], order[DemoOrder(f, "exploit")],
                  order[DemoOrder(f, "Yes")], order[DemoOrder(f, "No")]),
           PlaceOrder(DemoOrder(f, n), Operator, IF n = "No" THEN "No" ELSE "Yes",
                      SETTLEMENT_STAKE_LAMPORTS),
           Exists(order'[DemoOrder(f, n)])
    PROVE  DemoAt(c + 1, market'[f], receipt'[f], order'[DemoOrder(f, "exploit")],
                  order'[DemoOrder(f, "Yes")], order'[DemoOrder(f, "No")])
<1> DEFINE X == DemoOrder(f, "exploit")
           Y == DemoOrder(f, "Yes")
           Z == DemoOrder(f, "No")
           O == DemoOrder(f, n)
           a == market[f]
           r == receipt[f]
           x == order[X]
           y == order[Y]
           z == order[Z]
           side == IF n = "No" THEN "No" ELSE "Yes"
           e == [ trader |-> Operator, side |-> side, stake |-> SETTLEMENT_STAKE_LAMPORTS,
                  observed |-> SidePrice(side, market[O.market].displayed),
                  edge |-> 0, status |-> "Escrowed", verdict |-> "ALLOWED",
                  event |-> Zero, lamports |-> SETTLEMENT_STAKE_LAMPORTS ]
<1>1. /\ f \in Markets /\ X \in Orders /\ Y \in Orders /\ Z \in Orders /\ O \in Orders
      /\ X # Y /\ X # Z /\ Y # Z /\ O.market = f
    BY DemoNames
<1>2. order' = [order EXCEPT ![O] = e] /\ UNCHANGED <<market, receipt>>
    BY DEF PlaceOrder
<1>3. /\ e.side = side /\ e.stake = SETTLEMENT_STAKE_LAMPORTS /\ e.status = "Escrowed"
      /\ e.observed = SidePrice(side, a.displayed)
    BY <1>1
<1> HIDE DEF e, O, X, Y, Z
<1>4. order \in [Orders -> OrderAccount \cup {NoAccount}]
    BY DEF LegacyInv, LegacyTypeOK
<1>5. /\ order'[O] = e /\ Exists(e)
      /\ \A o \in Orders \ {O} : order'[o] = order[o]
    BY <1>1, <1>2, <1>4 DEF O
<1>6. DemoAt(c, a, r, x, y, z) /\ market'[f] = a /\ receipt'[f] = r
    BY <1>2 DEF X, Y, Z
<1> HIDE DEF a, r, x, y, z
<1>7. CASE n = "exploit"
  <2>1. O = X /\ c = 5 /\ side = "Yes"
      BY <1>7 DEF O, X
  <2>2. order'[X] = e /\ order'[Y] = y /\ order'[Z] = z
      BY <1>1, <1>5, <2>1 DEF y, z
  <2>3. e.observed = a.displayed /\ e.side = "Yes"
      BY <1>3, <2>1 DEF SidePrice
  <2>4. DemoAt(5, a, r, x, y, z)
      BY <1>6, <2>1
  <2>5. DemoAt(6, a, r, e, y, z)
      BY ONLY <1>3, <1>5, <2>3, <2>4 DEF DemoAt, DemoStake
  <2> QED  BY <1>6, <2>1, <2>2, <2>5 DEF X, Y, Z
<1>8. CASE n = "Yes"
  <2>1. O = Y /\ c = 8 /\ side = "Yes"
      BY <1>8 DEF O, Y
  <2>2. order'[X] = x /\ order'[Y] = e /\ order'[Z] = z
      BY <1>1, <1>5, <2>1 DEF x, z
  <2>3. e.side = "Yes"
      BY <1>3, <2>1
  <2>4. DemoAt(8, a, r, x, y, z)
      BY <1>6, <2>1
  <2>5. Counted(e) = Counted(y)
    <3>1. ~ Exists(y)
        BY <2>4 DEF DemoAt
    <3> QED  BY <1>3, <3>1 DEF Counted
  <2>6. DemoAt(9, a, r, x, e, z)
      BY ONLY <1>3, <1>5, <2>3, <2>4, <2>5 DEF DemoAt, DemoStake
  <2> QED  BY <1>6, <2>1, <2>2, <2>6 DEF X, Y, Z
<1>9. CASE n = "No"
  <2>1. O = Z /\ c = 10 /\ side = "No"
      BY <1>9 DEF O, Z
  <2>2. order'[X] = x /\ order'[Y] = y /\ order'[Z] = e
      BY <1>1, <1>5, <2>1 DEF x, y
  <2>3. e.side = "No"
      BY <1>3, <2>1
  <2>4. DemoAt(10, a, r, x, y, z)
      BY <1>6, <2>1
  <2>5. Counted(e) = Counted(z)
    <3>1. ~ Exists(z)
        BY <2>4 DEF DemoAt
    <3> QED  BY <1>3, <3>1 DEF Counted
  <2>6. DemoAt(11, a, r, x, y, e)
      BY ONLY <1>3, <1>5, <2>3, <2>4, <2>5 DEF DemoAt, DemoStake
  <2> QED  BY <1>6, <2>1, <2>2, <2>6 DEF X, Y, Z
<1> QED  BY <1>7, <1>8, <1>9

\* The score is submitted, and confirmed.
LEMMA DemoScores ==
    ASSUME FlowAssumption, LegacyAssumption, LegacyInv, NEW f \in Flows, IsDemo(f),
           NEW c, NEW a, NEW x, NEW y, NEW z, DemoAt(c, a, receipt[f], x, y, z),
           \/ c = 13 /\ SubmitTxlineValidation(f, Operator, CANONICAL_FIXTURE_ID,
                                               CANONICAL_HOME_SCORE, CANONICAL_AWAY_SCORE)
           \/ c = 14 /\ ConfirmValidation(f, Operator)
    PROVE  DemoAt(c + 1, a, receipt'[f], x, y, z)
<1> DEFINE r == receipt[f]
           s == receipt'[f]
<1>1. /\ receipt \in [Markets -> ReceiptAccount \cup {NoAccount}] /\ f \in Markets
    BY DemoNames DEF LegacyInv, LegacyTypeOK
<1>2. CASE c = 13 /\ SubmitTxlineValidation(f, Operator, CANONICAL_FIXTURE_ID,
                                            CANONICAL_HOME_SCORE, CANONICAL_AWAY_SCORE)
  <2>1. s = [home |-> CANONICAL_HOME_SCORE, away |-> CANONICAL_AWAY_SCORE,
             confirmed |-> FALSE]
      BY <1>1, <1>2 DEF SubmitTxlineValidation
  <2>2. CANONICAL_HOME_SCORE \in 0 .. MAX_SCORE /\ CANONICAL_AWAY_SCORE \in 0 .. MAX_SCORE
      BY <1>2 DEF SubmitTxlineValidation, CanSubmit
  <2> HIDE DEF s
  <2>3. s \in ReceiptAccount
      BY <2>1, <2>2 DEF ReceiptAccount
  <2>4. Exists(s) /\ s.home = CANONICAL_HOME_SCORE /\ s.away = CANONICAL_AWAY_SCORE
      BY <2>1, <2>3 DEF Exists, LegacyAssumption
  <2>5. DemoAt(13, a, r, x, y, z)
      BY <1>2
  <2> HIDE DEF r
  <2>6. DemoAt(14, a, s, x, y, z)
      BY ONLY <2>4, <2>5 DEF DemoAt
  <2> QED  BY <1>2, <2>6 DEF s
<1>3. CASE c = 14 /\ ConfirmValidation(f, Operator)
  <2>1. Exists(r) /\ s = [r EXCEPT !.confirmed = TRUE]
      BY <1>1, <1>3 DEF ConfirmValidation, CanConfirm
  <2>2. DemoAt(14, a, r, x, y, z) /\ r \in ReceiptAccount
      BY <1>1, <1>3, <2>1 DEF Exists
  <2> HIDE DEF r, s
  <2>3. s \in ReceiptAccount /\ s.home = r.home /\ s.away = r.away /\ s.confirmed = TRUE
      BY <2>1, <2>2 DEF ReceiptAccount
  <2>4. Exists(s)
      BY <2>3 DEF Exists, LegacyAssumption
  <2>5. DemoAt(15, a, s, x, y, z)
      BY ONLY <2>2, <2>3, <2>4 DEF DemoAt
  <2> QED  BY <1>3, <2>5 DEF s
<1> QED  BY <1>2, <1>3

\* YES has won, and is staked on.
LEMMA DemoResolves ==
    ASSUME FlowAssumption, LegacyAssumption, LegacyInv, NEW f \in Flows, IsDemo(f),
           DemoAt(15, market[f], receipt[f], order[DemoOrder(f, "exploit")],
                  order[DemoOrder(f, "Yes")], order[DemoOrder(f, "No")]),
           ResolveMarketFromTxline(f, Operator), Exists(market'[f])
    PROVE  DemoAt(16, market'[f], receipt[f], order[DemoOrder(f, "exploit")],
                  order[DemoOrder(f, "Yes")], order[DemoOrder(f, "No")])
<1> DEFINE a == market[f]
           b == market'[f]
           r == receipt[f]
           x == order[DemoOrder(f, "exploit")]
           y == order[DemoOrder(f, "Yes")]
           z == order[DemoOrder(f, "No")]
           result == [home |-> r.home, away |-> r.away]
<1>1. /\ market \in [Markets -> MarketAccount \cup {NoAccount}] /\ f \in Markets
      /\ a \in MarketAccount
  <2>1. Exists(a)
      BY DEF ResolveMarketFromTxline, CanResolve, AwaitsResult
  <2> QED  BY <2>1, DemoNames, DemoAccounts DEF LegacyInv, LegacyTypeOK
<1>2. b = [a EXCEPT !.resolution = OutcomeOf(f), !.trading_closed = TRUE, !.result = result]
    BY <1>1 DEF ResolveMarketFromTxline
<1>3. DemoAt(15, a, r, x, y, z)
    OBVIOUS
<1>4. a.pool["Yes"] > 0
  <2>1. Exists(y) /\ y.status = "Filled" /\ y.stake = SETTLEMENT_STAKE_LAMPORTS
      BY <1>3 DEF DemoAt, DemoStake
  <2>2. a.pool["Yes"] = Counted(y)
      BY <1>3 DEF DemoAt
  <2>3. y.stake \in Nat \ {0}
      BY <2>1, DemoAccounts DEF OrderAccount
  <2> QED  BY <2>1, <2>2, <2>3 DEF Counted
<1>5. Derive(r.home, r.away) = "Yes"
  <2>1. r.home = CANONICAL_HOME_SCORE /\ r.away = CANONICAL_AWAY_SCORE
      BY <1>3 DEF DemoAt
  <2> QED  BY <2>1 DEF Derive, FlowAssumption
<1>6. OutcomeOf(f) = "Yes"
    BY <1>4, <1>5 DEF OutcomeOf
<1> HIDE DEF a, b, r, x, y, z, result
<1>7. /\ b.material_seq = a.material_seq /\ b.fair = a.fair
      /\ b.priced_at_seq = a.priced_at_seq
      /\ b.tolerance = a.tolerance /\ b.pool = a.pool /\ b.total_in = a.total_in
      /\ b.trading_closed = TRUE /\ b.resolution = "Yes"
      /\ b.total_paid = a.total_paid /\ b.total_refunded = a.total_refunded
    BY <1>1, <1>2, <1>6 DEF MarketAccount
<1>8. Exists(b)
    BY DEF b
<1>9. DemoAt(16, b, r, x, y, z)
    BY ONLY <1>3, <1>7, <1>8 DEF DemoAt
<1> QED  BY <1>9 DEF b, r, x, y, z

\* Half of what came in was on YES.
LEMMA AllToTheWinner ==
    ASSUME NEW s \in Nat \ {0}
    PROVE  (s * (s + s)) \div s = 2 * s
<1>1. s * (s + s) = (2 * s) * s
    OBVIOUS
<1> QED  BY <1>1

\* The order on YES gets what both sides staked.
LEMMA DemoSettles ==
    ASSUME FlowAssumption, LegacyAssumption, LegacyInv, NEW f \in Flows, IsDemo(f),
           DemoAt(16, market[f], receipt[f], order[DemoOrder(f, "exploit")],
                  order[DemoOrder(f, "Yes")], order[DemoOrder(f, "No")]),
           SettleOrder(DemoOrder(f, "Yes")), Exists(market'[f]),
           Exists(order'[DemoOrder(f, "Yes")])
    PROVE  DemoAt(17, market'[f], receipt'[f], order'[DemoOrder(f, "exploit")],
                  order'[DemoOrder(f, "Yes")], order'[DemoOrder(f, "No")])
<1> DEFINE X == DemoOrder(f, "exploit")
           Y == DemoOrder(f, "Yes")
           Z == DemoOrder(f, "No")
           a == market[f]
           b == market'[f]
           r == receipt[f]
           x == order[X]
           y == order[Y]
           z == order[Z]
           e == order'[Y]
           S == SETTLEMENT_STAKE_LAMPORTS
           paid == Payout(Y)
<1>1. /\ f \in Markets /\ X \in Orders /\ Y \in Orders /\ Z \in Orders
      /\ X # Y /\ X # Z /\ Y # Z /\ Y.market = f
    BY DemoNames
<1>2. /\ market \in [Markets -> MarketAccount \cup {NoAccount}]
      /\ order \in [Orders -> OrderAccount \cup {NoAccount}]
    BY DEF LegacyInv, LegacyTypeOK
<1>3. DemoAt(16, a, r, x, y, z)
    OBVIOUS
<1>4. Exists(a) /\ Exists(y) /\ Exists(z)
    BY <1>3 DEF DemoAt
<1>5. a \in MarketAccount /\ y \in OrderAccount
    BY <1>4, DemoAccounts
<1>6. /\ y.status = "Filled" /\ z.status = "Filled" /\ y.side = "Yes" /\ y.stake = S
      /\ a.resolution = "Yes" /\ a.total_paid = 0
      /\ a.pool["Yes"] = Counted(y) /\ a.pool["No"] = Counted(z)
    BY <1>3 DEF DemoAt, DemoStake
<1>7. a.pool["Yes"] = S /\ a.pool["No"] = S /\ S \in Nat \ {0}
    BY <1>4, <1>5, <1>6 DEF Counted, OrderAccount
<1>8. paid = 2 * S
  <2>1. paid = (S * (S + S)) \div S
      BY <1>1, <1>6, <1>7 DEF Payout
  <2> QED  BY <1>7, <2>1, AllToTheWinner
<1>9. /\ market' = [market EXCEPT ![f].total_paid = @ + paid]
      /\ order' = [order EXCEPT ![Y].status = "Settled"] /\ receipt' = receipt
    BY <1>1 DEF SettleOrder, PayTrader
<1>10. order'[X] = x /\ order'[Z] = z /\ receipt'[f] = r
    BY <1>1, <1>2, <1>9
<1>11. e = [y EXCEPT !.status = "Settled"]
    BY <1>1, <1>2, <1>9
<1>12. b = [a EXCEPT !.total_paid = a.total_paid + paid]
    BY <1>1, <1>2, <1>9
<1> HIDE DEF X, Y, Z, a, b, r, x, y, z, e, S, paid
<1>13. e.status = "Settled" /\ e.side = y.side /\ e.stake = y.stake
    BY <1>5, <1>11 DEF OrderAccount
<1>14. /\ b.material_seq = a.material_seq /\ b.fair = a.fair
       /\ b.priced_at_seq = a.priced_at_seq
       /\ b.tolerance = a.tolerance /\ b.pool = a.pool /\ b.total_in = a.total_in
       /\ b.trading_closed = a.trading_closed /\ b.resolution = a.resolution
       /\ b.total_refunded = a.total_refunded
    BY <1>5, <1>12 DEF MarketAccount
<1>15. b.total_paid = 2 * SETTLEMENT_STAKE_LAMPORTS
  <2>1. b.total_paid = a.total_paid + paid
      BY <1>5, <1>12 DEF MarketAccount
  <2> QED  BY <1>6, <1>7, <1>8, <2>1 DEF S
<1>16. Exists(b) /\ Exists(e)
    BY DEF b, e, Y
<1>17. Counted(e) = Counted(y)
    BY <1>4, <1>6, <1>13, <1>16 DEF Counted
<1>18. DemoAt(17, b, r, x, e, z)
    BY ONLY <1>3, <1>13, <1>14, <1>15, <1>16, <1>17 DEF DemoAt, DemoStake
<1> QED  BY <1>10, <1>18 DEF X, Y, Z, a, b, r, x, y, z, e

\* The demo goes on: what its next step finds is what it needs.
LEMMA DemoAdvances ==
    ASSUME FlowAssumption, FlowTypeOK, LegacyAssumption, LegacyInv, LegacyInv',
           AccountsLast, MarketsOfFlows, NEW f \in Flows, IsDemo(f), Passes(f),
           DemoOf(f)
    PROVE  /\ flow[f].pc \in 1 .. 16
           /\ DemoAt(flow[f].pc + 1, market'[f], receipt'[f],
                     order'[DemoOrder(f, "exploit")], order'[DemoOrder(f, "Yes")],
                     order'[DemoOrder(f, "No")])
<1> DEFINE c == flow[f].pc
           X == DemoOrder(f, "exploit")
           Y == DemoOrder(f, "Yes")
           Z == DemoOrder(f, "No")
<1>1. /\ DemoAt(c, market[f], receipt[f], order[X], order[Y], order[Z])
      /\ c \in 1 .. 16
    BY DemoActs DEF DemoOf
<1>2. /\ f \in Markets /\ X \in Orders /\ Y \in Orders /\ Z \in Orders
      /\ X.market = f /\ Y.market = f /\ Z.market = f
      /\ Operator \in Users /\ TermsOf(f) \in MarketTerms
      /\ SETTLEMENT_STAKE_LAMPORTS \in Nat
    BY DemoNames, FlowNamesAccounts DEF IsDemo, FlowAssumption
<1>3. c > 1 => Exists(market'[f])
  <2>1. c > 1 => Exists(market[f])
      BY <1>1 DEF DemoAt
  <2> QED  BY <1>2, <2>1 DEF AccountsLast, MarketLasts
<1>4. CASE c = 1
  <2>1. InitializeMarketConfig(f, Operator, TermsOf(f))
      BY <1>4, DemoActs
  <2>2. Exists(market'[f]) /\ UNCHANGED <<receipt, order>>
      BY <1>2, <2>1, OpenedIsThere DEF InitializeMarketConfig
  <2>3. DemoAt(2, market'[f], receipt[f], order[X], order[Y], order[Z])
      BY <1>1, <1>4, <2>1, <2>2, DemoOpens
  <2> QED  BY <1>4, <2>2, <2>3
<1>5. CASE c \in {2, 3}
  <2>1. UNCHANGED <<market, order, receipt>>
      BY <1>5, DemoActs
  <2>2. DemoAt(c + 1, market[f], receipt[f], order[X], order[Y], order[Z])
      BY <1>1, <1>5, DemoWaits
  <2> QED  BY <1>1, <2>1, <2>2
<1>6. CASE c \in {4, 7, 12}
  <2>1. /\ \/ c = 4 /\ IngestMaterialEvent(f, Operator, CANONICAL_EVENT_SEQ,
                                           CANONICAL_FAIR_PRICE)
           \/ c = 7 /\ RepriceMarket(f, Operator, CANONICAL_FAIR_PRICE)
           \/ c = 12 /\ CloseMarket(f, Operator)
      BY <1>6, DemoActs
  <2>2. DemoAt(c + 1, market'[f], receipt[f], order[X], order[Y], order[Z])
      BY <1>1, <1>3, <1>6, <2>1, DemoTouches
  <2>3. UNCHANGED <<receipt, order>>
      BY <2>1 DEF IngestMaterialEvent, RepriceMarket, CloseMarket
  <2> QED  BY <1>1, <2>2, <2>3
<1>7. ASSUME NEW n \in {"exploit", "Yes", "No"},
             c = CASE n = "exploit" -> 5 [] n = "Yes" -> 8 [] n = "No" -> 10
      PROVE  DemoAt(c + 1, market'[f], receipt'[f], order'[X], order'[Y], order'[Z])
  <2> DEFINE side == IF n = "No" THEN "No" ELSE "Yes"
  <2>1. PlaceOrder(DemoOrder(f, n), Operator, side, SETTLEMENT_STAKE_LAMPORTS)
      BY <1>7, DemoActs
  <2>2. side \in Sides /\ DemoOrder(f, n) \in Orders
      BY <1>2 DEF Sides
  <2>3. Exists(order'[DemoOrder(f, n)])
    <3> HIDE DEF side
    <3> QED  BY <1>2, <2>1, <2>2, PlacedIsThere
  <2> QED  BY <1>1, <1>7, <2>1, <2>3, DemoPlaces
<1>8. ASSUME NEW n \in {"exploit", "Yes", "No"},
             c = CASE n = "exploit" -> 6 [] n = "Yes" -> 9 [] n = "No" -> 11
      PROVE  DemoAt(c + 1, market'[f], receipt'[f], order'[X], order'[Y], order'[Z])
  <2> DEFINE O == DemoOrder(f, n)
  <2>1. EvaluateOrder(O) /\ O \in Orders /\ O.market = f
      BY <1>2, <1>8, DemoActs
  <2>2. c \in 1 .. 17 /\ c \in {2, 3, 6, 9, 11}
      BY <1>8
  <2> HIDE DEF O, c
  <2>3. /\ DemoAt(c, market'[f], receipt'[f], order'[X], order'[Y], order'[Z])
        /\ order'[O].status # "Escrowed"
      BY <1>1, <2>1, <2>2, DemoEvaluates
  <2>4. /\ c = 6 => order'[X].status # "Escrowed"
        /\ c = 9 => order'[Y].status # "Escrowed"
        /\ c = 11 => order'[Z].status # "Escrowed"
      BY <1>8, <2>3 DEF O
  <2> QED  BY <2>2, <2>3, <2>4, DemoWaits
<1>9. CASE c \in {13, 14}
  <2>1. /\ \/ c = 13 /\ SubmitTxlineValidation(f, Operator, CANONICAL_FIXTURE_ID,
                                               CANONICAL_HOME_SCORE, CANONICAL_AWAY_SCORE)
           \/ c = 14 /\ ConfirmValidation(f, Operator)
      BY <1>9, DemoActs
  <2>2. DemoAt(c + 1, market[f], receipt'[f], order[X], order[Y], order[Z])
      BY <1>1, <2>1, DemoScores
  <2>3. UNCHANGED <<market, order>>
      BY <2>1 DEF SubmitTxlineValidation, ConfirmValidation
  <2> QED  BY <1>1, <2>2, <2>3
<1>10. CASE c = 15
  <2>1. ResolveMarketFromTxline(f, Operator)
      BY <1>10, DemoActs
  <2>2. DemoAt(16, market'[f], receipt[f], order[X], order[Y], order[Z])
      BY <1>1, <1>3, <1>10, <2>1, DemoResolves
  <2>3. UNCHANGED <<receipt, order>>
      BY <2>1 DEF ResolveMarketFromTxline
  <2> QED  BY <1>10, <2>2, <2>3
<1>11. CASE c = 16
  <2>1. SettleOrder(Y)
      BY <1>11, DemoActs
  <2>2. Exists(order'[Y])
    <3>1. Exists(order[Y])
        BY <1>1, <1>11 DEF DemoAt
    <3> QED  BY <1>2, <3>1 DEF AccountsLast, OrderLasts
  <2>3. DemoAt(17, market'[f], receipt'[f], order'[X], order'[Y], order'[Z])
      BY <1>1, <1>3, <1>11, <2>1, <2>2, DemoSettles
  <2> QED  BY <1>11, <2>3
<1> DEFINE GoesOn == DemoAt(c + 1, market'[f], receipt'[f], order'[X], order'[Y], order'[Z])
<1>12. (c \in {5, 8, 10} => GoesOn) /\ (c \in {6, 9, 11} => GoesOn)
    BY <1>7, <1>8
<1>13. c \in {1, 2, 3, 4, 5, 6, 7, 8, 9, 10, 11, 12, 13, 14, 15, 16}
    BY <1>1
<1>14. c \in {1, 2, 3, 4, 7, 12, 13, 14, 15, 16} => GoesOn
    BY <1>4, <1>5, <1>6, <1>9, <1>10, <1>11
<1> HIDE DEF c, GoesOn
<1>15. GoesOn
    BY <1>12, <1>13, <1>14
<1> QED  BY <1>1, <1>15 DEF c, GoesOn

\* A step leaves a request as it is, or is a step of the request.
LEMMA RequestMoves ==
    ASSUME ProgramsAssumption, TradersElsewhere, LegacyInv, FlowTypeOK, FlowsStep,
           NEW f \in Flows
    PROVE  /\ FlowAssumption /\ LegacyTypeOK
           /\ flow'[f] = flow[f] \/ FlowStep(f)
<1>1. FlowAssumption /\ LegacyTypeOK
    BY DEF ProgramsAssumption, LegacyInv
<1>2. UNCHANGED flow \/ (\E g \in Flows : FlowStep(g))
    BY DEF FlowsStep, FirstStep, TradersStep, FlowNext, Passerby, flowVars
<1>3. ASSUME NEW g \in Flows, FlowStep(g), g # f
      PROVE  flow'[f] = flow[f]
    BY <1>1, <1>3, FlowMoves
<1> QED  BY <1>1, <1>2, <1>3

\* The settlement demo keeps to its plan, whatever others do meanwhile.
LEMMA DemoGoesByPlan ==
    ASSUME ProgramsAssumption, TradersElsewhere, LegacyInv, FlowTypeOK, FlowsInv, FlowsStep,
           NEW f \in Flows
    PROVE  DemoKnows(f)'
<1> DEFINE r == flow[f]
           s == flow'[f]
           X == DemoOrder(f, "exploit")
           Y == DemoOrder(f, "Yes")
           Z == DemoOrder(f, "No")
           Now(c) == DemoAt(c, market[f], receipt[f], order[X], order[Y], order[Z])
           Next(c) == DemoAt(c, market'[f], receipt'[f], order'[X], order'[Y], order'[Z])
<1>1. /\ LegacyAssumption /\ FlowAssumption /\ OrdersTell /\ MarketsOfFlows /\ DemoKnows(f)
    BY DEF ProgramsAssumption, FlowsInv, RequestInv
<1>2. LegacyInv' /\ AccountsLast
    BY <1>1, FlowsStepLasts
<1>3. f \in ServersMarkets /\ f \in Markets
    BY <1>1 DEF ServersMarkets, FlowAssumption
<1>4. SUFFICES ASSUME s.stage # "idle", s.kind = "full-settlement-demo"
               PROVE  /\ s.side = "Yes" /\ s.sawMarket = FALSE
                      /\ s.stage # "failed" => s.pc <= 17 /\ Next(s.pc)
    BY DEF DemoKnows, DemoOf, IsKind, Came
<1>5. r = Idle \/ IsRequest(r)
    BY DEF FlowTypeOK
<1>6. ASSUME r.stage # "idle", r.kind = "full-settlement-demo"
      PROVE  /\ IsDemo(f) /\ r.side = "Yes" /\ r.sawMarket = FALSE
             /\ r.stage # "failed" => r.pc \in 1 .. 17 /\ Now(r.pc)
  <2>1. IsRequest(r) /\ r.side = "Yes" /\ r.sawMarket = FALSE
      BY <1>1, <1>5, <1>6 DEF DemoKnows, IsKind, Came, Idle
  <2>2. r.stage # "failed" => r.pc <= 17 /\ Now(r.pc)
      BY <1>1, <1>6 DEF DemoKnows, IsKind, Came, DemoOf
  <2>3. r.pc \in Nat \ {0}
      BY <2>1 DEF IsRequest
  <2> QED  BY <1>6, <2>1, <2>2, <2>3 DEF IsDemo
<1>7. UNCHANGED legacyVars => \A c : Now(c) = Next(c)
    BY DEF legacyVars
<1>8. CASE s = r
  <2>1. /\ IsDemo(f) /\ r.side = "Yes" /\ r.sawMarket = FALSE
        /\ r.stage # "failed" => r.pc \in 1 .. 17 /\ Now(r.pc)
      BY <1>4, <1>6, <1>8
  <2>2. r.stage # "failed" => r.pc <= 17
      BY <2>1
  <2>3. ASSUME r.stage # "failed"
        PROVE  Next(r.pc)
    <3>1. CASE MarketRests(f)
      <4>1. /\ market'[f] = market[f] /\ receipt'[f] = receipt[f]
            /\ order'[X] = order[X] /\ order'[Y] = order[Y] /\ order'[Z] = order[Z]
          BY <1>1, <2>1, <3>1, DemoNames DEF MarketRests
      <4> QED  BY <2>1, <2>3, <4>1
    <3>2. ASSUME NEW o \in Orders, EvaluateOrder(o), o.market = f
          PROVE  Next(r.pc)
        BY <1>1, <2>1, <2>3, <3>2, DemoEvaluates
    <3>3. ASSUME NEW g \in Flows, NEW t, SendsTo(g, f, t)
          PROVE  FALSE
      <4>1. FlowStep(g) /\ MarketOf(g) = f
          BY <3>3 DEF SendsTo
      <4>2. g = f
          BY <1>1, <4>1 DEF MarketOf, FlowAssumption
      <4>3. \/ RequestComes(r, s) \/ RequestStops(r, s) \/ RequestGoesOn(r, s)
            \/ RequestIsAnswered(r, s)
          BY <1>1, <4>1, <4>2, FlowMoves DEF LegacyInv
      <4>4. r.pc \in Nat
          BY <2>1 DEF IsDemo, IsRequest
      <4> QED
          BY <1>8, <4>3, <4>4
             DEF RequestComes, RequestStops, RequestGoesOn, RequestIsAnswered, Idle
    <3>4. FirstStep \/ UNCHANGED flowVars
        BY DEF FlowsStep
    <3> QED  BY <1>3, <3>1, <3>2, <3>3, <3>4, WhoTouches
  <2> QED  BY <1>8, <2>1, <2>2, <2>3
<1>9. CASE RequestComes(r, s) /\ UNCHANGED legacyVars
  <2>1. s.side = "Yes" /\ s.sawMarket = FALSE /\ s.pc = 1 /\ r = Idle
      BY <1>4, <1>9 DEF RequestComes
  <2>2. ~ Exists(market[f])
      BY <1>1, <2>1 DEF MarketsOfFlows, HasDemo, IsKind, Came, Idle
  <2>3. /\ {X, Y, Z} \subseteq Orders /\ X.market = f /\ Y.market = f /\ Z.market = f
      BY <1>1 DEF FlowAssumption, DemoOrder, Sides
  <2>4. ~ Exists(order[X]) /\ ~ Exists(order[Y]) /\ ~ Exists(order[Z])
      BY <1>1, <2>2, <2>3, OrderFacts
  <2>5. Now(1)
    <3> HIDE DEF X, Y, Z
    <3> QED  BY <2>2, <2>4 DEF DemoAt
  <2>6. Next(1)
      BY <1>7, <1>9, <2>5
  <2> QED  BY <2>1, <2>6
<1>10. CASE RequestStops(r, s)
    BY <1>4, <1>6, <1>10 DEF RequestStops, SameRequest
<1>11. CASE RequestGoesOn(r, s) /\ Passes(f)
  <2>1. /\ r.stage = "running" /\ r.kind = "full-settlement-demo" /\ s.pc = r.pc + 1
        /\ s.side = r.side /\ s.sawMarket = r.sawMarket
      BY <1>4, <1>11 DEF RequestGoesOn, SameRequest
  <2>2. /\ IsDemo(f) /\ r.side = "Yes" /\ r.sawMarket = FALSE /\ Now(r.pc)
      BY <1>6, <2>1
  <2>3. r.pc \in 1 .. 16 /\ Next(r.pc + 1)
      BY <1>1, <1>2, <1>11, <2>2, DemoAdvances DEF DemoOf
  <2>4. s.pc <= 17
      BY <2>1, <2>3
  <2> QED  BY <2>1, <2>2, <2>3, <2>4
<1>12. CASE RequestIsAnswered(r, s) /\ UNCHANGED legacyVars
  <2>1. /\ r.stage = "running" /\ r.kind = "full-settlement-demo" /\ s.pc = r.pc
        /\ s.side = r.side /\ s.sawMarket = r.sawMarket
      BY <1>4, <1>12 DEF RequestIsAnswered, SameRequest
  <2>2. /\ r.side = "Yes" /\ r.sawMarket = FALSE /\ r.pc \in 1 .. 17 /\ Now(r.pc)
      BY <1>6, <2>1
  <2>3. Next(r.pc) /\ r.pc <= 17
      BY <1>7, <1>12, <2>2
  <2> QED  BY <2>1, <2>2, <2>3
<1>13. FlowStep(f) => \/ RequestComes(r, s) /\ UNCHANGED legacyVars
                      \/ RequestStops(r, s)
                      \/ RequestGoesOn(r, s) /\ Passes(f)
                      \/ RequestIsAnswered(r, s) /\ UNCHANGED legacyVars
    BY <1>1, FlowMoves DEF LegacyInv, Answer
<1> QED  BY <1>8, <1>9, <1>10, <1>11, <1>12, <1>13, RequestMoves

(***************************************************************************)
(* The answers.                                                            *)
(***************************************************************************)

\* What the answer of a request says, of the order that is read in the end.
LEMMA AnswerSays ==
    ASSUME FlowAssumption, FlowTypeOK, NEW f \in Flows, Answer(f)
    PROVE  /\ IsRequest(flow[f]) /\ flow[f].stage = "running"
           /\ flow[f].pc > Len(Plan(flow[f].kind))
           /\ SameRequest(flow[f], flow'[f])
           /\ \E o \in OrderReads(f) :
                 /\ flow'[f].state =
                      IF HasState(f) THEN [market |-> flow[f].seen, order |-> o] ELSE Null
                 /\ flow'[f].proof =
                      IF flow[f].kind = "full-settlement-demo" THEN SettlementProof(f)
                      ELSE Proof(f, o)
<1> DEFINE r == flow[f]
<1>1. DOMAIN flow = Flows /\ (r = Idle \/ IsRequest(r))
    BY DEF FlowTypeOK
<1>2. IsRequest(r) /\ r.stage = "running" /\ r.pc > Len(Plan(r.kind))
    BY <1>1 DEF Answer, Running, Idle
<1> DEFINE Shown(o) == IF HasState(f) THEN [market |-> flow[f].seen, order |-> o] ELSE Null
           Proven(o) == IF flow[f].kind = "full-settlement-demo" THEN SettlementProof(f)
                        ELSE Proof(f, o)
<1>3. PICK o \in OrderReads(f) :
          flow' = [flow EXCEPT ![f].stage = "ok", ![f].state = Shown(o),
                               ![f].proof = Proven(o)]
    BY Zenon DEF Answer
<1> DEFINE shown == Shown(o)
           proven == Proven(o)
<1> HIDE DEF Shown, Proven
<1>4. flow' = [flow EXCEPT ![f].stage = "ok", ![f].state = shown, ![f].proof = proven]
    BY <1>3
<1> HIDE DEF shown, proven
<1> DEFINE s == [r EXCEPT !.stage = "ok", !.state = shown, !.proof = proven]
<1>5. {"stage", "state", "proof", "kind", "side", "input", "sawMarket"} \subseteq DOMAIN r
    BY <1>2 DEF IsRequest, FlowFields
<1>6. flow' = [flow EXCEPT ![f] = s]
    BY <1>1, <1>4, <1>5
<1>7. s.state = shown /\ s.proof = proven /\ SameRequest(r, s)
    BY <1>5 DEF SameRequest
<1> HIDE DEF s
<1>8. flow'[f] = s
    BY <1>1, <1>6
<1>9. flow'[f].state = Shown(o) /\ flow'[f].proof = Proven(o)
    BY <1>7, <1>8 DEF shown, proven
<1> QED  BY <1>2, <1>3, <1>7, <1>8, <1>9 DEF Shown, Proven

\* A request that is answered has just been, or was.
LEMMA AnsweredThen ==
    ASSUME ProgramsAssumption, TradersElsewhere, LegacyInv, FlowTypeOK, FlowsStep,
           NEW f \in Flows,
           Answered(f)'
    PROVE  \/ flow'[f] = flow[f] /\ Answered(f)
           \/ Answer(f) /\ UNCHANGED legacyVars
<1>1. FlowAssumption /\ LegacyTypeOK /\ (flow'[f] = flow[f] \/ FlowStep(f))
    BY RequestMoves
<1>2. CASE FlowStep(f)
    BY <1>1, <1>2, FlowMoves
       DEF Answered, RequestComes, RequestStops, RequestGoesOn, Answer
<1> QED  BY <1>1, <1>2 DEF Answered

\* The account that the settlement demo gives of itself.
LEMMA DemoTellsAll ==
    ASSUME FlowAssumption, LegacyAssumption, LegacyInv, NEW f \in Flows, IsDemo(f),
           flow[f].pc = 17, DemoOf(f)
    PROVE  SettlementProof(f) = DemoProof
<1> DEFINE X == DemoOrder(f, "exploit")
           Y == DemoOrder(f, "Yes")
           Z == DemoOrder(f, "No")
           a == market[f]
           r == receipt[f]
           x == order[X]
           y == order[Y]
           z == order[Z]
           S == SETTLEMENT_STAKE_LAMPORTS
           m == FetchMarket(f)
<1>1. DemoAt(17, a, r, x, y, z)
    BY DEF DemoOf
<1>2. Exists(a) /\ Exists(x) /\ Exists(y) /\ Exists(z) /\ Exists(r)
    BY <1>1 DEF DemoAt
<1>3. a \in MarketAccount /\ y \in OrderAccount /\ r \in ReceiptAccount
    BY <1>2, DemoAccounts DEF Exists
<1>4. /\ x.status = "VoidedRefunded" /\ y.status = "Settled" /\ y.stake = S
      /\ z.status = "Filled" /\ a.resolution = "Yes" /\ r.confirmed = TRUE
      /\ a.pool["Yes"] = Counted(y) /\ a.pool["No"] = Counted(z)
  <2>1. r.confirmed
      BY <1>1 DEF DemoAt
  <2>2. r.confirmed = TRUE
      BY <1>3, <2>1 DEF ReceiptAccount
  <2> QED  BY <1>1, <2>2 DEF DemoAt, DemoStake
<1>5. a.pool["Yes"] = S /\ a.pool["No"] = S /\ S \in Nat \ {0}
    BY <1>2, <1>3, <1>4 DEF Counted, OrderAccount
<1>6. /\ m.pool = a.pool /\ m.resolution = "YES_WON"
  <2>1. m = [ materialSeq |-> a.material_seq, pricedAtSeq |-> a.priced_at_seq,
              displayed |-> a.displayed, pool |-> a.pool, resolution |-> "YES_WON",
              marketTotalPaid |-> a.total_paid ]
      BY <1>2, <1>4 DEF FetchMarket
  <2> QED  BY <2>1
<1>7. /\ FetchOrder(Y).stake = S /\ FetchOrder(Y).status = "Settled"
      /\ FetchOrder(Z).status = "Filled" /\ FetchOrder(X).status = "VoidedRefunded"
      /\ FetchReceipt(f).confirmed = TRUE
    BY <1>2, <1>4 DEF FetchOrder, FetchReceipt
<1>8. /\ MarketOf(f) = f /\ EvaluatedBy(f) = Y /\ OrderOf(f, "place_no") = Z
      /\ OrderOf(f, "place_exploit") = X
    BY DemoNames DEF EvaluatedBy
<1> DEFINE payout == IF m.pool["Yes"] > 0
                     THEN (FetchOrder(Y).stake * (m.pool["Yes"] + m.pool["No"]))
                              \div m.pool["Yes"]
                     ELSE 0
<1>9. payout = 2 * S
  <2>1. payout = (S * (S + S)) \div S
      BY <1>5, <1>6, <1>7
  <2> QED  BY <1>5, <2>1, AllToTheWinner
<1>10. SettlementProof(f) =
          [ resolution |-> "YES_WON", payout |-> payout, winner |-> "Settled",
            loser |-> "Filled", protectionRefunded |-> TRUE, validationConfirmed |-> TRUE ]
  <2> HIDE DEF m, S
  <2>1. SettlementProof(f) =
          [ resolution |-> IF m.resolution = "NO_WON" THEN "NO_WON" ELSE "YES_WON",
            payout |-> payout, winner |-> FetchOrder(Y).status,
            loser |-> FetchOrder(Z).status,
            protectionRefunded |-> FetchOrder(X).status = "VoidedRefunded",
            validationConfirmed |-> FetchReceipt(f).confirmed ]
      BY <1>8, Zenon DEF SettlementProof, m
  <2> HIDE DEF payout
  <2>2. (FetchOrder(X).status = "VoidedRefunded") = TRUE
      BY <1>7
  <2> QED  BY <1>6, <1>7, <2>1, <2>2
<1> HIDE DEF payout
<1> QED  BY <1>9, <1>10 DEF DemoProof

LEMMA DemoAnswersTruly ==
    ASSUME ProgramsAssumption, TradersElsewhere, LegacyInv, FlowTypeOK, FlowsInv, FlowsStep,
           NEW f \in Flows
    PROVE  DemoAnswers(f)'
<1>1. /\ LegacyAssumption /\ FlowAssumption /\ DemoAnswers(f) /\ DemoKnows(f)
    BY DEF ProgramsAssumption, FlowsInv, RequestInv
<1>2. SUFFICES ASSUME Answered(f)', IsKind(f, "full-settlement-demo")'
               PROVE  flow'[f].proof = DemoProof
    BY DEF DemoAnswers, DemoProof
<1>3. CASE flow'[f] = flow[f] /\ Answered(f)
    BY <1>1, <1>2, <1>3 DEF DemoAnswers, IsKind, Came
<1>4. CASE Answer(f)
  <2>1. /\ IsRequest(flow[f]) /\ flow[f].stage = "running"
        /\ flow[f].kind = "full-settlement-demo" /\ flow[f].pc > 16
        /\ flow'[f].proof = SettlementProof(f)
      BY <1>1, <1>2, <1>4, AnswerSays, DemoSteps DEF IsKind, SameRequest
  <2>2. IsKind(f, "full-settlement-demo")
      BY <2>1 DEF IsKind, Came
  <2>3. IsDemo(f) /\ flow[f].pc <= 17 /\ DemoOf(f)
      BY <1>1, <2>1, <2>2 DEF IsDemo, DemoKnows
  <2>4. flow[f].pc = 17
      BY <2>1, <2>3 DEF IsRequest
  <2> QED  BY <1>1, <2>1, <2>3, <2>4, DemoTellsAll
<1> QED  BY <1>2, <1>3, <1>4, AnsweredThen

\* An order whose request answers with a proof of it has been evaluated.
LEMMA ProvenIsEvaluated ==
    ASSUME FlowAssumption, FlowTypeOK, NEW f \in Flows, RequestKnows(f),
           flow[f].stage # "idle", HasProof(f), flow[f].pc > Len(Plan(flow[f].kind))
    PROVE  WasEvaluated(EvaluatedBy(f))
<1>1. /\ Len(Plan("evaluate-order")) = 4 /\ Len(Plan("full-demo")) = 6
      /\ Len(Plan("custom-order")) = 10
    BY DEF Plan, EvaluatePlan, FullDemoPlan, CustomOrderPlan
<1>2. flow[f].pc \in Nat
    BY DEF FlowTypeOK, IsRequest, Idle
<1>3. /\ flow[f].kind \in {"evaluate-order", "full-demo", "custom-order"}
      /\ flow[f].kind = "evaluate-order" => flow[f].pc > 3
      /\ flow[f].kind = "full-demo" => flow[f].pc > 5
      /\ flow[f].kind = "custom-order" => flow[f].pc > 9
  <2> DEFINE pc == flow[f].pc
             kind == flow[f].kind
             n == Len(Plan(kind))
  <2>1. kind \in {"evaluate-order", "full-demo", "custom-order"} /\ pc > n /\ pc \in Nat
      BY <1>2 DEF HasProof
  <2>2. /\ kind = "evaluate-order" => n = 4
        /\ kind = "full-demo" => n = 6
        /\ kind = "custom-order" => n = 10
      BY <1>1, Zenon
  <2> HIDE DEF n, pc, kind
  <2>3. /\ kind = "evaluate-order" => pc > 3
        /\ kind = "full-demo" => pc > 5
        /\ kind = "custom-order" => pc > 9
      BY <2>1, <2>2
  <2> QED  BY <2>1, <2>3 DEF pc, kind
<1> QED  BY <1>3 DEF RequestKnows, IsKind, Came, PastItsStep

\* The market of a request and of its order, by its kind.
LEMMA MarketByKind ==
    ASSUME FlowAssumption, NEW f \in Flows
    PROVE  /\ EvaluatedBy(f).market = MarketOf(f)
           /\ EvaluatedBy(f) = OrderOf(f, "place")
           /\ flow[f].kind \in {"ingest-event", "reprice", "place-order", "evaluate-order"} =>
                 MarketOf(f) = DefaultMarket
           /\ flow[f].kind = "full-demo" => MarketOf(f) = f
           /\ flow[f].kind = "custom-order" => MarketOf(f) = CustomMarket
           /\ MarketOf(f) \in ServersMarkets
BY DEF EvaluatedBy, OrderOf, MarketOf, ServersMarkets

LEMMA ProofsStand ==
    ASSUME ProgramsAssumption, TradersElsewhere, LegacyInv, FlowTypeOK, FlowsInv, FlowsStep,
           NEW f \in Flows
    PROVE  ProofStands(f)'
<1> DEFINE o == EvaluatedBy(f)
           x == order[o]
           y == order'[o]
           Stands(proof, z) ==
               /\ proof.order = o
               /\ proof.verdict = z.verdict /\ proof.edge = z.edge /\ proof.event = z.event
               /\ proof.destination = IF z.verdict = "VOIDED_REFUNDED"
                                      THEN "REFUNDED_TO_TRADER" ELSE "FINALIZED_TO_VAULT"
               /\ proof.event <= proof.materialSeq
<1>1. /\ LegacyAssumption /\ FlowAssumption /\ RequestKnows(f) /\ SeenShows(f)
      /\ ProofStands(f) /\ AnsweredAtTheEnd(f)
    BY DEF ProgramsAssumption, FlowsInv, RequestInv
<1>2. AccountsLast /\ LegacyInv'
    BY <1>1, FlowsStepLasts DEF FlowsInv
<1>3. SUFFICES ASSUME Answered(f)', HasProof(f)', flow'[f].proof # Null
               PROVE  /\ EvaluatedBy(f)' = o
                      /\ Stands(flow'[f].proof, y)
  <2>1. CASE EvaluatedBy(f)' = o
      BY <2>1 DEF ProofStands
  <2> QED  BY <2>1 DEF ProofStands
<1>4. CASE flow'[f] = flow[f] /\ Answered(f)
  <2>1. HasProof(f) /\ flow[f].stage = "ok" /\ IsRequest(flow[f])
        /\ flow[f].pc > Len(Plan(flow[f].kind)) /\ flow[f].proof # Null
      BY <1>1, <1>3, <1>4 DEF HasProof, Answered, AnsweredAtTheEnd, FlowTypeOK, Idle
  <2>2. WasEvaluated(o)
      BY <1>1, <2>1, ProvenIsEvaluated
  <2>3. EvaluatedBy(f)' = o /\ o \in Orders
      BY <1>1, <1>4, <2>1, NamesLast DEF SameRequest
  <2>4. y.verdict = x.verdict /\ y.edge = x.edge /\ y.event = x.event
      BY <1>2, <2>2, <2>3 DEF AccountsLast, OrderLasts, WasEvaluated
  <2>5. Stands(flow[f].proof, x)
      BY <1>1, <1>4, <2>1 DEF ProofStands
  <2> HIDE DEF o, x, y
  <2> QED  BY <1>4, <2>3, <2>4, <2>5
<1>5. CASE Answer(f) /\ UNCHANGED legacyVars
  <2>1. PICK z \in OrderReads(f) :
            /\ IsRequest(flow[f]) /\ flow[f].stage = "running"
            /\ SameRequest(flow[f], flow'[f])
            /\ flow'[f].proof =
                 IF flow[f].kind = "full-settlement-demo" THEN SettlementProof(f)
                 ELSE Proof(f, z)
      BY <1>1, <1>5, AnswerSays
  <2>2. HasProof(f) /\ flow[f].kind # "full-settlement-demo" /\ Came(f)
      BY <1>3, <2>1 DEF HasProof, SameRequest, Came
  <2>3. z # Null /\ flow'[f].proof = ToProof(f, flow[f].seen, z)
      BY <1>3, <2>1, <2>2 DEF Proof
  <2>4. flow[f].seen # Null /\ z = FetchOrder(o)
      BY <2>1, <2>3 DEF OrderReads
  <2>5. z.verdict = x.verdict /\ z.edge = x.edge /\ z.event = x.event
    <3>1. Exists(x)
        BY <2>3, <2>4 DEF FetchOrder
    <3> HIDE DEF o
    <3> QED  BY <2>4, <3>1 DEF FetchOrder
  <2>6. x.event <= flow[f].seen.materialSeq
      BY <1>1, <2>2, <2>4 DEF SeenShows
  <2>7. EvaluatedBy(f)' = o
      BY <2>1 DEF EvaluatedBy, OrderOf, MarketOf, SameRequest
  <2>8. y = x
      BY <1>5 DEF legacyVars
  <2> DEFINE proof == flow'[f].proof
             m == flow[f].seen
  <2>9. /\ proof.order = o /\ proof.verdict = x.verdict /\ proof.edge = x.edge
        /\ proof.event = x.event /\ proof.materialSeq = m.materialSeq
        /\ proof.destination = IF x.verdict = "VOIDED_REFUNDED"
                               THEN "REFUNDED_TO_TRADER" ELSE "FINALIZED_TO_VAULT"
    <3>1. proof =
          [ order |-> o, verdict |-> z.verdict,
            destination |-> IF z.verdict = "VOIDED_REFUNDED"
                            THEN "REFUNDED_TO_TRADER" ELSE "FINALIZED_TO_VAULT",
            edge |-> z.edge, materialSeq |-> m.materialSeq, event |-> z.event ]
        BY <2>3 DEF ToProof
    <3> HIDE DEF o, proof, x, m
    <3> QED  BY <2>5, <3>1
  <2> HIDE DEF o, x, y, proof
  <2>10. Stands(proof, y)
      BY <2>6, <2>8, <2>9
  <2> QED  BY <2>7, <2>10 DEF proof
<1> QED  BY <1>3, <1>4, <1>5, AnsweredThen

LEMMA EffectsAreShown ==
    ASSUME ProgramsAssumption, TradersElsewhere, LegacyInv, FlowTypeOK, FlowsInv, FlowsStep,
           NEW f \in Flows
    PROVE  EffectShown(f)'
<1>1. /\ LegacyAssumption /\ FlowAssumption /\ OrdersTell /\ RequestKnows(f) /\ SeenShows(f)
      /\ EffectShown(f) /\ MarketsOfFlows /\ ClosedByDemos
    BY DEF ProgramsAssumption, FlowsInv, RequestInv
<1> DEFINE kind == flow[f].kind
           Shows(m, o) ==
               /\ m # Null /\ kind = "ingest-event" => m.materialSeq >= CANONICAL_EVENT_SEQ
               /\ m # Null /\ kind = "reprice" => m.displayed = CANONICAL_FAIR_PRICE
               /\ o # Null /\ kind = "place-order" => o.stake = STAKE_LAMPORTS
               /\ o # Null /\ kind \in {"evaluate-order", "full-demo"} =>
                     o.status \in {"Filled", "VoidedRefunded"}
<1>2. SUFFICES ASSUME Answered(f)', HasState(f)'
               PROVE  /\ flow'[f].kind = kind
                      /\ Shows(flow'[f].state.market, flow'[f].state.order)
    BY DEF EffectShown
<1>3. CASE flow'[f] = flow[f] /\ Answered(f)
    BY <1>1, <1>2, <1>3 DEF EffectShown, HasState
<1>4. CASE Answer(f)
  <2>1. PICK z \in OrderReads(f) :
            /\ IsRequest(flow[f]) /\ flow'[f].kind = kind
            /\ flow[f].stage = "running" /\ flow[f].pc > Len(Plan(kind))
            /\ flow'[f].state =
                 IF HasState(f) THEN [market |-> flow[f].seen, order |-> z] ELSE Null
      BY <1>1, <1>4, AnswerSays DEF SameRequest
  <2>2. Came(f) /\ flow'[f].state = [market |-> flow[f].seen, order |-> z]
      BY <1>2, <2>1 DEF HasState, Came
  <2> DEFINE o == EvaluatedBy(f)
             k == MarketOf(f)
             x == order[o]
             a == market[k]
             m == flow[f].seen
  <2>3. /\ m # Null /\ kind = "ingest-event" => m.materialSeq >= CANONICAL_EVENT_SEQ
        /\ m # Null /\ kind = "reprice" => m.displayed = CANONICAL_FAIR_PRICE
      BY <1>1, <2>2 DEF SeenShows
  <2>4. /\ o \in Orders /\ o.market = k /\ k \in ServersMarkets
        /\ kind \in {"place-order", "evaluate-order"} => k = DefaultMarket
        /\ kind = "full-demo" => k = f
      BY <1>1, <2>1, FlowNamesAccounts, MarketByKind DEF EvaluatedBy
  <2>5. ASSUME z # Null
        PROVE  Exists(x) /\ z.stake = x.stake /\ z.status = x.status
    <3>1. z = FetchOrder(o)
        BY <2>1, <2>5 DEF OrderReads
    <3>2. Exists(x)
        BY <2>5, <3>1 DEF FetchOrder
    <3> HIDE DEF o
    <3> QED  BY <3>1, <3>2 DEF FetchOrder
  <2>6. ASSUME kind \in {"evaluate-order", "full-demo"}
        PROVE  WasEvaluated(o)
    <3>1. Len(Plan("evaluate-order")) = 4 /\ Len(Plan("full-demo")) = 6
        BY DEF Plan, EvaluatePlan, FullDemoPlan
    <3>2. flow[f].pc \in Nat
        BY <2>1 DEF IsRequest
    <3>3. /\ kind = "evaluate-order" => flow[f].pc > 3
          /\ kind = "full-demo" => flow[f].pc > 5
      <4> DEFINE pc == flow[f].pc
                 n == Len(Plan(kind))
      <4>1. /\ kind = "evaluate-order" => n = 4
            /\ kind = "full-demo" => n = 6
          BY <3>1, Zenon
      <4>2. pc > n /\ pc \in Nat
          BY <2>1, <3>2
      <4> HIDE DEF n, pc
      <4>3. /\ kind = "evaluate-order" => pc > 3
            /\ kind = "full-demo" => pc > 5
          BY <4>1, <4>2
      <4> QED  BY <4>3 DEF pc
    <3> QED  BY <1>1, <2>2, <2>6, <3>3 DEF RequestKnows, IsKind, PastItsStep
  <2>7. ASSUME z # Null, kind = "place-order"
        PROVE  z.stake = STAKE_LAMPORTS
      BY <1>1, <2>4, <2>5, <2>7 DEF MarketsOfFlows
  <2>8. ASSUME z # Null, kind \in {"evaluate-order", "full-demo"}
        PROVE  z.status \in {"Filled", "VoidedRefunded"}
    <3>1. Exists(x) /\ x.status # "Escrowed"
        BY <2>6, <2>8 DEF WasEvaluated
    <3>2. x \in OrderAccount /\ OrderTells(x, a) /\ Exists(a)
        BY <1>1, <2>4, <3>1, OrderFacts DEF OrdersTell
    <3>3. x.status # "Settled"
      <4>1. SUFFICES ASSUME x.status = "Settled"
                     PROVE  FALSE
          OBVIOUS
      <4>2. a.resolution # "None"
          BY <3>2, <4>1 DEF OrderTells
      <4>3. k \in Flows /\ IsKind(k, "full-settlement-demo")
          BY <1>1, <2>4, <3>2, <4>2 DEF ClosedByDemos
      <4>4. k = f
          BY <1>1, <2>4, <2>8, <4>3 DEF FlowAssumption
      <4> QED  BY <2>8, <4>3, <4>4 DEF IsKind
    <3>4. x.status \in {"Escrowed", "Filled", "VoidedRefunded", "Settled"}
        BY <3>2 DEF OrderAccount
    <3> QED  BY <2>5, <2>8, <3>1, <3>3, <3>4
  <2> HIDE DEF m, k, o, a, x
  <2>9. Shows(m, z)
      BY <2>3, <2>7, <2>8
  <2> QED  BY <2>1, <2>2, <2>9 DEF m
<1> QED  BY <1>2, <1>3, <1>4, AnsweredThen

(***************************************************************************)
(* The flows together.                                                     *)
(***************************************************************************)

\* Before the first request there is nothing to know; of earlier requests the default
\* market is left, with an order that waits.
LEMMA FlowsStart ==
    ASSUME ProgramsAssumption, ProgramsInit
    PROVE  FlowsInv
<1>1. FlowAssumption /\ LegacyAssumption
    BY DEF ProgramsAssumption
<1>2. \A f \in Flows : RequestInv(f)
  <2>1. \A f \in Flows : flow[f] = [stage |-> "idle"]
      BY DEF ProgramsInit, FirstInit, FlowInit, EarlierRequests, Idle
  <2>2. \A f \in Flows : flow[f].stage = "idle"
      BY <2>1
  <2> QED
      BY <2>2 DEF RequestInv, RequestKnows, SeenShows, DemoKnows, AnsweredAtTheEnd,
                  DemoAnswers, ProofStands, EffectShown, IsKind, Came, Answered
<1>3. CASE FlowInit
  <2>1. /\ \A m \in Markets : ~ Exists(market[m])
        /\ \A o \in Orders : ~ Exists(order[o])
      BY <1>3 DEF FlowInit, LegacyInit, Exists
  <2>2. ServersMarkets \subseteq Markets /\ Flows \subseteq Markets
      BY <1>1 DEF ServersMarkets, FlowAssumption
  <2>3. CustomMarket \in Markets
      BY <1>1 DEF FlowAssumption
  <2>4. OrdersTell /\ MarketsOfFlows /\ ClosedByDemos
      BY <2>1, <2>2, <2>3 DEF OrdersTell, MarketsOfFlows, VoidedForEvents, ClosedByDemos
  <2> QED  BY <1>2, <2>4 DEF FlowsInv
<1>4. CASE EarlierRequests
  <2> DEFINE w == OrderLeftWaiting
             a == EarlierMarket
             x == EarlierOrder
             n == NewMarket(Operator, DefaultTerms)
  <2>1. /\ a \in MarketAccount /\ a.resolution = "None" /\ w.market = DefaultMarket
        /\ x.status = "Escrowed" /\ x.event = 0 /\ x.stake = STAKE_LAMPORTS
      BY EarlierIsTyped DEF EarlierOrder, OrderLeftWaiting, Zero
  <2>2. /\ a.material_seq = CANONICAL_EVENT_SEQ /\ a.source_event = CANONICAL_EVENT_SEQ
        /\ a.trading_closed = FALSE
    <3>1. /\ n.trading_closed = FALSE
          /\ {"material_seq", "status", "source_event", "fair"} \subseteq DOMAIN n
        BY DEF NewMarket
    <3>2. a = [n EXCEPT !.material_seq = CANONICAL_EVENT_SEQ, !.status = "Stale",
                        !.source_event = CANONICAL_EVENT_SEQ, !.fair = CANONICAL_FAIR_PRICE]
        BY DEF EarlierMarket
    <3> HIDE DEF n, a
    <3> QED  BY <3>1, <3>2
  <2>3. /\ \A m \in Markets : market[m] = IF m # DefaultMarket THEN NoAccount ELSE a
        /\ \A o \in Orders : order[o] = IF o # w THEN NoAccount ELSE x
      BY <1>4 DEF EarlierRequests, EarlierMarket, EarlierOrder
  <2>4. /\ DefaultMarket \notin Flows /\ DefaultMarket # CustomMarket
        /\ DefaultMarket \in Markets /\ ServersMarkets \subseteq Markets
        /\ Flows \subseteq Markets
        /\ CANONICAL_EVENT_SEQ \in Nat /\ CANONICAL_INITIAL_SEQ > 0
        /\ CANONICAL_EVENT_SEQ # Zero
      BY <1>1 DEF FlowAssumption, ServersMarkets, Zero
  <2> HIDE DEF w, a, x, n
  <2>5. /\ \A m \in Markets : Exists(market[m]) => m = DefaultMarket /\ market[m] = a
        /\ \A o \in Orders : Exists(order[o]) => o = w /\ order[o] = x
      BY <2>3 DEF Exists
  <2>6. OrderTells(x, a) /\ EventTells(a) /\ StaleByEvent(a)
    <3>1. OrderTells(x, a)
      BY <2>1, <2>2, <2>4 DEF OrderTells
    <3>2. EventTells(a) /\ StaleByEvent(a)
      BY <2>2, <2>4 DEF EventTells, StaleByEvent
    <3> QED  BY <3>1, <3>2
  <2>7. OrdersTell
      BY <2>1, <2>3, <2>4, <2>5, <2>6 DEF OrdersTell
  <2>8. MarketsOfFlows
    <3>1. \A m \in ServersMarkets : VoidedForEvents(m)
        BY <2>1, <2>4, <2>5, <2>6 DEF VoidedForEvents
    <3>2. CustomMarket \in Markets
        BY <1>1 DEF FlowAssumption
    <3> QED  BY <2>1, <2>4, <2>5, <3>1, <3>2 DEF MarketsOfFlows
  <2>9. ClosedByDemos
      BY <2>1, <2>2, <2>4, <2>5 DEF ClosedByDemos
  <2> QED  BY <1>2, <2>7, <2>8, <2>9 DEF FlowsInv
<1> QED  BY <1>3, <1>4 DEF ProgramsInit, FirstInit

\* Whatever anyone does, what is known of the flows stays so.
LEMMA FlowsKeep ==
    ASSUME ProgramsAssumption, TradersElsewhere, LegacyInv, FlowTypeOK, FlowsInv, FlowsStep
    PROVE  FlowsInv'
<1>1. OrdersTell'
    BY FlowsStepLasts DEF FlowsInv
<1>2. MarketsOfFlows' /\ ClosedByDemos'
    BY MarketsStayOfFlows, ClosedStayByDemos
<1>3. ASSUME NEW f \in Flows
      PROVE  RequestInv(f)'
  <2>1. RequestKnows(f)' /\ AnsweredAtTheEnd(f)' /\ SeenShows(f)'
      BY KnowingLasts, SeeingLasts
  <2>2. DemoKnows(f)' /\ DemoAnswers(f)'
      BY DemoGoesByPlan, DemoAnswersTruly
  <2>3. ProofStands(f)' /\ EffectShown(f)'
      BY ProofsStand, EffectsAreShown
  <2> QED  BY <2>1, <2>2, <2>3 DEF RequestInv
<1> QED  BY <1>1, <1>2, <1>3 DEF FlowsInv

\* A proof that stands, of an order of the server, tells where the stake went.
LEMMA StandingProofTells ==
    ASSUME ProgramsAssumption, LegacyInv, FlowTypeOK, FlowsInv, NEW f \in Flows,
           Answered(f), HasProof(f), flow[f].proof # Null,
           NEW proof, proof = flow[f].proof, NEW o, o = proof.order
    PROVE  /\ order[o].status \in (IF proof.destination = "REFUNDED_TO_TRADER"
                                   THEN {"VoidedRefunded"} ELSE {"Filled", "Settled"})
           /\ order[o].lamports = 0
           /\ proof.destination = "REFUNDED_TO_TRADER" =>
                 proof.edge > market[o.market].tolerance /\ proof.event > 0
           /\ proof.event <= proof.materialSeq
<1> DEFINE x == order[o]
           a == market[o.market]
<1>1. /\ FlowAssumption /\ LegacyAssumption /\ OrdersTell /\ MarketsOfFlows
      /\ RequestKnows(f) /\ AnsweredAtTheEnd(f) /\ ProofStands(f)
    BY DEF ProgramsAssumption, FlowsInv, RequestInv
<1>2. /\ flow[f].stage = "ok" /\ flow[f].pc > Len(Plan(flow[f].kind)) /\ IsRequest(flow[f])
    BY <1>1 DEF Answered, AnsweredAtTheEnd, FlowTypeOK, Idle
<1>3. /\ o = EvaluatedBy(f) /\ proof.verdict = x.verdict /\ proof.edge = x.edge
      /\ proof.event = x.event /\ proof.event <= proof.materialSeq
      /\ proof.destination = IF x.verdict = "VOIDED_REFUNDED"
                             THEN "REFUNDED_TO_TRADER" ELSE "FINALIZED_TO_VAULT"
    BY <1>1 DEF ProofStands
<1>4. WasEvaluated(o)
    BY <1>1, <1>2, <1>3, ProvenIsEvaluated
<1>5. o \in Orders /\ o.market \in ServersMarkets
    BY <1>1, <1>2, <1>3, FlowNamesAccounts, MarketByKind DEF EvaluatedBy
<1>6. Exists(x) /\ x.status # "Escrowed"
    BY <1>4 DEF WasEvaluated
<1>7. /\ x \in OrderAccount /\ Exists(a) /\ OrderTells(x, a)
      /\ x.lamports = IF x.status = "Escrowed" THEN x.stake ELSE 0
    BY <1>1, <1>5, <1>6, OrderFacts DEF OrdersTell, OrderSound
<1>8. x.status = "VoidedRefunded" => x.event > 0
    BY <1>1, <1>5, <1>6 DEF MarketsOfFlows, VoidedForEvents
<1>9. x.status \in {"Escrowed", "Filled", "VoidedRefunded", "Settled"}
    BY <1>7 DEF OrderAccount
<1> HIDE DEF x, a
<1>10. /\ x.verdict = "VOIDED_REFUNDED" <=> x.status = "VoidedRefunded"
       /\ x.status = "VoidedRefunded" => x.edge > a.tolerance /\ x.event > 0
    BY <1>6, <1>7, <1>8 DEF OrderTells
<1>11. proof.destination = "REFUNDED_TO_TRADER" <=> x.status = "VoidedRefunded"
    BY <1>3, <1>10
<1> QED  BY <1>3, <1>6, <1>7, <1>9, <1>10, <1>11 DEF x, a

\* A settlement demo that is through has settled.
LEMMA ThroughIsSettled ==
    ASSUME ProgramsAssumption, LegacyInv, FlowTypeOK, FlowsInv, NEW f \in Flows,
           Answered(f), flow[f].kind = "full-settlement-demo"
    PROVE  LET proof == flow[f].proof
               m == market[MarketOf(f)]
           IN  /\ proof.protectionRefunded /\ proof.validationConfirmed
               /\ proof.winner = "Settled" /\ proof.loser = "Filled"
               /\ m.resolution = "Yes" /\ proof.resolution = "YES_WON"
               /\ proof.payout = m.total_paid
               /\ m.total_in = 2 * SETTLEMENT_STAKE_LAMPORTS
               /\ PaidOut(MarketOf(f)) = m.total_in
<1> DEFINE a == market[f]
           r == receipt[f]
           x == order[DemoOrder(f, "exploit")]
           y == order[DemoOrder(f, "Yes")]
           z == order[DemoOrder(f, "No")]
           S == SETTLEMENT_STAKE_LAMPORTS
<1>1. /\ FlowAssumption /\ DemoKnows(f) /\ DemoAnswers(f) /\ AnsweredAtTheEnd(f)
    BY DEF ProgramsAssumption, FlowsInv, RequestInv
<1>2. /\ IsKind(f, "full-settlement-demo") /\ flow[f].pc > 16 /\ flow[f].pc \in Nat
      /\ flow[f].stage = "ok"
  <2>1. flow[f].stage = "ok" /\ IsRequest(flow[f])
      BY DEF Answered, FlowTypeOK, Idle
  <2>2. flow[f].pc > Len(Plan("full-settlement-demo")) /\ flow[f].pc \in Nat
      BY <1>1, <2>1 DEF AnsweredAtTheEnd, IsRequest
  <2> QED  BY <2>1, <2>2, DemoSteps DEF IsKind, Came
<1>3. flow[f].proof = DemoProof
    BY <1>1, <1>2 DEF DemoAnswers
<1>4. flow[f].pc <= 17 /\ DemoAt(flow[f].pc, a, r, x, y, z)
    BY <1>1, <1>2 DEF DemoKnows, DemoOf
<1>5. flow[f].pc = 17
    BY <1>2, <1>4
<1>6. MarketOf(f) = f /\ S \in Nat
    BY <1>1 DEF MarketOf, FlowAssumption
<1> HIDE DEF a, r, x, y, z
<1>7. DemoAt(17, a, r, x, y, z)
    BY <1>4, <1>5
<1>8. /\ a.resolution = "Yes" /\ a.total_paid = 2 * S /\ a.total_refunded = 0
      /\ a.total_in = Counted(y) + Counted(z)
      /\ Exists(y) /\ Exists(z) /\ y.status = "Settled" /\ z.status = "Filled"
    BY <1>7 DEF DemoAt
<1>9. Counted(y) = S /\ Counted(z) = S
    BY <1>8 DEF Counted
<1>10. a.total_in = 2 * S /\ PaidOut(f) = 2 * S
    BY <1>6, <1>8, <1>9 DEF PaidOut, a
<1> HIDE DEF S
<1> QED  BY <1>3, <1>6, <1>8, <1>10 DEF DemoProof, a, S

\* What is known of the flows is what makes them sound.
LEMMA KnownFlowsAreSound ==
    ASSUME ProgramsAssumption, LegacyInv, FlowTypeOK, FlowsInv
    PROVE  ServerFlowsAreSound
<1>1. /\ FlowAssumption /\ LegacyAssumption /\ MarketsOfFlows /\ ClosedByDemos
      /\ \A f \in Flows : EffectShown(f)
    BY DEF ProgramsAssumption, FlowsInv, RequestInv
<1>2. NoStakeIsStranded
  <2> SUFFICES ASSUME NEW o \in Orders, Exists(order[o]), o.market \in ServersMarkets,
                      order[o].status = "Escrowed"
               PROVE  ~ market[o.market].trading_closed /\ market[o.market].resolution = "None"
      BY DEF NoStakeIsStranded, Present
  <2>1. Exists(market[o.market])
      BY <1>1, OrderFacts
  <2> QED  BY <1>1, <2>1 DEF ClosedByDemos
<1>3. ProofTellsTheStake
    BY StandingProofTells DEF ProofTellsTheStake
<1>4. AnswerShowsItsEffect
    BY <1>1 DEF AnswerShowsItsEffect, EffectShown
<1>5. CustomMarketIsAsDescribed
  <2> SUFFICES ASSUME NEW f \in Flows, flow[f].stage # "idle",
                      flow[f].kind = "custom-order", Exists(order[OrderOf(f, "place")])
               PROVE  /\ config[CustomMarket].commitment = flow[f].input.commitment
                      /\ market[CustomMarket].tolerance = flow[f].input.tolerance
      BY DEF CustomMarketIsAsDescribed
  <2> DEFINE o == OrderOf(f, "place")
  <2>1. o.market = CustomMarket /\ o.by = f
      BY <1>1 DEF OrderOf, MarketOf, FlowAssumption
  <2>2. IsRequest(flow[f])
      BY DEF FlowTypeOK, Idle
  <2>3. o \in Orders /\ flow[f].input \in CustomInputs
      BY <1>1, <2>2, FlowNamesAccounts, RequestInput DEF IsCustom
  <2> HIDE DEF o
  <2>4. Exists(order[o])
      BY DEF o
  <2>5. config[CustomMarket].commitment = flow[f].input.commitment
      BY <1>1, <2>1, <2>3, <2>4 DEF MarketsOfFlows
  <2>6. Exists(market[CustomMarket])
      BY <1>1, <2>1, <2>3, <2>4, OrderFacts
  <2>7. PICK input \in CustomInputs :
            /\ config[CustomMarket].commitment = input.commitment
            /\ market[CustomMarket].tolerance = input.tolerance
      BY <1>1, <2>6 DEF MarketsOfFlows, DescribedByCaller
  <2>8. input.tolerance = flow[f].input.tolerance
      BY <1>1, <2>3, <2>5, <2>7 DEF FlowAssumption
  <2> QED  BY <2>5, <2>7, <2>8
<1>6. SettlementDemoSettles
    BY ThroughIsSettled DEF SettlementDemoSettles
<1> QED  BY <1>2, <1>3, <1>4, <1>5, <1>6 DEF ServerFlowsAreSound

\* The server's requests, several at once and between passers-by, whose transactions are
\* lost, refused or land unseen at any step: none strands a stake, a proof tells where
\* the stake went, a plain answer shows its effect as far as the accounts could be read
\* for it, a custom order is placed on a market of its caller's definition that guards it
\* with its caller's tolerance, and a settlement demo that says ok has settled.
THEOREM ServerFlowsCorrect ==
    ASSUME ProgramsAssumption, TradersElsewhere
    PROVE  ProgramsSpec => []ServerFlowsAreSound
<1> DEFINE Inv == ProgramsInv /\ FlowsInv
<1>1. ProgramsInit => Inv
    BY ProgramsStart, FlowsStart
<1>2. Inv /\ [ProgramsNext]_programVars => Inv'
  <2> SUFFICES ASSUME Inv, [ProgramsNext]_programVars
               PROVE  Inv'
      OBVIOUS
  <2>1. ProgramsInv'
      BY ProgramsStepKeeps
  <2>2. LegacyInv /\ FlowTypeOK /\ FlowsStep
      BY ProgramsStep DEF ProgramsInv, FlowsStep
  <2>3. FlowsInv'
      BY <2>2, FlowsKeep
  <2> QED  BY <2>1, <2>3
<1>3. Inv => ServerFlowsAreSound
    BY KnownFlowsAreSound DEF ProgramsInv
<1> QED  BY <1>1, <1>2, <1>3, PTL DEF ProgramsSpec
=============================================================================
