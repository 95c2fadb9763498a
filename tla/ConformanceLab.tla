--------------------------- MODULE ConformanceLab ---------------------------
(***************************************************************************)
(* The integration kit: submitProtectedOrder (lib/integration-kit) sends   *)
(* an order to api/integration-kit/reference-order, which decides it by    *)
(* the rule of the vault program, and the lab of the page "integrate"      *)
(* (lab-view.ts, IntegrationKitDemo.tsx) lets a visitor run five vectors   *)
(* against it.  Operators send orders of their own.                        *)
(*                                                                         *)
(* A run is one request; the visitor may select another vector before its  *)
(* answer is there, and the request or its answer may be lost.             *)
(***************************************************************************)
EXTENDS QuoteGuard

CONSTANTS
    Null,
    PreOdds, PostOdds,       \* the recorded odds before and after the goal
    PreSequence, PostSequence,  \* of the goal: 738, 739
    Spread, Stake,
    OperatorInputs(_, _),    \* what operators send, of the two recorded quotes
    MaxU64

Money == INSTANCE VaultAccounting

VARIABLES
    lab,             \* LabState: the vector that is selected and the outcome shown
    labRun,          \* the request that is under way, or Null
    shownRun,        \* history: the run whose outcome is shown, or Null
    operatorOrder    \* an operator's request with its outcome, or Null

labVars == <<lab, labRun, shownRun, operatorOrder>>

LabCases == {"stale", "synchronized", "malformed", "expired", "future"}

\* LAB_CASES, their "expected".
Expected ==
    [ stale |-> "STALE_SEQUENCE_RETURNED", synchronized |-> "ACCEPTED",
      malformed |-> "INVALID_INPUT", expired |-> "QUOTE_EXPIRED",
      future |-> "FUTURE_SEQUENCE" ]

\* lib/quote-guard/canonical.ts
PreQuote == CreateQuoteGuardCommitment(PreOdds, 1, PreSequence, Spread, DefaultMaxAge)
PostQuote == CreateQuoteGuardCommitment(PostOdds, 2, PostSequence, Spread, DefaultMaxAge)

\* inputForCase
InputForCase(id) ==
    LET post == [ marketId |-> "v4", side |-> "YES", stake |-> Stake, quote |-> PostQuote,
                  latest |-> PostSequence,
                  submittedAt |-> PostQuote.commitment.sourceTimestamp + 1 ]
    IN  CASE id = "stale" ->
                [post EXCEPT !.quote = PreQuote,
                    !.submittedAt = PreQuote.commitment.sourceTimestamp
                                        + DefaultMaxAge - 1]
          [] id = "synchronized" -> post
          [] id = "malformed" -> [post EXCEPT !.marketId = "", !.stake = 0]
          [] id = "expired" ->
                [post EXCEPT !.submittedAt = PostQuote.commitment.expiresAt + 1]
          [] id = "future" -> [post EXCEPT !.latest = PreSequence]

-----------------------------------------------------------------------------
(* The reference: evaluateReferenceProtectedOrder.                         *)

Outcome(status, returned, liability) ==
    [status |-> status, returned |-> returned, liability |-> liability]
Rejected(code) == Outcome(code, 0, 0)

Canonical(input) ==
    CASE input.quote.commitment.quoteSequence = 1 -> PreOdds
      [] input.quote.commitment.quoteSequence = 2 -> PostOdds
      [] OTHER -> Null

\* Slip: the expiry is compared with the odds' own time.
ExpiredAtSource(input) == input.submittedAt < input.quote.commitment.sourceTimestamp

Expired(input) == input.submittedAt > input.quote.commitment.expiresAt

EvaluateReferenceProtectedOrder(input) ==
    LET c == input.quote.commitment
        odds == Canonical(input)
        price == c[input.side]
    IN  IF input.marketId = "" \/ input.stake <= 0 THEN Rejected("INVALID_INPUT")
        ELSE IF odds = Null THEN Rejected("QUOTE_UNVERIFIED")
        ELSE IF ~ VerifyQuoteGuard(input.quote, odds, HashTxlineOdds(odds))
             THEN Rejected("QUOTE_UNVERIFIED")
        ELSE IF Expired(input) THEN Rejected("QUOTE_EXPIRED")
        ELSE IF c.materialEventSequence > input.latest THEN Rejected("FUTURE_SEQUENCE")
        ELSE IF c.materialEventSequence < input.latest
             THEN Outcome("STALE_SEQUENCE_RETURNED", input.stake, 0)
        ELSE IF price \notin 1 .. MICROS_ONE - 1 THEN Rejected("INVALID_INPUT")
        ELSE Outcome("ACCEPTED", 0, (input.stake * MICROS_ONE) \div price - input.stake)

\* submitProtectedOrder: what the client refuses never leaves it.
RefusedByClient(input) ==
    input.marketId = "" \/ input.side \notin {"YES", "NO"} \/ input.stake <= 0

OutcomesOf(input) ==
    IF RefusedByClient(input) THEN {Rejected("INVALID_INPUT")}
    ELSE {EvaluateReferenceProtectedOrder(input), Rejected("TRANSPORT_ERROR")}

-----------------------------------------------------------------------------
(* The lab.                                                                *)

LabInit ==
    /\ lab = [selected |-> "stale", outcome |-> Null]
    /\ labRun = Null /\ shownRun = Null /\ operatorOrder = Null

\* selectCase: the buttons stay enabled while a run is under way.
SelectCase(id) ==
    /\ lab' = [selected |-> id, outcome |-> Null]
    /\ labRun' = IF labRun = Null THEN Null ELSE [labRun EXCEPT !.reselected = TRUE]
    /\ shownRun' = Null
    /\ UNCHANGED operatorOrder

\* run: the button is disabled until the answer is there; an outcome stays meanwhile.
RunVector ==
    /\ labRun = Null
    /\ labRun' = [vector |-> lab.selected, input |-> InputForCase(lab.selected),
                  reselected |-> FALSE]
    /\ UNCHANGED <<lab, shownRun, operatorOrder>>

\* completeRun: the outcome is put under whichever vector is selected now.
CompleteRun ==
    /\ labRun # Null
    /\ \E outcome \in OutcomesOf(labRun.input) : lab' = [lab EXCEPT !.outcome = outcome]
    /\ labRun' = Null
    /\ shownRun' = [vector |-> labRun.vector, reselected |-> labRun.reselected]
    /\ UNCHANGED operatorOrder

\* labView's "matchesExpected".
MatchesExpected == lab.outcome.status = Expected[lab.selected]

\* An operator's order and its outcome.
OperatorSubmits ==
    /\ \E input \in OperatorInputs(PreQuote, PostQuote) :
          \E outcome \in OutcomesOf(input) :
              operatorOrder' = [input |-> input, outcome |-> outcome]
    /\ UNCHANGED <<lab, labRun, shownRun>>

LabNext ==
    \/ \E id \in LabCases : SelectCase(id)
    \/ RunVector \/ CompleteRun \/ OperatorSubmits

-----------------------------------------------------------------------------
(* Properties.                                                             *)

LabTypeOK ==
    /\ lab.selected \in LabCases
    /\ labRun # Null => labRun.vector \in LabCases /\ labRun.reselected \in BOOLEAN

\* An outcome that is shown is that of one run; as long as the visitor selected nothing
\* while it was under way, it is a run of the vector that is selected, and a run that
\* got through did what its vector promises.
LabShowsItsRun ==
    lab.outcome # Null =>
        /\ shownRun # Null
        /\ lab.outcome \in OutcomesOf(InputForCase(shownRun.vector))
        /\ ~ shownRun.reselected =>
              /\ shownRun.vector = lab.selected
              /\ lab.outcome.status # "TRANSPORT_ERROR" => MatchesExpected

\* An order is accepted only at prices that the vault program derives from the recorded
\* odds, with the sequence of its event, and its liability is the program's; a stale
\* one gets back all it put in.
KitDecidesAsTheVault ==
    operatorOrder # Null =>
        LET input == operatorOrder.input
            outcome == operatorOrder.outcome
            c == input.quote.commitment
            odds == Canonical(input).prices
            price == IF input.side = "YES" THEN Money!YesPrice(odds, c.spread)
                     ELSE Money!NoPrice(odds, c.spread)
        IN  /\ outcome.status = "ACCEPTED" =>
                  /\ c.materialEventSequence = input.latest
                  /\ c[input.side] = price
                  /\ outcome.returned = 0
                  /\ outcome.liability = Money!GrossPayout(input.stake, price) - input.stake
            /\ outcome.status = "STALE_SEQUENCE_RETURNED" =>
                  /\ c.materialEventSequence < input.latest
                  /\ outcome.returned = input.stake /\ outcome.liability = 0
=============================================================================
