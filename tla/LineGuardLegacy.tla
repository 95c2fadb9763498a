-------------------------- MODULE LineGuardLegacy --------------------------
(***************************************************************************)
(* The first generation of the LineGuard program, on which the server's    *)
(* devnet routes still run (programs/lineguard/src/lib.rs, lines 79-918).  *)
(*                                                                         *)
(* A market is priced, goes stale when a material event arrives and is in  *)
(* sync again when it is repriced.  An order's stake waits in the order's  *)
(* own account until anyone evaluates it: back to the trader, or into the  *)
(* one vault that all markets share.  A result is submitted as a draft,    *)
(* confirmed, and consumed; winners then share their market's pool.        *)
(*                                                                         *)
(* One action is one instruction, in a transaction that either runs as a   *)
(* whole or not at all.  Account keys are the keys of the functions below; *)
(* rent is left out, so lamports count stakes only.  A commitment stands   *)
(* for the hashes of a config account.                                     *)
(***************************************************************************)
EXTENDS LineGuardCommon

CONSTANTS
    Markets,         \* market accounts' addresses
    Orders,          \* order accounts' addresses, [market |-> m, ...]
    Users,           \* who signs
    Commitments,
    MaxTime,         \* bound of the clock
    MAX_SCORE

Prices == 0 .. MICROS_ONE
Zero == 0            \* an unset hash, and the time 0

VARIABLES
    market, config, receipt, order, vault,
    spent,           \* what each user paid in, less what came back
    now

legacyVars == <<market, config, receipt, order, vault, spent, now>>

LegacyInit ==
    /\ market = [m \in Markets |-> NoAccount]
    /\ config = [m \in Markets |-> NoAccount]
    /\ receipt = [m \in Markets |-> NoAccount]
    /\ order = [o \in Orders |-> NoAccount]
    /\ vault = NoAccount
    /\ spent = [u \in Users |-> 0]
    /\ now = 0

IsStale(m) == market[m].material_seq > market[m].priced_at_seq

\* ResolutionRule.derive, the one rule there is.
Derive(home, away) ==
    IF home > away THEN "Yes" ELSE IF home < away THEN "No" ELSE "Void"

Tick ==
    /\ now < MaxTime
    /\ now' = now + 1
    /\ UNCHANGED <<market, config, receipt, order, vault, spent>>

-----------------------------------------------------------------------------
(* Markets and their config.                                               *)

\* The sequences are the opener's, whichever is ahead: nothing compares them, and a
\* market may be stale from the start, or priced at events that are yet to come.
NewMarket(authority, terms) ==
    [ authority |-> authority,
      fixture_id |-> terms.fixture,
      material_seq |-> terms.material,
      priced_at_seq |-> terms.priced,
      status |-> IF terms.material > terms.priced THEN "Stale" ELSE "Trading",
      displayed |-> terms.displayed,
      fair |-> terms.fair,
      tolerance |-> terms.tolerance,
      source_event |-> Zero,
      pool |-> [s \in Sides |-> 0],
      total_in |-> 0, total_paid |-> 0, total_refunded |-> 0,
      trading_closed |-> FALSE,
      close_time |-> terms.close_time,
      resolution |-> "None",
      result |-> NoAccount ]

CanInitializeMarket(m, terms) ==
    /\ ~ Exists(market[m])
    /\ {terms.displayed, terms.fair, terms.tolerance} \subseteq Prices

\* initialize_market, for which no close time is set.
InitializeMarket(m, authority, terms) ==
    /\ CanInitializeMarket(m, terms)
    /\ market' = [market EXCEPT ![m] =
                     NewMarket(authority, [terms EXCEPT !.close_time = Zero,
                                                        !.fixture = Zero])]
    /\ UNCHANGED <<config, receipt, order, vault, spent, now>>

CanInitializeMarketConfig(m, terms) ==
    /\ ~ Exists(market[m]) /\ ~ Exists(config[m])
    /\ terms.displayed \in 1 .. MICROS_ONE - 1
    /\ terms.fair \in 1 .. MICROS_ONE - 1
    /\ terms.tolerance \in Prices

InitializeMarketConfig(m, authority, terms) ==
    /\ CanInitializeMarketConfig(m, terms)
    /\ market' = [market EXCEPT ![m] = NewMarket(authority, terms)]
    /\ config' = [config EXCEPT ![m] = [authority |-> authority,
                                        commitment |-> terms.commitment]]
    /\ UNCHANGED <<receipt, order, vault, spent, now>>

CanAttachMarketConfig(m, authority) ==
    /\ Exists(market[m]) /\ ~ Exists(config[m])
    /\ market[m].authority = authority

AttachMarketConfig(m, authority, terms) ==
    /\ CanAttachMarketConfig(m, authority)
    /\ config' = [config EXCEPT ![m] = [authority |-> authority,
                                        commitment |-> terms.commitment]]
    /\ UNCHANGED <<market, receipt, order, vault, spent, now>>

CanInitializeVault == ~ Exists(vault)

InitializeVault ==
    /\ CanInitializeVault
    /\ vault' = [total_finalized |-> 0, fill_count |-> 0, lamports |-> 0]
    /\ UNCHANGED <<market, config, receipt, order, spent, now>>

-----------------------------------------------------------------------------
(* Events and prices.                                                      *)

CanIngest(m, authority, seq, fair) ==
    /\ Exists(market[m])
    /\ market[m].authority = authority
    /\ fair \in 1 .. MICROS_ONE - 1
    /\ seq >= market[m].material_seq

\* The hash of an event is its sequence: the server derives it from that.
IngestMaterialEvent(m, authority, seq, fair) ==
    /\ CanIngest(m, authority, seq, fair)
    /\ market' = [market EXCEPT
                     ![m].material_seq = seq, ![m].fair = fair,
                     ![m].source_event = seq,
                     ![m].status = IF seq > market[m].priced_at_seq THEN "Stale"
                                   ELSE @]
    /\ UNCHANGED <<config, receipt, order, vault, spent, now>>

CanReprice(m, authority, displayed) ==
    /\ Exists(market[m])
    /\ market[m].authority = authority
    /\ displayed \in Prices

RepriceMarket(m, authority, displayed) ==
    /\ CanReprice(m, authority, displayed)
    /\ market' = [market EXCEPT ![m].displayed = displayed,
                                ![m].priced_at_seq = market[m].material_seq,
                                ![m].status = "Trading"]
    /\ UNCHANGED <<config, receipt, order, vault, spent, now>>

-----------------------------------------------------------------------------
(* Orders.                                                                 *)

\* Neither a closed nor a resolved market refuses an order.
CanPlace(o, stake) ==
    /\ Exists(market[o.market]) /\ ~ Exists(order[o])
    /\ stake > 0

PlaceOrder(o, trader, side, stake) ==
    /\ CanPlace(o, stake)
    /\ order' = [order EXCEPT ![o] =
                    [ trader |-> trader, side |-> side, stake |-> stake,
                      observed |-> SidePrice(side, market[o.market].displayed),
                      edge |-> 0, status |-> "Escrowed", verdict |-> "ALLOWED",
                      event |-> Zero, lamports |-> stake ]]
    /\ spent' = [spent EXCEPT ![trader] = @ + stake]
    /\ UNCHANGED <<market, config, receipt, vault, now>>

CanEvaluate(o) ==
    /\ Exists(order[o]) /\ Exists(config[o.market]) /\ Exists(vault)
    /\ config[o.market].authority = market[o.market].authority
    /\ order[o].status = "Escrowed"
    /\ ~ market[o.market].trading_closed
    /\ market[o.market].resolution = "None"

EdgeOf(o) ==
    SidePrice(order[o].side, market[o.market].fair) - order[o].observed

GuardVerdict(o) ==
    IF ~ IsStale(o.market) THEN "ALLOWED"
    ELSE IF EdgeOf(o) > market[o.market].tolerance THEN "VOIDED_REFUNDED"
    ELSE "STALE_ALLOWED_NO_EDGE"

\* What evaluation writes into the order, and the stake that leaves it.
EvaluatedOrder(o, status) ==
    [order[o] EXCEPT !.edge = EdgeOf(o), !.verdict = GuardVerdict(o),
                     !.status = status, !.lamports = @ - order[o].stake,
                     !.event = market[o.market].source_event]

\* Slip: the market's own totals are not kept, only the vault's.
FillUncounted(o) ==
    /\ order' = [order EXCEPT ![o] = EvaluatedOrder(o, "Filled")]
    /\ vault' = [vault EXCEPT !.lamports = @ + order[o].stake,
                              !.total_finalized = @ + order[o].stake,
                              !.fill_count = @ + 1]
    /\ market' = [market EXCEPT
                     ![o.market].pool[order[o].side] = @ + order[o].stake]
    /\ UNCHANGED spent

Fill(o) ==
    /\ order' = [order EXCEPT ![o] = EvaluatedOrder(o, "Filled")]
    /\ vault' = [vault EXCEPT !.lamports = @ + order[o].stake,
                              !.total_finalized = @ + order[o].stake,
                              !.fill_count = @ + 1]
    /\ market' = [market EXCEPT
                     ![o.market].pool[order[o].side] = @ + order[o].stake,
                     ![o.market].total_in = @ + order[o].stake]
    /\ UNCHANGED spent

VoidAndRefund(o) ==
    /\ order' = [order EXCEPT ![o] = EvaluatedOrder(o, "VoidedRefunded")]
    /\ spent' = [spent EXCEPT ![order[o].trader] = @ - order[o].stake]
    /\ UNCHANGED <<vault, market>>

\* Anyone may call it.
EvaluateOrder(o) ==
    /\ CanEvaluate(o)
    /\ IF GuardVerdict(o) = "VOIDED_REFUNDED" THEN VoidAndRefund(o) ELSE Fill(o)
    /\ UNCHANGED <<config, receipt, now>>

-----------------------------------------------------------------------------
(* Closing and the result.                                                 *)

CanClose(m, closer) ==
    /\ Exists(market[m])
    /\ market[m].resolution = "None"
    /\ \/ closer = market[m].authority
       \/ market[m].close_time # Zero /\ now >= market[m].close_time

CloseMarket(m, closer) ==
    /\ CanClose(m, closer)
    /\ market' = [market EXCEPT ![m].trading_closed = TRUE]
    /\ UNCHANGED <<config, receipt, order, vault, spent, now>>

\* Open to submit_txline_validation and confirm_validation.
AwaitsResult(m, authority) ==
    /\ Exists(market[m]) /\ Exists(config[m])
    /\ market[m].authority = authority
    /\ config[m].authority = authority
    /\ market[m].trading_closed
    /\ market[m].resolution = "None"

\* Slip: a draft is replaced even when it was confirmed.
CanSubmitAgain(m, authority, fixture, home, away) ==
    /\ AwaitsResult(m, authority)
    /\ fixture = market[m].fixture_id
    /\ home \in 0 .. MAX_SCORE /\ away \in 0 .. MAX_SCORE

CanSubmit(m, authority, fixture, home, away) ==
    /\ AwaitsResult(m, authority)
    /\ fixture = market[m].fixture_id
    /\ home \in 0 .. MAX_SCORE /\ away \in 0 .. MAX_SCORE
    /\ Exists(receipt[m]) => ~ receipt[m].confirmed

\* A draft replaces the one before it.
SubmitTxlineValidation(m, authority, fixture, home, away) ==
    /\ CanSubmit(m, authority, fixture, home, away)
    /\ receipt' = [receipt EXCEPT ![m] =
                      [home |-> home, away |-> away, confirmed |-> FALSE]]
    /\ UNCHANGED <<market, config, order, vault, spent, now>>

CanConfirm(m, authority) ==
    /\ AwaitsResult(m, authority)
    /\ Exists(receipt[m]) /\ ~ receipt[m].confirmed

ConfirmValidation(m, authority) ==
    /\ CanConfirm(m, authority)
    /\ receipt' = [receipt EXCEPT ![m].confirmed = TRUE]
    /\ UNCHANGED <<market, config, order, vault, spent, now>>

CanResolve(m, authority) ==
    /\ AwaitsResult(m, authority)
    /\ Exists(receipt[m]) /\ receipt[m].confirmed

\* A winning side without stakes is void.
OutcomeOf(m) ==
    LET derived == Derive(receipt[m].home, receipt[m].away)
    IN  IF derived = "Void" THEN "Void"
        ELSE IF market[m].pool[derived] = 0 THEN "Void" ELSE derived

ResolveMarketFromTxline(m, authority) ==
    /\ CanResolve(m, authority)
    /\ market' = [market EXCEPT ![m].resolution = OutcomeOf(m),
                                ![m].trading_closed = TRUE,
                                ![m].result = [home |-> receipt[m].home,
                                               away |-> receipt[m].away]]
    /\ UNCHANGED <<config, receipt, order, vault, spent, now>>

CanEmergencyVoid(m, authority) ==
    /\ Exists(market[m])
    /\ market[m].authority = authority
    /\ market[m].resolution = "None"

EmergencyVoidMarket(m, authority) ==
    /\ CanEmergencyVoid(m, authority)
    /\ market' = [market EXCEPT ![m].resolution = "Void",
                                ![m].trading_closed = TRUE]
    /\ UNCHANGED <<config, receipt, order, vault, spent, now>>

-----------------------------------------------------------------------------
(* Settlement.                                                             *)

PaidOut(m) == market[m].total_paid + market[m].total_refunded

\* Out of the vault to the order's trader, and the order is done.
PayTrader(o, amount) ==
    /\ vault' = [vault EXCEPT !.lamports = @ - amount]
    /\ spent' = [spent EXCEPT ![order[o].trader] = @ - amount]
    /\ order' = [order EXCEPT ![o].status = "Settled"]

\* A filled order of a market with that resolution.
FilledAndResolved(o, resolutions) ==
    /\ Exists(order[o])
    /\ market[o.market].resolution \in resolutions
    /\ order[o].status = "Filled"

Covered(o, amount) ==
    /\ PaidOut(o.market) + amount <= market[o.market].total_in
    /\ vault.lamports >= amount

CanRefundVoided(o) ==
    /\ FilledAndResolved(o, {"Void"})
    /\ Covered(o, order[o].stake)

RefundVoidedOrder(o) ==
    /\ CanRefundVoided(o)
    /\ PayTrader(o, order[o].stake)
    /\ market' = [market EXCEPT ![o.market].total_refunded = @ + order[o].stake]
    /\ UNCHANGED <<config, receipt, now>>

Won(o) == order[o].side = market[o.market].resolution

\* Slip: the quotient is rounded up.
PayoutRoundedUp(o) ==
    LET pool == market[o.market].pool
        winning == pool[market[o.market].resolution]
    IN  (order[o].stake * (pool["Yes"] + pool["No"]) + winning - 1) \div winning

Payout(o) ==
    LET pool == market[o.market].pool
    IN  (order[o].stake * (pool["Yes"] + pool["No"]))
            \div pool[market[o.market].resolution]

CanSettle(o) ==
    /\ FilledAndResolved(o, Sides)
    /\ Won(o)
    /\ Covered(o, Payout(o))

SettleOrder(o) ==
    /\ CanSettle(o)
    /\ PayTrader(o, Payout(o))
    /\ market' = [market EXCEPT ![o.market].total_paid = @ + Payout(o)]
    /\ UNCHANGED <<config, receipt, now>>

-----------------------------------------------------------------------------
(* A transaction, as the server and the traders send it: an instruction    *)
(* with its signer and arguments.                                          *)

Accepts(tx) ==
    CASE tx.ix = "initialize_market" -> CanInitializeMarket(tx.market, tx.terms)
      [] tx.ix = "initialize_market_config" ->
            CanInitializeMarketConfig(tx.market, tx.terms)
      [] tx.ix = "attach_market_config" ->
            CanAttachMarketConfig(tx.market, tx.signer)
      [] tx.ix = "initialize_vault" -> CanInitializeVault
      [] tx.ix = "ingest_material_event" ->
            CanIngest(tx.market, tx.signer, tx.seq, tx.price)
      [] tx.ix = "reprice_market" -> CanReprice(tx.market, tx.signer, tx.price)
      [] tx.ix = "place_order" -> CanPlace(tx.order, tx.stake)
      [] tx.ix = "evaluate_order" -> CanEvaluate(tx.order)
      [] tx.ix = "close_market" -> CanClose(tx.market, tx.signer)
      [] tx.ix = "submit_txline_validation" ->
            CanSubmit(tx.market, tx.signer, tx.fixture, tx.home, tx.away)
      [] tx.ix = "confirm_validation" -> CanConfirm(tx.market, tx.signer)
      [] tx.ix = "resolve_market_from_txline" -> CanResolve(tx.market, tx.signer)
      [] tx.ix = "emergency_void_market" ->
            CanEmergencyVoid(tx.market, tx.signer)
      [] tx.ix = "refund_voided_order" -> CanRefundVoided(tx.order)
      [] tx.ix = "settle_order" -> CanSettle(tx.order)

Execute(tx) ==
    \/ /\ tx.ix = "initialize_market"
       /\ InitializeMarket(tx.market, tx.signer, tx.terms)
    \/ /\ tx.ix = "initialize_market_config"
       /\ InitializeMarketConfig(tx.market, tx.signer, tx.terms)
    \/ /\ tx.ix = "attach_market_config"
       /\ AttachMarketConfig(tx.market, tx.signer, tx.terms)
    \/ tx.ix = "initialize_vault" /\ InitializeVault
    \/ /\ tx.ix = "ingest_material_event"
       /\ IngestMaterialEvent(tx.market, tx.signer, tx.seq, tx.price)
    \/ /\ tx.ix = "reprice_market"
       /\ RepriceMarket(tx.market, tx.signer, tx.price)
    \/ /\ tx.ix = "place_order"
       /\ PlaceOrder(tx.order, tx.signer, tx.side, tx.stake)
    \/ tx.ix = "evaluate_order" /\ EvaluateOrder(tx.order)
    \/ tx.ix = "close_market" /\ CloseMarket(tx.market, tx.signer)
    \/ /\ tx.ix = "submit_txline_validation"
       /\ SubmitTxlineValidation(tx.market, tx.signer, tx.fixture, tx.home,
                                 tx.away)
    \/ tx.ix = "confirm_validation" /\ ConfirmValidation(tx.market, tx.signer)
    \/ /\ tx.ix = "resolve_market_from_txline"
       /\ ResolveMarketFromTxline(tx.market, tx.signer)
    \/ /\ tx.ix = "emergency_void_market"
       /\ EmergencyVoidMarket(tx.market, tx.signer)
    \/ tx.ix = "refund_voided_order" /\ RefundVoidedOrder(tx.order)
    \/ tx.ix = "settle_order" /\ SettleOrder(tx.order)

-----------------------------------------------------------------------------
(* The accounts, and what the instructions are given.                      *)

MarketAccount ==
    [ authority : Users, fixture_id : Int, material_seq : Nat, priced_at_seq : Nat,
      status : {"Trading", "Stale"},
      displayed : Prices, fair : Prices, tolerance : Prices, source_event : Nat,
      pool : [Sides -> Nat], total_in : Nat, total_paid : Nat, total_refunded : Nat,
      trading_closed : BOOLEAN, close_time : Int,
      resolution : Sides \cup {"None", "Void"},
      result : [home : 0 .. MAX_SCORE, away : 0 .. MAX_SCORE] \cup {NoAccount} ]

ConfigAccount == [authority : Users, commitment : Commitments]

ReceiptAccount == [home : 0 .. MAX_SCORE, away : 0 .. MAX_SCORE, confirmed : BOOLEAN]

OrderAccount ==
    [ trader : Users, side : Sides, stake : Nat \ {0}, observed : Prices, edge : Int,
      status : {"Escrowed", "Filled", "VoidedRefunded", "Settled"},
      verdict : {"ALLOWED", "VOIDED_REFUNDED", "STALE_ALLOWED_NO_EDGE"},
      event : Nat, lamports : Nat ]

VaultAccount == [total_finalized : Nat, fill_count : Nat, lamports : Nat]

ByMarketInstructions ==
    { "initialize_market", "initialize_market_config", "attach_market_config",
      "ingest_material_event", "reprice_market", "close_market",
      "submit_txline_validation", "confirm_validation", "resolve_market_from_txline",
      "emergency_void_market" }

ByOrderInstructions ==
    {"place_order", "evaluate_order", "refund_voided_order", "settle_order"}

\* What a market is opened with, as the program's argument types have it.
MarketTerms ==
    [ fixture : Int, material : Nat, priced : Nat, displayed : Nat, fair : Nat,
      tolerance : Nat, close_time : Int, commitment : Commitments ]

\* A transaction that names accounts of the system, is signed by one of the users and
\* has arguments of the program's types; whether the program takes it is another
\* matter.
TypedTransaction(tx) ==
    /\ tx.ix \in ByMarketInstructions => tx.market \in Markets /\ tx.signer \in Users
    /\ tx.ix \in ByOrderInstructions => tx.order \in Orders
    /\ tx.ix \in {"initialize_market", "initialize_market_config",
                  "attach_market_config"} => tx.terms \in MarketTerms
    /\ tx.ix = "ingest_material_event" => tx.seq \in Nat
    /\ tx.ix = "place_order" =>
          tx.signer \in Users /\ tx.side \in Sides /\ tx.stake \in Nat

\* Finitely many of each; an order's address names its market; an account that exists
\* is not the missing one.
LegacyAssumption ==
    /\ IsFiniteSet(Markets) /\ IsFiniteSet(Orders) /\ IsFiniteSet(Users)
    /\ \A o \in Orders : o.market \in Markets
    /\ MICROS_ONE \in Nat /\ MaxTime \in Nat /\ MAX_SCORE \in Nat
    /\ NoAccount \notin MarketAccount /\ NoAccount \notin ConfigAccount
    /\ NoAccount \notin ReceiptAccount /\ NoAccount \notin OrderAccount
    /\ NoAccount \notin VaultAccount

-----------------------------------------------------------------------------
(* Properties.                                                             *)

\* The accounts keep the types of lib.rs, whoever sent what, and a market's status,
\* which only some instructions write, says what evaluate_order will make of its
\* sequences: stale just when an event is ahead of the price.
LegacyTypeOK ==
    /\ market \in [Markets -> MarketAccount \cup {NoAccount}]
    /\ config \in [Markets -> ConfigAccount \cup {NoAccount}]
    /\ receipt \in [Markets -> ReceiptAccount \cup {NoAccount}]
    /\ order \in [Orders -> OrderAccount \cup {NoAccount}]
    /\ vault \in VaultAccount \cup {NoAccount}
    /\ spent \in [Users -> Int]
    /\ now \in 0 .. MaxTime
    /\ \A m \in Markets :
          Exists(market[m]) =>
              (market[m].status = "Stale" <=> IsStale(m))

Present == {o \in Orders : Exists(order[o])}

\* One vault holds the stakes of every market, and each market only spends its
\* own: what the vault has is, market by market, what came in and was not paid
\* out, and with the escrowed stakes it is what the users are out of pocket.
EveryMarketIsCovered ==
    /\ Exists(vault) =>
          vault.lamports =
              MapThenSumSet(LAMBDA m : market[m].total_in - PaidOut(m),
                            {m \in Markets : Exists(market[m])})
    /\ MapThenSumSet(LAMBDA u : spent[u], Users) =
           (IF Exists(vault) THEN vault.lamports ELSE 0)
             + MapThenSumSet(LAMBDA o : order[o].lamports, Present)
    /\ \A m \in Markets : Exists(market[m]) => PaidOut(m) <= market[m].total_in

\* No settlement is refused for want of money: once a market is resolved, every
\* filled order that won, or that a void leaves to be refunded, is covered, in
\* whatever order the claims come and however their quotients are floored.
ClaimsAreCovered ==
    \A o \in Present :
        /\ FilledAndResolved(o, {"Void"}) => CanRefundVoided(o)
        /\ FilledAndResolved(o, Sides) /\ Won(o) => CanSettle(o)

\* A market is resolved by the score that was confirmed for it, a confirmed score
\* stays as it is, and a resolution and what orders got under it are final.
ResultIsFinal ==
    [][\A m \in Markets :
          /\ (Exists(receipt[m]) /\ receipt[m].confirmed) => receipt'[m] = receipt[m]
          /\ (Exists(market[m]) /\ market[m].resolution # "None") =>
                /\ market'[m].resolution = market[m].resolution
                /\ market'[m].pool = market[m].pool
          /\ (Exists(market'[m]) /\ market'[m].resolution \in Sides) =>
                /\ Derive(receipt'[m].home, receipt'[m].away) = market'[m].resolution
                /\ receipt'[m].confirmed]_legacyVars
=============================================================================
