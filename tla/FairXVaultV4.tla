---------------------------- MODULE FairXVaultV4 ----------------------------
(***************************************************************************)
(* The FairX V4 program (programs/fairx_vault_v4): one binary market on a  *)
(* replayed fixture, priced by a verified TxLINE quote, with an operator   *)
(* vault that reserves the whole liability of every order it accepts.      *)
(*                                                                         *)
(* An action is one instruction: Solana runs an instruction atomically and *)
(* an instruction that fails leaves no trace, so a failed require! or a    *)
(* failed checked operation is an action that is not enabled.  What is     *)
(* concurrent is the order in which the instructions of the operator, the  *)
(* feed, the pricing key, three resolvers, the traders and strangers land. *)
(* An instruction's arguments were signed earlier, against a state that    *)
(* may have changed since: they range over everything a signer could have  *)
(* seen.                                                                   *)
(***************************************************************************)
EXTENDS VaultAccounting, FiniteSets

CONSTANTS
    Keys,             \* public keys that may be named in the authority config
    DefaultKey,       \* Pubkey::default()
    CandidateConfigs, \* authority configs the admin may submit
    StakeBounds,      \* <<min, max>> stake pairs the operator may submit
    Traders,          \* keys that place orders
    Operator,         \* the operator's lamport account
    Stranger,         \* any other lamport account
    InitialFunds,     \* lamports each account starts with
    Amounts,          \* amounts the operator and the stranger move
    OrderArgs,        \* argument records of place_fixed_payout_order
    MaxOrders,        \* bound of the number of orders placed
    PayloadVariants,  \* contents of the odds fields that no check pins
    GenuineVariants,  \* those for which TxLINE's merkle proof verifies
    RecordedPrices,   \* raw odds triples of the two recorded quotes
    SPREAD_MICROS,    \* CANONICAL_SPREAD_MICROS
    FinalStats,       \* final scores TxLINE may attest
    MaxTime,          \* bound of the clock
    VoidEligibleAt,   \* hard_stop_unix_seconds + oracle_grace_seconds
    AccountingBound,  \* bound of the operator's and the stranger's moves
    NoAccount         \* an account that does not exist

CANONICAL_INITIAL_EVENT_SEQUENCE == 738
CANONICAL_GOAL_SEQUENCE == 739
CANONICAL_FINAL_SEQUENCE == 1114
RESOLUTION_THRESHOLD == 2

\* Millisecond timestamps, counted from just before the first quote.
CANONICAL_PRE_GOAL_QUOTE_TIMESTAMP == 1
CANONICAL_GOAL_TIMESTAMP == 109018
CANONICAL_POST_GOAL_QUOTE_TIMESTAMP == 109222

MaterialSequences ==
    {CANONICAL_INITIAL_EVENT_SEQUENCE, CANONICAL_GOAL_SEQUENCE}
QuoteSequences == {1, 2}
Nonces == 0 .. MaxOrders - 1
ResolverIndex == 1 .. 3
StatKeys == {1001, 1002, 3001, 3002}
Lamporters == Traders \cup {Operator, Stranger}

\* TxLINE odds: which recorded message its pinned fields equal, and the rest.
Odds == [recorded : QuoteSequences, variant : PayloadVariants]
ZeroHash == [recorded |-> 0, variant |-> 0]

AuthorityConfigs ==
    [ operator : Keys,
      feed_authority : Keys,
      pricing_authority : Keys,
      resolution_authorities : [ResolverIndex -> Keys] ]

Args ==
    [ side : Sides,
      stake : U64,
      quote_sequence : {0} \cup QuoteSequences,
      payload_hash : Odds \cup {ZeroHash},
      price : 0 .. MICROS_ONE,
      material_event_sequence : MaterialSequences,
      order_nonce : Nonces,
      expiry : 0 .. MaxTime ]

ASSUME FairXAssumption ==
    /\ MaxOrders \in Nat
    /\ CandidateConfigs \subseteq AuthorityConfigs
    /\ StakeBounds \subseteq U64 \X U64
    /\ OrderArgs \subseteq Args
    /\ Amounts \subseteq Nat
    /\ InitialFunds \in [Lamporters -> Nat]
    /\ Operator \notin Traders
    /\ Stranger \notin Traders
    /\ Operator # Stranger
    /\ GenuineVariants \subseteq PayloadVariants
    /\ RecordedPrices \in [QuoteSequences -> Nat \X Nat \X Nat]
    /\ SPREAD_MICROS \in Nat
    /\ FinalStats \subseteq [StatKeys -> 0 .. 99]
    /\ MaxTime \in Nat
    /\ VoidEligibleAt \in Nat
    /\ AccountingBound \in Nat

VARIABLES
    initialized,         \* which of the accounts "market" and "vault" exist
    authority_config,
    market,              \* MarketV4, the fixture's life cycle
    quote,               \* MarketV4, the fields named quote_*
    quote_receipts,      \* TxlineQuoteValidationReceiptV4, by quote sequence
    vault, ledger, counters, stake_bounds,  \* LiquidityVaultV4
    positions,           \* FixedPayoutPositionV4, by order nonce
    resolution_receipt,  \* TxlineResolutionReceiptV4
    resolution_proposal, \* ResolutionProposalV4
    spendable,           \* the vault's lamports above its rent minimum
    wallet,              \* every other lamport account
    now                  \* the cluster's clock, as slot and as unix time

marketVars == <<authority_config, market, quote, quote_receipts>>
vaultVars == <<vault, ledger, counters, stake_bounds, spendable, wallet>>
resolutionVars == <<resolution_receipt, resolution_proposal>>
vars == <<initialized, marketVars, vaultVars, positions, resolutionVars, now>>

Position ==
    [ owner : Traders,
      side : Sides,
      stake : U64,
      price : 0 .. MICROS_ONE,
      gross_payout : U64,
      reserved_liability : U64,
      quote_sequence : {0} \cup QuoteSequences,
      payload_hash : Odds \cup {ZeroHash},
      material_event_sequence : MaterialSequences,
      status : {"Accepted", "Refunded", "Claimed", "Lost", "Voided"},
      claimed : U64 ]

QuoteReceipt ==
    [ payload_hash : Odds,
      yes_price : 0 .. MICROS_ONE,
      no_price : 0 .. MICROS_ONE,
      currently_executable : BOOLEAN ]

ResolutionReceipt ==
    [ home_regulation_score : 0 .. 198,
      away_regulation_score : 0 .. 198,
      derived_outcome : {"Yes", "No"} ]

ResolutionProposal ==
    [ validation_receipt : {"resolution-proof", "default"},
      derived_outcome : {"Yes", "No", "Void"},
      approvals_mask : SUBSET ResolverIndex,
      executed : BOOLEAN ]

Market ==
    [ latest_material_event_sequence : MaterialSequences,
      latest_material_event_ts : {0, CANONICAL_GOAL_TIMESTAMP},
      trading_closed : BOOLEAN,
      resolved : BOOLEAN,
      resolution : {"Unresolved", "Yes", "No", "Void"},
      resolved_at : 0 .. MaxTime,
      final_sequence : {0, CANONICAL_FINAL_SEQUENCE} ]

Quote ==
    [ sequence : {0} \cup QuoteSequences,
      material_event_sequence : {0} \cup MaterialSequences,
      payload_hash : Odds \cup {ZeroHash},
      yes_price : 0 .. MICROS_ONE,
      no_price : 0 .. MICROS_ONE,
      verified : BOOLEAN ]

\* An account that does not exist is none that does.
ASSUME NoAccountAssumption ==
    /\ NoAccount \notin Position
    /\ NoAccount \notin QuoteReceipt
    /\ NoAccount \notin ResolutionReceipt
    /\ NoAccount \notin ResolutionProposal

\* The type of every account.
TypeOK ==
    /\ initialized \subseteq {"market", "vault"}
    /\ authority_config \in AuthorityConfigs \cup {NoAccount}
    /\ market \in Market
    /\ quote \in Quote
    /\ quote_receipts \in [QuoteSequences -> QuoteReceipt \cup {NoAccount}]
    /\ vault \in Vault
    /\ ledger \in Ledger
    /\ counters \in Counters
    /\ stake_bounds \in U64 \X U64
    /\ positions \in [Nonces -> Position \cup {NoAccount}]
    /\ resolution_receipt \in ResolutionReceipt \cup {NoAccount}
    /\ resolution_proposal \in ResolutionProposal \cup {NoAccount}
    /\ spendable \in U64
    /\ wallet \in [Lamporters -> Nat]
    /\ now \in 0 .. MaxTime

Init ==
    /\ initialized = {}
    /\ authority_config = NoAccount
    /\ market = [ latest_material_event_sequence |-> CANONICAL_INITIAL_EVENT_SEQUENCE,
                  latest_material_event_ts |-> 0,
                  trading_closed |-> FALSE,
                  resolved |-> FALSE,
                  resolution |-> "Unresolved",
                  resolved_at |-> 0,
                  final_sequence |-> 0 ]
    /\ quote = [ sequence |-> 0,
                 material_event_sequence |-> 0,
                 payload_hash |-> ZeroHash,
                 yes_price |-> 0,
                 no_price |-> 0,
                 verified |-> FALSE ]
    /\ quote_receipts = [q \in QuoteSequences |-> NoAccount]
    /\ vault = EmptyVault
    /\ ledger = EmptyLedger
    /\ counters = [position_count |-> 0, next_order_nonce |-> 0, accounting_sequence |-> 0]
    /\ stake_bounds = <<0, 0>>
    /\ positions = [n \in Nonces |-> NoAccount]
    /\ resolution_receipt = NoAccount
    /\ resolution_proposal = NoAccount
    /\ spendable = 0
    /\ wallet = InitialFunds
    /\ now = 0
-----------------------------------------------------------------------------
(***************************************************************************)
(* Lamports in and out of the vault account.                               *)
(***************************************************************************)
\* system_program::transfer of an account's lamports into the vault.
TransferIn(from, amount) ==
    /\ wallet[from] >= amount
    /\ spendable + amount \in U64
    /\ wallet' = [wallet EXCEPT ![from] = @ - amount]
    /\ spendable' = spendable + amount

\* move_lamports from the vault to an account.
MoveOut(to, amount) ==
    /\ spendable >= amount
    /\ wallet' = [wallet EXCEPT ![to] = @ + amount]
    /\ spendable' = spendable - amount

NoLamportsMove == UNCHANGED <<spendable, wallet>>

\* The end of every money-moving instruction: the sequence is bumped, every
\* checked operation has succeeded and assert_vault_invariant holds.
SettleAccounts(newVault, newLedger, newCounters) ==
    /\ vault' = newVault
    /\ ledger' = newLedger
    /\ counters' = [newCounters EXCEPT !.accounting_sequence = @ + 1]
    /\ vault' \in Vault
    /\ ledger' \in Ledger
    /\ counters' \in Counters
    /\ VaultInvariant(vault', spendable')
    /\ UNCHANGED stake_bounds

\* Any account may send lamports to the vault's address.
SendLamports(from, amount) ==
    /\ "vault" \in initialized
    /\ counters.accounting_sequence < AccountingBound
    /\ amount > 0
    /\ TransferIn(from, amount)
    /\ UNCHANGED <<initialized, marketVars, vault, ledger, counters, stake_bounds,
                   positions, resolutionVars, now>>

Tick ==
    /\ now < MaxTime
    /\ now' = now + 1
    /\ UNCHANGED <<initialized, marketVars, vaultVars, positions, resolutionVars>>

-----------------------------------------------------------------------------
(***************************************************************************)
(* Authorities and set-up.                                                 *)
(***************************************************************************)
\* Slip: only the resolvers are compared with each other.
ValidResolvers(c) ==
    LET resolvers == {c.resolution_authorities[i] : i \in ResolverIndex}
    IN  DefaultKey \notin resolvers /\ Cardinality(resolvers) = 3

\* validate_authorities: six different keys, none of them the default.
ValidAuthorities(c) ==
    LET resolvers == {c.resolution_authorities[i] : i \in ResolverIndex}
        keys == {c.operator, c.feed_authority, c.pricing_authority} \cup resolvers
    IN  /\ DefaultKey \notin keys
        /\ Cardinality(keys) = 6

\* resolution_authority_index, as the relation between an index and a signer.
IsResolver(i, signer) ==
    /\ authority_config.resolution_authorities[i] = signer
    /\ \A j \in ResolverIndex :
          authority_config.resolution_authorities[j] = signer => i <= j

InitializeMarket(config) ==
    /\ "market" \notin initialized
    /\ ValidAuthorities(config)
    /\ initialized' = initialized \cup {"market"}
    /\ authority_config' = config
    /\ UNCHANGED <<market, quote, quote_receipts, vaultVars, positions, resolutionVars, now>>

InitializeLiquidityVault(bounds) ==
    /\ "market" \in initialized
    /\ "vault" \notin initialized
    /\ bounds[1] > 0
    /\ bounds[2] >= bounds[1]
    /\ initialized' = initialized \cup {"vault"}
    /\ stake_bounds' = bounds
    /\ UNCHANGED <<marketVars, vault, ledger, counters, spendable, wallet,
                   positions, resolutionVars, now>>

-----------------------------------------------------------------------------
(***************************************************************************)
(* The operator's liquidity.                                               *)
(***************************************************************************)
\* Slip: wrapping_add for checked_add in the total.
DepositLiquidityWrapping(amount) ==
    /\ "vault" \in initialized
    /\ counters.accounting_sequence < AccountingBound
    /\ amount > 0
    /\ TransferIn(Operator, amount)
    /\ SettleAccounts([vault EXCEPT !.free_collateral = @ + amount],
                      [ledger EXCEPT !.operator_deposits = (@ + amount) % (MaxU64 + 1)],
                      counters)
    /\ UNCHANGED <<initialized, marketVars, positions, resolutionVars, now>>

DepositLiquidity(amount) ==
    /\ "vault" \in initialized
    /\ counters.accounting_sequence < AccountingBound
    /\ amount > 0
    /\ TransferIn(Operator, amount)
    /\ SettleAccounts([vault EXCEPT !.free_collateral = @ + amount],
                      [ledger EXCEPT !.operator_deposits = @ + amount],
                      counters)
    /\ UNCHANGED <<initialized, marketVars, positions, resolutionVars, now>>

\* Anyone may turn lamports the vault does not account for into collateral.
ReconcileVaultSurplus ==
    /\ "vault" \in initialized
    /\ counters.accounting_sequence < AccountingBound
    /\ spendable >= AccountedAssets(vault)
    /\ NoLamportsMove
    /\ SettleAccounts(
          [vault EXCEPT !.free_collateral = @ + (spendable - AccountedAssets(vault))],
          ledger, counters)
    /\ UNCHANGED <<initialized, marketVars, positions, resolutionVars, now>>

WithdrawFreeLiquidity(amount) ==
    /\ "vault" \in initialized
    /\ counters.accounting_sequence < AccountingBound
    /\ amount > 0
    /\ amount <= vault.free_collateral
    /\ MoveOut(Operator, amount)
    /\ SettleAccounts([vault EXCEPT !.free_collateral = @ - amount],
                      [ledger EXCEPT !.operator_withdrawals = @ + amount],
                      counters)
    /\ UNCHANGED <<initialized, marketVars, positions, resolutionVars, now>>

-----------------------------------------------------------------------------
(***************************************************************************)
(* Quotes and material events.                                             *)
(***************************************************************************)
\* validate_canonical_quote: the one recorded quote of each material epoch,
\* which after the goal must also be newer than the goal.
CanonicalQuote(sequence, material, event_ts, odds) ==
    \/ /\ material = CANONICAL_INITIAL_EVENT_SEQUENCE
       /\ sequence = 1
       /\ odds.recorded = 1
    \/ /\ material = CANONICAL_GOAL_SEQUENCE
       /\ sequence = 2
       /\ odds.recorded = 2
       /\ CANONICAL_POST_GOAL_QUOTE_TIMESTAMP > event_ts

\* Slip: a proposal does not close trading.
TradingOpenUntilResolved == ~market.resolved

TradingOpen == ~market.resolved /\ ~market.trading_closed

CommitTxlineQuote(signer, sequence, material, odds) ==
    /\ "market" \in initialized
    /\ signer = authority_config.pricing_authority
    /\ TradingOpen
    /\ sequence > quote.sequence
    /\ material = market.latest_material_event_sequence
    /\ CanonicalQuote(sequence, material, market.latest_material_event_ts, odds)
    /\ QuotePricesOk(RecordedPrices[odds.recorded], SPREAD_MICROS)
    /\ quote' = [ sequence |-> sequence,
                  material_event_sequence |-> material,
                  payload_hash |-> odds,
                  yes_price |-> YesPrice(RecordedPrices[odds.recorded], SPREAD_MICROS),
                  no_price |-> NoPrice(RecordedPrices[odds.recorded], SPREAD_MICROS),
                  verified |-> FALSE ]
    /\ UNCHANGED <<initialized, authority_config, market, quote_receipts, vaultVars,
                   positions, resolutionVars, now>>

\* The TxLINE program's answer to validateOdds.
TxlineValidatesOdds(odds) == odds.variant \in GenuineVariants

\* Slip: a quote is executable whatever happened since it was committed.
VerifyTxlineQuoteForAnyEpoch(odds) ==
    /\ "market" \in initialized
    /\ CanonicalQuote(quote.sequence, quote.material_event_sequence,
                      market.latest_material_event_ts, odds)
    /\ odds = quote.payload_hash
    /\ TxlineValidatesOdds(odds)
    /\ quote_receipts[quote.sequence] = NoAccount
    /\ quote_receipts' =
          [quote_receipts EXCEPT ![quote.sequence] =
              [ payload_hash |-> odds,
                yes_price |-> quote.yes_price,
                no_price |-> quote.no_price,
                currently_executable |-> TRUE ]]
    /\ quote' = [quote EXCEPT !.verified = TRUE]
    /\ UNCHANGED <<initialized, authority_config, market, vaultVars,
                   positions, resolutionVars, now>>

\* Anyone may verify the latest quote, before or after trading has closed.
VerifyTxlineQuote(odds) ==
    LET current == quote.material_event_sequence = market.latest_material_event_sequence
    IN  /\ "market" \in initialized
        /\ CanonicalQuote(quote.sequence, quote.material_event_sequence,
                          market.latest_material_event_ts, odds)
        /\ odds = quote.payload_hash
        /\ TxlineValidatesOdds(odds)
        /\ quote_receipts[quote.sequence] = NoAccount
        /\ quote_receipts' =
              [quote_receipts EXCEPT ![quote.sequence] =
                  [ payload_hash |-> odds,
                    yes_price |-> quote.yes_price,
                    no_price |-> quote.no_price,
                    currently_executable |-> current ]]
        /\ quote' = [quote EXCEPT !.verified = current]
        /\ UNCHANGED <<initialized, authority_config, market, vaultVars,
                       positions, resolutionVars, now>>

\* The feed reports the goal: whatever quote was verified no longer is.
IngestMaterialEvent(signer, sequence) ==
    /\ "market" \in initialized
    /\ signer = authority_config.feed_authority
    /\ sequence > market.latest_material_event_sequence
    /\ sequence = CANONICAL_GOAL_SEQUENCE
    /\ market' = [market EXCEPT
                     !.latest_material_event_sequence = sequence,
                     !.latest_material_event_ts = CANONICAL_GOAL_TIMESTAMP]
    /\ quote' = [quote EXCEPT !.verified = FALSE]
    /\ UNCHANGED <<initialized, authority_config, quote_receipts, vaultVars,
                   positions, resolutionVars, now>>
-----------------------------------------------------------------------------
(***************************************************************************)
(* Orders.                                                                 *)
(***************************************************************************)
\* The requires before the stake moves.  The account's address contains the
\* nonce, which is handed out once.
OrderAdmitted(args) ==
    /\ "vault" \in initialized
    /\ TradingOpen
    /\ args.stake >= stake_bounds[1]
    /\ args.stake <= stake_bounds[2]
    /\ now <= args.expiry
    /\ args.material_event_sequence <= market.latest_material_event_sequence
    /\ args.order_nonce = counters.next_order_nonce
    /\ args.order_nonce \in Nonces

\* The stake is pending from the transfer until the order is decided.
StakePends(args) == vault.pending_refundable_stake + args.stake \in U64

\* Slip: position_count is not increased.
CountNonceOnly == [counters EXCEPT !.next_order_nonce = @ + 1]

CountOrder ==
    [counters EXCEPT !.position_count = @ + 1, !.next_order_nonce = @ + 1]

ExecutionPrice(side) == IF side = "Yes" THEN quote.yes_price ELSE quote.no_price

NewPosition(trader, args) ==
    [ owner |-> trader,
      side |-> args.side,
      stake |-> args.stake,
      price |-> 0,
      gross_payout |-> 0,
      reserved_liability |-> 0,
      quote_sequence |-> args.quote_sequence,
      payload_hash |-> args.payload_hash,
      material_event_sequence |-> args.material_event_sequence,
      status |-> "Refunded",
      claimed |-> 0 ]

\* Slip: the order's event is compared with the market's first one.
OvertakenBeforeKickOff(args) ==
    args.material_event_sequence < CANONICAL_INITIAL_EVENT_SEQUENCE

\* A material event has landed since the trader signed.
Overtaken(args) ==
    args.material_event_sequence < market.latest_material_event_sequence

\* Slip: the refund is booked and not transferred.
RefundStaleOrderKeepingStake(trader, args) ==
    /\ Overtaken(args)
    /\ TransferIn(trader, args.stake)
    /\ positions' = [positions EXCEPT ![args.order_nonce] = NewPosition(trader, args)]
    /\ SettleAccounts(vault,
                      [ledger EXCEPT !.user_stakes = @ + args.stake,
                                     !.refunds = @ + args.stake],
                      CountOrder)

\* The stake of an overtaken order goes back where it came from.
RefundStaleOrder(trader, args) ==
    /\ Overtaken(args)
    /\ wallet[trader] >= args.stake
    /\ spendable + args.stake \in U64
    /\ NoLamportsMove
    /\ positions' = [positions EXCEPT ![args.order_nonce] = NewPosition(trader, args)]
    /\ SettleAccounts(vault,
                      [ledger EXCEPT !.user_stakes = @ + args.stake,
                                     !.refunds = @ + args.stake],
                      CountOrder)

\* Slip: the verified flag is not looked at.
UnverifiedQuoteExecutable(args) ==
    /\ quote.material_event_sequence = market.latest_material_event_sequence
    /\ args.quote_sequence = quote.sequence
    /\ args.payload_hash = quote.payload_hash
    /\ args.price = ExecutionPrice(args.side)

\* The market's quote is current, verified, and the one the trader signed.
QuoteExecutable(args) ==
    /\ quote.material_event_sequence = market.latest_material_event_sequence
    /\ quote.verified
    /\ args.quote_sequence = quote.sequence
    /\ args.payload_hash = quote.payload_hash
    /\ args.price = ExecutionPrice(args.side)

\* The order executes at that quote, fully reserved.
AcceptOrder(trader, args) ==
    LET price == ExecutionPrice(args.side)
        gross == GrossPayout(args.stake, price)
        liability == gross - args.stake
    IN  /\ ~Overtaken(args)
        /\ QuoteExecutable(args)
        /\ GrossPayoutOk(args.stake, price)
        /\ vault.free_collateral >= liability
        /\ TransferIn(trader, args.stake)
        /\ positions' = [positions EXCEPT ![args.order_nonce] =
                            [NewPosition(trader, args) EXCEPT
                                !.price = price,
                                !.gross_payout = gross,
                                !.reserved_liability = liability,
                                !.status = "Accepted"]]
        /\ SettleAccounts(ApplyAccept(vault, args.side, args.stake, liability),
                          [ledger EXCEPT !.user_stakes = @ + args.stake],
                          CountOrder)

PlaceFixedPayoutOrder(trader, args) ==
    /\ OrderAdmitted(args)
    /\ StakePends(args)
    /\ RefundStaleOrder(trader, args) \/ AcceptOrder(trader, args)
    /\ UNCHANGED <<initialized, marketVars, resolutionVars, now>>

-----------------------------------------------------------------------------
(***************************************************************************)
(* Resolution by proof, and the void path.  Both create the same proposal  *)
(* account, so whichever is proposed first excludes the other for good.    *)
(***************************************************************************)
\* regulation_score: the goals of both halves, by participant.
HomeScore(stats) == stats[1001] + stats[3001]

\* Slip: the second half is subtracted.
AwayFirstHalf(stats) == stats[1002] - stats[3002]

AwayScore(stats) == stats[1002] + stats[3002]

\* The binary market asks whether the home side wins: a draw resolves to No.
DerivedOutcome(stats) == IF HomeScore(stats) > AwayScore(stats) THEN "Yes" ELSE "No"

ProveResolutionWithTxline(signer, stats) ==
    /\ "market" \in initialized
    /\ ~market.resolved
    /\ stats \in FinalStats
    /\ resolution_receipt = NoAccount
    /\ resolution_proposal = NoAccount
    /\ \E i \in ResolverIndex :
          /\ IsResolver(i, signer)
          /\ resolution_proposal' =
                [ validation_receipt |-> "resolution-proof",
                  derived_outcome |-> DerivedOutcome(stats),
                  approvals_mask |-> {i},
                  executed |-> FALSE ]
    /\ resolution_receipt' =
          [ home_regulation_score |-> HomeScore(stats),
            away_regulation_score |-> AwayScore(stats),
            derived_outcome |-> DerivedOutcome(stats) ]
    /\ market' = [market EXCEPT !.trading_closed = TRUE]
    /\ UNCHANGED <<initialized, authority_config, quote, quote_receipts, vaultVars,
                   positions, now>>

ProposeVoid(signer) ==
    /\ "market" \in initialized
    /\ ~market.resolved
    /\ resolution_receipt = NoAccount
    /\ now >= VoidEligibleAt
    /\ resolution_proposal = NoAccount
    /\ \E i \in ResolverIndex :
          /\ IsResolver(i, signer)
          /\ resolution_proposal' =
                [ validation_receipt |-> "default",
                  derived_outcome |-> "Void",
                  approvals_mask |-> {i},
                  executed |-> FALSE ]
    /\ market' = [market EXCEPT !.trading_closed = TRUE]
    /\ UNCHANGED <<initialized, authority_config, quote, quote_receipts, vaultVars,
                   positions, resolution_receipt, now>>

ApproveResolution(signer) ==
    /\ resolution_proposal # NoAccount
    /\ ~resolution_proposal.executed
    /\ \E i \in ResolverIndex :
          /\ IsResolver(i, signer)
          /\ i \notin resolution_proposal.approvals_mask
          /\ resolution_proposal' =
                [resolution_proposal EXCEPT !.approvals_mask = @ \cup {i}]
    /\ UNCHANGED <<initialized, marketVars, vaultVars, positions, resolution_receipt, now>>

ThresholdMet ==
    Cardinality(resolution_proposal.approvals_mask) >= RESOLUTION_THRESHOLD

\* Anyone may execute a proposal that has reached the threshold.
ExecuteResolution ==
    /\ resolution_proposal # NoAccount
    /\ resolution_receipt # NoAccount
    /\ resolution_proposal.validation_receipt = "resolution-proof"
    /\ ~market.resolved
    /\ ~resolution_proposal.executed
    /\ ThresholdMet
    /\ resolution_proposal.derived_outcome = resolution_receipt.derived_outcome
    /\ resolution_proposal.derived_outcome # "Void"
    /\ market' = [market EXCEPT
                     !.resolved = TRUE,
                     !.trading_closed = TRUE,
                     !.resolution = resolution_receipt.derived_outcome,
                     !.resolved_at = now,
                     !.final_sequence = CANONICAL_FINAL_SEQUENCE]
    /\ resolution_proposal' = [resolution_proposal EXCEPT !.executed = TRUE]
    /\ UNCHANGED <<initialized, authority_config, quote, quote_receipts, vaultVars,
                   positions, resolution_receipt, now>>

ExecuteVoid ==
    /\ resolution_proposal # NoAccount
    /\ ~market.resolved
    /\ ~resolution_proposal.executed
    /\ resolution_proposal.derived_outcome = "Void"
    /\ ThresholdMet
    /\ market' = [market EXCEPT
                     !.resolved = TRUE,
                     !.trading_closed = TRUE,
                     !.resolution = "Void",
                     !.resolved_at = now,
                     !.final_sequence = 0]
    /\ resolution_proposal' = [resolution_proposal EXCEPT !.executed = TRUE]
    /\ UNCHANGED <<initialized, authority_config, quote, quote_receipts, vaultVars,
                   positions, resolution_receipt, now>>

-----------------------------------------------------------------------------
(***************************************************************************)
(* Settlement of one position.                                             *)
(***************************************************************************)
IsAccepted(n) == positions[n] # NoAccount /\ positions[n].status = "Accepted"

\* position_won
PositionWon(n) == positions[n].side = market.resolution

\* The position takes its terminal status and records what it was paid.
Terminate(n, status, paid) ==
    positions' = [positions EXCEPT ![n].status = status, ![n].claimed = paid]

ClaimFixedPayout(trader, n) ==
    LET p == positions[n]
    IN  /\ market.resolved
        /\ market.resolution # "Void"
        /\ IsAccepted(n)
        /\ p.owner = trader
        /\ PositionWon(n)
        /\ p.gross_payout = p.stake + p.reserved_liability
        /\ MoveOut(trader, p.gross_payout)
        /\ Terminate(n, "Claimed", p.gross_payout)
        /\ SettleAccounts(ApplyClaim(vault, p.side, p.stake, p.reserved_liability),
                          [ledger EXCEPT !.payouts = @ + p.gross_payout],
                          counters)
        /\ UNCHANGED <<initialized, marketVars, resolutionVars, now>>

\* Slip: the refund does not require the market to be void.
ClaimRefund(trader, n) ==
    LET p == positions[n]
    IN  /\ market.resolved
        /\ IsAccepted(n)
        /\ p.owner = trader
        /\ MoveOut(trader, p.stake)
        /\ Terminate(n, "Voided", p.stake)
        /\ SettleAccounts(ApplyVoidRefund(vault, p.side, p.stake, p.reserved_liability),
                          [ledger EXCEPT !.refunds = @ + p.stake],
                          counters)
        /\ UNCHANGED <<initialized, marketVars, resolutionVars, now>>

ClaimVoidRefund(trader, n) ==
    LET p == positions[n]
    IN  /\ market.resolved
        /\ market.resolution = "Void"
        /\ IsAccepted(n)
        /\ p.owner = trader
        /\ MoveOut(trader, p.stake)
        /\ Terminate(n, "Voided", p.stake)
        /\ SettleAccounts(ApplyVoidRefund(vault, p.side, p.stake, p.reserved_liability),
                          [ledger EXCEPT !.refunds = @ + p.stake],
                          counters)
        /\ UNCHANGED <<initialized, marketVars, resolutionVars, now>>

\* Anyone may release a losing position's collateral to the operator.
ReconcilePosition(n) ==
    LET p == positions[n]
    IN  /\ market.resolved
        /\ market.resolution # "Void"
        /\ IsAccepted(n)
        /\ ~PositionWon(n)
        /\ NoLamportsMove
        /\ Terminate(n, "Lost", 0)
        /\ SettleAccounts(ApplyReconcileLoss(vault, p.side, p.stake, p.reserved_liability),
                          [ledger EXCEPT !.losing_stakes = @ + p.stake],
                          counters)
        /\ UNCHANGED <<initialized, marketVars, resolutionVars, now>>

\* The owner gets the rent of a terminal position back; no lamport of the
\* vault moves and the accounting sequence stays.
CloseFixedPayoutPosition(trader, n) ==
    /\ positions[n] # NoAccount
    /\ positions[n].owner = trader
    /\ positions[n].status \in {"Refunded", "Claimed", "Lost", "Voided"}
    /\ positions' = [positions EXCEPT ![n] = NoAccount]
    /\ counters' = [counters EXCEPT !.position_count = @ - 1]
    /\ counters' \in Counters
    /\ UNCHANGED <<initialized, marketVars, vault, ledger, stake_bounds, spendable,
                   wallet, resolutionVars, now>>

-----------------------------------------------------------------------------
SetUp ==
    \/ \E config \in CandidateConfigs : InitializeMarket(config)
    \/ \E bounds \in StakeBounds : InitializeLiquidityVault(bounds)

Liquidity ==
    \/ \E amount \in Amounts : DepositLiquidity(amount)
    \/ ReconcileVaultSurplus
    \/ \E amount \in Amounts : WithdrawFreeLiquidity(amount)
    \/ \E amount \in Amounts : SendLamports(Stranger, amount)

Pricing ==
    \/ \E signer \in Keys, q \in QuoteSequences, m \in MaterialSequences, odds \in Odds :
          CommitTxlineQuote(signer, q, m, odds)
    \/ \E odds \in Odds : VerifyTxlineQuote(odds)
    \/ \E signer \in Keys, s \in MaterialSequences : IngestMaterialEvent(signer, s)

Trading ==
    \E trader \in Traders, args \in OrderArgs : PlaceFixedPayoutOrder(trader, args)

Resolution ==
    \/ \E signer \in Keys, stats \in FinalStats : ProveResolutionWithTxline(signer, stats)
    \/ \E signer \in Keys : ProposeVoid(signer)
    \/ \E signer \in Keys : ApproveResolution(signer)
    \/ ExecuteResolution
    \/ ExecuteVoid

Settlement ==
    \/ \E trader \in Traders, n \in Nonces :
          \/ ClaimFixedPayout(trader, n)
          \/ ClaimVoidRefund(trader, n)
          \/ CloseFixedPayoutPosition(trader, n)
    \/ \E n \in Nonces : ReconcilePosition(n)

Next == SetUp \/ Liquidity \/ Pricing \/ Trading \/ Resolution \/ Settlement \/ Tick

Spec == Init /\ [][Next]_vars

(***************************************************************************)
(* Nobody has to trade, propose or close, and the program has no scheduler *)
(* of its own.  Fairness is assumed only of what somebody has an interest  *)
(* in doing: a resolver approves a pending proposal, an owner claims what  *)
(* is owed; and of the instructions that anyone at all may send.           *)
(***************************************************************************)
Fairness ==
    /\ \A signer \in Keys : WF_vars(ApproveResolution(signer))
    /\ WF_vars(ExecuteResolution)
    /\ WF_vars(ExecuteVoid)
    /\ \A trader \in Traders, n \in Nonces :
          /\ WF_vars(ClaimFixedPayout(trader, n))
          /\ WF_vars(ClaimVoidRefund(trader, n))
    /\ \A n \in Nonces : WF_vars(ReconcilePosition(n))

FairSpec == Spec /\ Fairness

-----------------------------------------------------------------------------
(***************************************************************************)
(* Invariants.                                                             *)
(***************************************************************************)
\* The lifetime totals explain every lamport above the rent minimum: what the
\* operator, the traders and strangers put in, less what instructions paid
\* out.  Each total is written by different instructions and none of them
\* reads the balance.
LedgerExplainsBalance ==
    spendable = ledger.operator_deposits - ledger.operator_withdrawals
                  + ledger.user_stakes - ledger.refunds - ledger.payouts
                  + (InitialFunds[Stranger] - wallet[Stranger])

\* A quote that orders may execute at belongs to the latest material event
\* and TxLINE attested exactly its payload and prices: commit, verify and
\* ingest land in any order and only a verify that comes last may enable it.
VerifiedQuoteHasEvidence ==
    quote.verified =>
        /\ quote.material_event_sequence = market.latest_material_event_sequence
        /\ quote.sequence \in QuoteSequences
        /\ LET receipt == quote_receipts[quote.sequence]
           IN  /\ receipt # NoAccount
               /\ receipt.payload_hash = quote.payload_hash
               /\ receipt.yes_price = quote.yes_price
               /\ receipt.no_price = quote.no_price
               /\ receipt.currently_executable

\* Every filled position can be audited from the accounts alone: the receipt
\* of the quote it names shows its price, was executable when verified, and
\* belongs to the epoch the trader signed; and its payout is its stake plus
\* exactly the liability reserved for it.
FilledAtAttestedTerms ==
    \A n \in Nonces :
        positions[n] # NoAccount /\ positions[n].status # "Refunded" =>
            LET p == positions[n]
                receipt == quote_receipts[p.quote_sequence]
            IN  /\ receipt # NoAccount
                /\ receipt.currently_executable
                /\ receipt.payload_hash = p.payload_hash
                /\ p.price = IF p.side = "Yes" THEN receipt.yes_price ELSE receipt.no_price
                /\ p.quote_sequence = 1 <=>
                      p.material_event_sequence = CANONICAL_INITIAL_EVENT_SEQUENCE
                /\ p.gross_payout = GrossPayout(p.stake, p.price)
                /\ p.gross_payout = p.stake + p.reserved_liability
                /\ p.gross_payout > p.stake

\* The keys whose approvals the proposal carries.
Approvers ==
    {authority_config.resolution_authorities[i] : i \in resolution_proposal.approvals_mask}

\* A resolved market was resolved by at least two different resolver keys,
\* none of which trades on, feeds or prices the market, and the result is
\* what they approved: a win or a loss only as the attested score says, a
\* void only where no score was ever attested and the oracle's grace is over.
ResolutionIsAuthorised ==
    market.resolved =>
        /\ resolution_proposal # NoAccount
        /\ resolution_proposal.executed
        /\ market.resolution = resolution_proposal.derived_outcome
        /\ Cardinality(Approvers) >= RESOLUTION_THRESHOLD
        /\ {authority_config.operator, authority_config.feed_authority,
            authority_config.pricing_authority} \cap Approvers = {}
        /\ IF resolution_receipt = NoAccount
           THEN market.resolution = "Void" /\ now >= VoidEligibleAt
           ELSE market.resolution =
                    IF resolution_receipt.home_regulation_score
                         > resolution_receipt.away_regulation_score
                    THEN "Yes" ELSE "No"

\* Position accounts are counted exactly, and an order nonce that was not
\* handed out yet names no account.
PositionsAreCounted ==
    /\ Cardinality({n \in Nonces : positions[n] # NoAccount}) = counters.position_count
    /\ \A n \in Nonces : n >= counters.next_order_nonce => positions[n] = NoAccount

(***************************************************************************)
(* What settling position n leaves behind, under the market's resolution.  *)
(***************************************************************************)
SettledVault(n) ==
    LET p == positions[n]
    IN  IF market.resolution = "Void"
        THEN ApplyVoidRefund(vault, p.side, p.stake, p.reserved_liability)
        ELSE IF PositionWon(n)
        THEN ApplyClaim(vault, p.side, p.stake, p.reserved_liability)
        ELSE ApplyReconcileLoss(vault, p.side, p.stake, p.reserved_liability)

SettledPayment(n) ==
    LET p == positions[n]
    IN  IF market.resolution = "Void" THEN p.stake
        ELSE IF PositionWon(n) THEN p.gross_payout ELSE 0

\* Once the market is resolved, the settlement of an accepted position can
\* never revert for lack of money: no checked operation on the vault's money
\* underflows or overflows, the lamports are there, and the closing
\* assertions hold, whatever was deposited, withdrawn, filled, refunded,
\* settled, closed or sent to the vault before.  (The lifetime totals and the
\* accounting sequence could in principle run into u64::MAX; this property is
\* about the money.)
SettlementNeverBlocked ==
    market.resolved =>
        \A n \in Nonces : IsAccepted(n) =>
            /\ SettledVault(n) \in Vault
            /\ spendable >= SettledPayment(n)
            /\ VaultInvariant(SettledVault(n), spendable - SettledPayment(n))

-----------------------------------------------------------------------------
(***************************************************************************)
(* Action properties.                                                      *)
(***************************************************************************)
Fills(n) == ~IsAccepted(n) /\ IsAccepted(n)'

\* An order fills only at the price recorded for the market's current epoch,
\* and only if its trader had seen that epoch: however late it lands, an order
\* signed before the goal never fills after it.
NoFillAcrossTheGoal ==
    [][\A n \in Nonces : Fills(n) =>
          LET p == positions'[n]
              epoch == IF market.latest_material_event_sequence
                              = CANONICAL_INITIAL_EVENT_SEQUENCE THEN 1 ELSE 2
          IN  /\ p.material_event_sequence = market.latest_material_event_sequence
              /\ quote_receipts[epoch] # NoAccount
              /\ p.price = IF p.side = "Yes"
                           THEN YesPrice(RecordedPrices[epoch], SPREAD_MICROS)
                           ELSE NoPrice(RecordedPrices[epoch], SPREAD_MICROS)]_vars

\* A trader's lamports leave their account only as the stake of a position
\* that is accepted in the same instruction: an order that came too late, or
\* that the vault cannot reserve for, costs its trader nothing.
OnlyFillsCost ==
    [][\A t \in Traders : wallet'[t] < wallet[t] =>
          \E n \in Nonces : /\ Fills(n)
                            /\ positions'[n].owner = t
                            /\ positions'[n].stake = wallet[t] - wallet'[t]]_vars

\* A position that leaves Accepted does so once the market is resolved, its
\* owner receives in that step exactly what the outcome owes, and its terms
\* are the ones it was filled at.
SettlementPaysTheTerms ==
    [][\A n \in Nonces : IsAccepted(n) /\ ~IsAccepted(n)' =>
          LET p == positions[n]
              q == positions'[n]
          IN  /\ market.resolved
              /\ q # NoAccount
              /\ wallet'[p.owner] = wallet[p.owner] + SettledPayment(n)
              /\ q = [p EXCEPT !.status = q.status, !.claimed = SettledPayment(n)]
              /\ q.status = IF market.resolution = "Void" THEN "Voided"
                            ELSE IF PositionWon(n) THEN "Claimed" ELSE "Lost"]_vars

\* What is final stays final: the resolution and the accounts behind it (the
\* feed may still record the goal), a terminal position until its account is
\* closed, a closed account and a used nonce for good.
FinalityHolds ==
    [][/\ market.resolved =>
             /\ UNCHANGED resolutionVars
             /\ market' = [market EXCEPT
                    !.latest_material_event_sequence =
                        market'.latest_material_event_sequence,
                    !.latest_material_event_ts = market'.latest_material_event_ts]
       /\ market.trading_closed => counters'.next_order_nonce = counters.next_order_nonce
       /\ \A n \in Nonces :
             /\ positions[n] # NoAccount /\ ~IsAccepted(n) =>
                    positions'[n] \in {positions[n], NoAccount}
             /\ positions[n] = NoAccount /\ n < counters.next_order_nonce =>
                    positions'[n] = NoAccount]_vars

-----------------------------------------------------------------------------
(***************************************************************************)
(* What the repository's documents say of the vault.                       *)
(***************************************************************************)
\* ARCHITECTURE.md: "At every transition the vault satisfies A = F + R + S",
\* the spendable balance against free collateral, reserve and principal, for
\* every instruction that advances the accounting sequence.  The program
\* asserts only that A is no smaller.
EveryTransitionBalancesExactly ==
    [][counters'.accounting_sequence # counters.accounting_sequence =>
          spendable' = vault'.free_collateral + vault'.reserved_liability
                         + vault'.accepted_stake_principal]_vars

\* lib/v4/replay.ts, of an order the goal has overtaken: "no durable vault
\* field changes".
StaleRefundLeavesVaultAlone ==
    [][(\E n \in Nonces : /\ positions[n] = NoAccount
                          /\ positions'[n] # NoAccount
                          /\ positions'[n].status = "Refunded")
       => UNCHANGED <<vault, ledger, counters>>]_vars

-----------------------------------------------------------------------------
(***************************************************************************)
(* Liveness.                                                               *)
(***************************************************************************)
\* Once anyone has proposed a result, by proof or void, the market is resolved
\* and the vault ends up holding nothing for anybody: every accepted position
\* is paid, refunded or released, whichever order the settlements land in and
\* whatever the operator withdraws meanwhile.
ProposalsEmptyTheReserve ==
    resolution_proposal # NoAccount
      ~> /\ market.resolved
         /\ vault.reserved_liability = 0
         /\ vault.accepted_stake_principal = 0
=============================================================================
