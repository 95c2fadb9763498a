--------------------------- MODULE VaultAccounting ---------------------------
(***************************************************************************)
(* The arithmetic of the FairX V4 liquidity vault: the money fields of     *)
(* LiquidityVaultV4, the apply_* helpers that move amounts between them,   *)
(* the assertions every money-moving instruction ends with, and the two    *)
(* pricing formulas (derive_quote_prices, gross_payout).                   *)
(*                                                                         *)
(* The program does its arithmetic with checked_add and checked_sub on     *)
(* u64: an operation that leaves 0..u64::MAX reverts the whole             *)
(* instruction.  Here the helpers compute on integers and an action that   *)
(* uses one requires the resulting record to be in Vault, Ledger or        *)
(* Counters, whose fields range over U64: exactly the results for which    *)
(* no checked operation failed.                                            *)
(***************************************************************************)
EXTENDS Integers

CONSTANTS
    MaxU64,     \* u64::MAX
    MICROS_ONE  \* the fixed-point one of prices and probabilities

ASSUME MaxU64Assumption == MaxU64 \in Nat
ASSUME MicrosOneAssumption == MICROS_ONE \in Nat \ {0}

U64 == 0 .. MaxU64

Sides == {"Yes", "No"}

(***************************************************************************)
(* LiquidityVaultV4 in three parts: the money it answers for, the lifetime *)
(* totals, and the counters.                                               *)
(***************************************************************************)
Vault ==
    [ free_collateral : U64,
      reserved_liability : U64,
      accepted_stake_principal : U64,
      pending_refundable_stake : U64,
      yes_reserved_liability : U64,
      no_reserved_liability : U64 ]

EmptyVault ==
    [ free_collateral |-> 0,
      reserved_liability |-> 0,
      accepted_stake_principal |-> 0,
      pending_refundable_stake |-> 0,
      yes_reserved_liability |-> 0,
      no_reserved_liability |-> 0 ]

Ledger ==
    [ operator_deposits : U64,
      operator_withdrawals : U64,
      user_stakes : U64,
      refunds : U64,
      payouts : U64,
      losing_stakes : U64 ]

EmptyLedger ==
    [ operator_deposits |-> 0,
      operator_withdrawals |-> 0,
      user_stakes |-> 0,
      refunds |-> 0,
      payouts |-> 0,
      losing_stakes |-> 0 ]

Counters ==
    [ position_count : U64,
      next_order_nonce : U64,
      accounting_sequence : U64 ]

\* checked_add / checked_sub on u64, as the condition that they succeed.
CheckedAddOk(left, right) == left + right \in U64

(***************************************************************************)
(* Assertions.                                                             *)
(***************************************************************************)
\* assert_accounting_fields: the two sides add up to the total reserve.
AccountingFieldsAgree(v) ==
    /\ CheckedAddOk(v.yes_reserved_liability, v.no_reserved_liability)
    /\ v.yes_reserved_liability + v.no_reserved_liability = v.reserved_liability

\* Slip: the reserve is not counted among what the vault owes.
AssetsWithoutReserve(v) ==
    v.free_collateral + (v.accepted_stake_principal + v.pending_refundable_stake)

\* accounted_assets: everything the vault must be able to pay out.
AccountedAssets(v) ==
    (v.free_collateral + v.reserved_liability)
      + (v.accepted_stake_principal + v.pending_refundable_stake)

\* assert_vault_invariant, against the lamports above the rent minimum.
VaultInvariant(v, spendable) ==
    /\ AccountingFieldsAgree(v)
    /\ AccountedAssets(v) \in U64
    /\ spendable >= AccountedAssets(v)

(***************************************************************************)
(* The apply_* helpers.  Reserve moves an amount in (d > 0) or out (d < 0) *)
(* of the reserve and of the counter of the position's side.               *)
(***************************************************************************)
\* Slip: every liability goes to the same side.
ReserveOnYes(v, side, d) ==
    [ v EXCEPT
        !.reserved_liability = @ + d,
        !.yes_reserved_liability = @ + d ]

Reserve(v, side, d) ==
    [ v EXCEPT
        !.reserved_liability = @ + d,
        !.yes_reserved_liability = IF side = "Yes" THEN @ + d ELSE @,
        !.no_reserved_liability = IF side = "Yes" THEN @ ELSE @ + d ]

ApplyAccept(v, side, stake, liability) ==
    [ Reserve(v, side, liability) EXCEPT
        !.free_collateral = @ - liability,
        !.accepted_stake_principal = @ + stake ]

ApplyClaim(v, side, stake, liability) ==
    [ Reserve(v, side, -liability) EXCEPT
        !.accepted_stake_principal = @ - stake ]

ApplyReconcileLoss(v, side, stake, liability) ==
    [ Reserve(v, side, -liability) EXCEPT
        !.accepted_stake_principal = @ - stake,
        !.free_collateral = @ + (stake + liability) ]

\* Slip: the total is released and the side's counter is not.
VoidRefundOffTotalOnly(v, side, stake, liability) ==
    [ v EXCEPT
        !.reserved_liability = @ - liability,
        !.accepted_stake_principal = @ - stake,
        !.free_collateral = @ + liability ]

ApplyVoidRefund(v, side, stake, liability) ==
    [ Reserve(v, side, -liability) EXCEPT
        !.accepted_stake_principal = @ - stake,
        !.free_collateral = @ + liability ]

(***************************************************************************)
(* Pricing.                                                                *)
(***************************************************************************)
\* gross_payout: floor(stake / price) in fixed point, and the requires
\* around it.
GrossPayout(stake, price) == (stake * MICROS_ONE) \div price

GrossPayoutOk(stake, price) ==
    /\ stake > 0
    /\ price > 0
    /\ price < MICROS_ONE
    /\ GrossPayout(stake, price) \in U64
    /\ GrossPayout(stake, price) > stake

\* derive_quote_prices: the demargined win probability of the first of three
\* decimal odds <<h, d, a>>, rounded half up, and each side's price: its
\* probability plus the spread.
YesProbability(odds) ==
    LET h == odds[1]
        d == odds[2]
        a == odds[3]
        denominator == d * a + h * a + h * d
    IN  (d * a * MICROS_ONE + denominator \div 2) \div denominator

YesPrice(odds, spread) == YesProbability(odds) + spread

NoPrice(odds, spread) == (MICROS_ONE - YesProbability(odds)) + spread

QuotePricesOk(odds, spread) ==
    /\ \A i \in 1 .. 3 : odds[i] > 0
    /\ YesPrice(odds, spread) \in 1 .. MICROS_ONE - 1
    /\ NoPrice(odds, spread) \in 1 .. MICROS_ONE - 1
=============================================================================
