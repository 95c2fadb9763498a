-------------------------- MODULE FairXVaultV4Proofs --------------------------
(***************************************************************************)
(* Proofs about FairXVaultV4, for any number of traders and orders, any    *)
(* amounts, any prices and any word size: type correctness, the ledger,    *)
(* the evidence of a quote, what an order costs and gets; then how the     *)
(* market ends: who resolves it, that a settlement pays what the           *)
(* resolution owes and is never blocked, that both are final, and that the *)
(* vault implements a fully reserved book.                                 *)
(***************************************************************************)
EXTENDS FairXVaultV4, FairXVaultV4Refinement, SumTheorems, TLAPS

(***************************************************************************)
(* The totals of the vault, and of the book it implements, as sums.  These *)
(* need no assumption on the constants; everything after them may use them *)
(* all.                                                                    *)
(***************************************************************************)

\* A sum over a set of accounts is the sum of a function on that set.
LEMMA SumsOfFields ==
    \A accounts, S :
        /\ MapThenSumSet(LAMBDA n : accounts[n].reserved_liability, S)
              = SumOver([n \in S |-> accounts[n].reserved_liability], S)
        /\ MapThenSumSet(LAMBDA n : accounts[n].stake, S)
              = SumOver([n \in S |-> accounts[n].stake], S)
<1>1. \A accounts, S :
         MapThenSumSet(LAMBDA n : accounts[n].reserved_liability, S)
            = SumOver([n \in S |-> accounts[n].reserved_liability], S)
  BY DEF SumOver, MapThenSumSet, MapThenFoldSet
<1>2. \A accounts, S :
         MapThenSumSet(LAMBDA n : accounts[n].stake, S)
            = SumOver([n \in S |-> accounts[n].stake], S)
  BY DEF SumOver, MapThenSumSet, MapThenFoldSet
<1>. QED BY <1>1, <1>2

\* So is the sum that the book promises to cover.
LEMMA ObligationsAreASum ==
    \A bets : Book!Obligations(bets) = SumOver([b \in bets |-> b.gross], bets)
BY DEF Book!Obligations, Book!MapThenSumSet, Book!MapThenFoldSet,
       SumOver, MapThenSumSet, MapThenFoldSet

USE FairXAssumption, NoAccountAssumption, MaxU64Assumption, MicrosOneAssumption

(***************************************************************************)
(* Type correctness.  The helpers that several instructions share are      *)
(* typed first.                                                            *)
(***************************************************************************)

\* A transfer into the vault keeps the lamport accounts typed.
LEMMA TransferInTyped ==
    ASSUME TypeOK, NEW from \in Lamporters, NEW amount \in Nat, TransferIn(from, amount)
    PROVE  spendable' \in U64 /\ wallet' \in [Lamporters -> Nat]
<1>1. wallet \in [Lamporters -> Nat]
  BY DEF TypeOK
<1>2. wallet[from] - amount \in Nat
  BY <1>1 DEF TransferIn
<1>. QED BY <1>1, <1>2 DEF TransferIn

\* So does a payment out of the vault.
LEMMA MoveOutTyped ==
    ASSUME TypeOK, NEW to \in Lamporters, NEW amount \in Nat, MoveOut(to, amount)
    PROVE  spendable' \in U64 /\ wallet' \in [Lamporters -> Nat]
<1>1. wallet \in [Lamporters -> Nat] /\ spendable \in U64
  BY DEF TypeOK
<1>2. wallet[to] + amount \in Nat
  BY <1>1
<1>3. spendable - amount \in U64
  BY <1>1 DEF MoveOut, U64
<1>. QED BY <1>1, <1>2, <1>3 DEF MoveOut

\* The end of a money-moving instruction leaves a typed vault behind.
LEMMA SettleAccountsTyped ==
    ASSUME TypeOK, NEW v, NEW l, NEW c, SettleAccounts(v, l, c)
    PROVE  /\ vault' \in Vault
           /\ ledger' \in Ledger
           /\ counters' \in Counters
           /\ stake_bounds' \in U64 \X U64
BY DEF SettleAccounts, TypeOK

\* A settled position is a position.
LEMMA TerminateTyped ==
    ASSUME TypeOK, NEW n \in Nonces, IsAccepted(n),
           NEW status \in {"Claimed", "Lost", "Voided"}, NEW paid \in U64,
           Terminate(n, status, paid)
    PROVE  positions' \in [Nonces -> Position \cup {NoAccount}]
<1>1. positions \in [Nonces -> Position \cup {NoAccount}]
  BY DEF TypeOK
<1>2. positions[n] \in Position
  BY <1>1 DEF IsAccepted
<1>3. [positions[n] EXCEPT !.status = status, !.claimed = paid] \in Position
  BY <1>2 DEF Position
<1>4. positions' = [positions EXCEPT ![n] =
                      [positions[n] EXCEPT !.status = status, !.claimed = paid]]
  BY <1>1 DEF Terminate
<1>. QED BY <1>1, <1>3, <1>4

\* The amounts an accepted position owes are words.
LEMMA PositionAmounts ==
    ASSUME TypeOK, NEW n \in Nonces, IsAccepted(n)
    PROVE  /\ positions[n] \in Position
           /\ positions[n].stake \in U64
           /\ positions[n].gross_payout \in U64
           /\ positions[n].reserved_liability \in U64
           /\ positions[n].owner \in Traders
<1>1. positions[n] \in Position
  BY DEF TypeOK, IsAccepted
<1>. QED BY <1>1 DEF Position

\* The position of an accepted order: its terms come from the order and from
\* the market's quote.
LEMMA AcceptedPosition ==
    ASSUME TypeOK, NEW trader \in Traders, NEW args \in OrderArgs,
           AcceptOrder(trader, args)
    PROVE  LET p == positions'[args.order_nonce]
               gross == GrossPayout(args.stake, ExecutionPrice(args.side))
           IN  /\ args.order_nonce \in Nonces
               /\ positions' = [positions EXCEPT ![args.order_nonce] = p]
               /\ p \in Position
               /\ p.owner = trader
               /\ p.side = args.side
               /\ p.stake = args.stake
               /\ p.price = ExecutionPrice(args.side)
               /\ p.gross_payout = gross
               /\ p.reserved_liability = gross - args.stake
               /\ gross \in Int
               /\ gross > args.stake
               /\ p.quote_sequence = args.quote_sequence
               /\ p.payload_hash = args.payload_hash
               /\ p.material_event_sequence = args.material_event_sequence
               /\ p.status = "Accepted"
<1> DEFINE price == ExecutionPrice(args.side)
           gross == GrossPayout(args.stake, price)
           p == [NewPosition(trader, args) EXCEPT
                   !.price = price,
                   !.gross_payout = gross,
                   !.reserved_liability = gross - args.stake,
                   !.status = "Accepted"]
<1>1. args \in Args /\ args.order_nonce \in Nonces /\ args.stake \in Nat
  BY DEF Args, U64
<1>2. positions \in [Nonces -> Position \cup {NoAccount}]
  BY DEF TypeOK
<1>3. NewPosition(trader, args) \in Position
  BY <1>1 DEF Args, NewPosition, Position, U64
<1>4. positions' = [positions EXCEPT ![args.order_nonce] = p]
  BY DEF AcceptOrder
<1>5. positions'[args.order_nonce] = p
  BY <1>1, <1>2, <1>4
<1>6. price \in 0 .. MICROS_ONE
  BY DEF ExecutionPrice, TypeOK, Quote
<1>7. gross \in U64 /\ gross > args.stake
  BY DEF AcceptOrder, GrossPayoutOk
<1>8. price = ExecutionPrice(args.side) /\ gross = GrossPayout(args.stake, price)
  OBVIOUS
<1> HIDE DEF price, gross
<1>9. gross - args.stake \in U64 /\ gross \in Int
  BY <1>1, <1>7 DEF U64
<1>10. p \in Position
  BY <1>3, <1>6, <1>7, <1>9 DEF Position
<1>11. /\ p.owner = trader
       /\ p.side = args.side
       /\ p.stake = args.stake
       /\ p.price = price
       /\ p.gross_payout = gross
       /\ p.reserved_liability = gross - args.stake
       /\ p.quote_sequence = args.quote_sequence
       /\ p.payload_hash = args.payload_hash
       /\ p.material_event_sequence = args.material_event_sequence
       /\ p.status = "Accepted"
  BY DEF NewPosition
<1> HIDE DEF p
<1>. QED BY <1>1, <1>4, <1>5, <1>7, <1>8, <1>9, <1>10, <1>11

\* A new order makes a typed position, whichever way it is decided.
LEMMA PlaceOrderTyped ==
    ASSUME TypeOK, NEW trader \in Traders, NEW args \in OrderArgs,
           PlaceFixedPayoutOrder(trader, args)
    PROVE  /\ positions' \in [Nonces -> Position \cup {NoAccount}]
           /\ spendable' \in U64
           /\ wallet' \in [Lamporters -> Nat]
<1>1. args \in Args /\ args.order_nonce \in Nonces /\ args.stake \in Nat
  BY DEF Args, U64
<1>2. positions \in [Nonces -> Position \cup {NoAccount}]
  BY DEF TypeOK
<1>3. NewPosition(trader, args) \in Position
  BY <1>1 DEF Args, NewPosition, Position, U64
<1>4. CASE RefundStaleOrder(trader, args)
  BY <1>1, <1>2, <1>3, <1>4 DEF RefundStaleOrder, NoLamportsMove, TypeOK
<1>5. CASE AcceptOrder(trader, args)
  <2>1. TransferIn(trader, args.stake)
    BY <1>5 DEF AcceptOrder
  <2>. QED BY <1>1, <1>2, <1>5, <2>1, AcceptedPosition, TransferInTyped DEF Lamporters
<1>. QED BY <1>4, <1>5 DEF PlaceFixedPayoutOrder

\* Proving or voiding creates typed accounts.
LEMMA ProposalTyped ==
    ASSUME NEW signer \in Keys
    PROVE  /\ \A stats \in FinalStats : ProveResolutionWithTxline(signer, stats) =>
                 /\ resolution_receipt' \in ResolutionReceipt
                 /\ resolution_proposal' \in ResolutionProposal
           /\ ProposeVoid(signer) => resolution_proposal' \in ResolutionProposal
<1>1. ASSUME NEW stats \in FinalStats, ProveResolutionWithTxline(signer, stats)
      PROVE  /\ resolution_receipt' \in ResolutionReceipt
             /\ resolution_proposal' \in ResolutionProposal
  <2>1. HomeScore(stats) \in 0 .. 198 /\ AwayScore(stats) \in 0 .. 198
    BY DEF HomeScore, AwayScore, StatKeys
  <2>2. DerivedOutcome(stats) \in {"Yes", "No"}
    BY DEF DerivedOutcome
  <2>3. resolution_receipt' \in ResolutionReceipt
    BY <1>1, <2>1, <2>2 DEF ProveResolutionWithTxline, ResolutionReceipt
  <2>4. resolution_proposal' \in ResolutionProposal
    BY <1>1, <2>2 DEF ProveResolutionWithTxline, ResolutionProposal
  <2>. QED BY <2>3, <2>4
<1>2. ASSUME ProposeVoid(signer)
      PROVE  resolution_proposal' \in ResolutionProposal
  BY <1>2 DEF ProposeVoid, ResolutionProposal
<1>. QED BY <1>1, <1>2

\* Type correctness: every account keeps its type in every reachable state.
THEOREM TypeCorrect == Spec => []TypeOK
<1>1. Init => TypeOK
  BY DEF Init, TypeOK, Market, Quote, MaterialSequences, U64, Vault, EmptyVault,
         Ledger, EmptyLedger, Counters, ZeroHash
<1>2. TypeOK /\ [Next]_vars => TypeOK'
  <2> SUFFICES ASSUME TypeOK, [Next]_vars PROVE TypeOK'
    OBVIOUS
  <2>1. ASSUME NEW config \in CandidateConfigs,
               InitializeMarket(config)
        PROVE TypeOK'
    BY <2>1
       DEF TypeOK, InitializeMarket, vaultVars, resolutionVars
  <2>2. ASSUME NEW bounds \in StakeBounds,
               InitializeLiquidityVault(bounds)
        PROVE TypeOK'
    BY <2>2
       DEF TypeOK, InitializeLiquidityVault, marketVars, resolutionVars
  <2>3. ASSUME NEW amount \in Amounts,
               DepositLiquidity(amount)
        PROVE TypeOK'
    BY <2>3, TransferInTyped, SettleAccountsTyped
       DEF TypeOK, DepositLiquidity, marketVars, resolutionVars, Lamporters
  <2>4. CASE ReconcileVaultSurplus
    BY <2>4, SettleAccountsTyped
       DEF TypeOK, ReconcileVaultSurplus, NoLamportsMove, marketVars, resolutionVars
  <2>5. ASSUME NEW amount \in Amounts,
               WithdrawFreeLiquidity(amount)
        PROVE TypeOK'
    BY <2>5, MoveOutTyped, SettleAccountsTyped
       DEF TypeOK, WithdrawFreeLiquidity, marketVars, resolutionVars, Lamporters
  <2>6. ASSUME NEW amount \in Amounts,
               SendLamports(Stranger, amount)
        PROVE TypeOK'
    BY <2>6, TransferInTyped
       DEF TypeOK, SendLamports, marketVars, resolutionVars, Lamporters
  <2>7. ASSUME NEW signer \in Keys, NEW q \in QuoteSequences, NEW m \in MaterialSequences,
               NEW odds \in Odds,
               CommitTxlineQuote(signer, q, m, odds)
        PROVE TypeOK'
    BY <2>7
       DEF TypeOK, CommitTxlineQuote, QuotePricesOk, Quote, vaultVars, resolutionVars
  <2>8. ASSUME NEW odds \in Odds,
               VerifyTxlineQuote(odds)
        PROVE TypeOK'
    BY <2>8
       DEF TypeOK, VerifyTxlineQuote, CanonicalQuote, Quote, QuoteReceipt, QuoteSequences, vaultVars, resolutionVars
  <2>9. ASSUME NEW signer \in Keys, NEW s \in MaterialSequences,
               IngestMaterialEvent(signer, s)
        PROVE TypeOK'
    BY <2>9
       DEF TypeOK, IngestMaterialEvent, Market, Quote, MaterialSequences, vaultVars, resolutionVars
  <2>10. ASSUME NEW trader \in Traders, NEW args \in OrderArgs,
               PlaceFixedPayoutOrder(trader, args)
        PROVE TypeOK'
    <3>1. /\ vault' \in Vault
          /\ ledger' \in Ledger
          /\ counters' \in Counters
          /\ stake_bounds' \in U64 \X U64
      BY <2>10, SettleAccountsTyped
         DEF PlaceFixedPayoutOrder, RefundStaleOrder, AcceptOrder
    <3>. QED BY <2>10, <3>1, PlaceOrderTyped
             DEF PlaceFixedPayoutOrder, TypeOK, marketVars, resolutionVars
  <2>11. ASSUME NEW signer \in Keys, NEW stats \in FinalStats,
               ProveResolutionWithTxline(signer, stats)
        PROVE TypeOK'
    <3>1. market' \in Market
      BY <2>11 DEF ProveResolutionWithTxline, TypeOK, Market
    <3>. QED BY <2>11, <3>1, ProposalTyped DEF ProveResolutionWithTxline, TypeOK, vaultVars
  <2>12. ASSUME NEW signer \in Keys,
               ProposeVoid(signer)
        PROVE TypeOK'
    <3>1. market' \in Market
      BY <2>12 DEF ProposeVoid, TypeOK, Market
    <3>. QED BY <2>12, <3>1, ProposalTyped DEF ProposeVoid, TypeOK, vaultVars
  <2>13. ASSUME NEW signer \in Keys,
               ApproveResolution(signer)
        PROVE TypeOK'
    BY <2>13
       DEF TypeOK, ApproveResolution, ResolutionProposal, marketVars, vaultVars
  <2>14. CASE ExecuteResolution
    BY <2>14
       DEF TypeOK, ExecuteResolution, Market, ResolutionReceipt, ResolutionProposal, vaultVars
  <2>15. CASE ExecuteVoid
    BY <2>15
       DEF TypeOK, ExecuteVoid, Market, ResolutionProposal, vaultVars
  <2>16. ASSUME NEW trader \in Traders, NEW n \in Nonces,
               ClaimFixedPayout(trader, n)
        PROVE TypeOK'
    <3>1. /\ positions[n].stake \in Nat
          /\ positions[n].gross_payout \in Nat
          /\ trader \in Lamporters
      BY <2>16, PositionAmounts DEF ClaimFixedPayout, U64, Lamporters
    <3>2. spendable' \in U64 /\ wallet' \in [Lamporters -> Nat]
      BY <2>16, <3>1, MoveOutTyped DEF ClaimFixedPayout
    <3>3. positions' \in [Nonces -> Position \cup {NoAccount}]
      BY <2>16, PositionAmounts, TerminateTyped DEF ClaimFixedPayout
    <3>4. /\ vault' \in Vault
          /\ ledger' \in Ledger
          /\ counters' \in Counters
          /\ stake_bounds' \in U64 \X U64
      BY <2>16, SettleAccountsTyped DEF ClaimFixedPayout
    <3>. QED BY <2>16, <3>2, <3>3, <3>4 DEF ClaimFixedPayout, TypeOK, marketVars, resolutionVars
  <2>17. ASSUME NEW trader \in Traders, NEW n \in Nonces,
               ClaimVoidRefund(trader, n)
        PROVE TypeOK'
    <3>1. /\ positions[n].stake \in Nat
          /\ positions[n].gross_payout \in Nat
          /\ trader \in Lamporters
      BY <2>17, PositionAmounts DEF ClaimVoidRefund, U64, Lamporters
    <3>2. spendable' \in U64 /\ wallet' \in [Lamporters -> Nat]
      BY <2>17, <3>1, MoveOutTyped DEF ClaimVoidRefund
    <3>3. positions' \in [Nonces -> Position \cup {NoAccount}]
      BY <2>17, PositionAmounts, TerminateTyped DEF ClaimVoidRefund
    <3>4. /\ vault' \in Vault
          /\ ledger' \in Ledger
          /\ counters' \in Counters
          /\ stake_bounds' \in U64 \X U64
      BY <2>17, SettleAccountsTyped DEF ClaimVoidRefund
    <3>. QED BY <2>17, <3>2, <3>3, <3>4 DEF ClaimVoidRefund, TypeOK, marketVars, resolutionVars
  <2>18. ASSUME NEW trader \in Traders, NEW n \in Nonces,
               CloseFixedPayoutPosition(trader, n)
        PROVE TypeOK'
    BY <2>18
       DEF TypeOK, CloseFixedPayoutPosition, marketVars, resolutionVars
  <2>19. ASSUME NEW n \in Nonces,
               ReconcilePosition(n)
        PROVE TypeOK'
    <3>1. positions' \in [Nonces -> Position \cup {NoAccount}]
      BY <2>19, TerminateTyped DEF ReconcilePosition, U64
    <3>2. /\ vault' \in Vault
          /\ ledger' \in Ledger
          /\ counters' \in Counters
          /\ stake_bounds' \in U64 \X U64
      BY <2>19, SettleAccountsTyped DEF ReconcilePosition
    <3>. QED BY <2>19, <3>1, <3>2
             DEF ReconcilePosition, NoLamportsMove, TypeOK, marketVars, resolutionVars
  <2>20. CASE Tick
    BY <2>20
       DEF TypeOK, Tick, marketVars, vaultVars, resolutionVars
  <2>21. CASE UNCHANGED vars
    BY <2>21 DEF TypeOK, vars, marketVars, vaultVars, resolutionVars
  <2>. QED
    BY <2>1, <2>2, <2>3, <2>4, <2>5, <2>6, <2>7, <2>8, <2>9, <2>10, <2>11,
       <2>12, <2>13, <2>14, <2>15, <2>16, <2>17, <2>18, <2>19, <2>20, <2>21
       DEF Next, SetUp, Liquidity, Pricing, Trading, Resolution, Settlement
<1>. QED BY <1>1, <1>2, PTL DEF Spec

(***************************************************************************)
(* The ledger explains the balance.  The invariant is inductive with the   *)
(* type invariant: each instruction moves the same amount through the      *)
(* balance and through the lifetime totals, or through neither.            *)
(***************************************************************************)

\* A typed ledger has numbers in it, and so do the balance and the stranger's
\* account.
LEMMA LedgerAmounts ==
    ASSUME TypeOK
    PROVE  /\ spendable \in Int
           /\ wallet \in [Lamporters -> Nat]
           /\ wallet[Stranger] \in Int
           /\ InitialFunds[Stranger] \in Int
           /\ ledger.operator_deposits \in Int
           /\ ledger.operator_withdrawals \in Int
           /\ ledger.user_stakes \in Int
           /\ ledger.refunds \in Int
           /\ ledger.payouts \in Int
           /\ ledger.losing_stakes \in Int
<1>1. ledger \in Ledger
  BY DEF TypeOK
<1>2. spendable \in Int /\ wallet \in [Lamporters -> Nat]
  BY DEF TypeOK, U64
<1>3. Stranger \in Lamporters
  BY DEF Lamporters
<1>. QED BY <1>1, <1>2, <1>3 DEF Ledger, U64

\* The balance that the lifetime totals of l explain.
Explained(l) ==
    l.operator_deposits - l.operator_withdrawals + l.user_stakes - l.refunds - l.payouts

\* A transfer from one account to or from the vault leaves the others alone.
LEMMA StrangerUntouched ==
    ASSUME TypeOK, NEW a \in Lamporters, a # Stranger, NEW amount \in Nat,
           TransferIn(a, amount) \/ MoveOut(a, amount)
    PROVE  wallet'[Stranger] = wallet[Stranger]
BY LedgerAmounts DEF TransferIn, MoveOut, Lamporters

\* Every step of the program keeps the balance explained.
LEMMA LedgerStep ==
    ASSUME TypeOK, LedgerExplainsBalance, [Next]_vars
    PROVE  LedgerExplainsBalance'
<1> USE LedgerAmounts
<1>1. ledger \in Ledger /\ Operator \in Lamporters /\ Operator # Stranger
  BY DEF TypeOK, Lamporters
<1>2. /\ spendable = Explained(ledger) + (InitialFunds[Stranger] - wallet[Stranger])
      /\ Explained(ledger) \in Int
  BY DEF LedgerExplainsBalance, Explained
<1> DEFINE Goal == spendable' = Explained(ledger')
                                  + (InitialFunds[Stranger] - wallet'[Stranger])
<1>3. SUFFICES Goal
  BY DEF LedgerExplainsBalance, Explained
<1>4. CASE UNCHANGED <<spendable, wallet, ledger>>
  BY <1>2, <1>4
<1>5. ASSUME NEW amount \in Amounts, DepositLiquidity(amount)
      PROVE  Goal
  <2>1. ledger' = [ledger EXCEPT !.operator_deposits = @ + amount]
    BY <1>5 DEF DepositLiquidity, SettleAccounts
  <2>2. Explained(ledger') = Explained(ledger) + amount
    BY <1>1, <2>1 DEF Ledger, Explained, U64
  <2>3. spendable' = spendable + amount /\ wallet'[Stranger] = wallet[Stranger]
    BY <1>1, <1>5, StrangerUntouched DEF DepositLiquidity, TransferIn
  <2>. QED BY <1>2, <2>2, <2>3
<1>6. ASSUME NEW amount \in Amounts, WithdrawFreeLiquidity(amount)
      PROVE  Goal
  <2>1. ledger' = [ledger EXCEPT !.operator_withdrawals = @ + amount]
    BY <1>6 DEF WithdrawFreeLiquidity, SettleAccounts
  <2>2. Explained(ledger') = Explained(ledger) - amount
    BY <1>1, <2>1 DEF Ledger, Explained, U64
  <2>3. spendable' = spendable - amount /\ wallet'[Stranger] = wallet[Stranger]
    BY <1>1, <1>6, StrangerUntouched DEF WithdrawFreeLiquidity, MoveOut
  <2>. QED BY <1>2, <2>2, <2>3
<1>7. ASSUME NEW amount \in Amounts, SendLamports(Stranger, amount)
      PROVE  Goal
  <2>1. /\ ledger' = ledger
        /\ spendable' = spendable + amount
        /\ wallet'[Stranger] = wallet[Stranger] - amount
    BY <1>7 DEF SendLamports, TransferIn, Lamporters
  <2>. QED BY <1>2, <2>1
<1>8. CASE ReconcileVaultSurplus
  BY <1>2, <1>8 DEF ReconcileVaultSurplus, SettleAccounts, NoLamportsMove
<1>9. ASSUME NEW trader \in Traders, NEW args \in OrderArgs,
             PlaceFixedPayoutOrder(trader, args)
      PROVE  Goal
  <2>1. args.stake \in Nat
    BY DEF Args, U64
  <2>2. CASE RefundStaleOrder(trader, args)
    <3>1. ledger' = [ledger EXCEPT !.user_stakes = @ + args.stake,
                                   !.refunds = @ + args.stake]
      BY <2>2 DEF RefundStaleOrder, SettleAccounts
    <3>2. Explained(ledger') = Explained(ledger)
      BY <1>1, <2>1, <3>1 DEF Ledger, Explained, U64
    <3>. QED BY <1>2, <2>2, <3>2 DEF RefundStaleOrder, NoLamportsMove
  <2>3. CASE AcceptOrder(trader, args)
    <3>1. ledger' = [ledger EXCEPT !.user_stakes = @ + args.stake]
      BY <2>3 DEF AcceptOrder, SettleAccounts
    <3>2. Explained(ledger') = Explained(ledger) + args.stake
      BY <1>1, <2>1, <3>1 DEF Ledger, Explained, U64
    <3>3. TransferIn(trader, args.stake)
      BY <2>3 DEF AcceptOrder
    <3>4. spendable' = spendable + args.stake /\ wallet'[Stranger] = wallet[Stranger]
      BY <2>1, <3>3, StrangerUntouched DEF TransferIn, Lamporters
    <3>. QED BY <1>2, <2>1, <3>2, <3>4
  <2>. QED BY <1>9, <2>2, <2>3 DEF PlaceFixedPayoutOrder
<1>10. ASSUME NEW trader \in Traders, NEW n \in Nonces, ClaimFixedPayout(trader, n)
       PROVE  Goal
  <2> DEFINE gross == positions[n].gross_payout
  <2>1. gross \in Nat
    BY <1>10, PositionAmounts DEF ClaimFixedPayout, U64
  <2>2. ledger' = [ledger EXCEPT !.payouts = @ + gross] /\ MoveOut(trader, gross)
    BY <1>10 DEF ClaimFixedPayout, SettleAccounts
  <2> HIDE DEF gross
  <2>3. Explained(ledger') = Explained(ledger) - gross
    BY <1>1, <2>1, <2>2 DEF Ledger, Explained, U64
  <2>4. spendable' = spendable - gross /\ wallet'[Stranger] = wallet[Stranger]
    BY <2>1, <2>2, StrangerUntouched DEF MoveOut, Lamporters
  <2>. QED BY <1>2, <2>1, <2>3, <2>4
<1>11. ASSUME NEW trader \in Traders, NEW n \in Nonces, ClaimVoidRefund(trader, n)
       PROVE  Goal
  <2> DEFINE stake == positions[n].stake
  <2>1. stake \in Nat
    BY <1>11, PositionAmounts DEF ClaimVoidRefund, U64
  <2>2. ledger' = [ledger EXCEPT !.refunds = @ + stake] /\ MoveOut(trader, stake)
    BY <1>11 DEF ClaimVoidRefund, SettleAccounts
  <2> HIDE DEF stake
  <2>3. Explained(ledger') = Explained(ledger) - stake
    BY <1>1, <2>1, <2>2 DEF Ledger, Explained, U64
  <2>4. spendable' = spendable - stake /\ wallet'[Stranger] = wallet[Stranger]
    BY <2>1, <2>2, StrangerUntouched DEF MoveOut, Lamporters
  <2>. QED BY <1>2, <2>1, <2>3, <2>4
<1>12. ASSUME NEW n \in Nonces, ReconcilePosition(n)
       PROVE  Goal
  <2>1. ledger' = [ledger EXCEPT !.losing_stakes = @ + positions[n].stake]
    BY <1>12 DEF ReconcilePosition, SettleAccounts
  <2>2. Explained(ledger') = Explained(ledger)
    BY <1>1, <2>1 DEF Ledger, Explained
  <2>. QED BY <1>2, <1>12, <2>2 DEF ReconcilePosition, NoLamportsMove
<1>13. CASE SetUp
  BY <1>4, <1>13 DEF SetUp, InitializeMarket, InitializeLiquidityVault, vaultVars
<1>14. CASE Pricing
  BY <1>4, <1>14
     DEF Pricing, CommitTxlineQuote, VerifyTxlineQuote, IngestMaterialEvent, vaultVars
<1>15. CASE Resolution
  BY <1>4, <1>15
     DEF Resolution, ProveResolutionWithTxline, ProposeVoid, ApproveResolution,
         ExecuteResolution, ExecuteVoid, vaultVars
<1>16. ASSUME NEW trader \in Traders, NEW n \in Nonces,
              CloseFixedPayoutPosition(trader, n)
       PROVE  Goal
  BY <1>4, <1>16 DEF CloseFixedPayoutPosition
<1>17. CASE Tick
  BY <1>4, <1>17 DEF Tick, vaultVars
<1>18. CASE UNCHANGED vars
  BY <1>4, <1>18 DEF vars, vaultVars
<1> HIDE DEF Goal
<1>. QED
  BY <1>5, <1>6, <1>7, <1>8, <1>9, <1>10, <1>11, <1>12, <1>13, <1>14, <1>15, <1>16,
     <1>17, <1>18 DEF Next, Liquidity, Trading, Settlement

\* Every lamport above the rent minimum is explained by the lifetime totals, in
\* every reachable state.
THEOREM LedgerCorrect == Spec => []LedgerExplainsBalance
<1>1. Init => LedgerExplainsBalance
  <2>1. Stranger \in Lamporters
    BY DEF Lamporters
  <2>. QED BY <2>1 DEF Init, LedgerExplainsBalance, EmptyLedger
<1>. QED BY <1>1, LedgerStep, TypeCorrect, PTL DEF Spec

(***************************************************************************)
(* Prices have evidence.  A verified quote has its receipt, and a filled   *)
(* position keeps its terms and the receipt of the quote it names.  The    *)
(* epoch of a quote, and that receipts are never replaced, are what makes  *)
(* the two inductive.                                                      *)
(***************************************************************************)

\* A committed quote is the recorded one of its material epoch.
QuoteNamesEpoch ==
    quote.sequence # 0 =>
        (quote.sequence = 1
            <=> quote.material_event_sequence = CANONICAL_INITIAL_EVENT_SEQUENCE)

EvidenceInv == QuoteNamesEpoch /\ VerifiedQuoteHasEvidence

\* A quote receipt is written once.
LEMMA ReceiptsPersist ==
    ASSUME TypeOK, [Next]_vars, NEW q \in QuoteSequences, quote_receipts[q] # NoAccount
    PROVE  quote_receipts'[q] = quote_receipts[q]
<1>1. quote_receipts \in [QuoteSequences -> QuoteReceipt \cup {NoAccount}]
  BY DEF TypeOK
<1>2. ASSUME NEW odds \in Odds, VerifyTxlineQuote(odds)
      PROVE  quote_receipts'[q] = quote_receipts[q]
  BY <1>1, <1>2 DEF VerifyTxlineQuote
<1>3. ASSUME UNCHANGED quote_receipts
      PROVE  quote_receipts'[q] = quote_receipts[q]
  BY <1>3
<1>4. CASE SetUp
  BY <1>3, <1>4 DEF SetUp, InitializeMarket, InitializeLiquidityVault, marketVars
<1>5. CASE Liquidity
  BY <1>3, <1>5
     DEF Liquidity, DepositLiquidity, ReconcileVaultSurplus, WithdrawFreeLiquidity,
         SendLamports, marketVars
<1>6. CASE Pricing
  BY <1>2, <1>3, <1>6 DEF Pricing, CommitTxlineQuote, IngestMaterialEvent
<1>7. CASE Trading
  BY <1>3, <1>7 DEF Trading, PlaceFixedPayoutOrder, marketVars
<1>8. CASE Resolution
  BY <1>3, <1>8
     DEF Resolution, ProveResolutionWithTxline, ProposeVoid, ApproveResolution,
         ExecuteResolution, ExecuteVoid, marketVars
<1>9. CASE Settlement
  BY <1>3, <1>9
     DEF Settlement, ClaimFixedPayout, ClaimVoidRefund, ReconcilePosition,
         CloseFixedPayoutPosition, marketVars
<1>10. CASE Tick \/ UNCHANGED vars
  BY <1>3, <1>10 DEF Tick, vars, marketVars
<1>. QED BY <1>4, <1>5, <1>6, <1>7, <1>8, <1>9, <1>10 DEF Next

\* Only pricing and resolution change the market, and resolution does not
\* change the epoch.
LEMMA EvidenceStep ==
    ASSUME TypeOK, EvidenceInv, [Next]_vars
    PROVE  EvidenceInv'
<1>1. /\ quote \in Quote
      /\ market \in Market
      /\ quote_receipts \in [QuoteSequences -> QuoteReceipt \cup {NoAccount}]
  BY DEF TypeOK
<1> USE DEF EvidenceInv
<1>2. ASSUME UNCHANGED <<quote, quote_receipts>>,
             UNCHANGED market.latest_material_event_sequence
      PROVE  EvidenceInv'
  BY <1>2 DEF QuoteNamesEpoch, VerifiedQuoteHasEvidence
<1>3. ASSUME UNCHANGED <<quote, quote_receipts, market>>
      PROVE  EvidenceInv'
  BY <1>2, <1>3
<1>4. ASSUME NEW signer \in Keys, NEW q \in QuoteSequences, NEW m \in MaterialSequences,
             NEW odds \in Odds, CommitTxlineQuote(signer, q, m, odds)
      PROVE  EvidenceInv'
  <2>1. /\ quote'.sequence = q
        /\ quote'.material_event_sequence = m
        /\ ~quote'.verified
    BY <1>4 DEF CommitTxlineQuote
  <2>2. q = 1 <=> m = CANONICAL_INITIAL_EVENT_SEQUENCE
    BY <1>4
       DEF CommitTxlineQuote, CanonicalQuote, CANONICAL_INITIAL_EVENT_SEQUENCE,
           CANONICAL_GOAL_SEQUENCE
  <2>. QED BY <2>1, <2>2 DEF QuoteNamesEpoch, VerifiedQuoteHasEvidence
<1>5. ASSUME NEW odds \in Odds, VerifyTxlineQuote(odds)
      PROVE  EvidenceInv'
  <2> DEFINE current == quote.material_event_sequence
                          = market.latest_material_event_sequence
             receipt == [ payload_hash |-> odds,
                          yes_price |-> quote.yes_price,
                          no_price |-> quote.no_price,
                          currently_executable |-> current ]
  <2>1. quote.sequence \in QuoteSequences
    BY <1>5 DEF VerifyTxlineQuote, CanonicalQuote, QuoteSequences
  <2>2. /\ market' = market
        /\ quote' = [quote EXCEPT !.verified = current]
        /\ quote.payload_hash = odds
        /\ quote_receipts'[quote.sequence] = receipt
    BY <1>1, <1>5, <2>1 DEF VerifyTxlineQuote
  <2>3. receipt \in QuoteReceipt
    BY <1>1 DEF QuoteReceipt, Quote
  <2>4. /\ quote'.verified => current
        /\ quote'.sequence = quote.sequence
        /\ quote'.material_event_sequence = quote.material_event_sequence
        /\ quote'.payload_hash = quote.payload_hash
        /\ quote'.yes_price = quote.yes_price
        /\ quote'.no_price = quote.no_price
    BY <1>1, <2>2 DEF Quote
  <2>. QED BY <2>1, <2>2, <2>3, <2>4 DEF QuoteNamesEpoch, VerifiedQuoteHasEvidence
<1>6. ASSUME NEW signer \in Keys, NEW s \in MaterialSequences,
             IngestMaterialEvent(signer, s)
      PROVE  EvidenceInv'
  <2>1. /\ ~quote'.verified
        /\ quote'.sequence = quote.sequence
        /\ quote'.material_event_sequence = quote.material_event_sequence
    BY <1>1, <1>6 DEF IngestMaterialEvent, Quote
  <2>. QED BY <2>1 DEF QuoteNamesEpoch, VerifiedQuoteHasEvidence
<1>7. CASE SetUp
  BY <1>3, <1>7 DEF SetUp, InitializeMarket, InitializeLiquidityVault, marketVars
<1>8. CASE Liquidity
  BY <1>3, <1>8
     DEF Liquidity, DepositLiquidity, ReconcileVaultSurplus, WithdrawFreeLiquidity,
         SendLamports, marketVars
<1>9. CASE Trading
  BY <1>3, <1>9 DEF Trading, PlaceFixedPayoutOrder, marketVars
<1>10. CASE Resolution
  <2>1. market'.latest_material_event_sequence = market.latest_material_event_sequence
    BY <1>1, <1>10
       DEF Resolution, ProveResolutionWithTxline, ProposeVoid, ApproveResolution,
           ExecuteResolution, ExecuteVoid, marketVars, Market
  <2>2. UNCHANGED <<quote, quote_receipts>>
    BY <1>10
       DEF Resolution, ProveResolutionWithTxline, ProposeVoid, ApproveResolution,
           ExecuteResolution, ExecuteVoid, marketVars
  <2>. QED BY <1>2, <2>1, <2>2
<1>11. CASE Settlement
  BY <1>3, <1>11
     DEF Settlement, ClaimFixedPayout, ClaimVoidRefund, ReconcilePosition,
         CloseFixedPayoutPosition, marketVars
<1>12. CASE Tick \/ UNCHANGED vars
  BY <1>3, <1>12 DEF Tick, vars, marketVars
<1>. QED
  BY <1>4, <1>5, <1>6, <1>7, <1>8, <1>9, <1>10, <1>11, <1>12 DEF Next, Pricing

\* A quote that orders may execute at has TxLINE's receipt for exactly its
\* payload and prices and belongs to the current epoch, always.
THEOREM EvidenceCorrect == Spec => []VerifiedQuoteHasEvidence
<1>1. Init => EvidenceInv
  BY DEF Init, EvidenceInv, QuoteNamesEpoch, VerifiedQuoteHasEvidence
<1>2. EvidenceInv => VerifiedQuoteHasEvidence
  BY DEF EvidenceInv
<1>. QED BY <1>1, <1>2, EvidenceStep, TypeCorrect, PTL DEF Spec

\* What a position was filled at.
Terms(p) ==
    <<p.owner, p.side, p.stake, p.price, p.gross_payout, p.reserved_liability,
      p.quote_sequence, p.payload_hash, p.material_event_sequence>>

IsFilled(n) == positions[n] # NoAccount /\ positions[n].status # "Refunded"

\* Position m survives the step: it was filled before, on the same terms, and
\* does not become accepted again.
Kept(m) ==
    /\ IsFilled(m)
    /\ Terms(positions'[m]) = Terms(positions[m])
    /\ IsAccepted(m)' => IsAccepted(m)

\* Settling a position keeps its terms and leaves every other one alone.
LEMMA TerminateKeepsTerms ==
    ASSUME TypeOK, NEW n \in Nonces, NEW m \in Nonces, IsAccepted(n),
           NEW status, NEW paid, Terminate(n, status, paid), IsFilled(m)'
    PROVE  Kept(m)
<1>1. positions \in [Nonces -> Position \cup {NoAccount}]
  BY DEF TypeOK
<1>2. positions[n] \in Position
  BY <1>1 DEF IsAccepted
<1>3. positions' = [positions EXCEPT ![n] =
                      [positions[n] EXCEPT !.status = status, !.claimed = paid]]
  BY <1>1 DEF Terminate
<1>4. CASE m = n
  <2>1. positions'[m] = [positions[n] EXCEPT !.status = status, !.claimed = paid]
    BY <1>1, <1>3, <1>4
  <2>2. Terms(positions'[m]) = Terms(positions[n])
    BY <1>2, <2>1 DEF Terms, Position
  <2>3. IsFilled(n)
    BY DEF IsAccepted, IsFilled
  <2>. QED BY <1>4, <2>2, <2>3 DEF Kept
<1>5. CASE m # n
  BY <1>1, <1>3, <1>5 DEF IsFilled, Kept, IsAccepted
<1>. QED BY <1>4, <1>5

\* A filled position was filled before this step, on the same terms, or is the
\* order that this step accepts.
LEMMA FilledStep ==
    ASSUME TypeOK, [Next]_vars, NEW m \in Nonces, IsFilled(m)'
    PROVE  \/ Kept(m)
           \/ \E trader \in Traders, args \in OrderArgs :
                 /\ m = args.order_nonce
                 /\ OrderAdmitted(args)
                 /\ AcceptOrder(trader, args)
                 /\ UNCHANGED marketVars
<1>1. positions \in [Nonces -> Position \cup {NoAccount}]
  BY DEF TypeOK
<1>2. ASSUME UNCHANGED positions
      PROVE  Kept(m)
  BY <1>2 DEF IsFilled, Kept, IsAccepted
<1>3. ASSUME NEW trader \in Traders, NEW args \in OrderArgs,
             PlaceFixedPayoutOrder(trader, args)
      PROVE  \/ Kept(m)
             \/ /\ m = args.order_nonce
                /\ OrderAdmitted(args)
                /\ AcceptOrder(trader, args)
                /\ UNCHANGED marketVars
  <2>1. args.order_nonce \in Nonces
    BY DEF Args
  <2>2. CASE RefundStaleOrder(trader, args)
    <3>1. positions' = [positions EXCEPT ![args.order_nonce] = NewPosition(trader, args)]
      BY <2>2 DEF RefundStaleOrder
    <3>2. NewPosition(trader, args).status = "Refunded"
      BY DEF NewPosition
    <3>3. m # args.order_nonce
      BY <1>1, <2>1, <3>1, <3>2 DEF IsFilled
    <3>4. positions'[m] = positions[m]
      BY <1>1, <3>1, <3>3
    <3>. QED BY <3>4 DEF IsFilled, Kept, IsAccepted
  <2>3. CASE AcceptOrder(trader, args)
    <3>1. CASE m = args.order_nonce
      BY <1>3, <2>3, <3>1 DEF PlaceFixedPayoutOrder
    <3>2. CASE m # args.order_nonce
      <4>1. positions'[m] = positions[m]
        BY <1>1, <2>3, <3>2 DEF AcceptOrder
      <4>. QED BY <4>1 DEF IsFilled, Kept, IsAccepted
    <3>. QED BY <3>1, <3>2
  <2>. QED BY <1>3, <2>2, <2>3 DEF PlaceFixedPayoutOrder
<1>4. ASSUME NEW trader \in Traders, NEW n \in Nonces,
             ClaimFixedPayout(trader, n) \/ ClaimVoidRefund(trader, n)
      PROVE  Kept(m)
  BY <1>4, TerminateKeepsTerms DEF ClaimFixedPayout, ClaimVoidRefund
<1>5. ASSUME NEW n \in Nonces, ReconcilePosition(n)
      PROVE  Kept(m)
  BY <1>5, TerminateKeepsTerms DEF ReconcilePosition
<1>6. ASSUME NEW trader \in Traders, NEW n \in Nonces,
             CloseFixedPayoutPosition(trader, n)
      PROVE  Kept(m)
  <2>1. positions'[m] \in {positions[m], NoAccount}
    BY <1>1, <1>6 DEF CloseFixedPayoutPosition
  <2>. QED BY <2>1 DEF IsFilled, Kept, IsAccepted
<1>7. CASE SetUp
  BY <1>2, <1>7 DEF SetUp, InitializeMarket, InitializeLiquidityVault
<1>8. CASE Liquidity
  BY <1>2, <1>8
     DEF Liquidity, DepositLiquidity, ReconcileVaultSurplus, WithdrawFreeLiquidity,
         SendLamports
<1>9. CASE Pricing
  BY <1>2, <1>9
     DEF Pricing, CommitTxlineQuote, VerifyTxlineQuote, IngestMaterialEvent
<1>10. CASE Resolution
  BY <1>2, <1>10
     DEF Resolution, ProveResolutionWithTxline, ProposeVoid, ApproveResolution,
         ExecuteResolution, ExecuteVoid
<1>11. CASE Tick \/ UNCHANGED vars
  BY <1>2, <1>11 DEF Tick, vars
<1>12. CASE Settlement
  BY <1>4, <1>5, <1>6, <1>12 DEF Settlement
<1>13. CASE Trading
  BY <1>3, <1>13 DEF Trading
<1>. QED BY <1>7, <1>8, <1>9, <1>10, <1>11, <1>12, <1>13 DEF Next

\* What the audit of one filled position asks.
AttestedTerms(p) ==
    /\ p.quote_sequence \in QuoteSequences
    /\ quote_receipts[p.quote_sequence] # NoAccount
    /\ quote_receipts[p.quote_sequence].currently_executable
    /\ quote_receipts[p.quote_sequence].payload_hash = p.payload_hash
    /\ p.price = IF p.side = "Yes" THEN quote_receipts[p.quote_sequence].yes_price
                                   ELSE quote_receipts[p.quote_sequence].no_price
    /\ p.quote_sequence = 1 <=>
          p.material_event_sequence = CANONICAL_INITIAL_EVENT_SEQUENCE
    /\ p.gross_payout = GrossPayout(p.stake, p.price)
    /\ p.gross_payout = p.stake + p.reserved_liability
    /\ p.gross_payout > p.stake

FilledInv == \A n \in Nonces : IsFilled(n) => AttestedTerms(positions[n])

\* An order that is accepted is filled at attested terms.
LEMMA AcceptedAtAttestedTerms ==
    ASSUME TypeOK, EvidenceInv, NEW trader \in Traders, NEW args \in OrderArgs,
           OrderAdmitted(args), AcceptOrder(trader, args)
    PROVE  AttestedTerms(positions'[args.order_nonce])
<1> DEFINE p == positions'[args.order_nonce]
           gross == GrossPayout(args.stake, ExecutionPrice(args.side))
<1>1. /\ p.side = args.side
      /\ p.stake = args.stake
      /\ p.price = ExecutionPrice(args.side)
      /\ p.gross_payout = gross
      /\ p.reserved_liability = gross - args.stake
      /\ p.quote_sequence = args.quote_sequence
      /\ p.payload_hash = args.payload_hash
      /\ p.material_event_sequence = args.material_event_sequence
  BY AcceptedPosition
<1>2. /\ gross = args.stake + (gross - args.stake)
      /\ gross > args.stake
      /\ gross = GrossPayout(args.stake, ExecutionPrice(args.side))
  <2>1. gross \in Int /\ args.stake \in Int /\ gross > args.stake
    BY AcceptedPosition DEF Args, U64
  <2> HIDE DEF gross
  <2>2. gross = args.stake + (gross - args.stake)
    BY <2>1
  <2>. QED BY <2>1, <2>2 DEF gross
<1>3. /\ args.quote_sequence = quote.sequence
      /\ args.payload_hash = quote.payload_hash
      /\ args.material_event_sequence = quote.material_event_sequence
      /\ quote.verified
  <2>1. /\ args.material_event_sequence \in MaterialSequences
        /\ market.latest_material_event_sequence \in MaterialSequences
    BY DEF Args, TypeOK, Market
  <2>2. args.material_event_sequence <= market.latest_material_event_sequence
    BY DEF OrderAdmitted
  <2>. QED
    BY <2>1, <2>2
       DEF AcceptOrder, Overtaken, QuoteExecutable, MaterialSequences,
           CANONICAL_INITIAL_EVENT_SEQUENCE, CANONICAL_GOAL_SEQUENCE
<1>4. /\ quote.sequence \in QuoteSequences
      /\ quote_receipts[quote.sequence] # NoAccount
      /\ quote_receipts[quote.sequence].currently_executable
      /\ quote_receipts[quote.sequence].payload_hash = quote.payload_hash
      /\ quote_receipts[quote.sequence].yes_price = quote.yes_price
      /\ quote_receipts[quote.sequence].no_price = quote.no_price
      /\ quote.sequence = 1 <=>
            quote.material_event_sequence = CANONICAL_INITIAL_EVENT_SEQUENCE
  BY <1>3 DEF EvidenceInv, VerifiedQuoteHasEvidence, QuoteNamesEpoch, QuoteSequences
<1>5. ExecutionPrice(args.side) = IF args.side = "Yes" THEN quote.yes_price
                                                       ELSE quote.no_price
  BY DEF ExecutionPrice
<1> HIDE DEF p, gross
<1>6. AttestedTerms(p)
  BY <1>1, <1>2, <1>3, <1>4, <1>5 DEF AttestedTerms
<1>. QED BY <1>6 DEF p

\* Every step keeps every filled position at attested terms.
LEMMA FilledInvStep ==
    ASSUME TypeOK, EvidenceInv, FilledInv, [Next]_vars
    PROVE  FilledInv'
<1> SUFFICES ASSUME NEW m \in Nonces, IsFilled(m)'
             PROVE  AttestedTerms(positions[m])'
  BY DEF FilledInv
<1>1. AttestedTerms(positions'[m])
  <2>1. CASE Kept(m)
    BY <2>1 DEF Kept, FilledInv, AttestedTerms, Terms
  <2>2. CASE \E trader \in Traders, args \in OrderArgs :
                /\ m = args.order_nonce
                /\ OrderAdmitted(args)
                /\ AcceptOrder(trader, args)
    BY <2>2, AcceptedAtAttestedTerms
  <2>. QED BY <2>1, <2>2, FilledStep
<1>2. positions'[m].quote_sequence \in QuoteSequences
  BY <1>1 DEF AttestedTerms
<1>3. quote_receipts'[positions'[m].quote_sequence]
        = quote_receipts[positions'[m].quote_sequence]
  BY <1>1, <1>2, ReceiptsPersist DEF AttestedTerms
<1>. QED BY <1>1, <1>3 DEF AttestedTerms

\* Every filled position, in every reachable state, can be audited from the
\* accounts: its price is the one TxLINE attested for the quote and the epoch
\* its trader signed, and its payout is its stake plus its reserved liability.
THEOREM FilledCorrect == Spec => []FilledAtAttestedTerms
<1>1. Init => EvidenceInv /\ FilledInv
  BY DEF Init, EvidenceInv, QuoteNamesEpoch, VerifiedQuoteHasEvidence, FilledInv, IsFilled
<1>2. FilledInv => FilledAtAttestedTerms
  BY DEF FilledInv, IsFilled, AttestedTerms, FilledAtAttestedTerms
<1>. QED BY <1>1, <1>2, EvidenceStep, FilledInvStep, TypeCorrect, PTL DEF Spec

-----------------------------------------------------------------------------
(***************************************************************************)
(* What the vault promises a trader: an order that the goal has overtaken  *)
(* never fills, and only a fill costs anything.                            *)
(***************************************************************************)

(***************************************************************************)
(* The market's quote is the recorded one: a committed quote shows the     *)
(* prices that derive from the odds recorded under its sequence.           *)
(***************************************************************************)
QuoteIsRecorded ==
    quote.sequence # 0 =>
        /\ quote.yes_price = YesPrice(RecordedPrices[quote.sequence], SPREAD_MICROS)
        /\ quote.no_price = NoPrice(RecordedPrices[quote.sequence], SPREAD_MICROS)

\* Only a commit changes the prices, and it takes them from the recorded odds.
LEMMA QuoteIsRecordedStep ==
    ASSUME TypeOK, QuoteIsRecorded, [Next]_vars
    PROVE  QuoteIsRecorded'
<1>1. quote \in Quote
  BY DEF TypeOK
<1>2. ASSUME quote'.sequence = quote.sequence,
             quote'.yes_price = quote.yes_price,
             quote'.no_price = quote.no_price
      PROVE  QuoteIsRecorded'
  BY <1>2 DEF QuoteIsRecorded
<1>3. ASSUME UNCHANGED quote
      PROVE  QuoteIsRecorded'
  BY <1>2, <1>3
<1>4. ASSUME NEW signer \in Keys, NEW q \in QuoteSequences, NEW m \in MaterialSequences,
             NEW odds \in Odds, CommitTxlineQuote(signer, q, m, odds)
      PROVE  QuoteIsRecorded'
  <2>1. odds.recorded = q
    BY <1>4 DEF CommitTxlineQuote, CanonicalQuote
  <2>2. /\ quote'.sequence = q
        /\ quote'.yes_price = YesPrice(RecordedPrices[odds.recorded], SPREAD_MICROS)
        /\ quote'.no_price = NoPrice(RecordedPrices[odds.recorded], SPREAD_MICROS)
    BY <1>4 DEF CommitTxlineQuote
  <2>. QED BY <2>1, <2>2 DEF QuoteIsRecorded
<1>5. ASSUME NEW odds \in Odds, VerifyTxlineQuote(odds)
      PROVE  QuoteIsRecorded'
  BY <1>1, <1>2, <1>5 DEF VerifyTxlineQuote, Quote
<1>6. ASSUME NEW signer \in Keys, NEW s \in MaterialSequences,
             IngestMaterialEvent(signer, s)
      PROVE  QuoteIsRecorded'
  BY <1>1, <1>2, <1>6 DEF IngestMaterialEvent, Quote
<1>7. CASE SetUp
  BY <1>3, <1>7 DEF SetUp, InitializeMarket, InitializeLiquidityVault, marketVars
<1>8. CASE Liquidity
  BY <1>3, <1>8
     DEF Liquidity, DepositLiquidity, ReconcileVaultSurplus, WithdrawFreeLiquidity,
         SendLamports, marketVars
<1>9. CASE Trading
  BY <1>3, <1>9 DEF Trading, PlaceFixedPayoutOrder, marketVars
<1>10. CASE Resolution
  BY <1>3, <1>10
     DEF Resolution, ProveResolutionWithTxline, ProposeVoid, ApproveResolution,
         ExecuteResolution, ExecuteVoid, marketVars
<1>11. CASE Settlement
  BY <1>3, <1>11
     DEF Settlement, ClaimFixedPayout, ClaimVoidRefund, ReconcilePosition,
         CloseFixedPayoutPosition, marketVars
<1>12. CASE Tick \/ UNCHANGED vars
  BY <1>3, <1>12 DEF Tick, vars, marketVars
<1>. QED
  BY <1>4, <1>5, <1>6, <1>7, <1>8, <1>9, <1>10, <1>11, <1>12 DEF Next, Pricing

\* An accepted order takes its price from a quote that is current, verified and
\* recorded for the epoch the trader signed.
LEMMA AcceptedAtRecordedPrice ==
    ASSUME TypeOK, EvidenceInv, QuoteIsRecorded,
           NEW trader \in Traders, NEW args \in OrderArgs,
           OrderAdmitted(args), AcceptOrder(trader, args)
    PROVE  LET p == positions'[args.order_nonce]
               epoch == IF market.latest_material_event_sequence
                               = CANONICAL_INITIAL_EVENT_SEQUENCE THEN 1 ELSE 2
           IN  /\ p.material_event_sequence = market.latest_material_event_sequence
               /\ quote_receipts[epoch] # NoAccount
               /\ p.price = IF p.side = "Yes"
                            THEN YesPrice(RecordedPrices[epoch], SPREAD_MICROS)
                            ELSE NoPrice(RecordedPrices[epoch], SPREAD_MICROS)
<1> DEFINE p == positions'[args.order_nonce]
           epoch == IF market.latest_material_event_sequence
                           = CANONICAL_INITIAL_EVENT_SEQUENCE THEN 1 ELSE 2
<1>1. /\ args.material_event_sequence \in MaterialSequences
      /\ market.latest_material_event_sequence \in MaterialSequences
  BY DEF Args, TypeOK, Market
<1>2. /\ p.side = args.side
      /\ p.price = ExecutionPrice(args.side)
      /\ p.material_event_sequence = args.material_event_sequence
  BY AcceptedPosition
<1>3. args.material_event_sequence = market.latest_material_event_sequence
  BY <1>1 DEF OrderAdmitted, AcceptOrder, Overtaken, MaterialSequences,
              CANONICAL_INITIAL_EVENT_SEQUENCE, CANONICAL_GOAL_SEQUENCE
<1>4. /\ quote.material_event_sequence = market.latest_material_event_sequence
      /\ quote.sequence \in QuoteSequences
      /\ quote_receipts[quote.sequence] # NoAccount
  BY DEF AcceptOrder, QuoteExecutable, EvidenceInv, VerifiedQuoteHasEvidence
<1>5. quote.sequence = epoch
  BY <1>4 DEF EvidenceInv, QuoteNamesEpoch, QuoteSequences
<1>6. ExecutionPrice(args.side) = IF args.side = "Yes"
                                  THEN YesPrice(RecordedPrices[epoch], SPREAD_MICROS)
                                  ELSE NoPrice(RecordedPrices[epoch], SPREAD_MICROS)
  BY <1>4, <1>5 DEF QuoteIsRecorded, ExecutionPrice, QuoteSequences
<1> HIDE DEF p, epoch
<1>7. /\ p.material_event_sequence = market.latest_material_event_sequence
      /\ quote_receipts[epoch] # NoAccount
      /\ p.price = IF p.side = "Yes"
                   THEN YesPrice(RecordedPrices[epoch], SPREAD_MICROS)
                   ELSE NoPrice(RecordedPrices[epoch], SPREAD_MICROS)
  BY <1>2, <1>3, <1>4, <1>5, <1>6
<1>. QED BY <1>7 DEF p, epoch

\* A position that fills in a step is the order that the step accepts.
LEMMA FillsByAcceptance ==
    ASSUME TypeOK, [Next]_vars, NEW n \in Nonces, Fills(n)
    PROVE  \E trader \in Traders, args \in OrderArgs :
              n = args.order_nonce /\ OrderAdmitted(args) /\ AcceptOrder(trader, args)
<1>1. IsFilled(n)' /\ ~Kept(n)
  BY DEF Fills, IsFilled, IsAccepted, Kept
<1>. QED BY <1>1, FilledStep

\* However late it lands, an order fills only at the price recorded for the
\* market's current epoch and only if its trader had seen that epoch: an order
\* signed before the goal never fills after it.
THEOREM GoalCorrect == Spec => NoFillAcrossTheGoal
<1> DEFINE Recorded(n) ==
             LET p == positions'[n]
                 epoch == IF market.latest_material_event_sequence
                                 = CANONICAL_INITIAL_EVENT_SEQUENCE THEN 1 ELSE 2
             IN  /\ p.material_event_sequence = market.latest_material_event_sequence
                 /\ quote_receipts[epoch] # NoAccount
                 /\ p.price = IF p.side = "Yes"
                              THEN YesPrice(RecordedPrices[epoch], SPREAD_MICROS)
                              ELSE NoPrice(RecordedPrices[epoch], SPREAD_MICROS)
<1>1. Init => EvidenceInv /\ QuoteIsRecorded
  BY DEF Init, EvidenceInv, QuoteNamesEpoch, VerifiedQuoteHasEvidence, QuoteIsRecorded
<1>2. ASSUME TypeOK, EvidenceInv, QuoteIsRecorded, [Next]_vars
      PROVE  [\A n \in Nonces : Fills(n) => Recorded(n)]_vars
  <2>1. ASSUME NEW n \in Nonces, Fills(n)
        PROVE  Recorded(n)
    BY <1>2, <2>1, FillsByAcceptance, AcceptedAtRecordedPrice
  <2>. QED BY <2>1
<1>. QED
  BY <1>1, <1>2, EvidenceStep, QuoteIsRecordedStep, TypeCorrect, PTL
     DEF Spec, NoFillAcrossTheGoal

(***************************************************************************)
(* What can happen to one position in a step, and why a nonce is fresh.    *)
(***************************************************************************)

\* A position changes only by an order with its nonce, by its own settlement,
\* or by being closed.
LEMMA PositionFate ==
    ASSUME TypeOK, [Next]_vars, NEW m \in Nonces
    PROVE  \/ positions'[m] = positions[m]
           \/ \E trader \in Traders, args \in OrderArgs :
                 m = args.order_nonce /\ PlaceFixedPayoutOrder(trader, args)
           \/ \E trader \in Traders :
                 \/ ClaimFixedPayout(trader, m)
                 \/ ClaimVoidRefund(trader, m)
                 \/ CloseFixedPayoutPosition(trader, m)
           \/ ReconcilePosition(m)
<1>1. positions \in [Nonces -> Position \cup {NoAccount}]
  BY DEF TypeOK
<1>2. CASE SetUp
  BY <1>2 DEF SetUp, InitializeMarket, InitializeLiquidityVault
<1>3. CASE Liquidity
  BY <1>3
     DEF Liquidity, DepositLiquidity, ReconcileVaultSurplus, WithdrawFreeLiquidity,
         SendLamports
<1>4. CASE Pricing
  BY <1>4 DEF Pricing, CommitTxlineQuote, VerifyTxlineQuote, IngestMaterialEvent
<1>5. CASE Resolution
  BY <1>5
     DEF Resolution, ProveResolutionWithTxline, ProposeVoid, ApproveResolution,
         ExecuteResolution, ExecuteVoid
<1>6. CASE Tick \/ UNCHANGED vars
  BY <1>6 DEF Tick, vars
<1>7. ASSUME NEW trader \in Traders, NEW args \in OrderArgs,
             PlaceFixedPayoutOrder(trader, args), m # args.order_nonce
      PROVE  positions'[m] = positions[m]
  BY <1>1, <1>7 DEF PlaceFixedPayoutOrder, RefundStaleOrder, AcceptOrder
<1>8. ASSUME NEW n \in Nonces, n # m, NEW status, NEW paid, Terminate(n, status, paid)
      PROVE  positions'[m] = positions[m]
  BY <1>1, <1>8 DEF Terminate
<1>9. ASSUME NEW trader \in Traders, NEW n \in Nonces, n # m,
             \/ ClaimFixedPayout(trader, n)
             \/ ClaimVoidRefund(trader, n)
             \/ CloseFixedPayoutPosition(trader, n)
      PROVE  positions'[m] = positions[m]
  BY <1>1, <1>8, <1>9 DEF ClaimFixedPayout, ClaimVoidRefund, CloseFixedPayoutPosition
<1>10. ASSUME NEW n \in Nonces, n # m, ReconcilePosition(n)
       PROVE  positions'[m] = positions[m]
  BY <1>8, <1>10 DEF ReconcilePosition
<1>. QED
  BY <1>2, <1>3, <1>4, <1>5, <1>6, <1>7, <1>9, <1>10 DEF Next, Trading, Settlement

\* A nonce that was not handed out yet names no account.
NoncesAreFresh == \A n \in Nonces : n >= counters.next_order_nonce => positions[n] = NoAccount

\* The nonce only moves with an order, by one.
LEMMA NonceAdvances ==
    ASSUME TypeOK, [Next]_vars
    PROVE  /\ counters.next_order_nonce \in Nat
           /\ \/ counters'.next_order_nonce = counters.next_order_nonce
              \/ /\ counters'.next_order_nonce = counters.next_order_nonce + 1
                 /\ \E trader \in Traders, args \in OrderArgs :
                       PlaceFixedPayoutOrder(trader, args)
<1>1. counters \in Counters /\ counters.next_order_nonce \in Nat
  BY DEF TypeOK, Counters, U64
<1> DEFINE Same == counters'.next_order_nonce = counters.next_order_nonce
<1>2. ASSUME NEW v, NEW l, SettleAccounts(v, l, counters)
      PROVE  Same
  BY <1>1, <1>2 DEF SettleAccounts, Counters
<1>3. CASE UNCHANGED counters
  BY <1>1, <1>3
<1>4. CASE SetUp
  BY <1>3, <1>4 DEF SetUp, InitializeMarket, InitializeLiquidityVault, vaultVars
<1>5. CASE Liquidity
  BY <1>1, <1>2, <1>3, <1>5
     DEF Liquidity, DepositLiquidity, ReconcileVaultSurplus, WithdrawFreeLiquidity,
         SendLamports
<1>6. CASE Pricing
  BY <1>3, <1>6
     DEF Pricing, CommitTxlineQuote, VerifyTxlineQuote, IngestMaterialEvent, vaultVars
<1>7. ASSUME NEW trader \in Traders, NEW args \in OrderArgs,
             PlaceFixedPayoutOrder(trader, args)
      PROVE  counters'.next_order_nonce = counters.next_order_nonce + 1
  <2>1. counters' = [CountOrder EXCEPT !.accounting_sequence = @ + 1]
    BY <1>7 DEF PlaceFixedPayoutOrder, RefundStaleOrder, AcceptOrder, SettleAccounts
  <2>. QED BY <1>1, <2>1 DEF CountOrder, Counters
<1>8. CASE Resolution
  BY <1>3, <1>8
     DEF Resolution, ProveResolutionWithTxline, ProposeVoid, ApproveResolution,
         ExecuteResolution, ExecuteVoid, vaultVars
<1>9. ASSUME NEW trader \in Traders, NEW n \in Nonces,
             \/ ClaimFixedPayout(trader, n)
             \/ ClaimVoidRefund(trader, n)
             \/ CloseFixedPayoutPosition(trader, n)
      PROVE  Same
  BY <1>1, <1>2, <1>9
     DEF ClaimFixedPayout, ClaimVoidRefund, CloseFixedPayoutPosition, Counters
<1>10. ASSUME NEW n \in Nonces, ReconcilePosition(n)
       PROVE  Same
  BY <1>2, <1>10 DEF ReconcilePosition
<1>11. CASE Tick \/ UNCHANGED vars
  BY <1>3, <1>11 DEF Tick, vars, vaultVars
<1>. QED
  BY <1>1, <1>4, <1>5, <1>6, <1>7, <1>8, <1>9, <1>10, <1>11
     DEF Next, Trading, Settlement

\* A fresh nonce stays fresh until an order takes it.
LEMMA NoncesAreFreshStep ==
    ASSUME TypeOK, NoncesAreFresh, [Next]_vars
    PROVE  NoncesAreFresh'
<1> SUFFICES ASSUME NEW m \in Nonces, m >= counters'.next_order_nonce
             PROVE  positions'[m] = NoAccount
  BY DEF NoncesAreFresh
<1>1. m \in Nat /\ m >= counters.next_order_nonce
  BY NonceAdvances DEF Nonces
<1>2. positions[m] = NoAccount
  BY <1>1 DEF NoncesAreFresh
<1>3. ASSUME NEW trader \in Traders, NEW args \in OrderArgs,
             m = args.order_nonce, PlaceFixedPayoutOrder(trader, args)
      PROVE  FALSE
  <2>1. counters' = [CountOrder EXCEPT !.accounting_sequence = @ + 1]
    BY <1>3 DEF PlaceFixedPayoutOrder, RefundStaleOrder, AcceptOrder, SettleAccounts
  <2>2. counters'.next_order_nonce = counters.next_order_nonce + 1
    BY <2>1 DEF CountOrder, Counters, TypeOK
  <2>3. args.order_nonce = counters.next_order_nonce
    BY <1>3 DEF PlaceFixedPayoutOrder, OrderAdmitted
  <2>. QED BY <1>1, <1>3, <2>2, <2>3, NonceAdvances
<1>. QED
  BY <1>2, <1>3, PositionFate
     DEF ClaimFixedPayout, ClaimVoidRefund, CloseFixedPayoutPosition,
         ReconcilePosition, IsAccepted

\* An order is placed where no position is.
LEMMA PlacedAtFreshNonce ==
    ASSUME TypeOK, NoncesAreFresh, NEW trader \in Traders, NEW args \in OrderArgs,
           PlaceFixedPayoutOrder(trader, args)
    PROVE  args.order_nonce \in Nonces /\ positions[args.order_nonce] = NoAccount
BY DEF PlaceFixedPayoutOrder, OrderAdmitted, NoncesAreFresh, TypeOK, Counters, U64, Args, Nonces

\* A trader's lamports leave their account only as the stake of the order that
\* is accepted in the same step.
LEMMA CostOfAStep ==
    ASSUME TypeOK, NoncesAreFresh, [Next]_vars, NEW t \in Traders,
           wallet'[t] < wallet[t]
    PROVE  \E n \in Nonces : /\ Fills(n)
                             /\ positions'[n].owner = t
                             /\ positions'[n].stake = wallet[t] - wallet'[t]
<1>1. /\ wallet \in [Lamporters -> Nat]
      /\ t \in Lamporters
      /\ t # Operator
      /\ t # Stranger
      /\ positions \in [Nonces -> Position \cup {NoAccount}]
  BY DEF TypeOK, Lamporters
<1>2. ASSUME NEW from \in Lamporters, NEW amount \in Nat, TransferIn(from, amount),
             from # t
      PROVE  FALSE
  BY <1>1, <1>2 DEF TransferIn
<1>3. ASSUME NEW to \in Lamporters, NEW amount \in Nat, MoveOut(to, amount)
      PROVE  FALSE
  BY <1>1, <1>3 DEF MoveOut
<1>4. ASSUME UNCHANGED wallet
      PROVE  FALSE
  BY <1>1, <1>4
<1>5. ASSUME NEW trader \in Traders, NEW args \in OrderArgs,
             PlaceFixedPayoutOrder(trader, args)
      PROVE  \E n \in Nonces : /\ Fills(n)
                               /\ positions'[n].owner = t
                               /\ positions'[n].stake = wallet[t] - wallet'[t]
  <2> DEFINE n == args.order_nonce
  <2>1. n \in Nonces /\ positions[n] = NoAccount /\ args.stake \in Nat
    BY <1>5, PlacedAtFreshNonce DEF Args, U64
  <2>2. AcceptOrder(trader, args)
    BY <1>4, <1>5 DEF PlaceFixedPayoutOrder, RefundStaleOrder, NoLamportsMove
  <2>3. TransferIn(trader, args.stake) /\ trader \in Lamporters
    BY <2>2 DEF AcceptOrder, Lamporters
  <2>4. trader = t
    BY <1>2, <2>1, <2>3
  <2>5. wallet[t] - wallet'[t] = args.stake
    BY <1>1, <2>1, <2>3, <2>4 DEF TransferIn
  <2>6. /\ positions'[n] \in Position
        /\ positions'[n].owner = t
        /\ positions'[n].stake = args.stake
        /\ positions'[n].status = "Accepted"
    BY <2>2, <2>4, AcceptedPosition
  <2>7. Fills(n)
    BY <2>1, <2>6 DEF Fills, IsAccepted
  <2>. QED BY <2>1, <2>5, <2>6, <2>7
<1>6. ASSUME NEW amount \in Amounts,
             \/ DepositLiquidity(amount)
             \/ WithdrawFreeLiquidity(amount)
             \/ SendLamports(Stranger, amount)
      PROVE  FALSE
  BY <1>1, <1>2, <1>3, <1>6
     DEF DepositLiquidity, WithdrawFreeLiquidity, SendLamports, Lamporters
<1>7. ASSUME NEW trader \in Traders, NEW n \in Nonces,
             ClaimFixedPayout(trader, n) \/ ClaimVoidRefund(trader, n)
      PROVE  FALSE
  <2>1. /\ positions[n].stake \in Nat
        /\ positions[n].gross_payout \in Nat
        /\ trader \in Lamporters
    BY <1>7, PositionAmounts DEF ClaimFixedPayout, ClaimVoidRefund, U64, Lamporters
  <2>. QED BY <1>3, <1>7, <2>1 DEF ClaimFixedPayout, ClaimVoidRefund
<1>8. CASE SetUp
  BY <1>4, <1>8 DEF SetUp, InitializeMarket, InitializeLiquidityVault, vaultVars
<1>9. CASE ReconcileVaultSurplus
  BY <1>4, <1>9 DEF ReconcileVaultSurplus, NoLamportsMove
<1>10. CASE Pricing
  BY <1>4, <1>10
     DEF Pricing, CommitTxlineQuote, VerifyTxlineQuote, IngestMaterialEvent, vaultVars
<1>11. CASE Resolution
  BY <1>4, <1>11
     DEF Resolution, ProveResolutionWithTxline, ProposeVoid, ApproveResolution,
         ExecuteResolution, ExecuteVoid, vaultVars
<1>12. ASSUME NEW trader \in Traders, NEW n \in Nonces,
              CloseFixedPayoutPosition(trader, n)
       PROVE  FALSE
  BY <1>4, <1>12 DEF CloseFixedPayoutPosition
<1>13. CASE Tick \/ UNCHANGED vars
  BY <1>4, <1>13 DEF Tick, vars, vaultVars
<1>14. ASSUME NEW n \in Nonces, ReconcilePosition(n)
       PROVE  FALSE
  BY <1>4, <1>14 DEF ReconcilePosition, NoLamportsMove
<1>. QED
  BY <1>5, <1>6, <1>7, <1>8, <1>9, <1>10, <1>11, <1>12, <1>13, <1>14
     DEF Next, Liquidity, Trading, Settlement

\* In every behaviour, an order that came too late or that the vault cannot
\* reserve for costs its trader nothing: only a fill does, and exactly its stake.
THEOREM CostCorrect == Spec => OnlyFillsCost
<1>1. Init => NoncesAreFresh
  BY DEF Init, NoncesAreFresh
<1>2. ASSUME TypeOK, NoncesAreFresh, [Next]_vars
      PROVE  [\A t \in Traders : wallet'[t] < wallet[t] =>
                 \E n \in Nonces : /\ Fills(n)
                                   /\ positions'[n].owner = t
                                   /\ positions'[n].stake = wallet[t] - wallet'[t]]_vars
  BY <1>2, CostOfAStep
<1>. QED
  BY <1>1, <1>2, NoncesAreFreshStep, TypeCorrect, PTL DEF Spec, OnlyFillsCost

(***************************************************************************)
(* Settlement.                                                             *)
(***************************************************************************)

\* Terminating position n gives it the status and the amount, and keeps its
\* terms.
LEMMA TerminateOutcome ==
    ASSUME TypeOK, NEW n \in Nonces, IsAccepted(n),
           NEW status \in {"Claimed", "Lost", "Voided"}, NEW paid \in U64,
           Terminate(n, status, paid)
    PROVE  /\ positions'[n] # NoAccount
           /\ positions'[n] = [positions[n] EXCEPT !.status = status, !.claimed = paid]
           /\ positions'[n].status = status
<1> DEFINE q == [positions[n] EXCEPT !.status = status, !.claimed = paid]
<1>1. positions \in [Nonces -> Position \cup {NoAccount}]
  BY DEF TypeOK
<1>2. positions[n] \in Position
  BY <1>1 DEF IsAccepted
<1>3. positions' = [positions EXCEPT ![n] = q]
  BY <1>1 DEF Terminate
<1>4. q \in Position /\ q.status = status
  BY <1>2 DEF Position
<1>. QED BY <1>1, <1>3, <1>4

\* A payment out of the vault reaches its account.
LEMMA MoveOutPays ==
    ASSUME TypeOK, NEW to \in Traders, NEW amount, MoveOut(to, amount)
    PROVE  wallet'[to] = wallet[to] + amount
BY DEF TypeOK, MoveOut, Lamporters

\* What a step that ends position n does.
SettlesAsOwed(n) ==
    LET p == positions[n]
        q == positions'[n]
    IN  /\ market.resolved
        /\ q # NoAccount
        /\ wallet'[p.owner] = wallet[p.owner] + SettledPayment(n)
        /\ q = [p EXCEPT !.status = q.status, !.claimed = SettledPayment(n)]
        /\ q.status = IF market.resolution = "Void" THEN "Voided"
                      ELSE IF PositionWon(n) THEN "Claimed" ELSE "Lost"

\* A position that leaves Accepted is settled as the resolution says.
LEMMA SettlementStep ==
    ASSUME TypeOK, NoncesAreFresh, [Next]_vars, NEW n \in Nonces,
           IsAccepted(n), ~IsAccepted(n)'
    PROVE  SettlesAsOwed(n)
<1>1. positions[n] \in Position /\ positions[n].owner \in Traders
  BY PositionAmounts
<1>2. ASSUME NEW trader \in Traders, NEW args \in OrderArgs,
             n = args.order_nonce, PlaceFixedPayoutOrder(trader, args)
      PROVE  FALSE
  BY <1>2, PlacedAtFreshNonce DEF IsAccepted
<1>3. ASSUME NEW trader \in Traders, CloseFixedPayoutPosition(trader, n)
      PROVE  FALSE
  BY <1>3 DEF CloseFixedPayoutPosition, IsAccepted
<1>4. ASSUME NEW trader \in Traders, ClaimFixedPayout(trader, n)
      PROVE  SettlesAsOwed(n)
  <2> DEFINE gross == positions[n].gross_payout
  <2>1. /\ market.resolved
        /\ market.resolution # "Void"
        /\ PositionWon(n)
        /\ positions[n].owner = trader
        /\ MoveOut(trader, gross)
        /\ Terminate(n, "Claimed", gross)
    BY <1>4 DEF ClaimFixedPayout
  <2>2. gross \in U64
    BY PositionAmounts
  <2>3. SettledPayment(n) = gross
    BY <2>1 DEF SettledPayment
  <2> HIDE DEF gross
  <2>. QED BY <2>1, <2>2, <2>3, TerminateOutcome, MoveOutPays DEF SettlesAsOwed
<1>5. ASSUME NEW trader \in Traders, ClaimVoidRefund(trader, n)
      PROVE  SettlesAsOwed(n)
  <2> DEFINE stake == positions[n].stake
  <2>1. /\ market.resolved
        /\ market.resolution = "Void"
        /\ positions[n].owner = trader
        /\ MoveOut(trader, stake)
        /\ Terminate(n, "Voided", stake)
    BY <1>5 DEF ClaimVoidRefund
  <2>2. stake \in U64
    BY PositionAmounts
  <2>3. SettledPayment(n) = stake
    BY <2>1 DEF SettledPayment
  <2> HIDE DEF stake
  <2>4. /\ positions'[n] # NoAccount
        /\ positions'[n] = [positions[n] EXCEPT !.status = "Voided", !.claimed = stake]
        /\ positions'[n].status = "Voided"
    BY <2>1, <2>2, TerminateOutcome
  <2>5. wallet'[trader] = wallet[trader] + stake
    BY <2>1, MoveOutPays
  <2>. QED BY <2>1, <2>3, <2>4, <2>5 DEF SettlesAsOwed
<1>6. ASSUME ReconcilePosition(n)
      PROVE  SettlesAsOwed(n)
  <2>1. /\ market.resolved
        /\ market.resolution # "Void"
        /\ ~PositionWon(n)
        /\ wallet' = wallet
        /\ Terminate(n, "Lost", 0)
    BY <1>6 DEF ReconcilePosition, NoLamportsMove
  <2>2. SettledPayment(n) = 0
    BY <2>1 DEF SettledPayment
  <2>3. wallet[positions[n].owner] \in Nat /\ 0 \in U64
    BY <1>1 DEF TypeOK, Lamporters, U64
  <2>4. wallet'[positions[n].owner] = wallet[positions[n].owner] + SettledPayment(n)
    BY <2>1, <2>2, <2>3
  <2>. QED BY <2>1, <2>2, <2>3, <2>4, TerminateOutcome DEF SettlesAsOwed
<1>. QED
  BY <1>2, <1>3, <1>4, <1>5, <1>6, PositionFate DEF IsAccepted

\* In every behaviour, a position that leaves Accepted does so on a resolved
\* market, is paid in that step exactly what the resolution owes, and was filled
\* at the terms it ends with.
THEOREM SettlementCorrect == Spec => SettlementPaysTheTerms
<1>1. Init => NoncesAreFresh
  BY DEF Init, NoncesAreFresh
<1>2. ASSUME TypeOK, NoncesAreFresh, [Next]_vars
      PROVE  [\A n \in Nonces : IsAccepted(n) /\ ~IsAccepted(n)' => SettlesAsOwed(n)]_vars
  BY <1>2, SettlementStep
<1>. QED
  BY <1>1, <1>2, NoncesAreFreshStep, TypeCorrect, PTL
     DEF Spec, SettlementPaysTheTerms, SettlesAsOwed

(***************************************************************************)
(* Resolution.                                                             *)
(***************************************************************************)

\* Five keys are at most five.
LEMMA AtMostFive ==
    ASSUME NEW a, NEW b, NEW c, NEW d, NEW e
    PROVE  Cardinality({a, b, c, d, e}) <= 5
<1> DEFINE S == {a, b, c, d, e}
           f == [i \in 1 .. 5 |-> IF i = 1 THEN a ELSE IF i = 2 THEN b
                                  ELSE IF i = 3 THEN c ELSE IF i = 4 THEN d ELSE e]
<1>1. f \in [1 .. 5 -> S]
  OBVIOUS
<1>2. f[1] = a /\ f[2] = b /\ f[3] = c /\ f[4] = d /\ f[5] = e
  OBVIOUS
<1>3. \A t \in S : \E i \in 1 .. 5 : f[i] = t
  BY <1>2
<1> HIDE DEF f
<1>4. f \in Surjection(1 .. 5, S)
  BY <1>1, <1>3 DEF Surjection
<1>5. ExistsSurjection(1 .. 5, S)
  BY <1>4 DEF ExistsSurjection
<1>. QED BY <1>5, FS_SurjCardinalityBound

\* Valid authorities are six different keys: no two resolvers are the same, and
\* none of them is on the trading desk.
LEMMA AuthoritiesDiffer ==
    ASSUME NEW c, ValidAuthorities(c)
    PROVE  /\ \A i, j \in ResolverIndex :
                 c.resolution_authorities[i] = c.resolution_authorities[j] => i = j
           /\ \A i \in ResolverIndex :
                 c.resolution_authorities[i]
                     \notin {c.operator, c.feed_authority, c.pricing_authority}
<1> DEFINE k == c.operator
           l == c.feed_authority
           m == c.pricing_authority
           x == c.resolution_authorities[1]
           y == c.resolution_authorities[2]
           z == c.resolution_authorities[3]
<1>1. ResolverIndex = {1, 2, 3}
  BY DEF ResolverIndex
<1>2. {c.resolution_authorities[i] : i \in ResolverIndex} = {x, y, z}
  BY <1>1
<1>3. Cardinality({k, l, m, x, y, z}) = 6
  <2>1. {k, l, m} \cup {x, y, z} = {k, l, m, x, y, z}
    OBVIOUS
  <2>. QED BY <1>2, <2>1 DEF ValidAuthorities
<1> HIDE DEF k, l, m, x, y, z
<1>4. ASSUME NEW p, NEW q, NEW r, NEW s, NEW t,
             {k, l, m, x, y, z} = {p, q, r, s, t}
      PROVE  FALSE
  <2>1. Cardinality({p, q, r, s, t}) <= 5
    BY AtMostFive
  <2>2. Cardinality({p, q, r, s, t}) = 6
    BY <1>3, <1>4
  <2>. QED BY <2>1, <2>2
<1>5. x # y
  <2>1. x = y => {k, l, m, x, y, z} = {k, l, m, y, z}
    OBVIOUS
  <2>. QED BY <1>4, <2>1
<1>6. x # z
  <2>1. x = z => {k, l, m, x, y, z} = {k, l, m, y, z}
    OBVIOUS
  <2>. QED BY <1>4, <2>1
<1>7. y # z
  <2>1. y = z => {k, l, m, x, y, z} = {k, l, m, x, z}
    OBVIOUS
  <2>. QED BY <1>4, <2>1
<1>8. ASSUME NEW d \in {k, l, m}
      PROVE  x # d /\ y # d /\ z # d
  <2>1. x = d => {k, l, m, x, y, z} = {k, l, m, y, z}
    OBVIOUS
  <2>2. y = d => {k, l, m, x, y, z} = {k, l, m, x, z}
    OBVIOUS
  <2>3. z = d => {k, l, m, x, y, z} = {k, l, m, x, y}
    OBVIOUS
  <2>. QED BY <1>4, <2>1, <2>2, <2>3
<1>. QED BY <1>1, <1>5, <1>6, <1>7, <1>8 DEF k, l, m, x, y, z

\* A threshold of two means two.
LEMMA TwoApprovals ==
    ASSUME NEW mask \in SUBSET ResolverIndex, Cardinality(mask) >= 2
    PROVE  IsFiniteSet(mask) /\ \E i, j \in mask : i # j
<1>1. IsFiniteSet(mask)
  <2>1. 1 \in Int /\ 3 \in Int
    OBVIOUS
  <2>2. IsFiniteSet(1 .. 3)
    BY <2>1, FS_Interval, Zenon
  <2>. QED BY <2>2, FS_Subset DEF ResolverIndex
<1>2. mask # {}
  <2>1. mask = {} => Cardinality(mask) = 0
    BY FS_EmptySet
  <2>. QED BY <2>1
<1>3. ASSUME NEW i, mask = {i}
      PROVE  FALSE
  <2>1. Cardinality(mask) = 1
    BY <1>3, FS_Singleton
  <2>. QED BY <2>1
<1>. QED BY <1>1, <1>2, <1>3

\* Two different members make at least two.
LEMMA AtLeastTwo ==
    ASSUME NEW S, IsFiniteSet(S), NEW x \in S, NEW y \in S, x # y
    PROVE  Cardinality(S) >= 2
<1>1. IsFiniteSet(S) /\ Cardinality(S) \in Nat
  BY FS_CardinalityType
<1>2. Cardinality(S) # 0
  BY FS_EmptySet
<1>3. Cardinality(S) # 1
  BY FS_Singleton
<1>. QED BY <1>1, <1>2, <1>3

(***************************************************************************)
(* What is known of a proposal.  Its account is created once, with or      *)
(* without a receipt, and executed at most once.                           *)
(***************************************************************************)
AuthoritiesAreValid ==
    IF "market" \in initialized THEN ValidAuthorities(authority_config)
                                ELSE resolution_proposal = NoAccount

ProposalIsSound ==
    IF resolution_proposal = NoAccount
    THEN resolution_receipt = NoAccount /\ ~market.resolved
    ELSE /\ market.trading_closed
         /\ resolution_proposal.executed = market.resolved
         /\ market.resolved =>
               ThresholdMet /\ market.resolution = resolution_proposal.derived_outcome
         /\ IF resolution_receipt = NoAccount
            THEN resolution_proposal.derived_outcome = "Void" /\ now >= VoidEligibleAt
            ELSE /\ resolution_proposal.derived_outcome = resolution_receipt.derived_outcome
                 /\ resolution_receipt.derived_outcome =
                       IF resolution_receipt.home_regulation_score
                            > resolution_receipt.away_regulation_score
                       THEN "Yes" ELSE "No"

ResolutionInv == AuthoritiesAreValid /\ ProposalIsSound

\* A proposal that is executed carries the approvals of two resolvers.
LEMMA ExecutedIsAuthorised ==
    ASSUME TypeOK, ResolutionInv
    PROVE  ResolutionIsAuthorised
<1> SUFFICES ASSUME market.resolved
             PROVE  ResolutionIsAuthorised
  BY DEF ResolutionIsAuthorised
<1>1. /\ resolution_proposal # NoAccount
      /\ resolution_proposal \in ResolutionProposal
      /\ ValidAuthorities(authority_config)
      /\ ThresholdMet
  BY DEF TypeOK, ResolutionInv, AuthoritiesAreValid, ProposalIsSound
<1> DEFINE mask == resolution_proposal.approvals_mask
           key == authority_config.resolution_authorities
<1>2. /\ mask \in SUBSET ResolverIndex
      /\ Cardinality(mask) >= 2
  BY <1>1 DEF ResolutionProposal, ThresholdMet, RESOLUTION_THRESHOLD
<1>3. IsFiniteSet(mask)
  BY <1>2, TwoApprovals
<1>4. PICK i \in mask, j \in mask : i # j
  BY <1>2, TwoApprovals
<1>5. key[i] # key[j]
  BY <1>1, <1>2, <1>4, AuthoritiesDiffer
<1>6. IsFiniteSet(Approvers)
  <2> DEFINE f == [n \in mask |-> key[n]]
  <2>1. f \in Surjection(mask, Approvers)
    BY DEF Surjection, Approvers
  <2>. QED BY <1>3, <2>1, FS_Surjection
<1>7. key[i] \in Approvers /\ key[j] \in Approvers
  BY DEF Approvers
<1>8. Cardinality(Approvers) >= RESOLUTION_THRESHOLD
  BY <1>5, <1>6, <1>7, AtLeastTwo DEF RESOLUTION_THRESHOLD
<1>9. {authority_config.operator, authority_config.feed_authority,
       authority_config.pricing_authority} \cap Approvers = {}
  BY <1>1, <1>2, AuthoritiesDiffer DEF Approvers
<1>. QED BY <1>1, <1>8, <1>9 DEF ResolutionIsAuthorised, ResolutionInv, ProposalIsSound

\* Every step keeps what is known of the authorities and the proposal.
LEMMA ResolutionStep ==
    ASSUME TypeOK, ResolutionInv, [Next]_vars
    PROVE  ResolutionInv'
<1>1. /\ market \in Market
      /\ now \in Nat
      /\ resolution_receipt \in ResolutionReceipt \cup {NoAccount}
      /\ resolution_proposal \in ResolutionProposal \cup {NoAccount}
  BY DEF TypeOK
<1> USE DEF ResolutionInv
<1>2. ASSUME UNCHANGED <<authority_config, resolutionVars>>,
             "market" \in initialized <=> "market" \in initialized',
             market'.trading_closed = market.trading_closed,
             market'.resolved = market.resolved,
             market'.resolution = market.resolution,
             now' \in Nat, now' >= now
      PROVE  ResolutionInv'
  BY <1>1, <1>2 DEF AuthoritiesAreValid, ProposalIsSound, ThresholdMet, resolutionVars
<1>3. ASSUME UNCHANGED <<initialized, authority_config, resolutionVars, market, now>>
      PROVE  ResolutionInv'
  BY <1>1, <1>2, <1>3
<1>4. ASSUME NEW config \in CandidateConfigs, InitializeMarket(config)
      PROVE  ResolutionInv'
  BY <1>4 DEF InitializeMarket, AuthoritiesAreValid, ProposalIsSound, resolutionVars
<1>5. ASSUME NEW bounds \in StakeBounds, InitializeLiquidityVault(bounds)
      PROVE  ResolutionInv'
  BY <1>1, <1>2, <1>5 DEF InitializeLiquidityVault, marketVars
<1>6. ASSUME NEW signer \in Keys, NEW s \in MaterialSequences,
             IngestMaterialEvent(signer, s)
      PROVE  ResolutionInv'
  <2>1. /\ market'.trading_closed = market.trading_closed
        /\ market'.resolved = market.resolved
        /\ market'.resolution = market.resolution
    BY <1>1, <1>6 DEF IngestMaterialEvent, Market
  <2>. QED BY <1>1, <1>2, <1>6, <2>1 DEF IngestMaterialEvent
<1>7. ASSUME NEW signer \in Keys, NEW stats \in FinalStats,
             ProveResolutionWithTxline(signer, stats)
      PROVE  ResolutionInv'
  <2>1. market'.trading_closed /\ market'.resolved = FALSE
    BY <1>1, <1>7 DEF ProveResolutionWithTxline, Market
  <2>2. /\ resolution_receipt' =
              [ home_regulation_score |-> HomeScore(stats),
                away_regulation_score |-> AwayScore(stats),
                derived_outcome |-> DerivedOutcome(stats) ]
        /\ resolution_proposal'.derived_outcome = DerivedOutcome(stats)
        /\ resolution_proposal'.executed = FALSE
        /\ UNCHANGED <<initialized, authority_config>>
        /\ "market" \in initialized
    BY <1>7 DEF ProveResolutionWithTxline
  <2>3. resolution_receipt' # NoAccount /\ resolution_proposal' # NoAccount
    BY <1>7, ProposalTyped
  <2>. QED BY <2>1, <2>2, <2>3 DEF AuthoritiesAreValid, ProposalIsSound, DerivedOutcome
<1>8. ASSUME NEW signer \in Keys, ProposeVoid(signer)
      PROVE  ResolutionInv'
  <2>1. market'.trading_closed /\ market'.resolved = FALSE
    BY <1>1, <1>8 DEF ProposeVoid, Market
  <2>2. /\ resolution_proposal'.derived_outcome = "Void"
        /\ resolution_proposal'.executed = FALSE
        /\ resolution_receipt' = NoAccount
        /\ now' = now /\ now >= VoidEligibleAt
        /\ UNCHANGED <<initialized, authority_config>>
        /\ "market" \in initialized
    BY <1>8 DEF ProposeVoid
  <2>3. resolution_proposal' # NoAccount
    BY <1>8, ProposalTyped
  <2>. QED BY <2>1, <2>2, <2>3 DEF AuthoritiesAreValid, ProposalIsSound
<1>9. ASSUME NEW signer \in Keys, ApproveResolution(signer)
      PROVE  ResolutionInv'
  <2>1. /\ resolution_proposal \in ResolutionProposal
        /\ resolution_proposal.executed = FALSE
        /\ market.resolved = FALSE
    BY <1>1, <1>9 DEF ApproveResolution, ProposalIsSound, ResolutionProposal, Market
  <2>2. PICK i \in ResolverIndex :
          resolution_proposal' =
             [resolution_proposal EXCEPT !.approvals_mask = @ \cup {i}]
    BY <1>9 DEF ApproveResolution
  <2>3. /\ resolution_proposal'.executed = FALSE
        /\ resolution_proposal'.derived_outcome = resolution_proposal.derived_outcome
        /\ resolution_proposal' \in ResolutionProposal
    BY <2>1, <2>2 DEF ResolutionProposal
  <2>4. UNCHANGED <<initialized, authority_config, market, resolution_receipt, now>>
    BY <1>9 DEF ApproveResolution, marketVars
  <2>. QED BY <2>1, <2>3, <2>4 DEF AuthoritiesAreValid, ProposalIsSound
<1>10. ASSUME ExecuteResolution \/ ExecuteVoid
       PROVE  ResolutionInv'
  <2>1. /\ resolution_proposal # NoAccount
        /\ resolution_proposal \in ResolutionProposal
        /\ ThresholdMet
        /\ resolution_proposal' = [resolution_proposal EXCEPT !.executed = TRUE]
        /\ UNCHANGED <<initialized, authority_config, resolution_receipt, now>>
    BY <1>1, <1>10 DEF ExecuteResolution, ExecuteVoid
  <2>2. /\ market'.trading_closed
        /\ market'.resolved = TRUE
        /\ market'.resolution = resolution_proposal.derived_outcome
    BY <1>1, <1>10 DEF ExecuteResolution, ExecuteVoid, Market
  <2>3. /\ resolution_proposal'.executed = TRUE
        /\ resolution_proposal'.derived_outcome = resolution_proposal.derived_outcome
        /\ resolution_proposal'.approvals_mask = resolution_proposal.approvals_mask
        /\ resolution_proposal' \in ResolutionProposal
    BY <2>1 DEF ResolutionProposal
  <2>. QED BY <2>1, <2>2, <2>3 DEF AuthoritiesAreValid, ProposalIsSound, ThresholdMet
<1>11. CASE Liquidity
  BY <1>3, <1>11
     DEF Liquidity, DepositLiquidity, ReconcileVaultSurplus, WithdrawFreeLiquidity,
         SendLamports, marketVars
<1>12. CASE (\E signer \in Keys, q \in QuoteSequences, m \in MaterialSequences, odds \in Odds :
               CommitTxlineQuote(signer, q, m, odds))
            \/ \E odds \in Odds : VerifyTxlineQuote(odds)
  BY <1>3, <1>12 DEF CommitTxlineQuote, VerifyTxlineQuote
<1>13. CASE Trading
  BY <1>3, <1>13 DEF Trading, PlaceFixedPayoutOrder, marketVars
<1>14. CASE Settlement
  BY <1>3, <1>14
     DEF Settlement, ClaimFixedPayout, ClaimVoidRefund, ReconcilePosition,
         CloseFixedPayoutPosition, marketVars
<1>15. CASE Tick
  BY <1>1, <1>2, <1>15 DEF Tick, marketVars
<1>16. CASE UNCHANGED vars
  BY <1>3, <1>16 DEF vars, marketVars
<1>. QED
  BY <1>4, <1>5, <1>6, <1>7, <1>8, <1>9, <1>10, <1>11, <1>12, <1>13, <1>14, <1>15,
     <1>16 DEF Next, SetUp, Pricing, Resolution

\* Whoever signs what in whatever order, a resolved market was resolved by two
\* different resolvers, none of whom trades on, feeds or prices it, and as the
\* attested score says, or void with no score and the grace over.
THEOREM ResolutionCorrect == Spec => []ResolutionIsAuthorised
<1>1. Init => ResolutionInv
  BY DEF Init, ResolutionInv, AuthoritiesAreValid, ProposalIsSound
<1>. QED BY <1>1, ResolutionStep, ExecutedIsAuthorised, TypeCorrect, PTL DEF Spec

(***************************************************************************)
(* Finality.                                                               *)
(***************************************************************************)

\* No instruction touches the resolution once it is executed.
LEMMA ResolutionIsFinal ==
    ASSUME TypeOK, ResolutionInv, [Next]_vars, market.resolved
    PROVE  /\ UNCHANGED resolutionVars
           /\ market' = [market EXCEPT
                  !.latest_material_event_sequence =
                      market'.latest_material_event_sequence,
                  !.latest_material_event_ts = market'.latest_material_event_ts]
<1> DEFINE Final ==
             /\ UNCHANGED resolutionVars
             /\ market' = [market EXCEPT
                    !.latest_material_event_sequence =
                        market'.latest_material_event_sequence,
                    !.latest_material_event_ts = market'.latest_material_event_ts]
<1>1. market \in Market /\ resolution_proposal \in ResolutionProposal \cup {NoAccount}
  BY DEF TypeOK
<1>2. resolution_proposal # NoAccount /\ resolution_proposal.executed
  BY DEF ResolutionInv, ProposalIsSound
<1>3. ASSUME UNCHANGED <<resolutionVars, market>>
      PROVE  Final
  BY <1>1, <1>3 DEF Market
<1>4. ASSUME NEW signer \in Keys, NEW s \in MaterialSequences,
             IngestMaterialEvent(signer, s)
      PROVE  Final
  BY <1>1, <1>4 DEF IngestMaterialEvent, Market
<1>5. CASE Resolution
  BY <1>2, <1>5
     DEF Resolution, ProveResolutionWithTxline, ProposeVoid, ApproveResolution,
         ExecuteResolution, ExecuteVoid
<1>6. CASE SetUp
  BY <1>3, <1>6 DEF SetUp, InitializeMarket, InitializeLiquidityVault, marketVars
<1>7. CASE Liquidity
  BY <1>3, <1>7
     DEF Liquidity, DepositLiquidity, ReconcileVaultSurplus, WithdrawFreeLiquidity,
         SendLamports, marketVars
<1>8. ASSUME NEW signer \in Keys, NEW q \in QuoteSequences, NEW m \in MaterialSequences,
             NEW odds \in Odds, CommitTxlineQuote(signer, q, m, odds)
      PROVE  Final
  BY <1>3, <1>8 DEF CommitTxlineQuote
<1>9. ASSUME NEW odds \in Odds, VerifyTxlineQuote(odds)
      PROVE  Final
  BY <1>3, <1>9 DEF VerifyTxlineQuote
<1>10. CASE Trading
  BY <1>3, <1>10 DEF Trading, PlaceFixedPayoutOrder, marketVars
<1>11. CASE Settlement
  BY <1>3, <1>11
     DEF Settlement, ClaimFixedPayout, ClaimVoidRefund, ReconcilePosition,
         CloseFixedPayoutPosition, marketVars
<1>12. CASE Tick \/ UNCHANGED vars
  BY <1>3, <1>12 DEF Tick, vars, marketVars
<1>13. CASE Pricing
  BY <1>4, <1>8, <1>9, <1>13 DEF Pricing
<1>14. Final
  BY <1>5, <1>6, <1>7, <1>10, <1>11, <1>12, <1>13 DEF Next
<1>. QED BY <1>14 DEF Final

\* No order is taken once trading has closed.
LEMMA ClosedTradingIsFinal ==
    ASSUME TypeOK, [Next]_vars, market.trading_closed
    PROVE  counters'.next_order_nonce = counters.next_order_nonce
BY NonceAdvances DEF PlaceFixedPayoutOrder, OrderAdmitted, TradingOpen

\* A terminal position stays as it is until it is closed, and a used nonce
\* never names a position again.
LEMMA PositionIsFinal ==
    ASSUME TypeOK, NoncesAreFresh, [Next]_vars, NEW n \in Nonces
    PROVE  /\ positions[n] # NoAccount /\ ~IsAccepted(n) =>
                  positions'[n] \in {positions[n], NoAccount}
           /\ positions[n] = NoAccount /\ n < counters.next_order_nonce =>
                  positions'[n] = NoAccount
<1>1. positions \in [Nonces -> Position \cup {NoAccount}]
  BY DEF TypeOK
<1>2. ASSUME NEW trader \in Traders, NEW args \in OrderArgs,
             n = args.order_nonce, PlaceFixedPayoutOrder(trader, args)
      PROVE  positions[n] = NoAccount /\ ~(n < counters.next_order_nonce)
  <2>1. n = counters.next_order_nonce /\ n \in Nat
    BY <1>2 DEF PlaceFixedPayoutOrder, OrderAdmitted, Nonces
  <2>2. ~(n < counters.next_order_nonce)
    BY <2>1
  <2>3. positions[n] = NoAccount
    BY <1>2, PlacedAtFreshNonce
  <2>. QED BY <2>2, <2>3
<1>3. ASSUME NEW trader \in Traders,
             ClaimFixedPayout(trader, n) \/ ClaimVoidRefund(trader, n)
      PROVE  IsAccepted(n)
  BY <1>3 DEF ClaimFixedPayout, ClaimVoidRefund
<1>4. ReconcilePosition(n) => IsAccepted(n)
  BY DEF ReconcilePosition
<1>5. ASSUME NEW trader \in Traders, CloseFixedPayoutPosition(trader, n)
      PROVE  positions'[n] = NoAccount /\ positions[n] # NoAccount
  BY <1>1, <1>5 DEF CloseFixedPayoutPosition
<1>. QED
  BY <1>2, <1>3, <1>4, <1>5, PositionFate DEF IsAccepted

\* What is final stays final: the resolution and the accounts behind it, a
\* terminal position until its account is closed, a closed account and a used
\* nonce for good.
THEOREM FinalityCorrect == Spec => FinalityHolds
<1> DEFINE Step ==
             /\ market.resolved =>
                   /\ UNCHANGED resolutionVars
                   /\ market' = [market EXCEPT
                          !.latest_material_event_sequence =
                              market'.latest_material_event_sequence,
                          !.latest_material_event_ts = market'.latest_material_event_ts]
             /\ market.trading_closed =>
                   counters'.next_order_nonce = counters.next_order_nonce
             /\ \A n \in Nonces :
                   /\ positions[n] # NoAccount /\ ~IsAccepted(n) =>
                          positions'[n] \in {positions[n], NoAccount}
                   /\ positions[n] = NoAccount /\ n < counters.next_order_nonce =>
                          positions'[n] = NoAccount
<1>1. Init => NoncesAreFresh /\ ResolutionInv
  BY DEF Init, NoncesAreFresh, ResolutionInv, AuthoritiesAreValid, ProposalIsSound
<1>2. ASSUME TypeOK, NoncesAreFresh, ResolutionInv, [Next]_vars
      PROVE  [Step]_vars
  <2>1. Step
    BY <1>2, ResolutionIsFinal, ClosedTradingIsFinal, PositionIsFinal
  <2>. QED BY <2>1
<1>. QED
  BY <1>1, <1>2, NoncesAreFreshStep, ResolutionStep, TypeCorrect, PTL
     DEF Spec, FinalityHolds

-----------------------------------------------------------------------------
(***************************************************************************)
(* The vault's books: the running totals against the positions they stand  *)
(* for, what that says of a settlement, and the refinement of the fully    *)
(* reserved book.                                                          *)
(*                                                                         *)
(* The argument is two invariants: TotalsInv, the totals are the sums over *)
(* the accepted positions, and LamportsCover, the lamports cover what the  *)
(* vault accounts for.  A step changes one position at most, so it changes *)
(* each sum by one term; the instruction's apply_* helper must change the  *)
(* total by the same amount.                                               *)
(***************************************************************************)

(***************************************************************************)
(* Which instructions touch the books.                                     *)
(***************************************************************************)

\* Setting up, pricing, resolving and waiting move no money and no position.
LEMMA IdleStep ==
    ASSUME SetUp \/ Pricing \/ Resolution \/ Tick \/ UNCHANGED vars
    PROVE  UNCHANGED <<vault, ledger, counters, spendable, wallet, positions>>
<1>1. CASE SetUp
  BY <1>1 DEF SetUp, InitializeMarket, InitializeLiquidityVault, vaultVars
<1>2. CASE Pricing
  BY <1>2 DEF Pricing, CommitTxlineQuote, VerifyTxlineQuote, IngestMaterialEvent, vaultVars
<1>3. CASE Resolution
  BY <1>3
     DEF Resolution, ProveResolutionWithTxline, ProposeVoid, ApproveResolution,
         ExecuteResolution, ExecuteVoid, vaultVars
<1>4. CASE Tick \/ UNCHANGED vars
  BY <1>4 DEF Tick, vars, vaultVars
<1>. QED BY <1>1, <1>2, <1>3, <1>4

\* Settling position n ends it with a status and a payment.
Settles(n) ==
    \/ \E trader \in Traders : ClaimFixedPayout(trader, n) \/ ClaimVoidRefund(trader, n)
    \/ ReconcilePosition(n)

\* Every other step places an order, settles or closes a position, or moves the
\* operator's liquidity.
LEMMA StepKinds ==
    ASSUME [Next]_vars
    PROVE  \/ UNCHANGED <<vault, ledger, counters, spendable, wallet, positions>>
           \/ Liquidity
           \/ \E trader \in Traders, args \in OrderArgs : PlaceFixedPayoutOrder(trader, args)
           \/ \E n \in Nonces : Settles(n)
           \/ \E trader \in Traders, n \in Nonces : CloseFixedPayoutPosition(trader, n)
BY IdleStep DEF Next, Trading, Settlement, Settles

\* The settled position stays an account that is no longer accepted, and the
\* others stay as they are.
LEMMA SettledPosition ==
    ASSUME TypeOK, NEW n \in Nonces, Settles(n)
    PROVE  /\ IsAccepted(n)
           /\ market.resolved
           /\ positions'[n] # NoAccount
           /\ positions'[n].status # "Accepted"
           /\ \A m \in Nonces : m # n => positions'[m] = positions[m]
<1>1. positions \in [Nonces -> Position \cup {NoAccount}]
  BY DEF TypeOK
<1>2. ASSUME NEW status \in {"Claimed", "Lost", "Voided"}, NEW paid \in U64,
             IsAccepted(n), Terminate(n, status, paid)
      PROVE  /\ positions'[n] # NoAccount
             /\ positions'[n].status # "Accepted"
             /\ \A m \in Nonces : m # n => positions'[m] = positions[m]
  BY <1>1, <1>2, TerminateOutcome DEF Terminate
<1>3. IsAccepted(n) /\ market.resolved
  BY DEF Settles, ClaimFixedPayout, ClaimVoidRefund, ReconcilePosition
<1>4. positions[n].gross_payout \in U64 /\ positions[n].stake \in U64 /\ 0 \in U64
  BY <1>3, PositionAmounts DEF U64
<1>5. \E status \in {"Claimed", "Lost", "Voided"}, paid \in U64 : Terminate(n, status, paid)
  BY <1>4 DEF Settles, ClaimFixedPayout, ClaimVoidRefund, ReconcilePosition
<1>. QED BY <1>2, <1>3, <1>5

(***************************************************************************)
(* Positions are counted.                                                  *)
(***************************************************************************)
Existing == {n \in Nonces : positions[n] # NoAccount}

\* There are finitely many nonces.
LEMMA NoncesFinite == IsFiniteSet(Nonces)
<1>1. 0 \in Int /\ MaxOrders - 1 \in Int
  OBVIOUS
<1>. QED BY <1>1, FS_Interval DEF Nonces

\* position_count is the number of position accounts: an order creates one, at
\* a nonce that had none, and closing deletes one.
LEMMA CountedStep ==
    ASSUME TypeOK, PositionsAreCounted, [Next]_vars
    PROVE  PositionsAreCounted'
<1>1. /\ NoncesAreFresh
      /\ positions \in [Nonces -> Position \cup {NoAccount}]
      /\ counters \in Counters
      /\ counters.position_count \in Int
      /\ Cardinality(Existing) = counters.position_count
  BY DEF PositionsAreCounted, NoncesAreFresh, TypeOK, Counters, U64, Existing
<1>2. NoncesAreFresh'
  BY <1>1, NoncesAreFreshStep
<1>3. IsFiniteSet(Existing)
  BY NoncesFinite, FS_Subset DEF Existing
<1> DEFINE Goal == Cardinality(Existing') = counters'.position_count
<1> SUFFICES Goal
  BY <1>2 DEF PositionsAreCounted, NoncesAreFresh, Existing
<1>4. ASSUME counters'.position_count = counters.position_count,
             \A m \in Nonces : positions'[m] = NoAccount <=> positions[m] = NoAccount
      PROVE  Goal
  <2>1. Existing' = Existing
    BY <1>4 DEF Existing
  <2>. QED BY <1>1, <1>4, <2>1
<1>5. ASSUME NEW v, NEW l, SettleAccounts(v, l, counters)
      PROVE  counters'.position_count = counters.position_count
  BY <1>1, <1>5 DEF SettleAccounts, Counters
<1>6. CASE UNCHANGED <<vault, ledger, counters, spendable, wallet, positions>>
  BY <1>4, <1>6
<1>7. CASE Liquidity
  <2>1. counters'.position_count = counters.position_count
    BY <1>5, <1>7
       DEF Liquidity, DepositLiquidity, ReconcileVaultSurplus, WithdrawFreeLiquidity,
           SendLamports
  <2>2. positions' = positions
    BY <1>7
       DEF Liquidity, DepositLiquidity, ReconcileVaultSurplus, WithdrawFreeLiquidity,
           SendLamports
  <2>. QED BY <1>4, <2>1, <2>2
<1>8. ASSUME NEW trader \in Traders, NEW args \in OrderArgs,
             PlaceFixedPayoutOrder(trader, args)
      PROVE  Goal
  <2> DEFINE n == args.order_nonce
  <2>1. n \in Nonces /\ n \notin Existing
    BY <1>1, <1>8, PlacedAtFreshNonce DEF Existing
  <2>2. positions' \in [Nonces -> Position \cup {NoAccount}]
    BY <1>8, PlaceOrderTyped
  <2>3. positions'[n] # NoAccount /\ \A m \in Nonces : m # n => positions'[m] = positions[m]
    <3>1. CASE RefundStaleOrder(trader, args)
      <4>1. NewPosition(trader, args) \in Position
        BY DEF Args, NewPosition, Position, U64
      <4>. QED BY <1>1, <2>1, <3>1, <4>1 DEF RefundStaleOrder
    <3>2. CASE AcceptOrder(trader, args)
      <4>1. positions' = [positions EXCEPT ![n] = positions'[n]] /\ positions'[n] \in Position
        BY <3>2, AcceptedPosition
      <4>. QED BY <1>1, <2>1, <4>1
    <3>. QED BY <1>8, <3>1, <3>2 DEF PlaceFixedPayoutOrder
  <2>4. Existing' = Existing \cup {n}
    BY <2>1, <2>3 DEF Existing
  <2>5. Cardinality(Existing \cup {n}) = Cardinality(Existing) + 1
    BY <1>3, <2>1, FS_AddElement
  <2>6. counters' = [CountOrder EXCEPT !.accounting_sequence = @ + 1]
    BY <1>8 DEF PlaceFixedPayoutOrder, RefundStaleOrder, AcceptOrder, SettleAccounts
  <2>7. counters'.position_count = counters.position_count + 1
    BY <1>1, <2>6 DEF CountOrder, Counters
  <2>. QED BY <1>1, <2>4, <2>5, <2>7
<1>9. ASSUME NEW n \in Nonces, Settles(n)
      PROVE  Goal
  <2>1. counters'.position_count = counters.position_count
    BY <1>5, <1>9 DEF Settles, ClaimFixedPayout, ClaimVoidRefund, ReconcilePosition
  <2>. QED BY <1>4, <1>9, <2>1, SettledPosition DEF IsAccepted
<1>10. ASSUME NEW trader \in Traders, NEW n \in Nonces, CloseFixedPayoutPosition(trader, n)
       PROVE  Goal
  <2>1. /\ positions[n] # NoAccount
        /\ positions' = [positions EXCEPT ![n] = NoAccount]
        /\ counters'.position_count = counters.position_count - 1
    BY <1>1, <1>10 DEF CloseFixedPayoutPosition, Counters
  <2>2. n \in Existing /\ Existing' = Existing \ {n}
    BY <1>1, <2>1 DEF Existing
  <2>3. Cardinality(Existing \ {n}) = Cardinality(Existing) - 1
    BY <1>3, <2>2, FS_RemoveElement
  <2>. QED BY <1>1, <2>1, <2>2, <2>3
<1>. QED BY <1>6, <1>7, <1>8, <1>9, <1>10, StepKinds

(***************************************************************************)
(* The sums, with every nonce in them: one that names no accepted position *)
(* counts nothing.                                                         *)
(***************************************************************************)
LiabilityFor(side) ==
    [n \in Nonces |-> IF IsAccepted(n) /\ positions[n].side = side
                       THEN positions[n].reserved_liability ELSE 0]

StakeAtRisk == [n \in Nonces |-> IF IsAccepted(n) THEN positions[n].stake ELSE 0]

TotalLiability(side) == SumOver(LiabilityFor(side), Nonces)

TotalStake == SumOver(StakeAtRisk, Nonces)

\* The terms are natural numbers, and so are the sums, which are no less than
\* each of their terms.
LEMMA SumsTyped ==
    ASSUME TypeOK
    PROVE  /\ \A side \in Sides :
                 /\ \A n \in Nonces : LiabilityFor(side)[n] \in Nat
                 /\ TotalLiability(side) \in Nat
                 /\ \A n \in Nonces : LiabilityFor(side)[n] <= TotalLiability(side)
           /\ \A n \in Nonces : StakeAtRisk[n] \in Nat
           /\ TotalStake \in Nat
           /\ \A n \in Nonces : StakeAtRisk[n] <= TotalStake
<1>1. ASSUME NEW n \in Nonces, NEW side
      PROVE  LiabilityFor(side)[n] \in Nat /\ StakeAtRisk[n] \in Nat
  BY <1>1, PositionAmounts DEF LiabilityFor, StakeAtRisk, U64
<1>2. ASSUME NEW side
      PROVE  /\ TotalLiability(side) \in Nat
             /\ \A n \in Nonces : LiabilityFor(side)[n] <= TotalLiability(side)
  BY <1>1, NoncesFinite, SumBoundsTerms DEF TotalLiability
<1>3. TotalStake \in Nat /\ \A n \in Nonces : StakeAtRisk[n] <= TotalStake
  BY <1>1, NoncesFinite, SumBoundsTerms DEF TotalStake
<1>. QED BY <1>1, <1>2, <1>3

\* They are the sums that the totals are compared with.
LEMMA SumsOfAccepted ==
    ASSUME TypeOK
    PROVE  /\ \A side \in Sides : LiabilityOn(side) = TotalLiability(side)
           /\ MapThenSumSet(LAMBDA n : positions[n].stake, AcceptedNonces) = TotalStake
<1>1. ASSUME NEW side \in Sides
      PROVE  LiabilityOn(side) = TotalLiability(side)
  <2> DEFINE S == {n \in AcceptedNonces : positions[n].side = side}
             f == [n \in S |-> positions[n].reserved_liability]
  <2>1. S \in SUBSET Nonces /\ \A n \in S : f[n] \in Int /\ LiabilityFor(side)[n] = f[n]
    BY PositionAmounts DEF AcceptedNonces, LiabilityFor, U64
  <2>2. \A n \in Nonces \ S : LiabilityFor(side)[n] = 0
    BY DEF AcceptedNonces, LiabilityFor
  <2>3. LiabilityOn(side) = SumOver(f, S)
    BY SumsOfFields DEF LiabilityOn
  <2> HIDE DEF f, S
  <2>. QED BY <2>1, <2>2, <2>3, NoncesFinite, SumOverPart DEF TotalLiability
<1>2. MapThenSumSet(LAMBDA n : positions[n].stake, AcceptedNonces) = TotalStake
  <2> DEFINE S == AcceptedNonces
             f == [n \in S |-> positions[n].stake]
  <2>1. S \in SUBSET Nonces /\ \A n \in S : f[n] \in Int /\ StakeAtRisk[n] = f[n]
    BY PositionAmounts DEF AcceptedNonces, StakeAtRisk, U64
  <2>2. \A n \in Nonces \ S : StakeAtRisk[n] = 0
    BY DEF AcceptedNonces, StakeAtRisk
  <2>3. MapThenSumSet(LAMBDA n : positions[n].stake, S) = SumOver(f, S)
    BY SumsOfFields
  <2> HIDE DEF f, S
  <2>4. SumOver(f, S) = TotalStake
    BY <2>1, <2>2, NoncesFinite, SumOverPart DEF TotalStake
  <2>. QED BY <2>3, <2>4 DEF S
<1>. QED BY <1>1, <1>2

(***************************************************************************)
(* What a step does to the totals and to the accepted positions.           *)
(***************************************************************************)

\* The totals that stand for accepted positions are the same in v and w.
SameTotals(v, w) ==
    /\ w.reserved_liability = v.reserved_liability
    /\ w.yes_reserved_liability = v.yes_reserved_liability
    /\ w.no_reserved_liability = v.no_reserved_liability
    /\ w.accepted_stake_principal = v.accepted_stake_principal
    /\ w.pending_refundable_stake = v.pending_refundable_stake

\* The totals of w are those of v and the amounts of one more position.
OneMore(v, p, w) ==
    /\ w.reserved_liability = v.reserved_liability + p.reserved_liability
    /\ w.yes_reserved_liability =
          v.yes_reserved_liability + IF p.side = "Yes" THEN p.reserved_liability ELSE 0
    /\ w.no_reserved_liability =
          v.no_reserved_liability + IF p.side = "No" THEN p.reserved_liability ELSE 0
    /\ w.accepted_stake_principal = v.accepted_stake_principal + p.stake
    /\ w.pending_refundable_stake = v.pending_refundable_stake

SameBet(n) ==
    /\ IsAccepted(n)' <=> IsAccepted(n)
    /\ IsAccepted(n) => positions'[n] = positions[n]

\* Filling an order adds its amounts.
LEMMA AcceptAdds ==
    ASSUME TypeOK, NEW p \in Position
    PROVE  OneMore(vault, p, ApplyAccept(vault, p.side, p.stake, p.reserved_liability))
<1>1. /\ vault \in Vault
      /\ p.side \in Sides
      /\ p.stake \in Int
      /\ p.reserved_liability \in Int
  BY DEF TypeOK, Position, U64
<1>2. /\ vault.reserved_liability \in Int
      /\ vault.yes_reserved_liability \in Int
      /\ vault.no_reserved_liability \in Int
  BY <1>1 DEF Vault, U64
<1>3. p.side = "Yes" \/ p.side = "No"
  BY <1>1 DEF Sides
<1>. QED BY <1>1, <1>2, <1>3 DEF OneMore, ApplyAccept, Reserve, Vault

\* Settling a position, for its gross payout, its stake or nothing, takes them
\* out again.
LEMMA SettlementRemoves ==
    ASSUME TypeOK, NEW p \in Position
    PROVE  /\ OneMore(ApplyClaim(vault, p.side, p.stake, p.reserved_liability), p, vault)
           /\ OneMore(ApplyVoidRefund(vault, p.side, p.stake, p.reserved_liability), p, vault)
           /\ OneMore(ApplyReconcileLoss(vault, p.side, p.stake, p.reserved_liability), p, vault)
<1>1. /\ vault \in Vault
      /\ p.side \in Sides
      /\ p.stake \in Int
      /\ p.reserved_liability \in Int
  BY DEF TypeOK, Position, U64
<1>2. /\ vault.reserved_liability \in Int
      /\ vault.yes_reserved_liability \in Int
      /\ vault.no_reserved_liability \in Int
      /\ vault.accepted_stake_principal \in Int
  BY <1>1 DEF Vault, U64
<1>3. p.side = "Yes" \/ p.side = "No"
  BY <1>1 DEF Sides
<1>4. OneMore(ApplyClaim(vault, p.side, p.stake, p.reserved_liability), p, vault)
  BY <1>1, <1>2, <1>3 DEF OneMore, ApplyClaim, Reserve, Vault
<1>5. OneMore(ApplyVoidRefund(vault, p.side, p.stake, p.reserved_liability), p, vault)
  BY <1>1, <1>2, <1>3 DEF OneMore, ApplyVoidRefund, Reserve, Vault
<1>6. OneMore(ApplyReconcileLoss(vault, p.side, p.stake, p.reserved_liability), p, vault)
  BY <1>1, <1>2, <1>3 DEF OneMore, ApplyReconcileLoss, Reserve, Vault
<1>. QED BY <1>4, <1>5, <1>6

\* Every step keeps the totals and the accepted positions, or adds one position
\* to both, or takes one out of both.
LEMMA TotalsMove ==
    ASSUME TypeOK, NoncesAreFresh, [Next]_vars
    PROVE  \/ SameTotals(vault, vault') /\ \A m \in Nonces : SameBet(m)
           \/ \E n \in Nonces :
                 /\ ~IsAccepted(n) /\ IsAccepted(n)'
                 /\ OneMore(vault, positions'[n], vault')
                 /\ \A m \in Nonces : m # n => SameBet(m)
           \/ \E n \in Nonces :
                 /\ IsAccepted(n) /\ ~IsAccepted(n)'
                 /\ OneMore(vault', positions[n], vault)
                 /\ \A m \in Nonces : m # n => SameBet(m)
<1>1. vault \in Vault /\ positions \in [Nonces -> Position \cup {NoAccount}]
  BY DEF TypeOK
<1>2. ASSUME NEW m, positions'[m] = positions[m]
      PROVE  SameBet(m)
  BY <1>2 DEF SameBet, IsAccepted
<1>3. CASE UNCHANGED <<vault, ledger, counters, spendable, wallet, positions>>
  BY <1>2, <1>3 DEF SameTotals
<1>4. CASE Liquidity
  <2>1. positions' = positions
    BY <1>4
       DEF Liquidity, DepositLiquidity, ReconcileVaultSurplus, WithdrawFreeLiquidity,
           SendLamports
  <2>2. \/ vault' = vault
        \/ \E f : vault' = [vault EXCEPT !.free_collateral = f]
    BY <1>4
       DEF Liquidity, DepositLiquidity, ReconcileVaultSurplus, WithdrawFreeLiquidity,
           SendLamports, SettleAccounts
  <2>3. SameTotals(vault, vault')
    BY <1>1, <2>2 DEF SameTotals, Vault
  <2>. QED BY <1>2, <2>1, <2>3
<1>5. ASSUME NEW trader \in Traders, NEW args \in OrderArgs,
             PlaceFixedPayoutOrder(trader, args), RefundStaleOrder(trader, args)
      PROVE  SameTotals(vault, vault') /\ \A m \in Nonces : SameBet(m)
  <2> DEFINE n == args.order_nonce
  <2>1. n \in Nonces /\ ~IsAccepted(n)
    BY <1>5, PlacedAtFreshNonce DEF IsAccepted
  <2>2. vault' = vault /\ positions' = [positions EXCEPT ![n] = NewPosition(trader, args)]
    BY <1>5 DEF RefundStaleOrder, SettleAccounts
  <2>3. positions'[n].status = "Refunded"
    BY <1>1, <2>1, <2>2 DEF NewPosition
  <2>4. SameBet(n)
    BY <2>1, <2>3 DEF SameBet, IsAccepted
  <2>5. \A m \in Nonces : m # n => positions'[m] = positions[m]
    BY <1>1, <2>2
  <2>. QED BY <1>2, <2>2, <2>4, <2>5 DEF SameTotals
<1>6. ASSUME NEW trader \in Traders, NEW args \in OrderArgs,
             PlaceFixedPayoutOrder(trader, args), AcceptOrder(trader, args)
      PROVE  LET n == args.order_nonce
             IN  /\ n \in Nonces
                 /\ ~IsAccepted(n) /\ IsAccepted(n)'
                 /\ OneMore(vault, positions'[n], vault')
                 /\ \A m \in Nonces : m # n => SameBet(m)
  <2> DEFINE n == args.order_nonce
             p == positions'[n]
             liability == GrossPayout(args.stake, ExecutionPrice(args.side)) - args.stake
  <2>1. n \in Nonces /\ ~IsAccepted(n)
    BY <1>6, PlacedAtFreshNonce DEF IsAccepted
  <2>2. /\ positions' = [positions EXCEPT ![n] = p]
        /\ p \in Position
        /\ p.side = args.side
        /\ p.stake = args.stake
        /\ p.reserved_liability = liability
        /\ p.status = "Accepted"
    BY <1>6, AcceptedPosition
  <2>3. vault' = ApplyAccept(vault, args.side, args.stake, liability)
    BY <1>6 DEF AcceptOrder, SettleAccounts
  <2> HIDE DEF p, liability
  <2>4. OneMore(vault, p, vault')
    BY <2>2, <2>3, AcceptAdds
  <2>5. \A m \in Nonces : m # n => positions'[m] = positions[m]
    BY <1>1, <2>2
  <2>6. IsAccepted(n)'
    BY <2>2 DEF IsAccepted, p
  <2>. QED BY <1>2, <2>1, <2>4, <2>5, <2>6 DEF p
<1>7. ASSUME NEW n \in Nonces, Settles(n)
      PROVE  /\ IsAccepted(n) /\ ~IsAccepted(n)'
             /\ OneMore(vault', positions[n], vault)
             /\ \A m \in Nonces : m # n => SameBet(m)
  <2> DEFINE p == positions[n]
  <2>1. IsAccepted(n) /\ ~IsAccepted(n)' /\ \A m \in Nonces : m # n => SameBet(m)
    BY <1>2, <1>7, SettledPosition DEF IsAccepted
  <2>2. p \in Position
    BY <2>1, PositionAmounts
  <2>3. vault' \in { ApplyClaim(vault, p.side, p.stake, p.reserved_liability),
                     ApplyVoidRefund(vault, p.side, p.stake, p.reserved_liability),
                     ApplyReconcileLoss(vault, p.side, p.stake, p.reserved_liability) }
    BY <1>7
       DEF Settles, ClaimFixedPayout, ClaimVoidRefund, ReconcilePosition, SettleAccounts
  <2> HIDE DEF p
  <2>4. OneMore(vault', p, vault)
    BY <2>2, <2>3, SettlementRemoves
  <2>. QED BY <2>1, <2>4 DEF p
<1>8. ASSUME NEW trader \in Traders, NEW n \in Nonces, CloseFixedPayoutPosition(trader, n)
      PROVE  SameTotals(vault, vault') /\ \A m \in Nonces : SameBet(m)
  <2>1. /\ vault' = vault
        /\ positions' = [positions EXCEPT ![n] = NoAccount]
        /\ ~IsAccepted(n)
    BY <1>8 DEF CloseFixedPayoutPosition, IsAccepted
  <2>2. SameBet(n) /\ \A m \in Nonces : m # n => positions'[m] = positions[m]
    BY <1>1, <2>1 DEF SameBet, IsAccepted
  <2>. QED BY <1>2, <2>1, <2>2 DEF SameTotals
<1>9. ASSUME NEW trader \in Traders, NEW args \in OrderArgs, PlaceFixedPayoutOrder(trader, args)
      PROVE  RefundStaleOrder(trader, args) \/ AcceptOrder(trader, args)
  BY <1>9 DEF PlaceFixedPayoutOrder
<1>. QED BY <1>3, <1>4, <1>5, <1>6, <1>7, <1>8, <1>9, StepKinds

(***************************************************************************)
(* The totals are the sums.                                                *)
(***************************************************************************)
TotalsInv ==
    /\ vault.yes_reserved_liability = TotalLiability("Yes")
    /\ vault.no_reserved_liability = TotalLiability("No")
    /\ vault.reserved_liability = TotalLiability("Yes") + TotalLiability("No")
    /\ vault.accepted_stake_principal = TotalStake
    /\ vault.pending_refundable_stake = 0

\* After a step the terms are still natural numbers.
LEMMA TermsTypedAfter ==
    ASSUME TypeOK', NEW n \in Nonces, NEW side
    PROVE  /\ LiabilityFor(side)'[n] \in Nat
           /\ StakeAtRisk'[n] \in Nat
<1>1. positions' \in [Nonces -> Position \cup {NoAccount}]
  BY DEF TypeOK
<1>2. IsAccepted(n)' =>
         positions'[n].reserved_liability \in Nat /\ positions'[n].stake \in Nat
  BY <1>1 DEF IsAccepted, Position, U64
<1>. QED BY <1>2 DEF LiabilityFor, StakeAtRisk

\* A step that changes one bet at most changes each sum by that bet's term.
LEMMA SumsMove ==
    ASSUME TypeOK, TypeOK', NEW n \in Nonces, \A m \in Nonces : m # n => SameBet(m)
    PROVE  /\ \A side \in Sides :
                 TotalLiability(side)'
                   = TotalLiability(side) + (LiabilityFor(side)'[n] - LiabilityFor(side)[n])
           /\ TotalStake' = TotalStake + (StakeAtRisk'[n] - StakeAtRisk[n])
<1>1. ASSUME NEW side \in Sides
      PROVE  TotalLiability(side)'
               = TotalLiability(side) + (LiabilityFor(side)'[n] - LiabilityFor(side)[n])
  <2>1. \A m \in Nonces : LiabilityFor(side)[m] \in Int /\ LiabilityFor(side)'[m] \in Int
    BY SumsTyped, TermsTypedAfter
  <2>2. \A m \in Nonces : m # n => LiabilityFor(side)'[m] = LiabilityFor(side)[m]
    BY DEF LiabilityFor, SameBet
  <2>. QED BY <2>1, <2>2, NoncesFinite, SumChange DEF TotalLiability
<1>2. TotalStake' = TotalStake + (StakeAtRisk'[n] - StakeAtRisk[n])
  <2>1. \A m \in Nonces : StakeAtRisk[m] \in Int /\ StakeAtRisk'[m] \in Int
    BY SumsTyped, TermsTypedAfter
  <2>2. \A m \in Nonces : m # n => StakeAtRisk'[m] = StakeAtRisk[m]
    BY DEF StakeAtRisk, SameBet
  <2>. QED BY <2>1, <2>2, NoncesFinite, SumChange DEF TotalStake
<1>. QED BY <1>1, <1>2

\* Every instruction moves a total and its sum by the same amount.
LEMMA TotalsInvStep ==
    ASSUME TypeOK, TypeOK', NoncesAreFresh, TotalsInv, [Next]_vars
    PROVE  TotalsInv'
<1> DEFINE yes == LiabilityFor("Yes")
           no == LiabilityFor("No")
<1>1. /\ "Yes" \in Sides
      /\ "No" \in Sides
      /\ TotalLiability("Yes") \in Int
      /\ TotalLiability("No") \in Int
      /\ TotalStake \in Int
  BY SumsTyped DEF Sides
<1>2. CASE SameTotals(vault, vault') /\ \A m \in Nonces : SameBet(m)
  <2>1. LiabilityFor("Yes")' = LiabilityFor("Yes") /\ LiabilityFor("No")' = LiabilityFor("No")
    BY <1>2 DEF LiabilityFor, SameBet
  <2>2. StakeAtRisk' = StakeAtRisk
    BY <1>2 DEF StakeAtRisk, SameBet
  <2>3. /\ TotalLiability("Yes")' = TotalLiability("Yes")
        /\ TotalLiability("No")' = TotalLiability("No")
        /\ TotalStake' = TotalStake
    BY <2>1, <2>2 DEF TotalLiability, TotalStake
  <2>. QED BY <1>2, <2>3 DEF TotalsInv, SameTotals
<1>3. ASSUME NEW n \in Nonces,
             ~IsAccepted(n), IsAccepted(n)',
             OneMore(vault, positions'[n], vault'),
             \A m \in Nonces : m # n => SameBet(m)
      PROVE  TotalsInv'
  <2> DEFINE p == positions'[n]
  <2>1. p \in Position /\ p.side \in Sides /\ p.reserved_liability \in Int /\ p.stake \in Int
    <3>1. positions' \in [Nonces -> Position \cup {NoAccount}]
      BY DEF TypeOK
    <3>2. p \in Position
      BY <1>3, <3>1 DEF IsAccepted
    <3>. QED BY <3>2 DEF Position, U64
  <2>2. /\ yes[n] = 0 /\ no[n] = 0 /\ StakeAtRisk[n] = 0
        /\ yes'[n] = IF p.side = "Yes" THEN p.reserved_liability ELSE 0
        /\ no'[n] = IF p.side = "No" THEN p.reserved_liability ELSE 0
        /\ StakeAtRisk'[n] = p.stake
    BY <1>3 DEF LiabilityFor, StakeAtRisk
  <2>3. /\ TotalLiability("Yes")' = TotalLiability("Yes") + (yes'[n] - yes[n])
        /\ TotalLiability("No")' = TotalLiability("No") + (no'[n] - no[n])
        /\ TotalStake' = TotalStake + (StakeAtRisk'[n] - StakeAtRisk[n])
    BY <1>1, <1>3, SumsMove
  <2>4. p.side = "Yes" \/ p.side = "No"
    BY <2>1 DEF Sides
  <2>5. OneMore(vault, p, vault')
    BY <1>3
  <2> HIDE DEF p, yes, no
  <2>. QED BY <1>1, <2>1, <2>2, <2>3, <2>4, <2>5 DEF TotalsInv, OneMore
<1>4. ASSUME NEW n \in Nonces,
             IsAccepted(n), ~IsAccepted(n)',
             OneMore(vault', positions[n], vault),
             \A m \in Nonces : m # n => SameBet(m)
      PROVE  TotalsInv'
  <2> DEFINE p == positions[n]
  <2>1. p \in Position /\ p.side \in Sides /\ p.reserved_liability \in Int /\ p.stake \in Int
    <3>1. p \in Position
      BY <1>4, PositionAmounts
    <3>. QED BY <3>1 DEF Position, U64
  <2>2. /\ yes[n] = IF p.side = "Yes" THEN p.reserved_liability ELSE 0
        /\ no[n] = IF p.side = "No" THEN p.reserved_liability ELSE 0
        /\ StakeAtRisk[n] = p.stake
        /\ yes'[n] = 0 /\ no'[n] = 0 /\ StakeAtRisk'[n] = 0
    BY <1>4 DEF LiabilityFor, StakeAtRisk
  <2>3. /\ TotalLiability("Yes")' = TotalLiability("Yes") + (yes'[n] - yes[n])
        /\ TotalLiability("No")' = TotalLiability("No") + (no'[n] - no[n])
        /\ TotalStake' = TotalStake + (StakeAtRisk'[n] - StakeAtRisk[n])
    BY <1>1, <1>4, SumsMove
  <2>4. p.side = "Yes" \/ p.side = "No"
    BY <2>1 DEF Sides
  <2>5. OneMore(vault', p, vault)
    BY <1>4
  <2>6. /\ vault'.reserved_liability \in Int
        /\ vault'.yes_reserved_liability \in Int
        /\ vault'.no_reserved_liability \in Int
        /\ vault'.accepted_stake_principal \in Int
    BY DEF TypeOK, Vault, U64
  <2> HIDE DEF p, yes, no
  <2>. QED BY <1>1, <2>1, <2>2, <2>3, <2>4, <2>5, <2>6 DEF TotalsInv, OneMore
<1>. QED BY <1>2, <1>3, <1>4, TotalsMove

\* Before anything happens there is nothing to add up.
LEMMA TotalsAtStart ==
    ASSUME Init
    PROVE  TotalsInv
<1>1. \A n \in Nonces : ~IsAccepted(n)
  BY DEF Init, IsAccepted
<1>2. ASSUME NEW f, \A n \in Nonces : f[n] = 0
      PROVE  SumOver(f, Nonces) = 0
  BY <1>2, NoncesFinite, SumOfZeros
<1>3. TotalLiability("Yes") = 0 /\ TotalLiability("No") = 0 /\ TotalStake = 0
  BY <1>1, <1>2 DEF TotalLiability, TotalStake, LiabilityFor, StakeAtRisk
<1>. QED BY <1>3 DEF Init, EmptyVault, TotalsInv

\* In every reachable state the vault's counter of positions counts them and its
\* totals are the sums of what the accepted positions reserve and stake.
THEOREM CountersCorrect == Spec => []CountersMatchPositions
<1>1. Init => PositionsAreCounted
  <2> SUFFICES ASSUME Init
               PROVE  PositionsAreCounted
    OBVIOUS
  <2>1. \A n \in Nonces : positions[n] = NoAccount
    BY DEF Init
  <2>2. {n \in Nonces : positions[n] # NoAccount} = {}
    BY <2>1
  <2>3. Cardinality({}) = 0 /\ counters.position_count = 0
    BY FS_EmptySet DEF Init
  <2>4. Cardinality({n \in Nonces : positions[n] # NoAccount}) = counters.position_count
    BY <2>2, <2>3
  <2>. QED BY <2>1, <2>4 DEF PositionsAreCounted
<1>2. PositionsAreCounted => NoncesAreFresh
  BY DEF PositionsAreCounted, NoncesAreFresh
<1>3. TypeOK /\ TotalsInv => TotalsMatchPositions
  BY SumsOfAccepted DEF TotalsInv, TotalsMatchPositions, Sides
<1>4. TypeOK /\ TypeOK' /\ PositionsAreCounted /\ TotalsInv /\ [Next]_vars
         => PositionsAreCounted' /\ TotalsInv'
  BY <1>2, CountedStep, TotalsInvStep
<1>5. TypeOK /\ PositionsAreCounted /\ TotalsInv => CountersMatchPositions
  BY <1>3 DEF CountersMatchPositions
<1>. QED BY <1>1, <1>4, <1>5, TotalsAtStart, TypeCorrect, PTL DEF Spec

(***************************************************************************)
(* The money is there.                                                     *)
(***************************************************************************)
LamportsCover == VaultInvariant(vault, spendable)

\* The assertions that money-moving instructions end with hold after every step:
\* the instructions that skip them only add lamports or touch none.
LEMMA LamportsCoverStep ==
    ASSUME TypeOK, TypeOK', LamportsCover, [Next]_vars
    PROVE  LamportsCover'
<1>1. /\ spendable \in Int
      /\ spendable' \in Int
      /\ vault \in Vault
  BY DEF TypeOK, U64
<1>2. ASSUME NEW v, NEW l, NEW c, SettleAccounts(v, l, c)
      PROVE  LamportsCover'
  BY <1>2 DEF SettleAccounts, LamportsCover
<1>3. ASSUME vault' = vault, spendable' >= spendable
      PROVE  LamportsCover'
  <2>1. AccountedAssets(vault) \in Int
    BY DEF LamportsCover, VaultInvariant, U64
  <2> HIDE DEF TypeOK
  <2>. QED BY <1>1, <1>3, <2>1 DEF LamportsCover, VaultInvariant
<1>4. CASE UNCHANGED <<vault, ledger, counters, spendable, wallet, positions>>
  BY <1>1, <1>3, <1>4
<1>5. CASE Liquidity
  <2>1. ASSUME NEW amount \in Amounts, SendLamports(Stranger, amount)
        PROVE  LamportsCover'
    BY <1>1, <1>3, <2>1 DEF SendLamports, TransferIn
  <2>. QED BY <1>2, <1>5, <2>1
           DEF Liquidity, DepositLiquidity, ReconcileVaultSurplus, WithdrawFreeLiquidity
<1>6. ASSUME NEW trader \in Traders, NEW args \in OrderArgs, PlaceFixedPayoutOrder(trader, args)
      PROVE  LamportsCover'
  BY <1>2, <1>6 DEF PlaceFixedPayoutOrder, RefundStaleOrder, AcceptOrder
<1>7. ASSUME NEW n \in Nonces, Settles(n)
      PROVE  LamportsCover'
  BY <1>2, <1>7 DEF Settles, ClaimFixedPayout, ClaimVoidRefund, ReconcilePosition
<1>8. ASSUME NEW trader \in Traders, NEW n \in Nonces, CloseFixedPayoutPosition(trader, n)
      PROVE  LamportsCover'
  BY <1>1, <1>3, <1>8 DEF CloseFixedPayoutPosition
<1>. QED BY <1>4, <1>5, <1>6, <1>7, <1>8, StepKinds

\* What is asserted of the lamports before a settlement is what the settlement
\* needs: an accepted position's stake and liability are among what the vault
\* accounts for, so its release cannot underflow, and they are its payout.
LEMMA SettlementIsCovered ==
    ASSUME TypeOK, FilledInv, TotalsInv, LamportsCover, NEW n \in Nonces, IsAccepted(n)
    PROVE  /\ SettledVault(n) \in Vault
           /\ spendable >= SettledPayment(n)
           /\ VaultInvariant(SettledVault(n), spendable - SettledPayment(n))
<1> DEFINE p == positions[n]
           l == p.reserved_liability
           s == p.stake
           F == vault.free_collateral
           R == vault.reserved_liability
           Y == vault.yes_reserved_liability
           N == vault.no_reserved_liability
           S == vault.accepted_stake_principal
<1>1. /\ p.side \in Sides
      /\ l \in Nat
      /\ s \in Nat
      /\ p.gross_payout = s + l
  <2>1. p \in Position
    BY PositionAmounts
  <2>2. AttestedTerms(p)
    BY DEF FilledInv, IsFilled, IsAccepted
  <2>. QED BY <2>1, <2>2 DEF AttestedTerms, Position, U64
<1>2. (p.side = "Yes" => l <= Y) /\ (p.side = "No" => l <= N) /\ s <= S
  <2>1. LiabilityFor(p.side)[n] = l /\ StakeAtRisk[n] = s
    BY DEF LiabilityFor, StakeAtRisk
  <2>2. l <= TotalLiability(p.side) /\ s <= TotalStake
    BY <1>1, <2>1, SumsTyped
  <2> HIDE DEF p, l, s
  <2>. QED BY <2>2 DEF TotalsInv
<1>3. /\ F \in Nat /\ R \in Nat /\ Y \in Nat /\ N \in Nat /\ S \in Nat
      /\ F <= MaxU64 /\ R <= MaxU64 /\ Y <= MaxU64 /\ N <= MaxU64 /\ S <= MaxU64
      /\ vault.pending_refundable_stake = 0
      /\ spendable \in Int
      /\ R = Y + N
      /\ F + R + S <= MaxU64
      /\ spendable >= F + R + S
  <2>1. vault \in Vault /\ spendable \in Int
    BY DEF TypeOK, U64
  <2>2. /\ F \in Nat /\ R \in Nat /\ Y \in Nat /\ N \in Nat /\ S \in Nat
        /\ F <= MaxU64 /\ R <= MaxU64 /\ Y <= MaxU64 /\ N <= MaxU64 /\ S <= MaxU64
    BY <2>1 DEF Vault, U64
  <2>3. vault.pending_refundable_stake = 0
    BY DEF TotalsInv
  <2>4. R = Y + N /\ AccountedAssets(vault) \in 0 .. MaxU64 /\ spendable >= AccountedAssets(vault)
    BY DEF LamportsCover, VaultInvariant, AccountingFieldsAgree, U64
  <2>5. AccountedAssets(vault) = F + R + S
    BY <2>2, <2>3 DEF AccountedAssets
  <2>. QED BY <2>1, <2>2, <2>3, <2>4, <2>5
<1>4. vault \in Vault
  BY DEF TypeOK
<1> DEFINE y0 == IF p.side = "Yes" THEN Y - l ELSE Y
           n0 == IF p.side = "Yes" THEN N ELSE N - l
           After(v, f) ==
             /\ v \in Vault
             /\ v.free_collateral = f
             /\ v.reserved_liability = R - l
             /\ v.accepted_stake_principal = S - s
             /\ v.pending_refundable_stake = 0
             /\ v.yes_reserved_liability = y0
             /\ v.no_reserved_liability = n0
<1>5. /\ y0 \in U64 /\ n0 \in U64 /\ R - l \in U64 /\ S - s \in U64
      /\ y0 + n0 = R - l
      /\ F \in U64 /\ F + l \in U64 /\ F + (s + l) \in U64
  <2>1. p.side = "Yes" \/ p.side = "No"
    BY <1>1 DEF Sides
  <2> HIDE DEF p, l, s
  <2>. QED BY <1>1, <1>2, <1>3, <2>1 DEF U64
<1>6. /\ After(ApplyVoidRefund(vault, p.side, s, l), F + l)
      /\ After(ApplyClaim(vault, p.side, s, l), F)
      /\ After(ApplyReconcileLoss(vault, p.side, s, l), F + (s + l))
  <2> DEFINE v == Reserve(vault, p.side, -l)
  <2> HIDE DEF p, l, s
  <2>1. /\ R + (-l) = R - l
        /\ y0 = IF p.side = "Yes" THEN Y + (-l) ELSE Y
        /\ n0 = IF p.side = "Yes" THEN N ELSE N + (-l)
    BY <1>1, <1>3
  <2>2. /\ v.free_collateral = F
        /\ v.reserved_liability = R + (-l)
        /\ v.accepted_stake_principal = S
        /\ v.pending_refundable_stake = 0
        /\ v.yes_reserved_liability = IF p.side = "Yes" THEN Y + (-l) ELSE Y
        /\ v.no_reserved_liability = IF p.side = "Yes" THEN N ELSE N + (-l)
    BY <1>3, <1>4 DEF Reserve, Vault
  <2>3. v \in Vault
    <3>1. /\ R + (-l) \in U64
          /\ (IF p.side = "Yes" THEN Y + (-l) ELSE Y) \in U64
          /\ (IF p.side = "Yes" THEN N ELSE N + (-l)) \in U64
      BY <1>5, <2>1
    <3>. QED BY <1>4, <3>1 DEF Reserve, Vault
  <2> HIDE DEF v, y0, n0, F, R, Y, N, S
  <2>4. After(ApplyVoidRefund(vault, p.side, s, l), F + l)
    BY <1>5, <2>1, <2>2, <2>3 DEF ApplyVoidRefund, v, Vault
  <2>5. After(ApplyClaim(vault, p.side, s, l), F)
    BY <1>5, <2>1, <2>2, <2>3 DEF ApplyClaim, v, Vault
  <2>6. After(ApplyReconcileLoss(vault, p.side, s, l), F + (s + l))
    BY <1>5, <2>1, <2>2, <2>3 DEF ApplyReconcileLoss, v, Vault
  <2>. QED BY <2>4, <2>5, <2>6
<1> HIDE DEF p, l, s, F, R, Y, N, S, y0, n0
<1>7. ASSUME NEW v, NEW f \in U64, After(v, f), NEW paid \in Nat,
             f + (R - l) + (S - s) + paid = F + R + S
      PROVE  /\ v \in Vault
             /\ spendable >= paid
             /\ VaultInvariant(v, spendable - paid)
  <2>1. AccountedAssets(v) = f + (R - l) + (S - s)
    BY <1>5, <1>7 DEF AccountedAssets, U64
  <2>2. AccountedAssets(v) \in U64 /\ spendable - paid >= AccountedAssets(v) /\ spendable >= paid
    BY <1>1, <1>3, <1>5, <1>7, <2>1 DEF U64
  <2>. QED BY <1>5, <1>7, <2>2 DEF VaultInvariant, AccountingFieldsAgree, CheckedAddOk
<1>8. CASE After(SettledVault(n), F + l) /\ SettledPayment(n) = s
  <2>1. (F + l) + (R - l) + (S - s) + s = F + R + S
    BY <1>1, <1>3
  <2> HIDE DEF After
  <2>. QED BY <1>1, <1>5, <1>7, <1>8, <2>1
<1>9. CASE After(SettledVault(n), F) /\ SettledPayment(n) = s + l
  <2>1. F + (R - l) + (S - s) + (s + l) = F + R + S /\ s + l \in Nat
    BY <1>1, <1>3
  <2> HIDE DEF After
  <2>. QED BY <1>5, <1>7, <1>9, <2>1
<1>10. CASE After(SettledVault(n), F + (s + l)) /\ SettledPayment(n) = 0
  <2>1. (F + (s + l)) + (R - l) + (S - s) + 0 = F + R + S /\ 0 \in Nat
    BY <1>1, <1>3
  <2> HIDE DEF After
  <2>. QED BY <1>5, <1>7, <1>10, <2>1
<1> HIDE DEF After
<1>. QED BY <1>1, <1>6, <1>8, <1>9, <1>10 DEF SettledVault, SettledPayment, p, l, s

\* Once the market is resolved, no settlement of an accepted position can revert
\* for lack of money, whatever happened before.
THEOREM SettlementUnblocked == Spec => []SettlementNeverBlocked
<1>1. Init => LamportsCover
  BY DEF Init, EmptyVault, LamportsCover, VaultInvariant, AccountingFieldsAgree,
         CheckedAddOk, AccountedAssets, U64
<1>2. Init => EvidenceInv /\ FilledInv /\ NoncesAreFresh
  BY DEF Init, EvidenceInv, QuoteNamesEpoch, VerifiedQuoteHasEvidence, FilledInv, IsFilled,
         NoncesAreFresh
<1>3. TypeOK /\ FilledInv /\ TotalsInv /\ LamportsCover => SettlementNeverBlocked
  BY SettlementIsCovered DEF SettlementNeverBlocked
<1>. QED
  BY <1>1, <1>2, <1>3, TotalsAtStart, TotalsInvStep, LamportsCoverStep, EvidenceStep,
     FilledInvStep, NoncesAreFreshStep, TypeCorrect, PTL DEF Spec

(***************************************************************************)
(* The refinement.  The book owes the gross payout of every open bet; the  *)
(* program keeps its reserve and its stake principal.                      *)
(***************************************************************************)
BetOn(n) ==
    [ id |-> n,
      owner |-> positions[n].owner,
      side |-> positions[n].side,
      stake |-> positions[n].stake,
      gross |-> positions[n].gross_payout ]

\* An open bet's gross payout is the stake and the liability of its position, so
\* the vault's lamports cover the obligations of the book.
BankCovers == spendable >= Book!Obligations(OpenBets)

\* They do because the totals are the sums.
LEMMA BankIsCovered ==
    ASSUME TypeOK, FilledInv, TotalsInv, LamportsCover
    PROVE  BankCovers
<1> DEFINE A == AcceptedNonces
           e == [n \in A |-> BetOn(n)]
           f == [n \in A |-> positions[n].gross_payout]
           g == [b \in OpenBets |-> b.gross]
           yes == LiabilityFor("Yes")
           no == LiabilityFor("No")
           both == [n \in Nonces |-> yes[n] + no[n]]
           all == [n \in Nonces |-> both[n] + StakeAtRisk[n]]
<1>1. IsFiniteSet(Nonces) /\ A \in SUBSET Nonces /\ IsFiniteSet(A)
  BY NoncesFinite, FS_Subset DEF AcceptedNonces
<1>2. OpenBets = {e[n] : n \in A}
  BY DEF OpenBets, BetOn
<1>3. \A n, m \in A : e[n] = e[m] => n = m
  BY DEF BetOn
<1>4. ASSUME NEW n \in A
      PROVE  /\ f[n] = positions[n].stake + positions[n].reserved_liability
             /\ f[n] \in Int
             /\ g[e[n]] = f[n]
  <2>1. IsAccepted(n) /\ n \in Nonces
    BY DEF AcceptedNonces
  <2>2. AttestedTerms(positions[n])
    BY <2>1 DEF FilledInv, IsFilled, IsAccepted
  <2>3. positions[n].gross_payout \in Int
    BY <2>1, PositionAmounts DEF U64
  <2>4. e[n] \in OpenBets /\ e[n].gross = positions[n].gross_payout
    BY <1>2 DEF BetOn
  <2>. QED BY <2>2, <2>3, <2>4 DEF AttestedTerms
<1>5. ASSUME NEW n \in Nonces
      PROVE  /\ yes[n] \in Int /\ no[n] \in Int /\ StakeAtRisk[n] \in Int
             /\ n \in A => all[n] = f[n]
             /\ n \notin A => all[n] = 0
  <2>1. yes[n] \in Int /\ no[n] \in Int /\ StakeAtRisk[n] \in Int
    BY SumsTyped DEF Sides
  <2>2. ASSUME n \in A
        PROVE  all[n] = f[n]
    <3>1. IsAccepted(n) /\ positions[n].side \in Sides
      BY <2>2, PositionAmounts DEF AcceptedNonces, Position
    <3>2. positions[n].stake \in Int /\ positions[n].reserved_liability \in Int
      BY <3>1, PositionAmounts DEF U64
    <3>3. positions[n].side = "Yes" \/ positions[n].side = "No"
      BY <3>1 DEF Sides
    <3>4. yes[n] + no[n] = positions[n].reserved_liability
      BY <3>1, <3>2, <3>3 DEF LiabilityFor
    <3>5. StakeAtRisk[n] = positions[n].stake
      BY <3>1 DEF StakeAtRisk
    <3>6. all[n] = (yes[n] + no[n]) + StakeAtRisk[n]
      OBVIOUS
    <3>7. f[n] = positions[n].stake + positions[n].reserved_liability
      BY <1>4, <2>2
    <3> HIDE DEF A, e, f, g, both, all, yes, no
    <3>. QED BY <3>2, <3>4, <3>5, <3>6, <3>7
  <2>3. ASSUME n \notin A
        PROVE  all[n] = 0
    BY <2>3 DEF AcceptedNonces, LiabilityFor, StakeAtRisk
  <2>. QED BY <2>1, <2>2, <2>3
<1>6. Book!Obligations(OpenBets) = SumOver(f, A)
  <2>1. Book!Obligations(OpenBets) = SumOver(g, OpenBets)
    BY ObligationsAreASum
  <2>2. \A n \in A : f[n] \in Int /\ g[e[n]] = f[n]
    BY <1>4
  <2> HIDE DEF e, f, g, A
  <2>3. SumOver(g, {e[n] : n \in A}) = SumOver(f, A)
    BY <1>1, <1>3, <2>2, SumOfImage
  <2>. QED BY <1>2, <2>1, <2>3, Zenon
<1>7. SumOver(f, A) = SumOver(all, Nonces)
  <2>1. \A n \in A : f[n] \in Int /\ all[n] = f[n]
    BY <1>1, <1>4, <1>5
  <2>2. \A n \in Nonces \ A : all[n] = 0
    BY <1>5
  <2> HIDE DEF f, all, A
  <2>. QED BY <1>1, <2>1, <2>2, SumOverPart
<1>8. SumOver(all, Nonces) = SumOver(both, Nonces) + TotalStake
  <2>1. \A n \in Nonces : both[n] \in Int /\ StakeAtRisk[n] \in Int
                           /\ all[n] = both[n] + StakeAtRisk[n]
    <3> HIDE DEF yes, no
    <3>1. \A n \in Nonces : yes[n] \in Int /\ no[n] \in Int /\ StakeAtRisk[n] \in Int
      BY <1>5
    <3>. QED BY <3>1
  <2> HIDE DEF all, both
  <2>. QED BY <1>1, <2>1, SumOfPlus DEF TotalStake
<1>9. SumOver(both, Nonces) = TotalLiability("Yes") + TotalLiability("No")
  <2>1. \A n \in Nonces : yes[n] \in Int /\ no[n] \in Int /\ both[n] = yes[n] + no[n]
    BY <1>5
  <2> HIDE DEF both
  <2>. QED BY <1>1, <2>1, SumOfPlus DEF TotalLiability
<1>10. Book!Obligations(OpenBets)
         = vault.reserved_liability + vault.accepted_stake_principal
  <2> HIDE DEF A, e, f, g, yes, no, both, all
  <2>. QED BY <1>6, <1>7, <1>8, <1>9 DEF TotalsInv
<1>11. /\ vault.free_collateral \in Nat
       /\ vault.reserved_liability \in Nat
       /\ vault.accepted_stake_principal \in Nat
       /\ spendable \in Int
  BY DEF TypeOK, Vault, U64
<1>12. spendable >= AccountedAssets(vault) /\ vault.pending_refundable_stake = 0
  BY DEF LamportsCover, VaultInvariant, TotalsInv
<1>13. spendable >= vault.reserved_liability + vault.accepted_stake_principal
  BY <1>11, <1>12 DEF AccountedAssets
<1>. QED BY <1>10, <1>13 DEF BankCovers

\* A market has a result exactly when it is resolved.
OutcomeInv ==
    IF market.resolved THEN market.resolution \in {"Yes", "No", "Void"}
                       ELSE market.resolution = "Unresolved"

\* Only executing a proposal changes either, and it does so once.
LEMMA ResolvesOnce ==
    ASSUME TypeOK, [Next]_vars
    PROVE  \/ /\ market'.resolved = market.resolved
              /\ market'.resolution = market.resolution
           \/ /\ ExecuteResolution \/ ExecuteVoid
              /\ ~market.resolved
              /\ market'.resolved
              /\ market'.resolution \in {"Yes", "No", "Void"}
<1>1. market \in Market
  BY DEF TypeOK
<1> DEFINE Same == market'.resolved = market.resolved /\ market'.resolution = market.resolution
<1>2. CASE UNCHANGED market
  BY <1>2
<1>3. CASE SetUp \/ Liquidity \/ Trading \/ Settlement \/ Tick \/ UNCHANGED vars
  BY <1>2, <1>3
     DEF SetUp, InitializeMarket, InitializeLiquidityVault, Liquidity, DepositLiquidity,
         ReconcileVaultSurplus, WithdrawFreeLiquidity, SendLamports, Trading,
         PlaceFixedPayoutOrder, Settlement, ClaimFixedPayout, ClaimVoidRefund,
         ReconcilePosition, CloseFixedPayoutPosition, Tick, vars, marketVars
<1>4. CASE Pricing
  <2>1. ASSUME NEW signer \in Keys, NEW seq \in MaterialSequences,
               IngestMaterialEvent(signer, seq)
        PROVE  Same
    BY <1>1, <2>1 DEF IngestMaterialEvent, Market
  <2>. QED BY <1>2, <1>4, <2>1 DEF Pricing, CommitTxlineQuote, VerifyTxlineQuote
<1>5. CASE ExecuteResolution
  <2>1. /\ ~market.resolved
        /\ market'.resolved
        /\ market'.resolution = resolution_receipt.derived_outcome
    BY <1>1, <1>5 DEF ExecuteResolution, Market
  <2>2. resolution_receipt \in ResolutionReceipt
    BY <1>5 DEF ExecuteResolution, TypeOK
  <2>. QED BY <1>5, <2>1, <2>2 DEF ResolutionReceipt
<1>6. CASE ExecuteVoid
  BY <1>1, <1>6 DEF ExecuteVoid, Market
<1>7. ASSUME NEW signer \in Keys, NEW stats \in FinalStats,
             ProveResolutionWithTxline(signer, stats)
      PROVE  Same
  BY <1>1, <1>7 DEF ProveResolutionWithTxline, Market
<1>8. ASSUME NEW signer \in Keys, ProposeVoid(signer)
      PROVE  Same
  BY <1>1, <1>8 DEF ProposeVoid, Market
<1>9. ASSUME NEW signer \in Keys, ApproveResolution(signer)
      PROVE  Same
  BY <1>2, <1>9 DEF ApproveResolution, marketVars
<1>. QED BY <1>3, <1>4, <1>5, <1>6, <1>7, <1>8, <1>9 DEF Next, Resolution

(***************************************************************************)
(* The book's variables after each kind of step.                           *)
(***************************************************************************)
Used == 0 .. counters.next_order_nonce - 1

Purse == [t \in Traders |-> wallet[t]]

\* A step that changes no bet leaves the open bets as they are; one that takes
\* or ends a single bet adds or removes it.
LEMMA OpenBetsMove ==
    /\ (\A m \in Nonces : SameBet(m)) => OpenBets' = OpenBets
    /\ \A n \in Nonces :
          (\A m \in Nonces : m # n => SameBet(m)) =>
             /\ ~IsAccepted(n) /\ IsAccepted(n)' => OpenBets' = OpenBets \cup {BetOn(n)'}
             /\ IsAccepted(n) /\ ~IsAccepted(n)' => OpenBets' = OpenBets \ {BetOn(n)}
<1>1. OpenBets = {BetOn(m) : m \in AcceptedNonces}
  BY DEF OpenBets, BetOn
<1>2. OpenBets' = {BetOn(m)' : m \in AcceptedNonces'}
  BY DEF OpenBets, BetOn
<1>3. ASSUME NEW m \in Nonces, SameBet(m)
      PROVE  /\ m \in AcceptedNonces' <=> m \in AcceptedNonces
             /\ m \in AcceptedNonces => BetOn(m)' = BetOn(m)
  BY <1>3 DEF SameBet, AcceptedNonces, BetOn
<1>4. ASSUME \A m \in Nonces : SameBet(m)
      PROVE  OpenBets' = OpenBets
  <2>1. AcceptedNonces' = AcceptedNonces
    BY <1>3, <1>4 DEF AcceptedNonces
  <2>2. \A m \in AcceptedNonces : BetOn(m)' = BetOn(m)
    BY <1>3, <1>4 DEF AcceptedNonces
  <2>. QED BY <1>1, <1>2, <2>1, <2>2
<1>5. ASSUME NEW n \in Nonces, \A m \in Nonces : m # n => SameBet(m),
             ~IsAccepted(n), IsAccepted(n)'
      PROVE  OpenBets' = OpenBets \cup {BetOn(n)'}
  <2>1. AcceptedNonces' = AcceptedNonces \cup {n} /\ n \notin AcceptedNonces
    BY <1>3, <1>5 DEF AcceptedNonces
  <2>2. \A m \in AcceptedNonces : BetOn(m)' = BetOn(m)
    BY <1>3, <1>5, <2>1 DEF AcceptedNonces
  <2>. QED BY <1>1, <1>2, <2>1, <2>2
<1>6. ASSUME NEW n \in Nonces, \A m \in Nonces : m # n => SameBet(m),
             IsAccepted(n), ~IsAccepted(n)'
      PROVE  OpenBets' = OpenBets \ {BetOn(n)}
  <2>1. AcceptedNonces' = AcceptedNonces \ {n} /\ n \in AcceptedNonces
    BY <1>3, <1>6 DEF AcceptedNonces
  <2>2. \A m \in AcceptedNonces' : BetOn(m)' = BetOn(m)
    BY <1>3, <1>6, <2>1 DEF AcceptedNonces
  <2>3. \A m \in AcceptedNonces : m # n => BetOn(m) # BetOn(n)
    BY DEF BetOn
  <2>. QED BY <1>1, <1>2, <2>1, <2>2, <2>3
<1>. QED BY <1>4, <1>5, <1>6

\* The operator's liquidity: money arrives, or leaves within what no open bet can
\* need, or only changes its name.
LEMMA LiquidityRefines ==
    ASSUME TypeOK, BankCovers', Liquidity
    PROVE  Book!BookNext \/ UNCHANGED Book!bookVars
<1>1. /\ spendable \in Int
      /\ wallet \in [Lamporters -> Nat]
      /\ counters \in Counters
      /\ Operator \in Lamporters \ Traders
      /\ Stranger \in Lamporters \ Traders
  BY DEF TypeOK, U64, Lamporters
<1>2. UNCHANGED <<OpenBets, Used, market.resolution>>
  <2>1. positions' = positions /\ market' = market
    BY DEF Liquidity, DepositLiquidity, ReconcileVaultSurplus, WithdrawFreeLiquidity,
           SendLamports, marketVars
  <2>2. OpenBets' = OpenBets
    BY <2>1 DEF OpenBets, AcceptedNonces, IsAccepted
  <2>3. counters'.next_order_nonce = counters.next_order_nonce
    BY <1>1
       DEF Liquidity, DepositLiquidity, ReconcileVaultSurplus, WithdrawFreeLiquidity,
           SendLamports, SettleAccounts, Counters
  <2>. QED BY <2>1, <2>2, <2>3 DEF Used
<1>3. ASSUME NEW account \in Lamporters \ Traders, NEW x,
             wallet' = [wallet EXCEPT ![account] = x]
      PROVE  Purse' = Purse
  BY <1>1, <1>3 DEF Purse, Lamporters
<1>4. ASSUME NEW account \in Lamporters \ Traders, NEW amount \in Amounts, amount > 0,
             TransferIn(account, amount)
      PROVE  Book!Fund
  <2>1. wallet' = [wallet EXCEPT ![account] = wallet[account] - amount]
    BY <1>1, <1>4 DEF TransferIn
  <2>2. Purse' = Purse
    BY <1>3, <2>1
  <2>3. spendable' > spendable
    BY <1>1, <1>4 DEF TransferIn
  <2>. QED BY <1>2, <2>2, <2>3 DEF Book!Fund, Used, Purse
<1>5. ASSUME NEW amount \in Amounts, DepositLiquidity(amount)
      PROVE  Book!Fund
  BY <1>1, <1>4, <1>5 DEF DepositLiquidity
<1>6. ASSUME NEW amount \in Amounts, SendLamports(Stranger, amount)
      PROVE  Book!Fund
  BY <1>1, <1>4, <1>6 DEF SendLamports
<1>7. CASE ReconcileVaultSurplus
  <2>1. UNCHANGED <<spendable, Purse>>
    BY <1>7 DEF ReconcileVaultSurplus, NoLamportsMove, Purse
  <2>. QED BY <1>2, <2>1 DEF Book!bookVars, Used, Purse
<1>8. ASSUME NEW amount \in Amounts, WithdrawFreeLiquidity(amount)
      PROVE  Book!Withdraw
  <2>1. /\ wallet' = [wallet EXCEPT ![Operator] = wallet[Operator] + amount]
        /\ spendable' < spendable
        /\ amount \in Int
    BY <1>1, <1>8 DEF WithdrawFreeLiquidity, MoveOut
  <2>2. Purse' = Purse
    BY <1>1, <1>3, <2>1
  <2>3. spendable' >= Book!Obligations(OpenBets)
    BY <1>2 DEF BankCovers
  <2>. QED BY <1>2, <2>1, <2>2, <2>3 DEF Book!Withdraw, Used, Purse
<1>. QED BY <1>5, <1>6, <1>7, <1>8 DEF Liquidity, Book!BookNext

\* A step has the book's outcome follow the market.
LEMMA OutcomeInvStep ==
    ASSUME TypeOK, OutcomeInv, [Next]_vars
    PROVE  OutcomeInv'
BY ResolvesOnce DEF OutcomeInv

\* Placing an order spends its nonce, which was the next.
LEMMA PlacedNonce ==
    ASSUME TypeOK, OutcomeInv, NEW trader \in Traders, NEW args \in OrderArgs,
           PlaceFixedPayoutOrder(trader, args)
    PROVE  /\ args.order_nonce \in Nonces
           /\ args.order_nonce \notin Used
           /\ Used' = Used \cup {args.order_nonce}
           /\ market.resolution = "Unresolved"
           /\ market' = market
<1>1. counters \in Counters /\ counters.next_order_nonce \in Nat
  BY DEF TypeOK, Counters, U64
<1>2. counters' = [CountOrder EXCEPT !.accounting_sequence = @ + 1]
  BY DEF PlaceFixedPayoutOrder, RefundStaleOrder, AcceptOrder, SettleAccounts
<1>3. counters'.next_order_nonce = counters.next_order_nonce + 1
  BY <1>1, <1>2 DEF CountOrder, Counters
<1>4. args.order_nonce = counters.next_order_nonce /\ args.order_nonce \in Nonces
  BY DEF PlaceFixedPayoutOrder, OrderAdmitted
<1>5. market.resolution = "Unresolved" /\ market' = market
  BY DEF PlaceFixedPayoutOrder, OrderAdmitted, TradingOpen, OutcomeInv, marketVars
<1>6. /\ counters.next_order_nonce \notin Used
      /\ Used' = Used \cup {counters.next_order_nonce}
  BY <1>1, <1>3 DEF Used
<1>. QED BY <1>4, <1>5, <1>6

\* An order that is overtaken is a refused bet.
LEMMA RefundRefines ==
    ASSUME TypeOK, NoncesAreFresh, OutcomeInv,
           NEW trader \in Traders, NEW args \in OrderArgs,
           PlaceFixedPayoutOrder(trader, args), RefundStaleOrder(trader, args)
    PROVE  Book!BookNext
<1> DEFINE n == args.order_nonce
<1>1. positions \in [Nonces -> Position \cup {NoAccount}]
  BY DEF TypeOK
<1>2. n \in Nonces /\ n \notin Used /\ Used' = Used \cup {n}
      /\ market.resolution = "Unresolved" /\ market' = market
  BY PlacedNonce
<1>3. n \in Nonces /\ ~IsAccepted(n)
  BY PlacedAtFreshNonce DEF IsAccepted
<1>4. positions' = [positions EXCEPT ![n] = NewPosition(trader, args)]
  BY DEF RefundStaleOrder
<1>5. \A m \in Nonces : SameBet(m)
  <2>1. positions'[n].status = "Refunded"
    BY <1>1, <1>2, <1>4 DEF NewPosition
  <2>2. \A m \in Nonces : m # n => positions'[m] = positions[m]
    BY <1>1, <1>4
  <2>. QED BY <1>3, <2>1, <2>2 DEF SameBet, IsAccepted
<1>6. OpenBets' = OpenBets
  BY <1>5, OpenBetsMove
<1>7. UNCHANGED <<spendable, Purse>>
  BY DEF RefundStaleOrder, NoLamportsMove, Purse
<1>8. Book!Decline(n)
  BY <1>2, <1>6, <1>7 DEF Book!Decline, Used, Purse
<1>. QED BY <1>2, <1>8 DEF Book!BookNext

\* An order that executes is a bet taken: the stake comes out of the bettor's
\* purse and the bank covers the new bet as well.
LEMMA AcceptRefines ==
    ASSUME TypeOK, NoncesAreFresh, OutcomeInv, BankCovers',
           NEW trader \in Traders, NEW args \in OrderArgs,
           PlaceFixedPayoutOrder(trader, args), AcceptOrder(trader, args)
    PROVE  Book!BookNext
<1> DEFINE n == args.order_nonce
           p == positions'[n]
<1> PICK bet : bet = BetOn(n)'
  OBVIOUS
<1>1. positions \in [Nonces -> Position \cup {NoAccount}]
  BY DEF TypeOK
<1>2. n \in Nonces /\ n \notin Used /\ Used' = Used \cup {n}
      /\ market.resolution = "Unresolved" /\ market' = market
  BY PlacedNonce
<1>3. n \in Nonces /\ ~IsAccepted(n)
  BY PlacedAtFreshNonce DEF IsAccepted
<1>4. /\ positions' = [positions EXCEPT ![n] = p]
      /\ p \in Position
      /\ p.owner = trader
      /\ p.stake = args.stake
      /\ p.gross_payout > args.stake
      /\ p.status = "Accepted"
  BY AcceptedPosition
<1>5. IsAccepted(n)' /\ \A m \in Nonces : m # n => SameBet(m)
  <2>1. \A m \in Nonces : m # n => positions'[m] = positions[m]
    BY <1>1, <1>4
  <2>. QED BY <1>4, <2>1 DEF SameBet, IsAccepted
<1>6. OpenBets' = OpenBets \cup {bet}
  BY <1>3, <1>5, OpenBetsMove
<1>7. /\ bet.id = n
      /\ bet.owner = trader
      /\ bet.stake = args.stake
      /\ bet.gross > bet.stake
  BY <1>4 DEF BetOn
<1>8. TransferIn(trader, args.stake) /\ args.stake > 0 /\ args.stake \in Nat
  BY DEF AcceptOrder, GrossPayoutOk, Args, U64
<1>9. /\ Purse[trader] >= args.stake
      /\ Purse' = [Purse EXCEPT ![trader] = Purse[trader] - args.stake]
      /\ spendable' = spendable + args.stake
  BY <1>8 DEF TransferIn, Purse, TypeOK, Lamporters
<1>10. spendable' >= Book!Obligations(OpenBets')
  BY DEF BankCovers
<1> HIDE DEF n, p
<1>11. Book!Take(bet)
  BY <1>2, <1>6, <1>7, <1>8, <1>9, <1>10 DEF Book!Take, Used, Purse
<1>12. bet \in OpenBets'
  BY <1>6
<1>. QED BY <1>11, <1>12 DEF Book!BookNext

\* A claim, a refund of a void market and the reconciliation of a loss settle an
\* open bet for what the outcome makes due.
LEMMA SettleRefines ==
    ASSUME TypeOK, OutcomeInv, NEW n \in Nonces, Settles(n)
    PROVE  Book!BookNext
<1> DEFINE p == positions[n]
<1> PICK bet : bet = BetOn(n)
  OBVIOUS
<1>1. /\ IsAccepted(n)
      /\ ~IsAccepted(n)'
      /\ \A m \in Nonces : m # n => SameBet(m)
      /\ market.resolution \in {"Yes", "No", "Void"}
  BY SettledPosition DEF SameBet, IsAccepted, OutcomeInv
<1>2. bet \in OpenBets /\ OpenBets' = OpenBets \ {bet}
  BY <1>1, OpenBetsMove DEF OpenBets, AcceptedNonces, BetOn
<1>3. /\ bet.owner = p.owner
      /\ Book!Due(bet) = SettledPayment(n)
  <2>1. /\ bet.owner = p.owner
        /\ bet.stake = p.stake
        /\ bet.side = p.side
        /\ bet.gross = p.gross_payout
    BY DEF BetOn
  <2>. QED BY <2>1 DEF Book!Due, SettledPayment, PositionWon
<1>4. UNCHANGED <<Used, market>>
  <2>1. counters' = [counters EXCEPT !.accounting_sequence = @ + 1] /\ market' = market
    BY DEF Settles, ClaimFixedPayout, ClaimVoidRefund, ReconcilePosition, SettleAccounts,
           marketVars
  <2>2. counters'.next_order_nonce = counters.next_order_nonce
    BY <2>1 DEF TypeOK, Counters
  <2>. QED BY <2>1, <2>2 DEF Used
<1>5. \/ MoveOut(p.owner, SettledPayment(n))
      \/ NoLamportsMove /\ SettledPayment(n) = 0
  BY DEF Settles, ClaimFixedPayout, ClaimVoidRefund, ReconcilePosition, SettledPayment
<1>6. /\ wallet \in [Lamporters -> Nat]
      /\ p.owner \in Traders
      /\ SettledPayment(n) \in Int
      /\ spendable \in Int
  BY <1>1, PositionAmounts DEF TypeOK, U64, SettledPayment
<1>7. /\ Purse' = [Purse EXCEPT ![p.owner] = Purse[p.owner] + SettledPayment(n)]
      /\ spendable' = spendable - SettledPayment(n)
  <2>1. CASE MoveOut(p.owner, SettledPayment(n))
    BY <1>6, <2>1 DEF MoveOut, Purse, Lamporters
  <2>2. CASE NoLamportsMove /\ SettledPayment(n) = 0
    BY <1>6, <2>2 DEF NoLamportsMove, Purse, Lamporters
  <2>. QED BY <1>5, <2>1, <2>2
<1>8. market.resolution # "Unresolved"
  BY <1>1
<1> HIDE DEF p
<1>9. Book!Settle(bet)
  BY <1>2, <1>3, <1>4, <1>7, <1>8 DEF Book!Settle, Used, Purse
<1>. QED BY <1>2, <1>9 DEF Book!BookNext

\* Every step of the program is a step of the book or leaves the book alone.
LEMMA BookStep ==
    ASSUME TypeOK, NoncesAreFresh, OutcomeInv, BankCovers', [Next]_vars
    PROVE  [Book!BookNext]_(Book!bookVars)
<1>1. CASE UNCHANGED <<vault, ledger, counters, spendable, wallet, positions>>
  <2>1. UNCHANGED <<spendable, OpenBets, Used, Purse>>
    BY <1>1 DEF OpenBets, AcceptedNonces, IsAccepted, Used, Purse
  <2>2. CASE market'.resolution = market.resolution
    BY <2>1, <2>2 DEF Book!bookVars, Used, Purse
  <2>3. CASE ~market.resolved /\ market'.resolution \in {"Yes", "No", "Void"}
    BY <2>1, <2>3 DEF Book!BookNext, Book!Resolve, OutcomeInv, Used, Purse
  <2>. QED BY <2>2, <2>3, ResolvesOnce
<1>2. CASE Liquidity
  BY <1>2, LiquidityRefines
<1>3. ASSUME NEW trader \in Traders, NEW args \in OrderArgs, PlaceFixedPayoutOrder(trader, args)
      PROVE  Book!BookNext
  BY <1>3, RefundRefines, AcceptRefines DEF PlaceFixedPayoutOrder
<1>4. ASSUME NEW n \in Nonces, Settles(n)
      PROVE  Book!BookNext
  BY <1>4, SettleRefines
<1>5. ASSUME NEW trader \in Traders, NEW n \in Nonces, CloseFixedPayoutPosition(trader, n)
      PROVE  UNCHANGED Book!bookVars
  <2>1. /\ UNCHANGED <<market, spendable, wallet>>
        /\ positions' = [positions EXCEPT ![n] = NoAccount]
        /\ ~IsAccepted(n)
        /\ counters'.next_order_nonce = counters.next_order_nonce
    BY <1>5 DEF CloseFixedPayoutPosition, IsAccepted, marketVars, TypeOK, Counters
  <2>2. \A m \in Nonces : SameBet(m)
    BY <2>1 DEF TypeOK, SameBet, IsAccepted
  <2>3. OpenBets' = OpenBets
    BY <2>2, OpenBetsMove
  <2>. QED BY <2>1, <2>3 DEF Book!bookVars
<1>. QED BY <1>1, <1>2, <1>3, <1>4, <1>5, StepKinds

\* The book starts empty, with whatever the bettors have.
LEMMA BookStart ==
    ASSUME Init
    PROVE  Book!BookInit
<1>1. OpenBets = {}
  BY DEF Init, OpenBets, AcceptedNonces, IsAccepted
<1>2. Used = {}
  BY DEF Init, Used
<1>3. Purse \in [Traders -> Nat]
  BY DEF Init, Purse, Lamporters
<1>4. spendable = 0 /\ market.resolution = "Unresolved"
  BY DEF Init
<1>. QED BY <1>1, <1>2, <1>3, <1>4 DEF Book!BookInit, Used, Purse

\* The program implements the fully reserved book.
THEOREM BookCorrect == Spec => ImplementsBook
<1>1. Init => LamportsCover
  BY DEF Init, EmptyVault, LamportsCover, VaultInvariant, AccountingFieldsAgree,
         CheckedAddOk, AccountedAssets, U64
<1>2. Init => EvidenceInv /\ FilledInv /\ NoncesAreFresh /\ OutcomeInv
  BY DEF Init, EvidenceInv, QuoteNamesEpoch, VerifiedQuoteHasEvidence, FilledInv, IsFilled,
         NoncesAreFresh, OutcomeInv
<1>3. Spec => [](TypeOK /\ EvidenceInv /\ FilledInv /\ NoncesAreFresh /\ TotalsInv
                   /\ LamportsCover /\ OutcomeInv)
  BY <1>1, <1>2, TotalsAtStart, TotalsInvStep, LamportsCoverStep, EvidenceStep,
     FilledInvStep, NoncesAreFreshStep, OutcomeInvStep, TypeCorrect, PTL DEF Spec
<1>4. Spec => []BankCovers
  BY <1>3, BankIsCovered, PTL
<1>. QED BY <1>3, <1>4, BookStart, BookStep, PTL DEF Spec, ImplementsBook, Book!BookSpec
=============================================================================
