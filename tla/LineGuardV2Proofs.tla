------------------------- MODULE LineGuardV2Proofs -------------------------
(***************************************************************************)
(* Proofs about the second generation of the LineGuard program, for any    *)
(* traders, orders and amounts, any sets the admin may propose and any     *)
(* timelock.                                                               *)
(*                                                                         *)
(* The first part is the timelock.  Its property compares two moments; the *)
(* invariant carries the first one to the second: what is pending becomes  *)
(* due a whole timelock after it was proposed.                             *)
(*                                                                         *)
(* The second part is the market's books.  BooksOf says what the vault's   *)
(* and the market's numbers have to do with the positions and the orders;  *)
(* each instruction changes one position or one order at most, and so each *)
(* sum by one term.                                                        *)
(***************************************************************************)
EXTENDS OrderTicket, LifecycleRecorder, SumTheorems, TLAPS

AuthorityConfig ==
    [ current : AuthoritySets, pending : AuthoritySets \cup {NoAccount},
      execute_after : Int ]

DueAfterTimelock ==
    /\ clock \in Int /\ proposedAt \in Int
    /\ Exists(authorities) =>
          /\ authorities \in AuthorityConfig
          /\ Exists(authorities.pending) =>
                authorities.execute_after = proposedAt + AUTHORITY_TIMELOCK

(***************************************************************************)
(* A step of the program: one instruction, or the instructions of one      *)
(* transaction, whoever signs it and whatever the arguments, as long as    *)
(* they have the program's types.  V2Next, the ticket and the scripts take *)
(* no others.                                                              *)
(***************************************************************************)

\* initialize_authorities and initialize_market_v2 in one transaction.
OpensAtOnce(set, terms) ==
    /\ ~ Exists(authorities) /\ ~ Exists(v2.market)
    /\ TypedTerms(terms) /\ ValidTerms(terms)
    /\ authorities' = [current |-> set, pending |-> NoAccount, execute_after |-> 0]
    /\ v2' = Opened(set, terms)
    /\ UNCHANGED <<outlay, proposedAt, clock>>

\* ingest_material_event_v2 and commit_txline_odds_v2 in one transaction.
PricesMove(seq, odds, price) ==
    /\ IsTrading
    /\ seq \in Int /\ odds \in Int /\ price \in 1 .. MICROS_ONE - 1
    /\ seq > v2.market.material_seq
    /\ v2' = [v2 EXCEPT !.market.material_seq = seq, !.market.odds_sequence = odds,
                        !.market.fair = price]
    /\ UNCHANGED <<authorities, outlay, proposedAt, clock>>

GovernanceStep ==
    \/ \E k : \E set \in AuthoritySets :
          InitializeAuthorities(k, set) \/ ProposeAuthorityUpdate(k, set)
    \/ ExecuteAuthorityUpdate
    \/ \E terms : \E set \in AuthoritySets : OpensAtOnce(set, terms)

ControlStep ==
    \/ \E k, terms : TypedTerms(terms) /\ InitializeMarketV2(k, terms)
    \/ \E k : \E seq \in Int : IngestMaterialEventV2(k, seq)
    \/ \E k, odds : odds.sequence \in Int /\ CommitTxlineOddsV2(k, odds)
    \/ \E seq, odds, price : PricesMove(seq, odds, price)
    \/ \E k : RepriceMarketV2(k) \/ CloseMarketV2(k) \/ ApproveResolutionV2(k)
                 \/ EmergencyVoidMarketV2(k)
    \/ \E k, evidence : ProveResolutionWithTxlineV2(k, evidence)
    \/ ExecuteResolutionV2

MoneyStep ==
    \/ \E args : \E o \in V2Orders :
          TypedArgs(args) /\ (PlaceOrderV2(o, args) \/ PlacesAndEvaluates(o, args))
    \/ \E o \in V2Orders : EvaluateOrderV2(o) \/ CancelOrderV2(o)
    \/ \E p \in Positions : ClaimPositionV2(p) \/ ClosePositionV2(p)

MarketStep == GovernanceStep \/ ControlStep \/ MoneyStep \/ ClockTicks \/ UNCHANGED v2Vars

\* The steps of the authorities and the traders are such steps.
LEMMA NextIsMarketStep ==
    ASSUME V2Assumption, [V2Next]_v2Vars
    PROVE  MarketStep
<1>1. CASE AuthorityStep
  <2>1. \A terms \in Terms : TypedTerms(terms)
      BY DEF V2Assumption
  <2>2. Events \subseteq Int /\ \A odds \in Odds : odds.sequence \in Int
      BY DEF V2Assumption
  <2>3. GovernanceStep \/ ControlStep
      BY <1>1, <2>1, <2>2, Zenon DEF AuthorityStep, GovernanceStep, ControlStep
  <2> QED  BY <2>3 DEF MarketStep
<1>2. CASE TraderStep
  <2>1. \A args \in OrderArgs : TypedArgs(args)
      BY DEF V2Assumption
  <2>2. MoneyStep
      BY <1>2, <2>1, Zenon DEF TraderStep, MoneyStep
  <2> QED  BY <2>2 DEF MarketStep
<1>3. CASE ClockTicks \/ UNCHANGED v2Vars
    BY <1>3 DEF MarketStep
<1> QED  BY <1>1, <1>2, <1>3 DEF V2Next

\* Neither prices and results nor orders and claims touch the authorities.
LEMMA AuthoritiesRest ==
    ASSUME ControlStep \/ MoneyStep \/ UNCHANGED v2Vars
    PROVE  UNCHANGED <<authorities, proposedAt, clock>>
<1>1. CASE ControlStep
    BY <1>1 DEF ControlStep, InitializeMarketV2, IngestMaterialEventV2,
                CommitTxlineOddsV2, PricesMove, RepriceMarketV2, CloseMarketV2,
                ProveResolutionWithTxlineV2, ApproveResolutionV2, EmergencyVoidMarketV2,
                ExecuteResolutionV2
<1>2. CASE MoneyStep
    BY <1>2 DEF MoneyStep, PlaceOrderV2, PlacesAndEvaluates, EvaluateOrderV2,
                CancelOrderV2, ClaimPositionV2, ClosePositionV2
<1> QED  BY <1>1, <1>2 DEF v2Vars

\* A proposal starts its own wait, whatever was pending before it, and no other
\* instruction touches the authorities: what is pending is due a timelock after
\* propose_authority_update.
LEMMA PendingIsDue ==
    ASSUME AUTHORITY_TIMELOCK \in Int, DueAfterTimelock, MarketStep
    PROVE  DueAfterTimelock'
<1> USE DEF Exists
<1>1. CASE /\ UNCHANGED <<authorities, proposedAt>>
           /\ clock' \in Int
    BY <1>1 DEF DueAfterTimelock, AuthorityConfig
<1>2. ASSUME NEW k, NEW set \in AuthoritySets, InitializeAuthorities(k, set)
      PROVE  DueAfterTimelock'
    BY <1>2 DEF InitializeAuthorities, DueAfterTimelock, AuthorityConfig
<1>3. ASSUME NEW k, NEW set \in AuthoritySets, ProposeAuthorityUpdate(k, set)
      PROVE  DueAfterTimelock'
    <2>1. /\ authorities \in AuthorityConfig
          /\ authorities' = [authorities EXCEPT !.pending = set,
                                   !.execute_after = clock + AUTHORITY_TIMELOCK]
          /\ proposedAt' = clock /\ clock' = clock /\ clock \in Int
        BY <1>3 DEF ProposeAuthorityUpdate, DueAfterTimelock
    <2>2. clock + AUTHORITY_TIMELOCK \in Int
        BY <2>1
    <2>3. /\ authorities' \in AuthorityConfig
          /\ authorities'.execute_after = clock + AUTHORITY_TIMELOCK
        BY <2>1, <2>2 DEF AuthorityConfig
    <2> QED  BY <2>1, <2>3 DEF DueAfterTimelock
<1>4. CASE ExecuteAuthorityUpdate
    BY <1>4 DEF ExecuteAuthorityUpdate, DueAfterTimelock, AuthorityConfig
<1>5. ASSUME NEW terms, NEW set \in AuthoritySets, OpensAtOnce(set, terms)
      PROVE  DueAfterTimelock'
    BY <1>5 DEF OpensAtOnce, DueAfterTimelock, AuthorityConfig
<1>6. CASE ControlStep \/ MoneyStep \/ UNCHANGED v2Vars
    BY <1>1, <1>6, AuthoritiesRest DEF DueAfterTimelock
<1>7. CASE ClockTicks
    <2>1. clock' \in Int /\ UNCHANGED <<authorities, proposedAt>>
        BY <1>7 DEF ClockTicks, DueAfterTimelock
    <2> QED  BY <2>1, <1>1
<1> QED
    BY <1>2, <1>3, <1>4, <1>5, <1>6, <1>7 DEF MarketStep, GovernanceStep

\* No step but the execution of what is pending changes the current authorities.
LEMMA OnlyExecutionReplaces ==
    ASSUME MarketStep, Exists(authorities), DueAfterTimelock,
           authorities'.current # authorities.current
    PROVE  ExecuteAuthorityUpdate
<1>1. ~ UNCHANGED authorities
    OBVIOUS
<1>2. ~ ControlStep /\ ~ MoneyStep /\ ~ UNCHANGED v2Vars
    BY <1>1, AuthoritiesRest
<1>3. ~ ClockTicks
    BY <1>1 DEF ClockTicks
<1>4. ASSUME NEW k, NEW set \in AuthoritySets
      PROVE  ~ InitializeAuthorities(k, set) /\ ~ ProposeAuthorityUpdate(k, set)
    BY DEF InitializeAuthorities, ProposeAuthorityUpdate, DueAfterTimelock,
           AuthorityConfig, Exists
<1>5. ASSUME NEW terms, NEW set \in AuthoritySets
      PROVE  ~ OpensAtOnce(set, terms)
    BY DEF OpensAtOnce
<1> QED
    BY <1>2, <1>3, <1>4, <1>5 DEF MarketStep, GovernanceStep

\* So the timelock has passed when they change.
LEMMA TheyWaited ==
    ASSUME MarketStep, Exists(authorities), DueAfterTimelock,
           AUTHORITY_TIMELOCK \in Int, authorities'.current # authorities.current
    PROVE  /\ clock - proposedAt >= AUTHORITY_TIMELOCK
           /\ authorities'.current = authorities.pending
<1>1. ExecuteAuthorityUpdate
    BY OnlyExecutionReplaces
<1> QED  BY <1>1 DEF ExecuteAuthorityUpdate, DueAfterTimelock, AuthorityConfig, Exists

\* The authorities of the LineGuard program change only to a set that was proposed a
\* whole timelock before, however often another one was proposed meanwhile
\* (propose_authority_update, execute_authority_update).
THEOREM AuthoritiesWaitedCorrect == ASSUME V2Assumption PROVE V2Spec => AuthoritiesWaited
<1>1. V2Init => DueAfterTimelock
    BY DEF V2Init, DueAfterTimelock, Exists
<1>2. AUTHORITY_TIMELOCK \in Int
    BY DEF V2Assumption
<1>3. DueAfterTimelock /\ [V2Next]_v2Vars => DueAfterTimelock'
    BY <1>2, PendingIsDue, NextIsMarketStep
<1>4. DueAfterTimelock /\ [V2Next]_v2Vars =>
        [Exists(authorities) /\ authorities'.current # authorities.current
            => clock - proposedAt >= AUTHORITY_TIMELOCK
               /\ authorities'.current = authorities.pending]_v2Vars
    BY <1>2, TheyWaited, NextIsMarketStep
<1> QED  BY <1>1, <1>3, <1>4, PTL DEF V2Spec, AuthoritiesWaited

(***************************************************************************)
(* The books: sums over the positions, the orders and the traders.         *)
(***************************************************************************)
AcceptedIn(s) ==
    [p \in Positions |-> IF Exists(s.position[p]) THEN s.position[p].accepted ELSE 0]
SharesIn(s, side) ==
    [p \in Positions |-> IF Exists(s.position[p]) /\ p[2] = side
                         THEN s.position[p].shares ELSE 0]
StakesIn(s) == [o \in V2Orders |-> IF Exists(s.order[o]) THEN s.order[o].stake ELSE 0]

TotalAccepted(s) == SumOver(AcceptedIn(s), Positions)
TotalShares(s, side) == SumOver(SharesIn(s, side), Positions)
TotalStake(s) == SumOver(StakesIn(s), V2Orders)
TotalOutlay(paidIn) == SumOver(paidIn, Traders)

\* There are finitely many positions.
LEMMA PositionsFinite == ASSUME V2Assumption PROVE IsFiniteSet(Positions)
<1>1. IsFiniteSet(Sides)
  <2>1. IsFiniteSet({"Yes"})
      BY FS_Singleton
  <2>2. Sides = {"Yes"} \cup {"No"}
      BY DEF Sides
  <2> QED  BY <2>1, <2>2, FS_AddElement
<1> QED  BY <1>1, FS_Product DEF V2Assumption, Positions

\* Accounts that exist have their types, and the terms of the sums are naturals.
LEMMA AccountsTyped ==
    ASSUME V2Assumption, NEW s \in V2Accounts
    PROVE  /\ Exists(s.market) => s.market \in MarketV2
           /\ Exists(s.vault) => s.vault \in MarketVault
           /\ Exists(s.validation) => s.validation \in ValidationAccount
           /\ \A o \in V2Orders : Exists(s.order[o]) => s.order[o] \in OrderEscrowV2
           /\ \A p \in Positions : Exists(s.position[p]) => s.position[p] \in PositionAccount
BY DEF V2Accounts, Exists

\* A position's stake and shares are part of the totals, and the totals are numbers.
LEMMA TotalsTyped ==
    ASSUME V2Assumption, NEW s \in V2Accounts
    PROVE  /\ \A p \in Positions :
                 /\ AcceptedIn(s)[p] \in Nat
                 /\ AcceptedIn(s)[p] <= TotalAccepted(s)
                 /\ \A side \in Sides :
                       /\ SharesIn(s, side)[p] \in Nat
                       /\ SharesIn(s, side)[p] <= TotalShares(s, side)
           /\ TotalAccepted(s) \in Nat
           /\ \A side \in Sides : TotalShares(s, side) \in Nat
           /\ \A o \in V2Orders : StakesIn(s)[o] \in Nat
           /\ TotalStake(s) \in Nat
<1>1. \A p \in Positions : AcceptedIn(s)[p] \in Nat
    BY AccountsTyped DEF AcceptedIn, PositionAccount
<1>2. \A side \in Sides, p \in Positions : SharesIn(s, side)[p] \in Nat
    BY AccountsTyped DEF SharesIn, PositionAccount
<1>3. \A o \in V2Orders : StakesIn(s)[o] \in Nat
    BY AccountsTyped DEF StakesIn, OrderEscrowV2
<1>4. /\ TotalAccepted(s) \in Nat
      /\ \A p \in Positions : AcceptedIn(s)[p] <= TotalAccepted(s)
    BY <1>1, PositionsFinite, SumBoundsTerms DEF TotalAccepted
<1>5. ASSUME NEW side \in Sides
      PROVE  /\ TotalShares(s, side) \in Nat
             /\ \A p \in Positions : SharesIn(s, side)[p] <= TotalShares(s, side)
  <2> DEFINE f == SharesIn(s, side)
  <2>1. \A p \in Positions : f[p] \in Nat
      BY <1>2
  <2> HIDE DEF f
  <2>2. SumOver(f, Positions) \in Nat /\ \A p \in Positions : f[p] <= SumOver(f, Positions)
      BY <2>1, PositionsFinite, SumBoundsTerms
  <2> QED  BY <2>2 DEF f, TotalShares
<1>6. TotalStake(s) \in Nat
    BY <1>3, SumBoundsTerms DEF TotalStake, V2Assumption
<1> QED  BY <1>1, <1>2, <1>3, <1>4, <1>5, <1>6

\* When one position changes, the sums change by what its terms change by.
LEMMA PositionMoves ==
    ASSUME V2Assumption, NEW s \in V2Accounts, NEW n \in V2Accounts, NEW p \in Positions,
           \A q \in Positions : q # p => n.position[q] = s.position[q]
    PROVE  /\ TotalAccepted(n) = TotalAccepted(s) + (AcceptedIn(n)[p] - AcceptedIn(s)[p])
           /\ \A side \in Sides : TotalShares(n, side) =
                 TotalShares(s, side) + (SharesIn(n, side)[p] - SharesIn(s, side)[p])
<1>1. /\ \A q \in Positions : AcceptedIn(s)[q] \in Int /\ AcceptedIn(n)[q] \in Int
      /\ \A q \in Positions : q # p => AcceptedIn(n)[q] = AcceptedIn(s)[q]
    BY TotalsTyped DEF AcceptedIn
<1>2. \A side \in Sides :
        /\ \A q \in Positions : SharesIn(s, side)[q] \in Int /\ SharesIn(n, side)[q] \in Int
        /\ \A q \in Positions : q # p => SharesIn(n, side)[q] = SharesIn(s, side)[q]
    BY TotalsTyped DEF SharesIn
<1>3. TotalAccepted(n) = TotalAccepted(s) + (AcceptedIn(n)[p] - AcceptedIn(s)[p])
  <2> DEFINE f == AcceptedIn(s)
             g == AcceptedIn(n)
  <2>1. /\ \A q \in Positions : f[q] \in Int /\ g[q] \in Int
        /\ \A q \in Positions : q # p => g[q] = f[q]
      BY <1>1
  <2> HIDE DEF f, g
  <2>2. SumOver(g, Positions) = SumOver(f, Positions) + (g[p] - f[p])
      BY <2>1, PositionsFinite, SumChange
  <2> QED  BY <2>2 DEF f, g, TotalAccepted
<1>4. ASSUME NEW side \in Sides
      PROVE  TotalShares(n, side) =
                 TotalShares(s, side) + (SharesIn(n, side)[p] - SharesIn(s, side)[p])
  <2> DEFINE f == SharesIn(s, side)
             g == SharesIn(n, side)
  <2>1. /\ \A q \in Positions : f[q] \in Int /\ g[q] \in Int
        /\ \A q \in Positions : q # p => g[q] = f[q]
      BY <1>2
  <2> HIDE DEF f, g
  <2>2. SumOver(g, Positions) = SumOver(f, Positions) + (g[p] - f[p])
      BY <2>1, PositionsFinite, SumChange
  <2> QED  BY <2>2 DEF f, g, TotalShares
<1> QED  BY <1>3, <1>4

\* So with one order, and with one trader's balance.
LEMMA StakeMoves ==
    ASSUME V2Assumption, NEW s \in V2Accounts, NEW n \in V2Accounts, NEW o \in V2Orders,
           \A q \in V2Orders : q # o => n.order[q] = s.order[q]
    PROVE  TotalStake(n) = TotalStake(s) + (StakesIn(n)[o] - StakesIn(s)[o])
<1>1. /\ \A q \in V2Orders : StakesIn(s)[q] \in Int /\ StakesIn(n)[q] \in Int
      /\ \A q \in V2Orders : q # o => StakesIn(n)[q] = StakesIn(s)[q]
    BY TotalsTyped DEF StakesIn
<1> DEFINE f == StakesIn(s)
           g == StakesIn(n)
<1>2. /\ \A q \in V2Orders : f[q] \in Int /\ g[q] \in Int
      /\ \A q \in V2Orders : q # o => g[q] = f[q]
    BY <1>1
<1>3. IsFiniteSet(V2Orders)
    BY DEF V2Assumption
<1> HIDE DEF f, g
<1>4. SumOver(g, V2Orders) = SumOver(f, V2Orders) + (g[o] - f[o])
    BY <1>2, <1>3, SumChange
<1> QED  BY <1>4 DEF f, g, TotalStake

\* What one trader pays in adds to what all have paid in.
LEMMA OutlayMoves ==
    ASSUME V2Assumption, NEW paidIn \in [Traders -> Int], NEW t \in Traders, NEW d \in Int
    PROVE  /\ [paidIn EXCEPT ![t] = @ + d] \in [Traders -> Int]
           /\ TotalOutlay([paidIn EXCEPT ![t] = @ + d]) = TotalOutlay(paidIn) + d
           /\ TotalOutlay(paidIn) \in Int
<1> DEFINE after == [paidIn EXCEPT ![t] = @ + d]
<1>1. /\ after \in [Traders -> Int] /\ after[t] = paidIn[t] + d
      /\ \A u \in Traders : u # t => after[u] = paidIn[u]
    OBVIOUS
<1> HIDE DEF after
<1>2. IsFiniteSet(Traders)
    BY DEF V2Assumption
<1>3. TotalOutlay(after) = TotalOutlay(paidIn) + (after[t] - paidIn[t])
    BY <1>1, <1>2, SumChange DEF TotalOutlay
<1>4. TotalOutlay(paidIn) \in Int
    BY <1>2, SumIsInt DEF TotalOutlay
<1> QED  BY <1>1, <1>3, <1>4 DEF after

\* What one trader gets back comes off what all have paid in.
LEMMA OutlayReturns ==
    ASSUME V2Assumption, NEW paidIn \in [Traders -> Int], NEW t \in Traders, NEW d \in Int
    PROVE  /\ [paidIn EXCEPT ![t] = @ - d] \in [Traders -> Int]
           /\ TotalOutlay([paidIn EXCEPT ![t] = @ - d]) = TotalOutlay(paidIn) - d
           /\ TotalOutlay(paidIn) \in Int
<1> DEFINE plus == [paidIn EXCEPT ![t] = @ + (- d)]
<1>1. /\ plus \in [Traders -> Int] /\ TotalOutlay(plus) = TotalOutlay(paidIn) + (- d)
      /\ TotalOutlay(paidIn) \in Int
  <2>1. - d \in Int
      OBVIOUS
  <2> QED  BY <2>1, OutlayMoves, Zenon
<1>2. [paidIn EXCEPT ![t] = @ - d] = plus
    OBVIOUS
<1> HIDE DEF plus
<1> QED  BY <1>1, <1>2

\* A sum over some accounts' fields is the sum of a function on those accounts.
LEMMA SumsOfFields ==
    \A accounts, S :
        /\ MapThenSumSet(LAMBDA x : accounts[x].accepted, S)
              = SumOver([x \in S |-> accounts[x].accepted], S)
        /\ MapThenSumSet(LAMBDA x : accounts[x].stake, S)
              = SumOver([x \in S |-> accounts[x].stake], S)
<1>1. \A accounts, S :
         MapThenSumSet(LAMBDA x : accounts[x].accepted, S)
            = SumOver([x \in S |-> accounts[x].accepted], S)
    BY DEF SumOver, MapThenSumSet, MapThenFoldSet
<1>2. \A accounts, S :
         MapThenSumSet(LAMBDA x : accounts[x].stake, S)
            = SumOver([x \in S |-> accounts[x].stake], S)
    BY DEF SumOver, MapThenSumSet, MapThenFoldSet
<1> QED  BY <1>1, <1>2

(***************************************************************************)
(* The books of the accounts s, when each trader t paid in paidIn[t].      *)
(***************************************************************************)
NoMarket(s, paidIn) ==
    /\ ~ Exists(s.vault) /\ ~ Exists(s.validation)
    /\ \A o \in V2Orders : ~ Exists(s.order[o])
    /\ \A p \in Positions : ~ Exists(s.position[p])
    /\ \A t \in Traders : paidIn[t] = 0

MarketState(s) ==
    /\ Exists(s.vault)
    /\ s.market.priced_at_seq <= s.market.material_seq
    /\ s.market.resolved <=> s.market.resolution # 0
    /\ s.market.resolved => s.market.trading_closed

VaultBalances(s) ==
    /\ s.vault.lamports = s.vault.claimable
    /\ s.vault.accepted = s.vault.paid + s.vault.claimable
    /\ s.vault.deposited = s.vault.refunded + s.vault.paid + s.vault.claimable

Winner(s) == WinningSide(s.market.resolution)

\* What the vault may still have to pay, and what it has paid, for the shares.
ClaimsAreBacked(s) ==
    /\ s.market.resolution \in {0, 3} => s.vault.claimable = TotalAccepted(s)
    /\ s.market.resolution = 0 =>
          /\ s.vault.paid = 0 /\ s.market.claimed_shares = 0
          /\ \A side \in Sides : TotalShares(s, side) = s.market.shares[side]
    /\ s.market.resolution \in {1, 2} =>
          /\ TotalShares(s, Winner(s))
                = s.market.shares[Winner(s)] - s.market.claimed_shares
          /\ s.vault.paid * s.market.shares[Winner(s)]
                <= s.market.claimed_shares * s.vault.accepted

BooksOf(s, paidIn) ==
    /\ s \in V2Accounts /\ paidIn \in [Traders -> Int]
    /\ ~ Exists(s.market) => NoMarket(s, paidIn)
    /\ \A p \in Positions : Exists(s.position[p]) =>
          (s.position[p].accepted = 0 <=> s.position[p].shares = 0)
    /\ Exists(s.market) =>
          /\ MarketState(s) /\ VaultBalances(s) /\ ClaimsAreBacked(s)
          /\ TotalOutlay(paidIn) = s.vault.lamports + TotalStake(s)

(***************************************************************************)
(* Each instruction keeps the books.                                       *)
(***************************************************************************)

\* Prices, closing and results leave orders, positions, vault and shares alone.
LEMMA ControlKeeps ==
    ASSUME V2Assumption, NEW s, NEW paidIn, BooksOf(s, paidIn), NEW n \in V2Accounts,
           Exists(s.market), Exists(n.market), MarketState(n),
           n.vault = s.vault, n.order = s.order, n.position = s.position,
           n.market.shares = s.market.shares,
           n.market.claimed_shares = s.market.claimed_shares,
           n.market.resolution = s.market.resolution \/ ~ s.market.resolved
    PROVE  BooksOf(n, paidIn)
<1>1. /\ TotalAccepted(n) = TotalAccepted(s)
      /\ \A side \in Sides : TotalShares(n, side) = TotalShares(s, side)
      /\ TotalStake(n) = TotalStake(s)
    BY DEF TotalAccepted, TotalShares, TotalStake, AcceptedIn, SharesIn, StakesIn
<1>2. VaultBalances(n)
    BY DEF BooksOf, VaultBalances
<1>3. ClaimsAreBacked(n)
  <2>1. CASE n.market.resolution = s.market.resolution
    <3>1. Winner(n) = Winner(s) /\ Winner(s) \in Sides
        BY <2>1 DEF Winner, WinningSide, Sides
    <3> QED  BY <1>1, <2>1, <3>1 DEF BooksOf, ClaimsAreBacked
  <2>2. CASE ~ s.market.resolved
    <3>1. s.market.resolution = 0 /\ ClaimsAreBacked(s)
        BY <2>2 DEF BooksOf, MarketState
    <3>2. n.market \in MarketV2 /\ n.vault \in MarketVault
        BY AccountsTyped DEF MarketState
    <3>3. Winner(n) \in Sides
        BY DEF Winner, WinningSide, Sides
    <3>4. /\ n.market.shares[Winner(n)] \in Nat
          /\ n.vault.accepted \in Nat
        BY <3>2, <3>3 DEF MarketV2, MarketVault
    <3>5. /\ n.vault.paid = 0 /\ n.market.claimed_shares = 0
          /\ n.vault.claimable = TotalAccepted(n)
          /\ \A side \in Sides : TotalShares(n, side) = n.market.shares[side]
        BY <1>1, <3>1 DEF ClaimsAreBacked
    <3>6. TotalShares(n, Winner(n)) = n.market.shares[Winner(n)] - 0
        BY <3>3, <3>4, <3>5
    <3>7. 0 * n.market.shares[Winner(n)] <= 0 * n.vault.accepted
        BY <3>4
    <3> QED  BY <3>5, <3>6, <3>7 DEF ClaimsAreBacked
  <2> QED  BY <2>1, <2>2
<1>4. TotalOutlay(paidIn) = n.vault.lamports + TotalStake(n)
    BY <1>1 DEF BooksOf
<1> QED  BY <1>2, <1>3, <1>4 DEF BooksOf

\* A placed order waits with its stake; its trader's position is there, and has what it
\* had.
LEMMA PlacedFields ==
    ASSUME V2Assumption, NEW s, NEW paidIn, BooksOf(s, paidIn), NEW o \in V2Orders,
           NEW args, TypedArgs(args), CanPlaceV2(s, o, args)
    PROVE  LET n == Placed(s, o, args)
               p == <<o.by, args.side>>
           IN  /\ s \in V2Accounts /\ n \in V2Accounts /\ p \in Positions
               /\ n.market = s.market /\ n.vault = s.vault /\ n.validation = s.validation
               /\ Exists(n.order[o]) /\ n.order[o].side = args.side
               /\ n.order[o].stake = args.stake /\ PositionOf(n, o) = p
               /\ \A q \in V2Orders : q # o => n.order[q] = s.order[q]
               /\ Exists(n.position[p])
               /\ AcceptedIn(n)[p] = AcceptedIn(s)[p]
               /\ \A side \in Sides : SharesIn(n, side)[p] = SharesIn(s, side)[p]
               /\ n.position[p].accepted = 0 <=> n.position[p].shares = 0
               /\ \A q \in Positions : q # p => n.position[q] = s.position[q]
<1> DEFINE n == Placed(s, o, args)
           p == <<o.by, args.side>>
           position == IF Exists(s.position[p]) THEN s.position[p] ELSE NewPosition
           order == [ side |-> args.side, stake |-> args.stake,
                      observed |-> SidePrice(args.side, s.market.displayed),
                      max_edge |-> args.max_edge,
                      priced_at_seq |-> s.market.priced_at_seq ]
<1>1. /\ args.side \in Sides /\ args.stake \in Nat \ {0} /\ args.max_edge \in Int
      /\ o.by \in Traders /\ p \in Positions
    BY DEF V2Assumption, TypedArgs, CanPlaceV2, Positions
<1>2. s \in V2Accounts /\ s.market \in MarketV2
    BY AccountsTyped DEF BooksOf, CanPlaceV2
<1>3. order \in OrderEscrowV2 /\ order.side = args.side /\ order.stake = args.stake
    BY <1>1, <1>2 DEF OrderEscrowV2, MarketV2, SidePrice, V2Assumption
<1>4. position \in PositionAccount /\ (position.accepted = 0 <=> position.shares = 0)
    BY <1>1, <1>2, AccountsTyped DEF BooksOf, PositionAccount, NewPosition
<1>5. [position EXCEPT !.deposited = @ + args.stake] \in PositionAccount
    BY <1>1, <1>4 DEF PositionAccount
<1>6. /\ n.market = s.market /\ n.vault = s.vault /\ n.validation = s.validation
      /\ n.order = [s.order EXCEPT ![o] = order]
      /\ n.position = [s.position EXCEPT ![p] =
                          [position EXCEPT !.deposited = @ + args.stake]]
      /\ n \in V2Accounts
  <2> HIDE DEF order, position
  <2> QED  BY <1>1, <1>2, <1>3, <1>5 DEF V2Accounts, Placed, order, position
<1> HIDE DEF n, order, position, p
<1>7. /\ n.position[p].accepted = position.accepted
      /\ n.position[p].shares = position.shares
      /\ Exists(n.position[p])
      /\ \A q \in Positions : q # p => n.position[q] = s.position[q]
  <2>1. n.position[p] = [position EXCEPT !.deposited = @ + args.stake]
      BY <1>1, <1>2, <1>6 DEF V2Accounts
  <2> QED  BY <1>2, <1>4, <1>5, <1>6, <2>1 DEF V2Accounts, V2Assumption, Exists, PositionAccount
<1>8. /\ AcceptedIn(n)[p] = AcceptedIn(s)[p]
      /\ \A side \in Sides : SharesIn(n, side)[p] = SharesIn(s, side)[p]
    BY <1>1, <1>7 DEF AcceptedIn, SharesIn, position, NewPosition
<1>9. /\ n.order[o] = order /\ Exists(n.order[o])
      /\ \A q \in V2Orders : q # o => n.order[q] = s.order[q]
    BY <1>2, <1>3, <1>6 DEF V2Accounts, V2Assumption, Exists
<1>10. PositionOf(n, o) = p
    BY <1>3, <1>9 DEF PositionOf, p
<1>11. n.position[p].accepted = 0 <=> n.position[p].shares = 0
    BY <1>4, <1>7
<1> QED  BY <1>1, <1>2, <1>3, <1>6, <1>7, <1>8, <1>9, <1>10, <1>11 DEF n, p

\* An order's stake leaves its trader, and waits in the order.
LEMMA PlacingKeeps ==
    ASSUME V2Assumption, NEW s, NEW paidIn, BooksOf(s, paidIn), NEW o \in V2Orders,
           NEW args, TypedArgs(args), CanPlaceV2(s, o, args)
    PROVE  BooksOf(Placed(s, o, args), [paidIn EXCEPT ![o.by] = @ + args.stake])
<1> DEFINE n == Placed(s, o, args)
           p == <<o.by, args.side>>
<1>1. args.stake \in Nat \ {0} /\ o.by \in Traders
    BY DEF V2Assumption, TypedArgs, CanPlaceV2
<1>2. /\ s \in V2Accounts /\ n \in V2Accounts /\ p \in Positions
      /\ n.market = s.market /\ n.vault = s.vault /\ n.validation = s.validation
      /\ Exists(n.order[o]) /\ n.order[o].stake = args.stake
      /\ \A q \in V2Orders : q # o => n.order[q] = s.order[q]
      /\ AcceptedIn(n)[p] = AcceptedIn(s)[p]
      /\ \A side \in Sides : SharesIn(n, side)[p] = SharesIn(s, side)[p]
      /\ n.position[p].accepted = 0 <=> n.position[p].shares = 0
      /\ \A q \in Positions : q # p => n.position[q] = s.position[q]
    BY PlacedFields
<1> HIDE DEF n, p
<1>3. /\ TotalAccepted(n) = TotalAccepted(s)
      /\ \A side \in Sides : TotalShares(n, side) = TotalShares(s, side)
  <2>1. /\ TotalAccepted(n) = TotalAccepted(s) + (AcceptedIn(n)[p] - AcceptedIn(s)[p])
        /\ \A side \in Sides : TotalShares(n, side) =
              TotalShares(s, side) + (SharesIn(n, side)[p] - SharesIn(s, side)[p])
      BY <1>2, PositionMoves
  <2>2. /\ TotalAccepted(s) \in Nat /\ AcceptedIn(s)[p] \in Nat
        /\ \A side \in Sides : TotalShares(s, side) \in Nat /\ SharesIn(s, side)[p] \in Nat
      BY <1>2, TotalsTyped
  <2> QED  BY <1>2, <2>1, <2>2
<1>4. TotalStake(n) = TotalStake(s) + args.stake
  <2>1. StakesIn(n)[o] = args.stake /\ StakesIn(s)[o] = 0
      BY <1>2 DEF StakesIn, CanPlaceV2
  <2>2. TotalStake(n) = TotalStake(s) + (StakesIn(n)[o] - StakesIn(s)[o])
      BY <1>2, StakeMoves
  <2>3. TotalStake(s) \in Nat
      BY <1>2, TotalsTyped
  <2> QED  BY <1>1, <2>1, <2>2, <2>3
<1>5. /\ [paidIn EXCEPT ![o.by] = @ + args.stake] \in [Traders -> Int]
      /\ TotalOutlay([paidIn EXCEPT ![o.by] = @ + args.stake])
            = TotalOutlay(paidIn) + args.stake
  <2>1. paidIn \in [Traders -> Int] /\ o.by \in Traders /\ args.stake \in Int
      BY <1>1 DEF BooksOf
  <2> QED  BY <2>1, OutlayMoves, Zenon
<1>6. Exists(s.market) /\ Exists(n.market)
    BY <1>2 DEF CanPlaceV2
<1>7. MarketState(n) /\ VaultBalances(n)
    BY <1>2, <1>6 DEF BooksOf, MarketState, VaultBalances
<1>8. ClaimsAreBacked(n)
  <2>1. Winner(n) = Winner(s) /\ Winner(s) \in Sides
      BY <1>2 DEF Winner, WinningSide, Sides
  <2> QED  BY <1>2, <1>3, <1>6, <2>1 DEF BooksOf, ClaimsAreBacked
<1>9. TotalOutlay([paidIn EXCEPT ![o.by] = @ + args.stake])
         = n.vault.lamports + TotalStake(n)
  <2>1. s.vault.lamports \in Nat /\ TotalStake(s) \in Nat
    <3>1. s.vault \in MarketVault
        BY <1>2, <1>6, AccountsTyped DEF BooksOf, MarketState
    <3> QED  BY <1>2, <3>1, TotalsTyped DEF MarketVault
  <2>2. TotalOutlay(paidIn) = s.vault.lamports + TotalStake(s)
      BY <1>6 DEF BooksOf
  <2> QED  BY <1>1, <1>2, <1>4, <1>5, <2>1, <2>2
<1>10. \A q \in Positions : Exists(n.position[q]) =>
          (n.position[q].accepted = 0 <=> n.position[q].shares = 0)
    BY <1>2 DEF BooksOf
<1> QED  BY <1>2, <1>5, <1>6, <1>7, <1>8, <1>9, <1>10 DEF BooksOf, n

\* An order that is waiting belongs to a market that is open, and leaves its stake.
LEMMA WaitingOrder ==
    ASSUME V2Assumption, NEW s, NEW paidIn, BooksOf(s, paidIn), NEW o \in V2Orders,
           CanEvaluateV2(s, o)
    PROVE  /\ s \in V2Accounts /\ Exists(s.market) /\ Exists(s.vault)
           /\ s.market \in MarketV2 /\ s.vault \in MarketVault
           /\ s.order[o] \in OrderEscrowV2 /\ s.order[o].stake \in Nat \ {0}
           /\ PositionOf(s, o) \in Positions
           /\ s.position[PositionOf(s, o)] \in PositionAccount
           /\ o.by \in Traders
<1>1. Exists(s.market) /\ s \in V2Accounts
    BY DEF CanEvaluateV2, BooksOf, NoMarket
<1>2. s.order[o] \in OrderEscrowV2 /\ o.by \in Traders
    BY <1>1, AccountsTyped DEF CanEvaluateV2, V2Assumption
<1>3. s.order[o].side \in Sides /\ s.order[o].stake \in Nat \ {0}
    BY <1>2 DEF OrderEscrowV2
<1>4. PositionOf(s, o) \in Positions
    BY <1>2, <1>3 DEF PositionOf, Positions
<1> QED
    BY <1>1, <1>2, <1>3, <1>4, AccountsTyped DEF CanEvaluateV2, BooksOf, MarketState

\* An order that was just placed waits, with its stake, in its trader's position.
LEMMA PlacedWaits ==
    ASSUME V2Assumption, BooksOf(v2, outlay), NEW o \in V2Orders, NEW args, TypedArgs(args),
           CanPlaceV2(v2, o, args)
    PROVE  /\ CanEvaluateV2(Placed(v2, o, args), o)
           /\ Placed(v2, o, args).order[o].stake = args.stake
<1> DEFINE n == Placed(v2, o, args)
           p == <<o.by, args.side>>
<1>1. /\ Exists(n.order[o]) /\ PositionOf(n, o) = p /\ Exists(n.position[p])
      /\ n.order[o].stake = args.stake
  <2> HIDE DEF n
  <2> QED  BY PlacedFields DEF n
<1> HIDE DEF p
<1> QED  BY <1>1 DEF CanEvaluateV2

\* An order's account that is closed takes its stake from what waits in escrow.
LEMMA OrderGone ==
    ASSUME V2Assumption, NEW s \in V2Accounts, NEW n \in V2Accounts, NEW o \in V2Orders,
           Exists(s.order[o]), n.order = [s.order EXCEPT ![o] = NoAccount]
    PROVE  TotalStake(n) = TotalStake(s) - s.order[o].stake /\ TotalStake(s) \in Nat
<1>1. /\ ~ Exists(n.order[o])
      /\ \A q \in V2Orders : q # o => n.order[q] = s.order[q]
    BY DEF V2Accounts, Exists
<1>2. StakesIn(s)[o] = s.order[o].stake /\ StakesIn(n)[o] = 0
    BY <1>1 DEF StakesIn
<1>3. TotalStake(n) = TotalStake(s) + (StakesIn(n)[o] - StakesIn(s)[o])
    BY <1>1, StakeMoves
<1>4. TotalStake(s) \in Nat /\ StakesIn(s)[o] \in Nat
    BY TotalsTyped
<1> QED  BY <1>2, <1>3, <1>4

\* A refund takes the order away, and is counted twice: in and out.
LEMMA RefundedFields ==
    ASSUME V2Assumption, NEW s, NEW paidIn, BooksOf(s, paidIn), NEW o \in V2Orders,
           CanEvaluateV2(s, o)
    PROVE  LET n == Refunded(s, o)
               stake == s.order[o].stake
           IN  /\ n \in V2Accounts /\ Exists(n.market) /\ Exists(n.vault)
               /\ n.market = s.market /\ n.position = s.position
               /\ n.validation = s.validation
               /\ n.order = [s.order EXCEPT ![o] = NoAccount]
               /\ n.vault = [ deposited |-> s.vault.deposited + stake,
                              refunded |-> s.vault.refunded + stake,
                              accepted |-> s.vault.accepted, paid |-> s.vault.paid,
                              claimable |-> s.vault.claimable,
                              lamports |-> s.vault.lamports ]
<1> DEFINE n == Refunded(s, o)
           stake == s.order[o].stake
<1>1. /\ s \in V2Accounts /\ Exists(s.market) /\ Exists(s.vault)
      /\ s.vault \in MarketVault /\ stake \in Nat \ {0}
    BY WaitingOrder
<1>2. n = [s EXCEPT !.order[o] = NoAccount,
                    !.vault = [s.vault EXCEPT !.deposited = @ + stake,
                                              !.refunded = @ + stake]]
    BY DEF Refunded
<1> HIDE DEF n, stake
<1>3. /\ n.market = s.market /\ n.position = s.position /\ n.validation = s.validation
      /\ n.order = [s.order EXCEPT ![o] = NoAccount]
      /\ n = [ market |-> n.market, vault |-> n.vault, validation |-> n.validation,
               order |-> n.order, position |-> n.position ]
    BY <1>1, <1>2 DEF V2Accounts
<1>4. n.vault = [ deposited |-> s.vault.deposited + stake,
                  refunded |-> s.vault.refunded + stake,
                  accepted |-> s.vault.accepted, paid |-> s.vault.paid,
                  claimable |-> s.vault.claimable, lamports |-> s.vault.lamports ]
    BY <1>1, <1>2 DEF V2Accounts, MarketVault
<1>5. /\ n.order \in [V2Orders -> OrderEscrowV2 \cup {NoAccount}]
      /\ n.vault \in MarketVault
    BY <1>1, <1>3, <1>4 DEF V2Accounts, MarketVault
<1>6. n \in V2Accounts /\ Exists(n.market) /\ Exists(n.vault)
    BY <1>1, <1>3, <1>5 DEF V2Accounts, V2Assumption, Exists
<1> QED  BY <1>3, <1>4, <1>6 DEF n, stake

\* A refund goes from the order to its trader: nothing else moves.
LEMMA RefundingKeeps ==
    ASSUME V2Assumption, NEW s, NEW paidIn, BooksOf(s, paidIn), NEW o \in V2Orders,
           CanEvaluateV2(s, o)
    PROVE  BooksOf(Refunded(s, o), [paidIn EXCEPT ![o.by] = @ - s.order[o].stake])
<1> DEFINE n == Refunded(s, o)
           stake == s.order[o].stake
           after == [paidIn EXCEPT ![o.by] = @ - stake]
<1>1. /\ s \in V2Accounts /\ Exists(s.market) /\ Exists(s.vault)
      /\ s.vault \in MarketVault /\ stake \in Nat \ {0} /\ o.by \in Traders
    BY WaitingOrder
<1>2. /\ n \in V2Accounts /\ Exists(n.market) /\ Exists(n.vault)
      /\ n.market = s.market /\ n.position = s.position /\ n.validation = s.validation
      /\ n.order = [s.order EXCEPT ![o] = NoAccount]
      /\ n.vault = [ deposited |-> s.vault.deposited + stake,
                     refunded |-> s.vault.refunded + stake,
                     accepted |-> s.vault.accepted, paid |-> s.vault.paid,
                     claimable |-> s.vault.claimable, lamports |-> s.vault.lamports ]
    BY RefundedFields
<1> HIDE DEF n, stake
<1>3. /\ TotalAccepted(n) = TotalAccepted(s)
      /\ \A side \in Sides : TotalShares(n, side) = TotalShares(s, side)
    BY <1>2 DEF TotalAccepted, TotalShares, AcceptedIn, SharesIn
<1>4. TotalStake(n) = TotalStake(s) - stake /\ TotalStake(s) \in Nat
    BY <1>1, <1>2, OrderGone DEF CanEvaluateV2, stake
<1>5. after \in [Traders -> Int] /\ TotalOutlay(after) = TotalOutlay(paidIn) - stake
  <2>1. paidIn \in [Traders -> Int] /\ o.by \in Traders /\ stake \in Int
      BY <1>1 DEF BooksOf
  <2> QED  BY <2>1, OutlayReturns, Zenon
<1>6. MarketState(n) /\ VaultBalances(n)
  <2>1. MarketState(s) /\ VaultBalances(s)
      BY <1>1 DEF BooksOf
  <2>2. MarketState(n)
      BY <1>2, <2>1 DEF MarketState
  <2>3. /\ s.vault.deposited \in Nat /\ s.vault.refunded \in Nat
        /\ s.vault.paid \in Nat /\ s.vault.claimable \in Nat
      BY <1>1 DEF MarketVault
  <2>4. VaultBalances(n)
      BY <1>1, <1>2, <2>1, <2>3 DEF VaultBalances
  <2> QED  BY <2>2, <2>4
<1>7. ClaimsAreBacked(n)
  <2>1. Winner(n) = Winner(s) /\ Winner(s) \in Sides
      BY <1>2 DEF Winner, WinningSide, Sides
  <2>2. ClaimsAreBacked(s)
      BY <1>1 DEF BooksOf
  <2> QED  BY <1>2, <1>3, <2>1, <2>2 DEF ClaimsAreBacked
<1>8. TotalOutlay(after) = n.vault.lamports + TotalStake(n)
  <2>1. TotalOutlay(paidIn) = s.vault.lamports + TotalStake(s) /\ s.vault.lamports \in Nat
      BY <1>1 DEF BooksOf, MarketVault
  <2> QED  BY <1>1, <1>2, <1>4, <1>5, <2>1
<1>9. BooksOf(n, after)
    BY <1>2, <1>5, <1>6, <1>7, <1>8 DEF BooksOf
<1> QED  BY <1>9 DEF n, after, stake

\* From accounts s to n, the waiting order o is accepted.
Takes(s, n, o) ==
    LET stake == s.order[o].stake
        shares == SharesOf(s, o)
        bought == s.order[o].side
        p == PositionOf(s, o)
    IN  /\ n \in V2Accounts /\ Exists(n.market) /\ Exists(n.vault)
        /\ bought \in Sides /\ shares \in Nat \ {0} /\ p[2] = bought
        /\ n.validation = s.validation
        /\ n.order = [s.order EXCEPT ![o] = NoAccount]
        /\ n.vault.deposited = s.vault.deposited + stake
        /\ n.vault.accepted = s.vault.accepted + stake
        /\ n.vault.claimable = s.vault.claimable + stake
        /\ n.vault.lamports = s.vault.lamports + stake
        /\ n.vault.refunded = s.vault.refunded /\ n.vault.paid = s.vault.paid
        /\ n.market.shares = [s.market.shares EXCEPT ![bought] = @ + shares]
        /\ n.market.resolution = s.market.resolution
        /\ n.market.resolved = s.market.resolved
        /\ n.market.trading_closed = s.market.trading_closed
        /\ n.market.claimed_shares = s.market.claimed_shares
        /\ n.market.priced_at_seq = s.market.priced_at_seq
        /\ n.market.material_seq = s.market.material_seq
        /\ Exists(n.position[p]) /\ n.position[p] \in PositionAccount
        /\ n.position[p].accepted = s.position[p].accepted + stake
        /\ n.position[p].shares = s.position[p].shares + shares
        /\ \A q \in Positions : q # p => n.position[q] = s.position[q]

\* An accepted stake is in the vault's counters and in its trader's position, the order
\* is gone, and the market has sold its shares.
LEMMA AcceptedFields ==
    ASSUME V2Assumption, NEW s, NEW paidIn, BooksOf(s, paidIn), NEW o \in V2Orders,
           CanEvaluateV2(s, o), ~ Refunds(s, o), SharesOf(s, o) > 0
    PROVE  Takes(s, Accepted(s, o), o)
<1> DEFINE n == Accepted(s, o)
           stake == s.order[o].stake
           shares == SharesOf(s, o)
           bought == s.order[o].side
           p == PositionOf(s, o)
<1>1. /\ s \in V2Accounts /\ Exists(s.market) /\ Exists(s.vault)
      /\ s.market \in MarketV2 /\ s.vault \in MarketVault
      /\ s.order[o] \in OrderEscrowV2 /\ stake \in Nat \ {0}
      /\ p \in Positions /\ s.position[p] \in PositionAccount
    BY WaitingOrder
<1>2. bought \in Sides /\ shares \in Nat \ {0} /\ p[2] = bought
  <2>1. /\ bought \in Sides /\ s.order[o].observed \in Nat \ {0}
        /\ stake * MICROS_ONE \in Nat
      BY <1>1 DEF OrderEscrowV2, V2Assumption
  <2>2. shares \in Int
      BY <2>1 DEF SharesOf
  <2> QED  BY <2>1, <2>2 DEF PositionOf
<1> DEFINE vault == [s.vault EXCEPT !.deposited = @ + stake, !.accepted = @ + stake,
                                    !.claimable = @ + stake, !.lamports = @ + stake]
           market == [s.market EXCEPT !.pool[bought] = @ + stake,
                                      !.shares[bought] = @ + shares]
           position == [s.position[p] EXCEPT !.accepted = @ + stake,
                                             !.shares = @ + shares]
<1>3. n = [s EXCEPT !.order[o] = NoAccount, !.vault = vault, !.market = market,
                    !.position[p] = position]
    BY DEF Accepted
<1> HIDE DEF vault, market, position
<1> HIDE DEF n, stake, shares, bought, p
<1>4. /\ n.vault \in MarketVault
      /\ n.vault.deposited = s.vault.deposited + stake
      /\ n.vault.accepted = s.vault.accepted + stake
      /\ n.vault.claimable = s.vault.claimable + stake
      /\ n.vault.lamports = s.vault.lamports + stake
      /\ n.vault.refunded = s.vault.refunded /\ n.vault.paid = s.vault.paid
  <2>1. n.vault = vault
      BY <1>1, <1>3 DEF V2Accounts
  <2> DEFINE old == s.vault
  <2>2. old \in MarketVault /\ stake \in Nat
      BY <1>1
  <2>3. vault = [old EXCEPT !.deposited = @ + stake, !.accepted = @ + stake,
                            !.claimable = @ + stake, !.lamports = @ + stake]
      BY DEF vault
  <2> HIDE DEF old
  <2>4. /\ vault.deposited = old.deposited + stake
        /\ vault.accepted = old.accepted + stake
        /\ vault.claimable = old.claimable + stake
        /\ vault.lamports = old.lamports + stake
        /\ vault.refunded = old.refunded /\ vault.paid = old.paid
      BY <2>2, <2>3 DEF MarketVault
  <2>5. vault \in MarketVault
    <3>1. /\ old.deposited \in Nat /\ old.accepted \in Nat /\ old.claimable \in Nat
          /\ old.lamports \in Nat /\ old.refunded \in Nat /\ old.paid \in Nat
        BY <2>2 DEF MarketVault
    <3>2. /\ vault.deposited \in Nat /\ vault.accepted \in Nat /\ vault.claimable \in Nat
          /\ vault.lamports \in Nat /\ vault.refunded \in Nat /\ vault.paid \in Nat
        BY <2>2, <2>4, <3>1
    <3>3. vault = [ deposited |-> vault.deposited, refunded |-> vault.refunded,
                    accepted |-> vault.accepted, paid |-> vault.paid,
                    claimable |-> vault.claimable, lamports |-> vault.lamports ]
        BY <2>2, <2>3 DEF MarketVault
    <3> QED  BY <3>2, <3>3 DEF MarketVault
  <2> QED  BY <2>1, <2>4, <2>5 DEF old
<1>5. /\ n.market \in MarketV2
      /\ n.market.shares = [s.market.shares EXCEPT ![bought] = @ + shares]
      /\ n.market.resolution = s.market.resolution
      /\ n.market.resolved = s.market.resolved
      /\ n.market.trading_closed = s.market.trading_closed
      /\ n.market.claimed_shares = s.market.claimed_shares
      /\ n.market.priced_at_seq = s.market.priced_at_seq
      /\ n.market.material_seq = s.market.material_seq
  <2>1. n.market = market
      BY <1>1, <1>3 DEF V2Accounts
  <2>2. /\ s.market.pool \in [Sides -> Nat] /\ s.market.shares \in [Sides -> Nat]
      BY <1>1 DEF MarketV2
  <2>3. /\ [s.market.pool EXCEPT ![bought] = @ + stake] \in [Sides -> Nat]
        /\ [s.market.shares EXCEPT ![bought] = @ + shares] \in [Sides -> Nat]
      BY <1>1, <1>2, <2>2
  <2> DEFINE pool == [s.market.pool EXCEPT ![bought] = @ + stake]
             sold == [s.market.shares EXCEPT ![bought] = @ + shares]
  <2>4. market = [s.market EXCEPT !.pool = pool, !.shares = sold]
      BY <1>1 DEF market, MarketV2
  <2> HIDE DEF pool, sold
  <2>5. pool \in [Sides -> Nat] /\ sold \in [Sides -> Nat]
      BY <2>3 DEF pool, sold
  <2>6. market \in MarketV2 /\ market.shares = sold
      BY <1>1, <2>4, <2>5 DEF MarketV2
  <2>7. /\ market.resolution = s.market.resolution
        /\ market.resolved = s.market.resolved
        /\ market.trading_closed = s.market.trading_closed
        /\ market.claimed_shares = s.market.claimed_shares
        /\ market.priced_at_seq = s.market.priced_at_seq
        /\ market.material_seq = s.market.material_seq
      BY <1>1, <2>4 DEF MarketV2
  <2> QED  BY <2>1, <2>6, <2>7 DEF sold
<1>6. /\ n.position[p] \in PositionAccount
      /\ n.position[p].accepted = s.position[p].accepted + stake
      /\ n.position[p].shares = s.position[p].shares + shares
      /\ \A q \in Positions : q # p => n.position[q] = s.position[q]
      /\ n.position \in [Positions -> PositionAccount \cup {NoAccount}]
  <2>1. n.position = [s.position EXCEPT ![p] = position]
      BY <1>1, <1>3 DEF V2Accounts
  <2> DEFINE old == s.position[p]
  <2>2. old \in PositionAccount /\ stake \in Nat /\ shares \in Nat
      BY <1>1, <1>2
  <2>3. /\ position \in PositionAccount
        /\ position.accepted = old.accepted + stake
        /\ position.shares = old.shares + shares
    <3>1. position = [old EXCEPT !.accepted = @ + stake, !.shares = @ + shares]
        BY DEF position
    <3> HIDE DEF old
    <3>2. /\ position.accepted = old.accepted + stake
          /\ position.shares = old.shares + shares
          /\ position.deposited = old.deposited
        BY <2>2, <3>1 DEF PositionAccount
    <3>3. position = [ deposited |-> position.deposited, accepted |-> position.accepted,
                       shares |-> position.shares ]
        BY <2>2, <3>1 DEF PositionAccount
    <3>4. old.deposited \in Int /\ old.accepted \in Nat /\ old.shares \in Nat
        BY <2>2 DEF PositionAccount
    <3>5. /\ position.deposited \in Int /\ position.accepted \in Nat
          /\ position.shares \in Nat
        BY <2>2, <3>2, <3>4
    <3> QED  BY <3>2, <3>3, <3>5 DEF PositionAccount
  <2>4. s.position \in [Positions -> PositionAccount \cup {NoAccount}]
      BY <1>1 DEF V2Accounts
  <2> QED  BY <1>1, <2>1, <2>3, <2>4
<1>7. /\ n.order = [s.order EXCEPT ![o] = NoAccount] /\ n.validation = s.validation
      /\ n \in V2Accounts /\ Exists(n.market) /\ Exists(n.vault)
      /\ Exists(s.position[p]) /\ Exists(n.position[p])
  <2>1. /\ n.order = [s.order EXCEPT ![o] = NoAccount] /\ n.validation = s.validation
        /\ n = [ market |-> n.market, vault |-> n.vault, validation |-> n.validation,
                 order |-> n.order, position |-> n.position ]
      BY <1>1, <1>3 DEF V2Accounts
  <2>2. n \in V2Accounts
      BY <1>1, <1>4, <1>5, <1>6, <2>1 DEF V2Accounts
  <2> QED  BY <1>1, <1>4, <1>5, <1>6, <2>1, <2>2 DEF V2Assumption, Exists
<1> QED
    BY <1>2, <1>4, <1>5, <1>6, <1>7 DEF Takes, n, stake, shares, bought, p

\* A stake that is accepted moves from the order into the vault, and into its position.
LEMMA AcceptKeeps ==
    ASSUME V2Assumption, NEW s, NEW paidIn, BooksOf(s, paidIn), NEW o \in V2Orders,
           CanEvaluateV2(s, o), ~ Refunds(s, o), SharesOf(s, o) > 0
    PROVE  BooksOf(Accepted(s, o), paidIn)
<1> DEFINE n == Accepted(s, o)
           stake == s.order[o].stake
           shares == SharesOf(s, o)
           bought == s.order[o].side
           p == PositionOf(s, o)
<1>1. /\ s \in V2Accounts /\ Exists(s.market) /\ Exists(s.vault)
      /\ s.market \in MarketV2 /\ s.vault \in MarketVault
      /\ stake \in Nat \ {0} /\ p \in Positions
      /\ s.position[p] \in PositionAccount /\ Exists(s.position[p])
    BY WaitingOrder DEF CanEvaluateV2
<1>2. /\ n \in V2Accounts /\ Exists(n.market) /\ Exists(n.vault)
      /\ bought \in Sides /\ shares \in Nat \ {0} /\ p[2] = bought
      /\ n.order = [s.order EXCEPT ![o] = NoAccount]
      /\ n.vault.deposited = s.vault.deposited + stake
      /\ n.vault.accepted = s.vault.accepted + stake
      /\ n.vault.claimable = s.vault.claimable + stake
      /\ n.vault.lamports = s.vault.lamports + stake
      /\ n.vault.refunded = s.vault.refunded /\ n.vault.paid = s.vault.paid
      /\ n.market.shares = [s.market.shares EXCEPT ![bought] = @ + shares]
      /\ n.market.resolution = s.market.resolution
      /\ n.market.resolved = s.market.resolved
      /\ n.market.trading_closed = s.market.trading_closed
      /\ n.market.claimed_shares = s.market.claimed_shares
      /\ n.market.priced_at_seq = s.market.priced_at_seq
      /\ n.market.material_seq = s.market.material_seq
      /\ Exists(n.position[p]) /\ n.position[p] \in PositionAccount
      /\ n.position[p].accepted = s.position[p].accepted + stake
      /\ n.position[p].shares = s.position[p].shares + shares
      /\ \A q \in Positions : q # p => n.position[q] = s.position[q]
  <2>1. Takes(s, n, o)
      BY AcceptedFields
  <2> HIDE DEF n
  <2> QED  BY <2>1 DEF Takes
<1> HIDE DEF n, stake, shares, bought, p
<1>8. /\ TotalAccepted(n) = TotalAccepted(s) + stake
      /\ \A side \in Sides : TotalShares(n, side) =
            TotalShares(s, side) + IF side = bought THEN shares ELSE 0
  <2>1. /\ AcceptedIn(n)[p] = AcceptedIn(s)[p] + stake
        /\ AcceptedIn(s)[p] \in Nat /\ TotalAccepted(s) \in Nat
      BY <1>1, <1>2, TotalsTyped DEF AcceptedIn
  <2>2. ASSUME NEW side \in Sides
        PROVE  /\ SharesIn(n, side)[p] =
                     SharesIn(s, side)[p] + IF side = bought THEN shares ELSE 0
               /\ SharesIn(s, side)[p] \in Nat /\ TotalShares(s, side) \in Nat
    <3>1. SharesIn(s, side)[p] \in Nat /\ TotalShares(s, side) \in Nat
        BY <1>1, TotalsTyped
    <3>2. /\ SharesIn(n, side)[p] = IF side = bought THEN n.position[p].shares ELSE 0
          /\ SharesIn(s, side)[p] = IF side = bought THEN s.position[p].shares ELSE 0
        BY <1>1, <1>2 DEF SharesIn
    <3> QED  BY <1>2, <3>1, <3>2
  <2>3. /\ TotalAccepted(n) = TotalAccepted(s) + (AcceptedIn(n)[p] - AcceptedIn(s)[p])
        /\ \A side \in Sides : TotalShares(n, side) =
              TotalShares(s, side) + (SharesIn(n, side)[p] - SharesIn(s, side)[p])
      BY <1>1, <1>2, PositionMoves
  <2>4. TotalAccepted(n) = TotalAccepted(s) + stake
      BY <1>1, <2>1, <2>3
  <2>5. ASSUME NEW side \in Sides
        PROVE  TotalShares(n, side) =
                  TotalShares(s, side) + IF side = bought THEN shares ELSE 0
      BY <1>2, <2>2, <2>3
  <2> QED  BY <2>4, <2>5
<1>9. TotalStake(n) = TotalStake(s) - stake /\ TotalStake(s) \in Nat
  <2> QED  BY <1>1, <1>2, OrderGone DEF CanEvaluateV2, stake
<1>10. /\ MarketState(s) /\ VaultBalances(s) /\ ClaimsAreBacked(s)
       /\ TotalOutlay(paidIn) = s.vault.lamports + TotalStake(s)
       /\ s.market.resolution = 0
  <2>1. ~ s.market.resolved
      BY DEF Refunds
  <2> QED  BY <1>1, <2>1 DEF BooksOf, MarketState
<1>11. /\ s.vault.deposited \in Nat /\ s.vault.refunded \in Nat /\ s.vault.paid \in Nat
       /\ s.vault.accepted \in Nat /\ s.vault.claimable \in Nat
       /\ s.vault.lamports \in Nat
    BY <1>1 DEF MarketVault
<1>12. MarketState(n) /\ VaultBalances(n)
    BY <1>1, <1>2, <1>10, <1>11 DEF MarketState, VaultBalances
<1>13. ClaimsAreBacked(n)
  <2>1. n.vault.claimable = TotalAccepted(n)
      BY <1>2, <1>8, <1>10 DEF ClaimsAreBacked
  <2>2. ASSUME NEW side \in Sides
        PROVE  TotalShares(n, side) = n.market.shares[side]
    <3>1. /\ TotalShares(s, side) = s.market.shares[side]
          /\ s.market.shares \in [Sides -> Nat]
        BY <1>1, <1>10 DEF ClaimsAreBacked, MarketV2
    <3>2. n.market.shares[side] =
             s.market.shares[side] + IF side = bought THEN shares ELSE 0
        BY <1>2, <3>1
    <3> QED  BY <1>8, <3>1, <3>2
  <2> QED  BY <1>2, <1>10, <2>1, <2>2 DEF ClaimsAreBacked
<1>14. TotalOutlay(paidIn) = n.vault.lamports + TotalStake(n)
    BY <1>1, <1>2, <1>9, <1>10, <1>11
<1>15. \A q \in Positions : Exists(n.position[q]) =>
          (n.position[q].accepted = 0 <=> n.position[q].shares = 0)
  <2>1. n.position[p].accepted # 0 /\ n.position[p].shares # 0
      BY <1>1, <1>2 DEF PositionAccount
  <2> QED  BY <1>2, <2>1 DEF BooksOf
<1>16. BooksOf(n, paidIn)
    BY <1>2, <1>12, <1>13, <1>14, <1>15 DEF BooksOf
<1> QED  BY <1>16 DEF n

\* A cancelled order is gone, and its position has what it had.
LEMMA CancelledFields ==
    ASSUME V2Assumption, BooksOf(v2, outlay), NEW o \in V2Orders, CancelOrderV2(o)
    PROVE  LET p == PositionOf(v2, o)
           IN  /\ v2' \in V2Accounts
               /\ v2'.market = v2.market /\ v2'.vault = v2.vault
               /\ v2'.validation = v2.validation
               /\ v2'.order = [v2.order EXCEPT ![o] = NoAccount]
               /\ Exists(v2'.position[p])
               /\ v2'.position[p].accepted = v2.position[p].accepted
               /\ v2'.position[p].shares = v2.position[p].shares
               /\ \A q \in Positions : q # p => v2'.position[q] = v2.position[q]
<1> DEFINE s == v2
           n == v2'
           stake == s.order[o].stake
           p == PositionOf(s, o)
           position == [s.position[p] EXCEPT !.deposited = @ - stake]
<1>1. /\ s \in V2Accounts /\ Exists(s.market) /\ Exists(s.vault)
      /\ s.vault \in MarketVault /\ stake \in Nat \ {0} /\ o.by \in Traders
      /\ p \in Positions /\ s.position[p] \in PositionAccount
      /\ Exists(s.order[o]) /\ Exists(s.position[p])
    BY WaitingOrder DEF CancelOrderV2, CanEvaluateV2
<1>2. /\ n = [s EXCEPT !.order[o] = NoAccount, !.position[p].deposited = @ - stake]
      /\ outlay' = [outlay EXCEPT ![o.by] = @ - stake]
    BY DEF CancelOrderV2
<1> HIDE DEF n, s, stake, p
<1>3. /\ n.market = s.market /\ n.vault = s.vault /\ n.validation = s.validation
      /\ n.order = [s.order EXCEPT ![o] = NoAccount]
      /\ n.position = [s.position EXCEPT ![p] = position]
      /\ n = [ market |-> n.market, vault |-> n.vault, validation |-> n.validation,
               order |-> n.order, position |-> n.position ]
    BY <1>1, <1>2 DEF V2Accounts
<1>4. /\ position \in PositionAccount
      /\ position.accepted = s.position[p].accepted
      /\ position.shares = s.position[p].shares
    BY <1>1 DEF PositionAccount
<1> HIDE DEF position
<1>5. /\ n \in V2Accounts /\ n.position[p] = position /\ Exists(n.position[p])
      /\ \A q \in Positions : q # p => n.position[q] = s.position[q]
  <2>1. /\ n.order \in [V2Orders -> OrderEscrowV2 \cup {NoAccount}]
        /\ n.position \in [Positions -> PositionAccount \cup {NoAccount}]
      BY <1>1, <1>3, <1>4 DEF V2Accounts
  <2> QED  BY <1>1, <1>3, <1>4, <2>1 DEF V2Accounts, V2Assumption, Exists
<1> QED  BY <1>3, <1>4, <1>5 DEF n, s, p

\* A cancelled order returns its stake to its trader and leaves no trace.
LEMMA CancelKeeps ==
    ASSUME V2Assumption, BooksOf(v2, outlay), NEW o \in V2Orders, CancelOrderV2(o)
    PROVE  BooksOf(v2', outlay')
<1> DEFINE s == v2
           n == v2'
           stake == s.order[o].stake
           p == PositionOf(s, o)
<1>1. /\ s \in V2Accounts /\ Exists(s.market) /\ Exists(s.vault)
      /\ s.vault \in MarketVault /\ stake \in Nat \ {0} /\ o.by \in Traders
      /\ p \in Positions /\ Exists(s.order[o]) /\ Exists(s.position[p])
      /\ outlay' = [outlay EXCEPT ![o.by] = @ - stake]
    BY WaitingOrder DEF CancelOrderV2, CanEvaluateV2
<1>2. /\ n \in V2Accounts
      /\ n.market = s.market /\ n.vault = s.vault /\ n.validation = s.validation
      /\ n.order = [s.order EXCEPT ![o] = NoAccount]
      /\ Exists(n.position[p])
      /\ n.position[p].accepted = s.position[p].accepted
      /\ n.position[p].shares = s.position[p].shares
      /\ \A q \in Positions : q # p => n.position[q] = s.position[q]
    BY CancelledFields
<1> HIDE DEF n, s, stake, p
<1>6. /\ TotalAccepted(n) = TotalAccepted(s)
      /\ \A side \in Sides : TotalShares(n, side) = TotalShares(s, side)
  <2>1. /\ AcceptedIn(n)[p] = AcceptedIn(s)[p]
        /\ \A side \in Sides : SharesIn(n, side)[p] = SharesIn(s, side)[p]
      BY <1>1, <1>2 DEF AcceptedIn, SharesIn
  <2>2. /\ TotalAccepted(n) = TotalAccepted(s) + (AcceptedIn(n)[p] - AcceptedIn(s)[p])
        /\ \A side \in Sides : TotalShares(n, side) =
              TotalShares(s, side) + (SharesIn(n, side)[p] - SharesIn(s, side)[p])
      BY <1>1, <1>2, PositionMoves
  <2>3. /\ TotalAccepted(s) \in Nat /\ AcceptedIn(s)[p] \in Nat
        /\ \A side \in Sides : TotalShares(s, side) \in Nat /\ SharesIn(s, side)[p] \in Nat
      BY <1>1, TotalsTyped
  <2> QED  BY <2>1, <2>2, <2>3
<1>7. TotalStake(n) = TotalStake(s) - stake /\ TotalStake(s) \in Nat
    BY <1>1, <1>2, OrderGone DEF stake
<1>8. /\ outlay' \in [Traders -> Int] /\ TotalOutlay(outlay') = TotalOutlay(outlay) - stake
      /\ TotalOutlay(outlay) = s.vault.lamports + TotalStake(s)
  <2>1. /\ outlay \in [Traders -> Int] /\ o.by \in Traders /\ stake \in Int
        /\ TotalOutlay(outlay) = s.vault.lamports + TotalStake(s)
      BY <1>1 DEF BooksOf, s
  <2>2. /\ [outlay EXCEPT ![o.by] = @ - stake] \in [Traders -> Int]
        /\ TotalOutlay([outlay EXCEPT ![o.by] = @ - stake]) = TotalOutlay(outlay) - stake
      BY <2>1, OutlayReturns, Zenon
  <2> QED  BY <1>1, <2>1, <2>2
<1>9. MarketState(n) /\ VaultBalances(n) /\ ClaimsAreBacked(n)
  <2>1. MarketState(s) /\ VaultBalances(s) /\ ClaimsAreBacked(s)
      BY <1>1 DEF BooksOf, s
  <2>2. Winner(n) = Winner(s) /\ Winner(s) \in Sides
      BY <1>2 DEF Winner, WinningSide, Sides
  <2> QED  BY <1>2, <1>6, <2>1, <2>2 DEF MarketState, VaultBalances, ClaimsAreBacked
<1>10. TotalOutlay(outlay') = n.vault.lamports + TotalStake(n)
  <2>1. s.vault.lamports \in Nat
      BY <1>1 DEF MarketVault
  <2> QED  BY <1>1, <1>2, <1>7, <1>8, <2>1
<1>11. \A q \in Positions : Exists(n.position[q]) =>
          (n.position[q].accepted = 0 <=> n.position[q].shares = 0)
    BY <1>1, <1>2 DEF BooksOf, s
<1>12. BooksOf(n, outlay')
    BY <1>1, <1>2, <1>8, <1>9, <1>10, <1>11 DEF BooksOf
<1> QED  BY <1>12 DEF n

\* A position that is closed had nothing to claim: no stake, or the losing side.
LEMMA CloseKeeps ==
    ASSUME V2Assumption, BooksOf(v2, outlay), NEW p \in Positions, ClosePositionV2(p)
    PROVE  BooksOf(v2', outlay')
<1> DEFINE s == v2
           n == v2'
<1>1. /\ s \in V2Accounts /\ Exists(s.position[p]) /\ outlay \in [Traders -> Int]
      /\ s.position[p] \in PositionAccount
      /\ n = [s EXCEPT !.position[p] = NoAccount] /\ outlay' = outlay
    BY AccountsTyped DEF BooksOf, ClosePositionV2, CanClosePosition
<1>2. Exists(s.market)
    BY <1>1 DEF BooksOf, NoMarket
<1>3. \/ s.position[p].accepted = 0 /\ s.position[p].shares = 0
      \/ s.market.resolution \in {1, 2} /\ p[2] # Winner(s)
    BY <1>1 DEF ClosePositionV2, CanClosePosition, LostV2, Winner, BooksOf
<1>4. /\ MarketState(s) /\ VaultBalances(s) /\ ClaimsAreBacked(s)
      /\ TotalOutlay(outlay) = s.vault.lamports + TotalStake(s)
    BY <1>2 DEF BooksOf
<1>5. \A q \in Positions : Exists(s.position[q]) =>
         (s.position[q].accepted = 0 <=> s.position[q].shares = 0)
    BY DEF BooksOf
<1> HIDE DEF n, s
<1>6. /\ n.market = s.market /\ n.vault = s.vault /\ n.validation = s.validation
      /\ n.order = s.order /\ n.position = [s.position EXCEPT ![p] = NoAccount]
      /\ n \in V2Accounts
    BY <1>1 DEF V2Accounts
<1>7. /\ ~ Exists(n.position[p])
      /\ \A q \in Positions : q # p => n.position[q] = s.position[q]
    BY <1>1, <1>6 DEF V2Accounts, Exists
<1>8. /\ AcceptedIn(n)[p] = 0 /\ AcceptedIn(s)[p] = s.position[p].accepted
      /\ \A side \in Sides :
            /\ SharesIn(n, side)[p] = 0
            /\ SharesIn(s, side)[p] = IF p[2] = side THEN s.position[p].shares ELSE 0
    BY <1>1, <1>7 DEF AcceptedIn, SharesIn
<1>9. /\ TotalAccepted(n) = TotalAccepted(s) + (AcceptedIn(n)[p] - AcceptedIn(s)[p])
      /\ \A side \in Sides : TotalShares(n, side) =
            TotalShares(s, side) + (SharesIn(n, side)[p] - SharesIn(s, side)[p])
    BY <1>1, <1>6, <1>7, PositionMoves
<1>10. TotalAccepted(s) \in Nat /\ \A side \in Sides : TotalShares(s, side) \in Nat
    BY <1>1, TotalsTyped
<1>11. Winner(n) = Winner(s) /\ Winner(s) \in Sides
    BY <1>6 DEF Winner, WinningSide, Sides
<1>12. ClaimsAreBacked(n)
  <2>1. CASE s.position[p].accepted = 0 /\ s.position[p].shares = 0
    <3>1. /\ TotalAccepted(n) = TotalAccepted(s)
          /\ \A side \in Sides : TotalShares(n, side) = TotalShares(s, side)
        BY <1>8, <1>9, <1>10, <2>1
    <3> QED  BY <1>4, <1>6, <1>11, <3>1 DEF ClaimsAreBacked
  <2>2. CASE s.market.resolution \in {1, 2} /\ p[2] # Winner(s)
    <3>1. TotalShares(n, Winner(s)) = TotalShares(s, Winner(s))
        BY <1>8, <1>9, <1>10, <1>11, <2>2
    <3> QED  BY <1>4, <1>6, <1>11, <2>2, <3>1 DEF ClaimsAreBacked
  <2> QED  BY <1>3, <2>1, <2>2
<1>13. MarketState(n) /\ VaultBalances(n)
    BY <1>4, <1>6 DEF MarketState, VaultBalances
<1>14. TotalOutlay(outlay') = n.vault.lamports + TotalStake(n)
    BY <1>1, <1>4, <1>6 DEF TotalStake, StakesIn
<1>15. \A q \in Positions : Exists(n.position[q]) =>
          (n.position[q].accepted = 0 <=> n.position[q].shares = 0)
    BY <1>5, <1>7
<1>16. BooksOf(n, outlay')
    BY <1>1, <1>2, <1>6, <1>12, <1>13, <1>14, <1>15 DEF BooksOf
<1> QED  BY <1>16 DEF n

MayClaim(p) ==
    /\ Exists(v2.position[p]) /\ v2.position[p].accepted > 0
    /\ v2.market.resolved
    /\ v2.market.resolution = 3 \/ WonV2(p)

\* What a winner, or a position of a voided market, is due is there: the shares that
\* have not claimed are in the winning side's total, and the rounding down of the
\* claims before leaves the vault no poorer than its shares.
LEMMA ClaimIsCovered ==
    ASSUME V2Assumption, BooksOf(v2, outlay), NEW p \in Positions, MayClaim(p)
    PROVE  /\ Exists(v2.market) /\ v2 \in V2Accounts
           /\ v2.market \in MarketV2 /\ v2.vault \in MarketVault
           /\ v2.position[p] \in PositionAccount
           /\ PayoutV2(p) \in Nat /\ PayoutV2(p) <= v2.vault.claimable
           /\ v2.market.resolution = 3 => PayoutV2(p) = v2.position[p].accepted
           /\ v2.market.resolution # 3 =>
                 /\ v2.market.resolution \in {1, 2} /\ p[2] = Winner(v2)
                 /\ v2.market.shares[p[2]] > 0
                 /\ v2.market.claimed_shares + v2.position[p].shares
                       <= v2.market.shares[p[2]]
                 /\ (v2.vault.paid + PayoutV2(p)) * v2.market.shares[p[2]]
                       <= (v2.market.claimed_shares + v2.position[p].shares)
                             * v2.vault.accepted
<1> DEFINE k == v2.position[p].shares
           winning == v2.market.shares[p[2]]
           claimed == v2.market.claimed_shares
           paid == v2.vault.paid
           accepted == v2.vault.accepted
           claimable == v2.vault.claimable
<1>1. v2 \in V2Accounts /\ Exists(v2.market) /\ Exists(v2.vault)
    BY DEF BooksOf, NoMarket, MayClaim, MarketState
<1>2. /\ v2.market \in MarketV2 /\ v2.vault \in MarketVault
      /\ v2.position[p] \in PositionAccount
    BY <1>1, AccountsTyped DEF MayClaim
<1>3. VaultBalances(v2) /\ ClaimsAreBacked(v2)
    BY <1>1 DEF BooksOf
<1>4. paid \in Nat /\ accepted \in Nat /\ claimable \in Nat /\ accepted = paid + claimable
    BY <1>2, <1>3 DEF MarketVault, VaultBalances
<1>5. v2.position[p].accepted \in Nat /\ k \in Nat /\ k # 0
    BY <1>2 DEF PositionAccount, BooksOf, MayClaim
<1>6. CASE v2.market.resolution = 3
  <2>1. PayoutV2(p) = v2.position[p].accepted
      BY <1>6 DEF PayoutV2
  <2>2. v2.position[p].accepted <= TotalAccepted(v2)
      BY <1>1, TotalsTyped DEF AcceptedIn, MayClaim
  <2>3. claimable = TotalAccepted(v2)
      BY <1>3, <1>6 DEF ClaimsAreBacked
  <2> QED  BY <1>1, <1>2, <1>5, <1>6, <2>1, <2>2, <2>3
<1>7. CASE v2.market.resolution # 3
  <2>1. v2.market.resolution \in {1, 2} /\ p[2] = Winner(v2) /\ p[2] \in Sides
      BY <1>7 DEF MayClaim, WonV2, Winner, WinningSide, Sides
  <2>2. k <= TotalShares(v2, p[2])
      BY <1>1, <2>1, TotalsTyped DEF SharesIn, MayClaim
  <2>3. /\ winning \in Nat /\ claimed \in Nat
        /\ TotalShares(v2, p[2]) = winning - claimed
        /\ paid * winning <= claimed * accepted
      BY <1>2, <1>3, <2>1 DEF MarketV2, ClaimsAreBacked
  <2>4. winning > 0 /\ claimed + k <= winning
      BY <1>5, <2>2, <2>3
  <2>5. PayoutV2(p) = IF claimed + k = winning THEN claimable
                    ELSE (k * accepted) \div winning
      BY <1>7 DEF PayoutV2
  <2> HIDE DEF k, winning, claimed, paid, accepted, claimable
  <2>6. /\ PayoutV2(p) \in Nat /\ PayoutV2(p) <= claimable
        /\ (paid + PayoutV2(p)) * winning <= (claimed + k) * accepted
    <3>1. CASE claimed + k = winning
      <4>1. PayoutV2(p) = claimable /\ paid + PayoutV2(p) = accepted
          BY <1>4, <2>5, <3>1
      <4>2. accepted * winning <= winning * accepted
          BY <1>4, <2>3
      <4> QED  BY <1>4, <3>1, <4>1, <4>2
    <3>2. CASE claimed + k # winning
      <4> DEFINE share == (k * accepted) \div winning
      <4>1. winning \in Nat \ {0}
          BY <2>3, <2>4
      <4>2. /\ share \in Nat /\ (paid + share) * winning <= (claimed + k) * accepted
            /\ paid + share <= accepted
          BY <1>4, <1>5, <2>3, <2>4, <4>1, FloorShare
      <4>3. PayoutV2(p) = share
          BY <2>5, <3>2
      <4> HIDE DEF share
      <4>4. share <= claimable
          BY <1>4, <4>2
      <4> QED  BY <4>2, <4>3, <4>4
    <3> QED  BY <3>1, <3>2
  <2> QED  BY <1>1, <1>2, <1>7, <2>1, <2>4, <2>6
              DEF k, winning, claimed, paid, accepted, claimable
<1> QED  BY <1>6, <1>7

\* A claim takes its payout out of the vault, and its position is gone.
LEMMA ClaimedFields ==
    ASSUME V2Assumption, BooksOf(v2, outlay), NEW p \in Positions, ClaimPositionV2(p)
    PROVE  LET payout == PayoutV2(p)
               voided == v2.market.resolution = 3
           IN  /\ v2' \in V2Accounts /\ Exists(v2'.market) /\ Exists(v2'.vault)
               /\ v2'.market \in MarketV2
               /\ v2'.market.claimed_shares =
                     (IF voided THEN v2.market.claimed_shares
                      ELSE v2.market.claimed_shares + v2.position[p].shares)
               /\ v2'.market.shares = v2.market.shares
               /\ v2'.market.resolution = v2.market.resolution
               /\ v2'.market.resolved = v2.market.resolved
               /\ v2'.market.trading_closed = v2.market.trading_closed
               /\ v2'.market.priced_at_seq = v2.market.priced_at_seq
               /\ v2'.market.material_seq = v2.market.material_seq
               /\ v2'.vault.paid = v2.vault.paid + payout
               /\ v2'.vault.claimable = v2.vault.claimable - payout
               /\ v2'.vault.lamports = v2.vault.lamports - payout
               /\ v2'.vault.deposited = v2.vault.deposited
               /\ v2'.vault.refunded = v2.vault.refunded
               /\ v2'.vault.accepted = v2.vault.accepted
               /\ v2'.validation = v2.validation /\ v2'.order = v2.order
               /\ ~ Exists(v2'.position[p])
               /\ \A q \in Positions : q # p => v2'.position[q] = v2.position[q]
<1> DEFINE s == v2
           n == v2'
           payout == PayoutV2(p)
           k == s.position[p].shares
           voided == s.market.resolution = 3
<1>1. MayClaim(p)
    BY DEF ClaimPositionV2, CanClaim, MayClaim
<1>2. /\ Exists(s.market) /\ s \in V2Accounts
      /\ s.market \in MarketV2 /\ s.vault \in MarketVault
      /\ s.position[p] \in PositionAccount
      /\ payout \in Nat /\ payout <= s.vault.claimable
      /\ voided => payout = s.position[p].accepted
      /\ ~ voided =>
            /\ s.market.resolution \in {1, 2} /\ p[2] = Winner(s)
            /\ s.market.shares[p[2]] > 0
            /\ s.market.claimed_shares + k <= s.market.shares[p[2]]
            /\ (s.vault.paid + payout) * s.market.shares[p[2]]
                  <= (s.market.claimed_shares + k) * s.vault.accepted
    BY <1>1, ClaimIsCovered
<1> DEFINE vault == [s.vault EXCEPT !.paid = @ + payout, !.claimable = @ - payout,
                                    !.lamports = @ - payout]
           claimed == IF voided THEN s.market.claimed_shares
                      ELSE s.market.claimed_shares + k
<1>3. /\ n = [s EXCEPT !.vault = vault, !.market.claimed_shares = claimed,
                       !.position[p] = NoAccount]
      /\ outlay' = [outlay EXCEPT ![p[1]] = @ - payout]
    BY DEF ClaimPositionV2
<1>4. /\ MarketState(s) /\ VaultBalances(s) /\ ClaimsAreBacked(s)
      /\ TotalOutlay(outlay) = s.vault.lamports + TotalStake(s)
      /\ outlay \in [Traders -> Int]
      /\ \A q \in Positions : Exists(s.position[q]) =>
            (s.position[q].accepted = 0 <=> s.position[q].shares = 0)
    BY <1>2 DEF BooksOf
<1>5. Exists(s.position[p]) /\ s.market.resolved /\ p[1] \in Traders
    BY <1>1 DEF MayClaim, Positions
<1> HIDE DEF n, s, payout
<1>6. /\ s.vault.deposited \in Nat /\ s.vault.refunded \in Nat /\ s.vault.paid \in Nat
      /\ s.vault.accepted \in Nat /\ s.vault.claimable \in Nat
      /\ s.vault.lamports \in Nat /\ k \in Nat /\ s.position[p].accepted \in Nat
      /\ s.market.claimed_shares \in Nat /\ s.market.shares \in [Sides -> Nat]
    BY <1>2 DEF MarketVault, PositionAccount, MarketV2
<1> HIDE DEF k
<1>7. claimed \in Nat
    BY <1>6
<1> HIDE DEF vault, claimed
<1>8. /\ n.market = [s.market EXCEPT !.claimed_shares = claimed] /\ n.vault = vault
      /\ n.validation = s.validation /\ n.order = s.order
      /\ n.position = [s.position EXCEPT ![p] = NoAccount]
      /\ n = [ market |-> n.market, vault |-> n.vault, validation |-> n.validation,
               order |-> n.order, position |-> n.position ]
    BY <1>2, <1>3 DEF V2Accounts
<1>9. /\ n.market \in MarketV2 /\ n.market.claimed_shares = claimed
      /\ n.market.shares = s.market.shares /\ n.market.resolution = s.market.resolution
      /\ n.market.resolved = s.market.resolved
      /\ n.market.trading_closed = s.market.trading_closed
      /\ n.market.priced_at_seq = s.market.priced_at_seq
      /\ n.market.material_seq = s.market.material_seq
    BY <1>2, <1>7, <1>8 DEF MarketV2
<1>10. /\ vault.paid = s.vault.paid + payout
       /\ vault.claimable = s.vault.claimable - payout
       /\ vault.lamports = s.vault.lamports - payout
       /\ vault.deposited = s.vault.deposited /\ vault.refunded = s.vault.refunded
       /\ vault.accepted = s.vault.accepted
    BY <1>2 DEF vault, MarketVault
<1>11. vault \in MarketVault
  <2>1. /\ vault.deposited \in Nat /\ vault.accepted \in Nat /\ vault.claimable \in Nat
        /\ vault.lamports \in Nat /\ vault.refunded \in Nat /\ vault.paid \in Nat
      BY <1>2, <1>4, <1>6, <1>10 DEF VaultBalances
  <2>2. vault = [ deposited |-> vault.deposited, refunded |-> vault.refunded,
                  accepted |-> vault.accepted, paid |-> vault.paid,
                  claimable |-> vault.claimable, lamports |-> vault.lamports ]
    <3> DEFINE old == s.vault
               paid == s.vault.paid + payout
               claimable == s.vault.claimable - payout
               lamports == s.vault.lamports - payout
    <3>1. /\ old \in MarketVault
          /\ vault = [old EXCEPT !.paid = paid, !.claimable = claimable,
                                 !.lamports = lamports]
        BY <1>2 DEF vault
    <3> HIDE DEF old, paid, claimable, lamports
    <3> QED  BY <3>1 DEF MarketVault
  <2> QED  BY <2>1, <2>2 DEF MarketVault
<1>12. /\ n \in V2Accounts /\ Exists(n.market) /\ Exists(n.vault)
       /\ ~ Exists(n.position[p])
       /\ \A q \in Positions : q # p => n.position[q] = s.position[q]
  <2>1. n.position \in [Positions -> PositionAccount \cup {NoAccount}]
      BY <1>2, <1>8 DEF V2Accounts
  <2>2. n \in V2Accounts
      BY <1>2, <1>8, <1>9, <1>11, <2>1 DEF V2Accounts
  <2>3. ~ Exists(n.position[p]) /\ \A q \in Positions : q # p => n.position[q] = s.position[q]
      BY <1>2, <1>8 DEF V2Accounts, Exists
  <2> QED  BY <1>8, <1>9, <1>11, <2>2, <2>3 DEF V2Assumption, Exists
<1> QED
    BY <1>8, <1>9, <1>10, <1>12 DEF n, s, k, payout, claimed

\* A claim takes its payout out of the vault and its shares out of those that wait.
LEMMA ClaimKeeps ==
    ASSUME V2Assumption, BooksOf(v2, outlay), NEW p \in Positions, ClaimPositionV2(p)
    PROVE  BooksOf(v2', outlay')
<1> DEFINE s == v2
           n == v2'
           payout == PayoutV2(p)
           k == s.position[p].shares
           voided == s.market.resolution = 3
<1>1. MayClaim(p)
    BY DEF ClaimPositionV2, CanClaim, MayClaim
<1>2. /\ Exists(s.market) /\ s \in V2Accounts
      /\ s.market \in MarketV2 /\ s.vault \in MarketVault
      /\ s.position[p] \in PositionAccount
      /\ payout \in Nat /\ payout <= s.vault.claimable
      /\ voided => payout = s.position[p].accepted
      /\ ~ voided =>
            /\ s.market.resolution \in {1, 2} /\ p[2] = Winner(s)
            /\ s.market.shares[p[2]] > 0
            /\ s.market.claimed_shares + k <= s.market.shares[p[2]]
            /\ (s.vault.paid + payout) * s.market.shares[p[2]]
                  <= (s.market.claimed_shares + k) * s.vault.accepted
    BY <1>1, ClaimIsCovered
<1>3. /\ MarketState(s) /\ VaultBalances(s) /\ ClaimsAreBacked(s)
      /\ TotalOutlay(outlay) = s.vault.lamports + TotalStake(s)
      /\ outlay \in [Traders -> Int]
      /\ \A q \in Positions : Exists(s.position[q]) =>
            (s.position[q].accepted = 0 <=> s.position[q].shares = 0)
    BY <1>2 DEF BooksOf
<1>4. /\ Exists(s.position[p]) /\ s.market.resolved /\ p[1] \in Traders
      /\ outlay' = [outlay EXCEPT ![p[1]] = @ - payout]
    BY <1>1 DEF MayClaim, Positions, ClaimPositionV2
<1> DEFINE claimed == IF voided THEN s.market.claimed_shares
                      ELSE s.market.claimed_shares + k
<1>5. /\ n \in V2Accounts /\ Exists(n.market) /\ Exists(n.vault)
      /\ n.market.claimed_shares = claimed
      /\ n.market.shares = s.market.shares /\ n.market.resolution = s.market.resolution
      /\ n.market.resolved = s.market.resolved
      /\ n.market.trading_closed = s.market.trading_closed
      /\ n.market.priced_at_seq = s.market.priced_at_seq
      /\ n.market.material_seq = s.market.material_seq
      /\ n.vault.paid = s.vault.paid + payout
      /\ n.vault.claimable = s.vault.claimable - payout
      /\ n.vault.lamports = s.vault.lamports - payout
      /\ n.vault.deposited = s.vault.deposited /\ n.vault.refunded = s.vault.refunded
      /\ n.vault.accepted = s.vault.accepted
      /\ n.validation = s.validation /\ n.order = s.order
      /\ ~ Exists(n.position[p])
      /\ \A q \in Positions : q # p => n.position[q] = s.position[q]
    BY ClaimedFields
<1> HIDE DEF n, s, payout
<1>6. /\ s.vault.deposited \in Nat /\ s.vault.refunded \in Nat /\ s.vault.paid \in Nat
      /\ s.vault.accepted \in Nat /\ s.vault.claimable \in Nat
      /\ s.vault.lamports \in Nat /\ k \in Nat /\ s.position[p].accepted \in Nat
      /\ s.market.claimed_shares \in Nat /\ s.market.shares \in [Sides -> Nat]
    BY <1>2 DEF MarketVault, PositionAccount, MarketV2
<1> HIDE DEF k, claimed
<1>13. /\ TotalAccepted(n) = TotalAccepted(s) - s.position[p].accepted
       /\ \A side \in Sides : TotalShares(n, side) =
             TotalShares(s, side) - IF p[2] = side THEN k ELSE 0
  <2>1. /\ AcceptedIn(n)[p] = 0 /\ AcceptedIn(s)[p] = s.position[p].accepted
        /\ \A side \in Sides :
              /\ SharesIn(n, side)[p] = 0
              /\ SharesIn(s, side)[p] = IF p[2] = side THEN k ELSE 0
      BY <1>4, <1>5 DEF AcceptedIn, SharesIn, k
  <2>2. /\ TotalAccepted(n) = TotalAccepted(s) + (AcceptedIn(n)[p] - AcceptedIn(s)[p])
        /\ \A side \in Sides : TotalShares(n, side) =
              TotalShares(s, side) + (SharesIn(n, side)[p] - SharesIn(s, side)[p])
      BY <1>2, <1>5, PositionMoves
  <2>3. TotalAccepted(s) \in Nat /\ \A side \in Sides : TotalShares(s, side) \in Nat
      BY <1>2, TotalsTyped
  <2> QED  BY <1>6, <2>1, <2>2, <2>3
<1>14. TotalStake(n) = TotalStake(s) /\ TotalStake(s) \in Nat
    BY <1>2, <1>5, TotalsTyped DEF TotalStake, StakesIn
<1>15. outlay' \in [Traders -> Int] /\ TotalOutlay(outlay') = TotalOutlay(outlay) - payout
  <2>1. payout \in Int
      BY <1>2
  <2>2. /\ [outlay EXCEPT ![p[1]] = @ - payout] \in [Traders -> Int]
        /\ TotalOutlay([outlay EXCEPT ![p[1]] = @ - payout]) = TotalOutlay(outlay) - payout
      BY <1>3, <1>4, <2>1, OutlayReturns, Zenon
  <2> QED  BY <1>4, <2>2
<1>16. MarketState(n) /\ VaultBalances(n)
  <2>1. MarketState(n)
      BY <1>3, <1>5 DEF MarketState
  <2>2. VaultBalances(n)
      BY <1>2, <1>3, <1>6, <1>5 DEF VaultBalances
  <2> QED  BY <2>1, <2>2
<1>17. ClaimsAreBacked(n)
  <2>1. Winner(n) = Winner(s) /\ Winner(s) \in Sides
      BY <1>5 DEF Winner, WinningSide, Sides
  <2>2. s.market.resolution # 0
      BY <1>3, <1>4 DEF MarketState
  <2>3. CASE voided
    <3>1. n.vault.claimable = TotalAccepted(n)
        BY <1>2, <1>3, <1>5, <1>13, <2>3 DEF ClaimsAreBacked
    <3> QED  BY <1>5, <2>3, <3>1 DEF ClaimsAreBacked
  <2>4. CASE ~ voided
    <3>1. /\ TotalShares(s, Winner(s)) = s.market.shares[Winner(s)] - s.market.claimed_shares
          /\ s.market.shares[Winner(s)] \in Nat
        BY <1>2, <1>3, <1>6, <2>1, <2>4 DEF ClaimsAreBacked
    <3>2. TotalShares(n, Winner(n)) = n.market.shares[Winner(n)] - n.market.claimed_shares
        BY <1>2, <1>6, <1>5, <1>13, <2>1, <2>4, <3>1 DEF claimed
    <3>3. n.vault.paid * n.market.shares[Winner(n)]
             <= n.market.claimed_shares * n.vault.accepted
      <4>1. /\ n.vault.paid = s.vault.paid + payout /\ n.vault.accepted = s.vault.accepted
            /\ n.market.claimed_shares = s.market.claimed_shares + k
            /\ n.market.shares[Winner(n)] = s.market.shares[p[2]]
          BY <1>2, <1>5, <2>1, <2>4 DEF claimed
      <4>2. (s.vault.paid + payout) * s.market.shares[p[2]]
               <= (s.market.claimed_shares + k) * s.vault.accepted
          BY <1>2, <2>4
      <4> QED  BY <4>1, <4>2, Zenon
    <3> QED  BY <1>2, <1>5, <2>4, <3>2, <3>3 DEF ClaimsAreBacked
  <2> QED  BY <2>3, <2>4
<1>18. TotalOutlay(outlay') = n.vault.lamports + TotalStake(n)
    BY <1>2, <1>3, <1>6, <1>5, <1>14, <1>15
<1>19. \A q \in Positions : Exists(n.position[q]) =>
          (n.position[q].accepted = 0 <=> n.position[q].shares = 0)
    BY <1>3, <1>5
<1>20. BooksOf(n, outlay')
    BY <1>5, <1>15, <1>16, <1>17, <1>18, <1>19 DEF BooksOf
<1> QED  BY <1>20 DEF n

\* An instruction that changes the market's flags and prices, or its validation.
LEMMA AccountsChange ==
    ASSUME V2Assumption, BooksOf(v2, outlay), Exists(v2.market), NEW m \in MarketV2,
           NEW x \in ValidationAccount \cup {NoAccount}, NEW n,
           n = [v2 EXCEPT !.market = m, !.validation = x],
           m.shares = v2.market.shares, m.claimed_shares = v2.market.claimed_shares,
           m.priced_at_seq <= m.material_seq,
           m.resolved <=> m.resolution # 0, m.resolved => m.trading_closed,
           m.resolution = v2.market.resolution \/ ~ v2.market.resolved
    PROVE  BooksOf(n, outlay)
<1>1. v2 \in V2Accounts /\ MarketState(v2)
    BY DEF BooksOf
<1>2. /\ n.market = m /\ n.validation = x /\ n.vault = v2.vault
      /\ n.order = v2.order /\ n.position = v2.position /\ n \in V2Accounts
    BY <1>1 DEF V2Accounts
<1>3. Exists(n.market) /\ MarketState(n)
    BY <1>1, <1>2 DEF MarketState, V2Assumption, Exists
<1> QED  BY <1>2, <1>3, ControlKeeps

\* The resolvers of a market are among the keys.
LEMMA ResolversAreKeys ==
    ASSUME NEW m \in MarketV2, NEW k \in m.roles.resolution
    PROVE  k \in Keys
BY DEF MarketV2, Keys

\* A market opens with an empty vault, before anyone has paid anything.
LEMMA OpenKeeps ==
    ASSUME V2Assumption, BooksOf(v2, outlay), NEW roles \in AuthoritySets, NEW terms,
           TypedTerms(terms), ValidTerms(terms), ~ Exists(v2.market)
    PROVE  BooksOf(Opened(roles, terms), outlay)
<1> DEFINE n == Opened(roles, terms)
<1>2. v2 \in V2Accounts /\ NoMarket(v2, outlay) /\ outlay \in [Traders -> Int]
    BY DEF BooksOf
<1>3. /\ terms.material \in Int /\ terms.priced \in Int /\ terms.odds \in Int
      /\ terms.tolerance \in Int /\ terms.close_time \in Int /\ terms.min_ts \in Int
      /\ terms.displayed \in 1 .. MICROS_ONE - 1 /\ terms.fair \in 1 .. MICROS_ONE - 1
      /\ terms.priced <= terms.material
    BY DEF ValidTerms, TypedTerms
<1> DEFINE none == [side \in Sides |-> 0]
           market == [ roles |-> roles, material_seq |-> terms.material,
                       priced_at_seq |-> terms.priced, odds_sequence |-> terms.odds,
                       displayed |-> terms.displayed, fair |-> terms.fair,
                       tolerance |-> terms.tolerance, close_time |-> terms.close_time,
                       min_ts |-> terms.min_ts, trading_closed |-> FALSE,
                       resolved |-> FALSE, resolution |-> 0, pool |-> none,
                       shares |-> none, claimed_shares |-> 0 ]
           vault == [ deposited |-> 0, refunded |-> 0, accepted |-> 0, paid |-> 0,
                      claimable |-> 0, lamports |-> 0 ]
<1>4. none \in [Sides -> Nat] /\ \A side \in Sides : none[side] = 0
    OBVIOUS
<1>5. n = [v2 EXCEPT !.market = market, !.vault = vault]
    BY DEF Opened
<1> HIDE DEF none, n
<1>6. market \in MarketV2 /\ vault \in MarketVault
    BY <1>3, <1>4 DEF MarketV2, MarketVault
<1>7. /\ market.shares = none /\ market.claimed_shares = 0 /\ market.resolution = 0
      /\ ~ market.resolved /\ market.priced_at_seq <= market.material_seq
      /\ vault.lamports = 0 /\ vault.claimable = 0 /\ vault.accepted = 0
      /\ vault.paid = 0 /\ vault.deposited = 0 /\ vault.refunded = 0
    BY <1>3
<1> HIDE DEF market, vault
<1>8. /\ n.market = market /\ n.vault = vault /\ n.order = v2.order
      /\ n.position = v2.position /\ n \in V2Accounts
    BY <1>2, <1>5, <1>6 DEF V2Accounts
<1>9. /\ TotalAccepted(n) = 0 /\ \A side \in Sides : TotalShares(n, side) = 0
      /\ TotalStake(n) = 0 /\ TotalOutlay(outlay) = 0
  <2>1. \A p \in Positions : AcceptedIn(n)[p] = 0
      BY <1>2, <1>8 DEF AcceptedIn, NoMarket
  <2>2. \A side \in Sides, p \in Positions : SharesIn(n, side)[p] = 0
      BY <1>2, <1>8 DEF SharesIn, NoMarket
  <2>3. \A o \in V2Orders : StakesIn(n)[o] = 0
      BY <1>2, <1>8 DEF StakesIn, NoMarket
  <2>4. TotalAccepted(n) = 0
      BY <2>1, PositionsFinite, SumOfZeros DEF TotalAccepted
  <2>5. ASSUME NEW side \in Sides
        PROVE  TotalShares(n, side) = 0
    <3> DEFINE f == SharesIn(n, side)
    <3>1. \A p \in Positions : f[p] = 0
        BY <2>2
    <3> HIDE DEF f
    <3>2. SumOver(f, Positions) = 0
        BY <3>1, PositionsFinite, SumOfZeros
    <3> QED  BY <3>2 DEF f, TotalShares
  <2>6. TotalStake(n) = 0
      BY <2>3, SumOfZeros DEF TotalStake, V2Assumption
  <2>7. TotalOutlay(outlay) = 0
      BY <1>2, SumOfZeros DEF TotalOutlay, NoMarket, V2Assumption
  <2> QED  BY <2>4, <2>5, <2>6, <2>7
<1>10. Exists(n.market) /\ Exists(n.vault)
    BY <1>6, <1>8 DEF V2Assumption, Exists
<1>11. MarketState(n) /\ VaultBalances(n) /\ ClaimsAreBacked(n)
    BY <1>4, <1>7, <1>8, <1>9, <1>10 DEF MarketState, VaultBalances, ClaimsAreBacked
<1>12. BooksOf(n, outlay)
    BY <1>2, <1>7, <1>8, <1>9, <1>10, <1>11 DEF BooksOf, NoMarket
<1> QED  BY <1>12 DEF n

(***************************************************************************)
(* The invariant, and the theorems.                                        *)
(***************************************************************************)

\* The instructions of the authorities keep the books.
LEMMA AuthorityKeeps ==
    ASSUME V2Assumption, BooksOf(v2, outlay), DueAfterTimelock,
           GovernanceStep \/ ControlStep
    PROVE  BooksOf(v2', outlay')
<1>1. CASE UNCHANGED <<v2, outlay>>
    BY <1>1
<1>2. ASSUME Exists(v2.market)
      PROVE  /\ v2 \in V2Accounts /\ v2.market \in MarketV2 /\ MarketState(v2)
             /\ v2.validation \in ValidationAccount \cup {NoAccount}
    BY <1>2, AccountsTyped DEF BooksOf, V2Accounts
<1>3. ASSUME NEW k, NEW terms, TypedTerms(terms), InitializeMarketV2(k, terms)
      PROVE  BooksOf(v2', outlay')
  <2>1. /\ authorities.current \in AuthoritySets /\ ~ Exists(v2.market)
        /\ ValidTerms(terms) /\ v2' = Opened(authorities.current, terms)
        /\ outlay' = outlay
      BY <1>3 DEF InitializeMarketV2, DueAfterTimelock, AuthorityConfig
  <2>2. BooksOf(Opened(authorities.current, terms), outlay)
      BY <1>3, <2>1, OpenKeeps
  <2> QED  BY <2>1, <2>2
<1>4. ASSUME NEW m \in MarketV2, Exists(v2.market),
             v2' = [v2 EXCEPT !.market = m], outlay' = outlay,
             m.shares = v2.market.shares, m.claimed_shares = v2.market.claimed_shares,
             m.priced_at_seq <= m.material_seq,
             m.resolved <=> m.resolution # 0, m.resolved => m.trading_closed,
             m.resolution = v2.market.resolution \/ ~ v2.market.resolved
      PROVE  BooksOf(v2', outlay')
  <2>1. v2' = [v2 EXCEPT !.market = m, !.validation = v2.validation]
      BY <1>2, <1>4 DEF V2Accounts
  <2> QED  BY <1>2, <1>4, <2>1, AccountsChange
<1>5. ASSUME NEW k, NEW seq \in Int, IngestMaterialEventV2(k, seq)
      PROVE  BooksOf(v2', outlay')
  <2> DEFINE m == [v2.market EXCEPT !.material_seq = seq]
  <2>1. /\ Exists(v2.market) /\ seq > v2.market.material_seq /\ seq \in Int
        /\ v2' = [v2 EXCEPT !.market = m] /\ outlay' = outlay
      BY <1>5 DEF IngestMaterialEventV2, IsTrading
  <2>2. /\ m \in MarketV2 /\ m.shares = v2.market.shares
        /\ m.claimed_shares = v2.market.claimed_shares
        /\ m.priced_at_seq = v2.market.priced_at_seq /\ m.material_seq = seq
        /\ m.resolved = v2.market.resolved /\ m.resolution = v2.market.resolution
        /\ m.trading_closed = v2.market.trading_closed
      BY <1>2, <2>1 DEF MarketV2
  <2>3. m.priced_at_seq <= m.material_seq
      BY <1>2, <2>1, <2>2 DEF MarketState, MarketV2
  <2> HIDE DEF m
  <2> QED  BY <1>2, <1>4, <2>1, <2>2, <2>3 DEF MarketState
<1>6. ASSUME NEW k, NEW odds, odds.sequence \in Int, CommitTxlineOddsV2(k, odds)
      PROVE  BooksOf(v2', outlay')
  <2> DEFINE m == [v2.market EXCEPT !.odds_sequence = odds.sequence, !.fair = odds.price]
  <2>1. /\ Exists(v2.market) /\ odds.sequence \in Int
        /\ odds.price \in 1 .. MICROS_ONE - 1 /\ outlay' = outlay
        /\ v2' = [v2 EXCEPT !.market = m]
      BY <1>6 DEF CommitTxlineOddsV2, IsTrading
  <2>2. /\ m \in MarketV2 /\ m.shares = v2.market.shares
        /\ m.claimed_shares = v2.market.claimed_shares
        /\ m.priced_at_seq = v2.market.priced_at_seq
        /\ m.material_seq = v2.market.material_seq
        /\ m.resolved = v2.market.resolved /\ m.resolution = v2.market.resolution
        /\ m.trading_closed = v2.market.trading_closed
      BY <1>2, <2>1 DEF MarketV2
  <2> HIDE DEF m
  <2> QED  BY <1>2, <1>4, <2>1, <2>2 DEF MarketState
<1>7. ASSUME NEW k, RepriceMarketV2(k)
      PROVE  BooksOf(v2', outlay')
  <2> DEFINE m == [v2.market EXCEPT !.displayed = v2.market.fair,
                                    !.priced_at_seq = v2.market.material_seq]
  <2>1. Exists(v2.market) /\ v2' = [v2 EXCEPT !.market = m] /\ outlay' = outlay
      BY <1>7 DEF RepriceMarketV2, IsTrading
  <2>2. /\ m \in MarketV2 /\ m.shares = v2.market.shares
        /\ m.claimed_shares = v2.market.claimed_shares
        /\ m.priced_at_seq = m.material_seq /\ m.material_seq \in Int
        /\ m.resolved = v2.market.resolved /\ m.resolution = v2.market.resolution
        /\ m.trading_closed = v2.market.trading_closed
      BY <1>2, <2>1 DEF MarketV2
  <2> HIDE DEF m
  <2>3. m.priced_at_seq <= m.material_seq
      BY <2>2
  <2> QED  BY <1>2, <1>4, <2>1, <2>2, <2>3 DEF MarketState
<1>8. ASSUME NEW k, CloseMarketV2(k)
      PROVE  BooksOf(v2', outlay')
  <2> DEFINE m == [v2.market EXCEPT !.trading_closed = TRUE]
  <2>1. Exists(v2.market) /\ v2' = [v2 EXCEPT !.market = m] /\ outlay' = outlay
      BY <1>8 DEF CloseMarketV2
  <2>2. /\ m \in MarketV2 /\ m.shares = v2.market.shares
        /\ m.claimed_shares = v2.market.claimed_shares
        /\ m.priced_at_seq = v2.market.priced_at_seq
        /\ m.material_seq = v2.market.material_seq
        /\ m.resolved = v2.market.resolved /\ m.resolution = v2.market.resolution
        /\ m.trading_closed
      BY <1>2, <2>1 DEF MarketV2
  <2> HIDE DEF m
  <2> QED  BY <1>2, <1>4, <2>1, <2>2 DEF MarketState
<1>9. ASSUME NEW result \in 1 .. 3, NEW x \in ValidationAccount \cup {NoAccount},
             Exists(v2.market), ~ v2.market.resolved, outlay' = outlay,
             v2' = [v2 EXCEPT !.market = [v2.market EXCEPT !.resolved = TRUE,
                                             !.trading_closed = TRUE,
                                             !.resolution = result],
                              !.validation = x]
      PROVE  BooksOf(v2', outlay')
  <2> DEFINE m == [v2.market EXCEPT !.resolved = TRUE, !.trading_closed = TRUE,
                                    !.resolution = result]
  <2>1. /\ m \in MarketV2 /\ m.shares = v2.market.shares
        /\ m.claimed_shares = v2.market.claimed_shares
        /\ m.priced_at_seq = v2.market.priced_at_seq
        /\ m.material_seq = v2.market.material_seq
        /\ m.resolved /\ m.resolution = result /\ m.trading_closed
    <3>1. v2.market \in MarketV2 /\ result \in 0 .. 3
        BY <1>2, <1>9
    <3> QED  BY <3>1 DEF MarketV2
  <2>2. v2' = [v2 EXCEPT !.market = m, !.validation = x]
      BY <1>9
  <2> HIDE DEF m
  <2>3. m.priced_at_seq <= m.material_seq /\ m.resolution # 0
      BY <1>2, <1>9, <2>1 DEF MarketState
  <2>4. BooksOf([v2 EXCEPT !.market = m, !.validation = x], outlay)
      BY <1>9, <2>1, <2>3, AccountsChange
  <2> QED  BY <1>9, <2>2, <2>4
<1>10. ASSUME NEW k, NEW evidence, ProveResolutionWithTxlineV2(k, evidence)
       PROVE  BooksOf(v2', outlay')
  <2> DEFINE x == [outcome |-> Outcome(evidence), approvals |-> {k}, executed |-> FALSE]
  <2>1. /\ Exists(v2.market) /\ v2' = [v2 EXCEPT !.validation = x] /\ outlay' = outlay
        /\ k \in v2.market.roles.resolution
      BY <1>10 DEF ProveResolutionWithTxlineV2
  <2>2. x \in ValidationAccount
    <3>1. k \in Keys
        BY <1>2, <2>1, ResolversAreKeys
    <3> QED  BY <3>1 DEF ValidationAccount, Outcome
  <2> HIDE DEF x
  <2>3. v2' = [v2 EXCEPT !.market = v2.market, !.validation = x]
      BY <1>2, <2>1 DEF V2Accounts
  <2> QED  BY <1>2, <2>1, <2>2, <2>3, AccountsChange DEF MarketState
<1>11. ASSUME NEW k, ApproveResolutionV2(k)
       PROVE  BooksOf(v2', outlay')
  <2> DEFINE x == [v2.validation EXCEPT !.approvals = @ \cup {k}]
  <2>1. /\ Exists(v2.validation) /\ v2' = [v2 EXCEPT !.validation = x] /\ outlay' = outlay
        /\ k \in v2.market.roles.resolution
      BY <1>11 DEF ApproveResolutionV2
  <2>2. Exists(v2.market)
      BY <2>1 DEF BooksOf, NoMarket
  <2>3. x \in ValidationAccount
    <3>1. k \in Keys
        BY <1>2, <2>1, <2>2, ResolversAreKeys
    <3> QED  BY <1>2, <2>1, <2>2, <3>1 DEF ValidationAccount, Exists
  <2> HIDE DEF x
  <2>4. v2' = [v2 EXCEPT !.market = v2.market, !.validation = x]
      BY <1>2, <2>1, <2>2 DEF V2Accounts
  <2> QED  BY <1>2, <2>1, <2>2, <2>3, <2>4, AccountsChange DEF MarketState
<1>12. ASSUME ExecuteResolutionV2
       PROVE  BooksOf(v2', outlay')
  <2> DEFINE x == [v2.validation EXCEPT !.executed = TRUE]
             voided == \/ v2.validation.outcome = 3
                       \/ v2.market.pool[WinningSide(v2.validation.outcome)] = 0
             result == IF voided THEN 3 ELSE v2.validation.outcome
  <2>1. /\ Exists(v2.validation) /\ ~ v2.market.resolved /\ outlay' = outlay
        /\ v2' = [v2 EXCEPT !.market.resolved = TRUE, !.market.trading_closed = TRUE,
                            !.market.resolution = result, !.validation.executed = TRUE]
      BY <1>12 DEF ExecuteResolutionV2
  <2>2. Exists(v2.market)
      BY <2>1 DEF BooksOf, NoMarket
  <2>3. v2.validation \in ValidationAccount
      BY <1>2, <2>1, <2>2 DEF Exists
  <2>4. x \in ValidationAccount /\ result \in 1 .. 3
    <3>1. x \in ValidationAccount
        BY <2>3 DEF ValidationAccount
    <3>2. v2.validation.outcome \in 1 .. 3
        BY <2>3 DEF ValidationAccount
    <3> HIDE DEF voided, x
    <3> QED  BY <3>1, <3>2
  <2> HIDE DEF result
  <2>5. v2' = [v2 EXCEPT !.market = [v2.market EXCEPT !.resolved = TRUE,
                                       !.trading_closed = TRUE, !.resolution = result],
                         !.validation = x]
      BY <1>2, <2>1, <2>2, <2>3 DEF V2Accounts
  <2> HIDE DEF x
  <2> QED  BY <1>9, <2>1, <2>2, <2>4, <2>5
<1>13. ASSUME NEW k, EmergencyVoidMarketV2(k)
       PROVE  BooksOf(v2', outlay')
  <2>1. /\ Exists(v2.market) /\ ~ v2.market.resolved /\ outlay' = outlay
        /\ v2' = [v2 EXCEPT !.market.resolved = TRUE, !.market.trading_closed = TRUE,
                            !.market.resolution = 3]
      BY <1>13 DEF EmergencyVoidMarketV2
  <2>2. v2' = [v2 EXCEPT !.market = [v2.market EXCEPT !.resolved = TRUE,
                                       !.trading_closed = TRUE, !.resolution = 3],
                         !.validation = v2.validation]
      BY <1>2, <2>1 DEF V2Accounts
  <2>3. 3 \in 1 .. 3 /\ v2.validation \in ValidationAccount \cup {NoAccount}
      BY <1>2, <2>1
  <2> QED  BY <1>9, <2>1, <2>2, <2>3
<1>14. ASSUME NEW k, NEW set \in AuthoritySets,
              InitializeAuthorities(k, set) \/ ProposeAuthorityUpdate(k, set)
       PROVE  BooksOf(v2', outlay')
    BY <1>1, <1>14 DEF InitializeAuthorities, ProposeAuthorityUpdate
<1>15. CASE ExecuteAuthorityUpdate
    BY <1>1, <1>15 DEF ExecuteAuthorityUpdate
<1>16. ASSUME NEW terms, NEW set \in AuthoritySets, OpensAtOnce(set, terms)
       PROVE  BooksOf(v2', outlay')
  <2>1. BooksOf(Opened(set, terms), outlay)
      BY <1>16, OpenKeeps DEF OpensAtOnce
  <2> QED  BY <1>16, <2>1 DEF OpensAtOnce
<1>17. ASSUME NEW seq, NEW odds, NEW price, PricesMove(seq, odds, price)
       PROVE  BooksOf(v2', outlay')
  <2> DEFINE m == [v2.market EXCEPT !.material_seq = seq, !.odds_sequence = odds,
                                    !.fair = price]
  <2>1. /\ Exists(v2.market) /\ seq > v2.market.material_seq /\ seq \in Int
        /\ odds \in Int /\ price \in 1 .. MICROS_ONE - 1 /\ outlay' = outlay
      BY <1>17 DEF PricesMove, IsTrading
  <2>2. v2' = [v2 EXCEPT !.market = m]
      BY <1>2, <1>17, <2>1 DEF PricesMove, V2Accounts
  <2>3. /\ m \in MarketV2 /\ m.shares = v2.market.shares
        /\ m.claimed_shares = v2.market.claimed_shares
        /\ m.priced_at_seq = v2.market.priced_at_seq /\ m.material_seq = seq
        /\ m.resolved = v2.market.resolved /\ m.resolution = v2.market.resolution
        /\ m.trading_closed = v2.market.trading_closed
      BY <1>2, <2>1 DEF MarketV2
  <2>4. m.priced_at_seq <= m.material_seq
      BY <1>2, <2>1, <2>3 DEF MarketState, MarketV2
  <2> HIDE DEF m
  <2> QED  BY <1>2, <1>4, <2>1, <2>2, <2>3, <2>4 DEF MarketState
<1> QED
    BY <1>3, <1>5, <1>6, <1>7, <1>8, <1>10, <1>11, <1>12, <1>13, <1>14, <1>15, <1>16,
       <1>17
       DEF GovernanceStep, ControlStep

\* An order that is placed and decided in one transaction keeps the books too: its stake
\* comes in, and goes on to the vault or back.
LEMMA PlaceAndEvaluateKeeps ==
    ASSUME V2Assumption, BooksOf(v2, outlay), NEW o \in V2Orders, NEW args, TypedArgs(args),
           PlacesAndEvaluates(o, args)
    PROVE  BooksOf(v2', outlay')
<1> DEFINE placed == Placed(v2, o, args)
           paid == [outlay EXCEPT ![o.by] = @ + args.stake]
<1>1. CanPlaceV2(v2, o, args) /\ v2' = Evaluated(placed, o)
    BY DEF PlacesAndEvaluates
<1>2. BooksOf(placed, paid)
    BY <1>1, PlacingKeeps
<1>3. CanEvaluateV2(placed, o) /\ placed.order[o].stake = args.stake
    BY <1>1, PlacedWaits
<1> HIDE DEF placed
<1>4. CASE Refunds(placed, o)
  <2>1. BooksOf(Refunded(placed, o), [paid EXCEPT ![o.by] = @ - placed.order[o].stake])
      BY <1>2, <1>3, <1>4, RefundingKeeps
  <2>2. [paid EXCEPT ![o.by] = @ - placed.order[o].stake] = outlay
    <3>1. outlay \in [Traders -> Int] /\ o.by \in Traders /\ args.stake \in Int
        BY DEF BooksOf, V2Assumption, TypedArgs
    <3>2. paid \in [Traders -> Int] /\ paid[o.by] = outlay[o.by] + args.stake
        BY <3>1
    <3>3. paid[o.by] - args.stake = outlay[o.by]
        BY <3>1, <3>2
    <3>4. [paid EXCEPT ![o.by] = outlay[o.by]] = outlay
        BY <3>1
    <3> HIDE DEF paid
    <3> QED  BY <1>3, <3>3, <3>4
  <2>3. outlay' = outlay /\ v2' = Refunded(placed, o)
      BY <1>1, <1>4 DEF PlacesAndEvaluates, Evaluated, placed
  <2> QED  BY <2>1, <2>2, <2>3
<1>5. CASE ~ Refunds(placed, o)
  <2>1. SharesOf(placed, o) > 0 /\ v2' = Accepted(placed, o) /\ outlay' = paid
      BY <1>1, <1>5 DEF PlacesAndEvaluates, Evaluated, placed
  <2>2. BooksOf(Accepted(placed, o), paid)
      BY <1>2, <1>3, <1>5, <2>1, AcceptKeeps
  <2> QED  BY <2>1, <2>2
<1> QED  BY <1>4, <1>5

\* So do the traders', and waiting.
LEMMA BooksStep ==
    ASSUME V2Assumption, BooksOf(v2, outlay), DueAfterTimelock, MarketStep
    PROVE  BooksOf(v2', outlay')
<1>1. ASSUME NEW o \in V2Orders, NEW args, TypedArgs(args), PlaceOrderV2(o, args)
      PROVE  BooksOf(v2', outlay')
  <2>1. BooksOf(Placed(v2, o, args), [outlay EXCEPT ![o.by] = @ + args.stake])
      BY <1>1, PlacingKeeps DEF PlaceOrderV2
  <2> QED  BY <1>1, <2>1 DEF PlaceOrderV2
<1>2. ASSUME NEW o \in V2Orders, EvaluateOrderV2(o)
      PROVE  BooksOf(v2', outlay')
  <2>1. CASE Refunds(v2, o)
    <3>1. BooksOf(Refunded(v2, o), [outlay EXCEPT ![o.by] = @ - v2.order[o].stake])
        BY <1>2, RefundingKeeps DEF EvaluateOrderV2
    <3> QED  BY <1>2, <2>1, <3>1 DEF EvaluateOrderV2, Evaluated
  <2>2. CASE ~ Refunds(v2, o)
    <3>1. BooksOf(Accepted(v2, o), outlay)
        BY <1>2, <2>2, AcceptKeeps DEF EvaluateOrderV2
    <3> QED  BY <1>2, <2>2, <3>1 DEF EvaluateOrderV2, Evaluated
  <2> QED  BY <2>1, <2>2
<1>3. ASSUME NEW o \in V2Orders, CancelOrderV2(o)
      PROVE  BooksOf(v2', outlay')
    BY <1>3, CancelKeeps
<1>4. ASSUME NEW p \in Positions, ClaimPositionV2(p) \/ ClosePositionV2(p)
      PROVE  BooksOf(v2', outlay')
    BY <1>4, ClaimKeeps, CloseKeeps
<1>5. CASE ClockTicks \/ UNCHANGED v2Vars
    BY <1>5 DEF ClockTicks, v2Vars
<1>6. CASE MoneyStep
    BY <1>1, <1>2, <1>3, <1>4, <1>6, PlaceAndEvaluateKeeps DEF MoneyStep
<1> QED  BY <1>5, <1>6, AuthorityKeeps DEF MarketStep

V2Inv == BooksOf(v2, outlay) /\ DueAfterTimelock /\ clock \in 0 .. MaxClock

\* The books are in order from the start.
LEMMA V2Starts == ASSUME V2Assumption, V2Init PROVE V2Inv
<1>1. /\ v2.market = NoAccount /\ v2.vault = NoAccount /\ v2.validation = NoAccount
      /\ \A o \in V2Orders : v2.order[o] = NoAccount
      /\ \A p \in Positions : v2.position[p] = NoAccount
      /\ \A t \in Traders : outlay[t] = 0
      /\ outlay \in [Traders -> Int] /\ v2 \in V2Accounts
    BY DEF V2Init, V2Accounts
<1>2. BooksOf(v2, outlay)
    BY <1>1 DEF BooksOf, NoMarket, Exists
<1>3. DueAfterTimelock /\ clock \in 0 .. MaxClock
    BY DEF V2Init, DueAfterTimelock, Exists, V2Assumption
<1> QED  BY <1>2, <1>3 DEF V2Inv

\* And every step keeps them so.
LEMMA V2StepKeeps == ASSUME V2Assumption, V2Inv, MarketStep PROVE V2Inv'
<1>1. BooksOf(v2', outlay')
    BY BooksStep DEF V2Inv
<1>2. DueAfterTimelock'
    BY PendingIsDue DEF V2Inv, V2Assumption
<1>3. clock' = clock \/ ClockTicks
    BY AuthoritiesRest
       DEF MarketStep, GovernanceStep, InitializeAuthorities, ProposeAuthorityUpdate,
           ExecuteAuthorityUpdate, OpensAtOnce
<1>4. clock' \in 0 .. MaxClock
    BY <1>3 DEF ClockTicks, V2Inv, V2Assumption
<1> QED  BY <1>1, <1>2, <1>4 DEF V2Inv

\* The books are in order from the start, and stay so.
THEOREM BooksStayInOrder == ASSUME V2Assumption PROVE V2Spec => []V2Inv
<1>1. V2Init => V2Inv
    BY V2Starts
<1>2. V2Inv /\ [V2Next]_v2Vars => V2Inv'
    BY V2StepKeeps, NextIsMarketStep
<1> QED  BY <1>1, <1>2, PTL DEF V2Spec

\* Books in order are typed accounts.
LEMMA BooksAreTyped == ASSUME V2Assumption, V2Inv PROVE V2TypeOK
BY DEF V2Inv, BooksOf, MarketState, V2TypeOK

\* The accounts of the program keep their types: no vault total goes below zero, no
\* market is priced at an event it has not seen.
THEOREM AccountsCorrect == ASSUME V2Assumption PROVE V2Spec => []V2TypeOK
<1>1. V2Inv => V2TypeOK
    BY BooksAreTyped
<1> QED  BY <1>1, BooksStayInOrder, PTL

\* In their totals, they say that the vault covers its positions.
LEMMA BooksCover == ASSUME V2Assumption, V2Inv PROVE VaultCoversPositions
<1> SUFFICES ASSUME Exists(v2.market)
             PROVE  /\ v2.vault.lamports = v2.vault.claimable
                    /\ v2.market.resolution \in {0, 3} =>
                          v2.vault.claimable = Live(LAMBDA p : v2.position[p].accepted)
                    /\ MapThenSumSet(LAMBDA t : outlay[t], Traders) =
                          v2.vault.lamports
                            + MapThenSumSet(LAMBDA o : v2.order[o].stake,
                                            {o \in V2Orders : Exists(v2.order[o])})
    BY DEF VaultCoversPositions
<1>1. /\ VaultBalances(v2) /\ ClaimsAreBacked(v2) /\ v2 \in V2Accounts
      /\ TotalOutlay(outlay) = v2.vault.lamports + TotalStake(v2)
    BY DEF V2Inv, BooksOf
<1>2. Live(LAMBDA p : v2.position[p].accepted) = TotalAccepted(v2)
  <2> DEFINE S == {p \in Positions : Exists(v2.position[p])}
             f == [p \in S |-> v2.position[p].accepted]
  <2>1. /\ S \in SUBSET Positions /\ \A p \in S : f[p] = AcceptedIn(v2)[p]
        /\ \A p \in Positions \ S : AcceptedIn(v2)[p] = 0
      BY DEF AcceptedIn
  <2>2. \A p \in S : f[p] \in Int
      BY <1>1, <2>1, TotalsTyped
  <2>3. Live(LAMBDA p : v2.position[p].accepted) = SumOver(f, S)
      BY SumsOfFields DEF Live
  <2> HIDE DEF f, S
  <2>4. SumOver(f, S) = SumOver(AcceptedIn(v2), Positions)
      BY <2>1, <2>2, PositionsFinite, SumOverPart
  <2> QED  BY <2>3, <2>4 DEF TotalAccepted
<1>3. MapThenSumSet(LAMBDA o : v2.order[o].stake, {o \in V2Orders : Exists(v2.order[o])})
         = TotalStake(v2)
  <2> DEFINE S == {o \in V2Orders : Exists(v2.order[o])}
             f == [o \in S |-> v2.order[o].stake]
  <2>1. /\ S \in SUBSET V2Orders /\ \A o \in S : f[o] = StakesIn(v2)[o]
        /\ \A o \in V2Orders \ S : StakesIn(v2)[o] = 0
      BY DEF StakesIn
  <2>2. \A o \in S : f[o] \in Int
      BY <1>1, <2>1, TotalsTyped
  <2>3. MapThenSumSet(LAMBDA o : v2.order[o].stake, S) = SumOver(f, S)
      BY SumsOfFields
  <2> HIDE DEF f, S
  <2>4. SumOver(f, S) = SumOver(StakesIn(v2), V2Orders)
      BY <2>1, <2>2, SumOverPart DEF V2Assumption
  <2> QED  BY <2>3, <2>4 DEF TotalStake, S
<1>4. MapThenSumSet(LAMBDA t : outlay[t], Traders) = TotalOutlay(outlay)
    BY DEF TotalOutlay, SumOver
<1> QED  BY <1>1, <1>2, <1>3, <1>4 DEF VaultBalances, ClaimsAreBacked

\* The vault of a second-generation market holds what its open positions may claim,
\* and what the traders paid in is in the vault and in the waiting orders.
THEOREM CoverCorrect == ASSUME V2Assumption PROVE V2Spec => []VaultCoversPositions
<1>1. V2Inv => VaultCoversPositions
    BY BooksCover
<1> QED  BY <1>1, BooksStayInOrder, PTL

\* They leave every winner its claim.
LEMMA BooksBackClaims == ASSUME V2Assumption, V2Inv PROVE ClaimsAreNeverBlocked
<1> SUFFICES ASSUME NEW p \in Positions, MayClaim(p)
             PROVE  CanClaim(p)
    BY DEF ClaimsAreNeverBlocked, MayClaim
<1>1. BooksOf(v2, outlay)
    BY DEF V2Inv
<1>2. /\ Exists(v2.market) /\ PayoutV2(p) <= v2.vault.claimable
      /\ v2.market.resolution # 3 =>
            /\ v2.market.shares[p[2]] > 0
            /\ v2.market.claimed_shares + v2.position[p].shares
                  <= v2.market.shares[p[2]]
    BY <1>1, ClaimIsCovered
<1>3. v2.vault.lamports = v2.vault.claimable
    BY <1>1, <1>2 DEF BooksOf, VaultBalances
<1> QED  BY <1>2, <1>3 DEF CanClaim, MayClaim

\* Every winner, and every position of a voided market, can claim at any time, whoever
\* claimed, cancelled or closed before (claim_position_v2).
THEOREM ClaimsCorrect == ASSUME V2Assumption PROVE V2Spec => []ClaimsAreNeverBlocked
<1>1. V2Inv => ClaimsAreNeverBlocked
    BY BooksBackClaims
<1> QED  BY <1>1, BooksStayInOrder, PTL

\* And every waiting order its evaluation.
LEMMA BooksFreeEscrow == ASSUME V2Assumption, V2Inv PROVE EscrowIsNeverBlocked
<1> SUFFICES ASSUME NEW o \in V2Orders, CanEvaluateV2(v2, o)
             PROVE  VaultInvariant(Evaluated(v2, o))
    BY DEF EscrowIsNeverBlocked
<1> DEFINE stake == v2.order[o].stake
           vault == Evaluated(v2, o).vault
<1>1. /\ v2 \in V2Accounts /\ Exists(v2.market) /\ v2.vault \in MarketVault
      /\ stake \in Nat \ {0}
    BY WaitingOrder DEF V2Inv
<1>2. VaultBalances(v2)
    BY <1>1 DEF V2Inv, BooksOf
<1>3. /\ v2.vault.deposited \in Nat /\ v2.vault.refunded \in Nat
      /\ v2.vault.paid \in Nat /\ v2.vault.accepted \in Nat
      /\ v2.vault.claimable \in Nat
    BY <1>1 DEF MarketVault
<1>4. vault = [v2.vault EXCEPT !.deposited = @ + stake, !.refunded = @ + stake]
        \/ vault = [v2.vault EXCEPT !.deposited = @ + stake, !.accepted = @ + stake,
                                    !.claimable = @ + stake, !.lamports = @ + stake]
    BY <1>1 DEF Evaluated, Refunded, Accepted, V2Accounts
<1> HIDE DEF vault, stake
<1>5. /\ vault.deposited = v2.vault.deposited + stake /\ vault.paid = v2.vault.paid
      /\ \/ /\ vault.refunded = v2.vault.refunded + stake
            /\ vault.claimable = v2.vault.claimable
            /\ vault.accepted = v2.vault.accepted
         \/ /\ vault.refunded = v2.vault.refunded
            /\ vault.claimable = v2.vault.claimable + stake
            /\ vault.accepted = v2.vault.accepted + stake
    BY <1>1, <1>4 DEF MarketVault
<1>6. /\ vault.deposited = vault.refunded + vault.paid + vault.claimable
      /\ vault.paid <= vault.accepted
    BY <1>1, <1>2, <1>3, <1>5 DEF VaultBalances
<1> QED  BY <1>6 DEF VaultInvariant, vault

\* The check at the end of evaluate_order_v2, assert_vault_invariant, never refuses an
\* order that waits with its position.
THEOREM EscrowCorrect == ASSUME V2Assumption PROVE V2Spec => []EscrowIsNeverBlocked
<1>1. V2Inv => EscrowIsNeverBlocked
    BY BooksFreeEscrow
<1> QED  BY <1>1, BooksStayInOrder, PTL

(***************************************************************************)
(* What only grows: the stakes that the market has taken and given back,   *)
(* the positions as long as it trades, its approvals.  A market that has   *)
(* closed stays closed and takes nothing any more.                         *)
(***************************************************************************)
IsClosed(s) == Exists(s.market) /\ (s.market.trading_closed \/ s.market.resolved)

\* The market and its result, from accounts s to n.
MarketGrows(s, n) ==
    /\ Exists(s.market) => Exists(n.market) /\ (s.market.resolved => n.market.resolved)
    /\ IsClosed(s) => IsClosed(n)
    /\ Exists(n.validation) =>
          IF Exists(s.validation)
          THEN /\ s.validation.approvals \subseteq n.validation.approvals
               /\ \E k : n.validation.approvals \subseteq s.validation.approvals \cup {k}
          ELSE \E k : n.validation.approvals = {k}
    /\ Exists(s.validation) => Exists(n.validation)

\* Prices, closing and results leave the stakes where they are.
LEMMA ControlGrows ==
    ASSUME V2Assumption, V2Inv, GovernanceStep \/ ControlStep
    PROVE  /\ MarketGrows(v2, v2') /\ outlay' = outlay
           /\ v2'.order = v2.order /\ v2'.position = v2.position
           /\ Exists(v2.market) => v2'.vault = v2.vault
<1> DEFINE Quiet ==
        /\ MarketGrows(v2, v2') /\ outlay' = outlay
        /\ v2'.order = v2.order /\ v2'.position = v2.position
        /\ Exists(v2.market) => v2'.vault = v2.vault
<1>1. v2 \in V2Accounts
    BY DEF V2Inv, BooksOf
<1>2. /\ Exists(v2.market) => v2.market \in MarketV2
      /\ Exists(v2.validation) => v2.validation \in ValidationAccount
      /\ Exists(v2.validation) => Exists(v2.market)
    BY <1>1, AccountsTyped DEF V2Inv, BooksOf, NoMarket
<1>3. CASE UNCHANGED <<v2, outlay>>
    BY <1>3 DEF MarketGrows, IsClosed
<1>4. ASSUME NEW set, NEW terms, ~ Exists(v2.market), v2' = Opened(set, terms),
             outlay' = outlay
      PROVE  Quiet
  <2>1. v2'.order = v2.order /\ v2'.position = v2.position /\ v2'.validation = v2.validation
      BY <1>1, <1>4 DEF V2Accounts, Opened
  <2> QED  BY <1>2, <1>4, <2>1 DEF MarketGrows, IsClosed
<1>5. ASSUME NEW m \in MarketV2, Exists(v2.market), v2' = [v2 EXCEPT !.market = m],
             outlay' = outlay, v2.market.resolved => m.resolved,
             v2.market.trading_closed => m.trading_closed \/ m.resolved
      PROVE  Quiet
    BY <1>1, <1>5 DEF MarketGrows, IsClosed, V2Accounts, Exists, V2Assumption
<1>6. ASSUME NEW k, NEW seq \in Int, IngestMaterialEventV2(k, seq)
      PROVE  Quiet
  <2> DEFINE m == [v2.market EXCEPT !.material_seq = seq]
  <2>1. /\ Exists(v2.market) /\ v2' = [v2 EXCEPT !.market = m] /\ outlay' = outlay
      BY <1>6 DEF IngestMaterialEventV2, IsTrading
  <2>2. /\ m \in MarketV2 /\ m.resolved = v2.market.resolved
        /\ m.trading_closed = v2.market.trading_closed
      BY <1>2, <2>1 DEF MarketV2
  <2> HIDE DEF m
  <2> QED  BY <1>5, <2>1, <2>2
<1>7. ASSUME NEW k, NEW odds, odds.sequence \in Int, CommitTxlineOddsV2(k, odds)
      PROVE  Quiet
  <2> DEFINE m == [v2.market EXCEPT !.odds_sequence = odds.sequence, !.fair = odds.price]
  <2>1. /\ Exists(v2.market) /\ odds.price \in 1 .. MICROS_ONE - 1
        /\ v2' = [v2 EXCEPT !.market = m] /\ outlay' = outlay
      BY <1>7 DEF CommitTxlineOddsV2, IsTrading
  <2>2. /\ m \in MarketV2 /\ m.resolved = v2.market.resolved
        /\ m.trading_closed = v2.market.trading_closed
      BY <1>2, <1>7, <2>1 DEF MarketV2
  <2> HIDE DEF m
  <2> QED  BY <1>5, <2>1, <2>2
<1>8. ASSUME NEW k, RepriceMarketV2(k)
      PROVE  Quiet
  <2> DEFINE m == [v2.market EXCEPT !.displayed = v2.market.fair,
                                    !.priced_at_seq = v2.market.material_seq]
  <2>1. Exists(v2.market) /\ v2' = [v2 EXCEPT !.market = m] /\ outlay' = outlay
      BY <1>8 DEF RepriceMarketV2, IsTrading
  <2>2. /\ m \in MarketV2 /\ m.resolved = v2.market.resolved
        /\ m.trading_closed = v2.market.trading_closed
      BY <1>2, <2>1 DEF MarketV2
  <2> HIDE DEF m
  <2> QED  BY <1>5, <2>1, <2>2
<1>9. ASSUME NEW k, CloseMarketV2(k)
      PROVE  Quiet
  <2> DEFINE m == [v2.market EXCEPT !.trading_closed = TRUE]
  <2>1. Exists(v2.market) /\ v2' = [v2 EXCEPT !.market = m] /\ outlay' = outlay
      BY <1>9 DEF CloseMarketV2
  <2>2. m \in MarketV2 /\ m.resolved = v2.market.resolved /\ m.trading_closed
      BY <1>2, <2>1 DEF MarketV2
  <2> HIDE DEF m
  <2> QED  BY <1>5, <2>1, <2>2
<1>10. ASSUME NEW k, EmergencyVoidMarketV2(k)
       PROVE  Quiet
  <2> DEFINE m == [v2.market EXCEPT !.resolved = TRUE, !.trading_closed = TRUE,
                                    !.resolution = 3]
  <2>1. Exists(v2.market) /\ outlay' = outlay
      BY <1>10 DEF EmergencyVoidMarketV2
  <2>2. v2' = [v2 EXCEPT !.market = m]
      BY <1>1, <1>2, <1>10, <2>1 DEF EmergencyVoidMarketV2, V2Accounts
  <2>3. m \in MarketV2 /\ m.resolved
    <3>1. v2.market \in MarketV2 /\ 3 \in 0 .. 3
        BY <1>2, <2>1
    <3> QED  BY <3>1 DEF MarketV2
  <2> HIDE DEF m
  <2> QED  BY <1>5, <2>1, <2>2, <2>3
<1>11. ASSUME NEW seq, NEW odds, NEW price, PricesMove(seq, odds, price)
       PROVE  Quiet
  <2> DEFINE m == [v2.market EXCEPT !.material_seq = seq, !.odds_sequence = odds,
                                    !.fair = price]
  <2>1. /\ Exists(v2.market) /\ outlay' = outlay
        /\ seq \in Int /\ odds \in Int /\ price \in 1 .. MICROS_ONE - 1
      BY <1>11 DEF PricesMove, IsTrading
  <2>2. v2' = [v2 EXCEPT !.market = m]
      BY <1>1, <1>2, <1>11, <2>1 DEF PricesMove, V2Accounts
  <2>3. /\ m \in MarketV2 /\ m.resolved = v2.market.resolved
        /\ m.trading_closed = v2.market.trading_closed
      BY <1>2, <2>1 DEF MarketV2
  <2> HIDE DEF m
  <2> QED  BY <1>5, <2>1, <2>2, <2>3
<1>12. ASSUME NEW k, NEW evidence, ProveResolutionWithTxlineV2(k, evidence)
       PROVE  Quiet
  <2> DEFINE x == [outcome |-> Outcome(evidence), approvals |-> {k}, executed |-> FALSE]
  <2>1. /\ Exists(v2.market) /\ ~ Exists(v2.validation) /\ outlay' = outlay
        /\ v2' = [v2 EXCEPT !.validation = x] /\ x.approvals = {k}
      BY <1>12 DEF ProveResolutionWithTxlineV2
  <2> HIDE DEF x
  <2>2. /\ v2'.market = v2.market /\ v2'.vault = v2.vault /\ v2'.order = v2.order
        /\ v2'.position = v2.position /\ v2'.validation = x
      BY <1>1, <2>1 DEF V2Accounts
  <2> QED  BY <2>1, <2>2 DEF MarketGrows, IsClosed
<1>13. ASSUME NEW k, ApproveResolutionV2(k)
       PROVE  Quiet
  <2> DEFINE x == [v2.validation EXCEPT !.approvals = @ \cup {k}]
  <2>1. /\ Exists(v2.validation) /\ outlay' = outlay
        /\ v2' = [v2 EXCEPT !.validation = x]
      BY <1>13 DEF ApproveResolutionV2
  <2>2. x.approvals = v2.validation.approvals \cup {k} /\ Exists(x)
    <3>1. k \in Keys
      <4>1. k \in v2.market.roles.resolution
          BY <1>13 DEF ApproveResolutionV2
      <4> QED  BY <1>2, <2>1, <4>1, ResolversAreKeys
    <3>2. x \in ValidationAccount
        BY <1>2, <2>1, <3>1 DEF ValidationAccount
    <3> QED  BY <1>2, <2>1, <3>2 DEF ValidationAccount, Exists, V2Assumption
  <2> HIDE DEF x
  <2>3. /\ v2'.market = v2.market /\ v2'.vault = v2.vault /\ v2'.order = v2.order
        /\ v2'.position = v2.position /\ v2'.validation = x
      BY <1>1, <2>1 DEF V2Accounts
  <2> QED  BY <2>1, <2>2, <2>3 DEF MarketGrows, IsClosed
<1>14. CASE ExecuteResolutionV2
  <2> DEFINE x == [v2.validation EXCEPT !.executed = TRUE]
             voided == \/ v2.validation.outcome = 3
                       \/ v2.market.pool[WinningSide(v2.validation.outcome)] = 0
             result == IF voided THEN 3 ELSE v2.validation.outcome
             m == [v2.market EXCEPT !.resolved = TRUE, !.trading_closed = TRUE,
                                    !.resolution = result]
  <2>1. /\ Exists(v2.validation) /\ outlay' = outlay
        /\ v2' = [v2 EXCEPT !.market.resolved = TRUE, !.market.trading_closed = TRUE,
                            !.market.resolution = result, !.validation.executed = TRUE]
      BY <1>14 DEF ExecuteResolutionV2
  <2>2. x \in ValidationAccount /\ x.approvals = v2.validation.approvals
      BY <1>2, <2>1 DEF ValidationAccount
  <2>3. result \in 0 .. 3
    <3>1. v2.validation.outcome \in 1 .. 3
        BY <1>2, <2>1 DEF ValidationAccount
    <3> HIDE DEF voided
    <3> QED  BY <3>1
  <2> HIDE DEF result
  <2>4. m \in MarketV2 /\ m.resolved
      BY <1>2, <2>1, <2>3 DEF MarketV2
  <2>5. v2' = [v2 EXCEPT !.market = m, !.validation = x]
      BY <1>1, <1>2, <2>1 DEF V2Accounts
  <2> HIDE DEF m, x
  <2>6. /\ v2'.market = m /\ v2'.vault = v2.vault /\ v2'.order = v2.order
        /\ v2'.position = v2.position /\ v2'.validation = x
      BY <1>1, <2>5 DEF V2Accounts
  <2>7. Exists(m) /\ Exists(x)
      BY <2>2, <2>4 DEF Exists, V2Assumption
  <2> QED  BY <2>1, <2>2, <2>4, <2>6, <2>7 DEF MarketGrows, IsClosed
<1>15. ASSUME NEW k, NEW set,
              InitializeAuthorities(k, set) \/ ProposeAuthorityUpdate(k, set)
       PROVE  Quiet
    BY <1>3, <1>15 DEF InitializeAuthorities, ProposeAuthorityUpdate
<1>16. CASE ExecuteAuthorityUpdate
    BY <1>3, <1>16 DEF ExecuteAuthorityUpdate
<1>17. ASSUME NEW terms, NEW set, OpensAtOnce(set, terms)
       PROVE  Quiet
    BY <1>4, <1>17 DEF OpensAtOnce
<1>18. ASSUME NEW k, NEW terms, InitializeMarketV2(k, terms)
       PROVE  Quiet
    BY <1>4, <1>18 DEF InitializeMarketV2
<1>19. GovernanceStep => Quiet
    BY <1>15, <1>16, <1>17, Zenon DEF GovernanceStep
<1>20. ControlStep => Quiet
    BY <1>6, <1>7, <1>8, <1>9, <1>10, <1>11, <1>12, <1>13, <1>14, <1>18, Zenon
       DEF ControlStep
<1> QED  BY <1>19, <1>20

\* A step of a trader whose market trades on: no position is lost, no accepted stake
\* taken back, and a position has more only if the vault has counted more.
Trades(s, n) ==
    /\ Exists(s.market) /\ Exists(n.market)
    /\ n.market.trading_closed = s.market.trading_closed
    /\ n.market.resolved = s.market.resolved
    /\ n.validation = s.validation /\ n.vault.paid = s.vault.paid
    /\ s.vault.refunded <= n.vault.refunded /\ s.vault.accepted <= n.vault.accepted
    /\ IsClosed(s) => n.vault.accepted = s.vault.accepted
    /\ \A p \in Positions :
          /\ Exists(s.position[p]) => Exists(n.position[p])
          /\ Exists(n.position[p]) /\ ~ Exists(s.position[p]) => ~ IsClosed(s)
          /\ AcceptedIn(s)[p] <= AcceptedIn(n)[p]
          /\ AcceptedIn(s)[p] < AcceptedIn(n)[p] => s.vault.accepted < n.vault.accepted

\* A position that is claimed or closed: its market had closed.
Leaves(s, n, p) ==
    /\ IsClosed(s) /\ Exists(s.market) /\ Exists(n.market)
    /\ n.market.trading_closed = s.market.trading_closed
    /\ n.market.resolved = s.market.resolved
    /\ n.validation = s.validation /\ n.order = s.order
    /\ n.vault.accepted = s.vault.accepted /\ n.vault.refunded = s.vault.refunded
    /\ s.vault.paid <= n.vault.paid
    /\ n.vault.paid # s.vault.paid => AcceptedIn(s)[p] > 0
    /\ Exists(s.position[p]) /\ ~ Exists(n.position[p])
    /\ \A q \in Positions : q # p => n.position[q] = s.position[q]

\* An order that is placed takes nothing yet.
LEMMA PlacedTrades ==
    ASSUME V2Assumption, NEW s, NEW paidIn, BooksOf(s, paidIn), NEW o \in V2Orders,
           NEW args, TypedArgs(args), CanPlaceV2(s, o, args)
    PROVE  Trades(s, Placed(s, o, args)) /\ ~ IsClosed(s)
<1> DEFINE n == Placed(s, o, args)
           p == <<o.by, args.side>>
<1>1. /\ s \in V2Accounts /\ n \in V2Accounts /\ p \in Positions
      /\ n.market = s.market /\ n.vault = s.vault /\ n.validation = s.validation
      /\ Exists(n.position[p])
      /\ AcceptedIn(n)[p] = AcceptedIn(s)[p]
      /\ \A q \in Positions : q # p => n.position[q] = s.position[q]
  <2> HIDE DEF n
  <2> QED  BY PlacedFields DEF n
<1> HIDE DEF n, p
<1>2. Exists(s.market) /\ ~ IsClosed(s) /\ s.vault \in MarketVault
    BY <1>1, AccountsTyped DEF CanPlaceV2, IsClosed, BooksOf, MarketState
<1>3. \A q \in Positions : AcceptedIn(n)[q] = AcceptedIn(s)[q]
    BY <1>1 DEF AcceptedIn
<1>4. /\ s.vault.refunded \in Nat /\ s.vault.accepted \in Nat
      /\ \A q \in Positions : AcceptedIn(s)[q] \in Nat
    BY <1>1, <1>2, TotalsTyped DEF MarketVault
<1> QED  BY <1>1, <1>2, <1>3, <1>4 DEF Trades, n

\* A refund takes nothing, and an acceptance adds to the vault what it adds to the
\* position.
LEMMA EvaluatedTrades ==
    ASSUME V2Assumption, NEW s, NEW paidIn, BooksOf(s, paidIn), NEW o \in V2Orders,
           CanEvaluateV2(s, o), Refunds(s, o) \/ SharesOf(s, o) > 0
    PROVE  /\ Trades(s, Evaluated(s, o))
           /\ Evaluated(s, o).order = [s.order EXCEPT ![o] = NoAccount]
<1> DEFINE n == Evaluated(s, o)
           stake == s.order[o].stake
           p == PositionOf(s, o)
<1>1. /\ s \in V2Accounts /\ Exists(s.market)
      /\ s.vault \in MarketVault /\ stake \in Nat \ {0} /\ p \in Positions
      /\ Exists(s.position[p]) /\ s.position[p] \in PositionAccount
    BY WaitingOrder DEF CanEvaluateV2
<1>2. /\ s.vault.refunded \in Nat /\ s.vault.accepted \in Nat
      /\ \A q \in Positions : AcceptedIn(s)[q] \in Nat
    BY <1>1, TotalsTyped DEF MarketVault
<1>3. CASE Refunds(s, o)
  <2>1. n = Refunded(s, o)
      BY <1>3 DEF Evaluated
  <2>2. /\ Exists(n.market) /\ n.market = s.market /\ n.position = s.position
        /\ n.validation = s.validation
        /\ n.order = [s.order EXCEPT ![o] = NoAccount]
        /\ n.vault.refunded = s.vault.refunded + stake
        /\ n.vault.accepted = s.vault.accepted /\ n.vault.paid = s.vault.paid
    <3> DEFINE m == Refunded(s, o)
    <3>1. /\ Exists(m.market) /\ m.market = s.market /\ m.position = s.position
          /\ m.validation = s.validation
          /\ m.order = [s.order EXCEPT ![o] = NoAccount]
          /\ m.vault = [ deposited |-> s.vault.deposited + stake,
                         refunded |-> s.vault.refunded + stake,
                         accepted |-> s.vault.accepted, paid |-> s.vault.paid,
                         claimable |-> s.vault.claimable,
                         lamports |-> s.vault.lamports ]
        BY RefundedFields
    <3> HIDE DEF m, n, stake
    <3> QED  BY <2>1, <3>1 DEF m
  <2> HIDE DEF n, stake, p
  <2>3. AcceptedIn(n) = AcceptedIn(s)
      BY <2>2 DEF AcceptedIn
  <2> QED  BY <1>1, <1>2, <2>2, <2>3 DEF Trades, n
<1>4. CASE ~ Refunds(s, o)
  <2>1. n = Accepted(s, o) /\ SharesOf(s, o) > 0 /\ ~ IsClosed(s)
      BY <1>4 DEF Evaluated, Refunds, IsClosed
  <2>2. Takes(s, n, o)
    <3>1. Takes(s, Accepted(s, o), o)
        BY <1>4, <2>1, AcceptedFields
    <3> QED  BY <2>1, <3>1
  <2> HIDE DEF n
  <2>3. /\ Exists(n.market) /\ n.validation = s.validation
        /\ n.order = [s.order EXCEPT ![o] = NoAccount]
        /\ n.market.trading_closed = s.market.trading_closed
        /\ n.market.resolved = s.market.resolved
        /\ n.vault.accepted = s.vault.accepted + stake
        /\ n.vault.refunded = s.vault.refunded /\ n.vault.paid = s.vault.paid
        /\ Exists(n.position[p])
        /\ n.position[p].accepted = s.position[p].accepted + stake
        /\ \A q \in Positions : q # p => n.position[q] = s.position[q]
      BY <2>2 DEF Takes
  <2> HIDE DEF stake, p
  <2>4. /\ AcceptedIn(n)[p] = AcceptedIn(s)[p] + stake
        /\ \A q \in Positions : q # p => AcceptedIn(n)[q] = AcceptedIn(s)[q]
      BY <1>1, <2>3 DEF AcceptedIn
  <2> QED  BY <1>1, <1>2, <2>1, <2>3, <2>4 DEF Trades, n
<1> QED  BY <1>3, <1>4

\* Two such steps in one transaction are one.
LEMMA TradesTwice ==
    ASSUME V2Assumption, NEW s \in V2Accounts, NEW m \in V2Accounts, NEW n \in V2Accounts,
           s.vault \in MarketVault, m.vault \in MarketVault, n.vault \in MarketVault,
           Trades(s, m), Trades(m, n), ~ IsClosed(s)
    PROVE  Trades(s, n)
<1>1. /\ s.vault.refunded \in Nat /\ s.vault.accepted \in Nat
      /\ m.vault.refunded \in Nat /\ m.vault.accepted \in Nat
      /\ n.vault.refunded \in Nat /\ n.vault.accepted \in Nat
    BY DEF MarketVault
<1>2. \A p \in Positions :
         AcceptedIn(s)[p] \in Nat /\ AcceptedIn(m)[p] \in Nat /\ AcceptedIn(n)[p] \in Nat
    BY TotalsTyped
<1>3. s.vault.refunded <= n.vault.refunded /\ s.vault.accepted <= n.vault.accepted
    BY <1>1 DEF Trades
<1>4. ASSUME NEW p \in Positions
      PROVE  /\ Exists(s.position[p]) => Exists(n.position[p])
             /\ AcceptedIn(s)[p] <= AcceptedIn(n)[p]
             /\ AcceptedIn(s)[p] < AcceptedIn(n)[p] => s.vault.accepted < n.vault.accepted
    BY <1>1, <1>2 DEF Trades
<1> QED  BY <1>3, <1>4 DEF Trades

\* The vault is there with the market.
LEMMA VaultOfMarket ==
    ASSUME V2Assumption, NEW s, NEW paidIn, BooksOf(s, paidIn), Exists(s.market)
    PROVE  /\ s \in V2Accounts /\ s.market \in MarketV2 /\ s.vault \in MarketVault
           /\ paidIn \in [Traders -> Int]
BY AccountsTyped DEF BooksOf, MarketState

\* An order placed and decided in one transaction: its market trades, no order stays,
\* and the stake is refunded, or counted in the vault and in the position.
LEMMA DecidedAtOnce ==
    ASSUME V2Assumption, BooksOf(v2, outlay), NEW o \in V2Orders, NEW args, TypedArgs(args),
           PlacesAndEvaluates(o, args)
    PROVE  LET p == <<o.by, args.side>>
               refunded == Refunds(Placed(v2, o, args), o)
           IN  /\ Trades(v2, v2') /\ ~ IsClosed(v2)
               /\ p \in Positions /\ args.stake \in Nat \ {0}
               /\ Exists(v2'.position[p])
               /\ \A q \in Positions : q # p => v2'.position[q] = v2.position[q]
               /\ \A q \in V2Orders : v2'.order[q] = v2.order[q]
               /\ refunded =>
                     /\ outlay' = outlay
                     /\ v2'.vault.refunded = v2.vault.refunded + args.stake
                     /\ v2'.vault.accepted = v2.vault.accepted
                     /\ AcceptedIn(v2')[p] = AcceptedIn(v2)[p]
               /\ ~ refunded =>
                     /\ outlay' = [outlay EXCEPT ![o.by] = @ + args.stake]
                     /\ v2'.vault.refunded = v2.vault.refunded
                     /\ v2'.vault.accepted = v2.vault.accepted + args.stake
                     /\ AcceptedIn(v2')[p] = AcceptedIn(v2)[p] + args.stake
<1> DEFINE m == Placed(v2, o, args)
           n == v2'
           p == <<o.by, args.side>>
           paid == [outlay EXCEPT ![o.by] = @ + args.stake]
<1>1. /\ CanPlaceV2(v2, o, args) /\ n = Evaluated(m, o)
      /\ Refunds(m, o) \/ SharesOf(m, o) > 0
      /\ outlay' = IF Refunds(m, o) THEN outlay ELSE paid
    BY DEF PlacesAndEvaluates
<1>2. BooksOf(m, paid) /\ BooksOf(n, outlay')
    BY <1>1, PlacingKeeps, PlaceAndEvaluateKeeps
<1>3. CanEvaluateV2(m, o) /\ m.order[o].stake = args.stake
    BY <1>1, PlacedWaits
<1>4. /\ v2 \in V2Accounts /\ m \in V2Accounts /\ p \in Positions
      /\ m.market = v2.market /\ m.vault = v2.vault
      /\ PositionOf(m, o) = p
      /\ AcceptedIn(m)[p] = AcceptedIn(v2)[p] /\ Exists(m.position[p])
      /\ \A q \in Positions : q # p => m.position[q] = v2.position[q]
      /\ \A q \in V2Orders : q # o => m.order[q] = v2.order[q]
  <2> HIDE DEF m
  <2> QED  BY <1>1, PlacedFields DEF m
<1>5. Trades(v2, m) /\ ~ IsClosed(v2)
    BY <1>1, PlacedTrades
<1>6. v2.order[o] = NoAccount /\ Exists(v2.market) /\ args.stake \in Nat \ {0}
    BY <1>1 DEF CanPlaceV2, Exists, TypedArgs
<1> HIDE DEF m
<1>7. Trades(m, n) /\ n.order = [m.order EXCEPT ![o] = NoAccount]
    BY <1>1, <1>2, <1>3, EvaluatedTrades
<1> HIDE DEF n, p, paid
<1>8. Trades(v2, n)
  <2>1. Exists(m.market) /\ Exists(n.market)
      BY <1>7 DEF Trades
  <2>2. /\ m.vault \in MarketVault /\ n \in V2Accounts /\ n.vault \in MarketVault
        /\ v2.vault \in MarketVault
      BY <1>2, <1>6, <2>1, VaultOfMarket
  <2> QED  BY <1>4, <1>5, <1>7, <2>2, TradesTwice
<1>9. \A q \in V2Orders : n.order[q] = v2.order[q]
    BY <1>4, <1>6, <1>7 DEF V2Accounts
<1>10. CASE Refunds(m, o)
  <2>1. n = Refunded(m, o)
      BY <1>1, <1>10 DEF Evaluated
  <2>2. /\ n.position = m.position
        /\ n.vault.refunded = m.vault.refunded + args.stake
        /\ n.vault.accepted = m.vault.accepted
    <3> DEFINE r == Refunded(m, o)
               stake == m.order[o].stake
    <3>1. /\ r.position = m.position
          /\ r.vault = [ deposited |-> m.vault.deposited + stake,
                         refunded |-> m.vault.refunded + stake,
                         accepted |-> m.vault.accepted, paid |-> m.vault.paid,
                         claimable |-> m.vault.claimable,
                         lamports |-> m.vault.lamports ]
        BY <1>2, <1>3, RefundedFields
    <3> HIDE DEF r
    <3> QED  BY <1>3, <2>1, <3>1 DEF r
  <2>3. AcceptedIn(n)[p] = AcceptedIn(m)[p]
      BY <2>2 DEF AcceptedIn
  <2> QED  BY <1>1, <1>4, <1>5, <1>6, <1>8, <1>9, <1>10, <2>2, <2>3 DEF n, m, p
<1>11. CASE ~ Refunds(m, o)
  <2>1. n = Accepted(m, o) /\ SharesOf(m, o) > 0
      BY <1>1, <1>11 DEF Evaluated
  <2>2. Takes(m, n, o)
    <3>1. Takes(m, Accepted(m, o), o)
        BY <1>2, <1>3, <1>11, <2>1, AcceptedFields
    <3> QED  BY <2>1, <3>1
  <2>3. /\ n.vault.accepted = m.vault.accepted + args.stake
        /\ n.vault.refunded = m.vault.refunded
        /\ Exists(n.position[p])
        /\ n.position[p].accepted = m.position[p].accepted + args.stake
        /\ \A q \in Positions : q # p => n.position[q] = m.position[q]
      BY <1>3, <1>4, <2>2 DEF Takes
  <2>4. AcceptedIn(n)[p] = AcceptedIn(m)[p] + args.stake
      BY <1>4, <2>3 DEF AcceptedIn
  <2> QED  BY <1>1, <1>4, <1>5, <1>6, <1>8, <1>9, <1>11, <2>3, <2>4 DEF n, m, p, paid
<1> QED  BY <1>10, <1>11

\* What is claimed leaves the market, and its payout the vault.
LEMMA ClaimLeaves ==
    ASSUME V2Assumption, BooksOf(v2, outlay), NEW p \in Positions, ClaimPositionV2(p)
    PROVE  /\ Leaves(v2, v2', p) /\ PayoutV2(p) \in Nat
           /\ v2'.vault.paid = v2.vault.paid + PayoutV2(p)
           /\ outlay' = [outlay EXCEPT ![p[1]] = @ - PayoutV2(p)]
           /\ v2.market.resolved
<1> DEFINE n == v2'
           payout == PayoutV2(p)
<1>1. MayClaim(p) /\ outlay' = [outlay EXCEPT ![p[1]] = @ - payout]
    BY DEF ClaimPositionV2, CanClaim, MayClaim
<1>2. Exists(v2.market) /\ payout \in Nat /\ v2.vault.paid \in Nat
    BY <1>1, ClaimIsCovered DEF MarketVault
<1>3. /\ Exists(n.market)
      /\ n.market.resolved = v2.market.resolved
      /\ n.market.trading_closed = v2.market.trading_closed
      /\ n.vault.paid = v2.vault.paid + payout
      /\ n.vault.refunded = v2.vault.refunded
      /\ n.vault.accepted = v2.vault.accepted
      /\ n.validation = v2.validation /\ n.order = v2.order
      /\ ~ Exists(n.position[p])
      /\ \A q \in Positions : q # p => n.position[q] = v2.position[q]
    BY ClaimedFields
<1>4. Exists(v2.position[p]) /\ AcceptedIn(v2)[p] > 0 /\ v2.market.resolved
    BY <1>1 DEF MayClaim, AcceptedIn
<1> HIDE DEF n, payout
<1>5. Leaves(v2, n, p)
    BY <1>2, <1>3, <1>4 DEF Leaves, IsClosed
<1> QED  BY <1>1, <1>2, <1>3, <1>4, <1>5 DEF n, payout

\* What is closed leaves it with the vault as it is.
LEMMA CloseLeaves ==
    ASSUME V2Assumption, BooksOf(v2, outlay), NEW p \in Positions, ClosePositionV2(p)
    PROVE  /\ Leaves(v2, v2', p) /\ outlay' = outlay
           /\ v2'.market = v2.market /\ v2'.vault = v2.vault
<1> DEFINE n == v2'
<1>1. /\ v2 \in V2Accounts /\ Exists(v2.position[p])
      /\ n = [v2 EXCEPT !.position[p] = NoAccount] /\ outlay' = outlay
      /\ v2.market.trading_closed \/ v2.market.resolved
    BY DEF BooksOf, ClosePositionV2, CanClosePosition
<1>2. Exists(v2.market) /\ v2.vault.paid \in Nat
  <2>1. Exists(v2.market)
      BY <1>1 DEF BooksOf, NoMarket
  <2> QED  BY <2>1, VaultOfMarket DEF MarketVault
<1> HIDE DEF n
<1>3. /\ n.market = v2.market /\ n.vault = v2.vault /\ n.validation = v2.validation
      /\ n.order = v2.order /\ n.position = [v2.position EXCEPT ![p] = NoAccount]
    BY <1>1 DEF V2Accounts
<1>4. /\ ~ Exists(n.position[p])
      /\ \A q \in Positions : q # p => n.position[q] = v2.position[q]
    BY <1>1, <1>3 DEF V2Accounts, Exists
<1>5. Leaves(v2, n, p)
    BY <1>1, <1>2, <1>3, <1>4 DEF Leaves, IsClosed
<1> QED  BY <1>1, <1>3, <1>5 DEF n

\* A cancelled order was not counted.
LEMMA CancelTrades ==
    ASSUME V2Assumption, BooksOf(v2, outlay), NEW o \in V2Orders, CancelOrderV2(o)
    PROVE  Trades(v2, v2') /\ ~ Exists(v2'.order[o])
<1> DEFINE n == v2'
           p == PositionOf(v2, o)
<1>1. /\ v2 \in V2Accounts /\ Exists(v2.market) /\ p \in Positions
      /\ Exists(v2.position[p]) /\ v2.vault \in MarketVault
    BY WaitingOrder DEF CancelOrderV2, CanEvaluateV2
<1>2. /\ n.market = v2.market /\ n.vault = v2.vault /\ n.validation = v2.validation
      /\ n.order = [v2.order EXCEPT ![o] = NoAccount]
      /\ Exists(n.position[p])
      /\ n.position[p].accepted = v2.position[p].accepted
      /\ \A q \in Positions : q # p => n.position[q] = v2.position[q]
    BY CancelledFields
<1> HIDE DEF n, p
<1>3. \A q \in Positions : AcceptedIn(n)[q] = AcceptedIn(v2)[q]
    BY <1>1, <1>2 DEF AcceptedIn
<1>4. /\ v2.vault.refunded \in Nat /\ v2.vault.accepted \in Nat
      /\ \A q \in Positions : AcceptedIn(v2)[q] \in Nat
    BY <1>1, TotalsTyped DEF MarketVault
<1>5. ~ Exists(n.order[o])
    BY <1>1, <1>2 DEF V2Accounts, Exists
<1> QED  BY <1>1, <1>2, <1>3, <1>4, <1>5 DEF Trades, n

\* The stakes and the counters where they were.
Rests(s, n) ==
    /\ n.order = s.order /\ n.position = s.position
    /\ Exists(s.market) => n.vault = s.vault

\* Any step of the program is of one of three kinds, and its market only grows.
LEMMA StepGrows ==
    ASSUME V2Assumption, V2Inv, MarketStep
    PROVE  /\ MarketGrows(v2, v2')
           /\ \/ Trades(v2, v2')
              \/ \E p \in Positions : Leaves(v2, v2', p)
              \/ Rests(v2, v2') /\ outlay' = outlay
<1>1. BooksOf(v2, outlay)
    BY DEF V2Inv
<1>2. Trades(v2, v2') => MarketGrows(v2, v2')
    BY DEF Trades, MarketGrows, IsClosed
<1>3. \A p \in Positions : Leaves(v2, v2', p) => MarketGrows(v2, v2')
    BY DEF Leaves, MarketGrows, IsClosed
<1>4. ASSUME NEW o \in V2Orders, NEW args, TypedArgs(args), PlaceOrderV2(o, args)
      PROVE  Trades(v2, v2')
  <2>1. CanPlaceV2(v2, o, args) /\ v2' = Placed(v2, o, args)
      BY <1>4 DEF PlaceOrderV2
  <2> QED  BY <1>1, <1>4, <2>1, PlacedTrades
<1>5. ASSUME NEW o \in V2Orders, EvaluateOrderV2(o)
      PROVE  Trades(v2, v2')
    BY <1>1, <1>5, EvaluatedTrades DEF EvaluateOrderV2
<1>6. MoneyStep => Trades(v2, v2') \/ \E p \in Positions : Leaves(v2, v2', p)
  <2>1. ASSUME NEW o \in V2Orders, NEW args, TypedArgs(args), PlacesAndEvaluates(o, args)
        PROVE  Trades(v2, v2')
    <3>1. /\ Trades(v2, v2') /\ ~ IsClosed(v2)
        BY <1>1, <2>1, DecidedAtOnce
    <3> QED  BY <3>1
  <2>2. ASSUME NEW o \in V2Orders, CancelOrderV2(o)
        PROVE  Trades(v2, v2')
      BY <1>1, <2>2, CancelTrades
  <2>3. ASSUME NEW p \in Positions, ClaimPositionV2(p) \/ ClosePositionV2(p)
        PROVE  Leaves(v2, v2', p)
      BY <1>1, <2>3, ClaimLeaves, CloseLeaves
  <2> QED  BY <1>4, <1>5, <2>1, <2>2, <2>3, Zenon DEF MoneyStep
<1>7. CASE GovernanceStep \/ ControlStep
    BY <1>7, ControlGrows DEF Rests
<1>8. CASE MoneyStep
    BY <1>2, <1>3, <1>6, <1>8
<1>9. CASE ClockTicks \/ UNCHANGED v2Vars
    BY <1>9 DEF ClockTicks, v2Vars, MarketGrows, Rests
<1> QED  BY <1>7, <1>8, <1>9 DEF MarketStep

\* Only a market that has closed loses a position, only one that trades gets a new one,
\* and no accepted stake is taken back.
LEMMA PositionsGrow ==
    ASSUME V2Assumption, V2Inv, MarketStep, NEW p \in Positions
    PROVE  /\ IsClosed(v2) => IsClosed(v2')
           /\ Exists(v2.position[p]) /\ ~ Exists(v2'.position[p]) => IsClosed(v2)
           /\ ~ Exists(v2.position[p]) /\ Exists(v2'.position[p]) => ~ IsClosed(v2)
           /\ Exists(v2'.position[p]) => AcceptedIn(v2)[p] <= AcceptedIn(v2')[p]
           /\ AcceptedIn(v2)[p] \in Nat /\ AcceptedIn(v2')[p] \in Nat
<1>1. v2 \in V2Accounts /\ v2' \in V2Accounts
  <2>1. V2Inv'
      BY V2StepKeeps
  <2> QED  BY <2>1 DEF V2Inv, BooksOf
<1>2. AcceptedIn(v2)[p] \in Nat /\ AcceptedIn(v2')[p] \in Nat
    BY <1>1, TotalsTyped
<1>3. IsClosed(v2) => IsClosed(v2')
    BY StepGrows DEF MarketGrows
<1>4. CASE Trades(v2, v2')
    BY <1>2, <1>3, <1>4 DEF Trades
<1>5. ASSUME NEW q \in Positions, Leaves(v2, v2', q)
      PROVE  /\ IsClosed(v2) /\ p = q => ~ Exists(v2'.position[p])
             /\ p # q => v2'.position[p] = v2.position[p]
             /\ p = q => IsClosed(v2) /\ Exists(v2.position[p])
    BY <1>5 DEF Leaves
<1>6. CASE \E q \in Positions : Leaves(v2, v2', q)
  <2>1. PICK q \in Positions : Leaves(v2, v2', q)
      BY <1>6
  <2>2. CASE p = q
      BY <1>2, <1>3, <1>5, <2>1, <2>2
  <2>3. CASE p # q
    <3>1. v2'.position[p] = v2.position[p]
        BY <1>5, <2>1, <2>3
    <3>2. AcceptedIn(v2')[p] = AcceptedIn(v2)[p]
        BY <3>1 DEF AcceptedIn
    <3> QED  BY <1>2, <1>3, <3>1, <3>2
  <2> QED  BY <2>2, <2>3
<1>7. CASE Rests(v2, v2')
  <2>1. AcceptedIn(v2')[p] = AcceptedIn(v2)[p] /\ v2'.position = v2.position
      BY <1>7 DEF Rests, AcceptedIn
  <2> QED  BY <1>2, <1>3, <2>1
<1> QED  BY <1>4, <1>6, <1>7, StepGrows

(***************************************************************************)
(* The ticket.  What its transactions do to the program is what anyone may *)
(* do, and so the program's books stay in order under it.                  *)
(***************************************************************************)

\* What a click that was made asks for.
LEMMA ClickedIsTyped ==
    ASSUME TicketTypeOK, NEW k \in Clicks, submit[k].stage # "none"
    PROVE  submit[k] \in Submissions
<1>1. submit \in [Clicks -> Submissions \cup {NotClicked}]
    BY DEF TicketTypeOK
<1>2. NotClicked.stage = "none"
    BY DEF NotClicked
<1> QED  BY <1>1, <1>2

\* A transaction of the ticket places and evaluates an order of its trader, with the
\* arguments of its click.
LEMMA TicketIsMarketStep ==
    ASSUME V2Assumption, TicketAssumption, TicketTypeOK,
           TicketStep \/ V2Next \/ UNCHANGED v2Vars
    PROVE  MarketStep
<1>1. CASE V2Next
    BY <1>1, NextIsMarketStep
<1>2. ASSUME NEW k \in Clicks, TransactionLands(k)
      PROVE  MarketStep
  <2>1. CASE Executes(k)
    <3>1. submit[k] \in Submissions
      <4>1. submit[k].stage # "none"
          BY <1>2 DEF TransactionLands, TicketTypeOK
      <4> QED  BY <4>1, ClickedIsTyped
    <3>2. TypedArgs(submit[k].args)
        BY <3>1 DEF TypedArgs, Submissions
    <3>3. PlacesAndEvaluates(OrderOfClick(k), submit[k].args)
      <4>1. OrderOfClick(k).by = submit[k].trader
          BY DEF OrderOfClick, OrderOf2
      <4> QED  BY <1>2, <2>1, <4>1 DEF TransactionLands, Executes, PlacesAndEvaluates
    <3>4. OrderOfClick(k) \in V2Orders
        BY <3>1 DEF TicketAssumption, Submissions, OrderOfClick
    <3>5. MoneyStep
        BY <3>2, <3>3, <3>4, Zenon DEF MoneyStep
    <3> QED  BY <3>5 DEF MarketStep
  <2>2. CASE ~ Executes(k)
    <3>1. UNCHANGED v2Vars
        BY <1>2, <2>2 DEF TransactionLands, v2Vars
    <3> QED  BY <3>1 DEF MarketStep
  <2> QED  BY <2>1, <2>2
<1>3. CASE UNCHANGED v2Vars
    BY <1>3 DEF MarketStep
<1>4. CASE TicketStep
  <2>1. UNCHANGED v2Vars \/ \E k \in Clicks : TransactionLands(k)
      BY <1>4 DEF TicketStep, RefreshStep, ConnectWallet, RefreshAgain, ReadSnapshot,
                  ShowSnapshot, ReadPositions, ShowPositions, RefreshFails, Click,
                  SlotIsKnown, Simulated, Signed, SeenFinalized, ReadsPosition, Throws,
                  TransactionExpires
  <2> QED  BY <2>1, <1>2, <1>3
<1> QED  BY <1>1, <1>3, <1>4

\* Readings of the page keep their types: the wallet connected, the ones they are for, and
\* what they show are the traders', and positions are only read for a wallet.
LEMMA RefreshStepKeeps ==
    ASSUME V2Assumption, TicketAssumption, V2TypeOK, TicketTypeOK, RefreshStep
    PROVE  TicketTypeOK'
<1>1. /\ NoPositions \in [Sides -> Nat] /\ NotRead \in ShownMarkets \cup {NotRead}
      /\ \A w \in Connected :
            Begun(w) \in RefreshesBegun /\ Begun(w).stage = "snapshot"
    BY DEF NoPositions, Begun, RefreshesBegun
<1>2. NoRefresh.stage = "none"
    BY DEF NoRefresh
<1>3. ASSUME NEW r \in Readings, refresh[r] # NoRefresh
      PROVE  /\ refresh[r] \in RefreshesBegun /\ refresh[r].wallet \in Connected
             /\ refresh[r].market \in ShownMarkets \cup {NotRead}
             /\ refresh[r].accepted \in [Sides -> Nat]
    BY <1>3 DEF TicketTypeOK, RefreshesBegun
<1>4. ASSUME NEW r \in Readings, NEW new \in RefreshesBegun \cup {NoRefresh},
             refresh' = [refresh EXCEPT ![r] = new],
             new.stage \in {"positions", "positions read"} => new.wallet # Nobody,
             NEW p, page' = p,
             p \in [ wallet : Connected, market : ShownMarkets \cup {NotRead},
                     accepted : [Sides -> Nat], holder : Connected, state : States,
                     shown : Clicks \cup {0} ],
             UNCHANGED <<submit, tx, outcome>>
      PROVE  TicketTypeOK'
    BY <1>4 DEF TicketTypeOK
<1>5. ASSUME NEW w \in Connected, ConnectWallet(w)
      PROVE  TicketTypeOK'
  <2>1. PICK r \in Refreshes : refresh' = [refresh EXCEPT ![r] = Begun(w)]
      BY <1>5 DEF ConnectWallet
  <2> DEFINE new == Begun(w)
  <2>2. new \in RefreshesBegun /\ new.stage = "snapshot" /\ r \in Readings
      BY <1>1 DEF Readings
  <2>3. /\ page' = [page EXCEPT !.wallet = w] /\ UNCHANGED <<submit, tx, outcome>>
        /\ refresh' = [refresh EXCEPT ![r] = new]
      BY <1>5, <2>1 DEF ConnectWallet
  <2> HIDE DEF new
  <2> QED  BY <1>4, <2>2, <2>3 DEF TicketTypeOK
<1>6. ASSUME NEW r \in Refreshes, RefreshAgain(r)
      PROVE  TicketTypeOK'
  <2> DEFINE new == Begun(page.wallet)
  <2>1. new \in RefreshesBegun /\ new.stage = "snapshot" /\ r \in Readings
      BY <1>1 DEF Readings, TicketTypeOK
  <2>2. page' = page /\ UNCHANGED <<submit, tx, outcome>>
        /\ refresh' = [refresh EXCEPT ![r] = new]
      BY <1>6 DEF RefreshAgain
  <2> HIDE DEF new
  <2> QED  BY <1>4, <2>1, <2>2 DEF TicketTypeOK
<1>7. ASSUME NEW r \in Readings, ReadSnapshot(r)
      PROVE  TicketTypeOK'
  <2>1. ShownMarket \in ShownMarkets \cup {NotRead}
    <3>1. CASE Exists(v2.market)
      <4>1. v2.market \in MarketV2
          BY <3>1 DEF Exists, V2TypeOK, V2Accounts
      <4> QED  BY <3>1, <4>1 DEF ShownMarket, ShownMarkets, MarketV2
    <3> QED  BY <3>1 DEF ShownMarket
  <2>2. refresh[r] # NoRefresh
      BY <1>2, <1>7 DEF ReadSnapshot
  <2> DEFINE m == ShownMarket
             new == [refresh[r] EXCEPT !.stage = "snapshot read", !.market = m]
  <2>3. /\ refresh' = [refresh EXCEPT ![r] = new]
        /\ page' = page /\ UNCHANGED <<submit, tx, outcome>>
      BY <1>7 DEF ReadSnapshot, TicketTypeOK
  <2> HIDE DEF m
  <2>4. m \in ShownMarkets \cup {NotRead}
      BY <2>1 DEF m
  <2>5. new \in RefreshesBegun /\ new.stage = "snapshot read"
      BY <1>3, <2>2, <2>4 DEF RefreshesBegun
  <2> HIDE DEF new
  <2> QED  BY <1>4, <2>3, <2>5 DEF TicketTypeOK
<1>8. ASSUME NEW r \in Readings, ShowSnapshot(r)
      PROVE  TicketTypeOK'
  <2>1. refresh[r] # NoRefresh
      BY <1>2, <1>8 DEF ShowSnapshot
  <2>2. CASE refresh[r].wallet = Nobody
    <3> DEFINE p == [page EXCEPT !.market = refresh[r].market,
                                 !.accepted = NoPositions, !.holder = Nobody]
    <3>1. p \in [ wallet : Connected, market : ShownMarkets \cup {NotRead},
                  accepted : [Sides -> Nat], holder : Connected, state : States,
                  shown : Clicks \cup {0} ]
        BY <1>1, <1>3, <2>1 DEF TicketTypeOK, Connected
    <3>2. /\ page' = p /\ refresh' = [refresh EXCEPT ![r] = NoRefresh]
          /\ UNCHANGED <<submit, tx, outcome>>
        BY <1>8, <2>2 DEF ShowSnapshot
    <3> HIDE DEF p
    <3> QED  BY <1>2, <1>4, <3>1, <3>2
  <2>3. CASE refresh[r].wallet # Nobody
    <3> DEFINE p == [page EXCEPT !.market = refresh[r].market]
               new == [refresh[r] EXCEPT !.stage = "positions", !.market = NotRead]
    <3>1. p \in [ wallet : Connected, market : ShownMarkets \cup {NotRead},
                  accepted : [Sides -> Nat], holder : Connected, state : States,
                  shown : Clicks \cup {0} ]
        BY <1>3, <2>1 DEF TicketTypeOK
    <3>2. /\ page' = p /\ refresh' = [refresh EXCEPT ![r] = new]
          /\ UNCHANGED <<submit, tx, outcome>>
        BY <1>8, <2>3 DEF ShowSnapshot, TicketTypeOK
    <3>3. new \in RefreshesBegun /\ new.wallet # Nobody
        BY <1>3, <2>1, <2>3 DEF RefreshesBegun
    <3> HIDE DEF p, new
    <3> QED  BY <1>4, <3>1, <3>2, <3>3
  <2> QED  BY <2>2, <2>3
<1>9. ASSUME NEW r \in Readings, ReadPositions(r)
      PROVE  TicketTypeOK'
  <2>1. refresh[r] # NoRefresh
      BY <1>2, <1>9 DEF ReadPositions
  <2>2. refresh[r].wallet \in TicketWallets
      BY <1>3, <1>9, <2>1 DEF ReadPositions, TicketTypeOK, Connected
  <2>3. \A s \in Sides : AcceptedOf(refresh[r].wallet, s) \in Nat
    <3>1. ASSUME NEW s \in Sides PROVE <<refresh[r].wallet, s>> \in Positions
        BY <2>2 DEF Positions, TicketAssumption
    <3> QED  BY <3>1 DEF AcceptedOf, Exists, V2TypeOK, V2Accounts, PositionAccount
  <2> DEFINE a == [s \in Sides |-> AcceptedOf(refresh[r].wallet, s)]
             new == [refresh[r] EXCEPT !.stage = "positions read", !.accepted = a]
  <2>4. a \in [Sides -> Nat]
      BY <2>3
  <2>5. /\ refresh' = [refresh EXCEPT ![r] = new]
        /\ page' = page /\ UNCHANGED <<submit, tx, outcome>>
      BY <1>9 DEF ReadPositions, TicketTypeOK
  <2> HIDE DEF a
  <2>6. new \in RefreshesBegun /\ new.wallet # Nobody
      BY <1>3, <2>1, <2>2, <2>4 DEF RefreshesBegun, TicketAssumption
  <2> HIDE DEF new
  <2> QED  BY <1>4, <2>5, <2>6 DEF TicketTypeOK
<1>10. ASSUME NEW r \in Readings, ShowPositions(r)
       PROVE  TicketTypeOK'
  <2>1. refresh[r] # NoRefresh
      BY <1>2, <1>10 DEF ShowPositions
  <2> DEFINE p == [page EXCEPT !.accepted = refresh[r].accepted,
                               !.holder = refresh[r].wallet]
  <2>2. p \in [ wallet : Connected, market : ShownMarkets \cup {NotRead},
                accepted : [Sides -> Nat], holder : Connected, state : States,
                shown : Clicks \cup {0} ]
      BY <1>3, <2>1 DEF TicketTypeOK
  <2>3. /\ page' = p /\ refresh' = [refresh EXCEPT ![r] = NoRefresh]
        /\ UNCHANGED <<submit, tx, outcome>>
      BY <1>10 DEF ShowPositions
  <2> HIDE DEF p
  <2> QED  BY <1>2, <1>4, <2>2, <2>3
<1>11. ASSUME NEW r \in Readings, RefreshFails(r)
       PROVE  TicketTypeOK'
  <2> DEFINE state == IF r \in Clicks THEN "ERROR" ELSE page.state
             p == [page EXCEPT !.state = state]
  <2>1. state \in States
      BY DEF States, TicketTypeOK
  <2>2. page' = p
      BY <1>11 DEF RefreshFails, TicketTypeOK
  <2> HIDE DEF state
  <2>3. p \in [ wallet : Connected, market : ShownMarkets \cup {NotRead},
                accepted : [Sides -> Nat], holder : Connected, state : States,
                shown : Clicks \cup {0} ]
      BY <2>1 DEF TicketTypeOK
  <2>4. /\ refresh' = [refresh EXCEPT ![r] = NoRefresh]
        /\ UNCHANGED <<submit, tx, outcome>>
      BY <1>11 DEF RefreshFails
  <2> HIDE DEF p
  <2> QED  BY <1>2, <1>4, <2>2, <2>3, <2>4
<1> QED  BY <1>5, <1>6, <1>7, <1>8, <1>9, <1>10, <1>11 DEF RefreshStep, Connected

\* The page and its clicks keep their types: what a click asks for is made of what
\* the page has read of the market.
LEMMA TicketStepKeeps ==
    ASSUME V2Assumption, TicketAssumption, V2TypeOK, TicketTypeOK,
           TicketStep \/ UNCHANGED ticketVars
    PROVE  TicketTypeOK'
<1>0. clock \in Int /\ OrderLife \in Int /\ Stake \in Nat /\ Slippage \in Int
      /\ MICROS_ONE \in Nat
    BY DEF V2TypeOK, TicketAssumption, V2Assumption
<1>1. CASE UNCHANGED ticketVars
    BY <1>1 DEF TicketTypeOK, ticketVars
<1>2. CASE RefreshStep
    BY <1>2, RefreshStepKeeps
<1>6. ASSUME NEW k \in Clicks, NEW side \in Sides, Click(k, side)
      PROVE  TicketTypeOK'
  <2>1. /\ page.market \in ShownMarkets /\ page.accepted[side] \in Nat
        /\ page.wallet \in TicketWallets /\ page.holder \in Connected
      BY <1>6 DEF Click, ready, TicketTypeOK, Connected
  <2>2. SidePrice(side, page.market.displayed) \in Int
      BY <2>1, <1>0 DEF SidePrice, ShownMarkets
  <2> DEFINE call == [ stage |-> "slot", trader |-> page.wallet,
            previous |-> page.accepted[side], holder |-> page.holder,
            args |-> [ side |-> side, stake |-> Stake,
                       max_edge |-> page.market.tolerance,
                       price |-> SidePrice(side, page.market.displayed),
                       slippage |-> Slippage,
                       priced_seq |-> page.market.priced_seq,
                       odds_seq |-> page.market.odds_seq, expiry |-> 0 ] ]
  <2>3. call \in Submissions /\ call.stage # "none"
      BY <2>1, <2>2, <1>0 DEF Submissions, ShownMarkets
  <2>4. submit' = [submit EXCEPT ![k] = call] /\ UNCHANGED <<page, refresh, tx, outcome>>
      BY <1>6 DEF Click
  <2> HIDE DEF call
  <2> QED  BY <2>3, <2>4 DEF TicketTypeOK
<1>7. ASSUME NEW k \in Clicks, submit[k].stage # "none"
      PROVE  submit[k] \in Submissions
    BY <1>7, ClickedIsTyped
<1>8. ASSUME NEW k \in Clicks, submit[k].stage # "none",
             NEW stage \in {"slot", "simulating", "signing", "confirming", "reading", "done"},
             submit' = [submit EXCEPT ![k].stage = stage]
      PROVE  /\ submit' \in [Clicks -> Submissions \cup {NotClicked}]
             /\ \A j \in Clicks : submit[j].stage # "none" => submit'[j].stage # "none"
  <2> DEFINE call == [submit[k] EXCEPT !.stage = stage]
  <2>1. call \in Submissions /\ call.stage = stage
      BY <1>7, <1>8 DEF Submissions
  <2>2. submit \in [Clicks -> Submissions \cup {NotClicked}]
        /\ submit' = [submit EXCEPT ![k] = call]
      BY <1>8 DEF TicketTypeOK
  <2> HIDE DEF call
  <2> QED  BY <1>8, <2>1, <2>2
<1>9. ASSUME NEW k \in Clicks, SlotIsKnown(k)
      PROVE  TicketTypeOK'
  <2> DEFINE expiry == clock + OrderLife
             call == [submit[k] EXCEPT !.stage = "simulating", !.args.expiry = expiry]
  <2>1. submit[k] \in Submissions /\ expiry \in Int
      BY <1>7, <1>9, <1>0 DEF SlotIsKnown
  <2>2. submit' = [submit EXCEPT ![k] = call]
      BY <1>9 DEF SlotIsKnown, TicketTypeOK
  <2> HIDE DEF expiry
  <2>3. call \in Submissions
      BY <2>1 DEF Submissions
  <2>4. call.stage # "none"
      BY <2>3 DEF Submissions
  <2>5. /\ page' = [page EXCEPT !.state = "SIMULATING"] /\ "SIMULATING" \in States
        /\ refresh' = refresh /\ tx' = tx /\ outcome' = outcome
      BY <1>9 DEF SlotIsKnown, Show, States
  <2> HIDE DEF call
  <2> QED  BY <2>2, <2>3, <2>4, <2>5 DEF TicketTypeOK
<1>10. ASSUME NEW k \in Clicks, Simulated(k) \/ Signed(k) \/ SeenFinalized(k) \/ Throws(k)
       PROVE  TicketTypeOK'
  <2>1. /\ submit' \in [Clicks -> Submissions \cup {NotClicked}]
        /\ \A j \in Clicks : submit[j].stage # "none" => submit'[j].stage # "none"
      BY <1>10, <1>8 DEF Simulated, Signed, SeenFinalized, Throws, Goes
  <2>2. submit[k].stage # "none"
      BY <1>10 DEF Simulated, Signed, SeenFinalized, Throws, Goes
  <2> QED  BY <1>10, <2>1, <2>2
           DEF Simulated, Signed, SeenFinalized, Throws, Show, States, TicketTypeOK
<1>11. ASSUME NEW k \in Clicks, ReadsPosition(k)
       PROVE  TicketTypeOK'
  <2>1. /\ submit' \in [Clicks -> Submissions \cup {NotClicked}]
        /\ \A j \in Clicks : submit[j].stage # "none" => submit'[j].stage # "none"
      BY <1>11, <1>8 DEF ReadsPosition, Goes
  <2> DEFINE state == IF ReadBack(k) > submit[k].previous THEN "POSITION_OPENED"
                      ELSE "REFUNDED"
             p == [page EXCEPT !.state = state, !.shown = k]
             new == Begun(submit[k].trader)
  <2>2. state \in States
      BY DEF States
  <2>3. /\ page' = p /\ refresh' = [refresh EXCEPT ![k] = new] /\ k \in Readings
        /\ tx' = tx /\ outcome' = outcome
      BY <1>11 DEF ReadsPosition, ShowResult, Readings
  <2>4. submit[k].trader \in Connected
      BY <1>7, <1>11 DEF ReadsPosition, Goes, Submissions, Connected
  <2>5. new \in RefreshesBegun /\ new.stage = "snapshot"
      BY <2>4 DEF Begun, NoPositions, RefreshesBegun
  <2> HIDE DEF state, new
  <2>6. p \in [ wallet : Connected, market : ShownMarkets \cup {NotRead},
                accepted : [Sides -> Nat], holder : Connected, state : States,
                shown : Clicks \cup {0} ]
      BY <2>2 DEF TicketTypeOK
  <2> HIDE DEF p
  <2> QED  BY <2>1, <2>3, <2>5, <2>6 DEF TicketTypeOK
<1>12. ASSUME NEW k \in Clicks, TransactionLands(k) \/ TransactionExpires(k)
       PROVE  TicketTypeOK'
    BY <1>12 DEF TransactionLands, TransactionExpires, TicketTypeOK
<1> QED  BY <1>1, <1>2, <1>6, <1>9, <1>10, <1>11, <1>12 DEF TicketStep

\* The page starts with nothing clicked.
LEMMA TicketStarts == ASSUME TicketInit PROVE TicketTypeOK
<1>1. NoRefresh.stage = "none" /\ NotClicked.stage = "none"
    BY DEF NoRefresh, NotClicked
<1> QED  BY <1>1 DEF TicketInit, TicketTypeOK, States, NoPositions, Connected

(***************************************************************************)
(* The mirror, which is given numbers where the program has checked them.  *)
(***************************************************************************)

\* evaluatePlacement names no rejection exactly when every check of it is passed.
LEMMA NoRejection ==
    ASSUME NEW market, NEW args
    PROVE  EvaluatePlacement(market, args) <=>
              /\ ~ (args.stake <= 0)
              /\ ~ (args.price \notin 1 .. MICROS_ONE - 1 \/ args.slippage > MICROS_ONE)
              /\ ~ market.trading_closed /\ ~ market.resolved
              /\ ~ (clock >= market.close_time) /\ ~ (clock > args.expiry)
              /\ market.priced_at_seq = args.priced_seq
              /\ market.odds_sequence = args.odds_seq
              /\ ~ (Distance(SidePriceMicros(market.displayed, args.side), args.price)
                        > args.slippage)
<1> DEFINE observed == SidePriceMicros(market.displayed, args.side)
           rejects == [
          INVALID_STAKE |-> args.stake <= 0,
          INVALID_PRICE |-> args.price \notin 1 .. MICROS_ONE - 1
                              \/ args.slippage > MICROS_ONE,
          TRADING_CLOSED |-> market.trading_closed,
          MARKET_RESOLVED |-> market.resolved,
          PAST_CLOSE_TIME |-> clock >= market.close_time,
          ORDER_EXPIRED |-> clock > args.expiry,
          PRICING_SEQUENCE_MISMATCH |-> market.priced_at_seq # args.priced_seq,
          ODDS_SEQUENCE_MISMATCH |-> market.odds_sequence # args.odds_seq,
          SLIPPAGE_EXCEEDED |-> Distance(observed, args.price) > args.slippage ]
<1>1. EvaluatePlacement(market, args) <=> \A r \in DOMAIN rejects : ~ rejects[r]
    BY DEF EvaluatePlacement, PlacementRejections
<1>2. DOMAIN rejects =
          { "INVALID_STAKE", "INVALID_PRICE", "TRADING_CLOSED", "MARKET_RESOLVED",
            "PAST_CLOSE_TIME", "ORDER_EXPIRED", "PRICING_SEQUENCE_MISMATCH",
            "ODDS_SEQUENCE_MISMATCH", "SLIPPAGE_EXCEEDED" }
    OBVIOUS
<1>3. /\ rejects.INVALID_STAKE = (args.stake <= 0)
      /\ rejects.INVALID_PRICE =
            (args.price \notin 1 .. MICROS_ONE - 1 \/ args.slippage > MICROS_ONE)
      /\ rejects.TRADING_CLOSED = market.trading_closed
      /\ rejects.MARKET_RESOLVED = market.resolved
      /\ rejects.PAST_CLOSE_TIME = (clock >= market.close_time)
      /\ rejects.ORDER_EXPIRED = (clock > args.expiry)
      /\ rejects.PRICING_SEQUENCE_MISMATCH = (market.priced_at_seq # args.priced_seq)
      /\ rejects.ODDS_SEQUENCE_MISMATCH = (market.odds_sequence # args.odds_seq)
      /\ rejects.SLIPPAGE_EXCEEDED = (Distance(observed, args.price) > args.slippage)
    OBVIOUS
<1> HIDE DEF rejects
<1>4. (\A r \in DOMAIN rejects : ~ rejects[r]) <=>
          /\ ~ rejects.INVALID_STAKE /\ ~ rejects.INVALID_PRICE
          /\ ~ rejects.TRADING_CLOSED /\ ~ rejects.MARKET_RESOLVED
          /\ ~ rejects.PAST_CLOSE_TIME /\ ~ rejects.ORDER_EXPIRED
          /\ ~ rejects.PRICING_SEQUENCE_MISMATCH /\ ~ rejects.ODDS_SEQUENCE_MISMATCH
          /\ ~ rejects.SLIPPAGE_EXCEEDED
    BY <1>2, Zenon
<1> QED  BY <1>1, <1>3, <1>4, Zenon

\* With accounts and arguments of their types, the mirror's checks are the program's
\* but for the one on the order's limit, and so is its verdict.
LEMMA MirrorAgrees == ASSUME V2Assumption, V2TypeOK PROVE MirrorIsFaithful
<1>1. SUFFICES ASSUME Exists(v2.market) PROVE MirrorIsFaithful
    BY DEF MirrorIsFaithful
<1>2. v2.market \in MarketV2 /\ clock \in Int /\ MICROS_ONE \in Nat
    BY <1>1 DEF V2TypeOK, V2Accounts, Exists, V2Assumption
<1>3. ASSUME NEW args \in OrderArgs, args.max_edge <= MICROS_ONE,
             NEW o \in V2Orders, ~ Exists(v2.order[o])
      PROVE  CanPlaceV2(v2, o, args) <=> EvaluatePlacement(v2.market, args)
  <2>1. TypedArgs(args)
      BY DEF V2Assumption
  <2>2. SidePriceMicros(v2.market.displayed, args.side)
            = SidePrice(args.side, v2.market.displayed)
      BY DEF SidePriceMicros, SidePrice
  <2> DEFINE d == Distance(SidePrice(args.side, v2.market.displayed), args.price)
  <2>3. d \in Int
      BY <1>2, <2>1 DEF Distance, SidePrice, TypedArgs, MarketV2
  <2> HIDE DEF d
  <2>4. CanPlaceV2(v2, o, args) <=>
            /\ args.stake > 0 /\ args.slippage <= MICROS_ONE
            /\ args.price \in 1 .. MICROS_ONE - 1
            /\ ~ v2.market.trading_closed /\ ~ v2.market.resolved
            /\ clock < v2.market.close_time /\ clock <= args.expiry
            /\ v2.market.priced_at_seq = args.priced_seq
            /\ v2.market.odds_sequence = args.odds_seq
            /\ d <= args.slippage
      BY <1>1, <1>3 DEF CanPlaceV2, d
  <2>5. EvaluatePlacement(v2.market, args) <=>
            /\ ~ (args.stake <= 0)
            /\ ~ (args.price \notin 1 .. MICROS_ONE - 1 \/ args.slippage > MICROS_ONE)
            /\ ~ v2.market.trading_closed /\ ~ v2.market.resolved
            /\ ~ (clock >= v2.market.close_time) /\ ~ (clock > args.expiry)
            /\ v2.market.priced_at_seq = args.priced_seq
            /\ v2.market.odds_sequence = args.odds_seq
            /\ ~ (d > args.slippage)
      BY <2>2, NoRejection DEF d
  <2>6. /\ args.stake \in Nat /\ args.slippage \in Int /\ args.expiry \in Int
        /\ v2.market.close_time \in Int
      BY <1>2, <2>1 DEF TypedArgs, MarketV2
  <2> QED  BY <1>2, <2>3, <2>4, <2>5, <2>6
<1>4. ASSUME NEW o \in V2Orders, Exists(v2.order[o])
      PROVE  GuardRefunds(v2.market, v2.order[o]) <=> Refunds(v2, o)
    BY DEF GuardRefunds, Refunds, SidePrice
<1> QED  BY <1>3, <1>4 DEF MirrorIsFaithful

\* Whatever happened to the market, the mirror takes the orders that place_order_v2
\* takes and refunds those that evaluate_order_v2 refunds.
THEOREM MirrorCorrect == ASSUME V2Assumption PROVE V2Spec => []MirrorIsFaithful
<1>1. V2Inv => MirrorIsFaithful
    BY BooksAreTyped, MirrorAgrees
<1> QED  BY <1>1, BooksStayInOrder, PTL

(***************************************************************************)
(* The operator's scripts, whose transactions are of the program's         *)
(* instructions as well.                                                   *)
(***************************************************************************)

\* The runs begin with nothing sent.
LEMMA RecorderStarts == ASSUME RecorderInit PROVE RecorderTypeOK
    BY DEF RecorderInit, RecorderTypeOK

\* The steps of the plans that leave the traders' accounts alone, and the wallets' orders.
ControlSteps ==
    { "initializeCanonical", "fundWallets", "initialize", "materialEventAndOdds", "reprice",
      "close", "txlineCpiProof", "secondApproval", "resolution" }

OrderStep(w) ==
    CASE w = WalletA -> "walletAHonestYes"
      [] w = WalletB -> "walletBHonestNo"
      [] w = WalletC -> "walletCStaleExploitRefund"

\* A transaction of a script is one of the authorities', or an order, a claim or a
\* closing of one of its wallets.
LEMMA PerformsOf ==
    ASSUME V2Assumption, RecorderAssumption, NEW r, run[r] \in StartedRuns,
           NEW step, NEW set \in OperatorRoles, Performs(r, step, set)
    PROVE  \/ /\ step \in ControlSteps
              /\ GovernanceStep \/ ControlStep \/ UNCHANGED v2Vars
              /\ step = "secondApproval" => \E k : ApproveResolutionV2(k)
           \/ \E w \in Wallets :
                 /\ step = OrderStep(w) /\ TypedArgs(OrderArgsOf(r, w))
                 /\ PlacesAndEvaluates(OrderOfWallet(w), OrderArgsOf(r, w))
           \/ step = "walletAClaim" /\ ClaimPositionV2(PositionOfWallet(WalletA))
           \/ step = "walletBCloseLoss" /\ ClosePositionV2(PositionOfWallet(WalletB))
           \/ /\ step = "walletCCloseRefunded"
              /\ v2.position[PositionOfWallet(WalletC)].accepted = 0
              /\ ClosePositionV2(PositionOfWallet(WalletC))
<1>0. /\ {OldPrice, RecordTolerance, PreviousSeq, PreviousOdds, CloseTime, OrderExpiry,
          FinalScore.ts} \subseteq Int
      /\ NewPrice \in 1 .. MICROS_ONE - 1 /\ NewPrice \in Int /\ MICROS_ONE \in Nat
      /\ STAKE \in Nat /\ set \in AuthoritySets
    BY DEF RecorderAssumption, V2Assumption
<1> DEFINE Controls ==
        /\ step \in ControlSteps
        /\ GovernanceStep \/ ControlStep \/ UNCHANGED v2Vars
        /\ step = "secondApproval" => \E k : ApproveResolutionV2(k)
<1>1. CASE step = "initializeCanonical" /\ InitializesCanonical(set)
  <2>1. TypedTerms(CanonicalTerms)
      BY <1>0 DEF TypedTerms, CanonicalTerms, RecordTerms
  <2>2. OpensAtOnce(set, CanonicalTerms)
      BY <1>1, <2>1 DEF InitializesCanonical, OpensAtOnce
  <2>3. GovernanceStep
      BY <1>0, <2>2, Zenon DEF GovernanceStep
  <2> QED  BY <1>1, <2>3 DEF ControlSteps
<1>2. CASE step = "initialize" /\ InitializeMarketV2(Admin, RecordTerms)
  <2>1. TypedTerms(RecordTerms)
      BY <1>0 DEF TypedTerms, RecordTerms
  <2>2. ControlStep
      BY <1>2, <2>1, Zenon DEF ControlStep
  <2> QED  BY <1>2, <2>2 DEF ControlSteps
<1>3. ASSUME NEW w \in Wallets
      PROVE  TypedArgs(OrderArgsOf(r, w))
  <2>1. SidePrice(SideOf(w), OldPrice) \in Int /\ SideOf(w) \in Sides
      BY <1>0 DEF SidePrice, SideOf, Sides
  <2>2. run[r].priced_seq \in Int /\ run[r].odds_seq \in Int
      BY DEF StartedRuns
  <2> QED  BY <1>0, <2>1, <2>2 DEF TypedArgs, OrderArgsOf
<1>4. CASE step = "materialEventAndOdds" /\ IngestsAndCommits(set)
  <2> DEFINE seq == PreviousSeq + 1
             odds == PreviousOdds + 1
  <2>1. PricesMove(seq, odds, NewPrice)
      BY <1>0, <1>4 DEF IngestsAndCommits, PricesMove
  <2> HIDE DEF seq, odds
  <2>2. ControlStep
      BY <2>1, Zenon DEF ControlStep
  <2> QED  BY <1>4, <2>2 DEF ControlSteps
<1>5. CASE \/ step = "reprice" /\ RepriceMarketV2(set.pricing)
           \/ step = "close" /\ CloseMarketV2(set.feed)
           \/ /\ step = "txlineCpiProof"
              /\ ProveResolutionWithTxlineV2(CHOOSE k \in set.resolution : TRUE, FinalScore)
           \/ step = "secondApproval" /\ \E k \in set.resolution : ApproveResolutionV2(k)
           \/ step = "resolution" /\ ExecuteResolutionV2
  <2>1. ControlStep
      BY <1>5, Zenon DEF ControlStep
  <2>2. step \in ControlSteps /\ (step = "secondApproval" => \E k : ApproveResolutionV2(k))
      BY <1>5 DEF ControlSteps
  <2> QED  BY <2>1, <2>2
<1>6. CASE step = "fundWallets" /\ UNCHANGED v2Vars
    BY <1>6 DEF ControlSteps
<1> HIDE DEF Controls
<1>7. \/ Controls
      \/ \E w \in Wallets :
            step = OrderStep(w) /\ PlacesAndEvaluates(OrderOfWallet(w), OrderArgsOf(r, w))
      \/ step = "walletAClaim" /\ ClaimPositionV2(PositionOfWallet(WalletA))
      \/ step = "walletBCloseLoss" /\ ClosePositionV2(PositionOfWallet(WalletB))
      \/ /\ step = "walletCCloseRefunded"
         /\ v2.position[PositionOfWallet(WalletC)].accepted = 0
         /\ ClosePositionV2(PositionOfWallet(WalletC))
    BY <1>1, <1>2, <1>4, <1>5, <1>6, Zenon DEF Performs, Controls, OrderStep
<1> QED  BY <1>3, <1>7, Zenon DEF Controls

\* Each is a transaction that anyone with those keys may send.
LEMMA PerformsIsMarketStep ==
    ASSUME V2Assumption, RecorderAssumption, NEW r, run[r] \in StartedRuns,
           NEW step, NEW set \in OperatorRoles, Performs(r, step, set)
    PROVE  MarketStep
<1>1. ASSUME NEW w \in Wallets, TypedArgs(OrderArgsOf(r, w)),
             PlacesAndEvaluates(OrderOfWallet(w), OrderArgsOf(r, w))
      PROVE  MarketStep
  <2>1. OrderOfWallet(w) \in V2Orders
      BY DEF RecorderAssumption
  <2>2. MoneyStep
      BY <1>1, <2>1, Zenon DEF MoneyStep
  <2> QED  BY <2>2 DEF MarketStep
<1>2. ASSUME NEW w \in Wallets,
             \/ ClaimPositionV2(PositionOfWallet(w)) \/ ClosePositionV2(PositionOfWallet(w))
      PROVE  MarketStep
  <2>1. PositionOfWallet(w) \in Positions
      BY DEF PositionOfWallet, Positions, SideOf, Sides, RecorderAssumption
  <2>2. MoneyStep
      BY <1>2, <2>1, Zenon DEF MoneyStep
  <2> QED  BY <2>2 DEF MarketStep
<1>3. WalletA \in Wallets /\ WalletB \in Wallets /\ WalletC \in Wallets
    BY DEF Wallets
<1>4. GovernanceStep \/ ControlStep \/ UNCHANGED v2Vars => MarketStep
    BY DEF MarketStep
<1> QED  BY <1>1, <1>2, <1>3, <1>4, PerformsOf, Zenon

\* Whatever a script does, of the program it takes a step of the market or none.
LEMMA RecorderIsMarketStep ==
    ASSUME V2Assumption, RecorderAssumption, RecorderTypeOK,
           RecorderStep
    PROVE  MarketStep
<1>1. ASSUME NEW r \in Runs, Lands(r)
      PROVE  MarketStep
  <2>1. run[r] \in StartedRuns
      BY <1>1 DEF Lands, RecorderTypeOK, NoRun
  <2> QED  BY <1>1, <2>1, PerformsIsMarketStep DEF Lands
<1>2. UNCHANGED v2Vars \/ \E r \in Runs : Lands(r)
    BY DEF RecorderStep, Start, Send, GivesUp, Finalized, Writes
<1> QED  BY <1>1, <1>2 DEF MarketStep

\* A run stays at a step of its plan, with the sequences that it has read.
LEMMA RecorderStepKeeps ==
    ASSUME V2Assumption, V2TypeOK, RecorderTypeOK,
           RecorderStep \/ UNCHANGED scriptVars
    PROVE  RecorderTypeOK'
<1>1. CASE UNCHANGED scriptVars
    BY <1>1 DEF RecorderTypeOK, scriptVars
<1>2. ASSUME NEW r \in Runs, Start(r)
      PROVE  RecorderTypeOK'
    BY <1>2 DEF Start, RecorderTypeOK, StartedRuns
<1>3. ASSUME NEW r \in Runs, run[r].status = "running" PROVE run[r] \in StartedRuns
    BY <1>3 DEF RecorderTypeOK, NoRun
<1>4. ASSUME NEW r \in Runs, Send(r)
      PROVE  RecorderTypeOK'
  <2> DEFINE priced == IF Exists(v2.market) THEN v2.market.priced_at_seq ELSE 0
             odds == IF Exists(v2.market) THEN v2.market.odds_sequence ELSE 0
  <2>1. priced \in Int /\ odds \in Int
      BY DEF V2TypeOK, V2Accounts, MarketV2, Exists
  <2>2. /\ run' = [run EXCEPT ![r] = [run[r] EXCEPT !.tx = "pending",
                                         !.priced_seq = priced, !.odds_seq = odds]]
        /\ script' = script /\ run[r] \in StartedRuns
      BY <1>3, <1>4 DEF Send, RecorderTypeOK
  <2> HIDE DEF priced, odds
  <2>3. [run[r] EXCEPT !.tx = "pending", !.priced_seq = priced, !.odds_seq = odds]
            \in StartedRuns
      BY <2>1, <2>2 DEF StartedRuns
  <2> QED  BY <2>2, <2>3 DEF RecorderTypeOK
<1>5. ASSUME NEW r \in Runs, Lands(r) \/ GivesUp(r) \/ Finalized(r) \/ Writes(r)
      PROVE  RecorderTypeOK'
  <2>1. run[r] \in StartedRuns
      BY <1>3, <1>5 DEF Lands, GivesUp, Finalized, Writes
  <2>2. PICK x \in StartedRuns : run' = [run EXCEPT ![r] = x]
    <3>1. /\ [run[r] EXCEPT !.tx = "landed"] \in StartedRuns
          /\ [run[r] EXCEPT !.status = "stopped"] \in StartedRuns
          /\ [run[r] EXCEPT !.tx = "none", !.at = run[r].at + 1] \in StartedRuns
          /\ [run[r] EXCEPT !.status = "done"] \in StartedRuns
      <4> DEFINE call == run[r]
                 next == call.at + 1
      <4>1. call \in StartedRuns
          BY <2>1
      <4> HIDE DEF call
      <4>2. next \in Nat \ {0}
          BY <4>1 DEF StartedRuns
      <4> HIDE DEF next
      <4>3. /\ [call EXCEPT !.tx = "landed"] \in StartedRuns
            /\ [call EXCEPT !.status = "stopped"] \in StartedRuns
            /\ [call EXCEPT !.tx = "none", !.at = next] \in StartedRuns
            /\ [call EXCEPT !.status = "done"] \in StartedRuns
          BY <4>1, <4>2 DEF StartedRuns
      <4> QED  BY <4>3 DEF call, next
    <3>2. \/ run' = [run EXCEPT ![r] = [run[r] EXCEPT !.tx = "landed"]]
          \/ run' = [run EXCEPT ![r] = [run[r] EXCEPT !.status = "stopped"]]
          \/ run' = [run EXCEPT ![r] = [run[r] EXCEPT !.tx = "none",
                                                       !.at = run[r].at + 1]]
          \/ run' = [run EXCEPT ![r] = [run[r] EXCEPT !.status = "done"]]
      <4>1. CASE Lands(r)
          BY <4>1, Zenon DEF Lands
      <4>2. CASE GivesUp(r)
          BY <4>2, Zenon DEF GivesUp
      <4>3. CASE Finalized(r)
          BY <4>3, Zenon DEF Finalized
      <4>4. CASE Writes(r)
          BY <4>4, Zenon DEF Writes
      <4> QED  BY <1>5, <4>1, <4>2, <4>3, <4>4
    <3> QED  BY <3>1, <3>2, Zenon
  <2> QED  BY <1>5, <2>2 DEF Lands, GivesUp, Finalized, Writes, RecorderTypeOK
<1> QED  BY <1>1, <1>2, <1>4, <1>5 DEF RecorderStep
=============================================================================
