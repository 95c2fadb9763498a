----------------------- MODULE LineGuardLegacyProofs -----------------------
(***************************************************************************)
(* Proofs about the first generation of the LineGuard program.             *)
(*                                                                         *)
(* All markets share one vault, and each keeps totals of its own.  The     *)
(* books relate the totals of a market to its orders that are filled and   *)
(* not settled, and the vault to the totals of all markets; an instruction *)
(* changes one order and one market at most, and so each sum by one term.  *)
(***************************************************************************)
EXTENDS LineGuardLegacy, SumTheorems, TLAPS

\* What users, requests and passers-by can do to the program.
LegacyStep ==
    \/ \E tx : TypedTransaction(tx) /\ Execute(tx)
    \/ Tick
    \/ UNCHANGED legacyVars

(***************************************************************************)
(* Sums over the orders, the markets and the users.                        *)
(***************************************************************************)
OpenStake(x) == IF Exists(x) /\ x.status = "Filled" THEN x.stake ELSE 0

OpenIn(ord, m, side) ==
    [o \in Orders |-> IF o.market = m /\ Exists(ord[o]) /\ ord[o].side = side
                      THEN OpenStake(ord[o]) ELSE 0]

\* The stakes of a market's filled orders that are not settled, side by side.
OpenStakes(ord, m) == [side \in Sides |-> SumOver(OpenIn(ord, m, side), Orders)]

EscrowIn(ord) == [o \in Orders |-> IF Exists(ord[o]) THEN ord[o].lamports ELSE 0]

HeldBy(a) == IF Exists(a) THEN a.total_in - (a.total_paid + a.total_refunded) ELSE 0
HeldIn(mk) == [m \in Markets |-> HeldBy(mk[m])]
MoneyOf(v) == IF Exists(v) THEN v.lamports ELSE 0

TotalEscrow(ord) == SumOver(EscrowIn(ord), Orders)
TotalHeld(mk) == SumOver(HeldIn(mk), Markets)
TotalSpent(paidIn) == SumOver(paidIn, Users)

(***************************************************************************)
(* The books.                                                              *)
(***************************************************************************)

\* What a market's totals say when the open stakes on its sides are those.  Of a
\* market that was won, what was paid does not get ahead of the shares it was paid
\* for: each payout is rounded down.
Balanced(a, open) ==
    /\ a.total_in = a.pool["Yes"] + a.pool["No"]
    /\ \A side \in Sides : open[side] <= a.pool[side]
    /\ a.resolution = "None" =>
          /\ a.total_paid = 0 /\ a.total_refunded = 0
          /\ \A side \in Sides : open[side] = a.pool[side]
    /\ a.resolution = "Void" =>
          a.total_paid = 0 /\ a.total_refunded = a.total_in - (open["Yes"] + open["No"])
    /\ a.resolution \in Sides =>
          /\ a.total_refunded = 0 /\ a.pool[a.resolution] > 0
          /\ a.total_paid * a.pool[a.resolution]
                <= (a.pool[a.resolution] - open[a.resolution]) * a.total_in

\* An order's market is there, its account holds the stake until it is evaluated, and
\* what was filled is in a vault.
OrderSound(x, a, v) ==
    /\ Exists(a)
    /\ x.lamports = IF x.status = "Escrowed" THEN x.stake ELSE 0
    /\ x.status = "Filled" => Exists(v)

\* A side won by a score that was confirmed.
ResultSound(a, r) ==
    a.resolution \in Sides =>
        Exists(r) /\ r.confirmed /\ Derive(r.home, r.away) = a.resolution

LegacyInv ==
    /\ LegacyTypeOK
    /\ \A o \in Orders :
          Exists(order[o]) => OrderSound(order[o], market[o.market], vault)
    /\ \A m \in Markets : Exists(market[m]) =>
          /\ Balanced(market[m], OpenStakes(order, m))
          /\ ResultSound(market[m], receipt[m])
    /\ MoneyOf(vault) = TotalHeld(market)
    /\ TotalSpent(spent) = MoneyOf(vault) + TotalEscrow(order)

-----------------------------------------------------------------------------
\* The terms of the sums are numbers, and so are the sums.
LEMMA SumsTyped ==
    ASSUME LegacyAssumption,
           NEW ord \in [Orders -> OrderAccount \cup {NoAccount}]
    PROVE  /\ \A o \in Orders : EscrowIn(ord)[o] \in Nat
           /\ TotalEscrow(ord) \in Nat
           /\ \A o \in Orders : OpenStake(ord[o]) \in Nat
           /\ \A m \in Markets, side \in Sides :
                 /\ \A o \in Orders : OpenIn(ord, m, side)[o] \in Nat
                 /\ \A o \in Orders : OpenIn(ord, m, side)[o] <= OpenStakes(ord, m)[side]
                 /\ OpenStakes(ord, m)[side] \in Nat
<1>1. \A o \in Orders : Exists(ord[o]) => ord[o] \in OrderAccount
    BY DEF Exists
<1>2. \A o \in Orders : EscrowIn(ord)[o] \in Nat /\ OpenStake(ord[o]) \in Nat
    BY <1>1 DEF EscrowIn, OpenStake, OrderAccount
<1>3. TotalEscrow(ord) \in Nat
  <2> DEFINE f == EscrowIn(ord)
  <2>1. \A o \in Orders : f[o] \in Nat
      BY <1>2
  <2> HIDE DEF f
  <2> QED  BY <2>1, SumBoundsTerms DEF f, TotalEscrow, LegacyAssumption
<1>4. ASSUME NEW m \in Markets, NEW side \in Sides
      PROVE  /\ \A o \in Orders : OpenIn(ord, m, side)[o] \in Nat
             /\ \A o \in Orders : OpenIn(ord, m, side)[o] <= OpenStakes(ord, m)[side]
             /\ OpenStakes(ord, m)[side] \in Nat
  <2> DEFINE f == OpenIn(ord, m, side)
  <2>1. \A o \in Orders : f[o] \in Nat
      BY <1>2 DEF OpenIn
  <2>2. OpenStakes(ord, m)[side] = SumOver(f, Orders)
      BY DEF OpenStakes
  <2> HIDE DEF f
  <2>3. SumOver(f, Orders) \in Nat /\ \A o \in Orders : f[o] <= SumOver(f, Orders)
      BY <2>1, SumBoundsTerms DEF LegacyAssumption
  <2> QED  BY <2>1, <2>2, <2>3 DEF f
<1> QED  BY <1>2, <1>3, <1>4

\* An order keeps the side that it was placed on.
SameSide(was, is) == Exists(was) => was.side = is.side

SumsMove(ord, n, o, x) ==
    /\ \A m \in Markets, side \in Sides :
          OpenStakes(n, m)[side] =
              IF m = o.market /\ side = x.side
              THEN OpenStakes(ord, m)[side] + (OpenStake(x) - OpenStake(ord[o]))
              ELSE OpenStakes(ord, m)[side]
    /\ TotalEscrow(n) = TotalEscrow(ord) + (x.lamports - EscrowIn(ord)[o])

\* When one order changes, the open stakes of its market change by its part, those of
\* the other markets not at all.
LEMMA OpenMoves ==
    ASSUME LegacyAssumption,
           NEW ord \in [Orders -> OrderAccount \cup {NoAccount}],
           NEW o \in Orders, NEW x \in OrderAccount,
           SameSide(ord[o], x),
           NEW n, n = [ord EXCEPT ![o] = x]
    PROVE  SumsMove(ord, n, o, x)
<1>1. n \in [Orders -> OrderAccount \cup {NoAccount}]
    OBVIOUS
<1>2. /\ n[o] = x /\ Exists(x) /\ \A q \in Orders : q # o => n[q] = ord[q]
    BY DEF LegacyAssumption, Exists
<1>3. ASSUME NEW m \in Markets, NEW side \in Sides
      PROVE  OpenStakes(n, m)[side] =
                 IF m = o.market /\ side = x.side
                 THEN OpenStakes(ord, m)[side] + (OpenStake(x) - OpenStake(ord[o]))
                 ELSE OpenStakes(ord, m)[side]
  <2> DEFINE f == OpenIn(ord, m, side)
             g == OpenIn(n, m, side)
  <2>0. /\ \A q \in Orders : f[q] \in Nat
        /\ \A q \in Orders : g[q] \in Nat
        /\ OpenStakes(ord, m)[side] \in Nat
      BY <1>1, SumsTyped, Zenon
  <2>1. /\ \A q \in Orders : f[q] \in Int /\ g[q] \in Int
        /\ OpenStakes(ord, m)[side] \in Int
    <3> HIDE DEF f, g
    <3> QED  BY <2>0
  <2>2. \A q \in Orders : q # o => g[q] = f[q]
      BY <1>2 DEF OpenIn
  <2>3. g[o] - f[o] = IF m = o.market /\ side = x.side
                      THEN OpenStake(x) - OpenStake(ord[o]) ELSE 0
    <3>1. g[o] = IF m = o.market /\ side = x.side THEN OpenStake(x) ELSE 0
        BY <1>2 DEF OpenIn
    <3>2. f[o] = IF m = o.market /\ side = x.side THEN OpenStake(ord[o]) ELSE 0
        BY DEF OpenIn, OpenStake, SameSide
    <3>3. OpenStake(x) \in Nat /\ OpenStake(ord[o]) \in Nat
        BY <1>1, <1>2, SumsTyped
    <3> QED  BY <3>1, <3>2, <3>3
  <2>4. OpenStakes(ord, m)[side] = SumOver(f, Orders)
        /\ OpenStakes(n, m)[side] = SumOver(g, Orders)
      BY DEF OpenStakes
  <2> HIDE DEF f, g
  <2>5. SumOver(g, Orders) = SumOver(f, Orders) + (g[o] - f[o])
      BY <2>1, <2>2, SumChange DEF LegacyAssumption
  <2> QED  BY <2>1, <2>3, <2>4, <2>5
<1>4. TotalEscrow(n) = TotalEscrow(ord) + (x.lamports - EscrowIn(ord)[o])
  <2> DEFINE f == EscrowIn(ord)
             g == EscrowIn(n)
  <2>0. /\ \A q \in Orders : f[q] \in Nat
        /\ \A q \in Orders : g[q] \in Nat
      BY <1>1, SumsTyped, Zenon
  <2>1. \A q \in Orders : f[q] \in Int /\ g[q] \in Int
    <3> HIDE DEF f, g
    <3> QED  BY <2>0
  <2>2. /\ \A q \in Orders : q # o => g[q] = f[q]
        /\ g[o] = x.lamports
      BY <1>2 DEF EscrowIn
  <2> HIDE DEF f, g
  <2>3. SumOver(g, Orders) = SumOver(f, Orders) + (g[o] - f[o])
      BY <2>1, <2>2, SumChange DEF LegacyAssumption
  <2> QED  BY <2>2, <2>3 DEF f, g, TotalEscrow
<1> QED  BY <1>3, <1>4 DEF SumsMove

\* So with one market, and with one user's balance.
LEMMA HeldMoves ==
    ASSUME LegacyAssumption,
           NEW mk \in [Markets -> MarketAccount \cup {NoAccount}],
           NEW m \in Markets, NEW a \in MarketAccount,
           NEW n, n = [mk EXCEPT ![m] = a]
    PROVE  /\ TotalHeld(n) = TotalHeld(mk) + (HeldBy(a) - HeldBy(mk[m]))
           /\ TotalHeld(mk) \in Int /\ HeldBy(a) \in Int
           /\ \A k \in Markets : HeldBy(mk[k]) \in Int
<1>1. \A b \in MarketAccount \cup {NoAccount} : HeldBy(b) \in Int
    BY DEF HeldBy, MarketAccount, Exists
<1>2. /\ n[m] = a /\ n \in [Markets -> MarketAccount \cup {NoAccount}]
      /\ \A k \in Markets : k # m => n[k] = mk[k]
    OBVIOUS
<1> DEFINE f == HeldIn(mk)
           g == HeldIn(n)
<1>3. /\ \A k \in Markets : f[k] \in Int /\ g[k] \in Int
      /\ \A k \in Markets : k # m => g[k] = f[k]
      /\ f[m] = HeldBy(mk[m]) /\ g[m] = HeldBy(a)
    BY <1>1, <1>2 DEF HeldIn
<1> HIDE DEF f, g
<1>4. IsFiniteSet(Markets)
    BY DEF LegacyAssumption
<1>5. SumOver(g, Markets) = SumOver(f, Markets) + (g[m] - f[m])
    BY <1>3, <1>4, SumChange
<1>6. SumOver(f, Markets) \in Int
    BY <1>3, <1>4, SumIsInt
<1> QED  BY <1>1, <1>3, <1>5, <1>6 DEF f, g, TotalHeld

\* What one user pays in, or gets back, moves what all have paid in by as much.
LEMMA SpentMoves ==
    ASSUME LegacyAssumption, NEW paidIn \in [Users -> Int], NEW u \in Users, NEW d \in Int
    PROVE  /\ TotalSpent([paidIn EXCEPT ![u] = paidIn[u] + d]) = TotalSpent(paidIn) + d
           /\ TotalSpent(paidIn) \in Int
<1> DEFINE n == [paidIn EXCEPT ![u] = paidIn[u] + d]
<1>0. n[u] = paidIn[u] + d /\ \A w \in Users : w # u => n[w] = paidIn[w]
    OBVIOUS
<1>1. IsFiniteSet(Users) /\ \A w \in Users : paidIn[w] \in Int /\ n[w] \in Int
    BY <1>0 DEF LegacyAssumption
<1> HIDE DEF n
<1>2. SumOver(n, Users) = SumOver(paidIn, Users) + (n[u] - paidIn[u])
    BY <1>0, <1>1, SumChange
<1>3. TotalSpent(paidIn) \in Int
    BY <1>1, SumIsInt DEF TotalSpent
<1> QED  BY <1>0, <1>2, <1>3 DEF TotalSpent, n

(***************************************************************************)
(* The arithmetic of one market.                                           *)
(***************************************************************************)

\* A market whose books balance has not paid out more than came in, and what is left
\* covers the open stakes of a voided market, and each winner's rounded share.
LEMMA BalancedIsCovered ==
    ASSUME NEW a \in MarketAccount, NEW open \in [Sides -> Nat], Balanced(a, open)
    PROVE  /\ a.total_paid + a.total_refunded <= a.total_in
           /\ a.resolution = "Void" =>
                 \A side \in Sides :
                    (a.total_paid + a.total_refunded) + open[side] <= a.total_in
           /\ a.resolution \in Sides =>
                 \A stake \in Nat : stake <= open[a.resolution] =>
                    LET share == (stake * a.total_in) \div a.pool[a.resolution]
                    IN  /\ share \in Nat
                        /\ (a.total_paid + a.total_refunded) + share <= a.total_in
                        /\ (a.total_paid + share) * a.pool[a.resolution]
                              <= (a.pool[a.resolution] - (open[a.resolution] - stake))
                                     * a.total_in
<1>1. /\ a.total_in \in Nat /\ a.total_paid \in Nat /\ a.total_refunded \in Nat
      /\ a.pool \in [Sides -> Nat] /\ a.resolution \in Sides \cup {"None", "Void"}
    BY DEF MarketAccount
<1>2. /\ a.pool["Yes"] \in Nat /\ a.pool["No"] \in Nat
      /\ open["Yes"] \in Nat /\ open["No"] \in Nat
    BY <1>1 DEF Sides
<1>3. CASE a.resolution = "None"
    BY <1>1, <1>3 DEF Balanced, Sides
<1>4. CASE a.resolution = "Void"
    BY <1>1, <1>2, <1>4 DEF Balanced, Sides
<1>5. CASE a.resolution \in Sides
  <2> DEFINE W == a.pool[a.resolution]
             T == a.total_in
             left == open[a.resolution]
  <2>1. /\ W \in Nat \ {0} /\ T \in Nat /\ left \in Nat /\ left <= W
        /\ a.total_refunded = 0 /\ a.total_paid * W <= (W - left) * T
      BY <1>1, <1>5 DEF Balanced
  <2>2. ASSUME NEW stake \in Nat, stake <= left
        PROVE  /\ (stake * T) \div W \in Nat
               /\ (a.total_paid + ((stake * T) \div W)) * W <= ((W - left) + stake) * T
               /\ a.total_paid + ((stake * T) \div W) <= T
    <3> HIDE DEF W, T, left
    <3>1. W - left \in Nat /\ (W - left) + stake <= W
        BY <2>1, <2>2
    <3> QED  BY <1>1, <2>1, <2>2, <3>1, FloorShare
  <2>3. a.total_paid <= T
    <3>1. /\ (0 * T) \div W \in Nat /\ a.total_paid + ((0 * T) \div W) <= T
        BY <2>1, <2>2
    <3> HIDE DEF W, T
    <3> QED  BY <1>1, <2>1, <3>1
  <2>4. a.resolution # "Void"
      BY <1>5 DEF Sides
  <2>5. ASSUME NEW stake \in Nat, stake <= left
        PROVE  (W - left) + stake = W - (left - stake)
    <3> HIDE DEF W, left
    <3> QED  BY <2>1
  <2> HIDE DEF W, T, left
  <2>6. a.total_paid + a.total_refunded = a.total_paid
      BY <1>1, <2>1
  <2> QED  BY <2>2, <2>3, <2>4, <2>5, <2>6 DEF W, T, left
<1> QED  BY <1>1, <1>3, <1>4, <1>5

(***************************************************************************)
(* Steps that change one order, or one market.                             *)
(***************************************************************************)

\* What a market's status says of its sequences.
StatusTells(a) == a.status = "Stale" <=> a.material_seq > a.priced_at_seq

\* An order and its market change, u pays d in, and the rest goes to, or comes from,
\* the order's account and the vault: the books balance before and after.
OrderMoves(o, x, a, open, u, d) ==
    /\ Exists(market[o.market])
    /\ order' = [order EXCEPT ![o] = x]
    /\ market' = [market EXCEPT ![o.market] = a]
    /\ vault' \in VaultAccount \cup {NoAccount}
    /\ Exists(vault) => Exists(vault')
    /\ spent' = [spent EXCEPT ![u] = spent[u] + d]
    /\ UNCHANGED <<config, receipt, now>>
    /\ SameSide(order[o], x)
    /\ StatusTells(a)
    /\ a.resolution = market[o.market].resolution
    /\ OrderSound(x, a, vault')
    /\ Balanced(a, open)
    /\ \A side \in Sides :
          open[side] = IF side = x.side
                       THEN OpenStakes(order, o.market)[side]
                                + (OpenStake(x) - OpenStake(order[o]))
                       ELSE OpenStakes(order, o.market)[side]
    /\ MoneyOf(vault') = MoneyOf(vault) + (HeldBy(a) - HeldBy(market[o.market]))
    /\ d = (MoneyOf(vault') - MoneyOf(vault)) + (x.lamports - EscrowIn(order)[o])

\* A step of an order keeps everything in order: what its market and the vault hold,
\* what is open on its side, and what its trader has outlaid, change by as much.
LEMMA OrderStepKeeps ==
    ASSUME LegacyAssumption, LegacyInv,
           NEW o \in Orders, NEW x \in OrderAccount, NEW a \in MarketAccount,
           NEW open \in [Sides -> Nat], NEW u \in Users, NEW d \in Int,
           OrderMoves(o, x, a, open, u, d)
    PROVE  LegacyInv'
<1> DEFINE m == o.market
<1>1. /\ market \in [Markets -> MarketAccount \cup {NoAccount}]
      /\ order \in [Orders -> OrderAccount \cup {NoAccount}]
      /\ vault \in VaultAccount \cup {NoAccount} /\ spent \in [Users -> Int]
      /\ m \in Markets
    BY DEF LegacyInv, LegacyTypeOK, LegacyAssumption
<1>2. /\ Exists(x) /\ Exists(a)
    BY DEF LegacyAssumption, Exists
<1>3. /\ order'[o] = x /\ \A q \in Orders : q # o => order'[q] = order[q]
      /\ market'[m] = a /\ \A k \in Markets : k # m => market'[k] = market[k]
      /\ order' \in [Orders -> OrderAccount \cup {NoAccount}]
      /\ market' \in [Markets -> MarketAccount \cup {NoAccount}]
    BY <1>1 DEF OrderMoves
<1>4. LegacyTypeOK'
    BY <1>1, <1>3 DEF LegacyInv, LegacyTypeOK, OrderMoves, StatusTells, IsStale
<1>5. ASSUME NEW q \in Orders, Exists(order'[q])
      PROVE  OrderSound(order'[q], market'[q.market], vault')
  <2>1. CASE q = o
      BY <1>3, <2>1 DEF OrderMoves
  <2>2. CASE q # o
    <3>1. OrderSound(order[q], market[q.market], vault) /\ q.market \in Markets
        BY <1>3, <1>5, <2>2 DEF LegacyInv, LegacyAssumption
    <3>2. Exists(market'[q.market]) /\ (Exists(vault) => Exists(vault'))
        BY <1>2, <1>3, <3>1 DEF OrderSound, OrderMoves
    <3> QED  BY <1>3, <2>2, <3>1, <3>2 DEF OrderSound
  <2> QED  BY <2>1, <2>2
<1>e. SameSide(order[o], x)
    BY DEF OrderMoves
<1>n. order' = [order EXCEPT ![o] = x]
    BY DEF OrderMoves
<1>k. market' = [market EXCEPT ![m] = a]
    BY DEF OrderMoves
<1>s. SumsMove(order, order', o, x)
    BY <1>1, <1>e, <1>n, OpenMoves, Zenon
<1>m. /\ \A k \in Markets, side \in Sides :
            OpenStakes(order', k)[side] =
               IF k = m /\ side = x.side
               THEN OpenStakes(order, k)[side] + (OpenStake(x) - OpenStake(order[o]))
               ELSE OpenStakes(order, k)[side]
      /\ TotalEscrow(order') = TotalEscrow(order) + (x.lamports - EscrowIn(order)[o])
    BY <1>s DEF SumsMove
<1>6. \A k \in Markets : OpenStakes(order', k) =
          IF k = m THEN open ELSE OpenStakes(order, k)
  <2> DEFINE next(k) == OpenStakes(order', k)
             was(k) == OpenStakes(order, k)
  <2>1. \A k \in Markets, side \in Sides :
           next(k)[side] =
               IF k = m /\ side = x.side
               THEN was(k)[side] + (OpenStake(x) - OpenStake(order[o]))
               ELSE was(k)[side]
      BY <1>m
  <2>2. \A k \in Markets : /\ next(k) = [side \in Sides |-> next(k)[side]]
                           /\ was(k) = [side \in Sides |-> was(k)[side]]
      BY DEF OpenStakes
  <2>3. open = [side \in Sides |-> open[side]]
      OBVIOUS
  <2>4. \A side \in Sides : next(m)[side] = open[side]
      BY <1>1, <2>1 DEF OrderMoves
  <2>5. \A k \in Markets : k # m => \A side \in Sides : next(k)[side] = was(k)[side]
      BY <2>1
  <2>6. next(m) = open
    <3>1. [side \in Sides |-> next(m)[side]] = [side \in Sides |-> open[side]]
        BY <2>4
    <3> HIDE DEF next
    <3> QED  BY <1>1, <2>2, <2>3, <3>1
  <2>7. \A k \in Markets : k # m => next(k) = was(k)
    <3> SUFFICES ASSUME NEW k \in Markets, k # m
                 PROVE  next(k) = was(k)
        OBVIOUS
    <3>1. [side \in Sides |-> next(k)[side]] = [side \in Sides |-> was(k)[side]]
        BY <2>5
    <3> HIDE DEF next, was
    <3> QED  BY <2>2, <3>1
  <2> QED  BY <2>6, <2>7
<1>0. \A k \in Markets : Exists(market[k]) => ResultSound(market[k], receipt[k])
    BY Zenon DEF LegacyInv
<1>7. ASSUME NEW k \in Markets, Exists(market'[k])
      PROVE  /\ Balanced(market'[k], OpenStakes(order', k))
             /\ ResultSound(market'[k], receipt'[k])
  <2>1. CASE k = m
    <3>1. Balanced(market'[k], OpenStakes(order', k))
        BY <1>3, <1>6, <2>1 DEF OrderMoves
    <3>2. ResultSound(market[m], receipt[m])
        BY <1>0, <1>1 DEF OrderMoves
    <3> QED  BY <1>3, <2>1, <3>1, <3>2 DEF ResultSound, OrderMoves
  <2>2. CASE k # m
    <3>1. Balanced(market[k], OpenStakes(order, k)) /\ ResultSound(market[k], receipt[k])
        BY <1>3, <1>7, <2>2 DEF LegacyInv
    <3> QED  BY <1>3, <1>6, <2>2, <3>1 DEF OrderMoves
  <2> QED  BY <2>1, <2>2
<1>8. MoneyOf(vault') = TotalHeld(market')
  <2>1. TotalHeld(market') = TotalHeld(market) + (HeldBy(a) - HeldBy(market[m]))
      BY <1>1, <1>k, HeldMoves, Zenon
  <2> QED  BY <2>1 DEF LegacyInv, OrderMoves
<1>9. TotalSpent(spent') = MoneyOf(vault') + TotalEscrow(order')
  <2>0. /\ spent' = [spent EXCEPT ![u] = spent[u] + d]
        /\ vault' \in VaultAccount \cup {NoAccount}
        /\ d = (MoneyOf(vault') - MoneyOf(vault)) + (x.lamports - EscrowIn(order)[o])
      BY DEF OrderMoves
  <2>1. TotalSpent(spent') = TotalSpent(spent) + d /\ TotalSpent(spent) \in Int
      BY <1>1, <2>0, SpentMoves, Zenon
  <2>2. /\ TotalEscrow(order) \in Nat /\ EscrowIn(order)[o] \in Nat
      BY <1>1, SumsTyped, Zenon
  <2>3. x.lamports \in Int
      BY DEF OrderAccount
  <2>4. MoneyOf(vault) \in Int /\ MoneyOf(vault') \in Int
      BY <1>1, <2>0 DEF MoneyOf, VaultAccount, Exists
  <2>5. TotalSpent(spent) = MoneyOf(vault) + TotalEscrow(order)
      BY DEF LegacyInv
  <2> QED  BY <1>m, <2>0, <2>1, <2>2, <2>3, <2>4, <2>5
<1> QED  BY <1>4, <1>5, <1>7, <1>8, <1>9 DEF LegacyInv

\* A market changes, without money moving.
LEMMA MarketStepKeeps ==
    ASSUME LegacyAssumption, LegacyInv, NEW m \in Markets, NEW a \in MarketAccount,
           market' = [market EXCEPT ![m] = a],
           config' \in [Markets -> ConfigAccount \cup {NoAccount}],
           receipt' \in [Markets -> ReceiptAccount \cup {NoAccount}],
           \A k \in Markets : k # m => receipt'[k] = receipt[k],
           UNCHANGED <<order, vault, spent, now>>,
           StatusTells(a),
           HeldBy(a) = HeldBy(market[m]),
           Balanced(a, OpenStakes(order, m)),
           ResultSound(a, receipt'[m])
    PROVE  LegacyInv'
<1>1. /\ market \in [Markets -> MarketAccount \cup {NoAccount}]
      /\ order \in [Orders -> OrderAccount \cup {NoAccount}]
    BY DEF LegacyInv, LegacyTypeOK
<1>2. Exists(a)
    BY DEF LegacyAssumption, Exists
<1>3. /\ market'[m] = a /\ \A k \in Markets : k # m => market'[k] = market[k]
      /\ market' \in [Markets -> MarketAccount \cup {NoAccount}]
    BY <1>1
<1>4. LegacyTypeOK'
    BY <1>3 DEF LegacyInv, LegacyTypeOK, StatusTells, IsStale
<1>5. ASSUME NEW q \in Orders, Exists(order'[q])
      PROVE  OrderSound(order'[q], market'[q.market], vault')
  <2>1. OrderSound(order[q], market[q.market], vault) /\ q.market \in Markets
      BY <1>5 DEF LegacyInv, LegacyAssumption
  <2>2. Exists(market'[q.market])
      BY <1>2, <1>3, <2>1 DEF OrderSound
  <2> QED  BY <2>1, <2>2 DEF OrderSound
<1>6. ASSUME NEW k \in Markets, Exists(market'[k])
      PROVE  /\ Balanced(market'[k], OpenStakes(order', k))
             /\ ResultSound(market'[k], receipt'[k])
  <2>1. CASE k = m
      BY <1>3, <2>1
  <2>2. CASE k # m
    <3>1. Balanced(market[k], OpenStakes(order, k)) /\ ResultSound(market[k], receipt[k])
        BY <1>3, <1>6, <2>2 DEF LegacyInv
    <3> QED  BY <1>3, <2>2, <3>1
  <2> QED  BY <2>1, <2>2
<1>7. MoneyOf(vault') = TotalHeld(market')
  <2>1. /\ TotalHeld(market') = TotalHeld(market) + (HeldBy(a) - HeldBy(market[m]))
        /\ TotalHeld(market) \in Int /\ HeldBy(a) \in Int
      BY <1>1, HeldMoves
  <2> QED  BY <2>1 DEF LegacyInv
<1> QED  BY <1>4, <1>5, <1>6, <1>7 DEF LegacyInv

(***************************************************************************)
(* The instructions on an order.                                           *)
(***************************************************************************)

\* What the invariant says of a market that is there.
LEMMA MarketFacts ==
    ASSUME LegacyAssumption, LegacyInv, NEW m \in Markets, Exists(market[m])
    PROVE  /\ market[m] \in MarketAccount
           /\ StatusTells(market[m])
           /\ OpenStakes(order, m) \in [Sides -> Nat]
           /\ Balanced(market[m], OpenStakes(order, m))
           /\ ResultSound(market[m], receipt[m])
<1>1. order \in [Orders -> OrderAccount \cup {NoAccount}]
    BY DEF LegacyInv, LegacyTypeOK
<1>2. \A side \in Sides : OpenStakes(order, m)[side] \in Nat
    BY <1>1, SumsTyped, Zenon
<1>3. OpenStakes(order, m) \in [Sides -> Nat]
  <2>1. OpenStakes(order, m) = [side \in Sides |-> OpenStakes(order, m)[side]]
      BY DEF OpenStakes
  <2> QED  BY <1>2, <2>1
<1>4. market[m] \in MarketAccount /\ StatusTells(market[m])
    BY DEF LegacyInv, LegacyTypeOK, Exists, StatusTells, IsStale
<1>5. Balanced(market[m], OpenStakes(order, m)) /\ ResultSound(market[m], receipt[m])
    BY Zenon DEF LegacyInv
<1> QED  BY <1>3, <1>4, <1>5

\* And of an order that is there, and its market.
LEMMA OrderFacts ==
    ASSUME LegacyAssumption, LegacyInv, NEW o \in Orders, Exists(order[o])
    PROVE  /\ order[o] \in OrderAccount
           /\ o.market \in Markets /\ Exists(market[o.market])
           /\ OrderSound(order[o], market[o.market], vault)
           /\ OpenStake(order[o]) \in Nat
           /\ OpenStake(order[o]) <= OpenStakes(order, o.market)[order[o].side]
           /\ EscrowIn(order)[o] = order[o].lamports
<1>1. order \in [Orders -> OrderAccount \cup {NoAccount}] /\ o.market \in Markets
    BY DEF LegacyInv, LegacyTypeOK, LegacyAssumption
<1>2. order[o] \in OrderAccount
    BY <1>1 DEF Exists
<1>3. OrderSound(order[o], market[o.market], vault)
    BY Zenon DEF LegacyInv
<1>4. order[o].side \in Sides
    BY <1>2 DEF OrderAccount
<1>5. /\ OpenStake(order[o]) \in Nat
      /\ OpenIn(order, o.market, order[o].side)[o]
            <= OpenStakes(order, o.market)[order[o].side]
    BY <1>1, <1>4, SumsTyped, Zenon
<1>6. OpenIn(order, o.market, order[o].side)[o] = OpenStake(order[o])
    BY DEF OpenIn
<1> QED  BY <1>1, <1>2, <1>3, <1>5, <1>6 DEF OrderSound, EscrowIn

\* place_order: the stake goes into the order's account.
LEMMA PlaceKeeps ==
    ASSUME LegacyAssumption, LegacyInv, NEW o \in Orders, NEW trader \in Users,
           NEW side \in Sides, NEW stake \in Nat,
           PlaceOrder(o, trader, side, stake)
    PROVE  LegacyInv'
<1> DEFINE m == o.market
           a == market[m]
           open == OpenStakes(order, m)
           x == [ trader |-> trader, side |-> side, stake |-> stake,
                  observed |-> SidePrice(side, market[m].displayed),
                  edge |-> 0, status |-> "Escrowed", verdict |-> "ALLOWED",
                  event |-> Zero, lamports |-> stake ]
<1>1. /\ m \in Markets /\ Exists(a) /\ ~ Exists(order[o]) /\ stake \in Nat \ {0}
      /\ market \in [Markets -> MarketAccount \cup {NoAccount}]
      /\ vault \in VaultAccount \cup {NoAccount} /\ spent \in [Users -> Int]
    BY DEF PlaceOrder, CanPlace, LegacyInv, LegacyTypeOK, LegacyAssumption
<1>2. /\ a \in MarketAccount /\ StatusTells(a)
      /\ open \in [Sides -> Nat] /\ Balanced(a, open)
    BY <1>1, MarketFacts, Zenon
<1>3. x \in OrderAccount
  <2>1. a.displayed \in Prices /\ MICROS_ONE \in Nat
      BY <1>2 DEF MarketAccount, LegacyAssumption
  <2>2. SidePrice(side, a.displayed) \in Prices
      BY <2>1 DEF SidePrice, Prices
  <2> QED  BY <1>1, <2>2 DEF OrderAccount, Zero
<1>4. OpenStake(x) = 0 /\ OpenStake(order[o]) = 0 /\ EscrowIn(order)[o] = 0
    BY <1>1 DEF OpenStake, EscrowIn
<1>5. market' = [market EXCEPT ![m] = a]
    BY <1>1 DEF PlaceOrder
<1>6. OrderSound(x, a, vault') /\ SameSide(order[o], x)
    BY <1>1 DEF OrderSound, SameSide
<1>7. MoneyOf(vault) \in Int /\ HeldBy(a) \in Int /\ \A s \in Sides : open[s] \in Int
    BY <1>1, <1>2 DEF MoneyOf, HeldBy, VaultAccount, MarketAccount, Exists
<1>8. /\ order' = [order EXCEPT ![o] = x]
      /\ spent' = [spent EXCEPT ![trader] = spent[trader] + stake]
      /\ vault' = vault /\ UNCHANGED <<config, receipt, now>>
    BY DEF PlaceOrder
<1> HIDE DEF x, a, open
<1>9. /\ \A s \in Sides : open[s] = IF s = side
                                    THEN open[s] + (OpenStake(x) - OpenStake(order[o]))
                                    ELSE open[s]
      /\ MoneyOf(vault') = MoneyOf(vault) + (HeldBy(a) - HeldBy(a))
      /\ stake = (MoneyOf(vault') - MoneyOf(vault)) + (stake - EscrowIn(order)[o])
    BY <1>4, <1>7, <1>8
<1>10. x.side = side /\ x.lamports = stake
    BY DEF x
<1>11. OrderMoves(o, x, a, open, trader, stake)
    BY <1>1, <1>2, <1>5, <1>6, <1>8, <1>9, <1>10 DEF OrderMoves, a, open
<1> QED  BY <1>2, <1>3, <1>11, OrderStepKeeps

\* What evaluation writes is an order again, with its stake gone from its account.
LEMMA EvaluatedTyped ==
    ASSUME LegacyAssumption, LegacyInv, NEW o \in Orders, CanEvaluate(o),
           NEW status \in {"Filled", "VoidedRefunded"}
    PROVE  /\ EvaluatedOrder(o, status) \in OrderAccount
           /\ EvaluatedOrder(o, status).lamports = 0
           /\ EvaluatedOrder(o, status).status = status
           /\ EvaluatedOrder(o, status).stake = order[o].stake
           /\ EvaluatedOrder(o, status).side = order[o].side
           /\ order[o].lamports = order[o].stake
<1>1. /\ Exists(order[o]) /\ order[o].status = "Escrowed"
    BY DEF CanEvaluate
<1>2. /\ order[o] \in OrderAccount /\ OrderSound(order[o], market[o.market], vault)
      /\ o.market \in Markets /\ Exists(market[o.market])
    BY <1>1, OrderFacts, Zenon
<1>3. market[o.market] \in MarketAccount
    BY <1>2, MarketFacts, Zenon
<1>4. order[o].lamports = order[o].stake
    BY <1>1, <1>2 DEF OrderSound
<1>5. EdgeOf(o) \in Int
  <2>1. market[o.market].fair \in Int /\ order[o].observed \in Int /\ MICROS_ONE \in Int
      BY <1>2, <1>3 DEF MarketAccount, OrderAccount, Prices, LegacyAssumption
  <2> QED  BY <2>1 DEF EdgeOf, SidePrice
<1>6. GuardVerdict(o) \in {"ALLOWED", "VOIDED_REFUNDED", "STALE_ALLOWED_NO_EDGE"}
    BY DEF GuardVerdict
<1>7. market[o.market].source_event \in Nat
    BY <1>3 DEF MarketAccount
<1>8. order[o].stake \in Nat /\ order[o].lamports - order[o].stake = 0
    BY <1>2, <1>4 DEF OrderAccount
<1> DEFINE e == EdgeOf(o)
           v == GuardVerdict(o)
           event == market[o.market].source_event
           x == EvaluatedOrder(o, status)
<1>9. x = [order[o] EXCEPT !.edge = e, !.verdict = v, !.status = status,
                           !.lamports = 0, !.event = event]
    BY <1>8 DEF EvaluatedOrder
<1> HIDE DEF e, v, event, x
<1>10. e \in Int /\ event \in Nat /\ v \in {"ALLOWED", "VOIDED_REFUNDED", "STALE_ALLOWED_NO_EDGE"}
    BY <1>5, <1>6, <1>7 DEF e, v, event
<1>11. /\ x \in OrderAccount
       /\ x.lamports = 0 /\ x.status = status
       /\ x.stake = order[o].stake /\ x.side = order[o].side
    BY <1>2, <1>9, <1>10 DEF OrderAccount
<1> QED  BY <1>4, <1>11 DEF x

\* A filled order's stake goes from its account into the vault, and is counted in its
\* market.
LEMMA FillKeeps ==
    ASSUME LegacyAssumption, LegacyInv, NEW o \in Orders, CanEvaluate(o), Fill(o),
           UNCHANGED <<config, receipt, now>>
    PROVE  LegacyInv'
<1> DEFINE m == o.market
           side == order[o].side
           stake == order[o].stake
           was == OpenStakes(order, m)
           x == EvaluatedOrder(o, "Filled")
           a == [market[m] EXCEPT !.pool = [@ EXCEPT ![side] = market[m].pool[side] + stake],
                                  !.total_in = market[m].total_in + stake]
           open == [was EXCEPT ![side] = was[side] + stake]
<1>1. /\ Exists(order[o]) /\ order[o].status = "Escrowed" /\ Exists(vault)
      /\ market[m].resolution = "None"
    BY DEF CanEvaluate
<1>2. /\ order[o] \in OrderAccount /\ m \in Markets /\ Exists(market[m])
      /\ EscrowIn(order)[o] = order[o].lamports
    BY <1>1, OrderFacts, Zenon
<1>3. /\ market[m] \in MarketAccount
      /\ StatusTells(market[m])
      /\ was \in [Sides -> Nat] /\ Balanced(market[m], was)
    BY <1>2, MarketFacts, Zenon
<1>4. /\ x \in OrderAccount /\ x.lamports = 0 /\ x.status = "Filled"
      /\ x.stake = stake /\ x.side = side /\ order[o].lamports = stake
    BY EvaluatedTyped, Zenon
<1>5. /\ side \in Sides /\ stake \in Nat /\ order[o].trader \in Users
    BY <1>2 DEF OrderAccount
<1>6. /\ vault \in VaultAccount /\ spent \in [Users -> Int]
      /\ market \in [Markets -> MarketAccount \cup {NoAccount}]
    BY <1>1 DEF LegacyInv, LegacyTypeOK, Exists
<1>7. /\ market[m].pool \in [Sides -> Nat] /\ market[m].total_in \in Nat
      /\ market[m].total_paid \in Nat /\ market[m].total_refunded \in Nat
    BY <1>3 DEF MarketAccount
<1>8. /\ a.pool \in [Sides -> Nat] /\ a.pool[side] = market[m].pool[side] + stake
      /\ \A s \in Sides : s # side => a.pool[s] = market[m].pool[s]
      /\ a.total_in = market[m].total_in + stake
      /\ a.total_paid = market[m].total_paid /\ a.total_refunded = market[m].total_refunded
      /\ a.resolution = market[m].resolution
      /\ a.priced_at_seq = market[m].priced_at_seq
      /\ a.material_seq = market[m].material_seq
      /\ a.status = market[m].status
    BY <1>3, <1>5, <1>7 DEF MarketAccount
<1>9. a \in MarketAccount
  <2>1. /\ [market[m].pool EXCEPT ![side] = market[m].pool[side] + stake] \in [Sides -> Nat]
        /\ market[m].total_in + stake \in Nat
      BY <1>5, <1>7
  <2> QED  BY <1>3, <2>1 DEF MarketAccount
<1>10. /\ order' = [order EXCEPT ![o] = x]
       /\ market' = [market EXCEPT ![m] = a]
       /\ vault' = [vault EXCEPT !.lamports = vault.lamports + stake,
                                 !.total_finalized = vault.total_finalized + stake,
                                 !.fill_count = vault.fill_count + 1]
       /\ spent' = spent
  <2>1. market' = [market EXCEPT ![m].pool[side] = @ + stake, ![m].total_in = @ + stake]
      BY DEF Fill
  <2>2. market' = [market EXCEPT ![m] = a]
      BY <1>2, <1>3, <1>6, <2>1 DEF MarketAccount
  <2> QED  BY <2>2 DEF Fill
<1>11. /\ vault' \in VaultAccount /\ vault'.lamports = vault.lamports + stake
       /\ vault.lamports \in Nat
  <2>1. /\ vault.lamports \in Nat /\ vault.total_finalized \in Nat /\ vault.fill_count \in Nat
      BY <1>6 DEF VaultAccount
  <2> HIDE DEF stake
  <2>2. /\ vault.lamports + stake \in Nat /\ vault.total_finalized + stake \in Nat
        /\ vault.fill_count + 1 \in Nat
      BY <1>5, <2>1
  <2> QED  BY <1>6, <1>10, <2>1, <2>2 DEF VaultAccount
<1>12. /\ Exists(a) /\ Exists(vault') /\ Exists(x)
    BY <1>4, <1>9, <1>11 DEF Exists, LegacyAssumption
<1>13. /\ OpenStake(x) = stake /\ OpenStake(order[o]) = 0
    BY <1>1, <1>4, <1>12 DEF OpenStake
<1>14. open \in [Sides -> Nat] /\ open[side] = was[side] + stake
       /\ \A s \in Sides : s # side => open[s] = was[s]
    BY <1>3, <1>5
<1> HIDE DEF x, a, was, open, stake, side
<1>15. Balanced(a, open)
    BY <1>1, <1>3, <1>5, <1>7, <1>8, <1>14 DEF Balanced, Sides
<1>16. \A s \in Sides : open[s] = IF s = x.side
                                  THEN was[s] + (OpenStake(x) - OpenStake(order[o]))
                                  ELSE was[s]
    BY <1>3, <1>4, <1>5, <1>13, <1>14
<1>17. OrderSound(x, a, vault') /\ SameSide(order[o], x)
    BY <1>4, <1>12 DEF OrderSound, SameSide, side
<1>18. /\ MoneyOf(vault') = MoneyOf(vault) + (HeldBy(a) - HeldBy(market[m]))
       /\ MoneyOf(vault') = MoneyOf(vault) + stake /\ MoneyOf(vault) \in Int
  <2>1. MoneyOf(vault) = vault.lamports /\ MoneyOf(vault') = vault'.lamports
      BY <1>1, <1>12 DEF MoneyOf
  <2>2. HeldBy(a) = HeldBy(market[m]) + stake /\ HeldBy(market[m]) \in Int
      BY <1>2, <1>5, <1>7, <1>8, <1>12 DEF HeldBy
  <2> QED  BY <1>5, <1>11, <2>1, <2>2
<1>19. 0 = (MoneyOf(vault') - MoneyOf(vault)) + (x.lamports - EscrowIn(order)[o])
    BY <1>2, <1>4, <1>5, <1>18
<1>20. spent' = [spent EXCEPT ![order[o].trader] = spent[order[o].trader] + 0]
    BY <1>5, <1>6, <1>10
<1>s. StatusTells(a)
    BY <1>3, <1>8 DEF StatusTells
<1>21. OrderMoves(o, x, a, open, order[o].trader, 0)
    BY <1>2, <1>3, <1>8, <1>10, <1>11, <1>12, <1>15, <1>16, <1>17, <1>18, <1>19, <1>20, <1>s
    DEF OrderMoves, was
<1> QED  BY <1>4, <1>5, <1>9, <1>14, <1>21, OrderStepKeeps

\* A refused order's stake goes back to its trader, and its market does not change.
LEMMA VoidKeeps ==
    ASSUME LegacyAssumption, LegacyInv, NEW o \in Orders, CanEvaluate(o), VoidAndRefund(o),
           UNCHANGED <<config, receipt, now>>
    PROVE  LegacyInv'
<1> DEFINE m == o.market
           a == market[m]
           stake == order[o].stake
           open == OpenStakes(order, m)
           x == EvaluatedOrder(o, "VoidedRefunded")
<1>1. /\ Exists(order[o]) /\ order[o].status = "Escrowed"
    BY DEF CanEvaluate
<1>2. /\ order[o] \in OrderAccount /\ m \in Markets /\ Exists(market[m])
      /\ EscrowIn(order)[o] = order[o].lamports
    BY <1>1, OrderFacts, Zenon
<1>3. /\ a \in MarketAccount /\ StatusTells(a)
      /\ open \in [Sides -> Nat] /\ Balanced(a, open)
    BY <1>2, MarketFacts, Zenon
<1>4. /\ x \in OrderAccount /\ x.lamports = 0 /\ x.status = "VoidedRefunded"
      /\ x.side = order[o].side /\ order[o].lamports = stake
    BY EvaluatedTyped, Zenon
<1>5. /\ stake \in Int /\ order[o].trader \in Users
    BY <1>2 DEF OrderAccount
<1>6. /\ vault \in VaultAccount \cup {NoAccount} /\ spent \in [Users -> Int]
      /\ market \in [Markets -> MarketAccount \cup {NoAccount}]
    BY DEF LegacyInv, LegacyTypeOK
<1>7. /\ OpenStake(x) = 0 /\ OpenStake(order[o]) = 0
    BY <1>1, <1>4 DEF OpenStake
<1>8. /\ order' = [order EXCEPT ![o] = x] /\ vault' = vault
      /\ market' = [market EXCEPT ![m] = a]
      /\ spent' = [spent EXCEPT ![order[o].trader] = spent[order[o].trader] - stake]
    BY <1>6 DEF VoidAndRefund
<1>9. OrderSound(x, a, vault') /\ SameSide(order[o], x)
    BY <1>2, <1>4 DEF OrderSound, SameSide
<1>10. MoneyOf(vault) \in Int /\ HeldBy(a) \in Int /\ \A s \in Sides : open[s] \in Int
    BY <1>3, <1>6 DEF MoneyOf, HeldBy, VaultAccount, MarketAccount, Exists
<1> HIDE DEF x, a, open, stake
<1>11. /\ \A s \in Sides : open[s] = IF s = x.side
                                    THEN open[s] + (OpenStake(x) - OpenStake(order[o]))
                                    ELSE open[s]
       /\ MoneyOf(vault') = MoneyOf(vault) + (HeldBy(a) - HeldBy(a))
       /\ - stake = (MoneyOf(vault') - MoneyOf(vault)) + (x.lamports - EscrowIn(order)[o])
    BY <1>2, <1>4, <1>5, <1>7, <1>8, <1>10
<1>12. spent' = [spent EXCEPT ![order[o].trader] = spent[order[o].trader] + (- stake)]
  <2>1. spent[order[o].trader] - stake = spent[order[o].trader] + (- stake)
      BY <1>5, <1>6
  <2> QED  BY <1>8, <2>1
<1>13. OrderMoves(o, x, a, open, order[o].trader, - stake)
    BY <1>2, <1>3, <1>6, <1>8, <1>9, <1>11, <1>12 DEF OrderMoves, a, open
<1>14. - stake \in Int
    BY <1>5
<1> QED  BY <1>3, <1>4, <1>5, <1>13, <1>14, OrderStepKeeps, Zenon

\* evaluate_order.
LEMMA EvaluateKeeps ==
    ASSUME LegacyAssumption, LegacyInv, NEW o \in Orders, EvaluateOrder(o)
    PROVE  LegacyInv'
<1>1. /\ CanEvaluate(o) /\ UNCHANGED <<config, receipt, now>>
      /\ VoidAndRefund(o) \/ Fill(o)
    BY DEF EvaluateOrder
<1> QED  BY <1>1, FillKeeps, VoidKeeps

(***************************************************************************)
(* Settlement.                                                             *)
(***************************************************************************)

\* A filled order is settled: what it is paid leaves the vault, and its market says
\* so.
LEMMA PayKeeps ==
    ASSUME LegacyAssumption, LegacyInv, NEW o \in Orders, Exists(order[o]),
           order[o].status = "Filled", NEW amount \in Nat, PayTrader(o, amount),
           NEW a \in MarketAccount, market' = [market EXCEPT ![o.market] = a],
           UNCHANGED <<config, receipt, now>>,
           amount <= MoneyOf(vault),
           a.priced_at_seq = market[o.market].priced_at_seq,
           a.material_seq = market[o.market].material_seq,
           a.status = market[o.market].status,
           a.resolution = market[o.market].resolution,
           HeldBy(a) = HeldBy(market[o.market]) - amount,
           NEW open, open = [OpenStakes(order, o.market) EXCEPT
                                ![order[o].side] = @ - order[o].stake],
           Balanced(a, open)
    PROVE  LegacyInv'
<1> DEFINE m == o.market
           side == order[o].side
           stake == order[o].stake
           was == OpenStakes(order, m)
           x == [order[o] EXCEPT !.status = "Settled"]
<1>1. /\ order[o] \in OrderAccount /\ m \in Markets /\ Exists(market[m])
      /\ EscrowIn(order)[o] = order[o].lamports
      /\ OrderSound(order[o], market[m], vault)
      /\ OpenStake(order[o]) \in Nat /\ OpenStake(order[o]) <= was[side]
    BY OrderFacts, Zenon
<1>2. /\ market[m] \in MarketAccount
      /\ StatusTells(market[m])
      /\ was \in [Sides -> Nat]
    BY <1>1, MarketFacts, Zenon
<1>3. /\ side \in Sides /\ stake \in Nat /\ order[o].trader \in Users
    BY <1>1 DEF OrderAccount
<1>4. /\ OpenStake(order[o]) = stake
    BY DEF OpenStake
<1>5. /\ vault \in VaultAccount /\ Exists(vault) /\ spent \in [Users -> Int]
      /\ MoneyOf(vault) = vault.lamports
    BY <1>1 DEF LegacyInv, LegacyTypeOK, OrderSound, MoneyOf, Exists
<1>6. /\ x \in OrderAccount /\ x.lamports = order[o].lamports /\ x.status = "Settled"
      /\ x.stake = stake /\ x.side = side
    BY <1>1 DEF OrderAccount
<1>7. order[o].lamports = 0
    BY <1>1 DEF OrderSound
<1>8. /\ order' = [order EXCEPT ![o] = x]
      /\ vault' = [vault EXCEPT !.lamports = vault.lamports - amount]
      /\ spent' = [spent EXCEPT ![order[o].trader] = spent[order[o].trader] - amount]
    BY <1>1 DEF PayTrader, OrderAccount
<1>9. /\ vault' \in VaultAccount /\ vault'.lamports = vault.lamports - amount
      /\ vault.lamports \in Nat
  <2>1. vault.lamports \in Nat
      BY <1>5 DEF VaultAccount
  <2>2. vault.lamports - amount \in Nat
      BY <1>5, <2>1
  <2> QED  BY <1>5, <1>8, <2>1, <2>2 DEF VaultAccount
<1>10. Exists(a) /\ Exists(vault') /\ Exists(x)
    BY <1>6, <1>9 DEF Exists, LegacyAssumption
<1>11. OpenStake(x) = 0
    BY <1>6 DEF OpenStake
<1>12. open \in [Sides -> Nat] /\ open[side] = was[side] - stake
       /\ \A s \in Sides : s # side => open[s] = was[s]
  <2>1. was[side] - stake \in Nat
      BY <1>1, <1>2, <1>3, <1>4
  <2> QED  BY <1>2, <1>3, <2>1
<1>13. OrderSound(x, a, vault') /\ SameSide(order[o], x)
    BY <1>6, <1>7, <1>10 DEF OrderSound, SameSide
<1>14. HeldBy(market[m]) \in Int
    BY <1>2 DEF HeldBy, MarketAccount
<1> HIDE DEF x, was, stake, side
<1>15. \A s \in Sides : open[s] = IF s = x.side
                                  THEN was[s] + (OpenStake(x) - OpenStake(order[o]))
                                  ELSE was[s]
    BY <1>2, <1>3, <1>4, <1>6, <1>11, <1>12
<1>16. /\ MoneyOf(vault') = MoneyOf(vault) + (HeldBy(a) - HeldBy(market[m]))
       /\ MoneyOf(vault') = MoneyOf(vault) - amount /\ MoneyOf(vault) \in Int
  <2>1. MoneyOf(vault') = vault'.lamports
      BY <1>10 DEF MoneyOf
  <2> QED  BY <1>5, <1>9, <1>14, <2>1
<1>17. - amount = (MoneyOf(vault') - MoneyOf(vault)) + (x.lamports - EscrowIn(order)[o])
    BY <1>1, <1>6, <1>7, <1>16
<1>18. spent' = [spent EXCEPT ![order[o].trader] = spent[order[o].trader] + (- amount)]
  <2>1. spent[order[o].trader] - amount = spent[order[o].trader] + (- amount)
      BY <1>3, <1>5
  <2> QED  BY <1>8, <2>1
<1>19. StatusTells(a) /\ a.resolution = market[m].resolution
    BY <1>2 DEF StatusTells
<1>20. OrderMoves(o, x, a, open, order[o].trader, - amount)
    BY <1>1, <1>8, <1>9, <1>10, <1>13, <1>15, <1>16, <1>17, <1>18, <1>19
    DEF OrderMoves, was
<1>21. - amount \in Int
    OBVIOUS
<1> QED  BY <1>3, <1>6, <1>12, <1>20, <1>21, OrderStepKeeps, Zenon

\* refund_voided_order.
LEMMA RefundKeeps ==
    ASSUME LegacyAssumption, LegacyInv, NEW o \in Orders, RefundVoidedOrder(o)
    PROVE  LegacyInv'
<1> DEFINE m == o.market
           side == order[o].side
           stake == order[o].stake
           was == OpenStakes(order, m)
           open == [was EXCEPT ![side] = @ - stake]
           a == [market[m] EXCEPT !.total_refunded = market[m].total_refunded + stake]
<1>1. /\ Exists(order[o]) /\ order[o].status = "Filled" /\ market[m].resolution = "Void"
      /\ vault.lamports >= stake
    BY DEF RefundVoidedOrder, CanRefundVoided, FilledAndResolved, Covered
<1>2. /\ order[o] \in OrderAccount /\ m \in Markets /\ Exists(market[m])
      /\ OrderSound(order[o], market[m], vault)
      /\ OpenStake(order[o]) <= was[side]
    BY <1>1, OrderFacts, Zenon
<1>3. /\ market[m] \in MarketAccount
      /\ was \in [Sides -> Nat] /\ Balanced(market[m], was)
    BY <1>2, MarketFacts, Zenon
<1>4. /\ side \in Sides /\ stake \in Nat /\ stake <= was[side]
    BY <1>1, <1>2 DEF OrderAccount, OpenStake
<1>5. /\ market \in [Markets -> MarketAccount \cup {NoAccount}]
      /\ stake <= MoneyOf(vault)
    BY <1>1, <1>2 DEF LegacyInv, LegacyTypeOK, OrderSound, MoneyOf, VaultAccount, Exists
<1>6. /\ market[m].pool \in [Sides -> Nat] /\ market[m].total_in \in Nat
      /\ market[m].total_paid \in Nat /\ market[m].total_refunded \in Nat
    BY <1>3 DEF MarketAccount
<1>7. /\ a.pool = market[m].pool /\ a.total_in = market[m].total_in
      /\ a.total_paid = market[m].total_paid
      /\ a.total_refunded = market[m].total_refunded + stake
      /\ a.resolution = market[m].resolution
      /\ a.priced_at_seq = market[m].priced_at_seq
      /\ a.material_seq = market[m].material_seq
      /\ a.status = market[m].status
    BY <1>3 DEF MarketAccount
<1>8. a \in MarketAccount
  <2>1. market[m].total_refunded + stake \in Nat
      BY <1>4, <1>6
  <2> QED  BY <1>3, <2>1 DEF MarketAccount
<1>9. market' = [market EXCEPT ![m] = a]
    BY <1>3 DEF RefundVoidedOrder
<1>10. open[side] = was[side] - stake
       /\ \A s \in Sides : s # side => open[s] = was[s]
    BY <1>3, <1>4
<1>11. Exists(a)
    BY <1>8 DEF Exists, LegacyAssumption
<1> HIDE DEF a, was, stake, side
<1>12. Balanced(a, open)
  <2> HIDE DEF open
  <2> QED  BY <1>1, <1>3, <1>4, <1>6, <1>7, <1>10 DEF Balanced, Sides
<1>13. HeldBy(a) = HeldBy(market[m]) - stake
    BY <1>2, <1>4, <1>6, <1>7, <1>11 DEF HeldBy
<1>14. PayTrader(o, stake) /\ UNCHANGED <<config, receipt, now>>
    BY DEF RefundVoidedOrder, stake
<1> QED
    BY <1>1, <1>4, <1>5, <1>7, <1>8, <1>9, <1>12, <1>13, <1>14, PayKeeps, Zenon
    DEF was, stake, side

\* settle_order: the winner gets the share that the pool leaves it.
LEMMA SettleKeeps ==
    ASSUME LegacyAssumption, LegacyInv, NEW o \in Orders, SettleOrder(o)
    PROVE  LegacyInv'
<1> DEFINE m == o.market
           side == order[o].side
           stake == order[o].stake
           was == OpenStakes(order, m)
           open == [was EXCEPT ![side] = @ - stake]
           share == Payout(o)
           a == [market[m] EXCEPT !.total_paid = market[m].total_paid + share]
<1>1. /\ Exists(order[o]) /\ order[o].status = "Filled"
      /\ market[m].resolution \in Sides /\ market[m].resolution = side
      /\ vault.lamports >= share
    BY DEF SettleOrder, CanSettle, FilledAndResolved, Covered, Won
<1>2. /\ order[o] \in OrderAccount /\ m \in Markets /\ Exists(market[m])
      /\ OrderSound(order[o], market[m], vault)
      /\ OpenStake(order[o]) <= was[side]
    BY <1>1, OrderFacts, Zenon
<1>3. /\ market[m] \in MarketAccount
      /\ was \in [Sides -> Nat] /\ Balanced(market[m], was)
    BY <1>2, MarketFacts, Zenon
<1>4. /\ side \in Sides /\ stake \in Nat /\ stake <= was[side]
    BY <1>1, <1>2 DEF OrderAccount, OpenStake
<1>5. /\ market \in [Markets -> MarketAccount \cup {NoAccount}]
      /\ share <= MoneyOf(vault)
  <2>1. vault \in VaultAccount /\ MoneyOf(vault) = vault.lamports
      BY <1>1, <1>2 DEF LegacyInv, LegacyTypeOK, OrderSound, MoneyOf, Exists
  <2> HIDE DEF share
  <2> QED  BY <1>1, <2>1 DEF LegacyInv, LegacyTypeOK
<1>6. /\ market[m].pool \in [Sides -> Nat] /\ market[m].total_in \in Nat
      /\ market[m].total_paid \in Nat /\ market[m].total_refunded \in Nat
    BY <1>3 DEF MarketAccount
<1>7. /\ share = (stake * market[m].total_in) \div market[m].pool[market[m].resolution]
    BY <1>3 DEF Payout, Balanced
<1>8. /\ share \in Nat
      /\ (market[m].total_paid + share) * market[m].pool[side]
            <= (market[m].pool[side] - (was[side] - stake)) * market[m].total_in
    BY <1>1, <1>3, <1>4, <1>7, BalancedIsCovered
<1>9. market' = [market EXCEPT ![m] = a]
    BY <1>3 DEF SettleOrder
<1> HIDE DEF share
<1>10. /\ a.pool = market[m].pool /\ a.total_in = market[m].total_in
       /\ a.total_paid = market[m].total_paid + share
       /\ a.total_refunded = market[m].total_refunded
       /\ a.resolution = market[m].resolution
       /\ a.priced_at_seq = market[m].priced_at_seq
       /\ a.material_seq = market[m].material_seq
       /\ a.status = market[m].status
    BY <1>3 DEF MarketAccount
<1>11. a \in MarketAccount
  <2>1. market[m].total_paid + share \in Nat
      BY <1>6, <1>8
  <2> QED  BY <1>3, <2>1 DEF MarketAccount
<1>12. open[side] = was[side] - stake
       /\ \A s \in Sides : s # side => open[s] = was[s]
    BY <1>3, <1>4
<1>13. Exists(a)
    BY <1>11 DEF Exists, LegacyAssumption
<1> HIDE DEF a, was, stake, side
<1>14. Balanced(a, open)
  <2> HIDE DEF open
  <2>1. /\ a.total_in = a.pool["Yes"] + a.pool["No"]
        /\ \A s \in Sides : open[s] <= a.pool[s]
      BY <1>3, <1>4, <1>6, <1>10, <1>12 DEF Balanced, Sides
  <2>2. a.total_refunded = 0 /\ a.pool[side] > 0 /\ a.resolution = side
      BY <1>1, <1>3, <1>10 DEF Balanced
  <2>3. a.total_paid * a.pool[side] <= (a.pool[side] - open[side]) * a.total_in
      BY <1>8, <1>10, <1>12
  <2>4. side # "None" /\ side # "Void"
      BY <1>4 DEF Sides
  <2> QED  BY <2>1, <2>2, <2>3, <2>4 DEF Balanced
<1>15. HeldBy(a) = HeldBy(market[m]) - share
    BY <1>2, <1>6, <1>8, <1>10, <1>13 DEF HeldBy
<1>16. PayTrader(o, share) /\ UNCHANGED <<config, receipt, now>>
    BY DEF SettleOrder, share
<1> QED
    BY <1>1, <1>4, <1>5, <1>8, <1>9, <1>10, <1>11, <1>14, <1>15, <1>16, PayKeeps, Zenon
    DEF was, stake, side

(***************************************************************************)
(* The instructions on a market.                                           *)
(***************************************************************************)

\* An order of a market that is not there would be unsound, so such a market has no
\* open stakes.
LEMMA NewMarketHasNoStakes ==
    ASSUME LegacyAssumption, LegacyInv, NEW m \in Markets, ~ Exists(market[m])
    PROVE  OpenStakes(order, m) = [side \in Sides |-> 0]
<1>1. \A o \in Orders : ~ (o.market = m /\ Exists(order[o]))
    BY Zenon DEF LegacyInv, OrderSound
<1>2. ASSUME NEW side \in Sides
      PROVE  SumOver(OpenIn(order, m, side), Orders) = 0
  <2> DEFINE f == OpenIn(order, m, side)
  <2>1. \A o \in Orders : f[o] = 0
      BY <1>1 DEF OpenIn
  <2>2. IsFiniteSet(Orders)
      BY DEF LegacyAssumption
  <2> HIDE DEF f
  <2>3. SumOver(f, Orders) = 0
      BY <2>1, <2>2, SumOfZeros
  <2> QED  BY <2>3 DEF f
<1> QED  BY <1>2 DEF OpenStakes

\* A market is opened, with a config or without one.
LEMMA OpenMarketKeeps ==
    ASSUME LegacyAssumption, LegacyInv, NEW m \in Markets, ~ Exists(market[m]),
           NEW authority \in Users, NEW terms \in MarketTerms,
           {terms.displayed, terms.fair, terms.tolerance} \subseteq Prices,
           market' = [market EXCEPT ![m] = NewMarket(authority, terms)],
           config' \in [Markets -> ConfigAccount \cup {NoAccount}],
           UNCHANGED <<receipt, order, vault, spent, now>>
    PROVE  LegacyInv'
<1> DEFINE a == NewMarket(authority, terms)
<1>1. a \in MarketAccount
  <2>1. [s \in Sides |-> 0] \in [Sides -> Nat]
      OBVIOUS
  <2> QED  BY <2>1 DEF NewMarket, MarketAccount, MarketTerms, Zero
<1>2. /\ a.pool = [s \in Sides |-> 0] /\ a.total_in = 0 /\ a.total_paid = 0
      /\ a.total_refunded = 0 /\ a.resolution = "None"
      /\ StatusTells(a)
    BY DEF NewMarket, StatusTells
<1>3. OpenStakes(order, m) = [side \in Sides |-> 0]
    BY NewMarketHasNoStakes
<1> HIDE DEF a
<1>5. Balanced(a, OpenStakes(order, m))
    BY <1>2, <1>3 DEF Balanced, Sides
<1>6. HeldBy(a) = HeldBy(market[m])
    BY <1>2 DEF HeldBy
<1>7. ResultSound(a, receipt'[m]) /\ StatusTells(a)
    BY <1>2 DEF ResultSound, Sides
<1>8. receipt' \in [Markets -> ReceiptAccount \cup {NoAccount}]
      /\ \A k \in Markets : k # m => receipt'[k] = receipt[k]
    BY DEF LegacyInv, LegacyTypeOK
<1>9. market' = [market EXCEPT ![m] = a]
    BY DEF a
<1> QED  BY <1>1, <1>5, <1>6, <1>7, <1>8, <1>9, MarketStepKeeps

\* initialize_market, initialize_market_config.
LEMMA InitializeKeeps ==
    ASSUME LegacyAssumption, LegacyInv, NEW m \in Markets, NEW authority \in Users,
           NEW terms \in MarketTerms,
           \/ InitializeMarket(m, authority, terms)
           \/ InitializeMarketConfig(m, authority, terms)
    PROVE  LegacyInv'
<1>0. config \in [Markets -> ConfigAccount \cup {NoAccount}]
    BY DEF LegacyInv, LegacyTypeOK
<1>1. CASE InitializeMarket(m, authority, terms)
  <2> DEFINE without == [terms EXCEPT !.close_time = Zero, !.fixture = Zero]
  <2>1. /\ without \in MarketTerms
        /\ without.displayed = terms.displayed /\ without.fair = terms.fair
        /\ without.tolerance = terms.tolerance
    <3> DEFINE half == [terms EXCEPT !.close_time = 0]
    <3>1. /\ half \in MarketTerms /\ half.displayed = terms.displayed
          /\ half.fair = terms.fair /\ half.tolerance = terms.tolerance
        BY DEF MarketTerms
    <3>2. without = [half EXCEPT !.fixture = 0]
        BY DEF Zero
    <3> HIDE DEF half, without
    <3> QED  BY <3>1, <3>2 DEF MarketTerms
  <2>2. /\ ~ Exists(market[m])
        /\ {terms.displayed, terms.fair, terms.tolerance} \subseteq Prices
        /\ market' = [market EXCEPT ![m] = NewMarket(authority, without)]
        /\ config' = config /\ UNCHANGED <<receipt, order, vault, spent, now>>
      BY <1>1 DEF InitializeMarket, CanInitializeMarket
  <2> HIDE DEF without
  <2> QED  BY <1>0, <2>1, <2>2, OpenMarketKeeps
<1>2. CASE InitializeMarketConfig(m, authority, terms)
  <2>1. /\ ~ Exists(market[m])
        /\ {terms.displayed, terms.fair, terms.tolerance} \subseteq Prices
        /\ market' = [market EXCEPT ![m] = NewMarket(authority, terms)]
        /\ UNCHANGED <<receipt, order, vault, spent, now>>
      BY <1>2 DEF InitializeMarketConfig, CanInitializeMarketConfig, Prices, LegacyAssumption
  <2>2. config' \in [Markets -> ConfigAccount \cup {NoAccount}]
    <3>1. [authority |-> authority, commitment |-> terms.commitment] \in ConfigAccount
        BY DEF ConfigAccount, MarketTerms
    <3> QED  BY <1>0, <1>2, <3>1 DEF InitializeMarketConfig
  <2> QED  BY <2>1, <2>2, OpenMarketKeeps
<1> QED  BY <1>1, <1>2

\* attach_market_config, initialize_vault and the clock change no market.
LEMMA OthersKeep ==
    ASSUME LegacyAssumption, LegacyInv,
           \/ \E m \in Markets, u \in Users, terms \in MarketTerms :
                 AttachMarketConfig(m, u, terms)
           \/ InitializeVault
           \/ Tick
           \/ UNCHANGED legacyVars
    PROVE  LegacyInv'
<1>1. CASE \E m \in Markets, u \in Users, terms \in MarketTerms :
              AttachMarketConfig(m, u, terms)
  <2>1. PICK m \in Markets, u \in Users, terms \in MarketTerms :
               AttachMarketConfig(m, u, terms)
      BY <1>1
  <2>2. [authority |-> u, commitment |-> terms.commitment] \in ConfigAccount
      BY DEF ConfigAccount, MarketTerms
  <2>3. config' \in [Markets -> ConfigAccount \cup {NoAccount}]
      BY <2>1, <2>2 DEF LegacyInv, LegacyTypeOK, AttachMarketConfig
  <2>4. UNCHANGED <<market, receipt, order, vault, spent, now>>
      BY <2>1 DEF AttachMarketConfig
  <2> QED  BY <2>3, <2>4 DEF LegacyInv, LegacyTypeOK, IsStale
<1>2. CASE InitializeVault
  <2>1. /\ vault' = [total_finalized |-> 0, fill_count |-> 0, lamports |-> 0]
        /\ UNCHANGED <<market, config, receipt, order, spent, now>>
        /\ ~ Exists(vault)
      BY <1>2 DEF InitializeVault, CanInitializeVault
  <2>2. vault' \in VaultAccount /\ vault'.lamports = 0
      BY <2>1 DEF VaultAccount
  <2>3. Exists(vault') /\ MoneyOf(vault') = 0 /\ MoneyOf(vault) = 0
      BY <2>1, <2>2 DEF Exists, LegacyAssumption, MoneyOf
  <2>4. LegacyTypeOK'
      BY <2>1, <2>2 DEF LegacyInv, LegacyTypeOK, IsStale
  <2>5. \A o \in Orders :
           Exists(order'[o]) => OrderSound(order'[o], market'[o.market], vault')
      BY <2>1, <2>3 DEF LegacyInv, OrderSound
  <2>6. \A m \in Markets : Exists(market'[m]) =>
              /\ Balanced(market'[m], OpenStakes(order', m))
              /\ ResultSound(market'[m], receipt'[m])
      BY <2>1, Zenon DEF LegacyInv
  <2>7. /\ MoneyOf(vault') = TotalHeld(market')
        /\ TotalSpent(spent') = MoneyOf(vault') + TotalEscrow(order')
      BY <2>1, <2>3 DEF LegacyInv
  <2> QED  BY <2>4, <2>5, <2>6, <2>7 DEF LegacyInv
<1>3. CASE Tick
  <2>1. LegacyTypeOK' /\ UNCHANGED <<market, config, receipt, order, vault, spent>>
      BY <1>3 DEF Tick, LegacyInv, LegacyTypeOK, LegacyAssumption, IsStale
  <2> QED  BY <2>1 DEF LegacyInv
<1>4. CASE UNCHANGED legacyVars
    BY <1>4 DEF legacyVars, LegacyInv, LegacyTypeOK, IsStale
<1> QED  BY <1>1, <1>2, <1>3, <1>4

\* A market's prices, its sequences and whether it is closed move no money.
LEMMA TouchKeeps ==
    ASSUME LegacyAssumption, LegacyInv, NEW m \in Markets, Exists(market[m]),
           NEW a \in MarketAccount, market' = [market EXCEPT ![m] = a],
           UNCHANGED <<config, receipt, order, vault, spent, now>>,
           StatusTells(a),
           a.pool = market[m].pool, a.total_in = market[m].total_in,
           a.total_paid = market[m].total_paid,
           a.total_refunded = market[m].total_refunded,
           a.resolution = market[m].resolution
    PROVE  LegacyInv'
<1>1. Balanced(market[m], OpenStakes(order, m)) /\ ResultSound(market[m], receipt[m])
    BY MarketFacts, Zenon
<1>2. Exists(a)
    BY DEF Exists, LegacyAssumption
<1>3. Balanced(a, OpenStakes(order, m)) /\ ResultSound(a, receipt'[m])
    BY <1>1 DEF Balanced, ResultSound
<1>4. HeldBy(a) = HeldBy(market[m])
    BY <1>2 DEF HeldBy
<1>5. /\ config' \in [Markets -> ConfigAccount \cup {NoAccount}]
      /\ receipt' \in [Markets -> ReceiptAccount \cup {NoAccount}]
      /\ \A k \in Markets : k # m => receipt'[k] = receipt[k]
    BY DEF LegacyInv, LegacyTypeOK
<1> QED  BY <1>3, <1>4, <1>5, MarketStepKeeps, Zenon

\* ingest_material_event, reprice_market, close_market.
LEMMA TouchesKeep ==
    ASSUME LegacyAssumption, LegacyInv, NEW m \in Markets, NEW user \in Users,
           NEW seq \in Nat, NEW price,
           \/ IngestMaterialEvent(m, user, seq, price)
           \/ RepriceMarket(m, user, price)
           \/ CloseMarket(m, user)
    PROVE  LegacyInv'
<1>0. Exists(market[m]) => /\ market[m] \in MarketAccount
                           /\ StatusTells(market[m])
    BY MarketFacts
<1>1. CASE IngestMaterialEvent(m, user, seq, price)
  <2> DEFINE status == IF seq > market[m].priced_at_seq THEN "Stale"
                       ELSE market[m].status
             a == [market[m] EXCEPT !.material_seq = seq, !.fair = price,
                                    !.source_event = seq, !.status = status]
  <2>1. /\ Exists(market[m]) /\ seq >= market[m].material_seq /\ price \in Prices
        /\ market' = [market EXCEPT ![m].material_seq = seq, ![m].fair = price,
                                    ![m].source_event = seq, ![m].status = status]
        /\ UNCHANGED <<config, receipt, order, vault, spent, now>>
      BY <1>1 DEF IngestMaterialEvent, CanIngest, Prices, LegacyAssumption
  <2>0. status \in {"Trading", "Stale"}
      BY <1>0, <2>1 DEF MarketAccount
  <2>4. market' = [market EXCEPT ![m] = a]
      BY <2>1
  <2>s. /\ status = "Stale" <=> (seq > market[m].priced_at_seq \/ market[m].status = "Stale")
        /\ market[m].priced_at_seq \in Nat /\ market[m].material_seq \in Nat
      BY <1>0, <2>1 DEF MarketAccount
  <2> HIDE DEF status
  <2>2. a \in MarketAccount
      BY <1>0, <2>0, <2>1 DEF MarketAccount
  <2>3. /\ a.pool = market[m].pool /\ a.total_in = market[m].total_in
        /\ a.total_paid = market[m].total_paid
        /\ a.total_refunded = market[m].total_refunded
        /\ a.resolution = market[m].resolution
        /\ a.priced_at_seq = market[m].priced_at_seq /\ a.material_seq = seq
        /\ a.status = status
      BY <1>0, <2>1 DEF MarketAccount
  <2> HIDE DEF a
  <2>5. StatusTells(a)
      BY <1>0, <2>1, <2>3, <2>s DEF StatusTells
  <2> QED  BY <2>1, <2>2, <2>3, <2>4, <2>5, TouchKeeps, Zenon
<1>2. CASE RepriceMarket(m, user, price)
  <2> DEFINE a == [market[m] EXCEPT !.displayed = price, !.status = "Trading",
                                    !.priced_at_seq = market[m].material_seq]
  <2>1. /\ Exists(market[m]) /\ price \in Prices
        /\ market' = [market EXCEPT ![m].displayed = price,
                                    ![m].priced_at_seq = market[m].material_seq,
                                    ![m].status = "Trading"]
        /\ UNCHANGED <<config, receipt, order, vault, spent, now>>
      BY <1>2 DEF RepriceMarket, CanReprice
  <2>2. a \in MarketAccount
      BY <1>0, <2>1 DEF MarketAccount
  <2>3. /\ a.pool = market[m].pool /\ a.total_in = market[m].total_in
        /\ a.total_paid = market[m].total_paid
        /\ a.total_refunded = market[m].total_refunded
        /\ a.resolution = market[m].resolution
        /\ a.priced_at_seq = a.material_seq /\ a.material_seq \in Nat
        /\ a.status = "Trading"
      BY <1>0, <2>1 DEF MarketAccount
  <2>4. market' = [market EXCEPT ![m] = a]
      BY <2>1
  <2> HIDE DEF a
  <2>5. StatusTells(a)
      BY <2>3 DEF StatusTells
  <2> QED  BY <2>1, <2>2, <2>3, <2>4, <2>5, TouchKeeps, Zenon
<1>3. CASE CloseMarket(m, user)
  <2> DEFINE a == [market[m] EXCEPT !.trading_closed = TRUE]
  <2>1. /\ Exists(market[m])
        /\ market' = [market EXCEPT ![m].trading_closed = TRUE]
        /\ UNCHANGED <<config, receipt, order, vault, spent, now>>
      BY <1>3 DEF CloseMarket, CanClose
  <2>2. /\ a \in MarketAccount
        /\ a.pool = market[m].pool /\ a.total_in = market[m].total_in
        /\ a.total_paid = market[m].total_paid
        /\ a.total_refunded = market[m].total_refunded
        /\ a.resolution = market[m].resolution
        /\ StatusTells(a)
      BY <1>0, <2>1 DEF MarketAccount, StatusTells
  <2>3. market' = [market EXCEPT ![m] = a]
      BY <2>1
  <2> HIDE DEF a
  <2> QED  BY <2>1, <2>2, <2>3, TouchKeeps, Zenon
<1> QED  BY <1>1, <1>2, <1>3

\* submit_txline_validation, confirm_validation: the market is not resolved yet.
LEMMA ReceiptsKeep ==
    ASSUME LegacyAssumption, LegacyInv, NEW m \in Markets, NEW user \in Users,
           \/ \E fixture, home, away : SubmitTxlineValidation(m, user, fixture, home, away)
           \/ ConfirmValidation(m, user)
    PROVE  LegacyInv'
<1>1. Exists(market[m]) /\ market[m].resolution = "None"
    BY DEF SubmitTxlineValidation, ConfirmValidation, CanSubmit, CanConfirm, AwaitsResult
<1>2. /\ market[m] \in MarketAccount
      /\ StatusTells(market[m])
      /\ Balanced(market[m], OpenStakes(order, m))
    BY <1>1, MarketFacts, Zenon
<1>3. /\ UNCHANGED <<market, config, order, vault, spent, now>>
      /\ receipt' \in [Markets -> ReceiptAccount \cup {NoAccount}]
      /\ \A k \in Markets : k # m => receipt'[k] = receipt[k]
  <2>0. receipt \in [Markets -> ReceiptAccount \cup {NoAccount}]
      BY DEF LegacyInv, LegacyTypeOK
  <2>1. CASE \E fixture, home, away : SubmitTxlineValidation(m, user, fixture, home, away)
    <3>1. PICK fixture, home, away : SubmitTxlineValidation(m, user, fixture, home, away)
        BY <2>1
    <3>2. [home |-> home, away |-> away, confirmed |-> FALSE] \in ReceiptAccount
        BY <3>1 DEF SubmitTxlineValidation, CanSubmit, ReceiptAccount
    <3> QED  BY <2>0, <3>1, <3>2 DEF SubmitTxlineValidation
  <2>2. CASE ConfirmValidation(m, user)
    <3>1. receipt[m] \in ReceiptAccount
        BY <2>0, <2>2 DEF ConfirmValidation, CanConfirm, Exists
    <3>2. [receipt[m] EXCEPT !.confirmed = TRUE] \in ReceiptAccount
        BY <3>1 DEF ReceiptAccount
    <3> QED  BY <2>0, <2>2, <3>2 DEF ConfirmValidation
  <2> QED  BY <2>1, <2>2
<1>4. ResultSound(market[m], receipt'[m])
    BY <1>1 DEF ResultSound, Sides
<1>5. /\ market' = [market EXCEPT ![m] = market[m]]
      /\ config' \in [Markets -> ConfigAccount \cup {NoAccount}]
    BY <1>3 DEF LegacyInv, LegacyTypeOK
<1> QED  BY <1>2, <1>3, <1>4, <1>5, MarketStepKeeps, Zenon

\* resolve_market_from_txline, emergency_void_market: what was open is all there is,
\* and nothing has been paid.
LEMMA ResolutionKeeps ==
    ASSUME LegacyAssumption, LegacyInv, NEW m \in Markets, NEW user \in Users,
           \/ ResolveMarketFromTxline(m, user)
           \/ EmergencyVoidMarket(m, user)
    PROVE  LegacyInv'
<1> DEFINE was == OpenStakes(order, m)
<1>1. /\ Exists(market[m]) /\ market[m].resolution = "None"
      /\ UNCHANGED <<config, receipt, order, vault, spent, now>>
    BY DEF ResolveMarketFromTxline, EmergencyVoidMarket, CanResolve, CanEmergencyVoid,
           AwaitsResult
<1>2. /\ market[m] \in MarketAccount /\ was \in [Sides -> Nat]
      /\ StatusTells(market[m])
      /\ Balanced(market[m], was)
    BY <1>1, MarketFacts, Zenon
<1>3. /\ config' \in [Markets -> ConfigAccount \cup {NoAccount}]
      /\ receipt' \in [Markets -> ReceiptAccount \cup {NoAccount}]
      /\ \A k \in Markets : k # m => receipt'[k] = receipt[k]
      /\ receipt'[m] = receipt[m]
      /\ receipt \in [Markets -> ReceiptAccount \cup {NoAccount}]
    BY <1>1 DEF LegacyInv, LegacyTypeOK
<1>4. /\ market[m].pool \in [Sides -> Nat] /\ market[m].total_in \in Nat
      /\ market[m].total_paid = 0 /\ market[m].total_refunded = 0
      /\ \A side \in Sides : was[side] = market[m].pool[side]
      /\ market[m].total_in = market[m].pool["Yes"] + market[m].pool["No"]
    BY <1>1, <1>2 DEF Balanced, MarketAccount
<1>5. ASSUME NEW a \in MarketAccount, market' = [market EXCEPT ![m] = a],
             a.pool = market[m].pool, a.total_in = market[m].total_in,
             a.total_paid = 0, a.total_refunded = 0,
             a.priced_at_seq = market[m].priced_at_seq,
             a.material_seq = market[m].material_seq,
             a.status = market[m].status,
             \/ a.resolution = "Void"
             \/ /\ a.resolution \in Sides /\ a.pool[a.resolution] > 0
                /\ ResultSound(a, receipt[m])
      PROVE  LegacyInv'
  <2>1. Exists(a) /\ HeldBy(a) = HeldBy(market[m])
      BY <1>1, <1>4, <1>5 DEF HeldBy, Exists, LegacyAssumption
  <2>2. Balanced(a, was)
    <3> HIDE DEF was
    <3>1. a.resolution # "None"
        BY <1>5 DEF Sides
    <3>2. CASE a.resolution = "Void"
        BY <1>2, <1>4, <1>5, <3>2 DEF Balanced, Sides
    <3>3. CASE a.resolution \in Sides /\ a.pool[a.resolution] > 0
      <4>1. /\ a.pool[a.resolution] - was[a.resolution] = 0
            /\ 0 * a.pool[a.resolution] = 0 /\ 0 * a.total_in = 0
          BY <1>2, <1>4, <1>5, <3>3
      <4>2. a.total_paid * a.pool[a.resolution]
                <= (a.pool[a.resolution] - was[a.resolution]) * a.total_in
          BY <1>5, <4>1
      <4>3. a.resolution # "Void"
          BY <3>3 DEF Sides
      <4>4. \A side \in Sides : was[side] <= a.pool[side]
          BY <1>2, <1>4, <1>5
      <4> QED  BY <1>4, <1>5, <3>1, <3>3, <4>2, <4>3, <4>4 DEF Balanced
    <3> QED  BY <1>5, <3>2, <3>3
  <2>3. ResultSound(a, receipt'[m]) /\ StatusTells(a)
      BY <1>2, <1>3, <1>5 DEF ResultSound, Sides, StatusTells
  <2>4. UNCHANGED <<order, vault, spent, now>>
      BY <1>1
  <2> QED  BY <1>3, <1>5, <2>1, <2>2, <2>3, <2>4, MarketStepKeeps, Zenon
<1>6. CASE ResolveMarketFromTxline(m, user)
  <2> DEFINE outcome == OutcomeOf(m)
             result == [home |-> receipt[m].home, away |-> receipt[m].away]
             a == [market[m] EXCEPT !.resolution = outcome, !.trading_closed = TRUE,
                                    !.result = result]
  <2>1. /\ Exists(receipt[m]) /\ receipt[m].confirmed
        /\ market' = [market EXCEPT ![m].resolution = outcome, ![m].trading_closed = TRUE,
                                    ![m].result = result]
      BY <1>6 DEF ResolveMarketFromTxline, CanResolve
  <2>2. receipt[m] \in ReceiptAccount
      BY <1>3, <2>1 DEF Exists
  <2>3. result \in [home : 0 .. MAX_SCORE, away : 0 .. MAX_SCORE]
      BY <2>2 DEF ReceiptAccount
  <2>4. \/ outcome = "Void"
        \/ /\ outcome \in Sides /\ market[m].pool[outcome] > 0
           /\ Derive(receipt[m].home, receipt[m].away) = outcome
    <3>1. Derive(receipt[m].home, receipt[m].away) \in Sides \cup {"Void"}
        BY DEF Derive, Sides
    <3> QED  BY <1>4, <3>1 DEF OutcomeOf
  <2>5. market' = [market EXCEPT ![m] = a]
      BY <2>1
  <2> HIDE DEF outcome, result
  <2>6. /\ a \in MarketAccount /\ a.resolution = outcome
        /\ a.pool = market[m].pool /\ a.total_in = market[m].total_in
        /\ a.total_paid = 0 /\ a.total_refunded = 0
        /\ a.priced_at_seq = market[m].priced_at_seq
        /\ a.material_seq = market[m].material_seq
        /\ a.status = market[m].status
      BY <1>2, <1>4, <2>3, <2>4 DEF MarketAccount
  <2>7. \/ a.resolution = "Void"
        \/ /\ a.resolution \in Sides /\ a.pool[a.resolution] > 0
           /\ ResultSound(a, receipt[m])
      BY <2>1, <2>4, <2>6 DEF ResultSound
  <2> HIDE DEF a
  <2> QED  BY <1>5, <2>5, <2>6, <2>7
<1>7. CASE EmergencyVoidMarket(m, user)
  <2> DEFINE a == [market[m] EXCEPT !.resolution = "Void", !.trading_closed = TRUE]
  <2>1. market' = [market EXCEPT ![m] = a]
      BY <1>7 DEF EmergencyVoidMarket
  <2>2. /\ a \in MarketAccount /\ a.resolution = "Void"
        /\ a.pool = market[m].pool /\ a.total_in = market[m].total_in
        /\ a.total_paid = 0 /\ a.total_refunded = 0
        /\ a.priced_at_seq = market[m].priced_at_seq
        /\ a.material_seq = market[m].material_seq
        /\ a.status = market[m].status
      BY <1>2, <1>4 DEF MarketAccount
  <2> HIDE DEF a
  <2> QED  BY <1>5, <2>1, <2>2
<1> QED  BY <1>6, <1>7

(***************************************************************************)
(* The books through every step.                                           *)
(***************************************************************************)

\* One instruction, whoever sends it with whatever typed arguments.
LEMMA ExecuteKeeps ==
    ASSUME LegacyAssumption, LegacyInv, NEW tx, TypedTransaction(tx), Execute(tx)
    PROVE  LegacyInv'
<1> USE DEF TypedTransaction, ByMarketInstructions, ByOrderInstructions
<1>1. CASE /\ tx.ix = "initialize_market"
           /\ InitializeMarket(tx.market, tx.signer, tx.terms)
    BY <1>1, InitializeKeeps
<1>2. CASE /\ tx.ix = "initialize_market_config"
           /\ InitializeMarketConfig(tx.market, tx.signer, tx.terms)
    BY <1>2, InitializeKeeps
<1>3. CASE /\ tx.ix = "attach_market_config"
           /\ AttachMarketConfig(tx.market, tx.signer, tx.terms)
    BY <1>3, OthersKeep
<1>4. CASE InitializeVault
    BY <1>4, OthersKeep
<1>5. CASE /\ tx.ix = "ingest_material_event"
           /\ IngestMaterialEvent(tx.market, tx.signer, tx.seq, tx.price)
    BY <1>5, TouchesKeep
<1>6. CASE /\ tx.ix = "reprice_market"
           /\ RepriceMarket(tx.market, tx.signer, tx.price)
  <2>1. 0 \in Nat
      OBVIOUS
  <2> QED  BY <1>6, <2>1, TouchesKeep
<1>7. CASE /\ tx.ix = "place_order"
           /\ PlaceOrder(tx.order, tx.signer, tx.side, tx.stake)
    BY <1>7, PlaceKeeps
<1>8. CASE tx.ix = "evaluate_order" /\ EvaluateOrder(tx.order)
    BY <1>8, EvaluateKeeps
<1>9. CASE tx.ix = "close_market" /\ CloseMarket(tx.market, tx.signer)
  <2>1. 0 \in Nat
      OBVIOUS
  <2> QED  BY <1>9, <2>1, TouchesKeep
<1>10. CASE /\ tx.ix = "submit_txline_validation"
            /\ SubmitTxlineValidation(tx.market, tx.signer, tx.fixture, tx.home, tx.away)
    BY <1>10, ReceiptsKeep
<1>11. CASE tx.ix = "confirm_validation" /\ ConfirmValidation(tx.market, tx.signer)
    BY <1>11, ReceiptsKeep
<1>12. CASE /\ tx.ix = "resolve_market_from_txline"
            /\ ResolveMarketFromTxline(tx.market, tx.signer)
    BY <1>12, ResolutionKeeps
<1>13. CASE /\ tx.ix = "emergency_void_market"
            /\ EmergencyVoidMarket(tx.market, tx.signer)
    BY <1>13, ResolutionKeeps
<1>14. CASE tx.ix = "refund_voided_order" /\ RefundVoidedOrder(tx.order)
    BY <1>14, RefundKeeps
<1>15. CASE tx.ix = "settle_order" /\ SettleOrder(tx.order)
    BY <1>15, SettleKeeps
<1> QED
    BY <1>1, <1>2, <1>3, <1>4, <1>5, <1>6, <1>7, <1>8, <1>9, <1>10, <1>11, <1>12, <1>13,
       <1>14, <1>15 DEF Execute

\* Every instruction keeps everything in order, and so does the clock.
LEMMA LegacyStepKeeps ==
    ASSUME LegacyAssumption, LegacyInv, LegacyStep
    PROVE  LegacyInv'
<1>1. CASE \E tx : TypedTransaction(tx) /\ Execute(tx)
    BY <1>1, ExecuteKeeps
<1>2. CASE Tick
    BY <1>2, OthersKeep
<1>3. CASE UNCHANGED legacyVars
    BY <1>3, OthersKeep
<1> QED  BY <1>1, <1>2, <1>3 DEF LegacyStep

\* Before any account is there, all sums are of zeros.
LEMMA LegacyStarts ==
    ASSUME LegacyAssumption, LegacyInit
    PROVE  LegacyInv
<1>1. LegacyTypeOK
    BY DEF LegacyInit, LegacyTypeOK, Exists, LegacyAssumption
<1>2. /\ \A o \in Orders : ~ Exists(order[o])
      /\ \A m \in Markets : ~ Exists(market[m])
      /\ MoneyOf(vault) = 0
    BY DEF LegacyInit, Exists, MoneyOf
<1>3. TotalHeld(market) = 0
  <2> DEFINE f == HeldIn(market)
  <2>1. IsFiniteSet(Markets) /\ \A m \in Markets : f[m] = 0
      BY <1>2 DEF LegacyAssumption, HeldIn, HeldBy
  <2> HIDE DEF f
  <2> QED  BY <2>1, SumOfZeros DEF TotalHeld, f
<1>4. TotalEscrow(order) = 0
  <2> DEFINE f == EscrowIn(order)
  <2>1. IsFiniteSet(Orders) /\ \A o \in Orders : f[o] = 0
      BY <1>2 DEF LegacyAssumption, EscrowIn
  <2> HIDE DEF f
  <2> QED  BY <2>1, SumOfZeros DEF TotalEscrow, f
<1>5. TotalSpent(spent) = 0
  <2>1. IsFiniteSet(Users) /\ \A u \in Users : spent[u] = 0
      BY DEF LegacyAssumption, LegacyInit
  <2> QED  BY <2>1, SumOfZeros DEF TotalSpent
<1> QED  BY <1>1, <1>2, <1>3, <1>4, <1>5 DEF LegacyInv

(***************************************************************************)
(* What the books are for.                                                 *)
(***************************************************************************)

\* The sums of the properties are sums of functions.
LEMMA SumsOfAccounts ==
    /\ \A S : MapThenSumSet(LAMBDA m : market[m].total_in - PaidOut(m), S)
                 = SumOver([m \in S |-> market[m].total_in - PaidOut(m)], S)
    /\ \A S : MapThenSumSet(LAMBDA o : order[o].lamports, S)
                 = SumOver([o \in S |-> order[o].lamports], S)
    /\ MapThenSumSet(LAMBDA u : spent[u], Users) = TotalSpent(spent)
<1>1. \A S : MapThenSumSet(LAMBDA m : market[m].total_in - PaidOut(m), S)
                = SumOver([m \in S |-> market[m].total_in - PaidOut(m)], S)
    BY DEF SumOver, MapThenSumSet, MapThenFoldSet
<1>2. \A S : MapThenSumSet(LAMBDA o : order[o].lamports, S)
                = SumOver([o \in S |-> order[o].lamports], S)
    BY DEF SumOver, MapThenSumSet, MapThenFoldSet
<1>3. MapThenSumSet(LAMBDA u : spent[u], Users) = TotalSpent(spent)
    BY DEF SumOver, TotalSpent
<1> QED  BY <1>1, <1>2, <1>3

\* The vault holds what each market took and did not pay out (settle_order,
\* refund_voided_order).
LEMMA MarketsCovered ==
    ASSUME LegacyAssumption, LegacyInv
    PROVE  EveryMarketIsCovered
<1>1. /\ market \in [Markets -> MarketAccount \cup {NoAccount}]
      /\ order \in [Orders -> OrderAccount \cup {NoAccount}]
      /\ MoneyOf(vault) = TotalHeld(market)
      /\ TotalSpent(spent) = MoneyOf(vault) + TotalEscrow(order)
    BY DEF LegacyInv, LegacyTypeOK
<1>2. MapThenSumSet(LAMBDA m : market[m].total_in - PaidOut(m),
                    {m \in Markets : Exists(market[m])}) = TotalHeld(market)
  <2> DEFINE S == {m \in Markets : Exists(market[m])}
             f == [m \in S |-> market[m].total_in - PaidOut(m)]
             g == HeldIn(market)
  <2>1. /\ S \in SUBSET Markets
        /\ \A m \in S : f[m] = g[m]
        /\ \A m \in Markets \ S : g[m] = 0
      BY DEF HeldIn, HeldBy, PaidOut
  <2>2. \A m \in S : f[m] \in Int
    <3>1. \A m \in S : market[m] \in MarketAccount
        BY <1>1 DEF Exists
    <3> QED  BY <3>1 DEF PaidOut, MarketAccount
  <2>3. MapThenSumSet(LAMBDA m : market[m].total_in - PaidOut(m), S) = SumOver(f, S)
      BY SumsOfAccounts
  <2>4. IsFiniteSet(Markets)
      BY DEF LegacyAssumption
  <2> HIDE DEF f, g, S
  <2>5. SumOver(f, S) = SumOver(g, Markets)
      BY <2>1, <2>2, <2>4, SumOverPart
  <2> QED  BY <2>3, <2>5 DEF TotalHeld, g, S
<1>3. MapThenSumSet(LAMBDA o : order[o].lamports, Present) = TotalEscrow(order)
  <2> DEFINE S == Present
             f == [o \in S |-> order[o].lamports]
             g == EscrowIn(order)
  <2>1. /\ S \in SUBSET Orders
        /\ \A o \in S : f[o] = g[o]
        /\ \A o \in Orders \ S : g[o] = 0
      BY DEF EscrowIn, Present
  <2>2. \A o \in S : f[o] \in Int
    <3>1. \A o \in S : order[o] \in OrderAccount
        BY <1>1 DEF Exists, Present
    <3> QED  BY <3>1 DEF OrderAccount
  <2>3. MapThenSumSet(LAMBDA o : order[o].lamports, S) = SumOver(f, S)
      BY SumsOfAccounts
  <2>4. IsFiniteSet(Orders)
      BY DEF LegacyAssumption
  <2> HIDE DEF f, g, S
  <2>5. SumOver(f, S) = SumOver(g, Orders)
      BY <2>1, <2>2, <2>4, SumOverPart
  <2> QED  BY <2>3, <2>5 DEF TotalEscrow, g, S
<1>4. ASSUME NEW m \in Markets, Exists(market[m])
      PROVE  PaidOut(m) <= market[m].total_in
  <2>1. /\ market[m] \in MarketAccount /\ OpenStakes(order, m) \in [Sides -> Nat]
        /\ Balanced(market[m], OpenStakes(order, m))
      BY <1>4, MarketFacts, Zenon
  <2> QED  BY <2>1, BalancedIsCovered DEF PaidOut
<1>5. MapThenSumSet(LAMBDA u : spent[u], Users) = TotalSpent(spent)
    BY SumsOfAccounts
<1>6. (IF Exists(vault) THEN vault.lamports ELSE 0) = MoneyOf(vault)
      /\ (Exists(vault) => vault.lamports = MoneyOf(vault))
    BY DEF MoneyOf
<1> QED  BY <1>1, <1>2, <1>3, <1>4, <1>5, <1>6 DEF EveryMarketIsCovered

\* No market holds more than the vault has.
LEMMA HeldIsThere ==
    ASSUME LegacyAssumption, LegacyInv, NEW m \in Markets, Exists(market[m])
    PROVE  market[m].total_in - PaidOut(m) <= MoneyOf(vault)
<1> DEFINE f == HeldIn(market)
<1>1. \A k \in Markets : f[k] \in Nat
  <2> SUFFICES ASSUME NEW k \in Markets, Exists(market[k])
               PROVE  HeldBy(market[k]) \in Nat
      BY DEF HeldIn, HeldBy
  <2>1. /\ market[k] \in MarketAccount /\ OpenStakes(order, k) \in [Sides -> Nat]
        /\ Balanced(market[k], OpenStakes(order, k))
      BY MarketFacts, Zenon
  <2>2. market[k].total_paid + market[k].total_refunded <= market[k].total_in
      BY <2>1, BalancedIsCovered
  <2> QED  BY <2>1, <2>2 DEF HeldBy, MarketAccount
<1>2. f[m] = market[m].total_in - PaidOut(m)
    BY DEF HeldIn, HeldBy, PaidOut
<1>3. IsFiniteSet(Markets)
    BY DEF LegacyAssumption
<1> HIDE DEF f
<1>4. f[m] <= SumOver(f, Markets)
    BY <1>1, <1>3, SumBoundsTerms
<1> QED  BY <1>2, <1>4 DEF LegacyInv, TotalHeld, f

\* A winner's share, and a voided order's stake, are there when they are asked for
\* (settle_order, refund_voided_order).
LEMMA ClaimsCovered ==
    ASSUME LegacyAssumption, LegacyInv
    PROVE  ClaimsAreCovered
<1> SUFFICES ASSUME NEW o \in Orders, Exists(order[o]), order[o].status = "Filled"
             PROVE  /\ FilledAndResolved(o, {"Void"}) => Covered(o, order[o].stake)
                    /\ FilledAndResolved(o, Sides) /\ Won(o) => Covered(o, Payout(o))
    BY DEF ClaimsAreCovered, CanRefundVoided, CanSettle, FilledAndResolved, Present
<1> DEFINE m == o.market
           side == order[o].side
           stake == order[o].stake
           was == OpenStakes(order, m)
<1>1. /\ order[o] \in OrderAccount /\ m \in Markets /\ Exists(market[m])
      /\ OrderSound(order[o], market[m], vault)
      /\ OpenStake(order[o]) <= was[side]
    BY OrderFacts, Zenon
<1>2. /\ market[m] \in MarketAccount
      /\ was \in [Sides -> Nat] /\ Balanced(market[m], was)
    BY <1>1, MarketFacts, Zenon
<1>3. /\ side \in Sides /\ stake \in Nat /\ stake <= was[side]
    BY <1>1 DEF OrderAccount, OpenStake
<1>4. /\ vault.lamports \in Nat /\ MoneyOf(vault) = vault.lamports
    BY <1>1 DEF LegacyInv, LegacyTypeOK, OrderSound, MoneyOf, VaultAccount, Exists
<1>5. PaidOut(m) \in Nat /\ market[m].total_in \in Nat
    BY <1>2 DEF PaidOut, MarketAccount
<1>6. market[m].total_in - PaidOut(m) <= vault.lamports
    BY <1>1, <1>4, HeldIsThere
<1>7. ASSUME NEW amount \in Nat, PaidOut(m) + amount <= market[m].total_in
      PROVE  Covered(o, amount)
    BY <1>4, <1>5, <1>6, <1>7 DEF Covered
<1>8. ASSUME FilledAndResolved(o, {"Void"})
      PROVE  Covered(o, stake)
  <2>1. PaidOut(m) + was[side] <= market[m].total_in
      BY <1>2, <1>3, <1>8, BalancedIsCovered DEF FilledAndResolved, PaidOut
  <2>2. PaidOut(m) + stake <= market[m].total_in
      BY <1>2, <1>3, <1>5, <2>1
  <2> QED  BY <1>3, <1>7, <2>2
<1>9. ASSUME FilledAndResolved(o, Sides), Won(o)
      PROVE  Covered(o, Payout(o))
  <2>1. market[m].resolution \in Sides /\ market[m].resolution = side
      BY <1>9 DEF FilledAndResolved, Won
  <2>2. Payout(o) = (stake * market[m].total_in) \div market[m].pool[market[m].resolution]
      BY <1>2 DEF Payout, Balanced
  <2>3. Payout(o) \in Nat /\ PaidOut(m) + Payout(o) <= market[m].total_in
      BY <1>2, <1>3, <2>1, <2>2, BalancedIsCovered DEF PaidOut
  <2> QED  BY <1>7, <2>3
<1> QED  BY <1>8, <1>9

(***************************************************************************)
(* Finality.                                                               *)
(***************************************************************************)

\* An instruction leaves a confirmed score as it is.
LEMMA ScoresStay ==
    ASSUME LegacyAssumption, LegacyInv, NEW tx, TypedTransaction(tx), Execute(tx),
           NEW m \in Markets, Exists(receipt[m]), receipt[m].confirmed
    PROVE  receipt'[m] = receipt[m]
<1>0. receipt \in [Markets -> ReceiptAccount \cup {NoAccount}]
    BY DEF LegacyInv, LegacyTypeOK
<1>1. CASE /\ tx.ix = "submit_txline_validation"
           /\ SubmitTxlineValidation(tx.market, tx.signer, tx.fixture, tx.home, tx.away)
    BY <1>0, <1>1 DEF SubmitTxlineValidation, CanSubmit
<1>2. CASE tx.ix = "confirm_validation" /\ ConfirmValidation(tx.market, tx.signer)
    BY <1>0, <1>2 DEF ConfirmValidation, CanConfirm
<1>3. CASE receipt' = receipt
    BY <1>3
<1> QED
    BY <1>1, <1>2, <1>3
    DEF Execute, InitializeMarket, InitializeMarketConfig, AttachMarketConfig,
        InitializeVault, IngestMaterialEvent, RepriceMarket, PlaceOrder, EvaluateOrder,
        CloseMarket, ResolveMarketFromTxline, EmergencyVoidMarket, RefundVoidedOrder,
        SettleOrder

\* An instruction leaves a resolution, and the pools it was made with, as they are.
LEMMA OutcomesStay ==
    ASSUME LegacyAssumption, LegacyInv, NEW tx, TypedTransaction(tx), Execute(tx),
           NEW m \in Markets, Exists(market[m]), market[m].resolution # "None"
    PROVE  /\ market'[m].resolution = market[m].resolution
           /\ market'[m].pool = market[m].pool
<1>0. market \in [Markets -> MarketAccount \cup {NoAccount}] /\ market[m] \in MarketAccount
    BY MarketFacts DEF LegacyInv, LegacyTypeOK
<1> USE DEF TypedTransaction, ByMarketInstructions, ByOrderInstructions
<1>2. CASE /\ tx.ix = "initialize_market"
           /\ InitializeMarket(tx.market, tx.signer, tx.terms)
  <2>1. tx.market # m
      BY <1>2 DEF InitializeMarket, CanInitializeMarket
  <2> QED  BY <1>0, <1>2, <2>1 DEF InitializeMarket
<1>3. CASE /\ tx.ix = "initialize_market_config"
           /\ InitializeMarketConfig(tx.market, tx.signer, tx.terms)
  <2>1. tx.market # m
      BY <1>3 DEF InitializeMarketConfig, CanInitializeMarketConfig
  <2> QED  BY <1>0, <1>3, <2>1 DEF InitializeMarketConfig
<1>4. CASE /\ tx.ix = "ingest_material_event"
           /\ IngestMaterialEvent(tx.market, tx.signer, tx.seq, tx.price)
    BY <1>0, <1>4 DEF IngestMaterialEvent, MarketAccount
<1>5. CASE /\ tx.ix = "reprice_market"
           /\ RepriceMarket(tx.market, tx.signer, tx.price)
    BY <1>0, <1>5 DEF RepriceMarket, MarketAccount
<1>6. CASE tx.ix = "close_market" /\ CloseMarket(tx.market, tx.signer)
    BY <1>0, <1>6 DEF CloseMarket, MarketAccount
<1>7. CASE tx.ix = "evaluate_order" /\ EvaluateOrder(tx.order)
  <2>1. CASE VoidAndRefund(tx.order)
      BY <2>1 DEF VoidAndRefund
  <2>2. CASE Fill(tx.order)
    <3>1. tx.order.market # m
        BY <1>7 DEF EvaluateOrder, CanEvaluate
    <3> QED  BY <1>0, <2>2, <3>1 DEF Fill
  <2> QED  BY <1>7, <2>1, <2>2 DEF EvaluateOrder
<1>8. CASE /\ tx.ix = "resolve_market_from_txline"
           /\ ResolveMarketFromTxline(tx.market, tx.signer)
  <2>1. tx.market # m
      BY <1>8 DEF ResolveMarketFromTxline, CanResolve, AwaitsResult
  <2> QED  BY <1>0, <1>8, <2>1 DEF ResolveMarketFromTxline
<1>9. CASE tx.ix = "emergency_void_market" /\ EmergencyVoidMarket(tx.market, tx.signer)
  <2>1. tx.market # m
      BY <1>9 DEF EmergencyVoidMarket, CanEmergencyVoid
  <2> QED  BY <1>0, <1>9, <2>1 DEF EmergencyVoidMarket
<1>10. CASE tx.ix = "refund_voided_order" /\ RefundVoidedOrder(tx.order)
    BY <1>0, <1>10 DEF RefundVoidedOrder, MarketAccount
<1>11. CASE tx.ix = "settle_order" /\ SettleOrder(tx.order)
  <2> DEFINE share == Payout(tx.order)
  <2>1. market' = [market EXCEPT ![tx.order.market].total_paid = @ + share]
      BY <1>11 DEF SettleOrder
  <2> HIDE DEF share
  <2> QED  BY <1>0, <2>1 DEF MarketAccount
<1>12. CASE market' = market
    BY <1>12
<1> QED
    BY <1>2, <1>3, <1>4, <1>5, <1>6, <1>7, <1>8, <1>9, <1>10, <1>11, <1>12
    DEF Execute, AttachMarketConfig, InitializeVault, PlaceOrder,
        SubmitTxlineValidation, ConfirmValidation

\* A confirmed score, a resolution and the pools stay; and the side that has won is
\* the side that the confirmed score says.
LEMMA ResultsStay ==
    ASSUME LegacyAssumption, LegacyInv, LegacyStep, NEW m \in Markets
    PROVE  /\ (Exists(receipt[m]) /\ receipt[m].confirmed) => receipt'[m] = receipt[m]
           /\ (Exists(market[m]) /\ market[m].resolution # "None") =>
                 /\ market'[m].resolution = market[m].resolution
                 /\ market'[m].pool = market[m].pool
           /\ (Exists(market'[m]) /\ market'[m].resolution \in Sides) =>
                 /\ Derive(receipt'[m].home, receipt'[m].away) = market'[m].resolution
                 /\ receipt'[m].confirmed
<1>1. LegacyInv'
    BY LegacyStepKeeps
<1>2. Exists(market'[m]) => ResultSound(market'[m], receipt'[m])
    BY <1>1 DEF LegacyInv
<1>3. \/ \E tx : TypedTransaction(tx) /\ Execute(tx)
      \/ market' = market /\ receipt' = receipt
    BY DEF LegacyStep, Tick, legacyVars
<1>4. CASE \E tx : TypedTransaction(tx) /\ Execute(tx)
    BY <1>2, <1>4, ScoresStay, OutcomesStay DEF ResultSound
<1>5. CASE market' = market /\ receipt' = receipt
    BY <1>2, <1>5 DEF ResultSound
<1> QED  BY <1>3, <1>4, <1>5

(***************************************************************************)
(* What the program makes of any order and market.                         *)
(***************************************************************************)

\* An order that was evaluated says what came of it, and why, and names an event that
\* its market had.
OrderTells(x, a) ==
    /\ x.status # "Escrowed" =>
          (x.verdict = "VOIDED_REFUNDED" <=> x.status = "VoidedRefunded")
    /\ x.status = "VoidedRefunded" => x.edge > a.tolerance
    /\ x.status = "Settled" => a.resolution # "None"
    /\ x.event <= a.material_seq

\* A market's last event is the one its sequence is at, if it has had any.
EventTells(a) == a.source_event = a.material_seq \/ a.source_event = Zero

OrdersTell ==
    /\ \A o \in Orders : Exists(order[o]) => OrderTells(order[o], market[o.market])
    /\ \A m \in Markets : Exists(market[m]) => EventTells(market[m])

\* Of a market that was not stale when it was opened: an event made it stale, and an
\* order was voided for an event.
StaleByEvent(a) == a.source_event = Zero => a.priced_at_seq >= a.material_seq

VoidedForEvents(m) ==
    /\ Exists(market[m]) => StaleByEvent(market[m])
    /\ \A o \in Orders :
          /\ o.market = m /\ Exists(order[o])
          => (order[o].status = "VoidedRefunded" => order[o].event > 0)

\* What no instruction takes back.
MarketLasts(a, b) ==
    Exists(a) =>
        /\ Exists(b) /\ b.tolerance = a.tolerance
        /\ b.material_seq >= a.material_seq
        /\ a.resolution # "None" => b.resolution # "None"

OrderLasts(x, y) ==
    Exists(x) =>
        /\ Exists(y)
        /\ x.status # "Escrowed" =>
              /\ y.verdict = x.verdict /\ y.edge = x.edge /\ y.event = x.event
              /\ y.lamports = x.lamports
              /\ y.status = x.status \/ (x.status = "Filled" /\ y.status = "Settled")

AccountsLast ==
    /\ \A m \in Markets : MarketLasts(market[m], market'[m])
    /\ \A m \in Markets : Exists(config[m]) => config'[m] = config[m]
    /\ \A o \in Orders : OrderLasts(order[o], order'[o])

\* The accounts of a market stay as they are.
MarketRests(m) ==
    /\ market'[m] = market[m] /\ config'[m] = config[m] /\ receipt'[m] = receipt[m]
    /\ \A o \in Orders : o.market = m => order'[o] = order[o]

\* An instruction changes the accounts of one market.
LEMMA OtherMarketsRest ==
    ASSUME LegacyAssumption, LegacyInv, NEW tx, TypedTransaction(tx), Execute(tx),
           NEW m \in Markets, tx.ix \in ByMarketInstructions => tx.market # m,
           tx.ix \in ByOrderInstructions => tx.order.market # m
    PROVE  MarketRests(m)
<1>1. /\ market \in [Markets -> MarketAccount \cup {NoAccount}]
      /\ config \in [Markets -> ConfigAccount \cup {NoAccount}]
      /\ receipt \in [Markets -> ReceiptAccount \cup {NoAccount}]
      /\ order \in [Orders -> OrderAccount \cup {NoAccount}]
    BY DEF LegacyInv, LegacyTypeOK
<1> USE DEF ByMarketInstructions, ByOrderInstructions, MarketRests
<1>2. CASE /\ tx.ix = "initialize_market"
           /\ InitializeMarket(tx.market, tx.signer, tx.terms)
    BY <1>1, <1>2 DEF InitializeMarket
<1>3. CASE /\ tx.ix = "initialize_market_config"
           /\ InitializeMarketConfig(tx.market, tx.signer, tx.terms)
    BY <1>1, <1>3 DEF InitializeMarketConfig
<1>4. CASE /\ tx.ix = "attach_market_config"
           /\ AttachMarketConfig(tx.market, tx.signer, tx.terms)
    BY <1>1, <1>4 DEF AttachMarketConfig
<1>5. CASE tx.ix = "initialize_vault" /\ InitializeVault
    BY <1>5 DEF InitializeVault
<1>6. CASE /\ tx.ix = "ingest_material_event"
           /\ IngestMaterialEvent(tx.market, tx.signer, tx.seq, tx.price)
    BY <1>1, <1>6 DEF IngestMaterialEvent
<1>7. CASE /\ tx.ix = "reprice_market"
           /\ RepriceMarket(tx.market, tx.signer, tx.price)
    BY <1>1, <1>7 DEF RepriceMarket
<1>8. CASE /\ tx.ix = "place_order"
           /\ PlaceOrder(tx.order, tx.signer, tx.side, tx.stake)
  <2> DEFINE x == [ trader |-> tx.signer, side |-> tx.side, stake |-> tx.stake,
                    observed |-> SidePrice(tx.side, market[tx.order.market].displayed),
                    edge |-> 0, status |-> "Escrowed", verdict |-> "ALLOWED",
                    event |-> Zero, lamports |-> tx.stake ]
  <2>1. order' = [order EXCEPT ![tx.order] = x] /\ UNCHANGED <<market, config, receipt>>
      BY <1>8 DEF PlaceOrder
  <2> HIDE DEF x
  <2> QED  BY <1>1, <1>8, <2>1
<1>9. CASE tx.ix = "evaluate_order" /\ EvaluateOrder(tx.order)
  <2> DEFINE fill == EvaluatedOrder(tx.order, "Filled")
             void == EvaluatedOrder(tx.order, "VoidedRefunded")
             k == tx.order.market
  <2>1. CASE Fill(tx.order)
    <3>1. /\ order' = [order EXCEPT ![tx.order] = fill]
          /\ market' = [market EXCEPT ![k] = market'[k]]
        BY <1>1, <2>1 DEF Fill
    <3> HIDE DEF fill
    <3> QED  BY <1>1, <1>9, <3>1 DEF EvaluateOrder
  <2>2. CASE VoidAndRefund(tx.order)
    <3>1. order' = [order EXCEPT ![tx.order] = void] /\ market' = market
        BY <2>2 DEF VoidAndRefund
    <3> HIDE DEF void
    <3> QED  BY <1>1, <1>9, <3>1 DEF EvaluateOrder
  <2> QED  BY <1>9, <2>1, <2>2 DEF EvaluateOrder
<1>10. CASE tx.ix = "close_market" /\ CloseMarket(tx.market, tx.signer)
    BY <1>1, <1>10 DEF CloseMarket
<1>11. CASE /\ tx.ix = "submit_txline_validation"
            /\ SubmitTxlineValidation(tx.market, tx.signer, tx.fixture, tx.home, tx.away)
    BY <1>1, <1>11 DEF SubmitTxlineValidation
<1>12. CASE tx.ix = "confirm_validation" /\ ConfirmValidation(tx.market, tx.signer)
    BY <1>1, <1>12 DEF ConfirmValidation
<1>13. CASE /\ tx.ix = "resolve_market_from_txline"
            /\ ResolveMarketFromTxline(tx.market, tx.signer)
    BY <1>1, <1>13 DEF ResolveMarketFromTxline
<1>14. CASE tx.ix = "emergency_void_market" /\ EmergencyVoidMarket(tx.market, tx.signer)
    BY <1>1, <1>14 DEF EmergencyVoidMarket
<1>15. CASE tx.ix = "refund_voided_order" /\ RefundVoidedOrder(tx.order)
    BY <1>1, <1>15 DEF RefundVoidedOrder, PayTrader
<1>16. CASE tx.ix = "settle_order" /\ SettleOrder(tx.order)
    BY <1>1, <1>16 DEF SettleOrder, PayTrader
<1> QED
    BY <1>2, <1>3, <1>4, <1>5, <1>6, <1>7, <1>8, <1>9, <1>10, <1>11, <1>12, <1>13,
       <1>14, <1>15, <1>16 DEF Execute

\* A config stays as it is written.
LEMMA ConfigsLast ==
    ASSUME LegacyAssumption, LegacyInv, NEW tx, TypedTransaction(tx), Execute(tx),
           NEW m \in Markets, Exists(config[m])
    PROVE  config'[m] = config[m]
<1>1. config \in [Markets -> ConfigAccount \cup {NoAccount}]
    BY DEF LegacyInv, LegacyTypeOK
<1>2. CASE /\ tx.ix = "initialize_market_config"
           /\ InitializeMarketConfig(tx.market, tx.signer, tx.terms)
    BY <1>1, <1>2 DEF InitializeMarketConfig, CanInitializeMarketConfig
<1>3. CASE /\ tx.ix = "attach_market_config"
           /\ AttachMarketConfig(tx.market, tx.signer, tx.terms)
    BY <1>1, <1>3 DEF AttachMarketConfig, CanAttachMarketConfig
<1>4. CASE config' = config
    BY <1>4
<1> QED
    BY <1>2, <1>3, <1>4
    DEF Execute, InitializeMarket, InitializeVault, IngestMaterialEvent, RepriceMarket,
        PlaceOrder, EvaluateOrder, CloseMarket, SubmitTxlineValidation, ConfirmValidation,
        ResolveMarketFromTxline, EmergencyVoidMarket, RefundVoidedOrder, SettleOrder

\* What an instruction does to a market that is there.
LEMMA MarketsLast ==
    ASSUME LegacyAssumption, LegacyInv, NEW tx, TypedTransaction(tx), Execute(tx),
           NEW m \in Markets, Exists(market[m]), EventTells(market[m])
    PROVE  /\ MarketLasts(market[m], market'[m]) /\ EventTells(market'[m])
           /\ StaleByEvent(market[m]) => StaleByEvent(market'[m])
<1>1. market \in [Markets -> MarketAccount \cup {NoAccount}] /\ market[m] \in MarketAccount
    BY MarketFacts DEF LegacyInv, LegacyTypeOK
<1>2. LegacyInv'
    BY ExecuteKeeps
<1>3. /\ market[m].material_seq \in Nat /\ market[m].priced_at_seq \in Nat
      /\ market[m].source_event \in Nat
    BY <1>1 DEF MarketAccount
\* It is enough that these fields are as they were.
<1>4. ASSUME market'[m].material_seq = market[m].material_seq,
             market'[m].priced_at_seq = market[m].priced_at_seq,
             market'[m].source_event = market[m].source_event,
             market'[m].tolerance = market[m].tolerance,
             market[m].resolution # "None" => market'[m].resolution # "None",
             Exists(market'[m])
      PROVE  /\ MarketLasts(market[m], market'[m]) /\ EventTells(market'[m])
             /\ StaleByEvent(market[m]) => StaleByEvent(market'[m])
    BY <1>3, <1>4 DEF MarketLasts, EventTells, StaleByEvent
<1> USE DEF TypedTransaction, ByMarketInstructions, ByOrderInstructions
<1>5. ASSUME NEW a \in MarketAccount, market' = [market EXCEPT ![m] = a]
      PROVE  market'[m] = a /\ Exists(market'[m])
    BY <1>1, <1>5 DEF Exists, LegacyAssumption
<1>6. CASE market'[m] = market[m]
    BY <1>4, <1>6
<1>7. CASE \/ /\ tx.ix = "initialize_market"
              /\ InitializeMarket(tx.market, tx.signer, tx.terms)
           \/ /\ tx.ix = "initialize_market_config"
              /\ InitializeMarketConfig(tx.market, tx.signer, tx.terms)
  <2>1. tx.market # m
      BY <1>7 DEF InitializeMarket, CanInitializeMarket, InitializeMarketConfig,
                  CanInitializeMarketConfig
  <2> QED  BY <1>1, <1>6, <1>7, <2>1 DEF InitializeMarket, InitializeMarketConfig
<1>8. CASE /\ tx.ix = "ingest_material_event" /\ tx.market = m
           /\ IngestMaterialEvent(tx.market, tx.signer, tx.seq, tx.price)
  <2> DEFINE status == IF tx.seq > market[m].priced_at_seq THEN "Stale"
                       ELSE market[m].status
             a == [market[m] EXCEPT !.material_seq = tx.seq, !.fair = tx.price,
                                    !.source_event = tx.seq, !.status = status]
  <2>1. /\ market' = [market EXCEPT ![m] = a]
        /\ tx.seq \in Nat /\ tx.seq >= market[m].material_seq
        /\ tx.price \in 1 .. MICROS_ONE - 1
      BY <1>8 DEF IngestMaterialEvent, CanIngest
  <2>s. status \in {"Trading", "Stale"}
      BY <1>1 DEF MarketAccount
  <2> HIDE DEF status
  <2>0. tx.price \in Prices
      BY <2>1 DEF Prices, LegacyAssumption
  <2>2. /\ a \in MarketAccount /\ a.material_seq = tx.seq /\ a.source_event = tx.seq
        /\ a.priced_at_seq = market[m].priced_at_seq /\ a.tolerance = market[m].tolerance
        /\ a.resolution = market[m].resolution
      BY <1>1, <2>0, <2>1, <2>s DEF MarketAccount
  <2> HIDE DEF a
  <2>3. market'[m] = a /\ Exists(a)
      BY <1>5, <2>1, <2>2
  <2>4. EventTells(a) /\ StaleByEvent(a)
      BY <1>1, <1>3, <2>1, <2>2 DEF EventTells, StaleByEvent, Zero
  <2> QED  BY <1>3, <2>1, <2>2, <2>3, <2>4 DEF MarketLasts
<1>9. CASE /\ tx.ix = "reprice_market" /\ tx.market = m
           /\ RepriceMarket(tx.market, tx.signer, tx.price)
  <2> DEFINE a == [market[m] EXCEPT !.displayed = tx.price, !.status = "Trading",
                                    !.priced_at_seq = market[m].material_seq]
  <2>1. market' = [market EXCEPT ![m] = a] /\ tx.price \in Prices
      BY <1>9 DEF RepriceMarket, CanReprice
  <2>2. /\ a \in MarketAccount /\ a.priced_at_seq = market[m].material_seq
        /\ a.material_seq = market[m].material_seq
        /\ a.source_event = market[m].source_event /\ a.tolerance = market[m].tolerance
        /\ a.resolution = market[m].resolution
      BY <1>1, <2>1 DEF MarketAccount
  <2> HIDE DEF a
  <2>3. market'[m] = a /\ Exists(a)
      BY <1>5, <2>1, <2>2
  <2> QED  BY <1>1, <1>3, <2>2, <2>3 DEF MarketLasts, EventTells, StaleByEvent
<1>10. CASE tx.ix = "close_market" /\ tx.market = m /\ CloseMarket(tx.market, tx.signer)
  <2> DEFINE a == [market[m] EXCEPT !.trading_closed = TRUE]
  <2>1. market' = [market EXCEPT ![m] = a]
      BY <1>10 DEF CloseMarket
  <2>2. /\ a \in MarketAccount /\ a.priced_at_seq = market[m].priced_at_seq
        /\ a.material_seq = market[m].material_seq
        /\ a.source_event = market[m].source_event /\ a.tolerance = market[m].tolerance
        /\ a.resolution = market[m].resolution
      BY <1>1 DEF MarketAccount
  <2> HIDE DEF a
  <2> QED  BY <1>4, <1>5, <2>1, <2>2
<1>11. CASE /\ tx.ix = "resolve_market_from_txline" /\ tx.market = m
            /\ ResolveMarketFromTxline(tx.market, tx.signer)
  <2> DEFINE outcome == OutcomeOf(m)
             result == [home |-> receipt[m].home, away |-> receipt[m].away]
             a == [market[m] EXCEPT !.resolution = outcome, !.trading_closed = TRUE,
                                    !.result = result]
  <2>1. market[m].resolution = "None" /\ market' = [market EXCEPT ![m] = a]
      BY <1>11 DEF ResolveMarketFromTxline, CanResolve, AwaitsResult
  <2>2. receipt[m] \in ReceiptAccount
    <3>1. receipt \in [Markets -> ReceiptAccount \cup {NoAccount}]
        BY DEF LegacyInv, LegacyTypeOK
    <3> QED  BY <1>11, <3>1 DEF ResolveMarketFromTxline, CanResolve, Exists
  <2>3. result \in [home : 0 .. MAX_SCORE, away : 0 .. MAX_SCORE]
      BY <2>2 DEF ReceiptAccount
  <2>4. outcome \in Sides \cup {"None", "Void"}
      BY DEF OutcomeOf, Derive, Sides
  <2> HIDE DEF outcome, result
  <2>5. /\ a \in MarketAccount /\ a.priced_at_seq = market[m].priced_at_seq
        /\ a.material_seq = market[m].material_seq
        /\ a.source_event = market[m].source_event /\ a.tolerance = market[m].tolerance
      BY <1>1, <2>3, <2>4 DEF MarketAccount
  <2> HIDE DEF a
  <2> QED  BY <1>4, <1>5, <2>1, <2>5
<1>12. CASE /\ tx.ix = "emergency_void_market" /\ tx.market = m
            /\ EmergencyVoidMarket(tx.market, tx.signer)
  <2> DEFINE a == [market[m] EXCEPT !.resolution = "Void", !.trading_closed = TRUE]
  <2>1. market' = [market EXCEPT ![m] = a]
      BY <1>12 DEF EmergencyVoidMarket
  <2>2. /\ a \in MarketAccount /\ a.priced_at_seq = market[m].priced_at_seq
        /\ a.material_seq = market[m].material_seq
        /\ a.source_event = market[m].source_event /\ a.tolerance = market[m].tolerance
        /\ a.resolution = "Void"
      BY <1>1 DEF MarketAccount
  <2> HIDE DEF a
  <2> QED  BY <1>4, <1>5, <2>1, <2>2
<1>13. CASE /\ tx.ix = "evaluate_order" /\ tx.order.market = m
            /\ EvaluateOrder(tx.order) /\ Fill(tx.order)
  <2> DEFINE side == order[tx.order].side
             stake == order[tx.order].stake
             pool == [market[m].pool EXCEPT ![side] = @ + stake]
             in == market[m].total_in + stake
             a == [market[m] EXCEPT !.pool = pool, !.total_in = in]
  <2>1. market' = [market EXCEPT ![m].pool[side] = @ + stake, ![m].total_in = @ + stake]
      BY <1>13 DEF Fill
  <2> HIDE DEF side, stake
  <2>2. market' = [market EXCEPT ![m] = a]
      BY <1>1, <2>1 DEF MarketAccount
  <2>3. market[m].pool \in [Sides -> Nat] /\ market[m].total_in \in Nat
      BY <1>1 DEF MarketAccount
  <2>4. stake \in Nat
    <3>1. Exists(order[tx.order])
        BY <1>13 DEF EvaluateOrder, CanEvaluate
    <3>2. order[tx.order] \in OrderAccount
        BY <1>13, <3>1, OrderFacts
    <3> QED  BY <3>2 DEF OrderAccount, stake
  <2>5. pool \in [Sides -> Nat] /\ in \in Nat
    <3>1. side \in Sides
      <4>1. Exists(order[tx.order])
          BY <1>13 DEF EvaluateOrder, CanEvaluate
      <4>2. order[tx.order] \in OrderAccount
          BY <1>13, <4>1, OrderFacts
      <4> QED  BY <4>2 DEF OrderAccount, side
    <3> QED  BY <2>3, <2>4, <3>1
  <2> HIDE DEF pool, in
  <2>6. /\ a \in MarketAccount /\ a.priced_at_seq = market[m].priced_at_seq
        /\ a.material_seq = market[m].material_seq
        /\ a.source_event = market[m].source_event /\ a.tolerance = market[m].tolerance
        /\ a.resolution = market[m].resolution
      BY <1>1, <2>5 DEF MarketAccount
  <2> HIDE DEF a
  <2> QED  BY <1>4, <1>5, <2>2, <2>6
<1>14. ASSUME tx.order \in Orders, Exists(order'[tx.order]), tx.order.market = m,
              \/ \E paid : market' = [market EXCEPT ![m].total_paid = paid]
              \/ \E refunded : market' = [market EXCEPT ![m].total_refunded = refunded]
       PROVE  /\ MarketLasts(market[m], market'[m]) /\ EventTells(market'[m])
              /\ StaleByEvent(market[m]) => StaleByEvent(market'[m])
  <2>1. /\ market'[m].priced_at_seq = market[m].priced_at_seq
        /\ market'[m].material_seq = market[m].material_seq
        /\ market'[m].source_event = market[m].source_event
        /\ market'[m].tolerance = market[m].tolerance
        /\ market'[m].resolution = market[m].resolution
      BY <1>1, <1>14 DEF MarketAccount
  <2>2. Exists(market'[m])
      BY <1>2, <1>14, Zenon DEF LegacyInv, OrderSound
  <2> QED  BY <1>4, <2>1, <2>2
<1>15. CASE \/ /\ tx.ix = "refund_voided_order" /\ tx.order.market = m
               /\ RefundVoidedOrder(tx.order)
            \/ /\ tx.ix = "settle_order" /\ tx.order.market = m
               /\ SettleOrder(tx.order)
  <2> DEFINE share == Payout(tx.order)
  <2>1. /\ Exists(order[tx.order]) /\ tx.order \in Orders
        /\ order' = [order EXCEPT ![tx.order].status = "Settled"]
        /\ \/ market' = [market EXCEPT ![m].total_refunded = @ + order[tx.order].stake]
           \/ market' = [market EXCEPT ![m].total_paid = @ + share]
      BY <1>15 DEF RefundVoidedOrder, SettleOrder, PayTrader, CanRefundVoided, CanSettle,
                   FilledAndResolved
  <2> HIDE DEF share
  <2>2. order[tx.order] \in OrderAccount /\ order \in [Orders -> OrderAccount \cup {NoAccount}]
      BY <2>1, OrderFacts DEF LegacyInv, LegacyTypeOK
  <2>3. order'[tx.order] \in OrderAccount
      BY <2>1, <2>2 DEF OrderAccount
  <2>4. Exists(order'[tx.order])
      BY <2>3 DEF Exists, LegacyAssumption
  <2>5. \/ \E paid : market' = [market EXCEPT ![m].total_paid = paid]
        \/ \E refunded : market' = [market EXCEPT ![m].total_refunded = refunded]
      BY <2>1
  <2>6. tx.order.market = m
      BY <1>15
  <2> QED  BY <1>14, <2>1, <2>4, <2>5, <2>6
<1> QED
    BY <1>6, <1>7, <1>8, <1>9, <1>10, <1>11, <1>12, <1>13, <1>15, OtherMarketsRest
    DEF Execute, AttachMarketConfig, InitializeVault, PlaceOrder, SubmitTxlineValidation,
        ConfirmValidation, EvaluateOrder, VoidAndRefund, MarketRests

\* What an instruction makes of an order, and of one that it brings.
LEMMA OrdersLast ==
    ASSUME LegacyAssumption, LegacyInv, OrdersTell, NEW tx, TypedTransaction(tx),
           Execute(tx), NEW o \in Orders
    PROVE  /\ OrderLasts(order[o], order'[o])
           /\ \/ order'[o] = order[o]
              \/ Exists(order'[o]) /\ OrderTells(order'[o], market'[o.market])
           /\ VoidedForEvents(o.market) /\ Exists(order'[o]) =>
                 (order'[o].status = "VoidedRefunded" => order'[o].event > 0)
<1>1. /\ order \in [Orders -> OrderAccount \cup {NoAccount}]
      /\ Exists(order[o]) =>
            /\ order[o] \in OrderAccount /\ OrderTells(order[o], market[o.market])
            /\ Exists(market[o.market]) /\ OrderSound(order[o], market[o.market], vault)
      /\ o.market \in Markets
    BY OrderFacts DEF LegacyInv, LegacyTypeOK, OrdersTell, LegacyAssumption
<1>2. Exists(market[o.market]) => MarketLasts(market[o.market], market'[o.market])
    BY <1>1, MarketsLast DEF OrdersTell
<1>3. Exists(market[o.market]) =>
          /\ market[o.market] \in MarketAccount /\ EventTells(market[o.market])
    BY <1>1, MarketFacts DEF OrdersTell
<1>4. \A x \in OrderAccount : Exists(x)
    BY DEF Exists, LegacyAssumption
<1>5. CASE order'[o] = order[o]
    BY <1>5 DEF OrderLasts, VoidedForEvents
<1>6. CASE /\ tx.ix = "place_order" /\ tx.order = o
           /\ PlaceOrder(tx.order, tx.signer, tx.side, tx.stake)
  <2> DEFINE price == SidePrice(tx.side, market[o.market].displayed)
             x == [ trader |-> tx.signer, side |-> tx.side, stake |-> tx.stake,
                    observed |-> price, edge |-> 0, status |-> "Escrowed",
                    verdict |-> "ALLOWED", event |-> Zero, lamports |-> tx.stake ]
  <2>1. ~ Exists(order[o]) /\ Exists(market[o.market]) /\ order' = [order EXCEPT ![o] = x]
      BY <1>6 DEF PlaceOrder, CanPlace
  <2>2. order'[o] = x
      BY <1>1, <2>1
  <2>3. market' = market
      BY <1>6 DEF PlaceOrder
  <2>4. market[o.market].material_seq \in Nat
      BY <1>3, <2>1 DEF MarketAccount
  <2>5. OrderTells(x, market[o.market])
      BY <2>4 DEF OrderTells, Zero
  <2>6. Exists(x)
    <3>1. price \in Prices
      <4>1. market[o.market].displayed \in Prices /\ MICROS_ONE \in Nat
          BY <1>3, <2>1 DEF MarketAccount, LegacyAssumption
      <4> QED  BY <4>1 DEF SidePrice, Prices, price
    <3>2. tx.signer \in Users /\ tx.side \in Sides /\ tx.stake \in Nat \ {0}
        BY <1>6 DEF TypedTransaction, ByOrderInstructions, ByMarketInstructions, PlaceOrder,
                    CanPlace
    <3> HIDE DEF price
    <3>3. x \in OrderAccount
        BY <3>1, <3>2 DEF OrderAccount, Zero
    <3> QED  BY <1>4, <3>3
  <2>7. x.status = "Escrowed"
      OBVIOUS
  <2> HIDE DEF x
  <2> QED  BY <2>1, <2>2, <2>3, <2>5, <2>6, <2>7 DEF OrderLasts
<1>7. CASE tx.ix = "evaluate_order" /\ tx.order = o /\ EvaluateOrder(tx.order)
  <2> DEFINE a == market[o.market]
  <2>1. /\ CanEvaluate(o) /\ Exists(order[o]) /\ order[o].status = "Escrowed"
        /\ Exists(a)
      BY <1>1, <1>7 DEF EvaluateOrder, CanEvaluate
  <2>2. PICK status \in {"Filled", "VoidedRefunded"} :
            /\ order' = [order EXCEPT ![o] = EvaluatedOrder(o, status)]
            /\ status = "VoidedRefunded" <=> GuardVerdict(o) = "VOIDED_REFUNDED"
      BY <1>7 DEF EvaluateOrder, VoidAndRefund, Fill
  <2> DEFINE x == EvaluatedOrder(o, status)
  <2>3. x \in OrderAccount /\ x.status = status
      BY <2>1, EvaluatedTyped
  <2>4. x.edge = EdgeOf(o) /\ x.verdict = GuardVerdict(o) /\ x.event = a.source_event
      BY <1>1, <2>1 DEF EvaluatedOrder, OrderAccount
  <2> HIDE DEF x
  <2>5. order'[o] = x
      BY <1>1, <2>2 DEF x
  <2>6. /\ a.source_event \in Nat /\ a.material_seq \in Nat /\ a.priced_at_seq \in Nat
      BY <1>3, <2>1 DEF MarketAccount
  <2>7. x.event <= a.material_seq
      BY <1>3, <2>1, <2>4, <2>6 DEF EventTells, Zero
  <2>8. GuardVerdict(o) = "VOIDED_REFUNDED" =>
            /\ x.edge > a.tolerance
            /\ VoidedForEvents(o.market) => x.event > 0
      BY <1>3, <2>1, <2>4, <2>6
      DEF EventTells, GuardVerdict, IsStale, Zero, VoidedForEvents, StaleByEvent
  <2>9. market'[o.market].material_seq >= a.material_seq
        /\ market'[o.market].tolerance = a.tolerance
        /\ market'[o.market].material_seq \in Nat
    <3>1. market'[o.market] \in MarketAccount
        BY <1>2, <2>1, ExecuteKeeps, <1>1 DEF LegacyInv, LegacyTypeOK, MarketLasts, Exists
    <3> QED  BY <1>2, <2>1, <3>1 DEF MarketLasts, MarketAccount
  <2>10. OrderTells(x, market'[o.market])
      BY <2>2, <2>3, <2>4, <2>6, <2>7, <2>8, <2>9 DEF OrderTells
  <2> QED  BY <1>4, <2>1, <2>2, <2>3, <2>5, <2>8, <2>10 DEF OrderLasts
<1>8. CASE /\ tx.order = o
           /\ \/ tx.ix = "refund_voided_order" /\ RefundVoidedOrder(tx.order)
              \/ tx.ix = "settle_order" /\ SettleOrder(tx.order)
  <2>1. /\ Exists(order[o]) /\ order[o].status = "Filled"
        /\ order' = [order EXCEPT ![o].status = "Settled"]
        /\ market[o.market].resolution # "None"
      BY <1>8 DEF RefundVoidedOrder, SettleOrder, PayTrader, CanRefundVoided, CanSettle,
                  FilledAndResolved, Sides
  <2> DEFINE y == [order[o] EXCEPT !.status = "Settled"]
  <2>2. /\ order'[o] = y /\ y \in OrderAccount
        /\ y.status = "Settled" /\ y.verdict = order[o].verdict /\ y.edge = order[o].edge
        /\ y.event = order[o].event /\ y.lamports = order[o].lamports
      BY <1>1, <2>1 DEF OrderAccount
  <2> HIDE DEF y
  <2>3. /\ market'[o.market].material_seq >= market[o.market].material_seq
        /\ market'[o.market].resolution # "None"
        /\ market'[o.market].material_seq \in Nat
        /\ market[o.market].material_seq \in Nat /\ order[o].event \in Nat
    <3>1. market'[o.market] \in MarketAccount
        BY <1>2, <2>1, ExecuteKeeps, <1>1 DEF LegacyInv, LegacyTypeOK, MarketLasts, Exists
    <3> QED  BY <1>1, <1>2, <1>3, <2>1, <3>1 DEF MarketLasts, MarketAccount, OrderAccount
  <2>4. OrderTells(y, market'[o.market])
      BY <1>1, <2>1, <2>2, <2>3 DEF OrderTells
  <2> QED  BY <1>4, <2>1, <2>2, <2>4 DEF OrderLasts
<1>9. CASE tx.ix \in ByOrderInstructions /\ tx.order # o
  <2>1. CASE tx.ix = "place_order" /\ PlaceOrder(tx.order, tx.signer, tx.side, tx.stake)
    <3> DEFINE x == order'[tx.order]
    <3>1. order' = [order EXCEPT ![tx.order] = x]
        BY <1>1, <2>1 DEF PlaceOrder
    <3> HIDE DEF x
    <3> QED  BY <1>1, <1>5, <1>9, <3>1
  <2>2. CASE tx.ix = "evaluate_order" /\ EvaluateOrder(tx.order)
    <3>1. PICK status : order' = [order EXCEPT ![tx.order] = EvaluatedOrder(tx.order, status)]
        BY <2>2 DEF EvaluateOrder, VoidAndRefund, Fill
    <3> DEFINE x == EvaluatedOrder(tx.order, status)
    <3> HIDE DEF x
    <3>2. order' = [order EXCEPT ![tx.order] = x]
        BY <3>1 DEF x
    <3> QED  BY <1>1, <1>5, <1>9, <3>2
  <2>3. CASE \/ tx.ix = "refund_voided_order" /\ RefundVoidedOrder(tx.order)
             \/ tx.ix = "settle_order" /\ SettleOrder(tx.order)
    <3>1. order' = [order EXCEPT ![tx.order].status = "Settled"]
        BY <2>3 DEF RefundVoidedOrder, SettleOrder, PayTrader
    <3> QED  BY <1>1, <1>5, <1>9, <3>1
  <2> QED  BY <1>9, <2>1, <2>2, <2>3 DEF Execute, ByOrderInstructions
<1> QED
    BY <1>5, <1>6, <1>7, <1>8, <1>9
    DEF Execute, InitializeMarket, InitializeMarketConfig, AttachMarketConfig,
        InitializeVault, IngestMaterialEvent, RepriceMarket, CloseMarket,
        SubmitTxlineValidation, ConfirmValidation, ResolveMarketFromTxline,
        EmergencyVoidMarket, ByOrderInstructions

\* How a market comes to be there.
LEMMA OpensMarket ==
    ASSUME LegacyAssumption, LegacyInv, NEW tx, TypedTransaction(tx), Execute(tx),
           NEW m \in Markets, ~ Exists(market[m]), Exists(market'[m])
    PROVE  /\ tx.market = m
           /\ \/ /\ tx.ix = "initialize_market"
                 /\ market'[m] = NewMarket(tx.signer, [tx.terms EXCEPT !.close_time = Zero,
                                                                       !.fixture = Zero])
              \/ /\ tx.ix = "initialize_market_config"
                 /\ market'[m] = NewMarket(tx.signer, tx.terms)
<1>1. /\ market \in [Markets -> MarketAccount \cup {NoAccount}]
      /\ \A o \in Orders : Exists(order[o]) => o.market # m
    BY OrderFacts DEF LegacyInv, LegacyTypeOK
<1>2. market'[m] # market[m]
    OBVIOUS
<1> USE DEF TypedTransaction, ByMarketInstructions, ByOrderInstructions
<1>3. tx.ix \in ByMarketInstructions /\ tx.market = m
  <2>1. CASE tx.ix \in ByOrderInstructions /\ tx.order.market = m
    <3>1. CASE tx.ix = "place_order"
        BY <1>2, <3>1 DEF Execute, PlaceOrder
    <3>2. CASE tx.ix # "place_order"
      <4>1. tx.order \in Orders /\ Exists(order[tx.order])
          BY <2>1, <3>2 DEF Execute, EvaluateOrder, CanEvaluate, RefundVoidedOrder,
                CanRefundVoided, SettleOrder, CanSettle, FilledAndResolved
      <4> QED  BY <1>1, <2>1, <4>1
    <3> QED  BY <3>1, <3>2
  <2> QED  BY <1>2, <2>1, OtherMarketsRest DEF MarketRests, Execute
<1> HIDE DEF TypedTransaction, ByOrderInstructions
<1>4. \/ tx.ix = "initialize_market" /\ InitializeMarket(m, tx.signer, tx.terms)
      \/ tx.ix = "initialize_market_config" /\ InitializeMarketConfig(m, tx.signer, tx.terms)
    BY <1>2, <1>3 DEF Execute, AttachMarketConfig, IngestMaterialEvent, CanIngest,
          RepriceMarket, CanReprice, CloseMarket, CanClose, SubmitTxlineValidation,
          ConfirmValidation, ResolveMarketFromTxline, CanResolve, AwaitsResult,
          EmergencyVoidMarket, CanEmergencyVoid
<1>5. CASE tx.ix = "initialize_market" /\ InitializeMarket(m, tx.signer, tx.terms)
  <2> DEFINE a == NewMarket(tx.signer, [tx.terms EXCEPT !.close_time = Zero,
                                                        !.fixture = Zero])
  <2>1. market' = [market EXCEPT ![m] = a]
      BY <1>5 DEF InitializeMarket
  <2> HIDE DEF a
  <2>2. market'[m] = a
      BY <1>1, <2>1
  <2> QED  BY <1>3, <1>5, <2>2 DEF a
<1>6. CASE /\ tx.ix = "initialize_market_config"
           /\ InitializeMarketConfig(m, tx.signer, tx.terms)
  <2> DEFINE a == NewMarket(tx.signer, tx.terms)
  <2>1. market' = [market EXCEPT ![m] = a]
      BY <1>6 DEF InitializeMarketConfig
  <2> HIDE DEF a
  <2>2. market'[m] = a
      BY <1>1, <2>1
  <2> QED  BY <1>3, <1>6, <2>2 DEF a
<1> QED  BY <1>4, <1>5, <1>6

\* A market that is opened has had no event.
LEMMA NewMarketTells ==
    ASSUME LegacyAssumption, LegacyInv, NEW tx, TypedTransaction(tx), Execute(tx),
           NEW m \in Markets, ~ Exists(market[m]), Exists(market'[m])
    PROVE  EventTells(market'[m])
<1>1. \E terms : market'[m] = NewMarket(tx.signer, terms)
    BY OpensMarket
<1> QED  BY <1>1 DEF NewMarket, EventTells

\* How an order comes to be there.
LEMMA PlacesOrder ==
    ASSUME LegacyAssumption, LegacyInv, OrdersTell, NEW tx, TypedTransaction(tx),
           Execute(tx), NEW o \in Orders, ~ Exists(order[o]), Exists(order'[o])
    PROVE  tx.ix = "place_order" /\ tx.order = o
<1>1. order \in [Orders -> OrderAccount \cup {NoAccount}] /\ order'[o] # order[o]
    BY DEF LegacyInv, LegacyTypeOK
<1>2. CASE tx.ix = "place_order"
  <2> DEFINE x == order'[tx.order]
  <2>1. order' = [order EXCEPT ![tx.order] = x]
      BY <1>1, <1>2 DEF Execute, PlaceOrder
  <2> HIDE DEF x
  <2> QED  BY <1>1, <1>2, <2>1
<1>3. CASE tx.ix = "evaluate_order"
  <2>1. EvaluateOrder(tx.order) /\ tx.order # o
      BY <1>3 DEF Execute, EvaluateOrder, CanEvaluate
  <2>2. PICK status : order' = [order EXCEPT ![tx.order] = EvaluatedOrder(tx.order, status)]
      BY <2>1 DEF EvaluateOrder, VoidAndRefund, Fill
  <2> DEFINE x == EvaluatedOrder(tx.order, status)
  <2> HIDE DEF x
  <2>3. order' = [order EXCEPT ![tx.order] = x]
      BY <2>2 DEF x
  <2> QED  BY <1>1, <2>1, <2>3
<1>4. CASE tx.ix \in {"refund_voided_order", "settle_order"}
  <2>1. /\ order' = [order EXCEPT ![tx.order].status = "Settled"]
        /\ tx.order # o
      BY <1>4 DEF Execute, RefundVoidedOrder, SettleOrder, PayTrader, CanRefundVoided,
                  CanSettle, FilledAndResolved
  <2> QED  BY <1>1, <2>1
<1>5. CASE order' = order
    BY <1>1, <1>5
<1> QED
    BY <1>2, <1>3, <1>4, <1>5
    DEF Execute, InitializeMarket, InitializeMarketConfig, AttachMarketConfig,
        InitializeVault, IngestMaterialEvent, RepriceMarket, CloseMarket,
        SubmitTxlineValidation, ConfirmValidation, ResolveMarketFromTxline,
        EmergencyVoidMarket

\* How a market comes to be closed, and an order that waited in it is not evaluated.
LEMMA ClosesMarket ==
    ASSUME LegacyAssumption, LegacyInv, NEW tx, TypedTransaction(tx), Execute(tx),
           NEW m \in Markets, Exists(market'[m]),
           market'[m].trading_closed \/ market'[m].resolution # "None",
           Exists(market[m]) =>
              ~ market[m].trading_closed /\ market[m].resolution = "None"
    PROVE  /\ tx.market = m
           /\ tx.ix \in {"close_market", "resolve_market_from_txline", "emergency_void_market"}
<1>1. market \in [Markets -> MarketAccount \cup {NoAccount}]
    BY DEF LegacyInv, LegacyTypeOK
<1>2. Exists(market[m])
  <2>1. SUFFICES ASSUME ~ Exists(market[m])
                 PROVE  FALSE
      OBVIOUS
  <2>2. PICK terms : market'[m] = NewMarket(tx.signer, terms)
      BY <2>1, OpensMarket
  <2> QED  BY <2>2 DEF NewMarket
<1>3. /\ market[m] \in MarketAccount /\ ~ market[m].trading_closed
      /\ market[m].resolution = "None"
    BY <1>1, <1>2 DEF Exists
<1> USE DEF TypedTransaction, ByMarketInstructions, ByOrderInstructions
<1>4. tx.ix \in ByMarketInstructions => tx.market = m
    BY <1>3, OtherMarketsRest DEF MarketRests
<1>5. tx.ix \in ByOrderInstructions => tx.order.market = m
    BY <1>3, OtherMarketsRest DEF MarketRests
<1>6. CASE market' = market
    BY <1>3, <1>6
<1>7. CASE tx.ix \in {"initialize_market", "initialize_market_config"}
    BY <1>2, <1>4, <1>7 DEF Execute, InitializeMarket, CanInitializeMarket,
          InitializeMarketConfig, CanInitializeMarketConfig
<1>8. CASE tx.ix \in {"ingest_material_event", "reprice_market"}
    BY <1>1, <1>3, <1>4, <1>8 DEF Execute, IngestMaterialEvent, RepriceMarket, MarketAccount
<1>9. CASE tx.ix = "evaluate_order"
  <2>1. EvaluateOrder(tx.order)
      BY <1>9 DEF Execute
  <2> DEFINE side == order[tx.order].side
             stake == order[tx.order].stake
  <2>2. CASE Fill(tx.order)
    <3>1. market' = [market EXCEPT ![m].pool[side] = @ + stake, ![m].total_in = @ + stake]
        BY <1>5, <1>9, <2>2 DEF Fill
    <3> HIDE DEF side, stake
    <3> QED  BY <1>1, <1>3, <3>1 DEF MarketAccount
  <2> QED  BY <1>6, <2>1, <2>2 DEF EvaluateOrder, VoidAndRefund
<1>10. CASE tx.ix \in {"refund_voided_order", "settle_order"}
    BY <1>3, <1>5, <1>10 DEF Execute, RefundVoidedOrder, SettleOrder, CanRefundVoided,
          CanSettle, FilledAndResolved, Sides
<1> QED
    BY <1>4, <1>6, <1>7, <1>8, <1>9, <1>10
    DEF Execute, AttachMarketConfig, InitializeVault, PlaceOrder, SubmitTxlineValidation,
        ConfirmValidation

\* Only a repricing changes what a market shows.
LEMMA PricesStay ==
    ASSUME LegacyAssumption, LegacyInv, NEW tx, TypedTransaction(tx), Execute(tx),
           NEW m \in Markets, Exists(market[m]),
           market'[m].displayed # market[m].displayed
    PROVE  /\ tx.ix = "reprice_market" /\ tx.market = m
           /\ market'[m].displayed = tx.price
<1>1. market \in [Markets -> MarketAccount \cup {NoAccount}] /\ market[m] \in MarketAccount
    BY MarketFacts DEF LegacyInv, LegacyTypeOK
<1> USE DEF TypedTransaction, ByMarketInstructions, ByOrderInstructions
<1>2. tx.ix \in ByMarketInstructions => tx.market = m
    BY OtherMarketsRest DEF MarketRests
<1>3. tx.ix \in ByOrderInstructions => tx.order.market = m
    BY OtherMarketsRest DEF MarketRests
<1>4. CASE market' = market
    BY <1>4
<1>5. CASE tx.ix \in {"initialize_market", "initialize_market_config"}
    BY <1>2, <1>5 DEF Execute, InitializeMarket, CanInitializeMarket,
          InitializeMarketConfig, CanInitializeMarketConfig
<1>6. CASE tx.ix = "reprice_market"
  <2>1. RepriceMarket(m, tx.signer, tx.price)
      BY <1>2, <1>6 DEF Execute
  <2> DEFINE price == tx.price
             seq == market[m].material_seq
  <2>2. market' = [market EXCEPT ![m].displayed = price, ![m].priced_at_seq = seq,
                                 ![m].status = "Trading"]
      BY <2>1 DEF RepriceMarket
  <2> HIDE DEF price, seq
  <2>3. market'[m].displayed = price
      BY <1>1, <2>2 DEF MarketAccount
  <2> QED  BY <1>2, <1>6, <2>3 DEF price
<1>7. CASE tx.ix = "ingest_material_event"
  <2>1. IngestMaterialEvent(m, tx.signer, tx.seq, tx.price)
      BY <1>2, <1>7 DEF Execute
  <2> DEFINE price == tx.price
             seq == tx.seq
             status == IF seq > market[m].priced_at_seq THEN "Stale" ELSE market[m].status
  <2>2. market' = [market EXCEPT ![m].material_seq = seq, ![m].fair = price,
                                 ![m].source_event = seq, ![m].status = status]
      BY <1>1, <2>1 DEF IngestMaterialEvent, MarketAccount
  <2> HIDE DEF price, seq, status
  <2> QED  BY <1>1, <2>2 DEF MarketAccount
<1>8. CASE tx.ix = "evaluate_order"
  <2>1. EvaluateOrder(tx.order)
      BY <1>8 DEF Execute
  <2> DEFINE side == order[tx.order].side
             stake == order[tx.order].stake
  <2>2. CASE Fill(tx.order)
    <3>1. market' = [market EXCEPT ![m].pool[side] = @ + stake, ![m].total_in = @ + stake]
        BY <1>3, <1>8, <2>2 DEF Fill
    <3> HIDE DEF side, stake
    <3> QED  BY <1>1, <3>1 DEF MarketAccount
  <2> QED  BY <1>4, <2>1, <2>2 DEF EvaluateOrder, VoidAndRefund
<1>9. CASE tx.ix \in {"refund_voided_order", "settle_order", "close_market",
                      "resolve_market_from_txline", "emergency_void_market"}
  <2>1. PICK a : /\ market' = [market EXCEPT ![m] = a]
                 /\ a.displayed = market[m].displayed
    <3>1. CASE tx.ix = "refund_voided_order"
      <4> DEFINE n == market[m].total_refunded + order[tx.order].stake
                 a == [market[m] EXCEPT !.total_refunded = n]
      <4>1. market' = [market EXCEPT ![m] = a]
          BY <1>1, <1>3, <3>1 DEF Execute, RefundVoidedOrder, MarketAccount
      <4> HIDE DEF n
      <4>2. a.displayed = market[m].displayed
          BY <1>1 DEF MarketAccount
      <4> QED  BY <4>1, <4>2
    <3>2. CASE tx.ix = "settle_order"
      <4> DEFINE n == market'[m].total_paid
                 a == [market[m] EXCEPT !.total_paid = n]
      <4>1. market' = [market EXCEPT ![m] = a]
          BY <1>1, <1>3, <3>2 DEF Execute, SettleOrder, MarketAccount
      <4> HIDE DEF n
      <4>2. a.displayed = market[m].displayed
          BY <1>1 DEF MarketAccount
      <4> QED  BY <4>1, <4>2
    <3>3. CASE tx.ix = "close_market"
      <4> DEFINE a == [market[m] EXCEPT !.trading_closed = TRUE]
      <4>1. market' = [market EXCEPT ![m] = a]
          BY <1>1, <1>2, <3>3 DEF Execute, CloseMarket
      <4>2. a.displayed = market[m].displayed
          BY <1>1 DEF MarketAccount
      <4> QED  BY <4>1, <4>2
    <3>4. CASE tx.ix = "resolve_market_from_txline"
      <4> DEFINE outcome == OutcomeOf(m)
                 result == [home |-> receipt[m].home, away |-> receipt[m].away]
                 a == [market[m] EXCEPT !.resolution = outcome, !.trading_closed = TRUE,
                                        !.result = result]
      <4>0. market' = [market EXCEPT ![m].resolution = outcome, ![m].trading_closed = TRUE,
                                     ![m].result = result]
          BY <1>2, <3>4 DEF Execute, ResolveMarketFromTxline
      <4> HIDE DEF outcome, result
      <4>1. market' = [market EXCEPT ![m] = a]
          BY <1>1, <4>0 DEF MarketAccount
      <4>2. a.displayed = market[m].displayed
          BY <1>1 DEF MarketAccount
      <4> QED  BY <4>1, <4>2
    <3>5. CASE tx.ix = "emergency_void_market"
      <4> DEFINE a == [market[m] EXCEPT !.resolution = "Void", !.trading_closed = TRUE]
      <4>1. market' = [market EXCEPT ![m] = a]
          BY <1>1, <1>2, <3>5 DEF Execute, EmergencyVoidMarket, MarketAccount
      <4>2. a.displayed = market[m].displayed
          BY <1>1 DEF MarketAccount
      <4> QED  BY <4>1, <4>2
    <3> QED  BY <1>9, <3>1, <3>2, <3>3, <3>4, <3>5
  <2> QED  BY <1>1, <2>1
<1> QED
    BY <1>4, <1>5, <1>6, <1>7, <1>8, <1>9
    DEF Execute, AttachMarketConfig, InitializeVault, PlaceOrder, SubmitTxlineValidation,
        ConfirmValidation

\* An order's stake stays what it was.
LEMMA StakesStay ==
    ASSUME LegacyAssumption, LegacyInv, LegacyStep, NEW o \in Orders, Exists(order[o])
    PROVE  order'[o].stake = order[o].stake
<1>1. /\ order \in [Orders -> OrderAccount \cup {NoAccount}] /\ order[o] \in OrderAccount
    BY OrderFacts DEF LegacyInv, LegacyTypeOK
<1>2. CASE order' = order
    BY <1>2
<1>3. ASSUME NEW tx, TypedTransaction(tx), Execute(tx)
      PROVE  order'[o].stake = order[o].stake
  <2>1. CASE tx.ix = "place_order"
    <3>1. tx.order # o
        BY <2>1, <1>3 DEF Execute, PlaceOrder, CanPlace
    <3> DEFINE x == order'[tx.order]
    <3>2. order' = [order EXCEPT ![tx.order] = x]
        BY <1>1, <1>3, <2>1 DEF Execute, PlaceOrder
    <3> HIDE DEF x
    <3> QED  BY <1>1, <3>1, <3>2
  <2>2. CASE tx.ix = "evaluate_order"
    <3>1. PICK status : order' = [order EXCEPT ![tx.order] = EvaluatedOrder(tx.order, status)]
        BY <1>3, <2>2 DEF Execute, EvaluateOrder, VoidAndRefund, Fill
    <3> DEFINE edge == EdgeOf(o)
               verdict == GuardVerdict(o)
               left == order[o].lamports - order[o].stake
               event == market[o.market].source_event
               x == [order[o] EXCEPT !.edge = edge, !.verdict = verdict,
                                     !.status = status, !.lamports = left,
                                     !.event = event]
    <3>2. tx.order = o => EvaluatedOrder(tx.order, status) = x
        BY <1>1 DEF EvaluatedOrder, OrderAccount
    <3> HIDE DEF edge, verdict, left, event
    <3>3. x.stake = order[o].stake
        BY <1>1 DEF OrderAccount
    <3> HIDE DEF x
    <3>4. CASE tx.order = o
        BY <1>1, <3>1, <3>2, <3>3, <3>4
    <3>5. CASE tx.order # o
      <4> DEFINE y == EvaluatedOrder(tx.order, status)
      <4> HIDE DEF y
      <4>1. order' = [order EXCEPT ![tx.order] = y]
          BY <3>1 DEF y
      <4> QED  BY <1>1, <3>5, <4>1
    <3> QED  BY <3>4, <3>5
  <2>3. CASE tx.ix \in {"refund_voided_order", "settle_order"}
    <3>1. order' = [order EXCEPT ![tx.order].status = "Settled"]
        BY <1>3, <2>3 DEF Execute, RefundVoidedOrder, SettleOrder, PayTrader
    <3> QED  BY <1>1, <3>1 DEF OrderAccount
  <2> QED
      BY <1>2, <1>3, <2>1, <2>2, <2>3
      DEF Execute, InitializeMarket, InitializeMarketConfig, AttachMarketConfig,
          InitializeVault, IngestMaterialEvent, RepriceMarket, CloseMarket,
          SubmitTxlineValidation, ConfirmValidation, ResolveMarketFromTxline,
          EmergencyVoidMarket
<1> QED  BY <1>2, <1>3 DEF LegacyStep, Tick, legacyVars

\* Whoever does something to the program: what no instruction takes back is not taken
\* back, and orders and markets tell what they told.
LEMMA StepLasts ==
    ASSUME LegacyAssumption, LegacyInv, OrdersTell, LegacyStep
    PROVE  AccountsLast /\ OrdersTell'
<1>1. CASE UNCHANGED <<market, config, order>>
  <2>1. \A m \in Markets : Exists(market[m]) => market[m] \in MarketAccount
      BY MarketFacts
  <2>2. \A m \in Markets : MarketLasts(market[m], market[m])
      BY <2>1 DEF MarketLasts, MarketAccount
  <2>3. \A o \in Orders : OrderLasts(order[o], order[o])
      BY DEF OrderLasts
  <2> QED  BY <1>1, <2>2, <2>3 DEF AccountsLast, OrdersTell
<1>2. ASSUME NEW tx, TypedTransaction(tx), Execute(tx)
      PROVE  AccountsLast /\ OrdersTell'
  <2>1. ASSUME NEW m \in Markets
        PROVE  /\ MarketLasts(market[m], market'[m])
               /\ Exists(market'[m]) => EventTells(market'[m])
               /\ Exists(config[m]) => config'[m] = config[m]
      BY <1>2, ConfigsLast, MarketsLast, NewMarketTells DEF MarketLasts, OrdersTell
  <2>2. ASSUME NEW o \in Orders
        PROVE  /\ OrderLasts(order[o], order'[o])
               /\ Exists(order'[o]) => OrderTells(order'[o], market'[o.market])
    <3>1. /\ OrderLasts(order[o], order'[o])
          /\ \/ order'[o] = order[o]
             \/ Exists(order'[o]) /\ OrderTells(order'[o], market'[o.market])
        BY <1>2, OrdersLast
    <3>2. CASE order'[o] = order[o] /\ Exists(order[o])
      <4>1. /\ order[o] \in OrderAccount /\ OrderTells(order[o], market[o.market])
            /\ o.market \in Markets /\ Exists(market[o.market])
            /\ market[o.market] \in MarketAccount
          BY <3>2, OrderFacts, MarketFacts DEF OrdersTell
      <4>2. MarketLasts(market[o.market], market'[o.market])
          BY <2>1, <4>1
      <4>3. market'[o.market] \in MarketAccount
          BY <1>2, <4>1, <4>2, ExecuteKeeps DEF LegacyInv, LegacyTypeOK, MarketLasts, Exists
      <4>4. /\ market[o.market].material_seq \in Nat /\ order[o].event \in Nat
            /\ market'[o.market].material_seq \in Nat
          BY <4>1, <4>3 DEF MarketAccount, OrderAccount
      <4> QED  BY <3>1, <3>2, <4>1, <4>2, <4>4 DEF OrderTells, MarketLasts
    <3> QED  BY <3>1, <3>2
  <2> QED  BY <2>1, <2>2 DEF AccountsLast, OrdersTell
<1> QED  BY <1>1, <1>2 DEF LegacyStep, Tick, legacyVars

\* A market that was not stale when it was opened stays one that only events make so.
LEMMA VoidedForEventsLasts ==
    ASSUME LegacyAssumption, LegacyInv, OrdersTell, LegacyStep,
           NEW m \in Markets, VoidedForEvents(m),
           ~ Exists(market[m]) /\ Exists(market'[m]) => StaleByEvent(market'[m])
    PROVE  VoidedForEvents(m)'
<1>1. CASE UNCHANGED <<market, order>>
    BY <1>1 DEF VoidedForEvents
<1>2. ASSUME NEW tx, TypedTransaction(tx), Execute(tx)
      PROVE  VoidedForEvents(m)'
  <2>1. Exists(market'[m]) => StaleByEvent(market'[m])
      BY <1>2, MarketsLast DEF VoidedForEvents, OrdersTell
  <2>2. ASSUME NEW o \in Orders, o.market = m, Exists(order'[o])
        PROVE  order'[o].status = "VoidedRefunded" => order'[o].event > 0
      BY <1>2, <2>2, OrdersLast
  <2> QED  BY <2>1, <2>2 DEF VoidedForEvents
<1> QED  BY <1>1, <1>2 DEF LegacyStep, Tick, legacyVars

\* A market that was opened is there, and an order that was placed.
LEMMA OpenedIsThere ==
    ASSUME LegacyAssumption, LegacyInv, NEW m \in Markets, NEW authority \in Users,
           NEW terms \in MarketTerms, InitializeMarketConfig(m, authority, terms)
    PROVE  Exists(market'[m])
<1> DEFINE a == NewMarket(authority, terms)
<1>1. a \in MarketAccount
  <2>1. {terms.displayed, terms.fair, terms.tolerance} \subseteq Prices
      BY DEF InitializeMarketConfig, CanInitializeMarketConfig, Prices, LegacyAssumption
  <2>2. [s \in Sides |-> 0] \in [Sides -> Nat]
      OBVIOUS
  <2> QED  BY <2>1, <2>2 DEF NewMarket, MarketAccount, MarketTerms, Zero
<1>2. market' = [market EXCEPT ![m] = a]
    BY DEF InitializeMarketConfig
<1> HIDE DEF a
<1>3. market'[m] = a
    BY <1>2 DEF LegacyInv, LegacyTypeOK
<1> QED  BY <1>1, <1>3 DEF Exists, LegacyAssumption

LEMMA PlacedIsThere ==
    ASSUME LegacyAssumption, LegacyInv, NEW o \in Orders, NEW trader \in Users,
           NEW side \in Sides, NEW stake \in Nat, PlaceOrder(o, trader, side, stake)
    PROVE  Exists(order'[o])
<1> DEFINE price == SidePrice(side, market[o.market].displayed)
           x == [ trader |-> trader, side |-> side, stake |-> stake,
                  observed |-> price, edge |-> 0, status |-> "Escrowed",
                  verdict |-> "ALLOWED", event |-> Zero, lamports |-> stake ]
<1>1. order'[o] = x /\ stake \in Nat \ {0}
    BY DEF PlaceOrder, CanPlace, LegacyInv, LegacyTypeOK
<1>2. price \in Prices
  <2>1. o.market \in Markets /\ Exists(market[o.market]) /\ MICROS_ONE \in Nat
      BY DEF PlaceOrder, CanPlace, LegacyAssumption
  <2>2. market[o.market].displayed \in Prices
      BY <2>1, MarketFacts DEF MarketAccount
  <2> QED  BY <2>1, <2>2 DEF SidePrice, Prices
<1> HIDE DEF price
<1>3. x \in OrderAccount
    BY <1>1, <1>2 DEF OrderAccount, Zero
<1> HIDE DEF x
<1> QED  BY <1>1, <1>3 DEF Exists, LegacyAssumption
=============================================================================
