--------------------------- MODULE MCFairXVaultV4 ---------------------------
(***************************************************************************)
(* Instances of FairXVaultV4 for TLC.  MICROS_ONE is 100 instead of a      *)
(* million and the recorded odds are the canonical ones divided by 100, so *)
(* that the four execution prices (54 and 48 before the goal, 87 and 15    *)
(* after it) and the floors of the payouts keep their character.           *)
(***************************************************************************)
EXTENDS FairXVaultV4Refinement, TLC

CONSTANTS t1, t2,                   \* traders
          op, feed, pricer,         \* the operator, feed and pricing keys
          r1, r2, r3,               \* the resolvers
          outsider, default

MCKeys == {op, feed, pricer, r1, r2, r3, outsider, default}

GoodConfig ==
    [ operator |-> op,
      feed_authority |-> feed,
      pricing_authority |-> pricer,
      resolution_authorities |-> <<r1, r2, r3>> ]

MCOneConfig == {GoodConfig}

\* A resolver named twice, the operator as a resolver, a default key.
MCConfigs ==
    { GoodConfig,
      [GoodConfig EXCEPT !.resolution_authorities = <<r1, r2, r2>>],
      [GoodConfig EXCEPT !.resolution_authorities = <<r1, op, r3>>],
      [GoodConfig EXCEPT !.feed_authority = default] }

MCStakeBounds == {<<2, 4>>}
MCStakeBoundsChecked == {<<2, 4>>, <<4, 2>>, <<0, 4>>}

MCFunds == (op :> 13) @@ (outsider :> 2) @@ (t1 :> 6) @@ (t2 :> 6)
MCAmpleFunds == (op :> 15) @@ (outsider :> 2) @@ (t1 :> 6) @@ (t2 :> 6)
MCTightFunds == (op :> 4) @@ (outsider :> 1) @@ (t1 :> 3) @@ (t2 :> 3)

MCRecordedPrices == <<(<<19, 27, 95>>), (<<12, 88, 475>>)>>

Genuine(q) == [recorded |-> q, variant |-> 1]

\* An order as signed against quote q of material epoch m.
SignedOrder(side, stake, q, m, nonce, expiry) ==
    [ side |-> side,
      stake |-> stake,
      quote_sequence |-> q,
      payload_hash |-> Genuine(q),
      price |-> IF side = "Yes" THEN YesPrice(MCRecordedPrices[q], 1)
                                ELSE NoPrice(MCRecordedPrices[q], 1),
      material_event_sequence |-> m,
      order_nonce |-> nonce,
      expiry |-> expiry ]

\* Both sides, both epochs, stakes in and out of bounds, any nonce; and orders
\* that pair one epoch with the other's quote.
MCOrders ==
    { SignedOrder(side, stake, q, m, n, MaxTime) :
        side \in Sides, stake \in {2, 4}, q \in {1, 2}, m \in MaterialSequences,
        n \in Nonces }

\* The same orders at one stake.
MCOrdersOneStake == {o \in MCOrders : o.stake = 2}

\* One trader's orders against the quote of the epoch they saw.
MCOrdersMatched ==
    {o \in MCOrdersOneStake :
        o.quote_sequence = 1 <=> o.material_event_sequence = 738}

\* Orders of which some have expired by the end of the clock.
MCOrdersExpiring ==
    {[o EXCEPT !.expiry = e] : o \in MCOrdersMatched, e \in 0 .. MaxTime}

\* A win at regulation time, a draw, and a loss on the second half's goals.
MCStats ==
    { (1001 :> 1) @@ (1002 :> 0) @@ (3001 :> 1) @@ (3002 :> 0),
      (1001 :> 1) @@ (1002 :> 0) @@ (3001 :> 0) @@ (3002 :> 1),
      (1001 :> 1) @@ (1002 :> 0) @@ (3001 :> 0) @@ (3002 :> 2) }

\* A win and a draw.
MCTwoStats == {s \in MCStats : AwayScore(s) <= 1}

Symmetry == Permutations({t1, t2})
=============================================================================
