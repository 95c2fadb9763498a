---------------------------- MODULE LineGuardV2 ----------------------------
(***************************************************************************)
(* The second generation of the LineGuard program: one market with a vault *)
(* of its own (programs/lineguard/src/lib.rs, lines 920-1970).             *)
(*                                                                         *)
(* The roles of a market are copied from one account of authorities, which *)
(* is changed under a timelock.  An order's stake waits in the order's own *)
(* account until anyone evaluates it, or its trader cancels it; accepted   *)
(* stakes buy shares, and the shares of the winning side divide the vault. *)
(* A result needs TxLINE's validation and the approvals of the resolvers.  *)
(*                                                                         *)
(* One action is one instruction.  The four accounts of the market are one *)
(* record, so that a transaction of several instructions is a composition. *)
(* Rent is left out: lamports count stakes only.  One clock serves for     *)
(* slots and seconds, and hashes are left out.                             *)
(***************************************************************************)
EXTENDS LineGuardCommon

CONSTANTS
    Traders,
    V2Orders,        \* order accounts' addresses, [by |-> trader, n |-> n]
    Admin,
    AuthoritySets,   \* what the admin may propose
    Terms,           \* of the market: what initialize_market_v2 is given
    OrderArgs,       \* what place_order_v2 is given
    Events, Odds,    \* sequences, [sequence, price]: what the feed and pricing send
    Evidence,        \* [ts, home, away]: what TxLINE validates
    AUTHORITY_TIMELOCK,
    MaxClock,        \* bound: of the clock
    MaxDeposited     \* bound: stakes the vault has counted when an order is placed

VARIABLES
    authorities,     \* AuthorityConfig
    v2,              \* MarketV2, MarketVault and the orders, positions, validation
    outlay,          \* what each trader paid in, less what came back
    proposedAt,      \* history: when the pending authorities were proposed
    clock

v2Vars == <<authorities, v2, outlay, proposedAt, clock>>

Positions == Traders \X Sides

V2Init ==
    /\ authorities = NoAccount
    /\ v2 = [ market |-> NoAccount, vault |-> NoAccount, validation |-> NoAccount,
              order |-> [o \in V2Orders |-> NoAccount],
              position |-> [p \in Positions |-> NoAccount] ]
    /\ outlay = [t \in Traders |-> 0]
    /\ proposedAt = 0
    /\ clock = 0

-----------------------------------------------------------------------------
(* The authorities.                                                        *)

\* validate_authority_set.
ValidAuthoritySet(s) ==
    /\ s.threshold \in 1 .. 3
    /\ Cardinality(s.resolution) = 3
    /\ Cardinality({s.feed, s.pricing, s.emergency}) = 3
    /\ s.resolution \cap {s.feed, s.pricing, s.emergency} = {}

InitializeAuthorities(signer, set) ==
    /\ signer = Admin /\ ~ Exists(authorities) /\ ValidAuthoritySet(set)
    /\ authorities' = [current |-> set, pending |-> NoAccount, execute_after |-> 0]
    /\ UNCHANGED <<v2, outlay, proposedAt, clock>>

\* Slip: a second proposal inherits the first one's deadline.
ProposeKeepingDeadline(signer, set) ==
    /\ signer = Admin /\ Exists(authorities) /\ ValidAuthoritySet(set)
    /\ authorities' = [authorities EXCEPT
                          !.pending = set,
                          !.execute_after = IF Exists(authorities.pending) THEN @
                                            ELSE clock + AUTHORITY_TIMELOCK]
    /\ proposedAt' = clock
    /\ UNCHANGED <<v2, outlay, clock>>

\* A second proposal replaces the first and waits anew.
ProposeAuthorityUpdate(signer, set) ==
    /\ signer = Admin /\ Exists(authorities) /\ ValidAuthoritySet(set)
    /\ authorities' = [authorities EXCEPT !.pending = set,
                                          !.execute_after = clock + AUTHORITY_TIMELOCK]
    /\ proposedAt' = clock
    /\ UNCHANGED <<v2, outlay, clock>>

\* Anyone, once the timelock has passed.
ExecuteAuthorityUpdate ==
    /\ Exists(authorities) /\ Exists(authorities.pending)
    /\ clock >= authorities.execute_after
    /\ authorities' = [authorities EXCEPT !.current = authorities.pending,
                                          !.pending = NoAccount]
    /\ UNCHANGED <<v2, outlay, proposedAt, clock>>

-----------------------------------------------------------------------------
(* The market.  terms: [material, priced, odds, displayed, fair, tolerance,*)
(* close_time, min_ts].                                                    *)

ValidTerms(terms) ==
    /\ terms.close_time > clock /\ terms.min_ts > 0
    /\ terms.displayed \in 1 .. MICROS_ONE - 1 /\ terms.fair \in 1 .. MICROS_ONE - 1
    /\ terms.tolerance <= MICROS_ONE
    /\ terms.priced <= terms.material

\* The market and its vault, with the roles of the day.
Opened(roles, terms) ==
    [v2 EXCEPT
        !.market = [ roles |-> roles, material_seq |-> terms.material,
                     priced_at_seq |-> terms.priced, odds_sequence |-> terms.odds,
                     displayed |-> terms.displayed, fair |-> terms.fair,
                     tolerance |-> terms.tolerance, close_time |-> terms.close_time,
                     min_ts |-> terms.min_ts, trading_closed |-> FALSE,
                     resolved |-> FALSE, resolution |-> 0,
                     pool |-> [s \in Sides |-> 0], shares |-> [s \in Sides |-> 0],
                     claimed_shares |-> 0 ],
        !.vault = [ deposited |-> 0, refunded |-> 0, accepted |-> 0, paid |-> 0,
                    claimable |-> 0, lamports |-> 0 ]]

InitializeMarketV2(signer, terms) ==
    /\ Exists(authorities) /\ signer = Admin /\ ~ Exists(v2.market)
    /\ ValidTerms(terms)
    /\ v2' = Opened(authorities.current, terms)
    /\ UNCHANGED <<authorities, outlay, proposedAt, clock>>

IsTrading == Exists(v2.market) /\ ~ v2.market.trading_closed /\ ~ v2.market.resolved

IngestMaterialEventV2(signer, seq) ==
    /\ IsTrading /\ signer = v2.market.roles.feed
    /\ seq > v2.market.material_seq
    /\ v2' = [v2 EXCEPT !.market.material_seq = seq]
    /\ UNCHANGED <<authorities, outlay, proposedAt, clock>>

CommitTxlineOddsV2(signer, odds) ==
    /\ IsTrading /\ signer = v2.market.roles.pricing
    /\ odds.sequence > v2.market.odds_sequence
    /\ odds.price \in 1 .. MICROS_ONE - 1
    /\ v2' = [v2 EXCEPT !.market.odds_sequence = odds.sequence,
                        !.market.fair = odds.price]
    /\ UNCHANGED <<authorities, outlay, proposedAt, clock>>

RepriceMarketV2(signer) ==
    /\ IsTrading /\ signer = v2.market.roles.pricing
    /\ v2' = [v2 EXCEPT !.market.displayed = v2.market.fair,
                        !.market.priced_at_seq = v2.market.material_seq]
    /\ UNCHANGED <<authorities, outlay, proposedAt, clock>>

CloseMarketV2(signer) ==
    /\ Exists(v2.market) /\ ~ v2.market.resolved
    /\ signer = v2.market.roles.feed \/ clock >= v2.market.close_time
    /\ v2' = [v2 EXCEPT !.market.trading_closed = TRUE]
    /\ UNCHANGED <<authorities, outlay, proposedAt, clock>>

-----------------------------------------------------------------------------
(* Orders, as functions of the market's accounts s.                        *)

Distance(a, b) == IF a < b THEN b - a ELSE a - b

\* args: [side, stake, max_edge, price, slippage, priced_seq, odds_seq, expiry].
CanPlaceV2(s, o, args) ==
    /\ Exists(s.market) /\ ~ Exists(s.order[o])
    /\ args.stake > 0
    /\ args.max_edge <= MICROS_ONE /\ args.slippage <= MICROS_ONE
    /\ args.price \in 1 .. MICROS_ONE - 1
    /\ ~ s.market.trading_closed /\ ~ s.market.resolved
    /\ clock < s.market.close_time /\ clock <= args.expiry
    /\ s.market.priced_at_seq = args.priced_seq
    /\ s.market.odds_sequence = args.odds_seq
    /\ Distance(SidePrice(args.side, s.market.displayed), args.price) <= args.slippage

NewPosition == [deposited |-> 0, accepted |-> 0, shares |-> 0]

Placed(s, o, args) ==
    LET p == <<o.by, args.side>>
        position == IF Exists(s.position[p]) THEN s.position[p] ELSE NewPosition
    IN  [s EXCEPT
            !.position[p] = [position EXCEPT !.deposited = @ + args.stake],
            !.order[o] = [ side |-> args.side, stake |-> args.stake,
                           observed |-> SidePrice(args.side, s.market.displayed),
                           max_edge |-> args.max_edge,
                           priced_at_seq |-> s.market.priced_at_seq ]]

PositionOf(s, o) == <<o.by, s.order[o].side>>

\* Evaluation needs the position's account.
CanEvaluateV2(s, o) == Exists(s.order[o]) /\ Exists(s.position[PositionOf(s, o)])

LesserOf(a, b) == IF a < b THEN a ELSE b

\* stale: since the quote the order was placed at, repriced or not.
Refunds(s, o) ==
    LET order == s.order[o]
        edge == SidePrice(order.side, s.market.fair) - order.observed
    IN  \/ s.market.trading_closed \/ s.market.resolved
        \/ /\ s.market.material_seq > order.priced_at_seq
           /\ edge > LesserOf(order.max_edge, s.market.tolerance)

SharesOf(s, o) == (s.order[o].stake * MICROS_ONE) \div s.order[o].observed

\* Slip: a refund is not counted.
RefundedUncounted(s, o) ==
    LET stake == s.order[o].stake
    IN  [s EXCEPT !.order[o] = NoAccount,
                  !.vault.deposited = @ + stake]

Refunded(s, o) ==
    LET stake == s.order[o].stake
    IN  [s EXCEPT !.order[o] = NoAccount,
                  !.vault = [s.vault EXCEPT !.deposited = @ + stake,
                                            !.refunded = @ + stake]]

Accepted(s, o) ==
    LET stake == s.order[o].stake
        side == s.order[o].side
        p == PositionOf(s, o)
    IN  [s EXCEPT
            !.order[o] = NoAccount,
            !.vault = [s.vault EXCEPT !.deposited = @ + stake, !.accepted = @ + stake,
                                      !.claimable = @ + stake, !.lamports = @ + stake],
            !.market = [s.market EXCEPT !.pool[side] = @ + stake,
                                        !.shares[side] = @ + SharesOf(s, o)],
            !.position[p] = [s.position[p] EXCEPT !.accepted = @ + stake,
                                                  !.shares = @ + SharesOf(s, o)]]

Evaluated(s, o) == IF Refunds(s, o) THEN Refunded(s, o) ELSE Accepted(s, o)

\* assert_vault_invariant, on the state after an instruction.
VaultInvariant(s) ==
    /\ s.vault.deposited = s.vault.refunded + s.vault.paid + s.vault.claimable
    /\ s.vault.paid <= s.vault.accepted

PlaceOrderV2(o, args) ==
    /\ CanPlaceV2(v2, o, args)
    /\ v2.vault.deposited + args.stake <= MaxDeposited
    /\ v2' = Placed(v2, o, args)
    /\ outlay' = [outlay EXCEPT ![o.by] = @ + args.stake]
    /\ UNCHANGED <<authorities, proposedAt, clock>>

\* Anyone evaluates.
EvaluateOrderV2(o) ==
    /\ CanEvaluateV2(v2, o)
    /\ Refunds(v2, o) \/ SharesOf(v2, o) > 0
    /\ VaultInvariant(Evaluated(v2, o))
    /\ v2' = Evaluated(v2, o)
    /\ outlay' = IF Refunds(v2, o)
                THEN [outlay EXCEPT ![o.by] = @ - v2.order[o].stake] ELSE outlay
    /\ UNCHANGED <<authorities, proposedAt, clock>>

CancelOrderV2(o) ==
    LET stake == v2.order[o].stake
    IN  /\ CanEvaluateV2(v2, o)
        /\ v2' = [v2 EXCEPT !.order[o] = NoAccount,
                            !.position[PositionOf(v2, o)].deposited = @ - stake]
        /\ outlay' = [outlay EXCEPT ![o.by] = @ - stake]
        /\ UNCHANGED <<authorities, proposedAt, clock>>

-----------------------------------------------------------------------------
(* Resolution and claims.                                                  *)

Outcome(evidence) ==
    IF evidence.home > evidence.away THEN 1
    ELSE IF evidence.home < evidence.away THEN 2 ELSE 3

\* One validation receipt and one proposal for a market, for good.
ProveResolutionWithTxlineV2(signer, evidence) ==
    /\ Exists(v2.market) /\ v2.market.trading_closed /\ ~ v2.market.resolved
    /\ ~ Exists(v2.validation)
    /\ signer \in v2.market.roles.resolution
    /\ evidence.ts >= v2.market.min_ts
    /\ v2' = [v2 EXCEPT !.validation =
                 [ outcome |-> Outcome(evidence), approvals |-> {signer},
                   executed |-> FALSE ]]
    /\ UNCHANGED <<authorities, outlay, proposedAt, clock>>

ApproveResolutionV2(signer) ==
    /\ Exists(v2.validation) /\ ~ v2.validation.executed
    /\ signer \in v2.market.roles.resolution \ v2.validation.approvals
    /\ v2' = [v2 EXCEPT !.validation.approvals = @ \cup {signer}]
    /\ UNCHANGED <<authorities, outlay, proposedAt, clock>>

WinningSide(resolution) == IF resolution = 1 THEN "Yes" ELSE "No"

\* A winning side that nobody backed voids the market.
ExecuteResolutionV2 ==
    LET outcome == v2.validation.outcome
        voided == outcome = 3 \/ v2.market.pool[WinningSide(outcome)] = 0
    IN  /\ Exists(v2.validation) /\ ~ v2.validation.executed
        /\ ~ v2.market.resolved
        /\ Cardinality(v2.validation.approvals) >= v2.market.roles.threshold
        /\ v2' = [v2 EXCEPT !.market.resolved = TRUE,
                            !.market.trading_closed = TRUE,
                            !.market.resolution = IF voided THEN 3 ELSE outcome,
                            !.validation.executed = TRUE]
        /\ UNCHANGED <<authorities, outlay, proposedAt, clock>>

EmergencyVoidMarketV2(signer) ==
    /\ Exists(v2.market) /\ ~ v2.market.resolved
    /\ signer = v2.market.roles.emergency
    /\ v2' = [v2 EXCEPT !.market.resolved = TRUE, !.market.trading_closed = TRUE,
                        !.market.resolution = 3]
    /\ UNCHANGED <<authorities, outlay, proposedAt, clock>>

WonV2(p) == v2.market.resolution \in {1, 2} /\ p[2] = WinningSide(v2.market.resolution)
LostV2(p) == v2.market.resolution \in {1, 2} /\ p[2] # WinningSide(v2.market.resolution)

\* Slip: the refunded stakes are divided too.
PayoutOfDeposits(p) ==
    LET position == v2.position[p]
        winning == v2.market.shares[p[2]]
    IN  IF v2.market.resolution = 3 THEN position.accepted
        ELSE (position.shares * v2.vault.deposited) \div winning

\* The last winner takes what is left of the vault.
PayoutV2(p) ==
    LET position == v2.position[p]
        winning == v2.market.shares[p[2]]
    IN  CASE v2.market.resolution = 3 -> position.accepted
          [] /\ v2.market.resolution # 3
             /\ v2.market.claimed_shares + position.shares = winning ->
                v2.vault.claimable
          [] OTHER -> (position.shares * v2.vault.accepted) \div winning

CanClaim(p) ==
    /\ Exists(v2.position[p]) /\ v2.market.resolved
    /\ v2.position[p].accepted > 0
    /\ v2.market.resolution = 3 \/ WonV2(p)
    /\ v2.market.resolution # 3 =>
          /\ v2.market.shares[p[2]] > 0
          /\ v2.market.claimed_shares + v2.position[p].shares <= v2.market.shares[p[2]]
    /\ PayoutV2(p) <= v2.vault.claimable
    /\ PayoutV2(p) <= v2.vault.lamports

\* The position's account is closed with the claim.
ClaimPositionV2(p) ==
    /\ CanClaim(p)
    /\ v2' = [v2 EXCEPT
          !.vault = [v2.vault EXCEPT !.paid = @ + PayoutV2(p),
                                     !.claimable = @ - PayoutV2(p),
                                     !.lamports = @ - PayoutV2(p)],
          !.market.claimed_shares = IF v2.market.resolution = 3 THEN @
                                    ELSE @ + v2.position[p].shares,
          !.position[p] = NoAccount]
    /\ VaultInvariant(v2')
    /\ outlay' = [outlay EXCEPT ![p[1]] = @ - PayoutV2(p)]
    /\ UNCHANGED <<authorities, proposedAt, clock>>

\* close_empty_position_v2, close_losing_position_v2 and
\* close_settled_position_rent_v2: their trader's, and none looks for orders.
CanClosePosition(p) ==
    /\ Exists(v2.position[p])
    /\ \/ /\ v2.market.trading_closed \/ v2.market.resolved
          /\ v2.position[p].accepted = 0
       \/ v2.market.resolved /\ LostV2(p)

\* Slip: any position may be closed once the market is resolved.
ClosePositionUnclaimed(p) ==
    /\ Exists(v2.position[p]) /\ v2.market.resolved
    /\ v2' = [v2 EXCEPT !.position[p] = NoAccount]
    /\ UNCHANGED <<authorities, outlay, proposedAt, clock>>

ClosePositionV2(p) ==
    /\ CanClosePosition(p)
    /\ v2' = [v2 EXCEPT !.position[p] = NoAccount]
    /\ UNCHANGED <<authorities, outlay, proposedAt, clock>>

ClockTicks ==
    /\ clock < MaxClock /\ clock' = clock + 1
    /\ UNCHANGED <<authorities, v2, outlay, proposedAt>>

Keys ==
    {Admin} \cup UNION {{s.feed, s.pricing, s.emergency} \cup s.resolution :
                            s \in AuthoritySets}

AuthorityStep ==
    \/ \E k \in Keys, set \in AuthoritySets :
          InitializeAuthorities(k, set) \/ ProposeAuthorityUpdate(k, set)
    \/ ExecuteAuthorityUpdate
    \/ \E k \in Keys :
          \/ \E terms \in Terms : InitializeMarketV2(k, terms)
          \/ \E seq \in Events : IngestMaterialEventV2(k, seq)
          \/ \E odds \in Odds : CommitTxlineOddsV2(k, odds)
          \/ RepriceMarketV2(k)
          \/ CloseMarketV2(k)
          \/ \E evidence \in Evidence : ProveResolutionWithTxlineV2(k, evidence)
          \/ ApproveResolutionV2(k)
          \/ EmergencyVoidMarketV2(k)
    \/ ExecuteResolutionV2

TraderStep ==
    \/ \E o \in V2Orders, args \in OrderArgs : PlaceOrderV2(o, args)
    \/ \E o \in V2Orders : EvaluateOrderV2(o) \/ CancelOrderV2(o)
    \/ \E p \in Positions : ClaimPositionV2(p) \/ ClosePositionV2(p)

V2Next == AuthorityStep \/ TraderStep \/ ClockTicks

V2Spec == V2Init /\ [][V2Next]_v2Vars

-----------------------------------------------------------------------------
(* The accounts, and what the instructions are given.                      *)

MarketV2 ==
    [ roles : AuthoritySets, material_seq : Int, priced_at_seq : Int,
      odds_sequence : Int, displayed : 1 .. MICROS_ONE - 1, fair : 1 .. MICROS_ONE - 1,
      tolerance : Int, close_time : Int, min_ts : Int, trading_closed : BOOLEAN,
      resolved : BOOLEAN, resolution : 0 .. 3, pool : [Sides -> Nat],
      shares : [Sides -> Nat], claimed_shares : Nat ]

MarketVault ==
    [ deposited : Nat, refunded : Nat, accepted : Nat, paid : Nat, claimable : Nat,
      lamports : Nat ]

PositionAccount == [deposited : Int, accepted : Nat, shares : Nat]

OrderEscrowV2 ==
    [ side : Sides, stake : Nat \ {0}, observed : 1 .. MICROS_ONE - 1, max_edge : Int,
      priced_at_seq : Int ]

ValidationAccount == [outcome : 1 .. 3, approvals : SUBSET Keys, executed : BOOLEAN]

V2Accounts ==
    [ market : MarketV2 \cup {NoAccount},
      vault : MarketVault \cup {NoAccount},
      validation : ValidationAccount \cup {NoAccount},
      order : [V2Orders -> OrderEscrowV2 \cup {NoAccount}],
      position : [Positions -> PositionAccount \cup {NoAccount}] ]

\* Arguments of the program's types; whether it takes them is another matter.
TypedTerms(terms) ==
    {terms.material, terms.priced, terms.odds, terms.displayed, terms.fair,
     terms.tolerance, terms.close_time, terms.min_ts} \subseteq Int

TypedArgs(args) ==
    /\ args.side \in Sides /\ args.stake \in Nat
    /\ {args.max_edge, args.price, args.slippage, args.priced_seq, args.odds_seq,
        args.expiry} \subseteq Int

\* Finitely many traders and orders; numbers where the program has numbers; an
\* account that exists is not the missing one.
V2Assumption ==
    /\ IsFiniteSet(Traders) /\ IsFiniteSet(V2Orders)
    /\ \A o \in V2Orders : o.by \in Traders
    /\ MICROS_ONE \in Nat /\ AUTHORITY_TIMELOCK \in Int /\ MaxClock \in Nat
    /\ \A terms \in Terms : TypedTerms(terms)
    /\ \A args \in OrderArgs : TypedArgs(args)
    /\ Events \subseteq Int
    /\ \A odds \in Odds : odds.sequence \in Int /\ odds.price \in Int
    /\ NoAccount \notin MarketV2 /\ NoAccount \notin MarketVault
    /\ NoAccount \notin PositionAccount /\ NoAccount \notin OrderEscrowV2
    /\ NoAccount \notin ValidationAccount

-----------------------------------------------------------------------------
(* Properties.                                                             *)

\* The accounts keep the types of lib.rs, whoever sent what, and a market is never
\* priced at an event that it has not ingested.
V2TypeOK ==
    /\ v2 \in V2Accounts
    /\ outlay \in [Traders -> Int]
    /\ Exists(v2.market) => v2.market.priced_at_seq <= v2.market.material_seq
    /\ clock \in 0 .. MaxClock

Live(Val(_)) ==
    MapThenSumSet(Val, {p \in Positions : Exists(v2.position[p])})

\* The vault holds what it may still have to pay: the open positions' stakes of a
\* voided or open market, everything while a winner has not claimed; and lamports
\* are neither made nor lost between the traders, the orders and the vault.
VaultCoversPositions ==
    Exists(v2.market) =>
        /\ v2.vault.lamports = v2.vault.claimable
        /\ v2.market.resolution \in {0, 3} =>
              v2.vault.claimable = Live(LAMBDA p : v2.position[p].accepted)
        /\ MapThenSumSet(LAMBDA t : outlay[t], Traders) =
              v2.vault.lamports
                + MapThenSumSet(LAMBDA o : v2.order[o].stake,
                                {o \in V2Orders : Exists(v2.order[o])})

\* A winner, and every position of a voided market, can claim, whatever was
\* placed, cancelled, refunded, closed and claimed before it.
ClaimsAreNeverBlocked ==
    \A p \in Positions :
        /\ Exists(v2.position[p]) /\ v2.position[p].accepted > 0
        /\ v2.market.resolved /\ (v2.market.resolution = 3 \/ WonV2(p))
        => CanClaim(p)

\* An escrowed order of an open position can be evaluated: the program's own
\* accounting never stands in the way.
EscrowIsNeverBlocked ==
    \A o \in V2Orders :
        CanEvaluateV2(v2, o) => VaultInvariant(Evaluated(v2, o))

\* The authorities change only to a set that was proposed a whole timelock ago,
\* however often the admin proposed another one since.
AuthoritiesWaited ==
    [][ Exists(authorities) /\ authorities'.current # authorities.current
          => clock - proposedAt >= AUTHORITY_TIMELOCK
             /\ authorities'.current = authorities.pending ]_v2Vars
=============================================================================
