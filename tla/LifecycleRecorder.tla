------------------------- MODULE LifecycleRecorder -------------------------
(***************************************************************************)
(* The operator's two scripts of a second-generation market, over the      *)
(* program of LineGuardV2: scripts/lineguard-v3-record-lifecycle.ts plays  *)
(* one market from opening to claims with three wallets, and writes down   *)
(* what happened; scripts/lineguard-v2-initialize.ts opens the canonical   *)
(* market, in the state of an event that has not been priced.              *)
(*                                                                         *)
(* A script sends one transaction after the other and waits for each to be *)
(* final; it gives up at the first thing that goes wrong, and the          *)
(* transaction that it waited for may land without it.  The script may be  *)
(* started again, next to another run of it, and others use the market.    *)
(***************************************************************************)
EXTENDS LineGuardV2, Sequences

CONSTANTS
    Runs,            \* bound: of the script
    Scripts,         \* the scripts a behaviour is about, of "record", "initialize"
    WalletA, WalletB, WalletC,
    OperatorRoles,   \* the roles of the operator's keypairs: a set of AuthoritySets
    STAKE,
    OldPrice, NewPrice,
    RecordTolerance, \* 20_000
    PreviousSeq, PreviousOdds,  \* of the capture: before its event
    CloseTime, OrderExpiry,
    FinalScore       \* the evidence of canonical.validation.json

VARIABLES
    script,          \* which script the runs run
    run,             \* per run: its step, its transaction, what it has read
    record           \* the file that a run writes

scriptVars == <<script, run, record>>

Wallets == {WalletA, WalletB, WalletC}
NoRun == [status |-> "idle"]

\* The transactions of main(), in their order.
Steps ==
    IF script = "initialize" THEN <<"initializeCanonical">>
    ELSE << "fundWallets", "initialize", "walletAHonestYes", "walletBHonestNo",
            "materialEventAndOdds", "walletCStaleExploitRefund", "reprice", "close",
            "txlineCpiProof", "secondApproval", "resolution", "walletAClaim",
            "walletBCloseLoss", "walletCCloseRefunded" >>

RecordTerms ==
    [ material |-> PreviousSeq, priced |-> PreviousSeq, odds |-> PreviousOdds,
      displayed |-> OldPrice, fair |-> OldPrice, tolerance |-> RecordTolerance,
      close_time |-> CloseTime, min_ts |-> FinalScore.ts ]

\* The event is in, its price is not.
CanonicalTerms ==
    [RecordTerms EXCEPT !.material = PreviousSeq + 1, !.odds = PreviousOdds + 1,
                        !.fair = NewPrice]

RecorderInit ==
    /\ script \in Scripts
    /\ run = [r \in Runs |-> NoRun]
    /\ record = NoAccount

OrderOfWallet(w) == [by |-> w, n |-> 1]
SideOf(w) == IF w = WalletB THEN "No" ELSE "Yes"
PositionOfWallet(w) == <<w, SideOf(w)>>

-----------------------------------------------------------------------------
(* A run.                                                                  *)

\* The roles are the operator's and nothing is there yet.  The balances of the
\* preview are as approved: no run has sent anything.
RecordPreflight ==
    /\ Exists(authorities) /\ authorities.current \in OperatorRoles
    /\ authorities.current.threshold = 2
    /\ ~ Exists(v2.market)
    /\ clock < CloseTime /\ clock < OrderExpiry
    /\ \A r \in Runs :
          run[r].status # "idle" => run[r].at = 1 /\ run[r].tx # "landed"

RolesOf(set) == {set.feed, set.pricing, set.emergency} \cup set.resolution

\* The roles are of different keys and none is the operator's own.
InitializePreflight ==
    /\ ~ Exists(authorities) /\ ~ Exists(v2.market)
    /\ \E set \in OperatorRoles :
          Cardinality(RolesOf(set)) = 6 /\ Admin \notin RolesOf(set)

\* main(), up to the first transaction; without --send it ends here.
Start(r) ==
    /\ run[r].status = "idle"
    /\ IF script = "record" THEN RecordPreflight ELSE InitializePreflight
    /\ run' = [run EXCEPT ![r] = [status |-> "running", at |-> 1, tx |-> "none",
                                  priced_seq |-> 0, odds_seq |-> 0]]
    /\ UNCHANGED <<v2Vars, script, record>>

\* orderInstructions: the sequences are read of the chain, the price is the preview's.
OrderArgsOf(r, w) ==
    [ side |-> SideOf(w), stake |-> STAKE, max_edge |-> RecordTolerance,
      price |-> SidePrice(SideOf(w), OldPrice), slippage |-> 0,
      priced_seq |-> run[r].priced_seq, odds_seq |-> run[r].odds_seq,
      expiry |-> OrderExpiry ]

\* place_order_v2 and evaluate_order_v2 in one transaction.
PlacesAndEvaluates(o, args) ==
    LET placed == Placed(v2, o, args)
        refunded == Refunds(placed, o)
    IN  /\ CanPlaceV2(v2, o, args)
        /\ refunded \/ SharesOf(placed, o) > 0
        /\ v2' = Evaluated(placed, o)
        /\ outlay' = IF refunded THEN outlay ELSE [outlay EXCEPT ![o.by] = @ + args.stake]
        /\ UNCHANGED <<authorities, proposedAt, clock>>

\* ingest_material_event_v2 and commit_txline_odds_v2 in one transaction.
IngestsAndCommits(set) ==
    /\ IsTrading
    /\ set.feed = v2.market.roles.feed /\ set.pricing = v2.market.roles.pricing
    /\ PreviousSeq + 1 > v2.market.material_seq
    /\ PreviousOdds + 1 > v2.market.odds_sequence
    /\ v2' = [v2 EXCEPT !.market.material_seq = PreviousSeq + 1,
                        !.market.odds_sequence = PreviousOdds + 1,
                        !.market.fair = NewPrice]
    /\ UNCHANGED <<authorities, outlay, proposedAt, clock>>

\* initialize_authorities and initialize_market_v2 in one transaction.
InitializesCanonical(set) ==
    /\ ~ Exists(authorities) /\ ~ Exists(v2.market)
    /\ ValidAuthoritySet(set) /\ ValidTerms(CanonicalTerms)
    /\ authorities' = [current |-> set, pending |-> NoAccount, execute_after |-> 0]
    /\ v2' = Opened(set, CanonicalTerms)
    /\ UNCHANGED <<outlay, proposedAt, clock>>

\* What a step's transaction does.  The keypairs are those of one set.
Performs(r, step, set) ==
    \/ step = "initializeCanonical" /\ InitializesCanonical(set)
    \/ step = "fundWallets" /\ UNCHANGED v2Vars
    \/ step = "initialize" /\ InitializeMarketV2(Admin, RecordTerms)
    \/ \E w \in Wallets :
          /\ step = CASE w = WalletA -> "walletAHonestYes"
                      [] w = WalletB -> "walletBHonestNo"
                      [] w = WalletC -> "walletCStaleExploitRefund"
          /\ PlacesAndEvaluates(OrderOfWallet(w), OrderArgsOf(r, w))
    \/ step = "materialEventAndOdds" /\ IngestsAndCommits(set)
    \/ step = "reprice" /\ RepriceMarketV2(set.pricing)
    \/ step = "close" /\ CloseMarketV2(set.feed)
    \/ /\ step = "txlineCpiProof"
       /\ ProveResolutionWithTxlineV2(CHOOSE k \in set.resolution : TRUE, FinalScore)
    \/ /\ step = "secondApproval"
       /\ \E k \in set.resolution : ApproveResolutionV2(k)
    \/ step = "resolution" /\ ExecuteResolutionV2
    \/ step = "walletAClaim" /\ ClaimPositionV2(PositionOfWallet(WalletA))
    \/ /\ step = "walletBCloseLoss" /\ v2.market.resolved
       /\ LostV2(PositionOfWallet(WalletB))
       /\ ClosePositionV2(PositionOfWallet(WalletB))
    \/ /\ step = "walletCCloseRefunded"
       /\ v2.position[PositionOfWallet(WalletC)].accepted = 0
       /\ ClosePositionV2(PositionOfWallet(WalletC))

\* sendStep: the sequences of an order are read before its transaction is sent.
Send(r) ==
    /\ run[r].status = "running" /\ run[r].at <= Len(Steps) /\ run[r].tx = "none"
    /\ run' = [run EXCEPT ![r].tx = "pending",
                          ![r].priced_seq = IF Exists(v2.market)
                                            THEN v2.market.priced_at_seq ELSE 0,
                          ![r].odds_seq = IF Exists(v2.market)
                                          THEN v2.market.odds_sequence ELSE 0]
    /\ UNCHANGED <<v2Vars, script, record>>

\* A transaction lands.  A run that throws or dies takes no further step, and what it
\* sent lands without it.
Lands(r) ==
    /\ run[r].status = "running" /\ run[r].tx = "pending"
    /\ \E set \in OperatorRoles : Performs(r, Steps[run[r].at], set)
    /\ run' = [run EXCEPT ![r].tx = "landed"]
    /\ UNCHANGED <<script, record>>

\* Its simulation, its preflight or its execution fails, or its blockhash expires: the
\* run gives up.
GivesUp(r) ==
    /\ run[r].status = "running" /\ run[r].tx = "pending"
    /\ run' = [run EXCEPT ![r].status = "stopped"]
    /\ UNCHANGED <<v2Vars, script, record>>

Finalized(r) ==
    /\ run[r].status = "running" /\ run[r].tx = "landed"
    /\ run' = [run EXCEPT ![r].tx = "none", ![r].at = @ + 1]
    /\ UNCHANGED <<v2Vars, script, record>>

\* Slip: the vault's counters are not looked at.
ResolvedYes == v2.market.resolved /\ v2.market.resolution = 1

\* The accounts of the three wallets are gone, the market says YES and the vault's
\* counters are those of the plan.
AsPlanned ==
    /\ \A w \in Wallets :
          /\ ~ Exists(v2.order[OrderOfWallet(w)])
          /\ ~ Exists(v2.position[PositionOfWallet(w)])
    /\ v2.market.resolved /\ v2.market.resolution = 1
    /\ v2.vault.accepted = 2 * STAKE /\ v2.vault.refunded = STAKE
    /\ v2.vault.paid = 2 * STAKE /\ v2.vault.claimable = 0

TheRecord ==
    [ approvals |-> v2.validation.approvals,
      payout |-> [w \in Wallets |-> IF w = WalletA THEN 2 * STAKE ELSE 0],
      refund |-> [w \in Wallets |-> IF w = WalletC THEN STAKE ELSE 0] ]

\* main(), after its last transaction.
Writes(r) ==
    /\ run[r].status = "running" /\ run[r].at > Len(Steps)
    /\ script = "record" => AsPlanned
    /\ record' = IF script = "record" THEN TheRecord ELSE record
    /\ run' = [run EXCEPT ![r].status = "done"]
    /\ UNCHANGED <<v2Vars, script>>

RecorderStep ==
    \E r \in Runs :
        \/ Start(r) \/ Send(r) \/ Lands(r) \/ GivesUp(r) \/ Finalized(r)
        \/ Writes(r)

\* Others trade, evaluate and resolve: the wallets' keys are the script's.
LeavesScripts ==
    /\ \A o \in V2Orders : o.by \in Wallets => v2'.order[o] = v2.order[o]
    /\ \A p \in Positions : p[1] \in Wallets => v2'.position[p] = v2.position[p]
    /\ UNCHANGED scriptVars

-----------------------------------------------------------------------------
(* Properties.                                                             *)

\* A run that has started knows its step, its transaction and two sequences.
StartedRuns ==
    [ status : {"running", "stopped", "done"}, at : Nat \ {0},
      tx : {"none", "pending", "landed"}, priced_seq : Int, odds_seq : Int ]

RecorderTypeOK == script \in Scripts /\ run \in [Runs -> StartedRuns \cup {NoRun}]

\* The three wallets trade with accounts of the system, the keypairs are of sets that the
\* program knows, and the figures of the capture are numbers; its price is a price.
RecorderAssumption ==
    /\ Wallets \subseteq Traders /\ OperatorRoles \subseteq AuthoritySets
    /\ \A w \in Wallets : OrderOfWallet(w) \in V2Orders
    /\ WalletA # WalletB /\ WalletA # WalletC /\ WalletB # WalletC
    /\ STAKE \in Nat \ {0} /\ NewPrice \in 1 .. MICROS_ONE - 1
    /\ {OldPrice, RecordTolerance, PreviousSeq, PreviousOdds, CloseTime, OrderExpiry,
        FinalScore.ts} \subseteq Int

\* Whatever others did to the market meanwhile, and whichever runs were started or
\* died next to it: what the file says each wallet got is what the wallet got, and
\* two resolvers had approved.
RecordIsTrue ==
    Exists(record) =>
        /\ \A w \in Wallets :
              outlay[w] = STAKE - record.payout[w] - record.refund[w]
        /\ Cardinality(record.approvals) >= 2
        /\ v2.vault.lamports = 0
=============================================================================
