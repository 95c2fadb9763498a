---------------------------- MODULE OrderTicket ----------------------------
(***************************************************************************)
(* The trading ticket of a second-generation market (DevnetMarket.tsx with *)
(* lib/solana/lineguardV2.ts), over the program of LineGuardV2 and next to *)
(* the program's mirror in TypeScript (lib/polymarket/execution.ts).       *)
(*                                                                         *)
(* A click captures what the page shows, and then asks for the slot,       *)
(* simulates, lets the wallet sign and send, waits for finality and reads  *)
(* the position back.  The button is live again before the slot is known   *)
(* and once a result shows, so clicks may overlap.  The page reads the     *)
(* market and then the positions of the wallet that was connected when the *)
(* reading began; readings overlap too, their answers come in any order,   *)
(* and another wallet may have been connected meanwhile.                   *)
(***************************************************************************)
EXTENDS LineGuardV2

CONSTANTS
    TicketWallets,   \* the traders who connect their wallets to the page
    Nobody,          \* no wallet is connected
    Clicks,          \* bound: the page's clicks, 1 .. n
    Refreshes,       \* bound: readings under way at once, other than the clicks' own
    Stake, Slippage, \* of the ticket
    OrderLife,       \* 150 slots
    NotRead

VARIABLES
    page,            \* the wallet; what is shown: the market, a holder's positions,
                     \* the state
    refresh,         \* per reading: the call of refresh()
    submit,          \* per click: the call of submit()
    tx,              \* per click: its transaction on its way
    outcome          \* history: what became of each click's order

ticketVars == <<page, refresh, submit, tx, outcome>>

-----------------------------------------------------------------------------
(* The mirror: whether place_order_v2 would take an order and how          *)
(* evaluate_order_v2 would decide it, for previews and receipts that send  *)
(* no transaction.                                                         *)

\* sidePriceMicros.
SidePriceMicros(yes, side) == IF side = "Yes" THEN yes ELSE MICROS_ONE - yes

\* evaluatePlacement: every rejection the chain of checks may answer with; slot and
\* second are the same clock here.
PlacementRejections(market, args) ==
    LET observed == SidePriceMicros(market.displayed, args.side)
        rejects == [
          INVALID_STAKE |-> args.stake <= 0,
          INVALID_PRICE |-> args.price \notin 1 .. MICROS_ONE - 1
                              \/ args.slippage > MICROS_ONE,
          TRADING_CLOSED |-> market.trading_closed,
          MARKET_RESOLVED |-> market.resolved,
          PAST_CLOSE_TIME |-> clock >= market.close_time,
          ORDER_EXPIRED |-> clock > args.expiry,
          PRICING_SEQUENCE_MISMATCH |-> market.priced_at_seq # args.priced_seq,
          ODDS_SEQUENCE_MISMATCH |-> market.odds_sequence # args.odds_seq,
          SLIPPAGE_EXCEEDED |-> Distance(observed, args.price) > args.slippage ]
    IN  {r \in DOMAIN rejects : rejects[r]}

EvaluatePlacement(market, args) == PlacementRejections(market, args) = {}

\* Slip: the order's own limit is not looked at.
GuardRefundsAtTolerance(market, order) ==
    LET fair == IF order.side = "Yes" THEN market.fair ELSE MICROS_ONE - market.fair
    IN  \/ market.trading_closed \/ market.resolved
        \/ /\ market.material_seq > order.priced_at_seq
           /\ fair - order.observed > market.tolerance

\* evaluateGuardVerdict.
GuardRefunds(market, order) ==
    LET fair == IF order.side = "Yes" THEN market.fair ELSE MICROS_ONE - market.fair
        accepted == LesserOf(order.max_edge, market.tolerance)
    IN  \/ market.trading_closed \/ market.resolved
        \/ /\ market.material_seq > order.priced_at_seq
           /\ fair - order.observed > accepted

\* Wherever a market gets to, the mirror takes the orders the program takes and
\* decides the orders in escrow as the program will.  The program alone refuses a
\* limit above the unit: the mirror does not check it.
MirrorIsFaithful ==
    Exists(v2.market) =>
        /\ \A args \in {a \in OrderArgs : a.max_edge <= MICROS_ONE} :
              LET takes == EvaluatePlacement(v2.market, args)
              IN  \A o \in V2Orders :
                      ~ Exists(v2.order[o]) => (CanPlaceV2(v2, o, args) <=> takes)
        /\ \A o \in V2Orders :
              Exists(v2.order[o]) =>
                  (GuardRefunds(v2.market, v2.order[o]) <=> Refunds(v2, o))

-----------------------------------------------------------------------------
(* The ticket.                                                             *)

OrderOf2(w, k) == [by |-> w, n |-> k]
OrderOfClick(k) == OrderOf2(submit[k].trader, k)
States ==
    { "IDLE", "SIMULATING", "AWAITING_SIGNATURE", "CONFIRMING", "POSITION_OPENED",
      "REFUNDED", "ERROR" }
NotClicked == [stage |-> "none"]

NoPositions == [s \in Sides |-> 0]
NoRefresh == [stage |-> "none"]
Begun(w) ==
    [stage |-> "snapshot", wallet |-> w, market |-> NotRead, accepted |-> NoPositions]

Readings == Refreshes \cup Clicks

\* The page before a wallet is connected, and before its first reading.
TicketInit ==
    /\ page = [wallet |-> Nobody, market |-> NotRead, accepted |-> NoPositions,
               holder |-> Nobody, state |-> "IDLE", shown |-> 0]
    /\ refresh = [r \in Readings |-> NoRefresh]
    /\ submit = [k \in Clicks |-> NotClicked]
    /\ tx = [k \in Clicks |-> "none"]
    /\ outcome = [k \in Clicks |-> "none"]

\* What the page reads of the chain: parseMarketV2, parsePosition.
ShownMarket ==
    IF ~ Exists(v2.market) THEN NotRead
    ELSE [ displayed |-> v2.market.displayed, priced_seq |-> v2.market.priced_at_seq,
           odds_seq |-> v2.market.odds_sequence, tolerance |-> v2.market.tolerance,
           open |-> ~ v2.market.trading_closed /\ ~ v2.market.resolved ]

AcceptedOf(w, side) ==
    IF Exists(v2.position[<<w, side>>]) THEN v2.position[<<w, side>>].accepted ELSE 0

-----------------------------------------------------------------------------
(* Wallets and readings.                                                   *)

\* Another wallet is connected, or none: what is shown stays, and the effect reads
\* anew.
ConnectWallet(w) ==
    /\ w # page.wallet
    /\ page' = [page EXCEPT !.wallet = w]
    /\ \E r \in Refreshes :
          /\ refresh[r] = NoRefresh
          /\ refresh' = [refresh EXCEPT ![r] = Begun(w)]
    /\ UNCHANGED <<v2Vars, submit, tx, outcome>>

\* The effect of the first render, and the button that reads the state again.
RefreshAgain(r) ==
    /\ refresh[r] = NoRefresh
    /\ refresh' = [refresh EXCEPT ![r] = Begun(page.wallet)]
    /\ UNCHANGED <<v2Vars, page, submit, tx, outcome>>

\* fetchV2MarketSnapshot reads, and its answer is on its way.
ReadSnapshot(r) ==
    /\ refresh[r].stage = "snapshot"
    /\ refresh' = [refresh EXCEPT ![r].stage = "snapshot read", ![r].market = ShownMarket]
    /\ UNCHANGED <<v2Vars, page, submit, tx, outcome>>

\* It is shown; without a wallet there are no positions, and nothing more to read.
ShowSnapshot(r) ==
    /\ refresh[r].stage = "snapshot read"
    /\ IF refresh[r].wallet = Nobody
       THEN /\ page' = [page EXCEPT !.market = refresh[r].market,
                                    !.accepted = NoPositions, !.holder = Nobody]
            /\ refresh' = [refresh EXCEPT ![r] = NoRefresh]
       ELSE /\ page' = [page EXCEPT !.market = refresh[r].market]
            /\ refresh' = [refresh EXCEPT ![r].stage = "positions", ![r].market = NotRead]
    /\ UNCHANGED <<v2Vars, submit, tx, outcome>>

\* fetchTraderPositions reads.
ReadPositions(r) ==
    /\ refresh[r].stage = "positions"
    /\ refresh' = [refresh EXCEPT
          ![r].stage = "positions read",
          ![r].accepted = [s \in Sides |-> AcceptedOf(refresh[r].wallet, s)]]
    /\ UNCHANGED <<v2Vars, page, submit, tx, outcome>>

\* They are shown, whichever wallet is connected by now.
ShowPositions(r) ==
    /\ refresh[r].stage = "positions read"
    /\ page' = [page EXCEPT !.accepted = refresh[r].accepted,
                            !.holder = refresh[r].wallet]
    /\ refresh' = [refresh EXCEPT ![r] = NoRefresh]
    /\ UNCHANGED <<v2Vars, submit, tx, outcome>>

\* A call throws.  A click waits for its own reading in the same try as for its order.
RefreshFails(r) ==
    /\ refresh[r] # NoRefresh
    /\ refresh' = [refresh EXCEPT ![r] = NoRefresh]
    /\ page' = [page EXCEPT !.state = IF r \in Clicks THEN "ERROR" ELSE @]
    /\ UNCHANGED <<v2Vars, submit, tx, outcome>>

RefreshStep ==
    \/ \E w \in TicketWallets \cup {Nobody} : ConnectWallet(w)
    \/ \E r \in Refreshes : RefreshAgain(r)
    \/ \E r \in Readings :
          \/ ReadSnapshot(r) \/ ShowSnapshot(r) \/ ReadPositions(r) \/ ShowPositions(r)
          \/ RefreshFails(r)

-----------------------------------------------------------------------------
(* A click.                                                                *)

Working == {"SIMULATING", "AWAITING_SIGNATURE", "CONFIRMING"}

ready == page.wallet # Nobody /\ page.market # NotRead /\ page.market.open

\* submit: the closure keeps the wallet, the market and the positions of the click,
\* whosoever they are.
Click(k, side) ==
    /\ ready /\ page.state \notin Working
    /\ submit[k].stage = "none"
    /\ \A j \in Clicks : j < k => submit[j].stage # "none"
    /\ submit' = [submit EXCEPT ![k] =
          [ stage |-> "slot", trader |-> page.wallet,
            previous |-> page.accepted[side], holder |-> page.holder,
            args |-> [ side |-> side, stake |-> Stake,
                       max_edge |-> page.market.tolerance,
                       price |-> SidePrice(side, page.market.displayed),
                       slippage |-> Slippage,
                       priced_seq |-> page.market.priced_seq,
                       odds_seq |-> page.market.odds_seq, expiry |-> 0 ] ]]
    /\ UNCHANGED <<v2Vars, page, refresh, tx, outcome>>

Goes(k, from, to) == submit[k].stage = from /\ submit' = [submit EXCEPT ![k].stage = to]

Show(state) == page' = [page EXCEPT !.state = state]

\* getSlot has answered: buildOrderTransaction, place and evaluate in one.
SlotIsKnown(k) ==
    /\ submit[k].stage = "slot"
    /\ submit' = [submit EXCEPT ![k].stage = "simulating",
                                ![k].args.expiry = clock + OrderLife]
    /\ Show("SIMULATING")
    /\ UNCHANGED <<v2Vars, refresh, tx, outcome>>

Executes(k) ==
    LET o == OrderOfClick(k)
        placed == Placed(v2, o, submit[k].args)
    IN  /\ CanPlaceV2(v2, o, submit[k].args)
        /\ Refunds(placed, o) \/ SharesOf(placed, o) > 0

\* prepareAndSimulate.
Simulated(k) ==
    /\ Goes(k, "simulating", "signing") /\ Executes(k)
    /\ Show("AWAITING_SIGNATURE")
    /\ UNCHANGED <<v2Vars, refresh, tx, outcome>>

\* sendTransaction, with its preflight.
Signed(k) ==
    /\ Goes(k, "signing", "confirming") /\ Executes(k)
    /\ tx' = [tx EXCEPT ![k] = "pending"]
    /\ Show("CONFIRMING")
    /\ UNCHANGED <<v2Vars, refresh, outcome>>

\* The transaction lands, or fails, or its blockhash expires.
TransactionLands(k) ==
    LET o == OrderOfClick(k)
        placed == Placed(v2, o, submit[k].args)
        refunded == Refunds(placed, o)
    IN  /\ tx[k] = "pending"
        /\ IF Executes(k)
           THEN /\ v2' = Evaluated(placed, o)
                /\ outlay' = IF refunded THEN outlay
                            ELSE [outlay EXCEPT ![o.by] = @ + submit[k].args.stake]
                /\ tx' = [tx EXCEPT ![k] = "landed"]
                /\ outcome' = [outcome EXCEPT ![k] =
                                  IF refunded THEN "refunded" ELSE "accepted"]
           ELSE /\ tx' = [tx EXCEPT ![k] = "failed"]
                /\ UNCHANGED <<v2, outlay, outcome>>
        /\ UNCHANGED <<authorities, proposedAt, clock, page, refresh, submit>>

TransactionExpires(k) ==
    /\ tx[k] = "pending"
    /\ tx' = [tx EXCEPT ![k] = "failed"]
    /\ UNCHANGED <<v2Vars, page, refresh, submit, outcome>>

\* confirmTransaction says finalized.
SeenFinalized(k) ==
    /\ tx[k] = "landed"
    /\ Goes(k, "confirming", "reading")
    /\ UNCHANGED <<v2Vars, page, refresh, tx, outcome>>

ReadBack(k) == AcceptedOf(submit[k].trader, submit[k].args.side)

ShowResult(k) ==
    page' = [page EXCEPT
        !.state = IF ReadBack(k) > submit[k].previous THEN "POSITION_OPENED"
                  ELSE "REFUNDED",
        !.shown = k]

\* Slip: the result is read before the transaction is final.
ReadsUnconfirmed(k) ==
    /\ submit[k].stage \in {"confirming", "reading"}
    /\ submit' = [submit EXCEPT ![k].stage = "done"]
    /\ ShowResult(k)
    /\ refresh' = [refresh EXCEPT ![k] = Begun(submit[k].trader)]
    /\ UNCHANGED <<v2Vars, tx, outcome>>

\* The position is read back, and compared with what the click knew of it; then the
\* click reads everything again.
ReadsPosition(k) ==
    /\ Goes(k, "reading", "done")
    /\ Exists(v2.position[<<submit[k].trader, submit[k].args.side>>])
    /\ ShowResult(k)
    /\ refresh' = [refresh EXCEPT ![k] = Begun(submit[k].trader)]
    /\ UNCHANGED <<v2Vars, tx, outcome>>

\* Any call on the way throws: the simulation or the preflight refuses, the
\* trader declines, the transaction failed, or the network did.
Throws(k) ==
    /\ submit[k].stage \in {"slot", "simulating", "signing", "confirming", "reading"}
    /\ submit' = [submit EXCEPT ![k].stage = "done"]
    /\ page' = [page EXCEPT !.state = "ERROR", !.shown = k]
    /\ UNCHANGED <<v2Vars, refresh, tx, outcome>>

TicketStep ==
    \/ RefreshStep
    \/ \E k \in Clicks :
          \/ \E side \in Sides : Click(k, side)
          \/ SlotIsKnown(k) \/ Simulated(k) \/ Signed(k) \/ SeenFinalized(k)
          \/ ReadsPosition(k) \/ Throws(k)
          \/ TransactionLands(k) \/ TransactionExpires(k)

\* The others' steps: the orders of the page's clicks are the page's.
LeavesTicket ==
    /\ \A w \in TicketWallets, k \in Clicks :
          v2'.order[OrderOf2(w, k)] = v2.order[OrderOf2(w, k)]
    /\ UNCHANGED ticketVars

-----------------------------------------------------------------------------
(* Properties.                                                             *)

ShownMarkets ==
    [displayed : Int, priced_seq : Int, odds_seq : Int, tolerance : Int, open : BOOLEAN]

Connected == TicketWallets \cup {Nobody}

\* Of a reading: where it is, for whom, and what it has read.
RefreshesBegun ==
    [ stage : {"snapshot", "snapshot read", "positions", "positions read"},
      wallet : Connected, market : ShownMarkets \cup {NotRead}, accepted : [Sides -> Nat] ]

\* Of a click: who asks for what, and what the page knew of whose position.
Submissions ==
    [ stage : {"slot", "simulating", "signing", "confirming", "reading", "done"},
      trader : TicketWallets, previous : Nat, holder : Connected,
      args : [ side : Sides, stake : Nat, max_edge : Int, price : Int, slippage : Int,
               priced_seq : Int, odds_seq : Int, expiry : Int ] ]

\* A transaction is of a click that was made, and positions are only read for a wallet.
TicketTypeOK ==
    /\ page \in [ wallet : Connected, market : ShownMarkets \cup {NotRead},
                  accepted : [Sides -> Nat], holder : Connected, state : States,
                  shown : Clicks \cup {0} ]
    /\ refresh \in [Readings -> RefreshesBegun \cup {NoRefresh}]
    /\ \A r \in Readings :
          refresh[r].stage \in {"positions", "positions read"} =>
              refresh[r].wallet # Nobody
    /\ submit \in [Clicks -> Submissions \cup {NotClicked}]
    /\ tx \in [Clicks -> {"none", "pending", "landed", "failed"}]
    /\ outcome \in [Clicks -> {"none", "refunded", "accepted"}]
    /\ \A k \in Clicks : tx[k] # "none" => submit[k].stage # "none"

\* The wallets and the orders of the page's clicks are accounts of the system, and
\* what the ticket asks for are numbers.
TicketAssumption ==
    /\ TicketWallets \subseteq Traders /\ Nobody \notin TicketWallets
    /\ \A w \in TicketWallets, k \in Clicks : OrderOf2(w, k) \in V2Orders
    /\ Refreshes \cap Clicks = {}
    /\ Stake \in Nat /\ Slippage \in Int /\ OrderLife \in Int

\* A ticket that says "refunded" says so of an order that was refunded, however old the
\* position was that the page showed when it was clicked, and however clicks, readings
\* and switches of the wallet overlap: as long as that was the trader's own position,
\* or none.  Compared with another wallet's, an accepted order may be shown as
\* refunded, and nothing is claimed of it.
RefundShownIsTrue ==
    page.state = "REFUNDED" =>
        \/ outcome[page.shown] = "refunded"
        \/ submit[page.shown].holder \notin {submit[page.shown].trader, Nobody}
=============================================================================
