-------------------------- MODULE MarketWorkspace --------------------------
(***************************************************************************)
(* The market pages in the browser: the interactive workspace of a market  *)
(* (MarketWorkspace.tsx), the panel that takes it to devnet                *)
(* (CustomMarketDevnetInit.tsx) and the store that keeps markets, orders   *)
(* and receipts in localStorage (store.ts), in several tabs.               *)
(*                                                                         *)
(* The workspace keeps a market of its own, tells its page of every change *)
(* and mounts the panel with that market when a user created it.  The page *)
(* that mounts the workspace is not in the repository, and is taken to     *)
(* hand what it reports to the store's operation of that name.  Clicks,    *)
(* the timer of a reprice and the answers of the devnet routes are tasks   *)
(* of one tab; only localStorage is shared.                                *)
(***************************************************************************)
EXTENDS FairXMarkets, FiniteSets, Sequences, SequencesExt

CONSTANTS
    Tabs,
    Ids,             \* of markets
    Catalog,         \* marketCatalog: a function from some Ids
    CreatorInputs,   \* what creators ask for
    MaxOrders,       \* bound of the orders
    MaxReloads,      \* bound of the reloads and resets
    MaxCalls,        \* bound of the devnet calls
    MaxSaveFailures  \* bound of the failing saves

VARIABLES
    snapshot,   \* per tab: the store's snapshot
    storage,    \* localStorage: the store and its two receipt indexes
    workspace,  \* per tab: the page's market id, the workspace's own market
    timer,      \* per tab: the market captured by a reprice that runs, or Null
    call,       \* per tab: the panel's requests that run, with what each captured
    ready,      \* freshProofAvailable: the server can go to devnet
    placed,     \* orders placed
    reloads, calls, saveFailures,
    heard       \* history: the highest sequence a tab accepted with no request under way

workspaceVars == <<snapshot, storage, workspace, timer, call, ready, placed,
                   reloads, calls, saveFailures, heard>>

SeedSnapshot(hydrated) ==
    [markets |-> Catalog, orders |-> {}, receipts |-> <<>>, hydrated |-> hydrated]

Cleared == [store |-> Null, receipts |-> Null, last |-> Null]

Init ==
    /\ snapshot = [t \in Tabs |-> SeedSnapshot(FALSE)]
    /\ storage = Cleared
    /\ workspace = [t \in Tabs |-> Null]
    /\ timer = [t \in Tabs |-> Null]
    /\ call = [t \in Tabs |-> {}]
    /\ ready \in BOOLEAN
    /\ placed = 0 /\ reloads = 0 /\ calls = 0 /\ saveFailures = 0
    /\ heard = [t \in Tabs |-> [i \in Ids |-> 0]]

-----------------------------------------------------------------------------
(* The store.                                                              *)

\* isFairXMarket: isSource knows live, captured and demo.
IsFairXMarket(market) == market.source # "historical"

\* mergeMarkets: the catalog, with the stored markets that parse on top.
MergeMarkets(persisted) ==
    LET good == {i \in DOMAIN persisted : IsFairXMarket(persisted[i])}
    IN  [i \in DOMAIN Catalog \cup good |->
            IF i \in good THEN persisted[i] ELSE Catalog[i]]

\* loadFairXStore.
LoadFairXStore ==
    IF storage.store = Null THEN SeedSnapshot(TRUE)
    ELSE [storage.store EXCEPT !.markets = MergeMarkets(@)]

\* saveFairXStore writes three keys, and a full storage may refuse from the
\* first, the second or the third on: keys says how many were written.
SaveFairXStore(old, snap, keys) ==
    [ store |-> IF keys >= 1 THEN snap ELSE old.store,
      receipts |-> IF keys >= 2 THEN snap.receipts ELSE old.receipts,
      last |-> IF keys < 3 THEN old.last
               ELSE IF snap.receipts = <<>> THEN Null ELSE Last(snap.receipts) ]

\* upsertMarket, addOrder and addReceipt; each marks the snapshot hydrated.
UpsertMarket(snap, id, market) ==
    [snap EXCEPT
        !.markets = [i \in DOMAIN @ \cup {id} |-> IF i = id THEN market ELSE @[i]],
        !.hydrated = TRUE]

AddOrder(snap, order) ==
    [snap EXCEPT !.orders = {o \in @ : o.id # order.id} \cup {order},
                 !.hydrated = TRUE]

AddReceipt(snap, receipt) ==
    [snap EXCEPT !.receipts = Append(@, receipt), !.hydrated = TRUE]

\* commit: the whole snapshot of the tab is written, whatever another tab wrote.
Commit(t, snap) ==
    \E keys \in 0 .. 3 :
        /\ snapshot' = [snapshot EXCEPT ![t] = snap]
        /\ storage' = SaveFairXStore(storage, snap, keys)
        /\ saveFailures' = IF keys = 3 THEN saveFailures ELSE saveFailures + 1
        /\ saveFailures' <= MaxSaveFailures

\* Two commits, one after the other; the second may repair what the first did not write.
CommitBoth(t, first, second) ==
    \E keys1, keys2 \in 0 .. 3 :
        /\ snapshot' = [snapshot EXCEPT ![t] = second]
        /\ storage' = SaveFairXStore(SaveFairXStore(storage, first, keys1), second, keys2)
        /\ saveFailures' = IF keys1 = 3 /\ keys2 = 3 THEN saveFailures
                           ELSE saveFailures + 1
        /\ saveFailures' <= MaxSaveFailures

-----------------------------------------------------------------------------
(* The page.                                                               *)

IsOpen(t) == workspace[t] # Null

\* The effect of useFairXStore, before anything can be clicked.
Hydrate(t) ==
    /\ ~ snapshot[t].hydrated
    /\ snapshot' = [snapshot EXCEPT ![t] = [LoadFairXStore EXCEPT !.hydrated = TRUE]]
    /\ UNCHANGED <<storage, workspace, timer, call, ready, placed, reloads, calls,
                   saveFailures, heard>>

\* The page is loaded again: memory, timers and requests are gone.
Reload(t) ==
    /\ reloads < MaxReloads
    /\ snapshot' = [snapshot EXCEPT ![t] = SeedSnapshot(FALSE)]
    /\ workspace' = [workspace EXCEPT ![t] = Null]
    /\ timer' = [timer EXCEPT ![t] = Null]
    /\ call' = [call EXCEPT ![t] = {}]
    /\ heard' = [heard EXCEPT ![t] = [i \in Ids |-> 0]]
    /\ reloads' = reloads + 1
    /\ UNCHANGED <<storage, ready, placed, calls, saveFailures>>

\* reset: storage is cleared and the catalog shown, without saving.
Reset(t) ==
    /\ snapshot[t].hydrated /\ reloads < MaxReloads
    /\ storage' = Cleared
    /\ snapshot' = [snapshot EXCEPT ![t] = SeedSnapshot(TRUE)]
    /\ heard' = [heard EXCEPT ![t] = [i \in Ids |-> 0]]
    /\ reloads' = reloads + 1
    /\ UNCHANGED <<workspace, timer, call, ready, placed, calls, saveFailures>>

\* A creator's market.
Create(t) ==
    \E id \in Ids \ DOMAIN Catalog, in \in CreatorInputs :
        /\ snapshot[t].hydrated /\ id \notin DOMAIN snapshot[t].markets
        /\ ValidInput(in)
        /\ Commit(t, UpsertMarket(snapshot[t], id, CreateFairXMarket(in)))
        /\ UNCHANGED <<workspace, timer, call, ready, placed, reloads, calls, heard>>

\* The panel is there for a market that a user created.  When another market is
\* shown it goes, with what it knew of its requests, which run on.
HasPanel(market) == market.createdBy = "user"
Showing(market, requests) ==
    IF HasPanel(market) THEN requests
    ELSE {[r EXCEPT !.mounted = FALSE] : r \in requests}

\* The effect on initialMarket.id.  A reprice that runs is not stopped.
Open(t) ==
    \E id \in DOMAIN snapshot[t].markets :
        LET market == snapshot[t].markets[id]
        IN  /\ snapshot[t].hydrated
            /\ IsOpen(t) => workspace[t].page # id
            /\ workspace' = [workspace EXCEPT ![t] =
                                [page |-> id, id |-> id, market |-> market]]
            /\ call' = [call EXCEPT ![t] = Showing(market, @)]
            /\ UNCHANGED <<snapshot, storage, timer, ready, placed, reloads, calls,
                           saveFailures, heard>>

\* updateMarket: the workspace's market and, through the page, the store's.
UpdateMarket(t, id, market) ==
    /\ workspace' = [workspace EXCEPT ![t].id = id, ![t].market = market]
    /\ Commit(t, UpsertMarket(snapshot[t], id, market))

-----------------------------------------------------------------------------
(* The workspace.                                                          *)

PreferredEvent(market) ==
    CASE "goals" \in market.rules -> "GOAL"
      [] "goals" \notin market.rules /\ "redCards" \in market.rules -> "RED_CARD"
      [] market.rules \cap {"goals", "redCards"} = {} /\ "penalties" \in market.rules
            -> "PENALTY"
      [] OTHER -> "ODDS_UPDATE"

\* toNormalizedEvent of the generated event: a goal or a penalty is given to the
\* side that YES backs, except on a market of total goals.
GeneratedEvent(market) ==
    [ eventType |-> PreferredEvent(market), source |-> market.source,
      seq |-> market.materialSeq + 1, implied |-> 0,
      forBacked |-> /\ PreferredEvent(market) \in {"GOAL", "PENALTY"}
                    /\ market.type # "TOTAL_GOALS" ]

EmitMaterialEvent(t) ==
    LET old == workspace[t].market
        new == ApplyMarketEvent(old, GeneratedEvent(old), 0)
    IN  /\ IsOpen(t) /\ old.materialSeq < MaxSeq
        /\ UpdateMarket(t, workspace[t].id, new)
        /\ heard' = IF timer[t] = Null /\ call[t] = {}
                    THEN [heard EXCEPT ![t][workspace[t].id] =
                             HighestOf({@, new.materialSeq})]
                    ELSE heard
        /\ UNCHANGED <<timer, call, ready, placed, reloads, calls>>

\* reprice: the market as it is now is captured for the timer.
Reprice(t) ==
    LET interim == [workspace[t].market EXCEPT !.status = "REPRICING"]
    IN  /\ IsOpen(t) /\ timer[t] = Null
        /\ IsFairXMarketStale(workspace[t].market)
        /\ UpdateMarket(t, workspace[t].id, interim)
        /\ timer' = [timer EXCEPT ![t] = [id |-> workspace[t].id, market |-> interim]]
        /\ UNCHANGED <<call, ready, placed, reloads, calls, heard>>

\* Slip: the timer closes the window without catching the quote up.
RepriceFiresUnpriced(t) ==
    LET market == [timer[t].market EXCEPT !.pricedAtSeq = timer[t].market.materialSeq,
                                          !.status = "TRADING"]
    IN  /\ timer[t] # Null
        /\ UpdateMarket(t, timer[t].id, market)
        /\ call' = [call EXCEPT ![t] = Showing(market, @)]
        /\ timer' = [timer EXCEPT ![t] = Null]
        /\ UNCHANGED <<ready, placed, reloads, calls, heard>>

\* 450 ms later: what was captured is repriced and shown, whatever the workspace
\* shows by then.
RepriceFires(t) ==
    LET market == RepriceFairXMarket(timer[t].market)
    IN  /\ timer[t] # Null
        /\ UpdateMarket(t, timer[t].id, market)
        /\ call' = [call EXCEPT ![t] = Showing(market, @)]
        /\ timer' = [timer EXCEPT ![t] = Null]
        /\ UNCHANGED <<ready, placed, reloads, calls, heard>>

\* Slip: the receipt is not handed on.
SubmitWithoutReceipt(t) ==
    \E side \in Sides, actor \in Actors :
        LET market == workspace[t].market
            order == CreateGuardedOrder(placed + 1, market, side, actor)
            withOrder == AddOrder(snapshot[t], order)
        IN  /\ IsOpen(t) /\ placed < MaxOrders
            /\ ValidOrder(market, side)
            /\ placed' = placed + 1
            /\ Commit(t, withOrder)
            /\ UNCHANGED <<workspace, timer, call, ready, reloads, calls, heard>>

\* submit: the user's order on either side, the bot's on YES.  An order that does
\* not validate throws.  Order and receipt are handed on, and saved, one after
\* the other.
Submit(t) ==
    \E side \in Sides, actor \in Actors :
        LET market == workspace[t].market
            order == CreateGuardedOrder(placed + 1, market, side, actor)
            withOrder == AddOrder(snapshot[t], order)
        IN  /\ IsOpen(t) /\ placed < MaxOrders
            /\ actor = "bot" => side = "YES"
            /\ ValidOrder(market, side)
            /\ placed' = placed + 1
            /\ CommitBoth(t, withOrder, AddReceipt(withOrder, Receipt(order, market)))
            /\ UNCHANGED <<workspace, timer, call, ready, reloads, calls, heard>>

-----------------------------------------------------------------------------
(* The devnet panel.  A request captures the workspace's market when it is *)
(* sent, and its answer gives updateMarket that market with what it learnt.*)

\* Slip: the panel takes the market from localStorage.
PageMarketAsStored(t) ==
    IF storage.store # Null /\ workspace[t].id \in DOMAIN storage.store.markets
    THEN storage.store.markets[workspace[t].id]
    ELSE workspace[t].market

\* The panel's market property.
PageMarket(t) == workspace[t].market

\* busy and placing.
Busy(t, request) == \E r \in call[t] : r.request = request /\ r.mounted

Sent(t, request) ==
    /\ ready /\ calls < MaxCalls
    /\ ~ Busy(t, request)
    /\ call' = [call EXCEPT ![t] = @ \cup
                   {[ n |-> calls, request |-> request, mounted |-> TRUE,
                      id |-> workspace[t].id, market |-> PageMarket(t) ]}]
    /\ calls' = calls + 1
    /\ UNCHANGED <<snapshot, storage, workspace, timer, ready, placed, reloads,
                   saveFailures, heard>>

\* initialize and placeOrder.
Initialize(t) ==
    /\ IsOpen(t) /\ HasPanel(workspace[t].market)
    /\ "initialized" \notin PageMarket(t).onChain
    /\ PageMarket(t).type = "MATCH_WINNER"
    /\ Sent(t, "init")

PlaceOrder(t) ==
    /\ IsOpen(t) /\ HasPanel(workspace[t].market)
    /\ "initialized" \in PageMarket(t).onChain
    /\ Sent(t, "place")

\* The captured market as the answer leaves it.
Learnt(r) ==
    [r.market EXCEPT !.onChain =
        IF r.request = "init" THEN {"initialized"}
        ELSE @ \cup {"initialized", "settled"}]

\* The answer is shown and stored, whatever the workspace shows by then; a panel
\* that is gone still tells the workspace.
Answer(t) ==
    \E r \in call[t] :
        /\ UpdateMarket(t, r.id, Learnt(r))
        /\ call' = [call EXCEPT ![t] = Showing(r.market, @ \ {r})]
        /\ UNCHANGED <<timer, ready, placed, reloads, calls, heard>>

\* Or the error, which only clears the request.
Fails(t) ==
    \E r \in call[t] :
        /\ call' = [call EXCEPT ![t] = @ \ {r}]
        /\ UNCHANGED <<snapshot, storage, workspace, timer, ready, placed, reloads,
                       calls, saveFailures, heard>>

TabStep(t) ==
    \/ Hydrate(t)
    \/ Reload(t)
    \/ Reset(t)
    \/ Create(t)
    \/ Open(t)
    \/ EmitMaterialEvent(t)
    \/ Reprice(t)
    \/ RepriceFires(t)
    \/ Submit(t)
    \/ Initialize(t)
    \/ PlaceOrder(t)
    \/ Answer(t)
    \/ Fails(t)

Next == \E t \in Tabs : TabStep(t)

-----------------------------------------------------------------------------
(* Properties.                                                             *)

\* Every variable keeps its type, in memory and in storage.
WorkspaceTypeOK ==
    LET Whole(s) == /\ \A i \in DOMAIN s.markets : s.markets[i] \in FairXMarket
                    /\ \A k \in DOMAIN s.receipts : s.receipts[k].orderId \in 1 .. placed
    IN  /\ \A t \in Tabs :
              /\ Whole(snapshot[t])
              /\ IsOpen(t) => workspace[t].market \in FairXMarket
              /\ timer[t] # Null => timer[t].market.status = "REPRICING"
        /\ storage.store # Null => Whole(storage.store)
        /\ placed \in 0 .. MaxOrders

KeptOrders ==
    (UNION {snapshot[t].orders : t \in Tabs})
        \cup (IF storage.store = Null THEN {} ELSE storage.store.orders)

\* A market whose creator opened it away from its fair price, before any event.
OpenedAwayFromFair(quote) ==
    /\ quote.materialSeq = 1 /\ quote.pricedAtSeq = 1
    /\ \E in \in CreatorInputs : ValidInput(in) /\ in.displayed # in.fair

\* A filled order never had more edge over the fair price than the market's
\* tolerance, through events, reprices that run late and reloads: a market that
\* is not stale shows its fair price.  Only the opening quote of a creator, which
\* validateFairXMarketInput does not compare with the fair price, may differ.
FillsAreFair ==
    \A o \in KeptOrders :
        o.status = "filled" /\ ~ OpenedAwayFromFair(o.quote) =>
            o.quote.fairSide - o.quote.observed <= o.quote.tolerance

\* Orders and receipts stay together: in every tab each order has the receipt
\* that tells its numbers, and so in storage with its indexes, across tabs,
\* reloads and resets, as long as no save was refused halfway.
OrdersKeepTheirReceipts ==
    LET Matched(s) ==
            \A o \in s.orders :
                \E k \in DOMAIN s.receipts :
                    /\ s.receipts[k].orderId = o.id
                    /\ s.receipts[k].quote = o.quote
                    /\ s.receipts[k].verdict = o.verdict
    IN  saveFailures = 0 =>
            /\ \A t \in Tabs : Matched(snapshot[t])
            /\ storage.store # Null =>
                  /\ Matched(storage.store)
                  /\ storage.receipts = storage.store.receipts
                  /\ storage.last = IF storage.receipts = <<>> THEN Null
                                    ELSE Last(storage.receipts)

\* An event that the workspace accepted while none of its requests was under way
\* stays in the market, in the tab and so in its fair price: a reprice and the
\* devnet panel write back what they captured, and only forget what came after.
EventsOutsideRequestsAreKept ==
    \A t \in Tabs :
        \A i \in DOMAIN snapshot[t].markets :
            snapshot[t].markets[i].materialSeq >= heard[t][i]
=============================================================================
