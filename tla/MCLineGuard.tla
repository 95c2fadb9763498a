---------------------------- MODULE MCLineGuard ----------------------------
(***************************************************************************)
(* The LineGuard program for TLC, under one of its users: the traders and  *)
(* the market authority of the first generation, or the server's flows; or *)
(* the authorities of the second generation, the traders of one market, a  *)
(* trading ticket, or the operator's scripts.                              *)
(***************************************************************************)
EXTENDS LineGuardPrograms, TLC

CONSTANTS t1, m3, m4, f1, f2, canonical, sandbox, other

VARIABLE driver

vars == <<driver, programVars>>

\* The orders of the traders: three on one market, one on the other.
TraderOrders ==
    {[market |-> m3, by |-> t1, n |-> n] : n \in {"Yes", "No", "exploit"}}
        \cup {[market |-> m4, by |-> t1, n |-> "Yes"]}

FlowOrders ==
    {[market |-> DefaultMarket, by |-> DefaultMarket, n |-> n] : n \in Sides}
        \cup {[market |-> CustomMarket, by |-> f, n |-> n] : f \in Flows, n \in Sides}
        \cup {[market |-> f, by |-> f, n |-> n] :
                 f \in Flows, n \in Sides \cup {"exploit"}}

MCOrders == TraderOrders \cup FlowOrders
MCMarkets == {m3, m4} \cup ServersMarkets

TermsAt(material, priced) ==
    [ fixture |-> CANONICAL_FIXTURE_ID, material |-> material, priced |-> priced,
      displayed |-> CANONICAL_DISPLAYED_PRICE, fair |-> CANONICAL_DISPLAYED_PRICE,
      tolerance |-> TOLERANCE_2C, close_time |-> 1, commitment |-> canonical ]

\* Two callers who describe one market and disagree about its price, and a third with
\* another tolerance; the sandbox event leaves an edge, is capped, or is tolerated.
MCInput(displayed, tolerance, commitment) ==
    [ displayed |-> displayed, fair |-> 60, tolerance |-> tolerance,
      commitment |-> commitment ]
MCCustomInputs == {MCInput(56, 2, sandbox), MCInput(90, 2, sandbox), MCInput(56, 25, other)}

\* What the traders and the authority send: a market that anyone may close after
\* time 1, in sync or priced ahead of its events, and one that is stale from the start
\* and without a config of its own; an event that leaves an edge and one that does
\* not, stakes that do not divide the pools.
MCTransactions ==
    LET ByAuthority(ix, m) == [ix |-> ix, market |-> m, signer |-> Operator]
        OnOrders(ix) == {[ix |-> ix, order |-> o] : o \in TraderOrders}
    IN  { [ix |-> "initialize_market_config", market |-> m3,
           signer |-> Operator, terms |-> TermsAt(1, 1)],
          [ix |-> "initialize_market_config", market |-> m3,
           signer |-> Operator, terms |-> TermsAt(1, 3)],
          [ix |-> "initialize_market", market |-> m4,
           signer |-> Operator, terms |-> TermsAt(2, 1)],
          [ix |-> "attach_market_config", market |-> m4,
           signer |-> Operator, terms |-> TermsAt(2, 1)],
          [ix |-> "initialize_vault"],
          [ix |-> "ingest_material_event", market |-> m3,
           signer |-> Operator, seq |-> 2, price |-> CANONICAL_FAIR_PRICE],
          [ix |-> "reprice_market", market |-> m3, signer |-> Operator,
           price |-> CANONICAL_FAIR_PRICE],
          [ix |-> "close_market", market |-> m3, signer |-> t1] }
        \cup {[ix |-> "place_order", order |-> o, signer |-> t1,
               side |-> IF o.n = "No" THEN "No" ELSE "Yes",
               stake |-> IF o.n = "exploit" THEN 1 ELSE 2] :
                  o \in TraderOrders}
        \cup OnOrders("evaluate_order")
        \cup OnOrders("refund_voided_order")
        \cup OnOrders("settle_order")
        \cup {[ix |-> "submit_txline_validation", market |-> m3,
               signer |-> Operator, fixture |-> CANONICAL_FIXTURE_ID,
               home |-> s[1], away |-> s[2]] : s \in {<<1, 0>>, <<1, 1>>}}
        \cup {ByAuthority("close_market", m3),
              ByAuthority("confirm_validation", m3),
              ByAuthority("resolve_market_from_txline", m3),
              ByAuthority("emergency_void_market", m4)}

-----------------------------------------------------------------------------
(* The second generation.                                                  *)

AuthoritySet ==
    [ feed |-> "feed", pricing |-> "pricer", resolution |-> {"r1", "r2", "r3"},
      emergency |-> "emergency", threshold |-> 2 ]

TermsWith(limit) ==
    [ material |-> 1, priced |-> 1, odds |-> 1, displayed |-> 40, fair |-> 40,
      tolerance |-> limit, close_time |-> 1, min_ts |-> 1 ]

Asks(side, stake, max_edge, price, slippage, expiry) ==
    [ side |-> side, stake |-> stake, max_edge |-> max_edge, price |-> price,
      slippage |-> slippage, priced_seq |-> 1, odds_seq |-> 1, expiry |-> expiry ]

MCTraders == {"me", "you", "p", "q", "a", "b", "c"}

\* The clicks of either wallet of the page, two other traders', and the scripts'.
MCV2Orders ==
    {[by |-> w, n |-> k] : w \in TicketWallets, k \in Clicks}
        \cup {[by |-> "q", n |-> n] : n \in 1 .. 2}
        \cup {[by |-> w, n |-> 1] : w \in {"p", "a", "b", "c"}}

MCAuthoritySets == {AuthoritySet, [AuthoritySet EXCEPT !.threshold = 1, !.feed = "feed2"]}
MCOperatorRoles == {AuthoritySet}
MCTerms2 == {TermsWith(2), TermsWith(25)}

\* Orders on both sides, one that does not accept what the market does, and orders
\* that the program refuses, always or later.
MCOrderArgs ==
    { Asks("Yes", 2, 5, 40, 2, 1), Asks("Yes", 1, 30, 40, 2, 1), Asks("No", 1, 5, 60, 1, 1),
      Asks("Yes", 3, 5, 40, 2, 0), Asks("Yes", 0, 5, 40, 2, 1), Asks("Yes", 2, 5, 0, 50, 1),
      Asks("Yes", 2, 5, 43, 2, 1), Asks("No", 2, 5, 60, 101, 1),
      Asks("No", 1, 2, 60, 0, 0) }

MCOdds == {[sequence |-> 2, price |-> 60], [sequence |-> 3, price |-> 40]}
MCEvidence == {[ts |-> 1, home |-> 1, away |-> 0], [ts |-> 1, home |-> 0, away |-> 1]}
MCFinalScore == [ts |-> 1, home |-> 1, away |-> 0]

ASSUME AccountsAreProper == ProgramsAssumption /\ TradersElsewhere

\* Both markets have their config before the first order, which is the one on the market
\* that is stale from the start.
TradersBounds ==
    order' # order =>
        /\ Exists(config[m3]) /\ Exists(config[m4])
        /\ Exists(order'[[market |-> m4, by |-> t1, n |-> "Yes"]])

\* Of two custom orders at most one is on NO, and then both describe the market alike,
\* but for its price.
CustomOrders == {f \in Flows : flow'[f].stage # "idle" /\ flow'[f].kind = "custom-order"}
ServerBounds ==
    \A f, g \in CustomOrders :
        f # g /\ flow'[f].side = "No" =>
            /\ flow'[g].side = "Yes"
            /\ flow'[f].input.commitment = flow'[g].input.commitment

OpenedAt(limit) == Exists(v2'.market) => v2'.market.tolerance = limit
NothingProposed ==
    Exists(authorities') =>
        /\ authorities'.current = AuthoritySet
        /\ authorities'.pending = NoAccount

\* The authorities change, before and after a market is opened with theirs; on the
\* market nothing but its closing happens.
GovernanceBounds ==
    /\ OpenedAt(2)
    /\ Exists(v2'.market) =>
          /\ v2'.market.material_seq = 1 /\ v2'.market.odds_sequence = 1
          /\ ~ v2'.market.resolved
    /\ v2'.validation = NoAccount
    /\ v2'.order = v2.order

\* One market before its close: one trader's order of 2 on YES and the other's of 1
\* on either side, again only when they were cancelled.  The resolvers, who are
\* alike, sign in one order.
TradingBounds ==
    /\ OpenedAt(25) /\ NothingProposed /\ clock' = 0
    /\ Exists(v2'.market) => v2'.market.odds_sequence <= 2
    /\ Exists(v2'.validation) =>
          v2'.validation.approvals \in {{"r1"}, {"r1", "r2"}}
    /\ \A o \in V2Orders :
          Exists(v2'.order[o]) =>
              /\ v2'.order[o].side = IF o.n = 2 THEN "No" ELSE "Yes"
              /\ v2'.order[o].stake = IF o.by = "p" THEN 2 ELSE 1
              /\ v2'.order[o].max_edge > 2
              /\ ~ Exists(v2.order[o]) =>
                    v2'.position[PositionOf(v2', o)].deposited = v2'.order[o].stake

\* Something on the page is not what the chain holds.
PageIsOld ==
    \/ page.market # ShownMarket \/ page.holder # page.wallet
    \/ \E w \in {page.wallet} \ {Nobody}, s \in Sides : page.accepted[s] # AcceptedOf(w, s)

\* Two clicks on YES before the close, until both are through: of one wallet, which is
\* connected once the market is open, or of two, one after the other's click.  The page
\* is only read again when it is old, and a snapshot is shown at once: an older one is
\* what a page shows that has not read.  No reading goes on after the last click was
\* made, other than the clicks' own.
TicketBounds ==
    /\ OpenedAt(2) /\ NothingProposed /\ clock' = 0
    /\ v2'.validation = NoAccount
    /\ Exists(v2'.market) =>
          ~ v2'.market.trading_closed /\ ~ v2'.market.resolved
              /\ v2'.market.odds_sequence <= 2
    /\ \A k \in Clicks : submit'[k].stage # "none" => submit'[k].args.side = "Yes"
    /\ \E k \in Clicks : submit[k].stage # "done"
    /\ ~ Exists(v2.market) => UNCHANGED ticketVars
    /\ page'.wallet # page.wallet =>
          \/ page.wallet = Nobody /\ page'.wallet = "me"
          \/ page'.wallet = "you" /\ submit[1].stage = "done"
    /\ \A r \in Refreshes :
          refresh[r] = NoRefresh /\ refresh'[r] # NoRefresh /\ page' = page =>
              PageIsOld /\ \A q \in Readings : refresh[q] = NoRefresh
    /\ \A r \in Readings :
          refresh[r].stage = "snapshot read" => refresh'[r] # refresh[r]
    /\ submit'[2].stage # "none" =>
          /\ page'.wallet = page.wallet
          /\ \A r \in Readings :
                IF r \in Refreshes \/ submit'[r].stage # "done" THEN refresh'[r] = NoRefresh
                ELSE refresh'[r].stage # "snapshot read"

\* Two runs of the script, or one and the others' steps, while it is on its way or
\* done: without it they are the traders of TradingBounds.  The others trade one
\* order, commit later odds and prove another score; the resolvers sign in one order.
RecorderBounds ==
    /\ \/ run' # run \/ ~ Exists(authorities)
       \/ run[1].status \in {"running", "done"} /\ run[1].at > 2 /\ run[2].status = "idle"
    /\ run'[1].status = "idle" => run'[2].status = "idle"
    /\ NothingProposed /\ clock' = 0
    /\ Exists(v2'.validation) => v2'.validation.approvals \in {{"r1"}, {"r1", "r2"}}
    /\ run' = run =>
          /\ Exists(v2.market) <=> Exists(v2'.market)
          /\ Exists(v2.market) =>
                /\ v2'.market.material_seq = v2.market.material_seq
                /\ v2'.market.odds_sequence \in {v2.market.odds_sequence, 3}
          /\ Exists(v2'.validation) /\ ~ Exists(v2.validation) =>
                v2'.validation.outcome = 2
          /\ \A o \in V2Orders :
                Exists(v2'.order[o]) => o = [by |-> "q", n |-> 1]
                                        /\ v2'.order[o].max_edge = 2

-----------------------------------------------------------------------------
MCInit ==
    /\ ProgramsInit
    /\ driver \in {"traders", "server", "governance", "trading", "ticket", "recorder"}
    /\ EarlierRequests => driver = "server"
    /\ driver # "recorder" => script = "record"

\* Of the others' steps, the authorities'.
AuthoritiesStep == AuthorityStep /\ LeavesTicket /\ LeavesScripts

UnderFirst(name) == driver = name /\ UNCHANGED <<driver, secondVars>>
UnderSecond(name) == driver = name /\ UNCHANGED <<driver, firstVars>>

\* Steps of ProgramsNext, of one user.
MCNext ==
    \/ UnderFirst("traders") /\ TradersStep /\ TradersBounds
    \/ UnderFirst("server") /\ FlowNext /\ ServerBounds
    \/ UnderSecond("governance") /\ OthersStep /\ GovernanceBounds
    \/ UnderSecond("trading") /\ OthersStep /\ TradingBounds
    \/ /\ UnderSecond("ticket")
       /\ (TicketStep /\ UNCHANGED scriptVars) \/ AuthoritiesStep
       /\ TicketBounds
    \/ /\ UnderSecond("recorder")
       /\ (RecorderStep /\ UNCHANGED ticketVars) \/ OthersStep
       /\ RecorderBounds

MCSpec == MCInit /\ [][MCNext]_vars

-----------------------------------------------------------------------------
SymmetryOfFlows == Permutations({f1, f2})
=============================================================================
