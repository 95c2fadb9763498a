------------------------- MODULE LineGuardPrograms -------------------------
(***************************************************************************)
(* The LineGuard program and everyone who uses it.  Of the first           *)
(* generation: the traders and the market authority, who send any          *)
(* instruction at any time, and the server's flows.  Of the second: the    *)
(* authorities and the traders of a market, a trading ticket, and the      *)
(* operator's scripts.                                                     *)
(*                                                                         *)
(* The generations share the program and no account.                       *)
(***************************************************************************)
EXTENDS OperatorFlows, OrderTicket, LifecycleRecorder

CONSTANT Transactions   \* what the traders and the authority of the first send

firstVars == flowVars
secondVars == <<v2Vars, ticketVars, scriptVars>>
programVars == <<firstVars, secondVars>>

-----------------------------------------------------------------------------
(* Where earlier requests may have left the default market: a YES order    *)
(* waits and an event has come in since.                                   *)
OrderLeftWaiting == [market |-> DefaultMarket, by |-> DefaultMarket, n |-> "Yes"]

DefaultTerms == TermsWithSeq(CanonicalInput, CANONICAL_INITIAL_SEQ)

EarlierRequests ==
    /\ market = [m \in Markets |->
                    IF m # DefaultMarket THEN NoAccount
                    ELSE [NewMarket(Operator, DefaultTerms)
                             EXCEPT !.material_seq = CANONICAL_EVENT_SEQ,
                                    !.status = "Stale",
                                    !.source_event = CANONICAL_EVENT_SEQ,
                                    !.fair = CANONICAL_FAIR_PRICE]]
    /\ config = [m \in Markets |->
                    IF m # DefaultMarket THEN NoAccount
                    ELSE [authority |-> Operator, commitment |-> CanonicalCommitment]]
    /\ receipt = [m \in Markets |-> NoAccount]
    /\ order = [o \in Orders |->
                   IF o # OrderLeftWaiting THEN NoAccount
                   ELSE [ trader |-> Operator, side |-> "Yes",
                          stake |-> STAKE_LAMPORTS,
                          observed |-> CANONICAL_DISPLAYED_PRICE, edge |-> 0,
                          status |-> "Escrowed", verdict |-> "ALLOWED",
                          event |-> Zero, lamports |-> STAKE_LAMPORTS ]]
    /\ vault = [total_finalized |-> 0, fill_count |-> 0, lamports |-> 0]
    /\ spent = [u \in Users |-> IF u = Operator THEN STAKE_LAMPORTS ELSE 0]
    /\ now = 0
    /\ flow = [f \in Flows |-> Idle]

FirstInit == FlowInit \/ EarlierRequests
SecondInit == V2Init /\ TicketInit /\ RecorderInit
ProgramsInit == FirstInit /\ SecondInit

-----------------------------------------------------------------------------
TradersStep ==
    /\ \/ \E t \in Transactions : Accepts(t) /\ Execute(t)
       \/ Tick
    /\ UNCHANGED flow

FirstStep == TradersStep \/ FlowNext

\* The authorities, and traders other than the ticket's and the scripts'.
OthersStep == V2Next /\ LeavesTicket /\ LeavesScripts

SecondStep ==
    \/ OthersStep
    \/ TicketStep /\ UNCHANGED scriptVars
    \/ RecorderStep /\ UNCHANGED ticketVars

ProgramsNext ==
    \/ FirstStep /\ UNCHANGED secondVars
    \/ SecondStep /\ UNCHANGED firstVars

ProgramsSpec == ProgramsInit /\ [][ProgramsNext]_programVars

\* The constants of both generations, of the flows, of the ticket and of the scripts,
\* whose wallets are not the ticket's.
ProgramsAssumption ==
    /\ LegacyAssumption /\ FlowAssumption
    /\ \A t \in Transactions : TypedTransaction(t)
    /\ V2Assumption /\ TicketAssumption /\ RecorderAssumption
    /\ TicketWallets \cap Wallets = {}

\* On the markets of the server, and their orders.
OnServersMarket(t) ==
    \/ t.ix \in ByMarketInstructions /\ t.market \in ServersMarkets
    \/ t.ix \in ByOrderInstructions /\ t.order.market \in ServersMarkets

\* The traders have markets of their own.
TradersElsewhere == \A t \in Transactions : ~ OnServersMarket(t)

-----------------------------------------------------------------------------
(* Properties.                                                             *)

\* Every variable keeps its type, of the program, the server, the ticket and the
\* scripts.
ProgramsTypeOK ==
    /\ LegacyTypeOK /\ FlowTypeOK
    /\ V2TypeOK /\ TicketTypeOK /\ RecorderTypeOK

\* LineGuardLegacy, LineGuardV2: the vaults hold what the markets may still have to
\* pay, every winner can claim, and no order is kept by the program's accounting.
MarketsAreCovered ==
    /\ EveryMarketIsCovered /\ ClaimsAreCovered
    /\ VaultCoversPositions /\ ClaimsAreNeverBlocked /\ EscrowIsNeverBlocked

\* OrderTicket, LifecycleRecorder: a ticket that says "refunded" says so of a
\* refunded order, and the recorded lifecycle gives each wallet what it got.
OutcomesShownAreTrue == RefundShownIsTrue /\ RecordIsTrue
=============================================================================
