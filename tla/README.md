# A verification development for FairX

FairX is a demonstration of a prediction market on Solana that is priced by
TxLINE, a signed feed of football odds and events. The question it answers is
what happens to orders that were signed before a goal and land after it. The
repository holds two on-chain programs, the TypeScript services and the web
application around them.

This directory models the programs in TLA+, checks the models with TLC and
proves the central properties with TLAPS.

## 1. Inventory

| Part | State it keeps | Operations | Interacts with | What is hard |
|---|---|---|---|---|
| **FairX V4 vault program** `programs/fairx_vault_v4/src/lib.rs` | authority config, market (life cycle, current quote), liquidity vault (money, lifetime totals, counters), positions, quote and resolution receipts, resolution proposal | 18 instructions | the operator, feed and pricing keys, three resolvers, traders, strangers; TxLINE's program by CPI; the system program | instructions of independent signers land in any order, long after they were signed; money is tracked by running totals that never look at the positions |
| **LineGuard program, V2 markets** `programs/lineguard/src/lib.rs` 1009–1935 | market with shares and vault counters, order accounts that hold the stake in escrow, positions per trader | place, evaluate, cancel, claim, close, reprice, resolve, void | traders, feed and pricing keys, resolvers, anyone (evaluation is permissionless) | an escrowed order is decided by whoever evaluates it, whenever; accounts are closed while others refer to them; pro-rata claims round |
| **LineGuard program, authority updates** `…/lib.rs` 920–1008 | authority config and a pending update | propose, execute after 24 h | every V2 market takes a snapshot | replacement of a pending update, snapshot against live config |
| **LineGuard program, legacy markets** `…/lib.rs` 79–919 | market, vault, order escrow | the first version of the above, parimutuel settlement | the same | orders stranded in escrow, floor dust |
| **Terminal state machine** `lib/terminal`, `lib/escrow`, `lib/markets/engine.ts`, `lib/lineguard/evaluate.ts` | reducer state: market, bot order, escrow, verdict, receipt, proof | 25 actions | hooks and components dispatch | timers and clicks in any order; a receipt's verification against a proof replaced later |
| **Replay and timers** `hooks/useReplay.ts`, `lib/runtime` | timers, cursor | start, step, stop | the reducer | callbacks of a replay that was stopped |
| **TxLINE streams** `hooks/useTxLineStream.ts`, `lib/txline` | connection, attempt, last event id, fallback sequence | connect, read, fail, retry, close | the server's proxy routes, the reducer | reconnection racing close; at most five attempts; resumption; regressing sequences |
| **Lifecycle verification cache** `lib/proof/verificationCache.ts`, `v4VerificationService.ts` | verified results, attempts with expiry, in-flight runs | seed, state, refresh | API routes, an RPC node | single flight, a late failure after a success, timeout against a late answer |
| **Reference quotes** `lib/polymarket` | quote cache, history cache, rate-limit buckets | serve, refresh, limit | Polymarket's API, API routes | stale or rejected quotes served from the cache |
| **Market store** `lib/markets` | user markets in local storage | create, load, remove | the web application | partial writes |
| **Market workspace** `components/fairx/MarketWorkspace.tsx`, `CustomMarketDevnetInit.tsx` | a market of its own, a reprice timer, the panel's devnet calls (for markets a user created) | emit, reprice, submit, initialize, order | the store, the server's routes | a timer and late answers write back what they captured, to the workspace and to the store |
| **Server's devnet flows** `lib/solana/lineguardServer.ts` | none between requests | nine requests of up to a dozen transactions | the legacy program, an RPC node | other requests between two transactions; a confirmation that is given up on; state read one account after the other, any of which may fail |
| **Order ticket** `components/fairx/DevnetMarket.tsx` | wallet, market, positions and state shown | connect, submit, refresh | the V2 program, the wallet | overlapping clicks and readings; another wallet is connected while the positions shown are still the last one's; a result inferred from two reads |
| **Deployment scripts** `scripts/fairx-v4-construct-deployment.ts`, `…-send-continuation.ts` | none | plan and simulate; send | the loader | stopped and overlapping runs; transactions that land late |
| **Lifecycle scripts** `scripts/fairx-v4-*.ts`, `lineguard-v3-record-lifecycle.ts`, `lineguard-v2-initialize.ts` | evidence files | play, record, finalize | the programs | a run dies between two transactions or before its file |
| **Live market scripts** `scripts/fairx-prepare-live-market.ts`, `…-initialize-live-market.ts` | capture files | prepare, verify, open | Polymarket, the V2 program | what was sound when captured and is used later |
| **Runtime status** `lib/status/runtime.ts`, `hooks/useRuntimeStatus.ts` | a cached status, one check in flight | check, serve, show | RPC node, TxLINE | reads of one check straddle an upgrade; answers overtake each other |
| **V4 replay, incident replay** `lib/v4/replay.ts`, `lib/runtime`, their pages | stage, playing, speed, a timer | step, play, select | presentation of the program's rule | effects and timers; an arithmetic of their own |
| **Integration kit, quote guard** `lib/integration-kit`, `lib/quote-guard` | the lab's selection and outcome | decide, run, select | API route | agreement with the program; an answer after another selection |
| **Evidence verifiers, receipts** `lib/proof`, `lib/receipts`, `lib/attack` | none | read and compare a recorded lifecycle | RPC node | retries, missing answers, deadlines and what they are taken for |
| **Web application** `app`, the other `components` | presentation | | | |

What makes each part correct:

* *V4 vault*: an order signed before the goal never fills after it and costs its
  trader nothing; only odds that TxLINE attested for the current epoch are
  executable; every accepted position is fully reserved, is paid exactly what
  its outcome owes whatever happens in between, and never twice; the result is
  what two independent resolvers approved and the attested score says; a
  proposed result eventually empties the reserve.
* *LineGuard V2*: every escrowed stake ends as a share or a refund; claims
  distribute the pool exactly; no account is closed that another still needs.
* *Authority updates*: nothing changes without its delay; a market keeps the
  authorities it started with.
* *Legacy*: payouts never exceed the pool.
* *Terminal*: one verdict per order, filled or refunded and not both; a receipt
  shown as verified is about the proof shown beside it.
* *Streams*: no callback after close; the connection is retried or reported.
* *Verification cache*: one run at a time per key; a success is not downgraded.
* *Reference quotes*: nothing rejected is served as live; an open circuit spares
  the host; the limits are kept.
* *Server's flows, ticket, recorder*: no stake is left in an order nobody can
  decide; what an answer, a ticket or a record says of an order is what became
  of it.
* *Scripts*: what is deployed is the approved binary, once; evidence says no more
  than has happened; a market opens at a sound and recent quote.
* *Workspace and store*: fills are fair, orders keep their receipts, events are
  not forgotten.
* *Status, replays, kit*: what is shown is what was looked up, or what the rule
  and the program make of the recorded numbers.

## 2. Modules, runs and plan

### Which module models what

| Module | Models | Checked by |
|---|---|---|
| `VaultAccounting`, `FairXVaultV4`, `FullyReservedBook`, `FairXVaultV4Refinement` | the V4 vault (section 3) | `v4_*` |
| `LineGuardCommon`, `LineGuardLegacy` | the first LineGuard program: markets, orders, one shared vault | `programs` |
| `OperatorFlows` | the server's requests over it | `programs` |
| `LineGuardV2` | the second: authorities with their timelock, one market, its vault, orders and positions | `programs` |
| `OrderTicket` | the TypeScript copy of its checks, and the ticket of its page | `programs` |
| `LifecycleRecorder` | the scripts that open it and play its whole life | `programs` |
| `LineGuardPrograms` | both generations with all of these users | `programs` |
| `LineGuardRules` | pure rules: materiality, fair value, verdict, sniper, escrow | `terminal` |
| `Terminal` | the reducer, one action per case | `terminal` |
| `TerminalReplay`, `LiveFeed` | the scripted replay and the two live streams that drive it | `terminal` |
| `TerminalApp` | the reducer under one of its three drivers | `terminal` |
| `TxlineStream` | a stream from the browser over the proxy to TxLINE | `services` |
| `LifecycleVerifier` | one run of the verifiers over the retrying transport | `services` |
| `ReferenceQuotes` | the quote routes: cache, fallbacks, limits, retries, circuits | `services` |
| `Services` | the three of them at once, and what each promises | `services` |
| `QuotePolicy`, `LiveMarket` | order book to quote, capture file, opening of a market | `operations` |
| `VerificationCache` | the server's cache of verifications and the pages | `operations` |
| `FairXMarkets`, `MarketWorkspace` | market rules; store, tabs, workspace and devnet panel | `operations` |
| `Deployment` | the planner and the sender of the program's deployment | `operations` |
| `LifecycleScripts` | the V4 scripts, over `FairXVaultV4` | `operations` |
| `RuntimeStatus` | the status check, its cache and its panels | `operations` |
| `IncidentReplay`, `VaultReplay` | the two replays with their timers | `operations` |
| `QuoteGuard`, `ConformanceLab` | quote commitments; the reference decision and the lab | `operations` |
| `Operations` | all of these but the scripts at once, and what each promises | `operations` |
| `SumTheorems` | lemmas about sums over finite sets, for the proofs about money | |
| `FairXVaultV4Proofs` | proofs about the vault (section 3) | |
| `LineGuardLegacyProofs`, `LineGuardV2Proofs`, `LineGuardProgramsProofs` | proofs about the two generations, and about the whole with the server's flows (section 4) | |
| `TerminalAppProofs`, `ServicesProofs`, `OperationsProofs` | proofs (sections 5, 6 and 7) | |
| `MCFairXVaultV4`, `MCLineGuard`, `MCTerminalApp`, `MCServices`, `MCOperations` | instances for TLC | |

`OperatorFlows`, `OrderTicket` and `LifecycleRecorder` are compositions: they
take their steps *as* instructions of the program they extend, while its other
users go on. `TerminalReplay` and `LiveFeed` compose the reducer with what
dispatches to it, `LifecycleScripts` the scripts with the vault, `LiveMarket` the
scripts with the policy. `ConformanceLab` and `VaultReplay` compare with
`VaultAccounting`, the arithmetic of the program itself.

### Runs of several components

`MCLineGuard`, `MCTerminalApp`, `MCServices` and `MCOperations` each hold several
systems that share no state. A behaviour chooses one of them in its initial
state (`driver`, `service`), the others stay at rest, and the state space is the
sum of theirs and not the product. A property of such a run is the conjunction of
what its systems promise of the same kind, each by its own name in its own
module; the comment at the property says which.

| Run | Asks |
|---|---|
| `v4_trading`, `v4_settlement`, `v4_resolution` | the vault (section 3) |
| `programs` | the LineGuard program under six users: legacy traders, the server's requests, the admin of the authorities, V2 traders, the ticket, the recorder |
| `terminal` | the reducer under a user who dispatches anything, the replay, the live feed |
| `services` | a stream, a verifier run, the quote routes |
| `operations` | what is operated around the programs, nine systems |
| `v4_exact_balance`, `v4_stale_refund`, `live_late_score`, `stream_cut`, `quotes_rejected_live` (violations) | what a comment or a document says and the code does not do (section 8) |

### What the plan has left

Every module of the plan is written and checked. What is left is to prove more:

1. Two of the three parts of `RecordingsAreTrue` of the run `operations`
   (`LandsOnceInOrder`, `EvidenceIsTrue`); the third asks by `ENABLED` whether an
   instruction would be refused.
2. An abstract pool (stakes in, shares or refunds out) that `LineGuardV2` implements,
   as `FullyReservedBook` is for the vault.

`OperationsTypeOK` speaks of the scripts too. Liveness (`ProposalsEmptyTheReserve`,
`RunsEnd`, `WorkConcludes`) stays with TLC: the
prover has no rules for fairness and `ENABLED`.

## 3. The V4 vault

### Modules

| Module | Models |
|---|---|
| `VaultAccounting` | the money fields of `LiquidityVaultV4`, the `apply_*` helpers, the two assertions every money-moving instruction ends with, `derive_quote_prices`, `gross_payout` |
| `FairXVaultV4` | all 18 instructions, one action each, and the properties |
| `FullyReservedBook` | an abstract book of bets and one bank, with no accounting: the bank covers the gross payout of every open bet whenever money leaves, and each bet is settled once for what is due |
| `FairXVaultV4Refinement` | sums over positions against the running totals, and the mapping of the vault to the book |
| `MCFairXVaultV4` | instances for TLC |
| `FairXVaultV4Proofs` | proofs: types, ledger, evidence of quotes and fills; no fill across the goal, only fills cost; what can happen to one position in a step, and that nonces are fresh; settlement, resolution, finality; the totals are sums, no settlement is blocked, the vault implements the book |
| `SumTheorems` | what a sum over a finite set does when one term changes; shares of it, rounded down |

Operators that state a plausible slip in the code stand before the definition
they would replace and say so in their name (`TradingOpenUntilResolved` before
`TradingOpen`, `ReserveOnYes` before `Reserve`); `PROJECT.json` pairs each with
the property it breaks. No action uses them.

### State and code

`market` and `quote` are the two halves of `MarketV4`; `vault`, `ledger`,
`counters` and `stake_bounds` are the four groups of fields of
`LiquidityVaultV4`. `positions` maps an order nonce to its account or to
`NoAccount` (the address of the account contains the nonce, and the program
hands out each nonce once). `quote_receipts`, `resolution_receipt` and
`resolution_proposal` are the accounts of those names; an account created with
`init` is an action enabled only while the account does not exist.
`spendable` is the vault's lamports above its rent minimum; `wallet` every other
lamport account.

An instruction is atomic and one that fails leaves no trace, so a failed
`require!` or checked operation is a disabled action: the actions compute on
integers and require the resulting records to lie in `Vault`, `Ledger` and
`Counters`, whose fields are words of `MaxU64`. `SettleAccounts` is the common
end of the money-moving instructions: `bump_accounting_sequence`, the checked
operations, `assert_vault_invariant`. `PlaceFixedPayoutOrder` is one action with
its two outcomes; `Next` calls every action with every key as the signer and
with arguments that may have been signed against an older state.

### Abstractions

* Hashes are injective: the payload hash of odds is the odds. Of the odds only
  what the program tells apart is kept: which recorded message the pinned fields
  equal, and a `variant` for the fields nothing pins. Whether TxLINE's merkle
  proof verifies is a set of variants (external).
* The identity constants of `initialize_market_v4` (fixture, teams, template) and
  the fixed final sequence and timestamps are either constants or left out: the
  program accepts one value.
* Rent is left out: `spendable` starts at zero. The one clock stands for the slot
  and the unix time, which only has to pass `VoidEligibleAt`.
* The trader's client order id is left out: it only makes addresses more distinct.
* `FinalStats` are the scores TxLINE may attest: a proof that does not verify, a
  wrong period or a missing key reverts.
* `Operator` is the lamport account of the configured operator.

### Bounds

`MaxOrders` bounds the nonces, `MaxTime` the clock, `AccountingBound` the
accounting sequence up to which the operator and the stranger still move money
(orders and settlements are not bounded by it; the settlement run sets
it to 5, so that after a deposit, two fills and a settlement there is room for a
withdrawal or a reconciled gift before the other settlement), `MaxU64` the words,
`InitialFunds` the lamports in the system. `MICROS_ONE` is 100 and the recorded
odds are the real ones divided by 100, which gives prices 54/48 before the goal
and 87/15 after it: stakes of 2 and 4 give payouts with and without a
rounded-off remainder, and one post-goal price at which a stake of 2 has no
profit and is rejected. Two orders are enough for two positions on the same or
on opposite sides, one before and one after the goal, one refunded and one
accepted, and for a withdrawal between their settlements; the properties are
about one position and the totals, or about a pair. The trading and settlement runs
stop the clock, the latter letting a void be proposed at once; that a void has to
wait, and orders that expire while they wait, are in `v4_resolution`.

### Runs

| Run | Shows |
|---|---|
| `v4_trading` | type invariant; totals explain the balance; executable quotes have their receipt; filled positions can be audited from accounts alone; nothing fills across the goal; lamports leave a trader only as the stake of a position that fills in that step; with words (`MaxU64 = 14`) that two deposits of 13 or the sequence of a long run overflow, so that an instruction reverts whole |
| `v4_settlement` | no settlement is ever blocked; the counters are the sums of the positions; each settlement pays what is owed; what is final stays; the program implements `FullyReservedBook` |
| `v4_resolution` | two different resolvers, none of them on the trading desk, stand behind every result; wins as the attested score says, voids only without a score and after the grace; a proposed result leads to a resolved market and an empty reserve |

Fairness (`v4_resolution` only): a resolver who can approve does, an owner who can
claim does, and somebody executes an approved proposal and reconciles losers.
The last two are instructions anybody may send; the first two are in the
interest of whoever signs. Nobody is assumed to trade, propose, deposit, close
or tick. That run has no symmetry, since symmetry is not sound for liveness. Its
configs include a resolver named twice, the operator as resolver and a default
key; its orders include some that expire while they wait.

Deadlock is not checked: a settled market with all money withdrawn has nothing
left to do.

### Proofs

The proof modules prove, for every set of traders and keys, every number of
orders, every price and every word size, from `FairXAssumption`,
`NoAccountAssumption`, `MaxU64Assumption` and `MicrosOneAssumption`:

* `TypeCorrect`. The helpers shared by instructions are typed by lemmas, then one
  step per instruction.
* `LedgerCorrect`. `LedgerExplainsBalance` is inductive together with `TypeOK`:
  every instruction moves the same amount through the balance and the totals.
* `EvidenceCorrect`. Inductive with `QuoteNamesEpoch`: a committed quote is the
  recorded one of its epoch.
* `FilledCorrect`. The audit of a position refers to a receipt that is written
  earlier by another instruction; the proof needs that receipts are never
  replaced (`ReceiptsPersist`), that a position keeps its terms until its account
  is closed (`FilledStep`), and that an order accepts only against an executable
  quote (`AcceptedAtAttestedTerms`, from the evidence invariant).

* `GoalCorrect`. The evidence invariant with `QuoteIsRecorded`: the market's quote
  shows the prices of the odds recorded under its sequence. A position that fills
  is an order accepted in that step (`FillsByAcceptance`), and an accepted order
  is of the current epoch because it is neither overtaken nor ahead of the market.
* `CostCorrect`. Needs `NoncesAreFresh`: an order's nonce names no account yet, so
  accepting it is a fill and overwrites nothing. `PositionFate` lists what may
  change a position in one step and serves the next two theorems as well.
* `SettlementCorrect`. A position leaves Accepted neither by being closed (only
  terminal ones are) nor by an order (nonces are fresh), so by its own settlement.
* `ResolutionCorrect`. Inductive with `AuthoritiesAreValid` and `ProposalIsSound`
  (a proposal's outcome agrees with its receipt, its execution with the market).
  That the approvals come from different keys outside the desk is a counting
  argument: six keys of cardinality six are pairwise different
  (`AuthoritiesDiffer`), and two approvals are two keys (`TwoApprovals`).
* `FinalityCorrect`. From the same two invariants.

* `CountersCorrect`, `SettlementUnblocked`. The vault's reserve, principal and
  counters are the sums over the accepted positions, although the program only
  ever adds to and subtracts from them. A step changes at most one position
  (`PositionFate`), and when one term of a finite sum changes, the sum changes by as
  much: `SumChange` of `SumTheorems`. That lemma is about the fold the community
  modules define a sum by; it is proved by induction over the sets a fold has
  reached, written as a set of sets, since the library's induction rule takes an
  operator. From the sums follows that a single position's payout is within the
  reserve (`SumOverPart`), that the lamports cover the reserve, and so that no
  settlement fails a checked subtraction or the final assertion, whatever was
  withdrawn or reconciled before it.
* `BookCorrect`. `FullyReservedBook` sees the positions and one bank. The vault's
  initial state maps to its initial state, each instruction to one of its steps or
  to a stutter; that the bank still covers every open bet after a step is
  `SettlementUnblocked`'s invariant after it.

Liveness (`ProposalsEmptyTheReserve`) stays with TLC: it needs fairness and
`ENABLED`, which the prover has no rules for.

## 4. The LineGuard program and its users

`LineGuardV2` keeps the market, its vault, its validation and its orders and
positions in one record, so that a transaction of several instructions is a
composition of operators on it (`CanPlaceV2` and `Place`, for example), while an
action is one instruction. `LineGuardLegacy` has an account of each kind per
address, as the first program does, and one vault for all of them. The deployed
program refuses a bad instruction whole, so a refusal is again a disabled action;
`OperatorFlows`, `OrderTicket` and `LifecycleRecorder` see it as a failed
transaction.

| Module | Code | Actions |
|---|---|---|
| `LineGuardLegacy` | `lib.rs` 79–919 | one per instruction; `Execute(tx)` runs whichever was sent |
| `OperatorFlows` | `lineguardServer.ts` | a flow is a plan, the list of its reads and transactions in the order of the code; a transaction is refused, lost, or lands with or without being waited for; an answer reads the market and then the order (`getOnChainState`), and what cannot be read is left out of it; a custom request carries its caller's price and tolerance |
| `LineGuardV2` | `lib.rs` 920–1970 | one per instruction: authorities with their timelock, market, orders, result, claims |
| `OrderTicket` | `execution.ts`, `DevnetMarket.tsx` | the two decisions of the mirror, as predicates next to the program's; wallets are connected and changed; click, slot, simulate, send, land, finalize, read back; readings of market and positions; clicks and readings overlap, and a reading that fails after finality ends in ERROR |
| `LifecycleRecorder` | the V3 recorder and V2 initializer scripts | one per transaction waited for; a run stops at the first failure and another may start |

`LineGuardCommon` has what both generations call sides and prices,
`LineGuardPrograms` composes the generations with their users, and `MCLineGuard` lets
TLC run it under one of six (`driver`).

What `programs` shows, with the names the modules give the parts:

* `MarketsAreCovered` – the V2 vault holds exactly what its shares, positions and
  remainder account for (`VaultCoversPositions`), and the one legacy vault covers
  the claims of every market (`EveryMarketIsCovered`), in whatever order orders
  are evaluated, markets closed and winners paid.
* `ResultIsFinal` – no draft written again, late confirmation or void changes what
  was resolved. `AuthoritiesWaited` – no update takes effect before its delay,
  not even one that replaces another.
* `MirrorIsFaithful` – wherever a market gets to, the TypeScript copy takes the
  orders the program takes and refunds those it refunds; for limits above one,
  which only the program refuses, nothing is claimed (section 8).
* `ServerFlowsAreSound` – no stake of a request is stranded, its proof tells where
  the stake went, its answer shows its effect as far as the accounts could be read, a
  custom order is on a market that is as its caller described it and is guarded with
  the caller's tolerance, a settlement demonstration that reports success has settled.
* `OutcomesShownAreTrue` – a ticket that says "refunded" says so of a refunded
  order, unless it was clicked while the page still showed another wallet's position
  (section 8); and the recorded lifecycle gives each wallet what it got.

Of the legacy accounts, `ProgramsTypeOK` also says that a market's `status` agrees with
what `evaluate_order` makes of its sequences. They are the opener's, neither checked
against the other (`lib.rs` 79-239): a market may be stale from the start, or priced at
events that it has not ingested.

Bounds, each by name in `MCLineGuard`; together they leave 670 000 states. *Traders*
send four orders, one an exploit
and one on each side, to two markets of their own; the one is opened in sync or priced
ahead of its events, and can be won or voided, the other is stale from the start and can
only be voided. Both configs, and the order on the second market, exist before the other
orders (`TradersBounds`). The
*server* has two alike requests at a time (symmetry), from nothing or from a market
on which a YES order waits since before an event (`EarlierRequests`): all nine kinds
pair with each other. Custom requests describe the market in three ways, two of them
alike but for the price, the third with another tolerance; of two custom orders at most
one is on NO, and then the two differ in the price alone (`ServerBounds`).
`GovernanceBounds` lets authorities change before and after a
market takes its copy. `TradingBounds` has one market before its close, one trader's
order of 2 on YES next to the other's of 1 on either side (which may be cancelled and
placed anew), stakes that do not divide
the pools, and a tolerance at which some orders are kept in spite of the event; the
resolvers, who are alike, sign in one order, and two of three suffice.
`TicketBounds` has two clicks on YES next to the feed and the pricing desk, before the
market closes: both of one wallet, or the second of another wallet, which is connected
after the first click is through. Readings begin when something on the page is old, a
snapshot that was read is shown next, and after the last click only the clicks' own
readings go on. `RecorderBounds` has two runs without
bystanders, or one with another trader's stake, a second repricing and a contrary
result. Clocks stop before the close where only orders before it matter;
*governance* and *traders* pass it.

### Proofs

`LineGuardPrograms` is both generations under all their users. Its theorems, in
`LineGuardProgramsProofs`, hold for any markets, orders, users, requests, prices,
terms and clocks for which `ProgramsAssumption` holds: traders and orders are finitely
many, numbers are numbers, an account that exists is not the missing one, and what the
constants of the scripts and the server name is among the markets, orders and users;
and custom inputs with one commitment have one tolerance, because the tolerance goes into
its hashes. The recorded script's stake is positive, as its `STAKE` is; its three wallets
differ, and none of them is one that uses the ticket: the code does not compare the
keypairs it is configured with, so this is a condition on that configuration.
TLC checks `ProgramsAssumption` and `TradersElsewhere` (see the end of this section) of
the instance of `MCLineGuard`, whose behaviours are
behaviours of `ProgramsSpec` with one user at a time; the theorems let all of them
act at once.

| Theorem | States |
|---|---|
| `ProgramsTyped` | `ProgramsTypeOK` |
| `MarketsCoveredCorrect` | `MarketsAreCovered` |
| `MirrorStaysFaithful` | `MirrorIsFaithful` |
| `ResultIsFinalCorrect` | `ResultIsFinal` |
| `TimelockHolds` | `AuthoritiesWaited` |
| `OutcomesShownCorrect` | `OutcomesShownAreTrue` |
| `ServerFlowsCorrect` | `ServerFlowsAreSound`, also from `TradersElsewhere` |

All but the last follow from one inductive invariant, `ProgramsInv` (`ProgramsStayInOrder`):
`LegacyInv` for the first generation, `V2Inv` for the second, the types of the
requests, the ticket and the scripts, which decide what those may send, and what the
ticket and the scripts know (below). The generations
share no account, and every user, whatever it remembers and believes, only sends
instructions; so what an instruction keeps holds under all of them. For the first
generation that is `FirstIsLegacyStep`: a trader's transactions are typed by
assumption, a request's because every step of every plan is (`StepsOfPlans`,
`FlowsSendTyped`). For the second it is `SecondIsMarketStep`: a click of the ticket and
a step of a script are steps of the market, or leave it as it is. TLC starts the server
from a market on which an earlier request has left an order, too; `EarlierStarts` proves
that this is in order.

**The first generation** (`LineGuardLegacyProofs`). `EveryMarketIsCovered` is not
inductive: the program adds to and subtracts from one vault and from the totals of each
market, and nothing in it compares them. `LegacyInv` says what they are sums of. The
vault holds the sum over the markets of what came in less what was paid and refunded;
what the users have outlaid is in the vault and in the orders' own accounts; and for each
market (`Balanced`) the open stakes, those of filled orders not yet settled, are the
pools as long as there is no result, what is left to refund after a void, and within the
pools after a win. There, `paid * pool <= claimed * total`: payouts are rounded down, so
what is paid never gets ahead of the winning stakes it was paid for, and the last winner
still finds a share (`FloorShare`). `OrderSound` keeps an order's market from being
missing, and its account from being empty while it waits. Each instruction changes one
order and one market at most, so each sum by one term (`OrderStepKeeps`, with
`SumChange`); `ClaimsAreCovered` then follows because one market's part is within the sum.
`ResultsStay` needs `ResultSound`: a market is won only by a confirmed score, which
nothing replaces.

**The second generation** (`LineGuardV2Proofs`, whose theorems hold of the program
alone, from `V2Assumption`; the lemmas serve both).

* `AuthoritiesWaitedCorrect`: every step keeps what is pending due a whole timelock
  after it was proposed (`DueAfterTimelock`), since a proposal starts its own wait
  and nothing else touches the authorities; only `ExecuteAuthorityUpdate` replaces
  the current ones (`OnlyExecutionReplaces`).
* `AccountsCorrect` (`V2TypeOK`), `CoverCorrect` (`VaultCoversPositions`),
  `ClaimsCorrect` (`ClaimsAreNeverBlocked`) and `EscrowCorrect`
  (`EscrowIsNeverBlocked`) rest on one inductive invariant, `BooksOf`, a predicate on
  the accounts. In an open or voided market what the vault may have to pay is the
  sum of the positions' accepted stakes, and in an open one the market's shares are
  the sums of theirs. In a market that was won, the shares of the winners who have
  not claimed are the winning total less `claimed_shares`, and
  `paid * winning <= claimed_shares * accepted`: every claim is floored, so what is
  paid never gets ahead of what was claimed, the share of each remaining winner is
  within what is left, and the last winner takes exactly that. A position has
  shares when it has an accepted stake and only then, since the program refuses to
  accept an order whose shares round to zero.
  Each instruction has a lemma (`PlacingKeeps`, `AcceptKeeps`, `ClaimKeeps`, …), and
  the sums move by `SumChange`.
* `MirrorCorrect` (`MirrorIsFaithful`): with every account of its type, the conditions
  of `execution.ts`, in its order, select what the program's do (`MirrorAgrees`).

**What a user may conclude** (`LineGuardProgramsProofs`). `OutcomesShownAreTrue` compares
what somebody remembers with accounts that others have changed since. What makes the
comparison possible is in `LineGuardV2Proofs`, "What only grows": until a market closes
no accepted stake shrinks, an order that was answered stays so, and of what the market
has refunded and paid nothing is taken back (`MarketGrows`; `StepGrows` for any step).

* The ticket concludes from two reads of a position, one before its order was sent and
  one after, and the first may have been shown for long and be another wallet's.
  `TicketKnows` follows what was read through the page: what is on its way in a reading
  or shown as a holder's (`PositionsKnown`), or kept by a click (`CallsKnow`), is at most
  what that wallet's position holds for as long as the market is open. So when a click
  knew its own trader's position, or none, and the second read is not above the first,
  the stake was not accepted in between (`ResultKnown`, `KnownRefundIsTrue`).
* A recorded run checks the market's totals at the end, not who holds them.
  `RunKnows` says what must have happened when a run gets past a milestone, one
  conjunct each: an order that landed and bought nothing is in the counter of refunds,
  the second approval is there, A has claimed, C's empty position is closed. Nobody
  else signs for the wallets, so each has one position, which holds what it outlaid
  (`WalletsHold`), and until A claims their stakes are within what the vault has
  accepted (`StakesCounted`): if they are all of it, nobody else has a stake and
  nothing was paid. The script insists on two stakes accepted and one refunded. So A
  and B have bought, the refund was C's, and A's claim leaves B's position alone
  (`KnownRecordIsTrue`); and once the accounts are closed the record stays true
  (`RecordStands`). Two runs share wallets and orders; what is counted is in the
  accounts, so it does not matter which of them did it, or whether it died since.

**What a request may conclude** (`LineGuardProgramsProofs`, second half). A request is a
plan of up to seventeen steps, and other requests, passers-by and transactions that land
unseen come between any two of them. `ServerFlowsCorrect` adds `FlowsInv` to the
invariant:

* What holds whoever acts. `OrdersTell` (in `LineGuardLegacyProofs`): an evaluated order
  says what came of it and why, and names an event its market had. `MarketsOfFlows`: a
  demo's market is there only for its demo and holds only its three orders; the custom
  market is guarded with the tolerance its config commits to, and an order in it was
  sent by a request whose description is the config's. `ClosedByDemos`: only a
  settlement demo closes a market of the server, past its step 12, with its orders
  evaluated; so no other request's stake is stranded.
* What one request knows, `RequestInv`. On markets that others use too it can only rely
  on what no instruction takes back (`MarketLasts`, `OrderLasts`, and a configuration,
  once written; `FlowsStepLasts`): `RequestKnows` says what each kind has achieved past
  the step that does it, and `ProofStands` that what a proof quoted of its order is
  still what the order says. The market in an answer was read at one step and its order
  at a later one, or either not at all: `SeenShows` says of the market that was read
  that it shows what the request has achieved, which still holds when the answer is
  given (`EffectShown`). A settlement demo has its market to itself (`WhoTouches`), but
  anybody may have its orders evaluated, before it does or in its place, and a
  transaction it gave up on may have landed. `DemoAt` describes market, receipt and the
  three orders at each of its steps, with both choices at the steps after which a
  passer-by may come first. It has a lemma for each step, and one for passers-by. At the
  last step it gives the pools, the payout and the winner the answer shows
  (`ThroughIsSettled`).

Two hypotheses are more than types. `FlowAssumption`, within `ProgramsAssumption`, has
the figures of the code: the canonical event comes after the first price, moves YES by
more than the tolerance, and the canonical score is a win; a demo with other figures
would not tell its story. `TradersElsewhere`: `Transactions`, what the traders may send,
is about other markets than the server's. The traders' accounts and keys are not the
server's, but the program lets anybody place an order on a market whose address is
known, so this is a condition on who uses those addresses, and a client that trades on
the demo's market changes its pools. The other theorems do without it, and in all of
them anybody may have any order evaluated.

Safety only: nobody is obliged to evaluate or to claim, and nothing in the code
makes them.

## 5. The terminal and what drives it

`Terminal` has one action per case of the reducer, with the engines it calls
(`LineGuardRules`). `TerminalApp` runs it three times: *user*, any action in any
order (`UserBound`: two events); *replay*, `TerminalReplay`, in which the
provider's timers dispatch, stay pending, and are cleared or not as in the hook,
two runs with clicks, resets and proofs in between; *live feed*, `LiveFeed`, in
which the two streams' callbacks dispatch while the user resets and switches.

* `MoneyFollowsOrder`, `VerdictDecidesFate`, `DecisionsAreFinal` – the bot's money
  through escrow, refund and fill; a verdict, once given, stays.
* `ReceiptsTellTheStory` – the receipt tells the verdict of its own order and its
  verification mark is earned; a full replay tells the scripted story.
* `ShownStateIsTrue` – a market shown as trading shows its fair price; the badge
  and the statuses of the streams are those of open connections.
* `RunsEnd` – a replay stops playing. Fairness: a timer that is set fires (`WF` of
  `Fire` in the replay); no click is assumed.

*Proved* (`TerminalAppProofs`, for any scripts, markets, prices, bounds and proofs,
from `NullAssumption`, `ReplayAssumption` and `LiveFeedAssumption`): all of these but
`RunsEnd`, which is liveness. Every driver does nothing to the reducer's state but
dispatch, so what a dispatch keeps holds under all three (`EveryDriverIsSafe`), and
the rest is about what a driver adds. The inductive invariant `AppInv` has four
parts. `TerminalInv`: the escrow, the bot's order, the verdict and the receipt of one
order agree, in every combination the reducer can reach. `RunInv`: the timers that
are set are what remains of the current run's script. `StoryInv`: in a full run the
reducer's state is the one the steps that have fired lead to (`Told`, one case for
each number of them), and so the receipt at the end is the scripted one. `FeedInv`:
the open streams are those the mode and the status call for, and the badge and the
statuses are theirs.

## 6. Services

`TxlineStream`: a page's reader, the proxy and the upstream, each at its own pace;
bodies end in order or by errors, attempts back off and give up. *Bounds*: three
events, four failures, giving up after two in a row (the code: five).
`LifecycleVerifier`: one run, each read one request with its tries, over a node
that answers rightly, wrongly, not at all or late; two transactions, two tries. A V4
record that lists no closures ends after its transactions (`NoClosures`), with one group
less to agree.
`ReferenceQuotes`: two loads, one caller's address, four ticks of five seconds, one
retry, a circuit that opens at one failure and cools for two ticks.

* `EventsArriveComplete` – in order, none left out over resumption, where the
  bodies end between events; `ClosedIsSilent`.
* `VerifiedMeansAllAgreed` – no failed, missing or differing read becomes VERIFIED.
* `QuotesKeepTheirLimits` – age of what is served as live, open circuits, windows.
* `WorkConcludes` – a page is connected again or told that it will not be, the
  upstream is released, a run of the verifier concludes, every call is answered.

Fairness, of timers and of the runtime: a fetch under way connects or fails, the
proxy passes on what it has or fails, a retry timer fires, a client that went is
noticed, and a closed body's read fails because it was aborted; a verifier's request
is sent, is answered or runs into its timeout; a quote load settles and its retry
starts. No fairness makes a service succeed: all of them may fail for ever.

### Proofs

`Services` runs the three at once; a behaviour of `MCServices` moves one of them. The
theorems of `ServicesProofs` hold of `ServicesSpec` for any events, transactions, calls,
clients, limits, lifetimes and tries for which `ServicesAssumption` holds: the bounds are
numbers, each thing is tried at least once, each limit lets a call through, and Null is no
record. It also has that no client's key is `__global__`, the name under which the route
counts all clients: the key is what the proxy in front puts into a header, an address, and
the code does not reserve the name. TLC checks the assumption of the instance.

| Theorem | States | From |
|---|---|---|
| `ServicesTyped` | `ServicesTypeOK` | |
| `EventsCorrect` | `EventsArriveComplete` | `CutsBlocks = FALSE` |
| `SilenceCorrect` | `ClosedIsSilent` | no assumption |
| `VerifiedCorrect` | `VerifiedMeansAllAgreed` | |
| `QuotesCorrect` | `QuotesKeepTheirLimits` | |

All but `SilenceCorrect`, which each step has by itself, follow from `ServicesInv`.

* **The stream.** `EventsArriveComplete` compares the first and the last event of all that
  was delivered; `Consecutive` is what a step can keep: each delivered event is whole and
  the successor of the one before, the resume point is the last of them, and a connection
  that pipes is there too. A chunk then only appends its run of successors
  (`BlocksAreWhole`), and what is between the first and the last is there because an event
  is found at its distance from the first (`ConsecutiveIsComplete`). The hypothesis that no
  body ends inside an event is needed: `stream_cut` is the counterexample without it.
* **The verifier.** A verdict is `StatusFrom` of the checks, so it says nothing by itself of
  what was read. `RunSound` says of a run that goes on that the groups compared so far are
  exactly those of the stages behind it, each with what it was found to be, that the
  accounts were there once their stage is over, and the transactions read. VERIFIED is only
  concluded at the end of the last stage, where that is every group (`ProceedKeeps`); a
  run that ends early has pushed what is not a success (`EndsBadly`).
* **The quotes.** Three invariants, one for each promise. *Age*: a cached quote that passed
  the policy was recent when it was fetched (`CacheWasRecent`); the fallbacks are not
  labelled live. *Circuits*: a call that is talking to a host looked at its circuit at a
  tick when it was not open, or was there before it opened (`FetchesStay`,
  `CircuitsAreKept`), for a step may close, open or leave a circuit. *Rates*: the limiter
  counts in windows that start at a call, and the promise is about any span. Since the
  window began, at most its count was let through, and in a window's length before that at
  most the limit (`WindowKeepsLimit`): a new window starts when the old one has ended, and
  so what lies a window's length behind it is within the old one (`WindowEnds`). A span of
  that length is covered by the two (`CallIsCounted`, with `SumOfCover`).

`WorkConcludes` is liveness and stays with TLC.

## 7. What is operated around the programs

| System | Bounds | Shows |
|---|---|---|
| `VerificationCache` | two pages, one of them mounting, which may give up and press again while the server goes on; two scans; one call at a time that nobody waits for (`CacheBounds`); two ticks, results old after one | one scan at a time, a success is replaced by later successes only, a page shows no failure a success has followed, "fresh" means since the click |
| `Deployment` | two runs of the sender, three words in chunks of two, a look at devnet before each transaction, money for several attempts, one interfering step of somebody else | what is deployed is the binary, by one run; a lone run is not stopped by its own guards; the planner's report stays true |
| `LifecycleScripts` over `FairXVaultV4` | two recorders, two finalizers, two steps of a stranger (a donation and its booking) | local scripts pass, each transaction lands once and in order, evidence says what happened |
| `MarketWorkspace` | one tab with devnet calls: one request and a refused save, or two requests, or no request, an order and both markets; or two tabs with a reload and a refused save | fair fills, orders with their receipts, events outside of requests kept |
| `LiveMarket`, `QuotePolicy` | one preparation, two books of which one is not sorted, a closed and a swapped market, one edit of the file, three ticks | a market opens at the midpoint of a sound, recent book |
| `RuntimeStatus` | two checks, three programs, two ticks, young for one, a page that waits one | proofs are offered for a program that was looked at, by a recent check |
| `IncidentReplay`, `VaultReplay` | the recorded scenarios, prices scaled | what is shown at each stage is what the rule or the program makes of it; a timer means playing |
| `ConformanceLab`, `QuoteGuard` | the lab's vectors and one order of an operator with any one field changed | the kit decides as the vault would; an outcome is filed under its vector unless another was selected |

Prices are scaled to `MICROS_ONE = 100` as in section 3; deposits and stakes are
those of the scripts divided by the same factor, so that the fills, floors and
reserves of the recorded lifecycle all happen. Two of each actor suffice because
the properties speak of one run and what another, or a stranger, does to it. The
"live" system stops once its market is open. Of the runtime's starts
`StatusStarts` keeps those that differ in more than the reason for being limited.

`Operations` puts eight of the nine side by side: the cache, the deployment, the live
market, the status, the market pages, the incident, the lab and the replay of the recorded
match. Each goes on while the others do, with their state apart. `MCOperations` adds the
scripts, over the vault, and lets a behaviour be one of one of the nine.

### What is proved

`OperationsProofs` proves what five of the run's properties say, of all eight going on at
once, from `OperationsAssumption`, which TLC evaluates in the run: bounds, lifetimes,
rents and ages are naturals, the lengths and the cache's lifetime of the status are not
zero, Null is none of the things that may be, and the senders are not called as the
local play and the rest of the world are. In the code they are constants.

* `VerifiedCorrect` (`VerifiedIsKept`) and what `ShownChecksCorrect`
  (`ShownChecksAreTrue`) says of the cache: `CacheInvariant` has four parts.
  `CacheTypes`; `ScansInOrder`: runs are numbered as they start and the one in flight is
  the last, the others have ended (so a scan that ends is newer than what is cached);
  `ResponsesAreSound`: what is remembered, on its way to a page or shown names a success
  and no attempt before it (ended scans keep their results, so an answer that is late is
  not wrong); `AnswersAreOfTheRefresh`: a page that gives up may refresh again while the
  server is still at its last call, but no longer waits for that one; the scan that its
  new request joins or starts ends after the click, and so does what it answers.
* `DeploymentCorrect` (`DeploymentIsSound`): the plan is the InitializeBuffer, a write
  per chunk and the deployment (`PlanFacts`, `OffsetsAreChunks`), and costs what is said
  of it (`PlanFees`). `WritesAreKept` says that the words of each write that a run has
  seen land are in the buffer, or the program is there; so a run that deploys has all of
  them there. `OneDeployed`: two runs of which a deployment has landed are one.
  `Undisturbed`: a run that nobody touched the chain beside finds it valid, with the
  balance that its own payments have left (`Paid`), which is why its guards do not stop
  it. `ReportIsOfTheChain` and `ReportIsMet`: what the planner has read is of the chain as
  it is until somebody touches it, and a run that was approved on its report, and was
  alone, ends at the balance that the report has named.
* `ShownChecksCorrect`, of the status: what a check has found out (`FoundOut`) is that
  the recorded program was deployed at a time between its beginning and its end, whatever
  was upgraded between its answers. A check under way has promised nothing
  (`ChecksAreOpen`); what is cached, answered and shown was found out; and a request is
  aborted in time and was answered with what was found out no earlier than the lifetime
  of the cache before it was sent (`CallIsInTime`), so that what a page puts up is recent
  even when its answers overtake each other.
* `ShownChecksCorrect`, of what is replayed and decided. What a stage or a decision shows
  is worked out when it is drawn, so these parts are about the operators, for any prices,
  stakes and odds, and little about steps.
  *The incident*, from `IncidentAssumption`: a stake is of units fine enough that what it
  wins does not round to nothing (`WinIsPositive`); then every stage shows what the rule
  makes of its numbers (`StagesShowTheRule`). A step that draws a stage sets or clears the
  timer with it (`RendersKeeps`).
  *The lab and the kit*, from `LabAssumption`: the recorded odds pass `assertOdds`, the
  price they make is one, and the goal is between them. Quotes made by the code verify
  against the odds they are of (`QuotesVerify`), each vector of the lab whose request gets
  through comes out as it promises (`VectorKeepsItsPromise`); whatever an operator sends,
  an order is accepted only at the vault's prices and with the vault's liability
  (`ReferenceDecidesAsTheVault`), and one whose sequence is behind is returned whole
  (`StaleOrderIsReturned`). `LabRunInvariant`: a run
  is of a vector with that vector's input, and of the selected one unless another was
  selected meanwhile.
  *The replay of the match*, from `ReplayAssumption`: its prices can be traded at, the
  goal moves the price by more than a rounding hides, and the deposit covers what the bets
  may win. At every stage the account shown is the one that the program's own arithmetic
  makes of the same story (`SameAccount`, `StagesShowTheVault`). The two tell it
  differently: the replay with the arithmetic of `replay.ts`, the program by
  `VaultAccounting` (`PayoutCoversStake`, `CheaperPaysMore`, `BetsAreCovered`,
  `ProgramPays`). The snapshots are recursive functions, and that there are such functions
  is shown by writing down their ten moments (`StoryCanBeTold`, `ProgramCanTell`).
* `MarketCorrect` (`MarketOpensAtASoundQuote`), from `LiveAssumption`: levels are of
  numbers, and the reference method is ORDERBOOK_MIDPOINT, which the descriptor of the
  committed pricing model names (`commitment.ts`) and which is the default;
  `POLYMARKET_REFERENCE_METHOD` can name another, and the price is then another one.
  Of the operators: what `parseClobBook` keeps are levels (`ParsedLevels`); any levels
  can be put in order (`OrderExists`), so that the first of those that the adapter sorts
  are the best, and no depth is lost (`BestBid`, `BestAsk`, `MetricsOfTheBest`); a check
  that fails is among the reasons, so that a valid quote is the midpoint of a sound book
  (`FailedChecksAreReasons`, `ValidQuoteIsSound`). Of the scripts, `LiveInvariant`: the
  books read were published; the hash in a file is of one that was, whatever is edited,
  because an edit by hand leaves the hashes (one that recomputes them is not modelled);
  what an opener holds has been verified and was young. It is the comparison of the book
  with its hash that turns this into "the book is one that the exchange published".

* `MarketsCorrect` (`MarketsAreSound`), from `WorkspaceAssumption`: the markets of the
  catalogue that are not stale show their fair price (`catalog.ts` 62-230: two are
  behind, the others were priced at their last event). `WorkspaceInvariant` has three
  parts. `TabsAreSound`: a market is stale, or shows its fair price, or was opened away
  from it, wherever it is held: in the snapshot, in the workspace, captured by the timer
  of a reprice or by a request of the panel. The panel is mounted with the workspace's
  own market, when a user created it (`MarketWorkspace.tsx` 421), and its answers go
  back through `updateMarket`, to workspace and store alike (`PageMarket`, `Answer`).
  What of a market was heard while no request was under way is in all of these, because
  while one is under way nothing is counted, and so what they write back late forgets
  nothing that was. Before a page is hydrated nothing runs, so that the snapshot it
  loads overtakes nothing. `StorageIsSound`: what is stored is a snapshot of that kind,
  whichever tab wrote it. `ReceiptsAreKept`: as long as no save was refused, orders have
  their receipts in every tab and in storage, and the two indexes are of what is stored.

Only model-checked are `RecordingsAreTrue`, about the scripts (its `LocalScriptsPass`
asks by `ENABLED` whether an instruction would be refused, for which the prover has no
rules), and `OperationsTypeOK`, about all nine.

## 8. Disagreements of the code with what is said of it

Five runs end in a violation, each of one sentence of the repository:

| Run | What is said | What happens |
|---|---|---|
| `v4_exact_balance` | every transition balances exactly | lamports sent straight to the vault are not in the totals until they are booked |
| `v4_stale_refund` | a stale refund leaves the vault as it was | it bumps the accounting sequence and the lifetime totals |
| `live_late_score` (`InSyncMeansFairWhenLive`) | "Market is in sync — the quote already reflects every known event." | odds without a sequence drive the shared counter ahead of the scores, and a goal moves the fair value without making the market stale |
| `stream_cut` | the parser is tolerant of partial blocks | the id of an event that was cut off becomes the resume point |
| `quotes_rejected_live` | a rejected quote is honestly UNAVAILABLE | it is cached and served as live from there |

Met on the way and described in the modules, without a run of their own:

* A reprice of the workspace writes back the market of 450 ms ago and forgets the
  events in between (`MarketWorkspace.tsx` 195), against the "fair YES quote
  incorporating all known material events" of `fairx.ts`; the answer of a devnet
  request does the same. `EventsOutsideRequestsAreKept` states what does hold.
* The order ticket compares with the positions that the page shows, and after another
  wallet was connected these are the last one's until the reading ends
  (`DevnetMarket.tsx` 55-69, 88, 112): an order clicked in between that is accepted may
  be shown as refunded (136). `RefundShownIsTrue` leaves those clicks out. Of the
  opposite, an order that was refunded and is shown as opened because the positions of
  the click were too old, nothing is claimed.
* `getOnChainState` reads market, config and order in one `try` whose `catch` is empty
  (`lineguardServer.ts` 619-628): an answer with `ok` may have a market without its
  order, or neither. `AnswerShowsItsEffect` speaks of what was read.
* The evidence page's two requests are independent (`V4LifecycleEvidence.tsx` 42, 57):
  the older answer may arrive last and replace the newer one. Each answer is sound by
  itself (`ResponseIsSound`), and that is what is claimed of the page, not that it shows
  the newest.
* Each tab saves its whole list of orders (`store.ts` 301): a tab that has not read what
  another saved overwrites it, and whole orders may be lost. What is claimed of orders,
  that they have their receipts, is of those that are there.
* The mirror leaves out `max_edge_micros <= MICROS_ONE` (`execution.ts` 74).
* The lab files an answer under the vector that is selected when it arrives
  (`IntegrationKitDemo.tsx` 35, `lab-view.ts` 7).
* "timed out" is none of the words that make a failed read UNKNOWN
  (`v4LifecycleVerifier.ts` 63): a slow node makes a sound record FAILED, though
  never the other way round. The timer of a request ends with its headers, so a
  stalled body is bounded by the run's deadline only.
* An older quote call may overwrite a newer entry of the cache (`service.ts` 207),
  and what is labelled as recently cached has no bound on its age.
* A scripted replay goes on after a switch to live (`useReplay.ts` 90, against
  `reducer.ts` 40).
* `store.ts` 109 drops stored markets whose source is "historical"; nothing stores one.
* A live market starts at a sequence of milliseconds since 1970
  (`liveMarketInit.ts` 78), above any event feed's.
* The runtime check's reads have no timeout: a node that accepts and never answers
  holds every request for the status (`runtime.ts` 90).

## 9. Not modelled

* Presentation: what the web application shows without state of its own, and
  `ReferencePriceCard` and `OnChainPanel`'s choice of side, where whichever answer
  came last is shown.
* Components no page of the application mounts are modelled as if one did.
* The price-history routes, which pass through the limiter and client of the
  modelled ones; the route of the V3 verifier; the bearer check of the server's
  routes; the attack lab, a table of cases.
* The capture and activation scripts of TxLINE and the two recorders of legacy
  proofs, each a sequence of calls with no state.
* `txoracle.devnet.ts`, a generated interface.
* `close_legacy_evaluated_order_v2`, which returns the rent of orders of an earlier
  layout. Within all programs: event logs, error codes, account encodings, rent.
* Fairness of people, and with it liveness outside `v4_resolution`, `terminal` and
  `services`.
