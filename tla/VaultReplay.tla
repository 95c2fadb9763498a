---------------------------- MODULE VaultReplay ----------------------------
(***************************************************************************)
(* The replay of the recorded V4 lifecycle: lib/v4/replay.ts computes the  *)
(* positions and the vault's snapshots from the recorded odds, with an     *)
(* arithmetic of its own, and components/v4/V4ReplayMarket.tsx shows one   *)
(* snapshot with each of its nine stages.                                  *)
(***************************************************************************)
EXTENDS QuoteGuard, FiniteSets, Sequences

CONSTANTS
    Null,
    PreOdds, PostOdds,       \* prices of the recorded odds
    Spread, Stake, Deposit,  \* REPLAY_SPREAD_MICROS, REPLAY_STAKE_LAMPORTS, ...
    MaxU64

Program == INSTANCE VaultAccounting

VARIABLES
    replayStage,
    replaying,
    speed,
    replayTimer      \* the stage and speed that the timer was set up with, or Null

replayVars == <<replayStage, replaying, speed, replayTimer>>

-----------------------------------------------------------------------------
(* runCanonicalLifecycle.                                                  *)

\* executablePrices
ExecutablePrices(prices) == DeriveQuoteGuardPrices(prices, Spread)

\* grossPayout
GrossPayout(stake, price) == (stake * MICROS_ONE) \div price

Ids == {"pre-yes", "pre-no", "stale-bot", "post-yes"}
Refunded == {"stale-bot"}
SideOf(id) == IF id = "pre-no" THEN "NO" ELSE "YES"

\* The bot's order names the price of before the goal.
PriceOf(id) ==
    ExecutablePrices(IF id = "post-yes" THEN PostOdds ELSE PreOdds)[SideOf(id)]

\* position
Gross(id) == IF id \in Refunded THEN 0 ELSE GrossPayout(Stake, PriceOf(id))
Liability(id) == IF id \in Refunded THEN 0 ELSE Gross(id) - Stake

\* The calls of snapshot(), with what happens before each.
Story ==
    << <<"accept", "pre-yes">>, <<"accept", "pre-no">>, <<"goal", "stale-bot">>,
       <<"returned", "stale-bot">>, <<"accept", "post-yes">>, <<"claim", "pre-yes">>,
       <<"claim", "post-yes">>, <<"reconcile", "pre-no">>, <<"withdraw", "pre-no">> >>

\* Slip: a claim leaves its liability reserved.
ClaimedKeepingReserve(v, id) ==
    [v EXCEPT !.spendable = @ - Gross(id), !.principal = @ - Stake]

Claimed(v, id) ==
    [v EXCEPT !.spendable = @ - Gross(id), !.reserved = @ - Liability(id),
              !.principal = @ - Stake]

After(v, what, id) ==
    CASE what = "accept" ->
            [v EXCEPT !.spendable = @ + Stake, !.free = @ - Liability(id),
                      !.reserved = @ + Liability(id), !.principal = @ + Stake]
      [] what = "claim" -> Claimed(v, id)
      [] what = "reconcile" ->
            [v EXCEPT !.free = @ + Stake + Liability(id),
                      !.reserved = @ - Liability(id), !.principal = @ - Stake]
      [] what = "withdraw" -> [v EXCEPT !.spendable = @ - v.free, !.free = 0]
      [] OTHER -> v

\* snapshots, from "Vault funded" on.
Snapshots ==
    LET after[n \in 0 .. Len(Story)] ==
            IF n = 0
            THEN [spendable |-> Deposit, free |-> Deposit, reserved |-> 0, principal |-> 0]
            ELSE After(after[n - 1], Story[n][1], Story[n][2])
    IN  after

\* invariantHolds
InvariantHolds(v) == v.spendable = v.free + v.reserved + v.principal

\* canonicalStaleCounterfactual: what the stale order would have cost more.
ExcessStaleLiability ==
    GrossPayout(Stake, PriceOf("stale-bot")) - GrossPayout(Stake, PriceOf("post-yes"))

-----------------------------------------------------------------------------
(* The component.                                                          *)

\* Slip: the acceptance shows the vault of before it.
SnapshotBeforeRetry == <<2, 2, 3, 4, 4, 4, 5, 8, 9>>

\* stages: their snapshotIndex and their mode.
SnapshotIndex == <<2, 2, 3, 4, 4, 5, 5, 8, 9>>
Modes == <<"fair", "quote", "goal", "refund", "reprice", "accept", "resolved", "paid",
           "reconciled">>
LastStage == Len(Modes)

\* V4_REPLAY_CHAPTERS: where they start.
ChapterStarts == {1, 2, 3, 4, 5, 7}

Speeds == {"1x", "1.5x", "2x"}

\* The stage may be asked for by the address of the page.
ReplayInit ==
    /\ replayStage \in 1 .. LastStage
    /\ replaying = FALSE /\ speed = "1x" /\ replayTimer = Null

\* The effects of [last, playing, speed, stage] and of [last].
Shows(n, plays, s) ==
    LET on == plays /\ n # LastStage
    IN  /\ replayStage' = n /\ replaying' = on /\ speed' = s
        /\ replayTimer' = IF n = replayStage /\ on = replaying /\ s = speed
                          THEN replayTimer
                          ELSE IF on THEN <<n, s>> ELSE Null

ReplayTimerFires ==
    /\ replayTimer # Null
    /\ Shows(replayStage + 1, replaying, speed)

ToggleReplay ==
    /\ replayStage # LastStage
    /\ Shows(replayStage, ~ replaying, speed)

\* "Next event" lets the replay go on playing, "Previous" stops it.
NextEvent ==
    /\ replayStage # LastStage
    /\ Shows(replayStage + 1, replaying, speed)

PreviousEvent ==
    /\ replayStage # 1
    /\ Shows(replayStage - 1, FALSE, speed)

RestartReplay == Shows(1, FALSE, speed)

\* "Submit stale-sequence order" and "Retry with synchronized quote".
SubmitStaleOrder == Modes[replayStage] = "goal" /\ Shows(4, FALSE, speed)
RetrySynchronized == Modes[replayStage] = "refund" /\ Shows(6, FALSE, speed)

GoToChapter == \E n \in ChapterStarts : Shows(n, FALSE, speed)

SetSpeed == \E s \in Speeds : Shows(replayStage, replaying, s)

ReplayNext ==
    \/ ReplayTimerFires \/ ToggleReplay \/ NextEvent \/ PreviousEvent \/ RestartReplay
    \/ SubmitStaleOrder \/ RetrySynchronized \/ GoToChapter \/ SetSpeed

-----------------------------------------------------------------------------
(* Properties.                                                             *)

ReplayTypeOK ==
    /\ replayStage \in 1 .. LastStage
    /\ replaying \in BOOLEAN /\ speed \in Speeds
    /\ replayTimer = Null \/ replayTimer \in (1 .. LastStage) \X Speeds

\* The same story by the program's own arithmetic, with its lamports.
ProgramSide(id) == IF SideOf(id) = "YES" THEN "Yes" ELSE "No"
ProgramAfter(p, what, id) ==
    LET side == ProgramSide(id)
        price == LET odds == IF id = "post-yes" THEN PostOdds ELSE PreOdds
                 IN  IF side = "Yes" THEN Program!YesPrice(odds, Spread)
                     ELSE Program!NoPrice(odds, Spread)
        gross == Program!GrossPayout(Stake, price)
        liability == gross - Stake
    IN  CASE what = "accept" ->
                [spendable |-> p.spendable + Stake,
                 vault |-> Program!ApplyAccept(p.vault, side, Stake, liability)]
          [] what = "claim" ->
                [spendable |-> p.spendable - gross,
                 vault |-> Program!ApplyClaim(p.vault, side, Stake, liability)]
          [] what = "reconcile" ->
                [p EXCEPT !.vault = Program!ApplyReconcileLoss(@, side, Stake, liability)]
          [] what = "withdraw" ->
                [spendable |-> p.spendable - p.vault.free_collateral,
                 vault |-> [p.vault EXCEPT !.free_collateral = 0]]
          [] OTHER -> p

ProgramSnapshots ==
    LET after[n \in 0 .. Len(Story)] ==
            IF n = 0
            THEN [spendable |-> Deposit,
                  vault |-> [Program!EmptyVault EXCEPT !.free_collateral = Deposit]]
            ELSE ProgramAfter(after[n - 1], Story[n][1], Story[n][2])
    IN  after

\* The positions that are open at a stage, by what the stage says.
OpenAt(mode) ==
    CASE mode \in {"fair", "quote", "goal", "refund", "reprice"} -> {"pre-yes", "pre-no"}
      [] mode \in {"accept", "resolved"} -> {"pre-yes", "pre-no", "post-yes"}
      [] OTHER -> {}

\* Whatever stage is shown: its vault is what the program's instructions make of the
\* recorded lifecycle, it can pay every position that the stage says is open, and
\* nothing is left in it when the story is told.
ShownVaultIsTheProgram ==
    LET n == SnapshotIndex[replayStage]
        shown == Snapshots[n]
        program == ProgramSnapshots[n]
        open == OpenAt(Modes[replayStage])
    IN  /\ InvariantHolds(shown)
        /\ shown.spendable = program.spendable
        /\ shown.free = program.vault.free_collateral
        /\ shown.reserved = program.vault.reserved_liability
        /\ shown.principal = program.vault.accepted_stake_principal
        /\ Program!VaultInvariant(program.vault, program.spendable)
        /\ shown.principal = Stake * Cardinality(open)
        /\ \A id \in open : shown.reserved >= Liability(id)
        /\ replayStage = LastStage => shown.spendable = 0
        /\ ExcessStaleLiability > 0

\* The timer is up exactly while the replay plays, with the speed that was chosen.
ReplayTimerMeansPlaying ==
    replayTimer = IF replaying THEN <<replayStage, speed>> ELSE Null
=============================================================================
