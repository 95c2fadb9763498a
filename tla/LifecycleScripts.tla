-------------------------- MODULE LifecycleScripts --------------------------
(***************************************************************************)
(* The scripts that play the whole life of the canonical market against    *)
(* the vault program:                                                      *)
(*                                                                         *)
(*   fairx-v4-litesvm-lifecycle.ts and fairx-v4-void-litesvm.ts, in a      *)
(*     local virtual machine, one instruction after the other, with the    *)
(*     instructions that must fail;                                        *)
(*   fairx-v4-record-lifecycle.ts, on devnet, which writes the evidence    *)
(*     file of what it did;                                                *)
(*   fairx-v4-finalize-lifecycle.ts, on devnet, which closes the positions *)
(*     that a recording of the first edition left open, withdraws, and     *)
(*     writes the evidence again.                                          *)
(*                                                                         *)
(* On devnet any of them may stop between two steps, several may run at    *)
(* once, and anyone may send the instructions that need no key.            *)
(***************************************************************************)
EXTENDS FairXVaultV4, Sequences, SequencesExt

CONSTANTS
    Null,
    Players,       \* the traders of the scripts, by order nonce
    Stake,         \* STAKE
    Deposit,       \* operatorDepositLamports
    Recorders,     \* runs of the recorder
    Finalizers,    \* runs of the finalizer
    Meddlings      \* bound of what others do on devnet

VARIABLES
    script,      \* which script is played, and where
    sender,      \* the runs of the recorder and of the finalizer
    evidence,    \* fixtures/lineguard/v4-france-morocco-lifecycle.json
    landed,      \* the labels whose transactions landed on devnet
    meddled      \* what others did meanwhile

scriptVars == <<script, sender, evidence, landed, meddled>>

-----------------------------------------------------------------------------
(* The instructions, by the labels of the scripts.                         *)

Config == CHOOSE config \in CandidateConfigs : TRUE
Bounds == CHOOSE bounds \in StakeBounds : TRUE
Recorded(q) == [recorded |-> q, variant |-> CHOOSE v \in GenuineVariants : TRUE]
Resolver(i) == Config.resolution_authorities[i]
Stats == CHOOSE stats \in FinalStats : TRUE

\* An order of the trader with this nonce, signed against quote q.
Order(nonce, side, q) ==
    [ side |-> side, stake |-> Stake, quote_sequence |-> q, payload_hash |-> Recorded(q),
      price |-> IF side = "Yes" THEN YesPrice(RecordedPrices[q], SPREAD_MICROS)
                ELSE NoPrice(RecordedPrices[q], SPREAD_MICROS),
      material_event_sequence |->
          IF q = 1 THEN CANONICAL_INITIAL_EVENT_SEQUENCE ELSE CANONICAL_GOAL_SEQUENCE,
      order_nonce |-> nonce, expiry |-> MaxTime ]

Place(nonce, side, q) == PlaceFixedPayoutOrder(Players[nonce + 1], Order(nonce, side, q))

Commit(q, material) == CommitTxlineQuote(Config.pricing_authority, q, material, Recorded(q))

Close(nonce) == CloseFixedPayoutPosition(Players[nonce + 1], nonce)

Claim(nonce) == ClaimFixedPayout(Players[nonce + 1], nonce)

\* The lifecycle both recorders send; a withdrawal carries an amount.
Canonical(label, amount) ==
    \/ label = "initializeMarket" /\ InitializeMarket(Config)
    \/ label = "initializeVault" /\ InitializeLiquidityVault(Bounds)
    \/ label = "depositLiquidity" /\ DepositLiquidity(Deposit)
    \/ label = "commitPreQuote" /\ Commit(1, CANONICAL_INITIAL_EVENT_SEQUENCE)
    \/ label = "verifyPreQuote" /\ VerifyTxlineQuote(Recorded(1))
    \/ label = "acceptHonestYes" /\ Place(0, "Yes", 1)
    \/ label = "acceptHonestNo" /\ Place(1, "No", 1)
    \/ label = "ingestGoal" /\ IngestMaterialEvent(Config.feed_authority, CANONICAL_GOAL_SEQUENCE)
    \/ label = "refundStaleBot" /\ Place(2, "Yes", 1)
    \/ label = "commitPostQuote" /\ Commit(2, CANONICAL_GOAL_SEQUENCE)
    \/ label = "verifyPostQuote" /\ VerifyTxlineQuote(Recorded(2))
    \/ label = "closeStaleRefund" /\ Close(2)
    \/ label = "acceptSynchronizedYes" /\ Place(3, "Yes", 2)
    \/ label = "proveResolution" /\ ProveResolutionWithTxline(Resolver(1), Stats)
    \/ label = "approveResolution" /\ ApproveResolution(Resolver(2))
    \/ label = "executeResolution" /\ ExecuteResolution
    \/ label = "reconcileLosingNo" /\ ReconcilePosition(1)
    \/ label = "claimHonestYes" /\ Claim(0)
    \/ label = "claimSynchronizedYes" /\ Claim(3)
    \/ label = "reconcileVault" /\ ReconcileVaultSurplus
    \/ label = "closeHonestYes" /\ Close(0)
    \/ label = "closeLosingNo" /\ Close(1)
    \/ label = "closeSynchronizedYes" /\ Close(3)
    \/ label = "withdrawFreeLiquidity" /\ WithdrawFreeLiquidity(amount)

\* V4_LIFECYCLE_STEPS.
LIFECYCLE_STEPS ==
    << "initializeMarket", "initializeVault", "depositLiquidity", "commitPreQuote",
       "verifyPreQuote", "acceptHonestYes", "acceptHonestNo", "ingestGoal",
       "refundStaleBot", "commitPostQuote", "verifyPostQuote", "closeStaleRefund",
       "acceptSynchronizedYes", "proveResolution", "approveResolution",
       "executeResolution", "reconcileLosingNo", "claimHonestYes",
       "claimSynchronizedYes", "reconcileVault", "closeHonestYes", "closeLosingNo",
       "closeSynchronizedYes", "withdrawFreeLiquidity" >>

\* The economic transactions: what a recording of the first edition holds.
BASE == 20

-----------------------------------------------------------------------------
(* The local scripts.                                                      *)

\* A step that must succeed, and one that must fail.
Does(label) == [label |-> label, fails |-> FALSE]
Refused(label) == [label |-> label, fails |-> TRUE]

\* The setting up that both begin with.
Opening ==
    << Does("initializeMarket"), Refused("initializeMarket"), Does("initializeVault"),
       Does("depositLiquidity") >>

\* main() of fairx-v4-litesvm-lifecycle.ts, the substituted accounts left out: the
\* model's instructions have the right ones.
LocalLifecycle ==
    << Refused("duplicateRoles") >> \o Opening \o
    << Refused("transferTooMuch"), Does("donate"), Does("reconcileVault"), Does("donate"),
       Does("donate"), Does("reconcileVault"), Does("checkDonations"),
       Does("reconcileVault"), Does("checkDonations"), Does("commitPreQuote"),
       Does("verifyPreQuote"), Does("donate"), Does("acceptHonestYes"),
       Does("reconcileVault"), Does("acceptHonestNo"), Does("donate"),
       Refused("withdrawTooMuch"), Does("ingestGoal"), Does("refundStaleBot"),
       Does("checkStaleRefund"), Does("reconcileVault"), Does("commitPostQuote"),
       Does("verifyPostQuote"), Does("closeStaleRefund"), Refused("reuseClosedOrder"),
       Does("acceptSynchronizedYes"), Refused("proveWrongScore"),
       Does("proveResolution"), Does("setClock"), Refused("proposeVoid"),
       Does("approveResolution"), Does("executeResolution"), Does("donate"),
       Does("reconcileLosingNo"), Does("claimHonestYes"), Does("reconcileVault"),
       Refused("claimHonestYes"), Does("claimSynchronizedYes"), Refused("claimStale"),
       Does("checkReconciled"), Does("closeHonestYes"), Does("closeLosingNo"),
       Does("closeSynchronizedYes"), Does("takeOneLamport"), Refused("reconcileVault"),
       Does("putOneLamportBack"), Does("withdrawAll"), Does("checkEmpty") >>

\* main() of fairx-v4-void-litesvm.ts, its first market.
VoidLifecycle ==
    Opening \o
    << Does("commitPreQuote"), Does("verifyPreQuote"), Does("acceptHonestYes"),
       Does("acceptHonestNo"), Refused("proposeVoid"), Does("setClock"),
       Does("proposeVoid"), Refused("executeVoid"), Refused("approveAgain"),
       Does("approveResolution"), Does("executeVoid"), Refused("proveResolution"),
       Refused("withdrawTooMuch"), Does("refundFirst"), Does("checkFirstRefund"),
       Refused("refundFirst"), Does("withdrawAll"), Does("refundSecond"),
       Does("closeHonestYes"), Does("closeLosingNo"), Does("checkAllRefunded") >>

\* Its second market: the event lands between a quote's commitment and its proof.
StaleRace ==
    << Does("initializeMarket"), Does("commitPreQuote"), Does("ingestGoal"),
       Refused("ingestGoal"), Does("verifyPreQuote"), Does("checkHistorical"),
       Refused("verifyPreQuote") >>

Steps ==
    CASE script.name = "lifecycle" -> LocalLifecycle
      [] script.name = "void" -> VoidLifecycle
      [] script.name = "stale" -> StaleRace
      [] OTHER -> <<>>

\* The donations of the script are of one lamport here.
Donated == Cardinality({i \in 1..(script.at - 1) : Steps[i] = Does("donate")})

GrossOf(nonce, side, q) == GrossPayout(Stake, Order(nonce, side, q).price)

\* What the scripts assert between their steps.
Holds(label) ==
    \/ label = "checkDonations" /\ vault.free_collateral = Deposit + Donated
    \/ label = "checkStaleRefund" /\ wallet[Players[3]] = InitialFunds[Players[3]]
    \/ /\ label = "checkReconciled"
       /\ vault.free_collateral =
              Deposit + Donated + 3 * Stake - GrossOf(0, "Yes", 1) - GrossOf(3, "Yes", 2)
       /\ vault.reserved_liability = 0 /\ vault.accepted_stake_principal = 0
       /\ ledger.payouts = GrossOf(0, "Yes", 1) + GrossOf(3, "Yes", 2)
       /\ ledger.refunds = Stake /\ ledger.losing_stakes = Stake
    \/ /\ label = "checkEmpty"
       /\ vault.free_collateral = 0 /\ counters.position_count = 0 /\ spendable = 0
    \/ label = "checkFirstRefund" /\ wallet[Players[1]] = InitialFunds[Players[1]]
    \/ /\ label = "checkAllRefunded"
       /\ vault.reserved_liability = 0 /\ vault.accepted_stake_principal = 0
       /\ vault.pending_refundable_stake = 0 /\ counters.position_count = 0
       /\ ledger.refunds = 2 * Stake
    \/ /\ label = "checkHistorical"
       /\ ~quote.verified
       /\ quote_receipts[1] # NoAccount /\ ~quote_receipts[1].currently_executable

\* Lamports set by hand in the virtual machine.
SetLamports(lamports) ==
    /\ spendable' = lamports
    /\ UNCHANGED <<initialized, marketVars, vault, ledger, counters, stake_bounds, wallet,
                   positions, resolutionVars, now>>

\* The steps only the local scripts have.
Extra(label) ==
    \/ /\ label = "duplicateRoles"
       /\ InitializeMarket([Config EXCEPT !.feed_authority = Config.operator])
    \/ label = "transferTooMuch" /\ SendLamports(Players[1], MaxU64)
    \/ label = "donate" /\ SendLamports(Players[1], 1)
    \/ label = "withdrawTooMuch" /\ WithdrawFreeLiquidity(vault.free_collateral + 1)
    \/ label = "withdrawAll" /\ WithdrawFreeLiquidity(vault.free_collateral)
    \/ label = "reuseClosedOrder" /\ Place(2, "Yes", 2)
    \/ /\ label = "proveWrongScore"
       /\ ProveResolutionWithTxline(Resolver(1), [Stats EXCEPT ![1002] = @ + 1])
    \/ label = "setClock" /\ Tick
    \/ label = "proposeVoid" /\ ProposeVoid(Resolver(1))
    \/ label = "approveAgain" /\ ApproveResolution(Resolver(1))
    \/ label = "executeVoid" /\ ExecuteVoid
    \/ label = "claimStale" /\ Claim(2)
    \/ label = "refundFirst" /\ ClaimVoidRefund(Players[1], 0)
    \/ label = "refundSecond" /\ ClaimVoidRefund(Players[2], 1)
    \/ label = "takeOneLamport" /\ SetLamports(spendable - 1)
    \/ label = "putOneLamportBack" /\ SetLamports(spendable + 1)
    \/ Holds(label) /\ UNCHANGED vars

Instruction(label) == Canonical(label, 0) \/ Extra(label)

\* `send`: the next step, which must end as the script says.
LocalStep ==
    /\ script.name \in {"lifecycle", "void", "stale"}
    /\ script.at <= Len(Steps)
    /\ ~script.failed
    /\ LET step == Steps[script.at]
           passed == [script EXCEPT !.at = @ + 1]
           broken == [script EXCEPT !.failed = TRUE]
       IN  IF step.fails
           THEN /\ script' = IF ENABLED Instruction(step.label) THEN broken ELSE passed
                /\ UNCHANGED vars
           ELSE \/ Instruction(step.label) /\ script' = passed
                \/ ~ENABLED Instruction(step.label) /\ script' = broken /\ UNCHANGED vars
    /\ UNCHANGED <<sender, evidence, landed, meddled>>

-----------------------------------------------------------------------------
(* The recorder on devnet.                                                 *)

Senders == Recorders \cup Finalizers

\* A script that sends from one place of the lifecycle to its end; `amount` is what
\* it will withdraw, read before the positions are closed.
AtRest == [pc |-> "off", at |-> 1, amount |-> 0]

\* It always begins with the first step, also when the market exists.
FirstStep(r) == IF r \in Recorders THEN 1 ELSE BASE + 1

LastStep == Len(LIFECYCLE_STEPS)

OnDevnet(r) == script.name = "devnet" /\ r \in Senders

\* `preflight`: the cluster, the binary, the roots and the signers, all taken
\* together, and the market, which must not be resolved.
RecorderStarts(r) ==
    /\ OnDevnet(r)
    /\ r \in Recorders
    /\ sender[r].pc = "off"
    /\ \E execute, guardsPass \in BOOLEAN :
           sender' = [sender EXCEPT ![r] =
               [AtRest EXCEPT !.pc = IF ~guardsPass \/ market.resolved THEN "refused"
                                     ELSE IF execute THEN "sending" ELSE "preflight",
                              !.at = FirstStep(r)]]
    /\ UNCHANGED <<vars, script, evidence, landed, meddled>>

\* After the economic transactions the positions are read, and how much is free.
RecorderReads(r) ==
    /\ OnDevnet(r)
    /\ r \in Recorders
    /\ sender[r].pc = "sending"
    /\ sender[r].at = BASE + 1
    /\ sender' = [sender EXCEPT ![r] =
           IF \A n \in {0, 1, 3} : positions[n] # NoAccount
           THEN [@ EXCEPT !.pc = "closing", !.amount = vault.free_collateral]
           ELSE [@ EXCEPT !.pc = "stopped"]]
    /\ UNCHANGED <<vars, script, evidence, landed, meddled>>

\* Whether the run is at a step that it sends.
Sends(r) ==
    \/ sender[r].pc = "sending" /\ sender[r].at <= BASE
    \/ sender[r].pc = "closing" /\ sender[r].at <= LastStep

\* `send`: the transaction lands and its confirmation is seen, or it lands and the
\* script stops before it sees it.
StepLands(r) ==
    /\ OnDevnet(r)
    /\ Sends(r)
    /\ LET label == LIFECYCLE_STEPS[sender[r].at]
       IN  /\ Canonical(label, sender[r].amount)
           /\ landed' = Append(landed, label)
    /\ \/ sender' = [sender EXCEPT ![r].at = @ + 1]
       \/ sender' = [sender EXCEPT ![r].pc = "stopped"]
    /\ UNCHANGED <<script, evidence, meddled>>

\* The transaction fails, or gets lost, or the script is stopped anywhere.
RunStops(r) ==
    /\ OnDevnet(r)
    /\ sender[r].pc \in {"sending", "closing"}
    /\ sender' = [sender EXCEPT ![r].pc = "stopped"]
    /\ UNCHANGED <<vars, script, evidence, landed, meddled>>

\* What the evidence says of the chain, read when it is written.
Evidence(labels) ==
    [ labels |-> labels, free |-> vault.free_collateral,
      reserved |-> vault.reserved_liability, principal |-> vault.accepted_stake_principal ]

\* The end of `recordLifecycle`; the transactions are those this run has sent.
RecorderWrites(r) ==
    /\ OnDevnet(r)
    /\ r \in Recorders
    /\ sender[r].pc = "closing"
    /\ sender[r].at = LastStep + 1
    /\ evidence' = Evidence(SubSeq(LIFECYCLE_STEPS, FirstStep(r), LastStep))
    /\ sender' = [sender EXCEPT ![r].pc = "done"]
    /\ UNCHANGED <<vars, script, landed, meddled>>

\* The recorder of the first edition stopped there, and wrote what it had done.
FirstEditionWrites(r) ==
    /\ OnDevnet(r)
    /\ r \in Recorders
    /\ sender[r].pc = "sending"
    /\ sender[r].at = BASE + 1
    /\ evidence' = Evidence(SubSeq(LIFECYCLE_STEPS, 1, BASE))
    /\ sender' = [sender EXCEPT ![r].pc = "done"]
    /\ UNCHANGED <<vars, script, landed, meddled>>

-----------------------------------------------------------------------------
(* The finalizer.                                                          *)

\* The evidence it accepts: a recording whose cleanup is missing.
AcceptsEvidence ==
    /\ evidence # Null
    /\ "withdrawFreeLiquidity" \notin ToSet(evidence.labels)
    /\ \A i \in 1..BASE : LIFECYCLE_STEPS[i] \in ToSet(evidence.labels)

HasStatus(n, status) == positions[n] # NoAccount /\ positions[n].status = status

\* The accounts it accepts: everything settled, three positions to close.
AcceptsAccounts ==
    /\ positions[2] = NoAccount
    /\ market.resolved /\ market.resolution = "Yes"
    /\ HasStatus(0, "Claimed") /\ HasStatus(1, "Lost") /\ HasStatus(3, "Claimed")
    /\ vault.reserved_liability = 0
    /\ vault.accepted_stake_principal = 0
    /\ vault.pending_refundable_stake = 0
    /\ counters.position_count = 3
    /\ vault.free_collateral > 0

\* Guards, reading, and the simulation of its four transactions, each by itself.
FinalizerStarts(r) ==
    /\ OnDevnet(r)
    /\ r \in Finalizers
    /\ sender[r].pc = "off"
    /\ \E execute \in BOOLEAN :
           sender' = [sender EXCEPT ![r] =
               [AtRest EXCEPT !.pc = IF ~(AcceptsEvidence /\ AcceptsAccounts) THEN "refused"
                                     ELSE IF execute THEN "closing" ELSE "preflight",
                              !.at = FirstStep(r),
                              !.amount = vault.free_collateral]]
    /\ UNCHANGED <<vars, script, evidence, landed, meddled>>

\* Slip: the end is not looked at.
NothingIsLeft == TRUE

\* The positions are gone and the vault is empty.
AllIsClosed ==
    /\ \A n \in 0..3 : positions[n] = NoAccount
    /\ counters.position_count = 0
    /\ vault.free_collateral = 0

\* It looks at the end before it writes the evidence with its own transactions added.
FinalizerWrites(r) ==
    /\ OnDevnet(r)
    /\ r \in Finalizers
    /\ sender[r].pc = "closing"
    /\ sender[r].at = LastStep + 1
    /\ IF AllIsClosed
       THEN /\ evidence' = Evidence(evidence.labels \o SubSeq(LIFECYCLE_STEPS, BASE + 1, LastStep))
            /\ sender' = [sender EXCEPT ![r].pc = "done"]
       ELSE /\ sender' = [sender EXCEPT ![r].pc = "stopped"]
            /\ UNCHANGED evidence
    /\ UNCHANGED <<vars, script, landed, meddled>>

-----------------------------------------------------------------------------
(* Everyone else, and the whole.                                           *)

\* What needs no key of the scripts: a donation and its booking, and the steps of
\* the lifecycle that anyone may execute.
Meddle ==
    /\ script.name = "devnet"
    /\ meddled < Meddlings
    /\ meddled' = meddled + 1
    /\ \/ SendLamports(Stranger, 1)
       \/ ReconcileVaultSurplus
       \/ VerifyTxlineQuote(quote.payload_hash)
       \/ ExecuteResolution
       \/ \E n \in Nonces : ReconcilePosition(n)
    /\ UNCHANGED <<script, sender, evidence, landed>>

ScriptsInit ==
    /\ Init
    /\ script \in [name : {"lifecycle", "void", "stale", "devnet"}, at : {1}, failed : {FALSE}]
    /\ sender = [r \in Senders |-> AtRest]
    /\ evidence = Null
    /\ landed = <<>>
    /\ meddled = 0

SenderStep(r) ==
    \/ RecorderStarts(r)
    \/ RecorderReads(r)
    \/ StepLands(r)
    \/ RunStops(r)
    \/ RecorderWrites(r)
    \/ FirstEditionWrites(r)
    \/ FinalizerStarts(r)
    \/ FinalizerWrites(r)

ScriptsNext ==
    \/ LocalStep
    \/ \E r \in Senders : SenderStep(r)
    \/ Meddle

-----------------------------------------------------------------------------
(* What the scripts promise.                                               *)

EvidenceFiles ==
    {Null} \cup
    [ labels : {SubSeq(LIFECYCLE_STEPS, 1, BASE), LIFECYCLE_STEPS},
      free : U64, reserved : U64, principal : U64 ]

ScriptsTypeOK ==
    /\ script.at \in 1..(Len(Steps) + 1)
    /\ \A r \in Senders :
           /\ sender[r].pc \in {"off", "sending", "closing", "done", "stopped", "refused", "preflight"}
           /\ sender[r].at \in 1..(LastStep + 1)
    /\ evidence \in EvidenceFiles
    /\ ToSet(landed) \subseteq ToSet(LIFECYCLE_STEPS)
    /\ meddled \in 0..Meddlings

\* The local scripts run to their end: every instruction they send succeeds or is
\* refused as they say, and every amount they assert is what the program holds.
LocalScriptsPass == ~script.failed

\* However often the scripts are started, stopped and overlapped, the transactions
\* that land are a beginning of the lifecycle, each once and in its order.
LandsOnceInOrder == IsPrefix(landed, LIFECYCLE_STEPS)

\* What the evidence lists has landed; a complete one stands for a settled market
\* with no position left, and when nobody else touched the vault it says the vault
\* was emptied.
EvidenceIsTrue ==
    evidence # Null =>
        /\ ToSet(evidence.labels) \subseteq ToSet(landed)
        /\ evidence.reserved = 0 /\ evidence.principal = 0
        /\ evidence.labels = LIFECYCLE_STEPS =>
               /\ market.resolved
               /\ \A n \in Nonces : positions[n] = NoAccount
               /\ meddled = 0 \/ (\E r \in Finalizers : sender[r].pc = "done") => evidence.free = 0

=============================================================================
