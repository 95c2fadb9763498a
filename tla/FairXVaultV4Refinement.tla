----------------------- MODULE FairXVaultV4Refinement -----------------------
(***************************************************************************)
(* The vault's counters against the positions they stand for.  The program *)
(* never sums over positions: it keeps running totals and trusts every     *)
(* instruction to move the same amounts in and out.  Here the totals are   *)
(* compared with the sums, and the program is shown to implement the fully *)
(* reserved book, whose only rule is about the sum.                        *)
(***************************************************************************)
EXTENDS FairXVaultV4, FiniteSetsExt

AcceptedNonces == {n \in Nonces : IsAccepted(n)}

LiabilityOn(side) ==
    MapThenSumSet(LAMBDA n : positions[n].reserved_liability,
                  {n \in AcceptedNonces : positions[n].side = side})

\* The reserve, the reserve of each side and the stake principal are exactly
\* the sums over the accepted positions, and nothing is pending between
\* instructions: no liability is released twice, left behind, or charged to
\* the other side.
TotalsMatchPositions ==
    /\ vault.yes_reserved_liability = LiabilityOn("Yes")
    /\ vault.no_reserved_liability = LiabilityOn("No")
    /\ vault.reserved_liability = LiabilityOn("Yes") + LiabilityOn("No")
    /\ vault.accepted_stake_principal =
          MapThenSumSet(LAMBDA n : positions[n].stake, AcceptedNonces)
    /\ vault.pending_refundable_stake = 0

\* The counters of the vault, of its positions and of its amounts, are what the
\* positions add up to: orders counted by place_order, positions by close_position,
\* and every amount by the instruction that moved it.
CountersMatchPositions ==
    /\ PositionsAreCounted
    /\ TotalsMatchPositions

OpenBets ==
    { [ id |-> n,
        owner |-> positions[n].owner,
        side |-> positions[n].side,
        stake |-> positions[n].stake,
        gross |-> positions[n].gross_payout ] : n \in AcceptedNonces }

Book ==
    INSTANCE FullyReservedBook WITH
        Bettors <- Traders,
        Ids <- Nonces,
        bank <- spendable,
        open <- OpenBets,
        used <- 0 .. counters.next_order_nonce - 1,
        outcome <- market.resolution,
        purse <- [t \in Traders |-> wallet[t]]

\* The program implements the fully reserved book: before and after the
\* outcome is known, through losses reconciled late, voids, withdrawals and
\* gifts, the lamports cover every open bet's gross payout whenever money
\* leaves, and each bet is settled once, for what is due.
ImplementsBook == Book!BookSpec
=============================================================================
