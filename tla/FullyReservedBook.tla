-------------------------- MODULE FullyReservedBook --------------------------
(***************************************************************************)
(* What a fixed-payout vault promises, with no accounting in it: a book of *)
(* open bets, one bank, and the rule that the bank always covers the gross *)
(* payout of every open bet on every side, so that no order of settlements *)
(* and withdrawals can leave a winner unpaid.                              *)
(***************************************************************************)
EXTENDS Integers, FiniteSetsExt

CONSTANTS
    Bettors, \* who may bet
    Ids      \* names of bets

VARIABLES
    bank,    \* money the house holds
    open,    \* bets that are placed and not settled
    used,    \* the names that have been given to a bet, open or not
    outcome, \* "Unresolved", then "Yes", "No" or "Void" for good
    purse    \* money of each bettor

bookVars == <<bank, open, used, outcome, purse>>

Bet ==
    [ id : Ids, owner : Bettors, side : {"Yes", "No"}, stake : Nat, gross : Nat ]

Obligations(bets) == MapThenSumSet(LAMBDA b : b.gross, bets)

BookInit ==
    /\ bank = 0
    /\ open = {}
    /\ used = {}
    /\ outcome = "Unresolved"
    /\ purse \in [Bettors -> Nat]

\* Money arrives: a deposit, or a gift.
Fund ==
    /\ bank' > bank
    /\ UNCHANGED <<open, used, outcome, purse>>

\* The house takes money that no open bet can ever need.
Withdraw ==
    /\ bank' < bank
    /\ bank' >= Obligations(open)
    /\ UNCHANGED <<open, used, outcome, purse>>

\* A bet is taken, once, before the outcome is known, and only with the money
\* to pay it and every other open bet already in the bank.
Take(bet) ==
    /\ outcome = "Unresolved"
    /\ bet.id \notin used
    /\ bet.gross > bet.stake
    /\ bet.stake > 0
    /\ purse[bet.owner] >= bet.stake
    /\ open' = open \cup {bet}
    /\ used' = used \cup {bet.id}
    /\ purse' = [purse EXCEPT ![bet.owner] = @ - bet.stake]
    /\ bank' = bank + bet.stake
    /\ bank' >= Obligations(open')
    /\ UNCHANGED outcome

\* A bet is refused: its name is spent and nothing else.
Decline(id) ==
    /\ outcome = "Unresolved"
    /\ id \notin used
    /\ used' = used \cup {id}
    /\ UNCHANGED <<bank, open, outcome, purse>>

Resolve ==
    /\ outcome = "Unresolved"
    /\ outcome' \in {"Yes", "No", "Void"}
    /\ UNCHANGED <<bank, open, used, purse>>

Due(bet) ==
    IF outcome = "Void" THEN bet.stake
    ELSE IF outcome = bet.side THEN bet.gross ELSE 0

\* An open bet is settled, once, for exactly what is due.
Settle(bet) ==
    /\ outcome # "Unresolved"
    /\ open' = open \ {bet}
    /\ bank' = bank - Due(bet)
    /\ purse' = [purse EXCEPT ![bet.owner] = @ + Due(bet)]
    /\ UNCHANGED <<used, outcome>>

BookNext ==
    \/ Fund
    \/ Withdraw
    \/ \E bet \in open' : Take(bet)
    \/ \E id \in Ids : Decline(id)
    \/ Resolve
    \/ \E bet \in open : Settle(bet)

BookSpec == BookInit /\ [][BookNext]_bookVars
=============================================================================
