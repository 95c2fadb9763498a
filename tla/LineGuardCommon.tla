-------------------------- MODULE LineGuardCommon --------------------------
(***************************************************************************)
(* What both generations of the LineGuard program have in common           *)
(* (programs/lineguard/src/lib.rs): sides, prices, and accounts that may   *)
(* not be there.                                                           *)
(***************************************************************************)
EXTENDS Integers, FiniteSets, FiniteSetsExt

CONSTANTS
    MICROS_ONE,      \* the price of a certain outcome
    NoAccount        \* an account that does not exist

Sides == {"Yes", "No"}

Exists(account) == account # NoAccount

\* Slip: the operands are swapped.
SidePriceSwapped(side, yes) == IF side = "Yes" THEN yes ELSE yes - MICROS_ONE

SidePrice(side, yes) == IF side = "Yes" THEN yes ELSE MICROS_ONE - yes
=============================================================================
