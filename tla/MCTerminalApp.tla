--------------------------- MODULE MCTerminalApp ---------------------------
(***************************************************************************)
(* One instance of the terminal and its drivers for TLC.                   *)
(***************************************************************************)
EXTENDS TerminalApp, TLC

CONSTANTS demoFixture, otherFixture, proof1

MCEvent(type, source, seq, forBacked, implied) ==
    [ eventType |-> type, source |-> source, fixtureId |-> demoFixture,
      seq |-> seq, forBacked |-> forBacked, implied |-> implied ]

MCDemoGoal == MCEvent("GOAL", "demo", 2, TRUE, 0)

MCCapturedEvents == {MCEvent("ODDS_UPDATE", "captured", 3, FALSE, 70)}

\* A goal for the backed team, one against it on a later sequence, a booking,
\* a goal in another match; and events that arrive late: their sequence is not
\* ahead of the quote's.
MCEvents ==
    { MCDemoGoal,
      MCEvent("RED_CARD", "live", 3, FALSE, 0),
      MCEvent("YELLOW_CARD", "live", 3, FALSE, 0),
      [MCEvent("GOAL", "live", 3, TRUE, 0) EXCEPT !.fixtureId = otherFixture],
      MCEvent("ODDS_UPDATE", "captured", 1, FALSE, 63),
      MCEvent("VAR", "historical", 2, FALSE, 0) }

\* The scores stream numbers its events, the odds stream does not.
MCPayload(type, fixtureId, seq, forBacked, implied) ==
    [ eventType |-> type, fixtureId |-> fixtureId, seq |-> seq,
      forBacked |-> forBacked, implied |-> implied ]

MCPayloads ==
    { MCPayload("GOAL", Null, 3, TRUE, 0),
      MCPayload("YELLOW_CARD", demoFixture, 2, FALSE, 0),
      MCPayload("ODDS_UPDATE", Null, 0, FALSE, 55),
      MCPayload("GOAL", otherFixture, 4, TRUE, 0) }

MCSamples == {MCPayload("ODDS_UPDATE", demoFixture, 0, FALSE, 45)}
=============================================================================
