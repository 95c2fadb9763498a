---------------------------- MODULE TerminalApp ----------------------------
(***************************************************************************)
(* The terminal with its three drivers, of which each behaviour has one: a *)
(* user who dispatches any reducer action in any order, the scripted       *)
(* replay, and the live feed.  What belongs to the other drivers does not  *)
(* move.                                                                   *)
(***************************************************************************)
EXTENDS TerminalReplay, LiveFeed

CONSTANTS
    UserStreams, \* streams that report to the user's terminal
    UserEvents   \* bound of the events the user ingests

VARIABLE driver

vars == <<driver, terminalVars, replayVars, hookVars>>

ReplayIdle == playing = FALSE /\ token = 0 /\ script = <<>> /\ timers = <<>>

FeedIdle == open = {} /\ fallbackSeq = 1 /\ fetched = FALSE

AppInit ==
    \/ driver = "user" /\ Init /\ ReplayIdle /\ FeedIdle
    \/ driver = "replay" /\ ReplayInit /\ FeedIdle
    \/ driver = "live feed" /\ LiveInit /\ ReplayIdle

\* Bounds of the user.
UserBound ==
    /\ \A s \in Streams \ UserStreams : txline'.stream[s] = "disconnected"
    /\ txline'.eventsSeen <= UserEvents

AppNext ==
    /\ UNCHANGED driver
    /\ \/ /\ driver = "user"
          /\ Next
          /\ UserBound
          /\ UNCHANGED <<replayVars, hookVars>>
       \/ driver = "replay" /\ ReplayNext /\ UNCHANGED hookVars
       \/ driver = "live feed" /\ LiveNext /\ UNCHANGED replayVars

\* The timers of a replay fire.
AppSpec ==
    /\ AppInit
    /\ [][AppNext]_vars
    /\ WF_vars(driver = "replay" /\ Fire /\ UNCHANGED <<driver, hookVars>>)

-----------------------------------------------------------------------------
\* Every variable keeps its type under every driver (TypeOK, ReplayTypeOK,
\* LiveTypeOK).
AppTypeOK ==
    CASE driver = "user" -> TypeOK
      [] driver = "replay" -> ReplayTypeOK
      [] driver = "live feed" -> LiveTypeOK

\* The receipt tells the verdict of its order (Terminal), and a full replay tells
\* its story (TerminalReplay).
ReceiptsTellTheStory ==
    /\ ReceiptTellsTheVerdict
    /\ driver = "replay" => FullRunTellsTheStory

\* A market that shows itself trading shows its fair price (Terminal); the live
\* badge, the stream statuses and the sequence counter are those of the open
\* connections, whatever is reset or switched meanwhile (LiveFeed).
ShownStateIsTrue ==
    /\ TradingMeansFair
    /\ driver = "live feed" =>
          /\ LiveBadgeIsHonest
          /\ StatusesHaveHandles
          /\ FallbackStaysAhead

\* evaluate.ts: a market in sync "already reflects every known event"
\* (InSyncMeansFair), however the streams interleave.
InSyncMeansFairWhenLive == driver = "live feed" => InSyncMeansFair
=============================================================================
