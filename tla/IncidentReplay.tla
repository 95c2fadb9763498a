--------------------------- MODULE IncidentReplay ---------------------------
(***************************************************************************)
(* The integrity incident of the front page: lib/runtime/scenarios.ts has  *)
(* the incidents, lib/runtime/engine.ts says what is shown at each of      *)
(* seven stages, and components/runtime/FairXLiveDemo.tsx plays them, by a *)
(* timer and by the visitor's clicks.                                      *)
(*                                                                         *)
(* The component keeps a stage and whether it plays; everything else is    *)
(* derived.  Its timer belongs to an effect, that runs again when what it  *)
(* depends on has changed: it is taken down and, if the replay plays, set  *)
(* up for the stage that is shown.                                         *)
(***************************************************************************)
EXTENDS Integers

CONSTANTS
    Null,
    ScenarioIds,     \* the keys of RUNTIME_SCENARIOS
    Scenarios,       \* per key: a RuntimeScenario
    MICROS_ONE       \* prices: 1.0

VARIABLES
    scenarioId,
    stage,
    playing,
    timer            \* the stage the timer was set up at, or Null

incidentVars == <<scenarioId, stage, playing, timer>>

RUNTIME_STAGE_COUNT == 7
Last == RUNTIME_STAGE_COUNT - 1

-----------------------------------------------------------------------------
(* The incidents and what is shown of them.                                *)

\* validateRuntimeScenario; an incident that fails it throws while it is rendered.
ValidateRuntimeScenario(s) ==
    /\ s.event.sequence > s.initial.eventSequence
    /\ s.quote.sequence = s.initial.eventSequence
    /\ \A q \in {s.quote.before, s.quote.after} :
          q.YES \in 1 .. MICROS_ONE - 1 /\ q.NO \in 1 .. MICROS_ONE - 1
    /\ s.incomingOrder.stake > 0 /\ s.synchronizedOrder.stake > 0

\* scenarioById
Playable == {id \in ScenarioIds : ValidateRuntimeScenario(Scenarios[id])}

ClampRuntimeStage(n) == IF n < 0 THEN 0 ELSE IF n > Last THEN Last ELSE n
NextRuntimeStage(n) == ClampRuntimeStage(n + 1)

\* evaluateIncomingOrder
EvaluateIncomingOrder(s) ==
    LET stale == s.quote.sequence < s.event.sequence
    IN  [ decision |-> IF stale THEN "STALE_SEQUENCE_RETURNED" ELSE "ACCEPTED",
          returned |-> IF stale THEN s.incomingOrder.stake ELSE 0 ]

\* Slip: the quote catches up only after the retry.
RepricedAfterRetry(n) == n >= 6

Repriced(n) == n >= 4

\* runtimeState
RuntimeState(s, requested) ==
    LET n == ClampRuntimeStage(requested)
        eventArrived == n >= 1
        retryAccepted == n >= 5
        evaluation == EvaluateIncomingOrder(s)
        eventSequence == IF eventArrived THEN s.event.sequence
                         ELSE s.initial.eventSequence
        quoteSequence == IF Repriced(n) THEN s.event.sequence ELSE s.quote.sequence
        acceptedPrice == s.quote.after[s.synchronizedOrder.side]
    IN  [ eventSequence |-> eventSequence,
          quoteSequence |-> quoteSequence,
          sequenceDelta |-> eventSequence - quoteSequence,
          quote |-> IF Repriced(n) THEN s.quote.after ELSE s.quote.before,
          synchronized |-> ~ eventArrived \/ Repriced(n),
          health |-> IF n = 0 \/ retryAccepted THEN "HEALTHY"
                     ELSE IF n = 4 THEN "RECOVERING" ELSE "STALE",
          marketStatus |-> IF n >= 6 THEN "SETTLED" ELSE "OPEN",
          order |-> IF n < 2 THEN Null
                    ELSE IF retryAccepted THEN s.synchronizedOrder ELSE s.incomingOrder,
          orderSequence |-> IF n < 2 THEN Null
                            ELSE IF retryAccepted THEN s.event.sequence
                            ELSE s.quote.sequence,
          decision |-> IF retryAccepted THEN "ACCEPTED"
                       ELSE IF n >= 3 THEN evaluation.decision ELSE Null,
          returned |-> IF n >= 3 /\ ~ retryAccepted THEN evaluation.returned ELSE 0,
          accepted |-> IF retryAccepted THEN s.synchronizedOrder.stake ELSE 0,
          liability |-> IF retryAccepted
                        THEN (s.synchronizedOrder.stake * MICROS_ONE) \div acceptedPrice
                                - s.synchronizedOrder.stake
                        ELSE 0,
          proofAvailable |-> n >= 6 ]

-----------------------------------------------------------------------------
(* The component.                                                          *)

IncidentInit ==
    /\ scenarioId \in Playable
    /\ stage = 0 /\ playing = FALSE /\ timer = Null

\* Slip: the effect does not depend on whether it plays.
ArmedByStage(oldStage, oldPlaying, newStage, newPlaying) ==
    IF oldStage = newStage THEN timer
    ELSE IF newPlaying /\ newStage < Last THEN newStage ELSE Null

\* The effect of [playing, stage].
Armed(oldStage, oldPlaying, newStage, newPlaying) ==
    IF oldStage = newStage /\ oldPlaying = newPlaying THEN timer
    ELSE IF newPlaying /\ newStage < Last THEN newStage ELSE Null

\* A step of the state, its rendering and its effects; the last stage stops the replay.
Renders(newStage, newPlaying) ==
    LET plays == newPlaying /\ newStage # Last
    IN  /\ stage' = newStage
        /\ playing' = plays
        /\ timer' = Armed(stage, playing, newStage, plays)

SelectScenario(id) ==
    /\ scenarioId' = id
    /\ Renders(0, FALSE)

RunScenario == Renders(0, TRUE) /\ UNCHANGED scenarioId

TimerFires ==
    /\ timer # Null
    /\ Renders(NextRuntimeStage(stage), playing)
    /\ UNCHANGED scenarioId

TogglePlaying ==
    /\ stage # Last
    /\ Renders(stage, ~ playing)
    /\ UNCHANGED scenarioId

NextStep ==
    /\ stage # Last
    /\ Renders(NextRuntimeStage(stage), FALSE)
    /\ UNCHANGED scenarioId

Restart == Renders(0, FALSE) /\ UNCHANGED scenarioId

\* A stage of the list, or the panel's retry, which is stage 4.
GoTo(n) == Renders(n, FALSE) /\ UNCHANGED scenarioId

IncidentNext ==
    \/ \E id \in Playable : SelectScenario(id)
    \/ RunScenario \/ TimerFires \/ TogglePlaying \/ NextStep \/ Restart
    \/ \E n \in 0 .. Last : GoTo(n)

-----------------------------------------------------------------------------
(* Properties.                                                             *)

IncidentTypeOK ==
    /\ scenarioId \in ScenarioIds
    /\ stage \in 0 .. Last
    /\ playing \in BOOLEAN
    /\ timer = Null \/ timer \in 0 .. Last

\* Every stage shows what the guard's rule makes of its numbers: an order that was
\* decided is returned in full when its sequence is behind the event and accepted when
\* it has the sequence of quote and event, and only an accepted one leaves a liability.
ShownDecisionIsTheRule ==
    LET s == RuntimeState(Scenarios[scenarioId], stage)
    IN  /\ s.synchronized <=> s.sequenceDelta = 0
        /\ s.decision # Null =>
              IF s.orderSequence < s.eventSequence
              THEN s.returned = s.order.stake /\ s.accepted = 0 /\ s.liability = 0
              ELSE /\ s.decision = "ACCEPTED" /\ s.orderSequence = s.quoteSequence
                   /\ s.returned = 0 /\ s.accepted = s.order.stake /\ s.liability > 0
        /\ s.marketStatus = "SETTLED" => s.decision = "ACCEPTED"

\* However the visitor clicks between its ticks: the timer is up exactly while the
\* replay plays, for the stage that is shown.
TimerMeansPlaying ==
    timer = IF playing THEN stage ELSE Null
=============================================================================
