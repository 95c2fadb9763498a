------------------------- MODULE VerificationCache -------------------------
(***************************************************************************)
(* The server's cache of the lifecycle verification and the pages that ask *)
(* for it: lib/proof/verificationCache.ts, v4VerificationService.ts, the   *)
(* route app/api/verify/v4-lifecycle and components/v4/V4LifecycleEvidence.*)
(*                                                                         *)
(* A page reads the cache when it mounts and may force a scan; a read of a *)
(* stale cache starts one in the background.  Scans take time, end in any  *)
(* order with respect to the answers on their way to the pages, and may    *)
(* outlast a page's patience.  What a scan does is LifecycleVerifier.      *)
(***************************************************************************)
EXTENDS Integers, FiniteSets

CONSTANTS
    Pages,
    Mounting,        \* the pages that have just been opened
    MaxRuns,         \* bound: how many scans start, and how many calls of
                     \* refreshV4Verification nobody waits for are to come
    MaxTime,         \* bound: the clock's last tick
    VerifiedTtl, FailedTtl, UnknownTtl,
    Patience,        \* ticks a page waits for a forced answer: 50 seconds
    Timeout,         \* ticks a scan takes at most: 45 seconds
    Null

Runs == 1 .. MaxRuns
Snapshot == 0                        \* the seeded result, as a run
Statuses == {"VERIFIED", "FAILED", "UNKNOWN"}
Time == 0 .. MaxTime

VARIABLES
    clock,
    verified,        \* the verified map's entry: the run, and when
    lastAttempt,     \* the attempts map's entry, or Null
    inFlight,        \* the inFlight map's entry: a run, or Null
    scans,           \* the scans under way: run -> when it started
    result,          \* what each ended scan concluded
    request,         \* the forced refresh that each page waits for
    unattended,      \* the calls of refreshV4Verification that still load the
                     \* record, whose answer nobody takes
    mount,           \* the page's load(false): "no", "asked", an answer, "over"
    page             \* the page's state

vars == <<clock, verified, lastAttempt, inFlight, scans, result, request,
          unattended, mount, page>>

cacheVars == <<verified, lastAttempt, inFlight>>

-----------------------------------------------------------------------------
(* currentV4VerificationResponse.                                          *)

Stale(v) == clock - v.at > VerifiedTtl

LiveAttempt(a) == IF a = Null THEN Null
                  ELSE IF a.expires > clock THEN a.run ELSE Null

\* Of the entries v and a; latest is the run a forced caller waited for and
\* what it concluded, Null for a plain read.
CurrentResponse(v, a, latest) ==
    [ verification |-> v.run,
      attempt |-> IF latest # Null THEN latest.run ELSE LiveAttempt(a),
      cached |-> latest = Null \/ latest.status # "VERIFIED" ]

Response == [ verification : Runs \cup {Snapshot}, attempt : Runs \cup {Null},
              cached : BOOLEAN ]

-----------------------------------------------------------------------------
Init ==
    /\ clock = 0
    /\ verified = [run |-> Snapshot, at |-> 0]
    /\ lastAttempt = Null
    /\ inFlight = Null
    /\ scans = << >>
    /\ result = << >>
    /\ request = [p \in Pages |-> [stage |-> "none"]]
    /\ unattended = 0
    /\ mount = [p \in Pages |->
                  [stage |-> IF p \in Mounting THEN "asked" ELSE "over"]]
    /\ page = [p \in Pages |->
                  [shown |-> CurrentResponse(verified, lastAttempt, Null), refreshing |-> FALSE,
                   since |-> 0, notice |-> "none"]]

Started == DOMAIN scans \cup DOMAIN result

Tick ==
    /\ clock < MaxTime
    /\ \A r \in DOMAIN scans : clock - scans[r] < Timeout
    /\ \A p \in Pages : page[p].refreshing => clock - page[p].since < Patience
    /\ clock' = clock + 1
    /\ UNCHANGED <<cacheVars, scans, result, request, unattended, mount, page>>

-----------------------------------------------------------------------------
(* VerificationResultCache.refresh.                                        *)

Start(r) ==
    /\ r = Cardinality(Started) + 1
    /\ r <= MaxRuns
    /\ scans' = [q \in DOMAIN scans \cup {r} |-> IF q = r THEN clock ELSE scans[q]]
    /\ inFlight' = r

\* Slip: the promise in flight is not looked up.
JoinOrStartAlways(r) == Start(r)

\* The run that a caller waits for: the one in flight, or a new one.
JoinOrStart(r) ==
    \/ inFlight # Null /\ r = inFlight /\ UNCHANGED <<inFlight, scans>>
    \/ inFlight = Null /\ Start(r)

\* loadRecord has read the evidence file: refresh is called.
RecordLoaded(p) ==
    /\ request[p].stage = "loading"
    /\ \E r \in Runs :
          /\ JoinOrStart(r)
          /\ request' = [request EXCEPT ![p] = [stage |-> "waiting", run |-> r]]
    /\ UNCHANGED <<clock, verified, lastAttempt, result, unattended, mount, page>>

\* So it is where nobody waits: after(), or a page that has given up.
UnattendedLoaded ==
    /\ unattended > 0
    /\ unattended' = unattended - 1
    /\ \E r \in Runs : JoinOrStart(r)
    /\ UNCHANGED <<clock, verified, lastAttempt, result, request, mount, page>>

\* Slip: whatever a scan concludes becomes the cached result.
RecordRunWhatever(r, status) ==
    /\ verified' = [run |-> r, at |-> clock]
    /\ lastAttempt' = Null

\* Slip: a success leaves the failure before it in place.
RecordRunKeepingFailure(r, status) ==
    IF status = "VERIFIED"
    THEN /\ verified' = [run |-> r, at |-> clock]
         /\ UNCHANGED lastAttempt
    ELSE /\ lastAttempt' = [run |-> r, expires |-> clock + FailedTtl]
         /\ UNCHANGED verified

\* A failure is recorded beside the verified result, a success clears it.
RecordRun(r, status) ==
    IF status = "VERIFIED"
    THEN /\ verified' = [run |-> r, at |-> clock]
         /\ lastAttempt' = Null
    ELSE /\ lastAttempt' = [run |-> r,
                            expires |-> clock + (IF status = "FAILED"
                                                 THEN FailedTtl ELSE UnknownTtl)]
         /\ UNCHANGED verified

\* Those who wait for the run go on before anything else happens.
AnswerCallers(r, status) ==
    request' = [p \in Pages |->
        IF request[p].stage # "waiting" THEN request[p]
        ELSE IF request[p].run # r THEN request[p]
        ELSE [stage |-> "answered",
              answer |-> CurrentResponse(verified', lastAttempt',
                                         [run |-> r, status |-> status])]]

\* runFresh never rejects: a timeout is UNKNOWN.
ScanEnds(r, status) ==
    /\ scans' = [q \in DOMAIN scans \ {r} |-> scans[q]]
    /\ result' = [q \in DOMAIN result \cup {r} |->
                     IF q = r THEN status ELSE result[q]]
    /\ RecordRun(r, status)
    /\ AnswerCallers(r, status)
    /\ inFlight' = IF inFlight = r THEN Null ELSE inFlight
    /\ UNCHANGED <<clock, unattended, mount, page>>

-----------------------------------------------------------------------------
(* The route: GET without force.  The cache is read, and refreshed when the*)
(* answer is out, if it was stale.                                         *)

PlainRead(p) ==
    /\ mount[p].stage = "asked"
    /\ mount' = [mount EXCEPT ![p] =
                    [stage |-> "answered",
                     answer |-> CurrentResponse(verified, lastAttempt, Null)]]
    /\ IF Stale(verified) /\ inFlight = Null
       THEN unattended < MaxRuns /\ unattended' = unattended + 1
       ELSE UNCHANGED unattended
    /\ UNCHANGED <<clock, cacheVars, scans, result, request, page>>

-----------------------------------------------------------------------------
(* The page.                                                               *)

\* The button is disabled while a forced load is under way.
ForceRefresh(p) ==
    /\ ~ page[p].refreshing
    /\ page' = [page EXCEPT ![p].refreshing = TRUE, ![p].since = clock]
    /\ request' = [request EXCEPT ![p] = [stage |-> "loading"]]
    /\ UNCHANGED <<clock, cacheVars, scans, result, unattended, mount>>

Unavailable == "unavailable"

\* Slip: any verified result at hand counts as a fresh one.
NoticeOfVerification(answer) ==
    IF answer.attempt = Null THEN "none" ELSE "fresh"

\* Slip: the status of the attempt is shown as it is.
NoticeOfStatus(answer) ==
    IF answer.attempt = Null THEN "none" ELSE result[answer.attempt]

\* reverificationNotice.
Notice(answer) ==
    IF answer.attempt = Null THEN "none"
    ELSE IF result[answer.attempt] = "VERIFIED" THEN "fresh" ELSE Unavailable

ForcedAnswer(p) ==
    /\ page[p].refreshing
    /\ request[p].stage = "answered"
    /\ page' = [page EXCEPT ![p].shown = request[p].answer,
                            ![p].notice = Notice(request[p].answer),
                            ![p].refreshing = FALSE, ![p].since = 0]
    /\ request' = [request EXCEPT ![p] = [stage |-> "none"]]
    /\ UNCHANGED <<clock, cacheVars, scans, result, unattended, mount>>

\* The server still runs what it was asked for, if the request came through to it;
\* once it waits for a scan, nothing depends on it any more.
LeftBehind(p) ==
    \/ UNCHANGED unattended
    \/ /\ request[p].stage = "loading"
       /\ unattended < MaxRuns
       /\ unattended' = unattended + 1

\* The request fails, or the page's own timeout aborts it: the button may be pressed
\* again while the server goes on with the first.
ForcedFails(p) ==
    /\ page[p].refreshing
    /\ page' = [page EXCEPT ![p].notice = Unavailable,
                            ![p].refreshing = FALSE, ![p].since = 0]
    /\ request' = [request EXCEPT ![p] = [stage |-> "none"]]
    /\ LeftBehind(p)
    /\ UNCHANGED <<clock, cacheVars, scans, result, mount>>

MountAnswer(p) ==
    /\ mount[p].stage = "answered"
    /\ page' = [page EXCEPT ![p].shown = mount[p].answer, ![p].notice = "none"]
    /\ mount' = [mount EXCEPT ![p] = [stage |-> "over"]]
    /\ UNCHANGED <<clock, cacheVars, scans, result, request, unattended>>

MountFails(p) ==
    /\ mount[p].stage \in {"asked", "answered"}
    /\ mount' = [mount EXCEPT ![p] = [stage |-> "over"]]
    /\ UNCHANGED <<clock, cacheVars, scans, result, request, unattended, page>>

-----------------------------------------------------------------------------
Next ==
    \/ Tick
    \/ \E p \in Pages : RecordLoaded(p)
    \/ UnattendedLoaded
    \/ \E r \in DOMAIN scans, status \in Statuses : ScanEnds(r, status)
    \/ \E p \in Pages : PlainRead(p)
    \/ \E p \in Pages : ForceRefresh(p)
    \/ \E p \in Pages : ForcedAnswer(p)
    \/ \E p \in Pages : ForcedFails(p)
    \/ \E p \in Pages : MountAnswer(p)
    \/ \E p \in Pages : MountFails(p)

Spec == Init /\ [][Next]_vars

-----------------------------------------------------------------------------
(* Properties.                                                             *)

RequestStates ==
    [stage : {"none", "loading"}] \cup [stage : {"waiting"}, run : Runs]
        \cup [stage : {"answered"}, answer : Response]

CacheTypeOK ==
    /\ clock \in Time
    /\ verified \in [run : Runs \cup {Snapshot}, at : Time]
    /\ lastAttempt \in [run : Runs, expires : Nat] \cup {Null}
    /\ inFlight \in Runs \cup {Null}
    /\ DOMAIN scans \subseteq Runs
    /\ \A r \in DOMAIN result : r \in Runs /\ result[r] \in Statuses
    /\ \A p \in Pages : request[p] \in RequestStates
    /\ unattended \in 0 .. MaxRuns
    /\ \A p \in Pages :
          /\ page[p].shown \in Response
          /\ page[p].notice \in {"none", "fresh", Unavailable}

\* However many pages and background refreshes ask, one scan runs at a time, and
\* it is the one a new caller joins.
OneScanAtATime ==
    /\ Cardinality(DOMAIN scans) <= 1
    /\ inFlight # Null <=> DOMAIN scans # {}
    /\ inFlight # Null => inFlight \in DOMAIN scans

\* A failed, unknown or late scan never replaces a verified result, and a verified
\* one replaces it only with a later one.
VerifiedIsKept ==
    [][verified' # verified =>
          /\ verified'.run > verified.run
          /\ result'[verified'.run] = "VERIFIED"]_vars

\* What a page shows as verified is the snapshot or a scan that ended VERIFIED,
\* and the attempt it shows beside it is never older than it: a failure the page
\* still reports was not already followed by a success.
ShownAttemptIsLater ==
    \A p \in Pages :
        LET shown == page[p].shown
        IN  /\ shown.verification \in DOMAIN result =>
                  result[shown.verification] = "VERIFIED"
            /\ shown.attempt # Null => shown.attempt >= shown.verification

\* A page that says "fresh" shows a scan that ended after its button was pressed.
FreshMeansSince ==
    [][\A p \in Pages :
          (page[p].refreshing /\ page'[p].notice = "fresh" /\ ~ page'[p].refreshing)
              => verified.at >= page[p].since]_vars
=============================================================================
