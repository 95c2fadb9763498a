-------------------------- MODULE OperationsProofs --------------------------
(***************************************************************************)
(* Proofs about what is operated around the programs, all of it going on   *)
(* at once, for any numbers, lifetimes, sizes and prices: that what is     *)
(* shown was checked or is what the rules and the vault program make of    *)
(* it, that what is deployed is the binary, that a market opens at the     *)
(* midpoint of a sound book, and that the market pages keep what was       *)
(* heard, filled and sealed.                                               *)
(***************************************************************************)
EXTENDS Operations, FunctionTheorems, SequenceTheorems, SumTheorems, TLAPS


-----------------------------------------------------------------------------
(* The cache: types.                                                       *)

PageState ==
    [ shown : Cache!Response, refreshing : BOOLEAN, since : Cache!Time,
      notice : {"none", "fresh", Cache!Unavailable} ]

MountState ==
    [stage : {"asked", "over"}] \cup [stage : {"answered"}, answer : Cache!Response]

CacheTypes ==
    /\ clock \in Cache!Time
    /\ verified \in [run : Cache!Runs \cup {Cache!Snapshot}, at : Cache!Time]
    /\ lastAttempt \in [run : Cache!Runs, expires : Nat] \cup {Null}
    /\ inFlight \in Cache!Runs \cup {Null}
    /\ DOMAIN scans \subseteq Cache!Runs
    /\ \A r \in DOMAIN result : r \in Cache!Runs /\ result[r] \in Cache!Statuses
    /\ request \in [Pages -> Cache!RequestStates]
    /\ unattended \in 0 .. MaxScans
    /\ mount \in [Pages -> MountState]
    /\ page \in [Pages -> PageState]

\* The runs are numbered as they start; the one in flight is the last of them, the
\* others have ended.
ScansInOrder ==
    /\ \E n \in Nat :
          /\ Cache!Started = 1 .. n
          /\ inFlight = Null => DOMAIN scans = {}
          /\ inFlight # Null => inFlight = n /\ n > 0 /\ DOMAIN scans = {n}
    /\ DOMAIN scans \cap DOMAIN result = {}
    /\ verified.run # Cache!Snapshot =>
          verified.run \in DOMAIN result /\ result[verified.run] = "VERIFIED"

\* The answer that waits for a refreshing page is of this refresh: where its scan
\* succeeded, the entry is no older than the press of the button.
AnswersAreOfTheRefresh ==
    /\ verified.at <= clock
    /\ \A p \in Pages :
          /\ page[p].since <= clock
          /\ request[p].stage = "answered" =>
                request[p].answer.attempt \in DOMAIN result
          /\ page[p].refreshing /\ request[p].stage = "answered"
                /\ result[request[p].answer.attempt] = "VERIFIED"
             => verified.at >= page[p].since

\* What is answered names a success, and no attempt that the success has followed;
\* so is everything that is on its way or shown.
ResponseIsSound(a) ==
    /\ a.verification # Cache!Snapshot =>
          a.verification \in DOMAIN result /\ result[a.verification] = "VERIFIED"
    /\ a.attempt # Null => a.attempt >= a.verification

ResponsesAreSound ==
    /\ lastAttempt # Null => lastAttempt.run >= verified.run
    /\ \A p \in Pages :
          /\ ResponseIsSound(page[p].shown)
          /\ request[p].stage = "answered" => ResponseIsSound(request[p].answer)
          /\ mount[p].stage = "answered" => ResponseIsSound(mount[p].answer)

\* The module's cardinality is the one of finite sets.
LEMMA CacheCardinality ==
    ASSUME NEW S
    PROVE  Cache!Cardinality(S) = Cardinality(S)
BY DEF Cache!Cardinality, Cardinality

\* currentV4VerificationResponse answers a run that ended and the attempt that the
\* caller waited for, or one that is remembered.
LEMMA ResponseType ==
    ASSUME OperationsAssumption,
           NEW v \in [run : Cache!Runs \cup {Cache!Snapshot}, at : Cache!Time],
           NEW a \in [run : Cache!Runs, expires : Nat] \cup {Null},
           NEW latest \in [run : Cache!Runs, status : Cache!Statuses] \cup {Null}
    PROVE  /\ Cache!CurrentResponse(v, a, latest) \in Cache!Response
           /\ latest # Null => Cache!CurrentResponse(v, a, latest).attempt = latest.run
<1>1. Cache!LiveAttempt(a) \in Cache!Runs \cup {Null}
    BY DEF Cache!LiveAttempt
<1>2. (IF latest # Null THEN latest.run ELSE Cache!LiveAttempt(a)) \in Cache!Runs \cup {Null}
    BY <1>1
<1>3. (latest = Null \/ latest.status # "VERIFIED") \in BOOLEAN
    OBVIOUS
<1> QED  BY <1>2, <1>3 DEF Cache!CurrentResponse, Cache!Response

\* A refresh joins the run in flight or starts the next one.
LEMMA JoinOrStartOutcome ==
    ASSUME OperationsAssumption, CacheTypes, ScansInOrder, NEW r \in Cache!Runs,
           Cache!JoinOrStart(r)
    PROVE  /\ inFlight' = r
           /\ DOMAIN scans' = {r}
           /\ \/ inFlight = r /\ DOMAIN scans = {r}
              \/ /\ inFlight = Null /\ DOMAIN scans = {}
                 /\ \E n \in Nat : DOMAIN result = 1 .. n /\ r = n + 1
<1> PICK n \in Nat :
       /\ Cache!Started = 1 .. n
       /\ inFlight = Null => DOMAIN scans = {}
       /\ inFlight # Null => inFlight = n /\ n > 0 /\ DOMAIN scans = {n}
    BY DEF ScansInOrder
<1>1. CASE inFlight # Null
    <2>1. DOMAIN scans = {inFlight}
        BY <1>1
    <2> QED  BY <1>1, <2>1 DEF Cache!JoinOrStart
<1>2. CASE inFlight = Null
    <2>1. Cache!Cardinality(Cache!Started) = n
        <3>1. Cardinality(1 .. n) = IF 1 > n THEN 0 ELSE n - 1 + 1
            BY FS_Interval
        <3> QED  BY <3>1, CacheCardinality
    <2>2. /\ r = n + 1
          /\ scans' = [q \in DOMAIN scans \cup {r} |-> IF q = r THEN clock ELSE scans[q]]
          /\ inFlight' = r
        BY <1>2, <2>1 DEF Cache!JoinOrStart, Cache!Start
    <2>3. DOMAIN scans = {} /\ DOMAIN scans' = {r}
        BY <1>2, <2>2
    <2>4. DOMAIN result = 1 .. n
        BY <2>3 DEF Cache!Started
    <2> QED  BY <1>2, <2>2, <2>3, <2>4
<1> QED  BY <1>1, <1>2

\* Every request, answer, tick and scan keeps the types.
LEMMA CacheTypesStep ==
    ASSUME OperationsAssumption, CacheTypes, ScansInOrder, [Cache!Next]_cacheVars
    PROVE  CacheTypes'
<1> USE DEF CacheTypes
<1>1. CASE Cache!Tick
    BY <1>1 DEF Cache!Tick, Cache!cacheVars, Cache!Time, OperationsAssumption
<1>2. ASSUME NEW p \in Pages, Cache!RecordLoaded(p)
      PROVE  CacheTypes'
    <2>1. PICK r \in Cache!Runs :
             /\ Cache!JoinOrStart(r)
             /\ request' = [request EXCEPT ![p] = [stage |-> "waiting", run |-> r]]
        BY <1>2 DEF Cache!RecordLoaded
    <2>2. inFlight' = r /\ DOMAIN scans' = {r}
        BY <2>1, JoinOrStartOutcome
    <2>3. [stage |-> "waiting", run |-> r] \in Cache!RequestStates
        BY DEF Cache!RequestStates
    <2>4. request' \in [Pages -> Cache!RequestStates]
        BY <2>1, <2>3
    <2> QED  BY <1>2, <2>2, <2>4 DEF Cache!RecordLoaded
<1>2_1. ASSUME Cache!UnattendedLoaded
        PROVE  CacheTypes'
    <2>1. PICK r \in Cache!Runs : Cache!JoinOrStart(r)
        BY <1>2_1 DEF Cache!UnattendedLoaded
    <2>2. inFlight' = r /\ DOMAIN scans' = {r}
        BY <2>1, JoinOrStartOutcome
    <2>3. unattended' \in 0 .. MaxScans
        BY <1>2_1 DEF Cache!UnattendedLoaded, OperationsAssumption
    <2> QED  BY <1>2_1, <2>2, <2>3 DEF Cache!UnattendedLoaded
<1>3. ASSUME NEW r \in DOMAIN scans, NEW status \in Cache!Statuses, Cache!ScanEnds(r, status)
      PROVE  CacheTypes'
    <2>1. /\ r \in Cache!Runs
          /\ [run |-> r, status |-> status] \in [run : Cache!Runs, status : Cache!Statuses]
        OBVIOUS
    <2>2. /\ verified' \in [run : Cache!Runs \cup {Cache!Snapshot}, at : Cache!Time]
          /\ lastAttempt' \in [run : Cache!Runs, expires : Nat] \cup {Null}
        BY <1>3, <2>1 DEF Cache!ScanEnds, Cache!RecordRun, Cache!Time,
                          OperationsAssumption
    <2>3. Cache!CurrentResponse(verified', lastAttempt', [run |-> r, status |-> status])
             \in Cache!Response
        BY <2>1, <2>2, ResponseType
    <2>4. request' \in [Pages -> Cache!RequestStates]
        BY <1>3, <2>3 DEF Cache!ScanEnds, Cache!AnswerCallers, Cache!RequestStates
    <2>5. /\ inFlight' \in Cache!Runs \cup {Null}
          /\ DOMAIN scans' \subseteq Cache!Runs
          /\ clock' = clock /\ page' = page /\ mount' = mount /\ unattended' = unattended
        BY <1>3 DEF Cache!ScanEnds
    <2>6. \A q \in DOMAIN result' : q \in Cache!Runs /\ result'[q] \in Cache!Statuses
        BY <1>3, <2>1 DEF Cache!ScanEnds
    <2> QED  BY <2>2, <2>4, <2>5, <2>6
<1>4. ASSUME NEW p \in Pages, Cache!PlainRead(p)
      PROVE  CacheTypes'
    <2>1. Cache!CurrentResponse(verified, lastAttempt, Null) \in Cache!Response
        BY ResponseType
    <2>2. [stage |-> "answered", answer |-> Cache!CurrentResponse(verified, lastAttempt, Null)]
             \in MountState
        BY <2>1 DEF MountState
    <2>3. mount' \in [Pages -> MountState]
        BY <1>4, <2>2 DEF Cache!PlainRead
    <2>4. unattended' \in 0 .. MaxScans
        BY <1>4 DEF Cache!PlainRead, OperationsAssumption
    <2> QED  BY <1>4, <2>3, <2>4 DEF Cache!PlainRead, Cache!cacheVars
<1>5. ASSUME NEW p \in Pages, Cache!ForceRefresh(p)
      PROVE  CacheTypes'
    <2>1. page' \in [Pages -> PageState]
        BY <1>5 DEF Cache!ForceRefresh, PageState
    <2>2. [stage |-> "loading"] \in Cache!RequestStates
        BY DEF Cache!RequestStates
    <2>3. request' \in [Pages -> Cache!RequestStates]
        BY <1>5, <2>2 DEF Cache!ForceRefresh
    <2> QED  BY <1>5, <2>1, <2>3 DEF Cache!ForceRefresh, Cache!cacheVars
<1>6. ASSUME NEW p \in Pages, Cache!ForcedAnswer(p)
      PROVE  CacheTypes'
    <2>2. request[p].answer \in Cache!Response
        BY <1>6 DEF Cache!ForcedAnswer, Cache!RequestStates
    <2>3. Cache!Notice(request[p].answer) \in {"none", "fresh", Cache!Unavailable}
        BY DEF Cache!Notice
    <2>4. 0 \in Cache!Time
        BY DEF Cache!Time, OperationsAssumption
    <2>5. page' \in [Pages -> PageState]
        BY <1>6, <2>2, <2>3, <2>4 DEF Cache!ForcedAnswer, PageState
    <2>6. [stage |-> "none"] \in Cache!RequestStates
        BY DEF Cache!RequestStates
    <2>7. request' \in [Pages -> Cache!RequestStates]
        BY <1>6, <2>6 DEF Cache!ForcedAnswer
    <2> QED  BY <1>6, <2>5, <2>7 DEF Cache!ForcedAnswer, Cache!cacheVars
<1>7. ASSUME NEW p \in Pages, Cache!ForcedFails(p)
      PROVE  CacheTypes'
    <2>1. 0 \in Cache!Time
        BY DEF Cache!Time, OperationsAssumption
    <2>2. page' \in [Pages -> PageState]
        BY <1>7, <2>1 DEF Cache!ForcedFails, PageState
    <2>3. [stage |-> "none"] \in Cache!RequestStates
        BY DEF Cache!RequestStates
    <2>4. request' \in [Pages -> Cache!RequestStates]
        BY <1>7, <2>3 DEF Cache!ForcedFails
    <2>5. unattended' \in 0 .. MaxScans
        BY <1>7 DEF Cache!ForcedFails, Cache!LeftBehind, OperationsAssumption
    <2> QED  BY <1>7, <2>2, <2>4, <2>5 DEF Cache!ForcedFails, Cache!cacheVars
<1>9. ASSUME NEW p \in Pages, Cache!MountAnswer(p)
      PROVE  CacheTypes'
    <2>1. mount[p].answer \in Cache!Response
        BY <1>9 DEF Cache!MountAnswer, MountState
    <2>2. page' \in [Pages -> PageState]
        BY <1>9, <2>1 DEF Cache!MountAnswer, PageState
    <2>3. [stage |-> "over"] \in MountState
        BY DEF MountState
    <2> QED  BY <1>9, <2>2, <2>3 DEF Cache!MountAnswer, Cache!cacheVars
<1>10. ASSUME NEW p \in Pages, Cache!MountFails(p)
       PROVE  CacheTypes'
    <2>1. [stage |-> "over"] \in MountState
        BY DEF MountState
    <2> QED  BY <1>10, <2>1 DEF Cache!MountFails, Cache!cacheVars
<1>11. CASE UNCHANGED cacheVars
    BY <1>11 DEF cacheVars, Cache!cacheVars
<1> QED
    BY <1>1, <1>2, <1>2_1, <1>3, <1>4, <1>5, <1>6, <1>7, <1>9, <1>10, <1>11 DEF Cache!Next

-----------------------------------------------------------------------------
(* The scans.                                                              *)

\* A scan that ends is the one in flight, and the newest of all.
LEMMA EndsInFlight ==
    ASSUME OperationsAssumption, CacheTypes, ScansInOrder, NEW r \in DOMAIN scans
    PROVE  /\ inFlight = r /\ DOMAIN scans = {r}
           /\ r \in Cache!Runs /\ r \notin DOMAIN result
           /\ r > verified.run
<1> PICK n \in Nat :
       /\ Cache!Started = 1 .. n
       /\ inFlight = Null => DOMAIN scans = {}
       /\ inFlight # Null => inFlight = n /\ n > 0 /\ DOMAIN scans = {n}
    BY DEF ScansInOrder
<1>1. inFlight = n /\ n > 0 /\ DOMAIN scans = {n} /\ r = n
    OBVIOUS
<1>2. r \in Cache!Runs /\ r \notin DOMAIN result
    BY DEF CacheTypes, ScansInOrder
<1>3. verified.run = Cache!Snapshot \/ verified.run \in DOMAIN result
    BY DEF ScansInOrder
<1>4. verified.run \in 0 .. n /\ verified.run # n
    BY <1>1, <1>2, <1>3 DEF Cache!Started, Cache!Snapshot
<1> QED  BY <1>1, <1>2, <1>4

\* A scan's end: what is cached afterwards.
LEMMA ScanEndOutcome ==
    ASSUME OperationsAssumption, CacheTypes, ScansInOrder,
           NEW r \in DOMAIN scans, NEW status \in Cache!Statuses, Cache!ScanEnds(r, status)
    PROVE  /\ inFlight' = Null /\ DOMAIN scans' = {}
           /\ DOMAIN result' = DOMAIN result \cup {r}
           /\ result'[r] = status
           /\ \A q \in DOMAIN result : q # r /\ result'[q] = result[q]
           /\ \/ verified' = verified
              \/ /\ status = "VERIFIED"
                 /\ verified'.run = r /\ verified'.at = clock
           /\ status = "VERIFIED" => verified'.run = r /\ verified'.at = clock
<1>1. inFlight = r /\ DOMAIN scans = {r} /\ r \in Cache!Runs /\ r \notin DOMAIN result
    BY EndsInFlight
<1>2. inFlight' = Null /\ DOMAIN scans' = {}
    BY <1>1 DEF Cache!ScanEnds
<1>3. result' = [q \in DOMAIN result \cup {r} |-> IF q = r THEN status ELSE result[q]]
    BY DEF Cache!ScanEnds
<1>4. /\ \/ verified' = verified
         \/ /\ status = "VERIFIED"
            /\ verified'.run = r /\ verified'.at = clock
      /\ status = "VERIFIED" => verified'.run = r /\ verified'.at = clock
    BY DEF Cache!ScanEnds, Cache!RecordRun
<1> QED  BY <1>1, <1>2, <1>3, <1>4

\* Scans stay in order: a refresh starts none beside the one in flight, and only the
\* end of a scan changes what has ended.
LEMMA ScansStep ==
    ASSUME OperationsAssumption, CacheTypes, ScansInOrder, [Cache!Next]_cacheVars
    PROVE  ScansInOrder'
<1>1. CASE UNCHANGED <<verified, inFlight, scans, result>>
    BY <1>1 DEF ScansInOrder, Cache!Started
<1>2. ASSUME NEW r \in Cache!Runs, Cache!JoinOrStart(r), UNCHANGED <<verified, result>>
      PROVE  ScansInOrder'
    <2>1. UNCHANGED <<verified, result>>
        BY <1>2
    <2>2. /\ inFlight' = r
          /\ DOMAIN scans' = {r}
          /\ \/ inFlight = r /\ DOMAIN scans = {r}
             \/ /\ inFlight = Null /\ DOMAIN scans = {}
                /\ \E n \in Nat : DOMAIN result = 1 .. n /\ r = n + 1
        BY <1>2, JoinOrStartOutcome
    <2>3. r # Null /\ r \in Nat /\ r > 0
        BY DEF OperationsAssumption, Cache!Runs
    <2>4. CASE inFlight = r /\ DOMAIN scans = {r}
        <3>1. Cache!Started' = 1 .. r /\ r \notin DOMAIN result
            BY <2>1, <2>2, <2>3, <2>4 DEF ScansInOrder, Cache!Started
        <3> QED  BY <2>1, <2>2, <2>3, <3>1 DEF ScansInOrder
    <2>5. ASSUME NEW n \in Nat, DOMAIN result = 1 .. n, r = n + 1
          PROVE  ScansInOrder'
        <3>1. Cache!Started' = 1 .. r
            <4>1. Cache!Started' = {n + 1} \cup 1 .. n
                BY <2>1, <2>2, <2>5 DEF Cache!Started
            <4>2. {n + 1} \cup 1 .. n = 1 .. n + 1
                OBVIOUS
            <4> QED  BY <4>1, <4>2, <2>5
        <3>2. r \notin DOMAIN result
            BY <2>5
        <3> QED  BY <2>1, <2>2, <2>3, <3>1, <3>2 DEF ScansInOrder
    <2> QED  BY <2>2, <2>4, <2>5
<1>3. ASSUME NEW r \in DOMAIN scans, NEW status \in Cache!Statuses, Cache!ScanEnds(r, status)
      PROVE  ScansInOrder'
    <2>1. /\ inFlight' = Null /\ DOMAIN scans' = {}
          /\ DOMAIN result' = DOMAIN result \cup {r}
          /\ result'[r] = status
          /\ \A q \in DOMAIN result : q # r /\ result'[q] = result[q]
          /\ \/ verified' = verified
             \/ status = "VERIFIED" /\ verified'.run = r
        BY <1>3, ScanEndOutcome
    <2>2. DOMAIN scans = {r}
        BY EndsInFlight
    <2>3. Cache!Started' = Cache!Started
        BY <2>1, <2>2 DEF Cache!Started
    <2>4. verified'.run # Cache!Snapshot =>
             verified'.run \in DOMAIN result' /\ result'[verified'.run] = "VERIFIED"
        BY <2>1 DEF ScansInOrder
    <2> QED  BY <2>1, <2>3, <2>4 DEF ScansInOrder
<1>4. ASSUME NEW p \in Pages,
             \/ Cache!PlainRead(p) \/ Cache!ForceRefresh(p)
             \/ Cache!ForcedAnswer(p) \/ Cache!ForcedFails(p)
             \/ Cache!MountAnswer(p) \/ Cache!MountFails(p)
      PROVE  ScansInOrder'
    <2>1. UNCHANGED <<verified, inFlight, scans, result>>
        BY <1>4 DEF Cache!PlainRead, Cache!ForceRefresh, Cache!ForcedAnswer,
                    Cache!ForcedFails,
                    Cache!MountAnswer, Cache!MountFails, Cache!cacheVars
    <2> QED  BY <2>1, <1>1
<1>5. CASE Cache!Tick \/ UNCHANGED cacheVars
    BY <1>1, <1>5 DEF Cache!Tick, cacheVars, Cache!cacheVars
<1>6. (\E p \in Pages : Cache!RecordLoaded(p)) \/ Cache!UnattendedLoaded => ScansInOrder'
    BY <1>2 DEF Cache!RecordLoaded, Cache!UnattendedLoaded
<1> QED  BY <1>3, <1>4, <1>5, <1>6 DEF Cache!Next

-----------------------------------------------------------------------------
(* The pages.                                                              *)

\* While a page refreshes its request is of this refresh, so a success that answers it
\* entered the cache since.
LEMMA AnswersStep ==
    ASSUME OperationsAssumption, CacheTypes, ScansInOrder, AnswersAreOfTheRefresh,
           [Cache!Next]_cacheVars
    PROVE  AnswersAreOfTheRefresh'
<1> USE DEF AnswersAreOfTheRefresh
<1>0. /\ clock \in Nat /\ verified.at \in Nat
      /\ \A p \in Pages : page[p].since \in Nat
    BY DEF CacheTypes, Cache!Time, PageState
<1>1. CASE Cache!Tick
    BY <1>0, <1>1 DEF Cache!Tick, Cache!cacheVars
<1>2. ASSUME NEW c \in Pages, Cache!RecordLoaded(c)
      PROVE  AnswersAreOfTheRefresh'
    <2>1. PICK r \in Cache!Runs :
             request' = [request EXCEPT ![c] = [stage |-> "waiting", run |-> r]]
        BY <1>2 DEF Cache!RecordLoaded
    <2>2. UNCHANGED <<clock, verified, result, page>>
        BY <1>2 DEF Cache!RecordLoaded
    <2>3. \A p \in Pages :
             request'[p] = request[p] \/ request'[p].stage = "waiting"
        BY <1>0, <2>1 DEF CacheTypes
    <2> QED  BY <2>2, <2>3
<1>3. ASSUME NEW r \in DOMAIN scans, NEW status \in Cache!Statuses, Cache!ScanEnds(r, status)
      PROVE  AnswersAreOfTheRefresh'
    <2>1. /\ DOMAIN result' = DOMAIN result \cup {r}
          /\ result'[r] = status
          /\ \A q \in DOMAIN result : q # r /\ result'[q] = result[q]
          /\ \/ verified' = verified
             \/ verified'.at = clock
          /\ status = "VERIFIED" => verified'.at = clock
        BY <1>3, ScanEndOutcome
    <2>2. UNCHANGED <<clock, page>>
        BY <1>3 DEF Cache!ScanEnds
    <2>3. /\ verified'.at <= clock' /\ verified'.at >= verified.at
          /\ verified'.at \in Nat
        BY <1>0, <2>1, <2>2
    <2>4. Cache!CurrentResponse(verified', lastAttempt', [run |-> r, status |-> status]).attempt
             = r
        <3>1. [run |-> r, status |-> status] \in [run : Cache!Runs, status : Cache!Statuses]
            BY DEF CacheTypes
        <3>2. [run |-> r, status |-> status] # Null
            BY <3>1 DEF OperationsAssumption
        <3> QED  BY <3>2 DEF Cache!CurrentResponse
    <2>5. ASSUME NEW p \in Pages
          PROVE  \/ request'[p] = request[p]
                 \/ request'[p].stage = "none"
                 \/ request'[p].stage = "answered" /\ request'[p].answer.attempt = r
        BY <1>0, <1>3, <2>4 DEF Cache!ScanEnds, Cache!AnswerCallers
    <2>6. ASSUME NEW p \in Pages, request'[p].stage = "answered"
          PROVE  /\ request'[p].answer.attempt \in DOMAIN result'
                 /\ page'[p].refreshing /\ result'[request'[p].answer.attempt] = "VERIFIED"
                      => verified'.at >= page'[p].since
        <3>1. CASE request'[p] = request[p]
            BY <1>0, <2>1, <2>2, <2>3, <2>6, <3>1
        <3>2. CASE request'[p].answer.attempt = r
            BY <1>0, <2>1, <2>2, <3>2
        <3> QED  BY <2>5, <2>6, <3>1, <3>2
    <2> QED  BY <2>2, <2>3, <2>6
<1>4. ASSUME NEW p \in Pages, Cache!PlainRead(p)
      PROVE  AnswersAreOfTheRefresh'
    <2>1. UNCHANGED <<clock, verified, result, page, request>>
        BY <1>4 DEF Cache!PlainRead, Cache!cacheVars
    <2> QED  BY <2>1
<1>5. ASSUME NEW p \in Pages, Cache!ForceRefresh(p)
      PROVE  AnswersAreOfTheRefresh'
    <2>1. UNCHANGED <<clock, verified, result>>
        BY <1>5 DEF Cache!ForceRefresh, Cache!cacheVars
    <2>2. /\ request'[p].stage = "loading" /\ page'[p].since = clock
          /\ \A q \in Pages \ {p} : request'[q] = request[q] /\ page'[q] = page[q]
        BY <1>0, <1>5 DEF Cache!ForceRefresh, CacheTypes, PageState
    <2> QED  BY <1>0, <2>1, <2>2
<1>6. ASSUME NEW p \in Pages,
             \/ Cache!ForcedAnswer(p) \/ Cache!ForcedFails(p)
             \/ Cache!MountAnswer(p)
      PROVE  AnswersAreOfTheRefresh'
    <2>1. UNCHANGED <<clock, verified, result>>
        BY <1>6 DEF Cache!ForcedAnswer, Cache!ForcedFails, Cache!MountAnswer,
                    Cache!cacheVars
    <2>2. \A q \in Pages :
             /\ request'[q] = request[q] \/ request'[q].stage = "none"
             /\ page'[q].since = page[q].since \/ page'[q].since = 0
             /\ page'[q].refreshing => page[q].refreshing /\ page'[q].since = page[q].since
        BY <1>0, <1>6
           DEF Cache!ForcedAnswer, Cache!ForcedFails, Cache!MountAnswer, CacheTypes,
               PageState
    <2> QED  BY <1>0, <2>1, <2>2
<1>7. ASSUME NEW p \in Pages, Cache!MountFails(p)
      PROVE  AnswersAreOfTheRefresh'
    BY <1>7 DEF Cache!MountFails, Cache!cacheVars
<1>8. CASE UNCHANGED cacheVars \/ Cache!UnattendedLoaded
    BY <1>8 DEF cacheVars, Cache!UnattendedLoaded
<1> QED
    BY <1>1, <1>2, <1>3, <1>4, <1>5, <1>6, <1>7, <1>8 DEF Cache!Next

\* A response made of the cache's entries is sound, whoever waited for what.
LEMMA SoundResponse ==
    ASSUME OperationsAssumption, CacheTypes, ScansInOrder, ResponsesAreSound
    PROVE  ResponseIsSound(Cache!CurrentResponse(verified, lastAttempt, Null))
<1>1. Cache!LiveAttempt(lastAttempt) # Null => Cache!LiveAttempt(lastAttempt) >= verified.run
    BY DEF Cache!LiveAttempt, ResponsesAreSound
<1> QED
    BY <1>1 DEF Cache!CurrentResponse, ResponseIsSound, ScansInOrder

\* Ended scans keep their results, so what was sound stays sound.
LEMMA SoundStaysSound ==
    ASSUME NEW a, ResponseIsSound(a),
           \A q \in DOMAIN result : q \in DOMAIN result' /\ result'[q] = result[q]
    PROVE  /\ a.verification # Cache!Snapshot =>
                 a.verification \in DOMAIN result' /\ result'[a.verification] = "VERIFIED"
           /\ a.attempt # Null => a.attempt >= a.verification
BY DEF ResponseIsSound

\* What is remembered, on its way or shown stays sound, in whatever order answers come.
LEMMA ResponsesStep ==
    ASSUME OperationsAssumption, CacheTypes, ScansInOrder, ResponsesAreSound,
           [Cache!Next]_cacheVars
    PROVE  ResponsesAreSound'
<1>1. ASSUME NEW r \in DOMAIN scans, NEW status \in Cache!Statuses, Cache!ScanEnds(r, status)
      PROVE  ResponsesAreSound'
    <2> DEFINE latest == [run |-> r, status |-> status]
               answer == Cache!CurrentResponse(verified', lastAttempt', latest)
    <2>1. /\ DOMAIN result' = DOMAIN result \cup {r}
          /\ result'[r] = status
          /\ \A q \in DOMAIN result : q # r /\ result'[q] = result[q]
          /\ \/ verified' = verified
             \/ status = "VERIFIED" /\ verified'.run = r
          /\ status = "VERIFIED" => verified'.run = r
        BY <1>1, ScanEndOutcome
    <2>2. r \in Cache!Runs /\ r > verified.run /\ r \in Nat /\ verified.run \in Nat
        <3>1. r \in Cache!Runs /\ r > verified.run
            BY EndsInFlight
        <3>2. verified.run \in Cache!Runs \cup {Cache!Snapshot}
            BY DEF CacheTypes
        <3> QED  BY <3>1, <3>2 DEF Cache!Runs, Cache!Snapshot
    <2>3. lastAttempt' # Null => lastAttempt'.run >= verified'.run
        BY <1>1, <2>2 DEF Cache!ScanEnds, Cache!RecordRun
    <2>4. answer.attempt = r /\ answer.verification = verified'.run
        <3>1. latest \in [run : Cache!Runs, status : Cache!Statuses]
            BY <2>2
        <3>2. latest # Null
            BY <3>1 DEF OperationsAssumption
        <3> QED  BY <3>2 DEF Cache!CurrentResponse
    <2>5. /\ verified'.run # Cache!Snapshot =>
                verified'.run \in DOMAIN result' /\ result'[verified'.run] = "VERIFIED"
          /\ r >= verified'.run
        BY <2>1, <2>2 DEF ScansInOrder
    <2>6. ASSUME NEW a, ResponseIsSound(a)
          PROVE  /\ a.verification # Cache!Snapshot =>
                       /\ a.verification \in DOMAIN result'
                       /\ result'[a.verification] = "VERIFIED"
                 /\ a.attempt # Null => a.attempt >= a.verification
        BY <2>1, <2>6, SoundStaysSound
    <2>7. UNCHANGED <<page, mount>>
        BY <1>1 DEF Cache!ScanEnds
    <2>8. ASSUME NEW p \in Pages
          PROVE  \/ request'[p] = request[p]
                 \/ request'[p].stage = "none"
                 \/ request'[p].answer = answer
        BY <1>1 DEF Cache!ScanEnds, Cache!AnswerCallers
    <2>9. ASSUME NEW p \in Pages
           PROVE  /\ ResponseIsSound(page[p].shown)'
                  /\ mount'[p].stage = "answered" => ResponseIsSound(mount[p].answer)'
        BY <2>6, <2>7 DEF ResponsesAreSound, ResponseIsSound
    <2>10. ASSUME NEW p \in Pages, request'[p].stage = "answered"
           PROVE  ResponseIsSound(request[p].answer)'
        <3>1. CASE request'[p] = request[p]
            BY <2>6, <2>10, <3>1 DEF ResponsesAreSound, ResponseIsSound
        <3>2. CASE request'[p].answer = answer
            BY <2>4, <2>5, <3>2 DEF ResponseIsSound
        <3> QED  BY <2>8, <2>10, <3>1, <3>2
    <2> QED  BY <2>3, <2>9, <2>10 DEF ResponsesAreSound
<1>2. ASSUME UNCHANGED <<verified, lastAttempt, result>>,
             \A p \in Pages :
                /\ \/ page'[p].shown = page[p].shown
                   \/ request[p].stage = "answered" /\ page'[p].shown = request[p].answer
                   \/ mount[p].stage = "answered" /\ page'[p].shown = mount[p].answer
                /\ \/ request'[p] = request[p]
                   \/ request'[p].stage # "answered"
                /\ \/ mount'[p] = mount[p]
                   \/ mount'[p].stage # "answered"
                   \/ mount'[p].answer = Cache!CurrentResponse(verified, lastAttempt, Null)
      PROVE  ResponsesAreSound'
    <2>1. ASSUME NEW a, ResponseIsSound(a)
          PROVE  /\ a.verification # Cache!Snapshot =>
                       /\ a.verification \in DOMAIN result'
                       /\ result'[a.verification] = "VERIFIED"
                 /\ a.attempt # Null => a.attempt >= a.verification
        BY <1>2, <2>1 DEF ResponseIsSound
    <2>2. ASSUME NEW p \in Pages
          PROVE  ResponseIsSound(page[p].shown)'
        <3>1. ResponseIsSound(page'[p].shown)
            BY <1>2 DEF ResponsesAreSound
        <3> QED  BY <2>1, <3>1 DEF ResponseIsSound
    <2>3. ASSUME NEW p \in Pages, request'[p].stage = "answered"
          PROVE  ResponseIsSound(request[p].answer)'
        <3>1. ResponseIsSound(request'[p].answer)
            BY <1>2, <2>3 DEF ResponsesAreSound
        <3> QED  BY <2>1, <3>1 DEF ResponseIsSound
    <2>4. ASSUME NEW p \in Pages, mount'[p].stage = "answered"
          PROVE  ResponseIsSound(mount[p].answer)'
        <3>1. ResponseIsSound(mount'[p].answer)
            BY <1>2, <2>4, SoundResponse DEF ResponsesAreSound
        <3> QED  BY <2>1, <3>1 DEF ResponseIsSound
    <2>5. lastAttempt' # Null => lastAttempt'.run >= verified'.run
        BY <1>2 DEF ResponsesAreSound
    <2> QED  BY <2>2, <2>3, <2>4, <2>5 DEF ResponsesAreSound
<1>3. ASSUME NEW c \in Pages, Cache!RecordLoaded(c)
      PROVE  ResponsesAreSound'
    <2>1. PICK r \in Cache!Runs :
             request' = [request EXCEPT ![c] = [stage |-> "waiting", run |-> r]]
        BY <1>3 DEF Cache!RecordLoaded
    <2>2. \A p \in Pages :
             request'[p] = request[p] \/ request'[p].stage # "answered"
        BY <2>1 DEF CacheTypes
    <2> QED  BY <1>2, <1>3, <2>2 DEF Cache!RecordLoaded
<1>4. ASSUME NEW q \in Pages,
             \/ Cache!PlainRead(q) \/ Cache!ForceRefresh(q)
             \/ Cache!ForcedAnswer(q) \/ Cache!ForcedFails(q)
             \/ Cache!MountAnswer(q) \/ Cache!MountFails(q)
      PROVE  ResponsesAreSound'
    <2>1. UNCHANGED <<verified, lastAttempt, result>>
        BY <1>4 DEF Cache!PlainRead, Cache!ForceRefresh, Cache!ForcedAnswer,
                    Cache!ForcedFails,
                    Cache!MountAnswer, Cache!MountFails, Cache!cacheVars
    <2>2. ASSUME NEW p \in Pages
          PROVE  \/ page'[p].shown = page[p].shown
                 \/ request[p].stage = "answered" /\ page'[p].shown = request[p].answer
                 \/ mount[p].stage = "answered" /\ page'[p].shown = mount[p].answer
        BY <1>4 DEF Cache!PlainRead, Cache!ForceRefresh, Cache!ForcedAnswer,
                    Cache!ForcedFails,
                    Cache!MountAnswer, Cache!MountFails, CacheTypes, PageState
    <2>3. ASSUME NEW p \in Pages
          PROVE  request'[p] = request[p] \/ request'[p].stage # "answered"
        BY <1>4 DEF Cache!PlainRead, Cache!ForceRefresh, Cache!ForcedAnswer,
                          Cache!ForcedFails,
                    Cache!MountAnswer, Cache!MountFails, CacheTypes
    <2>4. ASSUME NEW p \in Pages
          PROVE  \/ mount'[p] = mount[p]
                 \/ mount'[p].stage # "answered"
                 \/ mount'[p].answer = Cache!CurrentResponse(verified, lastAttempt, Null)
        BY <1>4 DEF Cache!PlainRead, Cache!ForceRefresh, Cache!ForcedAnswer,
                    Cache!ForcedFails,
                    Cache!MountAnswer, Cache!MountFails, CacheTypes
    <2> QED  BY <1>2, <2>1, <2>2, <2>3, <2>4
<1>5. CASE Cache!Tick \/ Cache!UnattendedLoaded \/ UNCHANGED cacheVars
    BY <1>2, <1>5 DEF Cache!Tick, Cache!UnattendedLoaded, cacheVars, Cache!cacheVars
<1> QED  BY <1>1, <1>3, <1>4, <1>5 DEF Cache!Next

-----------------------------------------------------------------------------
(* The theorems.                                                           *)

CacheInvariant ==
    CacheTypes /\ ScansInOrder /\ AnswersAreOfTheRefresh /\ ResponsesAreSound

\* The seeded cache, before anybody asked.
LEMMA CacheInitHolds ==
    ASSUME OperationsAssumption, Cache!Init
    PROVE  CacheInvariant
<1>1. Cache!CurrentResponse([run |-> Cache!Snapshot, at |-> 0], Null, Null) \in Cache!Response
    BY ResponseType DEF Cache!Time, OperationsAssumption
<1>2. page \in [Pages -> PageState] /\ \A p \in Pages : page[p].since = 0
    BY <1>1 DEF Cache!Init, PageState, Cache!Time, OperationsAssumption
<1>3. /\ request \in [Pages -> Cache!RequestStates]
      /\ \A p \in Pages : request[p].stage = "none"
      /\ unattended \in 0 .. MaxScans
    BY DEF Cache!Init, Cache!RequestStates, OperationsAssumption
<1>4. mount \in [Pages -> MountState]
    BY DEF Cache!Init, MountState
<1>5. DOMAIN scans = {} /\ DOMAIN result = {} /\ Cache!Started = 1 .. 0
    BY DEF Cache!Init, Cache!Started
<1>6. CacheTypes
    <2>1. clock = 0 /\ verified = [run |-> Cache!Snapshot, at |-> 0]
          /\ lastAttempt = Null /\ inFlight = Null
        BY DEF Cache!Init
    <2>2. 0 \in Cache!Time
        BY DEF Cache!Time, OperationsAssumption
    <2>3. verified \in [run : Cache!Runs \cup {Cache!Snapshot}, at : Cache!Time]
        BY <2>1, <2>2
    <2> QED  BY <1>2, <1>3, <1>4, <1>5, <2>1, <2>2, <2>3 DEF CacheTypes
<1>7. ScansInOrder
    BY <1>5 DEF Cache!Init, ScansInOrder
<1>8. AnswersAreOfTheRefresh
    BY <1>2, <1>3 DEF Cache!Init, AnswersAreOfTheRefresh
<1>9. ResponsesAreSound
    <2>1. Cache!CurrentResponse(verified, lastAttempt, Null).verification = Cache!Snapshot
          /\ Cache!CurrentResponse(verified, lastAttempt, Null).attempt = Null
        BY DEF Cache!Init, Cache!CurrentResponse, Cache!LiveAttempt
    <2>2. \A p \in Pages :
             /\ page[p].shown = Cache!CurrentResponse(verified, lastAttempt, Null)
             /\ request[p].stage = "none" /\ mount[p].stage # "answered"
        BY <1>3 DEF Cache!Init
    <2>3. lastAttempt = Null
        BY DEF Cache!Init
    <2> QED  BY <2>1, <2>2, <2>3 DEF ResponsesAreSound, ResponseIsSound
<1> QED  BY <1>6, <1>7, <1>8, <1>9 DEF CacheInvariant

-----------------------------------------------------------------------------
(* The cache: what it promises.                                            *)

\* The invariant of the cache, its scans and its pages, from the start and over every
\* step.
LEMMA CacheStepHolds ==
    ASSUME OperationsAssumption, CacheInvariant, [Cache!Next]_cacheVars
    PROVE  CacheInvariant'
BY CacheTypesStep, ScansStep, AnswersStep, ResponsesStep DEF CacheInvariant

\* The cache, the scans, the requests and the pages keep their types.
LEMMA CacheKeepsTypes ==
    ASSUME CacheInvariant
    PROVE  Cache!CacheTypeOK
BY DEF CacheInvariant, CacheTypes, Cache!CacheTypeOK, PageState

\* However many pages and background refreshes ask, VerificationResultCache.refresh
\* has one scan running at a time, and it is the one a new caller joins.
LEMMA ScansAreSingle ==
    ASSUME CacheInvariant
    PROVE  Cache!OneScanAtATime
<1>1. \/ inFlight = Null /\ DOMAIN scans = {}
      \/ inFlight # Null /\ DOMAIN scans = {inFlight}
    BY DEF CacheInvariant, ScansInOrder
<1>2. Cache!Cardinality(DOMAIN scans) <= 1
    <2>1. Cardinality({}) = 0 /\ Cardinality({inFlight}) = 1
        BY FS_EmptySet, FS_Singleton
    <2> QED  BY <1>1, <2>1, CacheCardinality
<1> QED  BY <1>1, <1>2 DEF Cache!OneScanAtATime

\* What a page shows as verified is the snapshot or a success, and no failure beside it
\* has been followed by one (currentV4VerificationResponse, V4LifecycleEvidence).
LEMMA AttemptsAreLater ==
    ASSUME CacheInvariant
    PROVE  Cache!ShownAttemptIsLater
<1>1. Cache!Snapshot \notin DOMAIN result
    BY DEF CacheInvariant, CacheTypes, Cache!Runs, Cache!Snapshot
<1> QED  BY <1>1 DEF CacheInvariant, ResponsesAreSound, ResponseIsSound,
                     Cache!ShownAttemptIsLater

\* Only a later success replaces a verified result: no failed, unknown or late scan
\* does (VerificationResultCache.runFresh).
LEMMA VerifiedStep ==
    ASSUME OperationsAssumption, CacheInvariant, [Cache!Next]_cacheVars,
           verified' # verified
    PROVE  /\ verified'.run > verified.run
           /\ result'[verified'.run] = "VERIFIED"
<1> USE DEF CacheInvariant
<1>0_1. ~ Cache!Tick /\ ~ Cache!UnattendedLoaded /\ ~ UNCHANGED cacheVars
    BY DEF Cache!Tick, Cache!UnattendedLoaded, cacheVars, Cache!cacheVars
<1>0_2. \A p \in Pages : ~ Cache!RecordLoaded(p) /\ ~ Cache!PlainRead(p)
    BY DEF Cache!RecordLoaded, Cache!PlainRead, Cache!cacheVars
<1>0_3. \A p \in Pages : ~ Cache!ForceRefresh(p) /\ ~ Cache!ForcedAnswer(p)
    BY DEF Cache!ForceRefresh, Cache!ForcedAnswer, Cache!cacheVars
<1>0_4. \A p \in Pages :
           ~ Cache!ForcedFails(p) /\ ~ Cache!MountAnswer(p) /\ ~ Cache!MountFails(p)
    BY DEF Cache!ForcedFails, Cache!MountAnswer, Cache!MountFails, Cache!cacheVars
<1>1. PICK r \in DOMAIN scans, status \in Cache!Statuses : Cache!ScanEnds(r, status)
    BY <1>0_1, <1>0_2, <1>0_3, <1>0_4 DEF Cache!Next
<1> QED  BY <1>1, ScanEndOutcome, EndsInFlight

\* A page that says "fresh" shows a scan that ended after its button was pressed,
\* whichever answers were on their way (V4LifecycleEvidence).
LEMMA FreshStep ==
    ASSUME OperationsAssumption, CacheInvariant, [Cache!Next]_cacheVars, NEW p \in Pages,
           page[p].refreshing, page'[p].notice = "fresh", ~ page'[p].refreshing
    PROVE  verified.at >= page[p].since
<1> USE DEF CacheInvariant
<1>0. page \in [Pages -> PageState]
    BY DEF CacheTypes
<1>1. page' # page
    OBVIOUS
<1>2. ASSUME NEW q \in Pages, Cache!ForceRefresh(q)
      PROVE  FALSE
    BY <1>0, <1>2 DEF Cache!ForceRefresh, PageState
<1>3. ASSUME NEW q \in Pages, Cache!ForcedFails(q)
      PROVE  FALSE
    BY <1>0, <1>3 DEF Cache!ForcedFails, PageState, Cache!Unavailable
<1>4. ASSUME NEW q \in Pages, Cache!MountAnswer(q)
      PROVE  FALSE
    BY <1>0, <1>4 DEF Cache!MountAnswer, PageState
<1>5. PICK q \in Pages : Cache!ForcedAnswer(q)
    BY <1>1, <1>2, <1>3, <1>4
       DEF Cache!Next, Cache!Tick, Cache!RecordLoaded, Cache!ScanEnds,
           Cache!UnattendedLoaded, Cache!PlainRead, Cache!MountFails, cacheVars
<1>6. q = p
    BY <1>0, <1>5 DEF Cache!ForcedAnswer, PageState
<1>7. request[p].stage = "answered" /\ Cache!Notice(request[p].answer) = "fresh"
    BY <1>0, <1>5, <1>6 DEF Cache!ForcedAnswer, PageState
<1>8. result[request[p].answer.attempt] = "VERIFIED"
    BY <1>7 DEF Cache!Notice, Cache!Unavailable
<1> QED  BY <1>7, <1>8 DEF AnswersAreOfTheRefresh

-----------------------------------------------------------------------------
(* The cache, whatever else is operated.                                  *)

\* The cache's invariant, whatever else is operated.
LEMMA CacheInvariantHolds ==
    ASSUME OperationsAssumption
    PROVE  OperationsSpec => []CacheInvariant
<1>1. Cache!Init => CacheInvariant
    BY CacheInitHolds
<1>2. CacheInvariant /\ [Cache!Next]_cacheVars => CacheInvariant'
    BY CacheStepHolds
<1>3. OperationsInit => Cache!Init
    BY DEF OperationsInit
<1>4. [OperationsNext]_operationsVars => [Cache!Next]_cacheVars
    BY DEF OperationsNext, CacheStep, DeployStep, LiveStep, StatusStep, WorkspaceStep,
           IncidentStep, LabStep, ReplayStep, operationsVars
<1> QED  BY <1>1, <1>2, <1>3, <1>4, PTL DEF OperationsSpec

\* Only a later success replaces a verified result, and a page that says "fresh" shows a
\* scan that ended after its button was pressed.
THEOREM VerifiedCorrect ==
    ASSUME OperationsAssumption
    PROVE  OperationsSpec => VerifiedIsKept
<1>1. CacheInvariant /\ [Cache!Next]_cacheVars =>
        [verified' # verified =>
            /\ verified'.run > verified.run
            /\ result'[verified'.run] = "VERIFIED"]_cacheVars
    BY VerifiedStep
<1>2. CacheInvariant /\ [Cache!Next]_cacheVars =>
        [\A p \in Pages :
            (page[p].refreshing /\ page'[p].notice = "fresh" /\ ~ page'[p].refreshing)
                => verified.at >= page[p].since]_cacheVars
    BY FreshStep
<1>3. [OperationsNext]_operationsVars => [Cache!Next]_cacheVars
    BY DEF OperationsNext, CacheStep, DeployStep, LiveStep, StatusStep, WorkspaceStep,
           IncidentStep, LabStep, ReplayStep, operationsVars
<1>4. Cache!VerifiedIsKept <=>
        [][verified' # verified =>
              /\ verified'.run > verified.run
              /\ result'[verified'.run] = "VERIFIED"]_cacheVars
    BY DEF Cache!VerifiedIsKept, Cache!vars, cacheVars
<1>5. Cache!FreshMeansSince <=>
        [][\A p \in Pages :
            (page[p].refreshing /\ page'[p].notice = "fresh" /\ ~ page'[p].refreshing)
                => verified.at >= page[p].since]_cacheVars
    BY DEF Cache!FreshMeansSince, Cache!vars, cacheVars
<1> QED  BY <1>1, <1>2, <1>3, <1>4, <1>5, CacheInvariantHolds, PTL
            DEF OperationsSpec, VerifiedIsKept

-----------------------------------------------------------------------------
(* The deployment: its plan.                                               *)

Plan == Deploy!Transactions(TRUE)
WriteCount == Cardinality(Deploy!Offsets)

\* The words that a transaction of the plan writes.
Part(k) == {j \in 1 .. BINARY_SIZE : j - Plan[k].offset \in 1 .. Len(Plan[k].bytes)}

\* The module's cardinality is the one of finite sets.
LEMMA DeployCardinality ==
    ASSUME NEW S
    PROVE  Deploy!Cardinality(S) = Cardinality(S)
BY DEF Deploy!Cardinality, Cardinality

\* What is divided, and the quotient with it.
LEMMA Quotient ==
    ASSUME NEW n \in Nat, NEW c \in Nat \ {0}
    PROVE  /\ n \div c \in Nat
           /\ (n \div c) * c <= n
           /\ n < (n \div c) * c + c
           /\ n % c = n - (n \div c) * c
OBVIOUS

\* A product grows with its factor.
LEMMA ProductGrows ==
    ASSUME NEW a \in Nat, NEW b \in Nat, NEW c \in Nat, a <= b
    PROVE  a * c <= b * c /\ a * c \in Nat /\ (a + 1) * c = a * c + c
OBVIOUS

\* There is an offset for each started chunk, and no other.
LEMMA OffsetsAreChunks ==
    ASSUME OperationsAssumption
    PROVE  \E n \in Nat \ {0} :
              /\ WriteCount = n
              /\ (n - 1) * CHUNK_SIZE < BINARY_SIZE
              /\ BINARY_SIZE <= (n - 1) * CHUNK_SIZE + CHUNK_SIZE
<1>0. BINARY_SIZE \in Nat \ {0} /\ CHUNK_SIZE \in Nat \ {0} /\ BINARY_SIZE - 1 \in Nat
    BY DEF OperationsAssumption
<1> DEFINE last == (BINARY_SIZE - 1) \div CHUNK_SIZE
           at == [i \in 0 .. last |-> i * CHUNK_SIZE]
<1>1. /\ last \in Nat /\ last * CHUNK_SIZE <= BINARY_SIZE - 1
      /\ BINARY_SIZE - 1 < last * CHUNK_SIZE + CHUNK_SIZE
    BY <1>0, Quotient
<1> HIDE DEF last
<1>2. ASSUME NEW i \in 0 .. last
      PROVE  i * CHUNK_SIZE \in Deploy!Offsets
    <2>1. i * CHUNK_SIZE <= last * CHUNK_SIZE /\ i * CHUNK_SIZE \in Nat
        BY <1>0, <1>1, ProductGrows
    <2>2. last * CHUNK_SIZE \in Nat
        BY <1>0, <1>1, ProductGrows
    <2>3. (i * CHUNK_SIZE) % CHUNK_SIZE = 0
        BY <1>0, <1>1
    <2> QED  BY <1>0, <1>1, <2>1, <2>2, <2>3 DEF Deploy!Offsets
<1>3. ASSUME NEW o \in Deploy!Offsets
      PROVE  \E i \in 0 .. last : at[i] = o
    <2> DEFINE q == o \div CHUNK_SIZE
    <2>1. o \in 0 .. BINARY_SIZE - 1 /\ o % CHUNK_SIZE = 0
        BY DEF Deploy!Offsets
    <2>2. q \in Nat /\ o = q * CHUNK_SIZE
        <3>1. o \in Nat
            BY <1>0, <2>1
        <3>2. q \in Nat /\ o % CHUNK_SIZE = o - q * CHUNK_SIZE
            BY <1>0, <3>1, Quotient
        <3>3. q * CHUNK_SIZE \in Nat
            BY <1>0, <3>2, ProductGrows
        <3> HIDE DEF q
        <3> QED  BY <2>1, <3>1, <3>2, <3>3
    <2> HIDE DEF q
    <2>3. q <= last
        <3>1. SUFFICES ASSUME last + 1 <= q
                       PROVE  FALSE
            BY <1>1, <2>2
        <3>2. (last + 1) * CHUNK_SIZE <= q * CHUNK_SIZE
              /\ (last + 1) * CHUNK_SIZE = last * CHUNK_SIZE + CHUNK_SIZE
            BY <1>0, <1>1, <2>2, <3>1, ProductGrows
        <3>3. last * CHUNK_SIZE \in Nat
            BY <1>0, <1>1, ProductGrows
        <3> QED  BY <1>0, <1>1, <2>1, <2>2, <3>2, <3>3
    <2> QED  BY <1>1, <2>2, <2>3
<1>4. ASSUME NEW i \in 0 .. last, NEW j \in 0 .. last, i < j
      PROVE  i * CHUNK_SIZE # j * CHUNK_SIZE
    <2>1. (i + 1) * CHUNK_SIZE <= j * CHUNK_SIZE
        BY <1>0, <1>1, <1>4, ProductGrows
    <2>2. (i + 1) * CHUNK_SIZE = i * CHUNK_SIZE + CHUNK_SIZE /\ i * CHUNK_SIZE \in Nat
        BY <1>0, <1>1, ProductGrows
    <2> QED  BY <1>0, <2>1, <2>2
<1>5. at \in Bijection(0 .. last, Deploy!Offsets)
    <2>1. at \in [0 .. last -> Deploy!Offsets]
        BY <1>2
    <2>2. \A i, j \in 0 .. last : at[i] = at[j] => i = j
        BY <1>1, <1>4
    <2> HIDE DEF at
    <2> QED  BY <1>3, <2>1, <2>2, Fun_IsBij
<1>6. Cardinality(0 .. last) = last + 1 /\ IsFiniteSet(0 .. last)
    BY <1>1, FS_Interval
<1>7. WriteCount = last + 1
    BY <1>5, <1>6, FS_Bijection DEF WriteCount, ExistsBijection
<1>8. (last + 1) - 1 = last /\ last * CHUNK_SIZE \in Nat
    BY <1>0, <1>1, ProductGrows
<1> QED  BY <1>0, <1>1, <1>7, <1>8

\* Where the k-th write begins, and where it ends.
From(k) == (k - 1) * CHUNK_SIZE
To(k) == Deploy!SmallerOf(From(k) + CHUNK_SIZE, BINARY_SIZE)

\* The k-th write begins inside the binary.
LEMMA ChunkBounds ==
    ASSUME OperationsAssumption, NEW k \in 1 .. WriteCount
    PROVE  /\ From(k) \in Nat /\ To(k) \in Nat
           /\ From(k) < To(k) /\ To(k) <= BINARY_SIZE /\ To(k) <= From(k) + CHUNK_SIZE
           /\ k < WriteCount => To(k) = From(k) + CHUNK_SIZE
           /\ k = WriteCount => To(k) = BINARY_SIZE
<1>0. BINARY_SIZE \in Nat \ {0} /\ CHUNK_SIZE \in Nat \ {0}
    BY DEF OperationsAssumption
<1>1. PICK n \in Nat \ {0} :
         /\ WriteCount = n
         /\ (n - 1) * CHUNK_SIZE < BINARY_SIZE
         /\ BINARY_SIZE <= (n - 1) * CHUNK_SIZE + CHUNK_SIZE
    BY OffsetsAreChunks
<1>2. k - 1 \in Nat /\ n - 1 \in Nat /\ k - 1 <= n - 1 /\ (k < n => k - 1 + 1 <= n - 1)
    BY <1>1
<1>3. /\ (k - 1) * CHUNK_SIZE <= (n - 1) * CHUNK_SIZE
      /\ (k - 1) * CHUNK_SIZE \in Nat /\ (n - 1) * CHUNK_SIZE \in Nat
    BY <1>0, <1>2, ProductGrows
<1>4. k < n => (k - 1) * CHUNK_SIZE + CHUNK_SIZE <= (n - 1) * CHUNK_SIZE
    <2>1. k < n => (k - 1 + 1) * CHUNK_SIZE <= (n - 1) * CHUNK_SIZE
        BY <1>0, <1>2, ProductGrows
    <2>2. (k - 1 + 1) * CHUNK_SIZE = (k - 1) * CHUNK_SIZE + CHUNK_SIZE
        BY <1>0, <1>2, ProductGrows
    <2> QED  BY <2>1, <2>2
<1> DEFINE f == (k - 1) * CHUNK_SIZE
           l == (n - 1) * CHUNK_SIZE
<1>5. /\ f \in Nat /\ l \in Nat /\ f <= l /\ (k < n => f + CHUNK_SIZE <= l)
      /\ l < BINARY_SIZE /\ BINARY_SIZE <= l + CHUNK_SIZE /\ (k = n => f = l)
    BY <1>1, <1>3, <1>4
<1>6. /\ From(k) = f
      /\ To(k) = IF f + CHUNK_SIZE < BINARY_SIZE THEN f + CHUNK_SIZE ELSE BINARY_SIZE
    BY DEF From, To, Deploy!SmallerOf
<1> HIDE DEF f, l
<1>7. f + CHUNK_SIZE \in Nat
    BY <1>0, <1>5
<1>8. CASE f + CHUNK_SIZE < BINARY_SIZE
    <2>1. To(k) = f + CHUNK_SIZE
        BY <1>6, <1>8
    <2>2. k # n
        BY <1>0, <1>5, <1>8
    <2> QED  BY ONLY <1>0, <1>1, <1>5, <1>6, <1>7, <1>8, <2>1, <2>2
<1>9. CASE ~ (f + CHUNK_SIZE < BINARY_SIZE)
    <2>1. To(k) = BINARY_SIZE
        BY <1>6, <1>9
    <2>2. ~ (k < n)
        BY <1>0, <1>5, <1>9
    <2> QED  BY ONLY <1>0, <1>1, <1>5, <1>6, <1>7, <1>9, <2>1, <2>2, k \in 1 .. WriteCount
<1> QED  BY <1>8, <1>9

\* The plan writes the binary chunk by chunk, and deploys.
LEMMA PlanFacts ==
    ASSUME OperationsAssumption
    PROVE  /\ WriteCount \in Nat \ {0}
           /\ DOMAIN Plan = 1 .. WriteCount + 1 /\ Len(Plan) = WriteCount + 1
           /\ Plan[WriteCount + 1] = Deploy!DeployTx
           /\ \A k \in 1 .. WriteCount :
                 /\ Plan[k] = Deploy!Writes[k]
                 /\ Plan[k].kind = "loader-write"
                 /\ Part(k) = From(k) + 1 .. To(k)
                 /\ \A j \in Part(k) : Plan[k].bytes[j - Plan[k].offset] = j
           /\ \A j \in 1 .. BINARY_SIZE : \E k \in 1 .. WriteCount : j \in Part(k)
<1>0. BINARY_SIZE \in Nat \ {0} /\ CHUNK_SIZE \in Nat \ {0} /\ WriteCount \in Nat \ {0}
    BY OffsetsAreChunks DEF OperationsAssumption
<1> DEFINE W == Deploy!Writes
           Bytes(k) == SubSeq(Deploy!Binary, From(k) + 1, To(k))
<1>1. Deploy!Binary \in Seq(1 .. BINARY_SIZE) /\ Len(Deploy!Binary) = BINARY_SIZE
      /\ \A i \in 1 .. BINARY_SIZE : Deploy!Binary[i] = i
    BY <1>0 DEF Deploy!Binary
<1>2. ASSUME NEW k \in 1 .. WriteCount
      PROVE  /\ Len(Bytes(k)) = To(k) - From(k)
             /\ \A i \in 1 .. To(k) - From(k) : Bytes(k)[i] = From(k) + i
    <2>1. /\ From(k) \in Nat /\ To(k) \in Nat /\ From(k) < To(k) /\ To(k) <= BINARY_SIZE
        BY ChunkBounds
    <2> QED  BY <1>0, <1>1, <2>1, SubSeqProperties
<1>3. W = [k \in 1 .. WriteCount |->
              [kind |-> "loader-write", offset |-> From(k), bytes |-> Bytes(k)]]
    BY DEF Deploy!Writes, Deploy!WriteTx, From, To, WriteCount, Deploy!Cardinality, Cardinality
<1> HIDE DEF W
<1>4. W \in Seq({W[k] : k \in 1 .. WriteCount}) /\ Len(W) = WriteCount
    <2>1. W \in [1 .. WriteCount -> {W[k] : k \in 1 .. WriteCount}]
        BY <1>3, Zenon
    <2> QED  BY <1>0, <2>1
<1>5. Plan = W \o <<Deploy!DeployTx>>
    BY <1>4 DEF Plan, Deploy!Transactions, W
<1>6. /\ DOMAIN Plan = 1 .. WriteCount + 1 /\ Len(Plan) = WriteCount + 1
      /\ Plan[WriteCount + 1] = Deploy!DeployTx
      /\ \A k \in 1 .. WriteCount : Plan[k] = W[k]
    BY <1>0, <1>4, <1>5
<1>7. ASSUME NEW k \in 1 .. WriteCount
      PROVE  /\ Plan[k].kind = "loader-write"
             /\ Part(k) = From(k) + 1 .. To(k)
             /\ \A j \in Part(k) : Plan[k].bytes[j - Plan[k].offset] = j
    <2>1. /\ From(k) \in Nat /\ To(k) \in Nat /\ From(k) < To(k) /\ To(k) <= BINARY_SIZE
        BY ChunkBounds
    <2>2. Plan[k].kind = "loader-write" /\ Plan[k].offset = From(k) /\ Plan[k].bytes = Bytes(k)
        BY <1>3, <1>6
    <2> HIDE DEF Bytes
    <2>3. Part(k) = {j \in 1 .. BINARY_SIZE : j - From(k) \in 1 .. To(k) - From(k)}
        BY <1>2, <2>2 DEF Part
    <2>4. Part(k) = From(k) + 1 .. To(k)
        BY <1>0, <2>1, <2>3
    <2>5. ASSUME NEW j \in Part(k)
          PROVE  Bytes(k)[j - From(k)] = j
        <3>1. j \in Int /\ j - From(k) \in 1 .. To(k) - From(k)
            BY <2>1, <2>4
        <3>2. Bytes(k)[j - From(k)] = From(k) + (j - From(k))
            BY <1>2, <3>1
        <3> QED  BY <2>1, <3>1, <3>2
    <2> QED  BY <2>2, <2>4, <2>5
<1>8. ASSUME NEW j \in 1 .. BINARY_SIZE
      PROVE  \E k \in 1 .. WriteCount : j \in Part(k)
    <2> DEFINE P == {n \in Nat : n \in 1 .. WriteCount /\ j <= To(n) =>
                                    \E k \in 1 .. WriteCount : j \in Part(k)}
    <2>1. 0 \in P
        OBVIOUS
    <2>2. ASSUME NEW n \in Nat, n \in P
          PROVE  n + 1 \in P
        <3> SUFFICES ASSUME n + 1 \in 1 .. WriteCount, j <= To(n + 1)
                     PROVE  \E k \in 1 .. WriteCount : j \in Part(k)
            OBVIOUS
        <3>1. /\ From(n + 1) \in Nat /\ To(n + 1) \in Nat
              /\ Part(n + 1) = From(n + 1) + 1 .. To(n + 1)
            BY ChunkBounds, <1>7
        <3>2. CASE j > From(n + 1)
            BY <3>1, <3>2
        <3>3. CASE ~ (j > From(n + 1))
            <4>1. n \in 1 .. WriteCount
                <5>1. n # 0
                    BY <1>0, <3>3 DEF From
                <5> QED  BY <1>0, <5>1
            <4>2. From(n + 1) = From(n) + CHUNK_SIZE
                <5>1. n - 1 \in Nat /\ n - 1 + 1 = n /\ n + 1 - 1 = n
                    BY <4>1
                <5>2. (n - 1 + 1) * CHUNK_SIZE = (n - 1) * CHUNK_SIZE + CHUNK_SIZE
                    BY <1>0, <5>1, ProductGrows
                <5> QED  BY <5>1, <5>2 DEF From
            <4>3. To(n) = From(n) + CHUNK_SIZE
                BY <1>0, <4>1, ChunkBounds
            <4>4. j <= To(n)
                BY <3>1, <3>3, <4>2, <4>3
            <4> QED  BY <2>2, <4>1, <4>4
        <3> QED  BY <3>2, <3>3
    <2>3. WriteCount \in P
        <3> HIDE DEF P
        <3> QED  BY <1>0, <2>1, <2>2, NatSetInduction
    <2>4. To(WriteCount) = BINARY_SIZE
        BY <1>0, ChunkBounds
    <2> QED  BY <1>0, <2>3, <2>4
<1> QED  BY <1>0, <1>6, <1>7, <1>8 DEF W
\* What the plan's fees come to.
LEMMA PlanFees ==
    ASSUME OperationsAssumption
    PROVE  /\ Deploy!FeeBudget(Plan) = WriteCount + 2
           /\ Deploy!MaximumDebit = ProgramRent + (WriteCount + 2)
           /\ Deploy!MaximumBudget(TRUE) = Deploy!MaximumDebit
<1> DEFINE S == 1 .. WriteCount + 1
           f == [i \in S |-> Deploy!Fee(Plan[i])]
<1>0. WriteCount \in Nat \ {0} /\ DOMAIN Plan = S
    BY PlanFacts
<1>1. Deploy!MapThenSumSet(LAMBDA i : Deploy!Fee(Plan[i]), S) = SumOver(f, S)
    BY ChosenIn DEF SumOver, Deploy!MapThenSumSet, Deploy!MapThenFoldSet, MapThenSumSet,
                    MapThenFoldSet, Chosen
<1>2. /\ \A i \in 1 .. WriteCount : f[i] = 1
      /\ f[WriteCount + 1] = 2
      /\ \A i \in S : f[i] \in Int
    <2>1. \A i \in 1 .. WriteCount : f[i] = 1
        BY <1>0, PlanFacts DEF Deploy!Fee
    <2>2. f[WriteCount + 1] = 2
        BY <1>0, PlanFacts DEF Deploy!Fee, Deploy!DeployTx
    <2> HIDE DEF f
    <2> QED  BY <1>0, <2>1, <2>2
<1> HIDE DEF f
<1> DEFINE P == {n \in Nat : n <= WriteCount => SumOver(f, 1 .. n) = n}
<1>3. 0 \in P
    <2>1. 1 .. 0 = {}
        OBVIOUS
    <2>2. SumOver(f, {}) = 0
        BY FS_EmptySet, SumUnfolds
    <2> QED  BY <2>1, <2>2
<1>4. ASSUME NEW n \in Nat, n \in P
      PROVE  n + 1 \in P
    <2> SUFFICES ASSUME n + 1 <= WriteCount
                 PROVE  SumOver(f, 1 .. n + 1) = n + 1
        OBVIOUS
    <2>1. IsFiniteSet(1 .. n + 1) /\ n + 1 \in 1 .. n + 1 /\ \A x \in 1 .. n + 1 : f[x] \in Int
        <3>1. 1 .. n + 1 \subseteq S
            BY <1>0
        <3> HIDE DEF S
        <3> QED  BY <1>2, <3>1, FS_Interval
    <2>2. SumOver(f, 1 .. n + 1) = f[n + 1] + SumOver(f, (1 .. n + 1) \ {n + 1})
        BY <2>1, SumRemove
    <2>3. (1 .. n + 1) \ {n + 1} = 1 .. n
        OBVIOUS
    <2>4. f[n + 1] = 1 /\ SumOver(f, 1 .. n) = n
        BY <1>0, <1>2, <1>4
    <2>5. SumOver(f, 1 .. n + 1) = f[n + 1] + SumOver(f, 1 .. n)
        BY <2>2, <2>3, Zenon
    <2> QED  BY <2>4, <2>5
<1>5. SumOver(f, 1 .. WriteCount) = WriteCount
    <2>1. WriteCount \in P
        <3> HIDE DEF P
        <3> QED  BY <1>0, <1>3, <1>4, NatSetInduction
    <2> QED  BY <1>0, <2>1
<1>6. SumOver(f, S) = WriteCount + 2
    <2>1. IsFiniteSet(S) /\ WriteCount + 1 \in S
        BY <1>0, FS_Interval
    <2>2. SumOver(f, S) = f[WriteCount + 1] + SumOver(f, S \ {WriteCount + 1})
        BY <1>2, <2>1, SumRemove
    <2>3. S \ {WriteCount + 1} = 1 .. WriteCount
        BY <1>0
    <2>4. SumOver(f, S \ {WriteCount + 1}) = WriteCount
        BY <1>5, <2>3, Zenon
    <2> QED  BY <1>0, <1>2, <2>2, <2>4
<1>7. Deploy!FeeBudget(Plan) = WriteCount + 2
    BY <1>0, <1>1, <1>6 DEF Deploy!FeeBudget
<1>8. Deploy!FeeBudget(Deploy!Transactions(TRUE)) = WriteCount + 2
    BY <1>7, Zenon DEF Plan
<1>9. Deploy!MaximumDebit = ProgramRent + (WriteCount + 2)
    BY <1>8, Zenon DEF Deploy!MaximumDebit
<1>10. Deploy!MaximumBudget(TRUE) = ProgramRent + 0 + (WriteCount + 2)
    BY <1>8 DEF Deploy!MaximumBudget
<1>11. ProgramRent \in Nat
    BY DEF OperationsAssumption
<1>12. ProgramRent + 0 + (WriteCount + 2) = ProgramRent + (WriteCount + 2)
    BY <1>0, <1>11
<1> QED  BY <1>7, <1>9, <1>10, <1>12, Zenon

-----------------------------------------------------------------------------
(* The deployment: what the loader makes of a transaction.                 *)

Words == [1 .. BINARY_SIZE -> 0 .. BINARY_SIZE]
Buffers == [data : Words, lamports : {l \in Nat : l >= ProgramDataRent}]
Chains == [program : {Null, Deploy!Binary}, buffer : {Null} \cup Buffers, balance : Nat]

\* The words of the k-th write are on the chain.
Holds(c, k) ==
    \/ c.program # Null
    \/ c.buffer # Null /\ \A j \in Part(k) : c.buffer.data[j] = j

\* Null is neither the binary nor a buffer.
LEMMA NullIsNothing ==
    ASSUME OperationsAssumption
    PROVE  Null # Deploy!Binary /\ Null \notin Buffers /\ Deploy!Binary \in Words
<1>1. Deploy!Binary \in Words
    BY DEF OperationsAssumption, Deploy!Binary, Words
<1>2. Buffers \subseteq [data : Words, lamports : Nat]
    BY DEF Buffers
<1> QED  BY <1>1, <1>2 DEF OperationsAssumption, Words

\* A write costs its fee and puts the binary's words in its part of the buffer.
LEMMA AfterWrite ==
    ASSUME OperationsAssumption, NEW c \in Chains, NEW k \in 1 .. WriteCount,
           Deploy!Lands(Plan[k], c)
    PROVE  /\ Deploy!After(Plan[k], c) \in Chains
           /\ Deploy!After(Plan[k], c).program = c.program
           /\ Deploy!After(Plan[k], c).buffer # Null
           /\ Deploy!After(Plan[k], c).buffer.lamports = c.buffer.lamports
           /\ Deploy!After(Plan[k], c).balance = c.balance - 1
           /\ Holds(Deploy!After(Plan[k], c), k)
           /\ \A m \in 1 .. WriteCount : Holds(c, m) => Holds(Deploy!After(Plan[k], c), m)
<1> DEFINE tx == Plan[k]
           new == [i \in 1 .. BINARY_SIZE |-> IF i \in Part(k) THEN i ELSE c.buffer.data[i]]
           after == [program |-> c.program, balance |-> c.balance - 1,
                     buffer |-> [data |-> new, lamports |-> c.buffer.lamports]]
<1>1. tx.kind = "loader-write" /\ \A j \in Part(k) : tx.bytes[j - tx.offset] = j
    BY PlanFacts
<1>2. c.buffer # Null /\ c.buffer \in Buffers /\ c.balance >= 1 /\ c.balance \in Nat
    BY <1>1 DEF Deploy!Lands, Deploy!Fee, Chains
<1>3. [i \in 1 .. BINARY_SIZE |->
          IF i - tx.offset \in 1 .. Len(tx.bytes) THEN tx.bytes[i - tx.offset]
          ELSE c.buffer.data[i]] = new
    BY <1>1 DEF Part
<1>4. new \in Words
    <2>1. BINARY_SIZE \in Nat
        BY DEF OperationsAssumption
    <2> QED  BY <1>2, <2>1 DEF Words, Buffers
<1>5. Deploy!After(tx, c) = after
    <2>1. Deploy!Fee(tx) = 1
        BY <1>1 DEF Deploy!Fee
    <2> DEFINE paid == [c EXCEPT !.balance = @ - 1]
               written == [i \in 1 .. BINARY_SIZE |->
                             IF i - tx.offset \in 1 .. Len(tx.bytes)
                             THEN tx.bytes[i - tx.offset]
                             ELSE paid.buffer.data[i]]
    <2>2. Deploy!After(tx, c) = [paid EXCEPT !.buffer.data = written]
        BY <1>1, <2>1 DEF Deploy!After
    <2>3. paid = [program |-> c.program, buffer |-> c.buffer, balance |-> c.balance - 1]
        BY DEF Chains
    <2>4. c.buffer = [data |-> c.buffer.data, lamports |-> c.buffer.lamports]
        BY <1>2 DEF Buffers
    <2>5. written = new
        <3>1. paid.buffer = c.buffer
            BY <2>3
        <3> HIDE DEF paid
        <3> QED  BY <1>3, <3>1
    <2> HIDE DEF tx, new, paid, written
    <2> QED  BY <2>2, <2>3, <2>4, <2>5
<1>6. after.buffer # Null
    <2>1. after.buffer \in Buffers
        BY <1>2, <1>4 DEF Buffers
    <2> QED  BY <2>1, NullIsNothing
<1>7. after \in Chains
    BY <1>2, <1>4 DEF Chains, Buffers
<1>8. \A j \in Part(k) : new[j] = j
    BY DEF Part
<1>9. \A m \in 1 .. WriteCount : \A j \in Part(m) : c.buffer.data[j] = j => new[j] = j
    BY DEF Part
<1> HIDE DEF new, tx
<1> QED  BY <1>2, <1>5, <1>6, <1>7, <1>8, <1>9 DEF Holds, tx

\* The deployment takes the buffer's words, and its rent back.
LEMMA AfterDeploy ==
    ASSUME OperationsAssumption, NEW c \in Chains, Deploy!Lands(Plan[WriteCount + 1], c),
           \A k \in 1 .. WriteCount : Holds(c, k)
    PROVE  /\ c.program = Null /\ c.buffer # Null
           /\ Deploy!After(Plan[WriteCount + 1], c) \in Chains
           /\ Deploy!After(Plan[WriteCount + 1], c).program = Deploy!Binary
           /\ Deploy!After(Plan[WriteCount + 1], c).balance =
                 c.balance - 2 - ProgramRent + c.buffer.lamports - ProgramDataRent
<1> DEFINE tx == Plan[WriteCount + 1]
           left == c.balance - 2 - ProgramRent + c.buffer.lamports - ProgramDataRent
<1>1. tx.kind = "program-deploy" /\ Deploy!Fee(tx) = 2
    BY PlanFacts DEF Deploy!DeployTx, Deploy!Fee
<1>2. c.program = Null /\ c.buffer # Null /\ c.balance >= 2 + ProgramRent
    BY <1>1 DEF Deploy!Lands
<1>3. c.buffer \in Buffers /\ c.balance \in Nat
    BY <1>2 DEF Chains
<1>4. c.buffer.data = Deploy!Binary
    <2>1. \A k \in 1 .. WriteCount : \A j \in Part(k) : c.buffer.data[j] = j
        BY <1>2 DEF Holds
    <2>2. \A j \in 1 .. BINARY_SIZE : c.buffer.data[j] = j
        BY <2>1, PlanFacts
    <2> QED  BY <1>3, <2>2 DEF Buffers, Words, Deploy!Binary
<1>5. left \in Nat
    <2>1. c.buffer.lamports \in Nat /\ c.buffer.lamports >= ProgramDataRent
        BY <1>3 DEF Buffers
    <2>2. ProgramRent \in Nat /\ ProgramDataRent \in Nat
        BY DEF OperationsAssumption
    <2> QED  BY ONLY <1>2, <1>3, <2>1, <2>2
<1>6. Deploy!After(tx, c) = [program |-> Deploy!Binary, buffer |-> Null, balance |-> left]
    <2> DEFINE paid == [c EXCEPT !.balance = @ - 2]
    <2>1. Deploy!After(tx, c) =
             [paid EXCEPT !.program = c.buffer.data, !.buffer = Null,
                          !.balance = @ - ProgramRent + c.buffer.lamports - ProgramDataRent]
        BY <1>1 DEF Deploy!After
    <2>2. paid = [program |-> c.program, buffer |-> c.buffer, balance |-> c.balance - 2]
        BY DEF Chains
    <2> HIDE DEF paid, tx
    <2> QED  BY <1>4, <2>1, <2>2
<1> HIDE DEF left, tx
<1>7. Deploy!After(tx, c) \in Chains
    BY <1>5, <1>6 DEF Chains
<1> QED  BY <1>2, <1>6, <1>7 DEF left, tx

\* The creation of the buffer leaves no program and a blank buffer.
LEMMA AfterCreate ==
    ASSUME OperationsAssumption, NEW c \in Chains, Deploy!Lands(Deploy!InitialTx, c)
    PROVE  /\ Deploy!After(Deploy!InitialTx, c) \in Chains
           /\ Deploy!After(Deploy!InitialTx, c).program = c.program
           /\ \A m \in 1 .. WriteCount :
                 Holds(c, m) => Holds(Deploy!After(Deploy!InitialTx, c), m)
<1> DEFINE tx == Deploy!InitialTx
           blank == [data |-> Deploy!Blank, lamports |-> ProgramDataRent]
           after == [program |-> c.program, buffer |-> blank,
                     balance |-> c.balance - 2 - ProgramDataRent]
<1>0. ProgramDataRent \in Nat /\ BINARY_SIZE \in Nat
    BY DEF OperationsAssumption
<1>1. tx.kind = "buffer-create" /\ Deploy!Fee(tx) = 2
    BY DEF Deploy!InitialTx, Deploy!Fee
<1>2. c.buffer = Null /\ c.balance >= 2 + ProgramDataRent /\ c.balance \in Nat
    BY <1>1 DEF Deploy!Lands, Chains
<1>3. blank \in Buffers
    BY <1>0 DEF Buffers, Words, Deploy!Blank
<1>4. Deploy!After(tx, c) = after
    <2> DEFINE paid == [c EXCEPT !.balance = @ - 2]
    <2>1. Deploy!After(tx, c) =
             [paid EXCEPT !.buffer = blank, !.balance = @ - ProgramDataRent]
        BY <1>1 DEF Deploy!After
    <2>2. paid = [program |-> c.program, buffer |-> c.buffer, balance |-> c.balance - 2]
        BY DEF Chains
    <2> HIDE DEF paid, tx, blank
    <2> QED  BY <2>1, <2>2
<1>5. after \in Chains
    <2>1. c.balance - 2 - ProgramDataRent \in Nat
        BY <1>0, <1>2
    <2> HIDE DEF blank
    <2> QED  BY <1>3, <2>1 DEF Chains
<1> HIDE DEF blank, tx
<1>6. \A m \in 1 .. WriteCount : Holds(c, m) => Holds(after, m)
    BY <1>2 DEF Holds
<1> QED  BY <1>4, <1>5, <1>6 DEF tx

\* The plan that creates the buffer first.
LEMMA LongPlan ==
    ASSUME OperationsAssumption
    PROVE  /\ DOMAIN Deploy!Transactions(FALSE) = 1 .. WriteCount + 2
           /\ \A n \in 1 .. WriteCount + 2 :
                 Deploy!Transactions(FALSE)[n] =
                    IF n = WriteCount + 2 THEN Deploy!DeployTx
                    ELSE IF n = 1 THEN Deploy!InitialTx ELSE Plan[n - 1]
<1> DEFINE W == Deploy!Writes
<1>1. /\ WriteCount \in Nat \ {0} /\ DOMAIN W = 1 .. WriteCount
      /\ \A k \in 1 .. WriteCount : Plan[k] = W[k]
    BY PlanFacts DEF Deploy!Writes, WriteCount, Deploy!Cardinality, Cardinality
<1>2. W \in Seq({W[k] : k \in 1 .. WriteCount}) /\ Len(W) = WriteCount
    <2>1. W = [k \in 1 .. WriteCount |-> W[k]]
        BY DEF Deploy!Writes, WriteCount, Deploy!Cardinality, Cardinality
    <2> HIDE DEF W
    <2>2. W \in [1 .. WriteCount -> {W[k] : k \in 1 .. WriteCount}]
        BY <2>1, Zenon
    <2> QED  BY <1>1, <2>2
<1>3. Deploy!Transactions(FALSE) = <<Deploy!InitialTx>> \o W \o <<Deploy!DeployTx>>
    BY Zenon DEF Deploy!Transactions
<1> HIDE DEF W
<1> DEFINE T == {W[k] : k \in 1 .. WriteCount} \cup {Deploy!InitialTx, Deploy!DeployTx}
           first == <<Deploy!InitialTx>> \o W
<1>4. W \in Seq(T) /\ <<Deploy!InitialTx>> \in Seq(T) /\ <<Deploy!DeployTx>> \in Seq(T)
    BY <1>2
<1> HIDE DEF T
<1>5. /\ first \in Seq(T) /\ Len(first) = WriteCount + 1
      /\ \A n \in 1 .. WriteCount + 1 :
            first[n] = IF n = 1 THEN Deploy!InitialTx ELSE W[n - 1]
    BY <1>1, <1>2, <1>4
<1> HIDE DEF first
<1>6. /\ DOMAIN (first \o <<Deploy!DeployTx>>) = 1 .. WriteCount + 2
      /\ \A n \in 1 .. WriteCount + 2 :
            (first \o <<Deploy!DeployTx>>)[n] =
               IF n = WriteCount + 2 THEN Deploy!DeployTx ELSE first[n]
    BY <1>1, <1>4, <1>5
<1>7. Deploy!Transactions(FALSE) = first \o <<Deploy!DeployTx>>
    BY <1>3, Zenon DEF first
<1>8. ASSUME NEW n \in 1 .. WriteCount + 2, n # WriteCount + 2
      PROVE  first[n] = IF n = 1 THEN Deploy!InitialTx ELSE Plan[n - 1]
    <2>1. n \in 1 .. WriteCount + 1 /\ (n # 1 => n - 1 \in 1 .. WriteCount)
        BY <1>1, <1>8
    <2> QED  BY <1>1, <1>5, <2>1
<1> QED  BY <1>6, <1>7, <1>8

\* The attempt before the scripts creates the buffer, or writes a chunk of the plan.
LEMMA AttemptTransactions ==
    ASSUME OperationsAssumption,
           NEW tx \in Deploy!ToSet(Deploy!Transactions(FALSE)) \ {Deploy!DeployTx}
    PROVE  tx = Deploy!InitialTx \/ \E k \in 1 .. WriteCount : tx = Plan[k]
<1>1. PICK i \in DOMAIN Deploy!Transactions(FALSE) : tx = Deploy!Transactions(FALSE)[i]
    BY DEF Deploy!ToSet
<1>2. i \in 1 .. WriteCount + 2 /\ WriteCount \in Nat
    BY <1>1, LongPlan, PlanFacts
<1>3. tx = IF i = WriteCount + 2 THEN Deploy!DeployTx
           ELSE IF i = 1 THEN Deploy!InitialTx ELSE Plan[i - 1]
    BY <1>1, <1>2, LongPlan
<1>4. i # WriteCount + 2 /\ i # 1 => i - 1 \in 1 .. WriteCount
    BY <1>2
<1>5. tx # Deploy!DeployTx
    OBVIOUS
<1> QED  BY <1>3, <1>4, <1>5

\* A budget is a number.
LEMMA BudgetsAreNumbers ==
    ASSUME OperationsAssumption, NEW resume \in BOOLEAN
    PROVE  Deploy!MaximumBudget(resume) \in Int
<1>1. ProgramRent \in Int /\ ProgramDataRent \in Int /\ WriteCount \in Nat
    BY PlanFacts DEF OperationsAssumption
<1>2. Deploy!MaximumBudget(TRUE) \in Int
    <2>1. Deploy!MaximumBudget(TRUE) = ProgramRent + (WriteCount + 2)
        BY PlanFees, Zenon
    <2>2. ProgramRent + (WriteCount + 2) \in Int
        BY <1>1
    <2> QED  BY <2>1, <2>2, Zenon
<1>3. Deploy!MaximumBudget(FALSE) \in Int
    <2> DEFINE S == DOMAIN Deploy!Transactions(FALSE)
               f == [i \in S |-> Deploy!Fee(Deploy!Transactions(FALSE)[i])]
    <2>1. Deploy!MapThenSumSet(LAMBDA i : Deploy!Fee(Deploy!Transactions(FALSE)[i]), S)
             = SumOver(f, S)
        BY ChosenIn DEF SumOver, Deploy!MapThenSumSet, Deploy!MapThenFoldSet, MapThenSumSet,
                        MapThenFoldSet, Chosen
    <2>2. IsFiniteSet(S)
        <3>1. S = 1 .. WriteCount + 2
            BY LongPlan, Zenon
        <3>2. IsFiniteSet(1 .. WriteCount + 2)
            BY <1>1, FS_Interval
        <3> QED  BY <3>1, <3>2, Zenon
    <2>3. \A i \in S : f[i] \in Int
        BY DEF Deploy!Fee
    <2> HIDE DEF f, S
    <2>4. SumOver(f, S) \in Int
        BY <2>2, <2>3, SumIsInt
    <2>5. Deploy!FeeBudget(Deploy!Transactions(FALSE)) \in Int
        BY <2>1, <2>4, Zenon DEF Deploy!FeeBudget, S
    <2>6. Deploy!MaximumBudget(FALSE) =
             ProgramRent + ProgramDataRent + Deploy!FeeBudget(Deploy!Transactions(FALSE))
        BY DEF Deploy!MaximumBudget
    <2>7. ASSUME NEW fees \in Int
          PROVE  ProgramRent + ProgramDataRent + fees \in Int
        BY <1>1
    <2> QED  BY <2>5, <2>6, <2>7, Zenon
<1>4. resume = TRUE \/ resume = FALSE
    OBVIOUS
<1> QED  BY <1>2, <1>3, <1>4, Zenon
-----------------------------------------------------------------------------
(* The deployment: its invariant.                                          *)

RunStates ==
    [ pc : {"off", "funding", "ready", "checked", "cleared", "sent", "deployed", "done",
            "stopped"},
      index : 0 .. WriteCount + 1, start : Nat, why : {Null, "guard", "network"},
      alone : BOOLEAN, approved : BOOLEAN ]

Sendings ==
    [ tx : {Plan[i] : i \in 1 .. WriteCount + 1},
      result : {Null, "landed", "failed", "expired"} ]

ToolStates ==
    [ pc : {"off", "reading", "reported", "failed"}, resume : BOOLEAN,
      read : SUBSET Deploy!Accounts, remaining : Int, seen : Chains ]

DeployTypes ==
    /\ chain \in Chains
    /\ tool \in ToolStates
    /\ run \in [Deployers -> RunStates]
    /\ pending \in [Deployers -> {Null} \cup Sendings]

Going == {"ready", "checked", "cleared", "sent", "deployed"}

\* Where a run is in the plan, and what it has sent.
InPlace(r) ==
    /\ run[r].why = "guard" => run[r].pc = "stopped"
    /\ run[r].pc \in {"off", "funding"} => run[r].index = 0
    /\ run[r].pc \in Going => run[r].index >= 1
    /\ run[r].pc \in {"deployed", "done"} => run[r].index = WriteCount + 1
    /\ run[r].pc = "sent" => pending[r] # Null
    /\ pending[r] # Null =>
          /\ run[r].index >= 1
          /\ pending[r].tx = Plan[run[r].index]
          /\ run[r].pc \in {"sent", "stopped"}
          /\ run[r].pc = "stopped" => pending[r].result = Null

HasLanded(r) == pending[r] # Null /\ pending[r].result = "landed"

\* What a run was told of is on the chain.
WritesAreKept ==
    \A r \in Deployers : \A k \in 1 .. WriteCount :
        k < run[r].index \/ (k = run[r].index /\ HasLanded(r)) => Holds(chain, k)

Deployed(r) ==
    \/ run[r].pc \in {"deployed", "done"}
    \/ run[r].index = WriteCount + 1 /\ HasLanded(r)

OneDeployed ==
    /\ \A r \in Deployers : Deployed(r) => chain.program # Null
    /\ \A r, s \in Deployers : Deployed(r) /\ Deployed(s) => r = s

\* What a run has paid.
Paid(r) ==
    IF Deployed(r) THEN Deploy!MaximumDebit
    ELSE (run[r].index - 1) + (IF HasLanded(r) THEN 1 ELSE 0)

\* A run alone finds the buffer as it was, and has paid for what it sent.
Undisturbed(r) ==
    run[r].alone =>
        /\ run[r].why = "guard" => run[r].index = 0
        /\ run[r].pc = "funding" => Deploy!LiveStateIsValid
        /\ run[r].pc \in Going =>
              /\ run[r].start >= Deploy!MaximumDebit
              /\ chain.balance = run[r].start - Paid(r)
              /\ ~ Deployed(r) => Deploy!LiveStateIsValid
              /\ run[r].pc = "sent" => pending[r].result # "failed"

\* The report is of the chain that the touched changed since, and of no other.
ReportIsOfTheChain ==
    /\ tool.pc = "reading" /\ tool.read # {} /\ touched = {} =>
          \A f \in tool.read : tool.seen[f] = chain[f]
    /\ tool.pc = "reported" /\ touched = {} =>
          chain.balance = tool.remaining + Deploy!MaximumBudget(tool.resume)
    /\ \A r \in Deployers : r \in touched => run[r].index >= 1

\* What a run owes to the report that it began after.
ReportIsMet(r) ==
    run[r].approved =>
        /\ tool.pc = "reported" /\ tool.resume = TRUE
        /\ touched \subseteq {r} =>
              /\ run[r].pc \in Going \cup {"funding"} => run[r].alone
              /\ run[r].pc \in Going =>
                    run[r].start = tool.remaining + Deploy!MaximumDebit
              /\ run[r].pc = "done" => chain.balance = tool.remaining

DeployInvariant ==
    /\ DeployTypes
    /\ \A r \in Deployers : InPlace(r)
    /\ WritesAreKept
    /\ OneDeployed
    /\ \A r \in Deployers : Undisturbed(r)
    /\ ReportIsOfTheChain
    /\ \A r \in Deployers : ReportIsMet(r)
-----------------------------------------------------------------------------
(* The deployment: a step of a run that leaves the chain as it is.         *)

\* Only r's record and sending change.
OnlyOf(r) ==
    /\ chain' = chain /\ tool' = tool /\ touched' = touched
    /\ run' \in [Deployers -> RunStates]
    /\ pending' \in [Deployers -> {Null} \cup Sendings]
    /\ \A q \in Deployers \ {r} : run'[q] = run[q] /\ pending'[q] = pending[q]

\* What r must keep, the rest keeps itself.
LEMMA RunKeeps ==
    ASSUME DeployInvariant, NEW r \in Deployers, OnlyOf(r),
           InPlace(r)', Undisturbed(r)', ReportIsMet(r)',
           Deployed(r)' => Deployed(r), run'[r].index >= run[r].index,
           \A k \in 1 .. WriteCount :
              k < run'[r].index \/ (k = run'[r].index /\ HasLanded(r)') =>
                 k < run[r].index \/ (k = run[r].index /\ HasLanded(r))
    PROVE  DeployInvariant'
<1>1. DeployTypes'
    BY DEF DeployInvariant, DeployTypes, OnlyOf
<1>2. ASSUME NEW q \in Deployers, q # r
      PROVE  /\ InPlace(q)' /\ Undisturbed(q)' /\ ReportIsMet(q)'
             /\ (Deployed(q)' <=> Deployed(q)) /\ (HasLanded(q)' <=> HasLanded(q))
             /\ run'[q] = run[q]
    <2>1. /\ run'[q] = run[q] /\ pending'[q] = pending[q]
          /\ chain' = chain /\ tool' = tool /\ touched' = touched
        BY <1>2 DEF OnlyOf
    <2>2. InPlace(q) /\ Undisturbed(q) /\ ReportIsMet(q)
        BY DEF DeployInvariant
    <2>3. InPlace(q)'
        BY <2>1, <2>2 DEF InPlace
    <2>4. (Deployed(q)' <=> Deployed(q)) /\ (HasLanded(q)' <=> HasLanded(q))
        BY <2>1 DEF Deployed, HasLanded
    <2>5. Deploy!LiveStateIsValid' <=> Deploy!LiveStateIsValid
        BY <2>1 DEF Deploy!LiveStateIsValid
    <2>6. Undisturbed(q)'
        BY <2>1, <2>2, <2>4, <2>5 DEF Undisturbed, Paid
    <2>7. ReportIsMet(q)'
        BY <2>1, <2>2 DEF ReportIsMet
    <2> QED  BY <2>1, <2>3, <2>4, <2>6, <2>7
<1>3. \A q \in Deployers : InPlace(q)' /\ Undisturbed(q)' /\ ReportIsMet(q)'
    BY <1>2
<1>4. WritesAreKept'
    <2>1. \A k : Holds(chain, k)' <=> Holds(chain, k)
        BY DEF OnlyOf, Holds, Part
    <2>2. WritesAreKept
        BY DEF DeployInvariant
    <2> SUFFICES ASSUME NEW q \in Deployers, NEW k \in 1 .. WriteCount,
                        k < run'[q].index \/ (k = run'[q].index /\ HasLanded(q)')
                 PROVE  Holds(chain, k)'
        BY DEF WritesAreKept
    <2>3. k < run[q].index \/ (k = run[q].index /\ HasLanded(q))
        BY <1>2
    <2> QED  BY <2>1, <2>2, <2>3 DEF WritesAreKept
<1>5. OneDeployed'
    <2>1. OneDeployed /\ chain' = chain
        BY DEF DeployInvariant, OnlyOf
    <2>2. \A q \in Deployers : Deployed(q)' => Deployed(q)
        BY <1>2
    <2> QED  BY <2>1, <2>2 DEF OneDeployed
<1>6. ReportIsOfTheChain'
    <2>1. ReportIsOfTheChain /\ chain' = chain /\ tool' = tool /\ touched' = touched
        BY DEF DeployInvariant, OnlyOf
    <2>2. \A q \in Deployers : run'[q].index >= run[q].index
        <3> SUFFICES ASSUME NEW q \in Deployers, q # r
                     PROVE  run'[q].index >= run[q].index
            OBVIOUS
        <3>1. run[q].index \in Int
            BY DEF DeployInvariant, DeployTypes, RunStates
        <3> QED  BY <1>2, <3>1
    <2>3. \A q \in Deployers : run'[q].index \in Int /\ run[q].index \in Int
        BY <1>1 DEF DeployInvariant, DeployTypes, RunStates
    <2>4. Deploy!MaximumBudget(tool.resume)' = Deploy!MaximumBudget(tool.resume)
        BY <2>1 DEF Deploy!MaximumBudget
    <2> QED  BY <2>1, <2>2, <2>3, <2>4 DEF ReportIsOfTheChain
<1> QED  BY <1>1, <1>3, <1>4, <1>5, <1>6 DEF DeployInvariant

\* A run that goes on, or that its guard stops.
LEMMA GoesEffect ==
    ASSUME DeployTypes, NEW r \in Deployers, NEW goes \in BOOLEAN,
           NEW to \in {"checked", "cleared", "sent"},
           Deploy!Goes(r, goes, to)
    PROVE  /\ run' \in [Deployers -> RunStates]
           /\ \A q \in Deployers \ {r} : run'[q] = run[q]
           /\ run'[r].index = run[r].index /\ run'[r].alone = run[r].alone
           /\ run'[r].approved = run[r].approved
           /\ goes => /\ run'[r].pc = to /\ run'[r].start = run[r].start
                      /\ run'[r].why = run[r].why
           /\ ~ goes => run'[r].pc = "stopped" /\ run'[r].why = "guard"
<1>1. run \in [Deployers -> RunStates]
    BY DEF DeployTypes
<1>2. CASE goes
    <2>1. run' = [run EXCEPT ![r].pc = to]
        BY <1>2 DEF Deploy!Goes
    <2>2. run' = [run EXCEPT ![r] = [run[r] EXCEPT !.pc = to]]
        BY <2>1
    <2>3. [run[r] EXCEPT !.pc = to] \in RunStates
        BY <1>1 DEF RunStates
    <2> QED  BY <1>1, <1>2, <2>2, <2>3 DEF RunStates
<1>3. CASE ~ goes
    <2>1. run' = [run EXCEPT ![r].pc = "stopped", ![r].why = "guard", ![r].start = 0]
        BY <1>3 DEF Deploy!Goes, Deploy!Stopped
    <2>2. run' = [run EXCEPT ![r] =
                    [run[r] EXCEPT !.pc = "stopped", !.why = "guard", !.start = 0]]
        BY <1>1, <2>1
    <2>3. [run[r] EXCEPT !.pc = "stopped", !.why = "guard", !.start = 0] \in RunStates
        BY <1>1 DEF RunStates
    <2> QED  BY <1>1, <1>3, <2>2, <2>3 DEF RunStates
<1> QED  BY <1>2, <1>3

\* A run that stops.
LEMMA StoppedEffect ==
    ASSUME DeployTypes, NEW r \in Deployers, NEW why \in {"guard", "network"},
           Deploy!Stopped(r, why)
    PROVE  /\ run' \in [Deployers -> RunStates]
           /\ \A q \in Deployers \ {r} : run'[q] = run[q]
           /\ run'[r].index = run[r].index /\ run'[r].alone = run[r].alone
           /\ run'[r].approved = run[r].approved
           /\ run'[r].pc = "stopped" /\ run'[r].why = why
<1>1. run \in [Deployers -> RunStates]
    BY DEF DeployTypes
<1>2. run' = [run EXCEPT ![r] = [run[r] EXCEPT !.pc = "stopped", !.why = why, !.start = 0]]
    <2>1. run' = [run EXCEPT ![r].pc = "stopped", ![r].why = why, ![r].start = 0]
        BY DEF Deploy!Stopped
    <2> QED  BY <1>1, <2>1
<1>3. [run[r] EXCEPT !.pc = "stopped", !.why = why, !.start = 0] \in RunStates
    BY <1>1 DEF RunStates
<1> QED  BY <1>1, <1>2, <1>3 DEF RunStates
\* The facts about a run that its steps need.
LEMMA RunFacts ==
    ASSUME OperationsAssumption, DeployInvariant, NEW r \in Deployers
    PROVE  /\ run[r] \in RunStates /\ pending[r] \in {Null} \cup Sendings
           /\ run \in [Deployers -> RunStates] /\ pending \in [Deployers -> {Null} \cup Sendings]
           /\ DeployTypes /\ InPlace(r) /\ Undisturbed(r) /\ ReportIsMet(r)
           /\ run[r].index \in 0 .. WriteCount + 1 /\ run[r].start \in Nat
           /\ chain.balance \in Nat /\ WriteCount \in Nat \ {0} /\ ProgramRent \in Nat
           /\ Deploy!MaximumDebit = ProgramRent + (WriteCount + 2)
           /\ Deploy!IsFinal(r) <=> run[r].index = WriteCount + 1
           /\ Deploy!Current(r) = Plan[run[r].index]
<1>1. Deploy!IsFinal(r) <=> run[r].index = WriteCount + 1
    BY PlanFacts, Zenon DEF Deploy!IsFinal, Plan
<1>2. Deploy!Current(r) = Plan[run[r].index]
    BY Zenon DEF Deploy!Current, Plan
<1>3. ProgramRent \in Nat
    BY DEF OperationsAssumption
<1> QED  BY <1>1, <1>2, <1>3, PlanFacts, PlanFees
         DEF DeployInvariant, DeployTypes, RunStates, Chains

\* A run begins, or is stopped by the first look at devnet.
LEMMA RunBeginsKeeps ==
    ASSUME OperationsAssumption, DeployInvariant, NEW r \in Deployers, Deploy!RunBegins(r)
    PROVE  DeployInvariant'
<1> DEFINE begun == [pc |-> IF Deploy!LiveStateIsValid THEN "funding" ELSE "stopped",
                     index |-> 0, start |-> 0,
                     why |-> IF Deploy!LiveStateIsValid THEN Null ELSE "guard",
                     alone |-> TRUE, approved |-> tool.pc = "reported" /\ tool.resume]
<1>1. /\ run[r].pc = "off"
      /\ chain' = chain /\ tool' = tool /\ pending' = pending /\ touched' = touched
    BY DEF Deploy!RunBegins
<1>2. run' = [run EXCEPT ![r] = begun]
    <2> DEFINE first == [Deploy!RunInit EXCEPT !.approved = tool.pc = "reported" /\ tool.resume]
    <2>1. run' = [run EXCEPT ![r] = IF Deploy!LiveStateIsValid
                                    THEN [first EXCEPT !.pc = "funding"]
                                    ELSE [first EXCEPT !.pc = "stopped", !.why = "guard"]]
        BY DEF Deploy!RunBegins
    <2>2. first = [pc |-> "off", index |-> 0, start |-> 0, why |-> Null, alone |-> TRUE,
                   approved |-> tool.pc = "reported" /\ tool.resume]
        <3> DEFINE now == tool.pc = "reported" /\ tool.resume
                   no == FALSE
                   yes == TRUE
        <3>1. Deploy!RunInit = [pc |-> "off", index |-> 0, start |-> 0, why |-> Null,
                                alone |-> yes, approved |-> no]
            BY DEF Deploy!RunInit
        <3> HIDE DEF now, no, yes
        <3>2. [Deploy!RunInit EXCEPT !.approved = now] =
                 [pc |-> "off", index |-> 0, start |-> 0, why |-> Null, alone |-> yes,
                  approved |-> now]
            BY <3>1
        <3> QED  BY <3>2 DEF now, yes
    <2> HIDE DEF first
    <2>3. (IF Deploy!LiveStateIsValid THEN [first EXCEPT !.pc = "funding"]
           ELSE [first EXCEPT !.pc = "stopped", !.why = "guard"]) = begun
        BY <2>2
    <2> QED  BY <2>1, <2>3, Zenon
<1>3. tool.resume \in BOOLEAN
    BY DEF DeployInvariant, DeployTypes, ToolStates
<1>4. begun \in RunStates
    BY <1>3, PlanFacts DEF RunStates
<1>5. /\ run' \in [Deployers -> RunStates] /\ run'[r] = begun
      /\ \A q \in Deployers \ {r} : run'[q] = run[q]
      /\ run'[r].pc \in {"funding", "stopped"} /\ run'[r].index = 0 /\ run'[r].alone
      /\ run'[r].pc = "stopped" \/ run'[r].why # "guard"
      /\ run'[r].pc = "funding" => Deploy!LiveStateIsValid
      /\ run'[r].approved => tool.pc = "reported" /\ tool.resume = TRUE
    <2>1. /\ run' \in [Deployers -> RunStates] /\ run'[r] = begun
          /\ \A q \in Deployers \ {r} : run'[q] = run[q]
        <3> HIDE DEF begun
        <3> QED  BY <1>2, <1>4, RunFacts
    <2>2. /\ begun.pc \in {"funding", "stopped"} /\ begun.index = 0 /\ begun.alone
          /\ begun.pc = "funding" => Deploy!LiveStateIsValid
          /\ begun.approved => tool.pc = "reported" /\ tool.resume = TRUE
          /\ begun.pc = "stopped" \/ begun.why = Null
        BY <1>3
    <2>3. Null # "guard"
        BY DEF OperationsAssumption
    <2> HIDE DEF begun
    <2> QED  BY <2>1, <2>2, <2>3
<1>6. pending[r] = Null /\ run[r].index = 0
    BY <1>1, RunFacts DEF InPlace
<1>7. OnlyOf(r)
    BY <1>1, <1>5, RunFacts DEF OnlyOf
<1>8. InPlace(r)'
    BY <1>1, <1>5, <1>6 DEF InPlace, Going
<1>9. Undisturbed(r)'
    <2>1. Deploy!LiveStateIsValid' <=> Deploy!LiveStateIsValid
        BY <1>1 DEF Deploy!LiveStateIsValid
    <2> QED  BY <1>5, <2>1 DEF Undisturbed, Going
<1>10. ReportIsMet(r)'
    BY <1>1, <1>3, <1>5 DEF ReportIsMet, Going
<1>11. ~ HasLanded(r)' /\ ~ Deployed(r)'
    BY <1>1, <1>5, <1>6 DEF HasLanded, Deployed
<1>12. run'[r].index = 0
    BY <1>5
<1> HIDE DEF begun
<1> QED  BY <1>6, <1>7, <1>8, <1>9, <1>10, <1>11, <1>12, RunKeeps

\* A run notes what the payer has; if it began after the report, what was reported.
LEMMA RunIsFundedKeeps ==
    ASSUME OperationsAssumption, DeployInvariant, NEW r \in Deployers, Deploy!RunIsFunded(r)
    PROVE  DeployInvariant'
<1>1. /\ run[r].pc = "funding"
      /\ chain' = chain /\ tool' = tool /\ pending' = pending /\ touched' = touched
    BY DEF Deploy!RunIsFunded
<1>2. pending[r] = Null /\ run[r].index = 0
    BY <1>1, RunFacts DEF InPlace
<1>3. Deploy!LiveStateIsValid' <=> Deploy!LiveStateIsValid
    BY <1>1 DEF Deploy!LiveStateIsValid
<1>4. CASE chain.balance >= Deploy!MaximumDebit
    <2> DEFINE begun == [run[r] EXCEPT !.pc = "ready", !.index = 1, !.start = chain.balance]
    <2>1. run' = [run EXCEPT ![r] = begun]
        <3>1. run' = [run EXCEPT ![r].pc = "ready", ![r].index = 1, ![r].start = chain.balance]
            BY <1>4 DEF Deploy!RunIsFunded
        <3> QED  BY <3>1, RunFacts
    <2>2. begun \in RunStates
        <3>1. run[r] \in RunStates /\ chain.balance \in Nat /\ 1 \in 0 .. WriteCount + 1
            BY RunFacts
        <3> QED  BY <3>1 DEF RunStates
    <2>3. /\ run' \in [Deployers -> RunStates]
          /\ \A q \in Deployers \ {r} : run'[q] = run[q]
          /\ run'[r].pc = "ready" /\ run'[r].index = 1 /\ run'[r].start = chain.balance
          /\ run'[r].why = run[r].why /\ run'[r].alone = run[r].alone
          /\ run'[r].approved = run[r].approved
        BY <2>1, <2>2, RunFacts DEF RunStates
    <2>4. OnlyOf(r)
        BY <1>1, <2>3, RunFacts DEF OnlyOf
    <2>5. InPlace(r)'
        BY <1>1, <1>2, <2>3, RunFacts DEF InPlace, Going
    <2>6. ~ HasLanded(r)' /\ ~ Deployed(r)'
        BY <1>1, <1>2, <2>3 DEF HasLanded, Deployed
    <2>7. Undisturbed(r)'
        <3>1. Paid(r)' = 0
            BY <2>3, <2>6 DEF Paid
        <3>2. chain'.balance = run'[r].start - Paid(r)'
            BY <1>1, <2>3, <3>1, RunFacts
        <3>3. Deploy!MaximumDebit' = Deploy!MaximumDebit
            BY DEF Deploy!MaximumDebit
        <3>4. run[r].why # "guard"
            BY <1>1, RunFacts DEF InPlace
        <3>5. run[r].alone => Deploy!LiveStateIsValid
            BY <1>1, RunFacts DEF Undisturbed
        <3> QED  BY <1>1, <1>3, <1>4, <2>3, <3>2, <3>3, <3>4, <3>5 DEF Undisturbed
    <2>8. ReportIsMet(r)'
        <3> SUFFICES ASSUME run[r].approved
                     PROVE  ReportIsMet(r)'
            BY <2>3 DEF ReportIsMet
        <3>1. /\ tool.pc = "reported" /\ tool.resume = TRUE
              /\ touched \subseteq {r} => run[r].alone
            BY <1>1, RunFacts DEF ReportIsMet, Going
        <3>2. touched \subseteq {r} => touched = {}
            BY <1>2 DEF DeployInvariant, ReportIsOfTheChain
        <3>3. touched \subseteq {r} => chain.balance = tool.remaining + Deploy!MaximumDebit
            BY <3>1, <3>2, PlanFees DEF DeployInvariant, ReportIsOfTheChain
        <3> QED  BY <1>1, <2>3, <3>1, <3>3 DEF ReportIsMet, Going
    <2>9. \A k \in 1 .. WriteCount : ~ (k < run'[r].index)
        BY <2>3, RunFacts
    <2> QED  BY <1>2, <2>3, <2>4, <2>5, <2>6, <2>7, <2>8, <2>9, RunKeeps
<1>5. CASE ~ (chain.balance >= Deploy!MaximumDebit)
    <2>1. Deploy!Stopped(r, "guard")
        BY <1>5 DEF Deploy!RunIsFunded
    <2>2. /\ run' \in [Deployers -> RunStates]
          /\ \A q \in Deployers \ {r} : run'[q] = run[q]
          /\ run'[r].index = run[r].index /\ run'[r].approved = run[r].approved
          /\ run'[r].pc = "stopped"
        BY <2>1, StoppedEffect, RunFacts
    <2>3. OnlyOf(r)
        BY <1>1, <2>2, RunFacts DEF OnlyOf
    <2>4. InPlace(r)'
        BY <1>1, <1>2, <2>2 DEF InPlace, Going
    <2>5. ~ HasLanded(r)' /\ ~ Deployed(r)'
        BY <1>1, <1>2, <2>2 DEF HasLanded, Deployed
    <2>6. Undisturbed(r)'
        BY <1>2, <2>2 DEF Undisturbed, Going
    <2>7. ReportIsMet(r)'
        BY <1>1, <2>2, RunFacts DEF ReportIsMet, Going
    <2> QED  BY <1>2, <2>2, <2>3, <2>4, <2>5, <2>6, <2>7, RunKeeps
<1> QED  BY <1>4, <1>5
\* Null is nothing that was sent.
LEMMA NullIsNoSending ==
    ASSUME OperationsAssumption
    PROVE  Null \notin Sendings
<1>1. {Deploy!Transactions(TRUE)[i] : i \in DOMAIN Deploy!Transactions(TRUE)}
         = {Plan[i] : i \in 1 .. WriteCount + 1}
    BY PlanFacts DEF Plan
<1> QED  BY <1>1 DEF OperationsAssumption, Sendings

\* What a run alone finds before it sends.
LEMMA AloneFinds ==
    ASSUME OperationsAssumption, DeployInvariant, NEW r \in Deployers,
           run[r].pc \in {"ready", "checked", "cleared"}
    PROVE  /\ pending[r] = Null /\ ~ HasLanded(r) /\ ~ Deployed(r)
           /\ run[r].index \in 1 .. WriteCount + 1 /\ run[r].why # "guard"
           /\ run[r].alone =>
                 /\ Deploy!LiveStateIsValid
                 /\ run[r].start >= Deploy!MaximumDebit
                 /\ chain.balance = run[r].start - (run[r].index - 1)
<1>1. pending[r] = Null /\ run[r].index \in 1 .. WriteCount + 1 /\ run[r].why # "guard"
    BY RunFacts DEF InPlace, Going
<1>2. ~ HasLanded(r) /\ ~ Deployed(r)
    BY <1>1 DEF HasLanded, Deployed
<1>3. Paid(r) = run[r].index - 1
    BY <1>1, <1>2 DEF Paid
<1>4. run[r].alone =>
         /\ Deploy!LiveStateIsValid
         /\ run[r].start >= Deploy!MaximumDebit
         /\ chain.balance = run[r].start - Paid(r)
    BY <1>2, RunFacts DEF Undisturbed, Going
<1> QED  BY <1>1, <1>2, <1>3, <1>4

\* An assertion between two sends that holds for a run alone.
LEMMA GuardKeeps ==
    ASSUME OperationsAssumption, DeployInvariant, NEW r \in Deployers, NEW goes \in BOOLEAN,
           NEW to \in {"checked", "cleared"}, run[r].pc \in {"ready", "checked"},
           Deploy!Goes(r, goes, to), run[r].alone => goes,
           chain' = chain, tool' = tool, pending' = pending, touched' = touched
    PROVE  DeployInvariant'
<1>1. /\ run' \in [Deployers -> RunStates]
      /\ \A q \in Deployers \ {r} : run'[q] = run[q]
      /\ run'[r].index = run[r].index /\ run'[r].alone = run[r].alone
      /\ run'[r].approved = run[r].approved
      /\ goes => run'[r].pc = to /\ run'[r].start = run[r].start /\ run'[r].why = run[r].why
      /\ ~ goes => run'[r].pc = "stopped" /\ run'[r].why = "guard"
    BY GoesEffect, RunFacts
<1>2. /\ pending[r] = Null /\ ~ HasLanded(r) /\ ~ Deployed(r)
      /\ run[r].index \in 1 .. WriteCount + 1 /\ run[r].why # "guard"
    BY AloneFinds
<1>3. OnlyOf(r)
    BY <1>1, RunFacts DEF OnlyOf
<1>4. InPlace(r)'
    <2>1. run'[r].pc = to \/ run'[r].pc = "stopped"
        BY <1>1
    <2> QED  BY <1>1, <1>2, <2>1 DEF InPlace, Going
<1>5. ~ HasLanded(r)' /\ ~ Deployed(r)'
    BY <1>1, <1>2 DEF HasLanded, Deployed
<1>6. Undisturbed(r)'
    <2>1. Deploy!LiveStateIsValid' <=> Deploy!LiveStateIsValid
        BY DEF Deploy!LiveStateIsValid
    <2>2. Paid(r)' = Paid(r)
        BY <1>1, <1>2, <1>5 DEF Paid
    <2>3. Deploy!MaximumDebit' = Deploy!MaximumDebit
        BY DEF Deploy!MaximumDebit
    <2>4. Undisturbed(r)
        BY RunFacts
    <2>5. CASE ~ run[r].alone
        BY <1>1, <2>5 DEF Undisturbed
    <2>6. CASE run[r].alone
        BY <1>1, <1>2, <2>1, <2>2, <2>3, <2>4, <2>6 DEF Undisturbed, Going
    <2> QED  BY <2>5, <2>6
<1>7. ReportIsMet(r)'
    <2>1. ReportIsMet(r)
        BY RunFacts
    <2>2. run'[r].pc \in {"checked", "cleared", "stopped"}
        BY <1>1
    <2>3. run'[r].pc \in Going => run'[r].start = run[r].start
        BY <1>1 DEF Going
    <2> QED  BY <1>1, <2>1, <2>2, <2>3 DEF ReportIsMet, Going
<1> QED  BY <1>1, <1>2, <1>3, <1>4, <1>5, <1>6, <1>7, RunFacts, RunKeeps

\* A look at devnet.
LEMMA RunRevalidatesKeeps ==
    ASSUME OperationsAssumption, DeployInvariant, NEW r \in Deployers, Deploy!RunRevalidates(r)
    PROVE  DeployInvariant'
<1>1. /\ run[r].pc = "ready" /\ Deploy!Goes(r, Deploy!LiveStateIsValid, "checked")
      /\ chain' = chain /\ tool' = tool /\ pending' = pending /\ touched' = touched
    BY DEF Deploy!RunRevalidates
<1>2. run[r].alone => Deploy!LiveStateIsValid
    BY <1>1, AloneFinds
<1>3. Deploy!LiveStateIsValid \in BOOLEAN
    BY DEF Deploy!LiveStateIsValid
<1> QED  BY <1>1, <1>2, <1>3, GuardKeeps

\* A look at the ceiling, which what a run alone paid is under.
LEMMA RunChecksCeilingKeeps ==
    ASSUME OperationsAssumption, DeployInvariant, NEW r \in Deployers, Deploy!RunChecksCeiling(r)
    PROVE  DeployInvariant'
<1> DEFINE toCome == IF Deploy!IsFinal(r) THEN ProgramRent + Deploy!Fee(Deploy!DeployTx) ELSE 0
           holds == run[r].start - chain.balance + toCome <= Deploy!MaximumDebit
<1>1. /\ run[r].pc = "checked" /\ Deploy!Goes(r, holds, "cleared")
      /\ chain' = chain /\ tool' = tool /\ pending' = pending /\ touched' = touched
    BY DEF Deploy!RunChecksCeiling
<1>2. run[r].alone => holds
    <2> SUFFICES ASSUME run[r].alone
                 PROVE  holds
        OBVIOUS
    <2>1. /\ run[r].index \in 1 .. WriteCount + 1
          /\ chain.balance = run[r].start - (run[r].index - 1)
        BY <1>1, AloneFinds
    <2>2. toCome = IF run[r].index = WriteCount + 1 THEN ProgramRent + 2 ELSE 0
        BY RunFacts DEF Deploy!Fee, Deploy!DeployTx
    <2> HIDE DEF toCome
    <2>3. /\ run[r].start \in Nat /\ chain.balance \in Nat /\ WriteCount \in Nat
          /\ ProgramRent \in Nat /\ Deploy!MaximumDebit = ProgramRent + (WriteCount + 2)
        BY RunFacts
    <2>4. run[r].start - chain.balance = run[r].index - 1
        BY <2>1, <2>3
    <2>5. run[r].start - chain.balance + toCome <= ProgramRent + (WriteCount + 2)
        BY <2>1, <2>2, <2>3, <2>4
    <2> QED  BY <2>3, <2>5
<1>3. holds \in BOOLEAN
    OBVIOUS
<1> HIDE DEF holds
<1> QED  BY <1>1, <1>2, <1>3, GuardKeeps

\* What a run alone sends is paid for, and the chain is as it must be.
LEMMA AloneLands ==
    ASSUME OperationsAssumption, DeployInvariant, NEW r \in Deployers,
           run[r].index \in 1 .. WriteCount + 1,
           Deploy!LiveStateIsValid, run[r].start >= Deploy!MaximumDebit,
           chain.balance = run[r].start - (run[r].index - 1)
    PROVE  Deploy!Lands(Plan[run[r].index], chain)
<1>1. chain.program = Null /\ chain.buffer # Null
    BY DEF Deploy!LiveStateIsValid
<1>2. /\ run[r].start \in Nat /\ chain.balance \in Nat /\ WriteCount \in Nat
      /\ ProgramRent \in Nat /\ Deploy!MaximumDebit = ProgramRent + (WriteCount + 2)
    BY RunFacts
<1>3. CASE run[r].index = WriteCount + 1
    <2>1. Plan[run[r].index] = Deploy!DeployTx
        BY <1>3, PlanFacts
    <2>2. chain.balance >= 2 + ProgramRent /\ chain.balance >= 2
        BY <1>2, <1>3
    <2> QED  BY <1>1, <2>1, <2>2 DEF Deploy!Lands, Deploy!Fee, Deploy!DeployTx
<1>4. CASE run[r].index \in 1 .. WriteCount
    <2>1. Plan[run[r].index].kind = "loader-write"
        BY <1>4, PlanFacts
    <2>2. chain.balance >= 1
        BY <1>2, <1>4
    <2> QED  BY <1>1, <2>1, <2>2 DEF Deploy!Lands, Deploy!Fee
<1> QED  BY <1>2, <1>3, <1>4

\* What a run sends has no result yet; one alone finds that it will land.
LEMMA RunSendsKeeps ==
    ASSUME OperationsAssumption, DeployInvariant, NEW r \in Deployers, Deploy!RunSends(r)
    PROVE  DeployInvariant'
<1> DEFINE lands == Deploy!Lands(Deploy!Current(r), chain)
           sending == [tx |-> Plan[run[r].index], result |-> Null]
<1>1. /\ run[r].pc \in {"ready", "checked", "cleared"} /\ Deploy!Goes(r, lands, "sent")
      /\ chain' = chain /\ tool' = tool /\ touched' = touched
      /\ pending' = IF lands THEN [pending EXCEPT ![r] = sending] ELSE pending
    BY RunFacts DEF Deploy!RunSends
<1>2. /\ pending[r] = Null /\ ~ HasLanded(r) /\ ~ Deployed(r)
      /\ run[r].index \in 1 .. WriteCount + 1 /\ run[r].why # "guard"
      /\ run[r].alone =>
            /\ Deploy!LiveStateIsValid
            /\ run[r].start >= Deploy!MaximumDebit
            /\ chain.balance = run[r].start - (run[r].index - 1)
    BY <1>1, AloneFinds
<1>3. lands \in BOOLEAN
    BY DEF Deploy!Lands
<1>4. run[r].alone => lands
    BY <1>2, AloneLands, RunFacts
<1>5. sending \in Sendings
    BY <1>2 DEF Sendings
<1>6. sending # Null
    BY <1>5, NullIsNoSending
<1> HIDE DEF lands, sending
<1>7. /\ run' \in [Deployers -> RunStates]
      /\ \A q \in Deployers \ {r} : run'[q] = run[q]
      /\ run'[r].index = run[r].index /\ run'[r].alone = run[r].alone
      /\ run'[r].approved = run[r].approved
      /\ lands => /\ run'[r].pc = "sent" /\ run'[r].start = run[r].start
                  /\ run'[r].why = run[r].why
      /\ ~ lands => run'[r].pc = "stopped" /\ run'[r].why = "guard"
    BY <1>1, <1>3, GoesEffect, RunFacts
<1>8. /\ pending' \in [Deployers -> {Null} \cup Sendings]
      /\ \A q \in Deployers \ {r} : pending'[q] = pending[q]
      /\ pending'[r] = IF lands THEN sending ELSE Null
    BY <1>1, <1>2, <1>5, RunFacts
<1>9. OnlyOf(r)
    BY <1>1, <1>7, <1>8 DEF OnlyOf
<1>10. pending'[r] # Null => pending'[r].tx = Plan[run[r].index] /\ pending'[r].result = Null
    BY <1>8 DEF sending
<1>11. Null # "landed" /\ Null # "failed"
    BY DEF OperationsAssumption
<1>12. ~ HasLanded(r)' /\ ~ Deployed(r)'
    <2>1. ~ HasLanded(r)'
        BY <1>10, <1>11 DEF HasLanded
    <2> QED  BY <1>7, <2>1 DEF Deployed
<1>13. InPlace(r)'
    BY <1>2, <1>6, <1>7, <1>8, <1>10 DEF InPlace, Going
<1>14. Undisturbed(r)'
    <2>1. Deploy!LiveStateIsValid' <=> Deploy!LiveStateIsValid
        BY <1>1 DEF Deploy!LiveStateIsValid
    <2>2. Paid(r)' = run[r].index - 1
        BY <1>2, <1>7, <1>12 DEF Paid
    <2>3. Deploy!MaximumDebit' = Deploy!MaximumDebit
        BY DEF Deploy!MaximumDebit
    <2>4. CASE ~ run[r].alone
        BY <1>7, <2>4 DEF Undisturbed
    <2>5. CASE run[r].alone
        BY <1>1, <1>2, <1>4, <1>6, <1>7, <1>8, <1>10, <1>11, <2>1, <2>2, <2>3, <2>5
           DEF Undisturbed, Going
    <2> QED  BY <2>4, <2>5
<1>15. ReportIsMet(r)'
    <2>1. ReportIsMet(r)
        BY RunFacts
    <2>2. run'[r].pc \in {"sent", "stopped"}
        BY <1>7
    <2>3. run'[r].pc \in Going => run'[r].start = run[r].start
        BY <1>7 DEF Going
    <2> QED  BY <1>1, <1>7, <2>1, <2>2, <2>3 DEF ReportIsMet, Going
<1> QED  BY <1>2, <1>7, <1>9, <1>12, <1>13, <1>14, <1>15, RunFacts, RunKeeps
\* A transaction expires that its run still waits for, or not.
LEMMA TransactionExpiresKeeps ==
    ASSUME OperationsAssumption, DeployInvariant, NEW r \in Deployers,
           Deploy!TransactionExpires(r)
    PROVE  DeployInvariant'
<1> DEFINE expired == [pending[r] EXCEPT !.result = "expired"]
<1>1. /\ pending[r] # Null /\ pending[r].result = Null
      /\ chain' = chain /\ tool' = tool /\ run' = run /\ touched' = touched
      /\ pending' = IF run[r].pc = "sent" THEN [pending EXCEPT ![r] = expired]
                    ELSE [pending EXCEPT ![r] = Null]
    BY DEF Deploy!TransactionExpires, Deploy!IsPending, Deploy!Answered
<1>2. /\ expired \in Sendings /\ expired.tx = pending[r].tx /\ expired.result = "expired"
    BY <1>1, RunFacts DEF Sendings
<1>3. expired # Null
    BY <1>2, NullIsNoSending
<1> HIDE DEF expired
<1>4. /\ pending' \in [Deployers -> {Null} \cup Sendings]
      /\ \A q \in Deployers \ {r} : pending'[q] = pending[q]
      /\ pending'[r] = IF run[r].pc = "sent" THEN expired ELSE Null
    BY <1>1, <1>2, RunFacts
<1>5. OnlyOf(r)
    BY <1>1, <1>4, RunFacts DEF OnlyOf
<1>6. Null # "landed"
    BY DEF OperationsAssumption
<1>7. ~ HasLanded(r)' /\ ~ HasLanded(r) /\ (Deployed(r)' <=> Deployed(r))
    <2>1. ~ HasLanded(r)' /\ ~ HasLanded(r)
        BY <1>1, <1>2, <1>4, <1>6 DEF HasLanded
    <2> QED  BY <1>1, <2>1 DEF Deployed
<1>8. InPlace(r)'
    BY <1>1, <1>2, <1>3, <1>4, RunFacts DEF InPlace, Going
<1>9. Undisturbed(r)'
    <2>1. Deploy!LiveStateIsValid' <=> Deploy!LiveStateIsValid
        BY <1>1 DEF Deploy!LiveStateIsValid
    <2>2. Paid(r)' = Paid(r)
        BY <1>1, <1>7 DEF Paid, Deploy!MaximumDebit
    <2>3. Deploy!MaximumDebit' = Deploy!MaximumDebit
        BY DEF Deploy!MaximumDebit
    <2>4. run[r].pc = "sent" => pending'[r].result # "failed"
        BY <1>2, <1>4
    <2> QED  BY <1>1, <1>7, <2>1, <2>2, <2>3, <2>4, RunFacts DEF Undisturbed
<1>10. ReportIsMet(r)'
    BY <1>1, RunFacts DEF ReportIsMet
<1> QED  BY <1>1, <1>5, <1>7, <1>8, <1>9, <1>10, RunFacts, RunKeeps

\* A run goes on to its next transaction, ends, or stops where it failed.
LEMMA RunConfirmsKeeps ==
    ASSUME OperationsAssumption, DeployInvariant, NEW r \in Deployers, Deploy!RunConfirms(r)
    PROVE  DeployInvariant'
<1>1. /\ run[r].pc = "sent" /\ pending[r] # Null /\ pending[r].result # Null
      /\ chain' = chain /\ tool' = tool /\ touched' = touched
      /\ pending' = [pending EXCEPT ![r] = Null]
    BY RunFacts DEF Deploy!RunConfirms, Deploy!IsPending, InPlace
<1>2. /\ pending' \in [Deployers -> {Null} \cup Sendings]
      /\ \A q \in Deployers \ {r} : pending'[q] = pending[q]
      /\ pending'[r] = Null
    BY <1>1, RunFacts
<1>3. /\ run[r].index \in 1 .. WriteCount + 1 /\ run[r].why # "guard"
    BY <1>1, RunFacts DEF InPlace
<1>4. ~ HasLanded(r)'
    BY <1>2 DEF HasLanded
<1>5. Deploy!LiveStateIsValid' <=> Deploy!LiveStateIsValid
    BY <1>1 DEF Deploy!LiveStateIsValid
<1>6. Deploy!MaximumDebit' = Deploy!MaximumDebit
    BY DEF Deploy!MaximumDebit
<1>7. CASE pending[r].result = "landed"
    <2> DEFINE final == run[r].index = WriteCount + 1
               to == IF final THEN "deployed" ELSE "ready"
               next == IF final THEN run[r].index ELSE run[r].index + 1
               confirmed == [run[r] EXCEPT !.pc = to, !.index = next]
    <2>1. run' = [run EXCEPT ![r] = confirmed]
        <3>1. run' = [run EXCEPT ![r].pc = to, ![r].index = IF final THEN @ ELSE @ + 1]
            BY <1>7, RunFacts DEF Deploy!RunConfirms
        <3> QED  BY <3>1, RunFacts
    <2>2. next \in 1 .. WriteCount + 1 /\ to \in {"deployed", "ready"}
        BY <1>3, RunFacts
    <2>3. confirmed \in RunStates
        <3>1. next \in 0 .. WriteCount + 1 /\ run[r] \in RunStates
            BY <2>2, RunFacts
        <3> HIDE DEF to, next
        <3> QED  BY <2>2, <3>1 DEF RunStates
    <2>4. /\ run' \in [Deployers -> RunStates]
          /\ \A q \in Deployers \ {r} : run'[q] = run[q]
          /\ run'[r].pc = to /\ run'[r].index = next /\ run'[r].start = run[r].start
          /\ run'[r].why = run[r].why /\ run'[r].alone = run[r].alone
          /\ run'[r].approved = run[r].approved
        <3> HIDE DEF to, next
        <3> QED  BY <2>1, <2>3, RunFacts DEF RunStates
    <2>5. OnlyOf(r)
        BY <1>1, <1>2, <2>4 DEF OnlyOf
    <2>6. InPlace(r)'
        BY <1>2, <1>3, <2>2, <2>4 DEF InPlace, Going
    <2>7. HasLanded(r) /\ (Deployed(r) <=> final) /\ (Deployed(r)' <=> final)
        <3>1. HasLanded(r) /\ (Deployed(r) <=> final)
            BY <1>1, <1>7 DEF HasLanded, Deployed
        <3>2. Deployed(r)' <=> run'[r].pc = "deployed"
            BY <1>4, <2>4 DEF Deployed
        <3> QED  BY <2>4, <3>1, <3>2
    <2>8. Undisturbed(r)'
        <3>1. Paid(r)' = Paid(r)
            <4>1. CASE final
                BY <2>7, <4>1, <1>6 DEF Paid
            <4>2. CASE ~ final
                <5>1. Paid(r) = run[r].index - 1 + 1
                    BY <2>7, <4>2 DEF Paid
                <5>2. run'[r].index = run[r].index + 1
                    BY <2>4, <4>2
                <5>3. Paid(r)' = run'[r].index - 1 + 0
                    BY <1>4, <2>7, <4>2 DEF Paid
                <5> QED  BY <1>3, <5>1, <5>2, <5>3
            <4> QED  BY <4>1, <4>2
        <3>2. /\ run'[r].pc \in Going /\ run'[r].pc # "sent" /\ run'[r].pc # "funding"
              /\ run'[r].why # "guard"
            BY <1>3, <2>2, <2>4 DEF Going
        <3>3. run[r].alone =>
                 /\ run[r].start >= Deploy!MaximumDebit
                 /\ chain.balance = run[r].start - Paid(r)
                 /\ ~ Deployed(r) => Deploy!LiveStateIsValid
            BY <1>1, RunFacts DEF Undisturbed, Going
        <3> QED  BY <1>1, <1>5, <1>6, <2>4, <2>7, <3>1, <3>2, <3>3 DEF Undisturbed
    <2>9. ReportIsMet(r)'
        <3>1. ReportIsMet(r)
            BY RunFacts
        <3>2. run'[r].pc \in {"deployed", "ready"}
            BY <2>2, <2>4
        <3> QED  BY <1>1, <2>4, <3>1, <3>2 DEF ReportIsMet, Going
    <2>10. \A k \in 1 .. WriteCount : k < run'[r].index => k < run[r].index \/ k = run[r].index
        BY <1>3, <2>4, RunFacts
    <2>11. run'[r].index >= run[r].index
        BY <1>3, <2>4
    <2> HIDE DEF final
    <2> QED  BY <1>4, <2>5, <2>6, <2>7, <2>8, <2>9, <2>10, <2>11, RunKeeps
<1>8. CASE pending[r].result # "landed"
    <2>1. Deploy!Stopped(r, IF pending[r].result = "failed" THEN "guard" ELSE "network")
        BY <1>8 DEF Deploy!RunConfirms
    <2>2. /\ run' \in [Deployers -> RunStates]
          /\ \A q \in Deployers \ {r} : run'[q] = run[q]
          /\ run'[r].index = run[r].index /\ run'[r].alone = run[r].alone
          /\ run'[r].approved = run[r].approved /\ run'[r].pc = "stopped"
          /\ run'[r].why = IF pending[r].result = "failed" THEN "guard" ELSE "network"
        BY <2>1, StoppedEffect, RunFacts
    <2>3. OnlyOf(r)
        BY <1>1, <1>2, <2>2 DEF OnlyOf
    <2>4. InPlace(r)'
        BY <1>2, <2>2 DEF InPlace, Going
    <2>5. ~ Deployed(r)'
        BY <1>4, <2>2 DEF Deployed
    <2>6. Undisturbed(r)'
        <3>1. run[r].alone => pending[r].result # "failed"
            BY <1>1, RunFacts DEF Undisturbed, Going
        <3> QED  BY <2>2, <3>1 DEF Undisturbed, Going
    <2>7. ReportIsMet(r)'
        BY <1>1, <2>2, RunFacts DEF ReportIsMet, Going
    <2> QED  BY <1>3, <1>4, <2>2, <2>3, <2>4, <2>5, <2>6, <2>7, RunKeeps
<1> QED  BY <1>7, <1>8

\* The last look at the ceiling, which a run alone meets exactly.
LEMMA RunCompletesKeeps ==
    ASSUME OperationsAssumption, DeployInvariant, NEW r \in Deployers, Deploy!RunCompletes(r)
    PROVE  DeployInvariant'
<1> DEFINE holds == run[r].start - chain.balance <= Deploy!MaximumDebit
<1>1. /\ run[r].pc = "deployed" /\ chain' = chain /\ tool' = tool /\ touched' = touched
      /\ pending' = pending
      /\ IF holds THEN run' = [run EXCEPT ![r].pc = "done", ![r].start = 0]
         ELSE Deploy!Stopped(r, "guard")
    BY DEF Deploy!RunCompletes
<1>2. /\ pending[r] = Null /\ run[r].index = WriteCount + 1 /\ run[r].why # "guard"
      /\ Deployed(r)
    BY <1>1, RunFacts DEF InPlace, Deployed
<1>3. ~ HasLanded(r) /\ ~ HasLanded(r)'
    BY <1>1, <1>2 DEF HasLanded
<1>4. run[r].alone => holds /\ chain.balance = run[r].start - Deploy!MaximumDebit
    <2> SUFFICES ASSUME run[r].alone
                 PROVE  holds /\ chain.balance = run[r].start - Deploy!MaximumDebit
        OBVIOUS
    <2>1. chain.balance = run[r].start - Deploy!MaximumDebit
        BY <1>1, <1>2, RunFacts DEF Undisturbed, Going, Paid
    <2>2. /\ run[r].start \in Nat /\ chain.balance \in Nat /\ WriteCount \in Nat
          /\ ProgramRent \in Nat /\ Deploy!MaximumDebit = ProgramRent + (WriteCount + 2)
        BY RunFacts
    <2> QED  BY <2>1, <2>2
<1> HIDE DEF holds
<1>5. /\ run' \in [Deployers -> RunStates]
      /\ \A q \in Deployers \ {r} : run'[q] = run[q]
      /\ run'[r].index = run[r].index /\ run'[r].alone = run[r].alone
      /\ run'[r].approved = run[r].approved
      /\ holds => run'[r].pc = "done" /\ run'[r].why = run[r].why
      /\ ~ holds => run'[r].pc = "stopped"
    <2>1. CASE holds
        <3> DEFINE done == [run[r] EXCEPT !.pc = "done", !.start = 0]
        <3>1. run' = [run EXCEPT ![r] = done]
            <4>1. run' = [run EXCEPT ![r].pc = "done", ![r].start = 0]
                BY <1>1, <2>1
            <4> QED  BY <4>1, RunFacts
        <3>2. done \in RunStates
            BY RunFacts DEF RunStates
        <3> QED  BY <2>1, <3>1, <3>2, RunFacts DEF RunStates
    <2>2. CASE ~ holds
        BY <1>1, <2>2, StoppedEffect, RunFacts
    <2> QED  BY <2>1, <2>2
<1>6. OnlyOf(r)
    BY <1>1, <1>5, RunFacts DEF OnlyOf
<1>7. InPlace(r)'
    BY <1>1, <1>2, <1>5 DEF InPlace, Going
<1>8. Undisturbed(r)'
    BY <1>2, <1>4, <1>5 DEF Undisturbed, Going
<1>9. ReportIsMet(r)'
    <2> SUFFICES ASSUME run[r].approved
                 PROVE  ReportIsMet(r)'
        BY <1>5 DEF ReportIsMet
    <2>1. /\ tool.pc = "reported" /\ tool.resume = TRUE
          /\ touched \subseteq {r} =>
                run[r].alone /\ run[r].start = tool.remaining + Deploy!MaximumDebit
        BY <1>1, RunFacts DEF ReportIsMet, Going
    <2>2. touched \subseteq {r} => chain.balance = tool.remaining
        <3>1. /\ ProgramRent + (WriteCount + 2) \in Int /\ tool.remaining \in Int
              /\ Deploy!MaximumDebit = ProgramRent + (WriteCount + 2)
            BY RunFacts DEF DeployInvariant, DeployTypes, ToolStates
        <3> QED  BY <1>4, <2>1, <3>1
    <2> QED  BY <1>1, <1>5, <2>1, <2>2 DEF ReportIsMet, Going
<1> QED  BY <1>2, <1>3, <1>5, <1>6, <1>7, <1>8, <1>9, RunFacts, RunKeeps

\* A run dies; what it sent stays sent.
LEMMA RunCrashesKeeps ==
    ASSUME OperationsAssumption, DeployInvariant, NEW r \in Deployers, Deploy!RunCrashes(r)
    PROVE  DeployInvariant'
<1>1. /\ run[r].pc \notin {"off", "stopped", "done"} /\ Deploy!Stopped(r, "network")
      /\ chain' = chain /\ tool' = tool /\ touched' = touched
      /\ pending' = IF pending[r] # Null /\ pending[r].result = Null THEN pending
                    ELSE [pending EXCEPT ![r] = Null]
    BY DEF Deploy!RunCrashes, Deploy!IsPending
<1>2. /\ run' \in [Deployers -> RunStates]
      /\ \A q \in Deployers \ {r} : run'[q] = run[q]
      /\ run'[r].index = run[r].index /\ run'[r].approved = run[r].approved
      /\ run'[r].pc = "stopped" /\ run'[r].why = "network"
    BY <1>1, StoppedEffect, RunFacts
<1>3. /\ pending' \in [Deployers -> {Null} \cup Sendings]
      /\ \A q \in Deployers \ {r} : pending'[q] = pending[q]
      /\ pending'[r] = IF pending[r] # Null /\ pending[r].result = Null THEN pending[r]
                       ELSE Null
    BY <1>1, RunFacts
<1>4. OnlyOf(r)
    BY <1>1, <1>2, <1>3 DEF OnlyOf
<1>5. Null # "landed"
    BY DEF OperationsAssumption
<1>6. ~ HasLanded(r)' /\ ~ Deployed(r)'
    <2>1. ~ HasLanded(r)'
        BY <1>3, <1>5 DEF HasLanded
    <2> QED  BY <1>2, <2>1 DEF Deployed
<1>7. InPlace(r)'
    BY <1>2, <1>3, RunFacts DEF InPlace, Going
<1>8. Undisturbed(r)'
    BY <1>2 DEF Undisturbed, Going
<1>9. ReportIsMet(r)'
    BY <1>1, <1>2, RunFacts DEF ReportIsMet, Going
<1> QED  BY <1>2, <1>4, <1>6, <1>7, <1>8, <1>9, RunFacts, RunKeeps
-----------------------------------------------------------------------------
(* The deployment: the steps of the tool.                                  *)

\* While the tool has not reported, no run began after its report.
LEMMA ToolKeeps ==
    ASSUME DeployInvariant, tool.pc \in {"off", "reading"},
           chain' = chain, run' = run, pending' = pending,
           tool' \in ToolStates, ReportIsOfTheChain'
    PROVE  DeployInvariant'
<1>1. DeployTypes'
    BY DEF DeployInvariant, DeployTypes
<1>2. ASSUME NEW r \in Deployers
      PROVE  InPlace(r)' /\ Undisturbed(r)' /\ ReportIsMet(r)'
    <2>1. InPlace(r) /\ Undisturbed(r) /\ ReportIsMet(r)
        BY DEF DeployInvariant
    <2>2. InPlace(r)'
        BY <2>1 DEF InPlace
    <2>3. (Deployed(r)' <=> Deployed(r)) /\ (HasLanded(r)' <=> HasLanded(r))
        BY DEF Deployed, HasLanded
    <2>4. Undisturbed(r)'
        BY <2>1, <2>3 DEF Undisturbed, Paid, Deploy!LiveStateIsValid, Deploy!MaximumDebit
    <2>5. ReportIsMet(r)'
        BY <2>1 DEF ReportIsMet
    <2> QED  BY <2>2, <2>4, <2>5
<1>3. WritesAreKept'
    BY DEF DeployInvariant, WritesAreKept, HasLanded, Holds, Part
<1>4. OneDeployed'
    BY DEF DeployInvariant, OneDeployed, Deployed, HasLanded
<1> QED  BY <1>1, <1>2, <1>3, <1>4 DEF DeployInvariant

\* The tool begins with nothing read.
LEMMA ConstructBeginsKeeps ==
    ASSUME OperationsAssumption, DeployInvariant, Deploy!ConstructBegins
    PROVE  DeployInvariant'
<1>1. /\ tool.pc = "off" /\ chain' = chain /\ run' = run /\ pending' = pending
      /\ touched' = touched
    BY DEF Deploy!ConstructBegins
<1>2. PICK resume \in BOOLEAN :
         tool' = [pc |-> "reading", resume |-> resume, read |-> {}, remaining |-> 0,
                  seen |-> [program |-> Null, buffer |-> Null, balance |-> 0]]
    BY DEF Deploy!ConstructBegins, Deploy!ToolAt
<1>3. tool' \in ToolStates
    BY <1>2 DEF ToolStates, Chains
<1>4. ReportIsOfTheChain'
    BY <1>1, <1>2 DEF DeployInvariant, ReportIsOfTheChain
<1> QED  BY <1>1, <1>3, <1>4, ToolKeeps

\* What the tool has read is on the chain, as long as nobody touches it.
LEMMA ConstructReadsKeeps ==
    ASSUME OperationsAssumption, DeployInvariant, Deploy!ConstructReads
    PROVE  DeployInvariant'
<1>1. /\ tool.pc = "reading" /\ chain' = chain /\ run' = run /\ pending' = pending
      /\ touched' = IF tool.read = {} THEN {} ELSE touched
    BY DEF Deploy!ConstructReads
<1>2. PICK field \in Deploy!Accounts \ tool.read :
         tool' = [tool EXCEPT !.read = @ \cup {field}, !.seen[field] = chain[field]]
    BY DEF Deploy!ConstructReads
<1> DEFINE seen == [tool.seen EXCEPT ![field] = chain[field]]
<1>3. tool \in ToolStates /\ chain \in Chains
    BY DEF DeployInvariant, DeployTypes
<1>4. field \in {"program", "buffer", "balance"}
    BY DEF Deploy!Accounts
<1>5. seen \in Chains
    <2>1. tool.seen \in Chains
        BY <1>3 DEF ToolStates
    <2>2. CASE field = "program"
        BY <1>3, <2>1, <2>2 DEF Chains
    <2>3. CASE field = "buffer"
        BY <1>3, <2>1, <2>3 DEF Chains
    <2>4. CASE field = "balance"
        BY <1>3, <2>1, <2>4 DEF Chains
    <2> QED  BY <1>4, <2>2, <2>3, <2>4
<1>6. \A f \in Deploy!Accounts : seen[f] = IF f = field THEN chain[f] ELSE tool.seen[f]
    <2>1. DOMAIN tool.seen = Deploy!Accounts
        BY <1>3 DEF ToolStates, Chains, Deploy!Accounts
    <2> QED  BY <2>1
<1>7. /\ tool'.pc = "reading" /\ tool'.read = tool.read \cup {field} /\ tool'.seen = seen
      /\ tool' \in ToolStates
    <2>1. tool' = [tool EXCEPT !.read = @ \cup {field}, !.seen = seen]
        BY <1>2, <1>3 DEF ToolStates
    <2> HIDE DEF seen
    <2> QED  BY <1>1, <1>3, <1>5, <2>1 DEF ToolStates
<1> HIDE DEF seen
<1>8. ReportIsOfTheChain'
    <2>1. ReportIsOfTheChain
        BY DEF DeployInvariant
    <2>2. ASSUME touched' = {}, NEW f \in tool'.read
          PROVE  tool'.seen[f] = chain'[f]
        <3>1. f \in Deploy!Accounts
            BY <1>7 DEF ToolStates
        <3>2. CASE f = field
            BY <1>1, <1>6, <1>7, <3>1, <3>2
        <3>3. CASE f # field
            <4>1. f \in tool.read /\ touched = {}
                BY <1>1, <1>7, <2>2, <3>3
            <4>2. tool.seen[f] = chain[f]
                BY <1>1, <2>1, <4>1 DEF ReportIsOfTheChain
            <4> QED  BY <1>1, <1>6, <1>7, <3>1, <3>3, <4>2
        <3> QED  BY <3>2, <3>3
    <2>3. \A r \in Deployers : r \in touched' => run'[r].index >= 1
        BY <1>1, <2>1 DEF ReportIsOfTheChain
    <2> QED  BY <1>7, <2>2, <2>3 DEF ReportIsOfTheChain
<1> QED  BY <1>1, <1>7, <1>8, ToolKeeps

\* What the tool reports is what the chain, untouched, will be left with.
LEMMA ConstructReportsKeeps ==
    ASSUME OperationsAssumption, DeployInvariant, Deploy!ConstructReports
    PROVE  DeployInvariant'
<1> DEFINE left == tool.seen.balance - Deploy!MaximumBudget(tool.resume)
           none == [program |-> Null, buffer |-> Null, balance |-> 0]
<1>1. /\ tool.pc = "reading" /\ tool.read = Deploy!Accounts
      /\ chain' = chain /\ run' = run /\ pending' = pending /\ touched' = touched
    BY DEF Deploy!ConstructReports
<1>2. \/ tool' = [pc |-> "reported", resume |-> tool.resume, read |-> {}, remaining |-> left,
                  seen |-> none]
      \/ tool' = [pc |-> "failed", resume |-> tool.resume, read |-> {}, remaining |-> 0,
                  seen |-> none]
    BY DEF Deploy!ConstructReports, Deploy!ToolAt, Deploy!Remaining
<1>3. tool.resume \in BOOLEAN /\ tool.seen \in Chains
    BY DEF DeployInvariant, DeployTypes, ToolStates
<1>4. Deploy!MaximumBudget(tool.resume) \in Int /\ tool.seen.balance \in Int
    BY <1>3, BudgetsAreNumbers DEF Chains
<1>5. left \in Int /\ none \in Chains
    BY <1>4 DEF Chains
<1>6. tool' \in ToolStates
    <2> HIDE DEF left, none
    <2> QED  BY <1>2, <1>3, <1>5 DEF ToolStates
<1>7. touched = {} => chain.balance = left + Deploy!MaximumBudget(tool.resume)
    <2>1. touched = {} => tool.seen["balance"] = chain["balance"]
        BY <1>1 DEF DeployInvariant, ReportIsOfTheChain, Deploy!Accounts
    <2> QED  BY <1>4, <2>1
<1>8. ReportIsOfTheChain'
    <2> HIDE DEF left, none
    <2>1. \A r \in Deployers : r \in touched' => run'[r].index >= 1
        BY <1>1 DEF DeployInvariant, ReportIsOfTheChain
    <2>2. tool'.pc # "reading" /\ (tool'.pc = "reported" => tool'.remaining = left)
          /\ tool'.resume = tool.resume
        BY <1>2
    <2>3. Deploy!MaximumBudget(tool.resume)' = Deploy!MaximumBudget(tool.resume)
        BY <2>2 DEF Deploy!MaximumBudget
    <2> QED  BY <1>1, <1>7, <2>1, <2>2, <2>3 DEF ReportIsOfTheChain
<1> QED  BY <1>1, <1>6, <1>8, ToolKeeps
-----------------------------------------------------------------------------
(* The deployment: the steps that change the chain.                        *)

\* Who changes the chain disturbs the runs that go on, and is noted.
LEMMA TouchEffect ==
    ASSUME DeployTypes, NEW actor, Deploy!Touch(actor)
    PROVE  /\ run' \in [Deployers -> RunStates]
           /\ touched' = IF tool.pc \in {"reading", "reported"}
                         THEN touched \cup {actor} ELSE {}
           /\ actor \in Deployers => run'[actor] = run[actor]
           /\ \A r \in Deployers :
                 /\ run'[r].pc = run[r].pc /\ run'[r].index = run[r].index
                 /\ run'[r].start = run[r].start /\ run'[r].why = run[r].why
                 /\ run'[r].approved = run[r].approved
                 /\ run'[r].alone =>
                       run[r].alone /\ (r = actor \/ run[r].pc \in {"off", "stopped", "done"})
<1>1. run \in [Deployers -> RunStates]
    BY DEF DeployTypes
<1> DEFINE hit(r) == r # actor /\ run[r].pc \notin {"off", "stopped", "done"}
           no == FALSE
<1>2. run' = [r \in Deployers |-> IF hit(r) THEN [run[r] EXCEPT !.alone = no] ELSE run[r]]
    BY DEF Deploy!Touch
<1>3. no \in BOOLEAN /\ ~ no
    OBVIOUS
<1> HIDE DEF no
<1>4. ASSUME NEW r \in Deployers
      PROVE  /\ run'[r] \in RunStates
             /\ run'[r].pc = run[r].pc /\ run'[r].index = run[r].index
             /\ run'[r].start = run[r].start /\ run'[r].why = run[r].why
             /\ run'[r].approved = run[r].approved
             /\ run'[r].alone = (IF hit(r) THEN no ELSE run[r].alone)
             /\ ~ hit(r) => run'[r] = run[r]
    <2>1. run[r] \in RunStates
        BY <1>1
    <2>2. CASE hit(r)
        <3>1. run'[r] = [run[r] EXCEPT !.alone = no]
            BY <1>2, <2>2
        <3> HIDE DEF hit
        <3> QED  BY <1>3, <2>1, <2>2, <3>1 DEF RunStates
    <2>3. CASE ~ hit(r)
        <3>1. run'[r] = run[r]
            BY <1>2, <2>3
        <3> HIDE DEF hit
        <3> QED  BY <2>1, <2>3, <3>1
    <2> QED  BY <2>2, <2>3
<1>5. run' \in [Deployers -> RunStates]
    <2>1. run' = [r \in Deployers |-> run'[r]]
        BY <1>2
    <2> QED  BY <1>4, <2>1
<1>6. touched' = IF tool.pc \in {"reading", "reported"} THEN touched \cup {actor} ELSE {}
    BY DEF Deploy!Touch
<1> QED  BY <1>3, <1>4, <1>5, <1>6

\* What a change of the chain must keep, the rest keeps itself.
LEMMA ChainKeeps ==
    ASSUME OperationsAssumption, DeployInvariant, NEW actor, Deploy!Touch(actor), tool' = tool,
           chain' \in Chains,
           \A k \in 1 .. WriteCount : Holds(chain, k) => Holds(chain', k),
           chain.program # Null => chain'.program # Null,
           pending' \in [Deployers -> {Null} \cup Sendings],
           \A q \in Deployers \ {actor} : pending'[q] = pending[q],
           actor \in Deployers =>
              /\ InPlace(actor)' /\ Undisturbed(actor)'
              /\ run[actor].index >= 1 /\ run[actor].pc \in {"sent", "stopped"}
              /\ \A k \in 1 .. WriteCount :
                    k < run[actor].index \/ (k = run[actor].index /\ HasLanded(actor)') =>
                       Holds(chain', k)
              /\ Deployed(actor)' => chain'.program # Null
              /\ Deployed(actor)' => Deployed(actor) \/ chain.program = Null
    PROVE  DeployInvariant'
<1>0. DeployTypes
    BY DEF DeployInvariant
<1>1. DeployTypes'
    BY <1>0, TouchEffect DEF DeployTypes
<1>2. ASSUME NEW q \in Deployers, q # actor
      PROVE  /\ InPlace(q)' /\ Undisturbed(q)'
             /\ (HasLanded(q)' <=> HasLanded(q)) /\ (Deployed(q)' <=> Deployed(q))
    <2>1. /\ pending'[q] = pending[q]
          /\ run'[q].pc = run[q].pc /\ run'[q].index = run[q].index
          /\ run'[q].why = run[q].why
          /\ run'[q].alone => run[q].alone /\ run[q].pc \in {"off", "stopped", "done"}
        BY <1>0, <1>2, TouchEffect
    <2>2. InPlace(q) /\ Undisturbed(q)
        BY DEF DeployInvariant
    <2>3. InPlace(q)'
        BY <2>1, <2>2 DEF InPlace
    <2>4. (HasLanded(q)' <=> HasLanded(q)) /\ (Deployed(q)' <=> Deployed(q))
        BY <2>1 DEF HasLanded, Deployed
    <2>5. Undisturbed(q)'
        BY <2>1, <2>2 DEF Undisturbed, Going
    <2> QED  BY <2>3, <2>4, <2>5
<1>3. \A q \in Deployers : InPlace(q)' /\ Undisturbed(q)'
    BY <1>2
<1>4. WritesAreKept'
    <2> SUFFICES ASSUME NEW q \in Deployers, NEW k \in 1 .. WriteCount,
                        k < run'[q].index \/ (k = run'[q].index /\ HasLanded(q)')
                 PROVE  Holds(chain', k)
        BY DEF WritesAreKept, Holds, Part
    <2>1. run'[q].index = run[q].index
        BY <1>0, TouchEffect
    <2>2. CASE q = actor
        BY <2>1, <2>2
    <2>3. CASE q # actor
        BY <1>2, <2>1, <2>3 DEF DeployInvariant, WritesAreKept
    <2> QED  BY <2>2, <2>3
<1>5. OneDeployed'
    <2>1. OneDeployed
        BY DEF DeployInvariant
    <2>2. \A q \in Deployers : Deployed(q)' => chain'.program # Null
        BY <1>2, <2>1 DEF OneDeployed
    <2>3. \A q \in Deployers : Deployed(q)' => Deployed(q) \/ (q = actor /\ chain.program = Null)
        BY <1>2
    <2>4. \A q, s \in Deployers : Deployed(q)' /\ Deployed(s)' => q = s
        BY <2>1, <2>3 DEF OneDeployed
    <2> QED  BY <2>2, <2>4 DEF OneDeployed
<1>6. ReportIsOfTheChain'
    <2>1. touched' = IF tool.pc \in {"reading", "reported"} THEN touched \cup {actor} ELSE {}
        BY <1>0, TouchEffect
    <2>2. \A q \in Deployers : q \in touched' => run'[q].index >= 1
        <3>1. \A q \in Deployers : q \in touched => run[q].index >= 1
            BY DEF DeployInvariant, ReportIsOfTheChain
        <3>2. \A q \in Deployers : run'[q].index = run[q].index
            BY <1>0, TouchEffect
        <3> QED  BY <2>1, <3>1, <3>2
    <2> QED  BY <2>1, <2>2 DEF ReportIsOfTheChain
<1>7. ASSUME NEW q \in Deployers
      PROVE  ReportIsMet(q)'
    <2>1. ReportIsMet(q)
        BY DEF DeployInvariant
    <2>2. /\ run'[q].approved = run[q].approved /\ run'[q].pc = run[q].pc
          /\ run'[q].start = run[q].start /\ (q = actor => run'[q] = run[q])
          /\ touched' = IF tool.pc \in {"reading", "reported"} THEN touched \cup {actor} ELSE {}
        BY <1>0, TouchEffect
    <2> SUFFICES ASSUME run[q].approved
                 PROVE  ReportIsMet(q)'
        BY <2>2 DEF ReportIsMet
    <2>3. tool.pc = "reported" /\ tool.resume = TRUE /\ touched' = touched \cup {actor}
        BY <2>1, <2>2 DEF ReportIsMet
    <2>4. CASE ~ (touched' \subseteq {q})
        BY <2>3, <2>4 DEF ReportIsMet
    <2>5. CASE touched' \subseteq {q}
        <3>1. actor = q /\ touched \subseteq {q}
            BY <2>3, <2>5
        <3>2. run[q].pc \in {"sent", "stopped"}
            BY <3>1
        <3> QED  BY <2>1, <2>2, <2>3, <3>1, <3>2 DEF ReportIsMet, Going
    <2> QED  BY <2>4, <2>5
<1> QED  BY <1>1, <1>3, <1>4, <1>5, <1>6, <1>7 DEF DeployInvariant

\* The earlier attempt writes the binary's words too.
LEMMA AttemptSendsKeeps ==
    ASSUME OperationsAssumption, DeployInvariant, Deploy!AttemptSends
    PROVE  DeployInvariant'
<1>1. Deploy!Touch("attempt") /\ tool' = tool /\ pending' = pending /\ "attempt" \notin Deployers
    BY DEF Deploy!AttemptSends, OperationsAssumption
<1>2. PICK tx \in Deploy!ToSet(Deploy!Transactions(FALSE)) \ {Deploy!DeployTx} :
         Deploy!Lands(tx, chain) /\ chain' = Deploy!After(tx, chain)
    BY DEF Deploy!AttemptSends
<1>3. chain \in Chains /\ pending \in [Deployers -> {Null} \cup Sendings]
    BY DEF DeployInvariant, DeployTypes
<1>4. /\ chain' \in Chains /\ chain'.program = chain.program
      /\ \A k \in 1 .. WriteCount : Holds(chain, k) => Holds(chain', k)
    <2>1. CASE tx = Deploy!InitialTx
        BY <1>2, <1>3, <2>1, AfterCreate
    <2>2. CASE \E k \in 1 .. WriteCount : tx = Plan[k]
        BY <1>2, <1>3, <2>2, AfterWrite
    <2> QED  BY <2>1, <2>2, AttemptTransactions
<1> QED  BY <1>1, <1>3, <1>4, ChainKeeps

\* Others change no word.
LEMMA OthersPayKeeps ==
    ASSUME OperationsAssumption, DeployInvariant, Deploy!OthersPay
    PROVE  DeployInvariant'
<1>1. Deploy!Touch("others") /\ tool' = tool /\ pending' = pending /\ "others" \notin Deployers
    BY DEF Deploy!OthersPay, OperationsAssumption
<1>2. chain \in Chains /\ pending \in [Deployers -> {Null} \cup Sendings]
    BY DEF DeployInvariant, DeployTypes
<1>3. /\ chain' \in Chains /\ chain'.program = chain.program
      /\ \A k \in 1 .. WriteCount : Holds(chain, k) => Holds(chain', k)
    <2>1. CASE chain.balance > 0 /\ chain' = [chain EXCEPT !.balance = @ - 1]
        BY <1>2, <2>1 DEF Chains, Holds
    <2>2. CASE chain.buffer # Null /\ chain' = [chain EXCEPT !.buffer.lamports = @ + 1]
        <3> DEFINE more == [chain.buffer EXCEPT !.lamports = @ + 1]
        <3>1. chain.buffer \in Buffers /\ ProgramDataRent \in Nat
            BY <1>2, <2>2 DEF Chains, OperationsAssumption
        <3>2. more \in Buffers /\ more.data = chain.buffer.data
            BY <3>1 DEF Buffers
        <3>3. chain' = [chain EXCEPT !.buffer = more]
            BY <2>2
        <3>4. more # Null
            BY <3>2, NullIsNothing
        <3> HIDE DEF more
        <3>5. chain' \in Chains /\ chain'.program = chain.program /\ chain'.buffer = more
            BY <1>2, <3>2, <3>3 DEF Chains
        <3> QED  BY <3>2, <3>4, <3>5 DEF Holds
    <2> QED  BY <2>1, <2>2 DEF Deploy!OthersPay
<1> QED  BY <1>1, <1>2, <1>3, ChainKeeps
\* What a run sent lands, or fails, whether it still waits or not.
LEMMA TransactionLandsKeeps ==
    ASSUME OperationsAssumption, DeployInvariant, NEW r \in Deployers,
           Deploy!TransactionLands(r)
    PROVE  DeployInvariant'
<1> DEFINE tx == Plan[run[r].index]
           lands == Deploy!Lands(tx, chain)
           answer == IF lands THEN "landed" ELSE "failed"
           answered == [pending[r] EXCEPT !.result = answer]
<1>1. /\ pending[r] # Null /\ pending[r].result = Null /\ pending[r].tx = tx
      /\ run[r].index \in 1 .. WriteCount + 1 /\ run[r].pc \in {"sent", "stopped"}
    BY RunFacts DEF Deploy!TransactionLands, Deploy!IsPending, InPlace
<1>2. /\ chain' = IF lands THEN Deploy!After(tx, chain)
                  ELSE [chain EXCEPT !.balance = @ - Deploy!SmallerOf(@, Deploy!Fee(tx))]
      /\ pending' = IF run[r].pc = "sent" THEN [pending EXCEPT ![r] = answered]
                    ELSE [pending EXCEPT ![r] = Null]
      /\ Deploy!Touch(r) /\ tool' = tool
    BY <1>1 DEF Deploy!TransactionLands, Deploy!Answered
<1>3. answered \in Sendings /\ answered.tx = tx /\ answered.result = answer
    <2>1. answer \in {"landed", "failed"} /\ pending[r] \in Sendings
        BY <1>1, RunFacts
    <2> HIDE DEF answer, tx
    <2> QED  BY <1>1, <2>1 DEF Sendings
<1>4. answered # Null
    BY <1>3, NullIsNoSending
<1>5. chain \in Chains
    BY DEF DeployInvariant, DeployTypes
<1>6. \A k \in 1 .. WriteCount : k < run[r].index => Holds(chain, k)
    BY DEF DeployInvariant, WritesAreKept
<1> HIDE DEF answered
<1>7. /\ pending' \in [Deployers -> {Null} \cup Sendings]
      /\ \A q \in Deployers \ {r} : pending'[q] = pending[q]
      /\ pending'[r] = IF run[r].pc = "sent" THEN answered ELSE Null
    BY <1>2, <1>3, RunFacts
<1>8. run'[r] = run[r] /\ run[r].index >= 1
    BY <1>1, <1>2, RunFacts, TouchEffect
<1>9. Null \notin {"landed", "failed"}
    BY DEF OperationsAssumption
<1>10. /\ HasLanded(r)' <=> run[r].pc = "sent" /\ lands
       /\ ~ HasLanded(r)
       /\ ~ Deployed(r)
       /\ Deployed(r)' <=> run[r].pc = "sent" /\ lands /\ run[r].index = WriteCount + 1
    <2>1. HasLanded(r)' <=> run[r].pc = "sent" /\ lands
        BY <1>3, <1>4, <1>7, <1>9 DEF HasLanded
    <2>2. ~ HasLanded(r)
        BY <1>1, <1>9 DEF HasLanded
    <2>3. run[r].pc \notin {"deployed", "done"} /\ run'[r].pc = run[r].pc
          /\ run'[r].index = run[r].index
        BY <1>1, <1>8
    <2> QED  BY <2>1, <2>2, <2>3 DEF Deployed
<1>11. InPlace(r)'
    <2>1. run[r].why = "guard" => run[r].pc = "stopped"
        BY RunFacts DEF InPlace
    <2> QED  BY <1>1, <1>3, <1>4, <1>7, <1>8, <2>1 DEF InPlace, Going
\* A run alone that waits: it lands.
<1>12. ASSUME run[r].alone, run[r].pc = "sent"
       PROVE  /\ lands /\ chain.buffer.lamports = ProgramDataRent
              /\ run[r].start >= Deploy!MaximumDebit
              /\ chain.balance = run[r].start - (run[r].index - 1)
              /\ Deploy!LiveStateIsValid
    <2>1. /\ run[r].start >= Deploy!MaximumDebit
          /\ chain.balance = run[r].start - Paid(r)
          /\ Deploy!LiveStateIsValid
        BY <1>10, <1>12, RunFacts DEF Undisturbed, Going
    <2>2. Paid(r) = run[r].index - 1
        BY <1>1, <1>10 DEF Paid
    <2>3. lands
        BY <1>1, <2>1, <2>2, AloneLands
    <2> QED  BY <2>1, <2>2, <2>3 DEF Deploy!LiveStateIsValid
<1>13. \A k \in 1 .. WriteCount :
          k < run[r].index \/ (k = run[r].index /\ HasLanded(r)') =>
             k < run[r].index \/ (k = run[r].index /\ lands)
    BY <1>10
<1>14. run[r].pc = "stopped" => Undisturbed(r)'
    <2>1. run[r].alone /\ run[r].why = "guard" => run[r].index = 0
        BY RunFacts DEF Undisturbed
    <2> QED  BY <1>8, <2>1 DEF Undisturbed, Going
<1>15. CASE ~ lands
    <2> DEFINE less == chain.balance - Deploy!SmallerOf(chain.balance, Deploy!Fee(tx))
    <2>1. less \in Nat
        <3>1. Deploy!Fee(tx) \in Nat /\ chain.balance \in Nat
            BY RunFacts DEF Deploy!Fee
        <3> HIDE DEF tx
        <3> QED  BY <3>1 DEF Deploy!SmallerOf
    <2>2. chain' = [chain EXCEPT !.balance = less]
        BY <1>2, <1>15
    <2> HIDE DEF less
    <2>3. /\ chain' \in Chains /\ chain'.program = chain.program /\ chain'.buffer = chain.buffer
        BY <1>5, <2>1, <2>2 DEF Chains
    <2>4. \A k \in 1 .. WriteCount : Holds(chain, k) => Holds(chain', k)
        BY <2>3 DEF Holds
    <2>5. Undisturbed(r)'
        <3>1. run[r].pc = "sent" => ~ run[r].alone
            BY <1>12, <1>15
        <3> QED  BY <1>1, <1>8, <1>14, <3>1 DEF Undisturbed
    <2>6. \A k \in 1 .. WriteCount :
             k < run[r].index \/ (k = run[r].index /\ HasLanded(r)') => Holds(chain', k)
        BY <1>6, <1>13, <1>15, <2>4
    <2> QED  BY <1>1, <1>2, <1>7, <1>8, <1>10, <1>11, <1>15, <2>3, <2>4, <2>5, <2>6, ChainKeeps
<1>16. CASE lands /\ run[r].index \in 1 .. WriteCount
    <2>1. chain' = Deploy!After(tx, chain)
        BY <1>2, <1>16
    <2>2. /\ chain' \in Chains /\ chain'.program = chain.program /\ chain'.buffer # Null
          /\ chain'.buffer.lamports = chain.buffer.lamports
          /\ chain'.balance = chain.balance - 1
          /\ Holds(chain', run[r].index)
          /\ \A k \in 1 .. WriteCount : Holds(chain, k) => Holds(chain', k)
        BY <1>5, <1>16, <2>1, AfterWrite
    <2>3. ~ Deployed(r)'
        BY <1>10, <1>16, RunFacts
    <2>4. Undisturbed(r)'
        <3> SUFFICES ASSUME run[r].alone, run[r].pc = "sent"
                     PROVE  Undisturbed(r)'
            BY <1>1, <1>8, <1>14 DEF Undisturbed
        <3>1. /\ chain.buffer.lamports = ProgramDataRent /\ run[r].start >= Deploy!MaximumDebit
              /\ chain.balance = run[r].start - (run[r].index - 1)
              /\ chain.program = Null
            BY <1>12 DEF Deploy!LiveStateIsValid
        <3>2. Paid(r)' = run[r].index - 1 + 1
            BY <1>8, <1>10, <1>16, <2>3 DEF Paid
        <3>3. chain'.balance = run[r].start - Paid(r)'
            <4>1. run[r].start \in Nat /\ run[r].index \in Nat
                BY <1>1, RunFacts
            <4> QED  BY <2>2, <3>1, <3>2, <4>1
        <3>4. Deploy!LiveStateIsValid'
            BY <2>2, <3>1 DEF Deploy!LiveStateIsValid
        <3>5. Deploy!MaximumDebit' = Deploy!MaximumDebit
            BY DEF Deploy!MaximumDebit
        <3>6. pending'[r].result # "failed"
            BY <1>3, <1>7, <1>16
        <3>7. run[r].why # "guard"
            BY RunFacts DEF InPlace
        <3> QED  BY <1>8, <3>1, <3>3, <3>4, <3>5, <3>6, <3>7 DEF Undisturbed
    <2>5. \A k \in 1 .. WriteCount :
             k < run[r].index \/ (k = run[r].index /\ HasLanded(r)') => Holds(chain', k)
        BY <1>6, <2>2
    <2> QED  BY <1>1, <1>2, <1>7, <1>8, <1>11, <2>2, <2>3, <2>4, <2>5, ChainKeeps
<1>17. CASE lands /\ run[r].index = WriteCount + 1
    <2>1. chain' = Deploy!After(tx, chain)
        BY <1>2, <1>17
    <2>2. \A k \in 1 .. WriteCount : Holds(chain, k)
        BY <1>6, <1>17, RunFacts
    <2>3. /\ chain.program = Null /\ chain' \in Chains /\ chain'.program = Deploy!Binary
          /\ chain'.balance =
                chain.balance - 2 - ProgramRent + chain.buffer.lamports - ProgramDataRent
        BY <1>5, <1>17, <2>1, <2>2, AfterDeploy
    <2>4. chain'.program # Null /\ \A k \in 1 .. WriteCount : Holds(chain', k)
        BY <2>3, NullIsNothing DEF Holds
    <2>5. Undisturbed(r)'
        <3> SUFFICES ASSUME run[r].alone, run[r].pc = "sent"
                     PROVE  Undisturbed(r)'
            BY <1>1, <1>8, <1>14 DEF Undisturbed
        <3>1. /\ chain.buffer.lamports = ProgramDataRent /\ run[r].start >= Deploy!MaximumDebit
              /\ chain.balance = run[r].start - (run[r].index - 1)
            BY <1>12
        <3>2. Deployed(r)'
            BY <1>10, <1>17
        <3>3. Deploy!MaximumDebit' = Deploy!MaximumDebit
            BY DEF Deploy!MaximumDebit
        <3>4. Paid(r)' = Deploy!MaximumDebit
            BY <3>2, <3>3 DEF Paid
        <3>5. chain'.balance = run[r].start - Paid(r)'
            <4>1. run[r].start \in Nat /\ WriteCount \in Nat /\ ProgramRent \in Nat
                BY RunFacts
            <4>2. ProgramDataRent \in Nat
                BY DEF OperationsAssumption
            <4>3. Paid(r)' = ProgramRent + (WriteCount + 2)
                BY <3>4, RunFacts
            <4> QED  BY <1>17, <2>3, <3>1, <4>1, <4>2, <4>3
        <3>6. pending'[r].result # "failed"
            BY <1>3, <1>7, <1>17
        <3>7. run[r].why # "guard"
            BY RunFacts DEF InPlace
        <3> QED  BY <1>8, <3>1, <3>2, <3>3, <3>5, <3>6, <3>7 DEF Undisturbed
    <2> QED  BY <1>1, <1>2, <1>7, <1>8, <1>11, <2>3, <2>4, <2>5, ChainKeeps
<1>18. run[r].index \in 1 .. WriteCount \/ run[r].index = WriteCount + 1
    BY <1>1, RunFacts
<1> QED  BY <1>15, <1>16, <1>17, <1>18

-----------------------------------------------------------------------------
(* The deployment: its theorem.                                            *)

\* The invariant holds at the start.
LEMMA DeployInitial ==
    ASSUME OperationsAssumption, Deploy!DeployInit
    PROVE  DeployInvariant
<1>0. /\ BINARY_SIZE \in Nat /\ ProgramDataRent \in Nat /\ StartBalance \in Nat
      /\ WriteCount \in Nat
    BY PlanFacts DEF OperationsAssumption
<1>1. /\ tool = [pc |-> "off", resume |-> FALSE, read |-> {}, remaining |-> 0,
                 seen |-> [program |-> Null, buffer |-> Null, balance |-> 0]]
      /\ run = [r \in Deployers |-> Deploy!RunInit] /\ pending = [r \in Deployers |-> Null]
      /\ touched = {}
    BY DEF Deploy!DeployInit, Deploy!ToolAt
<1>2. PICK left \in Deploy!AttemptedBuffers :
         chain = [program |-> Null, buffer |-> left, balance |-> StartBalance]
    BY DEF Deploy!DeployInit
<1>3. left \in {Null} \cup Buffers
    <2> SUFFICES ASSUME left # Null
                 PROVE  left \in Buffers
        OBVIOUS
    <2>1. PICK written \in SUBSET (DOMAIN Deploy!Writes) :
             left = [data |-> [i \in 1 .. BINARY_SIZE |->
                                 IF \E k \in written :
                                       i - Deploy!Writes[k].offset \in 1 .. CHUNK_SIZE
                                 THEN Deploy!Binary[i] ELSE 0],
                     lamports |-> ProgramDataRent]
        BY DEF Deploy!AttemptedBuffers
    <2> DEFINE data == [i \in 1 .. BINARY_SIZE |->
                          IF \E k \in written : i - Deploy!Writes[k].offset \in 1 .. CHUNK_SIZE
                          THEN Deploy!Binary[i] ELSE 0]
    <2>2. data \in Words
        BY <1>0 DEF Words, Deploy!Binary
    <2> HIDE DEF data
    <2>3. left = [data |-> data, lamports |-> ProgramDataRent]
        BY <2>1 DEF data
    <2> QED  BY <1>0, <2>2, <2>3 DEF Buffers
<1>4. chain \in Chains
    BY <1>0, <1>2, <1>3 DEF Chains
<1>5. Deploy!RunInit \in RunStates /\ Deploy!RunInit.pc = "off" /\ Deploy!RunInit.index = 0
      /\ Deploy!RunInit.why = Null /\ ~ Deploy!RunInit.approved
    BY <1>0 DEF Deploy!RunInit, RunStates
<1>6. tool \in ToolStates
    BY <1>1 DEF ToolStates, Chains
<1>7. DeployTypes
    BY <1>1, <1>4, <1>5, <1>6 DEF DeployTypes
<1>8. \A r \in Deployers : /\ run[r].pc = "off" /\ run[r].index = 0 /\ run[r].why # "guard"
                         /\ ~ run[r].approved /\ pending[r] = Null
    BY <1>1, <1>5 DEF OperationsAssumption
<1>9. \A r \in Deployers : InPlace(r) /\ Undisturbed(r) /\ ReportIsMet(r)
    BY <1>8 DEF InPlace, Undisturbed, ReportIsMet, Going
<1>10. \A r \in Deployers : ~ HasLanded(r) /\ ~ Deployed(r)
    BY <1>8 DEF HasLanded, Deployed
<1>11. WritesAreKept /\ OneDeployed
    BY <1>8, <1>10 DEF WritesAreKept, OneDeployed
<1>12. ReportIsOfTheChain
    BY <1>1 DEF ReportIsOfTheChain
<1> QED  BY <1>7, <1>9, <1>11, <1>12 DEF DeployInvariant

\* And every step keeps it.
LEMMA DeploySteps ==
    ASSUME OperationsAssumption, DeployInvariant, [OperationsNext]_operationsVars
    PROVE  DeployInvariant'
<1>1. CASE UNCHANGED deployVars
    <2>1. /\ chain' = chain /\ tool' = tool /\ run' = run /\ pending' = pending
          /\ touched' = touched
        BY <1>1 DEF deployVars
    <2>2. DeployTypes'
        BY <2>1 DEF DeployInvariant, DeployTypes
    <2>3. ASSUME NEW r \in Deployers
          PROVE  InPlace(r)' /\ Undisturbed(r)' /\ ReportIsMet(r)'
        <3>1. InPlace(r) /\ Undisturbed(r) /\ ReportIsMet(r)
            BY DEF DeployInvariant
        <3>2. (Deployed(r)' <=> Deployed(r)) /\ (HasLanded(r)' <=> HasLanded(r))
            BY <2>1 DEF Deployed, HasLanded
        <3>3. Undisturbed(r)'
            BY <2>1, <3>1, <3>2
               DEF Undisturbed, Paid, Deploy!LiveStateIsValid, Deploy!MaximumDebit
        <3> QED  BY <2>1, <3>1, <3>3 DEF InPlace, ReportIsMet
    <2>4. WritesAreKept' /\ OneDeployed'
        BY <2>1 DEF DeployInvariant, WritesAreKept, OneDeployed, Deployed, HasLanded, Holds,
                    Part
    <2>5. ReportIsOfTheChain'
        <3>1. ReportIsOfTheChain
            BY DEF DeployInvariant
        <3>2. Deploy!MaximumBudget(tool.resume)' = Deploy!MaximumBudget(tool.resume)
            BY <2>1 DEF Deploy!MaximumBudget
        <3> QED  BY <2>1, <3>1, <3>2 DEF ReportIsOfTheChain
    <2> QED  BY <2>2, <2>3, <2>4, <2>5 DEF DeployInvariant
<1>2. CASE Deploy!DeployNext
    <2>1. ASSUME NEW r \in Deployers, Deploy!RunStep(r)
          PROVE  DeployInvariant'
        BY <2>1, RunBeginsKeeps, RunIsFundedKeeps, RunRevalidatesKeeps, RunChecksCeilingKeeps,
           RunSendsKeeps, TransactionLandsKeeps, TransactionExpiresKeeps, RunConfirmsKeeps,
           RunCompletesKeeps, RunCrashesKeeps DEF Deploy!RunStep
    <2> QED  BY <1>2, <2>1, ConstructBeginsKeeps, ConstructReadsKeeps, ConstructReportsKeeps,
                AttemptSendsKeeps, OthersPayKeeps DEF Deploy!DeployNext
<1> QED  BY <1>1, <1>2
         DEF OperationsNext, CacheStep, DeployStep, LiveStep, StatusStep,
             WorkspaceStep, IncidentStep, LabStep, ReplayStep, operationsVars

\* The invariant says what the module promises.
LEMMA DeployPromises ==
    ASSUME OperationsAssumption, DeployInvariant
    PROVE  DeploymentIsSound
<1>1. Deploy!DeployedIsTheBinary
    BY DEF DeployInvariant, DeployTypes, Chains, Deploy!DeployedIsTheBinary
<1>2. Deploy!OneRunDeploys
    <2> DEFINE ended == {r \in Deployers : run[r].pc = "done"}
    <2>1. \A r \in ended : Deployed(r)
        BY DEF Deployed
    <2>2. OneDeployed
        BY DEF DeployInvariant
    <2>3. \A r \in ended : chain.program # Null
        BY <2>1, <2>2 DEF OneDeployed
    <2>4. Cardinality(ended) <= 1
        <3>1. CASE ended = {}
            <4>1. Cardinality(ended) = 0
                BY <3>1, FS_EmptySet
            <4> QED  BY <4>1
        <3>2. CASE ended # {}
            <4>1. PICK r \in ended : TRUE
                BY <3>2
            <4>2. ended = {r}
                BY <2>1, <2>2, <4>1 DEF OneDeployed
            <4>3. Cardinality(ended) = 1
                BY <4>2, FS_Singleton, Zenon
            <4> QED  BY <4>3
        <3> QED  BY <3>1, <3>2
    <2>5. Deploy!Cardinality(ended) <= 1
        BY <2>4, DeployCardinality
    <2> QED  BY <2>3, <2>5 DEF Deploy!OneRunDeploys
<1>3. Deploy!LoneRunIsNotStopped
    <2> SUFFICES ASSUME NEW r \in Deployers, run[r].why = "guard", run[r].index > 0, run[r].alone
                 PROVE  FALSE
        BY DEF Deploy!LoneRunIsNotStopped
    <2>1. run[r].index = 0
        BY RunFacts DEF Undisturbed
    <2> QED  BY <2>1
<1>4. Deploy!ReportIsKept
    BY RunFacts DEF Deploy!ReportIsKept, ReportIsMet
<1> QED  BY <1>1, <1>2, <1>3, <1>4 DEF DeploymentIsSound

\* What is deployed is the approved binary, by one run; a run alone is not stopped by
\* its own guards, and pays what was reported.
THEOREM DeploymentCorrect ==
    ASSUME OperationsAssumption
    PROVE  OperationsSpec => []DeploymentIsSound
<1>1. OperationsInit => DeployInvariant
    BY DeployInitial DEF OperationsInit
<1>2. DeployInvariant /\ [OperationsNext]_operationsVars => DeployInvariant'
    BY DeploySteps
<1>3. DeployInvariant => DeploymentIsSound
    BY DeployPromises
<1> QED  BY <1>1, <1>2, <1>3, PTL DEF OperationsSpec

-----------------------------------------------------------------------------
(* The status: types.                                                      *)

SchemaLabels ==
    { "unknown", "price-weighted-v3", "settlement-v5", "settlement-v4", "settlement-v3",
      "market-config-v2", "event-hash-v1" }

StatusRecords ==
    [ checkedAt : Nat, completedAt : Nat, rpcConnected : BOOLEAN,
      programExecutable : BOOLEAN, schemaCurrent : BOOLEAN, schemaLabel : SchemaLabels,
      operatorConfigured : BOOLEAN, lowBalance : BOOLEAN, vaultExists : BOOLEAN,
      probes : ProbeOutcomes \cup {{}},
      txlineMode : {"unconfigured", "live_connected", "configured_unreachable"},
      freshProofAvailable : BOOLEAN, level : {"ready", "limited", "unavailable"} ]

CallRecords ==
    [ page : StatusPages, askedAt : Nat, state : {"sent", "waits", "answered", "closed"},
      value : StatusRecords \cup {Null} ]

PanelFields == {"status", "shownAt", "loading", "failed", "mounted", "running", "runs"}

StatusTypes ==
    /\ statusNow \in Nat
    /\ env.vaultExists \in BOOLEAN
    /\ statusRequest # Null =>
          statusRequest \in [ asks : {"services", "accounts", "programData"},
                             status : StatusRecords ]
    /\ cachedStatus # Null => cachedStatus \in [value : StatusRecords, cachedAt : Nat]
    /\ statusCalls \in Seq(CallRecords)
    /\ DOMAIN panels = StatusPages
    /\ \A p \in StatusPages :
          DOMAIN panels[p] = PanelFields /\ panels[p].shownAt \in Nat

\* What a check found out while it ran: a fresh proof is available because the recorded
\* program was deployed between its beginning and its end.
FoundOut(status, now, when) ==
    /\ status \in StatusRecords
    /\ status.completedAt <= now
    /\ status.freshProofAvailable =>
          \E t \in when : t \in status.checkedAt .. status.completedAt

\* A check that is under way has promised nothing yet.
ChecksAreOpen ==
    statusRequest # Null =>
        /\ statusRequest.status.checkedAt <= statusNow
        /\ ~ statusRequest.status.schemaCurrent
        /\ ~ statusRequest.status.freshProofAvailable

CacheIsFoundOut ==
    cachedStatus # Null =>
        /\ FoundOut(cachedStatus.value, statusNow, matches)
        /\ cachedStatus.cachedAt = cachedStatus.value.completedAt

\* A request is aborted in time, and its answer was found out no earlier than the
\* lifetime of the cache before it was sent.
CallIsInTime(asked, now, when) ==
    asked.state # "closed" =>
        /\ asked.askedAt <= now
        /\ now <= asked.askedAt + PageTimeout
        /\ asked.state = "answered" =>
              /\ FoundOut(asked.value, now, when)
              /\ asked.askedAt < asked.value.completedAt + StatusCacheTtl

PanelIsFoundOut(panel, now, when) ==
    panel.status # Null =>
        /\ FoundOut(panel.status, now, when)
        /\ panel.shownAt - panel.status.completedAt < StatusCacheTtl + PageTimeout

StatusInvariant ==
    /\ StatusTypes
    /\ Status!IsRecorded(deployed) => statusNow \in matches
    /\ ChecksAreOpen
    /\ CacheIsFoundOut
    /\ \A c \in DOMAIN statusCalls : CallIsInTime(statusCalls[c], statusNow, matches)
    /\ \A p \in StatusPages : PanelIsFoundOut(panels[p], statusNow, matches)
-----------------------------------------------------------------------------
(* The status: what a step of the check leaves of it.                      *)

\* What was found out stays found out.
LEMMA FoundOutStays ==
    ASSUME NEW s, NEW now, NEW later, NEW when, NEW known,
           now \in Nat, later \in Nat, now <= later, when \subseteq known,
           FoundOut(s, now, when)
    PROVE  FoundOut(s, later, known)
<1>1. s \in StatusRecords /\ s.completedAt \in Nat
    BY DEF FoundOut, StatusRecords
<1>2. s.completedAt <= later
    BY <1>1 DEF FoundOut
<1> QED  BY <1>1, <1>2, Zenon DEF FoundOut

\* The end of a check is noted, the rest of its status stays.
LEMMA NotesTheEnd ==
    ASSUME NEW s \in StatusRecords, NEW t \in Nat
    PROVE  /\ [s EXCEPT !.completedAt = t] \in StatusRecords
           /\ [s EXCEPT !.completedAt = t].completedAt = t
           /\ [s EXCEPT !.completedAt = t].checkedAt = s.checkedAt
           /\ [s EXCEPT !.completedAt = t].freshProofAvailable = s.freshProofAvailable
BY DEF StatusRecords

\* computeFairXRuntimeStatus judges by the schema that it has read.
LEMMA JudgesTheSchema ==
    ASSUME NEW s \in StatusRecords
    PROVE  /\ Status!Judged(s) \in StatusRecords
           /\ Status!Judged(s).checkedAt = s.checkedAt
           /\ Status!Judged(s).freshProofAvailable => s.schemaCurrent
<1> DEFINE fresh == /\ env.cluster = "devnet" /\ s.rpcConnected
                    /\ s.programExecutable /\ s.schemaCurrent
           level == IF fresh THEN "ready" ELSE IF s.programExecutable THEN "limited"
                    ELSE "unavailable"
           judged == [s EXCEPT !.freshProofAvailable = fresh, !.level = level]
<1>1. Status!Judged(s) = judged
    BY Zenon DEF Status!Judged
<1>2. fresh \in BOOLEAN
    BY Zenon
<1>3. level \in {"ready", "limited", "unavailable"}
    BY Zenon
<1>4. fresh => s.schemaCurrent
    BY Zenon
<1> HIDE DEF fresh, level
<1>5. judged \in StatusRecords
    BY <1>2, <1>3 DEF StatusRecords
<1>6. judged.checkedAt = s.checkedAt /\ judged.freshProofAvailable = fresh
    BY DEF StatusRecords
<1> HIDE DEF judged
<1> QED  BY <1>1, <1>4, <1>5, <1>6, Zenon
\* A request is a record of its fields, and of its state.
LEMMA CallFacts ==
    ASSUME StatusTypes, NEW c \in DOMAIN statusCalls
    PROVE  /\ statusCalls[c] \in CallRecords
           /\ statusCalls[c].askedAt \in Nat
           /\ statusCalls[c].page \in StatusPages
<1>1. statusCalls[c] \in CallRecords
    BY DEF StatusTypes
<1> QED  BY <1>1 DEF CallRecords

\* Requests that keep their places keep their types when each of them does.
LEMMA CallsStayTyped ==
    ASSUME StatusTypes, DOMAIN statusCalls' = DOMAIN statusCalls,
           statusCalls' = [c \in DOMAIN statusCalls |-> statusCalls'[c]],
           \A c \in DOMAIN statusCalls : statusCalls'[c] \in CallRecords
    PROVE  statusCalls' \in Seq(CallRecords)
<1>1. DOMAIN statusCalls = 1 .. Len(statusCalls) /\ Len(statusCalls) \in Nat
    BY DEF StatusTypes
<1>2. statusCalls' \in [1 .. Len(statusCalls) -> CallRecords]
    BY <1>1, Zenon
<1> QED  BY <1>1, <1>2

\* The end of a check puts what it found out in the cache and answers who waits for it.
LEMMA ConcludesKeeps ==
    ASSUME OperationsAssumption, StatusInvariant, NEW s \in StatusRecords,
           s.checkedAt <= statusNow, s.freshProofAvailable => statusNow \in matches,
           Status!Concludes(s)
    PROVE  StatusInvariant'
<1> DEFINE value == [s EXCEPT !.completedAt = statusNow]
<1>1. StatusTypes /\ statusNow \in Nat /\ StatusCacheTtl \in Nat \ {0}
    BY DEF StatusInvariant, StatusTypes, OperationsAssumption
<1>2. /\ value \in StatusRecords /\ value.completedAt = statusNow
      /\ value.checkedAt = s.checkedAt
      /\ value.freshProofAvailable = s.freshProofAvailable
    BY <1>1, NotesTheEnd
<1>3. /\ cachedStatus' = [value |-> value, cachedAt |-> statusNow]
      /\ statusRequest' = Null
      /\ statusCalls' = [c \in DOMAIN statusCalls |->
            IF statusCalls[c].state = "waits"
            THEN [statusCalls[c] EXCEPT !.state = "answered", !.value = value]
            ELSE statusCalls[c]]
      /\ UNCHANGED <<statusNow, env, deployed, matches, panels>>
    BY Zenon DEF Status!Concludes
<1> HIDE DEF value
<1>4. FoundOut(value, statusNow, matches)
    <2>1. s.checkedAt \in Nat
        BY DEF StatusRecords
    <2>2. statusNow \in value.checkedAt .. value.completedAt
        BY <1>1, <1>2, <2>1
    <2>3. value.completedAt <= statusNow
        BY <1>1, <1>2
    <2> QED  BY <1>2, <2>2, <2>3, Zenon DEF FoundOut
<1>5. ASSUME NEW c \in DOMAIN statusCalls
      PROVE  /\ statusCalls'[c] \in CallRecords
             /\ CallIsInTime(statusCalls'[c], statusNow', matches')
    <2>1. statusCalls[c] \in CallRecords /\ statusCalls[c].askedAt \in Nat
        BY <1>1, CallFacts
    <2>2. CallIsInTime(statusCalls[c], statusNow, matches)
        BY DEF StatusInvariant
    <2>3. CASE statusCalls[c].state = "waits"
        <3> DEFINE answered == [statusCalls[c] EXCEPT !.state = "answered", !.value = value]
        <3>1. statusCalls'[c] = answered
            BY <1>3, <2>3
        <3>2. /\ answered \in CallRecords /\ answered.state = "answered"
              /\ answered.value = value /\ answered.askedAt = statusCalls[c].askedAt
            BY <1>2, <2>1 DEF CallRecords
        <3> HIDE DEF answered
        <3>3. /\ statusCalls[c].askedAt <= statusNow
              /\ statusNow <= statusCalls[c].askedAt + PageTimeout
            BY <2>2, <2>3 DEF CallIsInTime
        <3>4. statusCalls[c].askedAt < value.completedAt + StatusCacheTtl
            BY <1>1, <1>2, <2>1, <3>3
        <3>5. FoundOut(statusCalls'[c].value, statusNow', matches')
            BY <1>3, <1>4, <3>1, <3>2, Zenon
        <3>6. CallIsInTime(statusCalls'[c], statusNow', matches')
            BY <1>3, <3>1, <3>2, <3>3, <3>4, <3>5, Zenon DEF CallIsInTime
        <3> QED  BY <3>1, <3>2, <3>6
    <2>4. CASE statusCalls[c].state # "waits"
        <3>1. statusCalls'[c] = statusCalls[c]
            BY <1>3, <2>4
        <3> QED  BY <1>3, <2>1, <2>2, <3>1, Zenon DEF CallIsInTime
    <2> QED  BY <2>3, <2>4
<1>6. DOMAIN statusCalls' = DOMAIN statusCalls
    BY <1>3
<1>7. StatusTypes'
    <2>1. statusCalls' = [c \in DOMAIN statusCalls |-> statusCalls'[c]]
        BY <1>3, Zenon
    <2>2. statusCalls' \in Seq(CallRecords)
        BY <1>1, <1>5, <1>6, <2>1, CallsStayTyped
    <2>3. cachedStatus' \in [value : StatusRecords, cachedAt : Nat]
        BY <1>1, <1>2, <1>3
    <2> QED  BY <1>1, <1>3, <2>2, <2>3 DEF StatusTypes
<1>8. CacheIsFoundOut'
    <2>1. cachedStatus'.value = value /\ cachedStatus'.cachedAt = statusNow
        BY <1>3
    <2> QED  BY <1>2, <1>3, <1>4, <2>1 DEF CacheIsFoundOut
<1>9. (Status!IsRecorded(deployed) => statusNow \in matches)' /\ ChecksAreOpen'
    BY <1>3 DEF StatusInvariant, Status!IsRecorded, ChecksAreOpen
<1>10. \A p \in StatusPages : PanelIsFoundOut(panels'[p], statusNow', matches')
    BY <1>3, Zenon DEF StatusInvariant, PanelIsFoundOut
<1> QED  BY <1>5, <1>6, <1>7, <1>8, <1>9, <1>10 DEF StatusInvariant
\* A check that goes on has promised nothing.
LEMMA CheckGoesOn ==
    ASSUME StatusInvariant, NEW asks \in {"services", "accounts", "programData"},
           NEW s \in StatusRecords, s.checkedAt <= statusNow,
           ~ s.schemaCurrent, ~ s.freshProofAvailable,
           statusRequest' = [asks |-> asks, status |-> s],
           UNCHANGED <<statusNow, env, deployed, matches, cachedStatus, statusCalls, panels>>
    PROVE  StatusInvariant'
<1>1. statusRequest' \in [ asks : {"services", "accounts", "programData"},
                           status : StatusRecords ]
    OBVIOUS
<1>2. statusRequest'.status = s
    OBVIOUS
<1>3. StatusTypes'
    BY <1>1 DEF StatusInvariant, StatusTypes
<1>4. ChecksAreOpen'
    BY <1>2, Zenon DEF ChecksAreOpen
<1>5. \A c \in DOMAIN statusCalls' : CallIsInTime(statusCalls'[c], statusNow', matches')
    BY Zenon DEF StatusInvariant, CallIsInTime
<1>6. \A p \in StatusPages : PanelIsFoundOut(panels'[p], statusNow', matches')
    BY Zenon DEF StatusInvariant, PanelIsFoundOut
<1>7. CacheIsFoundOut' /\ (Status!IsRecorded(deployed) => statusNow \in matches)'
    BY DEF StatusInvariant, Status!IsRecorded, CacheIsFoundOut
<1> QED  BY <1>3, <1>4, <1>5, <1>6, <1>7, Zenon DEF StatusInvariant

\* Each answer that a check gets leaves it open, or ends it with what it has seen.
LEMMA CheckStepsKeep ==
    ASSUME OperationsAssumption, StatusInvariant,
           \/ Status!NotConfigured \/ Status!AsksServices \/ Status!ReadsAccounts
           \/ Status!ReadsProgramData \/ Status!ChainFails
    PROVE  StatusInvariant'
<1> DEFINE s == statusRequest.status
<1>1. /\ statusRequest # Null
      /\ s \in StatusRecords /\ s.checkedAt <= statusNow
      /\ ~ s.schemaCurrent /\ ~ s.freshProofAvailable
    <2>1. statusRequest # Null
        BY DEF Status!NotConfigured, Status!AsksServices, Status!ReadsAccounts,
               Status!ReadsProgramData, Status!ChainFails
    <2>2. s \in StatusRecords
        BY <2>1 DEF StatusInvariant, StatusTypes
    <2> QED  BY <2>1, <2>2, Zenon DEF StatusInvariant, ChecksAreOpen
<1>2. CASE Status!NotConfigured \/ Status!ChainFails
    <2>1. Status!Concludes(s)
        BY <1>2, Zenon DEF Status!NotConfigured, Status!ChainFails
    <2> QED  BY <1>1, <2>1, ConcludesKeeps
<1>3. CASE Status!AsksServices
    <2> PICK answers \in BOOLEAN, probes \in ProbeOutcomes :
           statusRequest' =
              [ asks |-> "accounts",
                status |-> [s EXCEPT
                    !.operatorConfigured = env.balance # "none",
                    !.lowBalance = (env.balance = "low")
                                   \/ (env.balance = "safe" /\ ~ answers),
                    !.probes = probes,
                    !.txlineMode =
                        IF {"scoresStream", "oddsStream"} \subseteq probes
                        THEN "live_connected" ELSE "configured_unreachable"] ]
        BY <1>3, Zenon DEF Status!AsksServices
    <2> DEFINE configured == env.balance # "none"
               low == (env.balance = "low") \/ (env.balance = "safe" /\ ~ answers)
               mode == IF {"scoresStream", "oddsStream"} \subseteq probes
                       THEN "live_connected" ELSE "configured_unreachable"
               asked == [s EXCEPT !.operatorConfigured = configured, !.lowBalance = low,
                                  !.probes = probes, !.txlineMode = mode]
    <2>1. statusRequest' = [asks |-> "accounts", status |-> asked]
        BY Zenon
    <2>2. /\ configured \in BOOLEAN /\ low \in BOOLEAN
          /\ mode \in {"live_connected", "configured_unreachable"}
        BY Zenon
    <2> HIDE DEF configured, low, mode
    <2>3. /\ asked \in StatusRecords
          /\ asked.checkedAt = s.checkedAt
          /\ asked.schemaCurrent = s.schemaCurrent
          /\ asked.freshProofAvailable = s.freshProofAvailable
        <3> HIDE DEF s
        <3> QED  BY <1>1, <2>2 DEF StatusRecords
    <2> HIDE DEF asked, s
    <2>4. UNCHANGED <<statusNow, env, deployed, matches, cachedStatus, statusCalls, panels>>
        BY <1>3, Zenon DEF Status!AsksServices
    <2>5. /\ asked.checkedAt <= statusNow
          /\ ~ asked.schemaCurrent /\ ~ asked.freshProofAvailable
        BY <1>1, <2>3, Zenon
    <2> QED  BY <2>1, <2>3, <2>4, <2>5, CheckGoesOn
<1>4. CASE Status!ReadsAccounts
    <2> DEFINE yes == TRUE
               executable == deployed # Null
               read == [s EXCEPT !.rpcConnected = yes, !.programExecutable = executable]
               full == [read EXCEPT !.vaultExists = env.vaultExists]
    <2>1. IF deployed = Null
          THEN Status!Concludes(Status!Judged(full))
          ELSE /\ statusRequest' = [asks |-> "programData", status |-> read]
               /\ UNCHANGED <<statusNow, env, deployed, matches, cachedStatus,
                              statusCalls, panels>>
        BY <1>4, Zenon DEF Status!ReadsAccounts
    <2>2. yes \in BOOLEAN /\ executable \in BOOLEAN
        BY Zenon
    <2>3. env.vaultExists \in BOOLEAN
        BY DEF StatusInvariant, StatusTypes
    <2> HIDE DEF yes, executable
    <2>4. /\ read \in StatusRecords /\ full \in StatusRecords
          /\ read.checkedAt = s.checkedAt /\ full.checkedAt = s.checkedAt
          /\ read.schemaCurrent = s.schemaCurrent /\ full.schemaCurrent = s.schemaCurrent
          /\ read.freshProofAvailable = s.freshProofAvailable
        <3> HIDE DEF s
        <3> QED  BY <1>1, <2>2, <2>3 DEF StatusRecords
    <2> HIDE DEF read, full, s
    <2>5. CASE deployed = Null
        <3>1. /\ Status!Judged(full) \in StatusRecords
              /\ Status!Judged(full).checkedAt <= statusNow
              /\ ~ Status!Judged(full).freshProofAvailable
            BY <1>1, <2>4, JudgesTheSchema, Zenon
        <3> QED  BY <2>1, <2>5, <3>1, ConcludesKeeps
    <2>6. CASE deployed # Null
        <3>1. /\ read.checkedAt <= statusNow
              /\ ~ read.schemaCurrent /\ ~ read.freshProofAvailable
            BY <1>1, <2>4, Zenon
        <3> QED  BY <2>1, <2>4, <2>6, <3>1, CheckGoesOn
    <2> QED  BY <2>5, <2>6
<1>5. CASE Status!ReadsProgramData
    <2> DEFINE current == Status!SchemaCurrent(deployed)
               label == Status!SchemaLabel(deployed, current)
               read == [s EXCEPT !.schemaCurrent = current, !.schemaLabel = label]
               labelled == IF deployed = Null THEN s ELSE read
               full == [labelled EXCEPT !.vaultExists = env.vaultExists]
    <2>1. Status!Concludes(Status!Judged(full))
        BY <1>5, Zenon DEF Status!ReadsProgramData
    <2>2. current => statusNow \in matches
        BY DEF StatusInvariant, Status!SchemaCurrent
    <2>3. current \in BOOLEAN
        BY Zenon DEF Status!SchemaCurrent, Status!IsRecorded
    <2>4. label \in SchemaLabels
        BY Zenon DEF Status!SchemaLabel, SchemaLabels
    <2>5. env.vaultExists \in BOOLEAN
        BY DEF StatusInvariant, StatusTypes
    <2> HIDE DEF current, label
    <2>6. /\ read \in StatusRecords /\ read.checkedAt = s.checkedAt
          /\ read.schemaCurrent = current
        <3> HIDE DEF s
        <3> QED  BY <1>1, <2>3, <2>4 DEF StatusRecords
    <2> HIDE DEF read, s
    <2>7. /\ labelled \in StatusRecords /\ labelled.checkedAt = s.checkedAt
          /\ labelled.schemaCurrent => statusNow \in matches
        BY <1>1, <2>2, <2>6, Zenon
    <2> HIDE DEF labelled
    <2>8. /\ full \in StatusRecords /\ full.checkedAt = labelled.checkedAt
          /\ full.schemaCurrent = labelled.schemaCurrent
        BY <2>5, <2>7 DEF StatusRecords
    <2> HIDE DEF full
    <2>9. /\ Status!Judged(full) \in StatusRecords
          /\ Status!Judged(full).checkedAt <= statusNow
          /\ Status!Judged(full).freshProofAvailable => statusNow \in matches
        BY <1>1, <2>7, <2>8, JudgesTheSchema, Zenon
    <2> QED  BY <2>1, <2>9, ConcludesKeeps
<1> QED  BY <1>2, <1>3, <1>4, <1>5
-----------------------------------------------------------------------------
(* The status: requests and pages.                                         *)

\* A request that changes keeps its type, its time and what it answers.
LEMMA CallChanges ==
    ASSUME StatusInvariant, NEW c \in DOMAIN statusCalls, NEW asked \in CallRecords,
           CallIsInTime(asked, statusNow, matches),
           statusCalls' = [statusCalls EXCEPT ![c] = asked],
           UNCHANGED <<statusNow, matches>>
    PROVE  /\ statusCalls' \in Seq(CallRecords)
           /\ \A e \in DOMAIN statusCalls' :
                 CallIsInTime(statusCalls'[e], statusNow', matches')
<1>1. statusCalls \in Seq(CallRecords)
    BY DEF StatusInvariant, StatusTypes
<1>2. statusCalls' \in Seq(CallRecords)
    BY <1>1
<1>3. ASSUME NEW e \in DOMAIN statusCalls'
      PROVE  CallIsInTime(statusCalls'[e], statusNow', matches')
    <2>1. e \in DOMAIN statusCalls
        OBVIOUS
    <2>2. statusCalls'[e] = IF e = c THEN asked ELSE statusCalls[e]
        BY <2>1
    <2> QED  BY <2>1, <2>2, Zenon DEF StatusInvariant
<1> QED  BY <1>2, <1>3

\* A request that is sent is in time.
LEMMA CallIsSent ==
    ASSUME OperationsAssumption, StatusInvariant, NEW p \in StatusPages, Status!Sends(p),
           UNCHANGED <<statusNow, matches>>
    PROVE  /\ statusCalls' \in Seq(CallRecords)
           /\ \A e \in DOMAIN statusCalls' :
                 CallIsInTime(statusCalls'[e], statusNow', matches')
<1> DEFINE asked == [page |-> p, askedAt |-> statusNow, state |-> "sent", value |-> Null]
<1>1. statusCalls \in Seq(CallRecords) /\ statusNow \in Nat
    BY DEF StatusInvariant, StatusTypes
<1>2. statusCalls' = Append(statusCalls, asked)
    BY DEF Status!Sends, Status!Append, Append
<1>3. asked \in CallRecords
    BY <1>1 DEF CallRecords
<1>4. CallIsInTime(asked, statusNow, matches)
    BY <1>1 DEF CallIsInTime, OperationsAssumption
<1> HIDE DEF asked
<1>5. statusCalls' \in Seq(CallRecords)
    BY <1>1, <1>2, <1>3
<1>6. ASSUME NEW e \in DOMAIN statusCalls'
      PROVE  CallIsInTime(statusCalls'[e], statusNow', matches')
    <2>1. \/ e \in DOMAIN statusCalls /\ statusCalls'[e] = statusCalls[e]
          \/ statusCalls'[e] = asked
        BY <1>1, <1>2, <1>3
    <2> QED  BY <1>4, <2>1, Zenon DEF StatusInvariant
<1> QED  BY <1>5, <1>6

\* A page that changes keeps what it shows, or shows what was found out.
LEMMA PanelChanges ==
    ASSUME StatusInvariant, NEW p \in StatusPages, NEW panel,
           DOMAIN panel = PanelFields, panel.shownAt \in Nat,
           PanelIsFoundOut(panel, statusNow, matches),
           panels' = [panels EXCEPT ![p] = panel],
           UNCHANGED <<statusNow, matches>>
    PROVE  /\ DOMAIN panels' = StatusPages
           /\ \A q \in StatusPages :
                 /\ DOMAIN panels'[q] = PanelFields /\ panels'[q].shownAt \in Nat
                 /\ PanelIsFoundOut(panels'[q], statusNow', matches')
<1>1. DOMAIN panels = StatusPages
    BY DEF StatusInvariant, StatusTypes
<1>2. DOMAIN panels' = StatusPages
    BY <1>1
<1>3. ASSUME NEW q \in StatusPages
      PROVE  /\ DOMAIN panels'[q] = PanelFields /\ panels'[q].shownAt \in Nat
             /\ PanelIsFoundOut(panels'[q], statusNow', matches')
    <2>1. panels'[q] = IF q = p THEN panel ELSE panels[q]
        BY <1>1
    <2>2. /\ DOMAIN panels[q] = PanelFields /\ panels[q].shownAt \in Nat
          /\ PanelIsFoundOut(panels[q], statusNow, matches)
        BY DEF StatusInvariant, StatusTypes
    <2> QED  BY <2>1, <2>2, Zenon
<1> QED  BY <1>2, <1>3

\* Requests and pages are apart from the server and the program.
LEMMA PagesKeep ==
    ASSUME StatusInvariant,
           statusCalls' \in Seq(CallRecords),
           \A e \in DOMAIN statusCalls' : CallIsInTime(statusCalls'[e], statusNow', matches'),
           DOMAIN panels' = StatusPages,
           \A q \in StatusPages :
              /\ DOMAIN panels'[q] = PanelFields /\ panels'[q].shownAt \in Nat
              /\ PanelIsFoundOut(panels'[q], statusNow', matches'),
           UNCHANGED <<statusNow, env, deployed, matches, cachedStatus, statusRequest>>
    PROVE  StatusInvariant'
<1>1. StatusTypes'
    BY DEF StatusInvariant, StatusTypes
<1>2. ChecksAreOpen' /\ CacheIsFoundOut'
    BY Zenon DEF StatusInvariant, ChecksAreOpen, CacheIsFoundOut
<1>3. (Status!IsRecorded(deployed) => statusNow \in matches)'
    BY DEF StatusInvariant, Status!IsRecorded
<1> QED  BY <1>1, <1>2, <1>3, Zenon DEF StatusInvariant
\* The requests, or the pages, that no step touches stay as they are.
LEMMA UntouchedStay ==
    ASSUME StatusInvariant, UNCHANGED <<statusNow, matches>>
    PROVE  /\ UNCHANGED statusCalls =>
                 /\ statusCalls' \in Seq(CallRecords)
                 /\ \A e \in DOMAIN statusCalls' :
                       CallIsInTime(statusCalls'[e], statusNow', matches')
           /\ UNCHANGED panels =>
                 /\ DOMAIN panels' = StatusPages
                 /\ \A q \in StatusPages :
                       /\ DOMAIN panels'[q] = PanelFields /\ panels'[q].shownAt \in Nat
                       /\ PanelIsFoundOut(panels'[q], statusNow', matches')
BY Zenon DEF StatusInvariant, StatusTypes

\* The server answers with the cached status while it is young, or the request waits.
LEMMA GetStatusKeeps ==
    ASSUME OperationsAssumption, StatusInvariant, NEW c \in DOMAIN statusCalls,
           Status!GetStatus(c)
    PROVE  StatusInvariant'
<1>1. /\ StatusTypes /\ statusNow \in Nat /\ StatusCacheTtl \in Nat \ {0}
      /\ CallIsInTime(statusCalls[c], statusNow, matches)
    BY DEF StatusInvariant, StatusTypes, OperationsAssumption
<1>2. statusCalls[c] \in CallRecords /\ statusCalls[c].askedAt \in Nat
    BY <1>1, CallFacts
<1>3. /\ statusCalls[c].state = "sent"
      /\ UNCHANGED <<statusNow, env, deployed, matches, cachedStatus, panels>>
    BY Zenon DEF Status!GetStatus
<1>4. /\ statusCalls[c].askedAt <= statusNow
      /\ statusNow <= statusCalls[c].askedAt + PageTimeout
    BY <1>1, <1>3, Zenon DEF CallIsInTime
<1>5. CASE cachedStatus # Null /\ statusNow - cachedStatus.cachedAt < StatusCacheTtl
    <2> DEFINE value == cachedStatus.value
               asked == [statusCalls[c] EXCEPT !.state = "answered", !.value = value]
    <2>1. /\ statusCalls' = [statusCalls EXCEPT ![c].state = "answered", ![c].value = value]
          /\ UNCHANGED statusRequest
        BY <1>5, Zenon DEF Status!GetStatus
    <2>2. /\ FoundOut(value, statusNow, matches)
          /\ cachedStatus.cachedAt = value.completedAt
        BY <1>5, Zenon DEF StatusInvariant, CacheIsFoundOut
    <2>3. value \in StatusRecords /\ value.completedAt \in Nat
        <3>1. value \in StatusRecords
            BY <2>2, Zenon DEF FoundOut
        <3> QED  BY <3>1 DEF StatusRecords
    <2> HIDE DEF value
    <2>4. statusCalls' = [statusCalls EXCEPT ![c] = asked]
        BY <2>1
    <2>5. /\ asked \in CallRecords /\ asked.state = "answered" /\ asked.value = value
          /\ asked.askedAt = statusCalls[c].askedAt
        BY <1>2, <2>3 DEF CallRecords
    <2> HIDE DEF asked
    <2>6. statusCalls[c].askedAt < value.completedAt + StatusCacheTtl
        BY <1>1, <1>2, <1>4, <1>5, <2>2, <2>3
    <2>7. CallIsInTime(asked, statusNow, matches)
        BY <1>4, <2>2, <2>5, <2>6, Zenon DEF CallIsInTime
    <2>8. /\ statusCalls' \in Seq(CallRecords)
          /\ \A e \in DOMAIN statusCalls' :
                CallIsInTime(statusCalls'[e], statusNow', matches')
        BY <1>3, <2>4, <2>5, <2>7, CallChanges
    <2> QED  BY <1>3, <2>1, <2>8, UntouchedStay, PagesKeep
<1>6. CASE ~ (cachedStatus # Null /\ statusNow - cachedStatus.cachedAt < StatusCacheTtl)
    <2> DEFINE asked == [statusCalls[c] EXCEPT !.state = "waits"]
    <2>1. /\ statusCalls' = [statusCalls EXCEPT ![c].state = "waits"]
          /\ statusRequest' = IF statusRequest # Null THEN statusRequest
                              ELSE [asks |-> "services", status |-> Status!Base]
        BY <1>6, Zenon DEF Status!GetStatus
    <2>2. statusCalls' = [statusCalls EXCEPT ![c] = asked]
        BY <2>1
    <2>3. /\ asked \in CallRecords /\ asked.state = "waits"
          /\ asked.askedAt = statusCalls[c].askedAt
        BY <1>2 DEF CallRecords
    <2> HIDE DEF asked
    <2>4. CallIsInTime(asked, statusNow, matches)
        BY <1>4, <2>3, Zenon DEF CallIsInTime
    <2>5. /\ statusCalls' \in Seq(CallRecords)
          /\ \A e \in DOMAIN statusCalls' :
                CallIsInTime(statusCalls'[e], statusNow', matches')
        BY <1>3, <2>2, <2>3, <2>4, CallChanges
    <2>6. /\ Status!Base \in StatusRecords /\ Status!Base.checkedAt = statusNow
          /\ ~ Status!Base.schemaCurrent /\ ~ Status!Base.freshProofAvailable
        BY <1>1 DEF Status!Base, StatusRecords, SchemaLabels
    <2>7. statusRequest' # Null =>
             /\ statusRequest' \in [ asks : {"services", "accounts", "programData"},
                                     status : StatusRecords ]
             /\ statusRequest'.status.checkedAt <= statusNow
             /\ ~ statusRequest'.status.schemaCurrent
             /\ ~ statusRequest'.status.freshProofAvailable
        <3>1. CASE statusRequest # Null
            BY <2>1, <3>1, Zenon DEF StatusInvariant, StatusTypes, ChecksAreOpen
        <3>2. CASE statusRequest = Null
            <4>1. statusRequest' = [asks |-> "services", status |-> Status!Base]
                BY <2>1, <3>2
            <4>2. statusRequest'.status = Status!Base
                BY <4>1
            <4>3. statusRequest' \in [ asks : {"services", "accounts", "programData"},
                                       status : StatusRecords ]
                BY <2>6, <4>1
            <4>4. Status!Base.checkedAt <= statusNow
                BY <1>1, <2>6
            <4> QED  BY <2>6, <4>2, <4>3, <4>4, Zenon
        <3> QED  BY <3>1, <3>2
    <2>8. StatusTypes'
        BY <1>3, <2>5, <2>7 DEF StatusInvariant, StatusTypes
    <2>9. ChecksAreOpen'
        BY <1>3, <2>7, Zenon DEF ChecksAreOpen
    <2>10. /\ CacheIsFoundOut'
           /\ \A q \in StatusPages : PanelIsFoundOut(panels'[q], statusNow', matches')
        BY <1>3, Zenon DEF StatusInvariant, CacheIsFoundOut
    <2>11. (Status!IsRecorded(deployed) => statusNow \in matches)'
        BY <1>3 DEF StatusInvariant, Status!IsRecorded
    <2> QED  BY <2>5, <2>8, <2>9, <2>10, <2>11, Zenon DEF StatusInvariant
<1> QED  BY <1>5, <1>6

\* A request that is over is in time, whatever it was.
LEMMA CallCloses ==
    ASSUME StatusInvariant, NEW c \in DOMAIN statusCalls,
           statusCalls' = [statusCalls EXCEPT ![c].state = "closed", ![c].value = Null],
           UNCHANGED <<statusNow, matches>>
    PROVE  /\ statusCalls' \in Seq(CallRecords)
           /\ \A e \in DOMAIN statusCalls' :
                 CallIsInTime(statusCalls'[e], statusNow', matches')
<1> DEFINE asked == [statusCalls[c] EXCEPT !.state = "closed", !.value = Null]
<1>1. statusCalls[c] \in CallRecords
    BY CallFacts DEF StatusInvariant
<1>2. statusCalls' = [statusCalls EXCEPT ![c] = asked]
    OBVIOUS
<1>3. asked \in CallRecords /\ asked.state = "closed"
    BY <1>1 DEF CallRecords
<1> HIDE DEF asked
<1>4. CallIsInTime(asked, statusNow, matches)
    BY <1>3, Zenon DEF CallIsInTime
<1> QED  BY <1>2, <1>3, <1>4, CallChanges

\* Whichever answer comes is shown in its request's time.
LEMMA ShowsKeeps ==
    ASSUME OperationsAssumption, StatusInvariant, NEW c \in DOMAIN statusCalls,
           Status!Shows(c) \/ Status!GivesUp(c)
    PROVE  StatusInvariant'
<1> DEFINE p == statusCalls[c].page
           value == statusCalls[c].value
           yes == TRUE
           no == FALSE
<1>1. /\ StatusTypes /\ statusNow \in Nat /\ StatusCacheTtl \in Nat /\ PageTimeout \in Nat
      /\ CallIsInTime(statusCalls[c], statusNow, matches)
    BY DEF StatusInvariant, StatusTypes, OperationsAssumption
<1>2. statusCalls[c].askedAt \in Nat /\ p \in StatusPages
    BY <1>1, CallFacts
<1>3. /\ DOMAIN panels = StatusPages
      /\ DOMAIN panels[p] = PanelFields /\ panels[p].shownAt \in Nat
      /\ PanelIsFoundOut(panels[p], statusNow, matches)
    BY <1>2 DEF StatusInvariant, StatusTypes
<1>4. /\ statusCalls' = [statusCalls EXCEPT ![c].state = "closed", ![c].value = Null]
      /\ UNCHANGED <<statusNow, env, deployed, matches, cachedStatus, statusRequest>>
    BY Zenon DEF Status!Shows, Status!GivesUp
<1>5. CASE Status!Shows(c)
    <2> DEFINE panel == [panels[p] EXCEPT !.status = value, !.shownAt = statusNow,
                                          !.failed = no, !.loading = no]
    <2>1. /\ statusCalls[c].state = "answered"
          /\ panels' = [panels EXCEPT ![p].status = value, ![p].shownAt = statusNow,
                                      ![p].failed = no, ![p].loading = no]
        BY <1>5, Zenon DEF Status!Shows
    <2>2. /\ statusNow <= statusCalls[c].askedAt + PageTimeout
          /\ FoundOut(value, statusNow, matches)
          /\ statusCalls[c].askedAt < value.completedAt + StatusCacheTtl
        BY <1>1, <2>1, Zenon DEF CallIsInTime
    <2>3. value.completedAt \in Nat
        BY <2>2 DEF FoundOut, StatusRecords
    <2> HIDE DEF p, value, no
    <2>4. panels' = [panels EXCEPT ![p] = panel]
        BY <1>2, <1>3, <2>1
    <2>5. /\ DOMAIN panel = PanelFields /\ panel.status = value
          /\ panel.shownAt = statusNow
        BY <1>3 DEF PanelFields
    <2> HIDE DEF panel
    <2>6. statusNow - value.completedAt < StatusCacheTtl + PageTimeout
        BY <1>1, <1>2, <2>2, <2>3
    <2>7. PanelIsFoundOut(panel, statusNow, matches)
        BY <2>2, <2>5, <2>6, Zenon DEF PanelIsFoundOut
    <2>8. /\ DOMAIN panels' = StatusPages
          /\ \A q \in StatusPages :
                /\ DOMAIN panels'[q] = PanelFields /\ panels'[q].shownAt \in Nat
                /\ PanelIsFoundOut(panels'[q], statusNow', matches')
        BY <1>1, <1>2, <1>4, <2>4, <2>5, <2>7, PanelChanges
    <2> QED  BY <1>4, <2>8, CallCloses, PagesKeep
<1>6. CASE Status!GivesUp(c)
    <2> DEFINE panel == [panels[p] EXCEPT !.failed = yes, !.loading = no]
    <2>1. panels' = [panels EXCEPT ![p].failed = yes, ![p].loading = no]
        BY <1>6, Zenon DEF Status!GivesUp
    <2> HIDE DEF p, yes, no
    <2>2. panels' = [panels EXCEPT ![p] = panel]
        BY <1>2, <1>3, <2>1
    <2>3. /\ DOMAIN panel = PanelFields /\ panel.status = panels[p].status
          /\ panel.shownAt = panels[p].shownAt
        BY <1>3 DEF PanelFields
    <2> HIDE DEF panel
    <2>4. PanelIsFoundOut(panel, statusNow, matches)
        BY <1>3, <2>3, Zenon DEF PanelIsFoundOut
    <2>5. /\ DOMAIN panels' = StatusPages
          /\ \A q \in StatusPages :
                /\ DOMAIN panels'[q] = PanelFields /\ panels'[q].shownAt \in Nat
                /\ PanelIsFoundOut(panels'[q], statusNow', matches')
        BY <1>2, <1>3, <1>4, <2>2, <2>3, <2>4, PanelChanges
    <2> QED  BY <1>4, <2>5, CallCloses, PagesKeep
<1> QED  BY <1>5, <1>6
\* A page that keeps its status, and when it put it up, shows what it showed.
LEMMA PanelKeepsStatus ==
    ASSUME StatusInvariant, NEW p \in StatusPages, NEW panel,
           DOMAIN panel = PanelFields, panel.status = panels[p].status,
           panel.shownAt = panels[p].shownAt,
           panels' = [panels EXCEPT ![p] = panel],
           UNCHANGED <<statusNow, matches>>
    PROVE  /\ DOMAIN panels' = StatusPages
           /\ \A q \in StatusPages :
                 /\ DOMAIN panels'[q] = PanelFields /\ panels'[q].shownAt \in Nat
                 /\ PanelIsFoundOut(panels'[q], statusNow', matches')
<1>1. /\ panels[p].shownAt \in Nat
      /\ PanelIsFoundOut(panels[p], statusNow, matches)
    BY DEF StatusInvariant, StatusTypes
<1>2. PanelIsFoundOut(panel, statusNow, matches)
    BY <1>1, Zenon DEF PanelIsFoundOut
<1>3. panel.shownAt \in Nat
    BY <1>1
<1> QED  BY <1>2, <1>3, PanelChanges

\* A page that mounts, rechecks, runs or ends a run sends at most a request.
LEMMA PageStepsKeep ==
    ASSUME OperationsAssumption, StatusInvariant, NEW p \in StatusPages,
           \/ Status!Mount(p) \/ Status!Refresh(p) \/ Status!RunEnds(p)
           \/ \E side \in Status!Sides : Status!Run(p, side)
    PROVE  StatusInvariant'
<1> DEFINE yes == TRUE
<1>1. /\ DOMAIN panels = StatusPages
      /\ DOMAIN panels[p] = PanelFields
    BY DEF StatusInvariant, StatusTypes
<1>2. UNCHANGED <<statusNow, env, deployed, matches, cachedStatus, statusRequest>>
    BY Zenon DEF Status!Mount, Status!Refresh, Status!RunEnds, Status!Run
<1>3. Status!Sends(p) \/ UNCHANGED statusCalls
    BY Zenon DEF Status!Mount, Status!Refresh, Status!RunEnds, Status!Run
<1>4. \E panel :
         /\ DOMAIN panel = PanelFields /\ panel.status = panels[p].status
         /\ panel.shownAt = panels[p].shownAt
         /\ panels' = [panels EXCEPT ![p] = panel]
    <2>1. CASE Status!Mount(p)
        <3> DEFINE panel == [panels[p] EXCEPT !.mounted = yes]
        <3>1. panels' = [panels EXCEPT ![p].mounted = yes]
            BY <2>1, Zenon DEF Status!Mount
        <3> HIDE DEF yes
        <3>2. panels' = [panels EXCEPT ![p] = panel]
            BY <1>1, <3>1
        <3>3. /\ DOMAIN panel = PanelFields /\ panel.status = panels[p].status
              /\ panel.shownAt = panels[p].shownAt
            BY <1>1 DEF PanelFields
        <3> HIDE DEF panel
        <3> QED  BY <3>2, <3>3
    <2>2. CASE Status!Refresh(p)
        <3> DEFINE panel == [panels[p] EXCEPT !.loading = yes]
        <3>1. panels' = [panels EXCEPT ![p].loading = yes]
            BY <2>2, Zenon DEF Status!Refresh
        <3> HIDE DEF yes
        <3>2. panels' = [panels EXCEPT ![p] = panel]
            BY <1>1, <3>1
        <3>3. /\ DOMAIN panel = PanelFields /\ panel.status = panels[p].status
              /\ panel.shownAt = panels[p].shownAt
            BY <1>1 DEF PanelFields
        <3> HIDE DEF panel
        <3> QED  BY <3>2, <3>3
    <2>3. ASSUME NEW side \in Status!Sides, Status!Run(p, side)
          PROVE  \E panel :
                    /\ DOMAIN panel = PanelFields /\ panel.status = panels[p].status
                    /\ panel.shownAt = panels[p].shownAt
                    /\ panels' = [panels EXCEPT ![p] = panel]
        <3> DEFINE panel == [panels[p] EXCEPT !.running = side]
        <3>1. panels' = [panels EXCEPT ![p].running = side]
            BY <2>3, Zenon DEF Status!Run
        <3>2. panels' = [panels EXCEPT ![p] = panel]
            BY <1>1, <3>1
        <3>3. /\ DOMAIN panel = PanelFields /\ panel.status = panels[p].status
              /\ panel.shownAt = panels[p].shownAt
            BY <1>1 DEF PanelFields
        <3> HIDE DEF panel
        <3> QED  BY <3>2, <3>3
    <2>4. CASE Status!RunEnds(p)
        <3> DEFINE runs == SubSeq(<<panels[p].running>> \o panels[p].runs, 1,
                                  IF Len(panels[p].runs) < 3
                                  THEN Len(panels[p].runs) + 1 ELSE 4)
                   panel == [panels[p] EXCEPT !.running = Null, !.loading = yes,
                                              !.runs = runs]
                   ended == [panels[p] EXCEPT !.running = Null]
        <3>1. \/ panels' = [panels EXCEPT ![p].running = Null, ![p].loading = yes,
                                          ![p].runs = runs]
              \/ panels' = [panels EXCEPT ![p].running = Null]
            BY <2>4 DEF Status!RunEnds, Status!SubSeq, Status!\o, Status!Len
        <3> HIDE DEF yes, runs
        <3>2. \/ panels' = [panels EXCEPT ![p] = panel]
              \/ panels' = [panels EXCEPT ![p] = ended]
            BY <1>1, <3>1
        <3>3. /\ DOMAIN panel = PanelFields /\ panel.status = panels[p].status
              /\ panel.shownAt = panels[p].shownAt
            BY <1>1 DEF PanelFields
        <3>4. /\ DOMAIN ended = PanelFields /\ ended.status = panels[p].status
              /\ ended.shownAt = panels[p].shownAt
            BY <1>1 DEF PanelFields
        <3> HIDE DEF panel, ended
        <3> QED  BY <3>2, <3>3, <3>4
    <2> QED  BY <2>1, <2>2, <2>3, <2>4
<1>5. /\ statusCalls' \in Seq(CallRecords)
      /\ \A e \in DOMAIN statusCalls' :
            CallIsInTime(statusCalls'[e], statusNow', matches')
    BY <1>2, <1>3, CallIsSent, UntouchedStay
<1>6. /\ DOMAIN panels' = StatusPages
      /\ \A q \in StatusPages :
            /\ DOMAIN panels'[q] = PanelFields /\ panels'[q].shownAt \in Nat
            /\ PanelIsFoundOut(panels'[q], statusNow', matches')
    BY <1>2, <1>4, PanelKeepsStatus
<1> QED  BY <1>2, <1>5, <1>6, PagesKeep

\* Time and the program go on: what was found out stays so, and nobody waits beyond
\* the time of its request.
LEMMA WorldKeeps ==
    ASSUME OperationsAssumption, StatusInvariant, Status!Upgrade \/ Status!Tick
    PROVE  StatusInvariant'
<1>1. /\ StatusTypes /\ statusNow \in Nat /\ PageTimeout \in Nat
    BY DEF StatusInvariant, StatusTypes, OperationsAssumption
<1>2. /\ statusNow' \in Nat /\ statusNow <= statusNow' /\ matches \subseteq matches'
      /\ UNCHANGED <<env, cachedStatus, statusRequest, statusCalls, panels>>
    BY <1>1 DEF Status!Upgrade, Status!Tick
<1>3. ASSUME NEW s, FoundOut(s, statusNow, matches)
      PROVE  FoundOut(s, statusNow', matches')
    BY <1>1, <1>2, <1>3, FoundOutStays
<1>4. (Status!IsRecorded(deployed) => statusNow \in matches)'
    <2>1. CASE Status!Upgrade
        <3>1. matches' = matches \cup Status!MatchesAt(statusNow, deployed')
              /\ UNCHANGED <<statusNow, env>>
            BY <2>1, Zenon DEF Status!Upgrade
        <3> QED  BY <3>1, Zenon DEF Status!MatchesAt, Status!IsRecorded
    <2>2. CASE Status!Tick
        <3>1. /\ matches' = matches \cup Status!MatchesAt(statusNow + 1, deployed)
              /\ statusNow' = statusNow + 1 /\ UNCHANGED <<env, deployed>>
            BY <2>2, Zenon DEF Status!Tick
        <3> QED  BY <3>1, Zenon DEF Status!MatchesAt, Status!IsRecorded
    <2> QED  BY <2>1, <2>2
<1>5. ASSUME NEW c \in DOMAIN statusCalls
      PROVE  CallIsInTime(statusCalls[c], statusNow', matches')
    <2>1. CallIsInTime(statusCalls[c], statusNow, matches) /\ statusCalls[c].askedAt \in Nat
        BY <1>1, CallFacts DEF StatusInvariant
    <2>2. CASE statusCalls[c].state = "closed"
        BY <2>2, Zenon DEF CallIsInTime
    <2>3. CASE statusCalls[c].state # "closed"
        <3>1. statusNow' <= statusCalls[c].askedAt + PageTimeout
            <4>1. CASE Status!Upgrade
                <5>1. statusNow' = statusNow
                    BY <4>1, Zenon DEF Status!Upgrade
                <5>2. statusNow <= statusCalls[c].askedAt + PageTimeout
                    BY <2>1, <2>3, Zenon DEF CallIsInTime
                <5> QED  BY <5>1, <5>2
            <4>2. CASE Status!Tick
                <5>1. statusNow' = statusNow + 1
                      /\ statusNow < statusCalls[c].askedAt + PageTimeout
                    BY <4>2, <2>3, Zenon DEF Status!Tick
                <5> QED  BY <1>1, <2>1, <5>1
            <4> QED  BY <4>1, <4>2
        <3>2. statusCalls[c].askedAt <= statusNow
            BY <2>1, <2>3, Zenon DEF CallIsInTime
        <3>3. statusCalls[c].askedAt <= statusNow'
            BY <1>1, <1>2, <2>1, <3>2
        <3> QED  BY <1>3, <2>1, <2>3, <3>1, <3>3, Zenon DEF CallIsInTime
    <2> QED  BY <2>2, <2>3
<1>6. ASSUME NEW q \in StatusPages
      PROVE  PanelIsFoundOut(panels[q], statusNow', matches')
    BY <1>3, Zenon DEF StatusInvariant, PanelIsFoundOut
<1>7. StatusTypes'
    BY <1>1, <1>2 DEF StatusTypes
<1>8. CacheIsFoundOut'
    BY <1>2, <1>3, Zenon DEF StatusInvariant, CacheIsFoundOut
<1>9. ChecksAreOpen'
    <2>1. CASE statusRequest = Null
        BY <1>2, <2>1, Zenon DEF ChecksAreOpen
    <2>2. CASE statusRequest # Null
        <3>1. statusRequest.status.checkedAt \in Nat
            <4>1. statusRequest.status \in StatusRecords
                BY <1>1, <2>2 DEF StatusTypes
            <4> QED  BY <4>1 DEF StatusRecords
        <3>2. statusRequest.status.checkedAt <= statusNow
            BY <2>2, Zenon DEF StatusInvariant, ChecksAreOpen
        <3>3. statusRequest.status.checkedAt <= statusNow'
            BY <1>1, <1>2, <3>1, <3>2
        <3> QED  BY <1>2, <2>2, <3>3, Zenon DEF StatusInvariant, ChecksAreOpen
    <2> QED  BY <2>1, <2>2
<1> QED  BY <1>2, <1>4, <1>5, <1>6, <1>7, <1>8, <1>9, Zenon DEF StatusInvariant

\* At first nothing was found out, and nothing is shown.
LEMMA StatusInitial ==
    ASSUME OperationsAssumption, Status!StatusInit
    PROVE  StatusInvariant
<1>1. /\ statusNow = 0 /\ statusRequest = Null /\ cachedStatus = Null
      /\ statusCalls = << >> /\ matches = Status!MatchesAt(0, deployed)
    BY Zenon DEF Status!StatusInit
<1>2. env.vaultExists \in BOOLEAN
    BY DEF Status!StatusInit
<1>3. /\ DOMAIN panels = StatusPages
      /\ \A p \in StatusPages : /\ DOMAIN panels[p] = PanelFields
                                /\ panels[p].shownAt \in Nat
                                /\ panels[p].status = Null
    <2> DEFINE yes == TRUE
               no == FALSE
               panel == [status |-> Null, shownAt |-> 0, loading |-> yes, failed |-> no,
                         mounted |-> no, running |-> Null, runs |-> << >>]
    <2>1. panels = [p \in StatusPages |-> panel]
        BY Zenon DEF Status!StatusInit
    <2> HIDE DEF yes, no
    <2>2. DOMAIN panel = PanelFields /\ panel.shownAt \in Nat /\ panel.status = Null
        BY DEF PanelFields
    <2> HIDE DEF panel
    <2> QED  BY <2>1, <2>2, Zenon
<1>4. StatusTypes
    BY <1>1, <1>2, <1>3 DEF StatusTypes
<1>5. Status!IsRecorded(deployed) => statusNow \in matches
    BY <1>1 DEF Status!MatchesAt
<1>6. DOMAIN statusCalls = {}
    BY <1>1
<1> QED  BY <1>1, <1>3, <1>4, <1>5, <1>6, Zenon
         DEF StatusInvariant, ChecksAreOpen, CacheIsFoundOut, PanelIsFoundOut

\* Every step keeps the status, whatever else is operated.
LEMMA StatusSteps ==
    ASSUME OperationsAssumption, StatusInvariant, [OperationsNext]_operationsVars
    PROVE  StatusInvariant'
<1>1. CASE UNCHANGED statusVars
    <2>1. UNCHANGED <<statusNow, env, deployed, matches, cachedStatus, statusRequest,
                      statusCalls, panels>>
        BY <1>1 DEF statusVars
    <2>2. StatusTypes' /\ ChecksAreOpen' /\ CacheIsFoundOut'
        BY <2>1 DEF StatusInvariant, StatusTypes, ChecksAreOpen, CacheIsFoundOut
    <2>3. (Status!IsRecorded(deployed) => statusNow \in matches)'
        BY <2>1 DEF StatusInvariant, Status!IsRecorded
    <2> QED  BY <2>1, <2>2, <2>3, Zenon DEF StatusInvariant
<1>2. CASE Status!StatusNext
    BY <1>2, CheckStepsKeep, GetStatusKeeps, ShowsKeeps, PageStepsKeep, WorldKeeps
       DEF Status!StatusNext
<1> QED  BY <1>1, <1>2
         DEF OperationsNext, CacheStep, DeployStep, LiveStep, StatusStep,
             WorkspaceStep, IncidentStep, LabStep, ReplayStep, operationsVars

\* The status's invariant, whatever else is operated.
LEMMA StatusInvariantHolds ==
    ASSUME OperationsAssumption
    PROVE  OperationsSpec => []StatusInvariant
<1>1. OperationsInit => StatusInvariant
    BY StatusInitial DEF OperationsInit
<1>2. StatusInvariant /\ [OperationsNext]_operationsVars => StatusInvariant'
    BY StatusSteps
<1> QED  BY <1>1, <1>2, PTL DEF OperationsSpec

-----------------------------------------------------------------------------
(* A live market: the book.                                                *)

Levels == [price : Live!Prices, size : Nat]
RawLevels == [price : Int, size : Int]

KeptStep(raw, g, n) ==
    IF n = 0 THEN << >>
    ELSE IF raw[n].price \in Live!Prices /\ raw[n].size >= 0
         THEN Append(g[n - 1], raw[n])
    ELSE g[n - 1]

IsKept(raw, g) == g = [n \in 0 .. Len(raw) |-> KeptStep(raw, g, n)]

\* What parseClobBook keeps is the value at the end of the function chosen.
LEMMA KeptIsChosen ==
    ASSUME NEW raw \in Seq(RawLevels)
    PROVE  Live!ParseLevels(raw) = (CHOOSE g : IsKept(raw, g))[Len(raw)]
BY DEF Live!ParseLevels, IsKept, KeptStep, Live!Len, Live!Append, Len, Append

\* There is such a function: it is extended one level at a time.
LEMMA KeptExists ==
    ASSUME NEW raw \in Seq(RawLevels)
    PROVE  \E g : IsKept(raw, g)
<1> DEFINE Q == {n \in Nat : \E g : \A k \in 0 .. n : g[k] = KeptStep(raw, g, k)}
<1>1. 0 \in Q
    <2> DEFINE h == [k \in {0} |-> << >>]
    <2>1. \A k \in 0 .. 0 : h[k] = KeptStep(raw, h, k)
        BY DEF KeptStep
    <2> HIDE DEF h
    <2> QED  BY <2>1
<1>2. ASSUME NEW n \in Nat, n \in Q
      PROVE  n + 1 \in Q
    <2>1. PICK g : \A k \in 0 .. n : g[k] = KeptStep(raw, g, k)
        BY <1>2
    <2> DEFINE h == [k \in 0 .. n + 1 |-> KeptStep(raw, g, k)]
    <2>2. ASSUME NEW k \in 0 .. n + 1
          PROVE  h[k] = KeptStep(raw, h, k)
        <3>1. h[k] = KeptStep(raw, g, k)
            OBVIOUS
        <3>2. k # 0 => h[k - 1] = g[k - 1]
            <4>1. k # 0 => k - 1 \in 0 .. n /\ k - 1 \in 0 .. n + 1
                OBVIOUS
            <4> QED  BY <2>1, <4>1
        <3> HIDE DEF h
        <3> QED  BY <3>1, <3>2 DEF KeptStep
    <2> HIDE DEF h
    <2> QED  BY <2>2
<1>3. Nat \subseteq Q
    <2> HIDE DEF Q
    <2> QED  BY <1>1, <1>2, NatSetInduction
<1>4. Len(raw) \in Nat
    OBVIOUS
<1>5. PICK g : \A k \in 0 .. Len(raw) : g[k] = KeptStep(raw, g, k)
    BY <1>3, <1>4
<1> DEFINE h == [k \in 0 .. Len(raw) |-> g[k]]
<1>6. ASSUME NEW k \in 0 .. Len(raw)
      PROVE  h[k] = KeptStep(raw, h, k)
    <2>1. h[k] = KeptStep(raw, g, k)
        BY <1>5
    <2>2. k # 0 => h[k - 1] = g[k - 1]
        <3>1. k # 0 => k - 1 \in 0 .. Len(raw)
            BY <1>4
        <3> QED  BY <3>1
    <2> HIDE DEF h
    <2> QED  BY <2>1, <2>2 DEF KeptStep
<1>7. h = [k \in 0 .. Len(raw) |-> KeptStep(raw, h, k)]
    <2>1. h = [k \in 0 .. Len(raw) |-> h[k]]
        OBVIOUS
    <2> HIDE DEF h
    <2> QED  BY <1>6, <2>1
<1> QED  BY <1>7 DEF IsKept

\* So a parsed book has levels only.
LEMMA ParsedLevels ==
    ASSUME NEW raw \in Seq(RawLevels)
    PROVE  Live!ParseLevels(raw) \in Seq(Levels)
<1> DEFINE g == CHOOSE f : IsKept(raw, f)
           Q == {n \in Nat : n <= Len(raw) => g[n] \in Seq(Levels)}
<1>1. IsKept(raw, g)
    BY KeptExists
<1> HIDE DEF g
<1>2. \A k \in 0 .. Len(raw) : g[k] = KeptStep(raw, g, k)
    BY <1>1 DEF IsKept
<1>3. Len(raw) \in Nat
    OBVIOUS
<1>4. 0 \in Q
    <2>1. g[0] = KeptStep(raw, g, 0)
        BY <1>2, <1>3
    <2>2. g[0] = << >>
        BY <2>1 DEF KeptStep
    <2>3. << >> \in Seq(Levels)
        OBVIOUS
    <2>4. g[0] \in Seq(Levels)
        BY <2>2, <2>3
    <2> QED  BY <2>4
<1>5. ASSUME NEW n \in Nat, n \in Q
      PROVE  n + 1 \in Q
    <2> SUFFICES ASSUME n + 1 <= Len(raw)
                 PROVE  g[n + 1] \in Seq(Levels)
        OBVIOUS
    <2>1. g[n] \in Seq(Levels)
        BY <1>3, <1>5
    <2>2. g[n + 1] = KeptStep(raw, g, n + 1)
        BY <1>2, <1>3
    <2>3. n + 1 # 0 /\ (n + 1) - 1 = n /\ raw[n + 1] \in RawLevels
        BY <1>3
    <2>4. raw[n + 1].price \in Live!Prices /\ raw[n + 1].size >= 0
             => raw[n + 1] \in Levels
        BY <2>3 DEF RawLevels, Levels
    <2> QED  BY <2>1, <2>2, <2>3, <2>4 DEF KeptStep
<1>6. Nat \subseteq Q
    <2> HIDE DEF Q
    <2> QED  BY <1>4, <1>5, NatSetInduction
<1>7. g[Len(raw)] \in Seq(Levels)
    BY <1>3, <1>6
<1> QED  BY <1>7, KeptIsChosen DEF g

\* Of numbers that are some, one is the least.
LEMMA LeastIsTaken ==
    ASSUME NEW n \in Nat, NEW key \in [1 .. n + 1 -> Int]
    PROVE  \E m \in 1 .. n + 1 : \A i \in 1 .. n + 1 : key[m] <= key[i]
<1> DEFINE Q == {k \in Nat : k <= n =>
                    \E m \in 1 .. k + 1 : \A i \in 1 .. k + 1 : key[m] <= key[i]}
<1>1. 0 \in Q
    <2>1. 1 \in 1 .. 0 + 1 /\ key[1] \in Int
        OBVIOUS
    <2>2. \A i \in 1 .. 0 + 1 : i = 1
        OBVIOUS
    <2> QED  BY <2>1, <2>2
<1>2. ASSUME NEW k \in Nat, k \in Q
      PROVE  k + 1 \in Q
    <2> SUFFICES ASSUME k + 1 <= n
                 PROVE  \E m \in 1 .. (k + 1) + 1 :
                           \A i \in 1 .. (k + 1) + 1 : key[m] <= key[i]
        OBVIOUS
    <2>1. PICK m \in 1 .. k + 1 : \A i \in 1 .. k + 1 : key[m] <= key[i]
        BY <1>2
    <2>2. key[m] \in Int /\ key[k + 2] \in Int
        OBVIOUS
    <2>3. CASE key[m] <= key[k + 2]
        <3>1. m \in 1 .. (k + 1) + 1
            OBVIOUS
        <3>2. \A i \in 1 .. (k + 1) + 1 : i \in 1 .. k + 1 \/ i = k + 2
            OBVIOUS
        <3> QED  BY <2>1, <2>3, <3>1, <3>2
    <2>4. CASE key[k + 2] < key[m]
        <3>1. k + 2 \in 1 .. (k + 1) + 1
            OBVIOUS
        <3>2. ASSUME NEW i \in 1 .. (k + 1) + 1
              PROVE  key[k + 2] <= key[i]
            <4>1. key[i] \in Int
                OBVIOUS
            <4>2. i \in 1 .. k + 1 \/ i = k + 2
                OBVIOUS
            <4> QED  BY <2>1, <2>2, <2>4, <4>1, <4>2
        <3> QED  BY <3>1, <3>2
    <2> QED  BY <2>2, <2>3, <2>4
<1>3. Nat \subseteq Q
    <2> HIDE DEF Q
    <2> QED  BY <1>1, <1>2, NatSetInduction
<1>4. n \in Q
    BY <1>3
<1> QED  BY <1>4

\* Any numbers can be put in order: the least is the last, and the others are ordered.
LEMMA OrderExists ==
    \A n \in Nat : \A key \in [1 .. n -> Int] :
        \E p \in Bijection(1 .. n, 1 .. n) :
            \A i, j \in 1 .. n : i < j => key[p[i]] >= key[p[j]]
<1> DEFINE Ordered(n, key) ==
              \E p \in Bijection(1 .. n, 1 .. n) :
                  \A i, j \in 1 .. n : i < j => key[p[i]] >= key[p[j]]
           Q == {n \in Nat : \A key \in [1 .. n -> Int] : Ordered(n, key)}
<1>1. 0 \in Q
    <2> SUFFICES ASSUME NEW key \in [1 .. 0 -> Int]
                 PROVE  Ordered(0, key)
        OBVIOUS
    <2> DEFINE p == [i \in 1 .. 0 |-> i]
    <2>1. p \in Bijection(1 .. 0, 1 .. 0)
        BY DEF Bijection, Injection, Surjection, IsInjective
    <2>2. \A i, j \in 1 .. 0 : i < j => key[p[i]] >= key[p[j]]
        OBVIOUS
    <2> HIDE DEF p
    <2> QED  BY <2>1, <2>2
<1>2. ASSUME NEW n \in Nat, n \in Q
      PROVE  n + 1 \in Q
    <2> SUFFICES ASSUME NEW key \in [1 .. n + 1 -> Int]
                 PROVE  Ordered(n + 1, key)
        OBVIOUS
    <2>1. PICK m \in 1 .. n + 1 : \A i \in 1 .. n + 1 : key[m] <= key[i]
        BY LeastIsTaken
    <2> DEFINE swap == [i \in 1 .. n + 1 |->
                           IF i = m THEN n + 1 ELSE IF i = n + 1 THEN m ELSE i]
               rest == [i \in 1 .. n |-> key[swap[i]]]
    <2>2. /\ \A i \in 1 .. n + 1 : swap[i] \in 1 .. n + 1
          /\ \A i, j \in 1 .. n + 1 : swap[i] = swap[j] => i = j
          /\ \A j \in 1 .. n + 1 : swap[swap[j]] = j
          /\ swap[n + 1] = m
        OBVIOUS
    <2> HIDE DEF swap
    <2>3. rest \in [1 .. n -> Int]
        BY <2>2
    <2>4. PICK q \in Bijection(1 .. n, 1 .. n) :
              \A i, j \in 1 .. n : i < j => rest[q[i]] >= rest[q[j]]
        <3> HIDE DEF rest
        <3> QED  BY <1>2, <2>3
    <2>5. /\ \A i \in 1 .. n : q[i] \in 1 .. n
          /\ \A i, j \in 1 .. n : q[i] = q[j] => i = j
          /\ \A j \in 1 .. n : \E i \in 1 .. n : q[i] = j
          /\ \A i \in 1 .. n : rest[q[i]] = key[swap[q[i]]]
        BY DEF Bijection, Injection, Surjection, IsInjective
    <2> DEFINE p == [i \in 1 .. n + 1 |-> IF i = n + 1 THEN m ELSE swap[q[i]]]
    <2>a. ASSUME NEW i \in 1 .. n
          PROVE  /\ i \in 1 .. n + 1 /\ i # n + 1
                 /\ q[i] \in 1 .. n + 1
        <3>1. q[i] \in 1 .. n
            BY <2>5
        <3>2. \A k \in 1 .. n : k \in 1 .. n + 1 /\ k # n + 1
            OBVIOUS
        <3> QED  BY <3>1, <3>2
    <2>b. \A i \in 1 .. n : p[i] = swap[q[i]]
        BY <2>a
    <2>c. p[n + 1] = m
        OBVIOUS
    <2>d. \A i \in 1 .. n + 1 : i \in 1 .. n \/ i = n + 1
        OBVIOUS
    <2>e. \A i \in 1 .. n + 1 : p[i] \in 1 .. n + 1
        <3> HIDE DEF p
        <3> QED  BY <2>2, <2>a, <2>b, <2>c, <2>d
    <2>f. p \in [1 .. n + 1 -> 1 .. n + 1]
        <3>1. p = [i \in 1 .. n + 1 |-> p[i]]
            OBVIOUS
        <3> HIDE DEF p
        <3> QED  BY <2>e, <3>1
    <2>6. /\ p[n + 1] = m
          /\ \A i \in 1 .. n : p[i] = swap[q[i]]
          /\ p \in [1 .. n + 1 -> 1 .. n + 1]
        <3> HIDE DEF p
        <3> QED  BY <2>b, <2>c, <2>f
    <2> HIDE DEF p, rest
    <2>7. \A i, j \in 1 .. n + 1 : p[i] = p[j] => i = j
        <3> SUFFICES ASSUME NEW i \in 1 .. n + 1, NEW j \in 1 .. n + 1, p[i] = p[j]
                     PROVE  i = j
            OBVIOUS
        <3>1. CASE i \in 1 .. n /\ j \in 1 .. n
            <4>1. q[i] \in 1 .. n + 1 /\ q[j] \in 1 .. n + 1
                BY <2>a, <3>1
            <4>2. swap[q[i]] = swap[q[j]]
                BY <2>6, <3>1
            <4>3. q[i] = q[j]
                BY <2>2, <4>1, <4>2
            <4> QED  BY <2>5, <3>1, <4>3
        <3>2. ASSUME NEW k \in 1 .. n, p[k] = m
              PROVE  FALSE
            <4>1. q[k] \in 1 .. n
                BY <2>5
            <4>2. swap[q[k]] = swap[n + 1]
                BY <2>2, <2>6, <3>2
            <4>3. q[k] \in 1 .. n + 1 /\ n + 1 \in 1 .. n + 1
                BY <2>a
            <4>4. q[k] = n + 1
                BY <2>2, <4>2, <4>3
            <4>5. n + 1 \notin 1 .. n
                OBVIOUS
            <4> QED  BY <4>1, <4>4, <4>5
        <3> QED  BY <2>6, <3>1, <3>2
    <2>8. ASSUME NEW j \in 1 .. n + 1
          PROVE  \E i \in 1 .. n + 1 : p[i] = j
        <3>1. CASE j = m
            BY <2>6, <3>1
        <3>2. CASE j # m
            <4>1. swap[j] \in 1 .. n + 1 /\ swap[swap[j]] = j
                BY <2>2
            <4>2. swap[j] # n + 1
                BY <2>2, <3>2, <4>1
            <4>3. swap[j] \in 1 .. n
                BY <4>1, <4>2
            <4>4. PICK i \in 1 .. n : q[i] = swap[j]
                BY <2>5, <4>3
            <4>5. p[i] = j
                BY <2>6, <4>1, <4>4
            <4> QED  BY <4>5
        <3> QED  BY <3>1, <3>2
    <2>9. p \in Bijection(1 .. n + 1, 1 .. n + 1)
        BY <2>6, <2>7, <2>8 DEF Bijection, Injection, Surjection, IsInjective
    <2>10. ASSUME NEW i \in 1 .. n + 1, NEW j \in 1 .. n + 1, i < j
           PROVE  key[p[i]] >= key[p[j]]
        <3>1. i \in 1 .. n /\ p[i] \in 1 .. n + 1
            BY <2>6, <2>10
        <3>2. CASE j = n + 1
            <4>1. p[j] = m /\ key[m] <= key[p[i]]
                BY <2>1, <2>6, <3>1, <3>2
            <4> QED  BY <3>1, <4>1
        <3>3. CASE j \in 1 .. n
            <4>1. rest[q[i]] >= rest[q[j]]
                BY <2>4, <2>10, <3>1, <3>3
            <4>2. key[p[i]] = rest[q[i]] /\ key[p[j]] = rest[q[j]]
                BY <2>5, <2>6, <3>1, <3>3
            <4> QED  BY <4>1, <4>2
        <3> QED  BY <3>2, <3>3
    <2> QED  BY <2>9, <2>10
<1>3. Nat \subseteq Q
    <2> HIDE DEF Q
    <2> QED  BY <1>1, <1>2, NatSetInduction
<1> QED  BY <1>3

\* The order of the bids that the adapter chooses is one, the highest first.
LEMMA BidsAreOrdered ==
    ASSUME MICROS_ONE \in Nat, NEW levels \in Seq(Levels)
    PROVE  /\ Live!BidOrder(levels) \in Bijection(DOMAIN levels, DOMAIN levels)
           /\ \A i, j \in DOMAIN levels :
                 i < j => levels[Live!BidOrder(levels)[i]].price
                             >= levels[Live!BidOrder(levels)[j]].price
<1> DEFINE n == Len(levels)
           key == [i \in 1 .. n |-> levels[i].price]
<1>1. n \in Nat /\ DOMAIN levels = 1 .. n
    OBVIOUS
<1>2. \A i \in 1 .. n : levels[i].price \in Int
    <2>1. \A i \in 1 .. n : levels[i] \in Levels
        BY <1>1
    <2> HIDE DEF n
    <2> QED  BY <2>1 DEF Levels, Live!Prices
<1>3. key \in [1 .. n -> Int] /\ \A i \in 1 .. n : key[i] = levels[i].price
    BY <1>2
<1> HIDE DEF n, key
<1>4. PICK p \in Bijection(1 .. n, 1 .. n) :
          \A i, j \in 1 .. n : i < j => key[p[i]] >= key[p[j]]
    BY <1>1, <1>3, OrderExists
<1>5. \A i \in 1 .. n : p[i] \in 1 .. n
    BY DEF Bijection, Injection
<1>6. \A i, j \in 1 .. n : i < j => levels[p[i]].price >= levels[p[j]].price
    BY <1>3, <1>4, <1>5
<1>7. Live!Bijection(DOMAIN levels, DOMAIN levels) = Bijection(1 .. n, 1 .. n)
    BY <1>1 DEF Live!Bijection, Live!Injection, Live!Surjection, Live!IsInjective,
                Bijection, Injection, Surjection, IsInjective
<1> QED  BY <1>1, <1>6, <1>7 DEF Live!BidOrder

\* And that of the asks, the lowest first.
LEMMA AsksAreOrdered ==
    ASSUME MICROS_ONE \in Nat, NEW levels \in Seq(Levels)
    PROVE  /\ Live!AskOrder(levels) \in Bijection(DOMAIN levels, DOMAIN levels)
           /\ \A i, j \in DOMAIN levels :
                 i < j => levels[Live!AskOrder(levels)[i]].price
                             <= levels[Live!AskOrder(levels)[j]].price
<1> DEFINE n == Len(levels)
           key == [i \in 1 .. n |-> - levels[i].price]
<1>1. n \in Nat /\ DOMAIN levels = 1 .. n
    OBVIOUS
<1>2. \A i \in 1 .. n : levels[i].price \in Int
    <2>1. \A i \in 1 .. n : levels[i] \in Levels
        BY <1>1
    <2> HIDE DEF n
    <2> QED  BY <2>1 DEF Levels, Live!Prices
<1>3. key \in [1 .. n -> Int] /\ \A i \in 1 .. n : key[i] = - levels[i].price
    BY <1>2
<1> HIDE DEF n, key
<1>4. PICK p \in Bijection(1 .. n, 1 .. n) :
          \A i, j \in 1 .. n : i < j => key[p[i]] >= key[p[j]]
    BY <1>1, <1>3, OrderExists
<1>5. \A i \in 1 .. n : p[i] \in 1 .. n
    BY DEF Bijection, Injection
<1>6. \A i, j \in 1 .. n : i < j => levels[p[i]].price <= levels[p[j]].price
    BY <1>2, <1>3, <1>4, <1>5
<1>7. Live!Bijection(DOMAIN levels, DOMAIN levels) = Bijection(1 .. n, 1 .. n)
    BY <1>1 DEF Live!Bijection, Live!Injection, Live!Surjection, Live!IsInjective,
                Bijection, Injection, Surjection, IsInjective
<1> QED  BY <1>1, <1>6, <1>7 DEF Live!AskOrder

\* The depth of levels is the sum of their sizes.
LEMMA DepthIsSum ==
    ASSUME NEW levels
    PROVE  Live!Depth(levels)
              = SumOver([i \in DOMAIN levels |-> levels[i].size], DOMAIN levels)
<1> DEFINE S == DOMAIN levels
           f == [i \in S |-> levels[i].size]
           IsDepthOn(g) == g = [s \in SUBSET S |->
                                   IF s = {} THEN 0
                                   ELSE levels[Chosen(s)].size + g[s \ {Chosen(s)}]]
<1>1. Live!Depth(levels) = (CHOOSE g : IsDepthOn(g))[S]
    BY DEF Live!Depth, Live!MapThenSumSet, Live!MapThenFoldSet, Chosen
<1>2. ASSUME NEW g
      PROVE  IsDepthOn(g) <=> IsSumOn(f, S, g)
    <2>1. \A s \in SUBSET S : s # {} => f[Chosen(s)] = levels[Chosen(s)].size
        BY ChosenIn
    <2> HIDE DEF f, S
    <2>2. \A s \in SUBSET S : SumStep(f, g, s) =
              IF s = {} THEN 0 ELSE levels[Chosen(s)].size + g[s \ {Chosen(s)}]
        BY <2>1 DEF SumStep
    <2>3. [s \in SUBSET S |-> SumStep(f, g, s)] =
              [s \in SUBSET S |->
                  IF s = {} THEN 0 ELSE levels[Chosen(s)].size + g[s \ {Chosen(s)}]]
        BY <2>2
    <2> QED  BY <2>3 DEF IsSumOn
<1> HIDE DEF IsDepthOn
<1>3. (CHOOSE g : IsDepthOn(g)) = CHOOSE g : IsSumOn(f, S, g)
    BY <1>2
<1> QED  BY <1>1, <1>3, SumIsChosen

Reordered(levels, p) == [i \in DOMAIN levels |-> levels[p[i]]]

\* Nothing is lost or added when levels are put in another order: the first is one of
\* them, each of them is somewhere, and they are as deep.
LEMMA ReorderedKeeps ==
    ASSUME NEW levels \in Seq(Levels),
           NEW p \in Bijection(DOMAIN levels, DOMAIN levels)
    PROVE  /\ (Reordered(levels, p) = << >>) <=> (levels = << >>)
           /\ levels # << >> =>
                 /\ 1 \in DOMAIN levels
                 /\ Reordered(levels, p)[1] \in Live!ToSet(levels)
           /\ \A l \in Live!ToSet(levels) :
                 \E i \in DOMAIN levels : l = Reordered(levels, p)[i]
           /\ Live!Depth(Reordered(levels, p)) = Live!Depth(levels)
<1> DEFINE n == Len(levels)
           s == Reordered(levels, p)
<1>1. n \in Nat /\ DOMAIN levels = 1 .. n /\ \A i \in 1 .. n : levels[i] \in Levels
    OBVIOUS
<1>2. /\ \A i \in 1 .. n : p[i] \in 1 .. n
      /\ \A i, j \in 1 .. n : p[i] = p[j] => i = j
      /\ \A j \in 1 .. n : \E i \in 1 .. n : p[i] = j
    BY <1>1 DEF Bijection, Injection, Surjection, IsInjective
<1> HIDE DEF n
<1>3. DOMAIN s = 1 .. n /\ \A i \in 1 .. n : s[i] = levels[p[i]]
    BY <1>1 DEF Reordered
<1>4. s \in Seq(Levels) /\ Len(s) = n
    <2>1. s = [i \in 1 .. n |-> s[i]]
        BY <1>1 DEF Reordered
    <2>2. \A i \in 1 .. n : s[i] \in Levels
        BY <1>1, <1>2, <1>3
    <2> HIDE DEF s
    <2> QED  BY <1>1, <2>1, <2>2
<1> HIDE DEF s
<1>5. (s = << >>) <=> (levels = << >>)
    BY <1>1, <1>4 DEF n
<1>6. levels # << >> => 1 \in 1 .. n /\ s[1] = levels[p[1]] /\ p[1] \in 1 .. n
    <2>1. levels # << >> => n # 0
        BY DEF n
    <2>2. n # 0 => 1 \in 1 .. n
        BY <1>1
    <2> QED  BY <1>2, <1>3, <2>1, <2>2
<1>7. Live!ToSet(levels) = {levels[i] : i \in 1 .. n}
    BY <1>1 DEF Live!ToSet
<1>8. \A l \in Live!ToSet(levels) : \E i \in 1 .. n : l = s[i]
    BY <1>2, <1>3, <1>7
<1>9. Live!Depth(s) = Live!Depth(levels)
    <2> DEFINE f == [i \in 1 .. n |-> s[i].size]
               g == [i \in 1 .. n |-> levels[i].size]
    <2>1. Live!Depth(s) = SumOver(f, 1 .. n)
        BY <1>3, DepthIsSum
    <2>2. Live!Depth(levels) = SumOver(g, 1 .. n)
        BY <1>1, DepthIsSum
    <2>3. IsFiniteSet(1 .. n)
        BY <1>1, FS_Interval
    <2>4. {p[i] : i \in 1 .. n} = 1 .. n
        BY <1>2
    <2>5. \A i \in 1 .. n : f[i] \in Int /\ g[p[i]] = f[i]
        BY <1>1, <1>2, <1>3 DEF Levels
    <2> HIDE DEF f, g
    <2>6. SumOver(g, {p[i] : i \in 1 .. n}) = SumOver(f, 1 .. n)
        <3> DEFINE S == 1 .. n
        <3>1. \A x, y \in S : p[x] = p[y] => x = y
            BY <1>2
        <3>2. \A x \in S : f[x] \in Int /\ g[p[x]] = f[x]
            BY <2>5
        <3>3. IsFiniteSet(S)
            BY <2>3
        <3> HIDE DEF S
        <3>4. SumOver(g, {p[x] : x \in S}) = SumOver(f, S)
            BY <3>1, <3>2, <3>3, SumOfImage
        <3> QED  BY <3>4 DEF S
    <2> QED  BY <2>1, <2>2, <2>4, <2>6
<1>10. /\ levels # << >> => 1 \in DOMAIN levels /\ s[1] \in Live!ToSet(levels)
       /\ \A l \in Live!ToSet(levels) : \E i \in DOMAIN levels : l = s[i]
    BY <1>1, <1>6, <1>7, <1>8
<1> QED  BY <1>5, <1>9, <1>10 DEF s

\* Of sorted bids, the first is the best, and they are as deep.
LEMMA BestBid ==
    ASSUME MICROS_ONE \in Nat, NEW book, book.bids \in Seq(Levels)
    PROVE  LET s == Live!SortedBids(book)
           IN  /\ (s = << >>) <=> (book.bids = << >>)
               /\ Live!Depth(s) = Live!Depth(book.bids)
               /\ book.bids # << >> =>
                     /\ s[1] \in Live!ToSet(book.bids)
                     /\ \A l \in Live!ToSet(book.bids) : l.price <= s[1].price
<1> DEFINE levels == book.bids
           p == Live!BidOrder(levels)
           s == Live!SortedBids(book)
<1>1. levels \in Seq(Levels)
    OBVIOUS
<1> HIDE DEF levels, p
<1>2. s = Reordered(levels, p)
    BY DEF Live!SortedBids, Reordered, levels, p
<1>3. /\ p \in Bijection(DOMAIN levels, DOMAIN levels)
      /\ \A i, j \in DOMAIN levels : i < j => levels[p[i]].price >= levels[p[j]].price
    BY <1>1, BidsAreOrdered DEF p
<1>4. \A i, j \in DOMAIN levels : i < j => s[i].price >= s[j].price
    BY <1>2, <1>3 DEF Reordered
<1>5. /\ (s = << >>) <=> (levels = << >>)
      /\ levels # << >> => 1 \in DOMAIN levels /\ s[1] \in Live!ToSet(levels)
      /\ \A l \in Live!ToSet(levels) : \E i \in DOMAIN levels : l = s[i]
      /\ Live!Depth(s) = Live!Depth(levels)
    BY <1>1, <1>2, <1>3, ReorderedKeeps
<1> HIDE DEF s
<1>6. ASSUME levels # << >>, NEW l \in Live!ToSet(levels)
      PROVE  l.price <= s[1].price
    <2>1. PICK i \in DOMAIN levels : l = s[i]
        BY <1>5
    <2>2. DOMAIN levels = 1 .. Len(levels) /\ Len(levels) \in Nat
        BY <1>1
    <2>3. i = 1 \/ 1 < i
        BY <2>2
    <2>4. s[1] \in Levels
        <3>1. \A i1 \in 1 .. Len(levels) : levels[i1] \in Levels
            BY <1>1
        <3> QED  BY <1>5, <1>6, <2>2, <3>1 DEF Live!ToSet
    <2>5. s[1].price \in Int /\ s[i].price \in Int
        <3>1. s[i] \in Levels
            <4>1. \A i1 \in 1 .. Len(levels) : levels[i1] \in Levels
                BY <1>1
            <4> QED  BY <2>1, <1>6, <2>2, <4>1 DEF Live!ToSet
        <3> QED  BY <2>4, <3>1 DEF Levels, Live!Prices
    <2> QED  BY <1>4, <1>5, <1>6, <2>1, <2>3, <2>5
<1> QED  BY <1>5, <1>6 DEF levels, s

\* And so for the asks.
LEMMA BestAsk ==
    ASSUME MICROS_ONE \in Nat, NEW book, book.asks \in Seq(Levels)
    PROVE  LET s == Live!SortedAsks(book)
           IN  /\ (s = << >>) <=> (book.asks = << >>)
               /\ Live!Depth(s) = Live!Depth(book.asks)
               /\ book.asks # << >> =>
                     /\ s[1] \in Live!ToSet(book.asks)
                     /\ \A l \in Live!ToSet(book.asks) : l.price >= s[1].price
<1> DEFINE levels == book.asks
           p == Live!AskOrder(levels)
           s == Live!SortedAsks(book)
<1>1. levels \in Seq(Levels)
    OBVIOUS
<1> HIDE DEF levels, p
<1>2. s = Reordered(levels, p)
    BY DEF Live!SortedAsks, Reordered, levels, p
<1>3. /\ p \in Bijection(DOMAIN levels, DOMAIN levels)
      /\ \A i, j \in DOMAIN levels : i < j => levels[p[i]].price <= levels[p[j]].price
    BY <1>1, AsksAreOrdered DEF p
<1>4. \A i, j \in DOMAIN levels : i < j => s[i].price <= s[j].price
    BY <1>2, <1>3 DEF Reordered
<1>5. /\ (s = << >>) <=> (levels = << >>)
      /\ levels # << >> => 1 \in DOMAIN levels /\ s[1] \in Live!ToSet(levels)
      /\ \A l \in Live!ToSet(levels) : \E i \in DOMAIN levels : l = s[i]
      /\ Live!Depth(s) = Live!Depth(levels)
    BY <1>1, <1>2, <1>3, ReorderedKeeps
<1> HIDE DEF s
<1>6. ASSUME levels # << >>, NEW l \in Live!ToSet(levels)
      PROVE  l.price >= s[1].price
    <2>1. PICK i \in DOMAIN levels : l = s[i]
        BY <1>5
    <2>2. DOMAIN levels = 1 .. Len(levels) /\ Len(levels) \in Nat
        BY <1>1
    <2>3. i = 1 \/ 1 < i
        BY <2>2
    <2>4. \A k \in Live!ToSet(levels) : k \in Levels
        <3>1. \A i1 \in 1 .. Len(levels) : levels[i1] \in Levels
            BY <1>1
        <3> QED  BY <2>2, <3>1 DEF Live!ToSet
    <2>5. s[1].price \in Int /\ s[i].price \in Int
        <3>1. s[i] \in Levels /\ s[1] \in Levels
            BY <1>5, <1>6, <2>1, <2>4
        <3> QED  BY <3>1 DEF Levels, Live!Prices
    <2> QED  BY <1>4, <1>5, <1>6, <2>1, <2>3, <2>5
<1> QED  BY <1>5, <1>6 DEF levels, s

BothSides(book) == book.bids # << >> /\ book.asks # << >>

\* So the metrics are the best prices, what is between them, and the depths.
LEMMA MetricsOfTheBest ==
    ASSUME MICROS_ONE \in Nat, NEW book,
           book.bids \in Seq(Levels), book.asks \in Seq(Levels)
    PROVE  LET m == Live!ComputeOrderBookMetrics(book)
           IN  /\ m.bidDepth = Live!Depth(book.bids)
               /\ m.askDepth = Live!Depth(book.asks)
               /\ BothSides(book) =>
                     /\ m.spread = m.bestAsk - m.bestBid
                     /\ m.midpoint = (m.bestBid + m.bestAsk + 1) \div 2
                     /\ \E b \in Live!ToSet(book.bids) :
                           /\ b.price = m.bestBid
                           /\ \A l \in Live!ToSet(book.bids) : l.price <= b.price
                     /\ \E a \in Live!ToSet(book.asks) :
                           /\ a.price = m.bestAsk
                           /\ \A l \in Live!ToSet(book.asks) : l.price >= a.price
<1> DEFINE bids == Live!SortedBids(book)
           asks == Live!SortedAsks(book)
           bestBid == IF bids = << >> THEN 0 ELSE bids[1].price
           bestAsk == IF asks = << >> THEN 0 ELSE asks[1].price
           midpoint == IF bids # << >> /\ asks # << >>
                       THEN (bestBid + bestAsk + 1) \div 2 ELSE 0
           spread == IF bids # << >> /\ asks # << >> THEN bestAsk - bestBid ELSE 0
           bidDepth == Live!Depth(bids)
           askDepth == Live!Depth(asks)
           m == Live!ComputeOrderBookMetrics(book)
<1>1. /\ (bids = << >>) <=> (book.bids = << >>)
      /\ bidDepth = Live!Depth(book.bids)
      /\ book.bids # << >> =>
            /\ bids[1] \in Live!ToSet(book.bids)
            /\ \A l \in Live!ToSet(book.bids) : l.price <= bids[1].price
    BY BestBid
<1>2. /\ (asks = << >>) <=> (book.asks = << >>)
      /\ askDepth = Live!Depth(book.asks)
      /\ book.asks # << >> =>
            /\ asks[1] \in Live!ToSet(book.asks)
            /\ \A l \in Live!ToSet(book.asks) : l.price >= asks[1].price
    BY BestAsk
<1>3. m = [ bestBid |-> bestBid, bestAsk |-> bestAsk, midpoint |-> midpoint,
            spread |-> spread, bidDepth |-> bidDepth, askDepth |-> askDepth ]
    BY DEF Live!ComputeOrderBookMetrics
<1> HIDE DEF m, bids, asks, bidDepth, askDepth
<1>4. BothSides(book) =>
         /\ bestBid = bids[1].price /\ bestAsk = asks[1].price
         /\ midpoint = (bestBid + bestAsk + 1) \div 2
         /\ spread = bestAsk - bestBid
    BY <1>1, <1>2 DEF BothSides
<1> HIDE DEF bestBid, bestAsk, midpoint, spread
<1>5. /\ m.bestBid = bestBid /\ m.bestAsk = bestAsk /\ m.midpoint = midpoint
      /\ m.spread = spread /\ m.bidDepth = bidDepth /\ m.askDepth = askDepth
    BY <1>3
<1>6. ASSUME BothSides(book)
      PROVE  /\ m.spread = m.bestAsk - m.bestBid
             /\ m.midpoint = (m.bestBid + m.bestAsk + 1) \div 2
             /\ \E b \in Live!ToSet(book.bids) :
                   /\ b.price = m.bestBid
                   /\ \A l \in Live!ToSet(book.bids) : l.price <= b.price
             /\ \E a \in Live!ToSet(book.asks) :
                   /\ a.price = m.bestAsk
                   /\ \A l \in Live!ToSet(book.asks) : l.price >= a.price
    <2>1. m.spread = m.bestAsk - m.bestBid
        BY <1>4, <1>5, <1>6
    <2>2. m.midpoint = (m.bestBid + m.bestAsk + 1) \div 2
        BY <1>4, <1>5, <1>6
    <2>3. \E b \in Live!ToSet(book.bids) :
             /\ b.price = m.bestBid
             /\ \A l \in Live!ToSet(book.bids) : l.price <= b.price
        BY <1>1, <1>4, <1>5, <1>6 DEF BothSides
    <2>4. \E a \in Live!ToSet(book.asks) :
             /\ a.price = m.bestAsk
             /\ \A l \in Live!ToSet(book.asks) : l.price >= a.price
        BY <1>2, <1>4, <1>5, <1>6 DEF BothSides
    <2> QED  BY <2>1, <2>2, <2>3, <2>4
<1> QED  BY <1>1, <1>2, <1>5, <1>6 DEF m

\* The one quote of a book is the one that its metrics make.
LEMMA QuoteIsOfTheMetrics ==
    ASSUME NEW book, NEW time, NEW closed, NEW policy
    PROVE  LET m == Live!ComputeOrderBookMetrics(book)
               w == Live!ComputeDepthWeightedQuote(book, policy.window)
               reasons == Live!Reasons(m, w, book, time, closed, policy)
           IN  Live!BuildReferenceQuote(book, time, closed, policy)
                  = Live!QuoteOf(m, w, Live!Rejections(reasons, w, book, policy),
                                 book, policy)
<1> DEFINE m == Live!ComputeOrderBookMetrics(book)
           w == Live!ComputeDepthWeightedQuote(book, policy.window)
           reasons == Live!Reasons(m, w, book, time, closed, policy)
           quote == Live!QuoteOf(m, w, Live!Rejections(reasons, w, book, policy),
                                 book, policy)
           Of(m1, w1) ==
               { Live!QuoteOf(m1, w1, Live!Rejections(reasons1, w1, book, policy),
                              book, policy)
                   : reasons1 \in {Live!Reasons(m1, w1, book, time, closed, policy)} }
           Quotes == UNION {Of(m1, w1) : m1 \in {m}, w1 \in {w}}
<1>1. Live!BuildReferenceQuote(book, time, closed, policy) = CHOOSE q \in Quotes : TRUE
    BY DEF Live!BuildReferenceQuote
<1>2. Quotes = {quote}
    <2>1. Of(m, w) = {quote}
        <3> HIDE DEF m, w
        <3> QED  OBVIOUS
    <2>2. Quotes = Of(m, w)
        <3> HIDE DEF m, w, Of
        <3> QED  OBVIOUS
    <2> QED  BY <2>1, <2>2
<1> HIDE DEF Quotes, quote
<1>3. (CHOOSE q \in Quotes : TRUE) = quote
    BY <1>2
<1> QED  BY <1>1, <1>3 DEF quote

\* A check that fails is among the reasons.
LEMMA FailedChecksAreReasons ==
    ASSUME NEW m, NEW w, NEW book, NEW time, NEW closed, NEW policy,
           Live!Reasons(m, w, book, time, closed, policy) = {}
    PROVE  /\ book.timestamp \in 1 .. time + Skew
           /\ BothSides(book)
           /\ ~ (m.bestBid >= m.bestAsk)
           /\ ~ (m.spread > policy.maxSpread)
           /\ ~ (m.bidDepth < policy.minDepth) /\ ~ (m.askDepth < policy.minDepth)
           /\ ~ (time - book.timestamp > policy.maxAge)
           /\ Live!InUnitRange(m.bestBid) /\ Live!InUnitRange(m.bestAsk)
<1> DEFINE timestampValid == book.timestamp \in 1 .. time + Skew
           both == book.bids # << >> /\ book.asks # << >>
           invalid == ~ timestampValid
           noBid == book.bids = << >>
           noAsk == book.asks = << >>
           crossed == both /\ m.bestBid >= m.bestAsk
           wide == both /\ m.spread > policy.maxSpread
           shallow == m.bidDepth < policy.minDepth \/ m.askDepth < policy.minDepth
           old == timestampValid /\ time - book.timestamp > policy.maxAge
           outside == both /\ ~ (/\ Live!InUnitRange(m.bestBid)
                                 /\ Live!InUnitRange(m.bestAsk)
                                 /\ Live!InUnitRange(m.midpoint))
           diverges == /\ both /\ w.filled
                       /\ Live!Gap(w.midpoint, m.midpoint) > policy.maxDivergence
           fails == [ INVALID_TIMESTAMP |-> invalid, EMPTY_BID |-> noBid,
                      EMPTY_ASK |-> noAsk, CROSSED_BOOK |-> crossed,
                      SPREAD_TOO_WIDE |-> wide, INSUFFICIENT_DEPTH |-> shallow,
                      QUOTE_TOO_OLD |-> old, MARKET_CLOSED |-> closed,
                      PRICE_OUT_OF_RANGE |-> outside, METHOD_DIVERGENCE |-> diverges ]
<1>1. Live!Reasons(m, w, book, time, closed, policy)
         = {reason \in DOMAIN fails : fails[reason]}
    BY DEF Live!Reasons
<1> HIDE DEF invalid, noBid, noAsk, crossed, wide, shallow, old, outside, diverges
<1>2. \A reason \in DOMAIN fails : ~ fails[reason]
    <2> HIDE DEF fails
    <2> QED  BY <1>1
<1>3. ~ invalid /\ ~ noBid /\ ~ noAsk /\ ~ crossed /\ ~ wide /\ ~ shallow /\ ~ old
         /\ ~ outside
    <2>1. \A reason \in {"INVALID_TIMESTAMP", "EMPTY_BID", "EMPTY_ASK", "CROSSED_BOOK",
                         "SPREAD_TOO_WIDE", "INSUFFICIENT_DEPTH", "QUOTE_TOO_OLD",
                         "PRICE_OUT_OF_RANGE"} : reason \in DOMAIN fails
        OBVIOUS
    <2>2. /\ fails["INVALID_TIMESTAMP"] = invalid /\ fails["EMPTY_BID"] = noBid
          /\ fails["EMPTY_ASK"] = noAsk /\ fails["CROSSED_BOOK"] = crossed
          /\ fails["SPREAD_TOO_WIDE"] = wide /\ fails["INSUFFICIENT_DEPTH"] = shallow
          /\ fails["QUOTE_TOO_OLD"] = old /\ fails["PRICE_OUT_OF_RANGE"] = outside
        OBVIOUS
    <2> HIDE DEF fails
    <2> QED  BY <1>2, <2>1, <2>2
<1>4. both /\ timestampValid
    BY <1>3 DEF noBid, noAsk, invalid
<1> HIDE DEF both, timestampValid
<1>5. /\ ~ (m.bestBid >= m.bestAsk) /\ ~ (m.spread > policy.maxSpread)
      /\ ~ (m.bidDepth < policy.minDepth) /\ ~ (m.askDepth < policy.minDepth)
      /\ ~ (time - book.timestamp > policy.maxAge)
      /\ Live!InUnitRange(m.bestBid) /\ Live!InUnitRange(m.bestAsk)
    BY <1>3, <1>4, Zenon DEF crossed, wide, shallow, old, outside
<1> QED  BY <1>4, <1>5, Zenon DEF both, timestampValid, BothSides

\* A quote by the midpoint that is valid has no reasons, and is the midpoint.
LEMMA ValidQuoteHasNoReasons ==
    ASSUME NEW m, NEW w, NEW reasons, NEW book, NEW policy,
           policy.method = "ORDERBOOK_MIDPOINT",
           Live!QuoteOf(m, w, Live!Rejections(reasons, w, book, policy), book, policy)
              .quoteValid
    PROVE  /\ reasons = {}
           /\ Live!QuoteOf(m, w, Live!Rejections(reasons, w, book, policy), book, policy)
                 .midpoint = m.midpoint
<1> DEFINE quote ==
        Live!QuoteOf(m, w, Live!Rejections(reasons, w, book, policy), book, policy)
<1>1. Live!Rejections(reasons, w, book, policy) = reasons
    BY DEF Live!Rejections
<1> DEFINE valid == reasons = {}
           method == IF valid THEN policy.method ELSE "UNAVAILABLE"
           midpoint == CASE ~ valid \/ policy.method = "ORDERBOOK_MIDPOINT" -> m.midpoint
                         [] valid /\ policy.method = "DEPTH_WEIGHTED_MIDPOINT" -> w.midpoint
                         [] valid /\ policy.method = "LAST_TRADE_FALLBACK" -> book.lastTrade
<1>2. quote = [ method |-> method, quoteValid |-> valid, rejectionReasons |-> reasons,
                bestBid |-> m.bestBid, bestAsk |-> m.bestAsk, spread |-> m.spread,
                bidDepth |-> m.bidDepth, askDepth |-> m.askDepth, midpoint |-> midpoint ]
    BY <1>1 DEF Live!QuoteOf
<1>3. midpoint = m.midpoint
    OBVIOUS
<1>4. quote.quoteValid
    OBVIOUS
<1> HIDE DEF quote, valid, method, midpoint
<1>5. quote.quoteValid = valid /\ quote.midpoint = midpoint
    BY <1>2
<1>6. valid
    BY <1>4, <1>5
<1> QED  BY <1>3, <1>5, <1>6 DEF quote, valid

\* The depth is a number.
LEMMA DepthIsInt ==
    ASSUME NEW levels \in Seq(Levels)
    PROVE  Live!Depth(levels) \in Int
<1> DEFINE f == [i \in DOMAIN levels |-> levels[i].size]
<1>1. DOMAIN levels = 1 .. Len(levels) /\ Len(levels) \in Nat
    OBVIOUS
<1>2. IsFiniteSet(DOMAIN levels)
    BY <1>1, FS_Interval
<1>3. \A i \in DOMAIN levels : f[i] \in Int
    <2>1. \A i \in DOMAIN levels : levels[i] \in Levels
        OBVIOUS
    <2> QED  BY <2>1 DEF Levels
<1> HIDE DEF f
<1>4. SumOver(f, DOMAIN levels) \in Int
    BY <1>2, <1>3, SumIsInt
<1> QED  BY <1>4, DepthIsSum DEF f

\* So a valid quote is the midpoint of a sound book that is no older than a quote may be.
LEMMA ValidQuoteIsSound ==
    ASSUME MICROS_ONE \in Nat, Skew \in Nat,
           Policy.method = "ORDERBOOK_MIDPOINT",
           Policy.maxSpread \in Int, Policy.minDepth \in Int, Policy.maxAge \in Int,
           NEW book, book.bids \in Seq(Levels), book.asks \in Seq(Levels),
           NEW time \in Int, NEW closed,
           Live!BuildReferenceQuote(book, time, closed, Policy).quoteValid
    PROVE  /\ Live!SoundAt(book,
                 Live!BuildReferenceQuote(book, time, closed, Policy).midpoint)
           /\ book.timestamp \in Int
           /\ time - book.timestamp <= Policy.maxAge
<1> DEFINE m == Live!ComputeOrderBookMetrics(book)
           w == Live!ComputeDepthWeightedQuote(book, Policy.window)
           reasons == Live!Reasons(m, w, book, time, closed, Policy)
           quote == Live!BuildReferenceQuote(book, time, closed, Policy)
<1>1. quote = Live!QuoteOf(m, w, Live!Rejections(reasons, w, book, Policy), book, Policy)
    BY QuoteIsOfTheMetrics
<1>2. quote.quoteValid
    OBVIOUS
<1>3. /\ m.bidDepth = Live!Depth(book.bids)
      /\ m.askDepth = Live!Depth(book.asks)
      /\ BothSides(book) =>
            /\ m.spread = m.bestAsk - m.bestBid
            /\ m.midpoint = (m.bestBid + m.bestAsk + 1) \div 2
            /\ \E b \in Live!ToSet(book.bids) :
                  /\ b.price = m.bestBid
                  /\ \A l \in Live!ToSet(book.bids) : l.price <= b.price
            /\ \E a \in Live!ToSet(book.asks) :
                  /\ a.price = m.bestAsk
                  /\ \A l \in Live!ToSet(book.asks) : l.price >= a.price
    BY MetricsOfTheBest
<1> HIDE DEF quote, m, w
<1>4. reasons = {} /\ quote.midpoint = m.midpoint
    BY <1>1, <1>2, ValidQuoteHasNoReasons
<1>5. /\ book.timestamp \in 1 .. time + Skew
      /\ BothSides(book)
      /\ ~ (m.bestBid >= m.bestAsk)
      /\ ~ (m.spread > Policy.maxSpread)
      /\ ~ (m.bidDepth < Policy.minDepth) /\ ~ (m.askDepth < Policy.minDepth)
      /\ ~ (time - book.timestamp > Policy.maxAge)
      /\ Live!InUnitRange(m.bestBid) /\ Live!InUnitRange(m.bestAsk)
    BY <1>4, FailedChecksAreReasons
<1>6. /\ m.bestBid \in Int /\ m.bestAsk \in Int
      /\ 0 < m.bestBid /\ m.bestBid < m.bestAsk /\ m.bestAsk < MICROS_ONE
    BY <1>5 DEF Live!InUnitRange
<1>7. m.bestAsk - m.bestBid <= Policy.maxSpread
    BY <1>3, <1>5, <1>6
<1>8. 2 * m.midpoint \in {m.bestAsk + m.bestBid, m.bestAsk + m.bestBid + 1}
    <2> DEFINE t == m.bestBid + m.bestAsk
    <2>1. t \in Int /\ t = m.bestAsk + m.bestBid
        BY <1>6
    <2> HIDE DEF t
    <2>2. 2 * ((t + 1) \div 2) \in {t, t + 1}
        BY <2>1
    <2> QED  BY <1>3, <1>5, <2>1, <2>2 DEF t
<1>9. Live!Depth(book.bids) >= Policy.minDepth /\ Live!Depth(book.asks) >= Policy.minDepth
    <2>1. Live!Depth(book.bids) \in Int /\ Live!Depth(book.asks) \in Int
        BY DepthIsInt
    <2> QED  BY <1>3, <1>5, <2>1
<1>10. PICK b \in Live!ToSet(book.bids) :
          b.price = m.bestBid /\ \A l \in Live!ToSet(book.bids) : l.price <= b.price
    BY <1>3, <1>5
<1>11. PICK a \in Live!ToSet(book.asks) :
          a.price = m.bestAsk /\ \A l \in Live!ToSet(book.asks) : l.price >= a.price
    BY <1>3, <1>5
<1>12. Live!SoundAt(book, quote.midpoint)
    <2>1. 0 < b.price /\ b.price < a.price /\ a.price < MICROS_ONE
        BY <1>6, <1>10, <1>11
    <2>2. a.price - b.price <= Policy.maxSpread
        BY <1>7, <1>10, <1>11
    <2>3. 2 * quote.midpoint \in {a.price + b.price, a.price + b.price + 1}
        BY <1>4, <1>8, <1>10, <1>11
    <2> QED  BY <1>9, <1>10, <1>11, <2>1, <2>2, <2>3 DEF Live!SoundAt
<1>13. book.timestamp \in Int /\ time - book.timestamp <= Policy.maxAge
    BY <1>5
<1> QED  BY <1>12, <1>13 DEF quote

-----------------------------------------------------------------------------
(* A live market: what is kept between its scripts.                        *)

IsParsed(book) == book.bids \in Seq(Levels) /\ book.asks \in Seq(Levels)

\* What the exchange has had is parsed, and the book it has is one of it.
BooksAreParsed ==
    /\ liveNow \in Int
    /\ \A book \in published : IsParsed(book)
    /\ Live!ParseClobBook(host) \in published

\* A preparation quotes a book that the exchange has had.
PreparedBooksWerePublished ==
    /\ DOMAIN prepare = LiveRuns
    /\ \A r \in LiveRuns : prepare[r] # Null =>
          /\ DOMAIN prepare[r] = {"kind", "descriptor", "book", "quote"}
          /\ prepare[r].book # Null => prepare[r].book \in published

CaptureFields ==
    { "capturedAt", "mapping", "market", "orderbook", "derived", "policy",
      "rawPayloadHash", "mappingHash", "normalizedQuoteHash", "pricingPolicyHash" }

\* Whatever is edited in a file, its hash is of a book that the exchange has had: the
\* hash of the book is not among what is edited, and the policy is not either.
IsOfAPublishedBook(capture) ==
    /\ capture.rawPayloadHash \in published
    /\ capture.policy = Policy
    /\ capture.capturedAt \in Int

FilesAreOfPublishedBooks ==
    /\ DOMAIN file = Live!Kinds
    /\ \A k \in Live!Kinds : file[k] # Null =>
          /\ DOMAIN file[k] = CaptureFields
          /\ IsOfAPublishedBook(file[k])

\* An opener holds a capture that has been verified, in time.
IsLoaded(o) ==
    /\ Live!VerifyReferenceCapture(o.capture)
    /\ IsOfAPublishedBook(o.capture)
    /\ o.loadedAt \in Int
    /\ o.loadedAt - o.capture.capturedAt <= MAX_CAPTURE_AGE

OpenersHaveVerified ==
    /\ DOMAIN opener = LiveRuns
    /\ \A r \in LiveRuns : opener[r] # Null => IsLoaded(opener[r])

LiveInvariant ==
    /\ BooksAreParsed
    /\ PreparedBooksWerePublished
    /\ FilesAreOfPublishedBooks
    /\ OpenersHaveVerified
    /\ MarketOpensAtASoundQuote

\* What the assumption says of a live market.
LEMMA LiveNumbers ==
    ASSUME LiveAssumption
    PROVE  /\ MICROS_ONE \in Nat /\ Skew \in Nat /\ MAX_CAPTURE_AGE \in Nat
           /\ Policy.method = "ORDERBOOK_MIDPOINT"
           /\ Policy.maxSpread \in Int /\ Policy.minDepth \in Int /\ Policy.maxAge \in Int
           /\ \A raw \in RawBooks :
                 raw.bids \in Seq(RawLevels) /\ raw.asks \in Seq(RawLevels)
BY DEF LiveAssumption, RawLevels

\* A book at the host is parsed to levels.
LEMMA HostBooksParse ==
    ASSUME LiveAssumption, NEW raw \in RawBooks, NEW time
    PROVE  IsParsed(Live!ParseClobBook(Live!At(raw, time)))
<1> DEFINE h == Live!At(raw, time)
           book == Live!ParseClobBook(h)
<1>1. h.bids = raw.bids /\ h.asks = raw.asks
         /\ DOMAIN h = {"asset", "condition", "bids", "asks", "lastTrade", "timestamp"}
    BY DEF Live!At
<1>2. book = [h EXCEPT !.bids = Live!ParseLevels(@), !.asks = Live!ParseLevels(@)]
    BY DEF Live!ParseClobBook
<1> HIDE DEF h, book
<1>3. book.bids = Live!ParseLevels(raw.bids) /\ book.asks = Live!ParseLevels(raw.asks)
    BY <1>1, <1>2
<1>4. raw.bids \in Seq(RawLevels) /\ raw.asks \in Seq(RawLevels)
    BY LiveNumbers
<1>5. book.bids \in Seq(Levels) /\ book.asks \in Seq(Levels)
    BY <1>3, <1>4, ParsedLevels
<1> QED  BY <1>5 DEF IsParsed, book, h

\* The book moves, and what it was remains published.
LEMMA BookMovesKeeps ==
    ASSUME LiveAssumption, LiveInvariant, Live!BookMoves
    PROVE  LiveInvariant'
<1>1. PICK raw \in RawBooks :
          /\ host' = Live!At(raw, liveNow)
          /\ published' = published \cup {Live!ParseClobBook(host')}
          /\ UNCHANGED <<liveNow, prepare, opener, file, liveMarket, edits>>
    BY DEF Live!BookMoves
<1>2. published \subseteq published'
    BY <1>1
<1>3. IsParsed(Live!ParseClobBook(host'))
    BY <1>1, HostBooksParse
<1>4. BooksAreParsed'
    <2>1. Live!ParseClobBook(host)' = Live!ParseClobBook(host')
        BY DEF Live!ParseClobBook, Live!ParseLevels
    <2>2. \A book \in published' : IsParsed(book)
        BY <1>1, <1>3 DEF LiveInvariant, BooksAreParsed
    <2> QED  BY <1>1, <2>1, <2>2 DEF LiveInvariant, BooksAreParsed, IsParsed
<1>5. PreparedBooksWerePublished'
    BY <1>1, <1>2 DEF LiveInvariant, PreparedBooksWerePublished
<1>6. FilesAreOfPublishedBooks'
    BY <1>1, <1>2 DEF LiveInvariant, FilesAreOfPublishedBooks, IsOfAPublishedBook
<1>7. OpenersHaveVerified'
    <2>1. ASSUME NEW r \in LiveRuns, opener'[r] # Null
          PROVE  IsLoaded(opener[r])'
        <3>1. IsLoaded(opener[r])
            BY <1>1, <2>1 DEF LiveInvariant, OpenersHaveVerified
        <3>2. opener'[r] = opener[r]
            BY <1>1
        <3>3. Live!VerifyReferenceCapture(opener[r].capture)'
                 <=> Live!VerifyReferenceCapture(opener'[r].capture)
            BY DEF Live!VerifyReferenceCapture
        <3> QED  BY <1>2, <3>1, <3>2, <3>3 DEF IsLoaded, IsOfAPublishedBook
    <2> QED  BY <1>1, <2>1 DEF LiveInvariant, OpenersHaveVerified
<1>8. MarketOpensAtASoundQuote'
    BY <1>1, <1>2 DEF LiveInvariant, MarketOpensAtASoundQuote,
                      Live!MarketOpensAtASoundQuote
<1> QED  BY <1>4, <1>5, <1>6, <1>7, <1>8 DEF LiveInvariant

\* The parts of the invariant speak of their variables only.
LEMMA BooksStay ==
    ASSUME BooksAreParsed, UNCHANGED <<liveNow, host, published>>
    PROVE  BooksAreParsed'
<1>1. Live!ParseClobBook(host)' = Live!ParseClobBook(host)
    BY DEF Live!ParseClobBook, Live!ParseLevels
<1> QED  BY <1>1 DEF BooksAreParsed, IsParsed

\* Without a new preparation or book.
LEMMA PreparedStay ==
    ASSUME PreparedBooksWerePublished, UNCHANGED <<prepare, published>>
    PROVE  PreparedBooksWerePublished'
BY DEF PreparedBooksWerePublished

\* Without a new file or book.
LEMMA FilesStay ==
    ASSUME FilesAreOfPublishedBooks, UNCHANGED <<file, published>>
    PROVE  FilesAreOfPublishedBooks'
BY DEF FilesAreOfPublishedBooks, IsOfAPublishedBook

\* Without a new opener or book.
LEMMA OpenersStay ==
    ASSUME OpenersHaveVerified, UNCHANGED <<opener, published>>
    PROVE  OpenersHaveVerified'
<1>1. ASSUME NEW r \in LiveRuns, opener'[r] # Null
      PROVE  IsLoaded(opener[r])'
    <2>1. IsLoaded(opener[r])
        BY <1>1 DEF OpenersHaveVerified
    <2>2. Live!VerifyReferenceCapture(opener[r].capture)'
             <=> Live!VerifyReferenceCapture(opener[r].capture)
        BY DEF Live!VerifyReferenceCapture
    <2> QED  BY <2>1, <2>2 DEF IsLoaded, IsOfAPublishedBook
<1> QED  BY <1>1 DEF OpenersHaveVerified

\* Without a new market or book.
LEMMA MarketStays ==
    ASSUME MarketOpensAtASoundQuote, UNCHANGED <<liveMarket, published>>
    PROVE  MarketOpensAtASoundQuote'
BY DEF MarketOpensAtASoundQuote, Live!MarketOpensAtASoundQuote, Live!SoundAt

\* Time passes.
LEMMA LiveTickKeeps ==
    ASSUME LiveInvariant, Live!Tick
    PROVE  LiveInvariant'
<1>1. /\ liveNow' = liveNow + 1
      /\ UNCHANGED <<host, prepare, opener, file, liveMarket, edits, published>>
    BY DEF Live!Tick
<1>2. BooksAreParsed'
    <2>1. Live!ParseClobBook(host)' = Live!ParseClobBook(host)
        BY <1>1 DEF Live!ParseClobBook, Live!ParseLevels
    <2> QED  BY <1>1, <2>1 DEF LiveInvariant, BooksAreParsed, IsParsed
<1> QED
    BY <1>1, <1>2, PreparedStay, FilesStay, OpenersStay, MarketStays DEF LiveInvariant

\* A preparation begins, reads the book as it is, and stops.
LEMMA PrepareKeeps ==
    ASSUME LiveInvariant, NEW r \in LiveRuns,
           \/ \E k \in Live!Kinds : Live!Discover(r, k)
           \/ Live!ReadBook(r)
           \/ Live!PrepareStops(r)
    PROVE  LiveInvariant'
<1> DEFINE p == prepare'[r]
<1>1. /\ UNCHANGED <<liveNow, host, opener, file, liveMarket, edits, published>>
      /\ DOMAIN prepare' = LiveRuns
      /\ \A s \in LiveRuns : s # r => prepare'[s] = prepare[s]
    BY DEF Live!Discover, Live!ReadBook, Live!PrepareStops, LiveInvariant,
           PreparedBooksWerePublished
<1>2. p # Null =>
         /\ DOMAIN p = {"kind", "descriptor", "book", "quote"}
         /\ p.book # Null => p.book \in published
    <2>1. CASE \E k \in Live!Kinds : Live!Discover(r, k)
        <3>1. PICK kind, descriptor :
                  p = [kind |-> kind, descriptor |-> descriptor, book |-> Null,
                       quote |-> Null]
            BY <2>1 DEF Live!Discover, LiveInvariant, PreparedBooksWerePublished
        <3> HIDE DEF p
        <3> QED  BY <3>1
    <2>2. CASE Live!ReadBook(r)
        <3>1. PICK quote :
                  p = [prepare[r] EXCEPT !.book = Live!ParseClobBook(host),
                                         !.quote = quote]
            BY <2>2 DEF Live!ReadBook, LiveInvariant, PreparedBooksWerePublished
        <3>2. /\ prepare[r] # Null
              /\ DOMAIN prepare[r] = {"kind", "descriptor", "book", "quote"}
            BY <2>2 DEF Live!ReadBook, LiveInvariant, PreparedBooksWerePublished
        <3>3. Live!ParseClobBook(host) \in published
            BY DEF LiveInvariant, BooksAreParsed
        <3> HIDE DEF p
        <3>4. DOMAIN p = {"kind", "descriptor", "book", "quote"}
                 /\ p.book = Live!ParseClobBook(host)
            BY <3>1, <3>2
        <3> QED  BY <3>3, <3>4
    <2>3. CASE Live!PrepareStops(r)
        BY <2>3 DEF Live!PrepareStops, LiveInvariant, PreparedBooksWerePublished
    <2> QED  BY <2>1, <2>2, <2>3
<1>3. PreparedBooksWerePublished'
    <2> HIDE DEF p
    <2> SUFFICES ASSUME NEW s \in LiveRuns, prepare'[s] # Null
                 PROVE  /\ DOMAIN prepare'[s] = {"kind", "descriptor", "book", "quote"}
                        /\ prepare'[s].book # Null => prepare'[s].book \in published
        BY <1>1 DEF PreparedBooksWerePublished
    <2>1. CASE s = r
        BY <1>2, <2>1 DEF p
    <2>2. CASE s # r
        BY <1>1, <2>2 DEF LiveInvariant, PreparedBooksWerePublished
    <2> QED  BY <2>1, <2>2
<1> QED
    BY <1>1, <1>3, BooksStay, FilesStay, OpenersStay, MarketStays DEF LiveInvariant

\* A file changes to one of a published book.
LEMMA FileChanges ==
    ASSUME LiveInvariant, NEW k \in Live!Kinds, NEW capture,
           file' = [file EXCEPT ![k] = capture],
           DOMAIN capture = CaptureFields, IsOfAPublishedBook(capture),
           published' = published
    PROVE  FilesAreOfPublishedBooks'
<1> SUFFICES ASSUME NEW j \in Live!Kinds, file'[j] # Null
             PROVE  /\ DOMAIN file'[j] = CaptureFields
                    /\ IsOfAPublishedBook(file'[j])
    BY DEF LiveInvariant, FilesAreOfPublishedBooks, IsOfAPublishedBook
<1>1. CASE j = k
    BY <1>1 DEF LiveInvariant, FilesAreOfPublishedBooks
<1>2. CASE j # k
    BY <1>2 DEF LiveInvariant, FilesAreOfPublishedBooks
<1> QED  BY <1>1, <1>2

\* The capture is of the book that was read.
LEMMA WriteCaptureKeeps ==
    ASSUME LiveInvariant, NEW r \in LiveRuns, Live!WriteCapture(r)
    PROVE  LiveInvariant'
<1> DEFINE capture == Live!BuildReferenceCapture(Mapping, prepare[r].descriptor,
                          prepare[r].book, prepare[r].quote, Policy, liveNow)
<1>1. /\ prepare[r] # Null /\ prepare[r].book # Null
      /\ file' = [file EXCEPT ![prepare[r].kind] = capture]
      /\ prepare' = [prepare EXCEPT ![r] = Null]
      /\ UNCHANGED <<liveNow, host, opener, liveMarket, edits, published>>
    BY DEF Live!WriteCapture
<1>2. DOMAIN capture = CaptureFields /\ capture.rawPayloadHash = prepare[r].book
         /\ capture.policy = Policy /\ capture.capturedAt = liveNow
    BY DEF Live!BuildReferenceCapture, CaptureFields
<1> HIDE DEF capture
<1>3. IsOfAPublishedBook(capture)
    BY <1>1, <1>2 DEF IsOfAPublishedBook, LiveInvariant, PreparedBooksWerePublished,
                      BooksAreParsed
<1>4. FilesAreOfPublishedBooks'
    <2>1. CASE prepare[r].kind \in Live!Kinds
        BY <1>1, <1>2, <1>3, <2>1, FileChanges
    <2>2. CASE prepare[r].kind \notin Live!Kinds
        <3>1. DOMAIN file' = Live!Kinds /\ \A k \in Live!Kinds : file'[k] = file[k]
            BY <1>1, <2>2 DEF LiveInvariant, FilesAreOfPublishedBooks
        <3> QED
            BY <1>1, <3>1 DEF LiveInvariant, FilesAreOfPublishedBooks, IsOfAPublishedBook
    <2> QED  BY <2>1, <2>2
<1>5. PreparedBooksWerePublished'
    BY <1>1 DEF LiveInvariant, PreparedBooksWerePublished
<1> QED
    BY <1>1, <1>4, <1>5, BooksStay, OpenersStay, MarketStays DEF LiveInvariant

\* Whatever is edited, the hash of the book stays.
LEMMA EditCaptureKeeps ==
    ASSUME LiveInvariant, NEW k \in Live!Kinds, Live!EditCapture(k)
    PROVE  LiveInvariant'
<1>1. /\ file[k] # Null
      /\ UNCHANGED <<liveNow, host, prepare, opener, liveMarket, published>>
    BY DEF Live!EditCapture
<1>2. DOMAIN file[k] = CaptureFields /\ IsOfAPublishedBook(file[k])
    BY <1>1 DEF LiveInvariant, FilesAreOfPublishedBooks
<1>3. \E capture :
         /\ file' = [file EXCEPT ![k] = capture]
         /\ DOMAIN capture = CaptureFields
         /\ IsOfAPublishedBook(capture)
    <2>1. CASE \E time \in 1 .. MaxLiveTime : file' = [file EXCEPT ![k].capturedAt = time]
        <3>1. PICK time \in 1 .. MaxLiveTime : file' = [file EXCEPT ![k].capturedAt = time]
            BY <2>1
        <3> DEFINE c == [file[k] EXCEPT !.capturedAt = time]
        <3>2. file' = [file EXCEPT ![k] = c]
            BY <3>1
        <3>3. DOMAIN c = CaptureFields /\ IsOfAPublishedBook(c)
            BY <1>2 DEF CaptureFields, IsOfAPublishedBook
        <3> HIDE DEF c
        <3> QED  BY <3>2, <3>3
    <2>2. ASSUME NEW book, file' = [file EXCEPT ![k].orderbook = book]
          PROVE  \E capture :
                    /\ file' = [file EXCEPT ![k] = capture]
                    /\ DOMAIN capture = CaptureFields
                    /\ IsOfAPublishedBook(capture)
        <3> DEFINE c == [file[k] EXCEPT !.orderbook = book]
        <3>1. file' = [file EXCEPT ![k] = c]
            BY <2>2
        <3>2. DOMAIN c = CaptureFields /\ IsOfAPublishedBook(c)
            BY <1>2 DEF CaptureFields, IsOfAPublishedBook
        <3> HIDE DEF c
        <3> QED  BY <3>1, <3>2
    <2>3. ASSUME NEW derived, file' = [file EXCEPT ![k].derived = derived]
          PROVE  \E capture :
                    /\ file' = [file EXCEPT ![k] = capture]
                    /\ DOMAIN capture = CaptureFields
                    /\ IsOfAPublishedBook(capture)
        <3> DEFINE c == [file[k] EXCEPT !.derived = derived]
        <3>1. file' = [file EXCEPT ![k] = c]
            BY <2>3
        <3>2. DOMAIN c = CaptureFields /\ IsOfAPublishedBook(c)
            BY <1>2 DEF CaptureFields, IsOfAPublishedBook
        <3> HIDE DEF c
        <3> QED  BY <3>1, <3>2
    <2>4. CASE \E time \in 1 .. MaxLiveTime :
                  file' = [file EXCEPT ![k].orderbook.timestamp = time]
        <3>1. PICK time : file' = [file EXCEPT ![k].orderbook.timestamp = time]
            BY <2>4
        <3>2. file' = [file EXCEPT ![k].orderbook =
                                      [file[k].orderbook EXCEPT !.timestamp = time]]
            BY <3>1
        <3> QED  BY <2>2, <3>2
    <2>5. CASE \E book \in published :
                  file' = [file EXCEPT ![k].derived.midpoint =
                                          Live!ComputeOrderBookMetrics(book).midpoint]
        <3>1. PICK midpoint : file' = [file EXCEPT ![k].derived.midpoint = midpoint]
            BY <2>5
        <3>2. file' = [file EXCEPT ![k].derived =
                                      [file[k].derived EXCEPT !.midpoint = midpoint]]
            BY <3>1
        <3> QED  BY <2>3, <3>2
    <2> QED  BY <2>1, <2>2, <2>4, <2>5 DEF Live!EditCapture
<1>4. FilesAreOfPublishedBooks'
    BY <1>1, <1>3, FileChanges
<1> QED
    BY <1>1, <1>4, BooksStay, PreparedStay, OpenersStay, MarketStays DEF LiveInvariant

\* A capture is loaded when it verifies and is not old, and let go.
LEMMA LoadKeeps ==
    ASSUME LiveInvariant, NEW r \in LiveRuns,
           (\E k \in Live!Kinds : Live!LoadCapture(r, k)) \/ Live!OpenerStops(r)
    PROVE  LiveInvariant'
<1>1. /\ UNCHANGED <<liveNow, host, prepare, file, liveMarket, edits, published>>
      /\ DOMAIN opener' = LiveRuns
      /\ \A s \in LiveRuns : s # r => opener'[s] = opener[s]
    BY DEF Live!LoadCapture, Live!OpenerStops, LiveInvariant, OpenersHaveVerified
<1>2. opener'[r] # Null => IsLoaded(opener'[r])
    <2>1. ASSUME NEW k \in Live!Kinds, Live!LoadCapture(r, k)
          PROVE  IsLoaded(opener'[r])
        <3>1. /\ file[k] # Null
              /\ Live!VerifyReferenceCapture(file[k])
              /\ liveNow - file[k].capturedAt <= MAX_CAPTURE_AGE
              /\ opener'[r] = [capture |-> file[k], loadedAt |-> liveNow]
            BY <2>1 DEF Live!LoadCapture, LiveInvariant, OpenersHaveVerified
        <3>2. IsOfAPublishedBook(file[k]) /\ liveNow \in Int
            BY <3>1 DEF LiveInvariant, FilesAreOfPublishedBooks, BooksAreParsed
        <3>3. opener'[r].capture = file[k] /\ opener'[r].loadedAt = liveNow
            BY <3>1
        <3> QED  BY <3>1, <3>2, <3>3 DEF IsLoaded
    <2>2. Live!OpenerStops(r) => opener'[r] = Null
        BY DEF Live!OpenerStops, LiveInvariant, OpenersHaveVerified
    <2> QED  BY <2>1, <2>2
<1>3. OpenersHaveVerified'
    <2>1. ASSUME NEW s \in LiveRuns, opener'[s] # Null
          PROVE  IsLoaded(opener'[s])
        BY <1>1, <1>2, <2>1 DEF LiveInvariant, OpenersHaveVerified
    <2>2. ASSUME NEW s \in LiveRuns, opener'[s] # Null
          PROVE  IsLoaded(opener[s])'
        <3>1. Live!VerifyReferenceCapture(opener[s].capture)'
                 <=> Live!VerifyReferenceCapture(opener'[s].capture)
            BY DEF Live!VerifyReferenceCapture
        <3> QED  BY <1>1, <2>1, <2>2, <3>1 DEF IsLoaded, IsOfAPublishedBook
    <2> QED  BY <1>1, <2>2 DEF OpenersHaveVerified
<1> QED
    BY <1>1, <1>3, BooksStay, PreparedStay, FilesStay, MarketStays DEF LiveInvariant

\* What has been verified and is committed is a sound book of the exchange.
LEMMA LoadedIsSound ==
    ASSUME LiveAssumption, LiveInvariant,
           NEW o, IsLoaded(o), Live!Commits(o.capture)
    PROVE  LET book == o.capture.orderbook
           IN  /\ book \in published
               /\ Live!SoundAt(book, o.capture.derived.midpoint)
               /\ o.loadedAt - book.timestamp <= Policy.maxAge + MAX_CAPTURE_AGE
<1> DEFINE c == o.capture
           book == c.orderbook
           time == c.capturedAt
           closed == "MARKET_CLOSED" \in c.derived.rejectionReasons
<1>1. /\ c.rawPayloadHash = book
      /\ c.derived = Live!BuildReferenceQuote(book, time, closed, c.policy)
    BY DEF IsLoaded, Live!VerifyReferenceCapture
<1>2. /\ book \in published /\ c.policy = Policy /\ time \in Int
      /\ o.loadedAt \in Int /\ o.loadedAt - time <= MAX_CAPTURE_AGE
    BY <1>1 DEF IsLoaded, IsOfAPublishedBook
<1>3. book.bids \in Seq(Levels) /\ book.asks \in Seq(Levels)
    BY <1>2 DEF LiveInvariant, BooksAreParsed, IsParsed
<1>4. c.derived.quoteValid
    BY DEF Live!Commits
<1> HIDE DEF book, time, closed
<1>5. /\ Live!SoundAt(book, c.derived.midpoint)
      /\ book.timestamp \in Int
      /\ time - book.timestamp <= Policy.maxAge
    BY <1>1, <1>2, <1>3, <1>4, LiveNumbers, ValidQuoteIsSound
<1>6. o.loadedAt - book.timestamp <= Policy.maxAge + MAX_CAPTURE_AGE
    BY <1>2, <1>5, LiveNumbers
<1> QED  BY <1>2, <1>5, <1>6 DEF book

\* So the market opens at one.
LEMMA OpenMarketKeeps ==
    ASSUME LiveAssumption, LiveInvariant,
           NEW r \in LiveRuns, Live!OpenMarket(r)
    PROVE  LiveInvariant'
<1> DEFINE o == opener[r]
<1>1. /\ o # Null /\ Live!Commits(o.capture)
      /\ liveMarket' = Live!Params(o)
      /\ opener' = [opener EXCEPT ![r] = Null]
      /\ UNCHANGED <<liveNow, host, prepare, file, edits, published>>
    BY DEF Live!OpenMarket
<1>2. IsLoaded(o)
    BY <1>1 DEF LiveInvariant, OpenersHaveVerified
<1>3. /\ liveMarket'.displayed = o.capture.derived.midpoint
      /\ liveMarket'.fair = o.capture.derived.midpoint
      /\ liveMarket'.capture = o.capture /\ liveMarket'.loadedAt = o.loadedAt
    BY <1>1 DEF Live!Params
<1> HIDE DEF o
<1>4. LET book == o.capture.orderbook
      IN  /\ book \in published
          /\ Live!SoundAt(book, o.capture.derived.midpoint)
          /\ o.loadedAt - book.timestamp <= Policy.maxAge + MAX_CAPTURE_AGE
    BY <1>1, <1>2, LoadedIsSound
<1>5. MarketOpensAtASoundQuote'
    <2>1. Live!SoundAt(liveMarket.capture.orderbook, liveMarket.fair)'
             <=> Live!SoundAt(liveMarket'.capture.orderbook, liveMarket'.fair)
        BY DEF Live!SoundAt
    <2> QED
        BY <1>1, <1>3, <1>4, <2>1 DEF MarketOpensAtASoundQuote,
                                      Live!MarketOpensAtASoundQuote
<1>6. OpenersHaveVerified'
    <2>1. DOMAIN opener' = LiveRuns
        BY <1>1 DEF LiveInvariant, OpenersHaveVerified
    <2>2. ASSUME NEW s \in LiveRuns, opener'[s] # Null
          PROVE  IsLoaded(opener[s])'
        <3>1. opener'[s] = opener[s]
            BY <1>1, <2>2 DEF LiveInvariant, OpenersHaveVerified
        <3>2. IsLoaded(opener[s])
            BY <2>2, <3>1 DEF LiveInvariant, OpenersHaveVerified
        <3>3. Live!VerifyReferenceCapture(opener[s].capture)'
                 <=> Live!VerifyReferenceCapture(opener'[s].capture)
            BY DEF Live!VerifyReferenceCapture
        <3> QED  BY <1>1, <3>1, <3>2, <3>3 DEF IsLoaded, IsOfAPublishedBook
    <2> QED  BY <2>1, <2>2 DEF OpenersHaveVerified
<1> QED
    BY <1>1, <1>5, <1>6, BooksStay, PreparedStay, FilesStay DEF LiveInvariant

\* At first there is a book and nothing else.
LEMMA LiveInitial ==
    ASSUME LiveAssumption, Live!LiveInit
    PROVE  LiveInvariant
<1>1. PICK raw \in RawBooks : host = Live!At(raw, 1)
    BY DEF Live!LiveInit
<1>2. IsParsed(Live!ParseClobBook(host))
    BY <1>1, HostBooksParse
<1>3. /\ liveNow = 1 /\ published = {Live!ParseClobBook(host)}
      /\ prepare = [r \in LiveRuns |-> Null] /\ opener = [r \in LiveRuns |-> Null]
      /\ file = [k \in Live!Kinds |-> Null] /\ liveMarket = Null
    BY DEF Live!LiveInit
<1>4. BooksAreParsed
    BY <1>2, <1>3 DEF BooksAreParsed
<1> QED
    BY <1>3, <1>4 DEF LiveInvariant, PreparedBooksWerePublished,
                      FilesAreOfPublishedBooks, OpenersHaveVerified,
                      MarketOpensAtASoundQuote, Live!MarketOpensAtASoundQuote

\* Every step keeps the invariant.
LEMMA LiveSteps ==
    ASSUME LiveAssumption, LiveInvariant,
           [OperationsNext]_operationsVars
    PROVE  LiveInvariant'
<1>1. CASE UNCHANGED liveVars
    BY <1>1, BooksStay, PreparedStay, FilesStay, OpenersStay, MarketStays
       DEF LiveInvariant, liveVars
<1>2. CASE LiveStep
    BY <1>2, BookMovesKeeps, LiveTickKeeps, EditCaptureKeeps, PrepareKeeps,
       WriteCaptureKeeps, LoadKeeps, OpenMarketKeeps DEF LiveStep, Live!LiveNext
<1> QED
    BY <1>1, <1>2
       DEF OperationsNext, CacheStep, DeployStep, StatusStep, WorkspaceStep,
             IncidentStep, LabStep, ReplayStep, operationsVars

\* A market opens at the midpoint of a sound book that the exchange really published,
\* as it was published and in time, whatever moved, failed, overlapped or was edited on
\* the way (the fairx-prepare-live-market and fairx-initialize-live-market scripts).
THEOREM MarketCorrect ==
    ASSUME LiveAssumption
    PROVE  OperationsSpec => []MarketOpensAtASoundQuote
<1>1. OperationsInit => LiveInvariant
    BY LiveInitial DEF OperationsInit
<1>2. LiveInvariant /\ [OperationsNext]_operationsVars => LiveInvariant'
    BY LiveSteps
<1>3. LiveInvariant => MarketOpensAtASoundQuote
    BY DEF LiveInvariant
<1> QED  BY <1>1, <1>2, <1>3, PTL DEF OperationsSpec

-----------------------------------------------------------------------------
(* The market pages: what they keep.                                       *)

MarketFields ==
    { "type", "status", "displayed", "fair", "materialSeq", "pricedAtSeq", "tolerance",
      "source", "createdBy", "rules", "lastSeq", "lastMaterial", "onChain" }

\* A market that is not stale shows its fair price, or was opened away from it.
NotStaleIsFair(m) ==
    m.materialSeq <= m.pricedAtSeq =>
        m.displayed = m.fair \/ Workspace!OpenedAwayFromFair(m)

IsMarket(m) ==
    /\ DOMAIN m = MarketFields
    /\ m.materialSeq \in Nat /\ m.pricedAtSeq \in Nat /\ m.lastSeq \in Nat
    /\ m.tolerance \in Nat
    /\ NotStaleIsFair(m)

FillIsFair(o) ==
    o.status = "filled" /\ ~ Workspace!OpenedAwayFromFair(o.quote) =>
        o.quote.fairSide - o.quote.observed <= o.quote.tolerance

\* A market that is held knows what was heard of it; h is what its tab has heard.
IsHeld(id, m, h) == id \in MarketIds /\ IsMarket(m) /\ m.materialSeq >= h[id]

SnapshotFields == {"markets", "orders", "receipts", "hydrated"}

IsSnapshot(s, h) ==
    /\ DOMAIN s = SnapshotFields
    /\ \A i \in DOMAIN s.markets : IsHeld(i, s.markets[i], h)
    /\ \A o \in s.orders : FillIsFair(o)
    /\ \E R : s.receipts \in Seq(R)

Unheard == [i \in MarketIds |-> 0]

IsShown(w, h) == DOMAIN w = {"page", "id", "market"} /\ IsHeld(w.id, w.market, h)

\* So is the market that each of these requests captured.
AreHeld(c, h) == \A q \in c : IsHeld(q.id, q.market, h)

\* A tab: its snapshot, workspace, timer and requests, and what it has heard.  Whatever
\* they captured was heard before, because nothing is counted as heard while they run;
\* and before the page is hydrated nothing runs.
TabIsSound(s, w, tm, c, h) ==
    /\ IsSnapshot(s, h)
    /\ DOMAIN h = MarketIds
    /\ \A i \in MarketIds : h[i] \in Nat /\ (h[i] > 0 => i \in DOMAIN s.markets)
    /\ w # Null => IsShown(w, h)
    /\ tm # Null => IsShown(w, h) /\ IsHeld(tm.id, tm.market, h)
    /\ AreHeld(c, h) /\ (c # {} => IsShown(w, h))
    /\ ~ s.hydrated =>
          /\ w = Null /\ tm = Null /\ c = {}
          /\ \A i \in MarketIds : h[i] = 0

TabsAreSound ==
    /\ DOMAIN snapshot = Tabs /\ DOMAIN workspace = Tabs /\ DOMAIN timer = Tabs
    /\ DOMAIN call = Tabs /\ DOMAIN heard = Tabs
    /\ \A t \in Tabs :
          TabIsSound(snapshot[t], workspace[t], timer[t], call[t], heard[t])

\* What is stored can be shown in a tab that has heard nothing yet.
StorageIsSound == storage.store # Null => IsSnapshot(storage.store, Unheard)

Matched(s) ==
    \A o \in s.orders :
        \E k \in DOMAIN s.receipts :
            /\ s.receipts[k].orderId = o.id
            /\ s.receipts[k].quote = o.quote
            /\ s.receipts[k].verdict = o.verdict

\* The store and its indexes after a save that was not refused.
IndexesAgree(st) ==
    st.store # Null =>
        /\ Matched(st.store)
        /\ st.receipts = st.store.receipts
        /\ st.last = IF st.receipts = << >> THEN Null ELSE st.receipts[Len(st.receipts)]

ReceiptsAreKept ==
    /\ saveFailures \in Nat
    /\ saveFailures = 0 => IndexesAgree(storage) /\ \A t \in Tabs : Matched(snapshot[t])

WorkspaceInvariant == TabsAreSound /\ StorageIsSound /\ ReceiptsAreKept

-----------------------------------------------------------------------------
(* The operators on markets and orders.                                    *)

\* The highest of three numbers is none of them exceeds.
LEMMA HighestOfThree ==
    ASSUME NEW a \in Nat, NEW b \in Nat, NEW c \in Nat
    PROVE  LET n == Workspace!HighestOf({a, b, c})
           IN  n \in {a, b, c} /\ a <= n /\ b <= n /\ c <= n
<1>1. \E n \in {a, b, c} : \A k \in {a, b, c} : k <= n
    <2>1. CASE a >= b /\ a >= c
        BY <2>1
    <2>2. CASE b >= a /\ b >= c
        BY <2>2
    <2>3. CASE c >= a /\ c >= b
        BY <2>3
    <2> QED  BY <2>1, <2>2, <2>3
<1>2. Workspace!HighestOf({a, b, c}) = CHOOSE n \in {a, b, c} : \A k \in {a, b, c} : k <= n
    BY DEF Workspace!HighestOf
<1> QED  BY <1>1, <1>2

\* An event is of the next sequence, and makes a market stale or leaves its prices.
LEMMA EventKeepsMarket ==
    ASSUME NEW m, IsMarket(m)
    PROVE  LET new == Workspace!ApplyMarketEvent(m, Workspace!GeneratedEvent(m), 0)
           IN  IsMarket(new) /\ new.materialSeq >= m.materialSeq
<1> DEFINE event == Workspace!GeneratedEvent(m)
           new == Workspace!ApplyMarketEvent(m, event, 0)
           fair == Workspace!ComputeEventFairPrice(m, event, 0)
           yes == TRUE
           no == FALSE
<1>1. event.seq = m.materialSeq + 1
    <2> DEFINE kind == Workspace!PreferredEvent(m)
               backed == /\ Workspace!PreferredEvent(m) \in {"GOAL", "PENALTY"}
                         /\ m.type # "TOTAL_GOALS"
    <2>1. event = [ eventType |-> kind, source |-> m.source, seq |-> m.materialSeq + 1,
                    implied |-> 0, forBacked |-> backed ]
        BY DEF Workspace!GeneratedEvent
    <2> HIDE DEF event, kind, backed
    <2> QED  BY <2>1
<1>2. Workspace!AcceptsEvent(m, event) => event.seq > m.pricedAtSeq
    <2>1. LET n == Workspace!HighestOf({m.materialSeq, m.pricedAtSeq, m.lastSeq})
          IN  n \in Nat /\ m.pricedAtSeq <= n
        BY HighestOfThree DEF IsMarket
    <2> HIDE DEF event
    <2> QED
        BY <1>1, <2>1 DEF Workspace!AcceptsEvent, Workspace!HighestKnownEventSeq, IsMarket
<1> HIDE DEF event
<1>3. CASE ~ Workspace!AcceptsEvent(m, event)
    <2>1. new = m
        BY <1>3 DEF Workspace!ApplyMarketEvent
    <2>2. m.materialSeq >= m.materialSeq
        BY DEF IsMarket
    <2> HIDE DEF new
    <2>3. IsMarket(new) /\ new.materialSeq >= m.materialSeq
        BY <2>1, <2>2
    <2> QED  BY <2>3 DEF new, event
<1>4. CASE Workspace!AcceptsEvent(m, event) /\ ~ Workspace!EventAllowedByRules(m, event)
    <2>1. new = [m EXCEPT !.lastSeq = event.seq, !.lastMaterial = no]
        BY <1>4 DEF Workspace!ApplyMarketEvent
    <2> HIDE DEF new, no
    <2>2. /\ DOMAIN new = MarketFields /\ new.lastSeq = m.materialSeq + 1
          /\ new.materialSeq = m.materialSeq /\ new.pricedAtSeq = m.pricedAtSeq
          /\ new.tolerance = m.tolerance /\ new.displayed = m.displayed
          /\ new.fair = m.fair
        BY <1>1, <2>1 DEF IsMarket, MarketFields
    <2>3. NotStaleIsFair(new)
        BY <2>2 DEF IsMarket, NotStaleIsFair, Workspace!OpenedAwayFromFair
    <2>4. IsMarket(new) /\ new.materialSeq >= m.materialSeq
        BY <2>2, <2>3 DEF IsMarket
    <2> QED  BY <2>4 DEF new, event
<1>5. CASE Workspace!AcceptsEvent(m, event) /\ Workspace!EventAllowedByRules(m, event)
    <2>1. new = [m EXCEPT !.fair = fair, !.materialSeq = event.seq, !.status = "STALE",
                          !.source = event.source, !.lastSeq = event.seq,
                          !.lastMaterial = yes]
        BY <1>5 DEF Workspace!ApplyMarketEvent
    <2> HIDE DEF new, fair, yes
    <2>2. /\ DOMAIN new = MarketFields /\ new.lastSeq = m.materialSeq + 1
          /\ new.materialSeq = m.materialSeq + 1 /\ new.pricedAtSeq = m.pricedAtSeq
          /\ new.tolerance = m.tolerance
        BY <1>1, <2>1 DEF IsMarket, MarketFields
    <2>3. NotStaleIsFair(new)
        BY <1>1, <1>2, <1>5, <2>2 DEF IsMarket, NotStaleIsFair
    <2>4. IsMarket(new) /\ new.materialSeq >= m.materialSeq
        BY <2>2, <2>3 DEF IsMarket
    <2> QED  BY <2>4 DEF new, event
<1> QED  BY <1>3, <1>4, <1>5 DEF event

\* A reprice shows the fair price.
LEMMA RepriceKeepsMarket ==
    ASSUME NEW m, IsMarket(m)
    PROVE  /\ IsMarket(Workspace!RepriceFairXMarket(m))
           /\ Workspace!RepriceFairXMarket(m).materialSeq = m.materialSeq
<1> DEFINE new == Workspace!RepriceFairXMarket(m)
<1>1. CASE m.status = "SETTLED"
    BY <1>1 DEF Workspace!RepriceFairXMarket
<1>2. CASE m.status # "SETTLED"
    <2>1. new = [m EXCEPT !.displayed = m.fair, !.pricedAtSeq = m.materialSeq,
                          !.status = "TRADING"]
        BY <1>2 DEF Workspace!RepriceFairXMarket
    <2> HIDE DEF new
    <2>2. /\ DOMAIN new = MarketFields /\ new.lastSeq = m.lastSeq
          /\ new.materialSeq = m.materialSeq /\ new.pricedAtSeq = m.materialSeq
          /\ new.tolerance = m.tolerance /\ new.displayed = new.fair
        BY <2>1 DEF IsMarket, MarketFields
    <2>3. IsMarket(new) /\ new.materialSeq = m.materialSeq
        BY <2>2 DEF IsMarket, NotStaleIsFair
    <2> QED  BY <2>3 DEF new
<1> QED  BY <1>1, <1>2

\* A status and what is on chain are not looked at.
LEMMA MarkKeepsMarket ==
    ASSUME NEW m, IsMarket(m), NEW mark
    PROVE  /\ IsMarket([m EXCEPT !.status = mark])
           /\ [m EXCEPT !.status = mark].materialSeq = m.materialSeq
           /\ IsMarket([m EXCEPT !.onChain = mark])
           /\ [m EXCEPT !.onChain = mark].materialSeq = m.materialSeq
<1> DEFINE a == [m EXCEPT !.status = mark]
           b == [m EXCEPT !.onChain = mark]
<1>1. /\ DOMAIN a = MarketFields /\ a.lastSeq = m.lastSeq
      /\ a.materialSeq = m.materialSeq /\ a.pricedAtSeq = m.pricedAtSeq
      /\ a.tolerance = m.tolerance /\ a.displayed = m.displayed /\ a.fair = m.fair
    BY DEF IsMarket, MarketFields
<1>2. /\ DOMAIN b = MarketFields /\ b.lastSeq = m.lastSeq
      /\ b.materialSeq = m.materialSeq /\ b.pricedAtSeq = m.pricedAtSeq
      /\ b.tolerance = m.tolerance /\ b.displayed = m.displayed /\ b.fair = m.fair
    BY DEF IsMarket, MarketFields
<1> HIDE DEF a, b
<1>3. IsMarket(a) /\ IsMarket(b)
    BY <1>1, <1>2 DEF IsMarket, NotStaleIsFair, Workspace!OpenedAwayFromFair
<1> QED  BY <1>1, <1>2, <1>3 DEF a, b

\* A creator's market shows its fair price, or was opened away from it.
LEMMA CreatedIsMarket ==
    ASSUME NEW in \in CreatorInputs, Workspace!ValidInput(in)
    PROVE  /\ IsMarket(Workspace!CreateFairXMarket(in))
           /\ Workspace!CreateFairXMarket(in).materialSeq = 1
<1> DEFINE new == Workspace!CreateFairXMarket(in)
           no == FALSE
<1>1. new = [ type |-> in.type, status |-> "TRADING", displayed |-> in.displayed,
              fair |-> in.fair, materialSeq |-> 1, pricedAtSeq |-> 1,
              tolerance |-> in.tolerance, source |-> in.source, createdBy |-> "user",
              rules |-> in.rules, lastSeq |-> 0, lastMaterial |-> no, onChain |-> {} ]
    BY DEF Workspace!CreateFairXMarket
<1> HIDE DEF new, no
<1>2. /\ DOMAIN new = MarketFields /\ new.materialSeq = 1 /\ new.pricedAtSeq = 1
      /\ new.lastSeq = 0 /\ new.tolerance = in.tolerance
      /\ new.displayed = in.displayed /\ new.fair = in.fair
    BY <1>1 DEF MarketFields
<1>3. NotStaleIsFair(new)
    BY <1>2 DEF NotStaleIsFair, Workspace!OpenedAwayFromFair
<1>4. in.tolerance \in Nat
    BY DEF Workspace!ValidInput
<1> QED  BY <1>2, <1>3, <1>4 DEF IsMarket, new

\* An order at the quote of a market is fair when it is filled.
LEMMA OrderIsFair ==
    ASSUME NEW m, IsMarket(m), NEW id, NEW side \in Workspace!Sides, NEW actor,
           Workspace!ValidOrder(m, side)
    PROVE  FillIsFair(Workspace!CreateGuardedOrder(id, m, side, actor))
<1> DEFINE quote == Workspace!Quote(m, side)
           observed == Workspace!SidePrice(m.displayed, side)
           fairSide == Workspace!SidePrice(m.fair, side)
           verdict == Workspace!Verdict(quote)
           order == Workspace!CreateGuardedOrder(id, m, side, actor)
<1>1. /\ quote.observed = observed /\ quote.fairSide = fairSide
      /\ quote.materialSeq = m.materialSeq /\ quote.pricedAtSeq = m.pricedAtSeq
      /\ quote.tolerance = m.tolerance
    BY DEF Workspace!Quote
<1>2. order.quote = quote /\ order.verdict = verdict
         /\ order.status = Workspace!GuardedOrderStatus(verdict)
    BY DEF Workspace!CreateGuardedOrder
<1>3. observed \in Int /\ fairSide \in Int
    BY DEF Workspace!ValidOrder, Workspace!ValidPrice, Workspace!SidePrice
<1>4. m.displayed = m.fair => observed = fairSide
    OBVIOUS
<1> HIDE DEF quote, observed, fairSide, order
<1>5. /\ m.materialSeq \in Nat /\ m.pricedAtSeq \in Nat /\ m.tolerance \in Nat
      /\ NotStaleIsFair(m)
    BY DEF IsMarket
<1>6. CASE m.materialSeq <= m.pricedAtSeq
    <2>1. Workspace!OpenedAwayFromFair(m) => Workspace!OpenedAwayFromFair(quote)
        BY <1>1 DEF Workspace!OpenedAwayFromFair
    <2> QED
        BY <1>1, <1>2, <1>3, <1>4, <1>5, <1>6, <2>1 DEF NotStaleIsFair, FillIsFair, order
<1>7. CASE m.materialSeq > m.pricedAtSeq
    <2>1. fairSide - observed > m.tolerance => verdict = "VOIDED_REFUNDED"
        BY <1>1, <1>5, <1>7 DEF Workspace!Verdict
    <2>2. fairSide - observed > m.tolerance => order.status # "filled"
        BY <1>2, <2>1 DEF Workspace!GuardedOrderStatus
    <2> HIDE DEF verdict
    <2> QED  BY <1>1, <1>2, <1>3, <1>5, <2>2 DEF FillIsFair, order
<1> QED  BY <1>5, <1>6, <1>7

-----------------------------------------------------------------------------
(* The store.                                                              *)

\* What the assumption says of the catalogue.
LEMMA CatalogMarkets ==
    ASSUME WorkspaceAssumption
    PROVE  \A i \in DOMAIN Catalog : i \in MarketIds /\ IsMarket(Catalog[i])
<1> SUFFICES ASSUME NEW i \in DOMAIN Catalog
             PROVE  i \in MarketIds /\ IsMarket(Catalog[i])
    OBVIOUS
<1>1. i \in MarketIds /\ Catalog[i] \in Workspace!FairXMarket /\ MaxEventSeq \in Nat
    BY DEF WorkspaceAssumption
<1>2. /\ DOMAIN Catalog[i] = MarketFields
      /\ Catalog[i].materialSeq \in Nat /\ Catalog[i].pricedAtSeq \in Nat
      /\ Catalog[i].lastSeq \in Nat /\ Catalog[i].tolerance \in Nat
    BY <1>1 DEF Workspace!FairXMarket, MarketFields
<1>3. NotStaleIsFair(Catalog[i])
    <2>1. Workspace!IsFairXMarketStale(Catalog[i])
             \/ Catalog[i].displayed = Catalog[i].fair
        BY DEF WorkspaceAssumption
    <2> QED  BY <1>2, <2>1 DEF NotStaleIsFair, Workspace!IsFairXMarketStale
<1> QED  BY <1>1, <1>2, <1>3 DEF IsMarket

\* The seed is a snapshot with nothing to match.
LEMMA SeedIsSnapshot ==
    ASSUME WorkspaceAssumption, NEW hydrated
    PROVE  LET s == Workspace!SeedSnapshot(hydrated)
           IN  /\ IsSnapshot(s, Unheard) /\ Matched(s)
               /\ s.hydrated = hydrated
<1> DEFINE s == Workspace!SeedSnapshot(hydrated)
<1>1. s = [markets |-> Catalog, orders |-> {}, receipts |-> << >>, hydrated |-> hydrated]
    BY DEF Workspace!SeedSnapshot
<1> HIDE DEF s
<1>2. /\ DOMAIN s = SnapshotFields /\ s.markets = Catalog /\ s.orders = {}
      /\ s.receipts = << >> /\ s.hydrated = hydrated
    BY <1>1 DEF SnapshotFields
<1>3. \A i \in DOMAIN s.markets : IsHeld(i, s.markets[i], Unheard)
    BY <1>2, CatalogMarkets DEF IsHeld, IsMarket, Unheard
<1>4. s.receipts \in Seq({})
    <2>1. << >> \in Seq({})
        OBVIOUS
    <2> QED  BY <1>2, <2>1
<1>5. IsSnapshot(s, Unheard) /\ Matched(s)
    BY <1>2, <1>3, <1>4 DEF IsSnapshot, Matched
<1> QED  BY <1>2, <1>5 DEF s

\* What is loaded is what was stored, with the catalogue underneath.
LEMMA LoadedIsSnapshot ==
    ASSUME WorkspaceAssumption, StorageIsSound, ReceiptsAreKept
    PROVE  LET s == [Workspace!LoadFairXStore EXCEPT !.hydrated = TRUE]
           IN  /\ IsSnapshot(s, Unheard)
               /\ saveFailures = 0 => Matched(s)
               /\ s.hydrated = TRUE
<1> DEFINE yes == TRUE
           l == Workspace!LoadFairXStore
           s == [l EXCEPT !.hydrated = yes]
<1>1. IsSnapshot(l, Unheard) /\ (saveFailures = 0 => Matched(l))
    <2>1. CASE storage.store = Null
        <3>1. l = Workspace!SeedSnapshot(TRUE)
            BY <2>1 DEF Workspace!LoadFairXStore
        <3> HIDE DEF l
        <3> QED  BY <3>1, SeedIsSnapshot
    <2>2. CASE storage.store # Null
        <3> DEFINE st == storage.store
                   merged == Workspace!MergeMarkets(st.markets)
        <3>1. IsSnapshot(st, Unheard)
            BY <2>2 DEF StorageIsSound
        <3>2. l = [st EXCEPT !.markets = merged]
            BY <2>2 DEF Workspace!LoadFairXStore
        <3>3. \A i \in DOMAIN merged : IsHeld(i, merged[i], Unheard)
            <4>1. ASSUME NEW i \in DOMAIN merged
                  PROVE  \/ i \in DOMAIN st.markets /\ merged[i] = st.markets[i]
                         \/ i \in DOMAIN Catalog /\ merged[i] = Catalog[i]
                BY DEF Workspace!MergeMarkets
            <4>2. \A i \in DOMAIN Catalog : IsHeld(i, Catalog[i], Unheard)
                BY CatalogMarkets DEF IsHeld, IsMarket, Unheard
            <4> HIDE DEF merged
            <4> QED  BY <3>1, <4>1, <4>2 DEF IsSnapshot
        <3> HIDE DEF merged, l
        <3>4. /\ DOMAIN l = SnapshotFields /\ l.markets = merged
              /\ l.orders = st.orders /\ l.receipts = st.receipts
            BY <3>1, <3>2 DEF IsSnapshot, SnapshotFields
        <3>5. IsSnapshot(l, Unheard)
            BY <3>1, <3>3, <3>4 DEF IsSnapshot
        <3>6. saveFailures = 0 => Matched(l)
            BY <2>2, <3>4 DEF ReceiptsAreKept, IndexesAgree, Matched
        <3> QED  BY <3>5, <3>6
    <2> QED  BY <2>1, <2>2
<1> HIDE DEF l, yes
<1>2. /\ DOMAIN s = SnapshotFields /\ s.markets = l.markets /\ s.orders = l.orders
      /\ s.receipts = l.receipts /\ s.hydrated = yes
    BY <1>1 DEF IsSnapshot, SnapshotFields
<1> HIDE DEF s
<1>3. IsSnapshot(s, Unheard) /\ (saveFailures = 0 => Matched(s))
    BY <1>1, <1>2 DEF IsSnapshot, Matched
<1> QED  BY <1>2, <1>3 DEF s, l, yes

\* A market is put in, or replaced; the snapshot is hydrated from then on.
LEMMA UpsertedIsSnapshot ==
    ASSUME NEW s, NEW h, IsSnapshot(s, h), NEW id, NEW m, NEW g,
           IsHeld(id, m, g), \A i \in DOMAIN s.markets : i # id => g[i] = h[i]
    PROVE  LET u == Workspace!UpsertMarket(s, id, m)
           IN  /\ IsSnapshot(u, g)
               /\ DOMAIN u.markets = DOMAIN s.markets \cup {id}
               /\ u.hydrated = TRUE
               /\ Matched(s) => Matched(u)
<1> DEFINE yes == TRUE
           markets == [i \in DOMAIN s.markets \cup {id} |->
                          IF i = id THEN m ELSE s.markets[i]]
           u == Workspace!UpsertMarket(s, id, m)
<1>1. u = [s EXCEPT !.markets = markets, !.hydrated = yes]
    BY DEF Workspace!UpsertMarket
<1>2. DOMAIN markets = DOMAIN s.markets \cup {id}
    OBVIOUS
<1>3. \A i \in DOMAIN markets : IsHeld(i, markets[i], g)
    <2>1. ASSUME NEW i \in DOMAIN markets
          PROVE  IsHeld(i, markets[i], g)
        <3>1. CASE i = id
            BY <3>1
        <3>2. CASE i # id
            BY <3>2 DEF IsSnapshot, IsHeld
        <3> QED  BY <3>1, <3>2
    <2> QED  BY <2>1
<1> HIDE DEF u, markets, yes
<1>4. /\ DOMAIN u = SnapshotFields /\ u.markets = markets /\ u.orders = s.orders
      /\ u.receipts = s.receipts /\ u.hydrated = yes
    BY <1>1 DEF IsSnapshot, SnapshotFields
<1>5. IsSnapshot(u, g) /\ (Matched(s) => Matched(u))
    BY <1>3, <1>4 DEF IsSnapshot, Matched
<1> QED  BY <1>2, <1>4, <1>5 DEF u, yes

\* An order is put in.
LEMMA OrderedIsSnapshot ==
    ASSUME NEW s, NEW h, IsSnapshot(s, h), NEW order, FillIsFair(order)
    PROVE  LET u == Workspace!AddOrder(s, order)
           IN  /\ IsSnapshot(u, h) /\ u.markets = s.markets
               /\ u.receipts = s.receipts
               /\ u.orders \subseteq s.orders \cup {order}
               /\ u.hydrated = TRUE
<1> DEFINE yes == TRUE
           orders == {o \in s.orders : o.id # order.id} \cup {order}
           u == Workspace!AddOrder(s, order)
<1>1. u = [s EXCEPT !.orders = orders, !.hydrated = yes]
    BY DEF Workspace!AddOrder
<1>2. orders \subseteq s.orders \cup {order}
    OBVIOUS
<1> HIDE DEF u, orders, yes
<1>3. /\ DOMAIN u = SnapshotFields /\ u.markets = s.markets /\ u.orders = orders
      /\ u.receipts = s.receipts /\ u.hydrated = yes
    BY <1>1 DEF IsSnapshot, SnapshotFields
<1>4. IsSnapshot(u, h)
    BY <1>2, <1>3 DEF IsSnapshot
<1> QED  BY <1>2, <1>3, <1>4 DEF u, yes

\* Receipts after one was added.
HasNew(receipts, old, receipt) ==
    /\ \A k \in DOMAIN old : k \in DOMAIN receipts /\ receipts[k] = old[k]
    /\ \E k \in DOMAIN receipts : receipts[k] = receipt

\* And then its receipt.
LEMMA ReceiptedIsSnapshot ==
    ASSUME NEW s, NEW h, IsSnapshot(s, h), NEW receipt
    PROVE  LET u == Workspace!AddReceipt(s, receipt)
           IN  /\ IsSnapshot(u, h) /\ u.markets = s.markets /\ u.orders = s.orders
               /\ u.hydrated = TRUE
               /\ HasNew(u.receipts, s.receipts, receipt)
<1> DEFINE yes == TRUE
           receipts == Append(s.receipts, receipt)
           u == Workspace!AddReceipt(s, receipt)
<1>1. u = [s EXCEPT !.receipts = receipts, !.hydrated = yes]
    BY DEF Workspace!AddReceipt
<1>2. PICK R : s.receipts \in Seq(R)
    BY DEF IsSnapshot
<1>3. /\ receipts \in Seq(R \cup {receipt})
      /\ HasNew(receipts, s.receipts, receipt)
    <2> DEFINE q == s.receipts
               RR == R \cup {receipt}
    <2>1. q \in Seq(RR) /\ receipt \in RR
        <3>1. R \subseteq RR /\ receipt \in RR
            OBVIOUS
        <3> HIDE DEF RR
        <3> QED  BY <1>2, <3>1
    <2> HIDE DEF q, RR
    <2>2. Append(q, receipt) \in Seq(RR)
        BY <2>1
    <2>3. /\ Len(Append(q, receipt)) = Len(q) + 1 /\ Len(q) \in Nat
          /\ \A k \in 1 .. Len(q) : Append(q, receipt)[k] = q[k]
          /\ Append(q, receipt)[Len(q) + 1] = receipt
          /\ DOMAIN q = 1 .. Len(q)
          /\ DOMAIN Append(q, receipt) = 1 .. Len(q) + 1
        BY <2>1
    <2>4. /\ \A k \in 1 .. Len(q) : k \in 1 .. Len(q) + 1
          /\ Len(q) + 1 \in 1 .. Len(q) + 1
        BY <2>3
    <2>5. HasNew(Append(q, receipt), q, receipt)
        BY <2>3, <2>4 DEF HasNew
    <2> QED  BY <2>2, <2>5 DEF q, RR
<1> HIDE DEF u, receipts, yes
<1>4. /\ DOMAIN u = SnapshotFields /\ u.markets = s.markets /\ u.orders = s.orders
      /\ u.receipts = receipts /\ u.hydrated = yes
    BY <1>1 DEF IsSnapshot, SnapshotFields
<1>5. IsSnapshot(u, h)
    BY <1>3, <1>4 DEF IsSnapshot
<1> QED  BY <1>3, <1>4, <1>5 DEF u, yes

\* A save keeps what was stored or writes the snapshot; if it was not refused, all of it.
LEMMA SavedStore ==
    ASSUME NEW old, NEW snap, NEW keys \in 0 .. 3
    PROVE  LET new == Workspace!SaveFairXStore(old, snap, keys)
           IN  /\ new.store \in {old.store, snap}
               /\ keys = 3 =>
                     /\ new.store = snap /\ new.receipts = snap.receipts
                     /\ new.last = IF snap.receipts = << >> THEN Null
                                   ELSE snap.receipts[Len(snap.receipts)]
<1> DEFINE new == Workspace!SaveFairXStore(old, snap, keys)
           store == IF keys >= 1 THEN snap ELSE old.store
           receipts == IF keys >= 2 THEN snap.receipts ELSE old.receipts
           last == IF keys < 3 THEN old.last
                   ELSE IF snap.receipts = << >> THEN Null
                   ELSE snap.receipts[Len(snap.receipts)]
<1>1. new = [store |-> store, receipts |-> receipts, last |-> last]
    BY DEF Workspace!SaveFairXStore, Workspace!Last
<1>2. /\ store \in {old.store, snap}
      /\ keys = 3 =>
            /\ store = snap /\ receipts = snap.receipts
            /\ last = IF snap.receipts = << >> THEN Null
                      ELSE snap.receipts[Len(snap.receipts)]
    OBVIOUS
<1> HIDE DEF new, store, receipts, last
<1>3. new.store = store /\ new.receipts = receipts /\ new.last = last
    BY <1>1
<1> QED  BY <1>2, <1>3 DEF new

-----------------------------------------------------------------------------
(* What the steps of a tab have in common.                                 *)

\* A commit shows the snapshot, and stores it unless the save is refused.
LEMMA CommitSaves ==
    ASSUME ReceiptsAreKept, NEW t \in Tabs, NEW snap, Workspace!Commit(t, snap)
    PROVE  /\ snapshot' = [snapshot EXCEPT ![t] = snap]
           /\ storage'.store \in {storage.store, snap}
           /\ saveFailures' \in Nat
           /\ saveFailures' = 0 =>
                 saveFailures = 0 /\ (Matched(snap) => IndexesAgree(storage'))
<1>1. PICK keys \in 0 .. 3 :
         /\ snapshot' = [snapshot EXCEPT ![t] = snap]
         /\ storage' = Workspace!SaveFairXStore(storage, snap, keys)
         /\ saveFailures' = IF keys = 3 THEN saveFailures ELSE saveFailures + 1
    BY DEF Workspace!Commit
<1>2. /\ storage'.store \in {storage.store, snap}
      /\ keys = 3 =>
            /\ storage'.store = snap /\ storage'.receipts = snap.receipts
            /\ storage'.last = IF snap.receipts = << >> THEN Null
                               ELSE snap.receipts[Len(snap.receipts)]
    BY <1>1, SavedStore
<1>3. /\ saveFailures' \in Nat
      /\ saveFailures' = 0 => keys = 3 /\ saveFailures = 0
    BY <1>1 DEF ReceiptsAreKept
<1>4. keys = 3 /\ Matched(snap) => IndexesAgree(storage')
    BY <1>2 DEF IndexesAgree
<1> QED  BY <1>1, <1>2, <1>3, <1>4

\* And so do two commits, one after the other.
LEMMA CommitBothSaves ==
    ASSUME ReceiptsAreKept, NEW t \in Tabs, NEW first, NEW snap,
           Workspace!CommitBoth(t, first, snap)
    PROVE  /\ snapshot' = [snapshot EXCEPT ![t] = snap]
           /\ storage'.store \in {storage.store, first, snap}
           /\ saveFailures' \in Nat
           /\ saveFailures' = 0 =>
                 saveFailures = 0 /\ (Matched(snap) => IndexesAgree(storage'))
<1>1. PICK keys1 \in 0 .. 3, keys2 \in 0 .. 3 :
         /\ snapshot' = [snapshot EXCEPT ![t] = snap]
         /\ storage' = Workspace!SaveFairXStore(
                          Workspace!SaveFairXStore(storage, first, keys1), snap, keys2)
         /\ saveFailures' = IF keys1 = 3 /\ keys2 = 3 THEN saveFailures
                            ELSE saveFailures + 1
    BY DEF Workspace!CommitBoth
<1> DEFINE middle == Workspace!SaveFairXStore(storage, first, keys1)
<1>2. middle.store \in {storage.store, first}
    BY SavedStore
<1>3. storage' = Workspace!SaveFairXStore(middle, snap, keys2)
    BY <1>1
<1> HIDE DEF middle
<1>4. /\ storage'.store \in {middle.store, snap}
      /\ keys2 = 3 =>
            /\ storage'.store = snap /\ storage'.receipts = snap.receipts
            /\ storage'.last = IF snap.receipts = << >> THEN Null
                               ELSE snap.receipts[Len(snap.receipts)]
    BY <1>3, SavedStore
<1>5. /\ saveFailures' \in Nat
      /\ saveFailures' = 0 => keys2 = 3 /\ saveFailures = 0
    BY <1>1 DEF ReceiptsAreKept
<1>6. keys2 = 3 /\ Matched(snap) => IndexesAgree(storage')
    BY <1>4 DEF IndexesAgree
<1> QED  BY <1>1, <1>2, <1>4, <1>5, <1>6

\* Of the tabs, only t gets a new value.
Moves(old, new, t, value) ==
    /\ DOMAIN new = Tabs
    /\ new[t] = value
    /\ \A u \in Tabs : u # t => new[u] = old[u]

\* What moves and what stays.
LEMMA Moved ==
    ASSUME NEW old, DOMAIN old = Tabs, NEW t \in Tabs
    PROVE  /\ \A value : Moves(old, [old EXCEPT ![t] = value], t, value)
           /\ Moves(old, old, t, old[t])
BY DEF Moves

\* The same, of what is not yet.
LEMMA PrimedDefinitions ==
    /\ StorageIsSound'
          <=> (storage'.store # Null => IsSnapshot(storage'.store, Unheard))
    /\ \A t \in Tabs :
          TabIsSound(snapshot[t], workspace[t], timer[t], call[t], heard[t])'
             <=> TabIsSound(snapshot'[t], workspace'[t], timer'[t], call'[t], heard'[t])
    /\ IndexesAgree(storage)' <=> IndexesAgree(storage')
    /\ \A t \in Tabs : Matched(snapshot[t])' <=> Matched(snapshot'[t])
<1>1. StorageIsSound'
         <=> (storage'.store # Null => IsSnapshot(storage'.store, Unheard))
    BY DEF StorageIsSound, IsSnapshot, Unheard, IsHeld, IsMarket, FillIsFair
<1>2. ASSUME NEW t \in Tabs
      PROVE  TabIsSound(snapshot[t], workspace[t], timer[t], call[t], heard[t])'
         <=> TabIsSound(snapshot'[t], workspace'[t], timer'[t], call'[t], heard'[t])
    BY DEF TabIsSound, IsSnapshot, IsShown, IsHeld, AreHeld, IsMarket, FillIsFair
<1>3. IndexesAgree(storage)' <=> IndexesAgree(storage')
    BY DEF IndexesAgree, Matched
<1>4. ASSUME NEW t \in Tabs
      PROVE  Matched(snapshot[t])' <=> Matched(snapshot'[t])
    BY DEF Matched
<1> QED  BY <1>1, <1>2, <1>3, <1>4

\* A step of one tab keeps the invariant when the tab stays sound, and what it stored.
LEMMA TabChanges ==
    ASSUME WorkspaceInvariant,
           NEW t \in Tabs, NEW snap, NEW w, NEW tm, NEW c, NEW h,
           Moves(snapshot, snapshot', t, snap), Moves(workspace, workspace', t, w),
           Moves(timer, timer', t, tm), Moves(call, call', t, c),
           Moves(heard, heard', t, h),
           TabIsSound(snap, w, tm, c, h),
           storage'.store # Null => IsSnapshot(storage'.store, Unheard),
           saveFailures' \in Nat,
           saveFailures' = 0 =>
              saveFailures = 0 /\ Matched(snap) /\ IndexesAgree(storage')
    PROVE  WorkspaceInvariant'
<1>1. ASSUME NEW u \in Tabs
      PROVE  TabIsSound(snapshot'[u], workspace'[u], timer'[u], call'[u], heard'[u])
    <2>1. CASE u = t
        BY <2>1 DEF Moves
    <2>2. CASE u # t
        BY <2>2 DEF Moves, WorkspaceInvariant, TabsAreSound
    <2> QED  BY <2>1, <2>2
<1>2. TabsAreSound'
    BY <1>1, PrimedDefinitions DEF TabsAreSound, Moves
<1>3. StorageIsSound'
    BY PrimedDefinitions
<1>4. ASSUME saveFailures' = 0, NEW u \in Tabs
      PROVE  Matched(snapshot'[u])
    BY <1>4 DEF Moves, WorkspaceInvariant, ReceiptsAreKept
<1>5. ReceiptsAreKept'
    BY <1>4, PrimedDefinitions DEF ReceiptsAreKept
<1> QED  BY <1>2, <1>3, <1>5 DEF WorkspaceInvariant

\* What a tab holds can be stored for a tab that has heard nothing.
LEMMA SnapshotsCanBeStored ==
    ASSUME NEW s, NEW h, IsSnapshot(s, h)
    PROVE  IsSnapshot(s, Unheard)
<1>1. \A i \in MarketIds : Unheard[i] = 0
    BY DEF Unheard
<1> QED  BY <1>1 DEF IsSnapshot, IsHeld, IsMarket

\* A tab after a step that stored its snapshot, with what else it changed.
LEMMA CommitKeeps ==
    ASSUME WorkspaceInvariant,
           NEW t \in Tabs, NEW snap, NEW w, NEW tm, NEW c, NEW h,
           Workspace!Commit(t, snap), Moves(workspace, workspace', t, w),
           Moves(timer, timer', t, tm), Moves(call, call', t, c),
           Moves(heard, heard', t, h),
           TabIsSound(snap, w, tm, c, h),
           Matched(snapshot[t]) => Matched(snap)
    PROVE  WorkspaceInvariant'
<1>1. /\ snapshot' = [snapshot EXCEPT ![t] = snap]
      /\ storage'.store \in {storage.store, snap}
      /\ saveFailures' \in Nat
      /\ saveFailures' = 0 =>
            saveFailures = 0 /\ (Matched(snap) => IndexesAgree(storage'))
    BY CommitSaves DEF WorkspaceInvariant
<1>2. Moves(snapshot, snapshot', t, snap)
    BY <1>1, Moved DEF WorkspaceInvariant, TabsAreSound
<1>3. storage'.store # Null => IsSnapshot(storage'.store, Unheard)
    BY <1>1, SnapshotsCanBeStored DEF WorkspaceInvariant, StorageIsSound, TabIsSound
<1>4. saveFailures = 0 => Matched(snapshot[t])
    BY DEF WorkspaceInvariant, ReceiptsAreKept
<1> QED  BY <1>1, <1>2, <1>3, <1>4, TabChanges

-----------------------------------------------------------------------------
(* The steps of the page.                                                  *)

\* A step that stores nothing and shows what matches.
LEMMA ShowKeeps ==
    ASSUME WorkspaceInvariant,
           NEW t \in Tabs, NEW snap, NEW w, NEW tm, NEW c, NEW h,
           Moves(snapshot, snapshot', t, snap), Moves(workspace, workspace', t, w),
           Moves(timer, timer', t, tm), Moves(call, call', t, c),
           Moves(heard, heard', t, h),
           TabIsSound(snap, w, tm, c, h),
           UNCHANGED <<storage, saveFailures>>,
           saveFailures = 0 => Matched(snap)
    PROVE  WorkspaceInvariant'
<1>1. storage'.store # Null => IsSnapshot(storage'.store, Unheard)
    BY DEF WorkspaceInvariant, StorageIsSound
<1>2. saveFailures' \in Nat
      /\ (saveFailures' = 0 =>
            saveFailures = 0 /\ Matched(snap) /\ IndexesAgree(storage'))
    BY DEF WorkspaceInvariant, ReceiptsAreKept
<1> QED  BY <1>1, <1>2, TabChanges

\* A market that is put in, or replaced, leaves the rest of the tab as it was.
LEMMA UpsertedTabIsSound ==
    ASSUME NEW s, NEW w, NEW tm, NEW c, NEW h, TabIsSound(s, w, tm, c, h),
           NEW id, NEW m, NEW g, IsHeld(id, m, g),
           DOMAIN g = MarketIds, \A i \in MarketIds : g[i] \in Nat,
           \A i \in MarketIds : i # id => g[i] = h[i]
    PROVE  LET u == Workspace!UpsertMarket(s, id, m)
           IN  /\ Matched(s) => Matched(u)
               /\ \A w2, tm2, c2 :
                     /\ w2 # Null => IsShown(w2, g)
                     /\ tm2 # Null => IsShown(w2, g) /\ IsHeld(tm2.id, tm2.market, g)
                     /\ AreHeld(c2, g) /\ (c2 # {} => IsShown(w2, g))
                     => TabIsSound(u, w2, tm2, c2, g)
<1> DEFINE u == Workspace!UpsertMarket(s, id, m)
<1>1. \A i \in DOMAIN s.markets : i # id => g[i] = h[i]
    BY DEF TabIsSound, IsSnapshot, IsHeld
<1>2. IsSnapshot(s, h)
    BY DEF TabIsSound
<1>3. /\ IsSnapshot(u, g)
      /\ DOMAIN u.markets = DOMAIN s.markets \cup {id}
      /\ u.hydrated = TRUE
      /\ Matched(s) => Matched(u)
    BY <1>1, <1>2, UpsertedIsSnapshot
<1> HIDE DEF u
<1>4. \A i \in MarketIds : g[i] > 0 => i \in DOMAIN u.markets
    BY <1>3 DEF TabIsSound
<1>5. ASSUME NEW w2, NEW tm2, NEW c2,
             w2 # Null => IsShown(w2, g),
             tm2 # Null => IsShown(w2, g) /\ IsHeld(tm2.id, tm2.market, g),
             AreHeld(c2, g), c2 # {} => IsShown(w2, g)
      PROVE  TabIsSound(u, w2, tm2, c2, g)
    BY <1>3, <1>4, <1>5 DEF TabIsSound
<1> QED  BY <1>3, <1>5 DEF u

\* updateMarket, with what else the step does.
LEMMA UpdateKeeps ==
    ASSUME WorkspaceInvariant,
           NEW t \in Tabs, NEW id, NEW m, NEW tm, NEW c, NEW g,
           Workspace!UpdateMarket(t, id, m),
           IsShown(workspace[t], heard[t]), IsHeld(id, m, g),
           Moves(timer, timer', t, tm), Moves(call, call', t, c),
           Moves(heard, heard', t, g),
           DOMAIN g = MarketIds, \A i \in MarketIds : g[i] \in Nat,
           \A i \in MarketIds : i # id => g[i] = heard[t][i],
           tm # Null => IsHeld(tm.id, tm.market, g), AreHeld(c, g)
    PROVE  WorkspaceInvariant'
<1> DEFINE w == [workspace[t] EXCEPT !.id = id, !.market = m]
           s == snapshot[t]
           u == Workspace!UpsertMarket(s, id, m)
<1>1. Workspace!Commit(t, u)
    BY DEF Workspace!UpdateMarket
<1>2. Moves(workspace, workspace', t, w)
    <2>1. workspace' = [workspace EXCEPT ![t] = w]
        BY DEF Workspace!UpdateMarket
    <2> HIDE DEF w
    <2> QED  BY <2>1, Moved DEF WorkspaceInvariant, TabsAreSound
<1>3. IsShown(w, g)
    BY DEF IsShown
<1>4. TabIsSound(s, workspace[t], timer[t], call[t], heard[t])
    BY DEF WorkspaceInvariant, TabsAreSound
<1> HIDE DEF w, s
<1>5. TabIsSound(u, w, tm, c, g) /\ (Matched(s) => Matched(u))
    BY <1>3, <1>4, UpsertedTabIsSound
<1> HIDE DEF u
<1> QED  BY <1>1, <1>2, <1>5, CommitKeeps DEF s

\* The page is hydrated before anything is heard.
LEMMA HydrateKeeps ==
    ASSUME WorkspaceAssumption, WorkspaceInvariant,
           NEW t \in Tabs, Workspace!Hydrate(t)
    PROVE  WorkspaceInvariant'
<1> DEFINE s == [Workspace!LoadFairXStore EXCEPT !.hydrated = TRUE]
<1>1. /\ ~ snapshot[t].hydrated
      /\ snapshot' = [snapshot EXCEPT ![t] = s]
      /\ UNCHANGED <<storage, workspace, timer, call, saveFailures, heard>>
    BY DEF Workspace!Hydrate
<1>2. /\ IsSnapshot(s, Unheard)
      /\ saveFailures = 0 => Matched(s)
      /\ s.hydrated = TRUE
    BY LoadedIsSnapshot DEF WorkspaceInvariant
<1> HIDE DEF s
<1>3. TabIsSound(snapshot[t], workspace[t], timer[t], call[t], heard[t])
    BY DEF WorkspaceInvariant, TabsAreSound
<1>4. \A i \in MarketIds : heard[t][i] = 0 /\ Unheard[i] = 0
    BY <1>1, <1>3 DEF TabIsSound, Unheard
<1>5. IsSnapshot(s, heard[t])
    BY <1>2, <1>4 DEF IsSnapshot, IsHeld
<1>6. TabIsSound(s, workspace[t], timer[t], call[t], heard[t])
    BY <1>1, <1>2, <1>3, <1>4, <1>5 DEF TabIsSound
<1> QED
    BY <1>1, <1>2, <1>6, Moved, ShowKeeps DEF WorkspaceInvariant, TabsAreSound

\* A page that is loaded again has nothing.
LEMMA ReloadKeeps ==
    ASSUME WorkspaceAssumption, WorkspaceInvariant,
           NEW t \in Tabs, Workspace!Reload(t)
    PROVE  WorkspaceInvariant'
<1> DEFINE s == Workspace!SeedSnapshot(FALSE)
<1>1. /\ snapshot' = [snapshot EXCEPT ![t] = s]
      /\ workspace' = [workspace EXCEPT ![t] = Null]
      /\ timer' = [timer EXCEPT ![t] = Null]
      /\ call' = [call EXCEPT ![t] = {}]
      /\ heard' = [heard EXCEPT ![t] = Unheard]
      /\ UNCHANGED <<storage, saveFailures>>
    BY DEF Workspace!Reload, Unheard
<1>2. AreHeld({}, Unheard)
    BY DEF AreHeld
<1>3. IsSnapshot(s, Unheard) /\ Matched(s) /\ s.hydrated = FALSE
    BY SeedIsSnapshot
<1> HIDE DEF s
<1>4. DOMAIN Unheard = MarketIds /\ \A i \in MarketIds : Unheard[i] = 0
    BY DEF Unheard
<1>5. TabIsSound(s, Null, Null, {}, Unheard)
    BY <1>2, <1>3, <1>4 DEF TabIsSound
<1>6. /\ Moves(snapshot, snapshot', t, s) /\ Moves(workspace, workspace', t, Null)
      /\ Moves(timer, timer', t, Null) /\ Moves(call, call', t, {})
      /\ Moves(heard, heard', t, Unheard)
    BY <1>1, Moved DEF WorkspaceInvariant, TabsAreSound
<1>7. UNCHANGED <<storage, saveFailures>>
    BY <1>1
<1> QED  BY <1>3, <1>5, <1>6, <1>7, ShowKeeps

\* The store is cleared; what runs goes on with what it captured.
LEMMA ResetKeeps ==
    ASSUME WorkspaceAssumption, WorkspaceInvariant,
           NEW t \in Tabs, Workspace!Reset(t)
    PROVE  WorkspaceInvariant'
<1> DEFINE s == Workspace!SeedSnapshot(TRUE)
<1>1. /\ snapshot' = [snapshot EXCEPT ![t] = s]
      /\ storage' = Workspace!Cleared
      /\ heard' = [heard EXCEPT ![t] = Unheard]
      /\ UNCHANGED <<workspace, timer, call, saveFailures>>
    BY DEF Workspace!Reset, Unheard
<1>2. storage'.store = Null
    BY <1>1 DEF Workspace!Cleared
<1>3. IsSnapshot(s, Unheard) /\ Matched(s) /\ s.hydrated = TRUE
    BY SeedIsSnapshot
<1> HIDE DEF s
<1>4. DOMAIN Unheard = MarketIds /\ \A i \in MarketIds : Unheard[i] = 0
    BY DEF Unheard
<1>5. TabIsSound(snapshot[t], workspace[t], timer[t], call[t], heard[t])
    BY DEF WorkspaceInvariant, TabsAreSound
<1>6. TabIsSound(s, workspace[t], timer[t], call[t], Unheard)
    <2>1. \A id, m : IsHeld(id, m, heard[t]) => IsHeld(id, m, Unheard)
        BY <1>4 DEF IsHeld, IsMarket
    <2> QED  BY <1>3, <1>4, <1>5, <2>1 DEF TabIsSound, IsShown, AreHeld
<1>7. /\ Moves(snapshot, snapshot', t, s) /\ Moves(heard, heard', t, Unheard)
      /\ Moves(workspace, workspace', t, workspace[t])
      /\ Moves(timer, timer', t, timer[t]) /\ Moves(call, call', t, call[t])
    BY <1>1, Moved DEF WorkspaceInvariant, TabsAreSound
<1>8. /\ saveFailures' \in Nat
      /\ saveFailures' = 0 =>
            saveFailures = 0 /\ Matched(s) /\ IndexesAgree(storage')
    BY <1>1, <1>2, <1>3 DEF WorkspaceInvariant, ReceiptsAreKept, IndexesAgree
<1> QED  BY <1>2, <1>6, <1>7, <1>8, TabChanges

\* Nothing was heard of a market before it is created.
LEMMA CreateKeeps ==
    ASSUME WorkspaceInvariant, NEW t \in Tabs, Workspace!Create(t)
    PROVE  WorkspaceInvariant'
<1>1. PICK id \in MarketIds \ DOMAIN Catalog, in \in CreatorInputs :
         /\ id \notin DOMAIN snapshot[t].markets
         /\ Workspace!ValidInput(in)
         /\ Workspace!Commit(t, Workspace!UpsertMarket(snapshot[t], id,
                                    Workspace!CreateFairXMarket(in)))
         /\ UNCHANGED <<workspace, timer, call, heard>>
    BY DEF Workspace!Create
<1> DEFINE m == Workspace!CreateFairXMarket(in)
           s == snapshot[t]
           u == Workspace!UpsertMarket(s, id, m)
<1>2. IsMarket(m) /\ m.materialSeq = 1
    BY <1>1, CreatedIsMarket
<1>3. TabIsSound(s, workspace[t], timer[t], call[t], heard[t])
    BY DEF WorkspaceInvariant, TabsAreSound
<1>4. Workspace!Commit(t, u)
    BY <1>1
<1> HIDE DEF m
<1>5. IsHeld(id, m, heard[t])
    BY <1>1, <1>2, <1>3 DEF TabIsSound, IsHeld
<1> HIDE DEF s
<1>6. TabIsSound(u, workspace[t], timer[t], call[t], heard[t])
         /\ (Matched(s) => Matched(u))
    <2>1. /\ DOMAIN heard[t] = MarketIds /\ \A i \in MarketIds : heard[t][i] \in Nat
          /\ workspace[t] # Null => IsShown(workspace[t], heard[t])
          /\ timer[t] # Null =>
                /\ IsShown(workspace[t], heard[t])
                /\ IsHeld(timer[t].id, timer[t].market, heard[t])
          /\ AreHeld(call[t], heard[t])
          /\ call[t] # {} => IsShown(workspace[t], heard[t])
        BY <1>3 DEF TabIsSound
    <2> QED  BY <1>3, <1>5, <2>1, UpsertedTabIsSound
<1> HIDE DEF u
<1>7. /\ Moves(workspace, workspace', t, workspace[t])
      /\ Moves(timer, timer', t, timer[t]) /\ Moves(call, call', t, call[t])
      /\ Moves(heard, heard', t, heard[t])
    BY <1>1, Moved DEF WorkspaceInvariant, TabsAreSound
<1> QED  BY <1>4, <1>6, <1>7, CommitKeeps DEF s

\* A request keeps what it captured when its panel goes.
LEMMA ShowingIsHeld ==
    ASSUME NEW m, NEW c, NEW h, AreHeld(c, h)
    PROVE  AreHeld(Workspace!Showing(m, c), h)
<1>1. ASSUME NEW r
      PROVE  LET q == [r EXCEPT !.mounted = FALSE]
             IN  q.id = r.id /\ q.market = r.market
    OBVIOUS
<1>2. CASE Workspace!HasPanel(m)
    <2>1. Workspace!Showing(m, c) = c
        BY <1>2 DEF Workspace!Showing
    <2> QED  BY <2>1
<1>3. CASE ~ Workspace!HasPanel(m)
    <2>1. Workspace!Showing(m, c) = {[r EXCEPT !.mounted = FALSE] : r \in c}
        BY <1>3 DEF Workspace!Showing
    <2> QED  BY <1>1, <2>1 DEF AreHeld
<1> QED  BY <1>2, <1>3

\* The workspace takes the market that the page shows.
LEMMA OpenKeeps ==
    ASSUME WorkspaceInvariant, NEW t \in Tabs, Workspace!Open(t)
    PROVE  WorkspaceInvariant'
<1>1. PICK id \in DOMAIN snapshot[t].markets :
         LET market == snapshot[t].markets[id]
         IN  /\ snapshot[t].hydrated
             /\ workspace' = [workspace EXCEPT ![t] =
                                 [page |-> id, id |-> id, market |-> market]]
             /\ call' = [call EXCEPT ![t] = Workspace!Showing(market, @)]
             /\ UNCHANGED <<snapshot, storage, timer, saveFailures, heard>>
    BY DEF Workspace!Open
<1> DEFINE m == snapshot[t].markets[id]
           w == [page |-> id, id |-> id, market |-> m]
           c == Workspace!Showing(m, call[t])
<1>2. /\ TabIsSound(snapshot[t], workspace[t], timer[t], call[t], heard[t])
      /\ saveFailures = 0 => Matched(snapshot[t])
    BY DEF WorkspaceInvariant, TabsAreSound, ReceiptsAreKept
<1>3. IsShown(w, heard[t])
    BY <1>2 DEF IsShown, TabIsSound, IsSnapshot
<1>4. workspace' = [workspace EXCEPT ![t] = w] /\ call' = [call EXCEPT ![t] = c]
    BY <1>1
<1>5. AreHeld(c, heard[t])
    BY <1>2, ShowingIsHeld DEF TabIsSound
<1> HIDE DEF w, c, m
<1>6. TabIsSound(snapshot[t], w, timer[t], c, heard[t])
    BY <1>1, <1>2, <1>3, <1>5 DEF TabIsSound
<1>7. /\ Moves(snapshot, snapshot', t, snapshot[t]) /\ Moves(workspace, workspace', t, w)
      /\ Moves(timer, timer', t, timer[t]) /\ Moves(call, call', t, c)
      /\ Moves(heard, heard', t, heard[t])
    <2>1. UNCHANGED <<snapshot, timer, heard>>
        BY <1>1
    <2>2. Moves(workspace, workspace', t, w) /\ Moves(call, call', t, c)
        BY <1>4, Moved DEF WorkspaceInvariant, TabsAreSound
    <2> QED  BY <2>1, <2>2, Moved DEF WorkspaceInvariant, TabsAreSound
<1>8. UNCHANGED <<storage, saveFailures>>
    BY <1>1
<1> QED  BY <1>2, <1>6, <1>7, <1>8, ShowKeeps

-----------------------------------------------------------------------------
(* The steps of the workspace and of the panel.                            *)

\* What was heard is never above what the tab holds: an event is counted when no request
\* is under way, and then the market that heard it is the one shown.
LEMMA EmitKeeps ==
    ASSUME WorkspaceInvariant, NEW t \in Tabs, Workspace!EmitMaterialEvent(t)
    PROVE  WorkspaceInvariant'
<1> DEFINE id == workspace[t].id
           old == workspace[t].market
           new == Workspace!ApplyMarketEvent(old, Workspace!GeneratedEvent(old), 0)
           h == heard[t]
           idle == timer[t] = Null /\ call[t] = {}
           g == IF idle THEN [h EXCEPT ![id] = new.materialSeq] ELSE h
<1>1. /\ workspace[t] # Null
      /\ Workspace!UpdateMarket(t, id, new)
      /\ heard' = IF idle
                  THEN [heard EXCEPT ![t][id] =
                           Workspace!HighestOf({@, new.materialSeq})]
                  ELSE heard
      /\ UNCHANGED <<timer, call>>
    BY DEF Workspace!EmitMaterialEvent, Workspace!IsOpen
<1>2. TabIsSound(snapshot[t], workspace[t], timer[t], call[t], h)
    BY DEF WorkspaceInvariant, TabsAreSound
<1>3. IsShown(workspace[t], h)
    BY <1>1, <1>2 DEF TabIsSound
<1>4. IsHeld(id, old, h)
    BY <1>3 DEF IsShown
<1>5. IsMarket(new) /\ new.materialSeq >= old.materialSeq
    BY <1>4, EventKeepsMarket DEF IsHeld
<1>6. /\ h[id] \in Nat /\ new.materialSeq \in Nat /\ id \in MarketIds
      /\ h[id] <= new.materialSeq
      /\ DOMAIN h = MarketIds /\ \A i \in MarketIds : h[i] \in Nat
    BY <1>2, <1>4, <1>5 DEF TabIsSound, IsHeld, IsMarket
<1>7. UNCHANGED <<timer, call>>
    BY <1>1
<1> HIDE DEF new, old, id
<1>8. Workspace!HighestOf({h[id], new.materialSeq}) = new.materialSeq
    <2>1. {h[id], new.materialSeq} = {h[id], new.materialSeq, new.materialSeq}
        OBVIOUS
    <2>2. LET n == Workspace!HighestOf({h[id], new.materialSeq, new.materialSeq})
          IN  n \in {h[id], new.materialSeq} /\ h[id] <= n /\ new.materialSeq <= n
        BY <1>6, HighestOfThree
    <2> HIDE DEF h
    <2> QED  BY <1>6, <2>1, <2>2
<1>9. Moves(heard, heard', t, g)
    <2>1. CASE idle
        <3>1. heard' = [heard EXCEPT ![t] =
                           [heard[t] EXCEPT ![id] =
                               Workspace!HighestOf({h[id], new.materialSeq})]]
            BY <1>1, <2>1
        <3>2. heard' = [heard EXCEPT ![t] = g]
            BY <1>8, <2>1, <3>1
        <3> HIDE DEF g
        <3> QED  BY <3>2, Moved DEF WorkspaceInvariant, TabsAreSound
    <2>2. CASE ~ idle
        <3>1. heard' = heard /\ g = heard[t]
            BY <1>1, <2>2
        <3> HIDE DEF g
        <3> QED  BY <3>1, Moved DEF WorkspaceInvariant, TabsAreSound
    <2> QED  BY <2>1, <2>2
<1>10. Moves(timer, timer', t, timer[t])
    BY <1>7, Moved DEF WorkspaceInvariant, TabsAreSound
<1>11. /\ DOMAIN g = MarketIds /\ \A i \in MarketIds : g[i] \in Nat
       /\ \A i \in MarketIds : i # id => g[i] = h[i]
       /\ g[id] <= new.materialSeq
    <2> HIDE DEF h, idle
    <2> QED  BY <1>6
<1>12. IsHeld(id, new, g)
    <2> HIDE DEF g
    <2> QED  BY <1>5, <1>6, <1>11 DEF IsHeld, IsMarket
<1>13. /\ timer[t] # Null => IsHeld(timer[t].id, timer[t].market, g)
       /\ AreHeld(call[t], g)
    <2>1. CASE idle
        BY <2>1 DEF AreHeld
    <2>2. CASE ~ idle
        <3>1. g = h
            BY <2>2
        <3> HIDE DEF g, h
        <3> QED  BY <1>2, <3>1 DEF TabIsSound
    <2> QED  BY <2>1, <2>2
<1>14. Workspace!UpdateMarket(t, id, new) /\ Moves(call, call', t, call[t])
    BY <1>1, <1>7, Moved DEF WorkspaceInvariant, TabsAreSound
<1> HIDE DEF g, idle
<1> QED
    BY <1>3, <1>9, <1>10, <1>11, <1>12, <1>13, <1>14, UpdateKeeps

\* A reprice captures the market that the workspace shows.
LEMMA RepriceKeeps ==
    ASSUME WorkspaceInvariant, NEW t \in Tabs, Workspace!Reprice(t)
    PROVE  WorkspaceInvariant'
<1> DEFINE id == workspace[t].id
           m == [workspace[t].market EXCEPT !.status = "REPRICING"]
           tm == [id |-> id, market |-> m]
           h == heard[t]
<1>1. /\ workspace[t] # Null
      /\ Workspace!UpdateMarket(t, id, m)
      /\ timer' = [timer EXCEPT ![t] = tm]
      /\ UNCHANGED <<call, heard>>
    BY DEF Workspace!Reprice, Workspace!IsOpen
<1>2. TabIsSound(snapshot[t], workspace[t], timer[t], call[t], h)
    BY DEF WorkspaceInvariant, TabsAreSound
<1>3. IsShown(workspace[t], h)
    BY <1>1, <1>2 DEF TabIsSound
<1>4. IsHeld(id, m, h)
    BY <1>3, MarkKeepsMarket DEF IsShown, IsHeld
<1> HIDE DEF id, m
<1>5. tm.id = id /\ tm.market = m
    OBVIOUS
<1> HIDE DEF tm
<1>6. Moves(timer, timer', t, tm) /\ Moves(heard, heard', t, h)
         /\ Moves(call, call', t, call[t])
    <2>1. UNCHANGED <<call, heard>> /\ timer' = [timer EXCEPT ![t] = tm]
        BY <1>1
    <2> QED  BY <2>1, Moved DEF WorkspaceInvariant, TabsAreSound
<1>7. /\ DOMAIN h = MarketIds /\ \A i \in MarketIds : h[i] \in Nat
      /\ AreHeld(call[t], h)
    BY <1>2 DEF TabIsSound
<1> QED  BY <1>1, <1>3, <1>4, <1>5, <1>6, <1>7, UpdateKeeps

\* What was captured is repriced, and shown.
LEMMA RepriceFiresKeeps ==
    ASSUME WorkspaceInvariant, NEW t \in Tabs, Workspace!RepriceFires(t)
    PROVE  WorkspaceInvariant'
<1> DEFINE id == timer[t].id
           m == Workspace!RepriceFairXMarket(timer[t].market)
           c == Workspace!Showing(m, call[t])
           h == heard[t]
<1>1. /\ timer[t] # Null
      /\ Workspace!UpdateMarket(t, id, m)
      /\ call' = [call EXCEPT ![t] = c]
      /\ timer' = [timer EXCEPT ![t] = Null]
      /\ UNCHANGED heard
    BY DEF Workspace!RepriceFires
<1>2. TabIsSound(snapshot[t], workspace[t], timer[t], call[t], h)
    BY DEF WorkspaceInvariant, TabsAreSound
<1>3. IsShown(workspace[t], h) /\ IsHeld(id, timer[t].market, h)
    BY <1>1, <1>2 DEF TabIsSound
<1>4. IsHeld(id, m, h)
    BY <1>3, RepriceKeepsMarket DEF IsHeld
<1>5. AreHeld(c, h)
    BY <1>2, ShowingIsHeld DEF TabIsSound
<1> HIDE DEF id, m, c
<1>6. /\ Moves(timer, timer', t, Null) /\ Moves(heard, heard', t, h)
      /\ Moves(call, call', t, c)
    <2>1. /\ UNCHANGED heard /\ timer' = [timer EXCEPT ![t] = Null]
          /\ call' = [call EXCEPT ![t] = c]
        BY <1>1
    <2> QED  BY <2>1, Moved DEF WorkspaceInvariant, TabsAreSound
<1>7. DOMAIN h = MarketIds /\ \A i \in MarketIds : h[i] \in Nat
    BY <1>2 DEF TabIsSound
<1> QED  BY <1>1, <1>3, <1>4, <1>5, <1>6, <1>7, UpdateKeeps

\* An order comes with its receipt, and is fair when it is filled.
LEMMA SubmitKeeps ==
    ASSUME WorkspaceInvariant, NEW t \in Tabs, Workspace!Submit(t)
    PROVE  WorkspaceInvariant'
<1>1. PICK side \in Workspace!Sides, actor \in Workspace!Actors :
         LET market == workspace[t].market
             order == Workspace!CreateGuardedOrder(placed + 1, market, side, actor)
             withOrder == Workspace!AddOrder(snapshot[t], order)
         IN  /\ Workspace!IsOpen(t)
             /\ Workspace!ValidOrder(market, side)
             /\ Workspace!CommitBoth(t, withOrder,
                    Workspace!AddReceipt(withOrder, Workspace!Receipt(order, market)))
             /\ UNCHANGED <<workspace, timer, call, heard>>
    BY DEF Workspace!Submit
<1> DEFINE m == workspace[t].market
           s == snapshot[t]
           h == heard[t]
           order == Workspace!CreateGuardedOrder(placed + 1, m, side, actor)
           receipt == Workspace!Receipt(order, m)
           first == Workspace!AddOrder(s, order)
           snap == Workspace!AddReceipt(first, receipt)
<1>2. /\ workspace[t] # Null /\ Workspace!ValidOrder(m, side)
      /\ Workspace!CommitBoth(t, first, snap)
      /\ UNCHANGED <<workspace, timer, call, heard>>
    BY <1>1 DEF Workspace!IsOpen
<1>3. /\ TabIsSound(s, workspace[t], timer[t], call[t], h)
      /\ saveFailures = 0 => Matched(s)
    BY DEF WorkspaceInvariant, TabsAreSound, ReceiptsAreKept
<1>4. IsSnapshot(s, h) /\ IsMarket(m)
    BY <1>2, <1>3 DEF TabIsSound, IsShown, IsHeld
<1> HIDE DEF m
<1>5. FillIsFair(order)
    BY <1>2, <1>4, OrderIsFair
<1>6. /\ receipt.orderId = order.id /\ receipt.quote = order.quote
      /\ receipt.verdict = order.verdict
    BY DEF Workspace!Receipt
<1> HIDE DEF s, order, receipt
<1>7. /\ IsSnapshot(first, h)
      /\ first.markets = s.markets
      /\ first.receipts = s.receipts
      /\ first.orders \subseteq s.orders \cup {order}
    BY <1>4, <1>5, OrderedIsSnapshot
<1> HIDE DEF first
<1>8. /\ IsSnapshot(snap, h)
      /\ snap.markets = first.markets
      /\ snap.orders = first.orders
      /\ snap.hydrated = TRUE
      /\ HasNew(snap.receipts, first.receipts, receipt)
    <2>1. IsSnapshot(first, h)
        BY <1>7
    <2> HIDE DEF h
    <2> QED  BY <2>1, ReceiptedIsSnapshot
<1> HIDE DEF snap
<1>9. Matched(s) => Matched(snap)
    <2> SUFFICES ASSUME Matched(s), NEW o \in snap.orders
                 PROVE  \E k \in DOMAIN snap.receipts :
                            /\ snap.receipts[k].orderId = o.id
                            /\ snap.receipts[k].quote = o.quote
                            /\ snap.receipts[k].verdict = o.verdict
        BY DEF Matched
    <2>1. CASE o = order
        BY <1>6, <1>8, <2>1 DEF HasNew
    <2>2. CASE o \in s.orders
        <3>1. PICK k \in DOMAIN s.receipts : /\ s.receipts[k].orderId = o.id
                                            /\ s.receipts[k].quote = o.quote
                                            /\ s.receipts[k].verdict = o.verdict
            BY <2>2 DEF Matched
        <3> QED  BY <1>7, <1>8, <3>1 DEF HasNew
    <2> QED  BY <1>7, <1>8, <2>1, <2>2
<1>10. TabIsSound(snap, workspace[t], timer[t], call[t], h)
    <2>1. snap.markets = s.markets
        BY <1>7, <1>8
    <2> HIDE DEF h
    <2> QED  BY <1>3, <1>8, <2>1 DEF TabIsSound
<1>11. /\ snapshot' = [snapshot EXCEPT ![t] = snap]
       /\ storage'.store \in {storage.store, first, snap}
       /\ saveFailures' \in Nat
       /\ saveFailures' = 0 =>
             saveFailures = 0 /\ (Matched(snap) => IndexesAgree(storage'))
    BY <1>2, CommitBothSaves DEF WorkspaceInvariant
<1>12. storage'.store # Null => IsSnapshot(storage'.store, Unheard)
    BY <1>7, <1>8, <1>11, SnapshotsCanBeStored DEF WorkspaceInvariant, StorageIsSound
<1>13. /\ Moves(snapshot, snapshot', t, snap)
       /\ Moves(workspace, workspace', t, workspace[t])
       /\ Moves(timer, timer', t, timer[t])
       /\ Moves(call, call', t, call[t])
       /\ Moves(heard, heard', t, h)
    <2>1. UNCHANGED <<workspace, timer, call, heard>>
        BY <1>2
    <2> QED  BY <1>11, <2>1, Moved DEF WorkspaceInvariant, TabsAreSound
<1> QED  BY <1>3, <1>9, <1>10, <1>11, <1>12, <1>13, TabChanges

\* A request captures the market that the workspace shows.
LEMMA SentKeeps ==
    ASSUME WorkspaceInvariant, NEW t \in Tabs, Workspace!IsOpen(t),
           NEW what, Workspace!Sent(t, what)
    PROVE  WorkspaceInvariant'
<1> DEFINE asked == [ n |-> panelCalls, request |-> what, mounted |-> TRUE,
                      id |-> workspace[t].id, market |-> workspace[t].market ]
           c == call[t] \cup {asked}
<1>1. /\ workspace[t] # Null
      /\ call' = [call EXCEPT ![t] = c]
      /\ UNCHANGED <<snapshot, storage, workspace, timer, saveFailures, heard>>
    BY DEF Workspace!Sent, Workspace!PageMarket, Workspace!IsOpen
<1>2. /\ TabIsSound(snapshot[t], workspace[t], timer[t], call[t], heard[t])
      /\ saveFailures = 0 => Matched(snapshot[t])
    BY DEF WorkspaceInvariant, TabsAreSound, ReceiptsAreKept
<1>3. IsShown(workspace[t], heard[t])
    BY <1>1, <1>2 DEF TabIsSound
<1>4. asked.id = workspace[t].id /\ asked.market = workspace[t].market
    OBVIOUS
<1> HIDE DEF asked
<1>5. AreHeld(c, heard[t])
    BY <1>2, <1>3, <1>4 DEF TabIsSound, AreHeld, IsShown
<1> HIDE DEF c
<1>6. snapshot[t].hydrated
    BY <1>1, <1>2 DEF TabIsSound
<1>7. TabIsSound(snapshot[t], workspace[t], timer[t], c, heard[t])
    BY <1>2, <1>3, <1>5, <1>6 DEF TabIsSound
<1>8. /\ Moves(snapshot, snapshot', t, snapshot[t])
      /\ Moves(workspace, workspace', t, workspace[t])
      /\ Moves(timer, timer', t, timer[t])
      /\ Moves(call, call', t, c)
      /\ Moves(heard, heard', t, heard[t])
    <2>1. UNCHANGED <<snapshot, workspace, timer, heard>>
        BY <1>1
    <2> QED  BY <1>1, <2>1, Moved DEF WorkspaceInvariant, TabsAreSound
<1>9. UNCHANGED <<storage, saveFailures>>
    BY <1>1
<1> QED  BY <1>2, <1>7, <1>8, <1>9, ShowKeeps

\* The answer shows and stores the captured market.
LEMMA AnswerKeeps ==
    ASSUME WorkspaceInvariant, NEW t \in Tabs, Workspace!Answer(t)
    PROVE  WorkspaceInvariant'
<1>1. PICK r \in call[t] :
         /\ Workspace!UpdateMarket(t, r.id, Workspace!Learnt(r))
         /\ call' = [call EXCEPT ![t] = Workspace!Showing(r.market, @ \ {r})]
         /\ UNCHANGED <<timer, heard>>
    BY DEF Workspace!Answer
<1> DEFINE marks == IF r.request = "init" THEN {"initialized"}
                    ELSE r.market.onChain \cup {"initialized", "settled"}
           next == Workspace!Learnt(r)
           c == Workspace!Showing(r.market, call[t] \ {r})
           h == heard[t]
<1>2. TabIsSound(snapshot[t], workspace[t], timer[t], call[t], h)
    BY DEF WorkspaceInvariant, TabsAreSound
<1>3. IsShown(workspace[t], h) /\ IsHeld(r.id, r.market, h)
    BY <1>2 DEF TabIsSound, AreHeld
<1>4. next = [r.market EXCEPT !.onChain = marks]
    BY DEF Workspace!Learnt
<1> HIDE DEF next, marks
<1>5. IsHeld(r.id, next, h)
    BY <1>3, <1>4, MarkKeepsMarket DEF IsHeld
<1>6. AreHeld(c, h)
    <2>1. AreHeld(call[t] \ {r}, h)
        BY <1>2 DEF TabIsSound, AreHeld
    <2> QED  BY <2>1, ShowingIsHeld
<1>7. Workspace!UpdateMarket(t, r.id, next) /\ call' = [call EXCEPT ![t] = c]
    BY <1>1 DEF next
<1> HIDE DEF c
<1>8. /\ Moves(timer, timer', t, timer[t]) /\ Moves(heard, heard', t, h)
      /\ Moves(call, call', t, c)
    <2>1. UNCHANGED <<timer, heard>>
        BY <1>1
    <2> QED  BY <1>7, <2>1, Moved DEF WorkspaceInvariant, TabsAreSound
<1>9. /\ DOMAIN h = MarketIds /\ \A i \in MarketIds : h[i] \in Nat
      /\ timer[t] # Null => IsHeld(timer[t].id, timer[t].market, h)
    BY <1>2 DEF TabIsSound
<1> QED  BY <1>3, <1>5, <1>6, <1>7, <1>8, <1>9, UpdateKeeps

\* An error leaves everything else.
LEMMA FailsKeeps ==
    ASSUME WorkspaceInvariant, NEW t \in Tabs, Workspace!Fails(t)
    PROVE  WorkspaceInvariant'
<1>1. PICK r \in call[t] :
         /\ call' = [call EXCEPT ![t] = @ \ {r}]
         /\ UNCHANGED <<snapshot, storage, workspace, timer, saveFailures, heard>>
    BY DEF Workspace!Fails
<1> DEFINE c == call[t] \ {r}
<1>2. /\ TabIsSound(snapshot[t], workspace[t], timer[t], call[t], heard[t])
      /\ saveFailures = 0 => Matched(snapshot[t])
    BY DEF WorkspaceInvariant, TabsAreSound, ReceiptsAreKept
<1>3. AreHeld(c, heard[t]) /\ call' = [call EXCEPT ![t] = c] /\ call[t] # {}
    BY <1>1, <1>2 DEF TabIsSound, AreHeld
<1> HIDE DEF c
<1>4. TabIsSound(snapshot[t], workspace[t], timer[t], c, heard[t])
    BY <1>2, <1>3 DEF TabIsSound
<1>5. /\ Moves(snapshot, snapshot', t, snapshot[t])
      /\ Moves(workspace, workspace', t, workspace[t])
      /\ Moves(timer, timer', t, timer[t])
      /\ Moves(call, call', t, c)
      /\ Moves(heard, heard', t, heard[t])
    <2>1. UNCHANGED <<snapshot, workspace, timer, heard>>
        BY <1>1
    <2> QED  BY <1>3, <2>1, Moved DEF WorkspaceInvariant, TabsAreSound
<1>6. UNCHANGED <<storage, saveFailures>>
    BY <1>1
<1> QED  BY <1>2, <1>4, <1>5, <1>6, ShowKeeps

\* At first every tab shows the catalogue, and nothing is stored.
LEMMA WorkspaceInitial ==
    ASSUME WorkspaceAssumption, Workspace!Init
    PROVE  WorkspaceInvariant
<1> DEFINE s == Workspace!SeedSnapshot(FALSE)
<1>1. /\ snapshot = [t \in Tabs |-> s] /\ workspace = [t \in Tabs |-> Null]
      /\ timer = [t \in Tabs |-> Null] /\ call = [t \in Tabs |-> {}]
      /\ heard = [t \in Tabs |-> Unheard]
      /\ storage.store = Null /\ saveFailures = 0
    BY DEF Workspace!Init, Workspace!Cleared, Unheard
<1>2. AreHeld({}, Unheard)
    BY DEF AreHeld
<1>3. IsSnapshot(s, Unheard) /\ Matched(s) /\ s.hydrated = FALSE
    BY SeedIsSnapshot
<1> HIDE DEF s
<1>4. DOMAIN Unheard = MarketIds /\ \A i \in MarketIds : Unheard[i] = 0
    BY DEF Unheard
<1>5. TabIsSound(s, Null, Null, {}, Unheard)
    BY <1>2, <1>3, <1>4 DEF TabIsSound
<1>6. TabsAreSound
    BY <1>1, <1>5 DEF TabsAreSound
<1>7. StorageIsSound /\ ReceiptsAreKept
    BY <1>1, <1>3 DEF StorageIsSound, ReceiptsAreKept, IndexesAgree
<1> QED  BY <1>6, <1>7 DEF WorkspaceInvariant

\* Every step keeps the invariant.
LEMMA WorkspaceSteps ==
    ASSUME WorkspaceAssumption, WorkspaceInvariant,
           [OperationsNext]_operationsVars
    PROVE  WorkspaceInvariant'
<1>1. CASE UNCHANGED workspaceVars
    <2>1. UNCHANGED <<snapshot, storage, workspace, timer, call, saveFailures, heard>>
        BY <1>1 DEF workspaceVars
    <2>2. TabsAreSound'
        BY <2>1, PrimedDefinitions DEF WorkspaceInvariant, TabsAreSound
    <2>3. StorageIsSound'
        BY <2>1, PrimedDefinitions DEF WorkspaceInvariant, StorageIsSound
    <2>4. ReceiptsAreKept'
        BY <2>1, PrimedDefinitions DEF WorkspaceInvariant, ReceiptsAreKept
    <2> QED  BY <2>2, <2>3, <2>4 DEF WorkspaceInvariant
<1>2. CASE WorkspaceStep
    <2>1. PICK t \in Tabs : Workspace!TabStep(t)
        BY <1>2 DEF WorkspaceStep, Workspace!Next
    <2>2. Workspace!Initialize(t) => Workspace!IsOpen(t) /\ Workspace!Sent(t, "init")
        BY DEF Workspace!Initialize
    <2>3. Workspace!PlaceOrder(t) => Workspace!IsOpen(t) /\ Workspace!Sent(t, "place")
        BY DEF Workspace!PlaceOrder
    <2>4. Workspace!IsOpen(t) /\ (Workspace!Sent(t, "init") \/ Workspace!Sent(t, "place"))
             => WorkspaceInvariant'
        BY SentKeeps
    <2> QED
        BY <2>1, <2>2, <2>3, <2>4, AnswerKeeps, FailsKeeps, HydrateKeeps, ReloadKeeps, ResetKeeps,
           CreateKeeps, OpenKeeps, EmitKeeps, RepriceKeeps, RepriceFiresKeeps,
           SubmitKeeps DEF Workspace!TabStep
<1> QED
    BY <1>1, <1>2
       DEF OperationsNext, CacheStep, DeployStep, LiveStep, StatusStep, IncidentStep,
           LabStep, ReplayStep, operationsVars

\* What the invariant says of fills, of receipts and of events.
LEMMA SoundTabsAreSoundMarkets ==
    ASSUME WorkspaceInvariant
    PROVE  MarketsAreSound
<1>1. ASSUME NEW o \in Workspace!KeptOrders
      PROVE  FillIsFair(o)
    <2> DEFINE stored == IF storage.store = Null THEN {} ELSE storage.store.orders
    <2>1. o \in UNION {snapshot[t].orders : t \in Tabs} \/ o \in stored
        BY DEF Workspace!KeptOrders
    <2>2. (\E t \in Tabs : o \in snapshot[t].orders)
             \/ (storage.store # Null /\ o \in storage.store.orders)
        BY <2>1
    <2> QED
        BY <2>2 DEF WorkspaceInvariant, TabsAreSound, TabIsSound, StorageIsSound,
                    IsSnapshot
<1>2. Workspace!FillsAreFair
    BY <1>1 DEF FillIsFair, Workspace!FillsAreFair
<1>3. Workspace!OrdersKeepTheirReceipts
    BY DEF WorkspaceInvariant, ReceiptsAreKept, IndexesAgree, Matched,
           Workspace!OrdersKeepTheirReceipts, Workspace!Last
<1>4. Workspace!EventsOutsideRequestsAreKept
    BY DEF WorkspaceInvariant, TabsAreSound, TabIsSound, IsSnapshot, IsHeld,
           Workspace!EventsOutsideRequestsAreKept
<1> QED  BY <1>2, <1>3, <1>4 DEF MarketsAreSound

\* A filled order never had more edge than its market's tolerance, orders and receipts
\* stay together as long as no save is refused, and an event that was accepted while no
\* request was under way stays, in any tabs of the market pages that share a storage
\* (MarketWorkspace.tsx, CustomMarketDevnetInit.tsx and store.ts).
THEOREM MarketsCorrect ==
    ASSUME WorkspaceAssumption
    PROVE  OperationsSpec => []MarketsAreSound
<1>1. OperationsInit => WorkspaceInvariant
    BY WorkspaceInitial DEF OperationsInit
<1>2. WorkspaceInvariant /\ [OperationsNext]_operationsVars => WorkspaceInvariant'
    BY WorkspaceSteps
<1>3. WorkspaceInvariant => MarketsAreSound
    BY SoundTabsAreSoundMarkets
<1> QED  BY <1>1, <1>2, <1>3, PTL DEF OperationsSpec

-----------------------------------------------------------------------------
(* The incident of the front page.                                         *)

\* A valid incident is shown at a stage; a replay that plays is not at its end, and has
\* its timer up.
IncidentInvariant ==
    /\ scenarioId \in Incident!Playable
    /\ stage \in 0 .. 6
    /\ playing \in BOOLEAN /\ (playing => stage # 6)
    /\ Incident!TimerMeansPlaying

\* What the order at the new price wins is one at least.
LEMMA WinIsPositive ==
    ASSUME NEW one \in Nat, NEW stake \in Int, stake > 0,
           NEW price \in 1 .. one - 1, stake * (one - price) >= price
    PROVE  (stake * one) \div price - stake > 0
<1>1. stake * one = stake * (one - price) + stake * price
    OBVIOUS
<1>2. (stake + 1) * price = stake * price + price
    OBVIOUS
<1>3. stake * one >= (stake + 1) * price
    <2> DEFINE a == stake * one
               b == stake * (one - price)
               c == stake * price
               d == (stake + 1) * price
    <2>1. a \in Int /\ b \in Int /\ c \in Int /\ d \in Int /\ price \in Int
        OBVIOUS
    <2> HIDE DEF a, b, c, d
    <2>2. a = b + c /\ d = c + price /\ b >= price
        BY <1>1, <1>2 DEF a, b, c, d
    <2>3. a >= d
        BY <2>1, <2>2
    <2> QED  BY <2>3 DEF a, d
<1> DEFINE n == (stake * one) \div price
<1>4. n \in Int /\ stake * one < (n + 1) * price
    <2> DEFINE a == stake * one
    <2>1. a \in Int /\ price \in Nat /\ price > 0
        OBVIOUS
    <2> HIDE DEF a
    <2>2. a \div price \in Int /\ a < (a \div price + 1) * price
        BY <2>1
    <2> QED  BY <2>2 DEF a
<1>5. n > stake
    <2> SUFFICES ASSUME n <= stake
                 PROVE  FALSE
        BY <1>4
    <2> HIDE DEF n
    <2>1. (n + 1) * price <= (stake + 1) * price
        BY <1>4
    <2>2. stake * one \in Int /\ (n + 1) * price \in Int /\ (stake + 1) * price \in Int
        BY <1>4
    <2> QED  BY <1>3, <1>4, <2>1, <2>2
<1> HIDE DEF n
<1>6. n - stake > 0
    BY <1>4, <1>5
<1> QED  BY <1>6 DEF n

\* Every stage of a valid incident shows what the rule makes of its numbers.
LEMMA StagesShowTheRule ==
    ASSUME IncidentAssumption, scenarioId \in Incident!Playable, stage \in 0 .. 6
    PROVE  Incident!ShownDecisionIsTheRule
<1> DEFINE s == Scenarios[scenarioId]
           shown == Incident!RuntimeState(s, stage)
           price == s.quote.after[s.synchronizedOrder.side]
           win == (s.synchronizedOrder.stake * MICROS_ONE) \div price
                     - s.synchronizedOrder.stake
           before == s.initial.eventSequence
           after == s.event.sequence
<1>1. Incident!ValidateRuntimeScenario(s)
    BY DEF Incident!Playable
<1>2. /\ before \in Int /\ after \in Int /\ before < after /\ s.quote.sequence = before
      /\ s.synchronizedOrder.stake \in Int /\ s.synchronizedOrder.stake > 0
      /\ s.synchronizedOrder.side \in {"YES", "NO"}
      /\ s.synchronizedOrder.stake * (MICROS_ONE - price) >= price
    BY <1>1 DEF IncidentAssumption, Incident!ValidateRuntimeScenario
<1>3. price \in 1 .. MICROS_ONE - 1 /\ MICROS_ONE \in Nat
    BY <1>1, <1>2 DEF IncidentAssumption, Incident!ValidateRuntimeScenario
<1>4. win > 0
    <2> DEFINE stake == s.synchronizedOrder.stake
    <2> HIDE DEF price, stake
    <2>1. (stake * MICROS_ONE) \div price - stake > 0
        BY <1>2, <1>3, WinIsPositive DEF stake
    <2> QED  BY <2>1 DEF stake
<1>5. Incident!ClampRuntimeStage(stage) = stage
    BY DEF Incident!ClampRuntimeStage, Incident!Last, Incident!RUNTIME_STAGE_COUNT
<1> DEFINE stale == before < after
           eventSequence == IF stage >= 1 THEN after ELSE before
           quoteSequence == IF stage >= 4 THEN after ELSE before
<1>6. /\ shown.eventSequence = eventSequence
      /\ shown.quoteSequence = quoteSequence
      /\ shown.sequenceDelta = eventSequence - quoteSequence
      /\ shown.synchronized = (~ (stage >= 1) \/ stage >= 4)
    <2> HIDE DEF before, after, win, price
    <2> QED  BY <1>2, <1>5 DEF Incident!RuntimeState, Incident!Repriced, before, after
<1>7. /\ shown.marketStatus = IF stage >= 6 THEN "SETTLED" ELSE "OPEN"
      /\ shown.order = IF stage < 2 THEN Null
                       ELSE IF stage >= 5 THEN s.synchronizedOrder ELSE s.incomingOrder
      /\ shown.orderSequence = IF stage < 2 THEN Null
                               ELSE IF stage >= 5 THEN after ELSE before
      /\ shown.accepted = IF stage >= 5 THEN s.synchronizedOrder.stake ELSE 0
      /\ shown.liability = IF stage >= 5 THEN win ELSE 0
    BY <1>2, <1>5 DEF Incident!RuntimeState
<1>8. /\ shown.decision = IF stage >= 5 THEN "ACCEPTED"
                          ELSE IF stage >= 3 THEN "STALE_SEQUENCE_RETURNED" ELSE Null
      /\ shown.returned = IF stage >= 3 /\ ~ (stage >= 5)
                          THEN s.incomingOrder.stake ELSE 0
    <2>1. /\ Incident!EvaluateIncomingOrder(s).decision = "STALE_SEQUENCE_RETURNED"
          /\ Incident!EvaluateIncomingOrder(s).returned = s.incomingOrder.stake
        BY <1>2 DEF Incident!EvaluateIncomingOrder
    <2> HIDE DEF before, after, win, price
    <2> QED  BY <1>5, <2>1 DEF Incident!RuntimeState
<1> HIDE DEF shown, win, before, after, price
<1>9. shown.synchronized <=> shown.sequenceDelta = 0
    <2>1. CASE stage >= 1 /\ ~ (stage >= 4)
        <3>1. shown.synchronized = FALSE
            BY <1>6, <2>1
        <3>2. shown.sequenceDelta = after - before
            BY <1>6, <2>1
        <3>3. shown.sequenceDelta # 0
            BY <1>2, <3>2
        <3> QED  BY <3>1, <3>3
    <2>2. CASE ~ (stage >= 1 /\ ~ (stage >= 4))
        <3>1. shown.synchronized = TRUE
            BY <1>6, <2>2
        <3>2. eventSequence = quoteSequence /\ eventSequence \in Int
            BY <1>2, <2>2
        <3>3. shown.sequenceDelta = 0
            BY <1>6, <3>2
        <3> QED  BY <3>1, <3>3
    <2> QED  BY <2>1, <2>2
<1>10. shown.decision # Null =>
          IF shown.orderSequence < shown.eventSequence
          THEN shown.returned = shown.order.stake /\ shown.accepted = 0
                  /\ shown.liability = 0
          ELSE /\ shown.decision = "ACCEPTED"
               /\ shown.orderSequence = shown.quoteSequence
               /\ shown.returned = 0 /\ shown.accepted = shown.order.stake
               /\ shown.liability > 0
    BY <1>2, <1>4, <1>6, <1>7, <1>8
<1>11. shown.marketStatus = "SETTLED" => shown.decision = "ACCEPTED"
    BY <1>7, <1>8
<1> QED  BY <1>9, <1>10, <1>11 DEF Incident!ShownDecisionIsTheRule, shown

\* A step that shows a stage of the incident.
LEMMA RendersKeeps ==
    ASSUME IncidentAssumption, IncidentInvariant, scenarioId' \in Incident!Playable,
           NEW n \in 0 .. 6, NEW plays \in BOOLEAN, Incident!Renders(n, plays)
    PROVE  IncidentInvariant'
<1> DEFINE on == plays /\ n # 6
<1>1. /\ stage' = n /\ playing' = on
      /\ incidentTimer' = IF stage = n /\ playing = on THEN incidentTimer
                          ELSE IF on /\ n < 6 THEN n ELSE Null
    BY DEF Incident!Renders, Incident!Armed, Incident!Last, Incident!RUNTIME_STAGE_COUNT
<1>2. CASE stage = n /\ playing = on
    <2>1. stage' = stage /\ playing' = playing /\ incidentTimer' = incidentTimer
        BY <1>1, <1>2
    <2> QED  BY <2>1 DEF IncidentInvariant, Incident!TimerMeansPlaying
<1>3. CASE ~ (stage = n /\ playing = on)
    <2>1. incidentTimer' = IF on /\ n < 6 THEN n ELSE Null
        BY <1>1, <1>3
    <2>2. on \in BOOLEAN /\ (on => n < 6)
        OBVIOUS
    <2> HIDE DEF on
    <2>3. incidentTimer' = IF playing' THEN stage' ELSE Null
        BY <1>1, <2>1, <2>2
    <2> QED
        BY <1>1, <2>2, <2>3 DEF IncidentInvariant, Incident!TimerMeansPlaying, on
<1> QED  BY <1>2, <1>3

\* Every step keeps it, by the timer or by clicks.
LEMMA IncidentSteps ==
    ASSUME IncidentAssumption, IncidentInvariant, [OperationsNext]_operationsVars
    PROVE  IncidentInvariant'
<1>1. CASE UNCHANGED incidentVars
    BY <1>1 DEF incidentVars, IncidentInvariant, Incident!TimerMeansPlaying
<1>2. CASE IncidentStep
    <2>1. /\ playing \in BOOLEAN
          /\ (~ playing) \in BOOLEAN
          /\ stage \in 0 .. 6
        BY DEF IncidentInvariant
    <2>5. /\ 0 \in 0 .. 6
          /\ TRUE \in BOOLEAN
          /\ FALSE \in BOOLEAN
        OBVIOUS
    <2>4. /\ Incident!NextRuntimeStage(stage) \in 0 .. 6
          /\ Incident!Last = 6
        BY <2>1 DEF IncidentInvariant, Incident!NextRuntimeStage, Incident!ClampRuntimeStage,
               Incident!Last, Incident!RUNTIME_STAGE_COUNT
    <2>2. \E n \in 0 .. 6, plays \in BOOLEAN : Incident!Renders(n, plays)
        <3>1. CASE \E id \in Incident!Playable : Incident!SelectScenario(id)
            BY <2>5, <3>1, Zenon DEF Incident!SelectScenario
        <3>2. CASE Incident!RunScenario
            BY <2>5, <3>2, Zenon DEF Incident!RunScenario
        <3>3. CASE Incident!TimerFires
            BY <2>1, <2>4, <3>3 DEF Incident!TimerFires
        <3>4. CASE Incident!TogglePlaying
            BY <2>1, <3>4 DEF Incident!TogglePlaying
        <3>5. CASE Incident!NextStep
            BY <2>4, <3>5 DEF Incident!NextStep
        <3>6. CASE Incident!Restart
            BY <2>5, <3>6, Zenon DEF Incident!Restart
        <3>7. CASE \E n \in 0 .. 6 : Incident!GoTo(n)
            BY <3>7 DEF Incident!GoTo
        <3> QED
            BY <1>2, <2>4, <3>1, <3>2, <3>3, <3>4, <3>5, <3>6, <3>7
               DEF IncidentStep, Incident!IncidentNext
    <2>3. scenarioId' \in Incident!Playable
        BY <1>2
           DEF IncidentStep, Incident!IncidentNext, Incident!SelectScenario,
               Incident!RunScenario, Incident!TimerFires, Incident!TogglePlaying,
               Incident!NextStep, Incident!Restart, Incident!GoTo, IncidentInvariant
    <2> QED  BY <2>2, <2>3, RendersKeeps
<1> QED
    BY <1>1, <1>2 DEF OperationsNext, CacheStep, DeployStep, LiveStep, StatusStep,
                      WorkspaceStep, LabStep, ReplayStep, operationsVars

\* What is shown of the incident is what the rule makes of it, whatever is clicked.
LEMMA IncidentHolds ==
    ASSUME IncidentAssumption
    PROVE  OperationsSpec =>
              [](Incident!ShownDecisionIsTheRule /\ Incident!TimerMeansPlaying)
<1>1. OperationsInit => IncidentInvariant
    <2> SUFFICES ASSUME OperationsInit
                 PROVE  IncidentInvariant
        OBVIOUS
    <2>1. /\ scenarioId \in Incident!Playable
          /\ stage = 0
          /\ playing = FALSE
          /\ incidentTimer = Null
        BY DEF OperationsInit, Incident!IncidentInit
    <2>2. stage \in 0 .. 6
        BY <2>1
    <2> QED  BY <2>1, <2>2, Zenon DEF IncidentInvariant, Incident!TimerMeansPlaying
<1>2. IncidentInvariant /\ [OperationsNext]_operationsVars => IncidentInvariant'
    BY IncidentSteps
<1>3. IncidentInvariant =>
         Incident!ShownDecisionIsTheRule /\ Incident!TimerMeansPlaying
    BY StagesShowTheRule DEF IncidentInvariant
<1> QED  BY <1>1, <1>2, <1>3, PTL DEF OperationsSpec

-----------------------------------------------------------------------------
(* The integration kit and its lab.                                        *)

\* The two recorded quotes verify against the odds they are of.
LEMMA QuotesVerify ==
    ASSUME LabAssumption
    PROVE  /\ Lab!VerifyQuoteGuard(Lab!PreQuote, PreGoalOdds, Lab!HashTxlineOdds(PreGoalOdds))
           /\ Lab!VerifyQuoteGuard(Lab!PostQuote, PostGoalOdds,
                                   Lab!HashTxlineOdds(PostGoalOdds))
<1>1. ASSUME NEW odds, odds.ts \in Int, Lab!AssertOdds(odds), NEW n, NEW m
      PROVE  LET quote == Lab!CreateQuoteGuardCommitment(odds, n, m, QuoteSpread,
                                                         QuoteLifetime)
             IN  Lab!VerifyQuoteGuard(quote, odds, Lab!HashTxlineOdds(odds))
    <2> DEFINE quote == Lab!CreateQuoteGuardCommitment(odds, n, m, QuoteSpread,
                                                       QuoteLifetime)
               c == quote.commitment
               derived == Lab!CreateQuoteGuardCommitment(odds, c.quoteSequence,
                              c.materialEventSequence, c.spread,
                              c.expiresAt - c.sourceTimestamp)
    <2>1. /\ c.quoteSequence = n
          /\ c.materialEventSequence = m
          /\ c.spread = QuoteSpread
          /\ c.expiresAt = odds.ts + QuoteLifetime
          /\ c.sourceTimestamp = odds.ts
          /\ c.fixtureId = odds.fixtureId
          /\ c.txlineOddsSequence = odds.messageId
          /\ c.oddsHash = Lab!HashTxlineOdds(odds)
          /\ c.version = 1
          /\ c.normalizationVersion = 1
        BY DEF Lab!CreateQuoteGuardCommitment
    <2>2. c.expiresAt - c.sourceTimestamp = QuoteLifetime /\ c.expiresAt > c.sourceTimestamp
        BY <1>1, <2>1 DEF LabAssumption
    <2> HIDE DEF c
    <2>3. derived = quote
        BY <2>1, <2>2
    <2> HIDE DEF derived, quote
    <2> QED
        BY <1>1, <2>1, <2>2, <2>3 DEF Lab!VerifyQuoteGuard, Lab!Recomputes, c, derived
<1> QED
    BY <1>1 DEF LabAssumption, Lab!PreQuote, Lab!PostQuote

\* What the recorded quotes say.
LEMMA RecordedQuotes ==
    ASSUME LabAssumption
    PROVE  /\ Lab!PreQuote.commitment.quoteSequence = 1
           /\ Lab!PreQuote.commitment.materialEventSequence = PreGoalSequence
           /\ Lab!PreQuote.commitment.sourceTimestamp = PreGoalOdds.ts
           /\ Lab!PreQuote.commitment.expiresAt = PreGoalOdds.ts + QuoteLifetime
           /\ Lab!PostQuote.commitment.quoteSequence = 2
           /\ Lab!PostQuote.commitment.materialEventSequence = PostGoalSequence
           /\ Lab!PostQuote.commitment.sourceTimestamp = PostGoalOdds.ts
           /\ Lab!PostQuote.commitment.expiresAt = PostGoalOdds.ts + QuoteLifetime
BY DEF Lab!PreQuote, Lab!PostQuote, Lab!CreateQuoteGuardCommitment

\* A request that gets through does what its vector promises.
LEMMA VectorKeepsItsPromise ==
    ASSUME LabAssumption, NEW id \in Lab!LabCases,
           NEW outcome \in Lab!OutcomesOf(Lab!InputForCase(id)),
           outcome.status # "TRANSPORT_ERROR"
    PROVE  outcome.status = Lab!Expected[id]
<1> DEFINE pre == Lab!PreQuote
           post == Lab!PostQuote
           order == [ marketId |-> "v4", side |-> "YES", stake |-> LabStake,
                      quote |-> post, latest |-> PostGoalSequence,
                      submittedAt |-> post.commitment.sourceTimestamp + 1 ]
           input == Lab!InputForCase(id)
<1>1. /\ pre.commitment.quoteSequence = 1
      /\ pre.commitment.materialEventSequence = PreGoalSequence
      /\ pre.commitment.sourceTimestamp = PreGoalOdds.ts
      /\ pre.commitment.expiresAt = PreGoalOdds.ts + QuoteLifetime
      /\ post.commitment.quoteSequence = 2
      /\ post.commitment.materialEventSequence = PostGoalSequence
      /\ post.commitment.sourceTimestamp = PostGoalOdds.ts
      /\ post.commitment.expiresAt = PostGoalOdds.ts + QuoteLifetime
    BY RecordedQuotes
<1>2. /\ Lab!VerifyQuoteGuard(pre, PreGoalOdds, Lab!HashTxlineOdds(PreGoalOdds))
      /\ Lab!VerifyQuoteGuard(post, PostGoalOdds, Lab!HashTxlineOdds(PostGoalOdds))
    BY QuotesVerify
<1>3. /\ PreGoalOdds # Null /\ PreGoalOdds.ts \in Int
      /\ PostGoalOdds # Null /\ PostGoalOdds.ts \in Int
      /\ QuoteLifetime \in Nat \ {0} /\ LabStake \in Nat \ {0}
      /\ PreGoalSequence \in Nat /\ PostGoalSequence \in Nat
      /\ PreGoalSequence < PostGoalSequence
      /\ post.commitment.YES \in 1 .. MICROS_ONE - 1
    BY DEF LabAssumption
<1> HIDE DEF pre, post
<1>4. CASE id = "malformed"
    <2>1. input.marketId = ""
        BY <1>4 DEF Lab!InputForCase
    <2>2. Lab!RefusedByClient(input)
        BY <2>1 DEF Lab!RefusedByClient
    <2> HIDE DEF input
    <2>3. outcome = Lab!Rejected("INVALID_INPUT")
        BY <2>2 DEF Lab!OutcomesOf, input
    <2>4. outcome.status = "INVALID_INPUT"
        BY <2>3 DEF Lab!Rejected, Lab!Outcome
    <2> QED  BY <1>4, <2>4 DEF Lab!Expected
<1>5. CASE id # "malformed"
    <2> DEFINE decided == Lab!EvaluateReferenceProtectedOrder(input)
    <2>1. /\ input.marketId = "v4"
          /\ input.side = "YES"
          /\ input.stake = LabStake
        BY <1>5 DEF Lab!InputForCase, Lab!LabCases
    <2>2. ~ Lab!RefusedByClient(input)
        BY <1>3, <2>1 DEF Lab!RefusedByClient
    <2>3. outcome = decided
        BY <2>2 DEF Lab!OutcomesOf, Lab!Rejected, Lab!Outcome
    <2>4. CASE id = "stale"
        <3>1. /\ input.quote = pre
              /\ input.latest = PostGoalSequence
              /\ input.submittedAt = PreGoalOdds.ts + QuoteLifetime - 1
            BY <1>1, <2>4 DEF Lab!InputForCase, pre
        <3>2. Lab!Canonical(input) = PreGoalOdds
            BY <1>1, <3>1 DEF Lab!Canonical
        <3>3. ~ Lab!Expired(input)
            BY <1>1, <1>3, <3>1 DEF Lab!Expired
        <3>4. decided.status = "STALE_SEQUENCE_RETURNED"
            BY <1>1, <1>2, <1>3, <2>1, <3>1, <3>2, <3>3
               DEF Lab!EvaluateReferenceProtectedOrder, Lab!Outcome
        <3> QED  BY <2>3, <2>4, <3>4 DEF Lab!Expected
    <2>5. CASE id # "stale"
        <3>1. /\ input.quote = post
              /\ input.latest = IF id = "future" THEN PreGoalSequence ELSE PostGoalSequence
              /\ input.submittedAt = IF id = "expired"
                                     THEN PostGoalOdds.ts + QuoteLifetime + 1
                                     ELSE PostGoalOdds.ts + 1
            BY <1>1, <1>5, <2>5 DEF Lab!InputForCase, Lab!LabCases, post
        <3>2. Lab!Canonical(input) = PostGoalOdds
            BY <1>1, <3>1 DEF Lab!Canonical
        <3>3. Lab!Expired(input) <=> id = "expired"
            BY <1>1, <1>3, <3>1 DEF Lab!Expired
        <3>4. CASE id = "expired"
            <4>1. decided.status = "QUOTE_EXPIRED"
                BY <1>2, <1>3, <2>1, <3>1, <3>2, <3>3, <3>4
                   DEF Lab!EvaluateReferenceProtectedOrder, Lab!Outcome, Lab!Rejected
            <4> QED  BY <2>3, <3>4, <4>1 DEF Lab!Expected
        <3>5. CASE id = "future"
            <4>1. decided.status = "FUTURE_SEQUENCE"
                BY <1>1, <1>2, <1>3, <2>1, <3>1, <3>2, <3>3, <3>5
                   DEF Lab!EvaluateReferenceProtectedOrder, Lab!Outcome, Lab!Rejected
            <4> QED  BY <2>3, <3>5, <4>1 DEF Lab!Expected
        <3>6. CASE id = "synchronized"
            <4>1. decided.status = "ACCEPTED"
                BY <1>1, <1>2, <1>3, <2>1, <3>1, <3>2, <3>3, <3>6
                   DEF Lab!EvaluateReferenceProtectedOrder, Lab!Outcome, Lab!Rejected
            <4> QED  BY <2>3, <3>6, <4>1 DEF Lab!Expected
        <3> QED  BY <1>5, <2>5, <3>4, <3>5, <3>6 DEF Lab!LabCases
    <2> QED  BY <2>4, <2>5
<1> QED  BY <1>4, <1>5

\* What holds of the lab: a run is of a vector, with that vector's input, and as long as
\* nothing is selected meanwhile, of the vector that is selected.
LabRunInvariant ==
    labRun # Null =>
        /\ labRun.vector \in Lab!LabCases
        /\ labRun.reselected \in BOOLEAN
        /\ labRun.input = Lab!InputForCase(labRun.vector)
        /\ labRun = [vector |-> labRun.vector, input |-> labRun.input,
                     reselected |-> labRun.reselected]
        /\ ~ labRun.reselected => labRun.vector = lab.selected

LabInvariant ==
    /\ lab.selected \in Lab!LabCases
    /\ lab = [selected |-> lab.selected, outcome |-> lab.outcome]
    /\ LabRunInvariant
    /\ Lab!LabShowsItsRun
    /\ Lab!KitDecidesAsTheVault

LEMMA SelectCaseKeeps ==
    ASSUME LabAssumption, LabInvariant, NEW id \in Lab!LabCases, Lab!SelectCase(id)
    PROVE  LabInvariant'
<1>1. /\ lab' = [selected |-> id, outcome |-> Null]
      /\ lab'.selected = id
      /\ lab'.outcome = Null
    BY DEF Lab!SelectCase
<1>2. Lab!LabShowsItsRun'
    BY <1>1 DEF Lab!LabShowsItsRun
<1>3. Lab!KitDecidesAsTheVault'
    BY DEF Lab!SelectCase, LabInvariant, Lab!KitDecidesAsTheVault
<1>4. LabRunInvariant'
    <2>1. CASE labRun = Null
        BY <2>1 DEF Lab!SelectCase, LabRunInvariant
    <2>2. CASE labRun # Null
        <3> DEFINE yes == TRUE
        <3>1. yes \in BOOLEAN /\ (yes <=> TRUE)
            OBVIOUS
        <3> HIDE DEF yes
        <3>2. labRun = [vector |-> labRun.vector, input |-> labRun.input,
                        reselected |-> labRun.reselected]
            BY <2>2 DEF LabInvariant, LabRunInvariant
        <3>3. labRun' = [labRun EXCEPT !.reselected = yes]
            BY <2>2 DEF Lab!SelectCase, yes
        <3>4. labRun' = [vector |-> labRun.vector, input |-> labRun.input,
                         reselected |-> yes]
            BY <3>2, <3>3
        <3>5. /\ labRun'.vector = labRun.vector
              /\ labRun'.input = labRun.input
              /\ labRun'.reselected = yes
            BY <3>4
        <3>6. /\ labRun.vector \in Lab!LabCases
              /\ labRun.input = Lab!InputForCase(labRun.vector)
            BY <2>2 DEF LabInvariant, LabRunInvariant
        <3>7. labRun'.input = Lab!InputForCase(labRun'.vector)
            BY <3>5, <3>6
        <3>8. Lab!InputForCase(labRun.vector)' = Lab!InputForCase(labRun'.vector)
            BY DEF Lab!InputForCase
        <3>9. labRun' = [vector |-> labRun'.vector, input |-> labRun'.input,
                         reselected |-> labRun'.reselected]
            BY <3>4, <3>5
        <3> QED
            BY <3>1, <3>5, <3>6, <3>7, <3>8, <3>9 DEF LabRunInvariant
    <2> QED  BY <2>1, <2>2
<1> QED  BY <1>1, <1>2, <1>3, <1>4 DEF LabInvariant

LEMMA RunVectorKeeps ==
    ASSUME LabAssumption, LabInvariant, Lab!RunVector
    PROVE  LabInvariant'
<1> DEFINE no == FALSE
<1>1. no \in BOOLEAN /\ ~ no
    OBVIOUS
<1> HIDE DEF no
<1>2. labRun' = [vector |-> lab.selected, input |-> Lab!InputForCase(lab.selected),
                 reselected |-> no]
    BY DEF Lab!RunVector, no
<1>3. /\ labRun'.vector = lab.selected
      /\ labRun'.input = Lab!InputForCase(lab.selected)
      /\ labRun'.reselected = no
    BY <1>2
<1>4. /\ lab' = lab
      /\ shownRun' = shownRun
      /\ operatorOrder' = operatorOrder
    BY DEF Lab!RunVector
<1>5. LabRunInvariant'
    <2>1. labRun'.input = Lab!InputForCase(labRun'.vector)
        BY <1>3
    <2>2. Lab!InputForCase(labRun.vector)' = Lab!InputForCase(labRun'.vector)
        BY DEF Lab!InputForCase
    <2>3. labRun' = [vector |-> labRun'.vector, input |-> labRun'.input,
                     reselected |-> labRun'.reselected]
        BY <1>2, <1>3
    <2>4. labRun'.vector \in Lab!LabCases /\ labRun'.vector = lab'.selected
        BY <1>3, <1>4 DEF LabInvariant
    <2> QED  BY <1>1, <1>3, <2>1, <2>2, <2>3, <2>4 DEF LabRunInvariant
<1>6. Lab!LabShowsItsRun'
    BY <1>4 DEF LabInvariant, Lab!LabShowsItsRun, Lab!MatchesExpected
<1>7. Lab!KitDecidesAsTheVault'
    BY <1>4 DEF LabInvariant, Lab!KitDecidesAsTheVault
<1>8. lab'.selected \in Lab!LabCases /\ lab' = [selected |-> lab'.selected,
                                               outcome |-> lab'.outcome]
    BY <1>4 DEF LabInvariant
<1> QED
    BY <1>5, <1>6, <1>7, <1>8 DEF LabInvariant

LEMMA CompleteRunKeeps ==
    ASSUME LabAssumption, LabInvariant, Lab!CompleteRun
    PROVE  LabInvariant'
<1>1. /\ labRun # Null
      /\ labRun' = Null
      /\ shownRun' = [vector |-> labRun.vector, reselected |-> labRun.reselected]
      /\ operatorOrder' = operatorOrder
    BY DEF Lab!CompleteRun
<1>2. /\ labRun.vector \in Lab!LabCases
      /\ labRun.reselected \in BOOLEAN
      /\ labRun.input = Lab!InputForCase(labRun.vector)
      /\ ~ labRun.reselected => labRun.vector = lab.selected
    BY <1>1 DEF LabInvariant, LabRunInvariant
<1>3. PICK outcome \in Lab!OutcomesOf(labRun.input) :
                lab' = [lab EXCEPT !.outcome = outcome]
    BY DEF Lab!CompleteRun
<1>4. /\ lab' = [selected |-> lab.selected, outcome |-> outcome]
      /\ lab'.selected = lab.selected
      /\ lab'.outcome = outcome
    BY <1>3 DEF LabInvariant
<1>5. /\ shownRun' # Null
      /\ shownRun'.vector = labRun.vector
      /\ shownRun'.reselected = labRun.reselected
    <2> DEFINE id == labRun.vector
               again == labRun.reselected
    <2> HIDE DEF id, again
    <2>1. id \in Lab!LabCases /\ again \in BOOLEAN
        BY <1>2 DEF id, again
    <2>2. [vector |-> id, reselected |-> again]
                \in [vector : Lab!LabCases, reselected : BOOLEAN]
        BY <2>1
    <2>3. shownRun' = [vector |-> id, reselected |-> again]
        BY <1>1 DEF id, again
    <2>4. Null \notin [vector : Lab!LabCases, reselected : BOOLEAN]
        BY DEF LabAssumption
    <2>5. shownRun' # Null
        BY <2>2, <2>3, <2>4
    <2>6. shownRun'.vector = id /\ shownRun'.reselected = again
        BY <2>3
    <2> QED  BY <2>5, <2>6 DEF id, again
<1>6. outcome \in Lab!OutcomesOf(Lab!InputForCase(labRun.vector))
    BY <1>2, <1>3
<1>7. outcome.status # "TRANSPORT_ERROR" => outcome.status = Lab!Expected[labRun.vector]
    BY <1>2, <1>6, VectorKeepsItsPromise
<1>8. Lab!LabShowsItsRun'
    <2>1. lab'.outcome \in Lab!OutcomesOf(Lab!InputForCase(shownRun'.vector))
        BY <1>4, <1>5, <1>6
    <2>2. Lab!OutcomesOf(Lab!InputForCase(shownRun.vector))'
                = Lab!OutcomesOf(Lab!InputForCase(shownRun'.vector))
        BY DEF Lab!OutcomesOf
    <2>3. ~ shownRun'.reselected =>
                /\ shownRun'.vector = lab'.selected
                /\ lab'.outcome.status # "TRANSPORT_ERROR" => Lab!MatchesExpected'
        BY <1>2, <1>4, <1>5, <1>7 DEF Lab!MatchesExpected, Lab!Expected
    <2> QED  BY <1>5, <2>1, <2>2, <2>3 DEF Lab!LabShowsItsRun
<1>9. Lab!KitDecidesAsTheVault'
    BY <1>1 DEF LabInvariant, Lab!KitDecidesAsTheVault
<1>10. LabRunInvariant'
    BY <1>1 DEF LabRunInvariant
<1>11. lab'.selected \in Lab!LabCases
    BY <1>4 DEF LabInvariant
<1> QED  BY <1>4, <1>8, <1>9, <1>10, <1>11 DEF LabInvariant

\* An order that is accepted is so at the prices of the vault program.
LEMMA ReferenceDecidesAsTheVault ==
    ASSUME LabAssumption,
           NEW input \in OperatorInputs(Lab!PreQuote, Lab!PostQuote),
           NEW outcome \in Lab!OutcomesOf(input), outcome.status = "ACCEPTED"
    PROVE  LET c == input.quote.commitment
               odds == Lab!Canonical(input).prices
               price == IF input.side = "YES" THEN Lab!Money!YesPrice(odds, c.spread)
                        ELSE Lab!Money!NoPrice(odds, c.spread)
           IN  /\ c.materialEventSequence = input.latest
               /\ c[input.side] = price
               /\ outcome.returned = 0
               /\ outcome.liability
                     = Lab!Money!GrossPayout(input.stake, price) - input.stake
<1> DEFINE c == input.quote.commitment
           odds == Lab!Canonical(input)
           vaultPrice == IF input.side = "YES"
                         THEN Lab!Money!YesPrice(odds.prices, c.spread)
                         ELSE Lab!Money!NoPrice(odds.prices, c.spread)
           win == (input.stake * MICROS_ONE) \div c[input.side] - input.stake
<1>1. /\ input.side \in {"YES", "NO"}
      /\ outcome = Lab!EvaluateReferenceProtectedOrder(input)
    <2>1. /\ Lab!Rejected("INVALID_INPUT").status = "INVALID_INPUT"
          /\ Lab!Rejected("TRANSPORT_ERROR").status = "TRANSPORT_ERROR"
        BY DEF Lab!Rejected, Lab!Outcome
    <2>2. ~ Lab!RefusedByClient(input)
        BY <2>1 DEF Lab!OutcomesOf
    <2>3. outcome = Lab!EvaluateReferenceProtectedOrder(input)
        BY <2>1, <2>2 DEF Lab!OutcomesOf
    <2> QED  BY <2>2, <2>3 DEF Lab!RefusedByClient
<1>2. /\ Lab!VerifyQuoteGuard(input.quote, odds, Lab!HashTxlineOdds(odds))
      /\ ~ (c.materialEventSequence > input.latest)
      /\ ~ (c.materialEventSequence < input.latest)
      /\ outcome = Lab!Outcome("ACCEPTED", 0, win)
    BY <1>1 DEF Lab!EvaluateReferenceProtectedOrder, Lab!Rejected, Lab!Outcome
<1>3. c.materialEventSequence = input.latest
    BY <1>2 DEF LabAssumption
<1>4. c.YES = Lab!Money!YesPrice(odds.prices, c.spread)
        /\ c.NO = Lab!Money!NoPrice(odds.prices, c.spread)
    <2> DEFINE derived == Lab!CreateQuoteGuardCommitment(odds, c.quoteSequence,
                              c.materialEventSequence, c.spread,
                              c.expiresAt - c.sourceTimestamp).commitment
               prices == Lab!DeriveQuoteGuardPrices(odds.prices, c.spread)
    <2> HIDE DEF odds, c
    <2>1. c.YES = derived.YES /\ c.NO = derived.NO
        BY <1>2 DEF Lab!VerifyQuoteGuard, Lab!Recomputes, c
    <2>2. derived.YES = prices.YES /\ derived.NO = prices.NO
        BY DEF Lab!CreateQuoteGuardCommitment
    <2>3. prices.YES = Lab!Money!YesPrice(odds.prices, c.spread)
            /\ prices.NO = Lab!Money!NoPrice(odds.prices, c.spread)
        BY DEF Lab!DeriveQuoteGuardPrices, Lab!Money!YesPrice, Lab!Money!NoPrice,
               Lab!Money!YesProbability
    <2> HIDE DEF derived, prices
    <2> QED  BY <2>1, <2>2, <2>3
<1> HIDE DEF c, odds
<1>5. c[input.side] = vaultPrice
    BY <1>1, <1>4
<1> HIDE DEF vaultPrice
<1>6. outcome.returned = 0
    BY <1>2 DEF Lab!Outcome
<1>7. outcome.liability = Lab!Money!GrossPayout(input.stake, vaultPrice) - input.stake
    BY <1>2, <1>5 DEF Lab!Outcome, Lab!Money!GrossPayout
<1> QED
    BY <1>3, <1>5, <1>6, <1>7 DEF c, odds, vaultPrice

\* An order whose sequence is behind gets back all it put in.
LEMMA StaleOrderIsReturned ==
    ASSUME NEW input, NEW outcome \in Lab!OutcomesOf(input),
           outcome.status = "STALE_SEQUENCE_RETURNED"
    PROVE  /\ input.quote.commitment.materialEventSequence < input.latest
           /\ outcome.returned = input.stake
           /\ outcome.liability = 0
<1>1. outcome = Lab!EvaluateReferenceProtectedOrder(input)
    BY DEF Lab!OutcomesOf, Lab!Rejected, Lab!Outcome
<1>2. /\ input.quote.commitment.materialEventSequence < input.latest
      /\ outcome = Lab!Outcome("STALE_SEQUENCE_RETURNED", input.stake, 0)
    BY <1>1 DEF Lab!EvaluateReferenceProtectedOrder, Lab!Rejected, Lab!Outcome
<1> QED  BY <1>2 DEF Lab!Outcome

LEMMA OperatorSubmitsKeeps ==
    ASSUME LabAssumption, LabInvariant, Lab!OperatorSubmits
    PROVE  LabInvariant'
<1>1. lab' = lab /\ labRun' = labRun /\ shownRun' = shownRun
    BY DEF Lab!OperatorSubmits
<1>2. PICK input \in OperatorInputs(Lab!PreQuote, Lab!PostQuote) :
            \E outcome \in Lab!OutcomesOf(input) :
                operatorOrder' = [input |-> input, outcome |-> outcome]
    BY DEF Lab!OperatorSubmits
<1>3. PICK outcome \in Lab!OutcomesOf(input) :
            operatorOrder' = [input |-> input, outcome |-> outcome]
    BY <1>2
<1>4. operatorOrder'.input = input /\ operatorOrder'.outcome = outcome
    BY <1>3
<1>5. Lab!KitDecidesAsTheVault'
    <2> DEFINE c == input.quote.commitment
               odds == Lab!Canonical(input).prices
               price == IF input.side = "YES" THEN Lab!Money!YesPrice(odds, c.spread)
                        ELSE Lab!Money!NoPrice(odds, c.spread)
               accepted == /\ c.materialEventSequence = input.latest
                           /\ c[input.side] = price
                           /\ outcome.returned = 0
                           /\ outcome.liability
                                 = Lab!Money!GrossPayout(input.stake, price) - input.stake
               returned == /\ c.materialEventSequence < input.latest
                           /\ outcome.returned = input.stake
                           /\ outcome.liability = 0
    <2>1. outcome.status = "ACCEPTED" => accepted
        BY ReferenceDecidesAsTheVault
    <2>2. outcome.status = "STALE_SEQUENCE_RETURNED" => returned
        BY StaleOrderIsReturned
    <2> QED
        BY <1>4, <2>1, <2>2
           DEF Lab!KitDecidesAsTheVault, Lab!Canonical, Lab!Money!YesPrice,
               Lab!Money!NoPrice, Lab!Money!YesProbability, Lab!Money!GrossPayout
<1>6. Lab!LabShowsItsRun'
    BY <1>1 DEF LabInvariant, Lab!LabShowsItsRun, Lab!MatchesExpected
<1>7. LabRunInvariant'
    BY <1>1 DEF LabInvariant, LabRunInvariant
<1> QED
    BY <1>1, <1>5, <1>6, <1>7 DEF LabInvariant

LEMMA LabSteps ==
    ASSUME LabAssumption, LabInvariant, [OperationsNext]_operationsVars
    PROVE  LabInvariant'
<1>1. CASE UNCHANGED labVars
    <2>1. /\ lab' = lab
          /\ labRun' = labRun
          /\ shownRun' = shownRun
          /\ operatorOrder' = operatorOrder
        BY <1>1 DEF labVars
    <2>2. Lab!LabShowsItsRun'
        BY <2>1 DEF LabInvariant, Lab!LabShowsItsRun, Lab!MatchesExpected
    <2>3. Lab!KitDecidesAsTheVault'
        BY <2>1 DEF LabInvariant, Lab!KitDecidesAsTheVault
    <2>4. LabRunInvariant'
        BY <2>1 DEF LabInvariant, LabRunInvariant
    <2> QED  BY <2>1, <2>2, <2>3, <2>4 DEF LabInvariant
<1>2. CASE LabStep
    BY <1>2, SelectCaseKeeps, RunVectorKeeps, CompleteRunKeeps, OperatorSubmitsKeeps
       DEF LabStep, Lab!LabNext
<1> QED
    BY <1>1, <1>2 DEF OperationsNext, CacheStep, DeployStep, LiveStep, StatusStep,
                      WorkspaceStep, IncidentStep, ReplayStep, operationsVars

\* The lab shows the outcome of its run, and orders are decided as the vault would.
LEMMA LabHolds ==
    ASSUME LabAssumption
    PROVE  OperationsSpec => [](Lab!LabShowsItsRun /\ Lab!KitDecidesAsTheVault)
<1>1. OperationsInit => LabInvariant
    <2> SUFFICES ASSUME OperationsInit
                 PROVE  LabInvariant
        OBVIOUS
    <2>1. /\ lab = [selected |-> "stale", outcome |-> Null]
          /\ lab.selected = "stale"
          /\ lab.outcome = Null
          /\ labRun = Null
          /\ operatorOrder = Null
        BY DEF OperationsInit, Lab!LabInit
    <2> QED
        BY <2>1 DEF LabInvariant, LabRunInvariant, Lab!LabCases, Lab!LabShowsItsRun,
                    Lab!KitDecidesAsTheVault
<1>2. LabInvariant /\ [OperationsNext]_operationsVars => LabInvariant'
    BY LabSteps
<1>3. LabInvariant => Lab!LabShowsItsRun /\ Lab!KitDecidesAsTheVault
    BY DEF LabInvariant
<1> QED  BY <1>1, <1>2, <1>3, PTL DEF OperationsSpec

-----------------------------------------------------------------------------
(* The replay of the recorded match.                                       *)

\* The replay that plays is not at its end, and has its timer up.
ReplayInvariant ==
    /\ replayStage \in 1 .. 9
    /\ replaying \in BOOLEAN
    /\ replaying => replayStage # 9
    /\ Replay!ReplayTimerMeansPlaying

LEMMA LastReplayStage == Replay!LastStage = 9
BY DEF Replay!LastStage, Replay!Modes, Replay!Len, Len

\* A step that shows a stage.
LEMMA ReplayShowsKeeps ==
    ASSUME ReplayInvariant, NEW n \in 1 .. 9, NEW plays \in BOOLEAN, NEW s,
           Replay!Shows(n, plays, s)
    PROVE  ReplayInvariant'
<1> DEFINE on == plays /\ n # 9
<1>1. /\ replayStage' = n
      /\ replaying' = on
      /\ speed' = s
      /\ replayTimer' = IF n = replayStage /\ on = replaying /\ s = speed THEN replayTimer
                        ELSE IF on THEN <<n, s>> ELSE Null
    BY LastReplayStage DEF Replay!Shows
<1>2. on \in BOOLEAN /\ (on => n # 9)
    OBVIOUS
<1> HIDE DEF on
<1>3. CASE n = replayStage /\ on = replaying /\ s = speed
    <2>1. /\ replayStage' = replayStage
          /\ replaying' = replaying
          /\ speed' = speed
          /\ replayTimer' = replayTimer
        BY <1>1, <1>3
    <2> QED  BY <2>1 DEF ReplayInvariant, Replay!ReplayTimerMeansPlaying
<1>4. CASE ~ (n = replayStage /\ on = replaying /\ s = speed)
    <2>1. replayTimer' = IF replaying' THEN <<replayStage', speed'>> ELSE Null
        BY <1>1, <1>4
    <2> QED
        BY <1>1, <1>2, <2>1 DEF ReplayInvariant, Replay!ReplayTimerMeansPlaying
<1> QED  BY <1>3, <1>4

\* Every step keeps it, by the timer or by clicks.
LEMMA ReplaySteps ==
    ASSUME ReplayInvariant, [OperationsNext]_operationsVars
    PROVE  ReplayInvariant'
<1>1. CASE UNCHANGED replayVars
    BY <1>1 DEF replayVars, ReplayInvariant, Replay!ReplayTimerMeansPlaying
<1>2. CASE ReplayStep
    <2>1. /\ replaying \in BOOLEAN
          /\ (~ replaying) \in BOOLEAN
          /\ replayStage \in 1 .. 9
        BY DEF ReplayInvariant
    <2>2. FALSE \in BOOLEAN /\ 1 \in 1 .. 9 /\ 4 \in 1 .. 9 /\ 6 \in 1 .. 9
        OBVIOUS
    <2>3. CASE Replay!ReplayTimerFires
        <3>1. replaying /\ replayStage # 9
            BY <2>3 DEF Replay!ReplayTimerFires, ReplayInvariant,
                        Replay!ReplayTimerMeansPlaying
        <3>2. replayStage + 1 \in 1 .. 9
            BY <2>1, <3>1
        <3> QED  BY <2>1, <2>3, <3>2, ReplayShowsKeeps DEF Replay!ReplayTimerFires
    <2>4. CASE Replay!ToggleReplay
        BY <2>1, <2>4, ReplayShowsKeeps DEF Replay!ToggleReplay
    <2>5. CASE Replay!NextEvent
        <3>1. replayStage + 1 \in 1 .. 9
            BY <2>1, <2>5, LastReplayStage DEF Replay!NextEvent
        <3> QED  BY <2>1, <2>5, <3>1, ReplayShowsKeeps DEF Replay!NextEvent
    <2>6. CASE Replay!PreviousEvent
        <3>1. replayStage - 1 \in 1 .. 9
            BY <2>1, <2>6 DEF Replay!PreviousEvent
        <3> QED  BY <2>2, <2>6, <3>1, ReplayShowsKeeps DEF Replay!PreviousEvent
    <2>7. CASE Replay!RestartReplay
        BY <2>2, <2>7, ReplayShowsKeeps DEF Replay!RestartReplay
    <2>8. CASE Replay!SubmitStaleOrder \/ Replay!RetrySynchronized
        BY <2>2, <2>8, ReplayShowsKeeps DEF Replay!SubmitStaleOrder, Replay!RetrySynchronized
    <2>9. CASE Replay!GoToChapter
        <3>1. Replay!ChapterStarts \subseteq 1 .. 9
            BY DEF Replay!ChapterStarts
        <3> QED  BY <2>2, <2>9, <3>1, ReplayShowsKeeps DEF Replay!GoToChapter
    <2>10. CASE Replay!SetSpeed
        BY <2>1, <2>10, ReplayShowsKeeps DEF Replay!SetSpeed
    <2> QED
        BY <1>2, <2>3, <2>4, <2>5, <2>6, <2>7, <2>8, <2>9, <2>10
           DEF ReplayStep, Replay!ReplayNext
<1> QED
    BY <1>1, <1>2 DEF OperationsNext, CacheStep, DeployStep, LiveStep, StatusStep,
                      WorkspaceStep, IncidentStep, LabStep, operationsVars

\* What a bet at a price pays is at least its stake, and a stale one pays more than the
\* rounding hides.
LEMMA PayoutCoversStake ==
    ASSUME NEW one \in Nat, NEW stake \in Nat, NEW price \in 1 .. one - 1
    PROVE  (stake * one) \div price \in Int /\ (stake * one) \div price >= stake
<1> DEFINE a == stake * one
           n == a \div price
<1>1. a \in Nat /\ stake * price <= a
    OBVIOUS
<1> HIDE DEF a
<1>2. n \in Int /\ a < (n + 1) * price
    BY <1>1
<1>3. n >= stake
    <2> SUFFICES ASSUME n + 1 <= stake
                 PROVE  FALSE
        BY <1>2
    <2> HIDE DEF n
    <2>1. (n + 1) * price <= stake * price
        BY <1>2
    <2>2. (n + 1) * price \in Int /\ stake * price \in Int
        BY <1>2
    <2> QED  BY <1>1, <1>2, <2>1, <2>2
<1> QED  BY <1>2, <1>3 DEF a

LEMMA CheaperPaysMore ==
    ASSUME NEW a \in Nat, NEW p \in Nat \ {0}, NEW q \in Nat \ {0}, a * (q - p) >= p * q
    PROVE  a \div p - a \div q > 0
<1> DEFINE m == a \div p
           n == a \div q
<1>1. /\ m \in Int /\ n \in Int
      /\ a < (m + 1) * p
      /\ n * q <= a
    OBVIOUS
<1> HIDE DEF m, n
<1>2. m > n
    <2> SUFFICES ASSUME m + 1 <= n + 1
                 PROVE  FALSE
        BY <1>1
    <2> DEFINE x == (n + 1) * p
               y == n * q
    <2>1. x \in Int /\ y \in Int
        BY <1>1
    <2>2. a < x
        <3>1. (m + 1) * p <= (n + 1) * p
            BY <1>1
        <3>2. (m + 1) * p \in Int /\ (n + 1) * p \in Int
            BY <1>1
        <3> QED  BY <1>1, <3>1, <3>2
    <2>3. x * q = y * p + p * q
        BY <1>1
    <2>4. y <= a
        BY <1>1
    <2> HIDE DEF x, y
    <2>5. a * q < x * q
        BY <2>1, <2>2
    <2>6. y * p <= a * p
        BY <2>1, <2>4
    <2>7. a * (q - p) = a * q - a * p
        OBVIOUS
    <2> DEFINE aq == a * q
               ap == a * p
               xq == x * q
               yp == y * p
               pq == p * q
    <2>8. aq \in Int /\ ap \in Int /\ xq \in Int /\ yp \in Int /\ pq \in Int
        BY <2>1
    <2>9. aq < xq /\ xq = yp + pq /\ yp <= ap /\ aq - ap >= pq
        BY <2>3, <2>5, <2>6, <2>7
    <2> HIDE DEF aq, ap, xq, yp, pq
    <2> QED  BY <2>8, <2>9
<1>3. m - n > 0
    BY <1>1, <1>2
<1> QED  BY <1>3 DEF m, n

\* What the three bets that are accepted may win, and that it is covered.
LEMMA BetsAreCovered ==
    ASSUME ReplayAssumption
    PROVE  /\ \A id \in {"pre-yes", "pre-no", "post-yes"} :
                 /\ Replay!Liability(id) \in Nat
                 /\ Replay!Gross(id) = Replay!Liability(id) + ReplayStake
           /\ Replay!Liability("pre-yes") + Replay!Liability("pre-no")
                 + Replay!Liability("post-yes") <= ReplayDeposit
           /\ Replay!ExcessStaleLiability > 0
<1>1. ASSUME NEW id \in {"pre-yes", "pre-no", "post-yes"}
      PROVE  /\ Replay!Liability(id) \in Nat
             /\ Replay!Gross(id) = Replay!Liability(id) + ReplayStake
    <2> DEFINE price == Replay!PriceOf(id)
               pays == (ReplayStake * MICROS_ONE) \div price
    <2>1. /\ MICROS_ONE \in Nat
          /\ ReplayStake \in Nat
          /\ price \in 1 .. MICROS_ONE - 1
        BY DEF ReplayAssumption, Replay!Ids
    <2>2. Replay!Gross(id) = pays /\ Replay!Liability(id) = pays - ReplayStake
        BY DEF Replay!Gross, Replay!Liability, Replay!Refunded, Replay!GrossPayout
    <2> HIDE DEF price
    <2>3. pays \in Int /\ pays >= ReplayStake
        BY <2>1, PayoutCoversStake
    <2> HIDE DEF pays
    <2> QED  BY <2>1, <2>2, <2>3
<1>2. Replay!ExcessStaleLiability > 0
    <2> DEFINE p == Replay!PriceOf("stale-bot")
               q == Replay!PriceOf("post-yes")
               a == ReplayStake * MICROS_ONE
    <2>1. p \in Nat \ {0} /\ q \in Nat \ {0} /\ a \in Nat /\ a * (q - p) >= p * q
        <3>1. /\ p \in 1 .. MICROS_ONE - 1
              /\ q \in 1 .. MICROS_ONE - 1
              /\ MICROS_ONE \in Nat
              /\ ReplayStake \in Nat
              /\ ReplayStake * MICROS_ONE * (q - p) >= p * q
            BY DEF ReplayAssumption, Replay!Ids
        <3> HIDE DEF p, q
        <3> QED  BY <3>1
    <2>2. Replay!ExcessStaleLiability = a \div p - a \div q
        BY DEF Replay!ExcessStaleLiability, Replay!GrossPayout
    <2> HIDE DEF p, q, a
    <2> QED  BY <2>1, <2>2, CheaperPaysMore
<1>3. Replay!Liability("pre-yes") + Replay!Liability("pre-no")
         + Replay!Liability("post-yes") <= ReplayDeposit
    BY DEF ReplayAssumption
<1> QED  BY <1>1, <1>2, <1>3

\* What happens before each snapshot.
LEMMA StoryTold ==
    /\ Replay!Len(Replay!Story) = 9
    /\ Replay!Story[1][1] = "accept" /\ Replay!Story[1][2] = "pre-yes"
    /\ Replay!Story[2][1] = "accept" /\ Replay!Story[2][2] = "pre-no"
    /\ Replay!Story[3][1] = "goal" /\ Replay!Story[3][2] = "stale-bot"
    /\ Replay!Story[4][1] = "returned" /\ Replay!Story[4][2] = "stale-bot"
    /\ Replay!Story[5][1] = "accept" /\ Replay!Story[5][2] = "post-yes"
    /\ Replay!Story[6][1] = "claim" /\ Replay!Story[6][2] = "pre-yes"
    /\ Replay!Story[7][1] = "claim" /\ Replay!Story[7][2] = "post-yes"
    /\ Replay!Story[8][1] = "reconcile" /\ Replay!Story[8][2] = "pre-no"
    /\ Replay!Story[9][1] = "withdraw" /\ Replay!Story[9][2] = "pre-no"
BY DEF Replay!Story, Replay!Len, Len

\* Nine numbers and none more.
LEMMA NineMoments ==
    ASSUME NEW n \in 0 .. 9
    PROVE  n \in {0, 1, 2, 3, 4, 5, 6, 7, 8, 9}
OBVIOUS

\* Snapshots is the function chosen to satisfy its equation, and there is one.
Funded == [spendable |-> ReplayDeposit, free |-> ReplayDeposit, reserved |-> 0,
           principal |-> 0]
Moment(f, n) ==
    IF n = 0 THEN Funded
    ELSE Replay!After(f[n - 1], Replay!Story[n][1], Replay!Story[n][2])
IsTold(f) == f = [n \in 0 .. Replay!Len(Replay!Story) |-> Moment(f, n)]

LEMMA SnapshotsAreChosen == Replay!Snapshots = CHOOSE f : IsTold(f)
BY DEF Replay!Snapshots, IsTold, Moment, Funded

LEMMA StoryCanBeTold == \E f : IsTold(f)
<1> DEFINE Next(v, n) == Replay!After(v, Replay!Story[n][1], Replay!Story[n][2])
           v0 == Funded
           v1 == Next(v0, 1)
           v2 == Next(v1, 2)
           v3 == Next(v2, 3)
           v4 == Next(v3, 4)
           v5 == Next(v4, 5)
           v6 == Next(v5, 6)
           v7 == Next(v6, 7)
           v8 == Next(v7, 8)
           v9 == Next(v8, 9)
           Nth(n) == IF n = 0 THEN v0 ELSE IF n = 1 THEN v1 ELSE IF n = 2 THEN v2
                     ELSE IF n = 3 THEN v3 ELSE IF n = 4 THEN v4 ELSE IF n = 5 THEN v5
                     ELSE IF n = 6 THEN v6 ELSE IF n = 7 THEN v7 ELSE IF n = 8 THEN v8
                     ELSE v9
           f == [n \in 0 .. 9 |-> Nth(n)]
<1> HIDE DEF Next
<1>1. ASSUME NEW n \in 0 .. 9
      PROVE  Nth(n) = IF n = 0 THEN Funded ELSE Next(Nth(n - 1), n)
    <2>1. n \in {0, 1, 2, 3, 4, 5, 6, 7, 8, 9}
        BY NineMoments
    <2> QED  BY <2>1
<1> HIDE DEF Nth
<1>2. ASSUME NEW n \in 0 .. 9
      PROVE  f[n] = Moment(f, n)
    <2>1. f[n] = Nth(n)
        OBVIOUS
    <2>2. n # 0 => f[n - 1] = Nth(n - 1)
        <3>1. n # 0 => n - 1 \in 0 .. 9
            OBVIOUS
        <3> QED  BY <3>1
    <2> HIDE DEF f
    <2> QED  BY <1>1, <2>1, <2>2 DEF Moment, Next
<1>3. f = [n \in 0 .. 9 |-> f[n]]
    OBVIOUS
<1> HIDE DEF f
<1>4. f = [n \in 0 .. 9 |-> Moment(f, n)]
    BY <1>2, <1>3
<1> QED  BY <1>4, StoryTold DEF IsTold

\* A snapshot, and what each part of the story does to it.
Paper(v, assets, free, reserved, principal) ==
    /\ DOMAIN v = {"spendable", "free", "reserved", "principal"}
    /\ v.spendable = assets
    /\ v.free = free
    /\ v.reserved = reserved
    /\ v.principal = principal

LEMMA PaperAfter ==
    ASSUME NEW v, NEW a, NEW f, NEW r, NEW p, Paper(v, a, f, r, p), NEW id
    PROVE  /\ Paper(Replay!After(v, "accept", id),
                    a + ReplayStake, f - Replay!Liability(id),
                    r + Replay!Liability(id), p + ReplayStake)
           /\ Paper(Replay!After(v, "goal", id), a, f, r, p)
           /\ Paper(Replay!After(v, "returned", id), a, f, r, p)
           /\ Paper(Replay!After(v, "claim", id),
                    a - Replay!Gross(id), f, r - Replay!Liability(id), p - ReplayStake)
           /\ Paper(Replay!After(v, "reconcile", id),
                    a, f + ReplayStake + Replay!Liability(id),
                    r - Replay!Liability(id), p - ReplayStake)
           /\ Paper(Replay!After(v, "withdraw", id), a - f, 0, r, p)
<1>1. Paper(Replay!After(v, "accept", id), a + ReplayStake, f - Replay!Liability(id),
            r + Replay!Liability(id), p + ReplayStake)
    BY DEF Paper, Replay!After
<1>2. /\ Paper(Replay!After(v, "goal", id), a, f, r, p)
      /\ Paper(Replay!After(v, "returned", id), a, f, r, p)
    BY DEF Paper, Replay!After
<1>3. Paper(Replay!After(v, "claim", id),
            a - Replay!Gross(id), f, r - Replay!Liability(id), p - ReplayStake)
    BY DEF Paper, Replay!After, Replay!Claimed
<1>4. Paper(Replay!After(v, "reconcile", id), a, f + ReplayStake + Replay!Liability(id),
            r - Replay!Liability(id), p - ReplayStake)
    BY DEF Paper, Replay!After
<1>5. Paper(Replay!After(v, "withdraw", id), a - f, 0, r, p)
    BY DEF Paper, Replay!After
<1> QED  BY <1>1, <1>2, <1>3, <1>4, <1>5

\* The snapshots that the stages show.
LEMMA SnapshotsAre ==
    ASSUME ReplayAssumption, NEW d, d = ReplayDeposit, NEW s, s = ReplayStake,
           NEW l1, l1 = Replay!Liability("pre-yes"),
           NEW l2, l2 = Replay!Liability("pre-no"),
           NEW l3, l3 = Replay!Liability("post-yes")
    PROVE  /\ Paper(Replay!Snapshots[2], d + 2 * s, d - l1 - l2, l1 + l2, 2 * s)
           /\ Paper(Replay!Snapshots[3], d + 2 * s, d - l1 - l2, l1 + l2, 2 * s)
           /\ Paper(Replay!Snapshots[4], d + 2 * s, d - l1 - l2, l1 + l2, 2 * s)
           /\ Paper(Replay!Snapshots[5], d + 3 * s, d - l1 - l2 - l3, l1 + l2 + l3,
                    3 * s)
           /\ Paper(Replay!Snapshots[8], d + s - l1 - l3, d + s - l1 - l3, 0, 0)
           /\ Paper(Replay!Snapshots[9], 0, 0, 0, 0)
<1> DEFINE v == Replay!Snapshots
<1>1. IsTold(v)
    BY SnapshotsAreChosen, StoryCanBeTold
<1> HIDE DEF v
<1>2. v = [n \in 0 .. 9 |-> Moment(v, n)]
    BY <1>1, StoryTold DEF IsTold
<1>3. \A n \in 0 .. 9 : v[n] = Moment(v, n)
    <2> DEFINE h == [n \in 0 .. 9 |-> Moment(v, n)]
    <2>1. \A n \in 0 .. 9 : h[n] = Moment(v, n)
        OBVIOUS
    <2>2. v = h
        BY <1>2
    <2> HIDE DEF h
    <2> QED  BY <2>1, <2>2
<1>4. \A n \in 1 .. 9 : v[n] = Replay!After(v[n - 1], Replay!Story[n][1], Replay!Story[n][2])
    BY <1>3 DEF Moment
<1>5. /\ d \in Int /\ s \in Int
      /\ l1 \in Int /\ l2 \in Int /\ l3 \in Int
      /\ Replay!Gross("pre-yes") = l1 + s
      /\ Replay!Gross("post-yes") = l3 + s
    BY BetsAreCovered DEF ReplayAssumption
<1>6. Paper(v[0], d, d, 0, 0)
    BY <1>3 DEF Moment, Funded, Paper
<1>7. Paper(v[1], d + s, d - l1, l1, s)
    <2>1. v[1] = Replay!After(v[0], "accept", "pre-yes")
        BY <1>4, StoryTold
    <2>2. Paper(v[1], d + s, d - l1, 0 + l1, 0 + s)
        BY <1>5, <1>6, <2>1, PaperAfter
    <2> QED  BY <1>5, <2>2
<1>8. Paper(v[2], d + 2 * s, d - l1 - l2, l1 + l2, 2 * s)
    <2>1. v[2] = Replay!After(v[1], "accept", "pre-no")
        BY <1>4, StoryTold
    <2>2. Paper(v[2], (d + s) + s, (d - l1) - l2, l1 + l2, s + s)
        BY <1>5, <1>7, <2>1, PaperAfter
    <2> QED  BY <1>5, <2>2
<1>9. Paper(v[3], d + 2 * s, d - l1 - l2, l1 + l2, 2 * s)
    <2>1. v[3] = Replay!After(v[2], "goal", "stale-bot")
        BY <1>4, StoryTold
    <2> QED  BY <1>8, <2>1, PaperAfter
<1>10. Paper(v[4], d + 2 * s, d - l1 - l2, l1 + l2, 2 * s)
    <2>1. v[4] = Replay!After(v[3], "returned", "stale-bot")
        BY <1>4, StoryTold
    <2> QED  BY <1>9, <2>1, PaperAfter
<1>11. Paper(v[5], d + 3 * s, d - l1 - l2 - l3, l1 + l2 + l3, 3 * s)
    <2>1. v[5] = Replay!After(v[4], "accept", "post-yes")
        BY <1>4, StoryTold
    <2>2. Paper(v[5], (d + 2 * s) + s, (d - l1 - l2) - l3, (l1 + l2) + l3, (2 * s) + s)
        BY <1>5, <1>10, <2>1, PaperAfter
    <2> QED  BY <1>5, <2>2
<1>12. Paper(v[6], d + 2 * s - l1, d - l1 - l2 - l3, l2 + l3, 2 * s)
    <2>1. v[6] = Replay!After(v[5], "claim", "pre-yes")
        BY <1>4, StoryTold
    <2>2. Paper(v[6], (d + 3 * s) - (l1 + s), (d - l1 - l2 - l3), (l1 + l2 + l3) - l1,
                (3 * s) - s)
        BY <1>5, <1>11, <2>1, PaperAfter
    <2> QED  BY <1>5, <2>2
<1>13. Paper(v[7], d + s - l1 - l3, d - l1 - l2 - l3, l2, s)
    <2>1. v[7] = Replay!After(v[6], "claim", "post-yes")
        BY <1>4, StoryTold
    <2>2. Paper(v[7], (d + 2 * s - l1) - (l3 + s), (d - l1 - l2 - l3), (l2 + l3) - l3,
                (2 * s) - s)
        BY <1>5, <1>12, <2>1, PaperAfter
    <2> QED  BY <1>5, <2>2
<1>14. Paper(v[8], d + s - l1 - l3, d + s - l1 - l3, 0, 0)
    <2>1. v[8] = Replay!After(v[7], "reconcile", "pre-no")
        BY <1>4, StoryTold
    <2>2. Paper(v[8], (d + s - l1 - l3), (d - l1 - l2 - l3) + s + l2, l2 - l2, s - s)
        BY <1>5, <1>13, <2>1, PaperAfter
    <2> QED  BY <1>5, <2>2
<1>15. Paper(v[9], 0, 0, 0, 0)
    <2>1. v[9] = Replay!After(v[8], "withdraw", "pre-no")
        BY <1>4, StoryTold
    <2>2. Paper(v[9], (d + s - l1 - l3) - (d + s - l1 - l3), 0, 0, 0)
        BY <1>5, <1>14, <2>1, PaperAfter
    <2> QED  BY <1>5, <2>2
<1> QED  BY <1>8, <1>9, <1>10, <1>11, <1>14, <1>15 DEF v

\* So is the program's account of the story.
Opened ==
    [ spendable |-> ReplayDeposit,
      vault |-> [Replay!Program!EmptyVault EXCEPT !.free_collateral = ReplayDeposit] ]
LedgerMoment(f, n) ==
    IF n = 0 THEN Opened
    ELSE Replay!ProgramAfter(f[n - 1], Replay!Story[n][1], Replay!Story[n][2])
IsLedger(f) == f = [n \in 0 .. Replay!Len(Replay!Story) |-> LedgerMoment(f, n)]

LEMMA LedgerIsChosen == Replay!ProgramSnapshots = CHOOSE f : IsLedger(f)
BY DEF Replay!ProgramSnapshots, IsLedger, LedgerMoment, Opened

LEMMA ProgramCanTell == \E f : IsLedger(f)
<1> DEFINE Next(v, n) == Replay!ProgramAfter(v, Replay!Story[n][1], Replay!Story[n][2])
           v0 == Opened
           v1 == Next(v0, 1)
           v2 == Next(v1, 2)
           v3 == Next(v2, 3)
           v4 == Next(v3, 4)
           v5 == Next(v4, 5)
           v6 == Next(v5, 6)
           v7 == Next(v6, 7)
           v8 == Next(v7, 8)
           v9 == Next(v8, 9)
           Nth(n) == IF n = 0 THEN v0 ELSE IF n = 1 THEN v1 ELSE IF n = 2 THEN v2
                     ELSE IF n = 3 THEN v3 ELSE IF n = 4 THEN v4 ELSE IF n = 5 THEN v5
                     ELSE IF n = 6 THEN v6 ELSE IF n = 7 THEN v7 ELSE IF n = 8 THEN v8
                     ELSE v9
           f == [n \in 0 .. 9 |-> Nth(n)]
<1> HIDE DEF Next
<1>1. ASSUME NEW n \in 0 .. 9
      PROVE  Nth(n) = IF n = 0 THEN Opened ELSE Next(Nth(n - 1), n)
    <2>1. n \in {0, 1, 2, 3, 4, 5, 6, 7, 8, 9}
        BY NineMoments
    <2> QED  BY <2>1
<1> HIDE DEF Nth
<1>2. ASSUME NEW n \in 0 .. 9
      PROVE  f[n] = LedgerMoment(f, n)
    <2>1. f[n] = Nth(n)
        OBVIOUS
    <2>2. n # 0 => f[n - 1] = Nth(n - 1)
        <3>1. n # 0 => n - 1 \in 0 .. 9
            OBVIOUS
        <3> QED  BY <3>1
    <2> HIDE DEF f
    <2> QED  BY <1>1, <2>1, <2>2 DEF LedgerMoment, Next
<1>3. f = [n \in 0 .. 9 |-> f[n]]
    OBVIOUS
<1> HIDE DEF f
<1>4. f = [n \in 0 .. 9 |-> LedgerMoment(f, n)]
    BY <1>2, <1>3
<1> QED  BY <1>4, StoryTold DEF IsLedger

\* The program's vault, with what is reserved for each side, and its account.
Books(v, free, reserved, principal, yes, no) ==
    /\ DOMAIN v = {"free_collateral", "reserved_liability", "accepted_stake_principal",
                   "pending_refundable_stake", "yes_reserved_liability",
                   "no_reserved_liability"}
    /\ v.free_collateral = free
    /\ v.reserved_liability = reserved
    /\ v.accepted_stake_principal = principal
    /\ v.pending_refundable_stake = 0
    /\ v.yes_reserved_liability = yes
    /\ v.no_reserved_liability = no

Ledger(b, assets, free, reserved, principal, yes, no) ==
    /\ DOMAIN b = {"spendable", "vault"}
    /\ b.spendable = assets
    /\ Books(b.vault, free, reserved, principal, yes, no)

\* What the program's helpers do to the vault.
LEMMA BooksAfter ==
    ASSUME NEW v, NEW f, NEW r, NEW p, NEW y, NEW n, Books(v, f, r, p, y, n),
           NEW s, NEW l
    PROVE  /\ Books(Replay!Program!ApplyAccept(v, "Yes", s, l),
                    f - l, r + l, p + s, y + l, n)
           /\ Books(Replay!Program!ApplyAccept(v, "No", s, l),
                    f - l, r + l, p + s, y, n + l)
           /\ Books(Replay!Program!ApplyClaim(v, "Yes", s, l),
                    f, r + (- l), p - s, y + (- l), n)
           /\ Books(Replay!Program!ApplyReconcileLoss(v, "No", s, l),
                    f + (s + l), r + (- l), p - s, y, n + (- l))
<1>1. ASSUME NEW d
      PROVE  /\ Books(Replay!Program!Reserve(v, "Yes", d), f, r + d, p, y + d, n)
             /\ Books(Replay!Program!Reserve(v, "No", d), f, r + d, p, y, n + d)
    <2>1. Books(Replay!Program!Reserve(v, "Yes", d), f, r + d, p, y + d, n)
        BY DEF Books, Replay!Program!Reserve
    <2>2. Books(Replay!Program!Reserve(v, "No", d), f, r + d, p, y, n + d)
        BY DEF Books, Replay!Program!Reserve
    <2> QED  BY <2>1, <2>2
<1>2. Books(Replay!Program!ApplyAccept(v, "Yes", s, l), f - l, r + l, p + s, y + l, n)
    <2> DEFINE w == Replay!Program!Reserve(v, "Yes", l)
    <2>1. Books(w, f, r + l, p, y + l, n)
        BY <1>1
    <2> HIDE DEF w
    <2>2. Books([w EXCEPT !.free_collateral = @ - l, !.accepted_stake_principal = @ + s],
                f - l, r + l, p + s, y + l, n)
        BY <2>1 DEF Books
    <2> QED  BY <2>2 DEF Replay!Program!ApplyAccept, w
<1>3. Books(Replay!Program!ApplyAccept(v, "No", s, l), f - l, r + l, p + s, y, n + l)
    <2> DEFINE w == Replay!Program!Reserve(v, "No", l)
    <2>1. Books(w, f, r + l, p, y, n + l)
        BY <1>1
    <2> HIDE DEF w
    <2>2. Books([w EXCEPT !.free_collateral = @ - l, !.accepted_stake_principal = @ + s],
                f - l, r + l, p + s, y, n + l)
        BY <2>1 DEF Books
    <2> QED  BY <2>2 DEF Replay!Program!ApplyAccept, w
<1>4. Books(Replay!Program!ApplyClaim(v, "Yes", s, l), f, r + (- l), p - s, y + (- l), n)
    <2> DEFINE w == Replay!Program!Reserve(v, "Yes", - l)
    <2>1. Books(w, f, r + (- l), p, y + (- l), n)
        BY <1>1
    <2> HIDE DEF w
    <2>2. Books([w EXCEPT !.accepted_stake_principal = @ - s],
                f, r + (- l), p - s, y + (- l), n)
        BY <2>1 DEF Books
    <2> QED  BY <2>2 DEF Replay!Program!ApplyClaim, w
<1>5. Books(Replay!Program!ApplyReconcileLoss(v, "No", s, l),
            f + (s + l), r + (- l), p - s, y, n + (- l))
    <2> DEFINE w == Replay!Program!Reserve(v, "No", - l)
    <2>1. Books(w, f, r + (- l), p, y, n + (- l))
        BY <1>1
    <2> HIDE DEF w
    <2>2. Books([w EXCEPT !.accepted_stake_principal = @ - s,
                          !.free_collateral = @ + (s + l)],
                f + (s + l), r + (- l), p - s, y, n + (- l))
        BY <2>1 DEF Books
    <2> QED  BY <2>2 DEF Replay!Program!ApplyReconcileLoss, w
<1> QED  BY <1>2, <1>3, <1>4, <1>5

\* The price and the payout that the program computes of a bet.
ProgramPrice(id) ==
    LET odds == IF id = "post-yes" THEN PostGoalOdds.prices ELSE PreGoalOdds.prices
    IN  IF Replay!ProgramSide(id) = "Yes" THEN Replay!Program!YesPrice(odds, ReplaySpread)
        ELSE Replay!Program!NoPrice(odds, ReplaySpread)
ProgramGross(id) == Replay!Program!GrossPayout(ReplayStake, ProgramPrice(id))

LEMMA ProgramPays ==
    ASSUME NEW id \in {"pre-yes", "pre-no", "post-yes"}
    PROVE  /\ ProgramGross(id) = Replay!Gross(id)
           /\ ProgramGross(id) - ReplayStake = Replay!Liability(id)
           /\ Replay!ProgramSide(id) = IF id = "pre-no" THEN "No" ELSE "Yes"
<1>1. Replay!ProgramSide(id) = IF id = "pre-no" THEN "No" ELSE "Yes"
    BY DEF Replay!ProgramSide, Replay!SideOf
<1>2. ProgramPrice(id) = Replay!PriceOf(id)
    <2> DEFINE odds == IF id = "post-yes" THEN PostGoalOdds.prices ELSE PreGoalOdds.prices
               prices == Replay!DeriveQuoteGuardPrices(odds, ReplaySpread)
    <2>1. prices.YES = Replay!Program!YesPrice(odds, ReplaySpread)
            /\ prices.NO = Replay!Program!NoPrice(odds, ReplaySpread)
        <3> HIDE DEF odds
        <3> QED
            BY DEF Replay!DeriveQuoteGuardPrices, Replay!Program!YesPrice,
                   Replay!Program!NoPrice, Replay!Program!YesProbability
    <2>2. Replay!PriceOf(id) = prices[Replay!SideOf(id)]
        BY DEF Replay!PriceOf, Replay!ExecutablePrices
    <2> HIDE DEF prices, odds
    <2>3. ProgramPrice(id) = IF Replay!ProgramSide(id) = "Yes"
                             THEN Replay!Program!YesPrice(odds, ReplaySpread)
                             ELSE Replay!Program!NoPrice(odds, ReplaySpread)
        BY DEF ProgramPrice, odds
    <2> QED  BY <1>1, <2>1, <2>2, <2>3 DEF Replay!SideOf
<1>3. ProgramGross(id) = Replay!Gross(id)
    BY <1>2 DEF ProgramGross, Replay!Program!GrossPayout, Replay!Gross,
                Replay!GrossPayout, Replay!Refunded
<1>4. Replay!Liability(id) = Replay!Gross(id) - ReplayStake
    BY DEF Replay!Liability, Replay!Refunded
<1> QED  BY <1>1, <1>3, <1>4

LEMMA LedgerAfter ==
    ASSUME NEW b, NEW a, NEW f, NEW r, NEW p, NEW y, NEW n, Ledger(b, a, f, r, p, y, n),
           NEW id \in {"pre-yes", "post-yes"}
    PROVE  LET l == Replay!Liability(id)
               m == Replay!Liability("pre-no")
               s == ReplayStake
           IN  /\ Ledger(Replay!ProgramAfter(b, "accept", id),
                         a + s, f - l, r + l, p + s, y + l, n)
               /\ Ledger(Replay!ProgramAfter(b, "accept", "pre-no"),
                         a + s, f - m, r + m, p + s, y, n + m)
               /\ Ledger(Replay!ProgramAfter(b, "goal", "stale-bot"), a, f, r, p, y, n)
               /\ Ledger(Replay!ProgramAfter(b, "returned", "stale-bot"), a, f, r, p, y, n)
               /\ Ledger(Replay!ProgramAfter(b, "claim", id),
                         a - Replay!Gross(id), f, r + (- l), p - s, y + (- l), n)
               /\ Ledger(Replay!ProgramAfter(b, "reconcile", "pre-no"),
                         a, f + (s + m), r + (- m), p - s, y, n + (- m))
               /\ Ledger(Replay!ProgramAfter(b, "withdraw", "pre-no"), a - f, 0, r, p, y, n)
<1> DEFINE l == Replay!Liability(id)
           m == Replay!Liability("pre-no")
           s == ReplayStake
<1>1. /\ ProgramGross(id) = Replay!Gross(id) /\ ProgramGross(id) - s = l
      /\ Replay!ProgramSide(id) = "Yes"
      /\ ProgramGross("pre-no") - s = m
      /\ Replay!ProgramSide("pre-no") = "No"
    BY ProgramPays
<1>2. /\ Replay!ProgramAfter(b, "accept", id)
            = [ spendable |-> b.spendable + s,
                vault |-> Replay!Program!ApplyAccept(b.vault, "Yes", s, l) ]
      /\ Replay!ProgramAfter(b, "accept", "pre-no")
            = [ spendable |-> b.spendable + s,
                vault |-> Replay!Program!ApplyAccept(b.vault, "No", s, m) ]
      /\ Replay!ProgramAfter(b, "claim", id)
            = [ spendable |-> b.spendable - Replay!Gross(id),
                vault |-> Replay!Program!ApplyClaim(b.vault, "Yes", s, l) ]
      /\ Replay!ProgramAfter(b, "reconcile", "pre-no")
            = [b EXCEPT !.vault = Replay!Program!ApplyReconcileLoss(b.vault, "No", s, m)]
    BY <1>1 DEF Replay!ProgramAfter, ProgramGross, ProgramPrice
<1> HIDE DEF l, m, s
<1>3. Ledger(Replay!ProgramAfter(b, "accept", id), a + s, f - l, r + l, p + s, y + l, n)
    BY <1>2, BooksAfter DEF Ledger
<1>4. Ledger(Replay!ProgramAfter(b, "accept", "pre-no"),
             a + s, f - m, r + m, p + s, y, n + m)
    BY <1>2, BooksAfter DEF Ledger
<1>5. /\ Ledger(Replay!ProgramAfter(b, "goal", "stale-bot"), a, f, r, p, y, n)
      /\ Ledger(Replay!ProgramAfter(b, "returned", "stale-bot"), a, f, r, p, y, n)
    BY DEF Ledger, Books, Replay!ProgramAfter
<1>6. Ledger(Replay!ProgramAfter(b, "claim", id),
             a - Replay!Gross(id), f, r + (- l), p - s, y + (- l), n)
    BY <1>2, BooksAfter DEF Ledger
<1>7. Ledger(Replay!ProgramAfter(b, "reconcile", "pre-no"),
             a, f + (s + m), r + (- m), p - s, y, n + (- m))
    BY <1>2, BooksAfter DEF Ledger
<1>8. Ledger(Replay!ProgramAfter(b, "withdraw", "pre-no"), a - f, 0, r, p, y, n)
    BY DEF Ledger, Books, Replay!ProgramAfter
<1> QED  BY <1>3, <1>4, <1>5, <1>6, <1>7, <1>8 DEF l, m, s

\* The program's account at those moments.
LEMMA LedgersAre ==
    ASSUME ReplayAssumption, NEW d, d = ReplayDeposit, NEW s, s = ReplayStake,
           NEW l1, l1 = Replay!Liability("pre-yes"),
           NEW l2, l2 = Replay!Liability("pre-no"),
           NEW l3, l3 = Replay!Liability("post-yes")
    PROVE  /\ Ledger(Replay!ProgramSnapshots[2], d + 2 * s, d - l1 - l2, l1 + l2,
                     2 * s, l1, l2)
           /\ Ledger(Replay!ProgramSnapshots[3], d + 2 * s, d - l1 - l2, l1 + l2,
                     2 * s, l1, l2)
           /\ Ledger(Replay!ProgramSnapshots[4], d + 2 * s, d - l1 - l2, l1 + l2,
                     2 * s, l1, l2)
           /\ Ledger(Replay!ProgramSnapshots[5], d + 3 * s, d - l1 - l2 - l3,
                     l1 + l2 + l3, 3 * s, l1 + l3, l2)
           /\ Ledger(Replay!ProgramSnapshots[8], d + s - l1 - l3, d + s - l1 - l3, 0,
                     0, 0, 0)
           /\ Ledger(Replay!ProgramSnapshots[9], 0, 0, 0, 0, 0, 0)
<1> DEFINE v == Replay!ProgramSnapshots
<1>1. IsLedger(v)
    BY LedgerIsChosen, ProgramCanTell
<1> HIDE DEF v
<1>2. v = [n \in 0 .. 9 |-> LedgerMoment(v, n)]
    BY <1>1, StoryTold DEF IsLedger
<1>3. \A n \in 0 .. 9 : v[n] = LedgerMoment(v, n)
    <2> DEFINE h == [n \in 0 .. 9 |-> LedgerMoment(v, n)]
    <2>1. \A n \in 0 .. 9 : h[n] = LedgerMoment(v, n)
        OBVIOUS
    <2>2. v = h
        BY <1>2
    <2> HIDE DEF h
    <2> QED  BY <2>1, <2>2
<1>4. \A n \in 1 .. 9 : v[n] = Replay!ProgramAfter(v[n - 1], Replay!Story[n][1], Replay!Story[n][2])
    BY <1>3 DEF LedgerMoment
<1>5. /\ d \in Int /\ s \in Int
      /\ l1 \in Int /\ l2 \in Int /\ l3 \in Int
      /\ Replay!Gross("pre-yes") = l1 + s
      /\ Replay!Gross("post-yes") = l3 + s
    BY BetsAreCovered DEF ReplayAssumption
<1>6. Ledger(v[0], d, d, 0, 0, 0, 0)
    BY <1>3 DEF LedgerMoment, Opened, Ledger, Books,
           Replay!Program!EmptyVault
<1>7. Ledger(v[1], d + s, d - l1, l1, s, l1, 0)
    <2>1. v[1] = Replay!ProgramAfter(v[0], "accept", "pre-yes")
        BY <1>4, StoryTold
    <2>2. Ledger(v[1], d + s, d - l1, 0 + l1, 0 + s, 0 + l1, 0)
        BY <1>5, <1>6, <2>1, LedgerAfter
    <2> QED  BY <1>5, <2>2
<1>8. Ledger(v[2], d + 2 * s, d - l1 - l2, l1 + l2, 2 * s, l1, l2)
    <2>1. v[2] = Replay!ProgramAfter(v[1], "accept", "pre-no")
        BY <1>4, StoryTold
    <2>2. Ledger(v[2], (d + s) + s, (d - l1) - l2, l1 + l2, s + s, l1, 0 + l2)
        BY <1>5, <1>7, <2>1, LedgerAfter
    <2> QED  BY <1>5, <2>2
<1>9. Ledger(v[3], d + 2 * s, d - l1 - l2, l1 + l2, 2 * s, l1, l2)
    <2>1. v[3] = Replay!ProgramAfter(v[2], "goal", "stale-bot")
        BY <1>4, StoryTold
    <2> QED  BY <1>8, <2>1, LedgerAfter
<1>10. Ledger(v[4], d + 2 * s, d - l1 - l2, l1 + l2, 2 * s, l1, l2)
    <2>1. v[4] = Replay!ProgramAfter(v[3], "returned", "stale-bot")
        BY <1>4, StoryTold
    <2> QED  BY <1>9, <2>1, LedgerAfter
<1>11. Ledger(v[5], d + 3 * s, d - l1 - l2 - l3, l1 + l2 + l3, 3 * s, l1 + l3, l2)
    <2>1. v[5] = Replay!ProgramAfter(v[4], "accept", "post-yes")
        BY <1>4, StoryTold
    <2> DEFINE a == d + 2 * s
               f == d - l1 - l2
               r == l1 + l2
               p == 2 * s
               y == l1
               m == l2
    <2> HIDE DEF a, f, r, p, y, m
    <2>2. Ledger(v[4], a, f, r, p, y, m)
        BY <1>10 DEF a, f, r, p, y, m
    <2>3. Ledger(v[5], a + s, f - l3, r + l3, p + s, y + l3, m)
        BY <1>5, <2>1, <2>2, LedgerAfter
    <2> QED  BY <1>5, <2>3 DEF a, f, r, p, y, m
<1>12. Ledger(v[6], d + 2 * s - l1, d - l1 - l2 - l3, l2 + l3, 2 * s, l3, l2)
    <2>1. v[6] = Replay!ProgramAfter(v[5], "claim", "pre-yes")
        BY <1>4, StoryTold
    <2>2. Ledger(v[6], (d + 3 * s) - (l1 + s), (d - l1 - l2 - l3),
                 (l1 + l2 + l3) + (- l1), (3 * s) - s, (l1 + l3) + (- l1), l2)
        BY <1>5, <1>11, <2>1, LedgerAfter
    <2> QED  BY <1>5, <2>2
<1>13. Ledger(v[7], d + s - l1 - l3, d - l1 - l2 - l3, l2, s, 0, l2)
    <2>1. v[7] = Replay!ProgramAfter(v[6], "claim", "post-yes")
        BY <1>4, StoryTold
    <2> DEFINE a == d + 2 * s - l1
               f == d - l1 - l2 - l3
               r == l2 + l3
               p == 2 * s
               y == l3
               m == l2
    <2> HIDE DEF a, f, r, p, y, m
    <2>2. Ledger(v[6], a, f, r, p, y, m)
        BY <1>12 DEF a, f, r, p, y, m
    <2>3. Ledger(v[7], a - (l3 + s), f, r + (- l3), p - s, y + (- l3), m)
        BY <1>5, <2>1, <2>2, LedgerAfter
    <2> QED  BY <1>5, <2>3 DEF a, f, r, p, y, m
<1>14. Ledger(v[8], d + s - l1 - l3, d + s - l1 - l3, 0, 0, 0, 0)
    <2>1. v[8] = Replay!ProgramAfter(v[7], "reconcile", "pre-no")
        BY <1>4, StoryTold
    <2> DEFINE a == d + s - l1 - l3
               f == d - l1 - l2 - l3
               r == l2
               p == s
               y == 0
               m == l2
    <2> HIDE DEF a, f, r, p, y, m
    <2>2. Ledger(v[7], a, f, r, p, y, m)
        BY <1>13 DEF a, f, r, p, y, m
    <2>3. Ledger(v[8], a, f + (s + l2), r + (- l2), p - s, y, m + (- l2))
        BY <1>5, <2>1, <2>2, LedgerAfter
    <2> QED  BY <1>5, <2>3 DEF a, f, r, p, y, m
<1>15. Ledger(v[9], 0, 0, 0, 0, 0, 0)
    <2>1. v[9] = Replay!ProgramAfter(v[8], "withdraw", "pre-no")
        BY <1>4, StoryTold
    <2>2. Ledger(v[9], (d + s - l1 - l3) - (d + s - l1 - l3), 0, 0, 0, 0, 0)
        BY <1>5, <1>14, <2>1, LedgerAfter
    <2> QED  BY <1>5, <2>2
<1> QED  BY <1>8, <1>9, <1>10, <1>11, <1>14, <1>15 DEF v


\* Where both accounts say the same, the vault shown is the program's.
LEMMA SameAccount ==
    ASSUME NEW v, NEW b, NEW a \in Nat, NEW f \in Nat, NEW r \in Nat, NEW p \in Nat,
           NEW y \in Nat, NEW m \in Nat,
           Paper(v, a, f, r, p), Ledger(b, a, f, r, p, y, m),
           a = f + r + p, r = y + m, a <= MaxLamports, MaxLamports \in Nat
    PROVE  /\ Replay!InvariantHolds(v)
           /\ v.spendable = b.spendable
           /\ v.free = b.vault.free_collateral
           /\ v.reserved = b.vault.reserved_liability
           /\ v.principal = b.vault.accepted_stake_principal
           /\ Replay!Program!VaultInvariant(b.vault, b.spendable)
<1>1. /\ v.spendable = a
      /\ v.free = f
      /\ v.reserved = r
      /\ v.principal = p
    BY DEF Paper
<1>2. /\ b.spendable = a
      /\ b.vault.free_collateral = f
      /\ b.vault.reserved_liability = r
      /\ b.vault.accepted_stake_principal = p
      /\ b.vault.pending_refundable_stake = 0
      /\ b.vault.yes_reserved_liability = y
      /\ b.vault.no_reserved_liability = m
    BY DEF Ledger, Books
<1>3. Replay!InvariantHolds(v)
    BY <1>1 DEF Replay!InvariantHolds
<1>4. Replay!Program!VaultInvariant(b.vault, b.spendable)
    <2>1. y + m \in Replay!Program!U64 /\ (f + r) + (p + 0) \in Replay!Program!U64
        BY DEF Replay!Program!U64
    <2> QED
        BY <1>2, <2>1 DEF Replay!Program!VaultInvariant, Replay!Program!AccountedAssets,
                          Replay!Program!AccountingFieldsAgree, Replay!Program!CheckedAddOk
<1> QED  BY <1>1, <1>2, <1>3, <1>4

\* What the stages say.
StageSays(n, index, open) ==
    Replay!SnapshotIndex[n] = index /\ Replay!OpenAt(Replay!Modes[n]) = open

LEMMA StagesSay ==
    LET two == {"pre-yes", "pre-no"}
        three == {"pre-yes", "pre-no", "post-yes"}
    IN  /\ StageSays(1, 2, two)
        /\ StageSays(2, 2, two)
        /\ StageSays(3, 3, two)
        /\ StageSays(4, 4, two)
        /\ StageSays(5, 4, two)
        /\ StageSays(6, 5, three)
        /\ StageSays(7, 5, three)
        /\ StageSays(8, 8, {})
        /\ StageSays(9, 9, {})
BY DEF StageSays, Replay!SnapshotIndex, Replay!Modes, Replay!OpenAt

LEMMA OpenPositions ==
    /\ Replay!Cardinality({}) = 0
    /\ Replay!Cardinality({"pre-yes", "pre-no"}) = 2
    /\ Replay!Cardinality({"pre-yes", "pre-no", "post-yes"}) = 3
<1>1. \A S : Replay!Cardinality(S) = Cardinality(S)
    BY DEF Replay!Cardinality, Cardinality
<1>2. Cardinality({}) = 0 /\ IsFiniteSet({})
    BY FS_EmptySet
<1>3. Cardinality({"pre-yes"}) = 1 /\ IsFiniteSet({"pre-yes"})
    BY FS_Singleton
<1>4. Cardinality({"pre-yes"} \cup {"pre-no"}) = 2 /\ IsFiniteSet({"pre-yes"} \cup {"pre-no"})
    BY <1>3, FS_AddElement
<1>5. Cardinality({"pre-yes"} \cup {"pre-no"} \cup {"post-yes"}) = 3
    BY <1>4, FS_AddElement
<1>6. /\ {"pre-yes"} \cup {"pre-no"} = {"pre-yes", "pre-no"}
      /\ {"pre-yes"} \cup {"pre-no"} \cup {"post-yes"} = {"pre-yes", "pre-no", "post-yes"}
    OBVIOUS
<1> QED  BY <1>1, <1>2, <1>4, <1>5, <1>6

\* Every stage shows the vault that the program makes of the match.
LEMMA StagesShowTheVault ==
    ASSUME ReplayAssumption, replayStage \in 1 .. 9
    PROVE  Replay!ShownVaultIsTheProgram
<1> DEFINE d == ReplayDeposit
           s == ReplayStake
           l1 == Replay!Liability("pre-yes")
           l2 == Replay!Liability("pre-no")
           l3 == Replay!Liability("post-yes")
           index == Replay!SnapshotIndex[replayStage]
           v == Replay!Snapshots[index]
           b == Replay!ProgramSnapshots[index]
           open == Replay!OpenAt(Replay!Modes[replayStage])
           same == /\ Replay!InvariantHolds(v)
                   /\ v.spendable = b.spendable
                   /\ v.free = b.vault.free_collateral
                   /\ v.reserved = b.vault.reserved_liability
                   /\ v.principal = b.vault.accepted_stake_principal
                   /\ Replay!Program!VaultInvariant(b.vault, b.spendable)
           covered == /\ v.principal = s * Replay!Cardinality(open)
                      /\ \A id \in open : v.reserved >= Replay!Liability(id)
                      /\ replayStage = 9 => v.spendable = 0
<1>1. /\ d \in Nat /\ s \in Nat /\ MaxLamports \in Nat
      /\ l1 \in Nat /\ l2 \in Nat /\ l3 \in Nat
      /\ l1 + l2 + l3 <= d
      /\ d + 3 * s <= MaxLamports
    BY BetsAreCovered DEF ReplayAssumption
<1>2. ASSUME index \in {2, 3, 4}, open = {"pre-yes", "pre-no"}, replayStage # 9
      PROVE  same /\ covered
    <2>1. /\ Paper(v, d + 2 * s, d - l1 - l2, l1 + l2, 2 * s)
          /\ Ledger(b, d + 2 * s, d - l1 - l2, l1 + l2, 2 * s, l1, l2)
        BY <1>2, SnapshotsAre, LedgersAre
    <2> HIDE DEF d, s, l1, l2, l3, v, b
    <2> DEFINE a == d + 2 * s
               f == d - l1 - l2
               r == l1 + l2
               p == 2 * s
               y == l1
               m == l2
    <2>2. same
        <3>1. /\ a \in Nat /\ f \in Nat /\ r \in Nat
              /\ p \in Nat /\ y \in Nat /\ m \in Nat
              /\ a = f + r + p
              /\ r = y + m
              /\ a <= MaxLamports
            BY <1>1
        <3>2. Paper(v, a, f, r, p) /\ Ledger(b, a, f, r, p, y, m)
            BY <2>1
        <3> HIDE DEF a, f, r, p, y, m
        <3> QED  BY <1>1, <3>1, <3>2, SameAccount
    <2>3. v.principal = 2 * s /\ v.reserved = l1 + l2
        BY <2>1 DEF Paper
    <2>4. v.principal = s * Replay!Cardinality(open)
        BY <1>1, <1>2, <2>3, OpenPositions
    <2>5. \A id \in open : v.reserved >= Replay!Liability(id)
        BY <1>1, <1>2, <2>3 DEF l1, l2
    <2> QED  BY <1>2, <2>2, <2>4, <2>5
<1>3. ASSUME index = 5, open = {"pre-yes", "pre-no", "post-yes"}, replayStage # 9
      PROVE  same /\ covered
    <2>1. /\ Paper(v, d + 3 * s, d - l1 - l2 - l3, l1 + l2 + l3, 3 * s)
          /\ Ledger(b, d + 3 * s, d - l1 - l2 - l3, l1 + l2 + l3, 3 * s, l1 + l3, l2)
        BY <1>3, SnapshotsAre, LedgersAre
    <2> HIDE DEF d, s, l1, l2, l3, v, b
    <2> DEFINE a == d + 3 * s
               f == d - l1 - l2 - l3
               r == l1 + l2 + l3
               p == 3 * s
               y == l1 + l3
               m == l2
    <2>2. same
        <3>1. /\ a \in Nat /\ f \in Nat /\ r \in Nat
              /\ p \in Nat /\ y \in Nat /\ m \in Nat
              /\ a = f + r + p
              /\ r = y + m
              /\ a <= MaxLamports
            BY <1>1
        <3>2. Paper(v, a, f, r, p) /\ Ledger(b, a, f, r, p, y, m)
            BY <2>1
        <3> HIDE DEF a, f, r, p, y, m
        <3> QED  BY <1>1, <3>1, <3>2, SameAccount
    <2>3. v.principal = 3 * s /\ v.reserved = l1 + l2 + l3
        BY <2>1 DEF Paper
    <2>4. v.principal = s * Replay!Cardinality(open)
        BY <1>1, <1>3, <2>3, OpenPositions
    <2>5. \A id \in open : v.reserved >= Replay!Liability(id)
        BY <1>1, <1>3, <2>3 DEF l1, l2, l3
    <2> QED  BY <1>3, <2>2, <2>4, <2>5
<1>4. ASSUME index = 8, open = {}, replayStage # 9
      PROVE  same /\ covered
    <2>1. /\ Paper(v, d + s - l1 - l3, d + s - l1 - l3, 0, 0)
          /\ Ledger(b, d + s - l1 - l3, d + s - l1 - l3, 0, 0, 0, 0)
        BY <1>4, SnapshotsAre, LedgersAre
    <2> HIDE DEF d, s, l1, l2, l3, v, b
    <2> DEFINE a == d + s - l1 - l3
               f == d + s - l1 - l3
               r == 0
               p == 0
               y == 0
               m == 0
    <2>2. same
        <3>1. /\ a \in Nat /\ f \in Nat /\ r \in Nat
              /\ p \in Nat /\ y \in Nat /\ m \in Nat
              /\ a = f + r + p
              /\ r = y + m
              /\ a <= MaxLamports
            BY <1>1
        <3>2. Paper(v, a, f, r, p) /\ Ledger(b, a, f, r, p, y, m)
            BY <2>1
        <3> HIDE DEF a, f, r, p, y, m
        <3> QED  BY <1>1, <3>1, <3>2, SameAccount
    <2>3. v.principal = s * Replay!Cardinality(open)
        BY <1>1, <1>4, <2>1, OpenPositions DEF Paper
    <2> QED  BY <1>4, <2>2, <2>3
<1>5. ASSUME index = 9, open = {}
      PROVE  same /\ covered
    <2>1. /\ Paper(v, 0, 0, 0, 0)
          /\ Ledger(b, 0, 0, 0, 0, 0, 0)
        BY <1>5, SnapshotsAre, LedgersAre
    <2> HIDE DEF d, s, l1, l2, l3, v, b
    <2> DEFINE a == 0
               f == 0
               r == 0
               p == 0
               y == 0
               m == 0
    <2>2. same
        <3>1. /\ a \in Nat /\ f \in Nat /\ r \in Nat
              /\ p \in Nat /\ y \in Nat /\ m \in Nat
              /\ a = f + r + p
              /\ r = y + m
              /\ a <= MaxLamports
            BY <1>1
        <3>2. Paper(v, a, f, r, p) /\ Ledger(b, a, f, r, p, y, m)
            BY <2>1
        <3> HIDE DEF a, f, r, p, y, m
        <3> QED  BY <1>1, <3>1, <3>2, SameAccount
    <2>3. v.spendable = 0 /\ v.principal = s * Replay!Cardinality(open)
        BY <1>1, <1>5, <2>1, OpenPositions DEF Paper
    <2> QED  BY <1>5, <2>2, <2>3
<1>6. same /\ covered
    <2>1. replayStage \in {1, 2, 3, 4, 5, 6, 7, 8, 9}
        OBVIOUS
    <2> HIDE DEF same, covered
    <2> QED  BY <1>2, <1>3, <1>4, <1>5, <2>1, StagesSay DEF StageSays
<1> QED
    BY <1>6, BetsAreCovered, LastReplayStage DEF Replay!ShownVaultIsTheProgram

\* The replay's vault is the program's at every stage, whatever is clicked.
LEMMA ReplayHolds ==
    ASSUME ReplayAssumption
    PROVE  OperationsSpec =>
              [](Replay!ShownVaultIsTheProgram /\ Replay!ReplayTimerMeansPlaying)
<1>1. OperationsInit => ReplayInvariant
    <2> SUFFICES ASSUME OperationsInit
                 PROVE  ReplayInvariant
        OBVIOUS
    <2>1. /\ replayStage \in 1 .. 9
          /\ replaying = FALSE
          /\ replayTimer = Null
        BY LastReplayStage DEF OperationsInit, Replay!ReplayInit
    <2> QED  BY <2>1, Zenon DEF ReplayInvariant, Replay!ReplayTimerMeansPlaying
<1>2. ReplayInvariant /\ [OperationsNext]_operationsVars => ReplayInvariant'
    BY ReplaySteps
<1>3. ReplayInvariant => Replay!ShownVaultIsTheProgram /\ Replay!ReplayTimerMeansPlaying
    BY StagesShowTheVault DEF ReplayInvariant
<1> QED  BY <1>1, <1>2, <1>3, PTL DEF OperationsSpec

-----------------------------------------------------------------------------
\* What is shown was looked at or worked out.  Of the verifier, one scan runs at a time,
\* and a page shows no failure that a success has followed; of the program, a fresh proof
\* is offered only when it was deployed while a recent check looked.  The incident shows
\* at every stage what the rule makes of its numbers, and the replay of the recorded match
\* the vault that the program makes of it, their timers up while they play; the lab shows
\* the outcome of its run, and an order is decided as the vault program would.
THEOREM ShownChecksCorrect ==
    ASSUME OperationsAssumption, IncidentAssumption, LabAssumption, ReplayAssumption
    PROVE  OperationsSpec => []ShownChecksAreTrue
<1>1. CacheInvariant => Cache!OneScanAtATime /\ Cache!ShownAttemptIsLater
    BY ScansAreSingle, AttemptsAreLater
<1>2. StatusInvariant => Status!OfferedProofsWereChecked /\ Status!ShownStatusIsRecent
    BY Zenon DEF StatusInvariant, PanelIsFoundOut, FoundOut,
                 Status!OfferedProofsWereChecked, Status!ShownStatusIsRecent
<1>3. CacheInvariant /\ StatusInvariant
        /\ (Incident!ShownDecisionIsTheRule /\ Incident!TimerMeansPlaying)
        /\ (Lab!LabShowsItsRun /\ Lab!KitDecidesAsTheVault)
        /\ (Replay!ShownVaultIsTheProgram /\ Replay!ReplayTimerMeansPlaying)
            => ShownChecksAreTrue
    BY <1>1, <1>2 DEF ShownChecksAreTrue
<1> QED  BY <1>3, CacheInvariantHolds, StatusInvariantHolds, IncidentHolds, LabHolds,
            ReplayHolds, PTL

=============================================================================
