---------------------------- MODULE RuntimeStatus ----------------------------
(***************************************************************************)
(* The runtime status: lib/status/runtime.ts looks at the configuration,   *)
(* at the operator, at TxLINE and at the deployed program, caches what it  *)
(* found, and api/status serves it; hooks/useRuntimeStatus.ts shows it on  *)
(* every page, and FreshDevnetPanel lets nobody run a fresh proof unless   *)
(* the status that it shows says that the program is the recorded one.     *)
(*                                                                         *)
(* A check takes several answers of the chain, the program may be upgraded *)
(* between any two of them, and a page has as many requests under way as   *)
(* it was asked for: their answers come in any order.                      *)
(***************************************************************************)
EXTENDS Integers, Sequences

CONSTANTS
    Null,
    Pages,
    Programs,        \* what may be deployed: [hash, length], as programs or closed
    Records,         \* the ProgramData hashes a record may hold, Null for no record
    ProbeOutcomes,   \* which probes of TxLINE may answer, as sets
    SettlementV5Length, SettlementV4Length, SettlementV3Length, MarketConfigLength,
    StatusCacheTtl,  \* STATUS_CACHE_TTL_MS
    PageTimeout,     \* of the request of a page
    MaxTime,         \* bound: of the clock
    MaxCalls         \* bound: of requests

VARIABLES
    statusNow,       \* Date.now(), of pages and server
    env,             \* the configuration, the recorded hash, operator and vault
    deployed,        \* the program of the cluster: its ProgramData, Null when closed
    matches,         \* history: when the program was the recorded one
    cachedStatus,    \* [value, cachedAt] or Null
    statusRequest,   \* the check that is under way, or Null
    calls,           \* the requests of the pages, in the order they were sent
    panels           \* per page: what it shows and what it runs

statusVars == <<statusNow, env, deployed, matches, cachedStatus, statusRequest,
                calls, panels>>

Sides == {"YES", "NO"}
ProbeNames == {"fixtures", "scores", "odds", "scoresStream", "oddsStream"}

\* base, before anything was looked at; completedAt is history, of the check's end.
Base ==
    [ checkedAt |-> statusNow, completedAt |-> statusNow, rpcConnected |-> FALSE,
      programExecutable |-> FALSE, schemaCurrent |-> FALSE, schemaLabel |-> "unknown",
      operatorConfigured |-> FALSE,
      lowBalance |-> FALSE, vaultExists |-> FALSE, probes |-> {},
      txlineMode |-> "unconfigured", freshProofAvailable |-> FALSE,
      level |-> "limited" ]

IsRecorded(program) ==
    program # Null /\ env.recorded # Null /\ program.hash = env.recorded

MatchesAt(t, program) == IF IsRecorded(program) THEN {t} ELSE {}

StatusInit ==
    /\ statusNow = 0
    /\ env \in [ cluster : {"devnet", "localnet", "unconfigured"},
                 programIdValid : BOOLEAN, recorded : Records,
                 balance : {"none", "low", "safe"}, vaultExists : BOOLEAN ]
    /\ deployed \in Programs
    /\ matches = MatchesAt(0, deployed)
    /\ cachedStatus = Null /\ statusRequest = Null
    /\ calls = << >>
    /\ panels = [p \in Pages |->
           [status |-> Null, shownAt |-> 0, loading |-> TRUE, failed |-> FALSE,
            mounted |-> FALSE, running |-> Null, runs |-> << >>]]

-----------------------------------------------------------------------------
(* The check: computeFairXRuntimeStatus.                                   *)

\* The check is over: it is cached from now on, and whoever waits has it.
Concludes(status) ==
    LET value == [status EXCEPT !.completedAt = statusNow]
    IN  /\ cachedStatus' = [value |-> value, cachedAt |-> statusNow]
        /\ statusRequest' = Null
        /\ calls' = [c \in DOMAIN calls |->
               IF calls[c].state = "waits"
               THEN [calls[c] EXCEPT !.state = "answered", !.value = value]
               ELSE calls[c]]
        /\ UNCHANGED <<statusNow, env, deployed, matches, panels>>

\* Slip: the age of the cached status is not looked at.
GetStatusOfAnyAge(c) ==
    /\ calls[c].state = "sent"
    /\ IF cachedStatus # Null
       THEN /\ calls' = [calls EXCEPT ![c].state = "answered",
                                      ![c].value = cachedStatus.value]
            /\ UNCHANGED statusRequest
       ELSE /\ calls' = [calls EXCEPT ![c].state = "waits"]
            /\ statusRequest' = IF statusRequest # Null THEN statusRequest
                                ELSE [asks |-> "services", status |-> Base]
    /\ UNCHANGED <<statusNow, env, deployed, matches, cachedStatus, panels>>

\* getFairXRuntimeStatus: the cached status while it is young, else the check that is
\* under way, else one of its own.
GetStatus(c) ==
    /\ calls[c].state = "sent"
    /\ IF cachedStatus # Null /\ statusNow - cachedStatus.cachedAt < StatusCacheTtl
       THEN /\ calls' = [calls EXCEPT ![c].state = "answered",
                                      ![c].value = cachedStatus.value]
            /\ UNCHANGED statusRequest
       ELSE /\ calls' = [calls EXCEPT ![c].state = "waits"]
            /\ statusRequest' = IF statusRequest # Null THEN statusRequest
                                ELSE [asks |-> "services", status |-> Base]
    /\ UNCHANGED <<statusNow, env, deployed, matches, cachedStatus, panels>>

\* No cluster or no program: nothing is asked.
NotConfigured ==
    /\ statusRequest # Null /\ statusRequest.asks = "services"
    /\ env.cluster = "unconfigured" \/ ~ env.programIdValid
    /\ Concludes(statusRequest.status)

\* The operator's balance, which counts as none when the node does not answer, and
\* the five probes of txLineConnectionStatus, each of which may fail alone.
AsksServices ==
    /\ statusRequest # Null /\ statusRequest.asks = "services"
    /\ env.cluster # "unconfigured" /\ env.programIdValid
    /\ \E answers \in BOOLEAN, probes \in ProbeOutcomes :
          /\ answers \/ env.balance = "safe"
          /\ statusRequest' =
                [ asks |-> "accounts",
                  status |-> [statusRequest.status EXCEPT
                      !.operatorConfigured = env.balance # "none",
                      !.lowBalance = (env.balance = "low")
                                     \/ (env.balance = "safe" /\ ~ answers),
                      !.probes = probes,
                      !.txlineMode =
                          IF {"scoresStream", "oddsStream"} \subseteq probes
                          THEN "live_connected" ELSE "configured_unreachable"] ]
    /\ UNCHANGED <<statusNow, env, deployed, matches, cachedStatus, calls, panels>>

\* freshProofAvailable and level, when the chain has answered.
Judged(status) ==
    LET fresh == /\ env.cluster = "devnet" /\ status.rpcConnected
                 /\ status.programExecutable /\ status.schemaCurrent
    IN  [status EXCEPT !.freshProofAvailable = fresh,
                       !.level = IF fresh THEN "ready"
                                 ELSE IF status.programExecutable THEN "limited"
                                 ELSE "unavailable"]

\* The slot, the program's account and the vault's, in one answer; without a program
\* there is no ProgramData to ask for.
ReadsAccounts ==
    /\ statusRequest # Null /\ statusRequest.asks = "accounts"
    /\ LET read == [statusRequest.status EXCEPT !.rpcConnected = TRUE,
                                                !.programExecutable = deployed # Null]
       IN  IF deployed = Null
           THEN Concludes(Judged([read EXCEPT !.vaultExists = env.vaultExists]))
           ELSE /\ statusRequest' = [asks |-> "programData", status |-> read]
                /\ UNCHANGED <<statusNow, env, deployed, matches, cachedStatus,
                               calls, panels>>

SchemaLabel(program, current) ==
    IF current THEN "price-weighted-v3"
    ELSE IF program.length >= SettlementV5Length THEN "settlement-v5"
    ELSE IF program.length >= SettlementV4Length THEN "settlement-v4"
    ELSE IF program.length >= SettlementV3Length THEN "settlement-v3"
    ELSE IF program.length >= MarketConfigLength THEN "market-config-v2"
    ELSE "event-hash-v1"

\* Slip: a program of the current size is taken for the recorded one.
SchemaOfSize(program) == program.length >= SettlementV5Length

\* The bytes of the ProgramData account against the record's hash.
SchemaCurrent(program) == IsRecorded(program)

\* The ProgramData account is gone when the program was closed since.
ReadsProgramData ==
    /\ statusRequest # Null /\ statusRequest.asks = "programData"
    /\ LET read == statusRequest.status
           labelled ==
               IF deployed = Null THEN read
               ELSE [read EXCEPT
                   !.schemaCurrent = SchemaCurrent(deployed),
                   !.schemaLabel = SchemaLabel(deployed, SchemaCurrent(deployed))]
       IN  Concludes(Judged([labelled EXCEPT !.vaultExists = env.vaultExists]))

\* The RPC node does not answer: what was read so far is served.
ChainFails ==
    /\ statusRequest # Null /\ statusRequest.asks \in {"accounts", "programData"}
    /\ Concludes(statusRequest.status)

-----------------------------------------------------------------------------
(* The pages: useRuntimeStatus and FreshDevnetPanel.                       *)

Sends(p) ==
    /\ Len(calls) < MaxCalls
    /\ calls' = Append(calls, [page |-> p, askedAt |-> statusNow, state |-> "sent",
                               value |-> Null])

Mount(p) ==
    /\ ~ panels[p].mounted
    /\ Sends(p)
    /\ panels' = [panels EXCEPT ![p].mounted = TRUE]
    /\ UNCHANGED <<statusNow, env, deployed, matches, cachedStatus, statusRequest>>

\* "Recheck", which waits for nothing.
Refresh(p) ==
    /\ panels[p].mounted
    /\ \/ panels[p].failed
       \/ panels[p].status # Null /\ panels[p].status.lowBalance
    /\ Sends(p)
    /\ panels' = [panels EXCEPT ![p].loading = TRUE]
    /\ UNCHANGED <<statusNow, env, deployed, matches, cachedStatus, statusRequest>>

\* setStatus: whichever answer comes last is shown.
Shows(c) ==
    LET p == calls[c].page
    IN  /\ calls[c].state = "answered"
        /\ panels' = [panels EXCEPT ![p].status = calls[c].value,
                                    ![p].shownAt = statusNow,
                                    ![p].failed = FALSE, ![p].loading = FALSE]
        /\ calls' = [calls EXCEPT ![c].state = "closed", ![c].value = Null]
        /\ UNCHANGED <<statusNow, env, deployed, matches, cachedStatus, statusRequest>>

\* The request fails, or its time is over: the status that is shown stays.
GivesUp(c) ==
    LET p == calls[c].page
    IN  /\ calls[c].state # "closed"
        /\ panels' = [panels EXCEPT ![p].failed = TRUE, ![p].loading = FALSE]
        /\ calls' = [calls EXCEPT ![c].state = "closed", ![c].value = Null]
        /\ UNCHANGED <<statusNow, env, deployed, matches, cachedStatus, statusRequest>>

\* run, of the panel.
Run(p, side) ==
    /\ panels[p].status # Null /\ panels[p].status.freshProofAvailable
    /\ panels[p].running = Null
    /\ panels' = [panels EXCEPT ![p].running = side]
    /\ UNCHANGED <<statusNow, env, deployed, matches, cachedStatus, statusRequest, calls>>

\* A run with a proof goes in front of the others, of which three are kept, and has
\* the status refreshed; one without leaves an error.
RunEnds(p) ==
    /\ panels[p].running # Null
    /\ \/ /\ Sends(p)
          /\ panels' = [panels EXCEPT
                 ![p].running = Null, ![p].loading = TRUE,
                 ![p].runs = SubSeq(<<panels[p].running>> \o @, 1,
                                    IF Len(@) < 3 THEN Len(@) + 1 ELSE 4)]
       \/ panels' = [panels EXCEPT ![p].running = Null] /\ UNCHANGED calls
    /\ UNCHANGED <<statusNow, env, deployed, matches, cachedStatus, statusRequest>>

-----------------------------------------------------------------------------
(* The world.                                                              *)

\* The program is upgraded, or closed for good.
Upgrade ==
    /\ deployed # Null
    /\ deployed' \in Programs \ {deployed}
    /\ matches' = matches \cup MatchesAt(statusNow, deployed')
    /\ UNCHANGED <<statusNow, env, cachedStatus, statusRequest, calls, panels>>

\* A page's request is aborted in time.
Tick ==
    /\ statusNow < MaxTime
    /\ \A c \in DOMAIN calls :
          calls[c].state # "closed" => statusNow < calls[c].askedAt + PageTimeout
    /\ statusNow' = statusNow + 1
    /\ matches' = matches \cup MatchesAt(statusNow + 1, deployed)
    /\ UNCHANGED <<env, deployed, cachedStatus, statusRequest, calls, panels>>

StatusNext ==
    \/ NotConfigured \/ AsksServices \/ ReadsAccounts \/ ReadsProgramData \/ ChainFails
    \/ \E c \in DOMAIN calls : GetStatus(c) \/ Shows(c) \/ GivesUp(c)
    \/ \E p \in Pages : Mount(p) \/ Refresh(p) \/ RunEnds(p)
    \/ \E p \in Pages, side \in Sides : Run(p, side)
    \/ Upgrade \/ Tick

-----------------------------------------------------------------------------
(* Properties.                                                             *)

StatusTypeOK ==
    /\ statusNow \in 0 .. MaxTime
    /\ matches \subseteq 0 .. statusNow
    /\ \A p \in Pages :
          /\ panels[p].running \in Sides \cup {Null}
          /\ panels[p].runs \in Seq(Sides) /\ Len(panels[p].runs) <= 4
    /\ \A c \in DOMAIN calls :
          calls[c].state \in {"sent", "waits", "answered", "closed"}

\* A page that offers a fresh proof has a status for it: while that check ran, the
\* recorded program was deployed, whatever was upgraded between its answers.
OfferedProofsWereChecked ==
    \A p \in Pages :
        LET status == panels[p].status
        IN  status # Null /\ status.freshProofAvailable =>
                \E t \in matches : t \in status.checkedAt .. status.completedAt

\* What a page puts up was found out within the lifetime of the cache and of its own
\* request, even when its answers overtook each other.
ShownStatusIsRecent ==
    \A p \in Pages :
        LET status == panels[p].status
        IN  status # Null =>
                panels[p].shownAt - status.completedAt < StatusCacheTtl + PageTimeout
=============================================================================
