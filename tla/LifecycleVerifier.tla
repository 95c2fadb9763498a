-------------------------- MODULE LifecycleVerifier --------------------------
(***************************************************************************)
(* One run of the read-only verifier of a recorded lifecycle               *)
(* (lib/proof/v4LifecycleVerifier.ts and v3LifecycleVerifier.ts) over the  *)
(* retrying JSON-RPC transport of lib/proof/serverRpc.ts, and the deadline *)
(* its caller sets.                                                        *)
(*                                                                         *)
(* The checks of one read are one group: what a group compares is left to  *)
(* "matches", the groups in which the record and the chain agree.  What a  *)
(* run concludes depends on which reads succeed, on how the failures of    *)
(* the others are classified, and on whether every group was reached.      *)
(***************************************************************************)
EXTENDS Naturals, Sequences

CONSTANTS
    Version,             \* "v3" or "v4"
    Transactions,        \* how many transactions the record lists
    BatchSize,           \* how many of them one request asks for
    TransportAttempts,   \* tries of one HTTP request: 3
    ReadAttempts         \* tries of one transaction read: 8, of a batch 4

\* The stages of a run: "record" needs no request, the others are one read each
\* ("transactions": one for every batch).  V3 reads the accounts that should be
\* closed together with the durable ones.
Stages ==
    <<"record", "slot", "program", "accounts", "roots", "transactions">>
        \o (IF Version = "v4" THEN <<"closures">> ELSE <<>>)
StageSet == {Stages[i] : i \in DOMAIN Stages}

GroupSet == {"record", "program", "ownership", "roots", "state", "transactions",
             "closures"}

\* The groups compared when a stage's answer has arrived.
ComparedAt(stage) ==
    CASE stage = "record" -> {"record"}
      [] stage = "slot" -> {}          \* it only shows that the node answers
      [] stage = "program" -> {"program"}
      [] stage = "accounts" -> IF Version = "v4" THEN {"ownership"} ELSE {}
      [] stage = "roots" ->
            {"roots", "state"}
                \cup (IF Version = "v3" THEN {"ownership", "closures"} ELSE {})
      [] stage = "transactions" -> {"transactions"}
      [] stage = "closures" -> {"closures"}

Statuses == {"VERIFIED", "FAILED", "UNKNOWN"}

\* How a request may end, other than with an answer: the RPC node limits
\* the rate or answers 5xx, the network fails, eight seconds pass without an
\* answer, or the caller's deadline does.
Errors == {"rateLimit", "serverError", "network", "timeout", "deadline"}

\* rpcUnavailable: the messages its pattern matches.  "RPC request timed out",
\* "Verification timed out" and "503 Service Unavailable" are not among them.
RpcUnavailable(e) == e \in {"rateLimit", "network"}

VARIABLES
    matches,       \* the groups in which the chain bears the record out
    missing,       \* what is not there: "accounts" or "transactions" of the node,
                   \* "closureEntries" of the record
    stage,         \* the index of the stage under way
    read,          \* transactions read so far
    tries,         \* of the current transaction read
    request,       \* of the transport: "idle", "sent", "backoff"
    attempt,       \* of the transport
    error,         \* how the last request ended: an error, or "none"
    checks,        \* the statuses pushed so far, by group; "rpc" and "onchain"
                   \* are the checks of a run that could not go on
    expired,       \* the caller's deadline has passed
    verdict        \* "none" until finish

vars == <<matches, missing, stage, read, tries, request, attempt, error, checks,
          expired, verdict>>

world == <<matches, missing>>
Absences == {"accounts", "transactions", "closureEntries"}

Current == Stages[stage]
CheckIds == GroupSet \cup {"rpc", "onchain"}
Done == verdict # "none"

-----------------------------------------------------------------------------
Init ==
    /\ matches \in SUBSET GroupSet
    /\ missing \in SUBSET Absences
    /\ stage = 1
    /\ read = 0
    /\ tries = 0
    /\ request = "idle"
    /\ attempt = 0
    /\ error = "none"
    /\ checks = [c \in CheckIds |-> {}]
    /\ expired = FALSE
    /\ verdict = "none"

\* statusFrom.
StatusFrom(cs) ==
    LET pushed == UNION {cs[c] : c \in CheckIds}
    IN  IF "FAILED" \in pushed THEN "FAILED"
        ELSE IF "UNKNOWN" \in pushed THEN "UNKNOWN"
        ELSE "VERIFIED"

Push(id, status) == [checks EXCEPT ![id] = @ \cup {status}]

\* The checks after the comparisons of a stage.
Compared(st) ==
    [c \in CheckIds |->
        IF c \in ComparedAt(st)
        THEN checks[c] \cup {IF c \in matches THEN "VERIFIED" ELSE "FAILED"}
        ELSE checks[c]]

Finish(cs) ==
    /\ checks' = cs
    /\ verdict' = StatusFrom(cs)

\* V4 asks for the closed accounts only if the record lists some.
NoClosures == Version = "v4" /\ "closureEntries" \in missing

AtEnd ==
    \/ stage = Len(Stages)
    \/ Current = "transactions" /\ NoClosures

\* To the next stage, or to the end.
Proceed(cs) ==
    /\ checks' = cs
    /\ IF AtEnd
       THEN verdict' = StatusFrom(cs) /\ UNCHANGED stage
       ELSE stage' = stage + 1 /\ UNCHANGED verdict

-----------------------------------------------------------------------------
(* What the record says of itself: no request.                             *)

CheckRecord ==
    /\ ~ Done
    /\ Current = "record"
    /\ Proceed(Compared("record"))
    /\ UNCHANGED <<world, read, tries, request, attempt, error, expired>>

\* A record that is absent, not recorded or of another version.
NoRecord ==
    /\ ~ Done
    /\ Current = "record"
    /\ Finish(Push("record", "UNKNOWN"))
    /\ UNCHANGED <<world, stage, read, tries, request, attempt, error, expired>>

-----------------------------------------------------------------------------
(* createResilientRpcFetch.                                                *)

\* A fetch whose signal is aborted already rejects at once.
Fetch ==
    IF expired THEN request' = "idle" /\ error' = "deadline"
               ELSE request' = "sent" /\ UNCHANGED error

Send ==
    /\ ~ Done
    /\ Current # "record"
    /\ request = "idle"
    /\ error = "none"
    /\ Fetch
    /\ attempt' = 1
    /\ UNCHANGED <<world, stage, read, tries, checks, expired, verdict>>

\* Slip: one attempt too many.
RetriedOnceMore(e) == e # "deadline" /\ attempt <= TransportAttempts

\* Answers 429 and 5xx and thrown errors are tried again, but for an abort.
Retried(e) == e # "deadline" /\ attempt < TransportAttempts

RequestFails ==
    /\ ~ Done
    /\ request = "sent"
    /\ \E e \in Errors :
          /\ (e = "deadline") = expired
          /\ IF Retried(e)
             THEN request' = "backoff" /\ UNCHANGED error
             ELSE request' = "idle" /\ error' = e
    /\ UNCHANGED <<world, stage, read, tries, attempt, checks, expired, verdict>>

Resend ==
    /\ ~ Done
    /\ request = "backoff"
    /\ Fetch
    /\ attempt' = attempt + 1
    /\ UNCHANGED <<world, stage, read, tries, checks, expired, verdict>>

-----------------------------------------------------------------------------
(* What the verifier does with an answer.                                  *)

\* The deadline no longer reaches a request whose headers have arrived: a body
\* may still be read to its end after it.
AnswerArrives ==
    /\ ~ Done
    /\ request = "sent"
    /\ request' = "idle"
    /\ attempt' = 0
    /\ UNCHANGED <<world, error, expired>>

\* The slot, or the accounts of a stage.  A durable account that is missing is
\* an error of its own: FAILED, and the run stops.
ReadAccounts ==
    /\ Current \in {"slot", "program", "accounts", "roots", "closures"}
    /\ AnswerArrives
    /\ IF Current = "accounts" /\ "accounts" \in missing
       THEN Finish(Push("onchain", "FAILED")) /\ UNCHANGED stage
       ELSE Proceed(Compared(Current))
    /\ UNCHANGED <<read, tries>>

AtMost(n, m) == IF n < m THEN n ELSE m

\* Slip: a transaction the node does not have is passed over.
TransactionsReadPassingOver == Compared("transactions")

\* The checks made once all are fetched.
TransactionsRead ==
    IF "transactions" \in missing THEN Push("transactions", "UNKNOWN")
                                  ELSE Compared("transactions")

\* getFinalizedTransactions, one transaction or one batch at a time.
ReadTransactions ==
    /\ Current = "transactions"
    /\ AnswerArrives
    /\ tries' = 0
    /\ read' = AtMost(read + BatchSize, Transactions)
    /\ IF read' = Transactions THEN Proceed(TransactionsRead)
                               ELSE UNCHANGED <<stage, checks, verdict>>

-----------------------------------------------------------------------------
(* What the verifier does with a request that failed.                      *)

Rereads == Current = "transactions" /\ RpcUnavailable(error)
                                    /\ tries + 1 < ReadAttempts

\* Slip: the error is swallowed, the run ends with the checks it has.
ConcludeSwallowing == checks

\* The catch clauses: of getSlot, always UNKNOWN; of the rest, by the message.
Conclude ==
    IF Current = "slot" THEN Push("rpc", "UNKNOWN")
    ELSE Push("onchain", IF RpcUnavailable(error) THEN "UNKNOWN" ELSE "FAILED")

\* Slip: the reads of a transaction are not counted.
RequestGivesUpUncounted ==
    /\ ~ Done
    /\ error # "none"
    /\ error' = "none"
    /\ attempt' = 0
    /\ IF Rereads THEN UNCHANGED <<checks, verdict>> ELSE Finish(Conclude)
    /\ UNCHANGED <<world, stage, read, tries, request, expired>>

RequestGivesUp ==
    /\ ~ Done
    /\ error # "none"
    /\ error' = "none"
    /\ attempt' = 0
    /\ IF Rereads
       THEN /\ tries' = tries + 1       \* sleeps, and reads the same again
            /\ UNCHANGED <<checks, verdict>>
       ELSE /\ Finish(Conclude)
            /\ UNCHANGED tries
    /\ UNCHANGED <<world, stage, read, request, expired>>

\* The caller aborts: 45 seconds for V4, 30 for V3.
DeadlinePasses ==
    /\ ~ Done
    /\ ~ expired
    /\ expired' = TRUE
    /\ UNCHANGED <<world, stage, read, tries, request, attempt, error, checks,
                   verdict>>

-----------------------------------------------------------------------------
Answer == ReadAccounts \/ ReadTransactions

Next ==
    \/ CheckRecord
    \/ NoRecord
    \/ Send
    \/ RequestFails
    \/ Resend
    \/ ReadAccounts
    \/ ReadTransactions
    \/ RequestGivesUp
    \/ DeadlinePasses

\* Code between two awaits runs, a request is answered or fails (it has a
\* timeout), a sleep ends.  Nothing is said of how often a request succeeds.
Fairness ==
    /\ WF_vars(CheckRecord)
    /\ WF_vars(Send)
    /\ WF_vars(Answer \/ RequestFails)
    /\ WF_vars(Resend)
    /\ WF_vars(RequestGivesUp)

Spec == Init /\ [][Next]_vars /\ Fairness

-----------------------------------------------------------------------------
(* Properties.                                                             *)

VerifierTypeOK ==
    /\ matches \subseteq GroupSet
    /\ missing \subseteq Absences
    /\ stage \in DOMAIN Stages
    /\ read \in 0 .. Transactions
    /\ tries \in 0 .. (ReadAttempts - 1)
    /\ request \in {"idle", "sent", "backoff"}
    /\ attempt \in 0 .. TransportAttempts
    /\ error \in Errors \cup {"none"}
    /\ checks \in [CheckIds -> SUBSET Statuses]
    /\ expired \in BOOLEAN
    /\ verdict \in Statuses \cup {"none"}

\* What there is to compare: closures are not, of a V4 record that lists none.
GroupsOfRecord == IF NoClosures THEN GroupSet \ {"closures"} ELSE GroupSet

\* VERIFIED is said only of a lifecycle whose every group was read and agreed,
\* with every account and transaction found: no failure of the transport, and no
\* way out of the run, counts as success.
VerifiedMeansAllAgreed ==
    verdict = "VERIFIED" =>
        /\ GroupsOfRecord \subseteq matches
        /\ missing \cap {"accounts", "transactions"} = {}
        /\ read = Transactions
        /\ \A g \in GroupsOfRecord : checks[g] = {"VERIFIED"}

\* A run comes to a verdict however the requests go.
RunConcludes == <>Done
=============================================================================
