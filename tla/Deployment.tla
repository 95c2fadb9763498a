----------------------------- MODULE Deployment -----------------------------
(***************************************************************************)
(* The deployment of the vault program to devnet, as two scripts do it:    *)
(*                                                                         *)
(*   src/scripts/fairx-v4-construct-deployment.ts  builds the plan from a  *)
(*     snapshot of devnet, plays it in a local virtual machine and reports *)
(*     what it will cost; it sends nothing;                                *)
(*   src/scripts/fairx-v4-send-continuation.ts  sends the plan of a        *)
(*     deployment whose buffer exists, every write again and then the      *)
(*     deployment, each transaction once.                                  *)
(*                                                                         *)
(* The buffer is created, and partly written, by an attempt before them.   *)
(* A script may stop between any two steps, is then run again, and two     *)
(* runs may overlap; a transaction it sent may land after it stopped.      *)
(***************************************************************************)
EXTENDS Integers, FiniteSets, FiniteSetsExt, Sequences, SequencesExt

CONSTANTS
    Null,
    Runs,             \* runs of send-continuation
    BINARY_SIZE,      \* of the program, in words
    CHUNK_SIZE,       \* words of one write
    RevalidateEvery,  \* writes between two looks at devnet
    ProgramRent,      \* rent of the program account
    ProgramDataRent,  \* rent of the program's data, and of the buffer
    StartBalance,     \* of the fee payer
    MaxOther          \* times the payer spends, or the buffer is funded, elsewhere

VARIABLES
    chain,     \* the accounts of the deployment on devnet
    tool,      \* the run of construct-deployment
    run,       \* the runs of send-continuation
    pending,   \* for each run, the transaction it sent that has no result yet
    touched,   \* who changed the chain since the tool began to read it
    others     \* spendings and fundings outside the scripts

deployVars == <<chain, tool, run, pending, touched, others>>

-----------------------------------------------------------------------------
(* The plan.                                                               *)

\* The program's binary, whose hash both scripts require.
Binary == [i \in 1..BINARY_SIZE |-> i]

Blank == [i \in 1..BINARY_SIZE |-> 0]

\* `writeInstruction`: the words from an offset on.
WriteTx(offset, bytes) == [kind |-> "loader-write", offset |-> offset, bytes |-> bytes]

\* `deployInstruction`, after the creation of the program's account.
DeployTx == [kind |-> "program-deploy", offset |-> 0, bytes |-> <<>>]

\* The creation of the buffer.
InitialTx == [kind |-> "buffer-create", offset |-> 0, bytes |-> <<>>]

\* Slip: the loop stops when less than a whole chunk is left.
WholeChunksOnly ==
    {offset \in 0..(BINARY_SIZE - CHUNK_SIZE) : offset % CHUNK_SIZE = 0}

\* The offsets of the loop over the binary.
Offsets == {offset \in 0..(BINARY_SIZE - 1) : offset % CHUNK_SIZE = 0}

SmallerOf(a, b) == IF a < b THEN a ELSE b

\* One write for each chunk, the last one shorter.
Writes ==
    LET At(i) == (i - 1) * CHUNK_SIZE
    IN  [i \in 1..Cardinality(Offsets) |->
            WriteTx(At(i), SubSeq(Binary, At(i) + 1,
                                  SmallerOf(At(i) + CHUNK_SIZE, BINARY_SIZE)))]

\* The transactions of the plan; the buffer is there already when it resumes.
Transactions(resume) == (IF resume THEN <<>> ELSE <<InitialTx>>) \o Writes \o <<DeployTx>>

\* What a transaction's signatures cost, one lamport each; the creation of an
\* account is signed by the account too.
Fee(tx) == IF tx.kind = "loader-write" THEN 1 ELSE 2

FeeBudget(txs) == MapThenSumSet(LAMBDA i : Fee(txs[i]), DOMAIN txs)

\* What the plan may cost, rent and fees.
MaximumBudget(resume) ==
    ProgramRent + (IF resume THEN 0 ELSE ProgramDataRent) + FeeBudget(Transactions(resume))

\* What one run of the continuation may cost.
MaximumDebit == ProgramRent + FeeBudget(Transactions(TRUE))

-----------------------------------------------------------------------------
(* The loader of the chain.                                                *)

\* Whether a transaction succeeds in a state of the accounts.
Lands(tx, c) ==
    /\ c.balance >= Fee(tx)
    /\ CASE tx.kind = "buffer-create" ->
               c.buffer = Null /\ c.balance >= Fee(tx) + ProgramDataRent
         [] tx.kind = "loader-write" -> c.buffer # Null
         [] tx.kind = "program-deploy" ->
               /\ c.program = Null
               /\ c.buffer # Null
               /\ c.balance >= Fee(tx) + ProgramRent

\* Its effect. The deployment takes the buffer's words for the program, and its
\* lamports for the rent of the program's data, the rest going to the payer.
After(tx, c) ==
    LET paid == [c EXCEPT !.balance = @ - Fee(tx)]
    IN  CASE tx.kind = "buffer-create" ->
               [paid EXCEPT !.buffer = [data |-> Blank, lamports |-> ProgramDataRent],
                            !.balance = @ - ProgramDataRent]
          [] tx.kind = "loader-write" ->
               [paid EXCEPT !.buffer.data =
                   [i \in 1..BINARY_SIZE |->
                       IF i - tx.offset \in 1..Len(tx.bytes) THEN tx.bytes[i - tx.offset]
                       ELSE @[i]]]
          [] tx.kind = "program-deploy" ->
               [paid EXCEPT !.program = c.buffer.data,
                            !.buffer = Null,
                            !.balance = @ - ProgramRent + c.buffer.lamports - ProgramDataRent]

\* The local virtual machine plays the transactions in order, one that fails
\* stopping it.
Played(txs, c) ==
    FoldLeft(LAMBDA state, tx :
                 IF state = Null \/ ~Lands(tx, state) THEN Null ELSE After(tx, state),
             c, txs)

-----------------------------------------------------------------------------
(* construct-deployment.ts.                                                *)

Accounts == {"program", "buffer", "balance"}

\* The tool at rest; `seen` is its snapshot and `read` the part of it that is read,
\* both forgotten when it ends.
ToolAt(pc, resume, remaining) ==
    [pc |-> pc, resume |-> resume, read |-> {}, remaining |-> remaining,
     seen |-> [program |-> Null, buffer |-> Null, balance |-> 0]]

\* The tool begins; --resume says that the buffer is expected.
ConstructBegins ==
    /\ tool.pc = "off"
    /\ \E resume \in BOOLEAN : tool' = ToolAt("reading", resume, 0)
    /\ UNCHANGED <<chain, run, pending, touched, others>>

\* It asks for the accounts at once, and they are answered one by one.
ConstructReads ==
    /\ tool.pc = "reading"
    /\ \E field \in Accounts \ tool.read :
           tool' = [tool EXCEPT !.read = @ \cup {field}, !.seen[field] = chain[field]]
    /\ touched' = IF tool.read = {} THEN {} ELSE touched
    /\ UNCHANGED <<chain, run, pending, others>>

\* The assertions on the snapshot, and on what the payer holds.
SnapshotFits ==
    /\ tool.seen.program = Null
    /\ IF tool.resume
       THEN tool.seen.buffer # Null /\ tool.seen.buffer.lamports >= ProgramDataRent
       ELSE tool.seen.buffer = Null
    /\ tool.seen.balance >= 2 * MaximumBudget(tool.resume)

\* What must be left of the payer's balance.
Remaining == tool.seen.balance - MaximumBudget(tool.resume)

\* The local virtual machine must end with the binary deployed, no buffer, and a
\* payer who paid exactly the budget.
PlaysAsExpected ==
    Played(Transactions(tool.resume), tool.seen)
        = [program |-> Binary, buffer |-> Null, balance |-> Remaining]

\* With the snapshot complete, one transaction of the plan is simulated on devnet as
\* it is now (`simulateOnDevnet`), the whole plan on the snapshot, and it reports.
ConstructReports ==
    /\ tool.pc = "reading"
    /\ tool.read = Accounts
    /\ tool' = IF /\ SnapshotFits
                  /\ Lands(Head(Transactions(tool.resume)), chain)
                  /\ PlaysAsExpected
               THEN ToolAt("reported", tool.resume, Remaining)
               ELSE ToolAt("failed", tool.resume, 0)
    /\ UNCHANGED <<chain, run, pending, touched, others>>

-----------------------------------------------------------------------------
(* send-continuation.ts.                                                   *)

\* `alone` and `approved` are what its properties need: nobody else changed the
\* chain since it began; it began after the tool's report.
RunInit ==
    [pc |-> "off", index |-> 0, start |-> 0, why |-> Null, alone |-> TRUE, approved |-> FALSE]

\* `validateLiveState`.
LiveStateIsValid ==
    /\ chain.program = Null
    /\ chain.buffer # Null
    /\ chain.buffer.lamports = ProgramDataRent

\* The run's process ends without finishing.
Stopped(r, why) == run' = [run EXCEPT ![r].pc = "stopped", ![r].why = why, ![r].start = 0]

\* It goes on when the assertion holds, and stops when it does not.
Goes(r, assertion, to) ==
    IF assertion THEN run' = [run EXCEPT ![r].pc = to] ELSE Stopped(r, "guard")

\* --execute and the hash of the approved plan, then the first look at devnet.
RunBegins(r) ==
    /\ run[r].pc = "off"
    /\ LET begun == [RunInit EXCEPT !.approved = tool.pc = "reported" /\ tool.resume]
       IN  run' = [run EXCEPT ![r] =
                      IF LiveStateIsValid THEN [begun EXCEPT !.pc = "funding"]
                      ELSE [begun EXCEPT !.pc = "stopped", !.why = "guard"]]
    /\ UNCHANGED <<chain, tool, pending, touched, others>>

\* The starting balance must cover the maximum debit.
RunIsFunded(r) ==
    /\ run[r].pc = "funding"
    /\ IF chain.balance >= MaximumDebit
       THEN run' = [run EXCEPT ![r].pc = "ready", ![r].index = 1, ![r].start = chain.balance]
       ELSE Stopped(r, "guard")
    /\ UNCHANGED <<chain, tool, pending, touched, others>>

\* The transaction whose turn it is.
Current(r) == Transactions(TRUE)[run[r].index]

IsFinal(r) == run[r].index = Len(Transactions(TRUE))

\* Devnet is looked at again after every so many writes, and before the deployment.
IsDue(r) == IsFinal(r) \/ (run[r].index > 1 /\ (run[r].index - 1) % RevalidateEvery = 0)

RunRevalidates(r) ==
    /\ run[r].pc = "ready"
    /\ IsDue(r)
    /\ Goes(r, LiveStateIsValid, "checked")
    /\ UNCHANGED <<chain, tool, pending, touched, others>>

\* The ceiling on what may be debited, with what the deployment will debit.
RunChecksCeiling(r) ==
    /\ run[r].pc = "checked"
    /\ LET toCome == IF IsFinal(r) THEN ProgramRent + Fee(DeployTx) ELSE 0
       IN  Goes(r, run[r].start - chain.balance + toCome <= MaximumDebit, "cleared")
    /\ UNCHANGED <<chain, tool, pending, touched, others>>

\* `sendAndConfirmOnce`: the preflight simulates it, and it is sent once.
RunSends(r) ==
    /\ run[r].pc = "cleared" \/ (run[r].pc = "ready" /\ ~IsDue(r))
    /\ Goes(r, Lands(Current(r), chain), "sent")
    /\ pending' = IF Lands(Current(r), chain)
                  THEN [pending EXCEPT ![r] = [tx |-> Current(r), result |-> Null]] ELSE pending
    /\ UNCHANGED <<chain, tool, touched, others>>

\* Somebody changed the chain: other runs are not alone, and a snapshot is not all.
Touch(actor) ==
    /\ touched' = IF tool.pc \in {"reading", "reported"} THEN touched \cup {actor} ELSE {}
    /\ run' = [r \in Runs |->
                  IF r # actor /\ run[r].pc \notin {"off", "stopped", "done"}
                  THEN [run[r] EXCEPT !.alone = FALSE] ELSE run[r]]

IsPending(r) == pending[r] # Null /\ pending[r].result = Null

\* The result of what it sent, for a run that still waits for it.
Answered(r, result) ==
    pending' = IF run[r].pc = "sent" THEN [pending EXCEPT ![r].result = result]
               ELSE [pending EXCEPT ![r] = Null]

\* The transaction is executed; one that fails costs its fee.
TransactionLands(r) ==
    /\ IsPending(r)
    /\ LET tx == pending[r].tx
           lands == Lands(tx, chain)
       IN  /\ chain' = IF lands THEN After(tx, chain)
                       ELSE [chain EXCEPT !.balance = @ - SmallerOf(@, Fee(tx))]
           /\ Answered(r, IF lands THEN "landed" ELSE "failed")
    /\ Touch(r)
    /\ UNCHANGED <<tool, others>>

\* Its blockhash expires before a leader takes it.
TransactionExpires(r) ==
    /\ IsPending(r)
    /\ Answered(r, "expired")
    /\ UNCHANGED <<chain, tool, run, touched, others>>

\* The confirmation; after the deployment the ceiling is looked at once more.
RunConfirms(r) ==
    /\ run[r].pc = "sent"
    /\ ~IsPending(r)
    /\ IF pending[r].result = "landed"
       THEN run' = [run EXCEPT ![r].pc = IF IsFinal(r) THEN "deployed" ELSE "ready",
                               ![r].index = IF IsFinal(r) THEN @ ELSE @ + 1]
       ELSE Stopped(r, IF pending[r].result = "failed" THEN "guard" ELSE "network")
    /\ pending' = [pending EXCEPT ![r] = Null]
    /\ UNCHANGED <<chain, tool, touched, others>>

RunCompletes(r) ==
    /\ run[r].pc = "deployed"
    /\ IF run[r].start - chain.balance <= MaximumDebit
       THEN run' = [run EXCEPT ![r].pc = "done", ![r].start = 0]
       ELSE Stopped(r, "guard")
    /\ UNCHANGED <<chain, tool, pending, touched, others>>

\* The process dies, or a call of it fails, whatever it was waiting for.
RunCrashes(r) ==
    /\ run[r].pc \notin {"off", "stopped", "done"}
    /\ Stopped(r, "network")
    /\ pending' = IF IsPending(r) THEN pending ELSE [pending EXCEPT ![r] = Null]
    /\ UNCHANGED <<chain, tool, touched, others>>

-----------------------------------------------------------------------------
(* Everyone else.                                                          *)

\* The attempt before the scripts goes on: it creates the buffer, or writes a chunk.
AttemptSends ==
    /\ chain.program = Null
    /\ others < MaxOther
    /\ \E tx \in ToSet(Transactions(FALSE)) \ {DeployTx} :
           Lands(tx, chain) /\ chain' = After(tx, chain)
    /\ others' = others + 1
    /\ Touch("attempt")
    /\ UNCHANGED <<tool, pending>>

\* The payer spends elsewhere, or somebody sends lamports to the buffer.
OthersPay ==
    /\ others < MaxOther
    /\ others' = others + 1
    /\ \/ chain.balance > 0 /\ chain' = [chain EXCEPT !.balance = @ - 1]
       \/ chain.buffer # Null /\ chain' = [chain EXCEPT !.buffer.lamports = @ + 1]
    /\ Touch("others")
    /\ UNCHANGED <<tool, pending>>

\* A buffer that the attempt created and wrote some chunks of, if it got so far.
AttemptedBuffers ==
    {Null} \cup
    {[data |-> [i \in 1..BINARY_SIZE |->
                  IF \E k \in written : i - Writes[k].offset \in 1..CHUNK_SIZE
                  THEN Binary[i] ELSE 0],
      lamports |-> ProgramDataRent] : written \in SUBSET (DOMAIN Writes)}

DeployInit ==
    /\ \E left \in AttemptedBuffers :
           chain = [program |-> Null, buffer |-> left, balance |-> StartBalance]
    /\ tool = ToolAt("off", FALSE, 0)
    /\ run = [r \in Runs |-> RunInit]
    /\ pending = [r \in Runs |-> Null]
    /\ touched = {}
    /\ others = 0

RunStep(r) ==
    \/ RunBegins(r)
    \/ RunIsFunded(r)
    \/ RunRevalidates(r)
    \/ RunChecksCeiling(r)
    \/ RunSends(r)
    \/ TransactionLands(r)
    \/ TransactionExpires(r)
    \/ RunConfirms(r)
    \/ RunCompletes(r)
    \/ RunCrashes(r)

DeployNext ==
    \/ ConstructBegins
    \/ ConstructReads
    \/ ConstructReports
    \/ \E r \in Runs : RunStep(r)
    \/ AttemptSends
    \/ OthersPay

-----------------------------------------------------------------------------
(* What the deployment promises.                                           *)

ChainStates ==
    [program : {Null, Binary} \cup [1..BINARY_SIZE -> 0..BINARY_SIZE],
     buffer : {Null} \cup [data : [1..BINARY_SIZE -> 0..BINARY_SIZE], lamports : Nat],
     balance : Nat]

DeployTypeOK ==
    /\ chain \in ChainStates
    /\ tool.pc \in {"off", "reading", "reported", "failed"}
    /\ tool.read \subseteq Accounts
    /\ tool.seen \in ChainStates
    /\ \A r \in Runs :
           /\ run[r].pc \in {"off", "funding", "ready", "checked", "cleared", "sent", "deployed",
                             "done", "stopped"}
           /\ run[r].index \in 0..Len(Transactions(TRUE))
           /\ run[r].why \in {Null, "guard", "network"}
    /\ touched \subseteq Runs \cup {"attempt", "others"}
    /\ others \in 0..MaxOther

\* What is deployed is the approved binary, whatever the earlier attempt wrote,
\* wherever runs stopped and however they overlapped.
DeployedIsTheBinary == chain.program \in {Null, Binary}

\* One run deploys: another that was on its way stops.
OneRunDeploys ==
    /\ Cardinality({r \in Runs : run[r].pc = "done"}) <= 1
    /\ \A r \in Runs : run[r].pc = "done" => chain.program # Null

\* Once begun, a run that nobody disturbs meets every assertion it makes later: the
\* ceiling is exactly its own cost, and its own writes keep the state valid.
LoneRunIsNotStopped ==
    \A r \in Runs : run[r].why = "guard" /\ run[r].index > 0 => ~run[r].alone

\* The reported plan is what happens: a run that began after the report and was the
\* only one to change the chain since the snapshot leaves the payer what was said.
ReportIsKept ==
    \A r \in Runs :
        tool.pc = "reported" /\ run[r].approved /\ run[r].pc = "done" /\ touched = {r} =>
            chain.balance = tool.remaining

=============================================================================
