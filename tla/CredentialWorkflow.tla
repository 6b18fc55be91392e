------------------------- MODULE CredentialWorkflow -------------------------
(***************************************************************************)
(* From the upload of a talent credential to its verification: the         *)
(* approvals of CredentialService (credential/credential.service.ts), the  *)
(* transactions they queue, what the relayer writes to the credential when *)
(* a transaction is COMPLETED (relayer.service.ts), and the handler of the *)
(* credential.issued event, which continues the workflow.                  *)
(*                                                                         *)
(* Approvals and handlers are async functions that interleave at every     *)
(* await: each is a task with a program counter that keeps what it has     *)
(* read.  The relayer is the TransactionQueue that Relayer implements.     *)
(***************************************************************************)
EXTENDS TransactionQueue, Naturals, FiniteSets

CONSTANTS
  Cred,        \* the talent credentials
  Req,         \* BOUND: the calls of the approve and retry endpoints
  Misleading,  \* the credentials whose title contains "Verify credential"
  IdShape,     \* how the contract announces the id of an issued credential
  Faults       \* the faults of the environment the model allows

ASSUME WorkflowAssumption ==
  /\ Req \cap Tx = {}
  /\ << >> \notin Tx
  /\ IsFiniteSet(Tx)
  /\ Misleading \subseteq Cred
  /\ IdShape \in {"uint256", "bytes32", "unparsed"}
  /\ Faults \subseteq
       { "await",     \* an await (database, IPFS, no wallet) rejects in a try
         "uncaught",  \* ... or outside of every try, as the write of a catch is
         "relayer",   \* the relayer fails between COMPLETED and the event
         "crash" }    \* the process dies with all its tasks

VARIABLES
  job,     \* job[t]: what document t asks the chain to do, and for whom
  cred,    \* cred[c]: the document of credential c
  task     \* task[p]: the call p, or the handler of the event of document p

vars == <<qvars, job, cred, task>>

Task == Req \cup Tx

NoTx   == << >>            \* no document
NoId   == <<"undefined">>  \* blockchainCredentialId was never written
ZeroId == <<"0">>          \* or holds the number 0
ChainIds == Tx \X Runs     \* issuing by broadcast r of t created id <<t, r>>

\* !credential.blockchainCredentialId
Missing(id) == id \in {NoId, ZeroId}

NoJob == [kind |-> "none"]
Job(kind, c, id) == [kind |-> kind, cred |-> c, id |-> id]

Idle == [pc |-> "idle"]
Done == [pc |-> "done"]
PCs == {"reset", "start", "issue", "link", "verify", "mint", "minted",
        "finish", "resolve", "continue", "cut"}

Credentials ==
  [ vs : {"ABSENT", "PENDING", "PENDING_ISSUANCE", "ISSUED", "VERIFIED"},
    bs : {"NOT_MINTED", "PENDING_BLOCKCHAIN", "PENDING_ISSUANCE",
          "MINTING_NFT", "MINTING_FAILED", "WORKFLOW_FAILED"},
    tx : Tx \cup {NoTx},
    id : ChainIds \cup {NoId, ZeroId} ]

TypeOK ==
  /\ status \in [Tx -> {"ABSENT", "PENDING", "COMPLETED", "FAILED"}]
  /\ executed \in [Tx -> SUBSET Runs]
  /\ followUp \in {<< >>} \cup Tx \X {"apply", "emit"}
  /\ job \in [Tx -> {NoJob} \cup
       [kind : {"issue", "verify", "mint"}, cred : Cred,
        id : ChainIds \cup {NoId}]]
  /\ cred \in [Cred -> Credentials]
  /\ task \in [Task -> {Idle, Done} \cup
       [pc : PCs, cred : Cred, id : ChainIds \cup {NoId, ZeroId},
        tx : Tx \cup {NoTx}]]

Init ==
  /\ QInit
  /\ job = [t \in Tx |-> NoJob]
  /\ cred = [c \in Cred |-> [vs |-> "ABSENT", bs |-> "NOT_MINTED",
                             tx |-> NoTx, id |-> NoId]]
  /\ task = [p \in Task |-> Idle]

-----------------------------------------------------------------------------
(* Steps of a task.  updateOne({_id: c}, {$set: ...}) writes the fields    *)
(* that are named and no others, whatever the credential has become.       *)

At(p, where) == task[p].pc = where
Goto(p, where) == task' = [task EXCEPT ![p].pc = where]
End(p) == task' = [task EXCEPT ![p] = Done]

\* A task that was cut short is remembered with its credential (history).
Running(p) == task[p].pc \in PCs \ {"cut"}
Stopped(p) == [pc |-> "cut", cred |-> task[p].cred, id |-> NoId, tx |-> NoTx]

\* relayerService.queueTransaction: a fresh document is PENDING.
Fresh == CHOOSE t \in Tx : status[t] = "ABSENT"
Enqueue(j) ==
  /\ \E t \in Tx : status[t] = "ABSENT"
  /\ Submit(Fresh)
  /\ job' = [job EXCEPT ![Fresh] = j]

\* createCredential
CreateCredential(c) ==
  /\ cred[c].vs = "ABSENT"
  /\ cred' = [cred EXCEPT ![c].vs = "PENDING"]
  /\ UNCHANGED <<qvars, job, task>>

\* (Mutant: the status tells whether the credential was issued.)
ApproveByStatus(p, c) ==
  task' = [task EXCEPT ![p] =
    [pc |-> IF cred[c].vs = "PENDING" THEN "issue" ELSE "verify",
     cred |-> c, id |-> cred[c].id, tx |-> NoTx]]

\* verifyOrRejectCredential(c, 'approve') reads the credential, and by what it
\* has read issues it, or verifies and mints it.  No status refuses it.
ApproveRead(p, c) ==
  task' = [task EXCEPT ![p] =
    [pc |-> IF Missing(cred[c].id) THEN "issue" ELSE "verify",
     cred |-> c, id |-> cred[c].id, tx |-> NoTx]]

Approve(p, c) ==
  /\ At(p, "idle")
  /\ cred[c].vs # "ABSENT"
  /\ ApproveRead(p, c)
  /\ UNCHANGED <<qvars, job, cred>>

\* retryMinting: only out of MINTING_FAILED, which it resets.
Retry(p, c) ==
  /\ At(p, "idle")
  /\ cred[c].bs = "MINTING_FAILED"
  /\ task' = [task EXCEPT ![p] = [pc |-> "reset", cred |-> c, id |-> NoId,
                                  tx |-> NoTx]]
  /\ UNCHANGED <<qvars, job, cred>>

ResetForRetry(p) ==
  /\ At(p, "reset")
  /\ cred' = [cred EXCEPT ![task[p].cred].bs = "PENDING_BLOCKCHAIN"]
  /\ Goto(p, "start")
  /\ UNCHANGED <<qvars, job>>

StartAgain(p) ==
  /\ At(p, "start")
  /\ ApproveRead(p, task[p].cred)
  /\ UNCHANGED <<qvars, job, cred>>

\* issueCredentialOnBlockchain queues the issuance ...
Issue(p) ==
  /\ At(p, "issue")
  /\ Enqueue(Job("issue", task[p].cred, NoId))
  /\ task' = [task EXCEPT ![p].pc = "link", ![p].tx = Fresh]
  /\ UNCHANGED cred

\* ... and only then is its transactionId written to the credential.
Link(p) ==
  /\ At(p, "link")
  /\ cred' = [cred EXCEPT ![task[p].cred].vs = "PENDING_ISSUANCE",
                          ![task[p].cred].bs = "PENDING_ISSUANCE",
                          ![task[p].cred].tx = task[p].tx]
  /\ End(p)
  /\ UNCHANGED <<qvars, job>>

\* verifyCredentialOnBlockchain, with the id the task has read.
Verify(p) ==
  /\ At(p, "verify")
  /\ Enqueue(Job("verify", task[p].cred, task[p].id))
  /\ Goto(p, "mint")
  /\ UNCHANGED cred

\* mintNFTOnBlockchain queues the mint and then writes the credential.
Mint(p) ==
  /\ At(p, "mint")
  /\ Enqueue(Job("mint", task[p].cred, NoId))
  /\ task' = [task EXCEPT ![p].pc = "minted", ![p].tx = Fresh]
  /\ UNCHANGED cred

\* (Mutant: the mint's transactionId becomes the credential's.)
MintedAsTransactionId(p) ==
  /\ At(p, "minted")
  /\ cred' = [cred EXCEPT ![task[p].cred].bs = "MINTING_NFT",
                          ![task[p].cred].tx = task[p].tx]
  /\ Goto(p, "finish")
  /\ UNCHANGED <<qvars, job>>

\* The mint is kept as blockchainTransactionId, which nothing looks up.
Minted(p) ==
  /\ At(p, "minted")
  /\ cred' = [cred EXCEPT ![task[p].cred].bs = "MINTING_NFT"]
  /\ Goto(p, "finish")
  /\ UNCHANGED <<qvars, job>>

\* (Mutant: the two status fields are swapped.)
FinishSwapped(p) ==
  /\ At(p, "finish")
  /\ cred' = [cred EXCEPT ![task[p].cred].bs = "VERIFIED",
                          ![task[p].cred].vs = "MINTING_NFT"]
  /\ End(p)
  /\ UNCHANGED <<qvars, job>>

\* The last update of an approval and of a continued workflow.
Finish(p) ==
  /\ At(p, "finish")
  /\ cred' = [cred EXCEPT ![task[p].cred].vs = "VERIFIED",
                          ![task[p].cred].bs = "MINTING_NFT"]
  /\ End(p)
  /\ UNCHANGED <<qvars, job>>

\* What has no try around it: the first steps of a retry, and those of the
\* handler before continueVerificationWorkflow.
Guarded(p) == task[p].pc \notin {"reset", "resolve"}

\* (Mutant: the catch of an approval also takes the verification back.)
TaskFailsUnverified(p) ==
  /\ "await" \in Faults
  /\ Running(p) /\ Guarded(p)
  /\ cred' = [cred EXCEPT ![task[p].cred].bs = "MINTING_FAILED",
                          ![task[p].cred].vs = "PENDING"]
  /\ End(p)
  /\ UNCHANGED <<qvars, job>>

\* An await rejects and is caught: the catch of an approval writes
\* MINTING_FAILED, that of a continued workflow WORKFLOW_FAILED.
TaskFails(p) ==
  /\ "await" \in Faults
  /\ Running(p) /\ Guarded(p)
  /\ cred' = [cred EXCEPT ![task[p].cred].bs =
                IF p \in Req THEN "MINTING_FAILED" ELSE "WORKFLOW_FAILED"]
  /\ End(p)
  /\ UNCHANGED <<qvars, job>>

\* No catch, or one whose own write rejects: nothing is written.
TaskIsCut(p) ==
  /\ "uncaught" \in Faults
  /\ Running(p)
  /\ task' = [task EXCEPT ![p] = Stopped(p)]
  /\ UNCHANGED <<qvars, job, cred>>

-----------------------------------------------------------------------------
(* The relayer's follow-up on a COMPLETED document t.                      *)

\* The credentials with transactionId t: issuances only, see Link.
Linked(t) == {c \in Cred : cred[c].tx = t}

\* (Mutant: every description of a credential's document is taken for one.)
LooksLikeVerifyLoosely(t) == job[t].kind \in {"issue", "verify"}

\* transaction.description.includes('Verify credential'), which the title of
\* the credential in the description of an issuance can also make true.
LooksLikeVerify(t) ==
  \/ job[t].kind = "verify"
  \/ job[t].kind = "issue" /\ job[t].cred \in Misleading

\* The id in the receipt of broadcast r of t, as parsed and stored.  A bytes32
\* id is a hex string, and parseInt(hex, 10) is 0.
ParsedId(t, r) ==
  IF job[t].kind # "issue" \/ IdShape = "unparsed" THEN NoId
  ELSE IF IdShape = "bytes32" THEN ZeroId ELSE <<t, r>>

\* blockchainCredentialId has a unique index.
Unique(c, id) == id # NoId => \A d \in Cred \ {c} : cred[d].id # id

\* (Mutant: the update matches every credential waiting for its issuance.)
CreditWaiting(t, r) ==
  LET id   == ParsedId(t, r)
      hits == {c \in Cred : cred[c].vs = "PENDING_ISSUANCE"} IN
  /\ Applied(t)
  /\ r \in executed[t]
  /\ cred' = [c \in Cred |-> IF c \in hits /\ id # NoId
                THEN [cred[c] EXCEPT !.id = id, !.vs = "ISSUED"] ELSE cred[c]]
  /\ UNCHANGED <<job, task>>

\* credentialModel.updateOne({transactionId: t}, ...) with the receipt of the
\* broadcast r: an id makes the credential ISSUED, a verification VERIFIED.
Credit(t, r) ==
  LET id == ParsedId(t, r) IN
  /\ Applied(t)
  /\ r \in executed[t]
  /\ IF Linked(t) = {} THEN UNCHANGED cred
     ELSE \E c \in Linked(t) :
       /\ Unique(c, id)
       /\ cred' = [cred EXCEPT
            ![c].id = IF id = NoId THEN @ ELSE id,
            ![c].vs = IF LooksLikeVerify(t) THEN "VERIFIED"
                      ELSE IF id # NoId \/ job[t].kind = "mint" THEN "ISSUED"
                      ELSE @]
  /\ UNCHANGED <<job, task>>

\* credential.issued is emitted when an issuance with an id, or a mint, still
\* has its credential; the handler starts as a task of its own.
Announces(t) ==
  \/ job[t].kind = "issue" /\ ~LooksLikeVerify(t) /\ IdShape # "unparsed"
  \/ job[t].kind = "mint"

Announce(t) ==
  /\ Announced(t)
  /\ IF Announces(t) /\ Linked(t) # {}
     THEN \E c \in Linked(t) :
            task' = [task EXCEPT ![t] = [pc |-> "resolve", cred |-> c,
                                         id |-> NoId, tx |-> NoTx]]
     ELSE UNCHANGED task
  /\ UNCHANGED <<job, cred>>

\* The relayer fails in between, or a unique index refuses the update.
Interrupted ==
  /\ Abandon
  /\ \/ "relayer" \in Faults
     \/ IdShape = "bytes32"
        /\ \E t \in Tx : /\ followUp = <<t, "apply">>
                         /\ \E c \in Linked(t) : ~Unique(c, ZeroId)
  /\ UNCHANGED <<job, cred, task>>

\* handleCredentialIssued finds the credential, with retries, and gives up on
\* one without an id.  The id of the event is never put in: a receipt that has
\* one has written it to the credential, and the 0 of a bytes32 id is no id.
Resolve(t) ==
  /\ At(t, "resolve")
  /\ IF Missing(cred[task[t].cred].id) THEN End(t) ELSE Goto(t, "continue")
  /\ UNCHANGED <<qvars, job, cred>>

\* (Mutant: the handler expects the status the approval has written.)
ContinuePending(t) ==
  LET doc == cred[task[t].cred] IN
  /\ At(t, "continue")
  /\ IF ~Missing(doc.id) /\ doc.vs = "PENDING_ISSUANCE"
     THEN task' = [task EXCEPT ![t].pc = "verify", ![t].id = doc.id]
     ELSE End(t)
  /\ UNCHANGED <<qvars, job, cred>>

\* The reading and the guards of continueVerificationWorkflow; the user of the
\* credential is taken to exist.
Continue(t) ==
  LET doc == cred[task[t].cred] IN
  /\ At(t, "continue")
  /\ IF ~Missing(doc.id) /\ doc.vs \in {"ISSUED", "PENDING_ISSUANCE"}
     THEN task' = [task EXCEPT ![t].pc = "verify", ![t].id = doc.id]
     ELSE End(t)
  /\ UNCHANGED <<qvars, job, cred>>

-----------------------------------------------------------------------------
(* The process dies: documents survive, tasks and the follow-up do not.    *)
Crash ==
  /\ "crash" \in Faults
  /\ followUp' = << >>
  /\ task' = [p \in Task |-> IF Running(p) THEN Stopped(p) ELSE task[p]]
  /\ task' # task \/ followUp # << >>
  /\ UNCHANGED <<status, executed, job, cred>>

\* The chain and the relayer's loop; only a relayer that failed withdraws a
\* result it has reported.
Process(t) ==
  /\ \/ Execute(t)
     \/ Complete(t)
     \/ Fail(t) /\ (status[t] = "COMPLETED" => "relayer" \in Faults)
  /\ UNCHANGED <<job, cred, task>>

RelayerStep ==
  \/ \E t \in Tx : \/ Process(t)
                   \/ \E r \in Runs : Credit(t, r)
                   \/ Announce(t)
  \/ Interrupted

TaskStep(p) ==
  \/ ResetForRetry(p) \/ StartAgain(p)
  \/ Issue(p) \/ Link(p)
  \/ Verify(p) \/ Mint(p) \/ Minted(p) \/ Finish(p)
  \/ TaskFails(p) \/ TaskIsCut(p)
  \/ p \in Tx /\ (Resolve(p) \/ Continue(p))

Call ==
  \E c \in Cred : \/ CreateCredential(c)
                  \/ \E p \in Req : Approve(p, c) \/ Retry(p, c)

Next == Call \/ (\E p \in Task : TaskStep(p)) \/ RelayerStep \/ Crash

Spec == Init /\ [][Next]_vars

\* A document is settled, and followed up on, in finite time.  This is what
\* EveryJobEnds and LoopReturns of Relayer say when no broadcast is dropped.
Settle(t) ==
  /\ Complete(t) \/ (status[t] = "PENDING" /\ Fail(t))
  /\ UNCHANGED <<job, cred, task>>

Follow ==
  \/ \E t \in Tx : (\E r \in Runs : Credit(t, r)) \/ Announce(t)
  \/ Interrupted

Fairness ==
  /\ \A p \in Task : WF_vars(TaskStep(p))
  /\ \A t \in Tx : WF_vars(Settle(t))
  /\ WF_vars(Follow)

FairSpec == Spec /\ Fairness

-----------------------------------------------------------------------------
(* Safety.                                                                 *)

Jobs(kind, c) == {t \in Tx : job[t].kind = kind /\ job[t].cred = c}
Calls == {p \in Req : ~At(p, "idle")}

\* The id of a credential is one its own issuance created on chain: a receipt
\* is never credited to another credential, whatever the interleaving of
\* approvals, receipts and crashes.
CanonicalId ==
  \A c \in Cred :
    cred[c].id \in ChainIds =>
      /\ cred[c].id[1] \in Jobs("issue", c)
      /\ cred[c].id[2] \in executed[cred[c].id[1]]

\* Verifications name an id that exists on chain for that credential, so they
\* do not revert with "credential does not exist".
VerifiesExistingId ==
  \A c \in Cred : \A t \in Jobs("verify", c) :
    /\ job[t].id \in ChainIds
    /\ job[t].id[1] \in Jobs("issue", c)
    /\ job[t].id[2] \in executed[job[t].id[1]]

\* However calls, events, receipts and failures interleave, the NFTs queued
\* are no more than the endpoint calls: the event of an issuance continues
\* the workflow once, and a mint never feeds back into it.
MintsBoundedByCalls ==
  Cardinality({t \in Tx : job[t].kind = "mint"}) <= Cardinality(Calls)

\* VERIFIED means that a verification and a mint were queued, unless the title
\* made the relayer take the issuance for a verification.
VerifiedWasQueued ==
  \A c \in Cred \ Misleading :
    cred[c].vs = "VERIFIED" =>
      Jobs("verify", c) # {} /\ Jobs("mint", c) # {}

\* A verified credential only loses that status to a second issuance.
VerifiedStays ==
  [][\A c \in Cred :
       cred[c].vs = "VERIFIED" /\ cred'[c].vs # "VERIFIED" =>
         Cardinality(Jobs("issue", c)) > 1]_vars

-----------------------------------------------------------------------------
(* Liveness.                                                               *)

\* BOUND: the documents of the model are used up, and a task waits for one.
Exhausted == \A t \in Tx : status[t] # "ABSENT"

\* A call or handler of c was cut short, or the relayer was before it emitted
\* the event of the issuance that c has its id from.
LeftBehind(c) ==
  \/ \E p \in Task : At(p, "cut") /\ task[p].cred = c
  \/ /\ cred[c].id \in ChainIds
     /\ LET t == cred[c].id[1] IN At(t, "idle") /\ followUp # <<t, "emit">>

\* Once issued on chain, a credential is verified, or shows why it is not,
\* without another call, whatever fails inside a try, however calls overlap
\* with the handler, and whatever crashes while none of them is under way.
\* What leaves it ISSUED is a crash, or a failure that nothing catches, of a
\* call or handler of the credential or of the relayer before the event.
IssuedMovesOn ==
  \A c \in Cred :
    cred[c].vs = "ISSUED" /\ ~Missing(cred[c].id) ~>
      \/ cred[c].vs # "ISSUED"
      \/ cred[c].bs \in {"WORKFLOW_FAILED", "MINTING_FAILED"}
      \/ LeftBehind(c)
      \/ Exhausted

-----------------------------------------------------------------------------
(* What the documentation says and the code does not do.                   *)

\* docs/API.md: an already processed credential is refused, so that one
\* credential gets one NFT when nothing fails.
OneMintEach == \A c \in Cred : Cardinality(Jobs("mint", c)) <= 1

\* flow.md: on the receipt the relayer writes the canonical id.  When every
\* task and the relayer are at rest nothing is left that could write it.
NoStrandedIssue ==
  (\A p \in Task : ~Running(p)) /\ followUp = << >> =>
    \A c \in Cred : \A t \in Jobs("issue", c) :
      status[t] = "COMPLETED" => cred[c].id # NoId
=============================================================================
