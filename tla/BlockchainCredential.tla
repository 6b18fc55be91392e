------------------------ MODULE BlockchainCredential ------------------------
(***************************************************************************)
(* CredentialService of the blockchain module                              *)
(* (blockchain/services/credential.service.ts): the collection             *)
(* `credentials`, its issue, verify and revoke endpoints, and the two      *)
(* scripts that repair verificationStatus from outside of the server.      *)
(*                                                                         *)
(* The relayer only writes to talent credentials (see CredentialWorkflow), *)
(* so nothing but the calls and the scripts below ever changes a document  *)
(* of this collection.  Every call and every script, for one document, is  *)
(* a task that keeps what it has read across its awaits.                   *)
(*                                                                         *)
(* A document is created with a number of its own as                       *)
(* blockchainCredentialId, which the contract does not know.  Only the     *)
(* documents in Legacy, to which scripts/set-canonical-id.js has given the *)
(* id of the contract, can be verified or revoked on chain.                *)
(***************************************************************************)
EXTENDS Naturals, FiniteSets

CONSTANTS
  Cred,          \* the documents of the collection
  Legacy,        \* those with the contract's id, ISSUED from the start
  Req,           \* BOUND: the calls, and the visits of scripts to a document
  Tx,            \* BOUND: the transactions the calls may queue
  UnknownReads,  \* what getCredential answers to an id it does not know
  Faults         \* the faults of the environment the model allows

ASSUME IssuerAssumption ==
  /\ Legacy \subseteq Cred
  /\ UnknownReads \in {"error", "PENDING"}  \* a revert, or an empty tuple
  /\ Faults \subseteq
       { "await",     \* an await of a call rejects (database, relayer)
         "uncaught",  \* ... and so does the write of its catch
         "crash" }    \* the process dies with all its calls

VARIABLES
  doc,      \* doc[c]: the document of c
  job,      \* job[t]: what transaction t asks the contract to do
  onchain,  \* onchain[c]: the credential as the contract knows it
  task,     \* task[p]: what call or script visit p is doing
  cut       \* documents whose issuance was interrupted for good (history)

vars == <<doc, job, onchain, task, cut>>

NoTx == << >>
NoJob == [kind |-> "none"]
Idle == [pc |-> "idle"]
Done == [pc |-> "done"]

IssuePCs  == {"issue", "link", "fail"}
ServerPCs == IssuePCs \cup {"verify", "pending", "revoke", "reject"}
ScriptPCs == {"chain", "put"}

\* "none": verificationStatus is missing.
Statuses == {"none", "PENDING", "ISSUED", "PENDING_BLOCKCHAIN", "VERIFIED",
             "REVOKED", "REJECTED"}

\* status, verificationStatus and transactionId.
Documents ==
  [ st : {"ABSENT", "PENDING", "PENDING_BLOCKCHAIN", "FAILED"},
    vs : Statuses,
    tx : Tx \cup {NoTx} ]

\* seen is the verificationStatus read, val the one a script will write.
Tasks ==
  [ pc : ServerPCs \cup ScriptPCs, cred : Cred, tx : Tx \cup {NoTx},
    seen : Statuses,
    val : {"none", "PENDING", "ISSUED", "VERIFIED", "REVOKED"} ]

TypeOK ==
  /\ doc \in [Cred -> Documents]
  /\ job \in [Tx -> {NoJob} \cup
                    [kind : {"issue", "verify", "revoke"}, cred : Cred]]
  /\ onchain \in [Cred -> {"none", "ISSUED", "VERIFIED", "REVOKED"}]
  /\ task \in [Req -> Tasks \cup {Idle, Done}]
  /\ cut \in SUBSET Cred

Init ==
  /\ doc = [c \in Cred |->
       IF c \in Legacy
         THEN [st |-> "PENDING_BLOCKCHAIN", vs |-> "ISSUED", tx |-> NoTx]
         ELSE [st |-> "ABSENT", vs |-> "none", tx |-> NoTx]]
  /\ job = [t \in Tx |-> NoJob]
  /\ onchain = [c \in Cred |-> IF c \in Legacy THEN "ISSUED" ELSE "none"]
  /\ task = [p \in Req |-> Idle]
  /\ cut = {}

-----------------------------------------------------------------------------
(* Steps of a task.  updateOne({_id: ...}, {$set: ...}) writes the fields  *)
(* that are named and no others, whatever the document has become.         *)

At(p, where) == task[p].pc = where
Goto(p, where) == task' = [task EXCEPT ![p].pc = where]
End(p) == task' = [task EXCEPT ![p] = Done]

\* A call or visit p begins by reading document c.
Begin(p, c, where, val) ==
  /\ At(p, "idle")
  /\ doc[c].st # "ABSENT"
  /\ task' = [task EXCEPT ![p] = [pc |-> where, cred |-> c, tx |-> NoTx,
                                  seen |-> doc[c].vs, val |-> val]]
  /\ UNCHANGED <<doc, job, onchain, cut>>

\* relayerService.queueTransaction; the task goes on with the transactionId.
Enqueue(p, kind, next) ==
  \E t \in Tx :
    /\ job[t] = NoJob
    /\ job' = [job EXCEPT ![t] = [kind |-> kind, cred |-> task[p].cred]]
    /\ task' = [task EXCEPT ![p].pc = next, ![p].tx = t]
    /\ UNCHANGED <<doc, onchain, cut>>

-----------------------------------------------------------------------------
(* issueCredential.                                                        *)

\* The document is created, PENDING and without a verificationStatus.
Create(p, c) ==
  /\ At(p, "idle")
  /\ doc[c].st = "ABSENT"
  /\ doc' = [doc EXCEPT ![c].st = "PENDING"]
  /\ task' = [task EXCEPT ![p] = [pc |-> "issue", cred |-> c, tx |-> NoTx,
                                  seen |-> doc[c].vs, val |-> "none"]]
  /\ UNCHANGED <<job, onchain, cut>>

QueueIssue(p) == At(p, "issue") /\ Enqueue(p, "issue", "link")

\* (Mutant: the two fields are swapped.)
LinkSwapped(p) ==
  /\ At(p, "link")
  /\ doc' = [doc EXCEPT ![task[p].cred].st = task[p].tx,
                        ![task[p].cred].tx = "PENDING_BLOCKCHAIN"]
  /\ End(p)
  /\ UNCHANGED <<job, onchain, cut>>

\* The transactionId is written after the issuance was queued.
Link(p) ==
  /\ At(p, "link")
  /\ doc' = [doc EXCEPT ![task[p].cred].tx = task[p].tx,
                        ![task[p].cred].st = "PENDING_BLOCKCHAIN"]
  /\ End(p)
  /\ UNCHANGED <<job, onchain, cut>>

\* (Mutant: only the queueing is covered by the inner catch.)
IssueRethrows(p) ==
  /\ "await" \in Faults
  /\ At(p, "issue") \/ At(p, "link")
  /\ IF At(p, "issue") THEN Goto(p, "fail") ELSE End(p)
  /\ UNCHANGED <<doc, job, onchain, cut>>

\* The inner catch covers the queueing and that write alike.
IssueFails(p) ==
  /\ "await" \in Faults
  /\ At(p, "issue") \/ At(p, "link")
  /\ Goto(p, "fail")
  /\ UNCHANGED <<doc, job, onchain, cut>>

MarkFailed(p) ==
  /\ At(p, "fail")
  /\ doc' = [doc EXCEPT ![task[p].cred].st = "FAILED"]
  /\ End(p)
  /\ UNCHANGED <<job, onchain, cut>>

MarkFailedFails(p) ==
  /\ At(p, "fail")
  /\ "uncaught" \in Faults
  /\ cut' = cut \cup {task[p].cred}
  /\ End(p)
  /\ UNCHANGED <<doc, job, onchain>>

-----------------------------------------------------------------------------
(* verifyCredential and revokeCredential.                                  *)

\* (Mutant: only what is verified or revoked already is refused.)
VerifyUnready(p, c) ==
  doc[c].vs \notin {"VERIFIED", "REVOKED"} /\ Begin(p, c, "verify", "none")

\* A document is ready when it is ISSUED; its id is never missing.
VerifyCall(p, c) == doc[c].vs = "ISSUED" /\ Begin(p, c, "verify", "none")

QueueVerify(p) == At(p, "verify") /\ Enqueue(p, "verify", "pending")

\* (Mutant: the credential is VERIFIED once the transaction is queued.)
VerifiedAtOnce(p) ==
  /\ At(p, "pending")
  /\ doc' = [doc EXCEPT ![task[p].cred].vs = "VERIFIED",
                        ![task[p].cred].tx = task[p].tx]
  /\ End(p)
  /\ UNCHANGED <<job, onchain, cut>>

\* The status is written whatever it has become while queueing.
VerifyPending(p) ==
  /\ At(p, "pending")
  /\ doc' = [doc EXCEPT ![task[p].cred].vs = "PENDING_BLOCKCHAIN",
                        ![task[p].cred].tx = task[p].tx]
  /\ End(p)
  /\ UNCHANGED <<job, onchain, cut>>

\* A revocation is queued in every state of the document.
RevokeCall(p, c) == Begin(p, c, "revoke", "none")

QueueRevoke(p) == At(p, "revoke") /\ Enqueue(p, "revoke", "reject")

Reject(p) ==
  /\ At(p, "reject")
  /\ doc' = [doc EXCEPT ![task[p].cred].vs = "REJECTED"]
  /\ End(p)
  /\ UNCHANGED <<job, onchain, cut>>

\* An await of a verification or revocation rejects: the caller is told, the
\* document stays as it is.
CallFails(p) ==
  /\ "await" \in Faults
  /\ task[p].pc \in {"verify", "pending", "revoke", "reject"}
  /\ End(p)
  /\ UNCHANGED <<doc, job, onchain, cut>>

-----------------------------------------------------------------------------
(* The scripts.                                                            *)

\* scripts/fix-verification-status.js: every document without a
\* verificationStatus is taken for issued, because it has an id.
FixCall(p, c) == doc[c].vs = "none" /\ Begin(p, c, "put", "ISSUED")

\* scripts/reconcile-verifications.js: the cursor returns a document ...
ReconcileCall(p, c) ==
  /\ doc[c].vs \in {"VERIFIED", "PENDING_BLOCKCHAIN"}
  /\ Begin(p, c, "chain", "none")

\* contract.getCredential(numericId).status, as the script maps it.
Reads(c) == IF c \in Legacy THEN onchain[c] ELSE UnknownReads

\* ... the chain is asked about it ...
ReconcileRead(p) ==
  LET answer == Reads(task[p].cred) IN
  /\ At(p, "chain")
  /\ IF answer \in {"error", task[p].seen}
     THEN End(p)
     ELSE task' = [task EXCEPT ![p].pc = "put", ![p].val = answer]
  /\ UNCHANGED <<doc, job, onchain, cut>>

\* ... and the answer written if it differs from what the cursor returned.
Put(p) ==
  /\ At(p, "put")
  /\ doc' = [doc EXCEPT ![task[p].cred].vs = task[p].val]
  /\ End(p)
  /\ UNCHANGED <<job, onchain, cut>>

-----------------------------------------------------------------------------
(* The contract, behind the relayer, executes a queued call some time, never,
   or again.  A call about an id it does not know reverts.                 *)

Execute(t) ==
  LET c == job[t].cred IN
  /\ \/ /\ job[t].kind = "issue" /\ onchain[c] = "none"
        /\ onchain' = [onchain EXCEPT ![c] = "ISSUED"]
     \/ /\ job[t].kind = "verify" /\ c \in Legacy /\ onchain[c] = "ISSUED"
        /\ onchain' = [onchain EXCEPT ![c] = "VERIFIED"]
     \/ /\ job[t].kind = "revoke" /\ c \in Legacy /\ onchain[c] # "REVOKED"
        /\ onchain' = [onchain EXCEPT ![c] = "REVOKED"]
  /\ UNCHANGED <<doc, job, task, cut>>

\* The server dies with its calls; a script is a process of its own, and one
\* that dies takes no further step.
Crash ==
  /\ "crash" \in Faults
  /\ task' = [p \in Req |-> IF task[p].pc \in ServerPCs THEN Done
                                                       ELSE task[p]]
  /\ task' # task
  /\ cut' = cut \cup {c \in Cred :
       \E p \in Req : task[p].pc \in IssuePCs /\ task[p].cred = c}
  /\ UNCHANGED <<doc, job, onchain>>

Call(p, c) ==
  \/ Create(p, c) \/ VerifyCall(p, c) \/ RevokeCall(p, c)
  \/ FixCall(p, c) \/ ReconcileCall(p, c)

Step(p) ==
  \/ QueueIssue(p) \/ Link(p)
  \/ IssueFails(p) \/ MarkFailed(p) \/ MarkFailedFails(p)
  \/ QueueVerify(p) \/ VerifyPending(p)
  \/ QueueRevoke(p) \/ Reject(p) \/ CallFails(p)
  \/ ReconcileRead(p) \/ Put(p)

Next ==
  \/ \E p \in Req : Step(p) \/ \E c \in Cred : Call(p, c)
  \/ \E t \in Tx : Execute(t)
  \/ Crash

Spec == Init /\ [][Next]_vars
-----------------------------------------------------------------------------
(* Safety.                                                                 *)

Jobs(kind, c) == {t \in Tx : job[t] = [kind |-> kind, cred |-> c]}

\* The comment of verifyCredential: a document is not VERIFIED until the chain
\* has confirmed it.  No call writes VERIFIED, and the script only what it has
\* read, which a revocation on chain may have overtaken.
VerifiedOnChain ==
  \A c \in Cred :
    doc[c].vs = "VERIFIED" => /\ onchain[c] \in {"VERIFIED", "REVOKED"}
                              /\ Jobs("verify", c) # {}

\* A queued issuance is never lost from sight: its document names it, or
\* names the verification that followed, or is FAILED (although the chain may
\* execute it, when only the write of the transactionId failed), or will do
\* one of these.  Only a call that was interrupted for good leaves none.
IssuanceTracked ==
  \A c \in Cred \ cut : \A t \in Jobs("issue", c) :
    \/ doc[c].tx \in {t} \cup Jobs("verify", c)
    \/ doc[c].st = "FAILED"
    \/ \E p \in Req : task[p].pc \in {"link", "fail"} /\ task[p].cred = c

\* A revocation (REJECTED) is undone only by a call or a script that had read
\* the document before it was REJECTED: the unconditional writes are never
\* made on the strength of the REJECTED document itself.
RevocationSticks ==
  [][\A c \in Cred :
       doc[c].vs = "REJECTED" /\ doc'[c].vs # "REJECTED" =>
         \E p \in Req : /\ task[p].pc \in {"pending", "put"}
                        /\ task[p].cred = c /\ task[p].seen # "REJECTED"
                        /\ task'[p] = Done]_vars
=============================================================================
