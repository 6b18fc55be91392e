------------------------------ MODULE Relayer ------------------------------
(***************************************************************************)
(* RelayerService (blockchain/services/relayer.service.ts): the collection *)
(* of queued blockchain transactions, the 15 second loop that processes    *)
(* them one at a time, and the chain they are broadcast to.                *)
(*                                                                         *)
(* The loop is single threaded (isProcessing) but every await is a point   *)
(* where callers queue more work, time passes, the chain moves, an RPC or  *)
(* database call fails, or the process dies and starts again.  The         *)
(* collection and the chain survive a crash, the loop does not.            *)
(*                                                                         *)
(* What the relayer then writes to the credential of a transaction is said *)
(* by CredentialWorkflow, which extends this module; here the credential   *)
(* update of a transaction is the fact that it was carried out (applied).  *)
(***************************************************************************)
EXTENDS Naturals, FiniteSets

CONSTANTS
  Tx,          \* the transactionIds that may ever be queued
  NoTx,        \* "no transaction": the loop is between two jobs
  BatchLimit,  \* how many documents one tick takes (.limit(5) in the code)
  MaxLost,     \* BOUND: how often the processing of one document is cut short
  Unlucky,     \* BOUND: the documents to which that may happen
  Faults       \* the faults of the environment the model allows

FaultKinds ==
  { "preflight",  \* provider.call reverts
    "sendError",  \* sendTransaction is refused
    "lostReply",  \* sendTransaction fails after the node took the transaction
    "revert",     \* the transaction is mined and reverts; wait() rejects
    "waitError",  \* wait() rejects for another reason (RPC outage, replaced)
    "drop",       \* the mempool forgets the transaction; wait() never returns
    "dbError",    \* a write of the relayer to MongoDB fails
    "crash" }     \* the process dies

ASSUME RelayerAssumption ==
  /\ NoTx \notin Tx
  /\ BatchLimit \in Nat \ {0}
  /\ MaxLost \in Nat
  /\ Unlucky \subseteq Tx
  /\ Faults \subseteq FaultKinds

\* One document is broadcast at most once per uninterrupted processing, so
\* these are the indexes of its broadcasts.
Runs == 1 .. (MaxLost + 1)

VARIABLES
  status,   \* status[t]: BlockchainTransaction.status, or "ABSENT"
  hash,     \* hash[t]: the document has a transactionHash
  fresh,    \* fresh[t]: createdAt is less than 24 hours ago
  batch,    \* documents the current tick has found and not yet taken up
  cur,      \* the document being processed
  pc,       \* where processTransaction is
  sent,     \* sent[t]: how many broadcasts of t the node has accepted
  fate,     \* fate[t][r]: what the chain did with broadcast r of t
  applied,  \* documents whose credential update was carried out
  lost,     \* lost[t]: how often processing t was cut short (history)
  blurred   \* documents whose outcome an error hid from the loop (history)

docVars   == <<status, hash, fresh>>
loopVars  == <<batch, cur, pc>>
chainVars == <<sent, fate>>
vars ==
  <<status, hash, fresh, batch, cur, pc, sent, fate, applied, lost, blurred>>

PCs    == {"idle", "loop", "check", "send", "wait", "apply", "emit", "failing"}
Fates  == {"none", "pool", "ok", "reverted", "dropped"}
Settled == {"COMPLETED", "FAILED"}

TypeOK ==
  /\ status \in [Tx -> {"ABSENT", "PENDING"} \cup Settled]
  /\ hash \in [Tx -> BOOLEAN]
  /\ fresh \in [Tx -> BOOLEAN]
  /\ batch \in SUBSET Tx
  /\ cur \in Tx \cup {NoTx}
  /\ pc \in PCs
  /\ sent \in [Tx -> 0 .. (MaxLost + 1)]
  /\ fate \in [Tx -> [Runs -> Fates]]
  /\ applied \in SUBSET Tx
  /\ lost \in [Tx -> 0 .. MaxLost]
  /\ blurred \in SUBSET Tx

Init ==
  /\ status = [t \in Tx |-> "ABSENT"]
  /\ hash = [t \in Tx |-> FALSE]
  /\ fresh = [t \in Tx |-> FALSE]
  /\ batch = {}
  /\ cur = NoTx
  /\ pc = "idle"
  /\ sent = [t \in Tx |-> 0]
  /\ fate = [t \in Tx |-> [r \in Runs |-> "none"]]
  /\ applied = {}
  /\ lost = [t \in Tx |-> 0]
  /\ blurred = {}

-----------------------------------------------------------------------------
(* The callers and the clock.                                              *)

\* queueTransaction: a validated payload becomes a PENDING document.
QueueTransaction(t) ==
  /\ status[t] = "ABSENT"
  /\ status' = [status EXCEPT ![t] = "PENDING"]
  /\ fresh' = [fresh EXCEPT ![t] = TRUE]
  /\ UNCHANGED <<hash, loopVars, chainVars, applied, lost, blurred>>

\* The document becomes older than the window of processPendingTransactions.
Expire(t) ==
  /\ fresh[t]
  /\ fresh' = [fresh EXCEPT ![t] = FALSE]
  /\ UNCHANGED <<status, hash, loopVars, chainVars, applied, lost, blurred>>

-----------------------------------------------------------------------------
(* The loop: startTransactionProcessing and processPendingTransactions.    *)

\* (Mutant: a retry that also takes up the documents that have failed.)
EligibleAgain == {t \in Tx : status[t] \in {"PENDING", "FAILED"} /\ fresh[t]}

Eligible == {t \in Tx : status[t] = "PENDING" /\ fresh[t]}

\* find(...).limit(5) has no sort: any documents that many may come back.
BatchOf(S) ==
  {B \in SUBSET S : \/ B = S /\ Cardinality(S) <= BatchLimit
                    \/ Cardinality(B) = BatchLimit}

\* The interval fires while isProcessing is false; it may find nothing to do.
Tick ==
  /\ pc = "idle"
  /\ batch' \in BatchOf(Eligible)
  /\ pc' = IF batch' = {} THEN "idle" ELSE "loop"
  /\ UNCHANGED <<docVars, cur, chainVars, applied, lost, blurred>>

\* The end of one iteration of the for loop; the last one clears isProcessing.
NextJob(rest) ==
  /\ cur' = NoTx
  /\ pc' = IF rest = {} THEN "idle" ELSE "loop"

HasReceipt(t) == \E r \in Runs : fate[t][r] \in {"ok", "reverted"}

\* One iteration starts.  A document that already has a hash with a receipt
\* is completed on the spot, any other goes to processTransaction.
TakeUp(t) ==
  /\ pc = "loop"
  /\ t \in batch
  /\ batch' = batch \ {t}
  /\ IF hash[t] /\ HasReceipt(t)
     THEN /\ status' = [status EXCEPT ![t] = "COMPLETED"]
          /\ NextJob(batch')
     ELSE /\ cur' = t
          /\ pc' = "check"
          /\ UNCHANGED status
  /\ UNCHANGED <<hash, fresh, chainVars, applied, lost, blurred>>

-----------------------------------------------------------------------------
(* processTransaction, one action per await.                               *)

\* (Mutant: a failed preflight skips the document.)
PreflightSkips ==
  /\ pc = "check"
  /\ \/ pc' = "send" /\ UNCHANGED cur
     \/ "preflight" \in Faults /\ NextJob(batch)
  /\ UNCHANGED <<docVars, batch, chainVars, applied, lost, blurred>>

\* The preflight provider.call; gas estimation cannot fail the job.
Preflight ==
  /\ pc = "check"
  /\ \/ pc' = "send"
     \/ "preflight" \in Faults /\ pc' = "failing"
  /\ UNCHANGED <<docVars, batch, cur, chainVars, applied, lost, blurred>>

\* relayerWallet.sendTransaction: the node accepts a new broadcast.  The hash
\* is not written to the document yet.
Broadcast(next) ==
  /\ sent' = [sent EXCEPT ![cur] = @ + 1]
  /\ fate' = [fate EXCEPT ![cur][sent[cur] + 1] = "pool"]
  /\ pc' = next

\* The error that ends the job says nothing about what the chain did.
Blur == blurred' = blurred \cup {cur}

Send ==
  /\ pc = "send"
  /\ \/ Broadcast("wait") /\ UNCHANGED blurred
     \/ "lostReply" \in Faults /\ Broadcast("failing") /\ Blur
     \/ /\ "sendError" \in Faults
        /\ pc' = "failing"
        /\ UNCHANGED <<chainVars, blurred>>
  /\ UNCHANGED <<docVars, batch, cur, applied, lost>>

MyFate == fate[cur][sent[cur]]

\* (Mutant: the document is COMPLETED once broadcast.)
ConfirmOnBroadcast ==
  /\ pc = "wait"
  /\ status' = [status EXCEPT ![cur] = "COMPLETED"]
  /\ hash' = [hash EXCEPT ![cur] = TRUE]
  /\ pc' = "apply"
  /\ UNCHANGED <<fresh, batch, cur, chainVars, applied, lost, blurred>>

\* tx.wait() resolves with a successful receipt and the document is COMPLETED.
Confirm ==
  /\ pc = "wait"
  /\ MyFate = "ok"
  /\ status' = [status EXCEPT ![cur] = "COMPLETED"]
  /\ hash' = [hash EXCEPT ![cur] = TRUE]
  /\ pc' = "apply"
  /\ UNCHANGED <<fresh, batch, cur, chainVars, applied, lost, blurred>>

\* (Mutant: wait() times out and the job is left for a later tick.)
WaitTimesOut ==
  /\ pc = "wait"
  /\ MyFate # "ok"
  /\ NextJob(batch)
  /\ UNCHANGED <<docVars, batch, chainVars, applied, lost, blurred>>

\* (Mutant: wait() times out and the job has failed.)
WaitGivesUp ==
  /\ pc = "wait"
  /\ MyFate # "ok"
  /\ pc' = "failing"
  /\ UNCHANGED <<docVars, batch, cur, chainVars, applied, lost, blurred>>

\* tx.wait() rejects, which it also does for a reverted transaction, or the
\* write of COMPLETED fails: the outer catch takes over.
ConfirmFails ==
  /\ pc = "wait"
  /\ \/ MyFate = "reverted" /\ UNCHANGED blurred
     \/ "waitError" \in Faults /\ Blur
     \/ MyFate = "ok" /\ "dbError" \in Faults /\ Blur
  /\ pc' = "failing"
  /\ UNCHANGED <<docVars, batch, cur, chainVars, applied, lost>>

\* The update of the credential the transaction belongs to, by transactionId.
Apply ==
  /\ pc = "apply"
  /\ applied' = applied \cup {cur}
  /\ pc' = "emit"
  /\ UNCHANGED <<docVars, batch, cur, chainVars, lost, blurred>>

\* (Mutant: the failure of the credential update is only logged.)
ApplyFailureLogged ==
  /\ pc = "apply"
  /\ "dbError" \in Faults
  /\ NextJob(batch)
  /\ UNCHANGED <<docVars, batch, chainVars, applied, lost, blurred>>

ApplyFails ==
  /\ pc = "apply"
  /\ "dbError" \in Faults
  /\ Blur
  /\ pc' = "failing"
  /\ UNCHANGED <<docVars, batch, cur, chainVars, applied, lost>>

\* The credential is read back, credential.issued emitted, the job is over.
Emit ==
  /\ pc = "emit"
  /\ NextJob(batch)
  /\ UNCHANGED <<docVars, batch, chainVars, applied, lost, blurred>>

\* The credential cannot be read back, or the writes a mint adds reject.
EmitFails ==
  /\ pc = "emit"
  /\ "dbError" \in Faults
  /\ Blur
  /\ pc' = "failing"
  /\ UNCHANGED <<docVars, batch, cur, chainVars, applied, lost>>

\* (Mutant: the catch keeps the document PENDING, to be tried again.)
MarkForRetry ==
  /\ pc = "failing"
  /\ NextJob(batch)
  /\ UNCHANGED <<docVars, batch, chainVars, applied, lost, blurred>>

\* The catch of processTransaction marks the document FAILED, whatever it was.
MarkFailed ==
  /\ pc = "failing"
  /\ status' = [status EXCEPT ![cur] = "FAILED"]
  /\ NextJob(batch)
  /\ UNCHANGED <<hash, fresh, batch, chainVars, applied, lost, blurred>>

\* The processing of the current document is cut short.
CutShort ==
  /\ cur \in Unlucky
  /\ lost[cur] < MaxLost
  /\ lost' = [lost EXCEPT ![cur] = @ + 1]

\* (Mutant: the error also leaves the loop, which never clears isProcessing.)
LoopDies ==
  /\ pc = "failing"
  /\ "dbError" \in Faults
  /\ CutShort
  /\ cur' = NoTx
  /\ batch' = {}
  /\ pc' = "loop"
  /\ UNCHANGED <<docVars, chainVars, applied, blurred>>

\* That write fails too: the error leaves processTransaction and is logged.
MarkFailedFails ==
  /\ pc = "failing"
  /\ "dbError" \in Faults
  /\ CutShort
  /\ NextJob(batch)
  /\ UNCHANGED <<docVars, batch, chainVars, applied, blurred>>

\* The process dies in the middle of a batch and restarts: the loop begins
\* anew from the collection.
Crash ==
  /\ "crash" \in Faults
  /\ pc # "idle"
  /\ IF cur = NoTx THEN UNCHANGED lost ELSE CutShort
  /\ batch' = {}
  /\ cur' = NoTx
  /\ pc' = "idle"
  /\ UNCHANGED <<docVars, chainVars, applied, blurred>>

-----------------------------------------------------------------------------
(* The chain decides about a broadcast in the mempool.                     *)

Decide(t, r) ==
  /\ fate[t][r] = "pool"
  /\ \E f \in {"ok"} \cup (IF "revert" \in Faults THEN {"reverted"} ELSE {})
                     \cup (IF "drop" \in Faults THEN {"dropped"} ELSE {}) :
       fate' = [fate EXCEPT ![t][r] = f]
  /\ UNCHANGED <<docVars, loopVars, sent, applied, lost, blurred>>

-----------------------------------------------------------------------------
Environment ==
  \/ \E t \in Tx : QueueTransaction(t) \/ Expire(t)
  \/ \E t \in Tx, r \in Runs : Decide(t, r)

\* What the loop does by itself, short of dying.
LoopStep ==
  \/ Tick
  \/ \E t \in Tx : TakeUp(t)
  \/ Preflight \/ Send
  \/ Confirm \/ ConfirmFails
  \/ Apply \/ ApplyFails \/ Emit \/ EmitFails
  \/ MarkFailed \/ MarkFailedFails

Next == Environment \/ LoopStep \/ Crash

Spec == Init /\ [][Next]_vars

\* wait() has no timeout: it is pending while the chain has not decided.
Awaiting == pc = "wait" /\ MyFate \in {"pool", "dropped"}

\* The interval, and every promise that is not wait() on an undecided
\* broadcast, is eventually served by the event loop; the chain decides about
\* every broadcast it does not forget; the process does not crash for ever.
Fairness ==
  /\ WF_vars(~Awaiting /\ LoopStep)
  /\ \A t \in Tx, r \in Runs : WF_vars(Decide(t, r))
  /\ <>[][~Crash]_vars

FairSpec == Spec /\ Fairness

-----------------------------------------------------------------------------
(* Safety.                                                                 *)

Executed(t) == {r \in Runs : fate[t][r] = "ok"}

Stage == IF pc \in {"apply", "emit"} THEN <<cur, pc>> ELSE << >>

Queue == INSTANCE TransactionQueue
           WITH executed <- [t \in Tx |-> Executed(t)], followUp <- Stage

\* The relayer implements the queue its callers rely on: nothing is reported
\* COMPLETED that did not execute, no result returns to PENDING, and the
\* update of a credential comes right after its transaction or not at all.
ImplementsQueue == Queue!QSpec

\* A document is broadcast once, and once more for each time its processing
\* was cut short: the hash of a broadcast is not saved before wait(), so a
\* restart cannot know of it, but nothing else ever causes a second broadcast.
BroadcastBound == \A t \in Tx : sent[t] <= 1 + lost[t]

\* A broadcast the chain has not decided on is either awaited by the loop, or
\* its document was already given up on (FAILED, or about to be), or its
\* processing was cut short: none is forgotten in an orderly run.
NoForgottenBroadcast ==
  \A t \in Tx, r \in Runs :
    fate[t][r] = "pool" =>
      \/ cur = t /\ pc \in {"wait", "failing"} /\ r = sent[t]
      \/ status[t] = "FAILED"
      \/ lost[t] > 0

\* The credential update of a COMPLETED document was carried out, unless the
\* loop is about to, or died in between: nothing redoes it afterwards,
\* because a restart only looks at PENDING documents.
FollowUpDone ==
  \A t \in Tx :
    status[t] = "COMPLETED" => t \in applied \/ cur = t \/ lost[t] > 0

\* FAILED can be taken to mean "had no effect" for a document whose processing
\* was not cut short and met no error that hides the outcome: a lost reply of
\* sendTransaction, a wait() that rejects although nothing was mined, or a
\* failed write after the receipt.
FailedHadNoEffect ==
  \A t \in Tx :
    status[t] = "FAILED" /\ lost[t] = 0 /\ t \notin blurred =>
      Executed(t) = {}

\* Once settled, a document is never broadcast again, FAILED is final, and
\* COMPLETED can only be withdrawn in favour of FAILED.
SettledForGood ==
  [][\A t \in Tx :
       status[t] \in Settled =>
         /\ sent'[t] = sent[t]
         /\ status'[t] \in {status[t], "FAILED"}]_vars

-----------------------------------------------------------------------------
(* Liveness.                                                               *)

\* The loop waits for a receipt that cannot come.
Hung == pc = "wait" /\ MyFate = "dropped"

\* Every queued document is settled or falls out of the 24 hour window, unless
\* the loop hangs on a broadcast the chain has dropped: since wait() is called
\* without a timeout, that single job then holds up every other one.
EveryJobEnds ==
  \A t \in Tx :
    status[t] = "PENDING" ~> status[t] \in Settled \/ ~fresh[t] \/ Hung

\* Nothing but such a broadcast keeps isProcessing set.
LoopReturns == pc # "idle" ~> pc = "idle" \/ Hung
=============================================================================
