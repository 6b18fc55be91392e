--------------------------- MODULE RelayerProofs ---------------------------
(***************************************************************************)
(* Theorems about Relayer, for every set of documents, every batch limit   *)
(* and every choice of faults.                                             *)
(*                                                                         *)
(* The bound on broadcasts is not inductive by itself.  IInv adds the      *)
(* ledger that makes it so: a PENDING document that the loop has not       *)
(* broadcast in its current processing has been broadcast at most once per *)
(* interruption, and only a PENDING document is ever in the loop's hands   *)
(* before it is COMPLETED.                                                 *)
(***************************************************************************)
EXTENDS Relayer, TLAPS

\* A broadcast of the current processing may be outstanding.
Exposed(t) == cur = t /\ pc \in {"wait", "failing"}

Ledger ==
  /\ \A t \in Tx : sent[t] <= 1 + lost[t]
  /\ \A t \in Tx : status[t] = "ABSENT" => sent[t] = 0
  /\ \A t \in Tx : status[t] = "PENDING" /\ ~Exposed(t) => sent[t] <= lost[t]

Control ==
  /\ pc \in {"idle", "loop"} <=> cur = NoTx
  /\ \A t \in batch : status[t] = "PENDING" /\ t # cur
  /\ pc \in {"check", "send", "wait"} => status[cur] = "PENDING"
  /\ pc \in {"apply", "emit"} => status[cur] = "COMPLETED"
  /\ pc = "failing" => status[cur] \in {"PENDING", "COMPLETED"}
  /\ pc = "wait" => sent[cur] >= 1
  /\ \A t \in Tx : hash[t] => status[t] \in Settled

\* Broadcasts beyond sent[t] do not exist yet; COMPLETED was mined.
Chain ==
  /\ \A t \in Tx, r \in Runs : fate[t][r] # "none" <=> r <= sent[t]
  /\ \A t \in Tx : status[t] = "COMPLETED" => Executed(t) # {}

IInv == TypeOK /\ Ledger /\ Control /\ Chain

-----------------------------------------------------------------------------
(* The steps of the loop that only move pc. *)

LEMMA RunsNext ==
  ASSUME NEW t \in Tx, TypeOK, sent[t] <= lost[t]
  PROVE  sent[t] + 1 \in Runs
BY RelayerAssumption DEF TypeOK, Runs

LEMMA InitIInv == Init => IInv
<1> SUFFICES ASSUME Init PROVE IInv
  OBVIOUS
<1> USE RelayerAssumption DEF Init
<1>1. TypeOK
  BY DEF TypeOK, Settled, PCs, Fates
<1>2. Ledger
  BY DEF Ledger, Exposed
<1>3. Control
  BY DEF Control, Settled
<1>4. Chain
  BY DEF Chain, Executed, Runs
<1> QED BY <1>1, <1>2, <1>3, <1>4 DEF IInv

LEMMA QueueIInv ==
  ASSUME IInv, NEW t \in Tx, QueueTransaction(t)
  PROVE  IInv'
<1> USE RelayerAssumption
     DEF IInv, QueueTransaction, docVars, loopVars, chainVars
<1>1. TypeOK'
  BY DEF TypeOK, Settled
<1>2. Ledger'
  BY DEF TypeOK, Ledger, Control, Exposed, Settled
<1>3. Control'
  BY DEF TypeOK, Control, Settled
<1>4. Chain'
  BY DEF TypeOK, Chain, Executed, Settled
<1> QED BY <1>1, <1>2, <1>3, <1>4

LEMMA ExpireIInv ==
  ASSUME IInv, NEW t \in Tx, Expire(t)
  PROVE  IInv'
BY DEF IInv, Expire, TypeOK, Ledger, Control, Chain, Exposed, Executed,
       docVars, loopVars, chainVars

LEMMA TickIInv ==
  ASSUME IInv, Tick
  PROVE  IInv'
<1> USE DEF IInv, Tick, BatchOf, Eligible, docVars, chainVars
<1>1. batch' \subseteq Eligible
  OBVIOUS
<1>2. TypeOK'
  BY <1>1 DEF TypeOK, PCs
<1>3. Ledger'
  BY DEF Ledger, Control, Exposed
<1>4. Control'
  BY <1>1, RelayerAssumption DEF Control, TypeOK
<1>5. Chain'
  BY DEF Chain, Executed
<1> QED BY <1>2, <1>3, <1>4, <1>5

LEMMA TakeUpIInv ==
  ASSUME IInv, NEW t \in Tx, TakeUp(t)
  PROVE  IInv'
<1> USE RelayerAssumption DEF IInv, TakeUp, NextJob, docVars, chainVars
<1>1. status[t] = "PENDING" /\ ~hash[t]
  BY DEF Control, Settled
<1>2. cur' = t /\ pc' = "check" /\ status' = status /\ batch' = batch \ {t}
  BY <1>1
<1>3. TypeOK'
  BY <1>2 DEF TypeOK, PCs
<1>4. Ledger'
  BY <1>2 DEF Ledger, Exposed
<1>5. Control'
  BY <1>1, <1>2 DEF Control, TypeOK
<1>6. Chain'
  BY <1>2 DEF Chain, Executed
<1> QED BY <1>3, <1>4, <1>5, <1>6

LEMMA PreflightIInv ==
  ASSUME IInv, Preflight
  PROVE  IInv'
BY RelayerAssumption
   DEF IInv, Preflight, docVars, chainVars, TypeOK, PCs, Ledger, Exposed,
       Control, Chain, Executed

\* The one step that broadcasts: the ledger lets it, because the document is
\* PENDING and not yet exposed.
LEMMA SendIInv ==
  ASSUME IInv, Send
  PROVE  IInv'
<1> USE RelayerAssumption DEF IInv, Send, Blur, docVars
<1>1. cur \in Tx /\ status[cur] = "PENDING" /\ ~Exposed(cur)
  BY DEF TypeOK, Control, Exposed
<1>2. sent[cur] <= lost[cur]
  BY <1>1 DEF Ledger
<1>3. sent[cur] + 1 \in Runs
  BY <1>1, <1>2, RunsNext
<1>4. CASE UNCHANGED chainVars /\ pc' = "failing"
  BY <1>4 DEF chainVars, TypeOK, PCs, Ledger, Exposed, Control, Chain, Executed
<1>5. CASE \E next \in {"wait", "failing"} : Broadcast(next)
  <2> USE <1>5 DEF Broadcast
  <2>1. TypeOK'
    BY <1>1, <1>3 DEF TypeOK, PCs, Fates, Runs
  <2>2. Ledger'
    BY <1>1, <1>2 DEF TypeOK, Ledger, Exposed
  <2>3. Control'
    BY <1>1 DEF TypeOK, Control
  <2>4. Chain'
    <3>1. ASSUME NEW t \in Tx, NEW r \in Runs
          PROVE  fate'[t][r] # "none" <=> r <= sent'[t]
      BY <1>1, <1>3 DEF TypeOK, Chain, Runs
    <3>2. ASSUME NEW t \in Tx, status'[t] = "COMPLETED"
          PROVE  Executed(t)' # {}
      BY <1>1, <3>2 DEF Chain, Executed, TypeOK
    <3> QED BY <3>1, <3>2 DEF Chain
  <2> QED BY <2>1, <2>2, <2>3, <2>4
<1> QED BY <1>4, <1>5

LEMMA ConfirmIInv ==
  ASSUME IInv, Confirm
  PROVE  IInv'
<1> USE RelayerAssumption DEF IInv, Confirm, MyFate, chainVars
<1>1. cur \in Tx /\ status[cur] = "PENDING" /\ sent[cur] \in Runs
  BY DEF TypeOK, Control, Runs
<1>2. TypeOK'
  BY <1>1 DEF TypeOK, PCs, Settled
<1>3. Ledger'
  BY <1>1 DEF TypeOK, Ledger, Exposed
<1>4. Control'
  BY <1>1 DEF TypeOK, Control, Settled
<1>5. Chain'
  BY <1>1 DEF TypeOK, Chain, Executed
<1> QED BY <1>2, <1>3, <1>4, <1>5

LEMMA ConfirmFailsIInv ==
  ASSUME IInv, ConfirmFails
  PROVE  IInv'
BY RelayerAssumption
   DEF IInv, ConfirmFails, Blur, docVars, chainVars, TypeOK, PCs, Ledger, Exposed,
       Control, Chain, Executed

LEMMA ApplyIInv ==
  ASSUME IInv, Apply
  PROVE  IInv'
BY RelayerAssumption
   DEF IInv, Apply, docVars, chainVars, TypeOK, PCs, Ledger, Exposed,
       Control, Chain, Executed

LEMMA ApplyFailsIInv ==
  ASSUME IInv, ApplyFails
  PROVE  IInv'
BY RelayerAssumption
   DEF IInv, ApplyFails, Blur, docVars, chainVars, TypeOK, PCs, Ledger, Exposed,
       Control, Chain, Executed

LEMMA EmitIInv ==
  ASSUME IInv, Emit
  PROVE  IInv'
BY RelayerAssumption
   DEF IInv, Emit, NextJob, docVars, chainVars, TypeOK, PCs, Ledger, Exposed,
       Control, Chain, Executed

LEMMA EmitFailsIInv ==
  ASSUME IInv, EmitFails
  PROVE  IInv'
BY RelayerAssumption
   DEF IInv, EmitFails, Blur, docVars, chainVars, TypeOK, PCs, Ledger, Exposed,
       Control, Chain, Executed

LEMMA MarkFailedIInv ==
  ASSUME IInv, MarkFailed
  PROVE  IInv'
<1> USE RelayerAssumption DEF IInv, MarkFailed, NextJob, chainVars
<1>1. cur \in Tx /\ status[cur] \in {"PENDING", "COMPLETED"}
  BY DEF TypeOK, Control
<1>2. TypeOK'
  BY <1>1 DEF TypeOK, PCs, Settled
<1>3. Ledger'
  BY <1>1 DEF TypeOK, Ledger, Exposed
<1>4. Control'
  BY <1>1 DEF TypeOK, Control, Settled
<1>5. Chain'
  BY <1>1 DEF TypeOK, Chain, Executed
<1> QED BY <1>2, <1>3, <1>4, <1>5

LEMMA MarkFailedFailsIInv ==
  ASSUME IInv, MarkFailedFails
  PROVE  IInv'
<1> USE RelayerAssumption
     DEF IInv, MarkFailedFails, CutShort, NextJob, docVars, chainVars
<1>1. cur \in Tx
  BY DEF TypeOK, Control
<1>2. TypeOK'
  BY <1>1 DEF TypeOK, PCs
<1>3. Ledger'
  BY <1>1 DEF TypeOK, Ledger, Exposed
<1>4. Control'
  BY <1>1 DEF TypeOK, Control
<1>5. Chain'
  BY DEF Chain, Executed
<1> QED BY <1>2, <1>3, <1>4, <1>5

\* A crash moves the outstanding broadcast of the current document from
\* "exposed" to "lost": the two sides of the ledger grow together.
LEMMA CrashIInv ==
  ASSUME IInv, Crash
  PROVE  IInv'
<1> USE RelayerAssumption DEF IInv, Crash, CutShort, docVars, chainVars
<1>1. CASE cur = NoTx
  BY <1>1 DEF TypeOK, PCs, Ledger, Exposed, Control, Chain, Executed
<1>2. CASE cur # NoTx
  <2>1. cur \in Tx
    BY <1>2 DEF TypeOK
  <2>2. TypeOK'
    BY <1>2, <2>1 DEF TypeOK, PCs
  <2>3. Ledger'
    <3>1. ASSUME NEW t \in Tx
          PROVE  /\ lost'[t] = IF t = cur THEN lost[t] + 1 ELSE lost[t]
                 /\ sent'[t] = sent[t] /\ status'[t] = status[t]
                 /\ sent[t] \in Nat /\ lost[t] \in Nat
      BY <1>2, <2>1 DEF TypeOK
    <3>2. ASSUME NEW t \in Tx
          PROVE  /\ sent'[t] <= 1 + lost'[t]
                 /\ status'[t] = "ABSENT" => sent'[t] = 0
                 /\ status'[t] = "PENDING" => sent'[t] <= lost'[t]
      BY <3>1 DEF Ledger, Exposed
    <3> QED BY <3>2 DEF Ledger
  <2>4. Control'
    BY <1>2, <2>1 DEF TypeOK, Control
  <2>5. Chain'
    BY DEF Chain, Executed
  <2> QED BY <2>2, <2>3, <2>4, <2>5
<1> QED BY <1>1, <1>2

LEMMA DecideIInv ==
  ASSUME IInv, NEW t \in Tx, NEW r \in Runs, Decide(t, r)
  PROVE  IInv'
<1> USE DEF IInv, Decide, docVars, loopVars
<1>1. PICK f \in {"ok", "reverted", "dropped"} :
        fate' = [fate EXCEPT ![t][r] = f]
  OBVIOUS
<1>2. TypeOK'
  BY <1>1 DEF TypeOK, Fates
<1>3. Ledger'
  BY DEF Ledger, Exposed
<1>4. Control'
  BY DEF Control
<1>5. Chain'
  <2>1. ASSUME NEW u \in Tx, NEW q \in Runs
        PROVE  fate'[u][q] # "none" <=> q <= sent'[u]
    BY <1>1 DEF TypeOK, Chain
  <2>2. ASSUME NEW u \in Tx, status'[u] = "COMPLETED"
        PROVE  Executed(u)' # {}
    BY <1>1, <2>2 DEF TypeOK, Chain, Executed
  <2> QED BY <2>1, <2>2 DEF Chain
<1> QED BY <1>2, <1>3, <1>4, <1>5

LEMMA NextIInv == IInv /\ [Next]_vars => IInv'
<1> SUFFICES ASSUME IInv, [Next]_vars PROVE IInv'
  OBVIOUS
<1>1. CASE Environment
  BY <1>1, QueueIInv, ExpireIInv, DecideIInv DEF Environment
<1>2. CASE LoopStep
  BY <1>2, TickIInv, TakeUpIInv, PreflightIInv, SendIInv, ConfirmIInv,
     ConfirmFailsIInv, ApplyIInv, ApplyFailsIInv, EmitIInv, EmitFailsIInv,
     MarkFailedIInv, MarkFailedFailsIInv DEF LoopStep
<1>3. CASE Crash
  BY <1>3, CrashIInv
<1>4. CASE UNCHANGED vars
  BY <1>4 DEF vars, IInv, TypeOK, Ledger, Exposed, Control, Chain, Executed
<1> QED BY <1>1, <1>2, <1>3, <1>4 DEF Next

\* The strengthening holds in every reachable state.
THEOREM Inductive == Spec => []IInv
BY InitIInv, NextIInv, PTL DEF Spec

\* The documents, the loop and the chain keep their types; in particular the
\* index of a broadcast never leaves Runs, that is, no document is broadcast
\* more often than MaxLost + 1 times.
THEOREM TypeCorrect == Spec => []TypeOK
BY Inductive, PTL DEF IInv

\* A second broadcast of a document is always paid for by an interruption.
THEOREM BroadcastsBounded == Spec => []BroadcastBound
<1>1. IInv => BroadcastBound
  BY DEF IInv, Ledger, BroadcastBound
<1> QED BY <1>1, Inductive, PTL

-----------------------------------------------------------------------------
(* Results are final. *)

LEMMA SettledStep ==
  ASSUME IInv, [Next]_vars, NEW t \in Tx, status[t] \in Settled
  PROVE  sent'[t] = sent[t] /\ status'[t] \in {status[t], "FAILED"}
<1> USE DEF IInv, Settled
<1>1. CASE Environment
  BY <1>1 DEF Environment, QueueTransaction, Expire, Decide, docVars, chainVars,
              TypeOK
<1>2. CASE Send
  BY <1>2 DEF Send, Broadcast, docVars, chainVars, TypeOK, Control
<1>3. CASE \E u \in Tx : TakeUp(u)
  BY <1>3 DEF TakeUp, chainVars, Control
<1>4. CASE Confirm \/ MarkFailed
  BY <1>4 DEF Confirm, MarkFailed, chainVars, TypeOK, Control
<1>5. CASE \/ Tick \/ Preflight \/ ConfirmFails \/ Apply \/ ApplyFails \/ Emit
           \/ EmitFails \/ MarkFailedFails \/ Crash \/ UNCHANGED vars
  BY <1>5 DEF Tick, Preflight, ConfirmFails, Apply, ApplyFails, Emit, EmitFails,
              MarkFailedFails, Crash, vars, docVars, chainVars
<1> QED BY <1>1, <1>2, <1>3, <1>4, <1>5 DEF Next, LoopStep

\* A settled document is never broadcast again and its result never returns
\* to PENDING (processPendingTransactions only finds PENDING documents, and a
\* document found by a tick stays PENDING until the loop itself writes it).
THEOREM ResultsAreFinal == Spec => SettledForGood
<1>1. IInv /\ [Next]_vars
      => [\A t \in Tx : status[t] \in Settled =>
             /\ sent'[t] = sent[t]
             /\ status'[t] \in {status[t], "FAILED"}]_vars
  BY SettledStep
<1> QED BY <1>1, Inductive, PTL DEF Spec, SettledForGood

-----------------------------------------------------------------------------
(* What an interruption can and cannot lose. *)

\* After the write of COMPLETED the loop is on its way to the credential.
FollowUp == FollowUpDone /\ (pc = "emit" => cur \in applied)

LEMMA FollowUpStep == IInv /\ FollowUp /\ [Next]_vars => FollowUp'
<1> SUFFICES ASSUME IInv, FollowUp, [Next]_vars PROVE FollowUp'
  OBVIOUS
<1> USE RelayerAssumption DEF IInv, Control, FollowUp, FollowUpDone
<1>1. CASE Environment
  BY <1>1 DEF Environment, QueueTransaction, Expire, Decide, docVars, loopVars,
              chainVars, TypeOK
<1>2. CASE \/ Tick \/ Preflight \/ Send \/ ConfirmFails
  BY <1>2 DEF Tick, Preflight, Send, Broadcast, ConfirmFails, docVars,
              chainVars, TypeOK
<1>3. CASE \E t \in Tx : TakeUp(t)
  <2>1. PICK t \in Tx : TakeUp(t)
    BY <1>3
  <2>2. status' = status /\ cur = NoTx /\ pc' = "check"
    BY <2>1 DEF TakeUp, Settled
  <2> QED BY <2>1, <2>2 DEF TakeUp
<1>4. CASE Confirm
  BY <1>4 DEF Confirm, TypeOK
<1>5. CASE Apply \/ ApplyFails \/ Emit \/ EmitFails
  BY <1>5 DEF Apply, ApplyFails, Emit, EmitFails, NextJob, docVars, TypeOK
<1>6. CASE MarkFailed
  BY <1>6 DEF MarkFailed, NextJob, TypeOK
<1>7. CASE MarkFailedFails \/ Crash
  <2>1. status' = status /\ applied' = applied /\ pc' \in {"idle", "loop"}
    BY <1>7 DEF MarkFailedFails, Crash, NextJob, docVars
  <2>2. ASSUME NEW t \in Tx, t = cur \/ lost[t] > 0
        PROVE  lost'[t] > 0
    BY <1>7, <2>2 DEF MarkFailedFails, Crash, CutShort, TypeOK
  <2> QED BY <2>1, <2>2
<1>8. CASE UNCHANGED vars
  BY <1>8 DEF vars
<1> QED BY <1>1, <1>2, <1>3, <1>4, <1>5, <1>6, <1>7, <1>8 DEF Next, LoopStep

\* The update of the credential that follows COMPLETED is lost only when the
\* processing of that document is cut short.
THEOREM FollowUpsDone == Spec => []FollowUpDone
<1>1. Init => FollowUp
  BY DEF Init, FollowUp, FollowUpDone
<1> QED BY <1>1, FollowUpStep, Inductive, PTL DEF Spec, FollowUp

LEMMA NoForgottenStep ==
  IInv /\ NoForgottenBroadcast /\ [Next]_vars => NoForgottenBroadcast'
<1> SUFFICES ASSUME IInv, NoForgottenBroadcast, [Next]_vars,
                    NEW t \in Tx, NEW r \in Runs, fate'[t][r] = "pool"
             PROVE  \/ cur' = t /\ pc' \in {"wait", "failing"} /\ r = sent'[t]
                    \/ status'[t] = "FAILED"
                    \/ lost'[t] > 0
  BY DEF NoForgottenBroadcast
<1> USE RelayerAssumption DEF IInv, Control, NoForgottenBroadcast
<1>1. CASE Environment
  <2>1. CASE \E u \in Tx : QueueTransaction(u) \/ Expire(u)
    <3>1. status[t] = "FAILED" => status'[t] = "FAILED"
      BY <2>1 DEF QueueTransaction, Expire, docVars, TypeOK
    <3> QED BY <2>1, <3>1 DEF QueueTransaction, Expire, loopVars, chainVars
  <2>2. CASE \E u \in Tx, q \in Runs : Decide(u, q)
    <3>1. fate[t][r] = "pool"
      BY <2>2 DEF Decide, TypeOK
    <3> QED BY <2>2, <3>1 DEF Decide, docVars, loopVars
  <2> QED BY <1>1, <2>1, <2>2 DEF Environment
<1>2. CASE Send
  <2>1. CASE UNCHANGED chainVars
    BY <1>2, <2>1 DEF Send, Broadcast, docVars, chainVars
  <2>2. CASE /\ fate' = [fate EXCEPT ![cur][sent[cur] + 1] = "pool"]
             /\ sent' = [sent EXCEPT ![cur] = @ + 1]
             /\ pc' \in {"wait", "failing"}
    <3>1. CASE t = cur /\ r = sent[cur] + 1
      BY <1>2, <2>2, <3>1 DEF Send, TypeOK
    <3>2. CASE ~(t = cur /\ r = sent[cur] + 1)
      <4>1. fate[t][r] = "pool"
        BY <2>2, <3>2 DEF TypeOK
      <4> QED BY <1>2, <4>1 DEF Send, docVars
    <3> QED BY <3>1, <3>2
  <2> QED BY <1>2, <2>1, <2>2 DEF Send, Broadcast
<1>3. CASE Confirm
  <2>1. fate[t][r] = "pool" /\ ~(cur = t /\ r = sent[t])
    BY <1>3 DEF Confirm, MyFate, chainVars
  <2> QED BY <1>3, <2>1 DEF Confirm, TypeOK
<1>4. CASE \/ Tick \/ Preflight \/ ConfirmFails
           \/ Apply \/ ApplyFails \/ Emit \/ EmitFails \/ UNCHANGED vars
  BY <1>4 DEF Tick, Preflight, ConfirmFails, Apply, ApplyFails, Emit,
              EmitFails, docVars, chainVars, vars
<1>5. CASE \E u \in Tx : TakeUp(u)
  BY <1>5 DEF TakeUp, Settled, chainVars
<1>6. CASE MarkFailed
  BY <1>6 DEF MarkFailed, chainVars, TypeOK
<1>7. CASE MarkFailedFails \/ Crash
  <2>1. fate[t][r] = "pool" /\ status' = status
    BY <1>7 DEF MarkFailedFails, Crash, docVars, chainVars
  <2>2. t = cur \/ lost[t] > 0 => lost'[t] > 0
    BY <1>7 DEF MarkFailedFails, Crash, CutShort, TypeOK
  <2> QED BY <2>1, <2>2
<1> QED BY <1>1, <1>2, <1>3, <1>4, <1>5, <1>6, <1>7 DEF Next, LoopStep

\* The loop never walks away from a broadcast it can still see: one the chain
\* has not decided on is awaited, given up on, or was lost to an interruption.
THEOREM NoBroadcastForgotten == Spec => []NoForgottenBroadcast
<1>1. Init => NoForgottenBroadcast
  BY DEF Init, NoForgottenBroadcast
<1> QED BY <1>1, NoForgottenStep, Inductive, PTL DEF Spec

-----------------------------------------------------------------------------
(* When FAILED means "had no effect". *)

\* No broadcast of t has taken effect, or may still do so.
Spent(t) == \A r \in Runs : fate[t][r] \notin {"pool", "ok"}

\* A job that fails in an uninterrupted processing, by an error that tells the
\* outcome, is already spent, not only without effect: the chain could still
\* mine what is in the mempool.
FailedSpent ==
  \A t \in Tx :
    lost[t] = 0 /\ t \notin blurred /\ (status[t] = "FAILED" \/ (cur = t /\ pc = "failing"))
    => Spent(t)

LEMMA FailedStep ==
  IInv /\ FailedSpent /\ [Next]_vars => FailedSpent'
<1> SUFFICES ASSUME IInv, FailedSpent, [Next]_vars,
                    NEW t \in Tx, lost'[t] = 0, t \notin blurred',
                    status'[t] = "FAILED" \/ (cur' = t /\ pc' = "failing")
             PROVE  Spent(t)'
  BY DEF FailedSpent
<1> USE RelayerAssumption DEF IInv, Control, FailedSpent, Blur
<1>1. CASE Environment
  <2>1. CASE \E u \in Tx : QueueTransaction(u) \/ Expire(u)
    <3>1. status'[t] = "FAILED" => status[t] = "FAILED"
      BY <2>1 DEF QueueTransaction, Expire, docVars, TypeOK
    <3> QED BY <2>1, <3>1 DEF QueueTransaction, Expire, loopVars, chainVars,
                              Spent
  <2>2. CASE \E u \in Tx, q \in Runs : Decide(u, q)
    <3>1. Spent(t)
      BY <2>2 DEF Decide, docVars, loopVars
    <3> QED BY <2>2, <3>1 DEF Decide, Spent, TypeOK
  <2> QED BY <1>1, <2>1, <2>2 DEF Environment
<1>2. CASE Preflight
  <2>1. CASE status[t] = "FAILED"
    BY <1>2, <2>1 DEF Preflight, chainVars, Spent
  <2>2. CASE cur = t /\ status[t] = "PENDING"
    <3>1. sent[t] = 0
      BY <1>2, <2>2 DEF Preflight, Ledger, Exposed, TypeOK
    <3>2. \A r \in Runs : fate[t][r] = "none"
      BY <3>1 DEF Chain, Runs
    <3> QED BY <1>2, <3>2 DEF Preflight, chainVars, Spent
  <2> QED BY <1>2, <2>1, <2>2 DEF Preflight, docVars
<1>3. CASE Send
  <2>1. CASE \E next \in {"wait", "failing"} : Broadcast(next)
    <3>1. status[t] = "FAILED" /\ lost[t] = 0 /\ t \notin blurred /\ t # cur
      <4>1. ~UNCHANGED chainVars
        BY <1>3, <2>1 DEF Send, Broadcast, chainVars, TypeOK
      <4>2. \/ pc' = "wait" /\ UNCHANGED blurred
            \/ Blur
        BY <1>3, <4>1 DEF Send, Broadcast
      <4> QED BY <1>3, <4>2 DEF Send, docVars
    <3>2. Spent(t)
      BY <3>1
    <3> QED BY <2>1, <3>1, <3>2 DEF Broadcast, Spent, TypeOK
  <2>2. CASE UNCHANGED chainVars
    <3>1. CASE status[t] = "FAILED"
      BY <1>3, <2>2, <3>1 DEF Send, chainVars, Spent
    <3>2. CASE cur = t /\ status[t] = "PENDING"
      <4>1. sent[t] = 0
        BY <1>3, <3>2 DEF Send, Ledger, Exposed, TypeOK
      <4>2. \A r \in Runs : fate[t][r] = "none"
        BY <4>1 DEF Chain, Runs
      <4> QED BY <2>2, <4>2 DEF chainVars, Spent
    <3> QED BY <1>3, <2>2, <3>1, <3>2 DEF Send, docVars
  <2> QED BY <1>3, <2>1, <2>2 DEF Send
<1>4. CASE Confirm
  <2>1. status[t] = "FAILED" /\ lost[t] = 0
    BY <1>4 DEF Confirm, TypeOK
  <2> QED BY <1>4, <2>1 DEF Confirm, chainVars, Spent
<1>5. CASE ConfirmFails
  <2>1. CASE status[t] = "FAILED"
    BY <1>5, <2>1 DEF ConfirmFails, chainVars, Spent
  <2>2. CASE cur = t
    <3>1. sent[t] = 1 /\ MyFate = "reverted"
      BY <1>5, <2>2 DEF ConfirmFails, Ledger, TypeOK
    <3>2. ASSUME NEW r \in Runs PROVE fate[t][r] \notin {"pool", "ok"}
      BY <2>2, <3>1 DEF MyFate, Chain, Runs
    <3> QED BY <1>5, <3>2 DEF ConfirmFails, chainVars, Spent
  <2> QED BY <1>5, <2>1, <2>2 DEF ConfirmFails, docVars
<1>6. CASE MarkFailed
  BY <1>6 DEF MarkFailed, NextJob, chainVars, TypeOK, Spent
<1>7. CASE Crash
  <2>1. status[t] = "FAILED" /\ lost[t] = 0
    BY <1>7 DEF Crash, CutShort, docVars, TypeOK
  <2> QED BY <1>7, <2>1 DEF Crash, chainVars, Spent
<1>8. CASE \/ Tick \/ Apply \/ Emit \/ (\E u \in Tx : TakeUp(u))
           \/ UNCHANGED vars
  BY <1>8 DEF Tick, Apply, Emit, TakeUp, NextJob, docVars, chainVars, vars,
              Settled, Spent
<1>9. CASE ApplyFails \/ EmitFails
  BY <1>9 DEF ApplyFails, EmitFails, docVars, chainVars, Spent
<1>10. CASE MarkFailedFails
  <2>1. status[t] = "FAILED" /\ lost[t] = 0
    BY <1>10 DEF MarkFailedFails, CutShort, NextJob, docVars, TypeOK
  <2> QED BY <1>10, <2>1 DEF MarkFailedFails, chainVars, Spent
<1> QED BY <1>1, <1>2, <1>3, <1>4, <1>5, <1>6, <1>7, <1>8, <1>9,
        <1>10
        DEF Next, LoopStep

\* A document marked FAILED in one go, by an error that tells the outcome,
\* never took effect on chain and never will.
THEOREM FailedMeansNoEffect == Spec => []FailedHadNoEffect
<1>1. Init => FailedSpent
  BY DEF Init, FailedSpent, Spent
<1>2. FailedSpent => FailedHadNoEffect
  BY DEF FailedSpent, FailedHadNoEffect, Spent, Executed
<1> QED BY <1>1, <1>2, FailedStep, Inductive, PTL DEF Spec

-----------------------------------------------------------------------------
(* The relayer implements TransactionQueue. *)

LEMMA InitImplements == Init => Queue!QInit
BY DEF Init, Queue!QInit, Executed, Stage

\* Only the chain's "ok" adds an execution.
LEMMA ExecutedStep ==
  ASSUME IInv, NEW t \in Tx, NEW r \in Runs, Decide(t, r)
  PROVE  \/ [u \in Tx |-> Executed(u)]' = [u \in Tx |-> Executed(u)]
         \/ /\ r \notin Executed(t)
            /\ [u \in Tx |-> Executed(u)]' =
                 [[u \in Tx |-> Executed(u)] EXCEPT ![t] = @ \cup {r}]
<1>1. PICK f \in {"ok", "reverted", "dropped"} :
        fate' = [fate EXCEPT ![t][r] = f]
  BY DEF Decide
<1>2. r \notin Executed(t)
  BY DEF Decide, Executed
<1>3. ASSUME NEW u \in Tx
      PROVE  Executed(u)' = IF u = t /\ f = "ok" THEN Executed(u) \cup {r}
                                                 ELSE Executed(u)
  BY <1>1, <1>2 DEF Executed, IInv, TypeOK
<1> QED BY <1>2, <1>3

\* A new broadcast has no effect yet.
LEMMA SendExecutes ==
  ASSUME IInv, Send
  PROVE  [u \in Tx |-> Executed(u)]' = [u \in Tx |-> Executed(u)]
<1> USE DEF IInv
<1>1. cur \in Tx
  BY DEF Send, TypeOK, Control
<1>2. ASSUME NEW u \in Tx PROVE Executed(u)' = Executed(u)
  <2>1. CASE UNCHANGED chainVars
    BY <2>1 DEF Executed, chainVars
  <2>2. CASE fate' = [fate EXCEPT ![cur][sent[cur] + 1] = "pool"]
    <3>1. ASSUME NEW r \in Runs, r = sent[cur] + 1
          PROVE  fate[cur][r] = "none"
      BY <1>1, <3>1 DEF TypeOK, Chain, Runs
    <3> QED BY <1>1, <2>2, <3>1 DEF Executed, TypeOK
  <2> QED BY <2>1, <2>2 DEF Send, Broadcast
<1> QED BY <1>2

LEMMA StepImplements ==
  IInv /\ [Next]_vars => [Queue!QNext]_(Queue!qvars)
<1> SUFFICES ASSUME IInv, [Next]_vars PROVE [Queue!QNext]_(Queue!qvars)
  OBVIOUS
<1> USE DEF IInv, Queue!QNext, Queue!qvars
<1>1. ASSUME fate' = fate
      PROVE  [u \in Tx |-> Executed(u)]' = [u \in Tx |-> Executed(u)]
  BY <1>1 DEF Executed
<1>2. CASE \E t \in Tx : QueueTransaction(t)
  BY <1>1, <1>2 DEF QueueTransaction, loopVars, chainVars, Stage, Queue!Submit
<1>3. CASE \E t \in Tx, r \in Runs : Decide(t, r)
  <2>1. PICK t \in Tx, r \in Runs : Decide(t, r)
    BY <1>3
  <2>2. status' = status /\ Stage' = Stage
    BY <2>1 DEF Decide, docVars, loopVars, Stage
  <2>3. status[t] # "ABSENT"
    BY <2>1 DEF Decide, Chain, Ledger, Runs, TypeOK
  <2> QED BY <2>1, <2>2, <2>3, ExecutedStep DEF Queue!Execute
<1>4. CASE Confirm
  <2>1. cur \in Tx /\ status[cur] = "PENDING" /\ sent[cur] \in Runs
    BY <1>4 DEF Confirm, TypeOK, Control, Runs
  <2>2. Executed(cur) # {}
    BY <1>4, <2>1 DEF Confirm, MyFate, Executed
  <2>3. Stage = << >> /\ Stage' = <<cur, "apply">>
    BY <1>4 DEF Confirm, Stage
  <2> QED BY <1>1, <1>4, <2>1, <2>2, <2>3
          DEF Confirm, chainVars, Queue!Complete
<1>5. CASE Apply
  <2>1. cur \in Tx /\ Stage = <<cur, "apply">> /\ Stage' = <<cur, "emit">>
    BY <1>5 DEF Apply, Stage, TypeOK, Control
  <2> QED BY <1>1, <1>5, <2>1 DEF Apply, docVars, chainVars, Queue!Applied
<1>6. CASE Emit
  <2>1. cur \in Tx /\ Stage = <<cur, "emit">> /\ Stage' = << >>
    BY <1>6 DEF Emit, NextJob, Stage, TypeOK, Control
  <2> QED BY <1>1, <1>6, <2>1 DEF Emit, docVars, chainVars, Queue!Announced
<1>7. CASE MarkFailed
  <2>1. cur \in Tx /\ Stage = << >> /\ Stage' = << >>
    BY <1>7 DEF MarkFailed, NextJob, Stage, TypeOK, Control
  <2> QED BY <1>1, <1>7, <2>1
          DEF MarkFailed, chainVars, Queue!Fail, TypeOK, Control
<1>8. CASE ApplyFails \/ EmitFails \/ Crash
  <2>1. Stage' = << >>
    BY <1>8 DEF ApplyFails, EmitFails, Crash, Stage
  <2>2. Stage = << >> => UNCHANGED Stage
    BY <2>1
  <2> QED BY <1>1, <1>8, <2>1, <2>2
          DEF ApplyFails, EmitFails, Crash, docVars, chainVars, Queue!Abandon
<1>9. CASE Send
  BY <1>9, SendExecutes DEF Send, Broadcast, docVars, Stage
<1>10. CASE \E t \in Tx : TakeUp(t)
  BY <1>1, <1>10 DEF TakeUp, Control, Settled, chainVars, Stage
<1>11. CASE \/ \E t \in Tx : Expire(t)
            \/ Tick \/ Preflight \/ ConfirmFails \/ MarkFailedFails
            \/ UNCHANGED vars
  BY <1>1, <1>11 DEF Expire, Tick, Preflight, ConfirmFails, MarkFailedFails,
       NextJob, vars, docVars, loopVars, chainVars, Stage
<1> QED BY <1>2, <1>3, <1>4, <1>5, <1>6, <1>7, <1>8, <1>9, <1>10, <1>11
        DEF Next, Environment, LoopStep

\* Callers may rely on TransactionQueue: a document reported COMPLETED has
\* taken effect on chain, reported results stay, and a credential is updated
\* right after its transaction was reported COMPLETED or not at all.
THEOREM QueueImplemented == Spec => ImplementsQueue
BY InitImplements, StepImplements, Inductive, PTL
   DEF Spec, ImplementsQueue, Queue!QSpec
=============================================================================
