--------------------- MODULE BlockchainCredentialProofs ---------------------
(***************************************************************************)
(* Proofs about BlockchainCredential, for any number of documents, calls,  *)
(* scripts and transactions and under every fault.                         *)
(***************************************************************************)
EXTENDS BlockchainCredential, TLAPS

\* What the chain, or a script that has read it, may call VERIFIED.
Confirmed(c) == onchain[c] \in {"VERIFIED", "REVOKED"} /\ Jobs("verify", c) # {}

\* What a task has at hand: the document it issues is PENDING and has no
\* transaction but its own, a verification has queued its transaction, what a
\* script will write as VERIFIED is confirmed.
TaskOK(p) ==
  /\ task[p].pc \in IssuePCs => doc[task[p].cred].st = "PENDING"
  /\ At(p, "issue") => Jobs("issue", task[p].cred) = {}
  /\ At(p, "link") => Jobs("issue", task[p].cred) \subseteq {task[p].tx}
  /\ At(p, "pending") => task[p].tx \in Jobs("verify", task[p].cred)
  /\ task[p].pc \in {"verify", "pending", "chain", "put"}
       => task[p].seen # "REJECTED"
  /\ task[p] \in Tasks /\ task[p].val = "VERIFIED" => Confirmed(task[p].cred)

\* A document has one issuing call, and no issuance before it exists.
OneIssuer ==
  \A p, q \in Req : task[p].pc \in IssuePCs /\ task[q].pc \in IssuePCs /\ p # q
                      => task[p].cred # task[q].cred

IInv ==
  /\ TypeOK
  /\ OneIssuer
  /\ \A p \in Req : TaskOK(p)
  /\ \A c \in Cred : doc[c].st = "ABSENT" => Jobs("issue", c) = {}
  /\ \A c \in Cred : onchain[c] = "VERIFIED" => Jobs("verify", c) # {}
  /\ VerifiedOnChain
  /\ IssuanceTracked

\* What RevocationSticks says of a step.
Sticks ==
  \A c \in Cred :
    doc[c].vs = "REJECTED" /\ doc'[c].vs # "REJECTED" =>
      \E p \in Req : /\ task[p].pc \in {"pending", "put"}
                     /\ task[p].cred = c /\ task[p].seen # "REJECTED"
                     /\ task'[p] = Done

-----------------------------------------------------------------------------
LEMMA TaskKinds ==
  ASSUME TypeOK, NEW p \in Req
  PROVE  /\ task[p].pc \in ServerPCs \cup ScriptPCs => task[p] \in Tasks
         /\ task[p] \in Tasks => /\ task[p].pc \in ServerPCs \cup ScriptPCs
                                 /\ task[p].cred \in Cred
  BY DEF TypeOK, Tasks, Idle, Done, ServerPCs, ScriptPCs, IssuePCs

\* A change of a task's program counter.
LEMMA PCStep ==
  ASSUME NEW t \in Tasks, NEW where \in ServerPCs \cup ScriptPCs
  PROVE  \E u \in Tasks : /\ u = [t EXCEPT !.pc = where] /\ u.pc = where
                          /\ u.cred = t.cred /\ u.tx = t.tx
                          /\ u.seen = t.seen /\ u.val = t.val
<1> DEFINE u == [t EXCEPT !.pc = where]
<1>1. /\ u \in Tasks /\ u.pc = where /\ u.cred = t.cred /\ u.tx = t.tx
      /\ u.seen = t.seen /\ u.val = t.val
  BY DEF Tasks
<1>2. u = [t EXCEPT !.pc = where]
  OBVIOUS
<1> HIDE DEF u
<1> QED BY <1>1, <1>2

\* Nothing but task p changes.
LEMMA TaskOnly ==
  ASSUME IInv, NEW p \in Req, NEW t \in Tasks \cup {Done},
         task' = [task EXCEPT ![p] = t], UNCHANGED <<doc, job, onchain>>,
         cut \subseteq cut', cut' \subseteq Cred,
         t.pc \in IssuePCs => /\ task[p].pc \in IssuePCs
                              /\ t \in Tasks /\ t.cred = task[p].cred,
         task[p].pc \in {"link", "fail"} =>
           t.pc = "fail" \/ task[p].cred \in cut',
         TaskOK(p)'
  PROVE  IInv' /\ Sticks
<1>1. /\ task' \in [Req -> Tasks \cup {Idle, Done}] /\ task'[p] = t
      /\ \A q \in Req \ {p} : task'[q] = task[q]
  BY DEF IInv, TypeOK
<1>2. \A kind \in {"issue", "verify"}, c \in Cred :
        Jobs(kind, c)' = Jobs(kind, c)
  BY DEF Jobs
<1>3. ASSUME NEW q \in Req PROVE TaskOK(q)'
  <2>1. CASE q = p
    BY <2>1
  <2>2. CASE q # p
    BY <1>1, <2>2 DEF IInv, TaskOK, At, Jobs, Confirmed
  <2> QED BY <2>1, <2>2
<1>4. OneIssuer'
  BY <1>1 DEF IInv, OneIssuer
<1>5. VerifiedOnChain'
  BY <1>2 DEF IInv, VerifiedOnChain
<1>6. IssuanceTracked'
  <2> SUFFICES ASSUME NEW c \in Cred \ cut', NEW u \in Jobs("issue", c)
               PROVE  \/ doc[c].tx \in {u} \cup Jobs("verify", c)
                      \/ doc[c].st = "FAILED"
                      \/ \E q \in Req : /\ task'[q].pc \in {"link", "fail"}
                                        /\ task'[q].cred = c
    BY <1>2 DEF IssuanceTracked
  <2>1. \/ doc[c].tx \in {u} \cup Jobs("verify", c)
        \/ doc[c].st = "FAILED"
        \/ \E q \in Req : task[q].pc \in {"link", "fail"} /\ task[q].cred = c
    BY DEF IInv, IssuanceTracked
  <2>2. ASSUME NEW q \in Req, task[q].pc \in {"link", "fail"},
               task[q].cred = c
        PROVE  task'[q].pc \in {"link", "fail"} /\ task'[q].cred = c
    BY <1>1, <2>2 DEF IssuePCs
  <2> QED BY <2>1, <2>2
<1>7. Sticks
  BY DEF Sticks
<1> QED BY <1>1, <1>2, <1>3, <1>4, <1>5, <1>6, <1>7 DEF IInv, TypeOK

\* Task p ends with a write to its document, which it may only give another
\* status when it issues it.
LEMMA DocStep ==
  ASSUME IInv, NEW p \in Req, task[p] \in Tasks, End(p), NEW c \in Cred,
         c = task[p].cred,
         UNCHANGED <<job, onchain, cut>>, NEW d \in Documents,
         doc' = [doc EXCEPT ![c] = d],
         d.st = doc[c].st \/ (task[p].pc \in IssuePCs /\ d.st # "ABSENT"),
         d.vs = "VERIFIED" => doc[c].vs = "VERIFIED" \/ Confirmed(c),
         \A u \in Jobs("issue", c) :
           \/ d.tx \in {u} \cup Jobs("verify", c)
           \/ d.st = "FAILED"
           \/ d.tx = doc[c].tx /\ d.st = doc[c].st
              /\ task[p].pc \notin {"link", "fail"},
         doc[c].vs = "REJECTED" /\ d.vs # "REJECTED" =>
           task[p].pc \in {"pending", "put"}
  PROVE  IInv' /\ Sticks
<1>1. /\ task' \in [Req -> Tasks \cup {Idle, Done}] /\ task'[p] = Done
      /\ \A q \in Req \ {p} : task'[q] = task[q]
  BY DEF IInv, TypeOK, End
<1>2. /\ doc' \in [Cred -> Documents] /\ doc'[c] = d
      /\ \A b \in Cred \ {c} : doc'[b] = doc[b]
  BY DEF IInv, TypeOK
<1>3. \A kind \in {"issue", "verify"}, b \in Cred :
        Jobs(kind, b)' = Jobs(kind, b)
  BY DEF Jobs
<1>4. ASSUME NEW q \in Req PROVE TaskOK(q)'
  <2>1. CASE q = p
    BY <1>1, <2>1
    DEF TaskOK, Done, At, IssuePCs, Tasks, ServerPCs, ScriptPCs
  <2>2. CASE q # p
    <3>1. task'[q] = task[q] /\ TaskOK(q)
      BY <1>1, <2>2 DEF IInv
    <3>2. task[q].pc \in IssuePCs => doc'[task[q].cred].st = "PENDING"
      <4> SUFFICES ASSUME task[q].pc \in IssuePCs
                   PROVE  doc'[task[q].cred].st = "PENDING"
        OBVIOUS
      <4>1. task[q].cred \in Cred /\ doc[task[q].cred].st = "PENDING"
        BY <3>1, TaskKinds DEF IInv, TaskOK, ServerPCs
      <4>2. CASE task[q].cred = c
        BY <1>2, <2>2, <4>1, <4>2 DEF IInv, OneIssuer
      <4>3. CASE task[q].cred # c
        BY <1>2, <4>1, <4>3
      <4> QED BY <4>2, <4>3
    <3> QED BY <3>1, <3>2 DEF TaskOK, At, Jobs, Confirmed
  <2> QED BY <2>1, <2>2
<1>5. OneIssuer'
  BY <1>1 DEF IInv, OneIssuer, Done, IssuePCs
<1>6. VerifiedOnChain'
  BY <1>2, <1>3 DEF IInv, VerifiedOnChain, Confirmed
<1>7. ASSUME NEW b \in Cred \ cut, NEW u \in Jobs("issue", b)
      PROVE  \/ doc'[b].tx \in {u} \cup Jobs("verify", b)
             \/ doc'[b].st = "FAILED"
             \/ \E q \in Req : task'[q].pc \in {"link", "fail"}
                               /\ task'[q].cred = b
  <2>1. \/ doc[b].tx \in {u} \cup Jobs("verify", b)
        \/ doc[b].st = "FAILED"
        \/ \E q \in Req : task[q].pc \in {"link", "fail"} /\ task[q].cred = b
    BY DEF IInv, IssuanceTracked
  <2>2. CASE b # c
    BY <1>1, <1>2, <2>1, <2>2
  <2>3. CASE b = c
    BY <1>1, <1>2, <2>1, <2>3
  <2> QED BY <2>2, <2>3
<1>8. IssuanceTracked'
  BY <1>3, <1>7 DEF IssuanceTracked
<1>9. \A b \in Cred : doc'[b].st = "ABSENT" => Jobs("issue", b)' = {}
  BY <1>2, <1>3 DEF IInv
<1>10. Sticks
  <2> SUFFICES ASSUME doc[c].vs = "REJECTED", d.vs # "REJECTED"
               PROVE  /\ task[p].pc \in {"pending", "put"}
                      /\ task[p].seen # "REJECTED"
    BY <1>1, <1>2 DEF Sticks
  <2> QED BY DEF IInv, TaskOK
<1> QED BY <1>1, <1>2, <1>3, <1>4, <1>5, <1>6, <1>8, <1>9, <1>10
        DEF IInv, TypeOK

\* A transaction is queued; the task goes on with its name.
LEMMA QueueStep ==
  ASSUME IInv, NEW p \in Req, NEW kind \in {"issue", "verify", "revoke"},
         NEW next \in {"link", "pending", "reject"},
         task[p] \in Tasks, Enqueue(p, kind, next),
         /\ kind = "issue" => next = "link" /\ At(p, "issue")
         /\ kind = "verify" => next = "pending" /\ At(p, "verify")
         /\ kind = "revoke" => next = "reject" /\ At(p, "revoke")
  PROVE  IInv' /\ Sticks
<1>1. PICK c \in Cred : c = task[p].cred /\ TaskOK(p)
  BY TaskKinds DEF IInv
<1>2. PICK t \in Tx :
        /\ job[t] = NoJob
        /\ job' = [job EXCEPT ![t] = [kind |-> kind, cred |-> c]]
        /\ task' = [task EXCEPT ![p].pc = next, ![p].tx = t]
        /\ UNCHANGED <<doc, onchain, cut>>
  BY <1>1 DEF Enqueue
<1> DEFINE j == [kind |-> kind, cred |-> c]
           u == [task[p] EXCEPT !.pc = next]
           v == [u EXCEPT !.tx = t]
<1>3. task' = [task EXCEPT ![p] = v] /\ job' = [job EXCEPT ![t] = j]
  BY <1>2
<1>4. /\ u \in Tasks /\ u.pc = next /\ u.cred = c /\ u.seen = task[p].seen
      /\ u.val = task[p].val
  BY <1>1, PCStep DEF ServerPCs, IssuePCs
<1>5. j \in [kind : {"issue", "verify", "revoke"}, cred : Cred]
      /\ j.kind = kind /\ j.cred = c
  BY <1>1
<1> HIDE DEF u
<1>6. /\ v \in Tasks /\ v.pc = next /\ v.cred = c /\ v.seen = task[p].seen
      /\ v.val = task[p].val /\ v.tx = t
  BY <1>4 DEF Tasks
<1> HIDE DEF v
<1>7. /\ task' \in [Req -> Tasks \cup {Idle, Done}] /\ task'[p] = v
      /\ \A q \in Req \ {p} : task'[q] = task[q]
  BY <1>3, <1>6 DEF IInv, TypeOK
<1>8. /\ job' \in [Tx -> {NoJob} \cup
                    [kind : {"issue", "verify", "revoke"}, cred : Cred]]
      /\ job'[t] = j
      /\ \A s \in Tx \ {t} : job'[s] = job[s]
  BY <1>3, <1>5 DEF IInv, TypeOK
<1>9. ASSUME NEW k \in {"issue", "verify"}, NEW b \in Cred
      PROVE  Jobs(k, b)' = IF k = kind /\ b = c THEN Jobs(k, b) \cup {t}
                           ELSE Jobs(k, b)
  <2>1. t \notin Jobs(k, b)
    BY <1>2 DEF Jobs, NoJob
  <2>2. [kind |-> k, cred |-> b] = j <=> k = kind /\ b = c
    BY <1>5
  <2> QED BY <1>8, <2>1, <2>2 DEF Jobs
<1>10. ASSUME NEW q \in Req PROVE TaskOK(q)'
  <2>1. CASE q = p
    <3>1. doc[c].st = "PENDING" \/ kind # "issue"
      BY <1>1 DEF TaskOK, At, IssuePCs
    <3>2. kind = "issue" => Jobs("issue", c)' = {t}
      BY <1>1, <1>9 DEF TaskOK
    <3>3. kind = "verify" => t \in Jobs("verify", c)'
      BY <1>1, <1>9
    <3>4. kind = "verify" => v.seen # "REJECTED"
      BY <1>1, <1>6 DEF TaskOK, At
    <3>5. v.val = "VERIFIED" => Confirmed(c)'
      <4> SUFFICES ASSUME v.val = "VERIFIED" PROVE Confirmed(c)'
        OBVIOUS
      <4>1. Confirmed(c)
        BY <1>1, <1>6 DEF TaskOK
      <4>2. Jobs("verify", c) \subseteq Jobs("verify", c)'
        BY <1>1, <1>9
      <4> QED BY <1>2, <4>1, <4>2 DEF Confirmed
    <3>6. /\ task'[p].pc = next /\ task'[p].cred = c /\ task'[p].tx = t
          /\ task'[p].seen = v.seen /\ task'[p].val = v.val
      BY <1>6, <1>7
    <3>7. task'[p].pc \in IssuePCs => doc'[task'[p].cred].st = "PENDING"
      BY <1>2, <3>1, <3>6 DEF IssuePCs
    <3>8. At(p, "link")' => Jobs("issue", task[p].cred)' \subseteq {task'[p].tx}
      BY <3>2, <3>6 DEF At, Jobs
    <3>9. At(p, "pending")' => task'[p].tx \in Jobs("verify", task[p].cred)'
      BY <3>3, <3>6 DEF At, Jobs
    <3>10. task'[p].val = "VERIFIED" => Confirmed(task[p].cred)'
      BY <3>5, <3>6 DEF Confirmed, Jobs
    <3>11. /\ ~At(p, "issue")'
           /\ task'[p].pc \in {"verify", "pending", "chain", "put"}
                => task'[p].seen # "REJECTED"
      BY <3>4, <3>6 DEF At
    <3> QED BY <2>1, <3>7, <3>8, <3>9, <3>10, <3>11 DEF TaskOK
  <2>2. CASE q # p
    <3>1. task'[q] = task[q] /\ TaskOK(q)
      BY <1>7, <2>2 DEF IInv
    <3>2. CASE task[q] \notin Tasks
      BY <3>1, <3>2, TaskKinds
      DEF IInv, TaskOK, At, ServerPCs, ScriptPCs, IssuePCs
    <3>3. CASE task[q] \in Tasks
      <4> DEFINE b == task[q].cred
      <4>1. b \in Cred
        BY <3>3, TaskKinds DEF IInv
      <4>2. Jobs("verify", b) \subseteq Jobs("verify", b)'
        BY <3>1, <4>1, <1>9
      <4>3. task[q].pc \in IssuePCs => Jobs("issue", b)' = Jobs("issue", b)
        <5>1. task[q].pc \in IssuePCs /\ kind = "issue" => b # c
          BY <1>1, <2>2 DEF IInv, OneIssuer, At, IssuePCs
        <5> QED BY <1>9, <3>1, <4>1, <5>1
      <4> QED BY <1>2, <3>1, <4>2, <4>3 DEF TaskOK, At, IssuePCs, Confirmed
    <3> QED BY <3>2, <3>3
  <2> QED BY <2>1, <2>2
<1>11. OneIssuer'
  <2>1. task'[p].pc \in IssuePCs => task[p].pc \in IssuePCs
    BY <1>6, <1>7 DEF IssuePCs, At
  <2>2. task'[p].cred = task[p].cred
    BY <1>1, <1>6, <1>7
  <2> QED BY <1>7, <2>1, <2>2 DEF IInv, OneIssuer
<1>12. \A b \in Cred : Jobs("verify", b) \subseteq Jobs("verify", b)'
  BY <1>9
<1>13. VerifiedOnChain'
  BY <1>2, <1>12 DEF IInv, VerifiedOnChain
<1>14. IssuanceTracked'
  <2> SUFFICES ASSUME NEW b \in Cred \ cut, NEW s \in Jobs("issue", b)'
               PROVE  \/ doc[b].tx \in {s} \cup Jobs("verify", b)'
                      \/ doc[b].st = "FAILED"
                      \/ \E q \in Req : /\ task'[q].pc \in {"link", "fail"}
                                        /\ task'[q].cred = b
    BY <1>2 DEF IssuanceTracked
  <2>1. CASE kind = "issue" /\ b = c
    BY <1>6, <1>7, <2>1
  <2>2. CASE ~(kind = "issue" /\ b = c)
    <3>1. s \in Jobs("issue", b)
      BY <1>9, <2>2
    <3>2. \/ doc[b].tx \in {s} \cup Jobs("verify", b)
          \/ doc[b].st = "FAILED"
          \/ \E q \in Req : task[q].pc \in {"link", "fail"} /\ task[q].cred = b
      BY <3>1 DEF IInv, IssuanceTracked
    <3>3. task[p].pc \notin {"link", "fail"}
      BY DEF At
    <3> QED BY <1>7, <1>12, <3>2, <3>3
  <2> QED BY <2>1, <2>2
<1>15. \A b \in Cred : doc'[b].st = "ABSENT" => Jobs("issue", b)' = {}
  <2>1. kind = "issue" => doc[c].st = "PENDING"
    BY <1>1 DEF TaskOK, At, IssuePCs
  <2> QED BY <1>2, <1>9, <2>1 DEF IInv
<1>16. \A b \in Cred : onchain'[b] = "VERIFIED" => Jobs("verify", b)' # {}
  BY <1>2, <1>12 DEF IInv
<1> QED BY <1>2, <1>7, <1>8, <1>10, <1>11, <1>13, <1>14, <1>15, <1>16
        DEF IInv, TypeOK, Sticks

-----------------------------------------------------------------------------
(* The steps of the calls and the scripts.                                 *)

LEMMA BeginStep ==
  ASSUME IInv, NEW p \in Req, NEW c \in Cred,
         \/ VerifyCall(p, c) \/ RevokeCall(p, c) \/ FixCall(p, c)
         \/ ReconcileCall(p, c)
  PROVE  IInv' /\ Sticks
<1>1. ASSUME NEW where \in {"verify", "revoke", "put", "chain"},
             NEW val \in {"none", "ISSUED"},
             where # "revoke" => doc[c].vs # "REJECTED",
             Begin(p, c, where, val)
      PROVE  IInv' /\ Sticks
  <2> DEFINE t == [pc |-> where, cred |-> c, tx |-> NoTx,
                   seen |-> doc[c].vs, val |-> val]
  <2>1. doc[c] \in Documents
    BY DEF IInv, TypeOK
  <2>2. /\ t \in Tasks /\ t.pc = where /\ t.seen = doc[c].vs /\ t.val = val
    BY <2>1 DEF Tasks, Documents, Statuses, ServerPCs, ScriptPCs
  <2>3. /\ task' = [task EXCEPT ![p] = t] /\ At(p, "idle")
        /\ UNCHANGED <<doc, job, onchain, cut>>
    BY <1>1 DEF Begin
  <2> HIDE DEF t
  <2>4. task'[p] = t
    BY <2>3 DEF IInv, TypeOK
  <2>5. TaskOK(p)'
    BY <1>1, <2>2, <2>4 DEF TaskOK, At, IssuePCs
  <2> QED BY <2>2, <2>3, <2>5, TaskOnly DEF At, IssuePCs, IInv, TypeOK
<1>2. CASE VerifyCall(p, c)
  BY <1>1, <1>2 DEF VerifyCall
<1>3. CASE RevokeCall(p, c)
  BY <1>1, <1>3 DEF RevokeCall
<1>4. CASE FixCall(p, c)
  BY <1>1, <1>4 DEF FixCall
<1>5. CASE ReconcileCall(p, c)
  BY <1>1, <1>5 DEF ReconcileCall
<1> QED BY <1>2, <1>3, <1>4, <1>5

LEMMA FailStep ==
  ASSUME IInv, NEW p \in Req,
         IssueFails(p) \/ MarkFailedFails(p) \/ CallFails(p)
  PROVE  IInv' /\ Sticks
<1>1. /\ task[p] \in Tasks /\ TaskOK(p) /\ task[p].cred \in Cred
      /\ UNCHANGED <<doc, job, onchain>>
      /\ cut \subseteq cut' /\ cut' \subseteq Cred
  <2>1. task[p].pc \in ServerPCs
    BY DEF IssueFails, MarkFailedFails, CallFails, At, ServerPCs, IssuePCs
  <2> QED BY <2>1, TaskKinds
          DEF IssueFails, MarkFailedFails, CallFails, IInv, TypeOK
<1>2. CASE IssueFails(p)
  <2>1. PICK u \in Tasks : /\ u = [task[p] EXCEPT !.pc = "fail"]
                           /\ u.pc = "fail" /\ u.cred = task[p].cred
                           /\ u.val = task[p].val
    BY <1>1, PCStep, ZenonT(60) DEF ServerPCs, IssuePCs
  <2>2. task' = [task EXCEPT ![p] = u]
    BY <1>2, <2>1 DEF IssueFails, Goto
  <2>3. task'[p] = u
    BY <2>2 DEF IInv, TypeOK
  <2>4. TaskOK(p)'
    <3>1. doc[task[p].cred].st = "PENDING"
      BY <1>1, <1>2 DEF IssueFails, TaskOK, At, IssuePCs
    <3>2. u.val = "VERIFIED" => Confirmed(task[p].cred)
      BY <1>1, <2>1 DEF TaskOK
    <3> QED BY <1>1, <2>1, <2>3, <3>1, <3>2 DEF TaskOK, At, Confirmed, Jobs
  <2> QED BY <1>1, <1>2, <2>1, <2>2, <2>4, TaskOnly
          DEF IssueFails, At, IssuePCs
<1>3. CASE MarkFailedFails(p) \/ CallFails(p)
  <2>1. End(p) /\ (task[p].pc \in {"link", "fail"} => task[p].cred \in cut')
    BY <1>3 DEF MarkFailedFails, CallFails, At
  <2>2. TaskOK(p)'
    BY <2>1 DEF IInv, TypeOK, End, TaskOK, Done, At, IssuePCs, Tasks
  <2> QED BY <1>1, <2>1, <2>2, TaskOnly DEF End, Done, IssuePCs
<1> QED BY <1>2, <1>3

LEMMA ReadStep ==
  ASSUME IInv, NEW p \in Req, ReconcileRead(p)
  PROVE  IInv' /\ Sticks
<1> DEFINE answer == Reads(task[p].cred)
<1>1. /\ task[p] \in Tasks /\ TaskOK(p) /\ task[p].cred \in Cred
      /\ At(p, "chain") /\ UNCHANGED <<doc, job, onchain, cut>>
  BY TaskKinds DEF ReconcileRead, IInv, At, ScriptPCs
<1>2. CASE answer \in {"error", task[p].seen}
  <2>1. End(p)
    BY <1>2 DEF ReconcileRead
  <2>2. TaskOK(p)'
    BY <2>1 DEF IInv, TypeOK, End, TaskOK, Done, At, IssuePCs, Tasks
  <2> QED BY <1>1, <2>1, <2>2, TaskOnly
          DEF End, Done, IssuePCs, At, IInv, TypeOK
<1>3. CASE answer \notin {"error", task[p].seen}
  <2> DEFINE u == [task[p] EXCEPT !.pc = "put"]
             v == [u EXCEPT !.val = answer]
  <2>1. task' = [task EXCEPT ![p] = v]
    BY <1>3 DEF ReconcileRead
  <2>2. answer \in {"none", "PENDING", "ISSUED", "VERIFIED", "REVOKED"}
    BY <1>1, <1>3, IssuerAssumption DEF Reads, IInv, TypeOK
  <2>3. answer = "VERIFIED" => onchain[task[p].cred] = "VERIFIED"
    BY IssuerAssumption DEF Reads
  <2> HIDE DEF answer
  <2>4. /\ u \in Tasks /\ u.pc = "put" /\ u.cred = task[p].cred
        /\ u.seen = task[p].seen
    BY <1>1, PCStep DEF ScriptPCs
  <2> HIDE DEF u
  <2>5. /\ v \in Tasks /\ v.pc = "put" /\ v.cred = task[p].cred
        /\ v.seen = task[p].seen /\ v.val = answer
    BY <2>2, <2>4 DEF Tasks
  <2> HIDE DEF v
  <2>6. task'[p] = v
    BY <2>1 DEF IInv, TypeOK
  <2>7. v.val = "VERIFIED" => Confirmed(task[p].cred)
    BY <1>1, <2>3, <2>5 DEF IInv, Confirmed
  <2>8. v.seen # "REJECTED"
    BY <1>1, <2>5 DEF TaskOK, At
  <2>9. TaskOK(p)'
    BY <1>1, <2>5, <2>6, <2>7, <2>8
    DEF TaskOK, At, IssuePCs, Confirmed, Jobs
  <2> QED BY <1>1, <2>1, <2>5, <2>9, TaskOnly DEF At, IssuePCs, IInv, TypeOK
<1> QED BY <1>2, <1>3

\* A document is created by the call that will issue it.
LEMMA CreateStep ==
  ASSUME IInv, NEW p \in Req, NEW c \in Cred, Create(p, c)
  PROVE  IInv' /\ Sticks
<1> DEFINE d == [doc[c] EXCEPT !.st = "PENDING"]
           t == [pc |-> "issue", cred |-> c, tx |-> NoTx,
                 seen |-> doc[c].vs, val |-> "none"]
<1>1. /\ At(p, "idle") /\ doc[c].st = "ABSENT" /\ doc[c] \in Documents
      /\ UNCHANGED <<job, onchain, cut>>
  BY DEF Create, IInv, TypeOK
<1>2. /\ d \in Documents /\ d.st = "PENDING" /\ d.vs = doc[c].vs
      /\ d.tx = doc[c].tx
  BY <1>1 DEF Documents
<1>3. /\ t \in Tasks /\ t.pc = "issue" /\ t.cred = c /\ t.val = "none"
  BY <1>1 DEF Tasks, Documents, Statuses, ServerPCs, IssuePCs
<1>4. doc' = [doc EXCEPT ![c] = d] /\ task' = [task EXCEPT ![p] = t]
  BY DEF Create
<1> HIDE DEF d, t
<1>5. /\ doc' \in [Cred -> Documents] /\ doc'[c] = d
      /\ \A b \in Cred \ {c} : doc'[b] = doc[b]
      /\ task' \in [Req -> Tasks \cup {Idle, Done}] /\ task'[p] = t
      /\ \A q \in Req \ {p} : task'[q] = task[q]
  BY <1>2, <1>3, <1>4 DEF IInv, TypeOK
<1>6. \A kind \in {"issue", "verify"}, b \in Cred :
        Jobs(kind, b)' = Jobs(kind, b)
  BY <1>1 DEF Jobs
<1>7. Jobs("issue", c) = {}
  BY <1>1 DEF IInv
<1>8. ASSUME NEW q \in Req \ {p}, task[q].pc \in IssuePCs
      PROVE  task[q].cred \in Cred /\ task[q].cred # c
  <2>1. task[q].cred \in Cred
    BY <1>8, TaskKinds DEF IInv, ServerPCs
  <2> QED BY <1>1, <1>8, <2>1 DEF IInv, TaskOK
<1>9. ASSUME NEW q \in Req PROVE TaskOK(q)'
  <2>1. CASE q = p
    BY <1>2, <1>3, <1>5, <1>6, <1>7, <2>1 DEF TaskOK, At
  <2>2. CASE q # p
    <3>1. task'[q] = task[q] /\ TaskOK(q)
      BY <1>5, <2>2 DEF IInv
    <3>2. task[q].pc \in IssuePCs => doc'[task[q].cred].st = "PENDING"
      BY <1>5, <1>8, <2>2, <3>1 DEF TaskOK
    <3> QED BY <1>1, <3>1, <3>2 DEF TaskOK, At, Jobs, Confirmed
  <2> QED BY <2>1, <2>2
<1>10. OneIssuer'
  BY <1>3, <1>5, <1>8 DEF IInv, OneIssuer
<1>11. VerifiedOnChain'
  BY <1>1, <1>2, <1>5, <1>6 DEF IInv, VerifiedOnChain
<1>12. IssuanceTracked'
  <2> SUFFICES ASSUME NEW b \in Cred \ cut, NEW u \in Jobs("issue", b)
               PROVE  \/ doc'[b].tx \in {u} \cup Jobs("verify", b)
                      \/ doc'[b].st = "FAILED"
                      \/ \E q \in Req : /\ task'[q].pc \in {"link", "fail"}
                                        /\ task'[q].cred = b
    BY <1>1, <1>6 DEF IssuanceTracked
  <2>1. b # c
    BY <1>7
  <2>2. \/ doc[b].tx \in {u} \cup Jobs("verify", b)
        \/ doc[b].st = "FAILED"
        \/ \E q \in Req : task[q].pc \in {"link", "fail"} /\ task[q].cred = b
    BY DEF IInv, IssuanceTracked
  <2>3. task[p].pc \notin {"link", "fail"}
    BY <1>1 DEF At
  <2> QED BY <1>5, <2>1, <2>2, <2>3
<1>13. \A b \in Cred : doc'[b].st = "ABSENT" => Jobs("issue", b)' = {}
  BY <1>5, <1>6, <1>7 DEF IInv
<1>14. Sticks
  BY <1>2, <1>5 DEF Sticks
<1>15. \A b \in Cred : onchain'[b] = "VERIFIED" => Jobs("verify", b)' # {}
  BY <1>1, <1>6 DEF IInv
<1> QED BY <1>1, <1>5, <1>9, <1>10, <1>11, <1>12, <1>13, <1>14, <1>15
        DEF IInv, TypeOK

LEMMA WriteStep ==
  ASSUME IInv, NEW p \in Req,
         Link(p) \/ MarkFailed(p) \/ VerifyPending(p) \/ Reject(p) \/ Put(p)
  PROVE  IInv' /\ Sticks
<1>1. /\ task[p] \in Tasks /\ TaskOK(p) /\ End(p)
      /\ UNCHANGED <<job, onchain, cut>>
  BY TaskKinds DEF Link, MarkFailed, VerifyPending, Reject, Put, IInv, At,
                   ServerPCs, IssuePCs, ScriptPCs
<1>2. PICK c \in Cred : c = task[p].cred
  BY <1>1 DEF Tasks
<1>3. doc[c] \in Documents /\ task[p].tx \in Tx \cup {NoTx}
  BY <1>1 DEF IInv, TypeOK, Tasks
<1>4. CASE Link(p)
  <2> DEFINE e == [doc[c] EXCEPT !.tx = task[p].tx]
             d == [e EXCEPT !.st = "PENDING_BLOCKCHAIN"]
  <2>1. doc' = [doc EXCEPT ![c] = d]
    BY <1>2, <1>4 DEF Link
  <2>2. e \in Documents /\ e.vs = doc[c].vs /\ e.tx = task[p].tx
    BY <1>3 DEF Documents
  <2> HIDE DEF e
  <2>3. /\ d \in Documents /\ d.vs = e.vs /\ d.tx = e.tx
        /\ d.st = "PENDING_BLOCKCHAIN"
    BY <2>2 DEF Documents
  <2> HIDE DEF d
  <2>4. \A u \in Jobs("issue", c) : d.tx = u
    BY <1>1, <1>2, <1>4, <2>2, <2>3 DEF TaskOK, Link
  <2>5. /\ task[p].pc \in IssuePCs /\ d.st # "ABSENT" /\ d.vs = doc[c].vs
        /\ \A u \in Jobs("issue", c) : d.tx \in {u} \cup Jobs("verify", c)
    BY <1>4, <2>2, <2>3, <2>4 DEF Link, At, IssuePCs
  <2> QED BY <1>1, <1>2, <2>1, <2>3, <2>5, DocStep
<1>5. CASE MarkFailed(p)
  <2> DEFINE d == [doc[c] EXCEPT !.st = "FAILED"]
  <2>1. doc' = [doc EXCEPT ![c] = d]
    BY <1>2, <1>5 DEF MarkFailed
  <2>2. d \in Documents /\ d.vs = doc[c].vs /\ d.st = "FAILED"
    BY <1>3 DEF Documents
  <2> HIDE DEF d
  <2>3. task[p].pc \in IssuePCs /\ d.st # "ABSENT"
    BY <1>5, <2>2 DEF MarkFailed, At, IssuePCs
  <2> QED BY <1>1, <1>2, <2>1, <2>2, <2>3, DocStep
<1>6. CASE VerifyPending(p)
  <2> DEFINE e == [doc[c] EXCEPT !.vs = "PENDING_BLOCKCHAIN"]
             d == [e EXCEPT !.tx = task[p].tx]
  <2>1. doc' = [doc EXCEPT ![c] = d]
    BY <1>2, <1>6 DEF VerifyPending
  <2>2. e \in Documents /\ e.vs = "PENDING_BLOCKCHAIN" /\ e.st = doc[c].st
    BY <1>3 DEF Documents, Statuses
  <2> HIDE DEF e
  <2>3. d \in Documents /\ d.vs = e.vs /\ d.st = e.st /\ d.tx = task[p].tx
    BY <1>3, <2>2 DEF Documents
  <2> HIDE DEF d
  <2>4. d.tx \in Jobs("verify", c)
    BY <1>1, <1>2, <1>6, <2>3 DEF TaskOK, VerifyPending
  <2> QED BY <1>1, <1>2, <1>6, <2>1, <2>2, <2>3, <2>4, DocStep
          DEF VerifyPending, At
<1>7. ASSUME NEW v \in {"none", "PENDING", "ISSUED", "VERIFIED", "REVOKED",
                        "REJECTED"},
             v = "VERIFIED" => Confirmed(c), v = "REJECTED" \/ At(p, "put"),
             doc' = [doc EXCEPT ![c].vs = v],
             task[p].pc \notin {"link", "fail"}
      PROVE  IInv' /\ Sticks
  <2> DEFINE d == [doc[c] EXCEPT !.vs = v]
  <2>1. doc' = [doc EXCEPT ![c] = d]
    BY <1>7
  <2>2. d \in Documents /\ d.vs = v /\ d.st = doc[c].st /\ d.tx = doc[c].tx
    BY <1>3 DEF Documents, Statuses
  <2> HIDE DEF d
  <2>3. /\ d.st = doc[c].st
        /\ d.vs = "VERIFIED" => doc[c].vs = "VERIFIED" \/ Confirmed(c)
        /\ doc[c].vs = "REJECTED" /\ d.vs # "REJECTED"
             => task[p].pc \in {"pending", "put"}
    BY <1>7, <2>2 DEF At
  <2>4. \A u \in Jobs("issue", c) :
          \/ d.tx \in {u} \cup Jobs("verify", c)
          \/ d.st = "FAILED"
          \/ d.tx = doc[c].tx /\ d.st = doc[c].st
             /\ task[p].pc \notin {"link", "fail"}
    BY <1>7, <2>2
  <2> QED BY <1>1, <1>2, <2>1, <2>2, <2>3, <2>4, DocStep
<1>8. CASE Reject(p)
  BY <1>2, <1>7, <1>8 DEF Reject, At
<1>9. CASE Put(p)
  <2>1. /\ task[p].val \in {"none", "PENDING", "ISSUED", "VERIFIED", "REVOKED"}
        /\ task[p].val = "VERIFIED" => Confirmed(c)
    BY <1>1, <1>2 DEF Tasks, TaskOK
  <2> QED BY <1>2, <1>7, <1>9, <2>1 DEF Put, At
<1> QED BY <1>4, <1>5, <1>6, <1>8, <1>9

\* The contract executes; the status of a credential only goes forward.
LEMMA ExecuteStep ==
  ASSUME IInv, NEW t \in Tx, Execute(t)
  PROVE  IInv' /\ Sticks
<1> DEFINE c == job[t].cred
<1>1. UNCHANGED <<doc, job, task, cut>>
  BY DEF Execute
<1>2. job[t].kind # "none" /\ c \in Cred
      /\ job[t] = [kind |-> job[t].kind, cred |-> c]
  <2>1. job[t].kind \in {"issue", "verify", "revoke"}
    BY DEF Execute
  <2>2. job[t] \in [kind : {"issue", "verify", "revoke"}, cred : Cred]
    BY <2>1 DEF IInv, TypeOK, NoJob
  <2> QED BY <2>2
<1>3. \A kind \in {"issue", "verify"}, b \in Cred :
        Jobs(kind, b)' = Jobs(kind, b)
  BY <1>1 DEF Jobs
<1>4. /\ onchain' \in [Cred -> {"none", "ISSUED", "VERIFIED", "REVOKED"}]
      /\ \A b \in Cred : onchain[b] \in {"VERIFIED", "REVOKED"} =>
           onchain'[b] \in {"VERIFIED", "REVOKED"}
      /\ \A b \in Cred : onchain'[b] = "VERIFIED" => Jobs("verify", b) # {}
  <2>1. CASE job[t].kind = "issue"
    BY <1>2, <2>1 DEF Execute, IInv, TypeOK
  <2>2. CASE job[t].kind = "verify"
    <3>1. t \in Jobs("verify", c)
      BY <1>2, <2>2 DEF Jobs
    <3> QED BY <1>2, <2>2, <3>1 DEF Execute, IInv, TypeOK
  <2>3. CASE job[t].kind = "revoke"
    BY <1>2, <2>3 DEF Execute, IInv, TypeOK
  <2> QED BY <2>1, <2>2, <2>3 DEF Execute
<1> HIDE DEF c
<1>5. ASSUME NEW q \in Req PROVE TaskOK(q)'
  <2>1. TaskOK(q)
    BY DEF IInv
  <2>2. task[q] \in Tasks /\ task[q].val = "VERIFIED" =>
          Confirmed(task[q].cred)'
    BY <1>1, <1>4, <2>1, TaskKinds DEF IInv, TaskOK, Confirmed, Jobs
  <2> QED BY <1>1, <2>1, <2>2 DEF TaskOK, At, Jobs
<1>6. VerifiedOnChain' /\ IssuanceTracked' /\ OneIssuer'
  BY <1>1, <1>3, <1>4
  DEF IInv, VerifiedOnChain, IssuanceTracked, OneIssuer
<1> QED BY <1>1, <1>3, <1>4, <1>5, <1>6 DEF IInv, TypeOK, Sticks

LEMMA CrashStep ==
  ASSUME IInv, Crash
  PROVE  IInv' /\ Sticks
<1>1. /\ UNCHANGED <<doc, job, onchain>>
      /\ task' = [p \in Req |-> IF task[p].pc \in ServerPCs THEN Done
                                                           ELSE task[p]]
      /\ cut' = cut \cup {c \in Cred :
           \E p \in Req : task[p].pc \in IssuePCs /\ task[p].cred = c}
  BY DEF Crash
<1>2. \A kind \in {"issue", "verify"}, b \in Cred :
        Jobs(kind, b)' = Jobs(kind, b)
  BY <1>1 DEF Jobs
<1>3. ASSUME NEW q \in Req
      PROVE  task'[q] = Done \/ (task'[q] = task[q]
                                 /\ task[q].pc \notin ServerPCs)
  BY <1>1
<1>4. ASSUME NEW q \in Req PROVE TaskOK(q)'
  <2>1. CASE task'[q] = Done
    BY <2>1 DEF TaskOK, Done, At, IssuePCs, Tasks
  <2>2. CASE task'[q] = task[q]
    BY <1>1, <2>2 DEF IInv, TaskOK, At, Jobs, Confirmed
  <2> QED BY <1>3, <2>1, <2>2
<1>5. OneIssuer'
  BY <1>3 DEF OneIssuer, Done, ServerPCs, IssuePCs
<1>6. VerifiedOnChain'
  BY <1>1, <1>2 DEF IInv, VerifiedOnChain
<1>7. IssuanceTracked'
  <2> SUFFICES ASSUME NEW c \in Cred \ cut', NEW u \in Jobs("issue", c)
               PROVE  \/ doc[c].tx \in {u} \cup Jobs("verify", c)
                      \/ doc[c].st = "FAILED"
    BY <1>1, <1>2 DEF IssuanceTracked
  <2>1. ~\E q \in Req : task[q].pc \in {"link", "fail"} /\ task[q].cred = c
    BY <1>1 DEF IssuePCs
  <2> QED BY <1>1, <2>1 DEF IInv, IssuanceTracked
<1>8. task' \in [Req -> Tasks \cup {Idle, Done}] /\ cut' \in SUBSET Cred
  BY <1>1 DEF IInv, TypeOK
<1> QED BY <1>1, <1>2, <1>4, <1>5, <1>6, <1>7, <1>8 DEF IInv, TypeOK, Sticks

-----------------------------------------------------------------------------
LEMMA InitIInv == Init => IInv
<1> SUFFICES ASSUME Init PROVE IInv
  OBVIOUS
<1>1. \A kind \in {"issue", "verify", "revoke"}, c \in Cred :
        Jobs(kind, c) = {}
  BY DEF Init, Jobs, NoJob
<1>2. TypeOK
  BY IssuerAssumption
  DEF Init, TypeOK, Documents, Statuses, NoTx, NoJob, Idle
<1>3. OneIssuer /\ \A p \in Req : TaskOK(p)
  BY DEF Init, OneIssuer, TaskOK, Idle, IssuePCs, At, Tasks
<1>4. VerifiedOnChain /\ IssuanceTracked
  BY <1>1 DEF Init, VerifiedOnChain, IssuanceTracked
<1> QED BY <1>1, <1>2, <1>3, <1>4 DEF IInv, Init

LEMMA NextIInv ==
  ASSUME IInv, Next
  PROVE  IInv' /\ Sticks
<1>1. ASSUME NEW p \in Req, Step(p) PROVE IInv' /\ Sticks
  <2>1. CASE QueueIssue(p)
    BY <2>1, QueueStep, TaskKinds
    DEF QueueIssue, At, IInv, ServerPCs, IssuePCs
  <2>2. CASE QueueVerify(p)
    BY <2>2, QueueStep, TaskKinds DEF QueueVerify, At, IInv, ServerPCs
  <2>3. CASE QueueRevoke(p)
    BY <2>3, QueueStep, TaskKinds DEF QueueRevoke, At, IInv, ServerPCs
  <2>4. CASE \/ Link(p) \/ MarkFailed(p) \/ VerifyPending(p) \/ Reject(p)
             \/ Put(p)
    BY <2>4, WriteStep
  <2>5. CASE IssueFails(p) \/ MarkFailedFails(p) \/ CallFails(p)
    BY <2>5, FailStep
  <2>6. CASE ReconcileRead(p)
    BY <2>6, ReadStep
  <2> QED BY <1>1, <2>1, <2>2, <2>3, <2>4, <2>5, <2>6 DEF Step
<1>2. ASSUME NEW p \in Req, NEW c \in Cred, Call(p, c)
      PROVE  IInv' /\ Sticks
  BY <1>2, CreateStep, BeginStep DEF Call
<1> QED BY <1>1, <1>2, ExecuteStep, CrashStep DEF Next

LEMMA StutterIInv ==
  ASSUME IInv, UNCHANGED vars
  PROVE  IInv' /\ Sticks
<1>1. \A kind \in {"issue", "verify"}, c \in Cred :
        Jobs(kind, c)' = Jobs(kind, c)
  BY DEF vars, Jobs
<1>2. \A p \in Req : TaskOK(p)'
  BY DEF vars, IInv, TaskOK, At, Jobs, Confirmed
<1>3. OneIssuer' /\ VerifiedOnChain' /\ IssuanceTracked'
  BY <1>1 DEF vars, IInv, OneIssuer, VerifiedOnChain, IssuanceTracked
<1> QED BY <1>1, <1>2, <1>3 DEF vars, IInv, TypeOK, Sticks

\* The inductive invariant.
THEOREM Inductive == Spec => []IInv
<1>1. IInv /\ [Next]_vars => IInv'
  BY NextIInv, StutterIInv
<1> QED BY <1>1, InitIInv, PTL DEF Spec

\* Every variable keeps its type, under every fault.
THEOREM TypeCorrect == Spec => []TypeOK
<1>1. IInv => TypeOK
  BY DEF IInv
<1> QED BY <1>1, Inductive, PTL

\* verifyCredential and the scripts never mark a document VERIFIED that the
\* chain has not confirmed.
THEOREM VerifiedIsOnChain == Spec => []VerifiedOnChain
<1>1. IInv => VerifiedOnChain
  BY DEF IInv
<1> QED BY <1>1, Inductive, PTL

\* issueCredential never loses an issuance it has queued, unless its last
\* write fails or the process dies.
THEOREM IssuanceIsTracked == Spec => []IssuanceTracked
<1>1. IInv => IssuanceTracked
  BY DEF IInv
<1> QED BY <1>1, Inductive, PTL

\* A REJECTED document is only overwritten by a verification or a script that
\* had read it before the revocation.
THEOREM RevocationsStick == Spec => RevocationSticks
<1>1. IInv /\ [Next]_vars => [Sticks]_vars
  BY NextIInv
<1>2. Spec => [][Sticks]_vars
  BY <1>1, Inductive, PTL DEF Spec
<1> QED BY <1>2 DEF RevocationSticks, Sticks
=============================================================================
