---------------------- MODULE CredentialWorkflowProofs ----------------------
(***************************************************************************)
(* Proofs about CredentialWorkflow, for any number of credentials, calls,  *)
(* documents and broadcasts, every shape of the id and every fault.        *)
(***************************************************************************)
EXTENDS CredentialWorkflow, FiniteSetTheorems, TLAPS

Final == {"COMPLETED", "FAILED"}
JobRecords  == [kind : {"issue", "verify", "mint"}, cred : Cred,
                id : ChainIds \cup {NoId}]
TaskRecords == [pc : PCs, cred : Cred, id : ChainIds \cup {NoId, ZeroId},
                tx : Tx \cup {NoTx}]

\* The id exists on chain, for the credential c.
OnChain(id, c) ==
  id \in ChainIds /\ id[1] \in Jobs("issue", c) /\ id[2] \in executed[id[1]]

\* An issuance of c was written to c and credited to c, or will never be.
Concluded(c) ==
  \E t \in Jobs("issue", c) :
    /\ status[t] \in Final /\ followUp # <<t, "apply">>
    /\ \A p \in Task : At(p, "link") => task[p].tx # t

\* What a document of the relayer says.
QueueOK ==
  \A t \in Tx :
    /\ status[t] = "ABSENT" => job[t] = NoJob
    /\ followUp = <<t, "apply">> => status[t] = "COMPLETED"
    /\ job[t].kind = "verify" => OnChain(job[t].id, job[t].cred)

\* What a credential says: its transactionId is an issuance of its own that no
\* approval is still to write, an id or VERIFIED follow from such an issuance.
CredOK(c) ==
  /\ cred[c].id \in ChainIds => OnChain(cred[c].id, c) /\ Concluded(c)
  /\ cred[c].tx # NoTx =>
       /\ cred[c].tx \in Jobs("issue", c)
       /\ \A p \in Task : At(p, "link") => task[p].tx # cred[c].tx
  /\ cred[c].vs = "VERIFIED" =>
       /\ Concluded(c)
       /\ c \notin Misleading => Jobs("verify", c) # {} /\ Jobs("mint", c) # {}

\* What a task has read or done.
TaskOK(p) ==
  LET c == task[p].cred IN
  /\ At(p, "link") => task[p].tx \in Jobs("issue", c)
  /\ At(p, "verify") => OnChain(task[p].id, c)
  /\ task[p].pc \in {"verify", "mint", "minted", "finish"} => Concluded(c)
  /\ task[p].pc \in {"mint", "minted", "finish"} => Jobs("verify", c) # {}
  /\ task[p].pc \in {"minted", "finish"} => Jobs("mint", c) # {}

\* Two approvals never write the same transactionId.
OneLink ==
  \A p, q \in Task : At(p, "link") /\ At(q, "link") /\ p # q =>
                       task[p].tx # task[q].tx

IInv ==
  /\ TypeOK
  /\ QueueOK
  /\ \A c \in Cred : CredOK(c)
  /\ \A p \in Task : TaskOK(p)
  /\ OneLink

\* What VerifiedStays says of a step.
Stays ==
  \A c \in Cred :
    cred[c].vs = "VERIFIED" /\ cred'[c].vs # "VERIFIED" =>
      Cardinality(Jobs("issue", c)) > 1

-----------------------------------------------------------------------------
LEMMA Busy ==
  ASSUME TypeOK, NEW p \in Task, task[p].pc \in PCs
  PROVE  task[p] \in TaskRecords
  BY DEF TypeOK, TaskRecords, Idle, Done, PCs

\* What is left of a task that is cut short.
LEMMA StoppedRecord ==
  ASSUME TypeOK, NEW p \in Task, Running(p)
  PROVE  Stopped(p) \in TaskRecords /\ Stopped(p).pc = "cut"
<1>1. task[p] \in TaskRecords
  BY Busy DEF Running
<1> QED BY <1>1 DEF TaskRecords, Stopped, PCs

\* A credential with two issuances.
LEMMA TwoIssues ==
  ASSUME NEW c \in Cred, NEW t \in Jobs("issue", c), NEW u \in Jobs("issue", c),
         t # u
  PROVE  Cardinality(Jobs("issue", c)) > 1
<1>1. IsFiniteSet(Jobs("issue", c)) /\ IsFiniteSet({t}) /\ IsFiniteSet({t, u})
  BY WorkflowAssumption, FS_Subset DEF Jobs
<1>2. Cardinality({t, u}) = 2
  <2>1. Cardinality({t}) = 1 /\ {t, u} = {t} \cup {u} /\ u \notin {t}
    BY FS_Singleton
  <2>2. Cardinality({t} \cup {u}) = Cardinality({t}) + 1
    BY <1>1, <2>1, FS_AddElement
  <2> QED BY <2>1, <2>2
<1>3. Cardinality({t, u}) <= Cardinality(Jobs("issue", c))
  BY <1>1, FS_Subset
<1> QED BY <1>1, <1>2, <1>3, FS_CardinalityType

\* What every step leaves true of the tasks and credentials it leaves alone.
LEMMA Frame ==
  ASSUME IInv,
         \A t \in Tx : /\ job[t] # NoJob => job'[t] = job[t]
                       /\ executed[t] \subseteq executed'[t]
                       /\ status[t] \in Final /\ followUp # <<t, "apply">> =>
                            status'[t] \in Final /\ followUp' # <<t, "apply">>,
         \A p \in Task : At(p, "link")' =>
                           \/ task'[p] = task[p]
                           \/ /\ task'[p].tx \in Tx
                              /\ status[task'[p].tx] = "ABSENT"
  PROVE  /\ \A kind \in {"issue", "verify", "mint"}, c \in Cred :
              Jobs(kind, c) \subseteq Jobs(kind, c)'
         /\ \A id, c : c \in Cred /\ OnChain(id, c) => OnChain(id, c)'
         /\ \A c \in Cred : Concluded(c) => Concluded(c)'
         /\ \A c \in Cred : cred'[c] = cred[c] => CredOK(c)'
         /\ \A p \in Task : task'[p] = task[p] => TaskOK(p)'
<1>1. ASSUME NEW kind \in {"issue", "verify", "mint"}, NEW c \in Cred,
             NEW t \in Jobs(kind, c)
      PROVE  t \in Tx /\ t \in Jobs(kind, c)' /\ status[t] # "ABSENT"
  <2>1. t \in Tx /\ job[t].kind = kind /\ job[t].cred = c
    BY DEF Jobs
  <2>2. job[t] # NoJob
    BY <2>1 DEF NoJob
  <2> QED BY <2>1, <2>2 DEF Jobs, IInv, QueueOK
<1>2. ASSUME NEW id, NEW c \in Cred, OnChain(id, c) PROVE OnChain(id, c)'
  BY <1>1, <1>2 DEF OnChain
<1>3. ASSUME NEW c \in Cred, NEW t \in Jobs("issue", c),
             \A p \in Task : At(p, "link") => task[p].tx # t
      PROVE  \A p \in Task : At(p, "link")' => task'[p].tx # t
  BY <1>1, <1>3 DEF At
<1>4. ASSUME NEW c \in Cred, Concluded(c) PROVE Concluded(c)'
  <2>1. PICK t \in Jobs("issue", c) :
          /\ status[t] \in Final /\ followUp # <<t, "apply">>
          /\ \A p \in Task : At(p, "link") => task[p].tx # t
    BY <1>4 DEF Concluded
  <2> QED BY <1>1, <1>3, <2>1 DEF Concluded, Final
<1>5. ASSUME NEW c \in Cred, cred'[c] = cred[c] PROVE CredOK(c)'
  <2>1. CredOK(c)
    BY DEF IInv
  <2>2. cred'[c].id \in ChainIds => OnChain(cred[c].id, c)' /\ Concluded(c)'
    <3> SUFFICES ASSUME cred'[c].id \in ChainIds
                 PROVE  OnChain(cred[c].id, c)' /\ Concluded(c)'
      OBVIOUS
    <3>1. PICK i \in ChainIds : i = cred[c].id /\ i = cred'[c].id
      BY <1>5
    <3>2. OnChain(i, c)' /\ Concluded(c)'
      BY <1>2, <1>4, <2>1, <3>1 DEF CredOK
    <3> QED BY <3>1, <3>2
  <2>3. cred[c].tx # NoTx =>
          /\ cred[c].tx \in Jobs("issue", c)'
          /\ \A p \in Task : At(p, "link")' => task'[p].tx # cred[c].tx
    BY <1>1, <1>3, <2>1 DEF CredOK
  <2>4. cred[c].vs = "VERIFIED" =>
          /\ Concluded(c)'
          /\ c \notin Misleading =>
               Jobs("verify", c)' # {} /\ Jobs("mint", c)' # {}
    BY <1>1, <1>4, <2>1 DEF CredOK
  <2> QED BY <1>5, <2>2, <2>3, <2>4 DEF CredOK, ChainIds, Task, Jobs
<1>6. ASSUME NEW p \in Task, task'[p] = task[p] PROVE TaskOK(p)'
  <2>1. CASE task[p].pc \notin PCs
    BY <1>6, <2>1 DEF TaskOK, At, PCs
  <2>2. CASE task[p].pc \in PCs
    <3>1. PICK c \in Cred : c = task[p].cred
      BY <2>2, Busy DEF IInv, TaskRecords
    <3>2. TaskOK(p)
      BY DEF IInv
    <3>3. At(p, "link") => task[p].tx \in Jobs("issue", c)'
      BY <1>1, <3>1, <3>2 DEF TaskOK
    <3>4. At(p, "verify") => OnChain(task[p].id, c)'
      <4> SUFFICES ASSUME At(p, "verify") PROVE OnChain(task[p].id, c)'
        OBVIOUS
      <4>1. PICK i \in ChainIds : i = task[p].id /\ i = task'[p].id
        BY <1>6, <3>1, <3>2 DEF TaskOK, OnChain
      <4> QED BY <1>2, <3>1, <3>2, <4>1 DEF TaskOK
    <3>5. task[p].pc \in {"verify", "mint", "minted", "finish"} => Concluded(c)'
      BY <1>4, <3>1, <3>2 DEF TaskOK
    <3>6. /\ task[p].pc \in {"mint", "minted", "finish"}
               => Jobs("verify", c)' # {}
          /\ task[p].pc \in {"minted", "finish"} => Jobs("mint", c)' # {}
      BY <1>1, <3>1, <3>2 DEF TaskOK
    <3>7. c = task'[p].cred
      BY <1>6, <3>1
    <3> QED BY <1>6, <3>3, <3>4, <3>5, <3>6, <3>7
            DEF TaskOK, At, Jobs, OnChain, Concluded
  <2> QED BY <2>1, <2>2
<1> QED BY <1>1, <1>2, <1>4, <1>5, <1>6

\* A step that leaves the queue alone, starts no task at "link" and writes
\* nothing it should not.
LEMMA QuietStep ==
  ASSUME IInv, UNCHANGED <<qvars, job>>,
         cred' \in [Cred -> Credentials],
         task' \in [Task -> {Idle, Done} \cup TaskRecords],
         \A p \in Task : task'[p] = task[p] \/ (~At(p, "link")' /\ TaskOK(p)'),
         \A c \in Cred : cred'[c] = cred[c] \/ CredOK(c)'
  PROVE  IInv'
<1>1. /\ \A id, c : c \in Cred /\ OnChain(id, c) => OnChain(id, c)'
      /\ \A c \in Cred : cred'[c] = cred[c] => CredOK(c)'
      /\ \A p \in Task : task'[p] = task[p] => TaskOK(p)'
  BY Frame DEF qvars, At
<1>2. TypeOK'
  BY DEF IInv, TypeOK, qvars, TaskRecords
<1>3. QueueOK'
  <2> SUFFICES ASSUME NEW t \in Tx, job[t].kind = "verify"
               PROVE  OnChain(job[t].id, job[t].cred)'
    BY DEF IInv, QueueOK, qvars
  <2>1. PICK i, c : i = job[t].id /\ c = job[t].cred
    OBVIOUS
  <2>2. c \in Cred
    BY <2>1 DEF IInv, TypeOK, NoJob
  <2>3. OnChain(i, c)'
    BY <1>1, <2>1, <2>2 DEF IInv, QueueOK
  <2>4. i = job'[t].id /\ c = job'[t].cred
    BY <2>1
  <2> QED BY <2>3, <2>4 DEF OnChain, Jobs
<1>4. OneLink'
  BY DEF IInv, OneLink, At
<1> QED BY <1>1, <1>2, <1>3, <1>4 DEF IInv

\* A document is queued: it is new, and one more of its kind.
LEMMA Enqueued ==
  ASSUME IInv, NEW kind \in {"issue", "verify", "mint"}, NEW c \in Cred,
         NEW id \in ChainIds \cup {NoId}, Enqueue(Job(kind, c, id)),
         kind = "verify" => OnChain(id, c)
  PROVE  \E f \in Tx :
           /\ f = Fresh /\ status[f] = "ABSENT" /\ job[f] = NoJob
           /\ job' = [job EXCEPT ![f] = Job(kind, c, id)]
           /\ job' \in [Tx -> {NoJob} \cup JobRecords]
           /\ f \in Jobs(kind, c)'
           /\ status' = [status EXCEPT ![f] = "PENDING"]
           /\ UNCHANGED <<executed, followUp>>
<1>1. Fresh \in Tx /\ status[Fresh] = "ABSENT"
  BY DEF Enqueue, Fresh
<1>2. PICK f \in Tx : f = Fresh /\ status[f] = "ABSENT"
  BY <1>1
<1>3. job[f] = NoJob
  BY <1>2 DEF IInv, QueueOK
<1>4. /\ job' = [job EXCEPT ![f] = Job(kind, c, id)]
      /\ status' = [status EXCEPT ![f] = "PENDING"]
      /\ UNCHANGED <<executed, followUp>>
  BY <1>2 DEF Enqueue, Submit
<1>5. job' \in [Tx -> {NoJob} \cup JobRecords]
  BY <1>4 DEF IInv, TypeOK, Job, JobRecords
<1>6. f \in Jobs(kind, c)'
  BY <1>4 DEF IInv, TypeOK, Job, Jobs
<1> QED BY <1>2, <1>3, <1>4, <1>5, <1>6

\* A task queues a document and goes on.
LEMMA QueueStep ==
  ASSUME IInv, NEW p \in Task, NEW kind \in {"issue", "verify", "mint"},
         NEW c \in Cred, NEW id \in ChainIds \cup {NoId},
         Enqueue(Job(kind, c, id)), kind = "verify" => OnChain(id, c),
         UNCHANGED cred, NEW u \in TaskRecords, task' = [task EXCEPT ![p] = u],
         u.cred = c,
         \/ kind = "issue" /\ u.pc = "link" /\ u.tx = Fresh
         \/ kind = "verify" /\ u.pc = "mint" /\ Concluded(c)
         \/ kind = "mint" /\ u.pc = "minted" /\ Concluded(c)
                           /\ Jobs("verify", c) # {}
  PROVE  IInv' /\ Stays
<1>1. PICK f \in Tx :
        /\ f = Fresh /\ status[f] = "ABSENT" /\ job[f] = NoJob
        /\ job' = [job EXCEPT ![f] = Job(kind, c, id)]
        /\ job' \in [Tx -> {NoJob} \cup JobRecords]
        /\ f \in Jobs(kind, c)'
        /\ status' = [status EXCEPT ![f] = "PENDING"]
        /\ UNCHANGED <<executed, followUp>>
  BY Enqueued
<1>2. /\ task' \in [Task -> {Idle, Done} \cup TaskRecords] /\ task'[p] = u
      /\ \A q \in Task \ {p} : task'[q] = task[q]
  BY DEF IInv, TypeOK, TaskRecords
<1>3. \A t \in Tx \ {f} : job'[t] = job[t] /\ status'[t] = status[t]
  BY <1>1 DEF IInv, TypeOK
<1>4. \A q \in Task : At(q, "link")' =>
                         \/ task'[q] = task[q]
                         \/ q = p /\ task'[q].tx = f
  BY <1>1, <1>2 DEF At
<1>5. /\ \A k \in {"issue", "verify", "mint"}, b \in Cred :
           Jobs(k, b) \subseteq Jobs(k, b)'
      /\ \A i, b : b \in Cred /\ OnChain(i, b) => OnChain(i, b)'
      /\ \A b \in Cred : Concluded(b) => Concluded(b)'
      /\ \A b \in Cred : cred'[b] = cred[b] => CredOK(b)'
      /\ \A q \in Task : task'[q] = task[q] => TaskOK(q)'
  <2>1. \A t \in Tx : /\ job[t] # NoJob => job'[t] = job[t]
                      /\ executed[t] \subseteq executed'[t]
                      /\ status[t] \in Final /\ followUp # <<t, "apply">> =>
                           status'[t] \in Final /\ followUp' # <<t, "apply">>
    BY <1>1, <1>3 DEF Final
  <2>2. \A q \in Task : At(q, "link")' =>
                           \/ task'[q] = task[q]
                           \/ /\ task'[q].tx \in Tx
                              /\ status[task'[q].tx] = "ABSENT"
    BY <1>1, <1>4
  <2> QED BY <2>1, <2>2, Frame
<1>6. TypeOK'
  BY <1>1, <1>2 DEF IInv, TypeOK, TaskRecords, JobRecords
<1>7. ASSUME NEW t \in Tx, job'[t].kind = "verify"
      PROVE  OnChain(job[t].id, job[t].cred)'
  <2>1. PICK i, b : i = job'[t].id /\ b = job'[t].cred
    OBVIOUS
  <2>2. b \in Cred /\ OnChain(i, b)
    <3>1. CASE t = f
      BY <1>1, <1>7, <2>1, <3>1 DEF Job, IInv, TypeOK
    <3>2. CASE t # f
      BY <1>3, <1>7, <2>1, <3>2 DEF IInv, TypeOK, QueueOK, NoJob
    <3> QED BY <3>1, <3>2
  <2> QED BY <1>5, <2>1, <2>2 DEF OnChain, Jobs
<1>8. QueueOK'
  <2>1. ASSUME NEW t \in Tx
        PROVE  /\ status'[t] = "ABSENT" => job'[t] = NoJob
               /\ followUp' = <<t, "apply">> => status'[t] = "COMPLETED"
    <3>1. CASE t = f
      BY <1>1, <3>1 DEF IInv, TypeOK, QueueOK
    <3>2. CASE t # f
      BY <1>1, <1>3, <3>2 DEF IInv, QueueOK
    <3> QED BY <3>1, <3>2
  <2> QED BY <1>7, <2>1 DEF QueueOK
<1>9. OneLink'
  <2>1. ASSUME NEW q \in Task, At(q, "link")
        PROVE  task[q].tx # f
    BY <1>1, <2>1 DEF IInv, TaskOK, Jobs, NoJob
  <2> QED BY <1>2, <1>4, <2>1 DEF IInv, OneLink, At
<1>10. TaskOK(p)'
  <2>1. /\ kind = "verify" => Jobs("verify", c)' # {}
        /\ kind = "mint" => Jobs("mint", c)' # {} /\ Jobs("verify", c)' # {}
    BY <1>1, <1>5
  <2>2. c = task'[p].cred /\ task'[p].pc = u.pc /\ task'[p].tx = u.tx
    BY <1>2
  <2>3. u.pc = "link" => u.tx \in Jobs("issue", c)'
    BY <1>1
  <2>4. u.pc \in {"mint", "minted"} => Concluded(c)'
    BY <1>5
  <2> QED BY <2>1, <2>2, <2>3, <2>4 DEF TaskOK, At, Jobs, Concluded
<1> QED BY <1>2, <1>5, <1>6, <1>8, <1>9, <1>10 DEF IInv, Stays

\* A task goes on after it has read, and nothing else changes.
LEMMA TaskStepOnly ==
  ASSUME IInv, NEW p \in Task, UNCHANGED <<qvars, job, cred>>,
         NEW u \in TaskRecords \cup {Done}, task' = [task EXCEPT ![p] = u],
         u.pc \in {"done", "reset", "start", "issue", "verify", "resolve",
                   "continue", "cut"},
         u.pc = "verify" => /\ u.id = cred[u.cred].id
                            /\ ~Missing(cred[u.cred].id)
  PROVE  IInv' /\ Stays
<1>1. /\ task' \in [Task -> {Idle, Done} \cup TaskRecords] /\ task'[p] = u
      /\ \A q \in Task \ {p} : task'[q] = task[q]
  BY DEF IInv, TypeOK, TaskRecords
<1>2. /\ \A id, c : c \in Cred /\ OnChain(id, c) => OnChain(id, c)'
      /\ \A c \in Cred : Concluded(c) => Concluded(c)'
  BY <1>1, Frame DEF qvars, At
<1>3. TaskOK(p)'
  <2>1. CASE u.pc = "verify"
    <3>1. u \in TaskRecords
      BY <2>1 DEF Done
    <3>2. PICK c \in Cred, i \in ChainIds \cup {NoId, ZeroId} :
            c = u.cred /\ i = u.id
      BY <3>1 DEF TaskRecords
    <3>3. i \in ChainIds /\ i = cred[c].id
      BY <2>1, <3>2 DEF Missing
    <3>4. OnChain(i, c)' /\ Concluded(c)'
      BY <1>2, <3>3 DEF IInv, CredOK
    <3>5. /\ task'[p].pc = "verify" /\ c = task'[p].cred /\ i = task'[p].id
      BY <1>1, <2>1, <3>2
    <3> QED BY <3>4, <3>5 DEF TaskOK, At, OnChain, Concluded, Jobs
  <2>2. CASE u.pc # "verify"
    BY <1>1, <2>2 DEF TaskOK, At
  <2> QED BY <2>1, <2>2
<1>4. IInv'
  BY <1>1, <1>3, QuietStep DEF IInv, TypeOK, At
<1> QED BY <1>4 DEF Stays

\* A task writes its credential, of which it leaves the id alone.
LEMMA WriteStep ==
  ASSUME IInv, NEW p \in Task, task[p].pc \in PCs, UNCHANGED <<qvars, job>>,
         NEW c \in Cred, c = task[p].cred,
         NEW d \in Credentials, cred' = [cred EXCEPT ![c] = d],
         NEW u \in TaskRecords \cup {Done}, task' = [task EXCEPT ![p] = u],
         \/ u.pc \in {"done", "start"}
         \/ u.pc = "finish" /\ u.cred = c /\ At(p, "minted"),
         d.id = cred[c].id,
         \/ d.tx = cred[c].tx /\ d.vs = cred[c].vs
         \/ At(p, "link") /\ d.tx = task[p].tx /\ d.vs = "PENDING_ISSUANCE"
         \/ At(p, "finish") /\ d.tx = cred[c].tx /\ d.vs = "VERIFIED"
  PROVE  IInv' /\ Stays
<1>1. /\ task' \in [Task -> {Idle, Done} \cup TaskRecords] /\ task'[p] = u
      /\ \A q \in Task \ {p} : task'[q] = task[q]
      /\ cred' \in [Cred -> Credentials] /\ cred'[c] = d
      /\ \A b \in Cred \ {c} : cred'[b] = cred[b]
  BY DEF IInv, TypeOK, TaskRecords
<1>2. \A q \in Task : At(q, "link")' => q # p /\ task'[q] = task[q]
  BY <1>1 DEF At
<1>3. /\ \A kind \in {"issue", "verify", "mint"}, b \in Cred :
           Jobs(kind, b) \subseteq Jobs(kind, b)'
      /\ \A id, b : b \in Cred /\ OnChain(id, b) => OnChain(id, b)'
      /\ \A b \in Cred : Concluded(b) => Concluded(b)'
  BY <1>2, Frame DEF qvars
<1>4. CredOK(c) /\ TaskOK(p)
  BY DEF IInv
<1>5. TaskOK(p)'
  <2>1. CASE u.pc = "finish"
    <3>1. c = task'[p].cred /\ task'[p].pc = "finish"
      BY <1>1, <2>1 DEF Done
    <3>2. Concluded(c)' /\ Jobs("verify", c)' # {} /\ Jobs("mint", c)' # {}
      BY <1>3, <1>4, <2>1 DEF TaskOK, At, Done
    <3> QED BY <3>1, <3>2 DEF TaskOK, At, Jobs, Concluded
  <2>2. CASE u.pc # "finish"
    BY <1>1, <2>2 DEF TaskOK, At
  <2> QED BY <2>1, <2>2
<1>6. cred'[c].id \in ChainIds => OnChain(cred[c].id, c)' /\ Concluded(c)'
  <2> SUFFICES ASSUME cred'[c].id \in ChainIds
               PROVE  OnChain(cred[c].id, c)' /\ Concluded(c)'
    OBVIOUS
  <2>1. PICK i \in ChainIds : i = cred[c].id /\ i = cred'[c].id
    BY <1>1
  <2>2. OnChain(i, c)' /\ Concluded(c)'
    BY <1>3, <1>4, <2>1 DEF CredOK
  <2> QED BY <2>1, <2>2
<1>7. cred'[c].tx # NoTx =>
        /\ cred'[c].tx \in Jobs("issue", c)'
        /\ \A q \in Task : At(q, "link")' => task'[q].tx # cred'[c].tx
  <2>1. CASE d.tx = cred[c].tx
    BY <1>1, <1>2, <1>3, <1>4, <2>1 DEF CredOK, At
  <2>2. CASE At(p, "link") /\ d.tx = task[p].tx
    BY <1>1, <1>2, <1>3, <1>4, <2>2 DEF TaskOK, IInv, OneLink, At
  <2> QED BY <2>1, <2>2
<1>8. cred'[c].vs = "VERIFIED" =>
        /\ Concluded(c)'
        /\ c \notin Misleading =>
             Jobs("verify", c)' # {} /\ Jobs("mint", c)' # {}
  <2>1. CASE d.vs = cred[c].vs
    BY <1>1, <1>3, <1>4, <2>1 DEF CredOK
  <2>2. CASE At(p, "finish")
    BY <1>3, <1>4, <2>2 DEF TaskOK, At
  <2>3. CASE d.vs = "PENDING_ISSUANCE"
    BY <1>1, <2>3
  <2> QED BY <2>1, <2>2, <2>3
<1>9. CredOK(c)'
  BY <1>6, <1>7, <1>8 DEF CredOK
<1>10. IInv'
  <2>1. \A q \in Task : task'[q] = task[q] \/ (~At(q, "link")' /\ TaskOK(q)')
    BY <1>1, <1>2, <1>5
  <2> QED BY <1>1, <1>9, <2>1, QuietStep
<1>11. ASSUME cred[c].vs = "VERIFIED", d.vs # "VERIFIED"
       PROVE  Cardinality(Jobs("issue", c)) > 1
  <2>1. At(p, "link") /\ task[p].tx \in Jobs("issue", c)
    BY <1>4, <1>11 DEF TaskOK
  <2>2. PICK t \in Jobs("issue", c) : task[p].tx # t
    BY <1>4, <1>11, <2>1 DEF CredOK, Concluded
  <2> QED BY <2>1, <2>2, TwoIssues
<1> QED BY <1>1, <1>10, <1>11 DEF Stays

-----------------------------------------------------------------------------
(* The steps of the calls and of the event handler.                        *)

LEMMA TaskIInv ==
  ASSUME IInv, NEW p \in Task, TaskStep(p)
  PROVE  IInv' /\ Stays
<1>1. task[p].pc \in PCs /\ (p \in Req \/ p \in Tx)
  BY DEF TaskStep, ResetForRetry, StartAgain, Issue, Link, Verify, Mint, Minted,
         Finish, TaskFails, TaskIsCut, Running, Resolve, Continue, At, PCs, Task
<1>2. task[p] \in TaskRecords /\ TaskOK(p)
  BY <1>1, Busy DEF IInv
<1>3. PICK c \in Cred, id \in ChainIds \cup {NoId, ZeroId} :
        c = task[p].cred /\ id = task[p].id
  BY <1>2 DEF TaskRecords
<1>4. cred[c] \in Credentials
  BY DEF IInv, TypeOK
<1>5. ASSUME NEW where \in PCs
      PROVE  \E u \in TaskRecords :
               /\ u = [task[p] EXCEPT !.pc = where] /\ u.pc = where
               /\ u.cred = c /\ u.id = id /\ u.tx = task[p].tx
  <2> DEFINE u == [task[p] EXCEPT !.pc = where]
  <2>1. /\ u \in TaskRecords /\ u.pc = where
        /\ u.cred = c /\ u.id = id /\ u.tx = task[p].tx
    BY <1>2, <1>3 DEF TaskRecords
  <2> HIDE DEF u
  <2>2. u = [task[p] EXCEPT !.pc = where]
    BY DEF u
  <2> QED BY <2>1, <2>2
<1>6. ASSUME NEW t \in Tx
      PROVE  \A u \in TaskRecords :
               \E v \in TaskRecords : /\ v = [u EXCEPT !.tx = t] /\ v.tx = t
                                     /\ v.pc = u.pc /\ v.cred = u.cred
  <2> SUFFICES ASSUME NEW u \in TaskRecords
               PROVE  \E v \in TaskRecords :
                        /\ v = [u EXCEPT !.tx = t] /\ v.tx = t
                        /\ v.pc = u.pc /\ v.cred = u.cred
    OBVIOUS
  <2> DEFINE v == [u EXCEPT !.tx = t]
  <2>1. v \in TaskRecords /\ v.tx = t /\ v.pc = u.pc /\ v.cred = u.cred
    BY DEF TaskRecords
  <2> HIDE DEF v
  <2>2. v = [u EXCEPT !.tx = t]
    BY DEF v
  <2> QED BY <2>1, <2>2
<1>7. ASSUME NEW vs \in {"VERIFIED", "PENDING_ISSUANCE"},
             NEW bs \in {"PENDING_BLOCKCHAIN", "PENDING_ISSUANCE", "MINTING_NFT",
                         "MINTING_FAILED", "WORKFLOW_FAILED"}
      PROVE  /\ \E d \in Credentials :
                  /\ d = [cred[c] EXCEPT !.bs = bs] /\ d.vs = cred[c].vs
                  /\ d.tx = cred[c].tx /\ d.id = cred[c].id
             /\ \E d \in Credentials :
                  /\ d = [[cred[c] EXCEPT !.vs = vs] EXCEPT !.bs = bs]
                  /\ d.vs = vs /\ d.tx = cred[c].tx /\ d.id = cred[c].id
  <2> DEFINE d == [cred[c] EXCEPT !.bs = bs]
             e == [cred[c] EXCEPT !.vs = vs]
             f == [e EXCEPT !.bs = bs]
  <2>1. /\ d \in Credentials /\ d.vs = cred[c].vs
        /\ d.tx = cred[c].tx /\ d.id = cred[c].id
    BY <1>4 DEF Credentials
  <2>2. /\ e \in Credentials /\ e.vs = vs
        /\ e.tx = cred[c].tx /\ e.id = cred[c].id
    BY <1>4 DEF Credentials
  <2>3. d = [cred[c] EXCEPT !.bs = bs]
    OBVIOUS
  <2>4. f = [[cred[c] EXCEPT !.vs = vs] EXCEPT !.bs = bs]
    OBVIOUS
  <2> HIDE DEF d, e
  <2>5. /\ f \in Credentials /\ f.vs = vs
        /\ f.tx = cred[c].tx /\ f.id = cred[c].id
    BY <2>2 DEF Credentials
  <2> HIDE DEF f
  <2> QED BY <2>1, <2>2, <2>3, <2>4, <2>5
<1>8. CASE ResetForRetry(p)
  <2>1. PICK u \in TaskRecords :
          u = [task[p] EXCEPT !.pc = "start"] /\ u.pc = "start"
    BY <1>5 DEF PCs
  <2>2. PICK d \in Credentials :
          /\ d = [cred[c] EXCEPT !.bs = "PENDING_BLOCKCHAIN"]
          /\ d.vs = cred[c].vs /\ d.tx = cred[c].tx /\ d.id = cred[c].id
    BY <1>7
  <2>3. /\ task' = [task EXCEPT ![p] = u] /\ cred' = [cred EXCEPT ![c] = d]
        /\ UNCHANGED <<qvars, job>>
    BY <1>3, <1>8, <2>1, <2>2 DEF ResetForRetry, Goto
  <2> QED BY <1>1, <1>3, <2>1, <2>2, <2>3, WriteStep
<1>9. CASE StartAgain(p)
  <2> DEFINE u == [pc |-> IF Missing(cred[c].id) THEN "issue" ELSE "verify",
                   cred |-> c, id |-> cred[c].id, tx |-> NoTx]
  <2>1. /\ u \in TaskRecords /\ u.pc \in {"issue", "verify"}
        /\ u.cred = c /\ u.id = cred[c].id
        /\ u.pc = "verify" => ~Missing(cred[c].id)
    BY <1>4 DEF TaskRecords, Credentials, PCs
  <2>2. task' = [task EXCEPT ![p] = u] /\ UNCHANGED <<qvars, job, cred>>
    BY <1>3, <1>9 DEF StartAgain, ApproveRead
  <2> HIDE DEF u
  <2> QED BY <2>1, <2>2, TaskStepOnly
<1>10. CASE Issue(p)
  <2>1. PICK u \in TaskRecords : /\ u = [task[p] EXCEPT !.pc = "link"]
                                 /\ u.pc = "link" /\ u.cred = c
    BY <1>5 DEF PCs
  <2>2. PICK t \in Tx : t = Fresh
    BY <1>10 DEF Issue, Enqueue, Fresh
  <2>3. PICK v \in TaskRecords : /\ v = [u EXCEPT !.tx = t] /\ v.tx = t
                                 /\ v.pc = u.pc /\ v.cred = u.cred
    BY <1>6
  <2>4. /\ Enqueue(Job("issue", c, NoId)) /\ UNCHANGED cred
        /\ task' = [task EXCEPT ![p].pc = "link", ![p].tx = t]
    BY <1>3, <1>10, <2>2 DEF Issue
  <2>5. task' = [task EXCEPT ![p] = v]
    BY <2>1, <2>3, <2>4
  <2>6. v.pc = "link" /\ v.cred = c /\ v.tx = Fresh
    BY <2>1, <2>2, <2>3
  <2> QED BY <2>4, <2>5, <2>6, QueueStep
<1>11. CASE Link(p)
  <2> DEFINE e == [[cred[c] EXCEPT !.vs = "PENDING_ISSUANCE"]
                     EXCEPT !.bs = "PENDING_ISSUANCE"]
             f == [e EXCEPT !.tx = task[p].tx]
  <2>1. cred' = [cred EXCEPT ![c] = f] /\ End(p) /\ UNCHANGED <<qvars, job>>
    BY <1>3, <1>11 DEF Link
  <2>2. /\ e \in Credentials /\ e.vs = "PENDING_ISSUANCE"
        /\ e.id = cred[c].id
    BY <1>7
  <2> HIDE DEF e
  <2>3. /\ f \in Credentials /\ f.vs = "PENDING_ISSUANCE"
        /\ f.tx = task[p].tx /\ f.id = cred[c].id
    BY <1>2, <2>2 DEF Credentials, TaskRecords
  <2> HIDE DEF f
  <2>4. task' = [task EXCEPT ![p] = Done] /\ Done.pc = "done" /\ At(p, "link")
    BY <1>11, <2>1 DEF End, Done, Link
  <2> QED BY <1>1, <1>3, <2>1, <2>3, <2>4, WriteStep
<1>12. CASE Verify(p)
  <2>1. PICK u \in TaskRecords : /\ u = [task[p] EXCEPT !.pc = "mint"]
                                 /\ u.pc = "mint" /\ u.cred = c
    BY <1>5 DEF PCs
  <2>2. OnChain(id, c) /\ Concluded(c) /\ id \in ChainIds
    BY <1>2, <1>3, <1>12 DEF Verify, At, TaskOK, OnChain
  <2>3. /\ Enqueue(Job("verify", c, id)) /\ UNCHANGED cred
        /\ task' = [task EXCEPT ![p] = u]
    BY <1>3, <1>12, <2>1 DEF Verify, Goto
  <2> QED BY <2>1, <2>2, <2>3, QueueStep
<1>13. CASE Mint(p)
  <2>1. PICK u \in TaskRecords : /\ u = [task[p] EXCEPT !.pc = "minted"]
                                 /\ u.pc = "minted" /\ u.cred = c
    BY <1>5 DEF PCs
  <2>2. PICK t \in Tx : t = Fresh
    BY <1>13 DEF Mint, Enqueue, Fresh
  <2>3. PICK v \in TaskRecords : /\ v = [u EXCEPT !.tx = t] /\ v.tx = t
                                 /\ v.pc = u.pc /\ v.cred = u.cred
    BY <1>6
  <2>4. /\ Enqueue(Job("mint", c, NoId)) /\ UNCHANGED cred
        /\ task' = [task EXCEPT ![p].pc = "minted", ![p].tx = t]
    BY <1>3, <1>13, <2>2 DEF Mint
  <2>5. task' = [task EXCEPT ![p] = v]
    BY <2>1, <2>3, <2>4
  <2>6. Concluded(c) /\ Jobs("verify", c) # {}
    BY <1>2, <1>3, <1>13 DEF Mint, At, TaskOK
  <2> QED BY <2>1, <2>3, <2>4, <2>5, <2>6, QueueStep, ZenonT(40)
<1>14. CASE Minted(p)
  <2>1. PICK u \in TaskRecords : /\ u = [task[p] EXCEPT !.pc = "finish"]
                                 /\ u.pc = "finish" /\ u.cred = c
    BY <1>5 DEF PCs
  <2>2. PICK d \in Credentials :
          /\ d = [cred[c] EXCEPT !.bs = "MINTING_NFT"]
          /\ d.vs = cred[c].vs /\ d.tx = cred[c].tx /\ d.id = cred[c].id
    BY <1>7
  <2>3. /\ task' = [task EXCEPT ![p] = u] /\ cred' = [cred EXCEPT ![c] = d]
        /\ At(p, "minted") /\ UNCHANGED <<qvars, job>>
    BY <1>3, <1>14, <2>1, <2>2 DEF Minted, Goto
  <2> QED BY <1>1, <1>3, <2>1, <2>2, <2>3, WriteStep
<1>15. CASE Finish(p)
  <2>1. PICK d \in Credentials :
          /\ d = [[cred[c] EXCEPT !.vs = "VERIFIED"] EXCEPT !.bs = "MINTING_NFT"]
          /\ d.vs = "VERIFIED" /\ d.tx = cred[c].tx /\ d.id = cred[c].id
    BY <1>7
  <2>2. /\ task' = [task EXCEPT ![p] = Done] /\ cred' = [cred EXCEPT ![c] = d]
        /\ At(p, "finish") /\ UNCHANGED <<qvars, job>>
    BY <1>3, <1>15, <2>1 DEF Finish, End
  <2>3. Done.pc = "done"
    BY DEF Done
  <2> QED BY <1>1, <1>3, <2>1, <2>2, <2>3, WriteStep
<1>16. CASE TaskFails(p)
  <2>1. /\ task' = [task EXCEPT ![p] = Done] /\ UNCHANGED <<qvars, job>>
        /\ Done.pc = "done"
    BY <1>16 DEF TaskFails, End, Done
  <2>2. ASSUME NEW bs \in {"MINTING_FAILED", "WORKFLOW_FAILED"},
               cred' = [cred EXCEPT ![c].bs = bs]
        PROVE  IInv' /\ Stays
    <3>1. PICK d \in Credentials :
            /\ d = [cred[c] EXCEPT !.bs = bs]
            /\ d.vs = cred[c].vs /\ d.tx = cred[c].tx /\ d.id = cred[c].id
      BY <1>7
    <3>2. cred' = [cred EXCEPT ![c] = d]
      BY <2>2, <3>1
    <3> QED BY <1>1, <1>3, <2>1, <3>1, <3>2, WriteStep
  <2> QED BY <1>3, <1>16, <2>2 DEF TaskFails
<1>17. CASE TaskIsCut(p)
  <2>1. PICK u \in TaskRecords : u = Stopped(p) /\ u.pc = "cut"
    BY <1>17, StoppedRecord DEF TaskIsCut, IInv
  <2>2. task' = [task EXCEPT ![p] = u] /\ UNCHANGED <<qvars, job, cred>>
    BY <1>17, <2>1 DEF TaskIsCut
  <2> QED BY <2>1, <2>2, TaskStepOnly
<1>18. CASE p \in Tx /\ Resolve(p)
  <2>1. CASE End(p)
    BY <1>18, <2>1, TaskStepOnly DEF Resolve, End, Done
  <2>2. CASE ~End(p)
    <3>1. PICK u \in TaskRecords :
            u = [task[p] EXCEPT !.pc = "continue"] /\ u.pc = "continue"
      BY <1>5 DEF PCs
    <3>2. task' = [task EXCEPT ![p] = u] /\ UNCHANGED <<qvars, job, cred>>
      BY <1>18, <2>2, <3>1 DEF Resolve, Goto
    <3> QED BY <3>1, <3>2, TaskStepOnly
  <2> QED BY <2>1, <2>2
<1>19. CASE p \in Tx /\ Continue(p)
  <2>1. CASE End(p)
    BY <1>19, <2>1, TaskStepOnly DEF Continue, End, Done
  <2>2. CASE ~End(p)
    <3> DEFINE u == [task[p] EXCEPT !.pc = "verify"]
               v == [u EXCEPT !.id = cred[c].id]
    <3>1. ~Missing(cred[c].id) /\ task' = [task EXCEPT ![p] = v]
      BY <1>3, <1>19, <2>2 DEF Continue
    <3>2. u \in TaskRecords /\ u.pc = "verify" /\ u.cred = c
      BY <1>2, <1>3 DEF TaskRecords, PCs
    <3> HIDE DEF u
    <3>3. /\ v \in TaskRecords /\ v.pc = "verify" /\ v.cred = c
          /\ v.id = cred[c].id
      BY <1>4, <3>2 DEF TaskRecords, Credentials
    <3> HIDE DEF v
    <3> QED BY <1>19, <3>1, <3>3, TaskStepOnly DEF Continue
  <2> QED BY <2>1, <2>2
<1> QED BY <1>8, <1>9, <1>10, <1>11, <1>12, <1>13, <1>14, <1>15, <1>16, <1>17,
        <1>18, <1>19, SMTT(40) DEF TaskStep

LEMMA CallIInv ==
  ASSUME IInv, Call
  PROVE  IInv' /\ Stays
<1>1. PICK c \in Cred : \/ CreateCredential(c)
                         \/ \E p \in Req : Approve(p, c) \/ Retry(p, c)
  BY DEF Call
<1>2. cred[c] \in Credentials /\ CredOK(c)
  BY DEF IInv, TypeOK
<1>3. CASE CreateCredential(c)
  <2> DEFINE d == [cred[c] EXCEPT !.vs = "PENDING"]
  <2>1. /\ cred' = [cred EXCEPT ![c] = d] /\ cred[c].vs = "ABSENT"
        /\ UNCHANGED <<qvars, job, task>>
    BY <1>3 DEF CreateCredential
  <2>2. /\ d \in Credentials /\ d.vs = "PENDING" /\ d.id = cred[c].id
        /\ d.tx = cred[c].tx
    BY <1>2 DEF Credentials
  <2> HIDE DEF d
  <2>3. /\ cred' \in [Cred -> Credentials] /\ cred'[c] = d
        /\ \A b \in Cred \ {c} : cred'[b] = cred[b]
        /\ task' \in [Task -> {Idle, Done} \cup TaskRecords]
    BY <2>1, <2>2 DEF IInv, TypeOK, TaskRecords
  <2>4. /\ \A id, b : b \in Cred /\ OnChain(id, b) => OnChain(id, b)'
        /\ \A b \in Cred : Concluded(b) => Concluded(b)'
        /\ \A b \in Cred : Jobs("issue", b) \subseteq Jobs("issue", b)'
    BY <2>1, Frame DEF qvars
  <2>5. cred'[c].id \in ChainIds => OnChain(cred[c].id, c)' /\ Concluded(c)'
    <3> SUFFICES ASSUME cred'[c].id \in ChainIds
                 PROVE  OnChain(cred[c].id, c)' /\ Concluded(c)'
      OBVIOUS
    <3>1. PICK i \in ChainIds : i = cred[c].id /\ i = cred'[c].id
      BY <2>2, <2>3
    <3>2. OnChain(i, c)' /\ Concluded(c)'
      BY <1>2, <2>4, <3>1 DEF CredOK
    <3> QED BY <3>1, <3>2
  <2>6. CredOK(c)'
    BY <1>2, <2>1, <2>2, <2>3, <2>4, <2>5 DEF CredOK, At
  <2> QED BY <2>1, <2>2, <2>3, <2>6, QuietStep DEF Stays
<1>4. ASSUME NEW p \in Req, Approve(p, c) \/ Retry(p, c)
      PROVE  IInv' /\ Stays
  <2> DEFINE u == [pc |-> IF Missing(cred[c].id) THEN "issue" ELSE "verify",
                   cred |-> c, id |-> cred[c].id, tx |-> NoTx]
             v == [pc |-> "reset", cred |-> c, id |-> NoId, tx |-> NoTx]
  <2>1. /\ u \in TaskRecords /\ u.pc \in {"issue", "verify"}
        /\ u.cred = c /\ u.id = cred[c].id
        /\ u.pc = "verify" => ~Missing(cred[c].id)
    BY <1>2 DEF TaskRecords, Credentials, PCs
  <2>2. v \in TaskRecords /\ v.pc = "reset"
    BY DEF TaskRecords, PCs
  <2>3. /\ task' = [task EXCEPT ![p] = u] \/ task' = [task EXCEPT ![p] = v]
        /\ UNCHANGED <<qvars, job, cred>> /\ p \in Task
    BY <1>4 DEF Approve, ApproveRead, Retry, Task
  <2> HIDE DEF u, v
  <2> QED BY <2>1, <2>2, <2>3, TaskStepOnly
<1> QED BY <1>1, <1>3, <1>4

-----------------------------------------------------------------------------
(* The steps of the relayer and the chain.                                 *)

\* The relayer writes the result of t to the credential that names t.
LEMMA CreditIInv ==
  ASSUME IInv, NEW t \in Tx, NEW r \in Runs, Credit(t, r)
  PROVE  IInv' /\ Stays
<1>1. /\ followUp = <<t, "apply">> /\ followUp' = <<t, "emit">>
      /\ UNCHANGED <<status, executed, job, task>> /\ r \in executed[t]
      /\ status[t] \in Final
  BY DEF Credit, Applied, IInv, QueueOK, Final
<1>2. /\ \A kind \in {"issue", "verify", "mint"}, b \in Cred :
           Jobs(kind, b) \subseteq Jobs(kind, b)'
      /\ \A id, b : b \in Cred /\ OnChain(id, b) => OnChain(id, b)'
      /\ \A b \in Cred : Concluded(b) => Concluded(b)'
      /\ \A b \in Cred : cred'[b] = cred[b] => CredOK(b)'
      /\ \A p \in Task : task'[p] = task[p] => TaskOK(p)'
  BY <1>1, Frame DEF At
<1>3. QueueOK'
  <2>1. ASSUME NEW u \in Tx, job[u].kind = "verify"
        PROVE  OnChain(job[u].id, job[u].cred)'
    BY <1>1, <2>1 DEF IInv, QueueOK, OnChain, Jobs
  <2>2. ASSUME NEW u \in Tx PROVE followUp' # <<u, "apply">>
    BY <1>1
  <2> QED BY <1>1, <2>1, <2>2 DEF IInv, QueueOK
<1>4. OneLink'
  BY <1>1 DEF IInv, OneLink, At
<1>5. ASSUME cred' \in [Cred -> Credentials], \A b \in Cred : CredOK(b)'
      PROVE  IInv'
  BY <1>1, <1>2, <1>3, <1>4, <1>5 DEF IInv, TypeOK
<1>6. CASE UNCHANGED cred
  BY <1>2, <1>5, <1>6 DEF IInv, TypeOK, Stays
<1>7. ASSUME NEW c \in Linked(t), NEW id, id = ParsedId(t, r),
             cred' = [cred EXCEPT
               ![c].id = IF id = NoId THEN @ ELSE id,
               ![c].vs = IF LooksLikeVerify(t) THEN "VERIFIED"
                         ELSE IF id # NoId \/ job[t].kind = "mint"
                              THEN "ISSUED" ELSE @]
      PROVE  IInv' /\ Stays
  <2> DEFINE i == IF id = NoId THEN cred[c].id ELSE id
             vs == IF LooksLikeVerify(t) THEN "VERIFIED"
                   ELSE IF id # NoId \/ job[t].kind = "mint" THEN "ISSUED"
                   ELSE cred[c].vs
             e == [cred[c] EXCEPT !.id = i]
             d == [e EXCEPT !.vs = vs]
  <2>1. /\ c \in Cred /\ cred[c].tx = t /\ cred[c] \in Credentials
        /\ CredOK(c)
    BY DEF Linked, IInv, TypeOK
  <2>2. t # NoTx /\ t \in Jobs("issue", c)
    BY <2>1, WorkflowAssumption DEF CredOK, NoTx
  <2>3. job[t].kind = "issue" /\ job[t].cred = c
    BY <2>2 DEF Jobs
  <2>4. id \in {NoId, ZeroId, <<t, r>>} /\ <<t, r>> \in ChainIds
    <3>1. r \in Runs
      OBVIOUS
    <3> QED BY <1>7, <3>1 DEF ParsedId, ChainIds
  <2>5. i \in {cred[c].id, ZeroId, <<t, r>>} /\ i \in ChainIds \cup {NoId, ZeroId}
    BY <2>1, <2>4 DEF Credentials
  <2>6. /\ vs \in {"VERIFIED", "ISSUED", cred[c].vs}
        /\ vs = "VERIFIED" => c \in Misleading \/ vs = cred[c].vs
    BY <2>3 DEF LooksLikeVerify
  <2>7. cred' = [cred EXCEPT ![c] = d]
    BY <1>7, <2>1
  <2> HIDE DEF i, vs
  <2>8. e \in Credentials /\ e.id = i /\ e.tx = t
    BY <2>1, <2>5 DEF Credentials
  <2> HIDE DEF e
  <2>9. d \in Credentials /\ d.id = i /\ d.tx = t /\ d.vs = vs
    BY <2>1, <2>6, <2>8 DEF Credentials
  <2> HIDE DEF d
  <2>10. /\ cred' \in [Cred -> Credentials] /\ cred'[c] = d
         /\ \A b \in Cred \ {c} : cred'[b] = cred[b]
    BY <2>1, <2>7, <2>9 DEF IInv, TypeOK
  <2>11. \A p \in Task : At(p, "link") => task[p].tx # t
    BY <2>1, <2>2 DEF CredOK
  <2>12. Concluded(c)'
    BY <1>1, <1>2, <2>1, <2>2, <2>11 DEF Concluded, At, Final
  <2>13. cred'[c].id \in ChainIds => OnChain(cred[c].id, c)'
    <3> SUFFICES ASSUME cred'[c].id \in ChainIds
                 PROVE  OnChain(cred[c].id, c)'
      OBVIOUS
    <3>1. PICK j \in ChainIds : j = cred'[c].id
      OBVIOUS
    <3>2. j \in {cred[c].id, ZeroId, <<t, r>>}
      BY <2>5, <2>9, <2>10, <3>1
    <3>3. OnChain(j, c)'
      <4>1. CASE j = cred[c].id
        BY <1>2, <2>1, <4>1 DEF CredOK
      <4>2. CASE j = <<t, r>>
        BY <1>1, <1>2, <2>1, <2>2, <2>4, <4>2 DEF OnChain
      <4>3. CASE j = ZeroId
        BY <4>3 DEF ChainIds, ZeroId
      <4> QED BY <3>2, <4>1, <4>2, <4>3
    <3> QED BY <3>1, <3>3
  <2>14. cred'[c].vs = "VERIFIED" /\ c \notin Misleading =>
           Jobs("verify", c)' # {} /\ Jobs("mint", c)' # {}
    BY <1>2, <2>1, <2>6, <2>9, <2>10 DEF CredOK
  <2>15. /\ cred'[c].tx \in Jobs("issue", c)'
         /\ \A p \in Task : At(p, "link")' => task'[p].tx # cred'[c].tx
    BY <1>1, <1>2, <2>1, <2>2, <2>9, <2>10, <2>11 DEF At
  <2>16. CredOK(c)'
    BY <2>12, <2>13, <2>14, <2>15 DEF CredOK
  <2>17. ASSUME cred[c].vs = "VERIFIED"
         PROVE  Cardinality(Jobs("issue", c)) > 1
    <3>1. PICK u \in Jobs("issue", c) : followUp # <<u, "apply">>
      BY <2>1, <2>17 DEF CredOK, Concluded
    <3> QED BY <1>1, <2>1, <2>2, <3>1, TwoIssues
  <2>18. IInv'
    BY <1>2, <1>5, <2>10, <2>16
  <2> QED BY <2>10, <2>17, <2>18 DEF Stays
<1> QED BY <1>6, <1>7 DEF Credit

\* The chain and the relayer move, no credential is written, and no task starts
\* but the handler of an event.
LEMMA RelayerMove ==
  ASSUME IInv, UNCHANGED <<job, cred>>, TypeOK',
         \A t \in Tx :
           /\ executed[t] \subseteq executed'[t]
           /\ status[t] = status'[t] \/ (status[t] # "ABSENT" /\ status'[t] \in Final)
           /\ status[t] \in Final /\ followUp # <<t, "apply">> =>
                followUp' # <<t, "apply">>
           /\ followUp' = <<t, "apply">> => status'[t] = "COMPLETED",
         \A p \in Task : \/ task'[p] = task[p]
                         \/ task'[p].pc \in {"idle", "done", "resolve", "cut"}
  PROVE  IInv' /\ Stays
<1>1. /\ \A id, b : b \in Cred /\ OnChain(id, b) => OnChain(id, b)'
      /\ \A b \in Cred : cred'[b] = cred[b] => CredOK(b)'
      /\ \A p \in Task : task'[p] = task[p] => TaskOK(p)'
  <2>1. \A t \in Tx : /\ job[t] # NoJob => job'[t] = job[t]
                      /\ executed[t] \subseteq executed'[t]
                      /\ status[t] \in Final /\ followUp # <<t, "apply">> =>
                           status'[t] \in Final /\ followUp' # <<t, "apply">>
    OBVIOUS
  <2>2. \A p \in Task : At(p, "link")' => task'[p] = task[p]
    BY DEF At
  <2> QED BY <2>1, <2>2, Frame
<1>2. QueueOK'
  <2>1. ASSUME NEW u \in Tx, job[u].kind = "verify"
        PROVE  OnChain(job[u].id, job[u].cred)'
    <3>1. PICK i, c : i = job[u].id /\ c = job[u].cred
      OBVIOUS
    <3>2. c \in Cred /\ OnChain(i, c)
      BY <2>1, <3>1 DEF IInv, TypeOK, NoJob, QueueOK
    <3>3. i = job'[u].id /\ c = job'[u].cred
      BY <3>1
    <3> QED BY <1>1, <3>2, <3>3
  <2>2. ASSUME NEW u \in Tx, status'[u] = "ABSENT" PROVE job'[u] = NoJob
    BY <2>2 DEF IInv, QueueOK, Final
  <2> QED BY <2>1, <2>2 DEF QueueOK
<1>3. OneLink'
  BY DEF IInv, OneLink, At
<1>4. \A p \in Task : TaskOK(p)'
  BY <1>1 DEF TaskOK, At
<1> QED BY <1>1, <1>2, <1>3, <1>4 DEF IInv, Stays

LEMMA RelayerIInv ==
  ASSUME IInv, RelayerStep
  PROVE  IInv' /\ Stays
<1>1. ASSUME NEW t \in Tx, Process(t) PROVE IInv' /\ Stays
  <2>1. UNCHANGED <<job, cred, task>>
    BY <1>1 DEF Process
  <2>2. CASE Execute(t)
    BY <2>1, <2>2, RelayerMove DEF Execute, IInv, TypeOK, QueueOK
  <2>3. CASE Complete(t)
    <3>1. TypeOK'
      BY <2>1, <2>3 DEF Complete, IInv, TypeOK
    <3>2. ASSUME NEW u \in Tx
          PROVE  /\ executed[u] \subseteq executed'[u]
                 /\ \/ status[u] = status'[u]
                    \/ status[u] # "ABSENT" /\ status'[u] \in Final
                 /\ status[u] \in Final => followUp' # <<u, "apply">>
                 /\ followUp' = <<u, "apply">> => status'[u] = "COMPLETED"
      <4>1. CASE u = t
        BY <2>3, <4>1 DEF Complete, IInv, TypeOK, Final
      <4>2. CASE u # t
        BY <2>3, <4>2 DEF Complete, IInv, TypeOK
      <4> QED BY <4>1, <4>2
    <3> QED BY <2>1, <3>1, <3>2, RelayerMove
  <2>4. CASE Fail(t)
    <3>1. TypeOK'
      BY <2>1, <2>4 DEF Fail, IInv, TypeOK
    <3>2. ASSUME NEW u \in Tx
          PROVE  /\ executed[u] \subseteq executed'[u]
                 /\ \/ status[u] = status'[u]
                    \/ status[u] # "ABSENT" /\ status'[u] \in Final
                 /\ followUp' # <<u, "apply">>
      <4>1. CASE u = t
        BY <2>4, <4>1 DEF Fail, IInv, TypeOK, Final
      <4>2. CASE u # t
        BY <2>4, <4>2 DEF Fail, IInv, TypeOK
      <4> QED BY <4>1, <4>2
    <3> QED BY <2>1, <3>1, <3>2, RelayerMove
  <2> QED BY <1>1, <2>2, <2>3, <2>4 DEF Process
<1>2. ASSUME NEW t \in Tx, Announce(t) PROVE IInv' /\ Stays
  <2>1. /\ UNCHANGED <<status, executed, job, cred>> /\ followUp' = << >>
    BY <1>2 DEF Announce, Announced
  <2>2. /\ task' \in [Task -> {Idle, Done} \cup TaskRecords]
        /\ \A p \in Task : task'[p] = task[p] \/ task'[p].pc = "resolve"
    <3>1. CASE UNCHANGED task
      BY <3>1 DEF IInv, TypeOK, TaskRecords
    <3>2. ASSUME NEW c \in Linked(t),
                 task' = [task EXCEPT ![t] = [pc |-> "resolve", cred |-> c,
                                              id |-> NoId, tx |-> NoTx]]
          PROVE  /\ task' \in [Task -> {Idle, Done} \cup TaskRecords]
                 /\ \A p \in Task : task'[p] = task[p] \/ task'[p].pc = "resolve"
      <4> DEFINE u == [pc |-> "resolve", cred |-> c, id |-> NoId, tx |-> NoTx]
      <4>1. u \in TaskRecords /\ u.pc = "resolve"
        BY DEF TaskRecords, PCs, Linked
      <4>2. task' = [task EXCEPT ![t] = u]
        BY <3>2
      <4> HIDE DEF u
      <4> QED BY <4>1, <4>2 DEF IInv, TypeOK, TaskRecords
    <3> QED BY <1>2, <3>1, <3>2 DEF Announce
  <2>3. TypeOK'
    BY <2>1, <2>2 DEF IInv, TypeOK, TaskRecords
  <2> QED BY <2>1, <2>2, <2>3, RelayerMove
<1>3. CASE Interrupted
  <2>1. UNCHANGED <<status, executed, job, cred, task>> /\ followUp' = << >>
    BY <1>3 DEF Interrupted, Abandon
  <2>2. TypeOK'
    BY <2>1 DEF IInv, TypeOK
  <2> QED BY <2>1, <2>2, RelayerMove
<1> QED BY <1>1, <1>2, <1>3, CreditIInv DEF RelayerStep

LEMMA CrashIInv ==
  ASSUME IInv, Crash
  PROVE  IInv' /\ Stays
<1>1. /\ UNCHANGED <<status, executed, job, cred>> /\ followUp' = << >>
      /\ task' = [p \in Task |-> IF Running(p) THEN Stopped(p) ELSE task[p]]
  BY DEF Crash
<1>2. \A p \in Task : Running(p) => /\ Stopped(p) \in TaskRecords
                                    /\ Stopped(p).pc = "cut"
  BY StoppedRecord DEF IInv
<1>3. \A p \in Task : task'[p] = task[p] \/ task'[p].pc = "cut"
  BY <1>1, <1>2
<1>4. task' \in [Task -> {Idle, Done} \cup TaskRecords]
  <2>1. task \in [Task -> {Idle, Done} \cup TaskRecords]
    BY DEF IInv, TypeOK, TaskRecords
  <2> HIDE DEF TaskRecords
  <2>2. \A p \in Task : (IF Running(p) THEN Stopped(p) ELSE task[p])
                          \in {Idle, Done} \cup TaskRecords
    BY <1>2, <2>1
  <2> QED BY <1>1, <2>2
<1>5. TypeOK'
  BY <1>1, <1>4 DEF IInv, TypeOK, TaskRecords
<1> QED BY <1>1, <1>3, <1>5, RelayerMove

-----------------------------------------------------------------------------
LEMMA InitIInv == Init => IInv
<1> SUFFICES ASSUME Init PROVE IInv
  OBVIOUS
<1>1. TypeOK
  BY DEF Init, QInit, TypeOK, Credentials, NoJob, Idle
<1>2. QueueOK /\ OneLink /\ \A p \in Task : TaskOK(p)
  BY DEF Init, QInit, QueueOK, OneLink, TaskOK, At, Idle, NoJob
<1>3. \A c \in Cred : CredOK(c)
  BY DEF Init, CredOK, NoId, ChainIds
<1> QED BY <1>1, <1>2, <1>3 DEF IInv

LEMMA NextIInv ==
  ASSUME IInv, [Next]_vars
  PROVE  IInv' /\ Stays
<1>1. CASE UNCHANGED vars
  <2>1. IInv'
    BY <1>1, QuietStep DEF vars, qvars, IInv, TypeOK, TaskRecords
  <2> QED BY <1>1, <2>1 DEF vars, Stays
<1> QED BY <1>1, CallIInv, TaskIInv, RelayerIInv, CrashIInv DEF Next

\* The inductive invariant.
THEOREM Inductive == Spec => []IInv
<1>1. IInv /\ [Next]_vars => IInv'
  BY NextIInv
<1> QED BY <1>1, InitIInv, PTL DEF Spec

\* Every variable keeps its type, under every fault.
THEOREM TypeCorrect == Spec => []TypeOK
<1>1. IInv => TypeOK
  BY DEF IInv
<1> QED BY <1>1, Inductive, PTL

\* The relayer never credits a receipt to another credential than the one its
\* issuance was queued for.
THEOREM IdsAreCanonical == Spec => []CanonicalId
<1>1. IInv => CanonicalId
  BY DEF IInv, CredOK, OnChain, CanonicalId
<1> QED BY <1>1, Inductive, PTL

\* verifyCredentialOnBlockchain never names an id the contract does not know.
THEOREM VerificationsNameIds == Spec => []VerifiesExistingId
<1>1. IInv => VerifiesExistingId
  <2> SUFFICES ASSUME IInv, NEW c \in Cred, NEW t \in Jobs("verify", c)
               PROVE  OnChain(job[t].id, c)
    BY DEF VerifiesExistingId, OnChain
  <2> QED BY DEF IInv, QueueOK, Jobs
<1> QED BY <1>1, Inductive, PTL

\* A VERIFIED credential had its verification and its mint queued, unless its
\* title misled the relayer.
THEOREM VerifiedAfterQueueing == Spec => []VerifiedWasQueued
<1>1. IInv => VerifiedWasQueued
  BY DEF IInv, CredOK, VerifiedWasQueued
<1> QED BY <1>1, Inductive, PTL

\* Nothing but a second issuance takes VERIFIED from a credential.
THEOREM VerifiedIsKept == Spec => VerifiedStays
<1>1. IInv /\ [Next]_vars => [Stays]_vars
  BY NextIInv
<1>2. Spec => [][Stays]_vars
  BY <1>1, Inductive, PTL DEF Spec
<1> QED BY <1>2 DEF VerifiedStays, Stays

-----------------------------------------------------------------------------
(* The mints: a call brings the right to one mint, which an issuance hands *)
(* to the handler of its event and a mint uses up.                         *)

HandlerPCs == {"idle", "done", "cut", "resolve", "continue", "verify", "mint",
               "minted", "finish"}

\* The relayer starts the handler of a document once, when the issuance the
\* document stands for is COMPLETED.
HandlersOK ==
  \A t \in Tx :
    /\ task[t].pc \in HandlerPCs
    /\ followUp \in {<<t, "apply">>, <<t, "emit">>} =>
         status[t] = "COMPLETED" /\ At(t, "idle")
    /\ ~At(t, "idle") => status[t] \in Final /\ job[t].kind = "issue"

\* p is a mint, an issuance whose event may still lead to one, or a call that
\* has queued neither.
OwesMint(p) ==
  \/ p \in Tx /\ job[p].kind = "mint"
  \/ /\ p \in Tx /\ job[p].kind = "issue"
     /\ task[p].pc \in {"idle", "resolve", "continue", "verify", "mint"}
  \/ p \in Req /\ task[p].pc \in {"reset", "start", "issue", "verify", "mint"}

Owing == {p \in Task : OwesMint(p)}

MintInv ==
  /\ HandlersOK
  /\ IsFiniteSet(Calls)
  /\ Cardinality(Owing) <= Cardinality(Calls)

\* What a step may do to the two sets: nothing more may be owed, or one thing
\* instead of another, or a call comes in.
Charged ==
  \/ Calls' = Calls /\ Owing' \subseteq Owing
  \/ /\ Calls' = Calls
     /\ \E a \in Owing : \E b : Owing' \subseteq (Owing \ {a}) \cup {b}
  \/ \E p \in Req \ Calls : /\ Calls' = Calls \cup {p}
                            /\ Owing' \subseteq Owing \cup {p}

LEMMA ChargedIsBounded ==
  ASSUME IsFiniteSet(Calls), Cardinality(Owing) <= Cardinality(Calls), Charged
  PROVE  IsFiniteSet(Calls)' /\ Cardinality(Owing') <= Cardinality(Calls')
<1>1. IsFiniteSet(Owing)
  <2>1. Owing \subseteq Tx \cup Calls
    BY DEF Owing, OwesMint, Task, Calls, At
  <2>2. IsFiniteSet(Tx \cup Calls)
    BY WorkflowAssumption, FS_Union
  <2> QED BY <2>1, <2>2, FS_Subset
<1>2. Cardinality(Owing) \in Nat /\ Cardinality(Calls) \in Nat
  BY <1>1, FS_CardinalityType
<1>3. CASE Calls' = Calls /\ Owing' \subseteq Owing
  <2>1. Cardinality(Owing') <= Cardinality(Owing) /\ Cardinality(Owing') \in Nat
    BY <1>1, <1>3, FS_Subset, FS_CardinalityType
  <2> QED BY <1>2, <1>3, <2>1
<1>4. ASSUME Calls' = Calls, NEW a \in Owing, NEW b,
             Owing' \subseteq (Owing \ {a}) \cup {b}
      PROVE  IsFiniteSet(Calls)' /\ Cardinality(Owing') <= Cardinality(Calls')
  <2> DEFINE D == Owing \ {a}
  <2>1. IsFiniteSet(D) /\ Cardinality(D) = Cardinality(Owing) - 1
    BY <1>1, FS_RemoveElement
  <2>2. /\ IsFiniteSet(D \cup {b}) /\ Cardinality(D) \in Nat
        /\ Cardinality(D \cup {b}) = IF b \in D THEN Cardinality(D)
                                     ELSE Cardinality(D) + 1
    BY <2>1, FS_AddElement, FS_CardinalityType
  <2>3. /\ Cardinality(Owing') <= Cardinality(D \cup {b})
        /\ Cardinality(Owing') \in Nat
    BY <1>4, <2>2, FS_Subset, FS_CardinalityType
  <2> HIDE DEF D
  <2>4. Cardinality(D \cup {b}) <= Cardinality(Owing)
    BY <1>2, <2>1, <2>2
  <2>5. Cardinality(D \cup {b}) \in Nat
    BY <2>2, FS_CardinalityType
  <2> QED BY <1>2, <1>4, <2>3, <2>4, <2>5
<1>5. ASSUME NEW p \in Req \ Calls, Calls' = Calls \cup {p},
             Owing' \subseteq Owing \cup {p}
      PROVE  IsFiniteSet(Calls)' /\ Cardinality(Owing') <= Cardinality(Calls')
  <2>1. /\ IsFiniteSet(Calls \cup {p})
        /\ Cardinality(Calls \cup {p}) = Cardinality(Calls) + 1
    BY <1>5, FS_AddElement
  <2>2. /\ IsFiniteSet(Owing \cup {p})
        /\ Cardinality(Owing \cup {p}) <= Cardinality(Owing) + 1
    <3>1. /\ IsFiniteSet(Owing \cup {p})
          /\ Cardinality(Owing \cup {p}) = IF p \in Owing THEN Cardinality(Owing)
                                          ELSE Cardinality(Owing) + 1
      BY <1>1, FS_AddElement
    <3> QED BY <1>2, <3>1
  <2>3. /\ Cardinality(Owing') <= Cardinality(Owing \cup {p})
        /\ Cardinality(Owing') \in Nat /\ Cardinality(Owing \cup {p}) \in Nat
    BY <1>5, <2>2, FS_Subset, FS_CardinalityType
  <2>4. Cardinality(Calls') = Cardinality(Calls) + 1 /\ IsFiniteSet(Calls')
    BY <1>5, <2>1
  <2> QED BY <1>2, <2>2, <2>3, <2>4
<1> QED BY <1>3, <1>4, <1>5 DEF Charged

\* Handlers that go on, and one that starts.
LEMMA HandlersGoOn ==
  ASSUME HandlersOK, IInv,
         \A t \in Tx :
           /\ job[t] # NoJob => job'[t] = job[t]
           /\ status[t] \in Final => status'[t] \in Final
           /\ \/ task'[t] = task[t]
              \/ /\ task'[t].pc \in HandlerPCs
                 /\ status[t] \in Final /\ job[t].kind = "issue"
           /\ followUp' \in {<<t, "apply">>, <<t, "emit">>} =>
                status'[t] = "COMPLETED" /\ task'[t].pc = "idle"
  PROVE  HandlersOK'
<1>1. \A t \in Tx : job[t].kind = "issue" => job[t] # NoJob
  BY DEF NoJob
<1> QED BY <1>1 DEF HandlersOK, At

\* A task reads, writes its credential or ends.
LEMMA TaskGoesOn ==
  ASSUME IInv, HandlersOK, UNCHANGED <<qvars, job>>, NEW p \in Task,
         task[p].pc \in PCs, NEW u \in TaskRecords \cup {Done},
         task' = [task EXCEPT ![p] = u],
         p \in Tx => u.pc \in HandlerPCs,
         u.pc \in {"start", "issue", "verify", "mint", "continue"} =>
           \/ task[p].pc \in {"reset", "start"}
           \/ task[p].pc \in {"resolve", "continue"} /\ p \in Tx,
         u.pc \notin {"reset", "resolve"}
  PROVE  HandlersOK' /\ Charged
<1>1. /\ task'[p] = u /\ \A q \in Task \ {p} : task'[q] = task[q]
      /\ Tx \subseteq Task /\ Req \subseteq Task
      /\ u.pc # "idle" /\ task[p].pc # "idle"
  BY DEF IInv, TypeOK, Task, TaskRecords, PCs, Done
<1>2. HandlersOK'
  <2>1. ASSUME NEW t \in Tx
        PROVE  /\ \/ task'[t] = task[t]
                  \/ /\ task'[t].pc \in HandlerPCs
                     /\ status[t] \in Final /\ job[t].kind = "issue"
               /\ followUp \in {<<t, "apply">>, <<t, "emit">>} =>
                    task'[t].pc = "idle" /\ status[t] = "COMPLETED"
    <3>1. CASE t = p
      BY <1>1, <3>1 DEF HandlersOK, At
    <3>2. CASE t # p
      BY <1>1, <3>2 DEF HandlersOK, At
    <3> QED BY <3>1, <3>2
  <2> QED BY <2>1, HandlersGoOn DEF qvars
<1>3. Calls' = Calls
  BY <1>1 DEF Calls, At
<1>4. ASSUME NEW q \in Task, OwesMint(q)' PROVE OwesMint(q)
  <2>1. CASE q = p
    <3>1. CASE p \in Tx
      BY <1>1, <1>4, <2>1, <3>1, WorkflowAssumption
         DEF OwesMint, HandlersOK, HandlerPCs, At
    <3>2. CASE p \notin Tx
      BY <1>1, <1>4, <2>1, <3>2 DEF OwesMint
    <3> QED BY <3>1, <3>2
  <2>2. CASE q # p
    BY <1>1, <1>4, <2>2 DEF OwesMint
  <2> QED BY <2>1, <2>2
<1>5. Owing' \subseteq Owing
  BY <1>4 DEF Owing
<1> QED BY <1>2, <1>3, <1>5 DEF Charged

\* A task queues a document.
LEMMA TaskQueues ==
  ASSUME IInv, HandlersOK, NEW p \in Task,
         NEW kind \in {"issue", "verify", "mint"}, NEW c \in Cred,
         NEW id \in ChainIds \cup {NoId}, Enqueue(Job(kind, c, id)),
         kind = "verify" => OnChain(id, c),
         NEW u \in TaskRecords, task' = [task EXCEPT ![p] = u],
         \/ kind = "issue"  /\ At(p, "issue")  /\ u.pc = "link"
         \/ kind = "verify" /\ At(p, "verify") /\ u.pc = "mint"
         \/ kind = "mint"   /\ At(p, "mint")   /\ u.pc = "minted"
  PROVE  HandlersOK' /\ Charged
<1>1. PICK f \in Tx :
        /\ status[f] = "ABSENT" /\ job[f] = NoJob
        /\ job' = [job EXCEPT ![f] = Job(kind, c, id)]
        /\ status' = [status EXCEPT ![f] = "PENDING"]
        /\ UNCHANGED <<executed, followUp>>
  BY Enqueued
<1>2. /\ task'[p] = u /\ \A q \in Task \ {p} : task'[q] = task[q]
      /\ job'[f].kind = kind
      /\ \A t \in Tx \ {f} : job'[t] = job[t] /\ status'[t] = status[t]
      /\ status'[f] = "PENDING"
      /\ Tx \subseteq Task /\ Req \subseteq Task
  BY <1>1 DEF IInv, TypeOK, Task, Job
<1>3. f # p /\ At(f, "idle") /\ task'[f] = task[f]
  <2>1. At(f, "idle")
    BY <1>1 DEF HandlersOK, Final
  <2> QED BY <1>2, <2>1 DEF At
<1>4. p \in Tx => kind # "issue" /\ job[p].kind = "issue" /\ status[p] \in Final
  BY DEF HandlersOK, HandlerPCs, At
<1>5. HandlersOK'
  <2>1. ASSUME NEW t \in Tx
        PROVE  /\ job[t] # NoJob => job'[t] = job[t]
               /\ status[t] \in Final => status'[t] \in Final
               /\ \/ task'[t] = task[t]
                  \/ /\ task'[t].pc \in HandlerPCs
                     /\ status[t] \in Final /\ job[t].kind = "issue"
               /\ followUp' \in {<<t, "apply">>, <<t, "emit">>} =>
                    status'[t] = "COMPLETED" /\ task'[t].pc = "idle"
    <3>1. CASE t = f
      BY <1>1, <1>3, <3>1 DEF HandlersOK, Final
    <3>2. CASE t = p
      BY <1>1, <1>2, <1>3, <1>4, <3>2 DEF HandlersOK, HandlerPCs, At
    <3>3. CASE t # f /\ t # p
      BY <1>1, <1>2, <3>3 DEF HandlersOK, At
    <3> QED BY <3>1, <3>2, <3>3
  <2> QED BY <2>1, HandlersGoOn
<1>6. Calls' = Calls
  BY <1>2 DEF Calls, At
<1>7. OwesMint(p)
  BY <1>4 DEF OwesMint, At, Task
<1>8. ASSUME NEW q \in Task, q # f, q # p, OwesMint(q)' PROVE OwesMint(q)
  BY <1>2, <1>8 DEF OwesMint
<1>9. CASE kind = "verify"
  <2>1. ~OwesMint(f)'
    BY <1>2, <1>9, WorkflowAssumption DEF OwesMint
  <2>2. Owing' \subseteq Owing
    BY <1>7, <1>8, <2>1 DEF Owing
  <2> QED BY <1>5, <1>6, <2>2 DEF Charged
<1>10. CASE kind # "verify"
  <2>1. ~OwesMint(p)'
    BY <1>2, <1>3, <1>4, <1>10, WorkflowAssumption DEF OwesMint
  <2>2. p \in Owing /\ Owing' \subseteq (Owing \ {p}) \cup {f}
    BY <1>7, <1>8, <2>1 DEF Owing
  <2> QED BY <1>5, <1>6, <2>2 DEF Charged
<1> QED BY <1>9, <1>10

LEMMA TaskCharged ==
  ASSUME IInv, HandlersOK, NEW p \in Task, TaskStep(p)
  PROVE  HandlersOK' /\ Charged
<1>1. task[p].pc \in PCs /\ (p \in Req \/ p \in Tx)
  BY DEF TaskStep, ResetForRetry, StartAgain, Issue, Link, Verify, Mint, Minted,
         Finish, TaskFails, TaskIsCut, Running, Resolve, Continue, At, PCs, Task
<1>2. task[p] \in TaskRecords /\ TaskOK(p)
  BY <1>1, Busy DEF IInv
<1>3. PICK c \in Cred, id \in ChainIds \cup {NoId, ZeroId} :
        c = task[p].cred /\ id = task[p].id
  BY <1>2 DEF TaskRecords
<1>4. cred[c] \in Credentials
  BY DEF IInv, TypeOK
<1>5. ASSUME NEW where \in PCs
      PROVE  \E u \in TaskRecords :
               u = [task[p] EXCEPT !.pc = where] /\ u.pc = where
  <2> DEFINE u == [task[p] EXCEPT !.pc = where]
  <2>1. u \in TaskRecords /\ u.pc = where
    BY <1>2 DEF TaskRecords
  <2> HIDE DEF u
  <2>2. u = [task[p] EXCEPT !.pc = where]
    BY DEF u
  <2> QED BY <2>1, <2>2
<1>6. ASSUME NEW u \in TaskRecords, NEW t \in Tx
      PROVE  \E v \in TaskRecords : v = [u EXCEPT !.tx = t] /\ v.pc = u.pc
  <2> DEFINE v == [u EXCEPT !.tx = t]
  <2>1. v \in TaskRecords /\ v.pc = u.pc
    BY DEF TaskRecords
  <2> HIDE DEF v
  <2>2. v = [u EXCEPT !.tx = t]
    BY DEF v
  <2> QED BY <2>1, <2>2
<1>7. ASSUME p \in Tx PROVE task[p].pc \in HandlerPCs
  BY <1>7 DEF HandlersOK
<1>8. CASE ResetForRetry(p)
  <2>1. PICK u \in TaskRecords :
          u = [task[p] EXCEPT !.pc = "start"] /\ u.pc = "start"
    BY <1>5 DEF PCs
  <2>2. /\ task' = [task EXCEPT ![p] = u] /\ task[p].pc = "reset"
        /\ UNCHANGED <<qvars, job>> /\ p \notin Tx
    BY <1>7, <1>8, <2>1 DEF ResetForRetry, Goto, At, HandlerPCs
  <2> QED BY <1>1, <2>1, <2>2, TaskGoesOn DEF At
<1>9. CASE StartAgain(p)
  <2> DEFINE u == [pc |-> IF Missing(cred[c].id) THEN "issue" ELSE "verify",
                   cred |-> c, id |-> cred[c].id, tx |-> NoTx]
  <2>1. u \in TaskRecords /\ u.pc \in {"issue", "verify"}
    BY <1>4 DEF TaskRecords, Credentials, PCs
  <2>2. /\ task' = [task EXCEPT ![p] = u] /\ task[p].pc = "start"
        /\ UNCHANGED <<qvars, job>> /\ p \notin Tx
    BY <1>3, <1>7, <1>9 DEF StartAgain, ApproveRead, At, HandlerPCs
  <2> HIDE DEF u
  <2> QED BY <1>1, <2>1, <2>2, TaskGoesOn DEF At
<1>10. CASE Issue(p)
  <2>1. PICK t \in Tx : t = Fresh
    BY <1>10 DEF Issue, Enqueue, Fresh
  <2>2. PICK u \in TaskRecords :
          u = [task[p] EXCEPT !.pc = "link"] /\ u.pc = "link"
    BY <1>5 DEF PCs
  <2>3. PICK v \in TaskRecords : v = [u EXCEPT !.tx = t] /\ v.pc = u.pc
    BY <1>6
  <2>4. /\ Enqueue(Job("issue", c, NoId)) /\ At(p, "issue")
        /\ task' = [task EXCEPT ![p].pc = "link", ![p].tx = t]
    BY <1>3, <1>10, <2>1 DEF Issue
  <2>5. task' = [task EXCEPT ![p] = v]
    BY <2>2, <2>3, <2>4
  <2> QED BY <2>2, <2>3, <2>4, <2>5, TaskQueues
<1>11. CASE Verify(p)
  <2>1. PICK u \in TaskRecords :
          u = [task[p] EXCEPT !.pc = "mint"] /\ u.pc = "mint"
    BY <1>5 DEF PCs
  <2>2. OnChain(id, c) /\ id \in ChainIds
    BY <1>2, <1>3, <1>11 DEF Verify, At, TaskOK, OnChain
  <2>3. /\ Enqueue(Job("verify", c, id)) /\ At(p, "verify")
        /\ task' = [task EXCEPT ![p] = u]
    BY <1>3, <1>11, <2>1 DEF Verify, Goto
  <2> QED BY <2>1, <2>2, <2>3, TaskQueues
<1>12. CASE Mint(p)
  <2>1. PICK t \in Tx : t = Fresh
    BY <1>12 DEF Mint, Enqueue, Fresh
  <2>2. PICK u \in TaskRecords :
          u = [task[p] EXCEPT !.pc = "minted"] /\ u.pc = "minted"
    BY <1>5 DEF PCs
  <2>3. PICK v \in TaskRecords : v = [u EXCEPT !.tx = t] /\ v.pc = u.pc
    BY <1>6
  <2>4. /\ Enqueue(Job("mint", c, NoId)) /\ At(p, "mint")
        /\ task' = [task EXCEPT ![p].pc = "minted", ![p].tx = t]
    BY <1>3, <1>12, <2>1 DEF Mint
  <2>5. task' = [task EXCEPT ![p] = v]
    BY <2>2, <2>3, <2>4
  <2> QED BY <2>2, <2>3, <2>4, <2>5, TaskQueues
<1>13. CASE Minted(p)
  <2>1. PICK u \in TaskRecords :
          u = [task[p] EXCEPT !.pc = "finish"] /\ u.pc = "finish"
    BY <1>5 DEF PCs
  <2>2. task' = [task EXCEPT ![p] = u] /\ UNCHANGED <<qvars, job>>
    BY <1>13, <2>1 DEF Minted, Goto
  <2> QED BY <1>1, <2>1, <2>2, TaskGoesOn DEF HandlerPCs
<1>14. CASE Link(p) \/ Finish(p) \/ TaskFails(p)
  <2>1. task' = [task EXCEPT ![p] = Done] /\ UNCHANGED <<qvars, job>>
    BY <1>14 DEF Link, Finish, TaskFails, End
  <2>2. Done.pc = "done"
    BY DEF Done
  <2> QED BY <1>1, <2>1, <2>2, TaskGoesOn DEF HandlerPCs
<1>15. CASE TaskIsCut(p)
  <2>1. PICK u \in TaskRecords : u = Stopped(p) /\ u.pc = "cut"
    BY <1>15, StoppedRecord DEF TaskIsCut, IInv
  <2>2. task' = [task EXCEPT ![p] = u] /\ UNCHANGED <<qvars, job>>
    BY <1>15, <2>1 DEF TaskIsCut
  <2> QED BY <1>1, <2>1, <2>2, TaskGoesOn DEF HandlerPCs
<1>16. CASE p \in Tx /\ (Resolve(p) \/ Continue(p)) /\ End(p)
  <2>1. Done.pc = "done"
    BY DEF Done
  <2>2. task' = [task EXCEPT ![p] = Done] /\ UNCHANGED <<qvars, job>>
    BY <1>16 DEF Resolve, Continue, End
  <2> QED BY <1>1, <2>1, <2>2, TaskGoesOn DEF HandlerPCs
<1>17. CASE p \in Tx /\ Resolve(p) /\ ~End(p)
  <2>1. PICK u \in TaskRecords :
          u = [task[p] EXCEPT !.pc = "continue"] /\ u.pc = "continue"
    BY <1>5 DEF PCs
  <2>2. /\ task' = [task EXCEPT ![p] = u] /\ task[p].pc = "resolve"
        /\ UNCHANGED <<qvars, job>>
    BY <1>17, <2>1 DEF Resolve, Goto, At
  <2> QED BY <1>1, <1>17, <2>1, <2>2, TaskGoesOn DEF HandlerPCs
<1>18. CASE p \in Tx /\ Continue(p) /\ ~End(p)
  <2>1. PICK v \in TaskRecords :
          v = [task[p] EXCEPT !.pc = "verify"] /\ v.pc = "verify"
    BY <1>5 DEF PCs
  <2> DEFINE u == [v EXCEPT !.id = cred[c].id]
  <2>2. u \in TaskRecords /\ u.pc = "verify"
    BY <1>4, <2>1 DEF TaskRecords, Credentials
  <2>3. /\ task' = [task EXCEPT ![p] = u] /\ task[p].pc = "continue"
        /\ UNCHANGED <<qvars, job>>
    BY <1>3, <1>18, <2>1 DEF Continue, At
  <2> HIDE DEF u
  <2> QED BY <1>1, <1>18, <2>2, <2>3, TaskGoesOn DEF HandlerPCs
<1> QED BY <1>8, <1>9, <1>10, <1>11, <1>12, <1>13, <1>14, <1>15, <1>16, <1>17,
        <1>18, SMTT(40) DEF TaskStep

\* An approval or a retry comes in; a new credential is no call.
LEMMA CallCharged ==
  ASSUME IInv, HandlersOK, Call
  PROVE  HandlersOK' /\ Charged
<1>1. UNCHANGED <<qvars, job>>
  BY DEF Call, CreateCredential, Approve, Retry
<1>2. CASE UNCHANGED task
  <2>1. HandlersOK'
    BY <1>1, <1>2 DEF HandlersOK, At, qvars
  <2>2. Calls' = Calls /\ Owing' = Owing
    BY <1>1, <1>2 DEF Calls, At, Owing, OwesMint
  <2> QED BY <2>1, <2>2 DEF Charged
<1>3. ASSUME NEW p \in Req, NEW c \in Cred, Approve(p, c) \/ Retry(p, c)
      PROVE  HandlersOK' /\ Charged
  <2>1. /\ task[p].pc = "idle" /\ task'[p].pc \in {"issue", "verify", "reset"}
        /\ \A q \in Task \ {p} : task'[q] = task[q]
        /\ p \in Task /\ p \notin Tx /\ Tx \subseteq Task /\ Req \subseteq Task
    BY <1>3, WorkflowAssumption
       DEF Approve, ApproveRead, Retry, At, IInv, TypeOK, Task
  <2>2. HandlersOK'
    BY <1>1, <2>1 DEF HandlersOK, At, qvars
  <2>3. p \in Req \ Calls /\ Calls' = Calls \cup {p}
    BY <2>1 DEF Calls, At
  <2>4. ASSUME NEW q \in Task \ {p}, OwesMint(q)' PROVE OwesMint(q)
    BY <1>1, <2>1, <2>4 DEF OwesMint
  <2>5. Owing' \subseteq Owing \cup {p}
    BY <2>4 DEF Owing
  <2> QED BY <2>2, <2>3, <2>5 DEF Charged
<1> QED BY <1>2, <1>3 DEF Call, CreateCredential

\* The relayer and the chain queue nothing, and start a handler for an issuance
\* that has none yet; a crash cuts tasks short.
LEMMA RelayerCharged ==
  ASSUME IInv, HandlersOK, UNCHANGED job,
         \A t \in Tx :
           /\ status[t] \in Final => status'[t] \in Final
           /\ \/ task'[t] = task[t]
              \/ task'[t].pc = "cut" /\ ~At(t, "idle")
              \/ /\ task'[t].pc = "resolve" /\ At(t, "idle")
                 /\ status[t] \in Final /\ job[t].kind = "issue"
           /\ followUp' \in {<<t, "apply">>, <<t, "emit">>} =>
                status'[t] = "COMPLETED" /\ task'[t].pc = "idle",
         \A p \in Req : \/ task'[p] = task[p]
                        \/ task'[p].pc = "cut" /\ ~At(p, "idle")
  PROVE  HandlersOK' /\ Charged
<1>1. HandlersOK'
  BY HandlersGoOn DEF HandlersOK, HandlerPCs
<1>2. Calls' = Calls
  BY DEF Calls, At
<1>3. ASSUME NEW p \in Task, OwesMint(p)' PROVE OwesMint(p)
  <2>1. CASE p \in Tx
    BY <1>3, <2>1, WorkflowAssumption DEF OwesMint, At
  <2>2. CASE p \in Req
    BY <1>3, <2>2, WorkflowAssumption DEF OwesMint, At
  <2> QED BY <2>1, <2>2 DEF Task
<1>4. Owing' \subseteq Owing
  BY <1>3 DEF Owing
<1> QED BY <1>1, <1>2, <1>4 DEF Charged

LEMMA RelayerStepCharged ==
  ASSUME IInv, HandlersOK, RelayerStep
  PROVE  HandlersOK' /\ Charged
<1> USE DEF Final
<1>1. Tx \subseteq Task /\ Req \subseteq Task
  BY DEF Task
<1>2. ASSUME NEW t \in Tx, Process(t) PROVE HandlersOK' /\ Charged
  <2>1. UNCHANGED <<job, cred, task>>
    BY <1>2 DEF Process
  <2>2. CASE Execute(t)
    BY <2>1, <2>2, RelayerCharged DEF Execute, HandlersOK, At
  <2>3. CASE Complete(t)
    <3>1. ASSUME NEW u \in Tx
          PROVE  /\ status[u] \in Final => status'[u] \in Final
                 /\ followUp' \in {<<u, "apply">>, <<u, "emit">>} =>
                      status'[u] = "COMPLETED" /\ task'[u].pc = "idle"
      <4>1. CASE u = t
        BY <2>1, <2>3, <4>1 DEF Complete, IInv, TypeOK, HandlersOK, At
      <4>2. CASE u # t
        BY <2>3, <4>2 DEF Complete, IInv, TypeOK
      <4> QED BY <4>1, <4>2
    <3> QED BY <2>1, <3>1, RelayerCharged
  <2>4. CASE Fail(t)
    <3>1. ASSUME NEW u \in Tx
          PROVE  /\ status[u] \in Final => status'[u] \in Final
                 /\ followUp' \notin {<<u, "apply">>, <<u, "emit">>}
      BY <2>4 DEF Fail, IInv, TypeOK
    <3> QED BY <2>1, <3>1, RelayerCharged
  <2> QED BY <1>2, <2>2, <2>3, <2>4 DEF Process
<1>3. ASSUME NEW t \in Tx, NEW r \in Runs, Credit(t, r)
      PROVE  HandlersOK' /\ Charged
  <2>1. /\ UNCHANGED <<status, job, task>>
        /\ followUp = <<t, "apply">> /\ followUp' = <<t, "emit">>
    BY <1>3 DEF Credit, Applied
  <2>2. ASSUME NEW u \in Tx, followUp' \in {<<u, "apply">>, <<u, "emit">>}
        PROVE  status'[u] = "COMPLETED" /\ task'[u].pc = "idle"
    <3>1. u = t
      BY <2>1, <2>2
    <3> QED BY <2>1, <3>1 DEF HandlersOK, At
  <2> QED BY <2>1, <2>2, RelayerCharged
<1>4. ASSUME NEW t \in Tx, Announce(t) PROVE HandlersOK' /\ Charged
  <2>1. /\ UNCHANGED <<status, job>> /\ followUp' = << >>
        /\ status[t] \in Final /\ At(t, "idle")
    BY <1>4 DEF Announce, Announced, HandlersOK
  <2>2. CASE UNCHANGED task
    BY <2>1, <2>2, RelayerCharged
  <2>3. ASSUME NEW c \in Linked(t),
               task' = [task EXCEPT ![t] = [pc |-> "resolve", cred |-> c,
                                            id |-> NoId, tx |-> NoTx]]
        PROVE  HandlersOK' /\ Charged
    <3>1. job[t].kind = "issue"
      <4>1. c \in Cred /\ cred[c].tx = t /\ t # NoTx
        BY WorkflowAssumption DEF Linked, NoTx
      <4> QED BY <4>1 DEF IInv, CredOK, Jobs
    <3>2. /\ task'[t].pc = "resolve" /\ \A q \in Task \ {t} : task'[q] = task[q]
          /\ t \notin Req
      BY <1>1, <2>3, WorkflowAssumption DEF IInv, TypeOK
    <3>3. \A q \in Req : task'[q] = task[q]
      BY <1>1, <3>2
    <3>4. ASSUME NEW u \in Tx
          PROVE  \/ task'[u] = task[u]
                 \/ /\ task'[u].pc = "resolve" /\ At(u, "idle")
                    /\ status[u] \in Final /\ job[u].kind = "issue"
      BY <1>1, <2>1, <3>1, <3>2
    <3> QED BY <2>1, <3>3, <3>4, RelayerCharged
  <2> QED BY <1>4, <2>2, <2>3 DEF Announce
<1>5. CASE Interrupted
  <2>1. UNCHANGED <<status, job, task>> /\ followUp' = << >>
    BY <1>5 DEF Interrupted, Abandon
  <2> QED BY <2>1, RelayerCharged
<1> QED BY <1>2, <1>3, <1>4, <1>5 DEF RelayerStep

LEMMA CrashCharged ==
  ASSUME IInv, HandlersOK, Crash
  PROVE  HandlersOK' /\ Charged
<1>1. UNCHANGED <<status, job>> /\ followUp' = << >>
  BY DEF Crash
<1>2. ASSUME NEW p \in Task
      PROVE  \/ task'[p] = task[p]
             \/ task'[p].pc = "cut" /\ ~At(p, "idle")
  <2>1. task'[p] = IF Running(p) THEN Stopped(p) ELSE task[p]
    BY DEF Crash
  <2>2. Running(p) => Stopped(p).pc = "cut" /\ ~At(p, "idle")
    BY StoppedRecord DEF IInv, Running, PCs, At
  <2> QED BY <2>1, <2>2
<1> QED BY <1>1, <1>2, RelayerCharged DEF Task

LEMMA InitMintInv == Init => MintInv
<1> SUFFICES ASSUME Init PROVE MintInv
  OBVIOUS
<1>1. HandlersOK
  <2>1. \A t \in Tx : task[t].pc = "idle"
    BY Zenon DEF Init, Idle, Task
  <2>2. \A t \in Tx : followUp \notin {<<t, "apply">>, <<t, "emit">>}
    BY Zenon DEF Init, QInit
  <2> QED BY <2>1, <2>2, Zenon DEF HandlersOK, HandlerPCs, At
<1>2. Calls = {} /\ Owing = {}
  BY DEF Init, QInit, Calls, At, Idle, Task, Owing, OwesMint, NoJob
<1> QED BY <1>1, <1>2, FS_EmptySet DEF MintInv

LEMMA NextMintInv ==
  ASSUME IInv, MintInv, [Next]_vars
  PROVE  MintInv'
<1>1. CASE UNCHANGED vars
  BY <1>1 DEF vars, qvars, MintInv, HandlersOK, At, Calls, Owing, OwesMint
<1>2. CASE Next
  <2>1. HandlersOK' /\ Charged
    BY <1>2, CallCharged, TaskCharged, RelayerStepCharged, CrashCharged
       DEF Next, MintInv
  <2> QED BY <2>1, ChargedIsBounded DEF MintInv
<1> QED BY <1>1, <1>2

LEMMA MintsInv == Spec => []MintInv
<1>1. IInv /\ MintInv /\ [Next]_vars => MintInv'
  BY NextMintInv
<1> QED BY <1>1, Inductive, InitMintInv, PTL DEF Spec

\* However calls, events, receipts and failures interleave, no more NFTs are
\* queued than the endpoints were called.
THEOREM MintsBounded == Spec => []MintsBoundedByCalls
<1>1. MintInv => MintsBoundedByCalls
  <2> SUFFICES ASSUME MintInv PROVE MintsBoundedByCalls
    OBVIOUS
  <2> DEFINE Mints == {t \in Tx : job[t].kind = "mint"}
  <2>1. IsFiniteSet(Owing) /\ Mints \subseteq Owing
    <3>1. Owing \subseteq Tx \cup Calls /\ Mints \subseteq Owing
      BY DEF Owing, OwesMint, Task, Calls, At
    <3>2. IsFiniteSet(Tx \cup Calls)
      BY WorkflowAssumption, FS_Union DEF MintInv
    <3> QED BY <3>1, <3>2, FS_Subset
  <2>2. /\ Cardinality(Mints) <= Cardinality(Owing)
        /\ Cardinality(Mints) \in Nat /\ Cardinality(Owing) \in Nat
    BY <2>1, FS_Subset, FS_CardinalityType
  <2>3. Cardinality(Owing) <= Cardinality(Calls) /\ Cardinality(Calls) \in Nat
    BY FS_CardinalityType DEF MintInv
  <2> HIDE DEF Mints
  <2>4. Cardinality(Mints) <= Cardinality(Calls)
    BY <2>2, <2>3
  <2> QED BY <2>4 DEF MintsBoundedByCalls, Mints
<1> QED BY <1>1, MintsInv, PTL

\* What is left of the promise that an approval is not repeated (OneMintEach):
\* a second NFT for a credential takes a second call of an endpoint.
THEOREM OneCallOneMint == Spec => [](Cardinality(Calls) <= 1 => OneMintEach)
<1>1. MintsBoundedByCalls /\ MintInv => (Cardinality(Calls) <= 1 => OneMintEach)
  <2> SUFFICES ASSUME MintsBoundedByCalls, MintInv, Cardinality(Calls) <= 1,
                      NEW c \in Cred
               PROVE  Cardinality(Jobs("mint", c)) <= 1
    BY DEF OneMintEach
  <2> DEFINE Mints == {t \in Tx : job[t].kind = "mint"}
  <2>1. IsFiniteSet(Mints) /\ Jobs("mint", c) \subseteq Mints
    BY WorkflowAssumption, FS_Subset DEF Jobs
  <2>2. /\ Cardinality(Jobs("mint", c)) <= Cardinality(Mints)
        /\ Cardinality(Jobs("mint", c)) \in Nat /\ Cardinality(Mints) \in Nat
    BY <2>1, FS_Subset, FS_CardinalityType
  <2>3. Cardinality(Mints) <= Cardinality(Calls) /\ Cardinality(Calls) \in Nat
    BY FS_CardinalityType DEF MintsBoundedByCalls, MintInv
  <2> HIDE DEF Mints
  <2> QED BY <2>2, <2>3
<1> QED BY <1>1, MintsInv, MintsBounded, PTL

-----------------------------------------------------------------------------
(* The queue.                                                              *)

LEMMA StepsOfTheQueue ==
  ASSUME [Next]_vars
  PROVE  [QNext]_qvars
<1>1. CASE UNCHANGED vars \/ Call
  BY <1>1 DEF vars, Call, CreateCredential, Approve, Retry
<1>2. ASSUME NEW p \in Task, TaskStep(p) PROVE [QNext]_qvars
  <2>1. ASSUME NEW j, Enqueue(j) PROVE QNext
    <3>1. Fresh \in Tx /\ Submit(Fresh)
      BY <2>1 DEF Enqueue, Fresh
    <3> QED BY <3>1 DEF QNext
  <2>2. CASE Issue(p) \/ Verify(p) \/ Mint(p)
    BY <2>1, <2>2 DEF Issue, Verify, Mint
  <2>3. CASE ~(Issue(p) \/ Verify(p) \/ Mint(p))
    <3>1. UNCHANGED qvars
      BY <1>2, <2>3 DEF TaskStep, ResetForRetry, StartAgain, Link, Minted, Finish,
                        TaskFails, TaskIsCut, Resolve, Continue
    <3> QED BY <3>1
  <2> QED BY <2>2, <2>3
<1>3. CASE RelayerStep
  <2>1. ASSUME NEW t \in Tx, \/ Process(t) \/ Announce(t)
                             \/ \E r \in Runs : Credit(t, r)
        PROVE  QNext
    <3>1. \/ Execute(t) \/ Complete(t) \/ Fail(t)
          \/ Applied(t) \/ Announced(t)
      BY <2>1 DEF Process, Announce, Credit
    <3> QED BY <3>1 DEF QNext
  <2>2. CASE Interrupted
    BY <2>2 DEF Interrupted, QNext
  <2> QED BY <1>3, <2>1, <2>2 DEF RelayerStep
<1>4. CASE Crash
  <2>1. UNCHANGED <<status, executed>> /\ followUp' = << >>
    BY <1>4 DEF Crash
  <2> QED BY <2>1 DEF QNext, Abandon, qvars
<1> QED BY <1>1, <1>2, <1>3, <1>4 DEF Next

\* Approvals, retries, handlers and crashes use the queue as TransactionQueue
\* allows: what Relayer is shown to implement is all that they rely on.
THEOREM UsesTheQueue == Spec => QSpec
<1>1. Init => QInit
  BY DEF Init
<1> QED BY <1>1, StepsOfTheQueue, PTL DEF Spec, QSpec

=============================================================================
