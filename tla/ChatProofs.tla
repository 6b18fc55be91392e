----------------------------- MODULE ChatProofs -----------------------------
(***************************************************************************)
(* Proofs about Chat, for any number of users, chats, messages and         *)
(* requests and under every fault.  The types come first; each of the      *)
(* other invariants then has an induction of its own that builds on them.  *)
(***************************************************************************)
EXTENDS Chat, TLAPS

AllTasks == Sends \cup Reads \cup Updates \cup {Idle, Done}

\* What a task has at hand exists: a message to be sent its chat and sender,
\* one that has been inserted its name, one that is read its document.
Sending == {"begin", "look", "insert", "update", "commit"}
Writing == {"update", "commit"}

HandOK(t) ==
  /\ t.pc \in Sending => t.chat \in Existing /\ t.user \in User
  /\ t.pc \in Writing => t.msg \in Msg
  /\ t.pc = "read" => msg[t.msg] # None

TInv == TypeOK /\ \A p \in Req : HandOK(task[p])

-----------------------------------------------------------------------------
\* What kind of task a program counter belongs to.
LEMMA TaskKinds ==
  ASSUME TypeOK, NEW p \in Req
  PROVE  /\ task[p].pc \in SendPCs => task[p] \in Sends
         /\ At(p, "read") => task[p] \in Reads
         /\ Updating(p) => task[p] \in Updates
  BY DEF TypeOK, Sends, Reads, Updates, Idle, Done, At, Updating, SendPCs

\* A change of the fields of a task that sends.
LEMMA SendPC ==
  ASSUME NEW t \in Sends, NEW where \in SendPCs
  PROVE  /\ [t EXCEPT !.pc = where] \in Sends
         /\ [t EXCEPT !.pc = where].pc = where
         /\ [t EXCEPT !.pc = where].user = t.user
         /\ [t EXCEPT !.pc = where].group = t.group
         /\ [t EXCEPT !.pc = where].chat = t.chat
         /\ [t EXCEPT !.pc = where].msg = t.msg
         /\ [t EXCEPT !.pc = where].seen = t.seen
         /\ [t EXCEPT !.pc = where].unseen = t.unseen
         /\ [t EXCEPT !.pc = where].delivered = t.delivered
  BY DEF Sends

LEMMA SendTypes ==
  ASSUME NEW u \in User \cup {None}, NEW group \in SUBSET User,
         NEW k \in ChatId \cup {None}, NEW where \in SendPCs
  PROVE  /\ Send(u, group, k, where) \in Sends
         /\ Send(u, group, k, where).pc = where
         /\ Send(u, group, k, where).user = u
         /\ Send(u, group, k, where).chat = k
  BY DEF Send, Sends

LEMMA ChosenTypes ==
  ASSUME NEW t \in Sends, NEW k \in ChatId
  PROVE  /\ Chosen(t, k) \in Sends \cup {Done}
         /\ Chosen(t, k) \in Sends =>
              /\ Chosen(t, k).pc = "begin" /\ Chosen(t, k).chat = k
              /\ Chosen(t, k).user \in User
         /\ Chosen(t, k).pc \in {"begin", "done"}
<1>1. CASE t.user = None
  BY <1>1 DEF Chosen, Done, Sends, SendPCs
<1>2. CASE t.user # None
  <2>1. t.user \in User
    BY <1>2 DEF Sends
  <2>2. Chosen(t, k) = Send(t.user, {}, k, "begin")
    BY <1>2 DEF Chosen
  <2> QED BY <2>1, <2>2, SendTypes DEF SendPCs
<1> QED BY <1>1, <1>2

\* Documents that exist stay.
Kept ==
  /\ \A k \in Existing : k \in Existing'
  /\ \A m \in Msg : msg[m] # None => msg'[m] # None

\* A step that gives request p the task t and leaves the others' alone.
LEMMA TStep ==
  ASSUME TInv, NEW p \in Req, NEW t \in AllTasks, Kept,
         task' = [task EXCEPT ![p] = t],
         chat' \in [ChatId -> Chats \cup {None}],
         msg' \in [Msg -> Messages \cup {None}],
         order' \in Seq(Msg), active' \in SUBSET User, online' \in SUBSET User,
         torn' \in BOOLEAN,
         HandOK(t)'
  PROVE  TInv'
<1>1. /\ task' \in [Req -> AllTasks]
      /\ task'[p] = t
      /\ \A q \in Req \ {p} : task'[q] = task[q]
  BY DEF TInv, TypeOK, AllTasks
<1>2. ASSUME NEW q \in Req PROVE HandOK(task[q])'
  <2>1. CASE q = p
    BY <1>1, <2>1 DEF HandOK
  <2>2. CASE q # p
    <3>1. task'[q] = task[q] /\ HandOK(task[q])
      BY <1>1, <2>2 DEF TInv
    <3>2. At(q, "read") => task[q].msg \in Msg
      BY TaskKinds DEF TInv, Reads, At
    <3> QED BY <3>1, <3>2 DEF HandOK, Kept, At
  <2> QED BY <2>1, <2>2
<1>3. TypeOK'
  BY <1>1 DEF TypeOK, AllTasks
<1> QED BY <1>2, <1>3 DEF TInv

\* No document is written.
LEMMA TQuiet ==
  ASSUME TInv, NEW p \in Req, NEW t \in AllTasks,
         UNCHANGED chatVars, task' = [task EXCEPT ![p] = t],
         active' \in SUBSET User, online' \in SUBSET User, torn' \in BOOLEAN,
         HandOK(t)
  PROVE  TInv'
<1>1. Kept /\ HandOK(t)'
  BY DEF Kept, HandOK, chatVars, Existing
<1> QED BY <1>1, TStep DEF TInv, TypeOK, chatVars

\* The task ends.
LEMMA TEnd == Done \in AllTasks /\ HandOK(Done) /\ HandOK(Done)'
  BY DEF AllTasks, Done, HandOK, Sending, Writing

LEMMA TInit == Init => TInv
<1> SUFFICES ASSUME Init PROVE TInv
  OBVIOUS
<1>1. task \in [Req -> AllTasks] /\ \A p \in Req : HandOK(task[p])
  BY DEF Init, AllTasks, Idle, HandOK, Sending, Writing
<1>2. order \in Seq(Msg)
  BY DEF Init
<1> QED BY <1>1, <1>2 DEF Init, TInv, TypeOK, AllTasks

-----------------------------------------------------------------------------
(* Types: finding a chat.                                                  *)

LEMMA TLookups ==
  ASSUME TInv, NEW p \in Req,
         \/ \E u, r \in User : SendTo(p, u, r)
         \/ \E u \in User, k \in ChatId : SendIn(p, u, k)
         \/ \E group \in SUBSET User : Open(p, group)
  PROVE  TInv'
<1>1. ASSUME NEW u \in User \cup {None}, NEW group \in SUBSET User,
             NEW k \in ChatId \cup {None}, NEW where \in {"check", "begin"},
             where = "begin" => k \in Existing /\ u \in User,
             task' = [task EXCEPT ![p] = Send(u, group, k, where)],
             UNCHANGED <<chatVars, mapVars>>
      PROVE  TInv'
  <2> DEFINE t == Send(u, group, k, where)
  <2>1. t \in Sends /\ t.pc = where /\ t.user = u /\ t.chat = k
    BY SendTypes DEF SendPCs
  <2>2. task' = [task EXCEPT ![p] = t]
    BY <1>1
  <2> HIDE DEF t
  <2>3. t \in AllTasks /\ HandOK(t)
    BY <1>1, <2>1 DEF AllTasks, HandOK, Sending, Writing
  <2> QED BY <1>1, <2>2, <2>3, TQuiet DEF TInv, TypeOK, mapVars
<1>2. ASSUME NEW u \in User, NEW r \in User, SendTo(p, u, r) PROVE TInv'
  <2>1. CASE Lookup(u, r) = {}
    BY <1>1, <1>2, <2>1 DEF SendTo
  <2>2. CASE Lookup(u, r) # {}
    <3>1. PICK k \in Lookup(u, r) :
            task' = [task EXCEPT ![p] = Send(u, {}, k, "begin")]
      BY <1>2, <2>2 DEF SendTo
    <3>2. k \in Existing /\ k \in ChatId
      BY DEF Lookup, Existing
    <3> QED BY <1>1, <1>2, <3>1, <3>2 DEF SendTo
  <2> QED BY <2>1, <2>2
<1>3. ASSUME NEW u \in User, NEW k \in ChatId, SendIn(p, u, k) PROVE TInv'
  BY <1>1, <1>3 DEF SendIn
<1>4. ASSUME NEW group \in SUBSET User, Open(p, group) PROVE TInv'
  BY <1>1, <1>4 DEF Open
<1> QED BY <1>2, <1>3, <1>4

LEMMA TGoto ==
  ASSUME TInv, NEW p \in Req, task[p] \in Sends, NEW where \in SendPCs,
         Goto(p, where),
         where \in Sending => task[p].pc \in Sending,
         where \in Writing => task[p].pc \in Writing
  PROVE  \E t \in AllTasks : /\ task' = [task EXCEPT ![p] = t]
                             /\ HandOK(t)
                             /\ t.chat = task[p].chat /\ t.msg = task[p].msg
                             /\ t.user = task[p].user
                             /\ t \in Sends /\ t.pc = where
<1> DEFINE t == [task[p] EXCEPT !.pc = where]
<1>1. /\ t \in Sends /\ t.pc = where /\ t.chat = task[p].chat
      /\ t.msg = task[p].msg /\ t.user = task[p].user
  BY SendPC
<1>2. task' = [task EXCEPT ![p] = t]
  BY DEF Goto
<1> HIDE DEF t
<1>3. HandOK(t)
  BY <1>1 DEF TInv, HandOK, SendPCs
<1> QED BY <1>1, <1>2, <1>3 DEF AllTasks

LEMMA TCheck ==
  ASSUME TInv, NEW p \in Req, Check(p)
  PROVE  TInv'
<1>1. task[p] \in Sends /\ At(p, "check") /\ UNCHANGED <<chatVars, mapVars>>
  BY TaskKinds DEF TInv, Check, At, SendPCs
<1>2. CASE Goto(p, "create")
  <2>1. PICK t \in AllTasks : task' = [task EXCEPT ![p] = t] /\ HandOK(t)
    BY <1>1, <1>2, TGoto DEF SendPCs, Sending, Writing
  <2> QED BY <1>1, <2>1, TQuiet DEF TInv, TypeOK, mapVars
<1>3. ASSUME NEW k \in Existing,
             task' = [task EXCEPT ![p] = Chosen(task[p], k)]
      PROVE  TInv'
  <2> DEFINE t == Chosen(task[p], k)
  <2>1. t \in AllTasks /\ HandOK(t)
    BY <1>1, <1>3, ChosenTypes
    DEF AllTasks, HandOK, Existing, Done, Sending, Writing
  <2>2. task' = [task EXCEPT ![p] = t]
    BY <1>3
  <2> HIDE DEF t
  <2> QED BY <1>1, <2>1, <2>2, TQuiet DEF TInv, TypeOK, mapVars
<1> QED BY <1>2, <1>3 DEF Check

\* The others that are creating a chat get to know of this one.
LEMMA TCreate ==
  ASSUME TInv, NEW p \in Req, Create(p)
  PROVE  TInv'
<1>1. task[p] \in Sends /\ At(p, "create")
  BY TaskKinds DEF TInv, Create, At, SendPCs
<1>2. PICK k \in ChatId \ Existing :
        /\ chat' = [chat EXCEPT ![k] =
             [participants |-> task[p].group, last |-> None, lock |-> None,
              unseen |-> task[p].unseen]]
        /\ task' = [q \in Req |->
             IF q = p THEN Chosen(task[p], k)
             ELSE IF task[q].pc = "create"
                  THEN [task[q] EXCEPT !.unseen = @ \cup {k}]
             ELSE task[q]]
  BY DEF Create
<1>3. UNCHANGED <<msg, order, mapVars>>
  BY DEF Create
<1> DEFINE d == [participants |-> task[p].group, last |-> None,
                 lock |-> None, unseen |-> task[p].unseen]
<1>4. d \in Chats
  BY <1>1 DEF Chats, Sends
<1>5. chat' = [chat EXCEPT ![k] = d]
  BY <1>2
<1> HIDE DEF d
<1>6. /\ chat' \in [ChatId -> Chats \cup {None}]
      /\ k \in Existing' /\ \A l \in Existing : l \in Existing'
  BY <1>2, <1>4, <1>5, NoneAssumption DEF TInv, TypeOK, Existing
<1>7. ASSUME NEW q \in Req PROVE task'[q] \in AllTasks /\ HandOK(task[q])'
  <2>1. CASE q = p
    <3>1. task'[q] = Chosen(task[p], k)
      BY <1>2, <2>1
    <3> QED BY <1>1, <1>6, <3>1, ChosenTypes
            DEF AllTasks, HandOK, Done, Sending, Writing
  <2>2. CASE q # p /\ task[q].pc = "create"
    <3>1. task'[q] = [task[q] EXCEPT !.unseen = @ \cup {k}]
      BY <1>2, <2>2
    <3>2. task[q] \in Sends
      BY <2>2, TaskKinds DEF TInv, SendPCs
    <3>3. task'[q] \in Sends /\ task'[q].pc = "create"
      BY <2>2, <3>1, <3>2 DEF Sends
    <3> QED BY <3>3 DEF AllTasks, HandOK, Sending, Writing
  <2>3. CASE q # p /\ task[q].pc # "create"
    <3>1. task'[q] = task[q]
      BY <1>2, <2>3
    <3> QED BY <1>3, <1>6, <3>1 DEF TInv, TypeOK, AllTasks, HandOK
  <2> QED BY <2>1, <2>2, <2>3
<1>8. task' \in [Req -> AllTasks]
  BY <1>2, <1>7
<1> QED BY <1>3, <1>6, <1>7, <1>8 DEF TInv, TypeOK, AllTasks, mapVars

-----------------------------------------------------------------------------
(* Types: writing a message.                                               *)

\* What a task becomes when it has read the activity of a participant.
LEMMA Began ==
  ASSUME TInv, NEW p \in Req, At(p, "begin"), NEW is \in BOOLEAN,
         task' = [task EXCEPT ![p].pc = "look", ![p].delivered = is]
  PROVE  \E u \in Sends : /\ task' = [task EXCEPT ![p] = u] /\ u.pc = "look"
                          /\ u.user = task[p].user /\ u.chat = task[p].chat
<1> DEFINE v == [task[p] EXCEPT !.pc = "look"]
           u == [v EXCEPT !.delivered = is]
<1>1. task[p] \in Sends
  BY TaskKinds DEF TInv, At, SendPCs
<1>2. task' = [task EXCEPT ![p] = u]
  OBVIOUS
<1>3. v \in Sends /\ v.pc = "look" /\ v.user = task[p].user
      /\ v.chat = task[p].chat
  BY <1>1, SendPC DEF SendPCs
<1> HIDE DEF v
<1>4. u \in Sends /\ u.pc = "look" /\ u.user = v.user /\ u.chat = v.chat
  BY <1>3 DEF Sends
<1> HIDE DEF u
<1> QED BY <1>2, <1>3, <1>4

LEMMA BeginCases ==
  ASSUME NEW p \in Req, Begin(p)
  PROVE  \/ End(p)
         \/ \E is \in BOOLEAN :
              task' = [task EXCEPT ![p].pc = "look", ![p].delivered = is]
  BY DEF Begin, SaidActive

LEMMA Looked ==
  ASSUME TInv, NEW p \in Req, Look(p)
  PROVE  \E u \in Sends : /\ task' = [task EXCEPT ![p] = u] /\ u.pc = "insert"
                          /\ u.user = task[p].user /\ u.chat = task[p].chat
<1>0. PICK is \in BOOLEAN :
        task' = [task EXCEPT ![p].pc = "insert", ![p].delivered = @ /\ is]
  BY DEF Look, SaidActive
<1> DEFINE v == [task[p] EXCEPT !.pc = "insert"]
           u == [v EXCEPT !.delivered = @ /\ is]
<1>1. task[p] \in Sends
  BY TaskKinds DEF TInv, Look, At, SendPCs
<1>2. task' = [task EXCEPT ![p] = u]
  BY <1>0
<1>3. v \in Sends /\ v.pc = "insert" /\ v.user = task[p].user
      /\ v.chat = task[p].chat
  BY <1>1, SendPC DEF SendPCs
<1> HIDE DEF v
<1>4. u \in Sends /\ u.pc = "insert" /\ u.user = v.user /\ u.chat = v.chat
  BY <1>3 DEF Sends
<1> HIDE DEF u
<1> QED BY <1>2, <1>3, <1>4

LEMMA TBegin ==
  ASSUME TInv, NEW p \in Req, Begin(p)
  PROVE  TInv'
<1>1. At(p, "begin") /\ UNCHANGED <<chatVars, mapVars>>
  BY DEF Begin
<1>2. CASE End(p)
  BY <1>1, <1>2, TEnd, TQuiet DEF TInv, TypeOK, mapVars, End
<1>3. ASSUME NEW is \in BOOLEAN,
             task' = [task EXCEPT ![p].pc = "look", ![p].delivered = is]
      PROVE  TInv'
  <2>1. PICK u \in Sends : /\ task' = [task EXCEPT ![p] = u] /\ u.pc = "look"
                           /\ u.user = task[p].user /\ u.chat = task[p].chat
    BY <1>1, <1>3, Began
  <2>2. u \in AllTasks /\ HandOK(u)
    BY <1>1, <2>1 DEF TInv, AllTasks, HandOK, At, Sending, Writing
  <2> QED BY <1>1, <2>1, <2>2, TQuiet DEF TInv, TypeOK, mapVars
<1> QED BY <1>2, <1>3, BeginCases

LEMMA TLook ==
  ASSUME TInv, NEW p \in Req, Look(p)
  PROVE  TInv'
<1>1. At(p, "look") /\ UNCHANGED <<chatVars, mapVars>>
  BY DEF Look
<1>2. PICK u \in Sends : /\ task' = [task EXCEPT ![p] = u] /\ u.pc = "insert"
                         /\ u.user = task[p].user /\ u.chat = task[p].chat
  BY Looked
<1>3. u \in AllTasks /\ HandOK(u)
  BY <1>1, <1>2 DEF TInv, AllTasks, HandOK, At, Sending, Writing
<1> QED BY <1>1, <1>2, <1>3, TQuiet DEF TInv, TypeOK, mapVars

\* What a task becomes when it has inserted message m.
LEMMA Inserted ==
  ASSUME TInv, NEW p \in Req, At(p, "insert"), NEW m \in Msg,
         task' = [task EXCEPT ![p].pc = "update", ![p].msg = m,
                              ![p].seen = chat[task[p].chat].last]
  PROVE  /\ task' \in [Req -> AllTasks]
         /\ \A q \in Req \ {p} : task'[q] = task[q]
         /\ task'[p] \in Sends /\ task'[p].pc = "update"
         /\ task'[p].chat = task[p].chat /\ task'[p].user = task[p].user
         /\ task'[p].msg = m /\ task'[p].seen = chat[task[p].chat].last
<1> DEFINE last == chat[task[p].chat].last
           u == [task[p] EXCEPT !.pc = "update"]
           v == [u EXCEPT !.msg = m]
           w == [v EXCEPT !.seen = last]
<1>1. task[p] \in Sends /\ task[p].chat \in Existing
  BY TaskKinds DEF TInv, At, SendPCs, HandOK, Sending
<1>2. last \in Msg \cup {None}
  BY <1>1 DEF TInv, TypeOK, Existing, Chats
<1>3. task' = [task EXCEPT ![p] = w]
  OBVIOUS
<1> HIDE DEF last
<1>4. u \in Sends /\ u.pc = "update" /\ u.chat = task[p].chat
      /\ u.user = task[p].user
  BY <1>1, SendPC DEF SendPCs
<1> HIDE DEF u
<1>5. v \in Sends /\ v.pc = u.pc /\ v.chat = u.chat /\ v.user = u.user
      /\ v.msg = m
  BY <1>4 DEF Sends
<1> HIDE DEF v
<1>6. w \in Sends /\ w.pc = v.pc /\ w.chat = v.chat /\ w.user = v.user
      /\ w.msg = v.msg /\ w.seen = last
  BY <1>2, <1>5 DEF Sends
<1> HIDE DEF w
<1> QED BY <1>3, <1>4, <1>5, <1>6, ZenonT(60)
        DEF TInv, TypeOK, AllTasks, last

LEMMA TInsert ==
  ASSUME TInv, NEW p \in Req, Insert(p)
  PROVE  TInv'
<1>1. PICK m \in Msg :
        /\ order' = Append(order, m)
        /\ task' = [task EXCEPT ![p].pc = "update", ![p].msg = m,
                                ![p].seen = chat[task[p].chat].last]
  BY DEF Insert
<1>2. At(p, "insert") /\ UNCHANGED <<chat, msg, mapVars>>
  BY DEF Insert
<1>3. order' \in Seq(Msg)
  BY <1>1 DEF TInv, TypeOK
<1>4. /\ task' \in [Req -> AllTasks]
      /\ \A q \in Req \ {p} : task'[q] = task[q]
      /\ task'[p].pc = "update" /\ task'[p].chat = task[p].chat
      /\ task'[p].user = task[p].user /\ task'[p].msg = m
  BY <1>1, <1>2, Inserted
<1>5. HandOK(task[p])'
  <2>1. task[p].chat \in Existing /\ task[p].user \in User
    BY <1>2 DEF TInv, HandOK, At, Sending
  <2>2. Existing' = Existing
    BY <1>2 DEF Existing
  <2> QED BY <1>4, <2>1, <2>2 DEF HandOK, Sending, Writing
<1>6. ASSUME NEW q \in Req \ {p} PROVE HandOK(task[q])'
  BY <1>2, <1>4 DEF TInv, HandOK, Existing
<1> QED BY <1>2, <1>3, <1>4, <1>5, <1>6 DEF TInv, TypeOK, AllTasks, mapVars

\* A write to a chat that exists.
LEMMA ChatWrite ==
  ASSUME TInv, NEW k \in Existing, NEW d \in Chats, msg' = msg,
         chat' = [chat EXCEPT ![k] = d]
  PROVE  /\ Kept /\ Existing' = Existing
         /\ chat' \in [ChatId -> Chats \cup {None}]
         /\ chat'[k] = d /\ \A l \in ChatId \ {k} : chat'[l] = chat[l]
  BY NoneAssumption DEF TInv, TypeOK, Kept, Existing

\* Only the lock of a chat is written.
LEMMA LockWrite ==
  ASSUME TInv, NEW k \in Existing, NEW p \in Req \cup {None}
  PROVE  LET d == [chat[k] EXCEPT !.lock = p] IN
         /\ d \in Chats /\ d.lock = p /\ d.last = chat[k].last
         /\ d.participants = chat[k].participants /\ d.unseen = chat[k].unseen
  BY DEF TInv, TypeOK, Existing, Chats

LEMMA TUpdate ==
  ASSUME TInv, NEW p \in Req, Update(p)
  PROVE  TInv'
<1> DEFINE k == task[p].chat
<1>1. /\ task[p] \in Sends /\ At(p, "update") /\ k \in Existing
      /\ UNCHANGED <<msg, order, mapVars>>
  BY TaskKinds DEF TInv, Update, At, SendPCs, HandOK, Sending
<1>2. CASE End(p) /\ UNCHANGED chat
  BY <1>1, <1>2, TEnd, TQuiet DEF TInv, TypeOK, chatVars, mapVars, End
<1>3. CASE Goto(p, "commit") /\ chat' = [chat EXCEPT ![k].lock = p]
  <2> DEFINE d == [chat[k] EXCEPT !.lock = p]
  <2>1. d \in Chats
    BY <1>1, LockWrite
  <2>2. chat' = [chat EXCEPT ![k] = d]
    BY <1>3
  <2> HIDE DEF d
  <2>3. PICK t \in AllTasks : task' = [task EXCEPT ![p] = t] /\ HandOK(t)
                              /\ t.pc = "commit"
    BY <1>1, <1>3, TGoto DEF SendPCs, Sending, Writing, At
  <2>4. /\ Kept /\ Existing' = Existing
        /\ chat' \in [ChatId -> Chats \cup {None}]
    BY <1>1, <2>1, <2>2, ChatWrite
  <2>5. HandOK(t)'
    BY <2>3, <2>4 DEF HandOK
  <2> QED BY <1>1, <2>3, <2>4, <2>5, TStep DEF TInv, TypeOK, mapVars
<1> QED BY <1>2, <1>3 DEF Update

LEMMA TCommit ==
  ASSUME TInv, NEW p \in Req, Commit(p)
  PROVE  /\ TInv'
         /\ Existing' = Existing
         /\ chat'[task[p].chat].last = task[p].msg
         /\ chat'[task[p].chat].participants = chat[task[p].chat].participants
         /\ chat'[task[p].chat].unseen = chat[task[p].chat].unseen
         /\ \A l \in ChatId \ {task[p].chat} : chat'[l] = chat[l]
<1> DEFINE k == task[p].chat
           m == task[p].msg
           d == [chat[k] EXCEPT !.lock = None]
           e == [d EXCEPT !.last = m]
           n == [chat |-> k, sender |-> task[p].user, readBy |-> {},
                 status |-> IF task[p].delivered THEN "DELIVERED" ELSE "SENT"]
<1>1. /\ k \in Existing /\ k \in ChatId /\ m \in Msg /\ task[p].user \in User
      /\ UNCHANGED <<order, mapVars>>
  BY TaskKinds
  DEF TInv, Commit, At, SendPCs, HandOK, Sending, Writing, Existing
<1>2. d \in Chats /\ d.last = chat[k].last
      /\ d.participants = chat[k].participants /\ d.unseen = chat[k].unseen
  BY <1>1, LockWrite
<1>3. chat' = [chat EXCEPT ![k] = e] /\ msg' = [msg EXCEPT ![m] = n] /\ End(p)
  BY DEF Commit
<1> HIDE DEF d
<1>4. e \in Chats /\ e.last = m
      /\ e.participants = d.participants /\ e.unseen = d.unseen
  BY <1>1, <1>2 DEF Chats
<1>5. n \in Messages
  BY <1>1 DEF Messages
<1> HIDE DEF e, n, k, m
<1>6. msg' \in [Msg -> Messages \cup {None}] /\ msg'[m] # None
      /\ \A o \in Msg \ {m} : msg'[o] = msg[o]
  BY <1>1, <1>3, <1>5, NoneAssumption DEF TInv, TypeOK
<1>7. /\ Existing' = Existing
      /\ chat' \in [ChatId -> Chats \cup {None}]
      /\ chat'[k] = e /\ \A l \in ChatId \ {k} : chat'[l] = chat[l]
  BY <1>1, <1>3, <1>4, NoneAssumption DEF TInv, TypeOK, Existing
<1>8. Kept
  BY <1>6, <1>7 DEF Kept
<1>9. TInv'
  BY <1>1, <1>3, <1>6, <1>7, <1>8, TEnd, TStep
  DEF TInv, TypeOK, mapVars, End
<1> QED BY <1>2, <1>4, <1>7, <1>9 DEF k, m

LEMMA TSendFails ==
  ASSUME TInv, NEW p \in Req, SendFails(p)
  PROVE  TInv'
<1>1. /\ End(p) /\ UNCHANGED <<msg, order, mapVars>>
      /\ chat' = [k \in ChatId |->
           IF chat[k] # None /\ chat[k].lock = p
             THEN [chat[k] EXCEPT !.lock = None] ELSE chat[k]]
  BY DEF SendFails
<1>2. ASSUME NEW k \in ChatId
      PROVE  /\ chat'[k] \in Chats \cup {None}
             /\ chat[k] # None => chat'[k] # None
  <2>1. CASE chat[k] # None /\ chat[k].lock = p
    <3>1. chat'[k] = [chat[k] EXCEPT !.lock = None] /\ k \in Existing
      BY <1>1, <2>1 DEF Existing
    <3> QED BY <3>1, LockWrite, NoneAssumption
  <2>2. CASE ~(chat[k] # None /\ chat[k].lock = p)
    <3>1. chat'[k] = chat[k]
      BY <1>1, <2>2
    <3> QED BY <3>1 DEF TInv, TypeOK
  <2> QED BY <2>1, <2>2
<1>3. chat' \in [ChatId -> Chats \cup {None}]
  BY <1>1, <1>2
<1>4. Kept
  BY <1>1, <1>2 DEF Kept, Existing
<1> QED BY <1>1, <1>3, <1>4, TEnd, TStep DEF TInv, TypeOK, mapVars, End

-----------------------------------------------------------------------------
(* Types: reading a message, and the map of active users.                  *)

LEMMA TRead ==
  ASSUME TInv, NEW p \in Req, NEW u \in User, NEW m \in Msg, Read(p, u, m)
  PROVE  TInv'
<1> DEFINE t == [pc |-> "read", user |-> u, msg |-> m]
<1>1. t \in AllTasks /\ HandOK(t)
  BY DEF AllTasks, Reads, HandOK, Sending, Writing, Read
<1>2. task' = [task EXCEPT ![p] = t] /\ UNCHANGED <<chatVars, mapVars>>
  BY DEF Read
<1> HIDE DEF t
<1> QED BY <1>1, <1>2, TQuiet DEF TInv, TypeOK, mapVars

LEMMA TReceipt ==
  ASSUME TInv, NEW p \in Req, Receipt(p)
  PROVE  /\ TInv'
         /\ \A m \in Msg : /\ msg'[m] # None <=> msg[m] # None
                           /\ msg[m] # None => msg'[m].chat = msg[m].chat
<1> DEFINE m == task[p].msg
           u == task[p].user
           d == [msg[m] EXCEPT !.readBy = @ \cup {u}]
           e == [d EXCEPT !.status = "READ"]
<1>1. m \in Msg /\ u \in User /\ msg[m] \in Messages
  BY TaskKinds DEF TInv, TypeOK, Receipt, At, HandOK, Reads
<1>2. d \in Messages /\ d.chat = msg[m].chat
  BY <1>1 DEF Messages
<1>3. /\ msg' = [msg EXCEPT ![m] = e] /\ End(p)
      /\ UNCHANGED <<chat, order, mapVars>>
  BY DEF Receipt
<1> HIDE DEF d
<1>4. e \in Messages /\ e.chat = d.chat
  BY <1>2 DEF Messages
<1> HIDE DEF e, m, u
<1>5. /\ msg' \in [Msg -> Messages \cup {None}]
      /\ msg'[m] = e /\ e # None /\ msg[m] # None
      /\ \A o \in Msg \ {m} : msg'[o] = msg[o]
  BY <1>1, <1>3, <1>4, NoneAssumption DEF TInv, TypeOK
<1>6. Kept
  BY <1>3, <1>5 DEF Kept, Existing
<1>7. TInv'
  BY <1>3, <1>5, <1>6, TEnd, TStep DEF TInv, TypeOK, mapVars, End
<1> QED BY <1>2, <1>4, <1>5, <1>7

LEMMA TEvent ==
  ASSUME TInv, NEW p \in Req, NEW u \in User, NEW where \in {"join", "leave"},
         Event(p, u, where)
  PROVE  TInv'
<1>1. PICK failed \in {FALSE} \cup (IF where = "join" /\ "cache" \in Faults
                                   THEN {TRUE} ELSE {}) :
        /\ task' = [task EXCEPT ![p] =
             [pc |-> where, user |-> u, map |-> IF failed THEN {} ELSE active]]
        /\ torn' = (torn \/ failed \/ \E q \in Req : Updating(q))
  BY DEF Event
<1> DEFINE map == IF failed THEN {} ELSE active
           t == [pc |-> where, user |-> u, map |-> map]
<1>2. map \in SUBSET User
  BY DEF TInv, TypeOK
<1>3. task' = [task EXCEPT ![p] = t]
  BY <1>1
<1> HIDE DEF map
<1>4. t \in Updates /\ t.pc = where
  BY <1>2 DEF Updates
<1> HIDE DEF t
<1>5. t \in AllTasks /\ HandOK(t)
  BY <1>4 DEF AllTasks, HandOK, Sending, Writing
<1>6. /\ UNCHANGED <<chatVars, active>> /\ torn' \in BOOLEAN
      /\ online' \in SUBSET User
  BY <1>1 DEF Event, TInv, TypeOK
<1> QED BY <1>3, <1>5, <1>6, TQuiet DEF TInv, TypeOK

LEMMA TMap ==
  ASSUME TInv, NEW p \in Req, Join(p) \/ Leave(p) \/ WriteLost(p)
  PROVE  TInv'
<1>1. Updating(p) /\ task[p] \in Updates
  BY TaskKinds DEF TInv, Join, Leave, WriteLost, At, Updating
<1>2. End(p) /\ UNCHANGED <<chatVars, online>> /\ torn' \in BOOLEAN
  BY DEF Join, Leave, WriteLost, WriteMap, TInv, TypeOK
<1>3. active' \in SUBSET User
  BY <1>1 DEF Join, Leave, WriteLost, WriteMap, TInv, TypeOK, Updates
<1> QED BY <1>2, <1>3, TEnd, TQuiet DEF TInv, TypeOK, End

LEMMA TNext == TInv /\ [Next]_vars => TInv'
<1> SUFFICES ASSUME TInv, [Next]_vars PROVE TInv'
  OBVIOUS
<1>1. ASSUME NEW p \in Req, Call(p) PROVE TInv'
  BY <1>1, TLookups, TRead, TEvent DEF Call
<1>2. ASSUME NEW p \in Req, Step(p) PROVE TInv'
  BY <1>2, TCheck, TCreate, TBegin, TLook, TInsert, TUpdate, TCommit,
     TSendFails, TReceipt, TMap DEF Step
<1>3. CASE UNCHANGED vars
  BY <1>3 DEF TInv, TypeOK, HandOK, vars, chatVars, mapVars, Existing
<1> QED BY <1>1, <1>2, <1>3 DEF Next

LEMMA TypesHold == Spec => []TInv
  BY TInit, TNext, PTL DEF Spec

\* Every variable has its type.
THEOREM TypeCorrect == Spec => []TypeOK
<1>1. TInv => TypeOK
  BY DEF TInv
<1> QED BY <1>1, TypesHold, PTL

-----------------------------------------------------------------------------
(* One chat for each group.                                                *)

\* A request about to create a chat knows of every chat of the group: it was
\* created after the request had looked.
CreateOK(p) ==
  At(p, "create") => \A k \in Existing :
    chat[k].participants = task[p].group => k \in task[p].unseen

OInv == OneChatPerGroup /\ \A p \in Req : CreateOK(p)

\* Chats keep their participants.
ChatsAlike ==
  /\ Existing' = Existing
  /\ \A k \in Existing : /\ chat'[k].participants = chat[k].participants
                         /\ chat'[k].unseen = chat[k].unseen

\* A step after which nobody creates a chat who did not before.
LEMMA OQuiet ==
  ASSUME OInv, ChatsAlike,
         \A q \in Req : task'[q].pc = "create" => task'[q] = task[q]
  PROVE  OInv'
  BY DEF OInv, OneChatPerGroup, CreateOK, ChatsAlike, At

LEMMA OneTask ==
  ASSUME TInv, NEW p \in Req, NEW t, task' = [task EXCEPT ![p] = t],
         t.pc # "create"
  PROVE  \A q \in Req : task'[q].pc = "create" => task'[q] = task[q]
  BY DEF TInv, TypeOK

LEMMA SameChats == chat' = chat => ChatsAlike
  BY DEF ChatsAlike, Existing

\* The steps that neither look for a chat nor create one.
LEMMA OOthers ==
  ASSUME TInv, OInv, NEW p \in Req,
         \/ Call(p)
         \/ Begin(p) \/ Look(p) \/ Insert(p) \/ Update(p)
         \/ Commit(p) \/ SendFails(p) \/ Receipt(p)
         \/ Join(p) \/ Leave(p) \/ WriteLost(p)
  PROVE  OInv'
<1>1. ASSUME Call(p)
      PROVE  chat' = chat /\ \A q \in Req : task'[q].pc = "create"
                                            => task'[q] = task[q]
  <2>1. ASSUME NEW u, NEW group, NEW k, NEW where \in {"check", "begin"},
               task' = [task EXCEPT ![p] = Send(u, group, k, where)]
        PROVE  \A q \in Req : task'[q].pc = "create" => task'[q] = task[q]
    BY <2>1, OneTask DEF Send
  <2>2. ASSUME NEW u \in User, NEW r \in User, SendTo(p, u, r)
        PROVE  chat' = chat /\ \A q \in Req : task'[q].pc = "create"
                                              => task'[q] = task[q]
    BY <2>1, <2>2 DEF SendTo, chatVars
  <2>3. ASSUME NEW u \in User, NEW k \in ChatId, SendIn(p, u, k)
        PROVE  chat' = chat /\ \A q \in Req : task'[q].pc = "create"
                                              => task'[q] = task[q]
    BY <2>1, <2>3 DEF SendIn, chatVars
  <2>4. ASSUME NEW group \in SUBSET User, Open(p, group)
        PROVE  chat' = chat /\ \A q \in Req : task'[q].pc = "create"
                                              => task'[q] = task[q]
    BY <2>1, <2>4 DEF Open, chatVars
  <2>5. ASSUME NEW u \in User, NEW m \in Msg, Read(p, u, m)
        PROVE  chat' = chat /\ \A q \in Req : task'[q].pc = "create"
                                              => task'[q] = task[q]
    BY <2>5, OneTask DEF Read, chatVars
  <2>6. ASSUME NEW u \in User, NEW where \in {"join", "leave"},
               Event(p, u, where)
        PROVE  chat' = chat /\ \A q \in Req : task'[q].pc = "create"
                                              => task'[q] = task[q]
    BY <2>6, OneTask DEF Event, chatVars
  <2> QED BY <1>1, <2>2, <2>3, <2>4, <2>5, <2>6 DEF Call
<1>2. CASE Call(p)
  BY <1>1, <1>2, SameChats, OQuiet
<1>3. ASSUME End(p)
      PROVE  \A q \in Req : task'[q].pc = "create" => task'[q] = task[q]
  BY <1>3, OneTask DEF End, Done
<1>4. CASE Begin(p)
  <2>1. CASE End(p)
    BY <1>3, <1>4, <2>1, SameChats, OQuiet DEF Begin, chatVars
  <2>2. ASSUME NEW is \in BOOLEAN, task' = [task EXCEPT ![p].pc = "look",
                                          ![p].delivered = is]
        PROVE  OInv'
    <3>1. \A q \in Req : task'[q].pc = "create" => task'[q] = task[q]
      BY <1>4, <2>2, Began, OneTask DEF Begin
    <3> QED BY <1>4, <3>1, SameChats, OQuiet DEF Begin, chatVars
  <2> QED BY <1>4, <2>1, <2>2, BeginCases
<1>5. CASE Look(p)
  BY <1>5, Looked, OneTask, SameChats, OQuiet DEF Look, chatVars
<1>6. CASE Insert(p)
  <2>1. \A q \in Req \ {p} : task'[q] = task[q]
    BY <1>6, Inserted DEF Insert
  <2>2. task'[p].pc = "update"
    BY <1>6, Inserted DEF Insert
  <2> QED BY <1>6, <2>1, <2>2, SameChats, OQuiet DEF Insert
<1>7. CASE Update(p)
  <2> DEFINE k == task[p].chat
  <2>1. k \in Existing /\ task[p] \in Sends /\ At(p, "update")
    BY <1>7, TaskKinds DEF TInv, Update, At, HandOK, Sending, SendPCs
  <2>2. CASE End(p) /\ UNCHANGED chat
    BY <1>3, <2>2, SameChats, OQuiet
  <2>3. CASE Goto(p, "commit") /\ chat' = [chat EXCEPT ![k].lock = p]
    <3> DEFINE d == [chat[k] EXCEPT !.lock = p]
    <3>1. d \in Chats /\ d.participants = chat[k].participants
          /\ d.unseen = chat[k].unseen
      BY <2>1, LockWrite
    <3>2. chat' = [chat EXCEPT ![k] = d] /\ msg' = msg
      BY <1>7, <2>3 DEF Update
    <3> HIDE DEF d
    <3>3. ChatsAlike
      BY <2>1, <3>1, <3>2, ChatWrite DEF ChatsAlike, Existing
    <3>4. PICK t \in AllTasks : task' = [task EXCEPT ![p] = t]
                                /\ t.pc = "commit"
      BY <2>1, <2>3, TGoto DEF SendPCs, Sending, Writing, At
    <3> QED BY <3>3, <3>4, OneTask, OQuiet
  <2> QED BY <1>7, <2>2, <2>3 DEF Update
<1>8. CASE Commit(p)
  <2>1. ChatsAlike
    BY <1>8, TCommit DEF ChatsAlike, Existing
  <2> QED BY <1>3, <1>8, <2>1, OQuiet DEF Commit
<1>9. CASE SendFails(p)
  <2>1. ASSUME NEW k \in ChatId
        PROVE  /\ chat[k] # None <=> chat'[k] # None
               /\ chat[k] # None =>
                    /\ chat'[k].participants = chat[k].participants
                    /\ chat'[k].unseen = chat[k].unseen
    <3>1. CASE chat[k] # None /\ chat[k].lock = p
      <4>1. chat'[k] = [chat[k] EXCEPT !.lock = None] /\ k \in Existing
        BY <1>9, <3>1 DEF SendFails, Existing
      <4> QED BY <3>1, <4>1, LockWrite, NoneAssumption
    <3>2. CASE ~(chat[k] # None /\ chat[k].lock = p)
      BY <1>9, <3>2 DEF SendFails
    <3> QED BY <3>1, <3>2
  <2>2. ChatsAlike
    BY <2>1 DEF ChatsAlike, Existing
  <2> QED BY <1>3, <1>9, <2>2, OQuiet DEF SendFails
<1>10. CASE Receipt(p) \/ Join(p) \/ Leave(p) \/ WriteLost(p)
  BY <1>3, <1>10, SameChats, OQuiet
  DEF Receipt, Join, Leave, WriteLost, WriteMap, chatVars
<1> QED BY <1>2, <1>4, <1>5, <1>6, <1>7, <1>8, <1>9, <1>10

LEMMA OCheck ==
  ASSUME TInv, OInv, NEW p \in Req, Check(p)
  PROVE  OInv'
<1>1. task[p] \in Sends /\ At(p, "check") /\ UNCHANGED chatVars
  BY TaskKinds DEF TInv, Check, At, SendPCs
<1> DEFINE same == {k \in Existing :
                      task[p].group \subseteq chat[k].participants}
<1>2. CASE same = {}
  <2> DEFINE t == [task[p] EXCEPT !.pc = "create"]
  <2>1. task' = [task EXCEPT ![p] = t]
    BY <1>2 DEF Check, Goto
  <2>2. t.group = task[p].group
    BY <1>1, SendPC DEF SendPCs
  <2> HIDE DEF t
  <2>3. task'[p] = t /\ \A q \in Req \ {p} : task'[q] = task[q]
    BY <2>1 DEF TInv, TypeOK
  <2>4. CreateOK(p)'
    BY <1>1, <1>2, <2>2, <2>3 DEF CreateOK, Existing, chatVars
  <2>5. \A q \in Req \ {p} : CreateOK(q)'
    BY <1>1, <2>3 DEF OInv, CreateOK, Existing, At, chatVars
  <2> QED BY <1>1, <2>4, <2>5 DEF OInv, OneChatPerGroup, Existing, chatVars
<1>3. ASSUME NEW k \in Existing,
             task' = [task EXCEPT ![p] = Chosen(task[p], k)]
      PROVE  OInv'
  <2>1. Chosen(task[p], k).pc \in {"begin", "done"}
    BY <1>1, ChosenTypes DEF Existing
  <2> QED BY <1>1, <1>3, <2>1, OneTask, SameChats, OQuiet DEF chatVars
<1> QED BY <1>2, <1>3 DEF Check

LEMMA OCreate ==
  ASSUME TInv, OInv, NEW p \in Req, Create(p)
  PROVE  OInv'
<1>1. task[p] \in Sends /\ At(p, "create") /\ CreateOK(p)
  BY TaskKinds DEF TInv, OInv, Create, At, SendPCs
<1>2. PICK k \in ChatId \ Existing :
        /\ chat' = [chat EXCEPT ![k] =
             [participants |-> task[p].group, last |-> None, lock |-> None,
              unseen |-> task[p].unseen]]
        /\ task' = [q \in Req |->
             IF q = p THEN Chosen(task[p], k)
             ELSE IF task[q].pc = "create"
                  THEN [task[q] EXCEPT !.unseen = @ \cup {k}]
             ELSE task[q]]
  BY DEF Create
<1> DEFINE d == [participants |-> task[p].group, last |-> None,
                 lock |-> None, unseen |-> task[p].unseen]
<1>3. d \in Chats /\ d.participants = task[p].group /\ d.unseen = task[p].unseen
  BY <1>1 DEF Chats, Sends
<1>4. chat' = [chat EXCEPT ![k] = d]
  BY <1>2
<1> HIDE DEF d
<1>5. /\ Existing' = Existing \cup {k}
      /\ chat'[k] = d /\ \A l \in Existing : chat'[l] = chat[l]
  BY <1>2, <1>3, <1>4, NoneAssumption DEF TInv, TypeOK, Existing
<1>6. OneChatPerGroup'
  <2> SUFFICES ASSUME NEW a \in Existing', NEW b \in Existing', a # b,
                      chat'[a].participants = chat'[b].participants
               PROVE  a \in chat'[b].unseen \/ b \in chat'[a].unseen
    BY DEF OneChatPerGroup
  <2>1. CASE a \in Existing /\ b \in Existing
    BY <1>5, <2>1 DEF OInv, OneChatPerGroup
  <2>2. CASE a = k
    BY <1>1, <1>3, <1>5, <2>2 DEF CreateOK
  <2>3. CASE b = k
    BY <1>1, <1>3, <1>5, <2>3 DEF CreateOK
  <2> QED BY <1>5, <2>1, <2>2, <2>3
<1>7. ASSUME NEW q \in Req PROVE CreateOK(q)'
  <2>1. CASE q = p
    <3>1. task'[p] = Chosen(task[p], k)
      BY <1>2
    <3>2. task'[p].pc \in {"begin", "done"}
      BY <1>1, <3>1, ChosenTypes
    <3> QED BY <2>1, <3>2 DEF CreateOK, At
  <2>2. CASE q # p /\ task[q].pc = "create"
    <3>1. task'[q] = [task[q] EXCEPT !.unseen = @ \cup {k}]
      BY <1>2, <2>2
    <3>2. task[q] \in Sends
      BY <2>2, TaskKinds DEF TInv, SendPCs
    <3>3. /\ task'[q].group = task[q].group
          /\ task'[q].unseen = task[q].unseen \cup {k}
      BY <3>1, <3>2 DEF Sends
    <3> QED BY <1>5, <2>2, <3>3 DEF OInv, CreateOK, At
  <2>3. CASE q # p /\ task[q].pc # "create"
    BY <1>2, <2>3 DEF CreateOK, At
  <2> QED BY <2>1, <2>2, <2>3
<1> QED BY <1>6, <1>7 DEF OInv

LEMMA ONext == TInv /\ OInv /\ [Next]_vars => OInv'
<1> SUFFICES ASSUME TInv, OInv, [Next]_vars PROVE OInv'
  OBVIOUS
<1>1. ASSUME NEW p \in Req, Call(p) \/ Step(p) PROVE OInv'
  BY <1>1, OOthers, OCheck, OCreate DEF Step
<1>2. CASE UNCHANGED vars
  BY <1>2, SameChats, OQuiet DEF vars, chatVars
<1> QED BY <1>1, <1>2 DEF Next

\* No group gets a second chat, but from requests that overlap.
THEOREM OneChat == Spec => []OneChatPerGroup
<1>1. Init => OInv
  BY DEF Init, OInv, OneChatPerGroup, CreateOK, Existing, At, Idle
<1>2. OInv => OneChatPerGroup
  BY DEF OInv
<1> QED BY <1>1, <1>2, TypesHold, ONext, PTL DEF Spec

-----------------------------------------------------------------------------
(* The map of active users.                                                *)

\* While nothing has torn the map, one request at most is changing it, and
\* what that one has read is what the map is.
MInv ==
  \/ torn
  \/ /\ \A p \in Req : ~Updating(p)
     /\ active = online
  \/ \E p \in Req :
       /\ Updating(p)
       /\ \A q \in Req \ {p} : ~Updating(q)
       /\ task[p].map = active
       /\ online = IF At(p, "join") THEN task[p].map \cup {task[p].user}
                                    ELSE task[p].map \ {task[p].user}

\* A step that has nothing to do with the map.
LEMMA MQuiet ==
  ASSUME TInv, MInv, UNCHANGED mapVars,
         \A q \in Req : \/ task'[q] = task[q]
                        \/ ~Updating(q) /\ ~Updating(q)'
  PROVE  MInv'
  BY DEF MInv, Updating, At, mapVars

LEMMA MEvent ==
  ASSUME TInv, MInv, NEW p \in Req, NEW u \in User,
         NEW where \in {"join", "leave"}, Event(p, u, where)
  PROVE  MInv'
<1>1. PICK failed \in {FALSE} \cup (IF where = "join" /\ "cache" \in Faults
                                   THEN {TRUE} ELSE {}) :
        /\ task' = [task EXCEPT ![p] =
             [pc |-> where, user |-> u, map |-> IF failed THEN {} ELSE active]]
        /\ torn' = (torn \/ failed \/ \E q \in Req : Updating(q))
  BY DEF Event
<1>2. CASE torn'
  BY <1>2 DEF MInv
<1>3. CASE ~torn'
  <2>1. ~torn /\ ~failed /\ \A q \in Req : ~Updating(q)
    BY <1>1, <1>3
  <2>2. active = online /\ active' = active
    BY <2>1 DEF MInv, Event
  <2>3. /\ task'[p] = [pc |-> where, user |-> u, map |-> active]
        /\ \A q \in Req \ {p} : task'[q] = task[q]
    BY <1>1, <2>1 DEF TInv, TypeOK
  <2>4. online' = IF where = "join" THEN online \cup {u} ELSE online \ {u}
    BY DEF Event
  <2>5. Updating(p)' /\ task'[p].map = active'
    BY <2>2, <2>3 DEF Updating
  <2>6. \A q \in Req \ {p} : ~Updating(q)'
    BY <2>1, <2>3 DEF Updating
  <2>7. online' = IF At(p, "join")' THEN task'[p].map \cup {task'[p].user}
                                    ELSE task'[p].map \ {task'[p].user}
    BY <2>2, <2>3, <2>4 DEF At
  <2> QED BY <2>5, <2>6, <2>7 DEF MInv
<1> QED BY <1>2, <1>3

LEMMA MWrite ==
  ASSUME TInv, MInv, NEW p \in Req, Join(p) \/ Leave(p) \/ WriteLost(p)
  PROVE  MInv'
<1>1. Updating(p) /\ End(p) /\ online' = online
  BY DEF Join, Leave, WriteLost, WriteMap, At, Updating
<1>2. CASE torn'
  BY <1>2 DEF MInv
<1>3. CASE ~torn'
  <2>1. ~torn /\ (Join(p) \/ Leave(p))
    BY <1>3 DEF Join, Leave, WriteLost, WriteMap
  <2>2. /\ \A q \in Req \ {p} : ~Updating(q)
        /\ task[p].map = active
        /\ online = IF At(p, "join") THEN task[p].map \cup {task[p].user}
                                     ELSE task[p].map \ {task[p].user}
    BY <1>1, <2>1 DEF MInv
  <2>3. active' = online
    BY <2>1, <2>2 DEF Join, Leave, WriteMap, At
  <2>4. \A q \in Req : ~Updating(q)'
    BY <1>1, <2>2 DEF TInv, TypeOK, End, Done, Updating
  <2> QED BY <1>1, <2>3, <2>4 DEF MInv
<1> QED BY <1>2, <1>3

LEMMA MNext == TInv /\ MInv /\ [Next]_vars => MInv'
<1> SUFFICES ASSUME TInv, MInv, [Next]_vars PROVE MInv'
  OBVIOUS
<1>1. ASSUME NEW p \in Req, NEW t, task' = [task EXCEPT ![p] = t],
             ~Updating(p), t.pc \notin {"join", "leave"}, UNCHANGED mapVars
      PROVE  MInv'
  BY <1>1, MQuiet DEF TInv, TypeOK, Updating
<1>2. ASSUME NEW p \in Req, Call(p) PROVE MInv'
  <2>1. At(p, "idle") => ~Updating(p)
    BY DEF At, Updating
  <2>2. ASSUME NEW u, NEW group, NEW k, NEW where \in {"check", "begin"},
               task' = [task EXCEPT ![p] = Send(u, group, k, where)],
               At(p, "idle"), UNCHANGED mapVars
        PROVE  MInv'
    BY <1>1, <2>1, <2>2 DEF Send
  <2>3. ASSUME NEW u \in User, NEW r \in User, SendTo(p, u, r) PROVE MInv'
    BY <2>2, <2>3 DEF SendTo
  <2>4. ASSUME NEW u \in User, NEW k \in ChatId, SendIn(p, u, k) PROVE MInv'
    BY <2>2, <2>4 DEF SendIn
  <2>5. ASSUME NEW group \in SUBSET User, Open(p, group) PROVE MInv'
    BY <2>2, <2>5 DEF Open
  <2>6. ASSUME NEW u \in User, NEW m \in Msg, Read(p, u, m) PROVE MInv'
    BY <1>1, <2>1, <2>6 DEF Read
  <2>7. ASSUME NEW u \in User, NEW where \in {"join", "leave"},
               Event(p, u, where)
        PROVE  MInv'
    BY <2>7, MEvent
  <2> QED BY <1>2, <2>3, <2>4, <2>5, <2>6, <2>7 DEF Call
<1>3. ASSUME NEW p \in Req, Check(p) \/ Begin(p) \/ Look(p) \/ Update(p)
                            \/ Commit(p) \/ Receipt(p) \/ Insert(p)
                            \/ SendFails(p)
      PROVE  MInv'
  <2>1. ~Updating(p) /\ UNCHANGED mapVars
    BY <1>3 DEF Check, Begin, Look, Update, Commit, Receipt, Insert, SendFails,
                At, Updating, SendPCs, mapVars
  <2>2. CASE End(p)
    BY <1>1, <2>1, <2>2 DEF End, Done
  <2>3. ASSUME NEW t \in Sends, task' = [task EXCEPT ![p] = t] PROVE MInv'
    BY <1>1, <2>1, <2>3 DEF Sends, SendPCs
  <2>4. ASSUME task[p] \in Sends, NEW where \in SendPCs, Goto(p, where)
        PROVE  MInv'
    <3> DEFINE t == [task[p] EXCEPT !.pc = where]
    <3>1. t \in Sends
      BY <2>4, SendPC
    <3>2. task' = [task EXCEPT ![p] = t]
      BY <2>4 DEF Goto
    <3> HIDE DEF t
    <3> QED BY <2>3, <3>1, <3>2
  <2>6. CASE Check(p)
    <3>1. ASSUME NEW k \in Existing,
                 task' = [task EXCEPT ![p] = Chosen(task[p], k)]
          PROVE  MInv'
      <4>1. task[p] \in Sends
        BY <2>6, TaskKinds DEF TInv, Check, At, SendPCs
      <4>2. Chosen(task[p], k).pc \in {"begin", "done"}
        BY <4>1, ChosenTypes DEF Existing
      <4> QED BY <1>1, <2>1, <3>1, <4>2
    <3>2. task[p] \in Sends
      BY <2>6, TaskKinds DEF TInv, Check, At, SendPCs
    <3>3. CASE Goto(p, "create")
      BY <2>4, <3>2, <3>3 DEF SendPCs
    <3> QED BY <2>6, <3>1, <3>3 DEF Check
  <2>7. CASE Update(p)
    <3>1. task[p] \in Sends
      BY <2>7, TaskKinds DEF TInv, Update, At, SendPCs
    <3> QED BY <2>2, <2>4, <2>7, <3>1 DEF Update, SendPCs
  <2>8. CASE Commit(p) \/ Receipt(p) \/ SendFails(p)
    BY <2>2, <2>8 DEF Commit, Receipt, SendFails
  <2>9. CASE Insert(p)
    <3>1. \A q \in Req \ {p} : task'[q] = task[q]
      BY <2>9, Inserted DEF Insert
    <3>2. task'[p].pc = "update"
      BY <2>9, Inserted DEF Insert
    <3> QED BY <2>1, <3>1, <3>2, MQuiet DEF Updating
  <2>10. CASE Begin(p)
    <3>1. ASSUME NEW is \in BOOLEAN, task' = [task EXCEPT ![p].pc = "look",
                                            ![p].delivered = is]
          PROVE  MInv'
      BY <2>3, <2>10, <3>1, Began DEF Begin
    <3> QED BY <2>2, <2>10, <3>1, BeginCases
  <2>11. CASE Look(p)
    BY <2>3, <2>11, Looked
  <2> QED BY <1>3, <2>6, <2>7, <2>8, <2>9, <2>10, <2>11
<1>4. ASSUME NEW p \in Req, Create(p) PROVE MInv'
  <2>1. PICK k \in ChatId \ Existing :
          task' = [q \in Req |->
            IF q = p THEN Chosen(task[p], k)
            ELSE IF task[q].pc = "create"
                 THEN [task[q] EXCEPT !.unseen = @ \cup {k}]
            ELSE task[q]]
    BY <1>4 DEF Create
  <2>2. UNCHANGED mapVars /\ task[p] \in Sends /\ At(p, "create")
    BY <1>4, TaskKinds DEF TInv, Create, At, SendPCs, mapVars
  <2>3. ASSUME NEW q \in Req
        PROVE  task'[q] = task[q] \/ (~Updating(q) /\ ~Updating(q)')
    <3>1. CASE q = p
      <4>1. task'[p] = Chosen(task[p], k)
        BY <2>1
      <4>2. task'[p].pc \in {"begin", "done"}
        BY <2>2, <4>1, ChosenTypes
      <4> QED BY <2>2, <3>1, <4>2 DEF Updating, At
    <3>2. CASE q # p /\ task[q].pc = "create"
      <4>1. task'[q] = [task[q] EXCEPT !.unseen = @ \cup {k}]
        BY <2>1, <3>2
      <4>2. task[q] \in Sends
        BY <3>2, TaskKinds DEF TInv, SendPCs
      <4>3. task'[q].pc = "create"
        BY <3>2, <4>1, <4>2 DEF Sends
      <4> QED BY <3>2, <4>3 DEF Updating
    <3>3. CASE q # p /\ task[q].pc # "create"
      BY <2>1, <3>3
    <3> QED BY <3>1, <3>2, <3>3
  <2> QED BY <2>2, <2>3, MQuiet
<1>5. CASE UNCHANGED vars
  BY <1>5, MQuiet DEF vars
<1> QED BY <1>2, <1>3, <1>4, <1>5, MWrite DEF Next, Step

\* While no two updates overlap and none fails, the map is truthful.
THEOREM MapIsTruthful == Spec => []MapTruthful
<1>1. Init => MInv
  BY DEF Init, MInv, Idle, Updating
<1>2. MInv => MapTruthful
  BY DEF MInv, MapTruthful
<1> QED BY <1>1, <1>2, TypesHold, MNext, PTL DEF Spec

-----------------------------------------------------------------------------
(* The last message.                                                       *)

\* In chat k nothing that exists was inserted after m.
Newest(k, m) ==
  \A i, j \in DOMAIN order :
    order[j] = m /\ msg[order[i]] # None /\ msg[order[i]].chat = k => i < j

\* A request that writes has inserted its message, which does not exist yet.
\* It is the newest of its chat if the chat is as it was at the snapshot, and
\* when the request holds the chat.
WriteOK(p) ==
  task[p].pc \in Writing =>
    LET k == task[p].chat IN
    /\ \E i \in DOMAIN order : order[i] = task[p].msg
    /\ msg[task[p].msg] = None
    /\ task[p].seen \in Msg => msg[task[p].seen] # None
    /\ At(p, "update") /\ chat[k].last = task[p].seen => Newest(k, task[p].msg)
    /\ At(p, "commit") => Newest(k, task[p].msg) /\ chat[k].lock = p

LastOK(k) ==
  \A m \in Msg : msg[m] # None /\ msg[m].chat = k =>
    /\ chat[k].last \in Msg
    /\ msg[chat[k].last] # None
    /\ msg[chat[k].last].chat = k
    /\ \A i, j \in DOMAIN order :
         order[i] = m /\ order[j] = chat[k].last => i <= j

NInv ==
  /\ \A i, j \in DOMAIN order : order[i] = order[j] => i = j
  /\ \A m \in Msg : msg[m] # None =>
       msg[m].chat \in Existing /\ \E i \in DOMAIN order : order[i] = m
  /\ \A k \in Existing : chat[k].last \in Msg => msg[chat[k].last] # None
  /\ \A p, q \in Req : p # q /\ task[p].pc \in Writing /\ task[q].pc \in Writing
                         => task[p].msg # task[q].msg
  /\ \A p \in Req : WriteOK(p)
  /\ \A k \in Existing : LastOK(k)

\* Nothing of that is touched.
MessagesAlike ==
  /\ order' = order
  /\ \A k \in Existing : k \in Existing' /\ chat'[k].last = chat[k].last
  /\ \A k \in Existing' : k \notin Existing => chat'[k].last = None
  /\ \A m \in Msg : msg'[m] # None <=> msg[m] # None
  /\ \A m \in Msg : msg[m] # None => msg'[m].chat = msg[m].chat

LEMMA NFrame ==
  ASSUME TInv, NInv, MessagesAlike,
         \A q \in Req : task'[q].pc \in Writing =>
           /\ task'[q] = task[q]
           /\ At(q, "commit") =>
                chat'[task[q].chat].lock = chat[task[q].chat].lock
  PROVE  NInv'
<1>1. \A i \in DOMAIN order : order[i] \in Msg
  BY DEF TInv, TypeOK
<1>2. ASSUME NEW k \in Existing, NEW m \in Msg, Newest(k, m)
      PROVE  Newest(k, m)'
  BY <1>1, <1>2 DEF Newest, MessagesAlike
<1>3. ASSUME NEW q \in Req PROVE WriteOK(q)'
  <2> SUFFICES ASSUME task'[q].pc \in Writing PROVE WriteOK(q)'
    BY DEF WriteOK
  <2>1. task'[q] = task[q] /\ task[q].pc \in Writing /\ WriteOK(q)
    BY DEF NInv
  <2>2. /\ task[q].chat \in Existing /\ task[q].msg \in Msg
        /\ task[q] \in Sends
    BY <2>1, TaskKinds DEF TInv, HandOK, Sending, Writing, SendPCs
  <2>3. chat'[task[q].chat].last = chat[task[q].chat].last
    BY <2>2 DEF MessagesAlike
  <2>4. msg'[task[q].msg] = None
    BY <2>1, <2>2 DEF WriteOK, MessagesAlike
  <2>5. task[q].seen \in Msg => msg'[task[q].seen] # None
    BY <2>1 DEF WriteOK, MessagesAlike
  <2>6. At(q, "update") /\ chat'[task[q].chat].last = task[q].seen
          => Newest(task[q].chat, task[q].msg)'
    BY <1>2, <2>1, <2>2, <2>3 DEF WriteOK
  <2>7. At(q, "commit") => /\ Newest(task[q].chat, task[q].msg)'
                           /\ chat'[task[q].chat].lock = q
    BY <1>2, <2>1, <2>2 DEF WriteOK
  <2> QED BY <2>1, <2>4, <2>5, <2>6, <2>7 DEF WriteOK, At, MessagesAlike
<1>4. ASSUME NEW k \in Existing' PROVE LastOK(k)'
  <2>1. CASE k \in Existing
    BY <2>1 DEF NInv, LastOK, MessagesAlike
  <2>2. CASE k \notin Existing
    BY <2>2 DEF NInv, LastOK, MessagesAlike
  <2> QED BY <2>1, <2>2
<1>5. \A k \in Existing' : chat'[k].last \in Msg => msg'[chat'[k].last] # None
  BY ChatAssumption DEF NInv, MessagesAlike
<1>6. \A m \in Msg : msg'[m] # None =>
        msg'[m].chat \in Existing' /\ \E i \in DOMAIN order' : order'[i] = m
  BY DEF NInv, MessagesAlike
<1>7. \A q, r \in Req : q # r /\ task'[q].pc \in Writing
                        /\ task'[r].pc \in Writing => task'[q].msg # task'[r].msg
  BY DEF NInv
<1> QED BY <1>3, <1>4, <1>5, <1>6, <1>7 DEF NInv, MessagesAlike

LEMMA SameMessages == UNCHANGED chatVars => MessagesAlike
  BY DEF MessagesAlike, chatVars, Existing

\* One task is written, and does not write messages.
LEMMA NTask ==
  ASSUME TInv, NEW p \in Req, NEW t, task' = [task EXCEPT ![p] = t],
         t.pc \notin Writing
  PROVE  \A q \in Req : task'[q].pc \in Writing => task'[q] = task[q]
  BY DEF TInv, TypeOK

\* The steps that write neither messages nor chats.
LEMMA NQuiet ==
  ASSUME TInv, NInv, NEW p \in Req,
         \/ Call(p) \/ Check(p) \/ Begin(p) \/ Look(p)
         \/ Join(p) \/ Leave(p) \/ WriteLost(p)
  PROVE  NInv'
<1>1. ASSUME NEW t, task' = [task EXCEPT ![p] = t], t.pc \notin Writing,
             UNCHANGED chatVars
      PROVE  NInv'
  <2>1. \A q \in Req : task'[q].pc \in Writing => task'[q] = task[q]
    BY <1>1, NTask
  <2> QED BY <1>1, <2>1, SameMessages, NFrame DEF chatVars
<1>2. ASSUME NEW u, NEW group, NEW k, NEW where \in {"check", "begin"},
             task' = [task EXCEPT ![p] = Send(u, group, k, where)],
             UNCHANGED chatVars
      PROVE  NInv'
  BY <1>1, <1>2 DEF Send, Writing
<1>3. CASE Call(p)
  <2>1. ASSUME NEW u \in User, NEW r \in User, SendTo(p, u, r) PROVE NInv'
    BY <1>2, <2>1 DEF SendTo
  <2>2. ASSUME NEW u \in User, NEW k \in ChatId, SendIn(p, u, k) PROVE NInv'
    BY <1>2, <2>2 DEF SendIn
  <2>3. ASSUME NEW group \in SUBSET User, Open(p, group) PROVE NInv'
    BY <1>2, <2>3 DEF Open
  <2>4. ASSUME NEW u \in User, NEW m \in Msg, Read(p, u, m) PROVE NInv'
    BY <1>1, <2>4 DEF Read, Writing
  <2>5. ASSUME NEW u \in User, NEW where \in {"join", "leave"},
               Event(p, u, where)
        PROVE  NInv'
    BY <1>1, <2>5 DEF Event, Writing
  <2> QED BY <1>3, <2>1, <2>2, <2>3, <2>4, <2>5 DEF Call
<1>4. CASE End(p) /\ UNCHANGED chatVars
  BY <1>1, <1>4 DEF End, Done, Writing
<1>5. CASE Check(p)
  <2>1. task[p] \in Sends /\ UNCHANGED chatVars
    BY <1>5, TaskKinds DEF TInv, Check, At, SendPCs
  <2>2. CASE Goto(p, "create")
    <3> DEFINE t == [task[p] EXCEPT !.pc = "create"]
    <3>1. t.pc = "create" /\ task' = [task EXCEPT ![p] = t]
      BY <2>1, <2>2, SendPC DEF SendPCs, Goto
    <3> HIDE DEF t
    <3> QED BY <1>1, <2>1, <3>1 DEF Writing
  <2>3. ASSUME NEW k \in Existing,
               task' = [task EXCEPT ![p] = Chosen(task[p], k)]
        PROVE  NInv'
    <3>1. Chosen(task[p], k).pc \in {"begin", "done"}
      BY <2>1, ChosenTypes DEF Existing
    <3> QED BY <1>1, <2>1, <2>3, <3>1 DEF Writing
  <2> QED BY <1>5, <2>2, <2>3 DEF Check
<1>6. CASE Begin(p)
  <2>1. ASSUME NEW is \in BOOLEAN, task' = [task EXCEPT ![p].pc = "look",
                                          ![p].delivered = is]
        PROVE  NInv'
    BY <1>1, <1>6, <2>1, Began DEF Begin, Writing
  <2>2. UNCHANGED chatVars
    BY <1>6 DEF Begin
  <2> QED BY <1>4, <1>6, <2>1, <2>2, BeginCases
<1>7. CASE Look(p)
  BY <1>1, <1>7, Looked DEF Look, Writing
<1>8. CASE Join(p) \/ Leave(p) \/ WriteLost(p)
  BY <1>4, <1>8 DEF Join, Leave, WriteLost, WriteMap, chatVars
<1> QED BY <1>3, <1>5, <1>6, <1>7, <1>8

LEMMA NCreate ==
  ASSUME TInv, NInv, NEW p \in Req, Create(p)
  PROVE  NInv'
<1>1. task[p] \in Sends /\ At(p, "create") /\ UNCHANGED <<msg, order>>
  BY TaskKinds DEF TInv, Create, At, SendPCs
<1>2. PICK k \in ChatId \ Existing :
        /\ chat' = [chat EXCEPT ![k] =
             [participants |-> task[p].group, last |-> None, lock |-> None,
              unseen |-> task[p].unseen]]
        /\ task' = [q \in Req |->
             IF q = p THEN Chosen(task[p], k)
             ELSE IF task[q].pc = "create"
                  THEN [task[q] EXCEPT !.unseen = @ \cup {k}]
             ELSE task[q]]
  BY DEF Create
<1> DEFINE d == [participants |-> task[p].group, last |-> None,
                 lock |-> None, unseen |-> task[p].unseen]
<1>3. d \in Chats /\ d.last = None
  BY <1>1 DEF Chats, Sends
<1>4. chat' = [chat EXCEPT ![k] = d]
  BY <1>2
<1> HIDE DEF d
<1>5. /\ Existing' = Existing \cup {k}
      /\ chat'[k] = d /\ \A l \in Existing : chat'[l] = chat[l]
  BY <1>2, <1>3, <1>4, NoneAssumption DEF TInv, TypeOK, Existing
<1>6. MessagesAlike
  BY <1>1, <1>3, <1>5 DEF MessagesAlike
<1>7. ASSUME NEW q \in Req, task'[q].pc \in Writing PROVE task'[q] = task[q]
  <2>1. q # p
    <3>1. task'[p] = Chosen(task[p], k)
      BY <1>2
    <3>2. task'[p].pc \in {"begin", "done"}
      BY <1>1, <3>1, ChosenTypes
    <3> QED BY <1>7, <3>2 DEF Writing
  <2>2. task[q].pc # "create"
    <3> SUFFICES ASSUME task[q].pc = "create" PROVE FALSE
      OBVIOUS
    <3>1. task'[q] = [task[q] EXCEPT !.unseen = @ \cup {k}]
      BY <1>2, <2>1
    <3>2. task[q] \in Sends
      BY TaskKinds DEF TInv, SendPCs
    <3>3. task'[q].pc = "create"
      BY <3>1, <3>2 DEF Sends
    <3> QED BY <1>7, <3>3 DEF Writing
  <2> QED BY <1>2, <2>1, <2>2
<1>8. ASSUME NEW q \in Req, task'[q].pc \in Writing
      PROVE  task[q].chat \in Existing
  BY <1>7, <1>8 DEF TInv, HandOK, Sending, Writing
<1> QED BY <1>5, <1>6, <1>7, <1>8, NFrame

LEMMA NReceipt ==
  ASSUME TInv, NInv, NEW p \in Req, Receipt(p)
  PROVE  NInv'
<1>1. /\ \A m \in Msg : /\ msg'[m] # None <=> msg[m] # None
                        /\ msg[m] # None => msg'[m].chat = msg[m].chat
      /\ End(p) /\ UNCHANGED <<chat, order>>
  BY TReceipt DEF Receipt
<1>2. MessagesAlike
  BY <1>1 DEF MessagesAlike, Existing
<1>3. \A q \in Req : task'[q].pc \in Writing => task'[q] = task[q]
  BY <1>1, NTask DEF End, Done, Writing
<1> QED BY <1>1, <1>2, <1>3, NFrame

LEMMA NSendFails ==
  ASSUME TInv, NInv, NEW p \in Req, SendFails(p)
  PROVE  NInv'
<1>1. End(p) /\ UNCHANGED <<msg, order>>
  BY DEF SendFails
<1>2. ASSUME NEW k \in ChatId
      PROVE  /\ chat[k] # None <=> chat'[k] # None
             /\ chat[k] # None =>
                  /\ chat'[k].last = chat[k].last
                  /\ chat[k].lock # p => chat'[k].lock = chat[k].lock
  <2>1. CASE chat[k] # None /\ chat[k].lock = p
    <3>1. chat'[k] = [chat[k] EXCEPT !.lock = None] /\ k \in Existing
      BY <2>1 DEF SendFails, Existing
    <3> QED BY <2>1, <3>1, LockWrite, NoneAssumption
  <2>2. CASE ~(chat[k] # None /\ chat[k].lock = p)
    BY <2>2 DEF SendFails
  <2> QED BY <2>1, <2>2
<1>3. MessagesAlike
  BY <1>1, <1>2 DEF MessagesAlike, Existing
<1>4. \A q \in Req : task'[q].pc \in Writing => task'[q] = task[q]
  BY <1>1, NTask DEF End, Done, Writing
<1>5. ASSUME NEW q \in Req, task'[q].pc \in Writing, At(q, "commit")
      PROVE  chat'[task[q].chat].lock = chat[task[q].chat].lock
  <2>1. task[q].chat \in Existing /\ chat[task[q].chat].lock = q
    BY <1>5 DEF TInv, NInv, WriteOK, HandOK, Sending, Writing, At
  <2>2. q # p
    BY <1>1, <1>5 DEF TInv, TypeOK, End, Done, Writing
  <2> QED BY <1>2, <2>1, <2>2 DEF Existing
<1> QED BY <1>3, <1>4, <1>5, NFrame

\* A message is inserted at the end of the order, and does not exist yet.
LEMMA NInsert ==
  ASSUME TInv, NInv, NEW p \in Req, Insert(p)
  PROVE  NInv'
<1> DEFINE k == task[p].chat
           n == Len(order)
<1>1. PICK m \in Msg :
        /\ \A i \in DOMAIN order : order[i] # m
        /\ order' = Append(order, m)
        /\ task' = [task EXCEPT ![p].pc = "update", ![p].msg = m,
                                ![p].seen = chat[task[p].chat].last]
  BY DEF Insert
<1>2. At(p, "insert") /\ UNCHANGED <<chat, msg>> /\ k \in Existing
  BY DEF Insert, TInv, HandOK, Sending, At
<1>3. /\ \A q \in Req \ {p} : task'[q] = task[q]
      /\ task'[p].pc = "update" /\ task'[p].msg = m
      /\ task'[p].chat = k /\ task'[p].seen = chat[k].last
  BY <1>1, <1>2, Inserted
<1>4. /\ n \in Nat /\ DOMAIN order = 1 .. n /\ DOMAIN order' = 1 .. n + 1
      /\ order'[n + 1] = m
      /\ \A i \in 1 .. n : order'[i] = order[i] /\ order[i] \in Msg
  BY <1>1 DEF TInv, TypeOK
<1> HIDE DEF k, n
<1>5. \A i \in DOMAIN order' : i \in DOMAIN order \/ i = n + 1
  BY <1>4
<1>6. msg[m] = None
  BY <1>1 DEF NInv
<1>7. \A i, j \in DOMAIN order' : order'[i] = order'[j] => i = j
  BY <1>1, <1>4 DEF NInv
<1>8. \A o \in Msg : (\E i \in DOMAIN order : order[i] = o)
                       => \E i \in DOMAIN order' : order'[i] = o
  BY <1>4
<1>9. ASSUME NEW l \in Existing, NEW o \in Msg, Newest(l, o), o # m
      PROVE  Newest(l, o)'
  <2> SUFFICES ASSUME NEW i \in DOMAIN order', NEW j \in DOMAIN order',
                      order'[j] = o, msg'[order'[i]] # None,
                      msg'[order'[i]].chat = l
               PROVE  i < j
    BY DEF Newest
  <2>1. i \in DOMAIN order /\ j \in DOMAIN order
    BY <1>2, <1>4, <1>6, <1>9
  <2> QED BY <1>2, <1>4, <1>9, <2>1 DEF Newest
<1>10. Newest(k, m)'
  <2> SUFFICES ASSUME NEW i \in DOMAIN order', NEW j \in DOMAIN order',
                      order'[j] = m, msg'[order'[i]] # None
               PROVE  i < j
    BY <1>3 DEF Newest
  <2>1. i \in 1 .. n /\ j = n + 1
    BY <1>1, <1>2, <1>4, <1>6
  <2> QED BY <1>4, <2>1
<1>11. ASSUME NEW q \in Req PROVE WriteOK(q)'
  <2>1. CASE q = p
    <3>1. /\ \E i \in DOMAIN order' : order'[i] = m
          /\ msg'[m] = None
          /\ chat[k].last \in Msg => msg'[chat[k].last] # None
      BY <1>2, <1>4, <1>6 DEF NInv
    <3> QED BY <1>3, <1>10, <2>1, <3>1 DEF WriteOK, At, k
  <2>2. CASE q # p /\ task[q].pc \in Writing
    <3>1. /\ task'[q] = task[q] /\ WriteOK(q)
          /\ task[q].chat \in Existing /\ task[q].msg \in Msg
      BY <1>3, <2>2 DEF TInv, NInv, HandOK, Sending, Writing
    <3>2. task[q].msg # m
      BY <1>1, <2>2, <3>1 DEF WriteOK
    <3> QED BY <1>2, <1>8, <1>9, <2>2, <3>1, <3>2 DEF WriteOK, At
  <2>3. CASE q # p /\ task[q].pc \notin Writing
    BY <1>3, <2>3 DEF WriteOK
  <2> QED BY <2>1, <2>2, <2>3
<1>12. ASSUME NEW q \in Req, NEW r \in Req, q # r, task'[q].pc \in Writing,
              task'[r].pc \in Writing
       PROVE  task'[q].msg # task'[r].msg
  <2>1. ASSUME NEW s \in Req \ {p}, task'[s].pc \in Writing
        PROVE  task'[s] = task[s] /\ task[s].msg # m
    <3>1. task'[s] = task[s] /\ WriteOK(s)
      BY <1>3, <2>1 DEF NInv
    <3> QED BY <1>1, <2>1, <3>1 DEF WriteOK
  <2> QED BY <1>3, <1>12, <2>1 DEF NInv
<1>13. ASSUME NEW l \in Existing PROVE LastOK(l)'
  <2> SUFFICES ASSUME NEW o \in Msg, msg[o] # None, msg[o].chat = l
               PROVE  /\ chat[l].last \in Msg
                      /\ msg[chat[l].last] # None
                      /\ msg[chat[l].last].chat = l
                      /\ \A i, j \in DOMAIN order' :
                           order'[i] = o /\ order'[j] = chat[l].last => i <= j
    BY <1>2 DEF LastOK
  <2>1. /\ chat[l].last \in Msg /\ msg[chat[l].last] # None
        /\ msg[chat[l].last].chat = l
        /\ \A i, j \in DOMAIN order :
             order[i] = o /\ order[j] = chat[l].last => i <= j
    BY DEF NInv, LastOK
  <2>2. o # m /\ chat[l].last # m
    BY <1>6, <2>1
  <2> QED BY <1>4, <1>5, <2>1, <2>2
<1>14. Existing' = Existing
  BY <1>2 DEF Existing
<1> QED BY <1>2, <1>7, <1>8, <1>11, <1>12, <1>13, <1>14 DEF NInv

LEMMA NUpdate ==
  ASSUME TInv, NInv, NEW p \in Req, Update(p)
  PROVE  NInv'
<1> DEFINE k == task[p].chat
<1>1. /\ k \in Existing /\ task[p] \in Sends /\ At(p, "update")
      /\ UNCHANGED <<msg, order>>
  BY TaskKinds DEF TInv, Update, At, HandOK, Sending, SendPCs
<1>2. CASE End(p) /\ UNCHANGED chat
  <2>1. \A q \in Req : task'[q].pc \in Writing => task'[q] = task[q]
    BY <1>2, NTask DEF End, Done, Writing
  <2> QED BY <1>1, <1>2, <2>1, SameMessages, NFrame DEF chatVars
<1>3. CASE /\ chat[k].lock = None /\ chat[k].last = task[p].seen
           /\ chat' = [chat EXCEPT ![k].lock = p] /\ Goto(p, "commit")
  <2> DEFINE d == [chat[k] EXCEPT !.lock = p]
             t == [task[p] EXCEPT !.pc = "commit"]
  <2>1. d \in Chats /\ d.lock = p /\ d.last = chat[k].last
    BY <1>1, LockWrite
  <2>2. chat' = [chat EXCEPT ![k] = d]
    BY <1>3
  <2>3. /\ t.pc = "commit" /\ t.chat = k /\ t.msg = task[p].msg
        /\ t.seen = task[p].seen
    BY <1>1, SendPC DEF SendPCs
  <2>4. task' = [task EXCEPT ![p] = t]
    BY <1>3 DEF Goto
  <2> HIDE DEF d, t, k
  <2>5. /\ Existing' = Existing /\ chat'[k] = d
        /\ \A l \in ChatId \ {k} : chat'[l] = chat[l]
    BY <1>1, <2>1, <2>2, ChatWrite
  <2>6. task'[p] = t /\ \A q \in Req \ {p} : task'[q] = task[q]
    BY <2>4 DEF TInv, TypeOK
  <2>7. \A l \in Existing : chat'[l].last = chat[l].last
    BY <2>1, <2>5 DEF Existing
  <2>8. WriteOK(p) /\ Newest(k, task[p].msg)
    BY <1>1, <1>3 DEF NInv, WriteOK, At, Writing, k
  <2>9. ASSUME NEW q \in Req PROVE WriteOK(q)'
    <3>1. CASE q = p
      BY <1>1, <2>1, <2>3, <2>5, <2>6, <2>8, <3>1
      DEF WriteOK, Newest, At, Writing
    <3>2. CASE q # p
      <4>1. task'[q] = task[q] /\ WriteOK(q)
        BY <2>6, <3>2 DEF NInv
      <4>2. task[q].pc \in Writing => task[q].chat \in Existing
        BY DEF TInv, HandOK, Sending, Writing
      <4>3. At(q, "commit") => chat'[task[q].chat].lock = q
        <5>1. At(q, "commit") => chat[task[q].chat].lock = q
          BY <4>1 DEF WriteOK, At, Writing
        <5>2. At(q, "commit") => task[q].chat # k
          BY <1>3, <5>1, ChatAssumption
        <5> QED BY <2>5, <4>2, <5>1, <5>2 DEF At, Writing, Existing
      <4> QED BY <1>1, <2>7, <4>1, <4>2, <4>3 DEF WriteOK, Newest, At
    <3> QED BY <3>1, <3>2
  <2>10. ASSUME NEW l \in Existing PROVE LastOK(l)'
    BY <1>1, <2>7 DEF NInv, LastOK
  <2>11. \A q, r \in Req : q # r /\ task'[q].pc \in Writing
           /\ task'[r].pc \in Writing => task'[q].msg # task'[r].msg
    <3>1. \A q \in Req : /\ task'[q].msg = task[q].msg
                         /\ task'[q].pc \in Writing <=> task[q].pc \in Writing
      BY <1>1, <2>3, <2>6 DEF At, Writing
    <3> QED BY <3>1 DEF NInv
  <2> QED BY <1>1, <2>5, <2>7, <2>9, <2>10, <2>11 DEF NInv
<1> QED BY <1>2, <1>3 DEF Update

LEMMA NCommit ==
  ASSUME TInv, NInv, NEW p \in Req, Commit(p)
  PROVE  NInv'
<1>1. /\ At(p, "commit") /\ task[p] \in Sends /\ WriteOK(p)
      /\ task[p].chat \in Existing /\ task[p].msg \in Msg
      /\ task[p].user \in User
      /\ End(p) /\ order' = order
  BY TaskKinds
  DEF Commit, TInv, NInv, HandOK, Sending, Writing, SendPCs, At
<1>2. PICK k \in Existing, m \in Msg : k = task[p].chat /\ m = task[p].msg
  BY <1>1
<1>3. /\ msg[m] = None /\ Newest(k, m) /\ chat[k].lock = p
      /\ \E i \in DOMAIN order : order[i] = m
  BY <1>1, <1>2 DEF WriteOK, At, Writing
<1>4. /\ Existing' = Existing /\ chat'[k].last = m
      /\ \A l \in Existing \ {k} : chat'[l] = chat[l]
  BY <1>1, <1>2, TCommit DEF Existing
<1>5. /\ msg'[m] # None /\ msg'[m].chat = k
      /\ \A o \in Msg \ {m} : msg'[o] = msg[o]
  <2> DEFINE n == [chat |-> k, sender |-> task[p].user, readBy |-> {},
                   status |-> IF task[p].delivered THEN "DELIVERED"
                              ELSE "SENT"]
  <2>1. msg' = [msg EXCEPT ![m] = n]
    BY <1>2 DEF Commit
  <2>2. n \in Messages /\ n.chat = k
    BY <1>1 DEF Messages, Existing
  <2> HIDE DEF n
  <2> QED BY <2>1, <2>2, NoneAssumption DEF TInv, TypeOK
<1>6. \A i \in DOMAIN order : order[i] \in Msg
  BY DEF TInv, TypeOK
<1>7. /\ task'[p].pc \notin Writing
      /\ \A q \in Req \ {p} : task'[q] = task[q]
  BY <1>1 DEF TInv, TypeOK, End, Done, Writing
<1>8. ASSUME NEW l \in Existing \ {k}, NEW o \in Msg, Newest(l, o)
      PROVE  \A i, j \in DOMAIN order :
               order[j] = o /\ msg'[order[i]] # None
               /\ msg'[order[i]].chat = l => i < j
  BY <1>5, <1>6, <1>8 DEF Newest
<1>9. ASSUME NEW q \in Req PROVE WriteOK(q)'
  <2>1. CASE q = p
    BY <1>7, <2>1 DEF WriteOK
  <2>2. CASE q # p /\ task[q].pc \notin Writing
    BY <1>7, <2>2 DEF WriteOK
  <2>3. CASE q # p /\ task[q].pc \in Writing
    <3>1. PICK l \in Existing, o \in Msg : l = task[q].chat /\ o = task[q].msg
      BY <2>3 DEF TInv, HandOK, Sending, Writing
    <3>2. task'[q] = task[q] /\ WriteOK(q)
      BY <1>7, <2>3 DEF NInv
    <3>3. o # m
      BY <1>1, <1>2, <2>3, <3>1 DEF NInv, At, Writing
    <3>4. /\ \E i \in DOMAIN order : order[i] = o
          /\ msg'[o] = None
          /\ task[q].seen \in Msg => msg'[task[q].seen] # None
      BY <1>5, <2>3, <3>1, <3>2, <3>3 DEF WriteOK
    <3>5. At(q, "update") /\ chat'[l].last = task[q].seen =>
            l # k /\ Newest(l, o)
      <4> SUFFICES ASSUME At(q, "update"), chat'[l].last = task[q].seen
                   PROVE  l # k /\ Newest(l, o)
        OBVIOUS
      <4>1. l # k
        BY <1>3, <1>4, <2>3, <3>2 DEF WriteOK
      <4> QED BY <1>4, <2>3, <3>1, <3>2, <4>1 DEF WriteOK
    <3>6. At(q, "commit") => l # k /\ Newest(l, o) /\ chat'[l].lock = q
      BY <1>3, <1>4, <2>3, <3>1, <3>2 DEF WriteOK
    <3>7. l # k /\ Newest(l, o) =>
            \A i, j \in DOMAIN order :
              order[j] = o /\ msg'[order[i]] # None
              /\ msg'[order[i]].chat = l => i < j
      BY <1>8
    <3> QED BY <1>1, <3>1, <3>2, <3>4, <3>5, <3>6, <3>7
            DEF WriteOK, Newest, At
  <2> QED BY <2>1, <2>2, <2>3
<1>10. LastOK(k)'
  <2>1. ASSUME NEW o \in Msg, msg'[o] # None, msg'[o].chat = k,
               NEW i \in DOMAIN order, NEW j \in DOMAIN order,
               order[i] = o, order[j] = m
        PROVE  i <= j
    <3>1. CASE o = m
      BY <2>1, <3>1 DEF NInv, TInv, TypeOK
    <3>2. CASE o # m
      <4>1. i < j
        BY <1>3, <1>5, <2>1, <3>2 DEF Newest
      <4> QED BY <4>1 DEF TInv, TypeOK
    <3> QED BY <3>1, <3>2
  <2> SUFFICES ASSUME NEW o \in Msg, msg'[o] # None, msg'[o].chat = k
               PROVE  /\ chat'[k].last \in Msg
                      /\ msg'[chat'[k].last] # None
                      /\ msg'[chat'[k].last].chat = k
                      /\ \A i, j \in DOMAIN order' :
                           order'[i] = o /\ order'[j] = chat'[k].last => i <= j
    BY DEF LastOK
  <2> QED BY <1>1, <1>4, <1>5, <2>1
<1>11. ASSUME NEW l \in Existing \ {k} PROVE LastOK(l)'
  <2> SUFFICES ASSUME NEW o \in Msg, msg'[o] # None, msg'[o].chat = l
               PROVE  /\ chat'[l].last \in Msg
                      /\ msg'[chat'[l].last] # None
                      /\ msg'[chat'[l].last].chat = l
                      /\ \A i, j \in DOMAIN order' :
                           order'[i] = o /\ order'[j] = chat'[l].last => i <= j
    BY DEF LastOK
  <2>1. o # m /\ msg[o] # None /\ msg[o].chat = l
    BY <1>5
  <2>2. /\ chat[l].last \in Msg /\ msg[chat[l].last] # None
        /\ msg[chat[l].last].chat = l
        /\ \A i, j \in DOMAIN order :
             order[i] = o /\ order[j] = chat[l].last => i <= j
    BY <2>1 DEF NInv, LastOK
  <2>3. chat[l].last # m
    BY <1>3, <2>2
  <2> QED BY <1>1, <1>4, <1>5, <2>2, <2>3
<1>12. \A o \in Msg : msg'[o] # None =>
         msg'[o].chat \in Existing' /\ \E i \in DOMAIN order' : order'[i] = o
  BY <1>1, <1>3, <1>4, <1>5 DEF NInv
<1>13. \A l \in Existing' : chat'[l].last \in Msg => msg'[chat'[l].last] # None
  BY <1>4, <1>5 DEF NInv
<1>14. \A q, r \in Req : q # r /\ task'[q].pc \in Writing
         /\ task'[r].pc \in Writing => task'[q].msg # task'[r].msg
  BY <1>7 DEF NInv
<1>15. \A l \in Existing' : LastOK(l)'
  BY <1>4, <1>10, <1>11
<1> QED BY <1>1, <1>9, <1>12, <1>13, <1>14, <1>15 DEF NInv

LEMMA NNext == TInv /\ NInv /\ [Next]_vars => NInv'
<1> SUFFICES ASSUME TInv, NInv, [Next]_vars PROVE NInv'
  OBVIOUS
<1>1. ASSUME NEW p \in Req, Call(p) \/ Step(p) PROVE NInv'
  BY <1>1, NQuiet, NCreate, NReceipt, NSendFails, NInsert, NUpdate, NCommit
  DEF Step
<1>2. CASE UNCHANGED vars
  BY <1>2, SameMessages, NFrame DEF vars, chatVars
<1> QED BY <1>1, <1>2 DEF Next

\* A chat's last message is the newest of those that exist.
LEMMA NewestLast == TInv /\ NInv => LastIsNewest
<1> SUFFICES ASSUME TInv, NInv, NEW k \in Existing, NEW m \in Msg,
                    msg[m] # None, msg[m].chat = k
             PROVE  /\ chat[k].last # None
                    /\ msg[chat[k].last] # None
                    /\ msg[chat[k].last].chat = k
                    /\ Position(m) <= Position(chat[k].last)
  BY DEF LastIsNewest
<1>1. /\ chat[k].last \in Msg /\ msg[chat[k].last] # None
      /\ msg[chat[k].last].chat = k
      /\ \A i, j \in DOMAIN order :
           order[i] = m /\ order[j] = chat[k].last => i <= j
  BY DEF NInv, LastOK
<1>2. ASSUME NEW o \in Msg, msg[o] # None
      PROVE  Position(o) \in DOMAIN order /\ order[Position(o)] = o
  BY <1>2 DEF NInv, Position
<1> QED BY <1>1, <1>2, ChatAssumption

\* lastMessage is never an older message, though transactions overlap.
THEOREM LastMessage == Spec => []LastIsNewest
<1>1. Init => NInv
  BY DEF Init, NInv, WriteOK, LastOK, Existing, Idle, Writing
<1> QED BY <1>1, NewestLast, TypesHold, NNext, PTL DEF Spec
=============================================================================
