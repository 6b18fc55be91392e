-------------------------------- MODULE Chat --------------------------------
(***************************************************************************)
(* Conversations between users (chat/services/message.service.ts and       *)
(* chat.service.ts) and the map of active users that the gateway keeps in  *)
(* Redis (chat.gateway.ts, chat-active-user.service.ts).                   *)
(*                                                                         *)
(* Every request and socket event is a task that interleaves with the      *)
(* others at its awaits: looking for a chat and creating one, the two      *)
(* halves of a read-modify-write of the map, the operations of a MongoDB   *)
(* transaction, and reading a message and acknowledging it.                *)
(***************************************************************************)
EXTENDS Naturals, FiniteSets, Sequences

CONSTANTS
  User,    \* the users
  ChatId,  \* BOUND: the chats that may be created
  Msg,     \* BOUND: the messages that may be created
  Req,     \* BOUND: the requests and socket events
  None,    \* no document
  Faults   \* the faults of the environment the model allows

ASSUME ChatAssumption ==
  /\ None \notin ChatId \cup Msg \cup Req \cup User
  /\ Faults \subseteq
       { "await",    \* an await of a request rejects (upload, database)
         "cache" }   \* a Redis call fails, which CacheHelper only logs

VARIABLES
  chat,    \* chat[k]: participants, last message, and who has it locked
  msg,     \* msg[m]: chat, sender, status and readers
  order,   \* the messages in the order they were inserted (history)
  active,  \* the keys of the cached map of active users
  online,  \* users whose last event was user-connect (history)
  torn,    \* updates of the map overlapped, or one failed (history)
  task     \* task[p]: what request p is doing

chatVars == <<chat, msg, order>>
mapVars  == <<active, online, torn>>
vars == <<chatVars, mapVars, task>>

Idle == [pc |-> "idle"]
Done == [pc |-> "done"]

SendPCs == {"check", "create", "begin", "look", "insert", "update", "commit"}

\* Who sends (None: nobody, the request only creates a chat); group: the
\* participants of the chat to be created; unseen: the chats created since the
\* task looked for one; seen: the last message of the chat at its snapshot.
Sends ==
  [ pc : SendPCs, user : User \cup {None}, group : SUBSET User,
    chat : ChatId \cup {None}, msg : Msg \cup {None}, delivered : BOOLEAN,
    seen : Msg \cup {None}, unseen : SUBSET ChatId ]
Reads   == [pc : {"read"}, user : User, msg : Msg]
Updates == [pc : {"join", "leave"}, user : User, map : SUBSET User]

Chats ==
  [ participants : SUBSET User, last : Msg \cup {None}, lock : Req \cup {None},
    unseen : SUBSET ChatId ]
Messages ==
  [ chat : ChatId, sender : User, status : {"SENT", "DELIVERED", "READ"},
    readBy : SUBSET User ]

ASSUME NoneAssumption == None \notin Chats \cup Messages

TypeOK ==
  /\ chat \in [ChatId -> Chats \cup {None}]
  /\ msg \in [Msg -> Messages \cup {None}]
  /\ order \in Seq(Msg)
  /\ active \in SUBSET User
  /\ online \in SUBSET User
  /\ torn \in BOOLEAN
  /\ task \in [Req -> Sends \cup Reads \cup Updates \cup {Idle, Done}]

Init ==
  /\ chat = [k \in ChatId |-> None]
  /\ msg = [m \in Msg |-> None]
  /\ order = << >>
  /\ active = {}
  /\ online = {}
  /\ torn = FALSE
  /\ task = [p \in Req |-> Idle]

At(p, where) == task[p].pc = where
Goto(p, where) == task' = [task EXCEPT ![p].pc = where]
End(p) == task' = [task EXCEPT ![p] = Done]

Updating(p) == task[p].pc \in {"join", "leave"}
Existing == {k \in ChatId : chat[k] # None}

-----------------------------------------------------------------------------
(* Finding the chat of a message.                                          *)

Send(u, group, k, where) ==
  [pc |-> where, user |-> u, group |-> group, chat |-> k, msg |-> None,
   delivered |-> FALSE, seen |-> None, unseen |-> {}]

\* participants: {$in: [sender, recipient]}: any chat of either of the two.
Lookup(u, r) == {k \in Existing : chat[k].participants \cap {u, r} # {}}

\* sendMessage with a recipientId, which may be the sender's own.
SendTo(p, u, r) ==
  /\ At(p, "idle")
  /\ IF Lookup(u, r) = {}
     THEN task' = [task EXCEPT ![p] = Send(u, {u, r}, None, "check")]
     ELSE \E k \in Lookup(u, r) :
            task' = [task EXCEPT ![p] = Send(u, {}, k, "begin")]
  /\ UNCHANGED <<chatVars, mapVars>>

\* sendMessage with a chatId, which need not be one of the sender's.
SendIn(p, u, k) ==
  /\ At(p, "idle")
  /\ k \in Existing
  /\ task' = [task EXCEPT ![p] = Send(u, {}, k, "begin")]
  /\ UNCHANGED <<chatVars, mapVars>>

\* POST /chat.  A group of one stands for a name given twice: only the length
\* of the list is checked.
Open(p, group) ==
  /\ At(p, "idle")
  /\ group # {}
  /\ task' = [task EXCEPT ![p] = Send(None, group, None, "check")]
  /\ UNCHANGED <<chatVars, mapVars>>

\* (Mutant: create trusts the lookup of sendMessage.)
CheckSkipped(p) ==
  /\ At(p, "check")
  /\ Goto(p, "create")
  /\ UNCHANGED <<chatVars, mapVars>>

\* (Mutant: a request that only creates a chat goes on to send.)
ChosenToSend(t, k) == Send(t.user, {}, k, "begin")

\* With chat k at hand a message is sent, if there is one.
Chosen(t, k) ==
  IF t.user = None THEN Done ELSE Send(t.user, {}, k, "begin")

\* chatService.create first looks for a chat with all of the participants.
Check(p) ==
  LET same == {k \in Existing : task[p].group \subseteq chat[k].participants} IN
  /\ At(p, "check")
  /\ IF same = {} THEN Goto(p, "create")
     ELSE \E k \in same : task' = [task EXCEPT ![p] = Chosen(@, k)]
  /\ UNCHANGED <<chatVars, mapVars>>

\* ... and then creates one, whatever has been created since.
Create(p) ==
  /\ At(p, "create")
  /\ \E k \in ChatId \ Existing :
       /\ chat' = [chat EXCEPT ![k] =
            [participants |-> task[p].group, last |-> None, lock |-> None,
             unseen |-> task[p].unseen]]
       /\ task' = [q \in Req |->
            IF q = p THEN Chosen(task[p], k)
            ELSE IF task[q].pc = "create"
                 THEN [task[q] EXCEPT !.unseen = @ \cup {k}]
            ELSE task[q]]
  /\ UNCHANGED <<msg, order, mapVars>>

-----------------------------------------------------------------------------
(* Writing the message, in a transaction with the chat.                    *)

\* What the gateway says of u: a failed read of the map counts as not active.
SaidActive(u) == {u \in active} \cup (IF "cache" \in Faults THEN {FALSE} ELSE {})

\* The activity of the recipient, another participant, is read; without one
\* the request fails.
Begin(p) ==
  LET others == chat[task[p].chat].participants \ {task[p].user} IN
  /\ At(p, "begin")
  /\ IF others = {} THEN End(p)
     ELSE \E r \in others : \E is \in SaidActive(r) :
            task' = [task EXCEPT ![p].pc = "look", ![p].delivered = is]
  /\ UNCHANGED <<chatVars, mapVars>>

\* Then that of the sender: DELIVERED needs both.
Look(p) ==
  /\ At(p, "look")
  /\ \E is \in SaidActive(task[p].user) :
       task' = [task EXCEPT ![p].pc = "insert", ![p].delivered = @ /\ is]
  /\ UNCHANGED <<chatVars, mapVars>>

\* messageModel.create is the first operation of the transaction, which takes
\* its snapshot.
Insert(p) ==
  /\ At(p, "insert")
  /\ \E m \in Msg :
       /\ \A i \in DOMAIN order : order[i] # m
       /\ order' = Append(order, m)
       /\ task' = [task EXCEPT ![p].pc = "update", ![p].msg = m,
                               ![p].seen = chat[task[p].chat].last]
  /\ UNCHANGED <<chat, msg, mapVars>>

\* (Mutant: the message is inserted outside of the transaction, whose first
\* operation is then the update.)
UpdateAlone(p) ==
  LET k == task[p].chat IN
  /\ At(p, "update")
  /\ IF chat[k].lock = None
     THEN /\ chat' = [chat EXCEPT ![k].lock = p]
          /\ Goto(p, "commit")
     ELSE End(p) /\ UNCHANGED chat
  /\ UNCHANGED <<msg, order, mapVars>>

\* The update of the chat conflicts with another transaction that has written
\* it and not ended, or that has ended since the snapshot: this one aborts.
Update(p) ==
  LET k == task[p].chat IN
  /\ At(p, "update")
  /\ IF chat[k].lock = None /\ chat[k].last = task[p].seen
     THEN /\ chat' = [chat EXCEPT ![k].lock = p]
          /\ Goto(p, "commit")
     ELSE End(p) /\ UNCHANGED chat
  /\ UNCHANGED <<msg, order, mapVars>>

Commit(p) ==
  LET k == task[p].chat
      m == task[p].msg IN
  /\ At(p, "commit")
  /\ chat' = [chat EXCEPT ![k].lock = None, ![k].last = m]
  /\ msg' = [msg EXCEPT ![m] =
       [chat |-> k, sender |-> task[p].user, readBy |-> {},
        status |-> IF task[p].delivered THEN "DELIVERED" ELSE "SENT"]]
  /\ End(p)
  /\ UNCHANGED <<order, mapVars>>

\* A request rejects; abortTransaction releases the chat.
SendFails(p) ==
  /\ "await" \in Faults
  /\ task[p].pc \in SendPCs
  /\ chat' = [k \in ChatId |->
       IF chat[k] # None /\ chat[k].lock = p
         THEN [chat[k] EXCEPT !.lock = None] ELSE chat[k]]
  /\ End(p)
  /\ UNCHANGED <<msg, order, mapVars>>

-----------------------------------------------------------------------------
(* Reading a message.                                                      *)

\* readMessage, by a participant who is not among the readers yet.
Read(p, u, m) ==
  /\ At(p, "idle")
  /\ msg[m] # None
  /\ u \in chat[msg[m].chat].participants \ msg[m].readBy
  /\ task' = [task EXCEPT ![p] = [pc |-> "read", user |-> u, msg |-> m]]
  /\ UNCHANGED <<chatVars, mapVars>>

\* The reader is pushed (here: added) and the message is READ, also when the
\* reader is its sender.
Receipt(p) ==
  /\ At(p, "read")
  /\ msg' = [msg EXCEPT ![task[p].msg].readBy = @ \cup {task[p].user},
                        ![task[p].msg].status = "READ"]
  /\ End(p)
  /\ UNCHANGED <<chat, order, mapVars>>

-----------------------------------------------------------------------------
(* The map of active users.                                                *)

\* user-connect and user-disconnect begin by reading the whole map.  A failed
\* read returns null, which user-connect takes for an empty map.
Event(p, u, where) ==
  /\ At(p, "idle")
  /\ \E failed \in {FALSE} \cup (IF where = "join" /\ "cache" \in Faults
                                THEN {TRUE} ELSE {}) :
       /\ task' = [task EXCEPT ![p] =
            [pc |-> where, user |-> u, map |-> IF failed THEN {} ELSE active]]
       /\ torn' = (torn \/ failed \/ \E q \in Req : Updating(q))
  /\ online' = IF where = "join" THEN online \cup {u} ELSE online \ {u}
  /\ UNCHANGED <<chatVars, active>>

\* ... and write it back with one entry changed.
WriteMap(p, map) ==
  /\ active' = map
  /\ End(p)
  /\ UNCHANGED <<chatVars, online, torn>>

Join(p) == At(p, "join") /\ WriteMap(p, task[p].map \cup {task[p].user})

\* (Mutant: the entry is marked, not removed.)
LeaveMarked(p) == At(p, "leave") /\ WriteMap(p, task[p].map)

Leave(p) == At(p, "leave") /\ WriteMap(p, task[p].map \ {task[p].user})

\* The map is left as it is: setCache fails and returns false, which nobody
\* looks at, or the read of user-disconnect has returned null.
WriteLost(p) ==
  /\ "cache" \in Faults
  /\ Updating(p)
  /\ torn' = TRUE
  /\ End(p)
  /\ UNCHANGED <<chatVars, active, online>>

-----------------------------------------------------------------------------
Call(p) ==
  \/ \E group \in SUBSET User : Open(p, group)
  \/ \E u, r \in User : SendTo(p, u, r)
  \/ \E u \in User : \/ \E k \in ChatId : SendIn(p, u, k)
                     \/ \E m \in Msg : Read(p, u, m)
                     \/ \E where \in {"join", "leave"} : Event(p, u, where)

Step(p) ==
  \/ Check(p) \/ Create(p) \/ Begin(p) \/ Look(p)
  \/ Insert(p) \/ Update(p) \/ Commit(p) \/ SendFails(p)
  \/ Receipt(p)
  \/ Join(p) \/ Leave(p) \/ WriteLost(p)

Next == \E p \in Req : Call(p) \/ Step(p)

Spec == Init /\ [][Next]_vars

-----------------------------------------------------------------------------
(* Safety.                                                                 *)

\* create (chat.service.ts:26-37) makes no second chat of a group that has
\* one, except for requests that looked before either chat was created.
OneChatPerGroup ==
  \A k, l \in Existing :
    k # l /\ chat[k].participants = chat[l].participants
      => k \in chat[l].unseen \/ l \in chat[k].unseen

Position(m) == CHOOSE i \in DOMAIN order : order[i] = m

\* lastMessage (message.service.ts:162-168) names a message of that chat, and
\* of those that exist the one inserted last, though transactions overlap: an
\* older one that is late, or one that was aborted, never replaces it.
LastIsNewest ==
  \A k \in Existing, m \in Msg :
    msg[m] # None /\ msg[m].chat = k =>
      /\ chat[k].last # None
      /\ msg[chat[k].last] # None
      /\ msg[chat[k].last].chat = k
      /\ Position(m) <= Position(chat[k].last)

\* When no two updates of the map of active users (chat-active-user.service.ts)
\* overlapped and none failed, it holds the users whose last event was
\* user-connect.  A dropped socket is no event: handleDisconnect only logs.
MapTruthful ==
  ~torn /\ (\A p \in Req : ~Updating(p)) => active = online
=============================================================================
