--------------------------- MODULE JobPostsProofs ---------------------------
(***************************************************************************)
(* Proofs about JobPosts, for any number of organizations, posts and       *)
(* requests and under every fault.  All that is assumed is that None is    *)
(* neither a request nor a document.                                       *)
(***************************************************************************)
EXTENDS JobPosts, TLAPS

NoneApart == None \notin Req \cup Posts

CallPCs == {"create", "count", "find", "save", "patch", "delete", "mark"}

\* A creation under way for an organization that is deleted, or about to be.
LateOK(p) ==
  At(p, "create") /\ (\/ org[task[p].org].state = "deleted"
                      \/ org[task[p].org].lock # None) => task[p].late

\* The post a toggle or an update has read exists.
PostOK(p) == task[p].pc \in {"save", "patch"} => task[p].post \in Existing

\* A deletion at work holds the organization, its snapshot has only posts that
\* exist, and what has been created since is late.
SweepOK(p) ==
  At(p, "sweep") =>
    /\ org[task[p].org].lock = p
    /\ \A x \in Post : task[p].seen[x] # None =>
         x \in Existing /\ post[x].org = task[p].seen[x].org
    /\ \A x \in Existing :
         post[x].org = task[p].org /\ task[p].seen[x] = None => post[x].late

TaskOK(p) == LateOK(p) /\ PostOK(p) /\ SweepOK(p)

IInv ==
  /\ TypeOK
  /\ \A p \in Req : TaskOK(p)
  /\ Cascade

-----------------------------------------------------------------------------
\* What kind of task a program counter belongs to.
LEMMA TaskKinds ==
  ASSUME TypeOK, NEW p \in Req
  PROVE  /\ task[p].pc \in CallPCs => task[p] \in Calls
         /\ At(p, "sweep") => task[p] \in Sweeps
         /\ task[p] \in Calls => task[p].pc \in CallPCs
         /\ task[p] \in Sweeps => At(p, "sweep")
  BY DEF TypeOK, Calls, Sweeps, Idle, Done, At, CallPCs

\* A request that has ended, or not begun, keeps to everything.
LEMMA EndTask ==
  ASSUME TypeOK, NEW p \in Req, End(p)
  PROVE  /\ task' \in [Req -> Calls \cup Sweeps \cup {Idle, Done}]
         /\ TaskOK(p)'
         /\ \A q \in Req \ {p} : task'[q] = task[q]
  BY DEF TypeOK, End, Done, TaskOK, LateOK, PostOK, SweepOK, At

\* Posts only ever appear, with a mark if the organization is held.
PostsKept ==
  \A x \in Existing : x \in Existing' /\ post'[x].org = post[x].org
                      /\ post'[x].late = post[x].late

\* A task that is left alone while posts are written stays right.
LEMMA PostStep ==
  ASSUME NoneApart, TypeOK, NEW q \in Req, TaskOK(q), task'[q] = task[q],
         org' = org, PostsKept,
         \A x \in Existing' : x \notin Existing /\ At(q, "sweep") =>
            (post'[x].org = task[q].org => post'[x].late)
  PROVE  TaskOK(q)'
<1>1. LateOK(q)'
  BY DEF TaskOK, LateOK, At
<1>2. PostOK(q)'
  BY DEF TaskOK, PostOK, PostsKept
<1>3. SweepOK(q)'
  <2> SUFFICES ASSUME At(q, "sweep") PROVE SweepOK(q)'
    BY DEF SweepOK, At
  <2>1. SweepOK(q)
    BY DEF TaskOK
  <2>2. \A x \in Post : task[q].seen[x] # None =>
          x \in Existing' /\ post'[x].org = task[q].seen[x].org
    BY <2>1 DEF SweepOK, PostsKept
  <2>3. ASSUME NEW x \in Existing', post'[x].org = task[q].org,
               task[q].seen[x] = None
        PROVE  post'[x].late
    <3>1. CASE x \in Existing
      BY <2>1, <2>3, <3>1 DEF SweepOK, PostsKept
    <3>2. CASE x \notin Existing
      BY <2>3, <3>2
    <3> QED BY <3>1, <3>2
  <2> QED BY <2>1, <2>2, <2>3 DEF SweepOK, At
<1> QED BY <1>1, <1>2, <1>3 DEF TaskOK

\* One that is left alone while organizations are written: nobody else's
\* lock is taken away, and none is locked or deleted behind a creation.
LEMMA OrgStep ==
  ASSUME TypeOK, NEW q \in Req, TaskOK(q), task'[q] = task[q], post' = post,
         At(q, "sweep") => org'[task[q].org].lock = q,
         At(q, "create") =>
           (\/ org'[task[q].org].state = "deleted"
            \/ org'[task[q].org].lock # None
            => \/ org[task[q].org].state = "deleted"
               \/ org[task[q].org].lock # None)
  PROVE  TaskOK(q)'
  BY DEF TaskOK, LateOK, PostOK, SweepOK, At, Existing

\* Nothing but a request's own task is written.
LEMMA TaskStep ==
  ASSUME TypeOK, Cascade, \A q \in Req : TaskOK(q), NEW p \in Req,
         UNCHANGED <<org, post>>, \A q \in Req \ {p} : task'[q] = task[q],
         task' \in [Req -> Calls \cup Sweeps \cup {Idle, Done}], TaskOK(p)'
  PROVE  IInv'
<1>1. ASSUME NEW q \in Req PROVE TaskOK(q)'
  <2>1. CASE q = p
    BY <2>1
  <2>2. CASE q # p
    BY <2>2 DEF TaskOK, LateOK, PostOK, SweepOK, At, Existing
  <2> QED BY <2>1, <2>2
<1>2. TypeOK'
  BY DEF TypeOK
<1>3. Cascade'
  BY DEF Cascade, Existing
<1> QED BY <1>1, <1>2, <1>3 DEF IInv

\* A request writes posts and ends or goes on; organizations are left alone.
LEMMA PostsStep ==
  ASSUME NoneApart, IInv, NEW p \in Req, org' = org, PostsKept,
         post' \in [Post -> Posts \cup {None}],
         \A q \in Req \ {p} : task'[q] = task[q],
         task' \in [Req -> Calls \cup Sweeps \cup {Idle, Done}], TaskOK(p)',
         \A x \in Existing' : x \notin Existing =>
           /\ At(p, "create") /\ post'[x].org = task[p].org
           /\ post'[x].late = task[p].late /\ ~post'[x].deleted,
         \A x \in Existing : post[x].deleted => post'[x].deleted
  PROVE  IInv'
<1>1. TypeOK'
  BY DEF IInv, TypeOK
<1>2. ASSUME NEW q \in Req PROVE TaskOK(q)'
  <2>1. CASE q = p
    BY <2>1
  <2>2. CASE q # p
    <3>1. ASSUME NEW x \in Existing', x \notin Existing, At(q, "sweep"),
                 post'[x].org = task[q].org
          PROVE  post'[x].late
      <4>1. org[task[p].org].lock # None
        BY <3>1 DEF IInv, TaskOK, SweepOK, NoneApart
      <4>2. task[p].late
        BY <3>1, <4>1 DEF IInv, TaskOK, LateOK
      <4> QED BY <3>1, <4>2
    <3> QED BY <2>2, <3>1, PostStep DEF IInv
  <2> QED BY <2>1, <2>2
<1>3. Cascade'
  <2> SUFFICES ASSUME NEW x \in Existing',
                      org[post'[x].org].state = "deleted", ~post'[x].deleted
               PROVE  post'[x].late
    BY DEF Cascade
  <2>1. CASE x \in Existing
    BY <2>1 DEF IInv, Cascade, PostsKept
  <2>2. CASE x \notin Existing
    BY <2>2 DEF IInv, TaskOK, LateOK
  <2> QED BY <2>1, <2>2
<1> QED BY <1>1, <1>2, <1>3 DEF IInv

-----------------------------------------------------------------------------
LEMMA InitIInv == ASSUME NoneApart, Init PROVE IInv
<1>1. TypeOK
  <2>1. org \in [Org -> Orgs]
    BY DEF Init, Orgs
  <2> QED BY <2>1 DEF Init, TypeOK
<1>2. \A p \in Req : TaskOK(p)
  BY DEF Init, Idle, TaskOK, LateOK, PostOK, SweepOK, At
<1>3. Cascade
  BY DEF Init, Cascade, Existing
<1> QED BY <1>1, <1>2, <1>3 DEF IInv

\* The steps that write nothing but the task.
LEMMA AdmitStep ==
  ASSUME NoneApart, IInv, NEW p \in Req, NEW o \in Org, Admit(p, o)
  PROVE  IInv'
<1>1. PICK where \in {"create", "find", "delete", "mark"}, patch \in BOOLEAN :
        task' = [task EXCEPT ![p] =
          [pc |-> where, org |-> o, late |-> org[o].lock # None, post |-> None,
           patch |-> patch /\ where = "find", seen |-> FALSE]]
  BY DEF Admit, Start
<1> DEFINE t == [pc |-> where, org |-> o, late |-> org[o].lock # None,
                 post |-> None, patch |-> patch /\ where = "find",
                 seen |-> FALSE]
<1>2. t \in Calls
  BY DEF Calls
<1>3. t.pc = where /\ t.org = o /\ t.late = (org[o].lock # None)
  OBVIOUS
<1>4. task' = [task EXCEPT ![p] = t]
  BY <1>1
<1> HIDE DEF t
<1>5. /\ task' \in [Req -> Calls \cup Sweeps \cup {Idle, Done}]
      /\ task'[p] = t
      /\ \A q \in Req \ {p} : task'[q] = task[q]
  BY <1>2, <1>4 DEF IInv, TypeOK
<1>6. UNCHANGED <<org, post>> /\ org[o].state = "live"
  BY DEF Admit
<1>7. TaskOK(p)'
  BY <1>3, <1>5, <1>6 DEF TaskOK, LateOK, PostOK, SweepOK, At
<1> QED BY <1>5, <1>6, <1>7, TaskStep DEF IInv

LEMMA FindStep ==
  ASSUME NoneApart, IInv, NEW p \in Req, Find(p)
  PROVE  IInv'
<1>1. CASE End(p)
  BY <1>1, EndTask, TaskStep DEF Find, IInv
<1>2. ASSUME NEW x \in Own(task[p].org),
             task' = [task EXCEPT ![p] =
               [pc |-> IF @.patch THEN "patch" ELSE "save", org |-> @.org,
                late |-> @.late, post |-> x, patch |-> @.patch,
                seen |-> post[x].active]]
      PROVE  IInv'
  <2> DEFINE t == [pc |-> IF task[p].patch THEN "patch" ELSE "save",
                   org |-> task[p].org, late |-> task[p].late, post |-> x,
                   patch |-> task[p].patch, seen |-> post[x].active]
  <2>1. task[p] \in Calls
    BY TaskKinds DEF IInv, Find, At, CallPCs
  <2>2. x \in Existing /\ post[x] \in Posts
    BY DEF IInv, TypeOK, Own, Existing
  <2>3. t \in Calls
    BY <2>1, <2>2 DEF Calls, Posts, Existing
  <2>4. t.pc \in {"patch", "save"} /\ t.post = x
    OBVIOUS
  <2>5. task' = [task EXCEPT ![p] = t]
    BY <1>2
  <2> HIDE DEF t
  <2>6. /\ task' \in [Req -> Calls \cup Sweeps \cup {Idle, Done}]
        /\ task'[p] = t
        /\ \A q \in Req \ {p} : task'[q] = task[q]
    BY <2>3, <2>5 DEF IInv, TypeOK
  <2>7. UNCHANGED <<org, post>>
    BY DEF Find
  <2>8. TaskOK(p)'
    BY <2>2, <2>4, <2>6, <2>7
    DEF TaskOK, LateOK, PostOK, SweepOK, At, Existing
  <2> QED BY <2>6, <2>7, <2>8, TaskStep DEF IInv
<1> QED BY <1>1, <1>2 DEF Find

-----------------------------------------------------------------------------
(* The steps that write posts.                                             *)

LEMMA CreateStep ==
  ASSUME NoneApart, IInv, NEW p \in Req, Create(p)
  PROVE  IInv'
<1>1. task[p] \in Calls /\ At(p, "create")
  BY TaskKinds DEF IInv, Create, At, CallPCs
<1>2. PICK x \in Post \ Existing :
        post' = [post EXCEPT ![x] =
          [org |-> task[p].org, active |-> TRUE, deleted |-> FALSE,
           late |-> task[p].late]]
  BY DEF Create
<1> DEFINE d == [org |-> task[p].org, active |-> TRUE, deleted |-> FALSE,
                 late |-> task[p].late]
<1>3. /\ d \in Posts
      /\ d.org = task[p].org /\ d.late = task[p].late /\ ~d.deleted
  BY <1>1 DEF Posts, Calls
<1>4. post' = [post EXCEPT ![x] = d]
  BY <1>2
<1> HIDE DEF d
<1>5. /\ post' \in [Post -> Posts \cup {None}]
      /\ post'[x] = d
      /\ \A y \in Post \ {x} : post'[y] = post[y]
      /\ org' = org
  BY <1>3, <1>4 DEF IInv, TypeOK, Create
<1>6. /\ \A y \in Existing : y \in Existing' /\ post'[y] = post[y]
      /\ \A y \in Existing' : y \notin Existing => y = x
  BY <1>2, <1>5 DEF Existing
<1>7. PostsKept
  BY <1>6 DEF PostsKept
<1>8. /\ task' = [task EXCEPT ![p].pc = "count"]
      /\ [task[p] EXCEPT !.pc = "count"] \in Calls
  BY <1>1 DEF Create, Goto, Calls
<1>9. /\ task' \in [Req -> Calls \cup Sweeps \cup {Idle, Done}]
      /\ task'[p].pc = "count"
      /\ \A q \in Req \ {p} : task'[q] = task[q]
  BY <1>1, <1>8 DEF IInv, TypeOK, Calls
<1>10. TaskOK(p)'
  BY <1>9 DEF TaskOK, LateOK, PostOK, SweepOK, At
<1>11. /\ \A y \in Existing' : y \notin Existing =>
             /\ At(p, "create") /\ post'[y].org = task[p].org
             /\ post'[y].late = task[p].late /\ ~post'[y].deleted
       /\ \A y \in Existing : post[y].deleted => post'[y].deleted
  BY <1>1, <1>3, <1>5, <1>6
<1> QED BY <1>5, <1>7, <1>9, <1>10, <1>11, PostsStep

\* What DeletedStays says of a step.
PostsStay ==
  \A y \in Existing : /\ post'[y] # None
                      /\ post[y].deleted => post'[y].deleted
                      /\ post'[y].org = post[y].org

\* A write to one post that exists, which it leaves where it is, is marked as
\* before and, if it was deleted, deleted.
LEMMA WritePost ==
  ASSUME NoneApart, IInv, NEW p \in Req, End(p), org' = org,
         NEW x \in Existing, NEW d \in Posts,
         post' = [post EXCEPT ![x] = d],
         d.org = post[x].org, d.late = post[x].late,
         post[x].deleted => d.deleted
  PROVE  IInv' /\ PostsStay
<1>1. /\ post' \in [Post -> Posts \cup {None}]
      /\ post'[x] = d
      /\ \A y \in Post \ {x} : post'[y] = post[y]
  BY DEF IInv, TypeOK, Existing
<1>2. d # None
  BY DEF NoneApart
<1>3. Existing' = Existing
  BY <1>1, <1>2 DEF Existing
<1>4. PostsKept
  BY <1>1, <1>3 DEF PostsKept, Existing
<1>5. \A y \in Existing : post[y].deleted => post'[y].deleted
  BY <1>1 DEF Existing
<1>6. IInv'
  BY <1>1, <1>3, <1>4, <1>5, EndTask, PostsStep DEF IInv
<1> QED BY <1>1, <1>2, <1>4, <1>5, <1>6 DEF PostsKept, PostsStay, Existing

\* No post is written.
LEMMA LeavePosts ==
  ASSUME NoneApart, IInv, NEW p \in Req, End(p), UNCHANGED <<org, post>>
  PROVE  IInv' /\ PostsStay
  BY EndTask, TaskStep DEF IInv, PostsStay, Existing

LEMMA SaveStep ==
  ASSUME NoneApart, IInv, NEW p \in Req, Save(p)
  PROVE  IInv' /\ PostsStay
<1> DEFINE x == task[p].post
           d == [post[x] EXCEPT !.active = ~task[p].seen]
<1>1. task[p] \in Calls
  BY TaskKinds DEF IInv, Save, At, CallPCs
<1>2. x \in Existing /\ post[x] \in Posts
  BY DEF IInv, TaskOK, PostOK, Save, At, TypeOK, Existing
<1>3. /\ d \in Posts /\ d.org = post[x].org /\ d.late = post[x].late
      /\ d.deleted = post[x].deleted
  BY <1>1, <1>2 DEF Posts, Calls
<1>4. post' = [post EXCEPT ![x] = d] /\ End(p) /\ org' = org
  BY DEF Save
<1> HIDE DEF x, d
<1> QED BY <1>2, <1>3, <1>4, WritePost

LEMMA PatchStep ==
  ASSUME NoneApart, IInv, NEW p \in Req, Patch(p)
  PROVE  IInv' /\ PostsStay
<1> DEFINE x == task[p].post
<1>1. PICK active \in BOOLEAN :
        post' = IF post[x].deleted THEN post
                ELSE [post EXCEPT ![x].active = active]
  BY DEF Patch
<1>2. End(p) /\ org' = org
  BY DEF Patch
<1>3. CASE post' = post
  BY <1>2, <1>3, LeavePosts
<1>4. CASE post' = [post EXCEPT ![x].active = active]
  <2> DEFINE d == [post[x] EXCEPT !.active = active]
  <2>1. x \in Existing /\ post[x] \in Posts
    BY DEF IInv, TaskOK, PostOK, Patch, At, TypeOK, Existing
  <2>2. /\ d \in Posts /\ d.org = post[x].org /\ d.late = post[x].late
        /\ d.deleted = post[x].deleted
    BY <2>1 DEF Posts
  <2>3. post' = [post EXCEPT ![x] = d]
    BY <1>4
  <2> HIDE DEF x, d
  <2> QED BY <1>2, <2>1, <2>2, <2>3, WritePost
<1> QED BY <1>1, <1>3, <1>4

\* A post is deleted, by its organization or an administrator.
LEMMA DeletePost ==
  ASSUME NoneApart, IInv, NEW p \in Req, End(p), org' = org,
         NEW x \in Existing, NEW deleted \in BOOLEAN, ~post[x].deleted,
         post' = [post EXCEPT ![x].deleted = deleted]
  PROVE  IInv' /\ PostsStay
<1> DEFINE d == [post[x] EXCEPT !.deleted = deleted]
<1>1. post[x] \in Posts
  BY DEF IInv, TypeOK, Existing
<1>2. d \in Posts /\ d.org = post[x].org /\ d.late = post[x].late
  BY <1>1 DEF Posts
<1>3. post' = [post EXCEPT ![x] = d]
  OBVIOUS
<1> HIDE DEF d
<1> QED BY <1>2, <1>3, WritePost

LEMMA DeleteStep ==
  ASSUME NoneApart, IInv, NEW p \in Req, Delete(p)
  PROVE  IInv' /\ PostsStay
<1>1. End(p) /\ org' = org
  BY DEF Delete
<1>2. CASE UNCHANGED post
  BY <1>1, <1>2, LeavePosts
<1>3. ASSUME NEW x \in Own(task[p].org),
             post' = [post EXCEPT ![x].deleted = TRUE]
      PROVE  IInv' /\ PostsStay
  BY <1>1, <1>3, DeletePost DEF Own
<1> QED BY <1>2, <1>3 DEF Delete

LEMMA AdminPostStep ==
  ASSUME NoneApart, IInv, NEW p \in Req, NEW x \in Post,
         NEW deleted \in BOOLEAN, AdminPost(p, x, deleted)
  PROVE  IInv' /\ PostsStay
  BY DeletePost DEF AdminPost

-----------------------------------------------------------------------------
(* The steps that write organizations.                                     *)

\* Only organizations and the request's own task are written; nobody else's
\* lock is taken away.
LEMMA OrgsStep ==
  ASSUME NoneApart, IInv, NEW p \in Req, End(p), post' = post,
         org' \in [Org -> Orgs],
         \A o \in Org : /\ org'[o].state = "deleted" => org[o].state = "deleted"
                        /\ org'[o].lock \in {org[o].lock, None}
                        /\ org[o].lock # p => org'[o].lock = org[o].lock
  PROVE  IInv'
<1>1. /\ task' \in [Req -> Calls \cup Sweeps \cup {Idle, Done}]
      /\ TaskOK(p)'
      /\ \A q \in Req \ {p} : task'[q] = task[q]
  BY EndTask DEF IInv
<1>2. ASSUME NEW q \in Req \ {p} PROVE TaskOK(q)'
  <2>1. task'[q] = task[q] /\ TaskOK(q)
    BY <1>1 DEF IInv
  <2>2. ASSUME At(q, "sweep") PROVE org'[task[q].org].lock = q
    <3>1. task[q].org \in Org /\ org[task[q].org].lock = q
      BY <2>1, <2>2, TaskKinds DEF IInv, TaskOK, SweepOK, Sweeps
    <3> QED BY <3>1
  <2>3. ASSUME At(q, "create"),
               \/ org'[task[q].org].state = "deleted"
               \/ org'[task[q].org].lock # None
        PROVE  \/ org[task[q].org].state = "deleted"
               \/ org[task[q].org].lock # None
    <3>1. task[q].org \in Org
      BY <2>3, TaskKinds DEF IInv, At, Calls, CallPCs
    <3> QED BY <2>3, <3>1
  <2> QED BY <2>1, <2>2, <2>3, OrgStep DEF IInv
<1>3. Cascade'
  BY DEF IInv, Cascade, TypeOK, Existing, Posts
<1> QED BY <1>1, <1>2, <1>3 DEF IInv, TypeOK

LEMMA CountStep ==
  ASSUME NoneApart, IInv, NEW p \in Req, Count(p)
  PROVE  IInv'
<1> DEFINE o == task[p].org
<1>1. o \in Org
  BY TaskKinds DEF IInv, Count, At, Calls, CallPCs
<1>2. CASE org' = org
  BY <1>2, OrgsStep DEF IInv, TypeOK, Count
<1>3. CASE org' = [org EXCEPT ![o].total = @ + 1]
  <2> DEFINE r == [org[o] EXCEPT !.total = @ + 1]
  <2>1. org[o] \in Orgs
    BY <1>1 DEF IInv, TypeOK
  <2>2. r \in Orgs /\ r.state = org[o].state /\ r.lock = org[o].lock
    BY <2>1 DEF Orgs
  <2>3. org' = [org EXCEPT ![o] = r]
    BY <1>3
  <2> HIDE DEF r, o
  <2>4. org' \in [Org -> Orgs]
    BY <1>1, <2>2, <2>3 DEF IInv, TypeOK
  <2>5. \A u \in Org : org'[u].state = org[u].state /\ org'[u].lock = org[u].lock
    BY <1>1, <2>2, <2>3 DEF IInv, TypeOK
  <2> QED BY <2>4, <2>5, OrgsStep DEF Count
<1> QED BY <1>2, <1>3 DEF Count

LEMMA AdminUserStep ==
  ASSUME NoneApart, IInv, NEW p \in Req, NEW o \in Org, AdminUser(p, o)
  PROVE  IInv'
<1> DEFINE r == [org[o] EXCEPT !.state = "removed"]
<1>1. org[o] \in Orgs
  BY DEF IInv, TypeOK
<1>2. r \in Orgs /\ r.state = "removed" /\ r.lock = org[o].lock
  BY <1>1 DEF Orgs
<1>3. org' = [org EXCEPT ![o] = r]
  BY DEF AdminUser
<1> HIDE DEF r
<1>4. org' \in [Org -> Orgs]
  BY <1>2, <1>3 DEF IInv, TypeOK
<1>5. \A u \in Org : /\ org'[u].state = "deleted" => org[u].state = "deleted"
                     /\ org'[u].lock = org[u].lock
  BY <1>2, <1>3 DEF IInv, TypeOK
<1> QED BY <1>4, <1>5, OrgsStep DEF AdminUser

LEMMA FailStep ==
  ASSUME NoneApart, IInv, NEW p \in Req, TaskFails(p)
  PROVE  IInv'
<1>1. ASSUME NEW o \in Org
      PROVE  /\ org'[o] \in Orgs
             /\ org'[o].state = org[o].state
             /\ org'[o].lock = IF org[o].lock = p THEN None ELSE org[o].lock
  <2>1. org'[o] = IF org[o].lock = p THEN [org[o] EXCEPT !.lock = None]
                  ELSE org[o]
    BY DEF TaskFails
  <2>2. org[o] \in Orgs
    BY DEF IInv, TypeOK
  <2> QED BY <2>1, <2>2 DEF Orgs
<1>2. org' \in [Org -> Orgs]
  BY <1>1 DEF TaskFails
<1> QED BY <1>1, <1>2, OrgsStep DEF TaskFails

LEMMA MarkStep ==
  ASSUME NoneApart, IInv, NEW p \in Req, Mark(p)
  PROVE  IInv'
<1> DEFINE o == task[p].org
<1>1. o \in Org
  BY TaskKinds DEF IInv, Mark, At, Calls, CallPCs
<1>2. CASE ~(org[o].state = "live" /\ org[o].lock = None)
  BY <1>2, OrgsStep DEF Mark, IInv, TypeOK
<1>3. CASE org[o].state = "live" /\ org[o].lock = None
  <2> DEFINE r == [org[o] EXCEPT !.lock = p]
             t == [pc |-> "sweep", org |-> o, seen |-> post]
  <2>1. org[o] \in Orgs
    BY <1>1 DEF IInv, TypeOK
  <2>2. r \in Orgs /\ r.state = "live" /\ r.lock = p
    BY <1>3, <2>1 DEF Orgs
  <2>3. org' = [org EXCEPT ![o] = r]
    BY <1>3 DEF Mark
  <2>4. t \in Sweeps /\ t.pc = "sweep" /\ t.org = o /\ t.seen = post
    BY <1>1 DEF IInv, TypeOK, Sweeps
  <2>5. /\ post' = post
        /\ task' = [q \in Req |->
             IF q = p THEN t
             ELSE IF task[q] \in Calls /\ task[q].org = o
                  THEN [task[q] EXCEPT !.late = TRUE]
             ELSE task[q]]
    BY <1>3 DEF Mark
  <2> HIDE DEF r, t, o
  <2>6. /\ org' \in [Org -> Orgs] /\ org'[o] = r
        /\ \A u \in Org \ {o} : org'[u] = org[u]
    BY <1>1, <2>2, <2>3 DEF IInv, TypeOK
  <2>7. ASSUME NEW q \in Req \ {p}, task[q] \in Calls, task[q].org = o
        PROVE  /\ task'[q] \in Calls /\ task'[q].late
               /\ task'[q].pc = task[q].pc /\ task'[q].org = o
               /\ task'[q].post = task[q].post
    BY <2>5, <2>7 DEF Calls
  <2>8. ASSUME NEW q \in Req \ {p}, ~(task[q] \in Calls /\ task[q].org = o)
        PROVE  task'[q] = task[q]
    BY <2>5, <2>8
  <2>9. task' \in [Req -> Calls \cup Sweeps \cup {Idle, Done}]
    <3>1. task'[p] = t
      BY <2>5
    <3>2. \A q \in Req : task'[q] \in Calls \cup Sweeps \cup {Idle, Done}
      BY <2>4, <2>7, <2>8, <3>1 DEF IInv, TypeOK
    <3> QED BY <2>5, <3>2
  <2>10. TaskOK(p)'
    <3>1. task'[p] = t
      BY <2>5
    <3> QED BY <2>2, <2>4, <2>5, <2>6, <3>1
            DEF TaskOK, LateOK, PostOK, SweepOK, At, Existing
  <2>11. ASSUME NEW q \in Req \ {p} PROVE TaskOK(q)'
    <3>1. CASE task[q] \in Calls /\ task[q].org = o
      <4>1. task[q].pc # "sweep"
        BY <3>1 DEF Calls
      <4> QED BY <2>5, <2>7, <3>1, <4>1
              DEF IInv, TaskOK, LateOK, PostOK, SweepOK, At, Existing
    <3>2. CASE ~(task[q] \in Calls /\ task[q].org = o)
      <4>1. task'[q] = task[q] /\ TaskOK(q)
        BY <2>8, <3>2 DEF IInv
      <4>2. At(q, "sweep") => task[q].org \in Org /\ task[q].org # o
        BY <1>3, <4>1, TaskKinds
        DEF IInv, TaskOK, SweepOK, Sweeps, NoneApart, o
      <4>3. At(q, "create") => task[q].org \in Org /\ task[q].org # o
        BY <3>2, TaskKinds DEF IInv, At, Calls, CallPCs
      <4> QED BY <2>5, <2>6, <4>1, <4>2, <4>3, OrgStep
              DEF IInv, TaskOK, SweepOK
    <3> QED BY <3>1, <3>2
  <2>12. Cascade'
    BY <2>2, <2>5, <2>6 DEF IInv, Cascade, TypeOK, Existing, Posts
  <2> QED BY <2>5, <2>6, <2>9, <2>10, <2>11, <2>12 DEF IInv, TypeOK
<1> QED BY <1>2, <1>3

\* The transaction that deletes an organization and the posts of its snapshot.
LEMMA SweepStep ==
  ASSUME NoneApart, IInv, NEW p \in Req, Sweep(p)
  PROVE  IInv' /\ PostsStay
<1> DEFINE o    == task[p].org
           mine == {x \in Post : task[p].seen[x] # None
                                 /\ task[p].seen[x].org = o}
<1>1. o \in Org /\ At(p, "sweep")
  BY TaskKinds DEF IInv, Sweep, At, Sweeps
<1>2. SweepOK(p) /\ org[o].lock = p /\ p # None
  BY <1>1 DEF IInv, TaskOK, SweepOK, NoneApart
<1>3. /\ task' \in [Req -> Calls \cup Sweeps \cup {Idle, Done}]
      /\ TaskOK(p)'
      /\ \A q \in Req \ {p} : task'[q] = task[q]
  BY EndTask DEF IInv, Sweep
<1>4. \A x \in mine : x \in Existing /\ post[x].org = o
  BY <1>1, <1>2 DEF SweepOK
<1>5. CASE ~(\A x \in mine : post[x] = task[p].seen[x])
  <2> DEFINE r == [org[o] EXCEPT !.lock = None]
  <2>1. r \in Orgs /\ r.state = org[o].state /\ r.lock = None
    <3>1. org[o] \in Orgs
      BY <1>1 DEF IInv, TypeOK
    <3> QED BY <3>1 DEF Orgs
  <2>2. org' = [org EXCEPT ![o] = r] /\ post' = post /\ End(p)
    BY <1>5 DEF Sweep
  <2> HIDE DEF r, o
  <2>3. org' \in [Org -> Orgs]
    BY <2>1, <2>2 DEF IInv, TypeOK
  <2>4. \A u \in Org : /\ org'[u].state = org[u].state
                       /\ u # o => org'[u] = org[u]
                       /\ org'[o].lock = None
    BY <1>1, <2>1, <2>2 DEF IInv, TypeOK
  <2>5. IInv'
    BY <1>2, <2>2, <2>3, <2>4, OrgsStep
  <2> QED BY <2>2, <2>5 DEF PostsStay, Existing
<1>6. CASE \A x \in mine : post[x] = task[p].seen[x]
  <2> DEFINE r == [state |-> "deleted", lock |-> None, total |-> org[o].total]
  <2>1. r \in Orgs /\ r.state = "deleted" /\ r.lock = None
    <3>1. org[o] \in Orgs
      BY <1>1 DEF IInv, TypeOK
    <3> QED BY <3>1 DEF Orgs
  <2>2. /\ org' = [org EXCEPT ![o] = r]
        /\ post' = [x \in Post |->
             IF x \in mine THEN [post[x] EXCEPT !.deleted = TRUE]
             ELSE post[x]]
    BY <1>6 DEF Sweep
  <2> HIDE DEF r, o, mine
  <2>3. /\ org' \in [Org -> Orgs]
        /\ org'[o] = r
        /\ \A u \in Org \ {o} : org'[u] = org[u]
    BY <1>1, <2>1, <2>2 DEF IInv, TypeOK
  <2>4. ASSUME NEW x \in mine
        PROVE  /\ x \in Existing /\ post'[x] \in Posts
               /\ post'[x].org = post[x].org /\ post'[x].late = post[x].late
               /\ post'[x].deleted
    <3>1. x \in Existing /\ post[x] \in Posts
      BY <1>4 DEF IInv, TypeOK, Existing
    <3>2. post'[x] = [post[x] EXCEPT !.deleted = TRUE]
      BY <2>2, <3>1 DEF Existing
    <3> QED BY <3>1, <3>2 DEF Posts
  <2>5. ASSUME NEW x \in Post, x \notin mine
        PROVE  post'[x] = post[x]
    BY <2>2, <2>5
  <2>6. post' \in [Post -> Posts \cup {None}]
    <3>1. \A x \in Post : post'[x] \in Posts \cup {None}
      BY <2>4, <2>5 DEF IInv, TypeOK
    <3> QED BY <2>2, <3>1
  <2>7. ASSUME NEW x \in Existing
        PROVE  /\ post'[x] # None
               /\ post'[x].org = post[x].org /\ post'[x].late = post[x].late
               /\ post[x].deleted => post'[x].deleted
    <3>1. CASE x \in mine
      BY <2>4, <3>1 DEF NoneApart
    <3>2. CASE x \notin mine
      BY <2>5, <3>2 DEF Existing
    <3> QED BY <3>1, <3>2
  <2>8. Existing' = Existing
    <3>1. \A x \in Post : post'[x] # None => post[x] # None
      BY <2>4, <2>5 DEF Existing
    <3> QED BY <2>7, <3>1 DEF Existing
  <2>9. PostsKept
    BY <2>7, <2>8 DEF PostsKept
  <2>10. ASSUME NEW q \in Req \ {p} PROVE TaskOK(q)'
    <3>1. task'[q] = task[q] /\ TaskOK(q)
      BY <1>3 DEF IInv
    <3>2. LateOK(q)'
      <4>1. At(q, "create") => task[q].org \in Org
        BY TaskKinds DEF IInv, At, Calls, CallPCs
      <4>2. CASE task[q].org = o
        BY <1>2, <3>1, <4>2 DEF TaskOK, LateOK, At
      <4>3. CASE task[q].org # o
        BY <2>3, <3>1, <4>1, <4>3 DEF TaskOK, LateOK, At
      <4> QED BY <4>2, <4>3
    <3>3. PostOK(q)'
      BY <2>8, <3>1 DEF TaskOK, PostOK
    <3>4. SweepOK(q)'
      <4> SUFFICES ASSUME At(q, "sweep") PROVE SweepOK(q)'
        BY <3>1 DEF SweepOK, At
      <4>1. SweepOK(q) /\ task[q].org \in Org
        BY <3>1, TaskKinds DEF IInv, TaskOK, Sweeps
      <4>2. task[q].org # o
        BY <1>2, <4>1 DEF SweepOK
      <4>3. org'[task[q].org].lock = q
        BY <2>3, <4>1, <4>2 DEF SweepOK
      <4> QED BY <2>7, <2>8, <3>1, <4>1, <4>3 DEF SweepOK, At
    <3> QED BY <3>2, <3>3, <3>4 DEF TaskOK
  <2>11. Cascade'
    <3> SUFFICES ASSUME NEW x \in Existing, post'[x].org \in Org,
                        org'[post'[x].org].state = "deleted",
                        ~post'[x].deleted
                 PROVE  post'[x].late
      BY <2>6, <2>7, <2>8 DEF Cascade, Posts, Existing
    <3>1. CASE post[x].org = o
      <4>1. x \notin mine
        BY <2>4
      <4>2. task[p].seen[x] = None
        <5>1. task[p].seen[x] # None => task[p].seen[x].org = o
          BY <1>1, <1>2, <3>1 DEF SweepOK, Existing
        <5> QED BY <4>1, <5>1 DEF mine, Existing
      <4> QED BY <1>1, <1>2, <2>7, <3>1, <4>2 DEF SweepOK, o
    <3>2. CASE post[x].org # o
      <4>1. x \notin mine
        BY <1>4, <3>2
      <4>2. post'[x] = post[x]
        BY <2>5, <4>1 DEF Existing
      <4> QED BY <2>3, <3>2, <4>2 DEF IInv, Cascade
    <3> QED BY <3>1, <3>2
  <2>12. IInv'
    BY <1>3, <2>3, <2>6, <2>10, <2>11 DEF IInv, TypeOK
  <2> QED BY <2>7, <2>12 DEF PostsStay
<1> QED BY <1>5, <1>6

-----------------------------------------------------------------------------
LEMMA NextIInv ==
  ASSUME NoneApart, IInv, [Next]_vars
  PROVE  IInv' /\ PostsStay
<1>1. ASSUME NEW p \in Req, NEW o \in Org, Admit(p, o) \/ AdminUser(p, o)
      PROVE  IInv' /\ PostsStay
  <2>1. IInv'
    BY <1>1, AdmitStep, AdminUserStep
  <2>2. PostsStay
    BY <1>1 DEF Admit, AdminUser, PostsStay, Existing
  <2> QED BY <2>1, <2>2
<1>2. ASSUME NEW p \in Req, Create(p) PROVE IInv' /\ PostsStay
  <2>1. PostsStay
    BY <1>2 DEF IInv, TypeOK, Create, PostsStay, Existing
  <2> QED BY <1>2, <2>1, CreateStep
<1>3. ASSUME NEW p \in Req, Count(p) \/ Find(p) \/ Mark(p) \/ TaskFails(p)
      PROVE  IInv' /\ PostsStay
  <2>1. IInv'
    BY <1>3, CountStep, FindStep, MarkStep, FailStep
  <2>2. PostsStay
    BY <1>3 DEF Count, Find, Mark, TaskFails, PostsStay, Existing
  <2> QED BY <2>1, <2>2
<1>4. ASSUME NEW p \in Req, Save(p) \/ Patch(p) \/ Delete(p) \/ Sweep(p)
      PROVE  IInv' /\ PostsStay
  BY <1>4, SaveStep, PatchStep, DeleteStep, SweepStep
<1>5. ASSUME NEW p \in Req, NEW x \in Post, NEW deleted \in BOOLEAN,
             AdminPost(p, x, deleted)
      PROVE  IInv' /\ PostsStay
  BY <1>5, AdminPostStep
<1>6. CASE UNCHANGED vars
  <2>1. IInv'
    <3>1. \A p \in Req : TaskOK(p)'
      BY <1>6 DEF IInv, vars, TaskOK, LateOK, PostOK, SweepOK, At, Existing
    <3> QED BY <1>6, <3>1 DEF IInv, vars, TypeOK, Cascade, Existing
  <2> QED BY <1>6, <2>1 DEF vars, PostsStay, Existing
<1> QED BY <1>1, <1>2, <1>3, <1>4, <1>5, <1>6 DEF Next, Step

LEMMA Inductive == ASSUME NoneApart PROVE Spec => []IInv
<1>1. Init => IInv
  BY InitIInv
<1>2. IInv /\ [Next]_vars => IInv'
  BY NextIInv
<1> QED BY <1>1, <1>2, PTL DEF Spec

\* Every variable has its type.
THEOREM TypeCorrect == ASSUME NoneApart PROVE Spec => []TypeOK
<1>1. IInv => TypeOK
  BY DEF IInv
<1> QED BY <1>1, Inductive, PTL

\* The transaction that deletes a profile leaves no post of the organization
\* behind, but for those whose creation overlapped with it.
THEOREM CascadeHolds == ASSUME NoneApart PROVE Spec => []Cascade
<1>1. IInv => Cascade
  BY DEF IInv
<1> QED BY <1>1, Inductive, PTL

\* No request brings a deleted post back or moves it to another organization,
\* whatever it has read before.
THEOREM DeletedPostsStay == ASSUME NoneApart PROVE Spec => DeletedStays
<1>1. IInv /\ [Next]_vars =>
        [\A x \in Existing : /\ post'[x] # None
                             /\ post[x].deleted => post'[x].deleted
                             /\ post'[x].org = post[x].org]_vars
  BY NextIInv DEF PostsStay
<1> QED BY <1>1, Inductive, PTL DEF Spec, DeletedStays
=============================================================================
