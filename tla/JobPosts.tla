------------------------------ MODULE JobPosts ------------------------------
(***************************************************************************)
(* The job posts of an organization (organization-post.service.ts) and the *)
(* removal of users and posts: an organization deletes its own profile     *)
(* with its posts in a transaction (user.service.ts), an administrator     *)
(* removes either one alone (repository/base.service.ts).                  *)
(*                                                                         *)
(* Every request is admitted by JwtStrategy and then a task that           *)
(* interleaves with the others at its awaits.  Both schemas add            *)
(* isDeleted: false to every find..., also to findByIdAndUpdate.           *)
(***************************************************************************)
EXTENDS Naturals, FiniteSets

CONSTANTS
  Org,    \* the organizations
  Post,   \* BOUND: the posts that may be created
  Req,    \* BOUND: the requests
  None,   \* no document
  Faults  \* the faults of the environment the model allows: "await", an await
          \* of a request rejects

VARIABLES
  org,   \* org[o]: the state of the account, its lock and its counter
  post,  \* post[x]: the document of post x
  task   \* task[p]: what request p is doing

vars == <<org, post, task>>

\* lock: the transaction that has written the account; total: totalJobPost.
Orgs == [state : {"live", "deleted", "removed"}, lock : Req \cup {None},
         total : Nat]

\* late (history): the request that created it was admitted before, or while,
\* the organization was being deleted, and was still at work then.
Posts == [org : Org, active : BOOLEAN, deleted : BOOLEAN, late : BOOLEAN]

Idle == [pc |-> "idle"]
Done == [pc |-> "done"]

\* post: the post at hand; seen: isActive, or the posts at the snapshot.
Calls == [ pc : {"create", "count", "find", "save", "patch", "delete",
                 "mark"},
           org : Org, late : BOOLEAN, post : Post \cup {None},
           patch : BOOLEAN, seen : BOOLEAN ]
Sweeps == [pc : {"sweep"}, org : Org, seen : [Post -> Posts \cup {None}]]

TypeOK ==
  /\ org \in [Org -> Orgs]
  /\ post \in [Post -> Posts \cup {None}]
  /\ task \in [Req -> Calls \cup Sweeps \cup {Idle, Done}]

Init ==
  /\ org = [o \in Org |-> [state |-> "live", lock |-> None, total |-> 0]]
  /\ post = [x \in Post |-> None]
  /\ task = [p \in Req |-> Idle]

At(p, where) == task[p].pc = where
Goto(p, where) == task' = [task EXCEPT ![p].pc = where]
End(p) == task' = [task EXCEPT ![p] = Done]

Existing == {x \in Post : post[x] # None}

\* What findOne and findOneAndUpdate with the organization's id can find.
Own(o) == {x \in Existing : post[x].org = o /\ ~post[x].deleted}

-----------------------------------------------------------------------------
(* Admission.                                                              *)

\* One of createJobPost, toggleJobPostActivation, updateJobPostById (patch),
\* deleteJobPost and deleteUserProfile begins.
Start(p, o) ==
  \E where \in {"create", "find", "delete", "mark"}, patch \in BOOLEAN :
    task' = [task EXCEPT ![p] =
      [pc |-> where, org |-> o, late |-> org[o].lock # None, post |-> None,
       patch |-> patch /\ where = "find", seen |-> FALSE]]

\* (Mutant: deleted accounts are found.)
AdmitAnyone(p, o) ==
  /\ At(p, "idle")
  /\ Start(p, o)
  /\ UNCHANGED <<org, post>>

\* JwtStrategy.validate finds the account of the token.
Admit(p, o) ==
  /\ At(p, "idle")
  /\ org[o].state = "live"
  /\ Start(p, o)
  /\ UNCHANGED <<org, post>>

-----------------------------------------------------------------------------
(* The posts.                                                              *)

\* createJobPost writes the post ...
Create(p) ==
  /\ At(p, "create")
  /\ \E x \in Post \ Existing :
       post' = [post EXCEPT ![x] =
         [org |-> task[p].org, active |-> TRUE, deleted |-> FALSE,
          late |-> task[p].late]]
  /\ Goto(p, "count")
  /\ UNCHANGED org

\* ... and counts it, unless the account is gone.  The schema has no
\* activeJobPost, so that part of the $inc is dropped.
Count(p) ==
  LET o == task[p].org IN
  /\ At(p, "count")
  /\ org[o].lock = None
  /\ org' = IF org[o].state = "live" THEN [org EXCEPT ![o].total = @ + 1]
            ELSE org
  /\ End(p)
  /\ UNCHANGED post

\* toggleJobPostActivation and updateJobPostById read the post.
Find(p) ==
  /\ At(p, "find")
  /\ IF Own(task[p].org) = {} THEN End(p)
     ELSE \E x \in Own(task[p].org) :
       task' = [task EXCEPT ![p] =
         [pc |-> IF @.patch THEN "patch" ELSE "save", org |-> @.org,
          late |-> @.late, post |-> x, patch |-> @.patch,
          seen |-> post[x].active]]
  /\ UNCHANGED <<org, post>>

\* save() writes the field that was changed, whatever the post has become.
Save(p) ==
  /\ At(p, "save")
  /\ post' = [post EXCEPT ![task[p].post].active = ~task[p].seen]
  /\ End(p)
  /\ UNCHANGED org

\* (Mutant: the document that was read is written as a whole.)
PatchWhole(p) ==
  /\ At(p, "patch")
  /\ \E active \in BOOLEAN :
       post' = [post EXCEPT ![task[p].post].active = active,
                            ![task[p].post].deleted = FALSE]
  /\ End(p)
  /\ UNCHANGED org

\* findByIdAndUpdate sets the fields of the request, isActive perhaps, on a
\* post that is not deleted.
Patch(p) ==
  /\ At(p, "patch")
  /\ \E active \in BOOLEAN :
       post' = IF post[task[p].post].deleted THEN post
               ELSE [post EXCEPT ![task[p].post].active = active]
  /\ End(p)
  /\ UNCHANGED org

\* deleteJobPost.  The schema has no totalJobPosts, whose $inc is dropped.
Delete(p) ==
  /\ At(p, "delete")
  /\ IF Own(task[p].org) = {} THEN UNCHANGED post
     ELSE \E x \in Own(task[p].org) : post' = [post EXCEPT ![x].deleted = TRUE]
  /\ End(p)
  /\ UNCHANGED org

-----------------------------------------------------------------------------
(* Deleting a profile, in a transaction.                                   *)

\* The first operation takes the snapshot and marks the account; it fails if
\* the account is gone or another transaction has written it.
Mark(p) ==
  LET o == task[p].org IN
  /\ At(p, "mark")
  /\ IF org[o].state = "live" /\ org[o].lock = None
     THEN /\ org' = [org EXCEPT ![o].lock = p]
          /\ task' = [q \in Req |->
               IF q = p THEN [pc |-> "sweep", org |-> o, seen |-> post]
               ELSE IF task[q] \in Calls /\ task[q].org = o
                    THEN [task[q] EXCEPT !.late = TRUE]
               ELSE task[q]]
     ELSE End(p) /\ UNCHANGED org
  /\ UNCHANGED post

\* updateMany deletes the posts of the snapshot and the transaction commits.
\* It aborts if one of them has been written since.
Sweep(p) ==
  LET o    == task[p].org
      mine == {x \in Post : task[p].seen[x] # None /\ task[p].seen[x].org = o} IN
  /\ At(p, "sweep")
  /\ IF \A x \in mine : post[x] = task[p].seen[x]
     THEN /\ org' = [org EXCEPT ![o] =
              [state |-> "deleted", lock |-> None, total |-> @.total]]
          /\ post' = [x \in Post |->
               IF x \in mine THEN [post[x] EXCEPT !.deleted = TRUE]
               ELSE post[x]]
     ELSE org' = [org EXCEPT ![o].lock = None] /\ UNCHANGED post
  /\ End(p)

-----------------------------------------------------------------------------
(* Administrators, and failures.                                           *)

\* softDelete and restoreDeleted of a post.  Both find only a post that is not
\* deleted, so that the second one changes nothing.
AdminPost(p, x, deleted) ==
  /\ At(p, "idle")
  /\ x \in Existing /\ ~post[x].deleted
  /\ post' = [post EXCEPT ![x].deleted = deleted]
  /\ End(p)
  /\ UNCHANGED org

\* softDelete of an account leaves its posts; restoreDeleted does not find it.
AdminUser(p, o) ==
  /\ At(p, "idle")
  /\ org[o].state = "live" /\ org[o].lock = None
  /\ org' = [org EXCEPT ![o].state = "removed"]
  /\ End(p)
  /\ UNCHANGED post

\* An await rejects; abortTransaction releases the account.
TaskFails(p) ==
  /\ "await" \in Faults
  /\ task[p] \in Calls \cup Sweeps
  /\ org' = [o \in Org |->
       IF org[o].lock = p THEN [org[o] EXCEPT !.lock = None] ELSE org[o]]
  /\ End(p)
  /\ UNCHANGED post

Step(p) ==
  \/ \E o \in Org : Admit(p, o) \/ AdminUser(p, o)
  \/ \E x \in Post, deleted \in BOOLEAN : AdminPost(p, x, deleted)
  \/ Create(p) \/ Count(p) \/ Find(p) \/ Save(p) \/ Patch(p) \/ Delete(p)
  \/ Mark(p) \/ Sweep(p)
  \/ TaskFails(p)

Next == \E p \in Req : Step(p)

Spec == Init /\ [][Next]_vars

-----------------------------------------------------------------------------
(* Safety.                                                                 *)

\* A deleted organization has no post left (user.service.ts:515-541), but for
\* one whose creation was under way when the profile was deleted: nothing is
\* created with a token afterwards, and the transaction misses no other post,
\* whatever toggles, updates and removals overlap with it.
Cascade ==
  \A x \in Existing :
    org[post[x].org].state = "deleted" /\ ~post[x].deleted => post[x].late

\* A deleted post stays deleted, and stays with its organization: a toggle or
\* an update that read it before (organization-post.service.ts:139-155 and
\* 193-204) does not bring it back.  Nor does restoreDeleted.
DeletedStays ==
  [][\A x \in Existing : /\ post'[x] # None
                         /\ post[x].deleted => post'[x].deleted
                         /\ post'[x].org = post[x].org]_vars
=============================================================================
