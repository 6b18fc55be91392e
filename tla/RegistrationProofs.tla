------------------------- MODULE RegistrationProofs -------------------------
(***************************************************************************)
(* Theorems about Registration, for any number of registrations, addresses *)
(* and overlapping calls.                                                  *)
(*                                                                         *)
(* VerifiedByMail and WalletOnFile are not inductive: a call writes a user *)
(* awaits after the code was accepted or the wallet was queued.  TaskOK    *)
(* says what a task may rely on at each of its awaits; nothing another     *)
(* task does takes it away, as codes accepted, wallets queued and Wallet   *)
(* documents only ever become more.                                        *)
(*                                                                         *)
(* The counters are bounded by sets: a user's referrals and the            *)
(* registrations still to count for it by the registrations it referred,   *)
(* the bonuses paid for a user and the calls still to pay one by the       *)
(* accepted codes.  A call moves from the set to the counter in one step.  *)
(***************************************************************************)
EXTENDS Registration, FiniteSetTheorems, TLAPS

Shape ==
  /\ user \in [User -> Accounts(Nat)]
  /\ otp \in SUBSET OTPs
  /\ task \in [Task -> Tasks]
  /\ issued \in 0..MaxCode
  /\ mailed \in SUBSET Mails /\ used \in SUBSET Mails

\* A registration before its createUser has created the user.
Unborn == {"idle", "send", "mail", "check", "first", "create"}

TaskOK(p) ==
  /\ At(p, "send") \/ At(p, "mail") \/ At(p, "change") => task[p].email \in Email
  /\ At(p, "mail") => task[p].code \in 1..MaxCode
  /\ At(p, "mark") \/ At(p, "change") => task[p].user \in User
  /\ At(p, "consume") /\ task[p].type = "VERIFY_EMAIL" => task[p].user \in User
  /\ At(p, "mark") => <<task[p].email, task[p].code, "VERIFY_EMAIL">> \in used
  /\ At(p, "reset") => <<task[p].email, task[p].code, "RESET_PASSWORD">> \in used
  /\ p \in User =>
       /\ task[p].pc \in Unborn => user[p].wallet = NoWallet
       /\ At(p, "create") => First(p) \in queued
       /\ At(p, "count") => task[p].user \in User
       /\ At(p, "save") \/ At(p, "adopt") => Second(p) \in queued
       /\ At(p, "adopt") => \E w \in wallets : w[1] = p

IInv ==
  /\ Shape
  /\ \A p \in Task : TaskOK(p)
  /\ VerifiedByMail
  /\ WalletOnFile

-----------------------------------------------------------------------------
\* A task that is not the one to move keeps what it relies on.
LEMMA OthersOK ==
  ASSUME NEW p \in Task,
         \A q \in Task : TaskOK(q),
         \A q \in Task \ {p} : task'[q] = task[q],
         used \subseteq used', queued \subseteq queued',
         wallets \subseteq wallets',
         \A u \in User \ {p} : user'[u].wallet = user[u].wallet
  PROVE  \A q \in Task \ {p} : TaskOK(q)'
<1>1. SUFFICES ASSUME NEW q \in Task, q # p PROVE TaskOK(q)'
  OBVIOUS
<1>2. TaskOK(q) /\ task'[q] = task[q]
  BY <1>1
<1>3. q \in User => user'[q].wallet = user[q].wallet
  BY <1>1
<1> QED BY <1>2, <1>3 DEF TaskOK, At

\* What holds of the users is kept by a step that writes none of them.
LEMMA UsersOK ==
  ASSUME VerifiedByMail, WalletOnFile, user' = user,
         used \subseteq used', queued \subseteq queued',
         wallets \subseteq wallets'
  PROVE  VerifiedByMail' /\ WalletOnFile'
<1>1. VerifiedByMail'
  BY DEF VerifiedByMail
<1>2. WalletOnFile'
  BY DEF WalletOnFile, Exists
<1> QED BY <1>1, <1>2

\* A task moves to another await.
LEMMA TaskMoves ==
  ASSUME Shape, NEW p \in Task, NEW where \in PCs, Goto(p, where)
  PROVE  /\ task' \in [Task -> Tasks]
         /\ task'[p] = [task[p] EXCEPT !.pc = where]
         /\ task'[p].pc = where
         /\ task'[p].email = task[p].email /\ task'[p].code = task[p].code
         /\ task'[p].type = task[p].type /\ task'[p].user = task[p].user
         /\ \A q \in Task \ {p} : task'[q] = task[q]
<1>1. [task[p] EXCEPT !.pc = where] \in Tasks
  BY DEF Shape, Tasks
<1>2. task' = [task EXCEPT ![p] = [task[p] EXCEPT !.pc = where]]
  BY DEF Goto
<1> QED BY <1>1, <1>2 DEF Shape, Tasks

\* A task starts.
LEMMA TaskStarts ==
  ASSUME Shape, NEW p \in Task, NEW where \in PCs,
         NEW e \in Email \cup {None}, NEW c \in 0..MaxCode, NEW t \in Types,
         NEW u \in User \cup {None}, Start(p, where, e, c, t, u)
  PROVE  /\ task' \in [Task -> Tasks]
         /\ task'[p] = [pc |-> where, email |-> e, code |-> c, type |-> t,
                        user |-> u]
         /\ task[p].pc = "idle"
         /\ \A q \in Task \ {p} : task'[q] = task[q]
<1>1. [pc |-> where, email |-> e, code |-> c, type |-> t, user |-> u] \in Tasks
  BY DEF Tasks
<1> QED BY <1>1 DEF Shape, Start, At

LEMMA InitIInv == Init => IInv
<1> SUFFICES ASSUME Init PROVE IInv
  OBVIOUS
<1> USE RegistrationAssumption DEF Init
<1>1. NoAccount \in Accounts(Nat)
  BY DEF NoAccount, Accounts
<1>2. Idle \in Tasks
  BY DEF Idle, Tasks, PCs, Types
<1>3. Shape
  BY <1>1, <1>2 DEF Shape
<1>4. \A p \in Task : TaskOK(p)
  BY DEF TaskOK, At, Idle, NoAccount, Task
<1>5. VerifiedByMail /\ WalletOnFile
  BY DEF VerifiedByMail, WalletOnFile, Exists, NoAccount
<1> QED BY <1>3, <1>4, <1>5 DEF IInv

-----------------------------------------------------------------------------
(* The steps of a registration.                                            *)

LEMMA RegisterKeeps ==
  ASSUME IInv, NEW u \in User, RegisterStep(u)
  PROVE  IInv'
<1> USE RegistrationAssumption DEF IInv
<1>0. u \in Task
  BY DEF Task
<1>1. CASE \E e \in Email, r \in User \cup {None} : Register(u, e, r)
  <2>0. PICK e \in Email, r \in User \cup {None} : Register(u, e, r)
    BY <1>1
  <2>1. /\ task' \in [Task -> Tasks]
        /\ task'[u] = [pc |-> "send", email |-> e, code |-> 0,
                       type |-> "VERIFY_EMAIL", user |-> r]
        /\ task[u].pc = "idle"
        /\ \A q \in Task \ {u} : task'[q] = task[q]
    <3>1. Start(u, "send", e, 0, "VERIFY_EMAIL", r)
      BY <2>0 DEF Register
    <3>2. /\ "send" \in PCs /\ e \in Email \cup {None} /\ 0 \in 0..MaxCode
          /\ "VERIFY_EMAIL" \in Types
      BY <2>0 DEF PCs, Types
    <3> QED BY <1>0, <2>0, <3>1, <3>2, TaskStarts, Zenon
  <2>2. UNCHANGED <<docs, history>>
    BY <2>0 DEF Register
  <2>3. Shape'
    BY <2>1, <2>2 DEF Shape, docs, history
  <2>4. TaskOK(u)'
    <3>1. user'[u].wallet = NoWallet
      BY <1>0, <2>1, <2>2 DEF TaskOK, Unborn, docs
    <3>2. task'[u].pc = "send" /\ task'[u].email \in Email
      BY <2>0, <2>1
    <3> QED BY <3>1, <3>2 DEF TaskOK, At, Unborn
  <2>5. \A q \in Task \ {u} : TaskOK(q)'
    BY <1>0, <2>1, <2>2, OthersOK DEF docs, history
  <2>6. VerifiedByMail' /\ WalletOnFile'
    BY <2>2, UsersOK DEF docs, history
  <2> QED BY <2>3, <2>4, <2>5, <2>6
<1>2. CASE Check(u)
  <2>1. PICK where \in {"first", "done"} : Goto(u, where)
    BY <1>2 DEF Check
  <2>2. UNCHANGED <<docs, history>> /\ At(u, "check")
    BY <1>2 DEF Check
  <2>3. /\ task' \in [Task -> Tasks] /\ task'[u].pc = where
        /\ \A q \in Task \ {u} : task'[q] = task[q]
    BY <1>0, <2>1, TaskMoves DEF PCs
  <2>4. Shape'
    BY <2>2, <2>3 DEF Shape, docs, history
  <2>5. TaskOK(u)'
    BY <1>0, <2>2, <2>3 DEF TaskOK, At, Unborn, docs, history
  <2>6. \A q \in Task \ {u} : TaskOK(q)'
    BY <1>0, <2>2, <2>3, OthersOK DEF docs, history
  <2>7. VerifiedByMail' /\ WalletOnFile'
    BY <2>2, UsersOK DEF docs, history
  <2> QED BY <2>4, <2>5, <2>6, <2>7
<1>3. CASE FirstWallet(u)
  <2>1. /\ UNCHANGED <<user, otp, wallets, history>> /\ At(u, "first")
        /\ queued' = queued \cup {First(u)}
    BY <1>3 DEF FirstWallet
  <2>2. /\ task' \in [Task -> Tasks] /\ task'[u].pc = "create"
        /\ \A q \in Task \ {u} : task'[q] = task[q]
    BY <1>0, <1>3, TaskMoves DEF FirstWallet, PCs
  <2>3. Shape'
    BY <2>1, <2>2 DEF Shape, history
  <2>4. TaskOK(u)'
    BY <1>0, <2>1, <2>2 DEF TaskOK, At, Unborn, history
  <2>5. \A q \in Task \ {u} : TaskOK(q)'
    BY <1>0, <2>1, <2>2, OthersOK DEF history
  <2>6. VerifiedByMail' /\ WalletOnFile'
    BY <2>1, UsersOK DEF history
  <2> QED BY <2>3, <2>4, <2>5, <2>6
<1>4. CASE Create(u)
  <2>1. UNCHANGED <<otp, wallets, queued, history>> /\ At(u, "create")
    BY <1>4 DEF Create
  <2>2. CASE Holder(task[u].email) = {}
    <3> DEFINE where == IF task[u].user = None THEN "second" ELSE "count"
               new == [NoAccount EXCEPT !.email = task[u].email,
                         !.referrer = task[u].user, !.wallet = First(u)]
    <3>1. /\ task' \in [Task -> Tasks] /\ task'[u].pc = where
          /\ task'[u].user = task[u].user
          /\ \A q \in Task \ {u} : task'[q] = task[q]
      BY <1>0, <1>4, <2>2, TaskMoves DEF Create, PCs
    <3>2. user' = [user EXCEPT ![u] = new]
      BY <1>4, <2>2 DEF Create
    <3>3. /\ new \in Accounts(Nat) /\ new.verified = FALSE
          /\ new.wallet = First(u)
      <4>1. /\ task[u].email \in Email \cup {None}
            /\ task[u].user \in User \cup {None}
        BY <1>0 DEF Shape, Tasks
      <4>2. First(u) \in Wallet \cup {NoWallet}
        BY DEF First, Wallet
      <4>3. 0 \in 0..MaxCode /\ 0 \in Nat /\ FALSE \in BOOLEAN
        BY RegistrationAssumption
      <4>4. new \in Accounts(Nat)
        BY <4>1, <4>2, <4>3 DEF Accounts, NoAccount
      <4>5. new.verified = FALSE /\ new.wallet = First(u)
        BY DEF NoAccount
      <4> QED BY <4>4, <4>5
    <3>4. /\ user' \in [User -> Accounts(Nat)] /\ user'[u] = new
          /\ \A v \in User \ {u} : user'[v] = user[v]
      BY <3>2, <3>3 DEF Shape
    <3>5. Shape'
      BY <2>1, <3>1, <3>4 DEF Shape, history
    <3>6. TaskOK(u)'
      BY <1>0, <2>1, <3>1 DEF TaskOK, At, Unborn, Shape, Tasks
    <3>7. \A q \in Task \ {u} : TaskOK(q)'
      BY <1>0, <2>1, <3>1, <3>4, OthersOK DEF history
    <3>8. VerifiedByMail'
      BY <2>1, <3>3, <3>4 DEF VerifiedByMail, history
    <3>9. WalletOnFile'
      <4>1. First(u) \in queued /\ First(u) # Second(u)
        BY <1>0, <2>1 DEF TaskOK, First, Second
      <4> HIDE DEF new
      <4> QED BY <2>1, <3>3, <3>4, <4>1 DEF WalletOnFile, Exists
    <3> QED BY <3>5, <3>6, <3>7, <3>8, <3>9
  <2>3. CASE Holder(task[u].email) # {}
    <3>1. user' = user
      BY <1>4, <2>3 DEF Create
    <3>2. /\ task' \in [Task -> Tasks] /\ task'[u].pc = "done"
          /\ \A q \in Task \ {u} : task'[q] = task[q]
      BY <1>0, <1>4, <2>3, TaskMoves DEF Create, End, PCs
    <3>3. Shape'
      BY <2>1, <3>1, <3>2 DEF Shape, history
    <3>4. TaskOK(u)'
      BY <1>0, <3>2 DEF TaskOK, At, Unborn
    <3>5. \A q \in Task \ {u} : TaskOK(q)'
      BY <1>0, <2>1, <3>1, <3>2, OthersOK DEF history
    <3>6. VerifiedByMail' /\ WalletOnFile'
      BY <2>1, <3>1, UsersOK DEF history
    <3> QED BY <3>3, <3>4, <3>5, <3>6
  <2> QED BY <2>2, <2>3
<1>5. CASE Count(u)
  <2>1. UNCHANGED <<otp, wallets, queued, history>> /\ At(u, "count")
    BY <1>5 DEF Count
  <2>2. /\ task' \in [Task -> Tasks] /\ task'[u].pc = "second"
        /\ \A q \in Task \ {u} : task'[q] = task[q]
    BY <1>0, <1>5, TaskMoves DEF Count, PCs
  <2> DEFINE r == task[u].user
             new == [user[r] EXCEPT !.referrals = @ + 1]
  <2>3. r \in User
    BY <1>0, <2>1 DEF TaskOK
  <2>4. user' = [user EXCEPT ![r] = new]
    BY <1>5 DEF Count
  <2>5. /\ new \in Accounts(Nat)
        /\ new.email = user[r].email /\ new.verified = user[r].verified
        /\ new.wallet = user[r].wallet
    BY <2>3 DEF Shape, Accounts
  <2>6. /\ user' \in [User -> Accounts(Nat)]
        /\ \A v \in User : /\ user'[v].email = user[v].email
                           /\ user'[v].verified = user[v].verified
                           /\ user'[v].wallet = user[v].wallet
    BY <2>3, <2>4, <2>5 DEF Shape
  <2>7. Shape'
    BY <2>1, <2>2, <2>6 DEF Shape, history
  <2>8. TaskOK(u)'
    BY <1>0, <2>1, <2>2 DEF TaskOK, At, Unborn
  <2>9. \A q \in Task \ {u} : TaskOK(q)'
    BY <1>0, <2>1, <2>2, <2>6, OthersOK DEF history
  <2>10. VerifiedByMail'
    BY <2>1, <2>6 DEF VerifiedByMail, history
  <2>11. WalletOnFile'
    BY <2>1, <2>6 DEF WalletOnFile, Exists
  <2> QED BY <2>7, <2>8, <2>9, <2>10, <2>11
<1>6. CASE SecondWallet(u)
  <2>1. /\ UNCHANGED <<user, otp, wallets, history>> /\ At(u, "second")
        /\ queued' = queued \cup {Second(u)}
    BY <1>6 DEF SecondWallet
  <2>2. /\ task' \in [Task -> Tasks] /\ task'[u].pc = "save"
        /\ \A q \in Task \ {u} : task'[q] = task[q]
    BY <1>0, <1>6, TaskMoves DEF SecondWallet, PCs
  <2>3. Shape'
    BY <2>1, <2>2 DEF Shape, history
  <2>4. TaskOK(u)'
    BY <1>0, <2>1, <2>2 DEF TaskOK, At, Unborn
  <2>5. \A q \in Task \ {u} : TaskOK(q)'
    BY <1>0, <2>1, <2>2, OthersOK DEF history
  <2>6. VerifiedByMail' /\ WalletOnFile'
    BY <2>1, UsersOK DEF history
  <2> QED BY <2>3, <2>4, <2>5, <2>6
<1>7. CASE SaveWallet(u)
  <2>1. UNCHANGED <<user, otp, queued, history>> /\ At(u, "save")
    BY <1>7 DEF SaveWallet
  <2>2. PICK where \in {"adopt", "done"} :
          /\ Goto(u, where) /\ wallets \subseteq wallets'
          /\ where = "adopt" => \E w \in wallets' : w[1] = u
    <3>1. PICK a \in {"predicted", "zero"} :
            IF a = "zero" /\ \E w \in wallets : w[2] = "zero"
            THEN End(u) /\ UNCHANGED wallets
            ELSE Goto(u, "adopt") /\ wallets' = wallets \cup {<<u, a>>}
      BY <1>7 DEF SaveWallet
    <3>2. CASE End(u) /\ UNCHANGED wallets
      BY <3>2 DEF End
    <3>3. CASE Goto(u, "adopt") /\ wallets' = wallets \cup {<<u, a>>}
      <4>1. <<u, a>> \in wallets' /\ <<u, a>>[1] = u
        BY <3>3
      <4> QED BY <3>3, <4>1
    <3> QED BY <3>1, <3>2, <3>3
  <2>3. /\ task' \in [Task -> Tasks] /\ task'[u].pc = where
        /\ \A q \in Task \ {u} : task'[q] = task[q]
    BY <1>0, <2>2, TaskMoves, ZenonT(40) DEF PCs
  <2>4. Shape'
    BY <2>1, <2>3 DEF Shape, history
  <2>5. TaskOK(u)'
    BY <1>0, <2>1, <2>2, <2>3 DEF TaskOK, At, Unborn
  <2>6. \A q \in Task \ {u} : TaskOK(q)'
    BY <1>0, <2>1, <2>2, <2>3, OthersOK DEF history
  <2>7. VerifiedByMail' /\ WalletOnFile'
    BY <2>1, <2>2, UsersOK DEF history
  <2> QED BY <2>4, <2>5, <2>6, <2>7
<1>8. CASE Adopt(u)
  <2>1. UNCHANGED <<otp, wallets, queued, history>> /\ At(u, "adopt")
    BY <1>8 DEF Adopt
  <2>2. /\ task' \in [Task -> Tasks] /\ task'[u].pc = "done"
        /\ \A q \in Task \ {u} : task'[q] = task[q]
    BY <1>0, <1>8, TaskMoves DEF Adopt, End, PCs
  <2> DEFINE new == [user[u] EXCEPT !.wallet = Second(u)]
  <2>3. user' = [user EXCEPT ![u] = new]
    BY <1>8 DEF Adopt
  <2>4. /\ new \in Accounts(Nat)
        /\ new.email = user[u].email /\ new.verified = user[u].verified
        /\ new.wallet = Second(u)
    BY DEF Shape, Accounts, Second, Wallet
  <2>5. /\ user' \in [User -> Accounts(Nat)] /\ user'[u] = new
        /\ \A v \in User \ {u} : user'[v] = user[v]
    BY <2>3, <2>4 DEF Shape
  <2>6. Shape'
    BY <2>1, <2>2, <2>5 DEF Shape, history
  <2>7. TaskOK(u)'
    BY <1>0, <2>2 DEF TaskOK, At, Unborn
  <2>8. \A q \in Task \ {u} : TaskOK(q)'
    BY <1>0, <2>1, <2>2, <2>5, OthersOK DEF history
  <2>9. VerifiedByMail'
    BY <2>1, <2>4, <2>5 DEF VerifiedByMail, history
  <2>10. WalletOnFile'
    <3>1. Second(u) \in queued /\ \E w \in wallets : w[1] = u
      BY <1>0, <2>1 DEF TaskOK
    <3>2. user'[u].wallet = Second(u)
      BY <2>4, <2>5
    <3> HIDE DEF new
    <3> SUFFICES ASSUME NEW v \in User, Exists(v)'
                 PROVE  /\ user'[v].wallet \in queued'
                        /\ user'[v].wallet = Second(v) =>
                             \E w \in wallets' : w[1] = v
      BY DEF WalletOnFile, Exists
    <3>3. CASE v = u
      BY <2>1, <3>1, <3>2, <3>3
    <3>4. CASE v # u
      <4>1. user'[v] = user[v]
        BY <2>5, <3>4
      <4> QED BY <2>1, <4>1 DEF WalletOnFile, Exists
    <3> QED BY <3>3, <3>4
  <2> QED BY <2>6, <2>7, <2>8, <2>9, <2>10
<1> QED BY <1>1, <1>2, <1>3, <1>4, <1>5, <1>6, <1>7, <1>8 DEF RegisterStep

-----------------------------------------------------------------------------
(* The steps of the other calls, of sendOTP and of time.                   *)

\* A call that starts writes no document.
LEMMA StartKeeps ==
  ASSUME IInv, NEW p \in Call, NEW where \in {"send", "consume", "change"},
         NEW e \in Email, NEW c \in 0..MaxCode, NEW t \in Types,
         NEW u \in User \cup {None}, Start(p, where, e, c, t, u),
         where = "send" \/ u \in User \/ (where = "consume" /\ t = "RESET_PASSWORD"),
         UNCHANGED <<docs, history>>
  PROVE  IInv'
<1> USE DEF IInv
<1>0. p \in Task /\ p \notin User
  BY RegistrationAssumption DEF Task
<1>1. /\ task' \in [Task -> Tasks]
      /\ task'[p] = [pc |-> where, email |-> e, code |-> c, type |-> t,
                     user |-> u]
      /\ \A q \in Task \ {p} : task'[q] = task[q]
  <2>1. where \in PCs /\ e \in Email \cup {None}
    BY DEF PCs
  <2> QED BY <1>0, <2>1, TaskStarts
<1>2. Shape'
  BY <1>1 DEF Shape, docs, history
<1>3. TaskOK(p)'
  <2>1. /\ task'[p].pc = where /\ task'[p].email = e
        /\ task'[p].type = t /\ task'[p].user = u
    BY <1>1
  <2> QED BY <1>0, <2>1 DEF TaskOK, At
<1>4. \A q \in Task \ {p} : TaskOK(q)'
  BY <1>0, <1>1, OthersOK DEF docs, history
<1>5. VerifiedByMail' /\ WalletOnFile'
  BY UsersOK DEF docs, history
<1> QED BY <1>2, <1>3, <1>4, <1>5

LEMMA ConsumeKeeps ==
  ASSUME IInv, NEW p \in Call, Consume(p)
  PROVE  IInv'
<1> USE DEF IInv
<1>0. p \in Task /\ p \notin User /\ At(p, "consume") /\ task[p] \in Tasks
  BY RegistrationAssumption DEF Task, Consume, Shape
<1>1. UNCHANGED <<user, wallets, queued, issued, old, mailed, paid>>
  BY DEF Consume
<1>2. CASE \E d \in otp : Matches(d, p)
  <2> DEFINE where == IF task[p].type = "VERIFY_EMAIL" THEN "mark" ELSE "reset"
  <2>1. PICK d \in otp :
          /\ Matches(d, p)
          /\ otp' = otp \ {d}
          /\ used' = used \cup {<<d.email, d.code, d.type>>}
          /\ Goto(p, where)
    BY <1>2 DEF Consume
  <2>2. /\ d.email \in Email /\ d.code \in 1..MaxCode /\ d.type \in Types
        /\ d.email = task[p].email /\ d.code = task[p].code
        /\ d.type = task[p].type
    BY <2>1 DEF Shape, OTPs, Matches
  <2>3. where \in PCs
    BY DEF PCs
  <2>4. /\ task' \in [Task -> Tasks] /\ task'[p].pc = where
        /\ task'[p].email = task[p].email /\ task'[p].code = task[p].code
        /\ task'[p].type = task[p].type /\ task'[p].user = task[p].user
        /\ \A q \in Task \ {p} : task'[q] = task[q]
    BY <1>0, <2>1, <2>3, TaskMoves
  <2>5. Shape'
    <3>1. <<d.email, d.code, d.type>> \in Mails
      BY <2>2 DEF Mails
    <3> QED BY <1>1, <2>1, <2>4, <3>1 DEF Shape
  <2>6. TaskOK(p)'
    <3>1. <<task[p].email, task[p].code, task[p].type>> \in used'
      BY <2>1, <2>2
    <3>2. task[p].type = "VERIFY_EMAIL" \/ task[p].type = "RESET_PASSWORD"
      BY <2>2 DEF Types
    <3>3. task[p].type = "VERIFY_EMAIL" => task[p].user \in User
      BY <1>0 DEF TaskOK
    <3> QED BY <1>0, <2>4, <3>1, <3>2, <3>3 DEF TaskOK, At
  <2>7. \A q \in Task \ {p} : TaskOK(q)'
    BY <1>0, <1>1, <2>1, <2>4, OthersOK
  <2>8. VerifiedByMail' /\ WalletOnFile'
    BY <1>1, <2>1, UsersOK
  <2> QED BY <2>5, <2>6, <2>7, <2>8
<1>3. CASE ~ \E d \in otp : Matches(d, p)
  <2>1. Goto(p, "done") /\ UNCHANGED <<otp, used>>
    BY <1>3 DEF Consume, End
  <2>2. /\ task' \in [Task -> Tasks] /\ task'[p].pc = "done"
        /\ \A q \in Task \ {p} : task'[q] = task[q]
    BY <1>0, <2>1, TaskMoves DEF PCs
  <2>3. Shape'
    BY <1>1, <2>1, <2>2 DEF Shape
  <2>4. TaskOK(p)'
    BY <1>0, <2>2 DEF TaskOK, At
  <2>5. \A q \in Task \ {p} : TaskOK(q)'
    BY <1>0, <1>1, <2>1, <2>2, OthersOK
  <2>6. VerifiedByMail' /\ WalletOnFile'
    BY <1>1, <2>1, UsersOK
  <2> QED BY <2>3, <2>4, <2>5, <2>6
<1> QED BY <1>2, <1>3

LEMMA MarkKeeps ==
  ASSUME IInv, NEW p \in Call, MarkVerified(p)
  PROVE  IInv'
<1> USE DEF IInv
<1>0. p \in Task /\ p \notin User /\ At(p, "mark")
  BY RegistrationAssumption DEF Task, MarkVerified
<1>1. UNCHANGED <<otp, wallets, queued, history>>
  BY DEF MarkVerified
<1>2. PICK where \in {"done", "award"} : Goto(p, where)
  BY DEF MarkVerified
<1>3. /\ task' \in [Task -> Tasks] /\ task'[p].pc = where
      /\ \A q \in Task \ {p} : task'[q] = task[q]
  BY <1>0, <1>2, TaskMoves DEF PCs
<1> DEFINE Mark(u) ==
      [user[u] EXCEPT !.verified = @ \/ user[u].email = task[p].email]
<1>4. user' = [u \in User |-> Mark(u)]
  BY DEF MarkVerified
<1>5. \A u \in User :
        /\ Mark(u) \in Accounts(Nat)
        /\ Mark(u).email = user[u].email /\ Mark(u).wallet = user[u].wallet
        /\ Mark(u).verified =>
             user[u].verified \/ user[u].email = task[p].email
  BY DEF Shape, Accounts
<1>6. /\ user' \in [User -> Accounts(Nat)]
      /\ \A u \in User :
           /\ user'[u].email = user[u].email
           /\ user'[u].wallet = user[u].wallet
           /\ user'[u].verified =>
                user[u].verified \/ user[u].email = task[p].email
  BY <1>4, <1>5
<1>7. Shape'
  BY <1>1, <1>3, <1>6 DEF Shape, history
<1>8. TaskOK(p)'
  BY <1>0, <1>3 DEF TaskOK, At
<1>9. \A q \in Task \ {p} : TaskOK(q)'
  BY <1>0, <1>1, <1>3, <1>6, OthersOK DEF history
<1>10. VerifiedByMail'
  <2>1. SUFFICES ASSUME NEW u \in User, user'[u].verified
                 PROVE  \E c \in 1..MaxCode :
                          <<user[u].email, c, "VERIFY_EMAIL">> \in used
    BY <1>1, <1>6 DEF VerifiedByMail, history
  <2>2. CASE user[u].verified
    BY <2>2 DEF VerifiedByMail
  <2>3. CASE user[u].email = task[p].email
    <3>1. <<task[p].email, task[p].code, "VERIFY_EMAIL">> \in used
      BY <1>0 DEF TaskOK
    <3>2. task[p].code \in 1..MaxCode
      BY <3>1 DEF Shape, Mails
    <3> QED BY <2>3, <3>1, <3>2
  <2> QED BY <1>6, <2>1, <2>2, <2>3
<1>11. WalletOnFile'
  BY <1>1, <1>6 DEF WalletOnFile, Exists
<1> QED BY <1>7, <1>8, <1>9, <1>10, <1>11

LEMMA SetPasswordKeeps ==
  ASSUME IInv, NEW p \in Call, SetPassword(p)
  PROVE  IInv'
<1> USE DEF IInv
<1>0. p \in Task /\ p \notin User /\ task[p] \in Tasks
  BY RegistrationAssumption DEF Task, Shape
<1>1. UNCHANGED <<otp, wallets, queued, history>>
  BY DEF SetPassword
<1>2. /\ task' \in [Task -> Tasks] /\ task'[p].pc = "done"
      /\ \A q \in Task \ {p} : task'[q] = task[q]
  BY <1>0, TaskMoves DEF SetPassword, End, PCs
<1> DEFINE New(u) == [user[u] EXCEPT !.password = task[p].code]
<1>3. \A u \in User : /\ New(u) \in Accounts(Nat)
                       /\ New(u).email = user[u].email
                       /\ New(u).verified = user[u].verified
                       /\ New(u).wallet = user[u].wallet
  BY <1>0 DEF Shape, Accounts, Tasks
<1>4. user' = [u \in User |-> IF user[u].email = task[p].email
                              THEN New(u) ELSE user[u]]
  BY DEF SetPassword
<1>5. /\ user' \in [User -> Accounts(Nat)]
      /\ \A u \in User : /\ user'[u].email = user[u].email
                         /\ user'[u].verified = user[u].verified
                         /\ user'[u].wallet = user[u].wallet
  BY <1>3, <1>4 DEF Shape
<1>6. Shape'
  BY <1>1, <1>2, <1>5 DEF Shape, history
<1>7. TaskOK(p)'
  BY <1>0, <1>2 DEF TaskOK, At
<1>8. \A q \in Task \ {p} : TaskOK(q)'
  BY <1>0, <1>1, <1>2, <1>5, OthersOK DEF history
<1>9. VerifiedByMail'
  BY <1>1, <1>5 DEF VerifiedByMail, history
<1>10. WalletOnFile'
  BY <1>1, <1>5 DEF WalletOnFile, Exists
<1> QED BY <1>6, <1>7, <1>8, <1>9, <1>10

LEMMA ChangeKeeps ==
  ASSUME IInv, NEW p \in Call, Change(p)
  PROVE  IInv'
<1> USE DEF IInv
<1>0. p \in Task /\ p \notin User /\ At(p, "change")
  BY RegistrationAssumption DEF Task, Change
<1>1. UNCHANGED <<otp, wallets, queued, history>>
  BY DEF Change
<1> DEFINE u == task[p].user
           new == [user[u] EXCEPT !.email = task[p].email, !.verified = FALSE]
<1>2. u \in User /\ task[p].email \in Email
  BY <1>0 DEF TaskOK
<1>3. CASE Holder(task[p].email) \subseteq {u}
  <2>1. /\ task' \in [Task -> Tasks] /\ task'[p].pc = "send"
        /\ task'[p].email = task[p].email
        /\ \A q \in Task \ {p} : task'[q] = task[q]
    BY <1>0, <1>3, TaskMoves DEF Change, PCs
  <2>2. user' = [user EXCEPT ![u] = new]
    <3>1. user' = [user EXCEPT ![u].email = task[p].email,
                               ![u].verified = FALSE]
      BY <1>3 DEF Change
    <3> QED BY <1>2, <3>1 DEF Shape, Accounts
  <2>3. /\ new \in Accounts(Nat)
        /\ new.verified = FALSE /\ new.wallet = user[u].wallet
    BY <1>2, ZenonT(40) DEF Shape, Accounts
  <2>4. /\ user' \in [User -> Accounts(Nat)] /\ user'[u] = new
        /\ \A v \in User \ {u} : user'[v] = user[v]
    BY <1>2, <2>2, <2>3 DEF Shape
  <2>5. Shape'
    BY <1>1, <2>1, <2>4 DEF Shape, history
  <2>6. TaskOK(p)'
    BY <1>0, <1>2, <2>1 DEF TaskOK, At
  <2>7. \A q \in Task \ {p} : TaskOK(q)'
    <3>1. \A v \in User : user'[v].wallet = user[v].wallet
      BY <1>2, <2>3, <2>4
    <3> QED BY <1>0, <1>1, <2>1, <3>1, OthersOK DEF history
  <2>8. VerifiedByMail'
    BY <1>1, <2>3, <2>4 DEF VerifiedByMail, history
  <2>9. WalletOnFile'
    BY <1>1, <1>2, <2>3, <2>4, ZenonT(40) DEF WalletOnFile, Exists
  <2> QED BY <2>5, <2>6, <2>7, <2>8, <2>9
<1>4. CASE ~ (Holder(task[p].email) \subseteq {u})
  <2>1. Goto(p, "done") /\ user' = user
    BY <1>4 DEF Change, End
  <2>2. /\ task' \in [Task -> Tasks] /\ task'[p].pc = "done"
        /\ \A q \in Task \ {p} : task'[q] = task[q]
    BY <1>0, <2>1, TaskMoves DEF PCs
  <2>3. Shape'
    BY <1>1, <2>1, <2>2 DEF Shape, history
  <2>4. TaskOK(p)'
    BY <1>0, <2>2 DEF TaskOK, At
  <2>5. \A q \in Task \ {p} : TaskOK(q)'
    BY <1>0, <1>1, <2>1, <2>2, OthersOK DEF history
  <2>6. VerifiedByMail' /\ WalletOnFile'
    BY <1>1, <2>1, UsersOK DEF history
  <2> QED BY <2>3, <2>4, <2>5, <2>6
<1> QED BY <1>3, <1>4

LEMMA AwardKeeps ==
  ASSUME IInv, NEW p \in Call, Award(p)
  PROVE  IInv'
<1> USE DEF IInv
<1>0. p \in Task /\ p \notin User
  BY RegistrationAssumption DEF Task
<1>1. UNCHANGED <<docs, issued, old, mailed, used>>
  BY DEF Award
<1>2. /\ task' \in [Task -> Tasks] /\ task'[p].pc = "done"
      /\ \A q \in Task \ {p} : task'[q] = task[q]
  BY <1>0, TaskMoves DEF Award, End, PCs
<1>3. Shape'
  BY <1>1, <1>2 DEF Shape, docs
<1>4. TaskOK(p)'
  BY <1>0, <1>2 DEF TaskOK, At
<1>5. \A q \in Task \ {p} : TaskOK(q)'
  BY <1>0, <1>1, <1>2, OthersOK DEF docs
<1>6. VerifiedByMail' /\ WalletOnFile'
  BY <1>1, UsersOK DEF docs
<1> QED BY <1>3, <1>4, <1>5, <1>6

LEMMA CallKeeps ==
  ASSUME IInv, NEW p \in Call, CallStep(p)
  PROVE  IInv'
<1> USE RegistrationAssumption
<1>1. CASE \E e \in Email, t \in Types :
             RequestCode(p, e, t) \/ RequestOtp(p, e, t)
  <2>1. PICK e \in Email, t \in Types :
               RequestCode(p, e, t) \/ RequestOtp(p, e, t)
    BY <1>1
  <2>2. Start(p, "send", e, 0, t, None) /\ UNCHANGED <<docs, history>>
    BY <2>1 DEF RequestCode, RequestOtp
  <2>3. 0 \in 0..MaxCode /\ None \in User \cup {None}
    OBVIOUS
  <2> QED BY <2>2, <2>3, StartKeeps
<1>2. CASE \E u \in User, c \in 1..MaxCode : VerifyEmail(p, u, c)
  <2>1. PICK u \in User, c \in 1..MaxCode : VerifyEmail(p, u, c)
    BY <1>2
  <2> DEFINE e == user[u].email
  <2>2. /\ Start(p, "consume", e, c, "VERIFY_EMAIL", u)
        /\ UNCHANGED <<docs, history>>
        /\ \E t \in Types : <<e, c, t>> \in mailed
    BY <2>1 DEF VerifyEmail
  <2>3. e \in Email
    BY <2>2 DEF IInv, Shape, Mails
  <2>4. c \in 0..MaxCode /\ "VERIFY_EMAIL" \in Types
    BY DEF Types
  <2> QED BY <2>2, <2>3, <2>4, StartKeeps
<1>3. CASE \E e \in Email, c \in 1..MaxCode : ResetPassword(p, e, c)
  <2>1. PICK e \in Email, c \in 1..MaxCode : ResetPassword(p, e, c)
    BY <1>3
  <2>2. /\ Start(p, "consume", e, c, "RESET_PASSWORD", None)
        /\ UNCHANGED <<docs, history>>
    BY <2>1 DEF ResetPassword
  <2>3. c \in 0..MaxCode /\ "RESET_PASSWORD" \in Types
    BY DEF Types
  <2> QED BY <2>2, <2>3, StartKeeps
<1>4. CASE \E u \in User, e \in Email : ChangeEmail(p, u, e)
  <2>1. PICK u \in User, e \in Email : ChangeEmail(p, u, e)
    BY <1>4
  <2>2. /\ Start(p, "change", e, 0, "VERIFY_EMAIL", u)
        /\ UNCHANGED <<docs, history>>
    BY <2>1 DEF ChangeEmail
  <2>3. 0 \in 0..MaxCode /\ "VERIFY_EMAIL" \in Types
    BY DEF Types
  <2> QED BY <2>2, <2>3, StartKeeps
<1> QED BY <1>1, <1>2, <1>3, <1>4, ConsumeKeeps, MarkKeeps, AwardKeeps,
           SetPasswordKeeps, ChangeKeeps DEF CallStep

LEMMA SendKeeps ==
  ASSUME IInv, NEW p \in Task, Send(p)
  PROVE  IInv'
<1> USE RegistrationAssumption DEF IInv
<1> DEFINE c == issued + 1
<1>1. /\ At(p, "send") /\ issued < MaxCode /\ issued' = c /\ StoreCode(p, c)
      /\ task' = [task EXCEPT ![p].pc = "mail", ![p].code = c]
      /\ UNCHANGED <<user, wallets, queued, old, mailed, used, paid>>
  BY DEF Send
<1>2. c \in 1..MaxCode /\ issued' \in 0..MaxCode
  BY <1>1 DEF Shape
<1>3. /\ task[p] \in Tasks /\ task[p].email \in Email
      /\ task[p].type \in Types
  BY <1>1 DEF Shape, Tasks, TaskOK
<1> DEFINE next == [task[p] EXCEPT !.pc = "mail", !.code = c]
<1>4. /\ next \in Tasks /\ next.pc = "mail" /\ next.code = c
      /\ next.email = task[p].email
  <2>1. c \in 0..MaxCode /\ "mail" \in PCs
    BY <1>2 DEF PCs
  <2> HIDE DEF c
  <2>2. next \in Tasks
    BY <1>3, <2>1 DEF Tasks
  <2>3. next.pc = "mail" /\ next.code = c /\ next.email = task[p].email
    BY <1>3 DEF Tasks
  <2> QED BY <2>2, <2>3
<1>5. task' = [task EXCEPT ![p] = next]
  BY <1>1 DEF Shape, Tasks
<1>6. /\ task' \in [Task -> Tasks] /\ task'[p] = next
      /\ \A q \in Task \ {p} : task'[q] = task[q]
  BY <1>4, <1>5 DEF Shape
<1>7. otp' \in SUBSET OTPs
  <2>1. \A a \in 0..TTL :
          [email |-> task[p].email, code |-> c, type |-> task[p].type,
           age |-> a] \in OTPs
    BY <1>2, <1>3 DEF OTPs
  <2>2. 0 \in 0..TTL /\ \A d \in otp : d.age \in 0..TTL
    BY DEF Shape, OTPs, TTL
  <2>3. CASE otp = {}
    BY <1>1, <2>1, <2>2, <2>3 DEF StoreCode
  <2>4. CASE otp # {}
    <3>1. PICK d \in otp :
            otp' = (otp \ {d}) \cup
                     {[email |-> task[p].email, code |-> c,
                       type |-> task[p].type, age |-> d.age]}
      BY <1>1, <2>4 DEF StoreCode
    <3> QED BY <2>1, <2>2, <3>1 DEF Shape
  <2> QED BY <2>3, <2>4
<1>8. Shape'
  BY <1>1, <1>2, <1>6, <1>7 DEF Shape
<1>9. TaskOK(p)'
  <2>1. p \in User => user'[p].wallet = NoWallet
    BY <1>1 DEF TaskOK, At, Unborn
  <2>2. /\ task'[p].pc = "mail" /\ task'[p].code \in 1..MaxCode
        /\ task'[p].email \in Email
    BY <1>2, <1>3, <1>4, <1>6
  <2> QED BY <2>1, <2>2 DEF TaskOK, At, Unborn
<1>10. \A q \in Task \ {p} : TaskOK(q)'
  BY <1>1, <1>6, OthersOK
<1>11. VerifiedByMail' /\ WalletOnFile'
  BY <1>1, UsersOK
<1> QED BY <1>8, <1>9, <1>10, <1>11

LEMMA MailKeeps ==
  ASSUME IInv, NEW p \in Task, Mail(p)
  PROVE  IInv'
<1> USE RegistrationAssumption DEF IInv
<1>1. /\ At(p, "mail")
      /\ mailed' = mailed \cup {<<task[p].email, task[p].code, task[p].type>>}
      /\ UNCHANGED <<docs, issued, old, used, paid>>
  BY DEF Mail
<1>2. PICK where \in {"check", "done"} : Goto(p, where)
  BY DEF Mail
<1>3. /\ task' \in [Task -> Tasks] /\ task'[p].pc = where
      /\ \A q \in Task \ {p} : task'[q] = task[q]
  BY <1>2, TaskMoves DEF PCs
<1>4. <<task[p].email, task[p].code, task[p].type>> \in Mails
  BY <1>1 DEF TaskOK, Shape, Tasks, Mails
<1>5. Shape'
  BY <1>1, <1>3, <1>4 DEF Shape, docs
<1>6. TaskOK(p)'
  BY <1>1, <1>3 DEF TaskOK, At, Unborn, docs
<1>7. \A q \in Task \ {p} : TaskOK(q)'
  BY <1>1, <1>3, OthersOK DEF docs
<1>8. VerifiedByMail' /\ WalletOnFile'
  BY <1>1, UsersOK DEF docs
<1> QED BY <1>5, <1>6, <1>7, <1>8

LEMMA TimeKeeps ==
  ASSUME IInv, Tick \/ Expire \/ UNCHANGED vars
  PROVE  IInv'
<1> USE DEF IInv
<1>1. /\ UNCHANGED <<user, wallets, queued, task, issued, mailed, used>>
  BY DEF Tick, Expire, vars, docs, history
<1>2. otp' \in SUBSET OTPs
  <2>1. CASE Tick
    <3>1. \A d \in otp : [d EXCEPT !.age = @ + 1] \in OTPs
      <4>1. SUFFICES ASSUME NEW d \in otp
                     PROVE  [d EXCEPT !.age = @ + 1] \in OTPs
        OBVIOUS
      <4>2. d \in OTPs /\ d.age + 1 \in 0..TTL
        BY <2>1 DEF Tick, Shape, OTPs, TTL
      <4> QED BY <4>2 DEF OTPs
    <3> QED BY <2>1, <3>1 DEF Tick
  <2>2. CASE Expire
    BY <2>2 DEF Expire, Shape
  <2>3. CASE UNCHANGED vars
    BY <2>3 DEF vars, docs, Shape
  <2> QED BY <2>1, <2>2, <2>3
<1>3. Shape'
  BY <1>1, <1>2 DEF Shape
<1>4. \A p \in Task : TaskOK(p)'
  BY <1>1 DEF TaskOK, At
<1>5. VerifiedByMail' /\ WalletOnFile'
  BY <1>1, UsersOK
<1> QED BY <1>3, <1>4, <1>5

LEMMA NextIInv == IInv /\ [Next]_vars => IInv'
<1> SUFFICES ASSUME IInv, [Next]_vars PROVE IInv'
  OBVIOUS
<1>1. CASE \E u \in User : RegisterStep(u)
  BY <1>1, RegisterKeeps
<1>2. CASE \E p \in Call : CallStep(p)
  BY <1>2, CallKeeps
<1>3. CASE \E p \in Task : Send(p) \/ Mail(p)
  BY <1>3, SendKeeps, MailKeeps
<1>4. CASE Tick \/ Expire \/ UNCHANGED vars
  BY <1>4, TimeKeeps
<1> QED BY <1>1, <1>2, <1>3, <1>4 DEF Next

-----------------------------------------------------------------------------
\* What every task may rely on at each of its awaits holds throughout.
THEOREM Inductive == Spec => []IInv
<1> QED BY InitIInv, NextIInv, PTL DEF Spec

\* A user is verified only with a verification code that was mailed to the
\* address the user has now (MarkVerified updates by address).
THEOREM VerifiedUsers == Spec => []VerifiedByMail
<1>1. IInv => VerifiedByMail
  BY DEF IInv
<1> QED BY <1>1, Inductive, PTL

\* The wallet of a user was queued for creation; the one that replaces it is
\* on file (autoGenerateWalletForUser saves before it adopts).
THEOREM WalletsOnFile == Spec => []WalletOnFile
<1>1. IInv => WalletOnFile
  BY DEF IInv
<1> QED BY <1>1, Inductive, PTL

\* Only resetPassword with an accepted code replaces the password of a user.
THEOREM PasswordsByMail == Spec => PasswordByMail
<1> DEFINE A == \A u \in User :
       Exists(u) /\ user'[u].password # user[u].password =>
         <<user[u].email, user'[u].password, "RESET_PASSWORD">> \in used
<1>1. ASSUME IInv, [Next]_vars PROVE A
  <2> SUFFICES ASSUME NEW u \in User, Exists(u),
                      user'[u].password # user[u].password
               PROVE <<user[u].email, user'[u].password, "RESET_PASSWORD">>
                       \in used
    OBVIOUS
  <2> USE <1>1 DEF IInv
  <2>1. ASSUME NEW v \in User, RegisterStep(v)
        PROVE  user'[u].password = user[u].password
    <3>0. v \in Task /\ v \in User
      BY DEF Task
    <3>1. CASE \E e \in Email, r \in User \cup {None} : Register(v, e, r)
      BY <3>1 DEF Register, docs
    <3>2. CASE Check(v) \/ FirstWallet(v) \/ SecondWallet(v) \/ SaveWallet(v)
      BY <3>2 DEF Check, FirstWallet, SecondWallet, SaveWallet, docs
    <3>3. CASE Create(v)
      <4>1. user[v].wallet = NoWallet
        BY <3>0, <3>3 DEF Create, TaskOK, At, Unborn
      <4>2. v # u
        BY <4>1 DEF Exists
      <4>3. user'[u] = user[u]
        BY <3>3, <4>2 DEF Create, Shape
      <4> QED BY <4>3
    <3>4. CASE Count(v)
      <4>1. task[v].user \in User
        BY <3>0, <3>4 DEF Count, TaskOK
      <4> QED BY <3>4, <4>1 DEF Count, Shape, Accounts
    <3>5. CASE Adopt(v)
      BY <3>5 DEF Adopt, Shape, Accounts
    <3> QED BY <2>1, <3>1, <3>2, <3>3, <3>4, <3>5 DEF RegisterStep
  <2>2. ASSUME NEW p \in Call, CallStep(p), ~ SetPassword(p)
        PROVE  user'[u].password = user[u].password
    <3>1. CASE MarkVerified(p)
      BY <3>1 DEF MarkVerified, Shape, Accounts
    <3>2. CASE Change(p)
      <4>1. p \in Task /\ task[p].user \in User
        BY <3>2 DEF Change, TaskOK, Task
      <4> QED BY <3>2, <4>1 DEF Change, Shape, Accounts
    <3>3. CASE ~ MarkVerified(p) /\ ~ Change(p)
      BY <2>2, <3>3 DEF CallStep, RequestCode, RequestOtp, VerifyEmail,
                        ResetPassword, ChangeEmail, Consume, Award, docs
    <3> QED BY <3>1, <3>2, <3>3
  <2>3. ASSUME NEW p \in Call, SetPassword(p)
        PROVE  <<user[u].email, user'[u].password, "RESET_PASSWORD">> \in used
    <3>1. p \in Task /\ At(p, "reset")
      BY <2>3 DEF SetPassword, Task
    <3>2. <<task[p].email, task[p].code, "RESET_PASSWORD">> \in used
      BY <3>1 DEF TaskOK
    <3>3. user[u].email = task[p].email /\ user'[u].password = task[p].code
      BY <2>3 DEF SetPassword, Shape, Accounts
    <3> QED BY <3>2, <3>3
  <2>4. ASSUME \/ \E p \in Task : Send(p) \/ Mail(p)
               \/ Tick \/ Expire \/ UNCHANGED vars
        PROVE  user' = user
    BY <2>4 DEF Send, Mail, Tick, Expire, vars, docs
  <2> QED BY <1>1, <2>1, <2>2, <2>3, <2>4 DEF Next
<1> QED BY <1>1, Inductive, PTL DEF Spec, PasswordByMail

-----------------------------------------------------------------------------
(* Counting: referrals, codes and bonuses.                                 *)

LEMMA OthersStay ==
  ASSUME Shape, NEW p \in Task, NEW q \in Task \ {p},
         \/ RegisterStep(p) \/ CallStep(p) \/ Send(p) \/ Mail(p)
  PROVE  task'[q] = task[q]
<1> USE DEF Goto, End, Start, Shape
<1>1. CASE RegisterStep(p)
  BY <1>1 DEF RegisterStep, Register, Check, FirstWallet, Create, Count,
              SecondWallet, SaveWallet, Adopt
<1>2. CASE CallStep(p)
  BY <1>2 DEF CallStep, RequestCode, RequestOtp, VerifyEmail, ResetPassword,
              ChangeEmail, Consume, MarkVerified, Award, SetPassword, Change
<1>3. CASE Send(p) \/ Mail(p)
  BY <1>3 DEF Send, Mail
<1> QED BY <1>1, <1>2, <1>3

\* The registrations that will still count for r, and those of its referrals.
Counting(r) == {u \in User : At(u, "count") /\ task[u].user = r}
Referred(r) == {u \in User : user[u].referrer = r}

ReferralInv ==
  /\ \A u \in User : user[u].wallet = NoWallet => user[u].referrer = None
  /\ ReferralsExist

\* A step that neither creates a user nor counts a referral.
NoReferral ==
  \A u \in User :
    /\ user'[u].referrals = user[u].referrals
    /\ user'[u].referrer = user[u].referrer
    /\ user'[u].wallet = NoWallet => user[u].wallet = NoWallet
    /\ task'[u].pc = "count" => task'[u] = task[u]

LEMMA ReferralSets ==
  ASSUME NEW r \in User
  PROVE  /\ IsFiniteSet(Counting(r)) /\ IsFiniteSet(Referred(r))
         /\ Cardinality(Counting(r)) \in Nat /\ Cardinality(Referred(r)) \in Nat
         /\ Cardinality(Referred(r)) <= Cardinality(User)
         /\ Cardinality(User) \in Nat
<1>1. Counting(r) \in SUBSET User /\ Referred(r) \in SUBSET User
  BY DEF Counting, Referred
<1> QED BY <1>1, RegistrationAssumption, FS_Subset, FS_CardinalityType

LEMMA NoReferralKeeps ==
  ASSUME IInv, IInv', ReferralInv, NoReferral
  PROVE  ReferralInv'
<1>1. SUFFICES ASSUME NEW r \in User
               PROVE  user'[r].referrals + Cardinality(Counting(r)')
                        <= Cardinality(Referred(r)')
  BY DEF ReferralInv, NoReferral, ReferralsExist, Counting, Referred, At
<1>2. Counting(r)' \in SUBSET Counting(r) /\ Referred(r)' = Referred(r)
  BY DEF NoReferral, Counting, Referred, At
<1>3. /\ Cardinality(Counting(r)') <= Cardinality(Counting(r))
      /\ Cardinality(Counting(r)') \in Nat
  BY <1>2, ReferralSets, FS_Subset, FS_CardinalityType
<1>4. user[r].referrals \in Nat /\ user'[r].referrals = user[r].referrals
  BY DEF IInv, Shape, Accounts, NoReferral
<1>5. user[r].referrals + Cardinality(Counting(r)) <= Cardinality(Referred(r))
  BY DEF ReferralInv, ReferralsExist, Counting, Referred
<1> QED BY <1>2, <1>3, <1>4, <1>5, ReferralSets

\* A new user is one more referral of its referrer, to be counted.
LEMMA CreateReferral ==
  ASSUME IInv, ReferralInv, NEW u \in User, Create(u)
  PROVE  ReferralInv' \/ NoReferral
<1> USE RegistrationAssumption DEF IInv
<1>0. u \in Task /\ At(u, "create") /\ task[u].user \in User \cup {None}
  BY DEF Task, Create, Shape, Tasks
<1>1. \A v \in User \ {u} : task'[v] = task[v]
  BY <1>0, OthersStay DEF RegisterStep, Task
<1>2. CASE Holder(task[u].email) # {}
  <2>1. user' = user /\ Goto(u, "done")
    BY <1>2 DEF Create, End
  <2>2. task'[u].pc = "done"
    BY <1>0, <2>1, TaskMoves DEF PCs
  <2> QED BY <1>1, <2>1, <2>2 DEF NoReferral
<1>3. CASE Holder(task[u].email) = {}
  <2> DEFINE where == IF task[u].user = None THEN "second" ELSE "count"
             new == [NoAccount EXCEPT !.email = task[u].email,
                       !.referrer = task[u].user, !.wallet = First(u)]
  <2>1. user' = [user EXCEPT ![u] = new] /\ Goto(u, where)
    BY <1>3 DEF Create
  <2>2. task'[u].pc = where /\ task'[u].user = task[u].user
    BY <1>0, <2>1, TaskMoves DEF PCs
  <2>3. /\ new.referrals = 0 /\ new.referrer = task[u].user
        /\ new.wallet = First(u) /\ First(u) # NoWallet
    BY DEF NoAccount, First, NoWallet
  <2>4. /\ user'[u] = new /\ \A v \in User \ {u} : user'[v] = user[v]
    BY <2>1 DEF Shape
  <2> HIDE DEF new, where
  <2>5. user[u].referrer = None
    BY <1>0 DEF TaskOK, At, Unborn, ReferralInv
  <2>6. ASSUME NEW r \in User
        PROVE  user'[r].referrals + Cardinality(Counting(r)')
                 <= Cardinality(Referred(r)')
    <3>1. user[r].referrals + Cardinality(Counting(r)) <= Cardinality(Referred(r))
      BY DEF ReferralInv, ReferralsExist, Counting, Referred
    <3>2. user[r].referrals \in Nat /\ user'[r].referrals \in {0, user[r].referrals}
      BY <2>3, <2>4 DEF Shape, Accounts
    <3>3. u \notin Counting(r) /\ u \notin Referred(r)
      BY <1>0, <2>5 DEF Counting, Referred, At
    <3>4. CASE task[u].user = r
      <4>1. Counting(r)' = Counting(r) \cup {u}
        BY <1>1, <2>2, <3>4 DEF Counting, At, where
      <4>2. Referred(r)' = Referred(r) \cup {u}
        BY <2>3, <2>4, <3>4 DEF Referred
      <4>3. /\ Cardinality(Counting(r)') = Cardinality(Counting(r)) + 1
            /\ Cardinality(Referred(r)') = Cardinality(Referred(r)) + 1
        BY <3>3, <4>1, <4>2, ReferralSets, FS_AddElement
      <4> QED BY <3>1, <3>2, <4>3, ReferralSets
    <3>5. CASE task[u].user # r
      <4>1. Counting(r)' = Counting(r)
        BY <1>1, <2>2, <3>3, <3>5 DEF Counting, At
      <4>2. Referred(r)' = Referred(r)
        BY <2>3, <2>4, <3>3, <3>5 DEF Referred
      <4> QED BY <3>1, <3>2, <4>1, <4>2, ReferralSets
    <3> QED BY <3>4, <3>5
  <2>7. \A v \in User : user'[v].wallet = NoWallet => user'[v].referrer = None
    BY <2>3, <2>4 DEF ReferralInv
  <2> QED BY <2>6, <2>7 DEF ReferralInv, ReferralsExist, Counting, Referred, At
<1> QED BY <1>2, <1>3

\* Counting moves one registration from those to be counted to the count.
LEMMA CountReferral ==
  ASSUME IInv, ReferralInv, NEW u \in User, Count(u)
  PROVE  ReferralInv'
<1> USE RegistrationAssumption DEF IInv
<1> DEFINE r0 == task[u].user
           new == [user[r0] EXCEPT !.referrals = @ + 1]
<1>0. u \in Task /\ At(u, "count") /\ r0 \in User
  BY DEF Task, Count, TaskOK
<1>1. \A v \in User \ {u} : task'[v] = task[v]
  BY <1>0, OthersStay DEF RegisterStep, Task
<1>2. task'[u].pc = "second"
  BY <1>0, TaskMoves DEF Count, PCs
<1>3. user' = [user EXCEPT ![r0] = new]
  BY DEF Count
<1>4. /\ user[r0].referrals \in Nat /\ new.referrals = user[r0].referrals + 1
      /\ new.referrer = user[r0].referrer /\ new.wallet = user[r0].wallet
  BY <1>0 DEF Shape, Accounts
<1>5. user'[r0] = new /\ \A v \in User \ {r0} : user'[v] = user[v]
  BY <1>0, <1>3 DEF Shape
<1> HIDE DEF new
<1>6. ASSUME NEW r \in User
      PROVE  user'[r].referrals + Cardinality(Counting(r)')
               <= Cardinality(Referred(r)')
  <2>1. user[r].referrals + Cardinality(Counting(r)) <= Cardinality(Referred(r))
    BY DEF ReferralInv, ReferralsExist, Counting, Referred
  <2>2. user[r].referrals \in Nat
    BY DEF Shape, Accounts
  <2>3. Referred(r)' = Referred(r)
    BY <1>4, <1>5 DEF Referred
  <2>4. CASE r = r0
    <3>1. u \in Counting(r) /\ Counting(r)' = Counting(r) \ {u}
      BY <1>0, <1>1, <1>2, <2>4 DEF Counting, At
    <3>2. user'[r].referrals = user[r].referrals + 1
      BY <1>4, <1>5, <2>4
    <3>3. Cardinality(Counting(r)') = Cardinality(Counting(r)) - 1
      BY <3>1, ReferralSets, FS_RemoveElement
    <3> QED BY <2>1, <2>2, <2>3, <3>2, <3>3, ReferralSets
  <2>5. CASE r # r0
    <3>1. Counting(r)' = Counting(r)
      BY <1>0, <1>1, <1>2, <2>5 DEF Counting, At
    <3> QED BY <1>5, <2>1, <2>3, <2>5, <3>1
  <2> QED BY <2>4, <2>5
<1>7. \A v \in User : user'[v].wallet = NoWallet => user'[v].referrer = None
  BY <1>0, <1>4, <1>5 DEF ReferralInv
<1> QED BY <1>6, <1>7 DEF ReferralInv, ReferralsExist, Counting, Referred, At

LEMMA OtherReferralSteps ==
  ASSUME IInv, [Next]_vars,
         ~ \E u \in User : Create(u) \/ Count(u)
  PROVE  NoReferral
<1> USE RegistrationAssumption DEF IInv
<1>1. ASSUME NEW v \in User, RegisterStep(v) PROVE NoReferral
  <2>0. v \in Task
    BY DEF Task
  <2>1. \A u \in User \ {v} : task'[u] = task[u]
    BY <1>1, <2>0, OthersStay DEF Task
  <2>2. CASE \E e \in Email, r \in User \cup {None} : Register(v, e, r)
    <3>1. user' = user /\ task'[v].pc = "send"
      BY <2>0, <2>2 DEF Register, Start, docs, Shape
    <3> QED BY <2>1, <3>1 DEF NoReferral
  <2>3. CASE Check(v) \/ FirstWallet(v) \/ SecondWallet(v) \/ SaveWallet(v)
    <3>1. user' = user
      BY <2>3 DEF Check, FirstWallet, SecondWallet, SaveWallet, docs
    <3>2. PICK where \in PCs \ {"count"} : Goto(v, where)
      BY <2>3 DEF Check, FirstWallet, SecondWallet, SaveWallet, End, PCs
    <3>3. task'[v].pc # "count"
      BY <2>0, <3>2, TaskMoves
    <3> QED BY <2>1, <3>1, <3>3 DEF NoReferral
  <2>4. CASE Adopt(v)
    <3>1. task'[v].pc = "done"
      BY <2>0, <2>4, TaskMoves DEF Adopt, End, PCs
    <3>2. user' = [user EXCEPT ![v] = [user[v] EXCEPT !.wallet = Second(v)]]
      BY <2>4 DEF Adopt
    <3>3. Second(v) # NoWallet
      BY DEF Second, NoWallet
    <3> QED BY <2>1, <3>1, <3>2, <3>3 DEF NoReferral, Shape, Accounts
  <2> QED BY <1>1, <2>2, <2>3, <2>4 DEF RegisterStep
<1>2. ASSUME NEW p \in Call, CallStep(p) PROVE NoReferral
  <2>0. p \in Task /\ p \notin User
    BY DEF Task
  <2>1. \A u \in User : task'[u] = task[u]
    BY <1>2, <2>0, OthersStay DEF Task
  <2>2. \A u \in User : /\ user'[u].referrals = user[u].referrals
                        /\ user'[u].referrer = user[u].referrer
                        /\ user'[u].wallet = user[u].wallet
    <3>1. CASE MarkVerified(p)
      BY <3>1 DEF MarkVerified, Shape, Accounts
    <3>2. CASE SetPassword(p)
      BY <3>2 DEF SetPassword, Shape, Accounts
    <3>3. CASE Change(p)
      BY <3>3 DEF Change, Shape, Accounts
    <3>4. CASE ~ MarkVerified(p) /\ ~ SetPassword(p) /\ ~ Change(p)
      BY <1>2, <3>4 DEF CallStep, RequestCode, RequestOtp, VerifyEmail,
                        ResetPassword, ChangeEmail, Consume, Award, docs
    <3> QED BY <3>1, <3>2, <3>3, <3>4
  <2> QED BY <2>1, <2>2 DEF NoReferral
<1>3. ASSUME NEW p \in Task, Send(p) \/ Mail(p) PROVE NoReferral
  <2>1. user' = user
    BY <1>3 DEF Send, Mail, docs
  <2>2. \A u \in User \ {p} : task'[u] = task[u]
    BY <1>3, OthersStay DEF Task
  <2>3. task'[p].pc # "count"
    BY <1>3 DEF Send, Mail, Goto, Shape, Tasks
  <2> QED BY <2>1, <2>2, <2>3 DEF NoReferral
<1>4. CASE Tick \/ Expire \/ UNCHANGED vars
  BY <1>4 DEF Tick, Expire, vars, docs, NoReferral
<1> QED BY <1>1, <1>2, <1>3, <1>4 DEF Next

LEMMA NextReferrals == IInv /\ IInv' /\ ReferralInv /\ [Next]_vars => ReferralInv'
  BY CreateReferral, CountReferral, OtherReferralSteps, NoReferralKeeps

-----------------------------------------------------------------------------
\* There is at most one code in the collection, the one generated last; a code
\* is accepted at most once, and no new one repeats an old one.
CodesOK ==
  /\ \A d, e \in otp : d = e
  /\ \A d \in otp : d.code = issued
  /\ \A x \in used : x[2] <= issued
  /\ \A d \in otp, x \in used : d.code # x[2]
  /\ \A x, y \in used : x[2] = y[2] => x = y

LEMMA UsedFinite ==
  ASSUME Shape, CodesOK
  PROVE  IsFiniteSet(used) /\ Cardinality(used) <= MaxCode
<1> DEFINE f == [x \in used |-> x[2]]
<1>1. f \in Injection(used, 1..MaxCode)
  <2>1. \A x \in used : x[2] \in 1..MaxCode
    BY DEF Shape, Mails
  <2>2. f \in [used -> 1..MaxCode]
    BY <2>1
  <2>3. \A x, y \in used : f[x] = f[y] => x = y
    BY DEF CodesOK
  <2> QED BY <2>2, <2>3, Zenon DEF Injection, IsInjective
<1>2. IsFiniteSet(1..MaxCode) /\ Cardinality(1..MaxCode) = MaxCode
  BY RegistrationAssumption, FS_Interval
<1> HIDE DEF f
<1> QED BY <1>1, <1>2, FS_Injection

LEMMA NextCodes == IInv /\ CodesOK /\ [Next]_vars => CodesOK'
<1> SUFFICES ASSUME IInv, CodesOK, [Next]_vars PROVE CodesOK'
  OBVIOUS
<1> USE DEF IInv
<1>0. /\ issued \in Nat /\ \A d \in otp : d.code \in 1..MaxCode
      /\ \A x \in used : x[2] \in 1..MaxCode
  BY RegistrationAssumption DEF Shape, OTPs, Mails
<1>1. ASSUME NEW p \in Task, Send(p) PROVE CodesOK'
  <2> DEFINE new(a) == [email |-> task[p].email, code |-> issued + 1,
                        type |-> task[p].type, age |-> a]
  <2>1. PICK d : otp' = {d} /\ d.code = issued + 1
    <3>1. \E a : otp' = {new(a)}
      <4>1. CASE otp = {}
        <5>1. otp' = {new(0)}
          BY <1>1, <4>1 DEF Send, StoreCode
        <5> QED BY <5>1
      <4>2. CASE otp # {}
        <5>1. PICK e \in otp : otp' = (otp \ {e}) \cup {new(e.age)}
          BY <1>1, <4>2 DEF Send, StoreCode
        <5>2. otp \ {e} = {}
          BY DEF CodesOK
        <5>3. otp' = {new(e.age)}
          BY <5>1, <5>2
        <5> QED BY <5>3
      <4> QED BY <4>1, <4>2
    <3>2. \A a : new(a).code = issued + 1
      OBVIOUS
    <3> HIDE DEF new
    <3> QED BY <3>1, <3>2
  <2>2. issued' = issued + 1 /\ used' = used
    BY <1>1 DEF Send
  <2> QED BY <1>0, <2>1, <2>2 DEF CodesOK
<1>2. ASSUME NEW p \in Call, Consume(p) PROVE CodesOK'
  <2>1. issued' = issued
    BY <1>2 DEF Consume
  <2>2. CASE \E d \in otp : Matches(d, p)
    <3>1. PICK d \in otp : /\ otp' = otp \ {d}
                           /\ used' = used \cup {<<d.email, d.code, d.type>>}
      BY <1>2, <2>2 DEF Consume
    <3>2. otp' = {}
      BY <3>1 DEF CodesOK
    <3>3. \A x \in used : x[2] # d.code
      BY DEF CodesOK
    <3> DEFINE new == <<d.email, d.code, d.type>>
    <3>4. new[2] = d.code /\ d.code <= issued
      BY <1>0 DEF CodesOK
    <3>5. used' = used \cup {new}
      BY <3>1
    <3> HIDE DEF new
    <3> QED BY <2>1, <3>2, <3>3, <3>4, <3>5 DEF CodesOK
  <2>3. CASE ~ \E d \in otp : Matches(d, p)
    BY <1>2, <2>1, <2>3 DEF Consume, CodesOK
  <2> QED BY <2>2, <2>3
<1>3. CASE Tick
  <2>1. otp' = {[d EXCEPT !.age = @ + 1] : d \in otp}
        /\ issued' = issued /\ used' = used
    BY <1>3 DEF Tick
  <2> DEFINE older(d) == [d EXCEPT !.age = @ + 1]
  <2>2. \A d \in otp : older(d).code = d.code
    BY DEF Shape, OTPs
  <2>3. otp' = {older(d) : d \in otp}
    BY <2>1
  <2> HIDE DEF older
  <2>4. \A e \in otp' : \E d \in otp : e = older(d) /\ e.code = d.code
    BY <2>2, <2>3
  <2>5. \A d, e \in otp' : d = e
    BY <2>4 DEF CodesOK
  <2> QED BY <2>1, <2>4, <2>5 DEF CodesOK
<1>4. CASE Expire
  BY <1>4 DEF Expire, history, CodesOK
<1>5. CASE UNCHANGED <<otp, issued, used>>
  BY <1>5 DEF CodesOK
<1>6. ASSUME NEW u \in User, RegisterStep(u) PROVE UNCHANGED <<otp, issued, used>>
  BY <1>6 DEF RegisterStep, Register, Check, FirstWallet, Create, Count,
              SecondWallet, SaveWallet, Adopt, docs, history
<1>7. ASSUME NEW p \in Call, CallStep(p), ~ Consume(p)
      PROVE  UNCHANGED <<otp, issued, used>>
  BY <1>7 DEF CallStep, RequestCode, RequestOtp, VerifyEmail, ResetPassword,
              ChangeEmail, MarkVerified, Award, SetPassword, Change, docs,
              history
<1>8. ASSUME NEW p \in Task, Mail(p) PROVE UNCHANGED <<otp, issued, used>>
  BY <1>8 DEF Mail, docs
<1>9. CASE UNCHANGED vars
  BY <1>9 DEF vars, docs, history, CodesOK
<1> QED BY <1>1, <1>2, <1>3, <1>4, <1>5, <1>6, <1>7, <1>8, <1>9 DEF Next

\* The calls whose accepted code may still pay a bonus for u.
Claims(u) == {p \in Call : task[p].pc \in {"mark", "award"} /\ task[p].user = u}
Accepted == {x \in used : x[3] = "VERIFY_EMAIL"}

BonusInv ==
  /\ paid \in [User -> Nat]
  /\ \A u \in User : paid[u] + Cardinality(Claims(u)) <= Cardinality(Accepted)

\* A step that neither accepts a code nor pays a bonus.
NoBonus ==
  /\ paid' = paid /\ used' = used
  /\ \A p \in Call : task'[p].pc \in {"mark", "award"} =>
       /\ task[p].pc \in {"mark", "award"}
       /\ task'[p].user = task[p].user

LEMMA ClaimsFinite ==
  ASSUME NEW u
  PROVE  IsFiniteSet(Claims(u)) /\ Cardinality(Claims(u)) \in Nat
<1>1. Claims(u) \in SUBSET Call
  BY DEF Claims
<1> QED BY <1>1, RegistrationAssumption, FS_Subset, FS_CardinalityType

LEMMA AcceptedFinite ==
  ASSUME Shape, CodesOK
  PROVE  /\ IsFiniteSet(Accepted) /\ Cardinality(Accepted) \in Nat
         /\ Cardinality(Accepted) <= MaxCode
<1>1. Accepted \in SUBSET used
  BY DEF Accepted
<1>2. IsFiniteSet(Accepted) /\ Cardinality(Accepted) <= Cardinality(used)
  BY <1>1, UsedFinite, FS_Subset
<1> QED BY <1>2, UsedFinite, FS_CardinalityType, RegistrationAssumption

LEMMA NoBonusKeeps ==
  ASSUME Shape, CodesOK, BonusInv, NoBonus
  PROVE  BonusInv'
<1>1. SUFFICES ASSUME NEW u \in User
               PROVE  paid[u] + Cardinality(Claims(u)') <= Cardinality(Accepted)
  BY DEF BonusInv, NoBonus, Accepted
<1>2. Claims(u)' \in SUBSET Claims(u)
  BY DEF Claims, NoBonus
<1>3. Cardinality(Claims(u)') <= Cardinality(Claims(u))
      /\ Cardinality(Claims(u)') \in Nat
  BY <1>2, ClaimsFinite, FS_Subset, FS_CardinalityType
<1>4. paid[u] + Cardinality(Claims(u)) <= Cardinality(Accepted)
      /\ paid[u] \in Nat
  BY DEF BonusInv
<1> QED BY <1>3, <1>4, AcceptedFinite, ClaimsFinite

\* An accepted verification code pays for one more claim.
LEMMA ConsumeBonus ==
  ASSUME IInv, CodesOK, CodesOK', BonusInv, NEW p \in Call, Consume(p), Shape'
  PROVE  BonusInv'
<1> USE DEF IInv
<1>0. p \in Task /\ task[p].pc = "consume" /\ paid' = paid
  BY DEF Task, Consume, At
<1>1. \A q \in Call \ {p} : task'[q] = task[q]
  BY <1>0, OthersStay DEF CallStep, Task
<1>2. CASE ~ (task[p].type = "VERIFY_EMAIL" /\ \E d \in otp : Matches(d, p))
  <2>1. PICK where \in {"reset", "done"} : Goto(p, where)
    BY <1>2 DEF Consume, End
  <2>2. task'[p].pc \notin {"mark", "award"}
    BY <1>0, <2>1, TaskMoves DEF PCs
  <2>3. ASSUME NEW u \in User
        PROVE  paid[u] + Cardinality(Claims(u)') <= Cardinality(Accepted')
    <3>1. Claims(u)' = Claims(u)
      BY <1>0, <1>1, <2>2 DEF Claims
    <3>2. Accepted' = Accepted
      BY <1>2 DEF Consume, Accepted, Matches
    <3> QED BY <3>1, <3>2 DEF BonusInv
  <2> QED BY <1>0, <2>3 DEF BonusInv
<1>3. CASE task[p].type = "VERIFY_EMAIL" /\ \E d \in otp : Matches(d, p)
  <2>1. PICK d \in otp : /\ Matches(d, p)
                         /\ used' = used \cup {<<d.email, d.code, d.type>>}
                         /\ Goto(p, "mark")
    BY <1>3 DEF Consume
  <2>2. task'[p].pc = "mark" /\ task'[p].user = task[p].user
    BY <1>0, <2>1, TaskMoves DEF PCs
  <2>3. PICK x : /\ x[2] = d.code /\ x[3] = "VERIFY_EMAIL"
                 /\ used' = used \cup {x}
    <3> DEFINE new == <<d.email, d.code, d.type>>
    <3>1. new[2] = d.code /\ new[3] = "VERIFY_EMAIL"
      BY <1>3, <2>1 DEF Matches
    <3>2. used' = used \cup {new}
      BY <2>1
    <3> HIDE DEF new
    <3> QED BY <3>1, <3>2
  <2>4. Accepted' = Accepted \cup {x} /\ x \notin Accepted
    BY <2>3 DEF CodesOK, Accepted
  <2>5. Cardinality(Accepted') = Cardinality(Accepted) + 1
        /\ Cardinality(Accepted) \in Nat
    BY <2>4, AcceptedFinite, FS_AddElement
  <2>6. ASSUME NEW u \in User
        PROVE  paid[u] + Cardinality(Claims(u)') <= Cardinality(Accepted')
    <3>1. Claims(u)' \in SUBSET (Claims(u) \cup {p})
      BY <1>1 DEF Claims
    <3>0. IsFiniteSet(Claims(u)) /\ Cardinality(Claims(u)) \in Nat
      BY ClaimsFinite
    <3>2. /\ IsFiniteSet(Claims(u) \cup {p})
          /\ Cardinality(Claims(u) \cup {p}) <= Cardinality(Claims(u)) + 1
          /\ Cardinality(Claims(u) \cup {p}) \in Nat
      <4>1. /\ IsFiniteSet(Claims(u) \cup {p})
            /\ Cardinality(Claims(u) \cup {p}) =
                 IF p \in Claims(u) THEN Cardinality(Claims(u))
                 ELSE Cardinality(Claims(u)) + 1
        BY <3>0, FS_AddElement
      <4> QED BY <3>0, <4>1
    <3>3. Cardinality(Claims(u)') <= Cardinality(Claims(u) \cup {p})
          /\ Cardinality(Claims(u)') \in Nat
      BY <3>1, <3>2, FS_Subset, FS_CardinalityType
    <3>4. paid[u] \in Nat
          /\ paid[u] + Cardinality(Claims(u)) <= Cardinality(Accepted)
      BY DEF BonusInv
    <3> QED BY <2>5, <3>2, <3>3, <3>4, ClaimsFinite
  <2> QED BY <1>0, <2>6 DEF BonusInv
<1> QED BY <1>2, <1>3

\* Paying a bonus settles a claim.
LEMMA AwardBonus ==
  ASSUME IInv, CodesOK, BonusInv, NEW p \in Call, Award(p)
  PROVE  BonusInv'
<1> USE DEF IInv
<1> DEFINE v == task[p].user
<1>0. p \in Task /\ task[p].pc = "award" /\ used' = used
  BY DEF Task, Award, At
<1>1. \A q \in Call \ {p} : task'[q] = task[q]
  BY <1>0, OthersStay DEF CallStep, Task
<1>2. task'[p].pc = "done"
  BY <1>0, TaskMoves DEF Award, End, PCs
<1>3. paid' = [paid EXCEPT ![v] = @ + 1] /\ paid \in [User -> Nat]
  BY DEF Award, BonusInv
<1>4. paid' \in [User -> Nat]
  <2>1. CASE v \in User
    BY <1>3, <2>1
  <2>2. CASE v \notin User
    BY <1>3, <2>2
  <2> QED BY <2>1, <2>2
<1>5. ASSUME NEW u \in User
      PROVE  paid'[u] + Cardinality(Claims(u)') <= Cardinality(Accepted')
  <2>1. Accepted' = Accepted
    BY <1>0 DEF Accepted
  <2>2. paid[u] \in Nat
        /\ paid[u] + Cardinality(Claims(u)) <= Cardinality(Accepted)
    BY DEF BonusInv
  <2>3. CASE u = v
    <3>1. p \in Claims(u) /\ Claims(u)' = Claims(u) \ {p}
      BY <1>0, <1>1, <1>2, <2>3 DEF Claims
    <3>2. Cardinality(Claims(u)') = Cardinality(Claims(u)) - 1
      BY <3>1, ClaimsFinite, FS_RemoveElement
    <3>3. paid'[u] = paid[u] + 1
      BY <1>3, <2>3
    <3> QED BY <2>1, <2>2, <3>2, <3>3, ClaimsFinite
  <2>4. CASE u # v
    <3>1. Claims(u)' = Claims(u)
      BY <1>0, <1>1, <1>2, <2>4 DEF Claims
    <3>2. paid'[u] = paid[u]
      BY <1>3, <2>4
    <3> QED BY <2>1, <2>2, <3>1, <3>2
  <2> QED BY <2>3, <2>4
<1> QED BY <1>4, <1>5 DEF BonusInv

LEMMA OtherBonusSteps ==
  ASSUME IInv, [Next]_vars, ~ \E p \in Call : Consume(p) \/ Award(p)
  PROVE  NoBonus
<1> USE RegistrationAssumption DEF IInv
<1>1. ASSUME NEW u \in User, RegisterStep(u) PROVE NoBonus
  <2>1. \A p \in Call : p \in Task \ {u} /\ u \in Task
    BY DEF Task
  <2>2. \A p \in Call : task'[p] = task[p]
    BY <1>1, <2>1, OthersStay
  <2>3. UNCHANGED <<paid, used>>
    BY <1>1 DEF RegisterStep, Register, Check, FirstWallet, Create, Count,
                SecondWallet, SaveWallet, Adopt, docs, history
  <2> QED BY <2>2, <2>3 DEF NoBonus
<1>2. ASSUME NEW p \in Call, CallStep(p) PROVE NoBonus
  <2>0. p \in Task
    BY DEF Task
  <2>1. \A q \in Call \ {p} : task'[q] = task[q]
    BY <1>2, <2>0, OthersStay DEF Task
  <2>2. UNCHANGED <<paid, used>>
    BY <1>2 DEF CallStep, RequestCode, RequestOtp, VerifyEmail, ResetPassword,
                ChangeEmail, MarkVerified, SetPassword, Change, docs, history
  <2>3. CASE MarkVerified(p)
    <3>1. PICK where \in {"done", "award"} : Goto(p, where)
      BY <2>3 DEF MarkVerified
    <3>2. task'[p].user = task[p].user /\ task[p].pc = "mark"
      BY <2>0, <2>3, <3>1, TaskMoves DEF MarkVerified, At, PCs
    <3> QED BY <2>1, <2>2, <3>2 DEF NoBonus
  <2>4. CASE SetPassword(p) \/ Change(p)
    <3>1. PICK where \in {"done", "send"} : Goto(p, where)
      BY <2>4 DEF SetPassword, Change, End
    <3>2. task'[p].pc \notin {"mark", "award"}
      BY <2>0, <3>1, TaskMoves DEF PCs
    <3> QED BY <2>1, <2>2, <3>2 DEF NoBonus
  <2>5. CASE ~ MarkVerified(p) /\ ~ SetPassword(p) /\ ~ Change(p)
    <3>1. task'[p].pc \notin {"mark", "award"}
      BY <1>2, <2>0, <2>5 DEF CallStep, RequestCode, RequestOtp, VerifyEmail,
                              ResetPassword, ChangeEmail, Start, Shape
    <3> QED BY <2>1, <2>2, <3>1 DEF NoBonus
  <2> QED BY <2>3, <2>4, <2>5
<1>3. ASSUME NEW p \in Task, Send(p) \/ Mail(p) PROVE NoBonus
  <2>1. \A q \in Call \ {p} : task'[q] = task[q]
    BY <1>3, OthersStay DEF Task
  <2>2. task'[p].pc \notin {"mark", "award"}
    BY <1>3 DEF Send, Mail, Goto, Shape, Tasks
  <2>3. UNCHANGED <<paid, used>>
    BY <1>3 DEF Send, Mail, docs
  <2> QED BY <2>1, <2>2, <2>3 DEF NoBonus
<1>4. CASE Tick \/ Expire \/ UNCHANGED vars
  BY <1>4 DEF Tick, Expire, vars, docs, history, NoBonus
<1> QED BY <1>1, <1>2, <1>3, <1>4 DEF Next

LEMMA NextBonus ==
  IInv /\ IInv' /\ CodesOK /\ CodesOK' /\ BonusInv /\ [Next]_vars => BonusInv'
<1> SUFFICES ASSUME IInv, IInv', CodesOK, CodesOK', BonusInv, [Next]_vars
             PROVE  BonusInv'
  OBVIOUS
<1>1. Shape /\ Shape'
  BY DEF IInv
<1> QED BY <1>1, ConsumeBonus, AwardBonus, OtherBonusSteps, NoBonusKeeps

\* The types that the other invariants leave out.
Stored ==
  /\ wallets \in SUBSET (User \X {"predicted", "zero"})
  /\ queued \in SUBSET Wallet
  /\ old \in SUBSET (1..issued)

LEMMA NextStored == IInv /\ Stored /\ [Next]_vars => Stored'
<1> SUFFICES ASSUME IInv, Stored, [Next]_vars PROVE Stored'
  OBVIOUS
<1> USE DEF IInv
<1>1. ASSUME NEW u \in User, RegisterStep(u) PROVE Stored'
  <2>1. UNCHANGED <<issued, old>>
    BY <1>1 DEF RegisterStep, Register, Check, FirstWallet, Create, Count,
                SecondWallet, SaveWallet, Adopt, docs, history
  <2>2. queued' \in SUBSET Wallet
    <3>1. First(u) \in Wallet /\ Second(u) \in Wallet
      BY DEF First, Second, Wallet
    <3>2. queued' \subseteq queued \cup {First(u), Second(u)}
      BY <1>1 DEF RegisterStep, Register, Check, FirstWallet, Create, Count,
                  SecondWallet, SaveWallet, Adopt, docs
    <3> QED BY <3>1, <3>2 DEF Stored
  <2>3. wallets' \in SUBSET (User \X {"predicted", "zero"})
    <3>1. CASE SaveWallet(u)
      BY <3>1 DEF SaveWallet, Stored
    <3>2. CASE ~ SaveWallet(u)
      <4>1. wallets' = wallets
        BY <1>1, <3>2 DEF RegisterStep, Register, Check, FirstWallet, Create,
                          Count, SecondWallet, Adopt, docs
      <4> QED BY <4>1 DEF Stored
    <3> QED BY <3>1, <3>2
  <2> QED BY <2>1, <2>2, <2>3 DEF Stored
<1>2. ASSUME NEW p \in Call, CallStep(p) PROVE Stored'
  BY <1>2 DEF CallStep, RequestCode, RequestOtp, VerifyEmail, ResetPassword,
              ChangeEmail, Consume, MarkVerified, Award, SetPassword, Change,
              docs, history, Stored
<1>3. ASSUME NEW p \in Task, Send(p) \/ Mail(p) PROVE Stored'
  <2>1. UNCHANGED <<wallets, queued, old>> /\ issued' \in {issued, issued + 1}
    BY <1>3 DEF Send, Mail, docs
  <2>2. 1..issued \subseteq 1..issued'
    BY <2>1 DEF Shape
  <2> QED BY <2>1, <2>2 DEF Stored
<1>4. CASE Tick \/ Expire \/ UNCHANGED vars
  BY <1>4 DEF Tick, Expire, vars, docs, history, Stored
<1> QED BY <1>1, <1>2, <1>3, <1>4 DEF Next

Counted == ReferralInv /\ CodesOK /\ BonusInv /\ Stored

LEMMA InitCounted == Init => Counted
<1> SUFFICES ASSUME Init PROVE Counted
  OBVIOUS
<1> USE RegistrationAssumption DEF Init
<1>1. ReferralInv
  <2>1. ASSUME NEW r \in User
        PROVE  user[r].referrals + Cardinality(Counting(r))
                 <= Cardinality(Referred(r))
    <3>1. Counting(r) = {} /\ Referred(r) = {} /\ user[r].referrals = 0
      BY DEF Counting, Referred, At, Idle, NoAccount, Task
    <3> QED BY <3>1, FS_EmptySet
  <2> QED BY <2>1 DEF ReferralInv, ReferralsExist, Counting, Referred, At,
                      NoAccount
<1>2. CodesOK /\ Stored
  BY DEF CodesOK, Stored
<1>3. BonusInv
  <2>1. ASSUME NEW u \in User
        PROVE  paid[u] + Cardinality(Claims(u)) <= Cardinality(Accepted)
    <3>1. Claims(u) = {} /\ Accepted = {} /\ paid[u] = 0
      BY DEF Claims, Accepted, Idle, Task
    <3> QED BY <3>1, FS_EmptySet
  <2> QED BY <2>1 DEF BonusInv
<1> QED BY <1>1, <1>2, <1>3 DEF Counted

LEMMA CountedInductive == Spec => []Counted
<1>1. IInv /\ IInv' /\ Counted /\ [Next]_vars => Counted'
  BY NextReferrals, NextCodes, NextBonus, NextStored DEF Counted
<1> QED BY <1>1, InitCounted, Inductive, PTL DEF Spec

\* totalReferrals never counts a registration that created no user, however
\* registrations for the same address race (createUser, user.service.ts).
THEOREM ReferralsAreUsers == Spec => []ReferralsExist
<1>1. Counted => ReferralsExist
  BY DEF Counted, ReferralInv
<1> QED BY <1>1, CountedInductive, PTL

\* There are never more referral bonuses for a user than accepted codes:
\* findOneAndDelete lets one of several concurrent verifications through.
THEOREM BonusesPerCode == Spec => []BonusPerCode
<1>1. IInv /\ Counted => BonusPerCode
  <2> SUFFICES ASSUME IInv, Counted, NEW u \in User
               PROVE  paid[u] <= Cardinality(Accepted)
    BY DEF BonusPerCode, Accepted
  <2>1. Cardinality(Accepted) \in Nat
    BY AcceptedFinite DEF IInv, Counted
  <2> QED BY <2>1, ClaimsFinite DEF Counted, BonusInv
<1> QED BY <1>1, Inductive, CountedInductive, PTL

\* Every variable has its type; the counters have their bounds: no user has
\* more referrals than there are registrations, or more bonuses than codes.
THEOREM TypeCorrect == Spec => []TypeOK
<1>1. IInv /\ Counted => TypeOK
  <2> SUFFICES ASSUME IInv, Counted PROVE TypeOK
    OBVIOUS
  <2>1. user \in [User -> Accounts(0..Cardinality(User))]
    <3>1. ASSUME NEW u \in User
          PROVE  user[u] \in Accounts(0..Cardinality(User))
      <4>1. /\ user[u] \in Accounts(Nat)
            /\ user[u].referrals + Cardinality(Counting(u))
                 <= Cardinality(Referred(u))
        BY DEF IInv, Shape, Counted, ReferralInv, ReferralsExist, Counting,
               Referred
      <4>2. user[u].referrals \in 0..Cardinality(User)
        BY <4>1, ReferralSets DEF Accounts
      <4> QED BY <4>1, <4>2 DEF Accounts
    <3> QED BY <3>1 DEF IInv, Shape
  <2>2. Cardinality(otp) <= 1
    <3>1. CASE otp = {}
      BY <3>1, FS_EmptySet
    <3>2. CASE otp # {}
      <4>1. PICK d \in otp : otp = {d}
        BY <3>2 DEF Counted, CodesOK
      <4>2. Cardinality({d}) = 1
        BY FS_Singleton
      <4> QED BY <4>1, <4>2
    <3> QED BY <3>1, <3>2
  <2>3. paid \in [User -> 0..MaxCode]
    <3>1. ASSUME NEW u \in User PROVE paid[u] \in 0..MaxCode
      <4>1. paid[u] \in Nat
            /\ paid[u] + Cardinality(Claims(u)) <= Cardinality(Accepted)
        BY DEF Counted, BonusInv
      <4>2. Cardinality(Accepted) \in Nat /\ Cardinality(Accepted) <= MaxCode
        BY AcceptedFinite DEF IInv, Counted
      <4> QED BY <4>1, <4>2, ClaimsFinite, RegistrationAssumption
    <3> QED BY <3>1 DEF Counted, BonusInv
  <2> QED BY <2>1, <2>2, <2>3 DEF TypeOK, IInv, Shape, Counted, Stored
<1> QED BY <1>1, Inductive, CountedInductive, PTL

\* The codes accepted in a step.
OnlyTheNewest == [][\A m \in used' \ used : m[2] = issued]_vars

\* verifyOTP accepts a code only as long as no other code was generated since,
\* for any address and of either type: the one document of createOTP
\* (otp.service.ts:34-46) makes a superseded code useless, everybody's alike.
THEOREM NewestCodeOnly == Spec => OnlyTheNewest
<1>1. ASSUME Counted, [Next]_vars
      PROVE  \A m \in used' \ used : m[2] = issued
  <2> SUFFICES ASSUME NEW m \in used' \ used PROVE m[2] = issued
    OBVIOUS
  <2>1. PICK p \in Call : Consume(p)
    <3> SUFFICES ASSUME \A p \in Call : ~ Consume(p) PROVE used' = used
      OBVIOUS
    <3>1. ASSUME NEW u \in User, RegisterStep(u) PROVE used' = used
      BY <3>1 DEF RegisterStep, Register, Check, FirstWallet, Create, Count,
                  SecondWallet, SaveWallet, Adopt, history
    <3>2. ASSUME NEW p \in Call, CallStep(p) PROVE used' = used
      BY <3>2 DEF CallStep, RequestCode, RequestOtp, VerifyEmail, ResetPassword,
                  ChangeEmail, MarkVerified, Award, SetPassword, Change, history
    <3>3. ASSUME NEW p \in Task, Send(p) \/ Mail(p) PROVE used' = used
      BY <3>3 DEF Send, Mail
    <3>4. CASE Tick \/ Expire \/ UNCHANGED vars
      BY <3>4 DEF Tick, Expire, vars, history
    <3> QED BY <1>1, <3>1, <3>2, <3>3, <3>4 DEF Next
  <2>2. PICK d \in otp : m = <<d.email, d.code, d.type>>
    BY <2>1 DEF Consume
  <2> QED BY <1>1, <2>2 DEF Counted, CodesOK
<1>2. Counted /\ [Next]_vars => [\A m \in used' \ used : m[2] = issued]_vars
  BY <1>1
<1>3. Spec => [][\A m \in used' \ used : m[2] = issued]_vars
  BY <1>2, CountedInductive, PTL DEF Spec
<1> QED BY <1>3 DEF OnlyTheNewest
=============================================================================
