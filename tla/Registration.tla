---------------------------- MODULE Registration ----------------------------
(***************************************************************************)
(* Registration, the one-time codes behind email verification and password *)
(* reset, referral bonuses and the wallets a registration creates: register*)
(* and the calls of AuthService (auth/auth.service.ts), createUser and     *)
(* changeEmail (user.service.ts), OtpService and requestOTP of its         *)
(* controller, by e-mail, and WalletService.                               *)
(*                                                                         *)
(* Every call is a task that interleaves with the others at its awaits and *)
(* goes on with what it has read.  MongoDB keeps the documents; a unique   *)
(* index refuses a write that would break it.  When an await rejects (mail,*)
(* database, relayer) the call ends and nothing is undone: to the others   *)
(* that is a call that takes no further step, which no action is forced to.*)
(***************************************************************************)
EXTENDS Naturals, FiniteSets

CONSTANTS
  User,     \* the registrations, each of which may create one user
  Email,    \* the addresses
  Call,     \* BOUND: the calls of the other endpoints
  MaxCode,  \* BOUND: the one-time codes ever generated
  None      \* no address, no user

ASSUME RegistrationAssumption ==
  /\ User \cap Call = {}
  /\ IsFiniteSet(User) /\ IsFiniteSet(Call)
  /\ None \notin Email \cup User
  /\ MaxCode \in Nat

VARIABLES
  user,    \* user[u]: the document of user u
  otp,     \* the documents of the OTP collection
  wallets, \* the saved Wallet documents
  queued,  \* the wallets whose account creation was queued with the relayer
  task,    \* task[p]: the registration or call p
  issued,  \* the number of codes generated; they are called 1, 2, ...
  old,     \* the codes generated more than ten minutes ago
  mailed,  \* history: <<address, code, type>> that reached a mailbox
  used,    \* history: <<address, code, type>> that were accepted
  paid     \* history: the referral bonuses paid for the verification of u

docs == <<user, otp, wallets, queued>>
history == <<issued, old, mailed, used, paid>>
vars == <<docs, task, history>>

Task == User \cup Call
Types == {"VERIFY_EMAIL", "RESET_PASSWORD"}

\* Each call of createWallet generates a new wallet: the first one's private
\* key is returned to the caller of register, the second one's is not.
First(u)  == <<u, "first">>
Second(u) == <<u, "second">>
Wallet == User \X {"first", "second"}
NoWallet == << >>

NoAccount == [email |-> None, verified |-> FALSE, password |-> 0,
              referrer |-> None, referrals |-> 0, wallet |-> NoWallet]

Idle == [pc |-> "idle", email |-> None, code |-> 0, type |-> "VERIFY_EMAIL",
         user |-> None]
PCs == {"idle", "done",
        "check", "first", "create", "count", "second", "save", "adopt",  \* register
        "send", "mail",                                     \* sendOTP
        "consume", "mark", "award", "reset",                \* verify and reset
        "change"}                                           \* changeEmail

\* The age of a document counts in steps of ten minutes.
TTL == 2

Accounts(counts) ==
  [email : Email \cup {None}, verified : BOOLEAN, password : 0..MaxCode,
   referrer : User \cup {None}, referrals : counts,
   wallet : Wallet \cup {NoWallet}]
Tasks == [pc : PCs, email : Email \cup {None}, code : 0..MaxCode, type : Types,
          user : User \cup {None}]
OTPs  == [email : Email, code : 1..MaxCode, type : Types, age : 0..TTL]
Mails == Email \X (1..MaxCode) \X Types

TypeOK ==
  /\ user \in [User -> Accounts(0..Cardinality(User))]
  /\ otp \in SUBSET OTPs /\ Cardinality(otp) <= 1
  /\ wallets \in SUBSET (User \X {"predicted", "zero"})
  /\ queued \in SUBSET Wallet
  /\ task \in [Task -> Tasks]
  /\ issued \in 0..MaxCode /\ old \in SUBSET (1..issued)
  /\ mailed \in SUBSET Mails /\ used \in SUBSET Mails
  /\ paid \in [User -> 0..MaxCode]

Init ==
  /\ user = [u \in User |-> NoAccount]
  /\ otp = {} /\ wallets = {} /\ queued = {}
  /\ task = [p \in Task |-> Idle]
  /\ issued = 0 /\ old = {}
  /\ mailed = {} /\ used = {}
  /\ paid = [u \in User |-> 0]

-----------------------------------------------------------------------------
(* Steps of a task, and queries.                                           *)

At(p, where) == task[p].pc = where
Goto(p, where) == task' = [task EXCEPT ![p].pc = where]
End(p) == Goto(p, "done")

\* A call reads before its first write: it starts with what it has read.
Start(p, where, e, c, t, u) ==
  /\ At(p, "idle")
  /\ task' = [task EXCEPT ![p] = [pc |-> where, email |-> e, code |-> c,
                                  type |-> t, user |-> u]]

Exists(u) == user[u].wallet # NoWallet
Holder(e) == {u \in User : user[u].email = e}

-----------------------------------------------------------------------------
(* OtpService                                                              *)

\* createOTP: an upsert whose filter $or: [{email}, {phone: undefined}] every
\* document satisfies, as none has a phone.  expiresAt is a default, which only
\* an insert sets: the replaced document keeps its age.
StoreCode(p, c) ==
  LET new(age) == [email |-> task[p].email, code |-> c,
                   type |-> task[p].type, age |-> age] IN
  IF otp = {} THEN otp' = {new(0)}
  ELSE \E d \in otp : otp' = (otp \ {d}) \cup {new(d.age)}

\* sendOTP generates and stores a code, then mails it.
Send(p) ==
  /\ At(p, "send")
  /\ issued < MaxCode
  /\ issued' = issued + 1
  /\ StoreCode(p, issued + 1)
  /\ task' = [task EXCEPT ![p].pc = "mail", ![p].code = issued + 1]
  /\ UNCHANGED <<user, wallets, queued, old, mailed, used, paid>>

\* register goes on with createUser, the other senders are done.
Mail(p) ==
  /\ At(p, "mail")
  /\ mailed' = mailed \cup {<<task[p].email, task[p].code, task[p].type>>}
  /\ Goto(p, IF p \in User THEN "check" ELSE "done")
  /\ UNCHANGED <<docs, issued, old, used, paid>>

\* (Mutant: the type of the code is not looked at.)
MatchesAnyType(d, p) == /\ d.email = task[p].email
                        /\ d.code = task[p].code

Matches(d, p) == /\ d.email = task[p].email
                 /\ d.code = task[p].code
                 /\ d.type = task[p].type

\* (Mutant: verifyOTP finds the code without removing it.)
ConsumeNothing(p) ==
  /\ At(p, "consume")
  /\ IF \E d \in otp : Matches(d, p)
     THEN /\ used' = used \cup {<<d.email, d.code, d.type>> : d \in otp}
          /\ Goto(p, IF task[p].type = "VERIFY_EMAIL" THEN "mark" ELSE "reset")
     ELSE End(p) /\ UNCHANGED used
  /\ UNCHANGED <<docs, issued, old, mailed, paid>>

\* verifyOTP(payload, true): findOneAndDelete; age plays no role.
Consume(p) ==
  /\ At(p, "consume")
  /\ IF \E d \in otp : Matches(d, p)
     THEN \E d \in otp :
            /\ Matches(d, p)
            /\ otp' = otp \ {d}
            /\ used' = used \cup {<<d.email, d.code, d.type>>}
            /\ Goto(p, IF task[p].type = "VERIFY_EMAIL" THEN "mark" ELSE "reset")
     ELSE End(p) /\ UNCHANGED <<otp, used>>
  /\ UNCHANGED <<user, wallets, queued, issued, old, mailed, paid>>

-----------------------------------------------------------------------------
(* register: a code for the address, then createUser, then, without being  *)
(* awaited, autoGenerateWalletForUser.                                     *)

\* User u registers address e with the referral code of r, or with none.
Register(u, e, r) ==
  /\ r # u
  /\ Start(u, "send", e, 0, "VERIFY_EMAIL", r)
  /\ UNCHANGED <<docs, history>>

\* (Mutant: the referrer is credited before the user exists.)
CheckCounting(u) ==
  /\ At(u, "check")
  /\ Goto(u, IF /\ Holder(task[u].email) = {}
                /\ task[u].user # None => Exists(task[u].user)
             THEN "first" ELSE "done")
  /\ IF task[u].user # None /\ Exists(task[u].user)
     THEN user' = [user EXCEPT ![task[u].user].referrals = @ + 1]
     ELSE UNCHANGED user
  /\ UNCHANGED <<otp, wallets, queued, history>>

\* createUser refuses a taken address and an unknown referral code ...
Check(u) ==
  /\ At(u, "check")
  /\ Goto(u, IF /\ Holder(task[u].email) = {}
                /\ task[u].user # None => Exists(task[u].user)
             THEN "first" ELSE "done")
  /\ UNCHANGED <<docs, history>>

\* ... queues the creation of the first wallet ...
FirstWallet(u) ==
  /\ At(u, "first")
  /\ queued' = queued \cup {First(u)}
  /\ Goto(u, "create")
  /\ UNCHANGED <<user, otp, wallets, history>>

\* ... and creates the user, unless the address has been taken since.
Create(u) ==
  /\ At(u, "create")
  /\ IF Holder(task[u].email) = {}
     THEN /\ user' = [user EXCEPT ![u] = [NoAccount EXCEPT
                        !.email = task[u].email, !.referrer = task[u].user,
                        !.wallet = First(u)]]
          /\ Goto(u, IF task[u].user = None THEN "second" ELSE "count")
     ELSE End(u) /\ UNCHANGED user
  /\ UNCHANGED <<otp, wallets, queued, history>>

\* (Mutant: the increment is repeated.)
CountAgain(u) ==
  /\ At(u, "count")
  /\ user' = [user EXCEPT ![task[u].user].referrals = @ + 1]
  /\ UNCHANGED <<otp, wallets, queued, task, history>>

\* $inc totalReferrals of the referrer
Count(u) ==
  /\ At(u, "count")
  /\ user' = [user EXCEPT ![task[u].user].referrals = @ + 1]
  /\ Goto(u, "second")
  /\ UNCHANGED <<otp, wallets, queued, history>>

\* autoGenerateWalletForUser creates another wallet for the same user.
SecondWallet(u) ==
  /\ At(u, "second")
  /\ queued' = queued \cup {Second(u)}
  /\ Goto(u, "save")
  /\ UNCHANGED <<user, otp, wallets, history>>

\* (Mutant: a refused save is taken for a success.)
SaveAnyway(u) ==
  /\ At(u, "save")
  /\ \E a \in {"predicted", "zero"} :
       wallets' = IF a = "zero" /\ \E w \in wallets : w[2] = "zero"
                  THEN wallets ELSE wallets \cup {<<u, a>>}
  /\ Goto(u, "adopt")
  /\ UNCHANGED <<user, otp, queued, history>>

\* Without an answer from the account factory accountAddress is the zero
\* address, which a unique index admits once: three equal attempts fail.
SaveWallet(u) ==
  /\ At(u, "save")
  /\ \E a \in {"predicted", "zero"} :
       IF a = "zero" /\ \E w \in wallets : w[2] = "zero"
       THEN End(u) /\ UNCHANGED wallets
       ELSE Goto(u, "adopt") /\ wallets' = wallets \cup {<<u, a>>}
  /\ UNCHANGED <<user, otp, queued, history>>

\* The second wallet replaces the first one.
Adopt(u) ==
  /\ At(u, "adopt")
  /\ user' = [user EXCEPT ![u].wallet = Second(u)]
  /\ End(u)
  /\ UNCHANGED <<otp, wallets, queued, history>>

-----------------------------------------------------------------------------
(* The other endpoints.                                                    *)

\* sendVerificationMail and sendPasswordResetEmail, for an existing user
RequestCode(p, e, t) ==
  /\ Holder(e) # {}
  /\ Start(p, "send", e, 0, t, None)
  /\ UNCHANGED <<docs, history>>

\* requestOTP: anybody has a code sent to any address.
RequestOtp(p, e, t) ==
  /\ Start(p, "send", e, 0, t, None)
  /\ UNCHANGED <<docs, history>>

\* verifyEmail: the holder of e enters a code found in the mailbox of e; the
\* user is read first and must not be verified.
VerifyEmail(p, u, c) ==
  LET e == user[u].email IN
  /\ Exists(u)
  /\ ~user[u].verified
  /\ \E t \in Types : <<e, c, t>> \in mailed
  /\ Start(p, "consume", e, c, "VERIFY_EMAIL", u)
  /\ UNCHANGED <<docs, history>>

\* The user is updated by its address, whoever has it now.
MarkVerified(p) ==
  /\ At(p, "mark")
  /\ user' = [u \in User |->
       [user[u] EXCEPT !.verified = @ \/ user[u].email = task[p].email]]
  /\ Goto(p, IF user[task[p].user].referrer = None THEN "done" ELSE "award")
  /\ UNCHANGED <<otp, wallets, queued, history>>

\* The referrer of the user that was read gets the bonus.
Award(p) ==
  /\ At(p, "award")
  /\ paid' = [paid EXCEPT ![task[p].user] = @ + 1]
  /\ End(p)
  /\ UNCHANGED <<docs, issued, old, mailed, used>>

\* resetPassword, with a code from the mailbox of e; code c stands for the
\* password chosen with it.
ResetPassword(p, e, c) ==
  /\ \E t \in Types : <<e, c, t>> \in mailed
  /\ Start(p, "consume", e, c, "RESET_PASSWORD", None)
  /\ UNCHANGED <<docs, history>>

SetPassword(p) ==
  /\ At(p, "reset")
  /\ user' = [u \in User |-> IF user[u].email = task[p].email
                              THEN [user[u] EXCEPT !.password = task[p].code]
                              ELSE user[u]]
  /\ End(p)
  /\ UNCHANGED <<otp, wallets, queued, history>>

\* changeEmail of a verified user (JwtStrategy) to an address nobody has; the
\* address of the update is unverified, and gets a code.
ChangeEmail(p, u, e) ==
  /\ Exists(u)
  /\ user[u].verified
  /\ user[u].email # e
  /\ Holder(e) = {}
  /\ Start(p, "change", e, 0, "VERIFY_EMAIL", u)
  /\ UNCHANGED <<docs, history>>

\* (Mutant: the address changes, the verification stays.)
ChangeKeepsVerified(p) ==
  /\ At(p, "change")
  /\ IF Holder(task[p].email) \subseteq {task[p].user}
     THEN /\ user' = [user EXCEPT ![task[p].user].email = task[p].email]
          /\ Goto(p, "send")
     ELSE End(p) /\ UNCHANGED user
  /\ UNCHANGED <<otp, wallets, queued, history>>

\* The unique index refuses an address taken since.
Change(p) ==
  /\ At(p, "change")
  /\ IF Holder(task[p].email) \subseteq {task[p].user}
     THEN /\ user' = [user EXCEPT ![task[p].user].email = task[p].email,
                                  ![task[p].user].verified = FALSE]
          /\ Goto(p, "send")
     ELSE End(p) /\ UNCHANGED user
  /\ UNCHANGED <<otp, wallets, queued, history>>

-----------------------------------------------------------------------------
(* Time.  A TTL index on expiresAt removes a document ten minutes after    *)
(* expiresAt, which is ten minutes after the document was inserted.        *)

Tick ==
  /\ \A d \in otp : d.age < TTL
  /\ otp # {} \/ old # 1..issued
  /\ old' = 1..issued
  /\ otp' = {[d EXCEPT !.age = @ + 1] : d \in otp}
  /\ UNCHANGED <<user, wallets, queued, task, issued, mailed, used, paid>>

Expire ==
  /\ \E d \in otp : d.age = TTL
  /\ otp' = {d \in otp : d.age < TTL}
  /\ UNCHANGED <<user, wallets, queued, task, history>>

-----------------------------------------------------------------------------
RegisterStep(u) ==
  \/ \E e \in Email, r \in User \cup {None} : Register(u, e, r)
  \/ Check(u) \/ FirstWallet(u) \/ Create(u) \/ Count(u)
  \/ SecondWallet(u) \/ SaveWallet(u) \/ Adopt(u)

CallStep(p) ==
  \/ \E e \in Email, t \in Types : RequestCode(p, e, t) \/ RequestOtp(p, e, t)
  \/ \E u \in User, c \in 1..MaxCode : VerifyEmail(p, u, c)
  \/ \E e \in Email, c \in 1..MaxCode : ResetPassword(p, e, c)
  \/ \E u \in User, e \in Email : ChangeEmail(p, u, e)
  \/ Consume(p) \/ MarkVerified(p) \/ Award(p) \/ SetPassword(p) \/ Change(p)

Next ==
  \/ \E u \in User : RegisterStep(u)
  \/ \E p \in Call : CallStep(p)
  \/ \E p \in Task : Send(p) \/ Mail(p)
  \/ Tick \/ Expire

Spec == Init /\ [][Next]_vars

-----------------------------------------------------------------------------
(* Properties.                                                             *)

\* A user is verified only if a verification code mailed to the address the
\* user has now was accepted: MarkVerified updates by address, so that a
\* changeEmail which overlaps with a verification does not borrow it.
VerifiedByMail ==
  \A u \in User : user[u].verified =>
    \E c \in 1..MaxCode : <<user[u].email, c, "VERIFY_EMAIL">> \in used

\* findOneAndDelete lets one of several concurrent verifications through:
\* there are never more referral bonuses for a user than accepted codes.
BonusPerCode ==
  \A u \in User :
    paid[u] <= Cardinality({x \in used : x[3] = "VERIFY_EMAIL"})

\* A password is only ever replaced for the holder of an address to which the
\* accepted reset code was mailed.
PasswordByMail ==
  [][\A u \in User :
       Exists(u) /\ user'[u].password # user[u].password =>
         <<user[u].email, user'[u].password, "RESET_PASSWORD">> \in used]_vars

\* totalReferrals never counts a registration that created no user, however
\* registrations for the same address race.
ReferralsExist ==
  \A r \in User :
    user[r].referrals + Cardinality({u \in User : At(u, "count") /\ task[u].user = r})
      <= Cardinality({u \in User : user[u].referrer = r})

\* The account of the wallet on record was queued for creation, and a
\* replacement is on file as a Wallet document.
WalletOnFile ==
  \A u \in User : Exists(u) =>
    /\ user[u].wallet \in queued
    /\ user[u].wallet = Second(u) => \E w \in wallets : w[1] = u

\* verify-email.email.ts: "This code expires in 10 minutes".  The newest code
\* in a mailbox works for ten minutes, unless it was used or the same address
\* asked for another.
FreshCodeWorks ==
  \A m \in mailed :
    /\ m \notin used /\ m[2] \notin old
    /\ \A n \in mailed : n[1] = m[1] => n[2] <= m[2]
    => \E d \in otp : d.email = m[1]
=============================================================================
