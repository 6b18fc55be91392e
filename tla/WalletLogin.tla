---------------------------- MODULE WalletLogin ----------------------------
(***************************************************************************)
(* Signing in with a wallet (auth/auth.service.ts): the nonces of one      *)
(* address, whose number is limited by a counter in Redis, and the login   *)
(* that finds or creates the account of the address.  The nonce itself is  *)
(* left out: the login looks it up and deletes it, and compares nothing.   *)
(*                                                                         *)
(* Requests interleave at their awaits.  CacheHelperUtil answers a failed  *)
(* Redis call as if the key did not exist, and never rejects for one.      *)
(***************************************************************************)
EXTENDS Naturals, FiniteSets

CONSTANTS
  Req,     \* BOUND: the requests at one time
  Max,     \* nonceRateLimitMax
  Window,  \* nonceRateLimitWindow, in ticks of the clock
  Faults   \* the faults of the environment the model allows

ASSUME LoginAssumption ==
  /\ Max \in Nat \ {0}
  /\ Window \in Nat \ {0}
  /\ Faults \subseteq
       { "cache",    \* a Redis call fails, which CacheHelper only logs
         "await" }   \* an await of a request rejects

VARIABLES
  count,    \* the value of the key walletNonceRateLimit, 0 when there is none
  ttl,      \* its time to live; 0 when it has none, or does not exist
  recent,   \* recent[a]: the nonces given out in the last a ticks (history)
  blurred,  \* requests for a nonce overlapped or a Redis call failed (history)
  account,  \* the account of the address
  taken,    \* another account without an email exists
  firsts,   \* the logins answered with isNewUser (history)
  task      \* task[p]: what request p is doing

nonceVars == <<count, ttl, recent, blurred>>
loginVars == <<account, taken, firsts>>
vars == <<nonceVars, loginVars, task>>

Ages == 0 .. Window - 1
Idle == [pc |-> "idle", count |-> 0, ttl |-> 0]

Tasks == [ pc : {"idle", "ttl", "drop", "grant", "update", "create"},
           count : 0 .. Max, ttl : 0 .. Window ]

TypeOK ==
  /\ count \in 0 .. Max
  /\ ttl \in 0 .. Window
  /\ recent \in [Ages -> Nat]
  /\ blurred \in BOOLEAN
  /\ account \in {"none", "live", "removed"}
  /\ taken \in BOOLEAN
  /\ firsts \in Nat
  /\ task \in [Req -> Tasks]

Init ==
  /\ count = 0
  /\ ttl = 0
  /\ recent = [a \in Ages |-> 0]
  /\ blurred = FALSE
  /\ account = "none"
  /\ taken = FALSE
  /\ firsts = 0
  /\ task = [p \in Req |-> Idle]

At(p, where) == task[p].pc = where
End(p) == task' = [task EXCEPT ![p] = Idle]
Asking(p) == task[p].pc \in {"ttl", "drop", "grant"}

\* The outcomes of a Redis call: it fails only where the model allows it.
Failing == IF "cache" \in Faults THEN BOOLEAN ELSE {FALSE}

\* A nonce given out now is among those of every span that ends now.
CountNonce == [a \in Ages |-> recent[a] + 1]

\* The history of nonces is kept while it is of use.
Blur(failed) ==
  /\ blurred' = (blurred \/ failed)
  /\ recent' = IF blurred' THEN [a \in Ages |-> 0] ELSE recent

-----------------------------------------------------------------------------
(* generateWalletAuthNonce.                                                *)

\* The counter is read.
ReadCount(p) ==
  /\ At(p, "idle")
  /\ \E failed \in Failing :
       /\ task' = [task EXCEPT ![p] =
            [pc |-> "ttl", count |-> IF failed THEN 0 ELSE count, ttl |-> 0]]
       /\ Blur(failed \/ \E q \in Req : Asking(q))
  /\ UNCHANGED <<count, ttl, loginVars>>

\* Redis rounds what is left to the second; 0 stands for its -1 and -2 too.
Ttls == IF ttl = 0 THEN {0} ELSE {ttl - 1, ttl}

\* (Mutant: a counter without time left is not removed.)
DecidedByCount(t, left) ==
  IF t.count >= Max THEN Idle
  ELSE [pc |-> "grant", count |-> t.count, ttl |-> left]

\* (Mutant: one nonce too many before the counter is full.)
DecidedLate(t, left) ==
  IF t.count > 0 /\ left = 0
  THEN [pc |-> "drop", count |-> 0, ttl |-> 0]
  ELSE IF t.count > Max THEN Idle
  ELSE [pc |-> "grant", count |-> t.count, ttl |-> left]

\* A counter that is about to expire is removed, a full one refuses.
Decided(t, left) ==
  IF t.count > 0 /\ left = 0
  THEN [pc |-> "drop", count |-> 0, ttl |-> 0]
  ELSE IF t.count >= Max THEN Idle
  ELSE [pc |-> "grant", count |-> t.count, ttl |-> left]

\* The time to live is read, in a call of its own.
ReadTtl(p) ==
  /\ At(p, "ttl")
  /\ \E failed \in Failing :
       /\ \E left \in IF failed THEN {0} ELSE Ttls :
            task' = [task EXCEPT ![p] = Decided(@, left)]
       /\ Blur(failed)
  /\ UNCHANGED <<count, ttl, loginVars>>

Drop(p) ==
  /\ At(p, "drop")
  /\ \E failed \in Failing :
       /\ count' = IF failed THEN count ELSE 0
       /\ ttl' = IF failed THEN ttl ELSE 0
       /\ Blur(failed)
  /\ task' = [task EXCEPT ![p].pc = "grant"]
  /\ UNCHANGED loginVars

\* (Mutant: every nonce starts the window again, and the count with it.)
GrantAfresh(p) ==
  /\ At(p, "grant")
  /\ count' = 1
  /\ ttl' = Window
  /\ blurred' = blurred
  /\ recent' = IF blurred THEN recent ELSE CountNonce
  /\ End(p)
  /\ UNCHANGED loginVars

\* The counter is written back, with the time that was left when it was read.
Grant(p) ==
  LET t == task[p] IN
  /\ At(p, "grant")
  /\ \E failed \in Failing :
       /\ count' = IF failed THEN count ELSE t.count + 1
       /\ ttl' = IF failed THEN ttl ELSE IF t.count = 0 THEN Window ELSE t.ttl
       /\ blurred' = (blurred \/ failed)
  /\ recent' = IF blurred' THEN [a \in Ages |-> 0]
               ELSE CountNonce
  /\ End(p)
  /\ UNCHANGED loginVars

-----------------------------------------------------------------------------
(* loginWithWallet.                                                        *)

\* The account of the address is looked for; a removed one is not found.
LoginFind(p) ==
  /\ At(p, "idle")
  /\ task' = [task EXCEPT ![p].pc = IF account = "live" THEN "update"
                                    ELSE "create"]
  /\ UNCHANGED <<nonceVars, loginVars>>

\* The account found gets a new name and login time, and a token is signed.
LoginUpdate(p) ==
  /\ At(p, "update")
  /\ End(p)
  /\ UNCHANGED <<nonceVars, loginVars>>

\* (Mutant: addresses are not unique.)
LoginCreateAgain(p) ==
  /\ At(p, "create")
  /\ account' = "live"
  /\ firsts' = firsts + 1
  /\ End(p)
  /\ UNCHANGED <<nonceVars, taken>>

\* createWalletUser: two unique indexes may refuse, that of the address and
\* that of the email, where the accounts without one all have the same key.
LoginCreate(p) ==
  /\ At(p, "create")
  /\ IF account = "none" /\ ~taken
     THEN account' = "live" /\ firsts' = firsts + 1
     ELSE UNCHANGED <<account, firsts>>
  /\ End(p)
  /\ UNCHANGED <<nonceVars, taken>>

-----------------------------------------------------------------------------
(* The environment.                                                        *)

\* A request rejects (the database; getTtl without a connection).
TaskFails(p) ==
  /\ "await" \in Faults
  /\ ~At(p, "idle")
  /\ End(p)
  /\ UNCHANGED <<nonceVars, loginVars>>

\* Another wallet signs up first.
OtherSignsUp ==
  /\ account = "none" /\ ~taken
  /\ taken' = TRUE
  /\ UNCHANGED <<nonceVars, account, firsts, task>>

\* An administrator removes the account.
AdminRemove ==
  /\ account = "live"
  /\ account' = "removed"
  /\ UNCHANGED <<nonceVars, taken, firsts, task>>

\* Time passes: Redis drops a key with no time left.
Tick ==
  /\ ttl > 0 \/ \E a \in Ages : recent[a] > 0
  /\ ttl' = IF ttl = 0 THEN 0 ELSE ttl - 1
  /\ count' = IF ttl = 1 THEN 0 ELSE count
  /\ recent' = [a \in Ages |-> IF a = 0 THEN 0 ELSE recent[a - 1]]
  /\ UNCHANGED <<blurred, loginVars, task>>

Step(p) ==
  \/ ReadCount(p) \/ ReadTtl(p) \/ Drop(p) \/ Grant(p)
  \/ LoginFind(p) \/ LoginUpdate(p) \/ LoginCreate(p)
  \/ TaskFails(p)

Next == (\E p \in Req : Step(p)) \/ OtherSignsUp \/ AdminRemove \/ Tick

Spec == Init /\ [][Next]_vars

\* The clock runs; nothing is asked of the requests.
FairSpec == Spec /\ WF_vars(Tick)

-----------------------------------------------------------------------------
(* Properties.                                                             *)

\* Without overlapping requests and Redis failures, the counter of
\* generateWalletAuthNonce (auth.service.ts:330-362) gives out fewer than
\* three times Max nonces in any span of Window, however requests and expiry
\* fall.  Three, not two: each rounding of the time left shortens the counter's
\* window a little, so that a whole one and parts of its neighbours fit in.
RateBound == ~blurred => recent[Window - 1] < 3 * Max

\* The counter always has an expiry (auth.service.ts:335-338 and 361; an
\* expiry of 0 would make setCache write a key that stays), also when
\* requests overlap and Redis calls fail.
KeyExpires == count > 0 => ttl > 0

\* Of overlapping first logins of an address one creates the account, and only
\* that one is answered isNewUser (auth.service.ts:414-434), also when the
\* account is removed in between.
FirstLoginOnce == firsts <= 1

\* An address that has used up its nonces gets one again after a while, though
\* the refused requests keep coming (auth.service.ts:335-345).
LockoutEnds == count = Max ~> count < Max
=============================================================================
