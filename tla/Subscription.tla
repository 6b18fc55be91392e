---------------------------- MODULE Subscription ----------------------------
(***************************************************************************)
(* Plans, the payments for them, and the credit points that a FREE user    *)
(* spends on CVs: PremiumService.selectPlan and upgradeToPremium, the      *)
(* webhook of PaystackService with PaymentService.processPremiumPayment,   *)
(* FlutterwaveService, and optimizeCV and generateAndDownloadCV of         *)
(* CvService.                                                              *)
(*                                                                         *)
(* Every call is a task that interleaves with the others at its awaits.    *)
(* The payment provider delivers a charge again until a delivery is        *)
(* answered with success, and may deliver it again while a delivery of it  *)
(* is still being processed.                                               *)
(***************************************************************************)
EXTENDS Integers, FiniteSets

CONSTANTS
  User,     \* the users, with verified addresses
  Plan,     \* the paid plans that have a price in the settings
  Txn,      \* BOUND: the transactions that are ever created
  Call,     \* BOUND: the calls of selectPlan
  CvCall,   \* BOUND: the calls that optimise or download a CV
  Attempt,  \* BOUND: the deliveries of one charge processed at a time
  Earned,   \* BOUND: the points a user may have earned by verifyEmail
  None      \* no transaction, no user

Providers == {"paystack", "flutterwave"}

ASSUME SubscriptionAssumption ==
  /\ "FREE" \notin Plan
  /\ None \notin Txn \cup User \cup Plan \cup Providers
  /\ IsFiniteSet(CvCall)
  /\ Earned \in Nat

VARIABLES
  plan,      \* plan[u]: the plan of user u
  points,    \* points[u]: the totalCreditPoint of user u
  downloads, \* downloads[u]: the totalCvDownload of user u
  txn,       \* txn[t]: the Transaction document with reference t
  active,    \* the payment providers that are active
  page,      \* page[t]: the provider of the payment page opened for t
  charged,   \* the transactions whose payment page the customer has paid
  acked,     \* the charges of which a delivery was answered with success
  upgraded,  \* history: the transactions that have upgraded their user
  call,      \* call[p]: a call of selectPlan
  delivery,  \* delivery[t, n]: the progress of a webhook delivery
  cv         \* cv[q]: a call of CvService

credit == <<points, downloads, cv>>
gateway == <<active, page>>
receipts == <<charged, acked, upgraded>>
vars == <<plan, credit, txn, gateway, receipts, call, delivery>>

Plans == {"FREE"} \cup Plan
NoTxn == [status |-> "ABSENT", user |-> None, plan |-> "FREE"]
Idle == [pc |-> "idle", user |-> None, plan |-> "FREE", txn |-> None]
NoCv == [pc |-> "idle", user |-> None]

Points == (0 - Cardinality(CvCall))..Earned

Txns == [status : {"ABSENT", "PENDING", "COMPLETED"},
         user : User \cup {None}, plan : Plans]
SelectCalls == [pc : {"idle", "free", "create", "page", "done"},
                user : User \cup {None}, plan : Plans, txn : Txn \cup {None}]
CvCalls == [pc : {"idle", "optimise", "download", "send", "pay", "done"},
            user : User \cup {None}]

TypeOK ==
  /\ plan \in [User -> Plans]
  /\ points \in [User -> Points]
  /\ downloads \in [User -> 0..Cardinality(CvCall)]
  /\ txn \in [Txn -> Txns]
  /\ active \in SUBSET Providers
  /\ page \in [Txn -> Providers \cup {None}]
  /\ charged \in SUBSET Txn /\ acked \in SUBSET Txn /\ upgraded \in SUBSET Txn
  /\ call \in [Call -> SelectCalls]
  /\ delivery \in [Txn \X Attempt -> {"idle", "complete", "upgrade", "mail"}]
  /\ cv \in [CvCall -> CvCalls]

Init ==
  /\ plan = [u \in User |-> "FREE"]
  /\ points \in [User -> 0..Earned]
  /\ downloads = [u \in User |-> 0]
  /\ txn = [t \in Txn |-> NoTxn]
  /\ active \in SUBSET Providers
  /\ page = [t \in Txn |-> None]
  /\ charged = {} /\ acked = {} /\ upgraded = {}
  /\ call = [p \in Call |-> Idle]
  /\ delivery = [d \in Txn \X Attempt |-> "idle"]
  /\ cv = [q \in CvCall |-> NoCv]

-----------------------------------------------------------------------------
(* selectPlan                                                              *)

\* The free plan is set at once, whatever payments are on their way.
SelectFree(p, u) ==
  /\ call[p].pc = "idle"
  /\ call' = [call EXCEPT ![p] = [Idle EXCEPT !.pc = "free", !.user = u]]
  /\ UNCHANGED <<plan, credit, txn, gateway, receipts, delivery>>

SetFree(p) ==
  /\ call[p].pc = "free"
  /\ plan' = [plan EXCEPT ![call[p].user] = "FREE"]
  /\ call' = [call EXCEPT ![p].pc = "done"]
  /\ UNCHANGED <<credit, txn, gateway, receipts, delivery>>

\* A paid plan must differ from the plan the user had when the request came in.
Select(p, u, pl) ==
  /\ call[p].pc = "idle"
  /\ plan[u] # pl
  /\ call' = [call EXCEPT ![p] = [pc |-> "create", user |-> u, plan |-> pl,
                                  txn |-> None]]
  /\ UNCHANGED <<plan, credit, txn, gateway, receipts, delivery>>

\* The transaction is PENDING before there is anything to pay.
CreateTxn(p) ==
  /\ call[p].pc = "create"
  /\ \E t \in Txn :
       /\ txn[t].status = "ABSENT"
       /\ txn' = [txn EXCEPT ![t] = [status |-> "PENDING", user |-> call[p].user,
                                     plan |-> call[p].plan]]
       /\ call' = [call EXCEPT ![p].pc = "page", ![p].txn = t]
  /\ UNCHANGED <<plan, credit, gateway, receipts, delivery>>

\* constructPaymentPayloadForUpgrade opens a page at an active provider; with
\* none it refuses, and the transaction stays PENDING.
OpenPage(p) ==
  /\ call[p].pc = "page"
  /\ \/ active = {} /\ UNCHANGED page
     \/ \E v \in active : page' = [page EXCEPT ![call[p].txn] = v]
  /\ call' = [call EXCEPT ![p].pc = "done"]
  /\ UNCHANGED <<plan, credit, txn, active, receipts, delivery>>

\* An administrator switches a provider on or off (PaymentService.update).
Switch(v) ==
  /\ active' = IF v \in active THEN active \ {v} ELSE active \cup {v}
  /\ UNCHANGED <<plan, credit, txn, page, receipts, call, delivery>>

\* The customer pays.
Pay(t) ==
  /\ page[t] # None
  /\ t \notin charged
  /\ charged' = charged \cup {t}
  /\ UNCHANGED <<plan, credit, txn, gateway, acked, upgraded, call, delivery>>

-----------------------------------------------------------------------------
(* Webhooks.                                                               *)

\* The reference of a charge: Paystack is given that of the transaction,
\* Flutterwave a tx_ref of its own that no transaction has.
Reference(t) == IF page[t] = "paystack" THEN t ELSE None

Step(t, n, where) == delivery' = [delivery EXCEPT ![<<t, n>>] = where]

\* (Mutant: a transaction that is COMPLETED already is left alone.)
DeliverPendingOnly(t, n) ==
  /\ delivery[<<t, n>>] = "idle"
  /\ t \in charged \ acked
  /\ page[t] \in active
  /\ Reference(t) \in Txn
  /\ txn[t].status = "PENDING"
  /\ Step(t, n, "complete")
  /\ UNCHANGED <<plan, credit, txn, gateway, receipts, call>>

\* A delivery is accepted while the provider is active, if its reference
\* leads to a transaction, whatever the status of that.  The provider signs
\* what it delivers; a payload with another signature is answered with
\* success and changes nothing.
Deliver(t, n) ==
  /\ delivery[<<t, n>>] = "idle"
  /\ t \in charged \ acked
  /\ page[t] \in active
  /\ Reference(t) \in Txn
  /\ Step(t, n, "complete")
  /\ UNCHANGED <<plan, credit, txn, gateway, receipts, call>>

\* (Mutant: the transaction is completed after the upgrade.)
CompleteLater(t, n) ==
  /\ delivery[<<t, n>>] = "complete"
  /\ Step(t, n, "upgrade")
  /\ UNCHANGED <<plan, credit, txn, gateway, receipts, call>>

\* processPremiumPayment completes the transaction first ...
Complete(t, n) ==
  /\ delivery[<<t, n>>] = "complete"
  /\ txn' = [txn EXCEPT ![t].status = "COMPLETED"]
  /\ Step(t, n, "upgrade")
  /\ UNCHANGED <<plan, credit, gateway, receipts, call>>

\* ... and then upgradeToPremium sets the plan of the charge's metadata, in a
\* database transaction.  (Its $inc of premiumPoint, which is not a field of
\* the user, changes nothing.)
Upgrade(t, n) ==
  /\ delivery[<<t, n>>] = "upgrade"
  /\ plan' = [plan EXCEPT ![txn[t].user] = txn[t].plan]
  /\ upgraded' = upgraded \cup {t}
  /\ Step(t, n, "mail")
  /\ UNCHANGED <<credit, txn, gateway, charged, acked, call>>

\* Only after two mails went out is the delivery answered with success.
Acknowledge(t, n) ==
  /\ delivery[<<t, n>>] = "mail"
  /\ acked' = acked \cup {t}
  /\ Step(t, n, "idle")
  /\ UNCHANGED <<plan, credit, txn, gateway, charged, upgraded, call>>

\* (Mutant: errors of a delivery are caught and logged.)
FailQuietly(t, n) ==
  /\ delivery[<<t, n>>] # "idle"
  /\ acked' = acked \cup {t}
  /\ Step(t, n, "idle")
  /\ UNCHANGED <<plan, credit, txn, gateway, charged, upgraded, call>>

\* An await rejects, or the process dies: the provider sees no success.
DeliveryFails(t, n) ==
  /\ delivery[<<t, n>>] # "idle"
  /\ Step(t, n, "idle")
  /\ UNCHANGED <<plan, credit, txn, gateway, receipts, call>>
-----------------------------------------------------------------------------
(* CvService.  The user was read when the request came in (JwtStrategy).   *)

NoPointsLeft(u) == plan[u] = "FREE" /\ points[u] = 0

\* optimizeCV and generateAndDownloadCV refuse a FREE user for whom
\* !totalCreditPoint holds, which a negative balance does not make true.
StartCv(q, u, kind) ==
  /\ cv[q].pc = "idle"
  /\ ~NoPointsLeft(u)
  /\ cv' = [cv EXCEPT ![q] = [pc |-> kind, user |-> u]]
  /\ UNCHANGED <<plan, points, downloads, txn, gateway, receipts, call, delivery>>

\* The optimised CV has arrived.
Optimise(q) ==
  /\ cv[q].pc = "optimise"
  /\ cv' = [cv EXCEPT ![q].pc = "pay"]
  /\ UNCHANGED <<plan, points, downloads, txn, gateway, receipts, call, delivery>>

\* The PDF is ready: $inc totalCvDownload, and then it is mailed.
CountDownload(q) ==
  /\ cv[q].pc = "download"
  /\ downloads' = [downloads EXCEPT ![cv[q].user] = @ + 1]
  /\ cv' = [cv EXCEPT ![q].pc = "send"]
  /\ UNCHANGED <<plan, points, txn, gateway, receipts, call, delivery>>

SendCv(q) ==
  /\ cv[q].pc = "send"
  /\ cv' = [cv EXCEPT ![q].pc = "pay"]
  /\ UNCHANGED <<plan, points, downloads, txn, gateway, receipts, call, delivery>>

\* (Mutant: the point is taken again and again.)
PayAgain(q) ==
  /\ cv[q].pc = "pay"
  /\ points' = [points EXCEPT ![cv[q].user] = @ - 1]
  /\ UNCHANGED <<plan, downloads, cv, txn, gateway, receipts, call, delivery>>

\* $inc totalCreditPoint by -1, on a paid plan as on the free one
PayPoint(q) ==
  /\ cv[q].pc = "pay"
  /\ points' = [points EXCEPT ![cv[q].user] = @ - 1]
  /\ cv' = [cv EXCEPT ![q].pc = "done"]
  /\ UNCHANGED <<plan, downloads, txn, gateway, receipts, call, delivery>>

-----------------------------------------------------------------------------
SelectStep(p) ==
  \/ \E u \in User : SelectFree(p, u) \/ \E pl \in Plan : Select(p, u, pl)
  \/ SetFree(p) \/ CreateTxn(p) \/ OpenPage(p)

DeliveryStep(t, n) ==
  \/ Deliver(t, n) \/ Complete(t, n) \/ Upgrade(t, n) \/ Acknowledge(t, n)
  \/ DeliveryFails(t, n)

CvStep(q) ==
  \/ \E u \in User, kind \in {"optimise", "download"} : StartCv(q, u, kind)
  \/ Optimise(q) \/ CountDownload(q) \/ SendCv(q) \/ PayPoint(q)

Next ==
  \/ \E p \in Call : SelectStep(p)
  \/ \E v \in Providers : Switch(v)
  \/ \E t \in Txn : Pay(t) \/ \E n \in Attempt : DeliveryStep(t, n)
  \/ \E q \in CvCall : CvStep(q)

Spec == Init /\ [][Next]_vars

\* The provider keeps delivering a charge, and an await does not reject in
\* every delivery of it.
Fairness ==
  \A t \in Txn :
    /\ WF_vars(\E n \in Attempt : Deliver(t, n))
    /\ SF_vars(\E n \in Attempt : Complete(t, n))
    /\ SF_vars(\E n \in Attempt : Upgrade(t, n))

FairSpec == Spec /\ Fairness

-----------------------------------------------------------------------------
(* Properties.                                                             *)

\* A user is on a paid plan only by a transaction of that user for that plan
\* that was paid and is COMPLETED, however calls, payments and deliveries
\* overlap.
PlanPaidFor ==
  \A u \in User : plan[u] # "FREE" =>
    \E t \in charged : txn[t] = [status |-> "COMPLETED", user |-> u,
                                 plan |-> plan[u]]

\* The provider stops delivering a charge only after the charge has upgraded
\* the user: a delivery that failed halfway is not answered with success.
AckAfterUpgrade == acked \subseteq upgraded

\* A charge by Paystack upgrades its user in the end, also when deliveries
\* fail between COMPLETED and the upgrade, if Paystack stays active.
ChargeHonoured ==
  <>[]("paystack" \in active) =>
    \A t \in Txn : t \in charged /\ page[t] = "paystack" ~> t \in upgraded

\* cv.service.ts: "You have no points left. Earn points by completing tasks or
\* upgrade your plan to download more CVs."  Only a user with points left, or
\* with a plan, is let through.
AdmittedWithPoints ==
  [][\A q \in CvCall, u \in User :
       cv[q].pc = "idle" /\ cv'[q].pc # "idle" /\ cv'[q].user = u =>
         plan[u] # "FREE" \/ points[u] > 0]_vars
=============================================================================
