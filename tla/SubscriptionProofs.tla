------------------------- MODULE SubscriptionProofs -------------------------
(***************************************************************************)
(* Theorems about Subscription, for any number of users, plans,            *)
(* transactions, calls and overlapping deliveries.                         *)
(*                                                                         *)
(* PlanPaidFor is not inductive: a delivery sets the plan two awaits after *)
(* it was accepted.  Receipts says what a delivery may rely on at each of  *)
(* its awaits: the charge behind it, and that the transaction, COMPLETED   *)
(* once, is never created anew.  Ledger bounds the balance: a user has     *)
(* spent as many points as calls of CvService are done.                    *)
(***************************************************************************)
EXTENDS Subscription, FiniteSetTheorems, TLAPS

PaymentType ==
  /\ plan \in [User -> Plans]
  /\ txn \in [Txn -> Txns]
  /\ active \in SUBSET Providers
  /\ page \in [Txn -> Providers \cup {None}]
  /\ charged \in SUBSET Txn /\ acked \in SUBSET Txn /\ upgraded \in SUBSET Txn
  /\ call \in [Call -> SelectCalls]
  /\ delivery \in [Txn \X Attempt -> {"idle", "complete", "upgrade", "mail"}]

CreditType ==
  /\ points \in [User -> Int]
  /\ downloads \in [User -> Nat]
  /\ cv \in [CvCall -> CvCalls]

\* A transaction exists before there is a page for it, a page before a charge,
\* and a charge before a delivery.
Receipts ==
  /\ \A p \in Call : call[p].pc = "page" =>
       call[p].txn \in Txn /\ txn[call[p].txn].status # "ABSENT"
  /\ \A t \in Txn : page[t] # None => txn[t].status # "ABSENT"
  /\ \A t \in charged : page[t] # None
  /\ \A t \in Txn, n \in Attempt :
       /\ delivery[<<t, n>>] # "idle" => t \in charged
       /\ delivery[<<t, n>>] \in {"upgrade", "mail"} =>
            txn[t].status = "COMPLETED"
       /\ delivery[<<t, n>>] = "mail" => t \in upgraded

Paid(u) == {q \in CvCall : cv[q].pc = "done" /\ cv[q].user = u}
Counted(u) ==
  {q \in CvCall : cv[q].pc \in {"send", "pay", "done"} /\ cv[q].user = u}

Ledger ==
  \A u \in User :
    /\ points[u] + Cardinality(Paid(u)) \in 0..Earned
    /\ downloads[u] <= Cardinality(Counted(u))

PaymentInv == PaymentType /\ Receipts /\ PlanPaidFor /\ AckAfterUpgrade
CreditInv == CreditType /\ Ledger
IInv == PaymentInv /\ CreditInv

payments == <<plan, txn, gateway, receipts, call, delivery>>

-----------------------------------------------------------------------------
\* A call moves on to its next await.
LEMMA CallMoves ==
  ASSUME PaymentType, NEW p \in Call,
         NEW where \in {"idle", "free", "create", "page", "done"}
  PROVE  [call EXCEPT ![p].pc = where] \in [Call -> SelectCalls]
<1>1. [call[p] EXCEPT !.pc = where] \in SelectCalls
  BY DEF PaymentType, SelectCalls
<1> QED BY <1>1 DEF PaymentType

LEMMA PaidIsFinite ==
  ASSUME NEW u
  PROVE  /\ IsFiniteSet(Paid(u)) /\ IsFiniteSet(Counted(u))
         /\ Cardinality(Paid(u)) \in 0..Cardinality(CvCall)
         /\ Cardinality(Counted(u)) \in 0..Cardinality(CvCall)
<1>1. Paid(u) \in SUBSET CvCall /\ Counted(u) \in SUBSET CvCall
  BY DEF Paid, Counted
<1>2. IsFiniteSet(CvCall)
  BY SubscriptionAssumption
<1>3. IsFiniteSet(Paid(u)) /\ Cardinality(Paid(u)) <= Cardinality(CvCall)
  BY <1>1, <1>2, FS_Subset, Zenon
<1>4. IsFiniteSet(Counted(u)) /\ Cardinality(Counted(u)) <= Cardinality(CvCall)
  BY <1>1, <1>2, FS_Subset, Zenon
<1>5. /\ Cardinality(Paid(u)) \in Nat /\ Cardinality(Counted(u)) \in Nat
      /\ Cardinality(CvCall) \in Nat
  BY <1>2, <1>3, <1>4, FS_CardinalityType
<1> QED BY <1>3, <1>4, <1>5

LEMMA TypeFromIInv == IInv => TypeOK
<1> SUFFICES ASSUME IInv PROVE TypeOK
  OBVIOUS
<1>1. IsFiniteSet(CvCall) /\ Cardinality(CvCall) \in Nat
  BY SubscriptionAssumption, FS_CardinalityType
<1>2. points \in [User -> Points]
  <2>1. SUFFICES ASSUME NEW u \in User PROVE points[u] \in Points
    BY DEF IInv, CreditInv, CreditType
  <2>2. points[u] + Cardinality(Paid(u)) \in 0..Earned /\ points[u] \in Int
    BY DEF IInv, CreditInv, CreditType, Ledger
  <2> QED BY <1>1, <2>2, PaidIsFinite, SubscriptionAssumption DEF Points
<1>3. downloads \in [User -> 0..Cardinality(CvCall)]
  <2>1. SUFFICES ASSUME NEW u \in User
                 PROVE  downloads[u] \in 0..Cardinality(CvCall)
    BY DEF IInv, CreditInv, CreditType
  <2>2. downloads[u] <= Cardinality(Counted(u)) /\ downloads[u] \in Nat
    BY DEF IInv, CreditInv, CreditType, Ledger
  <2> QED BY <1>1, <2>2, PaidIsFinite
<1> QED BY <1>2, <1>3 DEF IInv, PaymentInv, PaymentType, CreditInv,
                             CreditType, TypeOK

LEMMA InitIInv == Init => IInv
<1> SUFFICES ASSUME Init PROVE IInv
  OBVIOUS
<1> USE SubscriptionAssumption DEF Init, NoTxn, Idle, NoCv, Plans
<1>1. PaymentType
  BY DEF PaymentType, Txns, SelectCalls
<1>2. Receipts /\ PlanPaidFor /\ AckAfterUpgrade
  BY DEF Receipts, PlanPaidFor, AckAfterUpgrade
<1>3. CreditType
  BY DEF CreditType, CvCalls
<1>4. \A u \in User : Paid(u) = {} /\ Counted(u) = {}
  BY DEF Paid, Counted
<1>5. Ledger
  <2>1. SUFFICES ASSUME NEW u \in User
                 PROVE  /\ points[u] + Cardinality(Paid(u)) \in 0..Earned
                        /\ downloads[u] <= Cardinality(Counted(u))
    BY DEF Ledger
  <2>2. Cardinality(Paid(u)) = 0 /\ Cardinality(Counted(u)) = 0
    BY <1>4, FS_EmptySet
  <2> QED BY <2>2
<1> QED BY <1>1, <1>2, <1>3, <1>5 DEF IInv, PaymentInv, CreditInv

-----------------------------------------------------------------------------
(* Plans, payments and deliveries. *)

LEMMA SelectKeepsPayments ==
  ASSUME PaymentInv, NEW p \in Call, SelectStep(p)
  PROVE  PaymentInv'
<1> USE SubscriptionAssumption DEF PaymentInv, gateway, receipts
<1>1. CASE \E u \in User : SelectFree(p, u)
  <2>0. PICK u \in User : SelectFree(p, u)
    BY <1>1
  <2> USE <2>0 DEF SelectFree
  <2>1. PaymentType'
    <3>1. [Idle EXCEPT !.pc = "free", !.user = u] \in SelectCalls
      BY DEF Idle, SelectCalls, Plans
    <3> QED BY <3>1 DEF PaymentType
  <2>2. Receipts'
    BY DEF PaymentType, Receipts
  <2> QED BY <2>1, <2>2 DEF PlanPaidFor, AckAfterUpgrade
<1>2. CASE \E u \in User, pl \in Plan : Select(p, u, pl)
  <2>0. PICK u \in User, pl \in Plan : Select(p, u, pl)
    BY <1>2
  <2> USE <2>0 DEF Select
  <2>1. PaymentType'
    <3>1. [pc |-> "create", user |-> u, plan |-> pl, txn |-> None] \in
            SelectCalls
      BY DEF SelectCalls, Plans
    <3> QED BY <3>1 DEF PaymentType
  <2>2. Receipts'
    BY DEF PaymentType, Receipts
  <2> QED BY <2>1, <2>2 DEF PlanPaidFor, AckAfterUpgrade
<1>3. CASE SetFree(p)
  <2> USE <1>3 DEF SetFree
  <2>1. PaymentType'
    BY CallMoves DEF PaymentType, Plans
  <2>2. Receipts'
    BY DEF PaymentType, Receipts
  <2>3. \A u \in User : plan'[u] # "FREE" => plan'[u] = plan[u]
    BY DEF PaymentType
  <2>4. PlanPaidFor'
    BY <2>3 DEF PlanPaidFor
  <2> QED BY <2>1, <2>2, <2>4 DEF AckAfterUpgrade
<1>4. CASE CreateTxn(p)
  <2>1. PICK t \in Txn :
          /\ txn[t].status = "ABSENT"
          /\ txn' = [txn EXCEPT ![t] = [status |-> "PENDING", user |-> call[p].user,
                                        plan |-> call[p].plan]]
          /\ call' = [call EXCEPT ![p].pc = "page", ![p].txn = t]
    BY <1>4 DEF CreateTxn
  <2>2. UNCHANGED <<plan, active, page, charged, acked, upgraded, delivery>>
    BY <1>4 DEF CreateTxn
  <2>3. PaymentType'
    <3>1. [status |-> "PENDING", user |-> call[p].user, plan |-> call[p].plan] \in
            Txns
      BY DEF PaymentType, SelectCalls, Txns
    <3>2. txn' \in [Txn -> Txns]
      BY <2>1, <3>1 DEF PaymentType
    <3>3. call' \in [Call -> SelectCalls]
      <4> DEFINE opened == [[call[p] EXCEPT !.pc = "page"] EXCEPT !.txn = t]
      <4>1. opened \in SelectCalls
        BY ZenonT(60) DEF PaymentType, SelectCalls
      <4>2. call' = [call EXCEPT ![p] = opened]
        BY <2>1 DEF PaymentType
      <4> QED BY <4>1, <4>2 DEF PaymentType
    <3> QED BY <2>2, <3>2, <3>3 DEF PaymentType
  <2>4. \A s \in Txn : txn[s].status # "ABSENT" => txn'[s] = txn[s]
    BY <2>1 DEF PaymentType
  <2>5. \A s \in Txn : txn[s].status # "ABSENT" => txn'[s].status # "ABSENT"
    BY <2>4
  <2>6. Receipts'
    BY <2>1, <2>2, <2>4, <2>5 DEF Receipts, PaymentType
  <2>7. PlanPaidFor'
    BY <2>2, <2>4 DEF PlanPaidFor, PaymentType
  <2> QED BY <2>2, <2>3, <2>6, <2>7 DEF AckAfterUpgrade
<1>5. CASE OpenPage(p)
  <2> USE <1>5 DEF OpenPage
  <2>1. call[p].txn \in Txn /\ txn[call[p].txn].status # "ABSENT"
    BY DEF Receipts
  <2>2. page' = page \/ \E v \in Providers : page' = [page EXCEPT ![call[p].txn] = v]
    BY DEF PaymentType
  <2>3. page' \in [Txn -> Providers \cup {None}]
    BY <2>1, <2>2 DEF PaymentType
  <2>4. call' \in [Call -> SelectCalls]
    BY CallMoves
  <2>5. PaymentType'
    BY <2>3, <2>4 DEF PaymentType
  <2>6. \A t \in Txn : /\ page'[t] # None => page[t] # None \/ t = call[p].txn
                       /\ page[t] # None => page'[t] # None
    BY <2>1, <2>2, SubscriptionAssumption DEF PaymentType
  <2>7. Receipts'
    BY <2>1, <2>6 DEF PaymentType, Receipts
  <2> QED BY <2>5, <2>7 DEF PlanPaidFor, AckAfterUpgrade
<1> QED BY <1>1, <1>2, <1>3, <1>4, <1>5 DEF SelectStep

LEMMA ProviderKeepsPayments ==
  ASSUME PaymentInv,
         (\E v \in Providers : Switch(v)) \/ (\E t \in Txn : Pay(t))
  PROVE  PaymentInv'
<1> USE DEF PaymentInv, gateway, receipts
<1>1. CASE \E v \in Providers : Switch(v)
  BY <1>1 DEF Switch, PaymentType, Receipts, PlanPaidFor, AckAfterUpgrade
<1>2. CASE \E t \in Txn : Pay(t)
  BY <1>2 DEF Pay, PaymentType, Receipts, PlanPaidFor, AckAfterUpgrade
<1> QED BY <1>1, <1>2

\* Complete writes the status of a transaction that was charged, and Upgrade
\* finds it COMPLETED.
LEMMA DeliveryKeepsPayments ==
  ASSUME PaymentInv, NEW t \in Txn, NEW n \in Attempt, DeliveryStep(t, n)
  PROVE  PaymentInv'
<1> USE SubscriptionAssumption DEF PaymentInv, gateway, receipts, Step
<1>0. <<t, n>> \in Txn \X Attempt
  OBVIOUS
<1>1. CASE Deliver(t, n)
  BY <1>0, <1>1 DEF Deliver, PaymentType, Receipts, PlanPaidFor, AckAfterUpgrade
<1>2. CASE Complete(t, n)
  <2> USE <1>2 DEF Complete
  <2>1. PaymentType'
    BY <1>0, ZenonT(60) DEF PaymentType, Txns
  <2>2. \A s \in Txn : /\ txn'[s].user = txn[s].user
                       /\ txn'[s].plan = txn[s].plan
                       /\ txn'[s].status = IF s = t THEN "COMPLETED"
                                                    ELSE txn[s].status
    BY DEF PaymentType
  <2>3. Receipts'
    BY <1>0, <2>2 DEF Receipts, PaymentType
  <2>4. \A s \in Txn : txn[s].status = "COMPLETED" => txn'[s] = txn[s]
    BY DEF PaymentType, Txns
  <2>5. PlanPaidFor'
    BY <2>4 DEF PlanPaidFor, PaymentType
  <2> QED BY <2>1, <2>3, <2>5 DEF AckAfterUpgrade
<1>3. CASE Upgrade(t, n)
  <2> USE <1>3 DEF Upgrade
  <2>1. PaymentType'
    BY <1>0 DEF PaymentType, Txns
  <2>2. Receipts'
    BY <1>0 DEF Receipts, PaymentType
  <2>3. t \in charged /\ txn[t].status = "COMPLETED"
    BY DEF Receipts
  <2>4. ASSUME NEW u \in User, plan'[u] # "FREE"
        PROVE  \E s \in charged : txn[s] = [status |-> "COMPLETED", user |-> u,
                                            plan |-> plan'[u]]
    <3>1. CASE u = txn[t].user
      <4>1. plan'[u] = txn[t].plan
        BY <3>1 DEF PaymentType
      <4>2. txn[t] = [status |-> "COMPLETED", user |-> u, plan |-> plan'[u]]
        BY <2>3, <3>1, <4>1 DEF PaymentType, Txns
      <4> QED BY <2>3, <4>2
    <3>2. CASE u # txn[t].user
      <4>1. plan'[u] = plan[u]
        BY <3>2 DEF PaymentType
      <4> QED BY <2>4, <4>1 DEF PlanPaidFor
    <3> QED BY <3>1, <3>2
  <2>5. PlanPaidFor'
    BY <2>4 DEF PlanPaidFor
  <2> QED BY <2>1, <2>2, <2>5 DEF AckAfterUpgrade
<1>4. CASE Acknowledge(t, n)
  BY <1>0, <1>4 DEF Acknowledge, PaymentType, Receipts, PlanPaidFor,
                    AckAfterUpgrade
<1>5. CASE DeliveryFails(t, n)
  BY <1>0, <1>5 DEF DeliveryFails, PaymentType, Receipts, PlanPaidFor,
                    AckAfterUpgrade
<1> QED BY <1>1, <1>2, <1>3, <1>4, <1>5 DEF DeliveryStep

LEMMA StutterKeepsPayments ==
  ASSUME PaymentInv, UNCHANGED payments
  PROVE  PaymentInv'
BY DEF PaymentInv, payments, gateway, receipts, PaymentType, Receipts,
       PlanPaidFor, AckAfterUpgrade

-----------------------------------------------------------------------------
(* Points and downloads. *)

LEMMA StutterKeepsCredit ==
  ASSUME CreditInv, UNCHANGED credit
  PROVE  CreditInv'
BY DEF CreditInv, credit, CreditType, Ledger, Paid, Counted

LEMMA CvKeepsCredit ==
  ASSUME CreditInv, NEW q \in CvCall, CvStep(q)
  PROVE  CreditInv'
<1> USE SubscriptionAssumption DEF CreditInv
<1>1. CASE \E u \in User, kind \in {"optimise", "download"} : StartCv(q, u, kind)
  <2> USE <1>1 DEF StartCv
  <2>1. CreditType'
    BY DEF CreditType, CvCalls
  <2>2. \A u \in User : Paid(u)' = Paid(u) /\ Counted(u)' = Counted(u)
    BY DEF CreditType, Paid, Counted
  <2> QED BY <2>1, <2>2 DEF Ledger
<1>2. CASE Optimise(q) \/ SendCv(q)
  <2> USE <1>2 DEF Optimise, SendCv
  <2>1. CreditType'
    BY DEF CreditType, CvCalls
  <2>2. \A u \in User : Paid(u)' = Paid(u) /\ Counted(u) \subseteq Counted(u)'
    BY DEF CreditType, CvCalls, Paid, Counted
  <2>3. \A u \in User : Cardinality(Counted(u)) <= Cardinality(Counted(u)')
    <3> TAKE u \in User
    <3>1. Counted(u)' \subseteq CvCall
      BY DEF Counted
    <3>2. IsFiniteSet(Counted(u)')
      BY <3>1, FS_Subset
    <3> QED BY <2>2, <3>2, FS_Subset, Zenon
  <2>4. \A u \in User : downloads[u] \in Nat /\ downloads[u]' = downloads[u]
                        /\ points[u]' = points[u]
    BY DEF CreditType
  <2>5. \A u \in User : /\ Cardinality(Counted(u)) \in Nat
                        /\ Cardinality(Counted(u)') \in Nat
    <3> TAKE u \in User
    <3>1. Counted(u)' \subseteq CvCall
      BY DEF Counted
    <3>2. IsFiniteSet(Counted(u)')
      BY <3>1, FS_Subset
    <3> QED BY <3>2, PaidIsFinite, FS_CardinalityType
  <2>6. Ledger'
    <3> SUFFICES ASSUME NEW u \in User
                 PROVE  /\ points'[u] + Cardinality(Paid(u)') \in 0..Earned
                        /\ downloads'[u] <= Cardinality(Counted(u)')
      BY DEF Ledger
    <3>1. downloads[u] <= Cardinality(Counted(u))
      BY DEF Ledger
    <3>2. points[u] + Cardinality(Paid(u)) \in 0..Earned
      BY DEF Ledger
    <3> QED BY <2>2, <2>3, <2>4, <2>5, <3>1, <3>2
  <2> QED BY <2>1, <2>6
<1>3. CASE CountDownload(q)
  <2> USE <1>3 DEF CountDownload
  <2>1. CreditType'
    <3>1. downloads' \in [User -> Nat]
      <4>1. CASE cv[q].user \in User
        BY <4>1 DEF CreditType
      <4>2. CASE cv[q].user \notin User
        BY <4>2 DEF CreditType
      <4> QED BY <4>1, <4>2
    <3>2. cv' \in [CvCall -> CvCalls]
      BY DEF CreditType, CvCalls
    <3> QED BY <3>1, <3>2 DEF CreditType
  <2>2. SUFFICES ASSUME NEW u \in User
                 PROVE  /\ points'[u] + Cardinality(Paid(u)') \in 0..Earned
                        /\ downloads'[u] <= Cardinality(Counted(u)')
    BY <2>1 DEF Ledger
  <2>3. Paid(u)' = Paid(u) /\ q \notin Counted(u)
    BY DEF CreditType, Paid, Counted
  <2>4. /\ points[u] + Cardinality(Paid(u)) \in 0..Earned
        /\ downloads[u] <= Cardinality(Counted(u)) /\ downloads[u] \in Nat
    BY DEF CreditType, Ledger
  <2>5. CASE cv[q].user = u
    <3>1. Counted(u)' = Counted(u) \cup {q}
      BY <2>5 DEF CreditType, Counted
    <3>2. Cardinality(Counted(u)') = Cardinality(Counted(u)) + 1
      BY <2>3, <3>1, PaidIsFinite, FS_AddElement
    <3>3. downloads'[u] = downloads[u] + 1
      BY <2>5 DEF CreditType
    <3> QED BY <2>3, <2>4, <3>2, <3>3, PaidIsFinite
  <2>6. CASE cv[q].user # u
    <3>1. Counted(u)' = Counted(u)
      BY <2>6 DEF CreditType, Counted
    <3>2. downloads'[u] = downloads[u]
      BY <2>6 DEF CreditType
    <3> QED BY <2>3, <2>4, <3>1, <3>2
  <2> QED BY <2>5, <2>6
<1>4. CASE PayPoint(q)
  <2> USE <1>4 DEF PayPoint
  <2>1. CreditType'
    <3>1. points' \in [User -> Int]
      <4>1. CASE cv[q].user \in User
        BY <4>1 DEF CreditType
      <4>2. CASE cv[q].user \notin User
        BY <4>2 DEF CreditType
      <4> QED BY <4>1, <4>2
    <3>2. cv' \in [CvCall -> CvCalls]
      BY DEF CreditType, CvCalls
    <3> QED BY <3>1, <3>2 DEF CreditType
  <2>2. SUFFICES ASSUME NEW u \in User
                 PROVE  /\ points'[u] + Cardinality(Paid(u)') \in 0..Earned
                        /\ downloads'[u] <= Cardinality(Counted(u)')
    BY <2>1 DEF Ledger
  <2>3. Counted(u)' = Counted(u) /\ q \notin Paid(u)
    BY DEF CreditType, Paid, Counted
  <2>4. /\ points[u] + Cardinality(Paid(u)) \in 0..Earned /\ points[u] \in Int
        /\ downloads[u] <= Cardinality(Counted(u))
    BY DEF CreditType, Ledger
  <2>5. CASE cv[q].user = u
    <3>1. Paid(u)' = Paid(u) \cup {q}
      BY <2>5 DEF CreditType, Paid
    <3>2. Cardinality(Paid(u)') = Cardinality(Paid(u)) + 1
      BY <2>3, <3>1, PaidIsFinite, FS_AddElement
    <3>3. points'[u] = points[u] - 1
      BY <2>5 DEF CreditType
    <3> QED BY <2>3, <2>4, <3>2, <3>3, PaidIsFinite
  <2>6. CASE cv[q].user # u
    <3>1. Paid(u)' = Paid(u)
      BY <2>6 DEF CreditType, Paid
    <3>2. points'[u] = points[u]
      BY <2>6 DEF CreditType
    <3> QED BY <2>3, <2>4, <3>1, <3>2
  <2> QED BY <2>5, <2>6
<1> QED BY <1>1, <1>2, <1>3, <1>4 DEF CvStep

-----------------------------------------------------------------------------
\* Every step of Subscription preserves the invariant: one of its two halves
\* is left alone by every action.
LEMMA NextIInv == IInv /\ [Next]_vars => IInv'
<1> SUFFICES ASSUME IInv, [Next]_vars PROVE IInv'
  OBVIOUS
<1> USE DEF IInv
<1>1. CASE \E p \in Call : SelectStep(p)
  <2>1. UNCHANGED credit
    BY <1>1 DEF SelectStep, SelectFree, Select, SetFree, CreateTxn, OpenPage
  <2> QED BY <1>1, <2>1, SelectKeepsPayments, StutterKeepsCredit
<1>2. CASE (\E v \in Providers : Switch(v)) \/ (\E t \in Txn : Pay(t))
  <2>1. UNCHANGED credit
    BY <1>2 DEF Switch, Pay
  <2> QED BY <1>2, <2>1, ProviderKeepsPayments, StutterKeepsCredit
<1>3. CASE \E t \in Txn, n \in Attempt : DeliveryStep(t, n)
  <2>1. UNCHANGED credit
    BY <1>3 DEF DeliveryStep, Deliver, Complete, Upgrade, Acknowledge,
                DeliveryFails
  <2> QED BY <1>3, <2>1, DeliveryKeepsPayments, StutterKeepsCredit
<1>4. CASE \E q \in CvCall : CvStep(q)
  <2>1. UNCHANGED payments
    BY <1>4 DEF CvStep, StartCv, Optimise, CountDownload, SendCv, PayPoint,
                payments
  <2> QED BY <1>4, <2>1, CvKeepsCredit, StutterKeepsPayments
<1>5. CASE UNCHANGED vars
  BY <1>5, StutterKeepsPayments, StutterKeepsCredit DEF vars, payments
<1> QED BY <1>1, <1>2, <1>3, <1>4, <1>5 DEF Next

\* The inductive invariant holds for every instance.
THEOREM Inductive == Spec => []IInv
BY InitIInv, NextIInv, PTL DEF Spec

\* Every reachable state is well typed; in particular no more than one point
\* per call of CvService is ever taken from a user.
THEOREM TypeCorrect == Spec => []TypeOK
BY Inductive, TypeFromIInv, PTL

\* Whatever overlaps, a user who is on a paid plan has paid for it: there is a
\* charged and COMPLETED transaction of the user for that plan.
THEOREM PlansArePaid == Spec => []PlanPaidFor
<1>1. IInv => PlanPaidFor
  BY DEF IInv, PaymentInv
<1> QED BY <1>1, Inductive, PTL

\* A delivery is answered with success only after its charge upgraded the
\* user, so that the provider never stops too early.
THEOREM AcknowledgedMeansUpgraded == Spec => []AckAfterUpgrade
<1>1. IInv => AckAfterUpgrade
  BY DEF IInv, PaymentInv
<1> QED BY <1>1, Inductive, PTL
=============================================================================
