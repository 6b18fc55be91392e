------------------------- MODULE WalletLoginProofs -------------------------
(***************************************************************************)
(* Proofs about WalletLogin, for every number of requests, limit and       *)
(* window and under every fault, and about WalletLogin and JobPosts side by*)
(* side.                                                                   *)
(***************************************************************************)
EXTENDS MCAccounts, TLAPS

\* What a request carries between its awaits: one that gives out a nonce has
\* seen a counter that is not full, and if there was one, time left on it.
Carries(t) ==
  /\ t.pc \in {"drop", "grant"} => t.count < Max
  /\ t.pc = "drop" => t.count = 0
  /\ t.pc = "grant" /\ t.count > 0 => t.ttl > 0

IInv ==
  /\ TypeOK
  /\ \A p \in Req : Carries(task[p])
  /\ KeyExpires
  /\ FirstLoginOnce
  /\ account = "none" => firsts = 0

\* A step of request p that leaves the others' tasks alone.
LEMMA OneTask ==
  ASSUME TypeOK, \A p \in Req : Carries(task[p]),
         NEW p \in Req, NEW t \in Tasks, Carries(t),
         task' = [task EXCEPT ![p] = t]
  PROVE  /\ task' \in [Req -> Tasks]
         /\ \A q \in Req : Carries(task'[q])
  BY DEF TypeOK

LEMMA IdleCarries == Idle \in Tasks /\ Carries(Idle)
  BY LoginAssumption DEF Idle, Tasks, Carries

\* The history of nonces keeps its type, whatever fails.
LEMMA BlurTypes ==
  ASSUME TypeOK, NEW failed \in Failing, NEW b \in BOOLEAN, Blur(failed \/ b)
  PROVE  blurred' \in BOOLEAN /\ recent' \in [Ages -> Nat]
  BY DEF TypeOK, Blur

LEMMA GrantTypes ==
  ASSUME TypeOK, NEW p \in Req, Grant(p)
  PROVE  blurred' \in BOOLEAN /\ recent' \in [Ages -> Nat]
<1>1. blurred' \in BOOLEAN
  BY DEF TypeOK, Grant, Failing
<1>2. recent' \in [Ages -> Nat]
  <2>1. CASE blurred'
    BY <2>1 DEF Grant
  <2>2. CASE ~blurred'
    <3>1. recent' = CountNonce
      BY <2>2 DEF Grant
    <3> QED BY <3>1 DEF CountNonce, TypeOK
  <2> QED BY <2>1, <2>2
<1> QED BY <1>1, <1>2

\* What a request does with what is left of the counter's time.
LEMMA DecidedCarries ==
  ASSUME NEW t \in Tasks, t.pc = "ttl", NEW left \in 0 .. Window
  PROVE  Decided(t, left) \in Tasks /\ Carries(Decided(t, left))
<1>1. CASE t.count > 0 /\ left = 0
  <2>1. Decided(t, left) = [pc |-> "drop", count |-> 0, ttl |-> 0]
    BY <1>1 DEF Decided
  <2> QED BY <2>1, LoginAssumption DEF Carries, Tasks
<1>2. CASE ~(t.count > 0 /\ left = 0) /\ t.count >= Max
  <2>1. Decided(t, left) = Idle
    BY <1>2 DEF Decided
  <2> QED BY <2>1, IdleCarries
<1>3. CASE ~(t.count > 0 /\ left = 0) /\ ~(t.count >= Max)
  <2>1. Decided(t, left) = [pc |-> "grant", count |-> t.count, ttl |-> left]
    BY <1>3 DEF Decided
  <2>2. t.count \in 0 .. Max /\ t.count < Max /\ (t.count > 0 => left > 0)
    BY <1>3, LoginAssumption DEF Tasks
  <2> QED BY <2>1, <2>2 DEF Carries, Tasks
<1> QED BY <1>1, <1>2, <1>3

-----------------------------------------------------------------------------
LEMMA InitIInv == Init => IInv
<1> SUFFICES ASSUME Init PROVE IInv
  OBVIOUS
<1>1. TypeOK
  <2>1. task \in [Req -> Tasks]
    BY IdleCarries DEF Init
  <2>2. recent \in [Ages -> Nat]
    BY DEF Init
  <2>3. 0 \in 0 .. Max /\ 0 \in 0 .. Window
    BY LoginAssumption
  <2> QED BY <2>1, <2>2, <2>3 DEF Init, TypeOK
<1>2. \A p \in Req : Carries(task[p])
  BY IdleCarries DEF Init
<1>3. KeyExpires /\ FirstLoginOnce /\ firsts = 0
  BY DEF Init, KeyExpires, FirstLoginOnce
<1> QED BY <1>1, <1>2, <1>3 DEF IInv

LEMMA NextIInv == IInv /\ [Next]_vars => IInv'
<1> SUFFICES ASSUME IInv, [Next]_vars PROVE IInv'
  OBVIOUS
<1> USE DEF nonceVars, loginVars
<1>0. TypeOK /\ \A p \in Req : Carries(task[p])
  BY DEF IInv
<1>1. ASSUME NEW p \in Req, ReadCount(p) PROVE IInv'
  <2>1. PICK failed \in Failing :
          /\ task' = [task EXCEPT ![p] =
               [pc |-> "ttl", count |-> IF failed THEN 0 ELSE count, ttl |-> 0]]
          /\ Blur(failed \/ \E q \in Req : Asking(q))
    BY <1>1 DEF ReadCount
  <2>2. blurred' \in BOOLEAN /\ recent' \in [Ages -> Nat]
    BY <1>0, <2>1, BlurTypes
  <2>3. /\ task' \in [Req -> Tasks]
        /\ \A q \in Req : Carries(task'[q])
    <3> DEFINE t == [pc |-> "ttl", count |-> IF failed THEN 0 ELSE count,
                     ttl |-> 0]
    <3>1. t \in Tasks /\ Carries(t)
      BY <1>0, LoginAssumption DEF Tasks, Carries, TypeOK
    <3>2. task' = [task EXCEPT ![p] = t]
      BY <2>1
    <3> HIDE DEF t
    <3> QED BY <1>0, <3>1, <3>2, OneTask
  <2> QED BY <1>1, <2>2, <2>3
          DEF IInv, TypeOK, ReadCount, KeyExpires, FirstLoginOnce
<1>2. ASSUME NEW p \in Req, ReadTtl(p) PROVE IInv'
  <2>1. PICK failed \in Failing :
          /\ \E left \in IF failed THEN {0} ELSE Ttls :
               task' = [task EXCEPT ![p] = Decided(@, left)]
          /\ Blur(failed)
    BY <1>2 DEF ReadTtl
  <2>2. blurred' \in BOOLEAN /\ recent' \in [Ages -> Nat]
    BY <1>0, <2>1 DEF TypeOK, Blur, Failing
  <2>3. PICK left \in IF failed THEN {0} ELSE Ttls :
          task' = [task EXCEPT ![p] = Decided(task[p], left)]
    BY <2>1
  <2>4. left \in 0 .. Window
    BY <1>0, LoginAssumption DEF TypeOK, Ttls
  <2>5. Decided(task[p], left) \in Tasks /\ Carries(Decided(task[p], left))
    BY <1>0, <1>2, <2>4, DecidedCarries DEF TypeOK, ReadTtl, At
  <2>6. /\ task' \in [Req -> Tasks]
        /\ \A q \in Req : Carries(task'[q])
    BY <1>0, <2>3, <2>5, OneTask
  <2> QED BY <1>2, <2>2, <2>6
          DEF IInv, TypeOK, ReadTtl, KeyExpires, FirstLoginOnce
<1>3. ASSUME NEW p \in Req, Drop(p) PROVE IInv'
  <2>1. PICK failed \in Failing :
          /\ count' = IF failed THEN count ELSE 0
          /\ ttl' = IF failed THEN ttl ELSE 0
          /\ Blur(failed)
    BY <1>3 DEF Drop
  <2>2. blurred' \in BOOLEAN /\ recent' \in [Ages -> Nat]
    BY <1>0, <2>1 DEF TypeOK, Blur, Failing
  <2>3. [task[p] EXCEPT !.pc = "grant"] \in Tasks
        /\ Carries([task[p] EXCEPT !.pc = "grant"])
    BY <1>0, <1>3, LoginAssumption DEF TypeOK, Tasks, Carries, Drop, At
  <2>4. /\ task' \in [Req -> Tasks]
        /\ \A q \in Req : Carries(task'[q])
    BY <1>0, <1>3, <2>3, OneTask DEF Drop
  <2> QED BY <1>3, <2>1, <2>2, <2>4, LoginAssumption
          DEF IInv, TypeOK, Drop, KeyExpires, FirstLoginOnce
<1>4. ASSUME NEW p \in Req, Grant(p) PROVE IInv'
  <2>1. PICK failed \in Failing :
          /\ count' = IF failed THEN count ELSE task[p].count + 1
          /\ ttl' = IF failed THEN ttl
                    ELSE IF task[p].count = 0 THEN Window ELSE task[p].ttl
    BY <1>4 DEF Grant
  <2>2. blurred' \in BOOLEAN /\ recent' \in [Ages -> Nat]
    BY <1>0, <1>4, GrantTypes
  <2>3. /\ task' \in [Req -> Tasks]
        /\ \A q \in Req : Carries(task'[q])
    BY <1>0, <1>4, IdleCarries, OneTask DEF Grant, End
  <2>4. /\ task[p].count \in 0 .. Max
        /\ task[p].ttl \in 0 .. Window
        /\ task[p].count < Max
        /\ task[p].count > 0 => task[p].ttl > 0
    BY <1>0, <1>4 DEF TypeOK, Tasks, Carries, Grant, At
  <2>5. count' \in 0 .. Max /\ ttl' \in 0 .. Window /\ (count' > 0 => ttl' > 0)
    BY <1>0, <2>1, <2>4, LoginAssumption DEF IInv, TypeOK, KeyExpires
  <2> QED BY <1>4, <2>2, <2>3, <2>5
          DEF IInv, TypeOK, Grant, KeyExpires, FirstLoginOnce
<1>5. ASSUME NEW p \in Req, LoginFind(p) PROVE IInv'
  <2> DEFINE t == [task[p] EXCEPT !.pc = IF account = "live" THEN "update"
                                         ELSE "create"]
  <2>1. t \in Tasks /\ Carries(t)
    BY <1>0 DEF TypeOK, Tasks, Carries
  <2>2. task' = [task EXCEPT ![p] = t]
    BY <1>5 DEF LoginFind
  <2> HIDE DEF t
  <2>3. /\ task' \in [Req -> Tasks]
        /\ \A q \in Req : Carries(task'[q])
    BY <1>0, <2>1, <2>2, OneTask
  <2> QED BY <1>5, <2>3
          DEF IInv, TypeOK, LoginFind, KeyExpires, FirstLoginOnce
<1>6. ASSUME NEW p \in Req, End(p)
      PROVE  /\ task' \in [Req -> Tasks]
             /\ \A q \in Req : Carries(task'[q])
  BY <1>0, <1>6, IdleCarries, OneTask DEF End
<1>7. ASSUME NEW p \in Req, LoginUpdate(p) \/ TaskFails(p) PROVE IInv'
  BY <1>6, <1>7
  DEF IInv, TypeOK, LoginUpdate, TaskFails, KeyExpires, FirstLoginOnce
<1>8. ASSUME NEW p \in Req, LoginCreate(p) PROVE IInv'
  BY <1>6, <1>8
  DEF IInv, TypeOK, LoginCreate, KeyExpires, FirstLoginOnce
<1>9. CASE OtherSignsUp \/ AdminRemove
  BY <1>9 DEF IInv, TypeOK, OtherSignsUp, AdminRemove, KeyExpires, FirstLoginOnce
<1>10. CASE Tick
  <2>1. recent' \in [Ages -> Nat]
    BY <1>0, <1>10, LoginAssumption DEF TypeOK, Tick, Ages
  <2> QED BY <1>10, <2>1, LoginAssumption
          DEF IInv, TypeOK, Tick, KeyExpires, FirstLoginOnce
<1>11. CASE UNCHANGED vars
  BY <1>11 DEF IInv, TypeOK, vars, KeyExpires, FirstLoginOnce
<1> QED BY <1>1, <1>2, <1>3, <1>4, <1>5, <1>7, <1>8, <1>9, <1>10, <1>11
        DEF Next, Step

LEMMA Inductive == Spec => []IInv
  BY InitIInv, NextIInv, PTL DEF Spec

\* Every variable has its type, at every limit and window.
THEOREM TypeCorrect == Spec => []TypeOK
<1>1. IInv => TypeOK
  BY DEF IInv
<1> QED BY <1>1, Inductive, PTL

\* The counter of an address always expires, whatever overlaps and fails, so
\* that nobody is locked out by a key that stays.
THEOREM CounterExpires == Spec => []KeyExpires
<1>1. IInv => KeyExpires
  BY DEF IInv
<1> QED BY <1>1, Inductive, PTL

\* However many first logins overlap, one is answered isNewUser.
THEOREM OneFirstLogin == Spec => []FirstLoginOnce
<1>1. IInv => FirstLoginOnce
  BY DEF IInv
<1> QED BY <1>1, Inductive, PTL

-----------------------------------------------------------------------------
(* The rate of nonces.  RateBound speaks of a span of time, the code only  *)
(* of its counter.  What relates them are the moments at which the counter *)
(* started: x ticks ago for the present one, y ticks ago for the one before*)
(* it.  A counter gives out at most Max nonces and starts at least Window -*)
(* Max ticks after the one before it, as each nonce shortens it by at most *)
(* one tick.  With 2 * Max <= Window the start of the third but last one is*)
(* out of the window: its first nonce is, which makes the bound strict.    *)

\* The nonces of the counters, the present one having given out cur.
Spread(x, y, cur) ==
  /\ y >= x + Window - Max
  /\ \A k \in Ages : /\ k < x => recent[k] < cur
                     /\ k < y => recent[k] < cur + Max
                     /\ recent[k] < cur + 2 * Max

\* The counter in Redis.
Stored(x, cur) ==
  /\ count > 0 => cur = count /\ x + ttl + count > Window
  /\ count = 0 => ttl = 0 /\ x >= Window - Max

\* What a request t knows of the counter.
Knows(t, x, cur) ==
  /\ t.pc = "ttl" => t.count \in {0, cur} /\ (t.count = 0 => count = 0)
  /\ t.pc = "drop" => x >= Window - Max
  /\ t.pc = "grant" => IF t.count = 0 THEN x >= Window - Max
                       ELSE t.count = cur /\ x + t.ttl + cur >= Window

Rated(x, y, cur) ==
  Spread(x, y, cur) /\ Stored(x, cur) /\ \A p \in Req : Knows(task[p], x, cur)

OneAsks == \A p, q \in Req : Asking(p) /\ Asking(q) => p = q

RateInv == ~blurred => /\ OneAsks
                       /\ \E x, y \in Nat, cur \in 1 .. Max : Rated(x, y, cur)

\* A step of request p that is not asking for a nonce afterwards, and leaves
\* the counter alone.
LEMMA StepAside ==
  ASSUME TypeOK, OneAsks, NEW x \in Nat, NEW y \in Nat, NEW cur \in 1 .. Max,
         Rated(x, y, cur), NEW p \in Req, NEW t \in Tasks,
         t.pc \notin {"ttl", "drop", "grant"}, task' = [task EXCEPT ![p] = t],
         UNCHANGED <<count, ttl, recent>>
  PROVE  OneAsks' /\ Rated(x, y, cur)'
<1>1. task'[p] = t /\ \A q \in Req \ {p} : task'[q] = task[q]
  BY DEF TypeOK
<1>2. OneAsks'
  BY <1>1 DEF OneAsks, Asking
<1>3. Spread(x, y, cur)' /\ Stored(x, cur)'
  BY DEF Rated, Spread, Stored
<1>4. \A q \in Req : Knows(task[q], x, cur)'
  BY <1>1 DEF Rated, Knows
<1> QED BY <1>2, <1>3, <1>4 DEF Rated

\* A request for a nonce goes on, alone.
LEMMA AsksOn ==
  ASSUME TypeOK, NEW x \in Nat, NEW y \in Nat, NEW cur \in 1 .. Max,
         NEW p \in Req, NEW t \in Tasks,
         \A q \in Req \ {p} : ~Asking(q), task' = [task EXCEPT ![p] = t],
         Spread(x, y, cur)', Stored(x, cur)', Knows(t, x, cur)'
  PROVE  OneAsks' /\ Rated(x, y, cur)'
<1>1. task'[p] = t /\ \A q \in Req \ {p} : task'[q] = task[q]
  BY DEF TypeOK
<1>2. OneAsks'
  BY <1>1 DEF OneAsks, Asking
<1>3. \A q \in Req : Knows(task[q], x, cur)'
  BY <1>1 DEF Knows, Asking
<1> QED BY <1>2, <1>3 DEF Rated

LEMMA InitRateInv == Init => RateInv
<1> SUFFICES ASSUME Init PROVE RateInv
  OBVIOUS
<1>1. OneAsks
  BY DEF Init, OneAsks, Asking, Idle
<1>2. Rated(Window, 2 * Window, 1)
  BY LoginAssumption
  DEF Init, Idle, Rated, Spread, Stored, Knows, Ages
<1>3. Window \in Nat /\ 2 * Window \in Nat /\ 1 \in 1 .. Max
  BY LoginAssumption
<1> QED BY <1>1, <1>2, <1>3 DEF RateInv

LEMMA NextRateInv ==
  ASSUME 2 * Max <= Window, IInv, IInv', RateInv, [Next]_vars
  PROVE  RateInv'
<1> USE LoginAssumption DEF nonceVars, loginVars
<1> SUFFICES ASSUME ~blurred'
             PROVE  /\ OneAsks'
                    /\ \E x, y \in Nat, cur \in 1 .. Max : Rated(x, y, cur)'
  BY DEF RateInv
<1>0. ~blurred /\ TypeOK /\ TypeOK' /\ \A p \in Req : Carries(task[p])
  BY DEF IInv, Next, Step, ReadCount, ReadTtl, Drop, Grant, LoginFind,
         LoginUpdate, LoginCreate, TaskFails, OtherSignsUp, AdminRemove, Tick,
         Blur, vars, TypeOK
<1>1. OneAsks
  BY <1>0 DEF RateInv
<1>2. PICK x \in Nat, y \in Nat, cur \in 1 .. Max : Rated(x, y, cur)
  BY <1>0 DEF RateInv
<1>3. Spread(x, y, cur) /\ Stored(x, cur)
  BY <1>2 DEF Rated
<1>4. \A p \in Req : task[p] \in Tasks /\ Knows(task[p], x, cur)
  BY <1>0, <1>2 DEF Rated, TypeOK
<1>5. count \in 0 .. Max /\ ttl \in 0 .. Window
      /\ recent \in [Ages -> Nat]
  BY <1>0 DEF TypeOK
<1>6. ASSUME NEW p \in Req, ReadCount(p)
      PROVE  OneAsks' /\ Rated(x, y, cur)'
  <2>1. PICK failed \in Failing :
          /\ task' = [task EXCEPT ![p] =
               [pc |-> "ttl", count |-> IF failed THEN 0 ELSE count, ttl |-> 0]]
          /\ Blur(failed \/ \E q \in Req : Asking(q))
    BY <1>6 DEF ReadCount
  <2>2. ~failed /\ recent' = recent /\ \A q \in Req : ~Asking(q)
    BY <2>1 DEF Blur
  <2>3. PICK t \in Tasks : /\ t = [pc |-> "ttl", count |-> count, ttl |-> 0]
                           /\ task' = [task EXCEPT ![p] = t]
    <3>1. [pc |-> "ttl", count |-> count, ttl |-> 0] \in Tasks
      BY <1>5 DEF Tasks
    <3> QED BY <2>1, <2>2, <3>1
  <2>4. UNCHANGED <<count, ttl>>
    BY <1>6 DEF ReadCount
  <2>5. Spread(x, y, cur)' /\ Stored(x, cur)'
    BY <1>3, <2>2, <2>4 DEF Spread, Stored
  <2>6. Knows(t, x, cur)'
    BY <1>3, <1>5, <2>3, <2>4 DEF Knows, Stored
  <2> QED BY <1>0, <2>2, <2>3, <2>5, <2>6, AsksOn
<1>7. ASSUME NEW p \in Req, ReadTtl(p)
      PROVE  OneAsks' /\ Rated(x, y, cur)'
  <2>1. PICK failed \in Failing :
          /\ \E left \in IF failed THEN {0} ELSE Ttls :
               task' = [task EXCEPT ![p] = Decided(@, left)]
          /\ Blur(failed)
    BY <1>7 DEF ReadTtl
  <2>2. ~failed /\ recent' = recent
    BY <2>1 DEF Blur
  <2>3. PICK left \in Ttls : task' = [task EXCEPT ![p] = Decided(task[p], left)]
    BY <2>1, <2>2
  <2>4. left \in 0 .. Window /\ left \in {ttl - 1, ttl}
        /\ (ttl = 0 => left = 0)
    BY <1>5 DEF Ttls
  <2>5. At(p, "ttl") /\ UNCHANGED <<count, ttl>>
    BY <1>7 DEF ReadTtl
  <2>6. PICK t \in Tasks : t = Decided(task[p], left)
    BY <1>4, <2>4, <2>5, DecidedCarries DEF At
  <2>7. Spread(x, y, cur)' /\ Stored(x, cur)'
    BY <1>3, <2>2, <2>5 DEF Spread, Stored
  <2>8. \A q \in Req \ {p} : ~Asking(q)
    BY <1>1, <2>5 DEF OneAsks, Asking, At
  <2>9. /\ task[p].count \in {0, cur}
        /\ task[p].count = 0 => count = 0
    BY <1>4, <2>5 DEF Knows, At
  <2>10. Knows(t, x, cur)'
    <3>1. CASE task[p].count > 0 /\ left = 0
      <4>1. x >= Window - Max
        BY <1>3, <1>5, <2>4, <3>1 DEF Stored
      <4>2. t.pc = "drop"
        BY <2>6, <3>1 DEF Decided
      <4> QED BY <2>5, <4>1, <4>2 DEF Knows
    <3>2. CASE ~ (task[p].count > 0 /\ left = 0) /\ task[p].count >= Max
      <4>1. t.pc = "idle"
        BY <2>6, <3>2 DEF Decided, Idle
      <4> QED BY <4>1 DEF Knows
    <3>3. CASE ~ (task[p].count > 0 /\ left = 0) /\ ~ (task[p].count >= Max)
      <4>1. t = [pc |-> "grant", count |-> task[p].count, ttl |-> left]
        BY <2>6, <3>3 DEF Decided
      <4>2. CASE task[p].count = 0
        BY <1>3, <2>5, <2>9, <4>1, <4>2 DEF Stored, Knows
      <4>3. CASE task[p].count = cur
        <5>1. left > 0 /\ ttl > 0
          BY <1>5, <2>4, <3>3, <4>3
        <5>2. x + left + cur >= Window
          BY <1>3, <1>5, <2>4, <5>1 DEF Stored
        <5> QED BY <4>1, <4>3, <5>2 DEF Knows
      <4> QED BY <2>9, <4>2, <4>3
    <3> QED BY <3>1, <3>2, <3>3
  <2> QED BY <1>0, <2>3, <2>6, <2>7, <2>8, <2>10, AsksOn
<1>8. ASSUME NEW p \in Req, Drop(p)
      PROVE  OneAsks' /\ Rated(x, y, cur)'
  <2>1. At(p, "drop") /\ task' = [task EXCEPT ![p].pc = "grant"]
    BY <1>8 DEF Drop
  <2>2. count' = 0 /\ ttl' = 0 /\ recent' = recent
    BY <1>8 DEF Drop, Blur
  <2>3. PICK t \in Tasks : /\ t = [task[p] EXCEPT !.pc = "grant"]
                           /\ t.pc = "grant" /\ t.count = 0
    <3>1. task[p] \in Tasks /\ task[p].count = 0
      BY <1>0, <1>4, <2>1 DEF Carries, At
    <3>2. [task[p] EXCEPT !.pc = "grant"] \in Tasks
      BY <3>1 DEF Tasks
    <3> QED BY <3>1, <3>2 DEF Tasks
  <2>4. x >= Window - Max
    BY <1>4, <2>1 DEF Knows, At
  <2>5. Spread(x, y, cur)' /\ Stored(x, cur)' /\ Knows(t, x, cur)'
    BY <1>3, <2>2, <2>3, <2>4 DEF Spread, Stored, Knows
  <2>6. \A q \in Req \ {p} : ~Asking(q)
    BY <1>1, <2>1 DEF OneAsks, Asking, At
  <2>7. task' = [task EXCEPT ![p] = t]
    BY <2>1, <2>3
  <2> QED BY <1>0, <2>3, <2>5, <2>6, <2>7, AsksOn
<1>9. ASSUME NEW p \in Req, Grant(p)
      PROVE  \/ OneAsks' /\ Rated(0, x, 1)'
             \/ cur + 1 \in 1 .. Max /\ OneAsks' /\ Rated(x, y, cur + 1)'
  <2> DEFINE t == task[p]
  <2>1. /\ At(p, "grant") /\ End(p)
        /\ count' = t.count + 1
        /\ ttl' = IF t.count = 0 THEN Window ELSE t.ttl
        /\ recent' = CountNonce
    BY <1>9 DEF Grant
  <2>2. \A k \in Ages : recent[k] \in Nat /\ recent'[k] = recent[k] + 1
    BY <1>5, <2>1 DEF CountNonce
  <2>3. task' = [task EXCEPT ![p] = Idle] /\ Idle \in Tasks
    BY <2>1, IdleCarries DEF End
  <2>4. \A q \in Req \ {p} : ~Asking(q)
    BY <1>1, <2>1 DEF OneAsks, Asking, At
  <2>5. /\ t.count \in 0 .. Max /\ t.ttl \in 0 .. Window /\ t.count < Max
        /\ t.count > 0 => t.ttl > 0
    BY <1>0, <1>4, <2>1 DEF Tasks, Carries, At
  <2>6. CASE t.count = 0
    <3>1. x >= Window - Max
      BY <1>4, <2>1, <2>6 DEF Knows, At
    <3>2. y >= Window
      BY <1>3, <3>1 DEF Spread
    <3>3. Spread(0, x, 1)'
      <4>1. \A k \in Ages : ~ (k < 0) /\ k < y
        BY <3>2 DEF Ages
      <4>2. \A k \in Ages : k < x => recent'[k] < 1 + Max
        BY <1>3, <2>2 DEF Spread, Ages
      <4>3. \A k \in Ages : recent'[k] < 1 + 2 * Max
        BY <1>3, <2>2, <4>1 DEF Spread, Ages
      <4> QED BY <3>1, <4>1, <4>2, <4>3 DEF Spread
    <3>4. Stored(0, 1)' /\ Knows(Idle, 0, 1)'
      BY <2>1, <2>6 DEF Stored, Knows, Idle
    <3>5. 0 \in Nat /\ 1 \in 1 .. Max
      OBVIOUS
    <3> QED BY <1>0, <2>3, <2>4, <3>3, <3>4, <3>5, AsksOn
  <2>7. CASE t.count > 0
    <3>1. t.count = cur /\ x + t.ttl + cur >= Window
      BY <1>4, <2>1, <2>7 DEF Knows, At
    <3>2. cur + 1 \in 1 .. Max
      BY <2>5, <3>1
    <3>3. Spread(x, y, cur + 1)'
      BY <1>3, <2>2 DEF Spread, Ages
    <3>4. Stored(x, cur + 1)' /\ Knows(Idle, x, cur + 1)'
      BY <2>1, <2>5, <2>7, <3>1 DEF Stored, Knows, Idle
    <3> QED BY <1>0, <2>3, <2>4, <3>2, <3>3, <3>4, AsksOn
  <2> QED BY <2>5, <2>6, <2>7
<1>10. ASSUME NEW p \in Req,
              \/ LoginFind(p) \/ LoginUpdate(p) \/ LoginCreate(p)
              \/ TaskFails(p)
       PROVE  OneAsks' /\ Rated(x, y, cur)'
  <2>1. UNCHANGED <<count, ttl, recent>>
    BY <1>10 DEF LoginFind, LoginUpdate, LoginCreate, TaskFails
  <2>2. CASE End(p)
    BY <1>0, <1>1, <1>2, <2>1, <2>2, IdleCarries, StepAside DEF End, Idle
  <2>3. CASE LoginFind(p)
    <3> DEFINE t == [task[p] EXCEPT !.pc = IF account = "live" THEN "update"
                                           ELSE "create"]
    <3>1. t \in Tasks /\ t.pc \notin {"ttl", "drop", "grant"}
      BY <1>4 DEF Tasks
    <3>2. task' = [task EXCEPT ![p] = t]
      BY <2>3 DEF LoginFind
    <3> HIDE DEF t
    <3> QED BY <1>0, <1>1, <1>2, <2>1, <3>1, <3>2, StepAside
  <2> QED BY <1>10, <2>2, <2>3 DEF LoginUpdate, LoginCreate, TaskFails
<1>11. CASE OtherSignsUp \/ AdminRemove \/ UNCHANGED vars
  <2>1. UNCHANGED <<count, ttl, recent, task>>
    BY <1>11 DEF OtherSignsUp, AdminRemove, vars
  <2> QED BY <1>1, <1>2, <2>1
          DEF OneAsks, Asking, Rated, Spread, Stored, Knows
<1>12. CASE Tick
  <2>1. /\ ttl' = IF ttl = 0 THEN 0 ELSE ttl - 1
        /\ count' = IF ttl = 1 THEN 0 ELSE count
        /\ recent' = [a \in Ages |-> IF a = 0 THEN 0 ELSE recent[a - 1]]
        /\ task' = task
    BY <1>12 DEF Tick
  <2>2. OneAsks'
    BY <1>1, <2>1 DEF OneAsks, Asking
  <2>3. Spread(x + 1, y + 1, cur)'
    <3>1. SUFFICES ASSUME NEW k \in Ages
                   PROVE  /\ k < x + 1 => recent'[k] < cur
                          /\ k < y + 1 => recent'[k] < cur + Max
                          /\ recent'[k] < cur + 2 * Max
      BY <1>3 DEF Spread
    <3>2. CASE k = 0
      BY <2>1, <3>2
    <3>3. CASE k # 0
      <4>1. k - 1 \in Ages /\ recent'[k] = recent[k - 1]
        BY <2>1, <3>3 DEF Ages
      <4> QED BY <1>3, <4>1 DEF Spread, Ages
    <3> QED BY <3>2, <3>3
  <2>4. Stored(x + 1, cur)'
    BY <1>3, <1>5, <2>1 DEF Stored
  <2>5. \A p \in Req : Knows(task[p], x + 1, cur)'
    BY <1>4, <2>1 DEF Knows, Tasks
  <2>6. x + 1 \in Nat /\ y + 1 \in Nat
    OBVIOUS
  <2> QED BY <2>2, <2>3, <2>4, <2>5, <2>6 DEF Rated
<1>13. 0 \in Nat /\ 1 \in 1 .. Max
  OBVIOUS
<1> QED BY <1>6, <1>7, <1>8, <1>9, <1>10, <1>11, <1>12, <1>13 DEF Next, Step

\* Requests that do not overlap get fewer than three times Max nonces in any
\* span of Window, wherever the rounding of the time left and the expiry of
\* the counter fall, given a window of at least two ticks per nonce (the code
\* has 60 seconds and 4 nonces).  TLC shows that the bound fails without it.
THEOREM NoncesBounded ==
  ASSUME 2 * Max <= Window
  PROVE  Spec => []RateBound
<1>1. RateInv /\ IInv => RateBound
  <2> SUFFICES ASSUME RateInv, IInv, ~blurred PROVE recent[Window - 1] < 3 * Max
    BY DEF RateBound
  <2>1. PICK x \in Nat, y \in Nat, cur \in 1 .. Max : Rated(x, y, cur)
    BY DEF RateInv
  <2>2. Window - 1 \in Ages /\ recent[Window - 1] \in Nat
    BY LoginAssumption DEF Ages, IInv, TypeOK
  <2>3. recent[Window - 1] < cur + 2 * Max
    BY <2>1, <2>2 DEF Rated, Spread
  <2> QED BY <2>2, <2>3, LoginAssumption
<1>2. IInv /\ IInv' /\ RateInv /\ [Next]_vars => RateInv'
  BY NextRateInv
<1> QED BY <1>1, <1>2, InitRateInv, Inductive, PTL DEF Spec

-----------------------------------------------------------------------------
(* WalletLogin beside JobPosts, as MCAccounts runs them: a behaviour of    *)
(* the two is one of each, in which the steps of the other are stutters.   *)

JP == INSTANCE JobPostsProofs WITH Req <- PostReq, task <- call

\* The step that MCAccounts takes is the one JobPostsProofs speaks of.
LEMMA SamePosts == J!Next => JP!Next
<1>1. SUFFICES ASSUME NEW p \in PostReq, J!Step(p) PROVE JP!Step(p)
  BY DEF J!Next, JP!Next
<1> USE DEF J!At, JP!At, J!Goto, JP!Goto, J!End, JP!End, J!Done, JP!Done,
            J!Existing, JP!Existing, J!Own, JP!Own, J!Start, JP!Start
<1>2. \A o \in Org : J!Admit(p, o) => JP!Admit(p, o)
  BY DEF J!Admit, JP!Admit
<1>3. \A o \in Org : J!AdminUser(p, o) => JP!AdminUser(p, o)
  BY DEF J!AdminUser, JP!AdminUser
<1>4. \A x \in Post, d \in BOOLEAN : J!AdminPost(p, x, d) => JP!AdminPost(p, x, d)
  BY DEF J!AdminPost, JP!AdminPost
<1>5. /\ J!Create(p) => JP!Create(p)
      /\ J!Count(p) => JP!Count(p)
      /\ J!Find(p) => JP!Find(p)
  BY DEF J!Create, JP!Create, J!Count, JP!Count, J!Find, JP!Find
<1>6. /\ J!Save(p) => JP!Save(p)
      /\ J!Patch(p) => JP!Patch(p)
      /\ J!Delete(p) => JP!Delete(p)
  BY DEF J!Save, JP!Save, J!Patch, JP!Patch, J!Delete, JP!Delete
<1>7. J!Mark(p) => JP!Mark(p)
  BY DEF J!Mark, JP!Mark, J!Calls, JP!Calls
<1>8. J!Sweep(p) => JP!Sweep(p)
  BY DEF J!Sweep, JP!Sweep
<1>9. J!TaskFails(p) => JP!TaskFails(p)
  BY DEF J!TaskFails, JP!TaskFails, J!Calls, JP!Calls, J!Sweeps, JP!Sweeps,
         J!Posts, JP!Posts
<1> QED BY <1>1, <1>2, <1>3, <1>4, <1>5, <1>6, <1>7, <1>8, <1>9
        DEF J!Step, JP!Step

LEMMA NoneHolds == JP!NoneApart
  BY NoneAssumption DEF JP!NoneApart, J!Posts, JP!Posts

LEMMA PartsAlone == MCSpec => Spec /\ JP!Spec
<1>1. MCInit => Init /\ JP!Init
  BY DEF MCInit, J!Init, JP!Init, J!Idle, JP!Idle
<1>2. [Login \/ Posts]_all => [Next]_vars
  BY DEF all, Login, Posts
<1>3. [Login \/ Posts]_all => [JP!Next]_(JP!vars)
  BY SamePosts DEF all, Login, Posts, JP!vars
<1> QED BY <1>1, <1>2, <1>3, PTL DEF MCSpec, Spec, JP!Spec

\* Every variable of the two modules has its type, whatever runs.
THEOREM TypesCorrect == MCSpec => []TypesOK
<1>1. TypeOK /\ JP!TypeOK => TypesOK
  BY DEF TypesOK, J!TypeOK, JP!TypeOK, J!Orgs, JP!Orgs, J!Posts, JP!Posts,
         J!Calls, JP!Calls, J!Sweeps, JP!Sweeps, J!Idle, JP!Idle,
         J!Done, JP!Done
<1>2. JP!Spec => []JP!TypeOK
  BY NoneHolds, JP!TypeCorrect
<1> QED BY <1>1, <1>2, TypeCorrect, PartsAlone, PTL

\* Deleting a profile leaves no post of it but one whose creation was under
\* way (user.service.ts:515-541).
THEOREM CascadeOfProfiles == MCSpec => []Cascade
<1>1. JP!Cascade => Cascade
  BY DEF Cascade, J!Cascade, JP!Cascade, J!Existing, JP!Existing
<1>2. JP!Spec => []JP!Cascade
  BY NoneHolds, JP!CascadeHolds
<1> QED BY <1>1, <1>2, PartsAlone, PTL

\* No step of either part brings a deleted post back
\* (organization-post.service.ts:139-204).
THEOREM PostsStayDeleted == MCSpec => DeletedStays
<1>1. JP!Spec => JP!DeletedStays
  BY NoneHolds, JP!DeletedPostsStay
<1>2. JP!DeletedStays => DeletedStays
  BY DEF DeletedStays, J!DeletedStays, JP!DeletedStays, J!Existing,
         JP!Existing, J!vars, JP!vars
<1> QED BY <1>1, <1>2, PartsAlone, PTL
=============================================================================
