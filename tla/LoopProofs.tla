------------------------------ MODULE LoopProofs ------------------------------
(***************************************************************************)
(* The mutex: the lock word is right, nobody enters beside an exclusive    *)
(* holder, and the first waiter is never left asleep while it could have   *)
(* the lock; it implements a lock that serves in order of arrival.  All    *)
(* for any finite number of requests.  The loop of the tamer driver: it    *)
(* does not sleep while there is work.                                     *)
(***************************************************************************)
EXTENDS Loops, FiniteSetTheorems, SequenceTheorems, TLAPS

\* No element occurs twice.
NoDup(q) == \A i, j \in DOMAIN q : q[i] = q[j] => i = j

\* Where request r stands.  A waiting request has one event to join for each of
\* its two events that has triggered, and only the first waiter has been woken.
Stands(r) ==
  /\ InSeq(r, wait) <=> pc[r] = "waiting"
  /\ InSeq(r, runq) <=> ready[r] > 0
  /\ pc[r] # "waiting" => r \notin armed /\ r \notin active /\ ready[r] = 0
  /\ pc[r] = "waiting" =>
       ready[r] = (IF r \in armed THEN 0 ELSE 1) + (IF r \in active THEN 0 ELSE 1)
  /\ pc[r] = "waiting" /\ r \notin armed => r = Head(wait)
  /\ r \in Immediate => shared[r] = 1

\* A first waiter that could have the lock has been woken.
Awake == wait # <<>> /\ Free(locked, shared[Head(wait)]) => Head(wait) \notin armed

\* The inductive invariant.
WaitInv ==
  /\ TypeOK
  /\ NoDup(wait) /\ NoDup(runq)
  /\ \A r \in Request : Stands(r)
  /\ Exclusion
  /\ Awake

(***************************************************************************)
(* The operations on lists.                                                *)
(***************************************************************************)

\* Without takes out one element and keeps the others in order.
LEMMA WithoutOK ==
  ASSUME NEW q \in Seq(Request), NoDup(q), NEW r \in Request, InSeq(r, q)
  PROVE  /\ Without(q, r) \in Seq(Request)
         /\ NoDup(Without(q, r))
         /\ \A x \in Request : InSeq(x, Without(q, r)) <=> InSeq(x, q) /\ x # r
         /\ Head(q) # r => Without(q, r) # <<>> /\ Head(Without(q, r)) = Head(q)
<1> DEFINE at == CHOOSE i \in DOMAIN q : q[i] = r
           w == [i \in 1 .. Len(q) - 1 |-> IF i < at THEN q[i] ELSE q[i + 1]]
<1>1. Without(q, r) = w
  BY DEF Without
<1>2. at \in 1 .. Len(q) /\ q[at] = r
  BY DEF InSeq
<1>3. Len(q) \in Nat /\ DOMAIN q = 1 .. Len(q) /\ \A i \in 1 .. Len(q) : q[i] \in Request
  OBVIOUS
<1> HIDE DEF at
<1>4. w \in Seq(Request) /\ Len(w) = Len(q) - 1 /\ DOMAIN w = 1 .. Len(q) - 1
  <2>1. \A i \in 1 .. Len(q) - 1 : w[i] \in Request
    BY <1>2, <1>3
  <2>2. Len(q) - 1 \in Nat
    BY <1>2, <1>3
  <2>3. QED
    BY <2>1, <2>2
<1>5. NoDup(w)
  BY <1>2, <1>3, <1>4 DEF NoDup
<1>6. ASSUME NEW x \in Request PROVE InSeq(x, w) <=> InSeq(x, q) /\ x # r
  <2>1. ASSUME InSeq(x, w) PROVE InSeq(x, q) /\ x # r
    <3>1. PICK i \in 1 .. Len(q) - 1 : w[i] = x
      BY <1>4, <2>1 DEF InSeq
    <3>2. CASE i < at
      BY <1>2, <1>3, <3>1, <3>2 DEF InSeq, NoDup
    <3>3. CASE ~(i < at)
      BY <1>2, <1>3, <3>1, <3>3 DEF InSeq, NoDup
    <3>4. QED
      BY <3>2, <3>3
  <2>2. ASSUME InSeq(x, q), x # r PROVE InSeq(x, w)
    <3>1. PICK i \in 1 .. Len(q) : q[i] = x
      BY <1>3, <2>2 DEF InSeq
    <3>2. CASE i < at
      <4>1. i \in 1 .. Len(q) - 1 /\ w[i] = x
        BY <1>2, <1>3, <3>1, <3>2
      <4>2. QED
        BY <1>4, <4>1 DEF InSeq
    <3>3. CASE i > at
      <4>1. i - 1 \in 1 .. Len(q) - 1 /\ w[i - 1] = x
        BY <1>2, <1>3, <3>1, <3>3
      <4>2. QED
        BY <1>4, <4>1 DEF InSeq
    <3>4. QED
      BY <1>2, <1>3, <2>2, <3>1, <3>2, <3>3
  <2>3. QED
    BY <2>1, <2>2
<1>7. Head(q) # r => w # <<>> /\ Head(w) = Head(q)
  <2> SUFFICES ASSUME Head(q) # r PROVE w # <<>> /\ Head(w) = Head(q)
    OBVIOUS
  <2>1. at # 1 /\ at > 1 /\ Len(q) - 1 >= 1
    BY <1>2, <1>3
  <2>2. w[1] = q[1]
    BY <1>2, <1>3, <2>1
  <2>3. w # <<>> /\ Head(w) = w[1]
    <3> HIDE DEF w
    <3> QED BY <1>3, <1>4, <2>1
  <2>4. q # <<>> /\ Head(q) = q[1]
    BY <1>3, <2>1
  <2>5. QED
    BY <2>2, <2>3, <2>4
<1>8. QED
  BY <1>1, <1>4, <1>5, <1>6, <1>7

\* The driver takes the first closure of its queue.
LEMMA TailOK ==
  ASSUME NEW q \in Seq(Request), NoDup(q), q # <<>>
  PROVE  /\ Tail(q) \in Seq(Request)
         /\ NoDup(Tail(q))
         /\ \A x \in Request : InSeq(x, Tail(q)) <=> InSeq(x, q) /\ x # Head(q)
<1>1. /\ Tail(q) \in Seq(Request) /\ Len(Tail(q)) = Len(q) - 1 /\ Len(q) \in Nat /\ Len(q) > 0
      /\ \A i \in 1 .. Len(q) - 1 : Tail(q)[i] = q[i + 1]
      /\ Head(q) = q[1]
      /\ DOMAIN q = 1 .. Len(q) /\ DOMAIN Tail(q) = 1 .. Len(q) - 1
  OBVIOUS
<1>2. NoDup(Tail(q))
  BY <1>1 DEF NoDup
<1>3. ASSUME NEW x \in Request PROVE InSeq(x, Tail(q)) <=> InSeq(x, q) /\ x # Head(q)
  <2>1. ASSUME InSeq(x, Tail(q)) PROVE InSeq(x, q) /\ x # Head(q)
    <3>1. PICK i \in 1 .. Len(q) - 1 : q[i + 1] = x
      BY <1>1, <2>1 DEF InSeq
    <3>2. i + 1 \in DOMAIN q /\ 1 \in DOMAIN q /\ i + 1 # 1
      BY <1>1
    <3>3. QED
      BY <1>1, <3>1, <3>2 DEF InSeq, NoDup
  <2>2. ASSUME InSeq(x, q), x # Head(q) PROVE InSeq(x, Tail(q))
    <3>1. PICK i \in 1 .. Len(q) : q[i] = x
      BY <1>1, <2>2 DEF InSeq
    <3>2. i - 1 \in 1 .. Len(q) - 1 /\ Tail(q)[i - 1] = x
      BY <1>1, <2>2, <3>1
    <3>3. QED
      BY <1>1, <3>2 DEF InSeq
  <2>3. QED
    BY <2>1, <2>2
<1>4. QED
  BY <1>1, <1>2, <1>3

\* A request that was not in the list joins it at the end; the front stays.
LEMMA AppendOK ==
  ASSUME NEW q \in Seq(Request), NoDup(q), NEW r \in Request, ~InSeq(r, q)
  PROVE  /\ Append(q, r) \in Seq(Request)
         /\ NoDup(Append(q, r))
         /\ \A x \in Request : InSeq(x, Append(q, r)) <=> InSeq(x, q) \/ x = r
         /\ Append(q, r) # <<>>
         /\ Head(Append(q, r)) = IF q = <<>> THEN r ELSE Head(q)
<1> DEFINE a == Append(q, r)
<1>1. /\ a \in Seq(Request) /\ Len(a) = Len(q) + 1 /\ Len(q) \in Nat
      /\ \A i \in 1 .. Len(q) : a[i] = q[i]
      /\ a[Len(q) + 1] = r
      /\ DOMAIN q = 1 .. Len(q) /\ DOMAIN a = 1 .. Len(q) + 1
  OBVIOUS
<1> HIDE DEF a
<1>2. a # <<>> /\ Head(a) = IF q = <<>> THEN r ELSE Head(q)
  <2>1. a # <<>> /\ Head(a) = a[1]
    BY <1>1
  <2>2. CASE q = <<>>
    <3>1. Len(q) = 0
      BY <2>2
    <3>2. QED
      BY <1>1, <2>1, <2>2, <3>1
  <2>3. CASE q # <<>>
    <3>1. Len(q) > 0 /\ Head(q) = q[1]
      BY <2>3
    <3>2. a[1] = q[1]
      BY <1>1, <3>1
    <3>3. QED
      BY <2>1, <2>3, <3>1, <3>2
  <2>4. QED
    BY <2>2, <2>3
<1>3. NoDup(a)
  BY <1>1 DEF NoDup, InSeq
<1>4. ASSUME NEW x \in Request PROVE InSeq(x, a) <=> InSeq(x, q) \/ x = r
  <2>1. Len(q) + 1 \in DOMAIN a /\ \A i \in DOMAIN q : i \in DOMAIN a
    BY <1>1
  <2>2. \A i \in DOMAIN a : i \in DOMAIN q \/ i = Len(q) + 1
    BY <1>1
  <2>3. QED
    BY <1>1, <2>1, <2>2 DEF InSeq
<1>5. QED
  BY <1>1, <1>2, <1>3, <1>4 DEF a

\* A closure is queued once, however many of its events trigger.
LEMMA UnblockOK ==
  ASSUME NEW q \in Seq(Request), NoDup(q), NEW r \in Request
  PROVE  /\ Unblock(q, r) \in Seq(Request)
         /\ NoDup(Unblock(q, r))
         /\ \A x \in Request : InSeq(x, Unblock(q, r)) <=> InSeq(x, q) \/ x = r
<1>1. CASE InSeq(r, q)
  BY <1>1 DEF Unblock
<1>2. CASE ~InSeq(r, q)
  BY <1>2, AppendOK DEF Unblock
<1>3. QED
  BY <1>1, <1>2

\* What Wake makes of armed, ready and runq.
WakeStep(list, set, rdy, q, set1, rdy1, q1) ==
  IF list # <<>> /\ Head(list) \in set
  THEN /\ set1 = set \ {Head(list)}
       /\ rdy1 = [rdy EXCEPT ![Head(list)] = @ + 1]
       /\ q1 = Unblock(q, Head(list))
  ELSE set1 = set /\ rdy1 = rdy /\ q1 = q

\* Where Wake is called: the closures in the queue are those with an event to
\* join, and a waiter whose w.e is active has at most one.
WakeReady(list, set, rdy, q) ==
  /\ list \in Seq(Request)
  /\ set \in SUBSET Request
  /\ rdy \in [Request -> 0 .. 2]
  /\ q \in Seq(Request) /\ NoDup(q)
  /\ \A x \in Request : InSeq(x, q) <=> rdy[x] > 0
  /\ \A x \in set : rdy[x] < 2

\* wake() takes the first waiter's event and queues its closure, if that event
\* is active.
LEMMA WakeOK ==
  ASSUME NEW list, NEW set, NEW rdy, NEW q, NEW set1, NEW rdy1, NEW q1,
         WakeReady(list, set, rdy, q),
         WakeStep(list, set, rdy, q, set1, rdy1, q1)
  PROVE  /\ set1 = set \ (IF list = <<>> THEN {} ELSE {Head(list)})
         /\ rdy1 \in [Request -> 0 .. 2]
         /\ q1 \in Seq(Request) /\ NoDup(q1)
         /\ \A x \in Request : InSeq(x, q1) <=> rdy1[x] > 0
         /\ \A x \in Request :
              rdy1[x] = rdy[x] + (IF x \in set /\ x \notin set1 THEN 1 ELSE 0)
<1>1. CASE list # <<>> /\ Head(list) \in set
  <2> DEFINE h == Head(list)
  <2>1. /\ h \in Request /\ h \in set
        /\ set1 = set \ {h}
        /\ rdy1 = [rdy EXCEPT ![h] = @ + 1]
        /\ q1 = Unblock(q, h)
    BY <1>1 DEF WakeStep, WakeReady
  <2>2. rdy[h] + 1 \in 0 .. 2 /\ rdy[h] >= 0
    BY <2>1 DEF WakeReady
  <2> HIDE DEF h
  <2>3. rdy1 \in [Request -> 0 .. 2]
    BY <2>1, <2>2 DEF WakeReady
  <2>4. q1 \in Seq(Request) /\ NoDup(q1)
    BY <2>1, UnblockOK DEF WakeReady
  <2>5. \A x \in Request : InSeq(x, q1) <=> InSeq(x, q) \/ x = h
    BY <2>1, UnblockOK DEF WakeReady
  <2>6. \A x \in Request : rdy1[x] = IF x = h THEN rdy[x] + 1 ELSE rdy[x]
    BY <2>1 DEF WakeReady
  <2>7. \A x \in Request : InSeq(x, q1) <=> rdy1[x] > 0
    BY <2>2, <2>5, <2>6 DEF WakeReady
  <2>8. \A x \in Request :
          rdy1[x] = rdy[x] + (IF x \in set /\ x \notin set1 THEN 1 ELSE 0)
    BY <2>1, <2>6 DEF WakeReady
  <2>9. set1 = set \ (IF list = <<>> THEN {} ELSE {Head(list)})
    BY <1>1, <2>1 DEF h
  <2>10. QED
    BY <2>3, <2>4, <2>7, <2>8, <2>9
<1>2. CASE ~(list # <<>> /\ Head(list) \in set)
  <2>1. set1 = set /\ rdy1 = rdy /\ q1 = q
    BY <1>2 DEF WakeStep
  <2>2. QED
    BY <1>2, <2>1 DEF WakeReady
<1>3. QED
  BY <1>1, <1>2

(***************************************************************************)
(* The lock word.                                                          *)
(***************************************************************************)

\* The holders can be counted.
LEMMA HoldersFinite ==
  /\ IsFiniteSet(Holders)
  /\ Cardinality(Holders) \in Nat
  /\ Cardinality(Holders) = 0 <=> Holders = {}
BY RequestAssumption, FS_Subset, FS_CardinalityType, FS_EmptySet DEF Holders

\* A request that passes the test of acquire enters the lock properly.
LEMMA EnterOK ==
  ASSUME TypeOK, Exclusion, NEW r \in Request, pc[r] # "held",
         NEW kind \in {-1, 1}, Free(locked, kind), shared'[r] = kind,
         locked' = locked + kind, pc' = [pc EXCEPT ![r] = "held"],
         \A x \in Request \ {r} : shared'[x] = shared[x]
  PROVE  Exclusion'
<1>1. Holders' = Holders \cup {r} /\ r \notin Holders
  BY DEF TypeOK, Holders
<1>2. Cardinality(Holders') = Cardinality(Holders) + 1
  BY <1>1, HoldersFinite, FS_AddElement
<1>3. CASE kind = -1
  <2>1. locked = 0 /\ locked' = -1
    BY <1>3 DEF Free
  <2>2. Holders = {}
    BY <2>1, HoldersFinite DEF Exclusion
  <2>3. QED
    BY <1>1, <1>3, <2>1, <2>2 DEF Exclusion
<1>4. CASE kind = 1
  <2>1. locked # -1 /\ locked' = locked + 1
    BY <1>4 DEF Free
  <2>2. locked = Cardinality(Holders) /\ \A x \in Holders : shared[x] = 1
    BY <2>1 DEF Exclusion
  <2>3. \A x \in Holders' : shared'[x] = 1
    BY <1>1, <1>4, <2>2 DEF Holders
  <2>4. QED
    BY <1>2, <2>1, <2>2, <2>3 DEF Exclusion
<1>5. QED
  BY <1>3, <1>4

\* release and release_shared take their own share off locked_.
LEMMA LeaveOK ==
  ASSUME TypeOK, Exclusion, NEW r \in Request, pc[r] = "held",
         locked' = locked - shared[r], pc' = [pc EXCEPT ![r] = "idle"],
         shared' = shared
  PROVE  Exclusion' /\ locked' \in Int
<1>1. Holders' = Holders \ {r} /\ r \in Holders
  BY DEF TypeOK, Holders
<1>2. Cardinality(Holders') = Cardinality(Holders) - 1
  BY <1>1, HoldersFinite, FS_RemoveElement
<1>3. CASE locked = -1 /\ \E x \in Request : Holders = {x} /\ shared[x] = -1
  <2>1. Holders = {r} /\ shared[r] = -1 /\ locked' = 0
    BY <1>1, <1>3
  <2>2. Holders' = {} /\ Cardinality(Holders') = 0
    BY <1>1, <2>1, FS_EmptySet
  <2>3. QED
    BY <2>1, <2>2 DEF Exclusion
<1>4. CASE locked = Cardinality(Holders) /\ \A x \in Holders : shared[x] = 1
  <2>1. locked' = Cardinality(Holders')
    BY <1>1, <1>2, <1>4, HoldersFinite
  <2>2. \A x \in Holders' : shared'[x] = 1
    BY <1>1, <1>4
  <2>3. locked' \in Int
    BY <1>1, <1>2, <2>1, HoldersFinite
  <2>4. QED
    BY <2>1, <2>2, <2>3 DEF Exclusion
<1>5. QED
  BY <1>3, <1>4 DEF Exclusion

\* Steps that change neither the lock word nor the holders keep Exclusion.
LEMMA StayOK ==
  ASSUME TypeOK, Exclusion, locked' = locked,
         \A x \in Request : pc'[x] = "held" <=> pc[x] = "held",
         \A x \in Request : pc[x] = "held" => shared'[x] = shared[x]
  PROVE  Exclusion'
<1>1. Holders' = Holders
  BY DEF Holders
<1>2. \A x \in Holders : shared'[x] = shared[x]
  BY DEF Holders
<1>3. QED
  BY <1>1, <1>2 DEF Exclusion

(***************************************************************************)
(* The actions.                                                            *)
(***************************************************************************)

\* The first element of a list is in it, and only the empty list has none.
LEMMA HeadOK ==
  ASSUME NEW q \in Seq(Request)
  PROVE  /\ q # <<>> => Head(q) \in Request /\ InSeq(Head(q), q)
         /\ \A x : InSeq(x, q) => q # <<>>
<1>1. q # <<>> => Head(q) = q[1] /\ 1 \in DOMAIN q /\ q[1] \in Request
  OBVIOUS
<1>2. \A x : InSeq(x, q) => q # <<>>
  BY DEF InSeq
<1>3. QED
  BY <1>1, <1>2 DEF InSeq

\* A new mutex satisfies the invariant.
LEMMA InitOK == Init => WaitInv
<1> SUFFICES ASSUME Init PROVE WaitInv
  OBVIOUS
<1>1. TypeOK
  BY DEF Init, TypeOK
<1>2. NoDup(wait) /\ NoDup(runq)
  BY DEF Init, NoDup
<1>3. \A r \in Request : Stands(r)
  BY DEF Init, Stands, InSeq
<1>4. Exclusion
  <2>1. Holders = {}
    BY DEF Init, Holders
  <2>2. QED
    BY <2>1, HoldersFinite DEF Init, Exclusion
<1>5. Awake
  BY DEF Init, Awake
<1>6. QED
  BY <1>1, <1>2, <1>3, <1>4, <1>5 DEF WaitInv

\* acquire that gets the lock at once: nobody waits, so nobody is forgotten.
LEMMA AcquireNowOK ==
  ASSUME WaitInv, NEW r \in Request, NEW kind \in {-1, 1}, AcquireNow(r, kind)
  PROVE  WaitInv'
<1> USE DEF WaitInv
<1>1. TypeOK'
  BY DEF AcquireNow, TypeOK
<1>2. NoDup(wait)' /\ NoDup(runq)'
  BY DEF AcquireNow, NoDup
<1>3. ASSUME NEW x \in Request PROVE Stands(x)'
  <2>1. ~InSeq(x, wait) /\ pc[x] # "waiting" /\ Stands(x)
    BY HeadOK DEF AcquireNow, Stands, TypeOK
  <2>2. pc'[x] # "waiting"
    BY <2>1 DEF AcquireNow, TypeOK
  <2>3. shared'[x] = IF x = r THEN kind ELSE shared[x]
    BY DEF AcquireNow, TypeOK
  <2>4. QED
    BY <2>1, <2>2, <2>3 DEF AcquireNow, Stands, InSeq
<1>4. Exclusion'
  <2>1. CASE r \in Immediate
    BY <2>1, StayOK DEF AcquireNow, TypeOK
  <2>2. CASE r \notin Immediate
    BY <2>2, EnterOK DEF AcquireNow, TypeOK
  <2>3. QED
    BY <2>1, <2>2
<1>5. Awake'
  BY DEF AcquireNow, Awake
<1>6. QED
  BY <1>1, <1>2, <1>3, <1>4, <1>5

\* acquire that queues up: a first waiter has just failed the test.
LEMMA AcquireLaterOK ==
  ASSUME WaitInv, NEW r \in Request, NEW kind \in {-1, 1}, AcquireLater(r, kind)
  PROVE  WaitInv'
<1> USE DEF WaitInv
<1>1. /\ Stands(r) /\ pc[r] = "idle"
      /\ wait' = Append(wait, r) /\ wait \in Seq(Request)
  BY DEF AcquireLater, TypeOK
<1>2. ~InSeq(r, wait)
  BY <1>1 DEF Stands
<1>3. /\ wait' \in Seq(Request) /\ NoDup(wait')
      /\ \A x \in Request : InSeq(x, wait') <=> InSeq(x, wait) \/ x = r
      /\ wait' # <<>>
      /\ Head(wait') = IF wait = <<>> THEN r ELSE Head(wait)
  BY <1>1, <1>2, AppendOK
<1>4. TypeOK'
  BY <1>3 DEF AcquireLater, TypeOK
<1>5. NoDup(wait)' /\ NoDup(runq)'
  BY <1>3 DEF AcquireLater, NoDup
<1>6. ASSUME NEW x \in Request PROVE Stands(x)'
  <2>1. Stands(x) /\ (InSeq(x, wait) => wait # <<>>)
    BY <1>1, HeadOK
  <2>2. /\ pc'[x] = (IF x = r THEN "waiting" ELSE pc[x])
        /\ shared'[x] = (IF x = r THEN kind ELSE shared[x])
        /\ runq' = runq /\ ready' = ready
        /\ armed' = armed \cup {r} /\ active' = active \cup {r}
        /\ r \in Immediate => kind = 1
    BY DEF AcquireLater, TypeOK
  <2>3. InSeq(x, runq') <=> InSeq(x, runq)
    BY <2>2
  <2>4. CASE x = r
    BY <1>1, <1>3, <2>2, <2>3, <2>4 DEF Stands
  <2>5. CASE x # r
    BY <1>3, <2>1, <2>2, <2>3, <2>5 DEF Stands
  <2>6. QED
    BY <2>4, <2>5
<1>7. Exclusion'
  <2>1. \A x \in Request : pc'[x] = "held" <=> pc[x] = "held"
    BY DEF AcquireLater, TypeOK
  <2>2. \A x \in Request : pc[x] = "held" => shared'[x] = shared[x]
    BY DEF AcquireLater, TypeOK
  <2>3. QED
    BY <2>1, <2>2, StayOK DEF AcquireLater
<1>8. Awake'
  <2>1. CASE wait = <<>>
    BY <1>3, <2>1 DEF AcquireLater, TypeOK, Awake, Free
  <2>2. CASE wait # <<>>
    <3>1. Head(wait) \in Request /\ Head(wait) # r /\ Head(wait') = Head(wait)
      BY <1>1, <1>2, <1>3, <2>2, HeadOK
    <3>2. shared'[Head(wait)] = shared[Head(wait)]
      BY <3>1 DEF AcquireLater, TypeOK
    <3>3. QED
      BY <2>2, <3>1, <3>2 DEF AcquireLater, Awake, Free
  <2>3. QED
    BY <2>1, <2>2
<1>9. QED
  BY <1>4, <1>5, <1>6, <1>7, <1>8

\* Canceling leaves the list and the lock alone until the closure resumes.
LEMMA CancelOK ==
  ASSUME WaitInv, NEW r \in Request, Cancel(r)
  PROVE  WaitInv'
<1> USE DEF WaitInv
<1>1. /\ Stands(r) /\ pc[r] = "waiting" /\ r \in active
      /\ ready[r] \in 0 .. 1
      /\ runq \in Seq(Request) /\ NoDup(runq)
  BY DEF Cancel, TypeOK, Stands
<1>2. /\ runq' \in Seq(Request) /\ NoDup(runq')
      /\ \A x \in Request : InSeq(x, runq') <=> InSeq(x, runq) \/ x = r
  BY <1>1, UnblockOK DEF Cancel
<1>3. TypeOK'
  BY <1>1, <1>2 DEF Cancel, TypeOK
<1>4. NoDup(wait)' /\ NoDup(runq)'
  BY <1>2 DEF Cancel, NoDup
<1>5. ASSUME NEW x \in Request PROVE Stands(x)'
  <2>1. /\ wait' = wait /\ armed' = armed /\ shared' = shared /\ pc' = pc
        /\ active' = active \ {r}
        /\ ready'[x] = (IF x = r THEN ready[x] + 1 ELSE ready[x])
    BY DEF Cancel, TypeOK
  <2>2. Stands(x) /\ (InSeq(x, wait') <=> InSeq(x, wait))
    BY <2>1
  <2>3. CASE x = r
    BY <1>1, <1>2, <2>1, <2>2, <2>3 DEF Stands
  <2>4. CASE x # r
    BY <1>2, <2>1, <2>2, <2>4 DEF Stands
  <2>5. QED
    BY <2>3, <2>4
<1>6. Exclusion'
  BY StayOK DEF Cancel
<1>7. Awake'
  BY DEF Cancel, Awake, Free
<1>8. QED
  BY <1>3, <1>4, <1>5, <1>6, <1>7

\* release: wake() takes care of the first waiter.
LEMMA ReleaseOK ==
  ASSUME WaitInv, NEW r \in Request, Release(r)
  PROVE  WaitInv'
<1> USE DEF WaitInv
<1>1. /\ wait' = wait /\ active' = active /\ shared' = shared
      /\ pc[r] = "held" /\ pc' = [pc EXCEPT ![r] = "idle"]
      /\ locked' = locked - shared[r]
      /\ WakeStep(wait, armed, ready, runq, armed', ready', runq')
      /\ Stands(r)
  BY DEF Release, Wake, WakeStep
<1>2. WakeReady(wait, armed, ready, runq)
  BY DEF WakeReady, TypeOK, Stands
<1>3. /\ armed' = armed \ (IF wait = <<>> THEN {} ELSE {Head(wait)})
      /\ ready' \in [Request -> 0 .. 2]
      /\ runq' \in Seq(Request) /\ NoDup(runq')
      /\ \A x \in Request : InSeq(x, runq') <=> ready'[x] > 0
      /\ \A x \in Request :
           ready'[x] = ready[x] + (IF x \in armed /\ x \notin armed' THEN 1 ELSE 0)
  BY <1>1, <1>2, WakeOK
<1>4. Exclusion' /\ locked' \in Int
  BY <1>1, LeaveOK
<1>5. TypeOK'
  BY <1>1, <1>3, <1>4 DEF TypeOK
<1>6. NoDup(wait)' /\ NoDup(runq)'
  BY <1>1, <1>3 DEF NoDup
<1>7. ASSUME NEW x \in Request PROVE Stands(x)'
  <2>1. Stands(x) /\ (InSeq(x, wait') <=> InSeq(x, wait))
    BY <1>1
  <2>2. /\ InSeq(x, runq') <=> ready'[x] > 0
        /\ ready'[x] = ready[x] + (IF x \in armed /\ x \notin armed' THEN 1 ELSE 0)
        /\ pc'[x] = (IF x = r THEN "idle" ELSE pc[x])
        /\ x \in armed' => x \in armed
        /\ x \in armed /\ x \notin armed' => x = Head(wait)
        /\ ready[x] \in 0 .. 2
    BY <1>1, <1>3 DEF TypeOK
  <2>3. CASE x = r
    BY <1>1, <2>1, <2>2, <2>3 DEF Stands
  <2>4. CASE x # r
    <3>1. pc'[x] = pc[x]
      BY <2>2, <2>4
    <3>2. pc[x] # "waiting" => x \notin armed' /\ x \notin active' /\ ready'[x] = 0
      BY <1>1, <2>1, <2>2 DEF Stands
    <3>3. pc[x] = "waiting" =>
            ready'[x] = (IF x \in armed' THEN 0 ELSE 1) + (IF x \in active' THEN 0 ELSE 1)
      <4>1. pc[x] = "waiting" =>
              ready[x] = (IF x \in armed THEN 0 ELSE 1) + (IF x \in active THEN 0 ELSE 1)
        BY <2>1 DEF Stands
      <4>2. x \in active' <=> x \in active
        BY <1>1
      <4>3. CASE x \in armed'
        BY <2>2, <4>1, <4>2, <4>3
      <4>4. CASE x \notin armed'
        <5>1. CASE x \in armed
          BY <2>2, <4>1, <4>2, <4>4, <5>1
        <5>2. CASE x \notin armed
          BY <2>2, <4>1, <4>2, <4>4, <5>2
        <5>3. QED
          BY <5>1, <5>2
      <4>5. QED
        BY <4>3, <4>4
    <3>4. pc[x] = "waiting" /\ x \notin armed' => x = Head(wait')
      BY <1>1, <2>1, <2>2 DEF Stands
    <3>5. /\ InSeq(x, wait') <=> pc'[x] = "waiting"
          /\ InSeq(x, runq') <=> ready'[x] > 0
          /\ x \in Immediate => shared'[x] = 1
      BY <1>1, <2>1, <2>2, <3>1 DEF Stands
    <3>6. QED
      BY <3>1, <3>2, <3>3, <3>4, <3>5 DEF Stands
  <2>5. QED
    BY <2>3, <2>4
<1>8. Awake'
  BY <1>1, <1>3 DEF Awake
<1>9. QED
  BY <1>4, <1>5, <1>6, <1>7, <1>8

\* What holds of a closure that the driver is about to resume.
LEMMA ResumedOK ==
  ASSUME WaitInv, NEW r \in Request, Resumed(r)
  PROVE  /\ pc[r] = "waiting" /\ InSeq(r, wait) /\ Stands(r)
         /\ wait \in Seq(Request) /\ NoDup(wait)
         /\ Without(wait, r) \in Seq(Request) /\ NoDup(Without(wait, r))
         /\ \A x \in Request : InSeq(x, Without(wait, r)) <=> InSeq(x, wait) /\ x # r
         /\ Head(wait) # r => Without(wait, r) # <<>> /\ Head(Without(wait, r)) = Head(wait)
         /\ Tail(runq) \in Seq(Request) /\ NoDup(Tail(runq))
         /\ \A x \in Request : InSeq(x, Tail(runq)) <=> ready[x] > 0 /\ x # r
<1> USE DEF WaitInv
<1>1. pc[r] = "waiting" /\ InSeq(r, wait) /\ Stands(r)
  BY DEF Resumed, Stands, TypeOK
<1>2. wait \in Seq(Request) /\ NoDup(wait)
  BY DEF TypeOK
<1>3. /\ Without(wait, r) \in Seq(Request) /\ NoDup(Without(wait, r))
      /\ \A x \in Request : InSeq(x, Without(wait, r)) <=> InSeq(x, wait) /\ x # r
      /\ Head(wait) # r => Without(wait, r) # <<>> /\ Head(Without(wait, r)) = Head(wait)
  BY <1>1, <1>2, WithoutOK
<1>4. /\ Tail(runq) \in Seq(Request) /\ NoDup(Tail(runq))
      /\ \A x \in Request : InSeq(x, Tail(runq)) <=> InSeq(x, runq) /\ x # r
  BY TailOK DEF Resumed, TypeOK
<1>5. \A x \in Request : InSeq(x, runq) <=> ready[x] > 0
  BY DEF Stands
<1>6. QED
  BY <1>1, <1>2, <1>3, <1>4, <1>5

\* A canceled request leaves the list and wakes the new first waiter.
LEMMA ResumeCanceledOK ==
  ASSUME WaitInv, NEW r \in Request, ResumeCanceled(r)
  PROVE  WaitInv'
<1> USE DEF WaitInv
<1> DEFINE rdy == [ready EXCEPT ![r] = 0]
<1>1. /\ Resumed(r) /\ r \notin active
      /\ wait' = Without(wait, r)
      /\ pc' = [pc EXCEPT ![r] = "idle"]
      /\ WakeStep(wait', armed \ {r}, rdy, Tail(runq), armed', ready', runq')
      /\ locked' = locked /\ active' = active /\ shared' = shared
  BY DEF ResumeCanceled, Wake, WakeStep
<1>2. /\ pc[r] = "waiting" /\ Stands(r)
      /\ wait' \in Seq(Request) /\ NoDup(wait')
      /\ \A x \in Request : InSeq(x, wait') <=> InSeq(x, wait) /\ x # r
      /\ Head(wait) # r => wait' # <<>> /\ Head(wait') = Head(wait)
      /\ Tail(runq) \in Seq(Request) /\ NoDup(Tail(runq))
      /\ \A x \in Request : InSeq(x, Tail(runq)) <=> ready[x] > 0 /\ x # r
  BY <1>1, ResumedOK
<1>3. /\ rdy \in [Request -> 0 .. 2]
      /\ \A x \in Request : rdy[x] = IF x = r THEN 0 ELSE ready[x]
  BY DEF TypeOK
<1>4. WakeReady(wait', armed \ {r}, rdy, Tail(runq))
  <2>1. /\ \A x \in Request : InSeq(x, Tail(runq)) <=> rdy[x] > 0
        /\ \A x \in armed \ {r} : rdy[x] < 2
        /\ armed \ {r} \in SUBSET Request
    BY <1>2, <1>3 DEF TypeOK, Stands
  <2>2. QED
    BY <1>2, <1>3, <2>1 DEF WakeReady
<1> HIDE DEF rdy
<1>5. /\ armed' = (armed \ {r}) \ (IF wait' = <<>> THEN {} ELSE {Head(wait')})
      /\ ready' \in [Request -> 0 .. 2]
      /\ runq' \in Seq(Request) /\ NoDup(runq')
      /\ \A x \in Request : InSeq(x, runq') <=> ready'[x] > 0
      /\ \A x \in Request :
           ready'[x] = rdy[x] + (IF x \in armed \ {r} /\ x \notin armed' THEN 1 ELSE 0)
  BY <1>1, <1>4, WakeOK
<1>6. TypeOK'
  BY <1>1, <1>2, <1>5 DEF TypeOK
<1>7. NoDup(wait)' /\ NoDup(runq)'
  BY <1>2, <1>5 DEF NoDup
<1>8. ASSUME NEW x \in Request PROVE Stands(x)'
  <2>1. Stands(x) /\ (InSeq(x, wait') <=> InSeq(x, wait) /\ x # r)
    BY <1>2
  <2>2. /\ InSeq(x, runq') <=> ready'[x] > 0
        /\ ready'[x] = (IF x = r THEN 0 ELSE ready[x])
                       + (IF x \in armed \ {r} /\ x \notin armed' THEN 1 ELSE 0)
        /\ pc'[x] = (IF x = r THEN "idle" ELSE pc[x])
        /\ x \in armed' => x \in armed \ {r}
        /\ x \in armed \ {r} /\ x \notin armed' => x = Head(wait')
        /\ ready[x] \in 0 .. 2
    BY <1>1, <1>3, <1>5 DEF TypeOK
  <2>3. CASE x = r
    BY <1>1, <1>2, <2>1, <2>2, <2>3 DEF Stands
  <2>4. CASE x # r
    <3>1. pc[x] = "waiting" /\ x \notin armed => x = Head(wait')
      BY <1>2, <2>1, <2>4 DEF Stands
    <3>2. pc'[x] = pc[x]
      BY <2>2, <2>4
    <3>3. pc[x] # "waiting" => x \notin armed' /\ x \notin active' /\ ready'[x] = 0
      BY <1>1, <2>1, <2>2, <2>4 DEF Stands
    <3>4. pc[x] = "waiting" =>
            ready'[x] = (IF x \in armed' THEN 0 ELSE 1) + (IF x \in active' THEN 0 ELSE 1)
      <4>1. pc[x] = "waiting" =>
              ready[x] = (IF x \in armed THEN 0 ELSE 1) + (IF x \in active THEN 0 ELSE 1)
        BY <2>1 DEF Stands
      <4>2. x \in active' <=> x \in active
        BY <1>1, <2>4
      <4>3. CASE x \in armed'
        BY <2>2, <2>4, <4>1, <4>2, <4>3
      <4>4. CASE x \notin armed'
        <5>1. CASE x \in armed
          BY <2>2, <2>4, <4>1, <4>2, <4>4, <5>1
        <5>2. CASE x \notin armed
          BY <2>2, <2>4, <4>1, <4>2, <4>4, <5>2
        <5>3. QED
          BY <5>1, <5>2
      <4>5. QED
        BY <4>3, <4>4
    <3>5. pc[x] = "waiting" /\ x \notin armed' => x = Head(wait')
      BY <2>2, <2>4, <3>1
    <3>6. /\ InSeq(x, wait') <=> pc'[x] = "waiting"
          /\ InSeq(x, runq') <=> ready'[x] > 0
          /\ x \in Immediate => shared'[x] = 1
      BY <1>1, <2>1, <2>2, <2>4, <3>2 DEF Stands
    <3>7. QED
      BY <3>2, <3>3, <3>4, <3>5, <3>6 DEF Stands
  <2>5. QED
    BY <2>3, <2>4
<1>9. Exclusion'
  <2>1. \A x \in Request : pc'[x] = "held" <=> pc[x] = "held"
    BY <1>1, <1>2 DEF TypeOK
  <2>2. QED
    BY <1>1, <2>1, StayOK
<1>10. Awake'
  BY <1>5 DEF Awake
<1>11. QED
  BY <1>6, <1>7, <1>8, <1>9, <1>10

\* A waiter that failed the test again waits for w.e again.
LEMMA ResumeRetriesOK ==
  ASSUME WaitInv, NEW r \in Request, ResumeRetries(r)
  PROVE  WaitInv'
<1> USE DEF WaitInv
<1>1. /\ Resumed(r) /\ r \in active /\ ~Free(locked, shared[r])
      /\ armed' = armed \cup {r}
      /\ ready' = [ready EXCEPT ![r] = @ - 1]
      /\ runq' = IF ready[r] = 1 THEN Tail(runq) ELSE runq
      /\ locked' = locked /\ wait' = wait /\ active' = active
      /\ shared' = shared /\ pc' = pc
  BY DEF ResumeRetries
<1>2. /\ pc[r] = "waiting" /\ Stands(r)
      /\ Tail(runq) \in Seq(Request) /\ NoDup(Tail(runq))
      /\ \A x \in Request : InSeq(x, Tail(runq)) <=> ready[x] > 0 /\ x # r
  BY <1>1, ResumedOK
<1>3. r \notin armed /\ ready[r] = 1 /\ r = Head(wait)
  BY <1>1, <1>2 DEF Stands, Resumed
<1>4. runq' = Tail(runq) /\ \A x \in Request : ready'[x] = IF x = r THEN 0 ELSE ready[x]
  BY <1>1, <1>3 DEF TypeOK
<1>5. TypeOK'
  BY <1>1, <1>2, <1>3, <1>4 DEF TypeOK
<1>6. NoDup(wait)' /\ NoDup(runq)'
  BY <1>1, <1>2, <1>4 DEF NoDup
<1>7. ASSUME NEW x \in Request PROVE Stands(x)'
  <2>1. /\ Stands(x) /\ (InSeq(x, wait') <=> InSeq(x, wait))
        /\ InSeq(x, runq') <=> ready[x] > 0 /\ x # r
        /\ ready'[x] = IF x = r THEN 0 ELSE ready[x]
    BY <1>1, <1>2, <1>4
  <2>2. CASE x = r
    BY <1>1, <1>2, <1>3, <2>1, <2>2 DEF Stands
  <2>3. CASE x # r
    BY <1>1, <2>1, <2>3 DEF Stands
  <2>4. QED
    BY <2>2, <2>3
<1>8. Exclusion'
  BY <1>1, StayOK
<1>9. Awake'
  BY <1>1, <1>3 DEF Awake
<1>10. QED
  BY <1>5, <1>6, <1>7, <1>8, <1>9

\* The first waiter enters; a shared one wakes its successor.
LEMMA ResumeObtainedOK ==
  ASSUME WaitInv, NEW r \in Request, ResumeObtained(r)
  PROVE  WaitInv'
<1> USE DEF WaitInv
<1> DEFINE rdy == [ready EXCEPT ![r] = 0]
<1>1. /\ Resumed(r) /\ r \in active /\ Free(locked, shared[r])
      /\ active' = active \ {r}
      /\ wait' = Without(wait, r)
      /\ shared' = shared
      /\ IF r \in Immediate
         THEN locked' = locked /\ pc' = [pc EXCEPT ![r] = "idle"]
         ELSE locked' = locked + shared[r] /\ pc' = [pc EXCEPT ![r] = "held"]
      /\ IF shared[r] > 0
         THEN WakeStep(wait', armed, rdy, Tail(runq), armed', ready', runq')
         ELSE ready' = rdy /\ runq' = Tail(runq) /\ armed' = armed
  BY DEF ResumeObtained, Wake, WakeStep
<1>2. /\ pc[r] = "waiting" /\ Stands(r)
      /\ wait' \in Seq(Request) /\ NoDup(wait')
      /\ \A x \in Request : InSeq(x, wait') <=> InSeq(x, wait) /\ x # r
      /\ Tail(runq) \in Seq(Request) /\ NoDup(Tail(runq))
      /\ \A x \in Request : InSeq(x, Tail(runq)) <=> ready[x] > 0 /\ x # r
  BY <1>1, ResumedOK
<1>3. r \notin armed /\ ready[r] = 1 /\ r = Head(wait)
  BY <1>1, <1>2 DEF Stands, Resumed
<1>4. /\ rdy \in [Request -> 0 .. 2]
      /\ \A x \in Request : rdy[x] = IF x = r THEN 0 ELSE ready[x]
  BY DEF TypeOK
<1>5. /\ \A x \in Request : InSeq(x, Tail(runq)) <=> rdy[x] > 0
      /\ \A x \in armed : rdy[x] < 2
      /\ armed \in SUBSET Request
  BY <1>2, <1>4 DEF TypeOK, Stands
<1> HIDE DEF rdy
<1>6. /\ \/ armed' = armed /\ shared[r] # 1
         \/ armed' = armed \ (IF wait' = <<>> THEN {} ELSE {Head(wait')})
      /\ ready' \in [Request -> 0 .. 2]
      /\ runq' \in Seq(Request) /\ NoDup(runq')
      /\ \A x \in Request : InSeq(x, runq') <=> ready'[x] > 0
      /\ \A x \in Request :
           ready'[x] = rdy[x] + (IF x \in armed /\ x \notin armed' THEN 1 ELSE 0)
  <2>1. CASE shared[r] > 0
    <3>1. WakeStep(wait', armed, rdy, Tail(runq), armed', ready', runq')
      BY <1>1, <2>1
    <3>2. WakeReady(wait', armed, rdy, Tail(runq))
      BY <1>2, <1>4, <1>5 DEF WakeReady
    <3>3. QED
      BY <3>1, <3>2, WakeOK
  <2>2. CASE ~(shared[r] > 0)
    <3>1. ready' = rdy /\ runq' = Tail(runq) /\ armed' = armed /\ shared[r] # 1
      BY <1>1, <2>2
    <3>2. \A x \in Request : rdy[x] \in 0 .. 2
      BY <1>4
    <3>3. QED
      BY <1>2, <1>4, <1>5, <3>1, <3>2
  <2>3. QED
    BY <2>1, <2>2
<1>7. TypeOK'
  <2>1. locked' \in Int /\ pc' \in [Request -> {"idle", "waiting", "held"}]
    BY <1>1 DEF TypeOK
  <2>2. armed' \subseteq Request /\ active' \subseteq Request
    BY <1>1, <1>6 DEF TypeOK
  <2>3. QED
    BY <1>1, <1>2, <1>6, <2>1, <2>2 DEF TypeOK
<1>8. NoDup(wait)' /\ NoDup(runq)'
  BY <1>2, <1>6 DEF NoDup
<1>9. ASSUME NEW x \in Request PROVE Stands(x)'
  <2>1. Stands(x) /\ (InSeq(x, wait') <=> InSeq(x, wait) /\ x # r)
    BY <1>2
  <2>2. /\ InSeq(x, runq') <=> ready'[x] > 0
        /\ ready'[x] = (IF x = r THEN 0 ELSE ready[x])
                       + (IF x \in armed /\ x \notin armed' THEN 1 ELSE 0)
        /\ x # r => pc'[x] = pc[x]
        /\ pc'[r] # "waiting"
        /\ x \in armed' => x \in armed
        /\ x \in armed /\ x \notin armed' => x = Head(wait')
        /\ ready[x] \in 0 .. 2
        /\ active' = active \ {r} /\ shared' = shared
    BY <1>1, <1>4, <1>6 DEF TypeOK
  <2>3. CASE x = r
    BY <1>3, <2>1, <2>2, <2>3 DEF Stands
  <2>4. CASE x # r
    <3>1. pc[x] = "waiting" => x \in armed
      BY <1>3, <2>1, <2>4 DEF Stands
    <3>2. pc'[x] = pc[x]
      BY <2>2, <2>4
    <3>3. pc[x] # "waiting" => x \notin armed' /\ x \notin active' /\ ready'[x] = 0
      BY <2>1, <2>2, <2>4 DEF Stands
    <3>4. pc[x] = "waiting" =>
            ready'[x] = (IF x \in armed' THEN 0 ELSE 1) + (IF x \in active' THEN 0 ELSE 1)
      <4>1. pc[x] = "waiting" =>
              ready[x] = (IF x \in armed THEN 0 ELSE 1) + (IF x \in active THEN 0 ELSE 1)
        BY <2>1 DEF Stands
      <4>2. x \in active' <=> x \in active
        BY <2>2, <2>4
      <4>3. CASE x \in armed'
        BY <2>2, <2>4, <4>1, <4>2, <4>3
      <4>4. CASE x \notin armed'
        <5>1. CASE x \in armed
          BY <2>2, <2>4, <4>1, <4>2, <4>4, <5>1
        <5>2. CASE x \notin armed
          BY <2>2, <2>4, <4>1, <4>2, <4>4, <5>2
        <5>3. QED
          BY <5>1, <5>2
      <4>5. QED
        BY <4>3, <4>4
    <3>5. pc[x] = "waiting" /\ x \notin armed' => x = Head(wait')
      BY <2>2, <2>4, <3>1
    <3>6. /\ InSeq(x, wait') <=> pc'[x] = "waiting"
          /\ InSeq(x, runq') <=> ready'[x] > 0
          /\ x \in Immediate => shared'[x] = 1
      BY <2>1, <2>2, <2>4, <3>2 DEF Stands
    <3>7. QED
      BY <3>2, <3>3, <3>4, <3>5, <3>6 DEF Stands
  <2>5. QED
    BY <2>3, <2>4
<1>10. Exclusion'
  <2>1. CASE r \in Immediate
    <3>1. \A x \in Request : pc'[x] = "held" <=> pc[x] = "held"
      BY <1>1, <1>2, <2>1 DEF TypeOK
    <3>2. QED
      BY <1>1, <2>1, <3>1, StayOK
  <2>2. CASE r \notin Immediate
    <3>1. shared[r] \in {-1, 1} /\ pc[r] # "held" /\ shared'[r] = shared[r]
      BY <1>1, <1>2 DEF TypeOK
    <3>2. QED
      BY <1>1, <2>2, <3>1, EnterOK
  <2>3. QED
    BY <2>1, <2>2
<1>11. Awake'
  <2>1. CASE shared[r] = 1
    BY <1>6, <2>1 DEF Awake
  <2>2. CASE shared[r] # 1
    <3>1. shared[r] = -1 /\ r \notin Immediate
      BY <1>2, <2>2 DEF Stands, TypeOK
    <3>2. locked = 0 /\ locked' = -1
      BY <1>1, <3>1 DEF Free
    <3>3. QED
      BY <3>2 DEF Awake, Free
  <2>3. QED
    BY <2>1, <2>2
<1>12. QED
  BY <1>7, <1>8, <1>9, <1>10, <1>11

(***************************************************************************)
(* The theorems.                                                           *)
(***************************************************************************)

\* Every step of the mutex keeps the invariant.
LEMMA StepOK == WaitInv /\ [Next]_vars => WaitInv'
<1> SUFFICES ASSUME WaitInv, [Next]_vars PROVE WaitInv'
  OBVIOUS
<1>1. ASSUME NEW r \in Request, NEW kind \in {-1, 1},
             AcquireNow(r, kind) \/ AcquireLater(r, kind)
      PROVE  WaitInv'
  BY <1>1, AcquireNowOK, AcquireLaterOK
<1>2. ASSUME NEW r \in Request, Cancel(r) \/ Release(r) PROVE WaitInv'
  BY <1>2, CancelOK, ReleaseOK
<1>3. CASE Resume
  BY <1>3, ResumeCanceledOK, ResumeObtainedOK, ResumeRetriesOK DEF Resume
<1>4. CASE UNCHANGED vars
  BY <1>4 DEF vars, WaitInv, TypeOK, NoDup, Stands, InSeq, Exclusion, Holders, Awake, Free
<1>5. QED
  BY <1>1, <1>2, <1>3, <1>4 DEF Next

\* The invariant is strong enough.
LEMMA WaitInvImplies == WaitInv => TypeOK /\ Exclusion /\ FirstIsWoken
<1> SUFFICES ASSUME WaitInv, wait # <<>>, Free(locked, shared[Head(wait)])
             PROVE  InSeq(Head(wait), runq)
  BY DEF WaitInv, FirstIsWoken
<1>1. Head(wait) \in Request /\ InSeq(Head(wait), wait)
  BY HeadOK DEF WaitInv, TypeOK
<1>2. Stands(Head(wait)) /\ Head(wait) \notin armed
  BY <1>1 DEF WaitInv, Awake
<1>3. ready[Head(wait)] > 0
  BY <1>1, <1>2 DEF Stands
<1>4. QED
  BY <1>2, <1>3 DEF Stands

\* The state of the mutex is well typed; in particular no rendezvous of acquire
\* ever has more than two events to join, and every request is shared or not.
THEOREM MutexTyped == Spec => []TypeOK
<1>1. Spec => []WaitInv
  BY InitOK, StepOK, PTL DEF Spec
<1>2. QED
  BY <1>1, WaitInvImplies, PTL

\* An exclusive holder is alone, and locked_ counts the shared holders, for any
\* finite number of requests: the assertions of release and release_shared hold.
THEOREM MutexExcludes == Spec => []Exclusion
<1>1. Spec => []WaitInv
  BY InitOK, StepOK, PTL DEF Spec
<1>2. QED
  BY <1>1, WaitInvImplies, PTL

\* wake() is called often enough: whenever the lock is free for the first
\* waiter, the driver is going to resume that waiter.
THEOREM FirstWaiterWoken == Spec => []FirstIsWoken
<1>1. Spec => []WaitInv
  BY InitOK, StepOK, PTL DEF Spec
<1>2. QED
  BY <1>1, WaitInvImplies, PTL

(***************************************************************************)
(* The mutex implements FairMutex: every step grants, releases, cancels or *)
(* lets a request arrive there, or is none of its business.                *)
(***************************************************************************)

\* What the mapping says of the order of the requests, in any state.
AheadIn(act, list) ==
  [r \in Request |-> {q \in act : r \in act /\ Before(q, r, list)}]

\* Only elements of a list stand in an order in it, and nobody before the first.
LEMMA BeforeIn ==
  ASSUME NEW q \in Seq(Request), NoDup(q), NEW a, NEW b, Before(a, b, q)
  PROVE  InSeq(a, q) /\ InSeq(b, q) /\ b # Head(q)
<1>1. PICK i \in DOMAIN q, j \in DOMAIN q : i < j /\ q[i] = a /\ q[j] = b
  BY DEF Before
<1>2. /\ DOMAIN q = 1 .. Len(q) /\ Len(q) \in Nat
      /\ i \in Int /\ j \in Int /\ 1 <= i /\ j <= Len(q)
  OBVIOUS
<1>3. 1 \in DOMAIN q /\ Head(q) = q[1] /\ j # 1
  BY <1>1, <1>2
<1>4. QED
  BY <1>1, <1>3 DEF InSeq, NoDup

\* A request that joins the list comes after all others.
LEMMA BeforeAppend ==
  ASSUME NEW q \in Seq(Request), NEW r \in Request, NEW a, NEW b
  PROVE  Before(a, b, Append(q, r)) <=> (Before(a, b, q) \/ (InSeq(a, q) /\ b = r))
<1> DEFINE w == Append(q, r)
<1>1. /\ DOMAIN q = 1 .. Len(q) /\ DOMAIN w = 1 .. Len(q) + 1 /\ Len(q) \in Nat
      /\ \A i \in 1 .. Len(q) : w[i] = q[i]
      /\ w[Len(q) + 1] = r
  OBVIOUS
<1> HIDE DEF w
<1>2. ASSUME Before(a, b, w) PROVE Before(a, b, q) \/ (InSeq(a, q) /\ b = r)
  <2>1. PICK i \in DOMAIN w, j \in DOMAIN w : i < j /\ w[i] = a /\ w[j] = b
    BY <1>2 DEF Before
  <2>2. i \in 1 .. Len(q) /\ q[i] = a
    BY <1>1, <2>1
  <2>3. CASE j = Len(q) + 1
    BY <1>1, <2>1, <2>2, <2>3 DEF InSeq
  <2>4. CASE j # Len(q) + 1
    <3>1. j \in 1 .. Len(q) /\ q[j] = b
      BY <1>1, <2>1, <2>4
    <3>2. QED
      BY <1>1, <2>1, <2>2, <3>1 DEF Before
  <2>5. QED
    BY <2>3, <2>4
<1>3. ASSUME Before(a, b, q) PROVE Before(a, b, w)
  <2>1. PICK i \in DOMAIN q, j \in DOMAIN q : i < j /\ q[i] = a /\ q[j] = b
    BY <1>3 DEF Before
  <2>2. i \in DOMAIN w /\ j \in DOMAIN w /\ w[i] = a /\ w[j] = b
    BY <1>1, <2>1
  <2>3. QED
    BY <2>1, <2>2 DEF Before
<1>4. ASSUME InSeq(a, q), b = r PROVE Before(a, b, w)
  <2>1. PICK i \in DOMAIN q : q[i] = a
    BY <1>4 DEF InSeq
  <2>2. /\ i \in DOMAIN w /\ w[i] = a
        /\ Len(q) + 1 \in DOMAIN w /\ w[Len(q) + 1] = b /\ i < Len(q) + 1
    BY <1>1, <1>4, <2>1
  <2>3. QED
    BY <2>2 DEF Before
<1>5. QED
  BY <1>2, <1>3, <1>4 DEF w

\* A request that leaves the list does not change the order of the others.
LEMMA BeforeWithout ==
  ASSUME NEW q \in Seq(Request), NoDup(q), NEW r \in Request, InSeq(r, q),
         NEW a, NEW b, a # r, b # r
  PROVE  Before(a, b, Without(q, r)) <=> Before(a, b, q)
<1> DEFINE at == CHOOSE i \in DOMAIN q : q[i] = r
           w == [i \in 1 .. Len(q) - 1 |-> IF i < at THEN q[i] ELSE q[i + 1]]
<1>1. Without(q, r) = w
  BY DEF Without
<1>2. at \in 1 .. Len(q) /\ q[at] = r
  BY DEF InSeq
<1>3. Len(q) \in Nat /\ DOMAIN q = 1 .. Len(q)
  OBVIOUS
<1> HIDE DEF at
<1>4. /\ DOMAIN w = 1 .. Len(q) - 1
      /\ \A i \in 1 .. Len(q) - 1 : w[i] = IF i < at THEN q[i] ELSE q[i + 1]
  OBVIOUS
<1> HIDE DEF w
<1>5. ASSUME Before(a, b, w) PROVE Before(a, b, q)
  <2>1. PICK i \in DOMAIN w, j \in DOMAIN w : i < j /\ w[i] = a /\ w[j] = b
    BY <1>5 DEF Before
  <2>2. PICK k : k = IF i < at THEN i ELSE i + 1
    OBVIOUS
  <2>3. PICK l : l = IF j < at THEN j ELSE j + 1
    OBVIOUS
  <2>4. k \in DOMAIN q /\ l \in DOMAIN q /\ k < l
    BY <1>2, <1>3, <1>4, <2>1, <2>2, <2>3
  <2>5. q[k] = a /\ q[l] = b
    BY <1>4, <2>1, <2>2, <2>3
  <2>6. QED
    BY <2>4, <2>5 DEF Before
<1>6. ASSUME Before(a, b, q) PROVE Before(a, b, w)
  <2>1. PICK i \in DOMAIN q, j \in DOMAIN q : i < j /\ q[i] = a /\ q[j] = b
    BY <1>6 DEF Before
  <2>2. i # at /\ j # at
    BY <1>2, <2>1
  <2>3. PICK k : k = IF i < at THEN i ELSE i - 1
    OBVIOUS
  <2>4. PICK l : l = IF j < at THEN j ELSE j - 1
    OBVIOUS
  <2>5. k \in DOMAIN w /\ l \in DOMAIN w /\ k < l
    BY <1>2, <1>3, <1>4, <2>1, <2>2, <2>3, <2>4
  <2>6. w[k] = a
    BY <1>2, <1>3, <1>4, <2>1, <2>2, <2>3, <2>5
  <2>7. w[l] = b
    BY <1>2, <1>3, <1>4, <2>1, <2>2, <2>4, <2>5
  <2>8. QED
    BY <2>5, <2>6, <2>7 DEF Before
<1>7. QED
  BY <1>1, <1>5, <1>6

\* Only a waiting request is in the list, and none that waits holds the lock.
LEMMA ActiveWaits ==
  ASSUME WaitInv, NEW r \in Request
  PROVE  /\ wait \in Seq(Request) /\ NoDup(wait)
         /\ active \subseteq Request
         /\ r \in active => InSeq(r, wait) /\ pc[r] = "waiting" /\ r \notin Holders
BY DEF WaitInv, TypeOK, Stands, Holders

\* The test of acquire is the compatibility with those that hold the lock.
LEMMA FreeCompatible ==
  ASSUME WaitInv, NEW kind \in {-1, 1}, Free(locked, kind)
  PROVE  Ordered!Compatible(kind)
<1>1. CASE kind = -1
  <2>1. locked = 0
    BY <1>1 DEF Free
  <2>2. Holders = {}
    BY <2>1, HoldersFinite DEF WaitInv, Exclusion
  <2>3. QED
    BY <2>2 DEF Ordered!Compatible
<1>2. CASE kind = 1
  <2>1. locked # -1
    BY <1>2 DEF Free
  <2>2. \A x \in Holders : shared[x] = 1
    BY <2>1 DEF WaitInv, Exclusion
  <2>3. QED
    BY <1>2, <2>2 DEF Ordered!Compatible
<1>3. QED
  BY <1>1, <1>2

\* A request whose done event has triggered has left the order, whether or not
\* it has left the list.
LEMMA LeavesOrder ==
  ASSUME WaitInv, NEW r \in Request, r \in active, active' = active \ {r},
         wait' = wait \/ wait' = Without(wait, r)
  PROVE  Ordered!Leaves(r)
<1>1. \A x \in Request : x \in active => InSeq(x, wait)
  BY ActiveWaits
<1>2. wait \in Seq(Request) /\ NoDup(wait) /\ active \subseteq Request
  BY ActiveWaits
<1>3. ASSUME NEW x \in Request, NEW y \in Request, x # r, y # r
      PROVE  Before(x, y, wait') <=> Before(x, y, wait)
  BY <1>1, <1>2, <1>3, BeforeWithout
<1>4. ASSUME NEW x \in Request
      PROVE  AheadIn(active', wait')[x] = IF x = r THEN {} ELSE AheadIn(active, wait)[x] \ {r}
  <2>1. \A y \in active : y \in Request
    BY <1>2
  <2>2. QED
    BY <1>3, <2>1 DEF AheadIn
<1>5. AheadIn(active', wait')
        = [x \in Request |-> IF x = r THEN {} ELSE AheadIn(active, wait)[x] \ {r}]
  <2>1. AheadIn(active', wait') = [x \in Request |-> AheadIn(active', wait')[x]]
    BY DEF AheadIn
  <2>2. QED
    BY <1>4, <2>1
<1>6. QED
  BY <1>5 DEF Ordered!Leaves, AheadIn

\* The order of those that wait stays, when only a canceled one leaves the list.
LEMMA OrderStays ==
  ASSUME WaitInv, active' = active,
         \/ wait' = wait
         \/ \E r \in Request : InSeq(r, wait) /\ r \notin active /\ wait' = Without(wait, r)
  PROVE  AheadIn(active', wait') = AheadIn(active, wait)
<1>1. CASE wait' = wait
  BY <1>1
<1>2. ASSUME NEW r \in Request, InSeq(r, wait), r \notin active, wait' = Without(wait, r)
      PROVE  AheadIn(active', wait') = AheadIn(active, wait)
  <2>1. wait \in Seq(Request) /\ NoDup(wait) /\ active \subseteq Request
    BY <1>2, ActiveWaits
  <2>2. \A x, y \in active : Before(x, y, wait') <=> Before(x, y, wait)
    BY <1>2, <2>1, BeforeWithout
  <2>3. QED
    BY <2>2 DEF AheadIn
<1>3. QED
  BY <1>1, <1>2

\* Steps that are none of FairMutex's business.
LEMMA Unseen ==
  ASSUME Holders' = Holders, active' = active, shared' = shared,
         AheadIn(active', wait') = AheadIn(active, wait)
  PROVE  UNCHANGED Ordered!vars
BY DEF Ordered!vars, AheadIn

\* acquire that finds the lock free and nobody waiting: the request arrives and
\* holds the lock; one that releases within its trigger is not seen.
LEMMA MapAcquireNow ==
  ASSUME WaitInv, NEW r \in Request, NEW kind \in {-1, 1}, AcquireNow(r, kind)
  PROVE  [Ordered!Next]_(Ordered!vars)
<1>1. /\ pc[r] = "idle" /\ wait = <<>> /\ wait' = wait /\ active' = active
      /\ Free(locked, kind) /\ shared' = [shared EXCEPT ![r] = kind]
  BY DEF AcquireNow
<1>2. AheadIn(active', wait') = AheadIn(active, wait)
  BY <1>1
<1>3. CASE r \in Immediate
  <2>1. shared[r] = 1 /\ kind = 1 /\ shared \in [Request -> {-1, 1}]
    BY <1>3 DEF AcquireNow, WaitInv, Stands, TypeOK
  <2>2. shared' = shared
    BY <1>1, <2>1
  <2>3. Holders' = Holders
    BY <1>3 DEF AcquireNow, Holders
  <2>4. QED
    BY <1>1, <1>2, <2>2, <2>3, Unseen
<1>4. CASE r \notin Immediate
  <2>1. pc' = [pc EXCEPT ![r] = "held"] /\ pc \in [Request -> {"idle", "waiting", "held"}]
    BY <1>4 DEF AcquireNow, WaitInv, TypeOK
  <2>2. Holders' = Holders \cup {r} /\ r \notin Holders
    BY <1>1, <2>1 DEF Holders
  <2>3. active = {}
    <3>1. \A x \in Request : x \in active => InSeq(x, wait)
      BY ActiveWaits
    <3>2. active \subseteq Request
      BY ActiveWaits
    <3>3. QED
      BY <1>1, <3>1, <3>2 DEF InSeq
  <2>4. Ordered!Compatible(kind)
    BY <1>1, FreeCompatible
  <2>5. Ordered!Arrive(r, kind)
    BY <1>1, <1>2, <2>2, <2>3, <2>4 DEF Ordered!Arrive, AheadIn
  <2>6. QED
    BY <2>5 DEF Ordered!Next
<1>5. QED
  BY <1>3, <1>4

\* acquire that queues up: the request arrives and comes after all that wait.
LEMMA MapAcquireLater ==
  ASSUME WaitInv, NEW r \in Request, NEW kind \in {-1, 1}, AcquireLater(r, kind)
  PROVE  Ordered!Arrive(r, kind)
<1>1. /\ pc[r] = "idle" /\ wait' = Append(wait, r) /\ active' = active \cup {r}
      /\ shared' = [shared EXCEPT ![r] = kind]
      /\ pc' = [pc EXCEPT ![r] = "waiting"]
  BY DEF AcquireLater
<1>2. /\ pc \in [Request -> {"idle", "waiting", "held"}]
      /\ wait \in Seq(Request) /\ NoDup(wait) /\ active \subseteq Request
      /\ ~InSeq(r, wait)
  BY <1>1 DEF WaitInv, TypeOK, Stands
<1>3. Holders' = Holders /\ r \notin Holders
  BY <1>1, <1>2 DEF Holders
<1>4. \A x \in Request : x \in active => InSeq(x, wait)
  BY ActiveWaits
<1>5. r \notin active
  BY <1>2, <1>4
<1>6. \A x \in active : InSeq(x, wait) /\ x # r
  BY <1>2, <1>4, <1>5
<1>7. ASSUME NEW x \in Request
      PROVE  AheadIn(active', wait')[x] = IF x = r THEN active ELSE AheadIn(active, wait)[x]
  <2>1. \A y \in active \cup {r} :
          Before(y, x, wait') <=> (Before(y, x, wait) \/ (InSeq(y, wait) /\ x = r))
    BY <1>1, <1>2, BeforeAppend
  <2>2. \A y \in active \cup {r} : Before(y, x, wait) => y # r /\ x # r
    BY <1>2, BeforeIn
  <2>3. CASE x = r
    <3>1. \A y \in active \cup {r} : Before(y, x, wait') <=> y \in active
      BY <1>2, <1>5, <1>6, <2>1, <2>2, <2>3
    <3>2. QED
      BY <1>1, <2>3, <3>1 DEF AheadIn
  <2>4. CASE x # r
    <3>1. \A y \in active \cup {r} : Before(y, x, wait') <=> (y # r /\ Before(y, x, wait))
      BY <2>1, <2>2, <2>4
    <3>2. QED
      BY <1>1, <1>5, <2>4, <3>1 DEF AheadIn
  <2>5. QED
    BY <2>3, <2>4
<1>8. AheadIn(active', wait') = [AheadIn(active, wait) EXCEPT ![r] = active]
  <2>1. AheadIn(active', wait') = [x \in Request |-> AheadIn(active', wait')[x]]
    BY DEF AheadIn
  <2>2. [AheadIn(active, wait) EXCEPT ![r] = active]
          = [x \in Request |-> IF x = r THEN active ELSE AheadIn(active, wait)[x]]
    BY DEF AheadIn
  <2>3. QED
    BY <1>7, <2>1, <2>2
<1>9. QED
  BY <1>1, <1>3, <1>5, <1>8 DEF Ordered!Arrive, AheadIn

\* The request that obtains the lock is the first of those that wait; done that
\* releases at once looks like a request that goes away.
LEMMA MapObtained ==
  ASSUME WaitInv, NEW r \in Request, ResumeObtained(r)
  PROVE  Ordered!Grant(r) \/ Ordered!Cancel(r)
<1>1. /\ Resumed(r) /\ r \in active /\ Free(locked, shared[r])
      /\ active' = active \ {r} /\ wait' = Without(wait, r) /\ shared' = shared
  BY DEF ResumeObtained
<1>2. Ordered!Leaves(r)
  BY <1>1, LeavesOrder
<1>3. pc[r] = "waiting" /\ pc \in [Request -> {"idle", "waiting", "held"}]
  BY <1>1 DEF WaitInv, Stands, TypeOK
<1>4. CASE r \in Immediate
  <2>1. pc' = [pc EXCEPT ![r] = "idle"]
    BY <1>4 DEF ResumeObtained
  <2>2. Holders' = Holders
    BY <1>3, <2>1 DEF Holders
  <2>3. QED
    BY <1>1, <1>2, <2>2 DEF Ordered!Cancel
<1>5. CASE r \notin Immediate
  <2>1. pc' = [pc EXCEPT ![r] = "held"]
    BY <1>5 DEF ResumeObtained
  <2>2. Holders' = Holders \cup {r}
    BY <1>3, <2>1 DEF Holders
  <2>3. shared[r] \in {-1, 1}
    BY DEF WaitInv, TypeOK
  <2>4. Ordered!Compatible(shared[r])
    BY <1>1, <2>3, FreeCompatible
  <2>5. r = Head(wait)
    <3>1. ready[r] > 0 /\ ready[r] \in Int /\ Stands(r)
      BY <1>1 DEF Resumed, WaitInv, TypeOK
    <3>2. r \notin armed
      BY <1>1, <1>3, <3>1 DEF Stands
    <3>3. QED
      BY <1>3, <3>1, <3>2 DEF Stands
  <2>6. AheadIn(active, wait)[r] = {}
    <3>1. \A x \in active : ~Before(x, r, wait)
      BY <2>5, ActiveWaits, BeforeIn
    <3>2. QED
      BY <3>1 DEF AheadIn
  <2>7. QED
    BY <1>1, <1>2, <2>2, <2>4, <2>6 DEF Ordered!Grant, AheadIn
<1>6. QED
  BY <1>4, <1>5

\* A canceled waiter has gone already; it only leaves the list now.
LEMMA MapCanceled ==
  ASSUME WaitInv, NEW r \in Request, ResumeCanceled(r)
  PROVE  UNCHANGED Ordered!vars
<1>1. /\ Resumed(r) /\ r \notin active /\ active' = active
      /\ wait' = Without(wait, r) /\ shared' = shared
      /\ pc' = [pc EXCEPT ![r] = "idle"]
  BY DEF ResumeCanceled
<1>2. InSeq(r, wait) /\ pc[r] = "waiting" /\ pc \in [Request -> {"idle", "waiting", "held"}]
  <2>1. ready[r] > 0 /\ ready[r] \in Int /\ Stands(r)
    BY <1>1 DEF Resumed, WaitInv, TypeOK
  <2>2. pc[r] = "waiting"
    BY <2>1 DEF Stands
  <2>3. QED
    BY <2>1, <2>2 DEF Stands, WaitInv, TypeOK
<1>3. Holders' = Holders
  BY <1>1, <1>2 DEF Holders
<1>4. AheadIn(active', wait') = AheadIn(active, wait)
  BY <1>1, <1>2, OrderStays
<1>5. QED
  BY <1>1, <1>3, <1>4, Unseen

\* Every step of the mutex is a step of FairMutex or changes nothing there.
LEMMA StepMaps == WaitInv /\ [Next]_vars => [Ordered!Next]_(Ordered!vars)
<1> SUFFICES ASSUME WaitInv, [Next]_vars PROVE [Ordered!Next]_(Ordered!vars)
  OBVIOUS
<1>1. ASSUME NEW r \in Request, NEW kind \in {-1, 1}, AcquireNow(r, kind)
      PROVE  [Ordered!Next]_(Ordered!vars)
  BY <1>1, MapAcquireNow
<1>2. ASSUME NEW r \in Request, NEW kind \in {-1, 1}, AcquireLater(r, kind)
      PROVE  [Ordered!Next]_(Ordered!vars)
  BY <1>2, MapAcquireLater DEF Ordered!Next
<1>3. ASSUME NEW r \in Request, Cancel(r) PROVE [Ordered!Next]_(Ordered!vars)
  <2>1. /\ r \in active /\ active' = active \ {r} /\ wait' = wait
        /\ pc' = pc /\ shared' = shared
    BY <1>3 DEF Cancel
  <2>2. Ordered!Leaves(r)
    BY <2>1, LeavesOrder
  <2>3. Holders' = Holders
    BY <2>1 DEF Holders
  <2>4. Ordered!Cancel(r)
    BY <2>1, <2>2, <2>3 DEF Ordered!Cancel
  <2>5. QED
    BY <2>4 DEF Ordered!Next
<1>4. ASSUME NEW r \in Request, Release(r) PROVE [Ordered!Next]_(Ordered!vars)
  <2>1. /\ pc[r] = "held" /\ active' = active /\ wait' = wait /\ shared' = shared
        /\ pc' = [pc EXCEPT ![r] = "idle"]
        /\ pc \in [Request -> {"idle", "waiting", "held"}]
    BY <1>4 DEF Release, WaitInv, TypeOK
  <2>2. Holders' = Holders \ {r} /\ r \in Holders
    BY <2>1 DEF Holders
  <2>3. Ordered!Release(r)
    BY <2>1, <2>2 DEF Ordered!Release
  <2>4. QED
    BY <2>3 DEF Ordered!Next
<1>5. ASSUME NEW r \in Request, ResumeCanceled(r) PROVE [Ordered!Next]_(Ordered!vars)
  BY <1>5, MapCanceled
<1>6. ASSUME NEW r \in Request, ResumeObtained(r) PROVE [Ordered!Next]_(Ordered!vars)
  BY <1>6, MapObtained DEF Ordered!Next
<1>7. ASSUME NEW r \in Request, ResumeRetries(r) PROVE [Ordered!Next]_(Ordered!vars)
  <2>1. active' = active /\ wait' = wait /\ shared' = shared /\ pc' = pc
    BY <1>7 DEF ResumeRetries
  <2>2. Holders' = Holders /\ AheadIn(active', wait') = AheadIn(active, wait)
    BY <2>1 DEF Holders
  <2>3. QED
    BY <2>1, <2>2, Unseen
<1>8. CASE UNCHANGED vars
  <2>1. active' = active /\ wait' = wait /\ shared' = shared /\ pc' = pc
    BY <1>8 DEF vars
  <2>2. Holders' = Holders /\ AheadIn(active', wait') = AheadIn(active, wait)
    BY <2>1 DEF Holders
  <2>3. QED
    BY <2>1, <2>2, Unseen
<1>9. QED
  BY <1>1, <1>2, <1>3, <1>4, <1>5, <1>6, <1>7, <1>8 DEF Next, Resume

\* The mutex serves its requests strictly in order of arrival, whatever is
\* canceled: it implements the safety part of FairMutex, for any finite number
\* of requests.
THEOREM MutexServesInOrder == Spec => Ordered!Safety
<1>1. Init => Ordered!Init
  <2> SUFFICES ASSUME Init PROVE Ordered!Init
    OBVIOUS
  <2>1. Holders = {}
    BY DEF Init, Holders
  <2>2. QED
    BY <2>1 DEF Init, Ordered!Init
<1>2. QED
  BY <1>1, InitOK, StepOK, StepMaps, PTL DEF Spec, Ordered!Safety

(***************************************************************************)
(* The loop of the tamer driver                                            *)
(***************************************************************************)

TimerRec == [e : Tamer!Task, when : Times]

\* Timers are in the order of their times.
InOrder(q) == \A i, j \in DOMAIN q : i <= j => q[i].when <= q[j].when

BlockTyped ==
  /\ queue \in Seq(Tamer!Task) /\ asap \in Seq(Tamer!Task) /\ preblock \in Seq(Tamer!Task)
  /\ blocked \subseteq Tamer!Task
  /\ due \in Seq(TimerRec)

LoopTyped ==
  /\ BlockTyped
  /\ running \in Tamer!Task \cup {Tamer!Nobody}

\* Closures run in the four phases for them only; outside those and the phases that
\* trigger events none is left over, and a decision to sleep stands until poll ends.
TurnInv ==
  /\ running # Tamer!Nobody => tpc \in Tamer!RunPhases
  /\ tpc \in {"timeout", "poll", "check", "out"} => queue = <<>>
  /\ tpc = "poll" =>
       /\ timeout = 0 \/ asap = <<>>
       /\ \A i \in DOMAIN due :
            IF timeout = Never THEN Tamer!TooFar(due[i].when)
            ELSE timeout <= due[i].when + Round

LoopInv == LoopTyped /\ InOrder(due) /\ TurnInv

LEMMA MultipleGrows ==
  ASSUME NEW p \in Nat, NEW a \in Nat, NEW b \in Nat, a <= b PROVE p * a <= p * b
<1>1. PICK c \in Nat : b = a + c
  <2>1. b - a \in Nat /\ b = a + (b - a)
    OBVIOUS
  <2>2. QED
    BY <2>1
<1>2. p * b = p * a + p * c /\ p * c \in Nat /\ p * a \in Nat
  BY <1>1
<1>3. QED
  BY <1>2

\* What is left until a timer, in milliseconds: no more than the code adds too much,
\* and negative only if it is too much for an int.
LEMMA BlockMsBounds ==
  ASSUME Tamer!LoopAssumption, NEW left \in Nat, NEW ms, ms = Tamer!BlockMs(left)
  PROVE  /\ ms \in Int
         /\ ms >= 0 => PerMs * ms <= left + Round /\ PerMs * ms \in Nat
         /\ ms < 0 => left + Round >= (IntRange \div 2) * PerMs
<1> DEFINE n == left + Round
           q == n \div PerMs
           m == q % IntRange
           half == IntRange \div 2
<1>1. /\ PerMs \in Nat \ {0} /\ Round \in Nat /\ IntRange \in Nat \ {0} /\ n \in Nat
  BY DEF Tamer!LoopAssumption
<1>2. half \in Nat /\ half <= IntRange
  BY <1>1
<1>3. q \in Nat /\ PerMs * q <= n
  <2>1. PerMs * (n \div PerMs) + (n % PerMs) = n /\ n % PerMs \in 0 .. PerMs - 1
        /\ n \div PerMs \in Int
    BY <1>1
  <2>2. n \div PerMs >= 0
    BY <1>1
  <2>3. QED
    BY <1>1, <2>1, <2>2
<1> HIDE DEF n, q
<1>4. m \in 0 .. IntRange - 1 /\ m <= q
  <2>1. IntRange * (q \div IntRange) + m = q /\ m \in 0 .. IntRange - 1
    BY <1>1, <1>3
  <2>2. q \div IntRange \in Nat
    BY <1>1, <1>3
  <2>3. IntRange * (q \div IntRange) \in Nat
    BY <1>1, <2>2
  <2>4. QED
    BY <1>3, <2>1, <2>3
<1>5. ms = IF m < half THEN m ELSE m - IntRange
  BY DEF Tamer!BlockMs, Tamer!AsInt, n, q
<1> HIDE DEF m, half
<1>6. CASE m < half
  <2>1. PerMs * m <= PerMs * q /\ PerMs * m \in Nat /\ PerMs * q \in Nat
    BY <1>1, <1>3, <1>4, MultipleGrows
  <2>2. PerMs * m <= n
    BY <1>1, <1>3, <2>1
  <2>3. ms = m /\ m \in Nat
    BY <1>4, <1>5, <1>6
  <2>4. QED
    BY <2>1, <2>2, <2>3 DEF n
<1>7. CASE ~(m < half)
  <2>1. ms = m - IntRange /\ ms < 0 /\ ms \in Int /\ half <= q
    BY <1>1, <1>2, <1>3, <1>4, <1>5, <1>7
  <2>2. PerMs * half <= PerMs * q /\ PerMs * half \in Nat /\ PerMs * q \in Nat
    BY <1>1, <1>2, <1>3, <2>1, MultipleGrows
  <2>3. half * PerMs = PerMs * half
    BY <1>1, <1>2
  <2>4. half * PerMs <= n
    BY <1>1, <1>3, <2>2, <2>3
  <2>5. QED
    BY <1>1, <2>1, <2>4 DEF n, half
<1>8. QED
  BY <1>6, <1>7

\* A timer is put behind those due at the same time or earlier: the order stays.
LEMMA Inserted ==
  ASSUME NEW R, NEW q \in Seq(R), InOrder(q), \A r \in R : r.when \in Nat, NEW x \in R,
         NEW n \in 0 .. Len(q),
         \A i \in 1 .. n : q[i].when <= x.when,
         \A i \in n + 1 .. Len(q) : q[i].when > x.when
  PROVE  /\ SubSeq(q, 1, n) \o <<x>> \o SubSeq(q, n + 1, Len(q)) \in Seq(R)
         /\ InOrder(SubSeq(q, 1, n) \o <<x>> \o SubSeq(q, n + 1, Len(q)))
<1> DEFINE a == SubSeq(q, 1, n)
           b == SubSeq(q, n + 1, Len(q))
           new == a \o <<x>> \o b
<1>1. Len(q) \in Nat /\ n \in Nat /\ n <= Len(q) /\ \A i \in 1 .. Len(q) : q[i] \in R
  OBVIOUS
<1>2. a \in Seq(R) /\ Len(a) = n /\ \A i \in 1 .. n : a[i] = q[i]
  <2>1. \A i \in 1 .. n : q[i] \in R
    BY <1>1
  <2>2. /\ SubSeq(q, 1, n) \in Seq(R)
        /\ Len(SubSeq(q, 1, n)) = IF 1 <= n THEN n - 1 + 1 ELSE 0
        /\ \A i \in 1 .. n - 1 + 1 : SubSeq(q, 1, n)[i] = q[1 + i - 1]
    BY <1>1, <2>1, SubSeqProperties
  <2>3. QED
    BY <1>1, <2>2
<1>3. b \in Seq(R) /\ Len(b) = Len(q) - n /\ \A i \in 1 .. Len(q) - n : b[i] = q[n + i]
  <2>1. \A i \in n + 1 .. Len(q) : q[i] \in R
    BY <1>1
  <2>2. /\ SubSeq(q, n + 1, Len(q)) \in Seq(R)
        /\ Len(SubSeq(q, n + 1, Len(q)))
             = IF n + 1 <= Len(q) THEN Len(q) - (n + 1) + 1 ELSE 0
        /\ \A i \in 1 .. Len(q) - (n + 1) + 1 :
             SubSeq(q, n + 1, Len(q))[i] = q[n + 1 + i - 1]
    BY <1>1, <2>1, SubSeqProperties
  <2>3. QED
    BY <1>1, <2>2
<1> HIDE DEF a, b
<1>4. /\ a \o <<x>> \in Seq(R) /\ Len(a \o <<x>>) = n + 1
      /\ \A i \in 1 .. n : (a \o <<x>>)[i] = q[i]
      /\ (a \o <<x>>)[n + 1] = x
  BY <1>1, <1>2
<1>5. new \in Seq(R) /\ Len(new) = Len(q) + 1
  BY <1>1, <1>3, <1>4
<1>6. /\ \A i \in 1 .. n : new[i] = q[i]
      /\ new[n + 1] = x
      /\ \A i \in n + 2 .. Len(q) + 1 : new[i] = q[i - 1]
  <2>1. \A i \in 1 .. Len(q) + 1 :
          new[i] = IF i <= n + 1 THEN (a \o <<x>>)[i] ELSE b[i - (n + 1)]
    BY <1>1, <1>3, <1>4
  <2>2. \A i \in n + 2 .. Len(q) + 1 : b[i - (n + 1)] = q[i - 1]
    <3> TAKE i \in n + 2 .. Len(q) + 1
    <3>1. i - (n + 1) \in 1 .. Len(q) - n /\ n + (i - (n + 1)) = i - 1
      BY <1>1
    <3>2. QED
      BY <1>3, <3>1
  <2> HIDE DEF new
  <2>3. \A i \in n + 2 .. Len(q) + 1 : new[i] = b[i - (n + 1)]
    BY <1>1, <2>1
  <2>4. \A i \in 1 .. n : new[i] = q[i]
    BY <1>1, <1>4, <2>1
  <2>5. new[n + 1] = x
    BY <1>1, <1>4, <2>1
  <2>6. QED
    BY <2>2, <2>3, <2>4, <2>5
<1> HIDE DEF new
<1>7. InOrder(new)
  <2> SUFFICES ASSUME NEW i \in 1 .. Len(q) + 1, NEW j \in 1 .. Len(q) + 1, i <= j
               PROVE  new[i].when <= new[j].when
    BY <1>5 DEF InOrder
  <2>0. x.when \in Nat /\ \A k \in 1 .. Len(q) : q[k].when \in Nat
    BY <1>1
  <2>1. CASE j <= n
    BY <1>1, <1>6, <2>1 DEF InOrder
  <2>2. CASE j = n + 1
    BY <1>1, <1>6, <2>0, <2>2
  <2>3. CASE j > n + 1
    <3>1. new[j] = q[j - 1] /\ j - 1 \in n + 1 .. Len(q) /\ j - 1 \in DOMAIN q
      BY <1>1, <1>6, <2>3
    <3>2. CASE i <= n
      <4>1. new[i] = q[i] /\ i \in DOMAIN q /\ i <= j - 1
        BY <1>1, <1>6, <3>2, <2>3
      <4>2. QED
        BY <3>1, <4>1 DEF InOrder
    <3>3. CASE i = n + 1
      BY <1>6, <2>0, <3>1, <3>3
    <3>4. CASE i > n + 1
      <4>1. new[i] = q[i - 1] /\ i - 1 \in DOMAIN q /\ i - 1 <= j - 1
        BY <1>1, <1>6, <3>4
      <4>2. QED
        BY <3>1, <4>1 DEF InOrder
    <3>5. QED
      BY <1>1, <3>2, <3>3, <3>4
  <2>4. QED
    BY <1>1, <2>1, <2>2, <2>3
<1>8. QED
  BY <1>5, <1>7 DEF new, a, b

\* The first timer leaves: the order stays.
LEMMA TailInOrder ==
  ASSUME NEW R, NEW q \in Seq(R), q # <<>>, InOrder(q)
  PROVE  Tail(q) \in Seq(R) /\ InOrder(Tail(q))
<1>1. /\ Tail(q) \in Seq(R) /\ Len(Tail(q)) = Len(q) - 1 /\ Len(q) \in Nat
      /\ \A i \in 1 .. Len(Tail(q)) : Tail(q)[i] = q[i + 1]
  BY HeadTailProperties
<1>2. \A i \in DOMAIN Tail(q) : i + 1 \in DOMAIN q /\ i \in Nat /\ Tail(q)[i] = q[i + 1]
  BY <1>1
<1>3. QED
  BY <1>1, <1>2 DEF InOrder

LEMMA LoopStart ==
  ASSUME Tamer!LoopAssumption, Tamer!Init PROVE LoopInv
<1>1. queue = <<>> /\ due = <<>> /\ asap = <<>> /\ preblock = <<>> /\ blocked = {}
      /\ running = Tamer!Nobody /\ tpc = "out"
  BY DEF Tamer!Init, Tamer!Closures!Init, Tamer!Timers!Init
<1>2. LoopTyped
  BY <1>1 DEF BlockTyped, LoopTyped
<1>3. InOrder(due) /\ TurnInv
  BY <1>1 DEF InOrder, TurnInv
<1>4. QED
  BY <1>2, <1>3 DEF LoopInv

\* A closure asks the driver for something and blocks.
LEMMA BlockOnKeeps ==
  ASSUME Tamer!LoopAssumption, LoopInv, NEW t \in Tamer!Task, Tamer!BlockOn(t)
  PROVE  BlockTyped' /\ InOrder(due') /\ queue' = queue
<1> USE DEF LoopInv
<1>1. queue' = queue /\ blocked' = blocked \cup {t}
  BY DEF Tamer!BlockOn, Tamer!Closures!Block
<1>2. asap' \in Seq(Tamer!Task) /\ preblock' \in Seq(Tamer!Task)
  <2>1. asap \in Seq(Tamer!Task) /\ preblock \in Seq(Tamer!Task)
    BY DEF BlockTyped, LoopTyped
  <2>2. Append(asap, t) \in Seq(Tamer!Task) /\ Append(preblock, t) \in Seq(Tamer!Task)
    BY <2>1
  <2>3. /\ asap' = asap \/ asap' = Append(asap, t)
        /\ preblock' = preblock \/ preblock' = Append(preblock, t)
    BY DEF Tamer!BlockOn
  <2>4. QED
    BY <2>1, <2>2, <2>3
<1>3. due' \in Seq(TimerRec) /\ InOrder(due')
  <2>1. CASE due' = due
    BY <2>1 DEF BlockTyped, LoopTyped, InOrder
  <2>2. CASE \E when \in Times : Tamer!Timers!At(t, when)
    <3>1. PICK when \in Times : Tamer!Timers!At(t, when)
      BY <2>2
    <3> DEFINE x == [e |-> t, when |-> when]
    <3>2. PICK n \in 0 .. Len(due) :
            /\ \A i \in 1 .. n : due[i].when <= when
            /\ \A i \in n + 1 .. Len(due) : due[i].when > when
            /\ due' = SubSeq(due, 1, n) \o <<x>> \o SubSeq(due, n + 1, Len(due))
      BY <3>1 DEF Tamer!Timers!At
    <3>3. x \in TimerRec /\ x.when = when /\ \A r \in TimerRec : r.when \in Nat
      BY DEF TimerRec, Tamer!LoopAssumption
    <3>4. due \in Seq(TimerRec)
      BY DEF BlockTyped, LoopTyped
    <3> HIDE DEF x
    <3>5. QED
      BY <3>2, <3>3, <3>4, Inserted
  <2>3. QED
    BY <2>1, <2>2 DEF Tamer!BlockOn
<1>4. QED
  BY <1>1, <1>2, <1>3 DEF BlockTyped, LoopTyped

LEMMA UserStepKeeps ==
  ASSUME Tamer!LoopAssumption, LoopInv, NEW t \in Tamer!Task,
         Tamer!Start(t) \/ Tamer!WakeParked(t) \/ Tamer!Ready(t)
  PROVE  LoopInv'
<1> USE DEF LoopInv, Tamer!loopVars
<1>1. CASE Tamer!Start(t)
  <2>1. BlockTyped' /\ InOrder(due') /\ queue' = queue
    BY <1>1, BlockOnKeeps DEF Tamer!Start
  <2>2. tpc = "out" /\ tpc' = tpc /\ running' = running
    BY <1>1 DEF Tamer!Start
  <2>3. TurnInv'
    BY <2>1, <2>2 DEF TurnInv
  <2>4. LoopTyped'
    BY <2>1, <2>2 DEF LoopTyped
  <2>5. QED
    BY <2>1, <2>3, <2>4
<1>2. CASE Tamer!WakeParked(t)
  <2>1. /\ blocked' = blocked \ {t} /\ queue' = Append(queue, t)
        /\ UNCHANGED <<due, running, asap, preblock, tpc>> /\ running # Tamer!Nobody
    BY <1>2 DEF Tamer!WakeParked, Tamer!Closures!Unblock, Tamer!Nobody
  <2>2. LoopTyped' /\ InOrder(due')
    BY <2>1 DEF BlockTyped, LoopTyped, InOrder
  <2>3. TurnInv'
    BY <2>1 DEF TurnInv, Tamer!RunPhases
  <2>4. QED
    BY <2>2, <2>3
<1>3. CASE Tamer!Ready(t)
  <2>1. UNCHANGED <<blocked, queue, due, running, asap, preblock, timeout, recent, tpc>>
    BY <1>3 DEF Tamer!Ready
  <2>2. LoopTyped' /\ InOrder(due') /\ TurnInv'
    BY <2>1 DEF BlockTyped, LoopTyped, InOrder, TurnInv, Tamer!TooFar
  <2>3. QED
    BY <2>2
<1>4. QED
  BY <1>1, <1>2, <1>3

\* Closures run, one after the other.
LEMMA RunKeeps ==
  ASSUME Tamer!LoopAssumption, LoopInv,
         Tamer!Resume \/ Tamer!Yield \/ Tamer!BreakLoop \/ Tamer!BeginRun \/ Tamer!EndRun
  PROVE  LoopInv'
<1> USE DEF LoopInv, Tamer!loopVars, Tamer!waits, Tamer!Goto, Tamer!Nobody
<1>1. CASE Tamer!Resume
  <2>1. /\ queue # <<>> /\ queue' = Tail(queue) /\ tpc \in Tamer!RunPhases
        /\ UNCHANGED <<blocked, due, asap, preblock, tpc>>
        /\ running' = Head(queue)
    BY <1>1 DEF Tamer!Resume, Tamer!Closures!RunNext
  <2>2. LoopTyped' /\ InOrder(due')
    BY <2>1 DEF BlockTyped, LoopTyped, InOrder
  <2>3. TurnInv'
    BY <2>1 DEF TurnInv, Tamer!RunPhases
  <2>4. QED
    BY <2>2, <2>3
<1>2. CASE Tamer!Yield
  <2>1. running # 0 /\ tpc \in Tamer!RunPhases /\ tpc' = tpc /\ running' = 0
    BY <1>2 DEF Tamer!Yield, TurnInv
  <2>2. running \in Tamer!Task
    BY <2>1 DEF LoopTyped
  <2>3. BlockTyped' /\ InOrder(due') /\ queue' = queue
    BY <1>2, <2>2, BlockOnKeeps DEF Tamer!Yield
  <2>4. LoopTyped' /\ TurnInv'
    BY <2>1, <2>3 DEF LoopTyped, TurnInv, Tamer!RunPhases
  <2>5. QED
    BY <2>3, <2>4
<1>3. CASE Tamer!BreakLoop
  <2>1. UNCHANGED <<blocked, queue, due, running, asap, preblock, timeout, recent, tpc>>
    BY <1>3 DEF Tamer!BreakLoop
  <2>2. QED
    BY <2>1 DEF BlockTyped, LoopTyped, InOrder, TurnInv, Tamer!TooFar
<1>4. CASE Tamer!BeginRun
  <2>1. /\ UNCHANGED <<blocked, queue, due, running, asap, preblock, timeout>>
        /\ tpc' \in Tamer!RunPhases
    BY <1>4 DEF Tamer!BeginRun, Tamer!RunPhases
  <2>2. QED
    BY <2>1 DEF BlockTyped, LoopTyped, InOrder, TurnInv, Tamer!RunPhases
<1>5. CASE Tamer!EndRun
  <2>1. /\ UNCHANGED <<blocked, queue, due, running, asap, preblock, timeout>>
        /\ running = 0 /\ queue = <<>> /\ tpc' \in {"timeout", "timers", "asap", "check"}
    BY <1>5 DEF Tamer!EndRun
  <2>2. QED
    BY <2>1 DEF BlockTyped, LoopTyped, InOrder, TurnInv, Tamer!RunPhases
<1>6. QED
  BY <1>1, <1>2, <1>3, <1>4, <1>5

\* The decision how long to sleep, and the sleep.
LEMMA DecisionKeeps ==
  ASSUME Tamer!LoopAssumption, LoopInv, clock \in Nat,
         Tamer!PollNow \/ Tamer!PollLater \/ Tamer!ReturnIdle
           \/ Tamer!PollDone \/ Tamer!PollInterrupted
  PROVE  LoopInv'
<1> USE DEF LoopInv, Tamer!loopVars, Tamer!waits, Tamer!Goto
<1>1. UNCHANGED <<blocked, queue, due, running, asap, preblock>>
  BY DEF Tamer!PollNow, Tamer!PollLater, Tamer!ReturnIdle, Tamer!PollDone,
     Tamer!PollInterrupted
<1>2. LoopTyped' /\ InOrder(due')
  BY <1>1 DEF BlockTyped, LoopTyped, InOrder
<1>3. \A i \in DOMAIN due : due[i].when \in Nat /\ due[i].when >= 0
  <2> SUFFICES ASSUME NEW i \in DOMAIN due PROVE due[i].when \in Nat /\ due[i].when >= 0
    OBVIOUS
  <2>1. due[i] \in TimerRec
    BY DEF LoopTyped, BlockTyped
  <2>2. due[i].when \in Times
    BY <2>1 DEF TimerRec
  <2>3. Times \subseteq Nat
    BY DEF Tamer!LoopAssumption
  <2>4. due[i].when \in Nat
    BY <2>2, <2>3, Zenon
  <2>5. \A n \in Nat : n >= 0
    OBVIOUS
  <2>6. QED
    BY <2>4, <2>5, Zenon
<1>4. CASE Tamer!PollNow
  <2>1. /\ tpc = "timeout" /\ tpc' = "poll" /\ timeout' = 0
        /\ Never # 0 /\ Round \in Nat
    BY <1>4 DEF Tamer!PollNow, Tamer!LoopAssumption
  <2>2. TurnInv'
    BY <1>1, <1>3, <2>1 DEF TurnInv, Tamer!RunPhases
  <2>3. QED
    BY <1>2, <2>2
<1>5. CASE Tamer!PollLater
  <2>1. /\ tpc = "timeout" /\ tpc' = "poll" /\ asap = <<>>
        /\ timeout' = Tamer!Timeout
        /\ ~Tamer!DueBy(clock)
        /\ due # <<>> => recent' = clock
    BY <1>5 DEF Tamer!PollLater
  <2>2. ASSUME due # <<>>
        PROVE  \A i \in DOMAIN due :
                 IF timeout' = Never THEN Tamer!TooFar(due[i].when)'
                 ELSE timeout' <= due[i].when + Round
    <3> DEFINE first == due[1].when
               left == first - clock
               ms == Tamer!BlockMs(left)
    <3>1. 1 \in DOMAIN due /\ Head(due) = due[1] /\ \A i \in DOMAIN due : 1 <= i
      BY <2>2 DEF LoopTyped, BlockTyped
    <3>2. first \in Nat /\ \A i \in DOMAIN due : due[i].when \in Nat /\ first <= due[i].when
      BY <1>3, <3>1 DEF InOrder
    <3>3. left \in Nat
      BY <2>1, <2>2, <3>1, <3>2 DEF Tamer!DueBy
    <3>4. timeout' = IF ms < 0 THEN Never ELSE clock + PerMs * ms
      BY <2>1, <2>2, <3>1 DEF Tamer!Timeout
    <3>5. /\ ms \in Int
          /\ ms >= 0 => PerMs * ms <= left + Round /\ PerMs * ms \in Nat
          /\ ms < 0 => left + Round >= (IntRange \div 2) * PerMs
      BY <3>3, BlockMsBounds
    <3>6. Never \notin Nat /\ Round \in Nat /\ (IntRange \div 2) * PerMs \in Int
      BY DEF Tamer!LoopAssumption
    <3>7. recent' = clock /\ due' = due
      BY <1>1, <2>1, <2>2
    <3> HIDE DEF ms
    <3>8. CASE ms < 0
      <4>1. timeout' = Never
        BY <3>4, <3>8
      <4>2. \A i \in DOMAIN due : Tamer!TooFar(due[i].when)'
        <5> SUFFICES ASSUME NEW i \in DOMAIN due PROVE Tamer!TooFar(due[i].when)'
          OBVIOUS
        <5>1. due[i].when - clock + Round >= (IntRange \div 2) * PerMs
          BY <3>2, <3>5, <3>6, <3>8
        <5>2. QED
          BY <3>7, <5>1 DEF Tamer!TooFar
      <4>3. QED
        BY <4>1, <4>2
    <3>9. CASE ms >= 0
      <4>1. timeout' = clock + PerMs * ms /\ PerMs * ms \in Nat /\ PerMs * ms <= left + Round
        BY <3>4, <3>5, <3>9
      <4>2. timeout' \in Nat /\ timeout' <= first + Round
        BY <3>2, <3>6, <4>1
      <4>3. \A i \in DOMAIN due : timeout' <= due[i].when + Round
        BY <3>2, <3>6, <4>2
      <4>4. QED
        BY <3>6, <4>2, <4>3
    <3>10. QED
      BY <3>5, <3>8, <3>9
  <2>3. TurnInv'
    <3>1. CASE due = <<>>
      BY <1>1, <2>1, <3>1 DEF TurnInv, Tamer!RunPhases
    <3>2. CASE due # <<>>
      BY <1>1, <2>1, <2>2, <3>2 DEF TurnInv, Tamer!RunPhases
    <3>3. QED
      BY <3>1, <3>2
  <2>4. QED
    BY <1>2, <2>3
<1>6. CASE Tamer!ReturnIdle
  <2>1. tpc = "timeout" /\ tpc' = "out"
    BY <1>6 DEF Tamer!ReturnIdle
  <2>2. QED
    BY <1>1, <1>2, <2>1 DEF TurnInv, Tamer!RunPhases
<1>7. CASE Tamer!PollDone \/ Tamer!PollInterrupted
  <2>1. tpc = "poll" /\ tpc' = "fds"
    BY <1>7 DEF Tamer!PollDone, Tamer!PollInterrupted
  <2>2. QED
    BY <1>1, <1>2, <2>1 DEF TurnInv, Tamer!RunPhases
<1>8. QED
  BY <1>4, <1>5, <1>6, <1>7

\* Events are triggered, and unblock closures.
LEMMA TriggersKeep ==
  ASSUME Tamer!LoopAssumption, LoopInv,
         Tamer!TriggerPreblock \/ Tamer!TriggerTimer \/ Tamer!TriggerAsap
           \/ \E t \in Tamer!Task : Tamer!TriggerFd(t)
  PROVE  LoopInv'
<1> USE DEF LoopInv, Tamer!loopVars, Tamer!waits
<1>1. /\ tpc' = tpc /\ running' = running /\ timeout' = timeout
      /\ tpc \in {"preblock", "fds", "timers", "asap"}
  BY DEF Tamer!TriggerPreblock, Tamer!TriggerTimer, Tamer!TriggerAsap, Tamer!TriggerFd
<1>2. \E t \in Tamer!Task : Tamer!Closures!Unblock(t)
  <2>1. CASE Tamer!TriggerPreblock
    BY <2>1 DEF Tamer!TriggerPreblock, LoopTyped, BlockTyped
  <2>2. CASE Tamer!TriggerAsap
    BY <2>2 DEF Tamer!TriggerAsap, LoopTyped, BlockTyped
  <2>3. CASE Tamer!TriggerTimer
    <3>1. Tamer!Closures!Unblock(Head(due).e) /\ due # <<>>
      BY <2>3 DEF Tamer!TriggerTimer, Tamer!DueBy
    <3>2. Head(due) \in TimerRec
      BY <3>1 DEF LoopTyped, BlockTyped
    <3>3. QED
      BY <3>1, <3>2 DEF TimerRec
  <2>4. CASE \E t \in Tamer!Task : Tamer!TriggerFd(t)
    BY <2>4 DEF Tamer!TriggerFd
  <2>5. QED
    BY <2>1, <2>2, <2>3, <2>4
<1>3. queue' \in Seq(Tamer!Task) /\ blocked' \subseteq Tamer!Task
  BY <1>2 DEF Tamer!Closures!Unblock, LoopTyped, BlockTyped
<1>4. asap' \in Seq(Tamer!Task) /\ preblock' \in Seq(Tamer!Task)
  <2>1. asap \in Seq(Tamer!Task) /\ preblock \in Seq(Tamer!Task)
    BY DEF LoopTyped, BlockTyped
  <2>2. /\ asap' = asap \/ (asap # <<>> /\ asap' = Tail(asap))
        /\ preblock' = preblock \/ (preblock # <<>> /\ preblock' = Tail(preblock))
    BY DEF Tamer!TriggerPreblock, Tamer!TriggerTimer, Tamer!TriggerAsap, Tamer!TriggerFd
  <2>3. QED
    BY <2>1, <2>2
<1>5. due' \in Seq(TimerRec) /\ InOrder(due')
  <2>1. due \in Seq(TimerRec)
    BY DEF LoopTyped, BlockTyped
  <2>2. due' = due \/ (due # <<>> /\ due' = Tail(due))
    BY DEF Tamer!TriggerPreblock, Tamer!TriggerTimer, Tamer!TriggerAsap, Tamer!TriggerFd,
       Tamer!Timers!Serve
  <2>3. QED
    BY <2>1, <2>2, TailInOrder
<1>6. LoopTyped'
  BY <1>1, <1>3, <1>4, <1>5 DEF LoopTyped, BlockTyped
<1>7. TurnInv'
  BY <1>1 DEF TurnInv, Tamer!RunPhases
<1>8. QED
  BY <1>5, <1>6, <1>7

LEMMA TurnKeeps ==
  ASSUME Tamer!LoopAssumption, LoopInv,
         Tamer!Tick \/ Tamer!Check \/ \E forever \in BOOLEAN : Tamer!Enter(forever)
  PROVE  LoopInv'
<1> USE DEF LoopInv, Tamer!loopVars, Tamer!waits, Tamer!Goto
<1>1. UNCHANGED <<blocked, queue, due, running, asap, preblock, timeout, recent>>
  BY DEF Tamer!Tick, Tamer!Check, Tamer!Enter, Tamer!Timers!Tick
<1>2. LoopTyped' /\ InOrder(due')
  BY <1>1 DEF BlockTyped, LoopTyped, InOrder
<1>3. \/ tpc' = tpc
      \/ tpc = "check" /\ tpc' \in {"preblock", "out"}
      \/ tpc = "out" /\ tpc' = "preblock"
  BY DEF Tamer!Tick, Tamer!Check, Tamer!Enter
<1>4. TurnInv'
  BY <1>1, <1>3 DEF TurnInv, Tamer!RunPhases, Tamer!TooFar
<1>5. QED
  BY <1>2, <1>4

ClockTyped == clock \in Nat

LEMMA ClockKeeps ==
  ASSUME clock \in Nat, [Tamer!Next]_(Tamer!vars) PROVE clock' \in Nat
<1>1. CASE Tamer!Tick
  BY <1>1 DEF Tamer!Tick, Tamer!Timers!Tick
<1>2. CASE UNCHANGED Tamer!vars
  BY <1>2 DEF Tamer!vars
<1>3. CASE \E t \in Tamer!Task : Tamer!Start(t) \/ Tamer!WakeParked(t) \/ Tamer!Ready(t)
  BY <1>3 DEF Tamer!Start, Tamer!WakeParked, Tamer!Ready, Tamer!BlockOn, Tamer!Timers!At
<1>4. CASE Tamer!Resume \/ Tamer!Yield \/ Tamer!BreakLoop \/ Tamer!BeginRun \/ Tamer!EndRun
  BY <1>4 DEF Tamer!Resume, Tamer!Yield, Tamer!BreakLoop, Tamer!BeginRun, Tamer!EndRun,
     Tamer!BlockOn, Tamer!Timers!At
<1>5. CASE Tamer!PollNow \/ Tamer!PollLater \/ Tamer!ReturnIdle
             \/ Tamer!PollDone \/ Tamer!PollInterrupted
  BY <1>5 DEF Tamer!PollNow, Tamer!PollLater, Tamer!ReturnIdle, Tamer!PollDone,
     Tamer!PollInterrupted
<1>6. CASE Tamer!TriggerPreblock \/ Tamer!TriggerTimer \/ Tamer!TriggerAsap
             \/ \E t \in Tamer!Task : Tamer!TriggerFd(t)
  BY <1>6 DEF Tamer!TriggerPreblock, Tamer!TriggerTimer, Tamer!TriggerAsap,
     Tamer!TriggerFd, Tamer!Timers!Serve
<1>7. CASE Tamer!Check \/ \E forever \in BOOLEAN : Tamer!Enter(forever)
  BY <1>7 DEF Tamer!Check, Tamer!Enter
<1>8. QED
  BY <1>1, <1>2, <1>3, <1>4, <1>5, <1>6, <1>7 DEF Tamer!Next, Tamer!Loop

\* The invariant of the tamer driver's loop, for any number of closures and any
\* times.
THEOREM LoopInductive ==
  ASSUME Tamer!LoopAssumption PROVE Tamer!Spec => []LoopInv
<1>1. Tamer!Init => LoopInv /\ ClockTyped
  <2>1. Tamer!Init => clock = 0
    BY DEF Tamer!Init, Tamer!Timers!Init
  <2>2. QED
    BY <2>1, LoopStart DEF ClockTyped
<1>2. LoopInv /\ ClockTyped /\ [Tamer!Next]_(Tamer!vars) => LoopInv' /\ ClockTyped'
  <2> SUFFICES ASSUME LoopInv, clock \in Nat, [Tamer!Next]_(Tamer!vars) PROVE LoopInv'
    BY ClockKeeps DEF ClockTyped
  <2>1. CASE UNCHANGED Tamer!vars
    BY <2>1 DEF Tamer!vars, Tamer!waits, Tamer!loopVars, LoopInv, LoopTyped, BlockTyped,
       InOrder, TurnInv, Tamer!TooFar
  <2>2. CASE \E t \in Tamer!Task : Tamer!Start(t) \/ Tamer!WakeParked(t) \/ Tamer!Ready(t)
    BY <2>2, UserStepKeeps
  <2>3. CASE Tamer!Resume \/ Tamer!Yield \/ Tamer!BreakLoop \/ Tamer!BeginRun \/ Tamer!EndRun
    BY <2>3, RunKeeps
  <2>4. CASE Tamer!PollNow \/ Tamer!PollLater \/ Tamer!ReturnIdle
               \/ Tamer!PollDone \/ Tamer!PollInterrupted
    BY <2>4, DecisionKeeps
  <2>5. CASE Tamer!TriggerPreblock \/ Tamer!TriggerTimer \/ Tamer!TriggerAsap
               \/ \E t \in Tamer!Task : Tamer!TriggerFd(t)
    BY <2>5, TriggersKeep
  <2>6. CASE Tamer!Tick \/ Tamer!Check \/ \E forever \in BOOLEAN : Tamer!Enter(forever)
    BY <2>6, TurnKeeps
  <2>7. QED
    BY <2>1, <2>2, <2>3, <2>4, <2>5, <2>6 DEF Tamer!Next, Tamer!Loop
<1>3. QED
  BY <1>1, <1>2, PTL DEF Tamer!Spec

\* For any number of closures, timers and descriptors, the loop sleeps only when no
\* closure can run and no asap event is left; beyond the first timer only for what it
\* adds in rounding to milliseconds, unless no int holds as many of them as are left;
\* and it returns with no closure left that could run.
THEOREM LoopSleepsRight ==
  ASSUME Tamer!LoopAssumption PROVE Tamer!Spec => []NoOversleep
<1>1. LoopInv => NoOversleep
  BY DEF LoopInv, TurnInv, NoOversleep, Tamer!NoOversleep, Tamer!NothingLeftToRun
<1>2. QED
  BY <1>1, LoopInductive, PTL
================================================================================
