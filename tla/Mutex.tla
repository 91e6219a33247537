-------------------------------- MODULE Mutex --------------------------------
(***************************************************************************)
(* tamer::mutex (tamer/lock.hh, tamer/lock.tcc).  Each waiting request is  *)
(* a suspended call of the tamed function acquire with a rendezvous r of   *)
(* its own.  Two events are made on r: the at_trigger of done, which fires *)
(* when the caller cancels, and w.e, which wake() triggers.                *)
(***************************************************************************)
EXTENDS Integers, Sequences, FiniteSets

CONSTANTS
  Request,    \* concurrent calls of acquire and acquire_shared
  Immediate   \* shared requests whose done event runs code that releases at once
              \* (after an exclusive one the next waiter would not be woken)

ASSUME RequestAssumption == IsFiniteSet(Request) /\ Immediate \subseteq Request

VARIABLES
  locked,   \* locked_: -1 exclusive, otherwise the number of shared holders
  wait,     \* wait_: the list of struct wait
  armed,    \* requests whose w.e is active
  active,   \* waiting requests whose done event is active
  ready,    \* events of r that have triggered and have not been joined
  runq,     \* closures of acquire that the driver will resume, in order
  shared,   \* the argument of acquire: -1 or 1
  pc        \* "idle", "waiting" or "held"

vars == <<locked, wait, armed, active, ready, runq, shared, pc>>

Init ==
  /\ locked = 0
  /\ wait = <<>>
  /\ armed = {}
  /\ active = {}
  /\ ready = [r \in Request |-> 0]
  /\ runq = <<>>
  /\ shared = [r \in Request |-> 1]
  /\ pc = [r \in Request |-> "idle"]

InSeq(r, q) == \E i \in DOMAIN q : q[i] = r

\* The list q after r has left it.
Without(q, r) ==
  LET at == CHOOSE i \in DOMAIN q : q[i] = r
  IN [i \in 1 .. Len(q) - 1 |-> IF i < at THEN q[i] ELSE q[i + 1]]

BugFreeIgnoresReaders(lock, kind) == lock # -1

\* The test of acquire: may a request of this kind have the lock now?
Free(lock, kind) == IF kind > 0 THEN lock # -1 ELSE lock = 0

\* An event of request r's rendezvous triggers: its closure is unblocked, once.
Unblock(q, r) == IF InSeq(r, q) THEN q ELSE Append(q, r)

\* wake(): trigger w.e of the first waiter, if that event is active.
Wake(list, set, rdy, q) ==
  IF list # <<>> /\ Head(list) \in set
  THEN /\ armed' = set \ {Head(list)}
       /\ ready' = [rdy EXCEPT ![Head(list)] = @ + 1]
       /\ runq' = Unblock(q, Head(list))
  ELSE /\ armed' = set
       /\ ready' = rdy
       /\ runq' = q

BugBarging(r, kind) ==
  /\ pc[r] = "idle"
  /\ Free(locked, kind)
  /\ shared' = [shared EXCEPT ![r] = kind]
  /\ locked' = locked + kind
  /\ pc' = [pc EXCEPT ![r] = "held"]
  /\ UNCHANGED <<wait, armed, active, ready, runq>>

\* acquire: at once if nobody waits and the lock is free, otherwise queue up.
\* The code of an immediate done releases within done.trigger(); nobody waits,
\* so that its wake() has nothing to do.
AcquireNow(r, kind) ==
  /\ pc[r] = "idle"
  /\ r \in Immediate => kind = 1
  /\ wait = <<>>
  /\ Free(locked, kind)
  /\ shared' = [shared EXCEPT ![r] = kind]
  /\ IF r \in Immediate THEN UNCHANGED <<locked, pc>>
     ELSE /\ locked' = locked + kind
          /\ pc' = [pc EXCEPT ![r] = "held"]
  /\ UNCHANGED <<wait, armed, active, ready, runq>>

AcquireLater(r, kind) ==
  /\ pc[r] = "idle"
  /\ r \in Immediate => kind = 1
  /\ ~(wait = <<>> /\ Free(locked, kind))
  /\ shared' = [shared EXCEPT ![r] = kind]
  /\ pc' = [pc EXCEPT ![r] = "waiting"]
  /\ wait' = Append(wait, r)
  /\ armed' = armed \cup {r}
  /\ active' = active \cup {r}
  /\ UNCHANGED <<locked, ready, runq>>

\* The caller triggers its done event while it waits.
Cancel(r) ==
  /\ pc[r] = "waiting"
  /\ r \in active
  /\ active' = active \ {r}
  /\ ready' = [ready EXCEPT ![r] = @ + 1]
  /\ runq' = Unblock(runq, r)
  /\ UNCHANGED <<locked, wait, armed, shared, pc>>

BugReleaseWakesNobody(r) ==
  /\ pc[r] = "held"
  /\ locked' = locked - shared[r]
  /\ pc' = [pc EXCEPT ![r] = "idle"]
  /\ UNCHANGED <<wait, armed, active, ready, runq, shared>>

\* release and release_shared
Release(r) ==
  /\ pc[r] = "held"
  /\ locked' = locked - shared[r]
  /\ pc' = [pc EXCEPT ![r] = "idle"]
  /\ Wake(wait, armed, ready, runq)
  /\ UNCHANGED <<wait, active, shared>>

\* The loop of acquire goes on after twait(r).
Resumed(r) == runq # <<>> /\ Head(runq) = r /\ ready[r] > 0

BugCancelWakesNobody(r) ==
  /\ Resumed(r)
  /\ r \notin active
  /\ wait' = Without(wait, r)
  /\ pc' = [pc EXCEPT ![r] = "idle"]
  /\ armed' = armed \ {r}
  /\ ready' = [ready EXCEPT ![r] = 0]
  /\ runq' = Tail(runq)
  /\ UNCHANGED <<locked, active, shared>>

\* done is empty: leave the list.  A canceled request always counts as shared.
ResumeCanceled(r) ==
  /\ Resumed(r)
  /\ r \notin active
  /\ wait' = Without(wait, r)
  /\ pc' = [pc EXCEPT ![r] = "idle"]
  /\ Wake(wait', armed \ {r}, [ready EXCEPT ![r] = 0], Tail(runq))
  /\ UNCHANGED <<locked, active, shared>>

\* The lock is obtained: done is triggered, r cleared, w leaves the list, and a
\* shared request wakes the next.  When done releases at once, the wake() of
\* that release still finds w itself in front.
ResumeObtained(r) ==
  /\ Resumed(r)
  /\ r \in active
  /\ Free(locked, shared[r])
  /\ active' = active \ {r}
  /\ wait' = Without(wait, r)
  /\ IF r \in Immediate
     THEN /\ UNCHANGED locked
          /\ pc' = [pc EXCEPT ![r] = "idle"]
     ELSE /\ locked' = locked + shared[r]
          /\ pc' = [pc EXCEPT ![r] = "held"]
  /\ LET cleared == [ready EXCEPT ![r] = 0] IN
       IF shared[r] > 0 THEN Wake(wait', armed, cleared, Tail(runq))
       ELSE /\ ready' = cleared
            /\ runq' = Tail(runq)
            /\ UNCHANGED armed
  /\ UNCHANGED shared

\* Not yet: w.e is made anew and the closure waits again.
ResumeRetries(r) ==
  /\ Resumed(r)
  /\ r \in active
  /\ ~Free(locked, shared[r])
  /\ armed' = armed \cup {r}
  /\ ready' = [ready EXCEPT ![r] = @ - 1]
  /\ runq' = IF ready[r] = 1 THEN Tail(runq) ELSE runq
  /\ UNCHANGED <<locked, wait, active, shared, pc>>

Resume == \E r \in Request : ResumeCanceled(r) \/ ResumeObtained(r) \/ ResumeRetries(r)

Next ==
  \/ Resume
  \/ \E r \in Request, kind \in {-1, 1} : AcquireNow(r, kind) \/ AcquireLater(r, kind)
  \/ \E r \in Request : Cancel(r) \/ Release(r)

\* The driver resumes unblocked closures; whoever holds the lock releases it.
Spec     == Init /\ [][Next]_vars
FairSpec == Spec /\ WF_vars(Resume)
LiveSpec == FairSpec /\ \A r \in Request : WF_vars(Release(r))

(* Properties *)

\* Every variable has its type: no rendezvous has more than two events to join.
TypeOK ==
  /\ locked \in Int
  /\ wait \in Seq(Request)
  /\ armed \subseteq Request
  /\ active \subseteq Request
  /\ ready \in [Request -> 0 .. 2]
  /\ runq \in Seq(Request)
  /\ shared \in [Request -> {-1, 1}]
  /\ pc \in [Request -> {"idle", "waiting", "held"}]

Holders == {r \in Request : pc[r] = "held"}

\* The lock word counts the holders, and an exclusive holder is alone; release
\* and release_shared therefore never fail their assertions.
Exclusion ==
  \/ locked = -1 /\ \E r \in Request : Holders = {r} /\ shared[r] = -1
  \/ locked = Cardinality(Holders) /\ \A r \in Holders : shared[r] = 1

\* No lost wake-up: if the lock is free for the first waiter, the closure of a
\* waiter is on its way to find out.
FirstIsWoken ==
  wait # <<>> /\ Free(locked, shared[Head(wait)]) => InSeq(Head(wait), runq)

\* Request a comes before request b in the list q.
Before(a, b, q) == \E i, j \in DOMAIN q : i < j /\ q[i] = a /\ q[j] = b

\* The mutex serves its requests in order of arrival.
Ordered == INSTANCE FairMutex WITH
  holders <- Holders,
  waiting <- active,
  ahead   <- [r \in Request |-> {q \in active : r \in active /\ Before(q, r, wait)}],
  mode    <- shared
ImplementsFairMutex == Ordered!Spec

\* A request that is not canceled gets the lock, if all holders release it.
EveryoneServed ==
  \A r \in Request : (pc[r] = "waiting") ~> (pc[r] # "waiting")
===============================================================================
