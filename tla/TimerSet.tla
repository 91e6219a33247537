------------------------------- MODULE TimerSet -------------------------------
(***************************************************************************)
(* driver_timerset (tamer/dinternal.hh, tamer/dinternal.cc): the heap of   *)
(* timers of the tamer driver.  Canceling a timer only empties its event;  *)
(* the record stays until it reaches the front or a random probe hits it.  *)
(* pop_trigger triggers the event in front before it takes the record out, *)
(* so that the user code of a functional rendezvous sees the heap with a   *)
(* record that is being triggered.  Positions count from 0, as in ts_.     *)
(* Definitions named Bug... are seeded faults that the properties notice.  *)
(***************************************************************************)
EXTENDS Integers, Sequences, FiniteSets

CONSTANTS
  Event,      \* timer events; an event that has left the heap may come again
  Background, \* those asked for with bg, which do not keep the loop running
  Arity,      \* 4 in the code
  CullAt,     \* 32 in the code: size from which push probes for empty events
  HalfRange,  \* 2^31 in the code: order numbers wrap at twice this number
  MaxTime,    \* bound: times are 0 .. MaxTime
  HookPush,   \* may the code that a trigger calls set timers
  None

\* What the constants must satisfy; each instance assumes it.
TimerAssumption ==
  /\ Arity \in Nat \ {0, 1}
  /\ CullAt \in Nat \ {0}
  /\ HalfRange \in Nat \ {0, 1}
  /\ MaxTime \in Nat
  /\ HookPush \in BOOLEAN
  /\ Background \subseteq Event
  /\ None \notin Event

VARIABLES
  ts,       \* ts_[0 .. nts_ - 1]: [when, order, se]
  nfg,      \* nfg_
  order,    \* order_
  active,   \* events that have not triggered
  held,     \* events the heap holds a reference to
  popping,  \* the driver loop is popping timers that are due
  firing,   \* the event pop_trigger is triggering
  probing,  \* push is looking for empty events
  clock     \* recent()

vars == <<ts, nfg, order, active, held, popping, firing, probing, clock>>

idleVars == <<ts, nfg, order, active, held, firing, probing, clock>>

Orders == 0 .. 2 * HalfRange - 1
Trec   == [when : 0 .. MaxTime, order : Orders, se : Event]

Size(h)   == Cardinality(DOMAIN h)
Parent(i) == (i - (IF Arity = 2 THEN 1 ELSE 0)) \div Arity
FirstChild(i) == i * Arity + (IF Arity = 2 \/ i = 0 THEN 1 ELSE 0)
LastChild(h, i) ==
  LET p == i * Arity + Arity + (IF Arity = 2 THEN 1 ELSE 0) IN
  IF p < Size(h) THEN p ELSE Size(h)
Children(h, i) == FirstChild(i) .. LastChild(h, i) - 1

BugUnsignedOrder(x, y) == x.when < y.when \/ (x.when = y.when /\ x.order < y.order)

\* trec::operator<, with the signed difference of two unsigned numbers
Less(x, y) ==
  \/ x.when < y.when
  \/ x.when = y.when /\ (x.order - y.order) % (2 * HalfRange) >= HalfRange

\* The record at pos takes the place of its parent as long as it is less: where
\* it passes, from each position on.
Rises(h, pos) ==
  LET path[p \in DOMAIN h] ==
        IF p = 0 \/ ~Less(h[pos], h[Parent(p)]) THEN {p} ELSE {p} \cup path[Parent(p)]
  IN path

SiftUp(h, pos) ==
  LET way == Rises(h, pos)[pos] IN
  [i \in DOMAIN h |-> IF i \notin way THEN h[i]
                      ELSE IF i = 0 \/ ~Less(h[pos], h[Parent(i)]) THEN h[pos]
                      ELSE h[Parent(i)]]

\* The record at pos takes the place of its smallest child as long as that is less.
Least(h, p) ==
  CHOOSE k \in Children(h, p) : \A j \in Children(h, p) \ {k} : Less(h[k], h[j])
Stays(h, p, rec) == Children(h, p) = {} \/ ~Less(h[Least(h, p)], rec)

Sinks(h, pos) ==
  LET path[p \in DOMAIN h] ==
        IF Stays(h, p, h[pos]) THEN {p} ELSE {p} \cup path[Least(h, p)]
  IN path

SiftDown(h, pos) ==
  LET way == Sinks(h, pos)[pos] IN
  [i \in DOMAIN h |-> IF i \notin way THEN h[i]
                      ELSE IF Stays(h, i, h[pos]) THEN h[pos]
                      ELSE h[Least(h, i)]]

BugNeverUp(h, pos) ==
  LET last == Size(h) - 1
      swapped == [i \in 0 .. last - 1 |-> IF i = pos THEN h[last] ELSE h[i]]
  IN IF last = pos THEN swapped ELSE SiftDown(swapped, pos)

\* hard_cull: the last record takes the place of the one at pos and finds its own.
Without(h, pos) ==
  LET last == Size(h) - 1
      swapped == [i \in 0 .. last - 1 |-> IF i = pos THEN h[last] ELSE h[i]]
  IN IF last = pos THEN swapped
     ELSE IF pos = 0 \/ ~Less(swapped[pos], swapped[Parent(pos)])
     THEN SiftDown(swapped, pos)
     ELSE SiftUp(swapped, pos)

Init ==
  /\ ts = [i \in {} |-> None]
  /\ nfg = 0
  /\ order = 0
  /\ active = {}
  /\ held = {}
  /\ popping = FALSE
  /\ firing = None
  /\ probing = FALSE
  /\ clock = 0

Expired == ts # <<>> /\ ts[0].when <= clock

\* User code runs between the rounds of the loop, and within a trigger.
UserCode == ~probing /\ (popping => firing # None)

\* Take the record at pos out.
Remove(pos) ==
  /\ ts' = Without(ts, pos)
  /\ nfg' = nfg - (ts[pos].order % 2)

\* Bound: a wrapped order number would meet a timer half the range older only
\* after 2^30 more timers.
OrderFits == \A i \in DOMAIN ts : (order + 3 - ts[i].order) % (2 * HalfRange) < HalfRange

\* at_time: append, find the place, and begin to probe if the heap is largish.
\* A hook that pop_trigger calls does so for a later time and on a heap too
\* small to be probed: otherwise pop_trigger would go on to remove the new front
\* instead of the record that fires.
Push(e, when) ==
  /\ UserCode
  /\ popping => HookPush /\ when > clock /\ Size(ts) + 1 < CullAt
  /\ e \notin active \cup held
  /\ \A i \in DOMAIN ts : ts[i].se # e
  /\ OrderFits
  /\ order' = (order + 2) % (2 * HalfRange)
  /\ LET n == Size(ts)
         new == [when |-> when, se |-> e,
                 order |-> order' + IF e \in Background THEN 0 ELSE 1]
     IN /\ ts' = SiftUp([i \in 0 .. n |-> IF i = n THEN new ELSE ts[i]], n)
        /\ probing' = (n + 1 >= CullAt)
  /\ nfg' = nfg + IF e \in Background THEN 0 ELSE 1
  /\ active' = active \cup {e}
  /\ held' = held \cup {e}
  /\ UNCHANGED <<popping, firing, clock>>

\* One round of the loop at the end of push: the probed event is active and the
\* loop ends, or it is empty and its record goes.
Probe(pos) ==
  /\ probing
  /\ IF ts[pos].se \in active
     THEN probing' = FALSE /\ UNCHANGED <<ts, nfg, held>>
     ELSE /\ Remove(pos)
          /\ held' = held \ {ts[pos].se}
          /\ probing' = (Size(ts) - 1 >= CullAt)
  /\ UNCHANGED <<order, active, popping, firing, clock>>

BugCancelRemoves(e) ==
  /\ UserCode
  /\ e \in active
  /\ active' = active \ {e}
  /\ held' = held \ {e}
  /\ UNCHANGED <<ts, nfg, order, popping, firing, probing, clock>>

\* Anybody triggers or clears the event of a timer.
Cancel(e) ==
  /\ UserCode
  /\ e \in active
  /\ active' = active \ {e}
  /\ UNCHANGED <<ts, nfg, order, held, popping, firing, probing, clock>>

\* cull(): an empty event in front is forgotten.
Cull ==
  /\ ~probing /\ ~popping
  /\ ts # <<>>
  /\ ts[0].se \notin active
  /\ Remove(0)
  /\ held' = held \ {ts[0].se}
  /\ UNCHANGED <<order, active, popping, firing, probing, clock>>

BugTriggersLast ==
  /\ popping /\ firing = None
  /\ Expired
  /\ firing' = ts[Size(ts) - 1].se
  /\ active' = active \ {ts[Size(ts) - 1].se}
  /\ held' = held \ {ts[Size(ts) - 1].se}
  /\ UNCHANGED <<ts, nfg, order, popping, probing, clock>>

\* pop_trigger: the event in front is triggered, which gives up its reference ...
PopTrigger ==
  /\ popping /\ firing = None
  /\ Expired
  /\ firing' = ts[0].se
  /\ active' = active \ {ts[0].se}
  /\ held' = held \ {ts[0].se}
  /\ UNCHANGED <<ts, nfg, order, popping, probing, clock>>

\* ... and then whatever is in front is taken out.
PopRemove ==
  /\ ~probing /\ firing # None
  /\ firing' = None
  /\ IF ts # <<>> THEN Remove(0) ELSE UNCHANGED <<ts, nfg>>
  /\ UNCHANGED <<order, active, held, popping, probing, clock>>

\* The loop pops while the record in front is due; nobody else runs in between.
BeginPops == ~probing /\ ~popping /\ Expired /\ popping' = TRUE /\ UNCHANGED idleVars
EndPops == popping /\ firing = None /\ ~Expired /\ popping' = FALSE /\ UNCHANGED idleVars

Tick ==
  /\ ~probing /\ ~popping
  /\ clock < MaxTime
  /\ clock' = clock + 1
  /\ UNCHANGED <<ts, nfg, order, active, held, popping, firing, probing>>

Probes == \E pos \in DOMAIN ts : Probe(pos)

Pops == BeginPops \/ PopTrigger \/ PopRemove \/ EndPops

Next ==
  \/ \E e \in Event : Cancel(e) \/ \E when \in 0 .. MaxTime : Push(e, when)
  \/ Probes \/ Cull \/ Pops \/ Tick

\* The driver loop comes round again and again, whatever user code does between
\* its rounds, and each time sees a later clock.
Spec ==
  /\ Init /\ [][Next]_vars
  /\ WF_vars(Probes) /\ SF_vars(Pops) /\ SF_vars(Tick)

(* Properties *)

\* Every variable has its type.
TypeOK ==
  /\ DOMAIN ts = 0 .. Size(ts) - 1 /\ \A i \in DOMAIN ts : ts[i] \in Trec
  /\ nfg \in Nat
  /\ order \in Orders
  /\ active \subseteq Event
  /\ held \subseteq Event
  /\ popping \in BOOLEAN
  /\ firing \in Event \cup {None}
  /\ probing \in BOOLEAN
  /\ clock \in 0 .. MaxTime

\* After any mixture of pushes, probes and pops no record is before its parent.
HeapOrder == \A i \in DOMAIN ts \ {0} : ~Less(ts[i], ts[Parent(i)])

\* has_foreground: nfg_ counts the records of foreground timers.
ForegroundExact == nfg = Cardinality({i \in DOMAIN ts : ts[i].order % 2 = 1})

\* Memory: each record but the one being triggered holds a reference to its
\* event, no event has two records, and no reference is left without a record.
HeapOwns ==
  /\ \A i \in DOMAIN ts : ts[i].se \in held \/ (i = 0 /\ ts[i].se = firing)
  /\ \A i, j \in DOMAIN ts : ts[i].se = ts[j].se => i = j
  /\ active \subseteq held
  /\ held \subseteq {ts[i].se : i \in DOMAIN ts}

\* The heap implements a queue that is stable among equal times.
Age(t) == (order + 1 - t.order) % (2 * HalfRange)
Due ==
  LET Before(t, u) == t.when < u.when \/ (t.when = u.when /\ Age(t) > Age(u))
      recs == {ts[i] : i \in {j \in DOMAIN ts : ts[j].se \in active}}
      Nth(k) == CHOOSE t \in recs : Cardinality({u \in recs : Before(u, t)}) = k - 1
  IN [k \in 1 .. Cardinality(recs) |-> [e |-> Nth(k).se, when |-> Nth(k).when]]
Abstract == INSTANCE TimerQueue WITH due <- Due
ImplementsTimerQueue == Abstract!Spec

\* "Triggers e on, or soon after, time expiry" (tamer.3): an active timer fires
\* or is canceled.
EveryTimerFires == \A e \in Event : e \in active ~> e \notin active
===============================================================================
