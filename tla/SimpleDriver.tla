----------------------------- MODULE SimpleDriver -----------------------------
(***************************************************************************)
(* simple_driver (tamer/xbase.hh, tamer/xbase.cc): an array of slots that  *)
(* holds, linked by index, the queue of unblocked closures and the list of *)
(* free slots.  Slot 0 is the null index.  A build with tracing takes a    *)
(* slot when a closure blocks, a build without when it is unblocked.       *)
(* Definitions named Bug... are seeded faults that the properties notice.  *)
(***************************************************************************)
EXTENDS Naturals, Sequences, FiniteSets

CONSTANTS
  Closure,
  InitialCapacity, \* 64 in the code
  MaxCapacity,     \* bound: the array does not grow beyond
  Builds,          \* TRUE: a build that traces (TAMER_NOTRACE is not set)
  None             \* the null pointer

\* What the constants must satisfy; each instance assumes it.
DriverAssumption ==
  /\ InitialCapacity \in Nat \ {0, 1}
  /\ MaxCapacity \in Nat /\ MaxCapacity >= InitialCapacity
  /\ Builds \subseteq BOOLEAN
  /\ None \notin Closure

VARIABLES
  trace,     \* the build traces
  ccap,      \* ccap_
  cfree,     \* cfree_, head of the free list
  head,      \* cunblocked_
  tail,      \* cunblocked_tail_, meaningful when head is not 0
  cs,        \* cs_: slot -> [c, next]
  index,     \* tamer_driver_index_ of each closure
  state      \* of each closure: "idle" (or running), "blocked", "queued"

vars == <<trace, ccap, cfree, head, tail, cs, index, state>>

FreshSlots(from, to) ==
  [i \in from .. to - 1 |-> [c |-> None, next |-> IF i = to - 1 THEN 0 ELSE i + 1]]

Init ==
  /\ trace \in Builds
  /\ ccap = InitialCapacity
  /\ cfree = 1
  /\ head = 0
  /\ tail = 0
  /\ cs = FreshSlots(0, InitialCapacity)
  /\ index = [c \in Closure |-> 0]
  /\ state = [c \in Closure |-> "idle"]

\* The array with room for one more closure: grown when the free list is empty.
Roomy ==
  IF cfree # 0 THEN [cap |-> ccap, free |-> cfree, slots |-> cs]
  ELSE [cap |-> 2 * ccap, free |-> ccap,
        slots |-> [i \in 0 .. 2 * ccap - 1 |->
                     IF i < ccap THEN cs[i] ELSE FreshSlots(ccap, 2 * ccap)[i]]]

\* add(c): the first free slot, marked as the last of a list.
Add(c) ==
  /\ Roomy.cap <= MaxCapacity
  /\ ccap' = Roomy.cap
  /\ cfree' = Roomy.slots[Roomy.free].next
  /\ cs' = [Roomy.slots EXCEPT ![Roomy.free] = [c |-> c, next |-> 0]]
  /\ index' = [index EXCEPT ![c] = Roomy.free]

\* blocking_rendezvous::block calls add_blocked.
AddBlocked(c) ==
  /\ state[c] = "idle"
  /\ state' = [state EXCEPT ![c] = "blocked"]
  /\ IF trace THEN Add(c)
     ELSE /\ index' = [index EXCEPT ![c] = 0]
          /\ UNCHANGED <<ccap, cfree, cs>>
  /\ UNCHANGED <<trace, head, tail>>

BugStaleTail(c) ==
  /\ state[c] = "blocked"
  /\ UNCHANGED trace
  /\ state' = [state EXCEPT ![c] = "queued"]
  /\ \/ /\ index[c] # 0
        /\ cs' = IF head = 0 THEN cs ELSE [cs EXCEPT ![tail].next = index[c]]
        /\ UNCHANGED <<ccap, cfree, index>>
     \/ /\ index[c] = 0
        /\ Roomy.cap <= MaxCapacity
        /\ ccap' = Roomy.cap
        /\ cfree' = Roomy.slots[Roomy.free].next
        /\ index' = [index EXCEPT ![c] = Roomy.free]
        /\ cs' = LET added == [Roomy.slots EXCEPT ![Roomy.free] = [c |-> c, next |-> 0]] IN
                 IF head = 0 THEN added ELSE [added EXCEPT ![tail].next = Roomy.free]
  /\ head' = IF head = 0 THEN index'[c] ELSE head
  /\ tail' = IF head = 0 THEN index'[c] ELSE tail

\* closure::unblock calls make_unblocked: link the slot behind the tail.
MakeUnblocked(c) ==
  /\ state[c] = "blocked"
  /\ UNCHANGED trace
  /\ state' = [state EXCEPT ![c] = "queued"]
  /\ \/ /\ index[c] # 0
        /\ cs' = IF head = 0 THEN cs ELSE [cs EXCEPT ![tail].next = index[c]]
        /\ UNCHANGED <<ccap, cfree, index>>
     \/ /\ index[c] = 0
        /\ Roomy.cap <= MaxCapacity
        /\ ccap' = Roomy.cap
        /\ cfree' = Roomy.slots[Roomy.free].next
        /\ index' = [index EXCEPT ![c] = Roomy.free]
        /\ cs' = LET added == [Roomy.slots EXCEPT ![Roomy.free] = [c |-> c, next |-> 0]] IN
                 IF head = 0 THEN added ELSE [added EXCEPT ![tail].next = Roomy.free]
  /\ head' = IF head = 0 THEN index'[c] ELSE head
  /\ tail' = index'[c]

\* pop_unblocked: the slot is free again before the closure runs.  The loop in
\* has_unblocked that skips slots without a closure never has one to skip:
\* the mapping of ImplementsRunQueue would not be a queue of closures.
PopUnblocked ==
  /\ head # 0
  /\ head' = cs[head].next
  /\ cfree' = head
  /\ cs' = [cs EXCEPT ![head] = [c |-> None, next |-> cfree]]
  /\ state' = [state EXCEPT ![cs[head].c] = "idle"]
  /\ UNCHANGED <<trace, ccap, tail, index>>

Next == PopUnblocked \/ \E c \in Closure : AddBlocked(c) \/ MakeUnblocked(c)

\* The driver loop calls run_unblocked until the queue is empty.
Spec == Init /\ [][Next]_vars /\ WF_vars(PopUnblocked)

\* The slots that the links lead to from slot i on, at most one step per slot.
After == [i \in 0 .. ccap - 1 |-> IF i = 0 THEN 0 ELSE cs[i].next]
Links(i) ==
  LET at[n \in 0 .. ccap] == IF n = 0 THEN i ELSE After[at[n - 1]]
  IN [n \in 1 .. Cardinality({m \in 0 .. ccap : at[m] # 0}) |-> at[n - 1]]

Slots(s) == {s[i] : i \in DOMAIN s}

(* Properties *)

\* Every variable has its type: no index leaves the array as it grows.
TypeOK ==
  /\ trace \in BOOLEAN
  /\ ccap \in InitialCapacity .. MaxCapacity
  /\ cfree \in 0 .. ccap - 1
  /\ head \in 0 .. ccap - 1
  /\ tail \in 0 .. ccap - 1
  /\ cs \in [0 .. ccap - 1 -> [c : Closure \cup {None}, next : 0 .. ccap - 1]]
  /\ index \in [Closure -> 0 .. ccap - 1]
  /\ state \in [Closure -> {"idle", "blocked", "queued"}]

\* No slot is lost and none has two uses: each of them but slot 0 is on the free
\* list, in the queue or held by a blocked closure of a tracing build; both
\* lists end, and the free list holds no closure.
SlotsPartition ==
  LET free == Links(cfree)
      queued == Links(head)
      held == {index[c] : c \in {d \in Closure : trace /\ state[d] = "blocked"}}
  IN /\ Len(free) + Len(queued) + Cardinality(held) = ccap - 1
     /\ Slots(free) \cup Slots(queued) \cup held = 1 .. ccap - 1
     /\ \A i \in Slots(free) : cs[i].c = None

\* The slots implement the first-in first-out queue of RunQueue.
Queue == LET queued == Links(head) IN [i \in DOMAIN queued |-> cs[queued[i]].c]
Abstract == INSTANCE RunQueue WITH
  blocked <- {c \in Closure : state[c] = "blocked"},
  queue   <- Queue
ImplementsRunQueue == Abstract!Spec
===============================================================================
