------------------------------- MODULE AsapRing -------------------------------
(***************************************************************************)
(* driver_asapset: the ring of events behind at_asap and at_preblock.  Its  *)
(* indices are unsigned numbers that only grow, and so wrap around; a slot  *)
(* is found with the mask of the capacity.  It has no slots at first, and   *)
(* four times as many whenever it is full.                                  *)
(***************************************************************************)
EXTENDS Integers, Sequences, FiniteSets

CONSTANTS
  Event,      \* events
  Width,      \* number of values of an index, 2^32 in the code
  FirstMask,  \* capmask_ after the first growth, 31 in the code
  MaxLength   \* bound on the events in the ring

\* A capacity after which an index that wraps around comes to the first slot.
Fits(capacity) == capacity < Width /\ \E n \in 1 .. Width : Width = capacity * n

\* What the constants must satisfy; each instance assumes it.  In the code both
\* capacity and width are powers of two, and memory ends before the capacity does.
RingAssumption ==
  /\ Width \in Nat \ {0} /\ FirstMask \in Nat /\ MaxLength \in Nat
  /\ MaxLength < Width
  /\ Fits(FirstMask + 1)
  /\ \A c \in 1 .. MaxLength - 1 : Fits(c) => Fits(4 * c)

VARIABLES
  ses,              \* ses_: the slots
  head, tail,       \* head_ and tail_
  capmask           \* capmask_

vars == <<ses, head, tail, capmask>>

Init ==
  /\ ses = <<>>
  /\ head = 0 /\ tail = 0
  /\ capmask = Width - 1

Length == (tail - head) % Width
Capacity == (capmask + 1) % Width

\* The mask keeps the low bits.
Slot(x) == IF Capacity = 0 THEN x ELSE x % Capacity

Contents == [k \in 1 .. Length |-> ses[Slot((head + k - 1) % Width)]]

BugExpandInPlace ==
  LET mask == IF Capacity # 0 THEN capmask * 4 + 3 ELSE FirstMask IN
  [ses |-> [k \in 0 .. mask |-> IF k \in DOMAIN ses THEN ses[k] ELSE CHOOSE e \in Event : TRUE],
   head |-> head, tail |-> tail, capmask |-> mask]

\* expand(): the events move to the front of the new array, from head_ on.
Expand ==
  LET mask == IF Capacity # 0 THEN capmask * 4 + 3 ELSE FirstMask IN
  [ses |-> [k \in 0 .. mask |->
              IF k < Length THEN Contents[k + 1] ELSE CHOOSE e \in Event : TRUE],
   head |-> 0, tail |-> Length, capmask |-> mask]

Push(e) ==
  /\ Length < MaxLength
  /\ LET ring == IF Length = Capacity THEN Expand
                 ELSE [ses |-> ses, head |-> head, tail |-> tail, capmask |-> capmask] IN
       /\ ses' = [ring.ses EXCEPT ![ring.tail % (ring.capmask + 1)] = e]
       /\ head' = ring.head
       /\ tail' = (ring.tail + 1) % Width
       /\ capmask' = ring.capmask

\* pop_trigger(): what the event calls may push; the ring is up to date by then.
PopTrigger ==
  /\ head # tail
  /\ head' = (head + 1) % Width
  /\ UNCHANGED <<ses, tail, capmask>>

Clear ==
  /\ head' = tail
  /\ UNCHANGED <<ses, tail, capmask>>

Next == PopTrigger \/ Clear \/ \E e \in Event : Push(e)

Spec == Init /\ [][Next]_vars

(* Properties *)

\* Whatever the indices, also when they have wrapped around and when the ring
\* grows from the middle, events come out once each, as they were pushed.
Queue == INSTANCE EventQueue WITH queue <- Contents
ImplementsEventQueue == Queue!Spec
===============================================================================
