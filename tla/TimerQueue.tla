------------------------------ MODULE TimerQueue ------------------------------
(***************************************************************************)
(* What the driver promises about timers (at_time, at_delay): an event is  *)
(* triggered once its time has come, earlier times first and equal times   *)
(* in the order they were asked for.  TimerSet implements it with a heap.  *)
(***************************************************************************)
EXTENDS Naturals, Sequences

CONSTANTS Event, MaxTime, None

VARIABLES
  due,     \* [e, when] of the active timers, the next to fire first
  firing,  \* the event that is being triggered, or None
  clock

vars == <<due, firing, clock>>

Timed == {due[i].e : i \in DOMAIN due}

Init == due = <<>> /\ firing = None /\ clock = 0

\* Behind every timer that is due at the same time or earlier.
At(e, when) ==
  /\ e \notin Timed
  /\ \E n \in 0 .. Len(due) :
       /\ \A i \in 1 .. n : due[i].when <= when
       /\ \A i \in n + 1 .. Len(due) : due[i].when > when
       /\ due' = SubSeq(due, 1, n) \o <<[e |-> e, when |-> when]>>
                 \o SubSeq(due, n + 1, Len(due))
  /\ firing' = firing
  /\ UNCHANGED clock

Cancel(e) ==
  /\ e \in Timed
  /\ due' = SelectSeq(due, LAMBDA t : t.e # e)
  /\ UNCHANGED <<firing, clock>>

\* The first timer leaves when its time has come.
Serve ==
  /\ due # <<>> /\ Head(due).when <= clock
  /\ due' = Tail(due)
  /\ UNCHANGED clock

Fire == firing = None /\ Serve /\ firing' = Head(due).e

\* The turn of a canceled timer comes, and nothing happens.
Skip(e) == firing = None /\ e \notin Timed /\ firing' = e /\ UNCHANGED <<due, clock>>

Fired == firing # None /\ firing' = None /\ UNCHANGED <<due, clock>>

Tick == clock < MaxTime /\ clock' = clock + 1 /\ firing' = firing /\ UNCHANGED due

Next ==
  \/ Fire \/ Fired \/ Tick
  \/ \E e \in Event : Skip(e) \/ Cancel(e) \/ \E when \in 0 .. MaxTime : At(e, when)

Fairness == WF_vars(Fire) /\ WF_vars(Fired) /\ WF_vars(Tick)
Spec == Init /\ [][Next]_vars /\ Fairness
===============================================================================
