------------------------------- MODULE MCQueues -------------------------------
(***************************************************************************)
(* The queues: the driver's heap of timers and its ring of asap events, and *)
(* the channel between tamed functions.  A second heap begins with eight   *)
(* timers, in any order, so that a record may rise more than one level,    *)
(* and the one that fills a gap may have to move up.  Each behaviour picks *)
(* one model; the others stay as they began.                               *)
(***************************************************************************)
EXTENDS Queues

CONSTANTS a, b, c

VARIABLE comp

\* Of the three timers, one is in the background; order numbers wrap after eight
\* timers.  The times in the second heap differ.
Last == 8
Heap == INSTANCE TimerSet WITH
  Event <- 0 .. Last, Background <- 0 .. Last, Arity <- 4, CullAt <- 8, HalfRange <- 32,
  MaxTime <- Last, HookPush <- FALSE

\* The heaps with n + 1 records as sequences of times.
Heaps[n \in 0 .. Last - 1] ==
  IF n = 0 THEN {<<v>> : v \in 0 .. Last}
  ELSE UNION {{Append(h, v) : v \in {w \in 0 .. Last :
                 /\ \A i \in DOMAIN h : h[i] # w
                 /\ h[Heap!Parent(n) + 1] < w}} : h \in Heaps[n - 1]}

HeapOf(h) == [i \in 0 .. Last - 1 |-> [when |-> h[i + 1], order |-> 2 * i + 2, se |-> i]]

\* Of three leaves with one parent, none of them the last record, one order will do.
Alike(h) == h[5] < h[6] /\ h[6] < h[7]

\* Eight canceled timers.
HeapInit ==
  /\ \E h \in Heaps[Last - 1] : Alike(h) /\ ts = HeapOf(h)
  /\ nfg = 0 /\ order = 2 * Last
  /\ active = {} /\ held = 0 .. Last - 1
  /\ popping = FALSE /\ firing = None /\ probing = FALSE /\ clock = 0

\* push adds a ninth at any time, and probes for empty ones.
HeapNext ==
  \/ Heap!Probes
  \/ \E when \in 0 .. Last :
       /\ Heap!Size(ts) = Last
       /\ \A i \in DOMAIN ts : ts[i].when # when
       /\ Heap!Push(Last, when)

\* The ring's counters have five bits; it grows first to two slots.
ASSUME Timers!TimerAssumption /\ Heap!TimerAssumption /\ Ring!RingAssumption /\ ChannelAssumption

AllInit ==
  /\ comp \in {"timers", "heap", "ring", "channel"}
  /\ IF comp = "heap" THEN HeapInit ELSE Timers!Init
  /\ Ring!Init /\ Init

AllNext ==
  \/ comp = "timers" /\ Timers!Next /\ UNCHANGED <<comp, ringVars, vars>>
  \/ comp = "heap" /\ HeapNext /\ UNCHANGED <<comp, ringVars, vars>>
  \/ comp = "ring" /\ Ring!Next /\ UNCHANGED <<comp, timerVars, vars>>
  \/ comp = "channel" /\ Next /\ UNCHANGED <<comp, timerVars, ringVars>>

AllSpec ==
  /\ AllInit /\ [][AllNext]_<<comp, timerVars, ringVars, vars>>
  /\ WF_timerVars(comp = "timers" /\ Timers!Probes)
  /\ SF_timerVars(comp = "timers" /\ Timers!Pops)
  /\ SF_timerVars(comp = "timers" /\ Timers!Tick)

\* The heap implements a queue that is stable among equal times.
ImplementsTimerQueue ==
  /\ comp = "timers" => Timers!Abstract!Init
  /\ [][comp = "timers" => [Timers!Abstract!Next]_(Timers!Abstract!vars)]_<<comp, timerVars>>
  /\ comp = "timers" => Timers!Abstract!Fairness

\* An active timer fires or is canceled.
EveryTimerFires == comp = "timers" => Timers!EveryTimerFires
===============================================================================
