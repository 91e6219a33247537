------------------------------ MODULE MCClosures ------------------------------
(***************************************************************************)
(* What happens to closures in the end: the runtime under fairness, and    *)
(* the slots of the driver that keeps its closures.  Each behaviour picks  *)
(* one of the two models; the other stays as it began.                     *)
(***************************************************************************)
EXTENDS MCRendezvous

CONSTANTS c1, c2, c3, c4

VARIABLES comp, trace, ccap, cfree, head, tail, cs, index, state

slotVars == <<trace, ccap, cfree, head, tail, cs, index, state>>

\* With four closures the array of two slots, one of them null, grows twice.
Slots == INSTANCE SimpleDriver WITH
  Closure <- {c1, c2, c3, c4}, InitialCapacity <- 2, MaxCapacity <- 8, Builds <- BOOLEAN

ASSUME Slots!DriverAssumption

AllInit ==
  /\ comp \in {"runtime", "slots"}
  /\ Init /\ Slots!Init
  /\ comp # "slots" => trace

AllNext ==
  \/ comp = "runtime" /\ Next /\ UNCHANGED <<comp, slotVars>>
  \/ comp = "slots" /\ Slots!Next /\ UNCHANGED <<comp, vars>>

AllSpec ==
  /\ AllInit /\ [][AllNext]_<<comp, vars, slotVars>>
  /\ Fairness /\ WF_slotVars(comp = "slots" /\ Slots!PopUnblocked)

\* The hook of every event that is triggered, dropped or cleared is called, and
\* functions of destroyed objects go away.
RuntimeSettles == HookFires /\ DestroyedExits

\* The slots and their links implement the first-in first-out queue of RunQueue.
ImplementsRunQueue == Slots!ImplementsRunQueue
===============================================================================
