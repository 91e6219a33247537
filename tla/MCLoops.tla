------------------------------- MODULE MCLoops -------------------------------
(***************************************************************************)
(* Model checking the tamer driver's loop and the mutex.  Each behaviour   *)
(* picks one model; the other stays as it began.                           *)
(***************************************************************************)
EXTENDS Loops

VARIABLE comp

ASSUME Tamer!LoopAssumption

AllInit ==
  /\ comp \in {"tamer", "mutex"}
  /\ Tamer!Init /\ Init

AllNext ==
  \/ comp = "tamer" /\ Tamer!Next /\ UNCHANGED <<comp, vars>>
  \/ comp = "mutex" /\ Next /\ UNCHANGED <<comp, tamerVars>>

AllSpec ==
  /\ AllInit /\ [][AllNext]_<<comp, tamerVars, vars>>
  /\ WF_tamerVars(comp = "tamer" /\ Tamer!Loop)
  /\ WF_tamerVars(comp = "tamer" /\ \E forever \in BOOLEAN : Tamer!Enter(forever))
  /\ WF_tamerVars(comp = "tamer" /\ Tamer!Tick)
  /\ WF_vars(comp = "mutex" /\ Resume)
  /\ \A r \in Request : WF_vars(comp = "mutex" /\ Release(r))

\* Asap events, timers and ready descriptors do not starve each other.
EventsServed == Tamer!EventsServed
===============================================================================
