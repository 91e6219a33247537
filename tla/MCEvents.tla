------------------------------- MODULE MCEvents -------------------------------
(***************************************************************************)
(* Safety of what holds events: the core of the runtime, the values of     *)
(* events, and the references to them and to other objects.  Each          *)
(* behaviour picks one model; the others stay as they began.               *)
(***************************************************************************)
EXTENDS MCRendezvous, Handles

CONSTANTS h1, h2, p1, p2, s1, gathers, lists, names

VARIABLE comp

\* A rendezvous of each kind, of which two are there at a time, and a result variable
\* in the call that gathers.
Kinds == gathers :> "gather" @@ lists :> "explicit" @@ names :> "ids"
Homes == s1 :> gathers

ASSUME Values!ResultAssumption /\ Counted!RefAssumption

\* Model values that are alike in one model stand for ones that are alike in others.
Symmetry == EventSymmetry \cup Permutations({h1, h2}) \cup Permutations({p1, p2})

AllInit ==
  /\ comp \in {"runtime", "values", "references"}
  /\ Init /\ Counted!Init
  /\ Values!Init /\ over \in (IF comp = "values" THEN {{lists}, {names}} ELSE {{}})

AllNext ==
  \/ comp = "runtime" /\ Next /\ UNCHANGED <<comp, valueVars, refVars>>
  \/ comp = "values" /\ Values!Next /\ UNCHANGED <<comp, vars, refVars>>
  \/ comp = "references" /\ Counted!Next /\ UNCHANGED <<comp, vars, valueVars>>

AllSpec == AllInit /\ [][AllNext]_<<comp, vars, valueVars, refVars>>
===============================================================================
