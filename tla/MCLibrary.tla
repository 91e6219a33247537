------------------------------- MODULE MCLibrary -------------------------------
(***************************************************************************)
(* Model checking what is built on events: distributed events, adapters,   *)
(* and the resolver with two requests, each with a second name to try, and *)
(* two servers of which one or both may be exchanged.  Each behaviour      *)
(* picks one model; the others stay as they began.                         *)
(***************************************************************************)
EXTENDS Library, TLC

CONSTANTS a, b, leaf1, leaf2, sum1, sum2, Nobody

VARIABLES comp,
  dlife, dactive, drefs, dhandles, dhooks, dnode, des, doutstanding, dquiet, dstack

sumVars == <<dlife, dactive, drefs, dhandles, dhooks, dnode, des, doutstanding,
             dquiet, dstack>>

MCNames == a :> 2 @@ b :> 2
MCLater == {{2, 3}, {3}}

Sums == INSTANCE Distribute WITH
  Leaf <- {leaf1, leaf2}, Dist <- {sum1, sum2}, MaxHandles <- 2, Hooked <- {sum1},
  MaxHooks <- [e \in {leaf1, leaf2, sum1, sum2} |-> IF e = leaf1 THEN 2 ELSE 1],
  MaxCalls <- 1, Null <- Nobody,
  life <- dlife, active <- dactive, refs <- drefs, handles <- dhandles,
  hooks <- dhooks, node <- dnode, es <- des, outstanding <- doutstanding,
  quiet <- dquiet, stack <- dstack

\* Each adapter has a result variable of its own.
MCOwn == [w \in {a, b} |-> w]
MCKinds == {"bind", "helper", "map", "fun"}
ASSUME Wraps!AdapterAssumption

AllInit ==
  /\ comp \in {"resolver", "sums", "adapters"}
  /\ Init /\ Sums!Init /\ Wraps!Init

AllNext ==
  \/ comp = "resolver" /\ Next /\ UNCHANGED <<comp, sumVars, wrapVars>>
  \/ comp = "sums" /\ Sums!Next /\ UNCHANGED <<comp, vars, wrapVars>>
  \/ comp = "adapters" /\ Wraps!Next /\ UNCHANGED <<comp, vars, sumVars>>

AllSpec ==
  /\ AllInit /\ [][AllNext]_<<comp, vars, sumVars, wrapVars>>
  /\ WF_vars(comp = "resolver" /\ Moves)
  /\ \A q \in Query : SF_vars(comp = "resolver" /\ TimeOut(q))

\* Distributed events: _refcount and outstanding_ count exactly those who will
\* still use a sum, its summands and its node, and nothing outlives them; triggering
\* one reaches every summand, and one whose summands were all triggered becomes empty.
SumsExact ==
  comp = "sums" =>
    /\ Sums!SumMemory /\ Sums!NodeMemory
    /\ Sums!SummandsReached /\ Sums!SumFollowsSummands
===============================================================================
