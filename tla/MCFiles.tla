------------------------------- MODULE MCFiles -------------------------------
(***************************************************************************)
(* Files: the operations on a descriptor, the descriptors that exec gives  *)
(* to a child process, the pool of helper processes and the input buffer.  *)
(* Each behaviour picks one model; the others stay as they began.          *)
(***************************************************************************)
EXTENDS Files, TLC

CONSTANTS q1, q2, q3

VARIABLE comp

\* The lists for the child have up to three descriptors, at the numbers 0, 1 and 2.
ASSUME Exec!ExecAssumption /\ Pool!PoolAssumption /\ Buffer!BufferAssumption

\* Which requests the helpers are asked for: every pair of kinds comes up.
PoolKinds == {q1 :> x @@ q2 :> y @@ q3 :> z :
                <<x, y, z>> \in {<<"open", "fstat", "read">>, <<"read", "read", "open">>,
                                 <<"write", "read", "open">>, <<"write", "write", "read">>}}

\* A component that is not picked begins with one value of its parameters.
AllInit ==
  /\ comp \in {"fd", "pool", "buffer", "exec"}
  /\ comp # "exec" => list = <<[child_fd |-> 0, type |-> "newin", num |-> -1]>>
  /\ Exec!Init /\ (comp # "exec" => before[0] = Exec!Closed)
  /\ comp # "buffer" => input = [k \in 1 .. MaxInput |-> "a"]
  /\ IF comp = "pool" THEN hkind \in PoolKinds ELSE hkind = [r \in {q1, q2, q3} |-> "open"]
  /\ Init /\ Pool!Init /\ Buffer!Init

\* Every request comes to an end; exec only when the child runs, or failed.
Done ==
  /\ comp = "exec" => epc \in {"running", "failed"}
  /\ UNCHANGED <<comp, vars, poolVars, bufferVars, execVars>>

AllNext ==
  \/ comp = "fd" /\ Next /\ UNCHANGED <<comp, poolVars, bufferVars, execVars>>
  \/ comp = "pool" /\ Pool!Next /\ UNCHANGED <<comp, vars, bufferVars, execVars>>
  \/ comp = "buffer" /\ Buffer!Next /\ UNCHANGED <<comp, vars, poolVars, execVars>>
  \/ comp = "exec" /\ Exec!Next /\ UNCHANGED <<comp, vars, poolVars, bufferVars>>
  \/ Done

AllSpec ==
  /\ AllInit
  /\ [][AllNext]_<<comp, vars, poolVars, bufferVars, execVars>>
  /\ WF_vars(comp = "fd" /\ Moves)
  /\ WF_poolVars(comp = "pool" /\ Pool!Moves)
  /\ WF_poolVars(comp = "pool" /\ Pool!Serves)

\* Every request to the helpers is answered, if never two wait at once.
EveryRequestEnds == Pool!EveryRequestEnds
===============================================================================
