------------------------------ MODULE MCWatches ------------------------------
(***************************************************************************)
(* Model checking what is between the library and the kernel.  Each        *)
(* behaviour picks one model; the others stay as they began.               *)
(***************************************************************************)
EXTENDS Watches

VARIABLE comp

ASSUME FdAssumption /\ Sigs!SignalAssumption /\ Foreign!ForeignAssumption

AllInit ==
  /\ comp \in {"fds", "signals", "foreign"}
  /\ Init /\ (comp # "fds" => epoll)
  /\ Sigs!Init
  /\ Foreign!Init
  /\ comp # "foreign" => lib = "libev" /\ flags = "once"

\* The loops of the libraries are called once.
Returned ==
  /\ comp = "foreign" /\ fpc = "returned"
  /\ UNCHANGED <<comp, vars, signalVars, foreignVars>>

\* Bound: nobody asks for a hang-up of the last descriptor.
FewActions == "hangup" \notin want[MaxFd]

AllNext ==
  \/ comp = "fds" /\ Next /\ FewActions' /\ UNCHANGED <<comp, signalVars, foreignVars>>
  \/ comp = "signals" /\ Sigs!Next /\ UNCHANGED <<comp, vars, foreignVars>>
  \/ comp = "foreign" /\ Foreign!Next /\ UNCHANGED <<comp, vars, signalVars>>
  \/ Returned

AllSpec ==
  /\ AllInit /\ [][AllNext]_<<comp, vars, signalVars, foreignVars>>
  /\ WF_vars(comp = "fds" /\ UpdateFd)
  /\ WF_vars(comp = "fds" /\ (BeginWait \/ Recreate))
  /\ WF_signalVars(comp = "signals" /\ Sigs!Loop)

\* update_fds comes to an end, although the list may be a cycle, and each marked
\* signal is dispatched.
KernelWorkEnds == UpdateEnds /\ Sigs!SignalDispatched
===============================================================================
