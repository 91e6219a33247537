------------------------------ MODULE FairMutex ------------------------------
(***************************************************************************)
(* What tamer::mutex promises (doc comment of lock.tcc): a read/write lock *)
(* whose requests are served strictly in order of their arrival.  A request *)
(* that is waiting may be canceled.  The order is kept as a relation, so    *)
(* that no list has to be edited when a request leaves from its middle.    *)
(***************************************************************************)
EXTENDS Integers

CONSTANTS Request

VARIABLES
  holders,   \* requests that hold the lock
  waiting,   \* requests that wait
  ahead,     \* for a waiting request, the waiting ones that arrived before it
  mode       \* -1 exclusive, 1 shared

vars == <<holders, waiting, ahead, mode>>

Init ==
  /\ holders = {}
  /\ waiting = {}
  /\ ahead = [r \in Request |-> {}]
  /\ mode = [r \in Request |-> 1]

Compatible(m) == \A h \in holders : m = 1 /\ mode[h] = 1

\* Request r waits no longer.
Leaves(r) ==
  /\ r \in waiting
  /\ waiting' = waiting \ {r}
  /\ ahead' = [q \in Request |-> IF q = r THEN {} ELSE ahead[q] \ {r}]

Arrive(r, m) ==
  /\ r \notin holders \cup waiting
  /\ mode' = [mode EXCEPT ![r] = m]
  /\ \/ /\ waiting = {} /\ Compatible(m)
        /\ holders' = holders \cup {r}
        /\ UNCHANGED <<waiting, ahead>>
     \/ /\ waiting' = waiting \cup {r}
        /\ ahead' = [ahead EXCEPT ![r] = waiting]
        /\ UNCHANGED holders

Grant(r) ==
  /\ Leaves(r)
  /\ ahead[r] = {}
  /\ Compatible(mode[r])
  /\ holders' = holders \cup {r}
  /\ UNCHANGED mode

Release(r) ==
  /\ r \in holders
  /\ holders' = holders \ {r}
  /\ UNCHANGED <<waiting, ahead, mode>>

Cancel(r) ==
  /\ Leaves(r)
  /\ UNCHANGED <<holders, mode>>

Next ==
  \E r \in Request :
    Grant(r) \/ Release(r) \/ Cancel(r) \/ \E m \in {-1, 1} : Arrive(r, m)

Safety == Init /\ [][Next]_vars

\* A request that could be granted is not left waiting, unless it is canceled.
Spec == Safety /\ \A r \in Request : WF_vars(Grant(r))
===============================================================================
