------------------------------ MODULE ForeignLoop ------------------------------
(***************************************************************************)
(* The drivers that leave the waiting to libev or libevent.  Both keep the  *)
(* queues of the tamer driver; what is theirs is the count of descriptors   *)
(* that are watched, the timer that ends the library's wait, which lives in *)
(* the frame of loop(), and the decision to wait.                           *)
(***************************************************************************)
EXTENDS Integers, FiniteSets

CONSTANTS
  Fd,           \* descriptors
  Timer,        \* timers, each set once
  Background,   \* timers that do not keep the loop going
  MaxWork       \* bound on asap events, preblock events and closures in a queue

\* What the constants must satisfy; each instance assumes it.
ForeignAssumption ==
  /\ IsFiniteSet(Fd) /\ IsFiniteSet(Timer)
  /\ Background \subseteq Timer /\ MaxWork \in Nat

VARIABLES
  lib,        \* "libev" or "libevent"
  flags,      \* "forever" or "once"
  pc,         \* where loop() is
  want,       \* actions with an active event, for each descriptor
  changed,    \* descriptors on the list of changes
  have,       \* what the library watches
  fdactive,   \* fdactive_
  set,        \* timers in the heap
  expired,    \* those whose time has come
  asap, preblock, unblocked,   \* how many there are in each queue
  signal,     \* the signal that closures ask for: "none", waited for in the
              \* "foreground" or in the "background", or "pending"
  wait,       \* the library may block
  armed,      \* the library holds the timer of this frame
  broke       \* break_loop was called

loopVars == <<lib, flags, pc, wait, armed, broke>>
fdVars == <<want, changed, have, fdactive>>
workVars == <<set, expired, asap, preblock, unblocked, signal>>
vars == <<loopVars, fdVars, workVars>>

Actions == {"read", "write"}

\* loop() is called while closures are waiting to run for the first time.
Init ==
  /\ lib \in {"libev", "libevent"}
  /\ flags \in {"forever", "once"}
  /\ pc = "preblock"
  /\ want = [f \in Fd |-> {}] /\ have = [f \in Fd |-> {}]
  /\ changed = {} /\ fdactive = 0
  /\ set = {} /\ expired = {}
  /\ asap = 0 /\ preblock = 0 /\ unblocked = 2
  /\ signal = "none"
  /\ wait = FALSE /\ armed = FALSE /\ broke = FALSE

(* What closures ask for while they run. *)

Running == {"run preblock", "run events", "run timers", "run asap"}

\* at_fd
AtFd(f, a) ==
  /\ a \notin want[f]
  /\ want' = [want EXCEPT ![f] = @ \cup {a}]
  /\ changed' = changed \cup {f}
  /\ UNCHANGED <<have, fdactive, set, expired, asap, preblock, signal, broke>>

\* An event is canceled, or the descriptor closed, which triggers all of them.
KillFd(f) ==
  /\ want[f] # {}
  /\ want' = [want EXCEPT ![f] = {}]
  /\ changed' = changed \cup {f}
  /\ unblocked' = unblocked - 1 + Cardinality(want[f])
  /\ UNCHANGED <<have, fdactive, set, expired, asap, preblock, signal, broke>>

AtTime(t) ==
  /\ t \notin set
  /\ set' = set \cup {t}
  /\ expired' \in {expired, expired \cup {t}}
  /\ UNCHANGED <<fdVars, asap, preblock, signal, broke>>

AtAsap ==
  /\ asap < MaxWork
  /\ asap' = asap + 1
  /\ UNCHANGED <<fdVars, set, expired, preblock, signal, broke>>

AtPreblock ==
  /\ preblock < MaxWork
  /\ preblock' = preblock + 1
  /\ UNCHANGED <<fdVars, set, expired, asap, signal, broke>>

\* at_signal: sig_nforeground counts only the events of the foreground.
AtSignal ==
  /\ signal = "none"
  /\ signal' \in {"foreground", "background"}
  /\ UNCHANGED <<fdVars, set, expired, asap, preblock, broke>>

BreakLoop ==
  /\ broke' = TRUE
  /\ UNCHANGED <<fdVars, set, expired, asap, preblock, signal>>

\* A closure runs and asks for something, or for nothing.
RunClosure ==
  /\ pc \in Running /\ unblocked > 0
  /\ \/ \E f \in Fd : KillFd(f)
     \/ /\ unblocked' = unblocked - 1
        /\ \/ \E f \in Fd, a \in Actions : AtFd(f, a)
           \/ \E t \in Timer : AtTime(t)
           \/ AtAsap \/ AtPreblock \/ AtSignal \/ BreakLoop
           \/ UNCHANGED <<fdVars, set, expired, asap, preblock, signal, broke>>
  /\ UNCHANGED <<lib, flags, pc, wait, armed>>

\* A signal may arrive at any time.
Signal ==
  /\ signal \in {"foreground", "background"}
  /\ signal' = "pending"
  /\ UNCHANGED <<loopVars, fdVars, set, expired, asap, preblock, unblocked>>

(* loop(), the same in both drivers but for the timer. *)

\* Every event of a queue is triggered, and unblocks a closure.
Preblock ==
  /\ pc = "preblock"
  /\ preblock' = 0
  /\ unblocked' = unblocked + preblock
  /\ pc' = "run preblock"
  /\ UNCHANGED <<lib, flags, wait, armed, broke, fdVars, set, expired, asap, signal>>

\* update_fds: descriptors that are watched from now on, or no longer
Added == {f \in changed : want[f] # {} /\ have[f] = {}}
Dropped == {f \in changed : want[f] = {} /\ have[f] # {}}

BugUpdateCounts ==
  /\ have' = [f \in Fd |-> IF f \in changed THEN want[f] ELSE have[f]]
  /\ fdactive' = fdactive + Cardinality({f \in changed : want[f] # have[f] /\ want[f] # {}})
  /\ changed' = {}
  /\ UNCHANGED want

UpdateFds ==
  /\ have' = [f \in Fd |-> IF f \in changed THEN want[f] ELSE have[f]]
  /\ fdactive' = fdactive + Cardinality(Added) - Cardinality(Dropped)
  /\ changed' = {}
  /\ UNCHANGED want

BugDecideEarly ==
  /\ pc = "run preblock" /\ unblocked = 0
  /\ UpdateFds
  /\ IF asap > 0 \/ signal = "pending" \/ unblocked > 0
     THEN pc' = "wait" /\ wait' = FALSE /\ UNCHANGED armed
     ELSE IF set \subseteq Background /\ fdactive' = 0 /\ signal # "foreground"
     THEN pc' = "returned" /\ UNCHANGED <<wait, armed>>
     ELSE /\ pc' = "wait"
          /\ wait' = TRUE
          /\ armed' = IF set # {} THEN TRUE ELSE IF lib = "libev" THEN FALSE ELSE armed
  /\ UNCHANGED <<lib, flags, broke, workVars>>

\* Fix descriptors, and see whether there is work, a reason to go on, or a time
\* to wait for.
Decide ==
  /\ pc = "run preblock" /\ unblocked = 0
  /\ UpdateFds
  /\ IF asap > 0 \/ expired # {} \/ signal = "pending" \/ unblocked > 0
     THEN pc' = "wait" /\ wait' = FALSE /\ UNCHANGED armed
     ELSE IF set \subseteq Background /\ fdactive' = 0 /\ signal # "foreground"
     THEN pc' = "returned" /\ UNCHANGED <<wait, armed>>
     ELSE /\ pc' = "wait"
          /\ wait' = TRUE
          /\ armed' = IF set # {} THEN TRUE ELSE IF lib = "libev" THEN FALSE ELSE armed
  /\ UNCHANGED <<lib, flags, broke, workVars>>

\* libev_io_trigger and libevent_fdtrigger: got are the actions reported ready.
Trigger(got) ==
  /\ want' = [f \in Fd |-> {a \in want[f] : <<f, a>> \notin got}]
  /\ changed' = changed \cup {x[1] : x \in got}
  /\ unblocked' = Cardinality({x \in got : x[2] \in want[x[1]]})
                   + (IF signal = "pending" THEN 1 ELSE 0) + unblocked
  /\ UNCHANGED <<have, fdactive>>

\* ev_run or event_loop: descriptors are ready, signals dispatched, time passes.
Library ==
  /\ pc = "wait"
  /\ \E got \in SUBSET UNION {{f} \X have[f] : f \in Fd}, late \in SUBSET (set \ expired) :
       /\ wait => got # {} \/ late # {} \/ signal = "pending"
       /\ got # {} => wait \/ fdactive # 0 \/ signal # "none"
       /\ Trigger(got)
       /\ expired' = expired \cup late
  /\ signal' = IF signal = "pending" THEN "none" ELSE signal
  /\ pc' = "run events"
  /\ UNCHANGED <<lib, flags, wait, armed, broke, set, asap, preblock>>

\* Timers whose time has come are triggered; libevent first takes its own back.
Timers ==
  /\ pc = "run events" /\ unblocked = 0
  /\ set' = set \ expired
  /\ expired' = {}
  /\ unblocked' = Cardinality(expired)
  /\ armed' = IF lib = "libevent" /\ set # {} /\ wait THEN FALSE ELSE armed
  /\ pc' = "run timers"
  /\ UNCHANGED <<lib, flags, wait, broke, fdVars, asap, preblock, signal>>

Asap ==
  /\ pc = "run timers" /\ unblocked = 0
  /\ asap' = 0
  /\ unblocked' = asap
  /\ pc' = "run asap"
  /\ UNCHANGED <<lib, flags, wait, armed, broke, fdVars, set, expired, preblock, signal>>

\* "goto again", whether or not the library's own loop was broken
Again ==
  /\ pc = "run asap" /\ unblocked = 0
  /\ pc' = IF flags = "forever" THEN "preblock" ELSE "returned"
  /\ UNCHANGED <<lib, flags, wait, armed, broke, fdVars, workVars>>

Next ==
  RunClosure \/ Signal \/ Preblock \/ Decide \/ Library \/ Timers \/ Asap \/ Again

Spec == Init /\ [][Next]_vars

(* Properties *)

\* The library blocks only when there is nothing to do and everything that was
\* asked for is watched, and when there is a timer it will not block beyond it.
ForeignNoOversleep ==
  pc = "wait" /\ wait =>
    /\ asap = 0 /\ unblocked = 0 /\ expired = {}
    /\ \A f \in Fd : have[f] = want[f]
    /\ set # {} => armed

\* loop() returns of its own accord only when no descriptor is watched by
\* anybody, no foreground timer is set and no signal is waited for in the
\* foreground: the running count of descriptors has come down to the truth,
\* through changes of several actions, triggers and closed descriptors.
ForeignReturnsIdle ==
  /\ fdactive = Cardinality({f \in Fd : have[f] # {}})
  /\ pc = "returned" /\ flags = "forever" =>
       /\ \A f \in Fd : want[f] = {}
       /\ set \subseteq Background
       /\ signal # "foreground"

\* When the loop of libevent returns, the library does not hold the timer in the
\* frame that is gone.  (libev may: its timer is not stopped on return.)
NoDeadTimer == pc = "returned" /\ lib = "libevent" => ~armed

\* "Exit the current driver loop" (driver.hh): a loop that was broken does not
\* begin another round.
BreakEnds == broke => pc # "preblock"
===============================================================================
