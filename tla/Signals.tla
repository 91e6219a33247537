-------------------------------- MODULE Signals --------------------------------
(***************************************************************************)
(* Signals (tamer/dsignal.cc and the driver loop of tamer/dtamer.cc): the  *)
(* handler marks a signal and writes to a pipe; the loop, which sleeps on  *)
(* that pipe, dispatches marked signals with the signals blocked.  The     *)
(* handler interrupts the program between any two of its steps.  A signal  *)
(* whose default action is taken is ignored here, like SIGCHLD.            *)
(* Definitions named Bug... are seeded faults that the properties notice.  *)
(***************************************************************************)
EXTENDS Naturals, FiniteSets

CONSTANTS
  NSig,      \* signals are 1 .. NSig
  Event,     \* events for at_signal; one that has triggered may come again
  CancelHot  \* may an event be canceled between the arrival of its signal and
             \* the dispatch

\* What the constants must satisfy; each instance assumes it.
SignalAssumption == NSig \in Nat \ {0} /\ CancelHot \in BOOLEAN

Signal == 1 .. NSig

VARIABLES
  handlers,     \* the active events of sig_handlers[s]
  joined,       \* sig_handlers[s] distributes to more than one event
  foreground,   \* active events that were registered in the foreground
  nforeground,  \* sig_nforeground
  action,       \* what sigaction has set: "tamer" or "default"
  blocked,      \* the signal mask of the process
  pending,      \* signals the kernel holds back
  active,       \* signals with sig_active set
  any,          \* sig_any_active
  pipe,         \* the pipe is readable
  dispatching,  \* sig_dispatching
  unblocked,    \* the dispatch has made closures runnable
  pc,           \* where the driver is; "user": closures may run
  scan          \* signo of the loop that looks at sig_active

events == <<handlers, joined, foreground, nforeground, action>>
kernel == <<blocked, pending>>
marks  == <<active, any, pipe>>
vars   == <<events, kernel, marks, dispatching, unblocked, pc, scan>>

Init ==
  /\ handlers = [s \in Signal |-> {}]
  /\ joined = [s \in Signal |-> FALSE]
  /\ foreground = {}
  /\ nforeground = 0
  /\ action = [s \in Signal |-> "default"]
  /\ blocked = {} /\ pending = {}
  /\ active = {} /\ any = FALSE /\ pipe = FALSE
  /\ dispatching = {} /\ unblocked = FALSE
  /\ pc = "user" /\ scan = 1

(* User code *)

UserCode == pc = "user" \/ (pc = "run" /\ unblocked)

AtSignal(s, e, fg) ==
  /\ UserCode
  /\ \A t \in Signal : e \notin handlers[t]
  /\ handlers' = [handlers EXCEPT ![s] = @ \cup {e}]
  /\ joined' = [joined EXCEPT ![s] = @ \/ handlers[s] # {}]
  /\ foreground' = IF fg THEN foreground \cup {e} ELSE foreground
  /\ nforeground' = nforeground + IF fg THEN 1 ELSE 0
  /\ action' = IF s \in dispatching THEN action ELSE [action EXCEPT ![s] = "tamer"]
  /\ UNCHANGED <<kernel, marks, dispatching, unblocked, pc, scan>>

\* The caller triggers its event: the hook of sigcancel_rendezvous, which runs
\* before the one by which a distributed sig_handlers[s] notices.
Cancel(s, e) ==
  /\ UserCode
  /\ e \in handlers[s]
  /\ s \in active => CancelHot
  /\ handlers' = [handlers EXCEPT ![s] = @ \ {e}]
  /\ joined' = [joined EXCEPT ![s] = @ /\ handlers'[s] # {}]
  /\ foreground' = foreground \ {e}
  /\ nforeground' = nforeground - Cardinality(foreground \cap {e})
  /\ action' = IF handlers'[s] = {} /\ ~joined[s] /\ s \notin dispatching
               THEN [action EXCEPT ![s] = "default"] ELSE action
  /\ UNCHANGED <<kernel, marks, dispatching, unblocked, pc, scan>>

(* The kernel and the handler *)

BugNoPipe(sigs) ==
  /\ active' = active \cup sigs
  /\ any' = (any \/ sigs # {})
  /\ UNCHANGED pipe

\* tamer_signal_handler for each of sigs
Handle(sigs) ==
  /\ active' = active \cup sigs
  /\ any' = (any \/ sigs # {})
  /\ pipe' = (pipe \/ sigs # {})

Raise(s) ==
  /\ IF s \in blocked
     THEN pending' = pending \cup {s} /\ UNCHANGED marks
     ELSE /\ action[s] = "tamer"
          /\ Handle({s})
          /\ UNCHANGED pending
  /\ UNCHANGED <<events, blocked, dispatching, unblocked, pc, scan>>

(* The driver loop up to dispatch_signals *)

Goto(from, to) == pc = from /\ pc' = to

\* The loop looks at sig_any_active and then blocks, or not.
Check ==
  /\ Goto("user", IF any THEN "polled" ELSE "sleep")
  /\ UNCHANGED <<events, kernel, marks, dispatching, unblocked, scan>>

\* Only the pipe is sure to end the sleep; a timer or a descriptor may.
Wake ==
  /\ pipe
  /\ Goto("sleep", "polled")
  /\ UNCHANGED <<events, kernel, marks, dispatching, unblocked, scan>>

OtherWake ==
  /\ Goto("sleep", "polled")
  /\ UNCHANGED <<events, kernel, marks, dispatching, unblocked, scan>>

Polled ==
  /\ Goto("polled", IF any THEN "clear" ELSE "user")
  /\ UNCHANGED <<events, kernel, marks, dispatching, unblocked, scan>>

(* dispatch_signals *)

Clear ==
  /\ Goto("clear", "drain")
  /\ any' = FALSE
  /\ UNCHANGED <<events, kernel, active, pipe, dispatching, unblocked, scan>>

Drain ==
  /\ Goto("drain", "scan")
  /\ pipe' = FALSE
  /\ scan' = 1
  /\ UNCHANGED <<events, kernel, active, any, dispatching, unblocked>>

Scan ==
  /\ Goto("scan", IF scan = NSig THEN "block" ELSE "scan")
  /\ dispatching' = dispatching \cup ({scan} \cap active)
  /\ scan' = IF scan = NSig THEN 1 ELSE scan + 1
  /\ UNCHANGED <<events, kernel, marks, unblocked>>

BugNoBlock ==
  /\ Goto("block", "trigger")
  /\ UNCHANGED <<events, kernel, marks, dispatching, unblocked, scan>>

Block ==
  /\ Goto("block", "trigger")
  /\ blocked' = blocked \cup dispatching
  /\ UNCHANGED <<events, pending, marks, dispatching, unblocked, scan>>

\* All events of the signals are triggered; their hooks find the signals in
\* sig_dispatching and leave the handlers alone.
Trigger ==
  /\ Goto("trigger", "run")
  /\ LET es == UNION {handlers[s] : s \in dispatching} IN
       /\ foreground' = foreground \ es
       /\ nforeground' = nforeground - Cardinality(foreground \cap es)
       /\ unblocked' = (es # {})
  /\ active' = active \ dispatching
  /\ handlers' = [s \in Signal |-> IF s \in dispatching THEN {} ELSE handlers[s]]
  /\ joined' = [s \in Signal |-> s \notin dispatching /\ joined[s]]
  /\ UNCHANGED <<action, kernel, any, pipe, dispatching, scan>>

\* run_unblocked has run all closures.
EndRun ==
  /\ Goto("run", "reset")
  /\ unblocked' = FALSE
  /\ UNCHANGED <<events, kernel, marks, dispatching, scan>>

Reset ==
  /\ Goto("reset", "unblock")
  /\ action' = [s \in Signal |-> IF s \in dispatching /\ handlers[s] = {}
                                 THEN "default" ELSE action[s]]
  /\ UNCHANGED <<handlers, joined, foreground, nforeground, kernel, marks,
                 dispatching, unblocked, scan>>

\* The kernel delivers what it held back before sigprocmask returns.
Unblock ==
  /\ Goto("unblock", "user")
  /\ blocked' = blocked \ dispatching
  /\ pending' = pending \cap blocked'
  /\ Handle({s \in pending \ blocked' : action[s] = "tamer"})
  /\ dispatching' = {}
  /\ UNCHANGED <<events, unblocked, scan>>

Loop ==
  \/ Check \/ Wake \/ Polled \/ Clear \/ Drain \/ Scan \/ Block \/ Trigger
  \/ EndRun \/ Reset \/ Unblock

Next ==
  \/ \E s \in Signal, e \in Event, fg \in BOOLEAN : AtSignal(s, e, fg)
  \/ \E s \in Signal, e \in Event : Cancel(s, e)
  \/ \E s \in Signal : Raise(s)
  \/ Loop \/ OtherWake

\* Closures block sooner or later and the loop comes round again.
Spec == Init /\ [][Next]_vars /\ WF_vars(Loop)

(* Properties *)

\* Every variable has its type.
TypeOK ==
  /\ handlers \in [Signal -> SUBSET Event]
  /\ joined \in [Signal -> BOOLEAN]
  /\ foreground \subseteq Event
  /\ nforeground \in Nat
  /\ action \in [Signal -> {"tamer", "default"}]
  /\ blocked \subseteq Signal /\ pending \subseteq blocked
  /\ active \subseteq Signal /\ any \in BOOLEAN /\ pipe \in BOOLEAN
  /\ dispatching \subseteq Signal /\ unblocked \in BOOLEAN
  /\ pc \in {"user", "sleep", "polled", "clear", "drain", "scan", "block",
             "trigger", "run", "reset", "unblock"}
  /\ scan \in Signal

\* Wherever the handler interrupts the loop, the driver does not sleep with a
\* marked signal unless the pipe wakes it.
NoSleepOnSignal == pc = "sleep" /\ active # {} => any /\ pipe

\* "The signal remains blocked at least until e has been triggered and any
\* corresponding closure has run" (tamer.3): no second mark in between.
RespondersUndisturbed == pc \in {"run", "reset"} => active \cap dispatching = {}

\* "Programmers can safely catch signals without race conditions" (tamer.3): the
\* default action is not taken as long as somebody waits for the signal.
HandlerInstalled == \A s \in Signal : handlers[s] # {} => action[s] = "tamer"

\* The loop may return for want of foreground events: sig_nforeground counts them.
ForegroundExact ==
  /\ foreground \subseteq UNION {handlers[s] : s \in Signal}
  /\ nforeground = Cardinality(foreground)

\* Each marked signal is dispatched.
SignalDispatched == \A s \in Signal : s \in active ~> s \notin active
===============================================================================
