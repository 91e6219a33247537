------------------------------ MODULE DriverLoop ------------------------------
(***************************************************************************)
(* driver_tamer::loop (tamer/dtamer.cc): one round triggers preblock       *)
(* events, runs closures, works out how long to sleep, polls, and triggers *)
(* descriptor, timer and asap events, running closures after each kind.    *)
(* The queue of closures is RunQueue and the timers are TimerQueue, which  *)
(* SimpleDriver and TimerSet implement.  Signals are in module Signals.    *)
(* Definitions named Bug... are seeded faults that the properties notice.  *)
(***************************************************************************)
EXTENDS Integers, Sequences, FiniteSets

CONSTANTS
  NTask,       \* closures are 1 .. NTask
  Background,  \* those whose timers do not keep the loop running
  Times,       \* bound: the times that timers are set for
  MaxTime,     \* bound: the clock goes from 0 to MaxTime
  PerMs,       \* units of time in a millisecond, 1000 in the code
  Round,       \* units added before the division by PerMs, 250 in the code
  IntRange,    \* values of an int, 2^32 in the code
  Never        \* no timeout

\* What the constants must satisfy; each instance assumes it.
LoopAssumption ==
  /\ NTask \in Nat /\ MaxTime \in Nat
  /\ Times \subseteq Nat /\ \A when \in Times : when + Round <= MaxTime
  /\ PerMs \in Nat \ {0} /\ Round \in 0 .. PerMs - 1
  /\ IntRange \in Nat \ {0} /\ IntRange % 2 = 0
  /\ Background \subseteq 1 .. NTask
  /\ Never \notin Nat

Task == 1 .. NTask

VARIABLES
  blocked, queue,  \* RunQueue
  due, clock,      \* TimerQueue
  running,         \* the closure that runs, or Nobody
  asap,            \* asap_: the closures that wait for these events, in order
  preblock,        \* preblock_
  onfd,            \* closures that wait for a descriptor
  fdready,         \* of those, the ones whose descriptor is ready
  parked,          \* closures that wait for another closure
  recent,          \* the time the loop has last looked at
  loopState,       \* loop_state_
  timeout,         \* when poll gives up: a time, or Never
  pc               \* "out": loop has not been called

waits    == <<asap, preblock, onfd, fdready, parked>>
loopVars == <<recent, loopState, timeout>>
vars     == <<blocked, queue, due, clock, running, waits, loopVars, pc>>

Nobody == 0

\* To fire a timer is one step here.
Closures == INSTANCE RunQueue WITH Closure <- Task
Timers   == INSTANCE TimerQueue WITH Event <- Task, None <- Nobody, firing <- Nobody

Init ==
  /\ Closures!Init /\ Timers!Init
  /\ running = Nobody
  /\ asap = <<>> /\ preblock = <<>>
  /\ onfd = {} /\ fdready = {} /\ parked = {}
  /\ recent = 0 /\ loopState = FALSE /\ timeout = 0
  /\ pc = "out"

(* What closures do *)

\* Closure t asks the driver for an event and blocks, or waits for another closure.
BlockOn(t) ==
  /\ Closures!Block(t)
  /\ \/ /\ asap' = Append(asap, t)
        /\ UNCHANGED <<due, clock, preblock, onfd, parked>>
     \/ /\ preblock' = Append(preblock, t)
        /\ UNCHANGED <<due, clock, asap, onfd, parked>>
     \/ /\ \E when \in Times : Timers!At(t, when)
        /\ UNCHANGED <<asap, preblock, onfd, parked>>
     \/ /\ onfd' = onfd \cup {t}
        /\ UNCHANGED <<due, clock, asap, preblock, parked>>
     \/ /\ parked' = parked \cup {t}
        /\ UNCHANGED <<due, clock, asap, preblock, onfd>>

\* A tamed function that is called outside the loop runs until it blocks.
Start(t) ==
  /\ pc = "out"
  /\ BlockOn(t)
  /\ UNCHANGED <<running, fdready, loopVars, pc>>

RunPhases == {"run1", "run2", "run3", "run4"}

\* run_unblocked resumes the closure in front ...
Resume ==
  /\ pc \in RunPhases
  /\ running = Nobody
  /\ Closures!RunNext
  /\ running' = Head(queue)
  /\ UNCHANGED <<due, clock, waits, loopVars, pc>>

\* ... which may trigger what a parked closure waits for (a later one, lest they
\* wake one another for ever), may call break_loop, ...
WakeParked(p) ==
  /\ running # Nobody /\ running < p
  /\ p \in parked
  /\ Closures!Unblock(p)
  /\ parked' = parked \ {p}
  /\ UNCHANGED <<due, clock, running, asap, preblock, onfd, fdready, loopVars, pc>>

BreakLoop ==
  /\ running # Nobody
  /\ loopState' = FALSE
  /\ UNCHANGED <<blocked, queue, due, clock, running, waits, recent, timeout, pc>>

\* ... and in the end blocks again.
Yield ==
  /\ running # Nobody
  /\ BlockOn(running)
  /\ running' = Nobody
  /\ UNCHANGED <<fdready, loopVars, pc>>

(* The environment *)

Tick ==
  /\ Timers!Tick
  /\ UNCHANGED <<blocked, queue, running, waits, loopVars, pc>>

\* What becomes ready while the answer of poll is dealt with is in the next answer.
Ready(t) ==
  /\ t \in onfd \ fdready
  /\ pc # "fds"
  /\ fdready' = fdready \cup {t}
  /\ UNCHANGED <<blocked, queue, due, clock, running, asap, preblock, onfd, parked,
                 loopVars, pc>>

(* The loop *)

Goto(from, to) == pc = from /\ pc' = to

DueBy(time) == due # <<>> /\ Head(due).when <= time

\* loop_forever sets loop_state_; loop_once leaves it as it is.
Enter(forever) ==
  /\ Goto("out", "preblock")
  /\ loopState' = (loopState \/ forever)
  /\ UNCHANGED <<blocked, queue, due, clock, running, waits, recent, timeout>>

TriggerPreblock ==
  /\ pc = "preblock"
  /\ preblock # <<>>
  /\ Closures!Unblock(Head(preblock))
  /\ preblock' = Tail(preblock)
  /\ UNCHANGED <<due, clock, running, asap, onfd, fdready, parked, loopVars, pc>>

\* All events of a kind have been triggered: run_unblocked is called.
BeginRun ==
  /\ \/ Goto("preblock", "run1") /\ preblock = <<>>
     \/ Goto("fds", "run2") /\ fdready = {}
     \/ Goto("timers", "run3") /\ ~DueBy(recent)
     \/ Goto("asap", "run4") /\ asap = <<>>
  /\ UNCHANGED <<blocked, queue, due, clock, running, waits, loopVars>>

BugAsapDrains ==
  /\ running = Nobody /\ queue = <<>>
  /\ \/ Goto("run1", "timeout") \/ Goto("run2", "timers") \/ Goto("run3", "asap")
     \/ Goto("run4", IF asap # <<>> THEN "asap" ELSE "check")
  /\ UNCHANGED <<blocked, queue, due, clock, running, waits, loopVars>>

EndRun ==
  /\ running = Nobody /\ queue = <<>>
  /\ \/ Goto("run1", "timeout") \/ Goto("run2", "timers")
     \/ Goto("run3", "asap") \/ Goto("run4", "check")
  /\ UNCHANGED <<blocked, queue, due, clock, running, waits, loopVars>>

Foreground == onfd # {} \/ \E i \in DOMAIN due : due[i].e \notin Background

\* Something is to be done at once.
PollNow ==
  /\ Goto("timeout", "poll")
  /\ asap # <<>> \/ DueBy(clock)
  /\ timeout' = 0
  /\ recent' = IF asap = <<>> THEN clock ELSE recent
  /\ UNCHANGED <<blocked, queue, due, clock, running, waits, loopState>>

\* What an int makes of n
AsInt(n) == LET m == n % IntRange IN IF m < IntRange \div 2 THEN m ELSE m - IntRange

\* blockms, for a timer that fires in so many units: rounded to milliseconds, most
\* of the time down, and cut to the width of an int
BlockMs(left) == AsInt((left + Round) \div PerMs)

\* When poll gives up; it takes a negative number for no timeout.
Timeout ==
  IF due = <<>> \/ BlockMs(Head(due).when - clock) < 0 THEN Never
  ELSE clock + PerMs * BlockMs(Head(due).when - clock)

BugIgnoresAsap ==
  /\ Goto("timeout", "poll")
  /\ ~DueBy(clock)
  /\ Foreground
  /\ timeout' = Timeout
  /\ recent' = IF due = <<>> THEN recent ELSE clock
  /\ UNCHANGED <<blocked, queue, due, clock, running, waits, loopState>>

\* Sleep until about the first timer, or for as long as it takes.
PollLater ==
  /\ Goto("timeout", "poll")
  /\ asap = <<>> /\ ~DueBy(clock)
  /\ Foreground
  /\ timeout' = Timeout
  /\ recent' = IF due = <<>> THEN recent ELSE clock
  /\ UNCHANGED <<blocked, queue, due, clock, running, waits, loopState>>

\* No more foreground events: loop returns, and loop_state_ stays what it is.
ReturnIdle ==
  /\ Goto("timeout", "out")
  /\ asap = <<>> /\ ~DueBy(clock)
  /\ ~Foreground
  /\ recent' = IF due = <<>> THEN recent ELSE clock
  /\ UNCHANGED <<blocked, queue, due, clock, running, waits, loopState, timeout>>

\* poll and epoll_wait report what is ready, or that the time is up; a signal
\* may interrupt them.
PollDone ==
  /\ Goto("poll", "fds")
  /\ fdready # {} \/ (timeout # Never /\ timeout <= clock)
  /\ recent' = clock
  /\ UNCHANGED <<blocked, queue, due, clock, running, waits, loopState, timeout>>

PollInterrupted ==
  /\ Goto("poll", "fds")
  /\ fdready = {}
  /\ recent' = clock
  /\ UNCHANGED <<blocked, queue, due, clock, running, waits, loopState, timeout>>

TriggerFd(t) ==
  /\ pc = "fds"
  /\ t \in fdready
  /\ Closures!Unblock(t)
  /\ onfd' = onfd \ {t}
  /\ fdready' = fdready \ {t}
  /\ UNCHANGED <<due, clock, running, asap, preblock, parked, loopVars, pc>>

TriggerTimer ==
  /\ pc = "timers"
  /\ DueBy(recent)
  /\ Timers!Serve
  /\ Closures!Unblock(Head(due).e)
  /\ UNCHANGED <<running, waits, loopVars, pc>>

TriggerAsap ==
  /\ pc = "asap"
  /\ asap # <<>>
  /\ Closures!Unblock(Head(asap))
  /\ asap' = Tail(asap)
  /\ UNCHANGED <<due, clock, running, preblock, onfd, fdready, parked, loopVars, pc>>

Check ==
  /\ Goto("check", IF loopState THEN "preblock" ELSE "out")
  /\ UNCHANGED <<blocked, queue, due, clock, running, waits, loopVars>>

Loop ==
  \/ TriggerPreblock \/ BeginRun \/ Resume \/ Yield \/ EndRun
  \/ PollNow \/ PollLater \/ ReturnIdle \/ PollDone
  \/ \E t \in Task : TriggerFd(t)
  \/ TriggerTimer \/ TriggerAsap \/ Check

Next ==
  \/ Loop \/ BreakLoop \/ PollInterrupted \/ Tick
  \/ \E t \in Task : Start(t) \/ WakeParked(t) \/ Ready(t)
  \/ \E forever \in BOOLEAN : Enter(forever)

\* Each closure blocks sooner or later, the program calls loop again and again,
\* and time goes on.
Spec ==
  /\ Init /\ [][Next]_vars
  /\ WF_vars(Loop) /\ WF_vars(\E forever \in BOOLEAN : Enter(forever)) /\ WF_vars(Tick)

(* Properties *)

\* Every variable has its type.
TypeOK ==
  /\ blocked \subseteq Task /\ queue \in Seq(Task)
  /\ due \in Seq([e : Task, when : Times]) /\ clock \in 0 .. MaxTime
  /\ running \in Task \cup {Nobody}
  /\ asap \in Seq(Task) /\ preblock \in Seq(Task)
  /\ onfd \subseteq blocked /\ fdready \subseteq onfd /\ parked \subseteq blocked
  /\ recent \in 0 .. clock
  /\ loopState \in BOOLEAN
  /\ timeout \in 0 .. MaxTime \cup {Never}
  /\ pc \in RunPhases \cup {"out", "preblock", "timeout", "poll", "fds", "timers",
                            "asap", "check"}

\* The first timer was too far away for an int of milliseconds, when the loop
\* looked: 2^31 of them are 24.8 days.
TooFar(when) == when - recent + Round >= (IntRange \div 2) * PerMs

\* The loop does not sleep while a closure can run or an asap event is to be
\* triggered.  It sleeps beyond the first timer, which is to be triggered "at
\* timestamp expiry, or soon afterwards" (tamer/driver.hh:155), by no more than the
\* code adds in rounding, and without a limit only if there is no timer or all are
\* too far away for its int.
NoOversleep ==
  pc = "poll" =>
    /\ queue = <<>>
    /\ timeout # 0 => asap = <<>>
    /\ \A i \in DOMAIN due :
         IF timeout = Never THEN TooFar(due[i].when) ELSE timeout <= due[i].when + Round

\* No call of loop returns with a closure that could run.
NothingLeftToRun == pc = "out" => queue = <<>>

\* Whatever closures ask for when they run, none starves another: an asap event is
\* triggered, a timer fires, and a ready descriptor is served.  A timer that was too
\* far away may find the loop asleep without a limit.
EventsServed ==
  \A t \in Task :
    /\ (\E i \in DOMAIN asap : asap[i] = t) ~> ~\E i \in DOMAIN asap : asap[i] = t
    /\ (t \in Timers!Timed) ~> (t \notin Timers!Timed \/ (pc = "poll" /\ timeout = Never))
    /\ (t \in fdready) ~> (t \notin fdready)
===============================================================================
