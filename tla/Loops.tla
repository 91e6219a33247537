--------------------------------- MODULE Loops ---------------------------------
(***************************************************************************)
(* Who gets a turn: loop() of the tamer driver, which resumes closures and *)
(* triggers events, and the mutex, whose waiters it resumes.  The two are  *)
(* models of their own, for any values of their constants.                 *)
(***************************************************************************)
EXTENDS Mutex

CONSTANTS   \* of DriverLoop
  NTask, Background, Times, MaxTime, PerMs, Round, IntRange, Never

VARIABLES
  blocked, queue, due, clock, running, asap, preblock, onfd, fdready, parked, recent,
  loopState, timeout, tpc

tamerVars == <<blocked, queue, due, clock, running, asap, preblock, onfd, fdready,
               parked, recent, loopState, timeout, tpc>>

Tamer == INSTANCE DriverLoop WITH pc <- tpc

(* Properties *)

\* The tamer driver does not sleep while a closure can run or an asap event is to
\* be triggered, nor beyond the first timer but for what rounding to milliseconds
\* adds, unless that timer is too far away for an int of them; and no call of its
\* loop returns with a closure that could run.
NoOversleep == Tamer!NoOversleep /\ Tamer!NothingLeftToRun
===============================================================================
