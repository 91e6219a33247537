-------------------------------- MODULE Queues --------------------------------
(***************************************************************************)
(* The channel, the ring of asap events and the heap of timers: models of  *)
(* their own, side by side, for any values of their constants.             *)
(***************************************************************************)
EXTENDS Channel

CONSTANTS
  Event, Width, FirstMask, MaxLength,                  \* of AsapRing
  Timer, Background, Arity, CullAt, HalfRange, MaxTime, HookPush, None   \* of TimerSet

VARIABLES
  ses, head, tail, capmask,
  ts, nfg, order, active, held, popping, firing, probing, clock

ringVars == <<ses, head, tail, capmask>>
timerVars == <<ts, nfg, order, active, held, popping, firing, probing, clock>>

Ring == INSTANCE AsapRing
Timers == INSTANCE TimerSet WITH Event <- Timer

(* Properties *)

\* The ring implements a first-in first-out queue, as it grows and wraps around.
ImplementsEventQueue == Ring!ImplementsEventQueue

\* Each record in the heap holds a reference to its event, no reference is left
\* without a record, and nfg_ counts the foreground records, canceled ones too.
HeapOwns == Timers!HeapOwns /\ Timers!ForegroundExact

\* After any mixture of pushes, probes and removals no record of the heap is
\* before its parent.
HeapOrder == Timers!HeapOrder
===============================================================================
