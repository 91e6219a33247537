-------------------------------- MODULE Watches --------------------------------
(***************************************************************************)
(* What is between the library and the kernel: the descriptors and signals *)
(* that the tamer driver watches, and the loops over libev and libevent,   *)
(* each a model of its own for any values of its constants.                *)
(***************************************************************************)
EXTENDS FdWatch, Integers

CONSTANTS
  NSig, SigEvent, CancelHot,              \* of Signals
  LibFd, LibTimer, Background, MaxWork    \* of ForeignLoop

VARIABLES
  handlers, joined, foreground, nforeground, sigaction, blocked, pending, active, any,
  pipe, dispatching, unblocked, pc, scan,
  lib, flags, fpc, fwant, changed, have, fdactive, set, expired, asap, preblock,
  unblockeds, signal, wait, armed, broke

signalVars == <<handlers, joined, foreground, nforeground, sigaction, blocked, pending,
                active, any, pipe, dispatching, unblocked, pc, scan>>
foreignVars == <<lib, flags, fpc, fwant, changed, have, fdactive, set, expired, asap,
                 preblock, unblockeds, signal, wait, armed, broke>>

Sigs == INSTANCE Signals WITH Event <- SigEvent, action <- sigaction

Foreign == INSTANCE ForeignLoop WITH
  Fd <- LibFd, Timer <- LibTimer, pc <- fpc, want <- fwant, unblocked <- unblockeds

(* Properties *)

\* A signal is not marked again before the closures it woke have run, and has its
\* handler as long as somebody waits for it; the foreground events are counted; and
\* the driver does not sleep with a marked signal unless the pipe wakes it.
SignalSafety ==
  /\ Sigs!RespondersUndisturbed /\ Sigs!HandlerInstalled /\ Sigs!ForegroundExact
  /\ Sigs!NoSleepOnSignal

\* libev and libevent block only when everything wanted is watched and nothing is
\* left to do, and not beyond the first timer.
ForeignNoOversleep == Foreign!ForeignNoOversleep

\* fdactive_ counts the watched descriptors, the loop returns of its own accord
\* only when no descriptor is watched, no foreground timer is set and no foreground
\* signal is waited for, and libevent does not then hold the timer of its frame.
ForeignReturnsIdle == Foreign!ForeignReturnsIdle /\ Foreign!NoDeadTimer
===============================================================================
