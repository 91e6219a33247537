------------------------------- MODULE RunQueue -------------------------------
(***************************************************************************)
(* What a driver promises about closures: a closure that has blocked and   *)
(* is then unblocked runs once, after those unblocked before it.           *)
(* SimpleDriver implements this with slots and links.                      *)
(***************************************************************************)
EXTENDS Naturals, Sequences

CONSTANTS Closure

VARIABLES
  blocked,   \* closures blocked on the driver
  queue      \* unblocked closures, the one to run next first

vars == <<blocked, queue>>

Queued == {queue[i] : i \in DOMAIN queue}

Init == blocked = {} /\ queue = <<>>

Block(c) ==
  /\ c \notin blocked \cup Queued
  /\ blocked' = blocked \cup {c}
  /\ UNCHANGED queue

Unblock(c) ==
  /\ c \in blocked
  /\ blocked' = blocked \ {c}
  /\ queue' = Append(queue, c)

RunNext ==
  /\ queue # <<>>
  /\ queue' = Tail(queue)
  /\ UNCHANGED blocked

Next == RunNext \/ \E c \in Closure : Block(c) \/ Unblock(c)

Spec == Init /\ [][Next]_vars /\ WF_vars(RunNext)
===============================================================================
