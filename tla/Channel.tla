-------------------------------- MODULE Channel --------------------------------
(***************************************************************************)
(* tamer::channel: a double-ended queue of values and a queue of the events *)
(* of those that wait for one.  An event may be canceled while it waits; it *)
(* stays in the queue and is passed over.  An operation triggers an event   *)
(* before it removes what it took, so a function that runs within the       *)
(* trigger finds it still in place.                                         *)
(***************************************************************************)
EXTENDS Integers, Sequences, FiniteSets

CONSTANTS
  Value,      \* values, each pushed once
  Receiver,   \* calls of pop_front or pop_back
  Eager       \* receivers whose function runs within the trigger, and may use the channel

\* What the constants must satisfy; each instance assumes it.
ChannelAssumption == Eager \subseteq Receiver

VARIABLES
  q,          \* q_
  waitq,      \* waitq_
  live,       \* receivers whose event is active
  got,        \* the value that each receiver was given, or none
  pushed,     \* values pushed so far
  fresh,      \* receivers that have not asked
  pending,    \* calls in the middle of a trigger: what each removes when it goes on
  crossed     \* such a call's function touched what the call was about to remove

vars == <<q, waitq, live, got, pushed, fresh, pending, crossed>>

NoValue == "no value"

\* The front of waitq_, or an end of q_.
Removal == {"waiting", "front", "back"}
Pending == {pending[i] : i \in DOMAIN pending}

Init ==
  /\ q = <<>> /\ waitq = <<>>
  /\ live = {}
  /\ got = [r \in Receiver |-> NoValue]
  /\ pushed = {}
  /\ fresh = Receiver
  /\ pending = <<>>
  /\ crossed = FALSE

\* Dead events at the front are dropped.
Passed(w) ==
  LET dead == CHOOSE n \in 0 .. Len(w) :
                /\ \A i \in 1 .. n : w[i] \notin live
                /\ n < Len(w) => w[n + 1] \in live
  IN SubSeq(w, dead + 1, Len(w))

End(back) == IF back THEN "back" ELSE "front"
Put(v, back) == q' = IF back THEN Append(q, v) ELSE <<v>> \o q
Cut(end) == IF end = "back" THEN SubSeq(q, 1, Len(q) - 1) ELSE Tail(q)

\* The values that no call is about to remove.
Taken(end) == IF end \in Pending THEN 1 ELSE 0
Kept == SubSeq(q, 1 + Taken("front"), Len(q) - Taken("back"))

\* The first in w is given the value.  If its function runs at once, the event
\* is still at the front of waitq_ in the meantime.
Serve(w, v) ==
  /\ got' = [got EXCEPT ![Head(w)] = v]
  /\ live' = live \ {Head(w)}
  /\ IF Head(w) \in Eager
     THEN waitq' = w /\ pending' = Append(pending, "waiting")
     ELSE waitq' = Tail(w) /\ UNCHANGED pending
  /\ UNCHANGED q

PushOn(w, v, back) ==
  /\ v \notin pushed
  /\ pushed' = pushed \cup {v}
  /\ \/ w # <<>> /\ Serve(w, v)
     \/ w = <<>> /\ Put(v, back) /\ waitq' = w /\ UNCHANGED <<live, got, pending>>
  /\ crossed' = (crossed \/ "waiting" \in Pending \/ End(back) \in Pending)
  /\ UNCHANGED fresh

BugNoPass(v, back) ==
  IF waitq = <<>> \/ Head(waitq) \in live
  THEN PushOn(waitq, v, back)
  ELSE /\ v \notin pushed /\ pushed' = pushed \cup {v}
       /\ waitq' = Tail(waitq)
       /\ UNCHANGED <<q, live, got, fresh, pending, crossed>>

BugServesLast(v, back) ==
  LET w == Passed(waitq)
  IN PushOn(IF w = <<>> \/ w[Len(w)] \notin live THEN w
            ELSE <<w[Len(w)]>> \o SubSeq(w, 1, Len(w) - 1), v, back)

\* push_front and push_back, up to the end of the trigger if a function runs in it.
Push(v, back) == PushOn(Passed(waitq), v, back)

\* pop_front and pop_back, up to there.
Pop(r, back) ==
  /\ r \in fresh
  /\ fresh' = fresh \ {r}
  /\ \/ /\ q = <<>>
        /\ waitq' = Append(waitq, r)
        /\ live' = live \cup {r}
        /\ UNCHANGED <<q, got, pending, crossed>>
     \/ /\ q # <<>>
        /\ got' = [got EXCEPT ![r] = IF back THEN q[Len(q)] ELSE Head(q)]
        /\ IF r \in Eager
           THEN pending' = Append(pending, End(back)) /\ UNCHANGED q
           ELSE q' = Cut(End(back)) /\ UNCHANGED pending
        /\ crossed' = (crossed \/ Kept = <<>> \/ End(back) \in Pending)
        /\ UNCHANGED <<waitq, live>>
  /\ UNCHANGED pushed

\* The function has run, and the innermost call removes whatever is there now.
\* Of an empty deque that is undefined: no such step.
Return ==
  /\ pending # <<>>
  /\ pending' = SubSeq(pending, 1, Len(pending) - 1)
  /\ LET end == pending[Len(pending)] IN
       \/ /\ end = "waiting" /\ waitq # <<>>
          /\ waitq' = Tail(waitq)
          /\ live' = live \ {Head(waitq)}
          /\ UNCHANGED q
       \/ end # "waiting" /\ q # <<>> /\ q' = Cut(end) /\ UNCHANGED <<waitq, live>>
  /\ UNCHANGED <<got, pushed, fresh, crossed>>

Cancel(r) ==
  /\ r \in live
  /\ live' = live \ {r}
  /\ UNCHANGED <<q, waitq, got, pushed, fresh, pending, crossed>>

Next ==
  \/ \E v \in Value, back \in BOOLEAN : Push(v, back)
  \/ \E r \in Receiver, back \in BOOLEAN : Pop(r, back)
  \/ Return
  \/ \E r \in Receiver : Cancel(r)

Spec == Init /\ [][Next]_vars

(* Properties *)

\* No value waits beside a receiver that waits, and each value that was pushed
\* is in the channel or was given to one receiver, also when receivers were
\* canceled or used the channel while they were served: as long as no function
\* within a push's trigger pushes, and none within a pop's takes, or puts
\* something before, the value that this pop gives.
NothingWaitsForNothing ==
  /\ live \subseteq {waitq[i] : i \in DOMAIN waitq}
  /\ crossed
     \/ /\ q # <<>> => live = {}
        /\ \A v \in pushed :
             Cardinality({i \in DOMAIN Kept : Kept[i] = v})
               + Cardinality({r \in Receiver : got[r] = v}) = 1

\* Receivers that wait are served in the order in which they asked, and a
\* receiver that has been served, or canceled, is never served again.  Under the
\* same condition nobody leaves the line but those.
ServedInOrder ==
  [][/\ \A i, j \in DOMAIN waitq :
          i < j /\ waitq[i] \in live /\ got'[waitq[j]] # got[waitq[j]]
            => got'[waitq[i]] # got[waitq[i]]
     /\ \A r \in Receiver :
          got'[r] # got[r] => got[r] = NoValue /\ r \in live \cup fresh
     /\ crossed' \/ \A r \in live \ live' : got'[r] # got[r] \/ Cancel(r)]_vars
===============================================================================
