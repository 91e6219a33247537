--------------------------- MODULE RendezvousProofs ---------------------------
(***************************************************************************)
(* Theorems about Rendezvous: type correctness, and that no wake-up is     *)
(* lost, false or doubled, whatever the sets of events, closures and       *)
(* rendezvous.  They rest on one inductive invariant, WakeInv; the first   *)
(* lemmas say that every action preserves the variables' types.            *)
(***************************************************************************)
EXTENDS Rendezvous, SequenceTheorems, FiniteSetTheorems, TLAPS

ClearOps == {"clear", "visit", "next"}

\* Frame f may lie on the frames of s from number lo on.
\*   - A function that is on the stack is running, on it once, and waits only
\*     on rendezvous of its own.
\*   - A closure being deleted has left the queue for good.
\*   - A rendezvous is cleared by its owner: by the delete of the closure, or by
\*     a call from the body, which is then deeper on the stack.
Fits(f, lo, s, st) ==
  /\ f.op \in {"run", "twait"} =>
       /\ st[f.c] = "running"
       /\ \A j \in lo .. Len(s) : s[j].op \in {"run", "twait"} => s[j].c # f.c
  /\ f.op = "twait" => f.r \in Owned(f.c)
  /\ f.op = "free" => st[f.c] \in {"exiting", "freed"} /\ f.left \subseteq Owned(f.c)
  /\ f.op \in ClearOps =>
       \/ st[OwnerOf(f.r)] \in {"exiting", "freed"}
       \/ /\ f.r \in Explicit
          /\ \E j \in lo .. Len(s) : s[j].op = "run" /\ s[j].c = OwnerOf(f.r)

StackOK(s, st) == \A i \in 1 .. Len(s) : Fits(s[i], i + 1, s, st)

\* Which rendezvous would unblock closure c, and what c may find there.
Awaits(c) ==
  /\ \A r \in Owned(c) : blockedClosure[r] \in {c, None}
  /\ \/ status[c] \in {"unstarted", "running"}
     \/ status[c] = "queued" /\ position[c] # "exit"
     => \A r \in Owned(c) : blockedClosure[r] = None
  /\ status[c] = "blocked" =>
       /\ position[c] \in Owned(c)
       /\ \A r \in Owned(c) : blockedClosure[r] = c <=> r = position[c]
       /\ ~Joinable(position[c])
  /\ status[c] = "queued" /\ position[c] # "exit" =>
       position[c] \in Owned(c) /\ Joinable(position[c])

InQueue ==
  /\ \A i \in 1 .. Len(runq) : status[runq[i]] = "queued"
  /\ \A i, j \in 1 .. Len(runq) : runq[i] = runq[j] => i = j
  /\ \A c \in Closure : status[c] = "queued" => \E i \in 1 .. Len(runq) : runq[i] = c

WakeInv ==
  /\ TypeOK
  /\ StackOK(stack, status)
  /\ InQueue
  /\ \A c \in Closure : Awaits(c)

(***************************************************************************)
(* Type correctness.                                                       *)
(***************************************************************************)

\* What each kind of frame carries.
LEMMA FrameFields ==
  ASSUME NEW s \in Seq(Frame), s # <<>>
  PROVE  /\ Head(s) \in Frame
         /\ Tail(s) \in Seq(Frame)
         /\ Head(s).op = "run" => Head(s).c \in Closure
         /\ Head(s).op = "twait" => Head(s).c \in Closure /\ Head(s).r \in Blocking
         /\ Head(s).op = "free" => Head(s).c \in Closure /\ Head(s).left \in SUBSET Blocking
         /\ Head(s).op \in {"trigger", "finish"} => Head(s).ev \in Event
         /\ Head(s).op = "finish" => Head(s).reduce \in BOOLEAN
         /\ Head(s).op = "clear" => Head(s).r \in Blocking
         /\ Head(s).op \in {"visit", "next"} =>
              Head(s).r \in Blocking /\ Head(s).list \in Seq(Event)
         /\ Head(s).op = "next" => Head(s).list # <<>>
<1>1. Head(s) \in Frame /\ Tail(s) \in Seq(Frame)
  OBVIOUS
<1>2. QED
  BY <1>1 DEF Frame

\* Pushing a frame on a stack.
LEMMA ConsFrame ==
  ASSUME NEW s \in Seq(Frame), NEW f \in Frame
  PROVE  <<f>> \o s \in Seq(Frame)
  OBVIOUS

\* Unlinking an event leaves a list of events.
LEMMA UnlinkType ==
  ASSUME TypeOK, NEW e \in Event, rdv[e] \in Rdv
  PROVE  Unlink(e) \in Seq(Event)
<1> DEFINE list == waiting[rdv[e]]
           at == CHOOSE i \in DOMAIN list : list[i] = e
<1>1. list \in Seq(Event)
  BY DEF TypeOK
<1>2. CASE \E i \in DOMAIN list : list[i] = e
  <2>1. at \in 1 .. Len(list)
    BY <1>1, <1>2
  <2>2. \A i \in 1 .. at - 1 : list[i] \in Event
    BY <1>1, <2>1
  <2>3. \A i \in at + 1 .. Len(list) : list[i] \in Event
    BY <1>1, <2>1
  <2>4. Len(list) \in Int /\ at - 1 \in Int /\ at + 1 \in Int
    BY <1>1, <2>1
  <2>5. SubSeq(list, 1, at - 1) \in Seq(Event)
    <3> HIDE DEF list, at
    <3> QED BY <2>2, <2>4, SubSeqProperties
  <2>6. SubSeq(list, at + 1, Len(list)) \in Seq(Event)
    <3> HIDE DEF list, at
    <3> QED BY <2>3, <2>4, SubSeqProperties
  <2>7. QED
    BY <1>2, <2>5, <2>6 DEF Unlink
<1>3. CASE ~ \E i \in DOMAIN list : list[i] = e
  BY <1>1, <1>3 DEF Unlink
<1>4. QED
  BY <1>2, <1>3

\* The part of TypeOK that a trigger can disturb.
TriggerTypes ==
  /\ life \in [Event -> {"unborn", "live", "deleted"}]
  /\ rdv \in [Event -> Rdv \cup {None}]
  /\ refs \in [Event -> Int]
  /\ hook \in [Event -> Event \cup {None}]
  /\ waiting \in [Rdv -> Seq(Event)]
  /\ ready \in [Explicit -> Seq(Event)]
  /\ blockedClosure \in [Blocking -> Closure \cup {None}]
  /\ status \in [Closure -> Status]
  /\ runq \in Seq(Closure)
  /\ stack \in Seq(Frame)

\* Unblocking a closure, or whatever closure a rendezvous blocks.
LEMMA UnblockType ==
  ASSUME TypeOK, NEW c \in Closure, Unblock(c)
  PROVE  /\ runq' \in Seq(Closure)
         /\ status' \in [Closure -> Status]
<1>1. CASE status[c] = "blocked"
  <2>1. status' = [status EXCEPT ![c] = "queued"] /\ runq' = Append(runq, c)
    BY <1>1 DEF Unblock
  <2>2. "queued" \in Status /\ status \in [Closure -> Status] /\ runq \in Seq(Closure)
    BY DEF TypeOK, Status
  <2>3. QED
    BY <2>1, <2>2
<1>2. CASE status[c] # "blocked"
  BY <1>2 DEF TypeOK, Unblock
<1>3. QED
  BY <1>1, <1>2

LEMMA UnblockRdvType ==
  ASSUME TypeOK, NEW r \in Blocking, UnblockRdv(r)
  PROVE  /\ runq' \in Seq(Closure)
         /\ status' \in [Closure -> Status]
         /\ blockedClosure' \in [Blocking -> Closure \cup {None}]
<1>1. CASE blockedClosure[r] = None
  BY <1>1 DEF TypeOK, UnblockRdv
<1>2. CASE blockedClosure[r] # None
  <2>1. blockedClosure[r] \in Closure /\ Unblock(blockedClosure[r])
    BY <1>2 DEF TypeOK, UnblockRdv
  <2>2. blockedClosure' \in [Blocking -> Closure \cup {None}]
    BY <1>2 DEF TypeOK, UnblockRdv
  <2>3. QED
    BY <2>1, <2>2, UnblockType
<1>3. QED
  BY <1>1, <1>2

\* The hook of a triggered event is called on top of the frames to return to.
LEMMA CallHookType ==
  ASSUME TypeOK, NEW e \in Event, NEW rest \in Seq(Frame), CallHook(e, rest)
  PROVE  hook' \in [Event -> Event \cup {None}] /\ stack' \in Seq(Frame)
<1>1. hook' \in [Event -> Event \cup {None}]
  BY DEF TypeOK, CallHook
<1>2. CASE hook[e] = None
  BY <1>1, <1>2 DEF CallHook
<1>3. CASE hook[e] # None
  <2>1. [op |-> "trigger", ev |-> hook[e]] \in Frame
    BY <1>3 DEF TypeOK, Frame
  <2>2. QED
    BY <1>1, <1>3, <2>1, ConsFrame DEF CallHook
<1>4. QED
  BY <1>2, <1>3

LEMMA DeleteType ==
  ASSUME TypeOK, NEW D, NEW count, DeleteUnused(D, count)
  PROVE  life' \in [Event -> {"unborn", "live", "deleted"}]
BY DEF TypeOK, DeleteUnused

LEMMA TriggerType ==
  ASSUME TypeOK, NEW e \in Event, NEW count \in [Event -> Int],
         NEW rest \in Seq(Frame), SimpleTrigger(e, count, rest)
  PROVE  TriggerTypes'
<1>1. CASE TriggerEmpty(e, count, rest)
  <2>1. refs' \in [Event -> Int]
    BY <1>1 DEF TriggerEmpty, Released
  <2>2. life' \in [Event -> {"unborn", "live", "deleted"}]
    BY <1>1, DeleteType DEF TriggerEmpty
  <2>3. QED
    BY <1>1, <2>1, <2>2 DEF TriggerEmpty, TypeOK, TriggerTypes
<1>2. CASE TriggerGather(e, count, rest)
  <2>1. rdv[e] \in Rdv /\ rdv[e] \in Blocking
    BY <1>2 DEF TriggerGather, Rdv, Blocking
  <2>2. refs' \in [Event -> Int]
    BY <1>2 DEF TriggerGather, Released
  <2>3. life' \in [Event -> {"unborn", "live", "deleted"}]
    BY <1>2, DeleteType DEF TriggerGather
  <2>4. waiting' \in [Rdv -> Seq(Event)]
    BY <1>2, <2>1, UnlinkType DEF TriggerGather, TypeOK
  <2>5. /\ runq' \in Seq(Closure)
        /\ status' \in [Closure -> Status]
        /\ blockedClosure' \in [Blocking -> Closure \cup {None}]
    <3>1. UnblockRdv(rdv[e]) \/ UNCHANGED <<blockedClosure, status, runq>>
      BY <1>2 DEF TriggerGather
    <3>2. QED
      BY <2>1, <3>1, UnblockRdvType DEF TypeOK
  <2>6. hook' \in [Event -> Event \cup {None}] /\ stack' \in Seq(Frame)
    BY <1>2, CallHookType DEF TriggerGather
  <2>7. rdv' \in [Event -> Rdv \cup {None}] /\ ready' \in [Explicit -> Seq(Event)]
    BY <1>2 DEF TriggerGather, TypeOK
  <2>8. QED
    BY <2>2, <2>3, <2>4, <2>5, <2>6, <2>7 DEF TriggerTypes
<1>3. CASE TriggerExplicit(e, count, rest)
  <2>1. rdv[e] \in Rdv /\ rdv[e] \in Blocking /\ rdv[e] \in Explicit
    BY <1>3 DEF TriggerExplicit, Rdv, Blocking
  <2>2. refs' \in [Event -> Int]
    BY <1>3 DEF TriggerExplicit, Released
  <2>3. life' \in [Event -> {"unborn", "live", "deleted"}]
    BY <1>3, DeleteType DEF TriggerExplicit
  <2>4. waiting' \in [Rdv -> Seq(Event)]
    BY <1>3, <2>1, UnlinkType DEF TriggerExplicit, TypeOK
  <2>5. /\ runq' \in Seq(Closure)
        /\ status' \in [Closure -> Status]
        /\ blockedClosure' \in [Blocking -> Closure \cup {None}]
    BY <1>3, <2>1, UnblockRdvType DEF TriggerExplicit
  <2>6. hook' \in [Event -> Event \cup {None}] /\ stack' \in Seq(Frame)
    BY <1>3, CallHookType DEF TriggerExplicit
  <2>7. rdv' \in [Event -> Rdv \cup {None}] /\ ready' \in [Explicit -> Seq(Event)]
    BY <1>3, <2>1 DEF TriggerExplicit, TypeOK
  <2>8. QED
    BY <2>2, <2>3, <2>4, <2>5, <2>6, <2>7 DEF TriggerTypes
<1>4. CASE TriggerFunctional(e, count, rest)
  <2>1. rdv[e] \in Rdv
    BY <1>4 DEF TriggerFunctional, Rdv
  <2>2. waiting' \in [Rdv -> Seq(Event)]
    BY <1>4, <2>1, UnlinkType DEF TriggerFunctional, TypeOK
  <2>3. stack' \in Seq(Frame)
    <3> DEFINE fin == [op |-> "finish", ev |-> e, reduce |-> count[e] > 0]
    <3>1. [op |-> "user"] \in Frame /\ fin \in Frame
      BY DEF Frame
    <3>2. <<[op |-> "user"], fin>> \in Seq(Frame)
      BY <3>1
    <3>3. stack' = <<[op |-> "user"], fin>> \o rest
      BY <1>4 DEF TriggerFunctional
    <3> HIDE DEF fin
    <3>4. QED
      BY <3>2, <3>3, ConcatProperties
  <2>4. QED
    BY <1>4, <2>2, <2>3 DEF TriggerFunctional, TypeOK, TriggerTypes
<1>5. QED
  BY <1>1, <1>2, <1>3, <1>4 DEF SimpleTrigger

\* The steps of the runtime.
LEMMA RuntimeType ==
  ASSUME TypeOK, Runtime
  PROVE  TypeOK'
<1> USE FrameFields, ConsFrame
<1>0. stack \in Seq(Frame)
  BY DEF TypeOK
<1>1. CASE TriggerNext
  <2>1. TriggerTypes'
    BY <1>0, <1>1, TriggerType DEF TriggerNext, TopOp, TypeOK
  <2>2. QED
    BY <1>1, <2>1 DEF TriggerNext, TypeOK, TriggerTypes
<1>2. CASE FinishTrigger
  <2> DEFINE e == Head(stack).ev
  <2>1. stack # <<>> /\ e \in Event /\ Head(stack).reduce \in BOOLEAN
    BY <1>0, <1>2 DEF FinishTrigger, TopOp
  <2>2. refs' \in [Event -> Int]
    BY <1>2, <2>1 DEF FinishTrigger, Released, TypeOK
  <2>3. life' \in [Event -> {"unborn", "live", "deleted"}]
    BY <1>2, DeleteType DEF FinishTrigger
  <2>4. hook' \in [Event -> Event \cup {None}] /\ stack' \in Seq(Frame)
    BY <1>0, <1>2, <2>1, CallHookType DEF FinishTrigger
  <2>5. QED
    BY <1>2, <2>2, <2>3, <2>4 DEF FinishTrigger, closureVars, TypeOK
<1>3. CASE ClearBegin
  <2> DEFINE r == Head(stack).r
             f == [op |-> "visit", r |-> r, list |-> waiting[r]]
  <2>1. stack # <<>> /\ r \in Blocking
    BY <1>0, <1>3 DEF ClearBegin, TopOp
  <2>2. waiting[r] \in Seq(Event)
    BY <2>1 DEF TypeOK, Rdv
  <2>3. f \in Frame
    BY <2>1, <2>2 DEF Frame
  <2>4. stack' \in Seq(Frame)
    BY <1>0, <1>3, <2>1, <2>3 DEF ClearBegin, Replace
  <2>5. QED
    BY <1>3, <2>4 DEF ClearBegin, closureVars, TypeOK
<1>4. CASE ClearVisit
  <2> DEFINE h == Head(stack)
             e == Head(h.list)
             rest == Replace([h EXCEPT !.op = "next"])
  <2>1. stack # <<>> /\ h \in Frame /\ h.op = "visit" /\ h.list # <<>>
    BY <1>0, <1>4 DEF ClearVisit, TopOp
  <2>2. e \in Event
    BY <1>0, <2>1
  <2>3. [h EXCEPT !.op = "next"] \in Frame
    BY <2>1 DEF Frame
  <2>4. rest \in Seq(Frame)
    BY <1>0, <2>1, <2>3 DEF Replace
  <2>5. CallHook(e, rest)
    BY <1>4 DEF ClearVisit
  <2>6. hook' \in [Event -> Event \cup {None}] /\ stack' \in Seq(Frame)
    <3> HIDE DEF e, rest
    <3> QED BY <2>2, <2>4, <2>5, CallHookType
  <2>7. QED
    BY <1>4, <2>6 DEF ClearVisit, closureVars, TypeOK
<1>5. CASE ClearNext
  <2> DEFINE h == Head(stack)
             f == [op |-> "visit", r |-> h.r, list |-> Tail(h.list)]
  <2>1. stack # <<>> /\ h.r \in Blocking /\ h.list \in Seq(Event) /\ h.list # <<>>
    BY <1>0, <1>5 DEF ClearNext, TopOp
  <2>2. Tail(h.list) \in Seq(Event)
    BY <2>1
  <2>3. f \in Frame
    BY <2>1, <2>2 DEF Frame
  <2>4. stack' \in Seq(Frame)
    BY <1>0, <1>5, <2>1, <2>3 DEF ClearNext, Replace
  <2>5. QED
    BY <1>5, <2>4 DEF ClearNext, eventVars, closureVars, TypeOK
<1>6. CASE ClearEnd
  <2> DEFINE r == Head(stack).r
             D == {ready[r][i] : i \in DOMAIN ready[r]}
  <2>1. stack # <<>> /\ r \in Blocking /\ stack' = Tail(stack)
    BY <1>0, <1>6 DEF ClearEnd, TopOp
  <2>0. <<>> \in Seq(Event)
    OBVIOUS
  <2>2. waiting' \in [Rdv -> Seq(Event)]
    BY <1>6, <2>0 DEF ClearEnd, TypeOK
  <2>3. /\ ready' \in [Explicit -> Seq(Event)]
        /\ refs' \in [Event -> Int]
        /\ life' \in [Event -> {"unborn", "live", "deleted"}]
    <3>1. CASE r \in Explicit
      <4>1. ready' \in [Explicit -> Seq(Event)]
        BY <1>6, <2>0, <3>1 DEF ClearEnd, TypeOK
      <4>2. \A e \in Event : Cardinality({i \in DOMAIN ready[r] : ready[r][i] = e}) \in Int
        <5> TAKE e \in Event
        <5>1. ready[r] \in Seq(Event)
          BY <3>1 DEF TypeOK
        <5>2. DOMAIN ready[r] = 1 .. Len(ready[r]) /\ Len(ready[r]) \in Nat
          BY <5>1
        <5>3. IsFiniteSet(1 .. Len(ready[r]))
          BY <5>2, FS_Interval
        <5>4. {i \in DOMAIN ready[r] : ready[r][i] = e} \subseteq 1 .. Len(ready[r])
          BY <5>2
        <5>5. IsFiniteSet({i \in DOMAIN ready[r] : ready[r][i] = e})
          BY <5>3, <5>4, FS_Subset
        <5>6. QED
          BY <5>5, FS_CardinalityType
      <4>3. refs' \in [Event -> Int]
        <5>1. refs' = [e \in Event |->
                         refs[e] - Cardinality({i \in DOMAIN ready[r] : ready[r][i] = e})]
          BY <1>6, <3>1 DEF ClearEnd
        <5>2. refs \in [Event -> Int]
          BY DEF TypeOK
        <5>3. QED
          BY <4>2, <5>1, <5>2
      <4>4. life' \in [Event -> {"unborn", "live", "deleted"}]
        BY <1>6, <3>1, DeleteType DEF ClearEnd
      <4>5. QED
        BY <4>1, <4>3, <4>4
    <3>2. CASE r \notin Explicit
      BY <1>6, <3>2 DEF ClearEnd, TypeOK
    <3>3. QED
      BY <3>1, <3>2
  <2>4. QED
    BY <1>0, <1>6, <2>1, <2>2, <2>3 DEF ClearEnd, closureVars, TypeOK
<1>7. CASE FreeRendezvous
  <2> DEFINE h == Head(stack)
  <2>1. stack # <<>> /\ h \in Frame /\ h.op = "free" /\ h.left \in SUBSET Blocking
    BY <1>0, <1>7 DEF FreeRendezvous, TopOp
  <2>2. PICK r \in h.left :
          stack' = <<[op |-> "clear", r |-> r]>> \o Replace([h EXCEPT !.left = @ \ {r}])
    BY <1>7 DEF FreeRendezvous
  <2>3. [op |-> "clear", r |-> r] \in Frame /\ [h EXCEPT !.left = @ \ {r}] \in Frame
    BY <2>1, <2>2 DEF Frame
  <2>4. stack' \in Seq(Frame)
    BY <1>0, <2>1, <2>2, <2>3 DEF Replace
  <2>5. QED
    BY <1>7, <2>4 DEF FreeRendezvous, eventVars, closureVars, TypeOK
<1>8. CASE FreeClosure
  <2>1. stack # <<>> /\ Head(stack).c \in Closure /\ stack' = Tail(stack)
    BY <1>0, <1>8 DEF FreeClosure, TopOp
  <2>2. stack' \in Seq(Frame)
    BY <1>0, <2>1
  <2>3. QED
    BY <1>8, <2>1, <2>2 DEF FreeClosure, eventVars, TypeOK, Status
<1>9. CASE TwaitJoins
  <2> DEFINE c == Head(stack).c
             r == Head(stack).r
  <2>1. stack # <<>> /\ c \in Closure /\ r \in Blocking
    BY <1>0, <1>9 DEF TwaitJoins, TopOp
  <2>2. stack' \in Seq(Frame)
    <3>1. [op |-> "run", c |-> c] \in Frame
      BY <2>1 DEF Frame
    <3>2. QED
      BY <1>0, <1>9, <2>1, <3>1 DEF TwaitJoins, Replace
  <2>3. /\ ready' \in [Explicit -> Seq(Event)]
        /\ refs' \in [Event -> Int]
        /\ life' \in [Event -> {"unborn", "live", "deleted"}]
    <3>1. CASE r \in Explicit
      <4>1. ready[r] # <<>> /\ ready[r] \in Seq(Event)
        BY <1>9, <3>1 DEF TwaitJoins, TypeOK
      <4>2. ready' = [ready EXCEPT ![r] = Tail(@)]
        BY <1>9, <3>1 DEF TwaitJoins
      <4>3. ready' \in [Explicit -> Seq(Event)]
        BY <3>1, <4>1, <4>2 DEF TypeOK
      <4>4. refs' \in [Event -> Int]
        BY <1>9, <3>1, <4>1 DEF TwaitJoins, TypeOK
      <4>5. life' \in [Event -> {"unborn", "live", "deleted"}]
        BY <1>9, <3>1, DeleteType DEF TwaitJoins
      <4>6. QED
        BY <4>3, <4>4, <4>5
    <3>2. CASE r \notin Explicit
      BY <1>9, <3>2 DEF TwaitJoins, TypeOK
    <3>3. QED
      BY <3>1, <3>2
  <2>4. QED
    BY <1>9, <2>2, <2>3 DEF TwaitJoins, closureVars, TypeOK
<1>10. CASE TwaitBlocks
  <2>1. stack # <<>> /\ Head(stack).c \in Closure /\ Head(stack).r \in Blocking
    BY <1>0, <1>10 DEF TwaitBlocks, TopOp
  <2>2. stack' \in Seq(Frame)
    BY <1>0, <1>10, <2>1 DEF TwaitBlocks
  <2>3. QED
    BY <1>10, <2>1, <2>2 DEF TwaitBlocks, eventVars, TypeOK, Status
<1>11. QED
  BY <1>1, <1>2, <1>3, <1>4, <1>5, <1>6, <1>7, <1>8, <1>9, <1>10 DEF Runtime

\* The driver's step, and what user code does.
LEMMA UserType ==
  ASSUME TypeOK, InQueue, \A c \in Closure : Awaits(c), RunUnblocked \/ User
  PROVE  TypeOK'
<1> USE ConsFrame
<1>0. stack \in Seq(Frame) /\ runq \in Seq(Closure)
  BY DEF TypeOK
<1>1. CASE RunUnblocked
  <2> DEFINE c == Head(runq)
  <2>1. c \in Closure /\ Tail(runq) \in Seq(Closure)
    BY <1>0, <1>1 DEF RunUnblocked
  <2>2. CASE position[c] = "exit"
    <3>1. [op |-> "free", c |-> c, left |-> Owned(c)] \in Frame
      BY <2>1 DEF Frame, Owned
    <3>2. stack' \in Seq(Frame)
      BY <1>0, <1>1, <2>2, <3>1 DEF RunUnblocked, Push
    <3>3. QED
      BY <1>1, <2>1, <2>2, <3>2 DEF RunUnblocked, eventVars, TypeOK, Status
  <2>3. CASE position[c] # "exit"
    <3>0. runq # <<>> /\ Awaits(c) /\ status[c] = "queued"
      BY <1>0, <1>1, <2>1 DEF RunUnblocked, InQueue
    <3>1. position[c] \in Blocking
      BY <2>1, <2>3, <3>0 DEF Awaits, Owned
    <3>2. [op |-> "twait", c |-> c, r |-> position[c]] \in Frame
      BY <2>1, <3>1 DEF Frame
    <3>3. stack' \in Seq(Frame)
      BY <1>0, <1>1, <2>3, <3>2 DEF RunUnblocked, Push
    <3>4. QED
      BY <1>1, <2>1, <2>3, <3>3 DEF RunUnblocked, eventVars, TypeOK, Status
  <2>4. QED
    BY <2>2, <2>3
<1>2. ASSUME NEW c \in Closure, NEW method \in BOOLEAN, Start(c, method)
      PROVE  TypeOK'
  <2>1. [op |-> "run", c |-> c] \in Frame
    BY DEF Frame
  <2>2. stack' \in Seq(Frame)
    BY <1>0, <1>2, <2>1 DEF Start, Push
  <2>3. QED
    BY <1>2, <2>2 DEF Start, eventVars, TypeOK, Status
<1>3. ASSUME NEW e \in Event, NEW r \in Rdv, MakeEvent(e, r)
      PROVE  TypeOK'
  <2>1. <<e>> \o waiting[r] \in Seq(Event)
    <3>1. waiting[r] \in Seq(Event)
      BY DEF TypeOK
    <3>2. QED
      BY <3>1
  <2>2. waiting' \in [Rdv -> Seq(Event)]
    BY <1>3, <2>1 DEF MakeEvent, TypeOK
  <2>3. handles' \in [Event -> 0 .. MaxHandles]
    BY <1>3, ConstantsAssumption DEF MakeEvent, TypeOK
  <2>4. QED
    BY <1>3, <2>2, <2>3 DEF MakeEvent, closureVars, TypeOK
<1>4. ASSUME NEW e \in Event, Copy(e)
      PROVE  TypeOK'
  <2>1. handles' \in [Event -> 0 .. MaxHandles]
    BY <1>4, ConstantsAssumption DEF Copy, TypeOK
  <2>2. refs' \in [Event -> Int]
    BY <1>4 DEF Copy, TypeOK
  <2>3. QED
    BY <1>4, <2>1, <2>2 DEF Copy, closureVars, TypeOK
<1>5. ASSUME NEW e \in Event, Drop(e)
      PROVE  TypeOK'
  <2> DEFINE count == [refs EXCEPT ![e] = @ - 1]
  <2>1. handles' \in [Event -> 0 .. MaxHandles]
    BY <1>5, ConstantsAssumption DEF Drop, TypeOK
  <2>2. count \in [Event -> Int]
    BY DEF TypeOK
  <2>3. CASE count[e] = 0 /\ rdv[e] # None
    <3>1. SimpleTrigger(e, count, stack)
      BY <1>5, <2>3 DEF Drop
    <3>2. TriggerTypes'
      <4> HIDE DEF count
      <4> QED BY <1>0, <2>2, <3>1, TriggerType
    <3>3. QED
      BY <1>5, <2>1, <3>2 DEF Drop, TriggerTypes, TypeOK
  <2>4. CASE ~(count[e] = 0 /\ rdv[e] # None)
    <3>1. refs' = count /\ DeleteUnused({e}, count)
      BY <1>5, <2>4 DEF Drop
    <3>2. life' \in [Event -> {"unborn", "live", "deleted"}]
      BY <3>1, DeleteType
    <3>3. QED
      BY <1>5, <2>1, <2>2, <2>4, <3>1, <3>2 DEF Drop, TypeOK
  <2>5. QED
    BY <2>3, <2>4
<1>6. ASSUME NEW e \in Event, Trigger(e)
      PROVE  TypeOK'
  <2>1. handles' \in [Event -> 0 .. MaxHandles]
    BY <1>6, ConstantsAssumption DEF Trigger, TypeOK
  <2>2. TriggerTypes'
    BY <1>0, <1>6, TriggerType DEF Trigger, TypeOK
  <2>3. QED
    BY <1>6, <2>1, <2>2 DEF Trigger, TriggerTypes, TypeOK
<1>7. ASSUME NEW e \in Event, NEW d \in Event, AtTrigger(e, d)
      PROVE  TypeOK'
  <2>1. handles[d] > 0
    BY <1>7, ConstantsAssumption DEF AtTrigger, TypeOK
  <2>2. handles' \in [Event -> 0 .. MaxHandles]
    BY <1>7, <2>1, ConstantsAssumption DEF AtTrigger, TypeOK
  <2>3. CASE rdv[e] # None
    BY <1>7, <2>2, <2>3 DEF AtTrigger, TypeOK
  <2>4. CASE rdv[e] = None
    <3>1. SimpleTrigger(d, refs, stack)
      BY <1>7, <2>4 DEF AtTrigger
    <3>2. TriggerTypes'
      BY <1>0, <3>1, TriggerType DEF TypeOK
    <3>3. QED
      BY <1>7, <2>2, <3>2 DEF AtTrigger, TriggerTypes, TypeOK
  <2>5. QED
    BY <2>3, <2>4
<1>8. ASSUME NEW c \in Closure, NEW r \in Blocking, Twait(c, r)
      PROVE  TypeOK'
  <2>1. stack # <<>>
    BY <1>8 DEF Twait, TopIs
  <2>2. [op |-> "twait", c |-> c, r |-> r] \in Frame
    BY DEF Frame
  <2>3. stack' \in Seq(Frame)
    BY <1>0, <1>8, <2>1, <2>2 DEF Twait, Replace
  <2>4. QED
    BY <1>8, <2>3 DEF Twait, eventVars, closureVars, TypeOK
<1>9. ASSUME NEW c \in Closure, NEW r \in Blocking, Clear(c, r)
      PROVE  TypeOK'
  <2>1. [op |-> "clear", r |-> r] \in Frame
    BY DEF Frame
  <2>2. stack' \in Seq(Frame)
    BY <1>0, <1>9, <2>1 DEF Clear, Push
  <2>3. QED
    BY <1>9, <2>2 DEF Clear, eventVars, closureVars, TypeOK
<1>10. ASSUME NEW c \in Closure, Exit(c)
       PROVE  TypeOK'
  <2>1. stack # <<>>
    BY <1>10 DEF Exit, TopIs
  <2>2. [op |-> "free", c |-> c, left |-> Owned(c)] \in Frame
    BY DEF Frame, Owned
  <2>3. stack' \in Seq(Frame)
    BY <1>0, <1>10, <2>1, <2>2 DEF Exit, Replace
  <2>4. QED
    BY <1>10, <2>3 DEF Exit, eventVars, TypeOK, Status
<1>11. ASSUME NEW c \in Closure, DestroyObject(c)
       PROVE  TypeOK'
  <2>1. runq' \in Seq(Closure) /\ status' \in [Closure -> Status]
    BY <1>11, UnblockType DEF DestroyObject
  <2>2. QED
    BY <1>11, <2>1 DEF DestroyObject, eventVars, TypeOK
<1>12. CASE HookReturns
  <2>1. stack' \in Seq(Frame)
    BY <1>0, <1>12 DEF HookReturns, TopOp
  <2>2. QED
    BY <1>12, <2>1 DEF HookReturns, eventVars, closureVars, TypeOK
<1>13. QED
  BY <1>1, <1>2, <1>3, <1>4, <1>5, <1>6, <1>7, <1>8, <1>9, <1>10, <1>11, <1>12 DEF User


(***************************************************************************)
(* The call stack.                                                         *)
(***************************************************************************)

\* What returning from the innermost frame leaves.
LEMMA PopOK ==
  ASSUME NEW s \in Seq(Frame), s # <<>>, NEW st, StackOK(s, st)
  PROVE  /\ Tail(s) \in Seq(Frame)
         /\ StackOK(Tail(s), st)
         /\ Head(s) \in Frame
         /\ Fits(Head(s), 1, Tail(s), st)
<1> DEFINE t == Tail(s)
<1>1. /\ t \in Seq(Frame) /\ Len(t) = Len(s) - 1 /\ Len(s) \in Nat \ {0}
      /\ \A j \in 1 .. Len(t) : t[j] = s[j + 1]
      /\ Head(s) = s[1] /\ Head(s) \in Frame
  OBVIOUS
<1> HIDE DEF t
<1>2. \A f \in Frame : \A lo \in 1 .. Len(s) : Fits(f, lo + 1, s, st) => Fits(f, lo, t, st)
  <2> SUFFICES ASSUME NEW f \in Frame, NEW lo \in 1 .. Len(s), Fits(f, lo + 1, s, st)
               PROVE  Fits(f, lo, t, st)
    OBVIOUS
  <2>1. \A j \in lo .. Len(t) : j + 1 \in lo + 1 .. Len(s) /\ t[j] = s[j + 1]
    BY <1>1
  <2>2. \A k \in lo + 1 .. Len(s) : k - 1 \in lo .. Len(t) /\ s[k] = t[k - 1]
    BY <1>1
  <2>3. QED
    BY <2>1, <2>2 DEF Fits
<1>3. \A i \in 1 .. Len(t) : Fits(t[i], i + 1, t, st)
  <2> TAKE i \in 1 .. Len(t)
  <2>1. i + 1 \in 1 .. Len(s) /\ t[i] = s[i + 1]
    BY <1>1
  <2>2. Fits(s[i + 1], i + 1 + 1, s, st)
    BY <2>1 DEF StackOK
  <2>3. QED
    BY <1>2, <2>1, <2>2
<1>4. Fits(Head(s), 1, t, st)
  <2>1. Fits(s[1], 1 + 1, s, st) /\ 1 \in 1 .. Len(s)
    BY <1>1 DEF StackOK
  <2>2. QED
    BY <1>1, <1>2, <2>1
<1>5. QED
  BY <1>1, <1>3, <1>4 DEF StackOK, t

\* Calling: a frame that fits on the stack may be pushed.
LEMMA PushOK ==
  ASSUME NEW s \in Seq(Frame), NEW f \in Frame, NEW st,
         StackOK(s, st), Fits(f, 1, s, st)
  PROVE  <<f>> \o s \in Seq(Frame) /\ StackOK(<<f>> \o s, st)
<1> DEFINE t == <<f>> \o s
<1>1. /\ t \in Seq(Frame) /\ Len(t) = Len(s) + 1 /\ Len(s) \in Nat
      /\ t[1] = f
      /\ \A j \in 1 .. Len(s) : t[j + 1] = s[j]
  OBVIOUS
<1> HIDE DEF t
<1>2. \A g \in Frame : \A lo \in 1 .. Len(t) : Fits(g, lo, s, st) => Fits(g, lo + 1, t, st)
  <2> SUFFICES ASSUME NEW g \in Frame, NEW lo \in 1 .. Len(t), Fits(g, lo, s, st)
               PROVE  Fits(g, lo + 1, t, st)
    OBVIOUS
  <2>1. \A j \in lo .. Len(s) : j + 1 \in lo + 1 .. Len(t) /\ t[j + 1] = s[j]
    BY <1>1
  <2>2. \A k \in lo + 1 .. Len(t) : k - 1 \in lo .. Len(s) /\ t[k] = s[k - 1]
    BY <1>1
  <2>3. QED
    BY <2>1, <2>2 DEF Fits
<1>3. \A i \in 1 .. Len(t) : Fits(t[i], i + 1, t, st)
  <2> TAKE i \in 1 .. Len(t)
  <2>1. CASE i = 1
    BY <1>1, <1>2, <2>1
  <2>2. CASE i # 1
    <3>1. i - 1 \in 1 .. Len(s) /\ t[i] = s[i - 1] /\ i - 1 + 1 = i
      BY <1>1, <2>2
    <3>2. Fits(s[i - 1], i, s, st)
      BY <3>1 DEF StackOK
    <3>3. QED
      BY <1>2, <3>1, <3>2
  <2>3. QED
    BY <2>1, <2>2
<1>4. QED
  BY <1>1, <1>3 DEF StackOK, t

\* Frames of the runtime and of hooks ask nothing of the frames under them.
LEMMA FreeFrames ==
  ASSUME NEW f, f.op \in {"trigger", "finish", "user"}, NEW s, NEW st
  PROVE  Fits(f, 1, s, st)
BY DEF Fits, ClearOps

\* A closure changes status: it may not start or stop running while it is on
\* the stack, and it is never brought back from deletion.
LEMMA StatusOK ==
  ASSUME NEW s, NEW st, NEW new, StackOK(s, st),
         \A c \in Closure :
           \/ new[c] = st[c]
           \/ /\ st[c] \in {"exiting", "freed"} => new[c] \in {"exiting", "freed"}
              /\ \A i \in 1 .. Len(s) :
                   s[i].op \in {"run", "twait"} /\ s[i].c = c => new[c] = "running",
         s \in Seq(Frame)
  PROVE  StackOK(s, new)
<1>1. \A f \in Frame :
        /\ f.op \in {"run", "twait", "free"} => f.c \in Closure
        /\ f.op \in ClearOps => OwnerOf(f.r) \in Closure
  BY ConstantsAssumption DEF Frame, ClearOps, OwnerOf, Blocking
<1>2. \A i \in 1 .. Len(s) : s[i] \in Frame /\ Fits(s[i], i + 1, s, st)
  BY DEF StackOK
<1>3. \A i \in 1 .. Len(s) : Fits(s[i], i + 1, s, new)
  <2> TAKE i \in 1 .. Len(s)
  <2>1. s[i].op \in {"run", "twait"} => new[s[i].c] = "running"
    BY <1>1, <1>2 DEF Fits
  <2>2. s[i].op = "free" => new[s[i].c] \in {"exiting", "freed"}
    BY <1>1, <1>2 DEF Fits
  <2>3. s[i].op \in ClearOps /\ st[OwnerOf(s[i].r)] \in {"exiting", "freed"}
        => new[OwnerOf(s[i].r)] \in {"exiting", "freed"}
    BY <1>1, <1>2
  <2>4. QED
    BY <1>2, <2>1, <2>2, <2>3 DEF Fits
<1>4. QED
  BY <1>3 DEF StackOK

\* The same, when only closures that are off the stack change.
LEMMA StatusOffStackOK ==
  ASSUME NEW s \in Seq(Frame), NEW st, NEW new, StackOK(s, st),
         \A c \in Closure :
           new[c] = st[c] \/ st[c] \notin {"running", "exiting", "freed"}
  PROVE  StackOK(s, new)
<1>1. \A i \in 1 .. Len(s) : s[i].op \in {"run", "twait"} => st[s[i].c] = "running"
  BY DEF StackOK, Fits
<1>2. QED
  BY <1>1, StatusOK

(***************************************************************************)
(* Closures that a step does not concern.                                  *)
(***************************************************************************)

\* A closure keeps what it awaits while its own variables keep their values.
LEMMA AwaitsFrame ==
  ASSUME NEW c \in Closure, Awaits(c),
         status'[c] = status[c], position'[c] = position[c],
         \A r \in Owned(c) : blockedClosure'[r] = blockedClosure[r],
         \A r \in Owned(c) : Joinable(r)' = Joinable(r)
  PROVE  Awaits(c)'
BY DEF Awaits, Owned, OwnerOf, Blocking

\* The queue stays right while a closure outside it changes status.
LEMMA QueueFrame ==
  ASSUME TypeOK, InQueue, NEW c \in Closure,
         status[c] # "queued", status'[c] # "queued", runq' = runq,
         \A d \in Closure : d # c => status'[d] = status[d]
  PROVE  InQueue'
<1>1. \A i \in 1 .. Len(runq) : runq[i] \in Closure /\ runq[i] # c
  BY DEF TypeOK, InQueue
<1>2. \A i \in 1 .. Len(runq) : status'[runq[i]] = "queued"
  BY <1>1 DEF InQueue
<1>3. \A d \in Closure : status'[d] = "queued" => status[d] = "queued"
  OBVIOUS
<1>4. QED
  BY <1>2, <1>3 DEF InQueue

\* Two closures share no rendezvous.
LEMMA OwnedApart ==
  /\ \A c, d \in Closure : \A r \in Owned(c) : r \in Owned(d) => c = d
  /\ \A r \in Blocking : OwnerOf(r) \in Closure /\ r \in Owned(OwnerOf(r))
  /\ \A r \in Blocking : r \in Rdv
  /\ \A c \in Closure : Owned(c) \subseteq Blocking /\ None \notin Closure
BY ConstantsAssumption DEF Owned, OwnerOf, Blocking, Rdv

(***************************************************************************)
(* Unblocking and triggering.                                              *)
(***************************************************************************)

\* Unblock moves a blocked closure, and only such a one, to the queue.
LEMMA UnblockOK ==
  ASSUME TypeOK, InQueue, NEW c \in Closure, Unblock(c)
  PROVE  /\ InQueue'
         /\ \A d \in Closure :
              status'[d] = IF d = c /\ status[c] = "blocked" THEN "queued" ELSE status[d]
<1>0. status \in [Closure -> Status] /\ runq \in Seq(Closure) /\ Len(runq) \in Nat
  BY DEF TypeOK
<1>1. CASE status[c] = "blocked"
  <2>1. status' = [status EXCEPT ![c] = "queued"] /\ runq' = Append(runq, c)
    BY <1>1 DEF Unblock
  <2>2. /\ Len(runq') = Len(runq) + 1
        /\ runq'[Len(runq) + 1] = c
        /\ \A i \in 1 .. Len(runq) : runq'[i] = runq[i] /\ runq[i] \in Closure
    BY <1>0, <2>1
  <2>3. \A i \in 1 .. Len(runq) : runq[i] # c
    BY <1>1 DEF InQueue
  <2>4. \A i \in 1 .. Len(runq') : i \in 1 .. Len(runq) \/ i = Len(runq) + 1
    BY <1>0, <2>2
  <2>5. \A i \in 1 .. Len(runq') : status'[runq'[i]] = "queued"
    BY <1>0, <2>1, <2>2, <2>4 DEF InQueue
  <2>6. \A i, j \in 1 .. Len(runq') : runq'[i] = runq'[j] => i = j
    BY <2>2, <2>3, <2>4 DEF InQueue
  <2>7. \A d \in Closure : status'[d] = "queued" => \E i \in 1 .. Len(runq') : runq'[i] = d
    <3> SUFFICES ASSUME NEW d \in Closure, status'[d] = "queued"
                 PROVE  \E i \in 1 .. Len(runq') : runq'[i] = d
      OBVIOUS
    <3>1. CASE d = c
      <4>1. Len(runq) + 1 \in 1 .. Len(runq')
        BY <1>0, <2>2
      <4>2. QED
        BY <2>2, <3>1, <4>1
    <3>2. CASE d # c
      <4>1. PICK i \in 1 .. Len(runq) : runq[i] = d
        BY <1>0, <2>1, <3>2 DEF InQueue
      <4>2. i \in 1 .. Len(runq')
        BY <1>0, <2>2
      <4>3. QED
        BY <2>2, <4>1, <4>2
    <3>3. QED
      BY <3>1, <3>2
  <2>8. QED
    BY <1>0, <1>1, <2>1, <2>5, <2>6, <2>7 DEF InQueue
<1>2. CASE status[c] # "blocked"
  BY <1>2 DEF Unblock, InQueue
<1>3. QED
  BY <1>1, <1>2

\* A rendezvous that has become joinable unblocks whoever waits on it.
LEMMA UnblockRdvOK ==
  ASSUME TypeOK, InQueue, \A c \in Closure : Awaits(c),
         NEW r \in Blocking, UnblockRdv(r), position' = position,
         Joinable(r)',
         \A q \in Blocking : q # r => Joinable(q)' = Joinable(q)
  PROVE  /\ InQueue'
         /\ \A c \in Closure : Awaits(c)'
         /\ \A c \in Closure : status'[c] = status[c] \/ status[c] = "blocked"
<1> DEFINE o == OwnerOf(r)
<1>0. o \in Closure /\ r \in Owned(o)
  BY OwnedApart
<1> HIDE DEF o
<1>1. CASE blockedClosure[r] = None
  <2>1. UNCHANGED <<blockedClosure, status, runq>>
    BY <1>1 DEF UnblockRdv
  <2>2. \A c \in Closure : Awaits(c)'
    <3> TAKE c \in Closure
    <3>1. CASE c = o
      <4>1. status[c] = "blocked" => position[c] # r
        BY <1>0, <1>1, <3>1, OwnedApart DEF Awaits
      <4>2. status[c] = "queued" /\ position[c] # "exit" => Joinable(position[c])'
        BY <3>1, OwnedApart DEF Awaits
      <4>3. status[c] = "blocked" => ~Joinable(position[c])'
        BY <4>1, OwnedApart DEF Awaits
      <4>4. QED
        BY <2>1, <4>2, <4>3 DEF Awaits
    <3>2. CASE c # o
      <4>1. \A q \in Owned(c) : q # r /\ q \in Blocking
        BY <1>0, <3>2, OwnedApart
      <4>2. QED
        BY <2>1, <4>1, AwaitsFrame
    <3>3. QED
      BY <3>1, <3>2
  <2>3. QED
    BY <2>1, <2>2 DEF InQueue
<1>2. CASE blockedClosure[r] # None
  <2>1. blockedClosure[r] = o
    BY <1>0, <1>2 DEF Awaits
  <2>2. Unblock(o) /\ blockedClosure' = [blockedClosure EXCEPT ![r] = None]
    BY <1>2, <2>1 DEF UnblockRdv
  <2>3. InQueue'
    BY <1>0, <2>2, UnblockOK
  <2>4. \A d \in Closure :
          status'[d] = IF d = o /\ status[o] = "blocked" THEN "queued" ELSE status[d]
    BY <1>0, <2>2, UnblockOK
  <2>5. \A q \in Blocking : blockedClosure'[q] = IF q = r THEN None ELSE blockedClosure[q]
    BY <2>2 DEF TypeOK
  <2>6. \A c \in Closure : c # o => Awaits(c)'
    <3> SUFFICES ASSUME NEW c \in Closure, c # o PROVE Awaits(c)'
      OBVIOUS
    <3>1. \A q \in Owned(c) : q # r /\ q \in Blocking
      BY <1>0, OwnedApart
    <3>2. QED
      BY <2>4, <2>5, <3>1, AwaitsFrame
  <2>7. Awaits(o)'
    <3>1. \A q \in Owned(o) : blockedClosure'[q] \in {o, None}
      BY <1>0, <2>5, OwnedApart DEF Awaits
    <3>2. CASE status[o] = "blocked"
      <4>1. status'[o] = "queued" /\ position'[o] = r
        BY <1>0, <2>1, <2>4, <3>2 DEF Awaits
      <4>2. \A q \in Owned(o) : blockedClosure'[q] = None
        BY <1>0, <2>1, <2>5, <3>2, OwnedApart DEF Awaits
      <4>3. QED
        BY <1>0, <3>1, <4>1, <4>2 DEF Awaits
    <3>3. CASE status[o] # "blocked"
      <4>1. status'[o] = status[o]
        BY <1>0, <2>4, <3>3
      <4>2. /\ status[o] \notin {"unstarted", "running"}
            /\ status[o] = "queued" => position[o] = "exit"
        BY <1>0, <1>2 DEF Awaits
      <4>3. QED
        BY <3>1, <3>3, <4>1, <4>2 DEF Awaits
    <3>4. QED
      BY <3>2, <3>3
  <2>8. QED
    BY <2>3, <2>4, <2>6, <2>7
<1>3. QED
  BY <1>1, <1>2

\* Calling a hook only pushes a frame.
LEMMA CallHookOK ==
  ASSUME TypeOK, NEW e \in Event, NEW rest \in Seq(Frame), NEW st,
         StackOK(rest, st), CallHook(e, rest)
  PROVE  StackOK(stack', st)
<1>1. CASE hook[e] = None
  BY <1>1 DEF CallHook
<1>2. CASE hook[e] # None
  <2> DEFINE f == [op |-> "trigger", ev |-> hook[e]]
  <2>1. f \in Frame /\ Fits(f, 1, rest, st)
    BY <1>2 DEF TypeOK, Frame, Fits, ClearOps
  <2>2. stack' = <<f>> \o rest
    BY <1>2 DEF CallHook
  <2> HIDE DEF f
  <2>3. QED
    BY <2>1, <2>2, PushOK
<1>3. QED
  BY <1>1, <1>2

\* The wake-up part of the invariant.
WakeState ==
  /\ StackOK(stack, status)
  /\ InQueue
  /\ \A c \in Closure : Awaits(c)

\* A step that leaves closures, rendezvous and the queue alone.
LEMMA SameWake ==
  ASSUME WakeInv, UNCHANGED <<status, position, runq>>,
         StackOK(stack', status),
         \A r \in Blocking : blockedClosure'[r] = blockedClosure[r],
         \A r \in Blocking : Joinable(r)' = Joinable(r)
  PROVE  WakeState'
<1>1. \A c \in Closure : Awaits(c)'
  BY AwaitsFrame, OwnedApart DEF WakeInv
<1>2. InQueue'
  BY DEF WakeInv, InQueue
<1>3. QED
  BY <1>1, <1>2 DEF WakeState

\* Triggering an event keeps the invariant, whatever calls are in progress.
LEMMA TriggerOK ==
  ASSUME WakeInv, NEW e \in Event, NEW count \in [Event -> Int],
         NEW rest \in Seq(Frame), StackOK(rest, status),
         SimpleTrigger(e, count, rest), position' = position
  PROVE  WakeState'
<1>0. TypeOK /\ InQueue /\ \A c \in Closure : Awaits(c)
  BY DEF WakeInv
<1>1. CASE TriggerEmpty(e, count, rest)
  BY <1>1, SameWake DEF TriggerEmpty, Joinable
<1>2. CASE TriggerGather(e, count, rest)
  <2>0. PICK r \in Closure : r = rdv[e]
    BY <1>2 DEF TriggerGather
  <2>1. r \in Closure /\ r \in Blocking /\ r \notin Explicit /\ r \in Rdv
    BY ConstantsAssumption DEF Blocking, Rdv
  <2>2. \A q \in Rdv : waiting'[q] = IF q = r THEN Unlink(e) ELSE waiting[q]
    BY <2>0, <1>0, <1>2 DEF TriggerGather, TypeOK
  <2>3. ready' = ready
    BY <1>2 DEF TriggerGather
  <2>4. \A q \in Blocking : q # r => Joinable(q)' = Joinable(q)
    BY <2>2, <2>3, OwnedApart DEF Joinable
  <2>5. StackOK(stack', status)
    BY <1>0, <1>2, CallHookOK DEF TriggerGather
  <2>6. CASE waiting'[r] = <<>>
    <3>1. Joinable(r)'
      BY <2>1, <2>6 DEF Joinable
    <3>2. UnblockRdv(r)
      BY <2>0, <1>2, <2>6 DEF TriggerGather
    <3>3. /\ InQueue' /\ \A c \in Closure : Awaits(c)'
          /\ \A c \in Closure : status'[c] = status[c] \/ status[c] = "blocked"
      BY <1>0, <2>1, <2>4, <3>1, <3>2, UnblockRdvOK
    <3>4. StackOK(stack', status')
      <4>1. stack' \in Seq(Frame)
        BY <1>0, <1>2, CallHookType DEF TriggerGather
      <4>2. QED
        BY <2>5, <3>3, <4>1, StatusOffStackOK
    <3>5. QED
      BY <3>3, <3>4 DEF WakeState
  <2>7. CASE waiting'[r] # <<>>
    <3>1. UNCHANGED <<blockedClosure, status, runq>>
      BY <2>0, <1>2, <2>7 DEF TriggerGather
    <3>2. Unlink(e) # <<>>
      BY <2>0, <2>1, <2>2, <2>7
    <3>3. waiting[r] # <<>>
      BY <2>0, <3>2 DEF Unlink
    <3>4. Joinable(r)' = Joinable(r)
      BY <2>1, <2>7, <3>3 DEF Joinable
    <3>5. QED
      BY <2>4, <2>5, <3>1, <3>4, SameWake
  <2>8. QED
    BY <2>6, <2>7
<1>3. CASE TriggerExplicit(e, count, rest)
  <2>0. PICK r \in Explicit : r = rdv[e]
    BY <1>3 DEF TriggerExplicit
  <2>1. r \in Explicit /\ r \in Blocking /\ r \notin Closure /\ r \in Rdv
    BY ConstantsAssumption DEF Blocking, Rdv
  <2>2. \A q \in Rdv : q # r => waiting'[q] = waiting[q]
    BY <2>0, <1>0, <1>3 DEF TriggerExplicit, TypeOK
  <2>3. \A q \in Explicit : ready'[q] = IF q = r THEN Append(ready[q], e) ELSE ready[q]
    BY <2>0, <1>0, <1>3 DEF TriggerExplicit, TypeOK
  <2>4. \A q \in Blocking : q # r => Joinable(q)' = Joinable(q)
    BY <2>2, <2>3, OwnedApart DEF Joinable
  <2>5. StackOK(stack', status)
    BY <1>0, <1>3, CallHookOK DEF TriggerExplicit
  <2>6. Joinable(r)'
    <3>1. ready[r] \in Seq(Event)
      BY <1>0, <2>1 DEF TypeOK
    <3>2. Append(ready[r], e) # <<>>
      BY <3>1
    <3>3. ready'[r] # <<>>
      BY <2>1, <2>3, <3>2
    <3>4. QED
      BY <2>1, <3>3 DEF Joinable
  <2>7. UnblockRdv(r)
    BY <2>0, <1>3 DEF TriggerExplicit
  <2>8. /\ InQueue' /\ \A c \in Closure : Awaits(c)'
        /\ \A c \in Closure : status'[c] = status[c] \/ status[c] = "blocked"
    BY <1>0, <2>1, <2>4, <2>6, <2>7, UnblockRdvOK
  <2>9. StackOK(stack', status')
    <3>1. stack' \in Seq(Frame)
      BY <1>0, <1>3, CallHookType DEF TriggerExplicit
    <3>2. QED
      BY <2>5, <2>8, <3>1, StatusOffStackOK
  <2>10. QED
    BY <2>8, <2>9 DEF WakeState
<1>4. CASE TriggerFunctional(e, count, rest)
  <2>1. \A q \in Blocking : q # rdv[e] /\ q \in Rdv
    BY <1>4, ConstantsAssumption DEF TriggerFunctional, Blocking, Rdv
  <2>2. \A q \in Blocking : Joinable(q)' = Joinable(q)
    BY <1>0, <1>4, <2>1 DEF TriggerFunctional, Joinable, TypeOK
  <2>3. StackOK(stack', status)
    <3> DEFINE fin == [op |-> "finish", ev |-> e, reduce |-> count[e] > 0]
               usr == [op |-> "user"]
    <3>1. fin \in Frame /\ usr \in Frame
      BY DEF Frame
    <3>2. Fits(fin, 1, rest, status) /\ Fits(usr, 1, <<fin>> \o rest, status)
      BY FreeFrames
    <3>3. stack' = <<usr>> \o (<<fin>> \o rest)
      <4>1. stack' = <<usr, fin>> \o rest
        BY <1>4 DEF TriggerFunctional
      <4> HIDE DEF usr, fin
      <4>2. <<usr, fin>> \o rest = <<usr>> \o (<<fin>> \o rest)
        BY <3>1
      <4>3. QED
        BY <4>1, <4>2
    <3> HIDE DEF usr, fin
    <3>4. <<fin>> \o rest \in Seq(Frame) /\ StackOK(<<fin>> \o rest, status)
      BY <3>1, <3>2, PushOK
    <3>5. QED
      BY <3>1, <3>2, <3>3, <3>4, PushOK
  <2>4. QED
    BY <1>4, <2>2, <2>3, SameWake DEF TriggerFunctional
<1>5. QED
  BY <1>1, <1>2, <1>3, <1>4 DEF SimpleTrigger

(***************************************************************************)
(* The runtime's steps.                                                    *)
(***************************************************************************)

LEMMA RuntimeWake ==
  ASSUME WakeInv, Runtime
  PROVE  WakeState'
<1>0. /\ TypeOK /\ InQueue /\ StackOK(stack, status) /\ stack \in Seq(Frame)
      /\ \A c \in Closure : Awaits(c)
  BY DEF WakeInv, TypeOK
<1>0a. stack # <<>>
  BY DEF Runtime, TriggerNext, FinishTrigger, ClearBegin, ClearVisit, ClearNext,
         ClearEnd, FreeRendezvous, FreeClosure, TwaitJoins, TwaitBlocks, TopOp
\* the innermost frame, and what is under it
<1> DEFINE h == Head(stack)
           t == Tail(stack)
<1>0b. /\ h \in Frame /\ t \in Seq(Frame)
       /\ StackOK(t, status) /\ Fits(h, 1, t, status)
  BY <1>0, <1>0a, PopOK
<1>0c. \A f \in Frame :
         Fits(f, 1, t, status) => <<f>> \o t \in Seq(Frame) /\ StackOK(<<f>> \o t, status)
  BY <1>0b, PushOK
<1>1. CASE TriggerNext
  <2>1. h.ev \in Event /\ SimpleTrigger(h.ev, refs, t) /\ position' = position
    BY <1>0, <1>1, FrameFields DEF TriggerNext, TopOp
  <2>2. refs \in [Event -> Int]
    BY <1>0 DEF TypeOK
  <2>3. PICK e \in Event : e = h.ev
    BY <2>1
  <2>4. SimpleTrigger(e, refs, t)
    BY <2>1, <2>3
  <2>5. PICK count \in [Event -> Int], rest \in Seq(Frame) : count = refs /\ rest = t
    BY <1>0b, <2>2
  <2>6. SimpleTrigger(e, count, rest) /\ StackOK(rest, status)
    BY <1>0b, <2>4, <2>5
  <2>7. QED
    BY <2>1, <2>6, TriggerOK
<1>2. CASE FinishTrigger
  <2>1. PICK e \in Event, rest \in Seq(Frame) : e = h.ev /\ rest = t
    BY <1>0, <1>0a, <1>0b, <1>2, FrameFields DEF FinishTrigger, TopOp
  <2>2. CallHook(e, rest) /\ StackOK(rest, status)
    BY <1>0b, <1>2, <2>1 DEF FinishTrigger
  <2>3. StackOK(stack', status)
    BY <1>0, <2>2, CallHookOK
  <2>4. QED
    BY <1>2, <2>3, SameWake DEF FinishTrigger, closureVars, Joinable
<1>3. CASE ClearBegin
  <2> DEFINE f == [op |-> "visit", r |-> h.r, list |-> waiting[h.r]]
  <2>1. h.op = "clear" /\ h.r \in Blocking
    BY <1>0, <1>0a, <1>3, FrameFields DEF ClearBegin, TopOp
  <2>2. f \in Frame
    BY <1>0, <2>1, OwnedApart DEF Frame, TypeOK
  <2>3. Fits(f, 1, t, status)
    BY <1>0b, <2>1 DEF Fits, ClearOps
  <2>4. StackOK(stack', status)
    BY <1>0c, <1>3, <2>2, <2>3 DEF ClearBegin, Replace
  <2>5. QED
    BY <1>3, <2>4, SameWake DEF ClearBegin, closureVars, Joinable
<1>4. CASE ClearVisit
  <2> DEFINE f == [h EXCEPT !.op = "next"]
             e == Head(h.list)
  <2>1. h.op = "visit" /\ h.list \in Seq(Event) /\ h.list # <<>>
    BY <1>0, <1>0a, <1>4, FrameFields DEF ClearVisit, TopOp
  <2>2. f \in Frame
    BY <1>0b, <2>1 DEF Frame
  <2>3. f.op = "next" /\ f.r = h.r
    BY <1>0b, <2>1 DEF Frame
  <2>4. Fits(f, 1, t, status)
    BY <1>0b, <2>1, <2>3 DEF Fits, ClearOps
  <2>5. PICK rest \in Seq(Frame) : rest = <<f>> \o t
    BY <1>0c, <2>2, <2>4
  <2>6. StackOK(rest, status)
    BY <1>0c, <2>2, <2>4, <2>5
  <2>7. PICK d \in Event : d = e
    BY <2>1
  <2>8. CallHook(d, rest)
    BY <1>4, <2>5, <2>7 DEF ClearVisit, Replace
  <2>9. StackOK(stack', status)
    BY <1>0, <2>6, <2>8, CallHookOK
  <2>10. QED
    BY <1>4, <2>9, SameWake DEF ClearVisit, closureVars, Joinable
<1>5. CASE ClearNext
  <2> DEFINE f == [op |-> "visit", r |-> h.r, list |-> Tail(h.list)]
  <2>1. h.op = "next" /\ h.r \in Blocking /\ h.list \in Seq(Event) /\ h.list # <<>>
    BY <1>0, <1>0a, <1>5, FrameFields DEF ClearNext, TopOp
  <2>2. f \in Frame
    BY <2>1 DEF Frame
  <2>3. Fits(f, 1, t, status)
    BY <1>0b, <2>1 DEF Fits, ClearOps
  <2>4. StackOK(stack', status)
    BY <1>0c, <1>5, <2>2, <2>3 DEF ClearNext, Replace
  <2>5. QED
    BY <1>5, <2>4, SameWake DEF ClearNext, closureVars, Joinable
<1>6. CASE ClearEnd
  \* the owner of the rendezvous is running or being deleted
  <2>1. PICK r \in Blocking : r = h.r /\ h.op = "visit"
    BY <1>0, <1>0a, <1>6, FrameFields DEF ClearEnd, TopOp
  <2>2. PICK o \in Closure : o = OwnerOf(r)
    BY OwnedApart
  <2>3. status[o] \in {"running", "exiting", "freed"}
    <3>1. \A j \in 1 .. Len(t) : t[j].op = "run" => status[t[j].c] = "running"
      BY <1>0b DEF StackOK, Fits
    <3>2. QED
      BY <1>0b, <2>1, <2>2, <3>1 DEF Fits, ClearOps
  <2>4. \A q \in Blocking : q # r => Joinable(q)' = Joinable(q)
    BY <1>0, <1>6, <2>1, OwnedApart DEF ClearEnd, Joinable, TypeOK
  <2>5. UNCHANGED <<blockedClosure, status, position, runq>> /\ stack' = t
    BY <1>6 DEF ClearEnd, closureVars
  <2>6. \A c \in Closure : Awaits(c)'
    <3> TAKE c \in Closure
    <3>1. CASE c = o
      BY <1>0, <2>3, <2>5, <3>1 DEF Awaits
    <3>2. CASE c # o
      <4>1. \A q \in Owned(c) : q # r /\ q \in Blocking
        BY <2>2, <3>2, OwnedApart
      <4>2. QED
        BY <1>0, <2>4, <2>5, <4>1, AwaitsFrame
    <3>3. QED
      BY <3>1, <3>2
  <2>7. QED
    BY <1>0, <1>0b, <2>5, <2>6 DEF WakeState, InQueue
<1>7. CASE FreeRendezvous
  <2>1. h.op = "free" /\ h.left \in SUBSET Blocking
    BY <1>0, <1>0a, <1>7, FrameFields DEF FreeRendezvous, TopOp
  <2>2. PICK r \in h.left :
          stack' = <<[op |-> "clear", r |-> r]>> \o Replace([h EXCEPT !.left = @ \ {r}])
    BY <1>7 DEF FreeRendezvous
  <2> DEFINE f == [h EXCEPT !.left = @ \ {r}]
             k == [op |-> "clear", r |-> r]
  <2>3. f \in Frame /\ k \in Frame
    BY <1>0b, <2>1 DEF Frame
  <2>4. f.op = "free" /\ f.c = h.c /\ f.left \subseteq h.left
    BY <1>0b, <2>1 DEF Frame
  <2>5. Fits(f, 1, t, status)
    BY <1>0b, <2>1, <2>4 DEF Fits, ClearOps
  <2>6. PICK s \in Seq(Frame) : s = <<f>> \o t
    BY <1>0c, <2>3, <2>5
  <2>7. StackOK(s, status)
    BY <1>0c, <2>3, <2>5, <2>6
  <2>8. Fits(k, 1, s, status)
    <3>1. h.c \in Closure /\ r \in Owned(h.c) /\ status[h.c] \in {"exiting", "freed"}
      BY <1>0, <1>0a, <1>0b, <2>1, FrameFields DEF Fits
    <3>2. OwnerOf(r) = h.c
      BY <3>1 DEF Owned
    <3>3. QED
      BY <3>1, <3>2 DEF Fits, ClearOps
  <2>9. stack' = <<k>> \o s
    BY <2>2, <2>6 DEF Replace
  <2>10. StackOK(stack', status)
    <3> HIDE DEF k
    <3> QED BY <2>3, <2>7, <2>8, <2>9, PushOK
  <2>11. QED
    BY <1>7, <2>10, SameWake DEF FreeRendezvous, closureVars, Joinable
<1>8. CASE FreeClosure
  <2>1. PICK c \in Closure : c = h.c /\ h.op = "free"
    BY <1>0, <1>0a, <1>8, FrameFields DEF FreeClosure, TopOp
  <2>2. status[c] \in {"exiting", "freed"}
    BY <1>0b, <2>1 DEF Fits
  <2>3. \A d \in Closure : status'[d] = IF d = c THEN "freed" ELSE status[d]
    BY <1>0, <1>8, <2>1 DEF FreeClosure, TypeOK
  <2>4. /\ UNCHANGED <<waiting, ready, position, runq>>
        /\ stack' = t
        /\ \A r \in Blocking : blockedClosure'[r] = IF r \in Owned(c) THEN None
                                                   ELSE blockedClosure[r]
    BY <1>8, <2>1 DEF FreeClosure
  <2>5. StackOK(stack', status')
    <3>1. \A i \in 1 .. Len(t) : t[i].op \in {"run", "twait"} => status[t[i].c] = "running"
      BY <1>0b DEF StackOK, Fits
    <3>2. \A d \in Closure :
            \/ status'[d] = status[d]
            \/ /\ status[d] \in {"exiting", "freed"} => status'[d] \in {"exiting", "freed"}
               /\ \A i \in 1 .. Len(t) :
                    t[i].op \in {"run", "twait"} /\ t[i].c = d => status'[d] = "running"
      BY <2>2, <2>3, <3>1
    <3>3. StackOK(t, status')
      BY <1>0b, <3>2, StatusOK
    <3>4. QED
      BY <2>4, <3>3
  <2>6. InQueue'
    BY <1>0, <2>2, <2>3, <2>4, QueueFrame
  <2>7. \A d \in Closure : Awaits(d)'
    <3> TAKE d \in Closure
    <3>1. CASE d = c
      BY <2>3, <2>4, <3>1, OwnedApart DEF Awaits
    <3>2. CASE d # c
      <4>1. \A r \in Owned(d) : r \notin Owned(c) /\ r \in Blocking
        BY <3>2, OwnedApart
      <4>2. QED
        BY <1>0, <2>3, <2>4, <3>2, <4>1, AwaitsFrame DEF Joinable
    <3>3. QED
      BY <3>1, <3>2
  <2>8. QED
    BY <2>5, <2>6, <2>7 DEF WakeState
<1>9. CASE TwaitJoins
  <2>1. PICK c \in Closure, r \in Blocking : c = h.c /\ r = h.r /\ h.op = "twait"
    BY <1>0, <1>0a, <1>9, FrameFields DEF TwaitJoins, TopOp
  <2> DEFINE f == [op |-> "run", c |-> c]
  <2>2. r \in Owned(c) /\ status[c] = "running"
    BY <1>0b, <2>1 DEF Fits
  <2>3. f \in Frame /\ Fits(f, 1, t, status)
    BY <1>0b, <2>1 DEF Fits, ClearOps, Frame
  <2>4. UNCHANGED <<waiting, blockedClosure, status, position, runq>> /\ stack' = <<f>> \o t
    BY <1>9, <2>1 DEF TwaitJoins, closureVars, Replace
  <2>5. StackOK(stack', status')
    BY <1>0c, <2>3, <2>4
  <2>6. \A q \in Blocking : q # r => Joinable(q)' = Joinable(q)
    <3>1. \A q \in Explicit : q # r => ready'[q] = ready[q]
      BY <1>0, <1>9, <2>1 DEF TwaitJoins, TypeOK
    <3>2. QED
      BY <2>4, <3>1 DEF Joinable
  <2>7. \A d \in Closure : Awaits(d)'
    <3> TAKE d \in Closure
    <3>1. CASE d = c
      BY <1>0, <2>2, <2>4, <3>1 DEF Awaits
    <3>2. CASE d # c
      <4>1. \A q \in Owned(d) : q # r /\ q \in Blocking
        BY <2>2, <3>2, OwnedApart
      <4>2. QED
        BY <1>0, <2>4, <2>6, <4>1, AwaitsFrame
    <3>3. QED
      BY <3>1, <3>2
  <2>8. QED
    BY <1>0, <2>4, <2>5, <2>7 DEF WakeState, InQueue
<1>10. CASE TwaitBlocks
  <2>1. PICK c \in Closure, r \in Blocking : c = h.c /\ r = h.r /\ h.op = "twait"
    BY <1>0, <1>0a, <1>10, FrameFields DEF TwaitBlocks, TopOp
  <2>2. /\ r \in Owned(c) /\ status[c] = "running"
        /\ \A j \in 1 .. Len(t) : t[j].op \in {"run", "twait"} => t[j].c # c
    BY <1>0b, <2>1 DEF Fits
  <2>3. UNCHANGED <<waiting, ready, runq>> /\ stack' = t /\ ~Joinable(r)
    BY <1>10, <2>1 DEF TwaitBlocks, Joinable
  <2>4. /\ \A d \in Closure : status'[d] = IF d = c THEN "blocked" ELSE status[d]
        /\ \A d \in Closure : position'[d] = IF d = c THEN r ELSE position[d]
        /\ \A q \in Blocking : blockedClosure'[q] = IF q = r THEN c ELSE blockedClosure[q]
    BY <1>0, <1>10, <2>1 DEF TwaitBlocks, TypeOK
  <2>5. \A q : Joinable(q)' = Joinable(q)
    BY <2>3 DEF Joinable
  <2>6. StackOK(stack', status')
    <3>1. \A d \in Closure :
            \/ status'[d] = status[d]
            \/ /\ status[d] \in {"exiting", "freed"} => status'[d] \in {"exiting", "freed"}
               /\ \A i \in 1 .. Len(t) :
                    t[i].op \in {"run", "twait"} /\ t[i].c = d => status'[d] = "running"
      BY <2>2, <2>4
    <3>2. StackOK(t, status')
      BY <1>0b, <3>1, StatusOK
    <3>3. QED
      BY <2>3, <3>2
  <2>7. InQueue'
    BY <1>0, <2>2, <2>3, <2>4, QueueFrame
  <2>8. \A d \in Closure : Awaits(d)'
    <3> TAKE d \in Closure
    <3>1. CASE d = c
      <4>1. \A q \in Owned(c) : blockedClosure[q] = None
        BY <1>0, <2>2 DEF Awaits
      <4>2. \A q \in Owned(c) : blockedClosure'[q] = IF q = r THEN c ELSE None
        BY <2>4, <4>1, OwnedApart
      <4>3. QED
        BY <2>2, <2>3, <2>4, <2>5, <3>1, <4>2, OwnedApart DEF Awaits
    <3>2. CASE d # c
      <4>1. \A q \in Owned(d) : q # r /\ q \in Blocking
        BY <2>2, <3>2, OwnedApart
      <4>2. QED
        BY <1>0, <2>4, <2>5, <3>2, <4>1, AwaitsFrame
    <3>3. QED
      BY <3>1, <3>2
  <2>9. QED
    BY <2>6, <2>7, <2>8 DEF WakeState
<1>11. QED
  BY <1>1, <1>2, <1>3, <1>4, <1>5, <1>6, <1>7, <1>8, <1>9, <1>10 DEF Runtime

(***************************************************************************)
(* The driver's step, and what user code does.                             *)
(***************************************************************************)

LEMMA RunUnblockedWake ==
  ASSUME WakeInv, RunUnblocked
  PROVE  WakeState'
<1>0. /\ TypeOK /\ InQueue /\ stack = <<>> /\ runq # <<>> /\ runq \in Seq(Closure)
      /\ \A d \in Closure : Awaits(d)
  BY DEF WakeInv, TypeOK, RunUnblocked
<1>1. PICK c \in Closure : c = Head(runq)
  BY <1>0
<1>2. /\ Len(runq) \in Nat \ {0} /\ c = runq[1]
      /\ runq' = Tail(runq) /\ Len(runq') = Len(runq) - 1
      /\ \A i \in 1 .. Len(runq') : runq'[i] = runq[i + 1] /\ i + 1 \in 1 .. Len(runq)
  BY <1>0, <1>1 DEF RunUnblocked
<1>3. status[c] = "queued" /\ \A i \in 1 .. Len(runq') : runq'[i] # c
  BY <1>0, <1>2 DEF InQueue
<1>4. /\ UNCHANGED <<waiting, ready, blockedClosure, position>>
      /\ \A d \in Closure : d # c => status'[d] = status[d]
      /\ status'[c] = IF position[c] = "exit" THEN "exiting" ELSE "running"
  BY <1>0, <1>1 DEF RunUnblocked, eventVars, TypeOK
<1>5. StackOK(stack', status')
  <2>0. <<>> \in Seq(Frame)
    OBVIOUS
  <2>1. PICK s \in Seq(Frame) : s = <<>>
    BY <2>0
  <2>2. StackOK(s, status')
    BY <2>1 DEF StackOK
  <2>3. CASE position[c] = "exit"
    <3> DEFINE f == [op |-> "free", c |-> c, left |-> Owned(c)]
    <3>1. f \in Frame
      BY DEF Frame, Owned
    <3>2. Fits(f, 1, s, status')
      BY <1>4, <2>3 DEF Fits, ClearOps
    <3>3. stack' = <<f>> \o s
      BY <1>0, <1>1, <2>1, <2>3 DEF RunUnblocked, Push
    <3> HIDE DEF f
    <3>4. QED
      BY <2>2, <3>1, <3>2, <3>3, PushOK
  <2>4. CASE position[c] # "exit"
    <3> DEFINE f == [op |-> "twait", c |-> c, r |-> position[c]]
    <3>1. position[c] \in Owned(c)
      BY <1>0, <1>3, <2>4 DEF Awaits
    <3>2. f \in Frame
      BY <3>1 DEF Frame, Owned
    <3>3. Fits(f, 1, s, status')
      BY <1>4, <2>1, <2>4, <3>1 DEF Fits, ClearOps
    <3>4. stack' = <<f>> \o s
      BY <1>0, <1>1, <2>1, <2>4 DEF RunUnblocked, Push
    <3>5. PICK g \in Frame, st \in {status'} : g = f /\ st = status'
      BY <3>2
    <3>6. StackOK(<<g>> \o s, st)
      BY <2>2, <3>3, <3>5, PushOK
    <3>7. QED
      BY <3>4, <3>5, <3>6
  <2>5. QED
    BY <2>3, <2>4
<1>6. InQueue'
  <2>1. \A i \in 1 .. Len(runq') : status'[runq'[i]] = "queued"
    <3> TAKE i \in 1 .. Len(runq')
    <3>1. runq'[i] \in Closure /\ runq'[i] # c /\ status[runq'[i]] = "queued"
      BY <1>0, <1>2, <1>3 DEF InQueue
    <3>2. QED
      BY <1>4, <3>1
  <2>2. \A i, j \in 1 .. Len(runq') : runq'[i] = runq'[j] => i = j
    BY <1>0, <1>2 DEF InQueue
  <2>3. \A d \in Closure : status'[d] = "queued" => \E i \in 1 .. Len(runq') : runq'[i] = d
    <3> SUFFICES ASSUME NEW d \in Closure, status'[d] = "queued"
                 PROVE  \E i \in 1 .. Len(runq') : runq'[i] = d
      OBVIOUS
    <3>1. d # c /\ status[d] = "queued"
      BY <1>4
    <3>2. PICK k \in 1 .. Len(runq) : runq[k] = d
      BY <1>0, <3>1 DEF InQueue
    <3>3. k # 1 /\ k - 1 \in 1 .. Len(runq')
      BY <1>2, <3>1, <3>2
    <3>4. runq'[k - 1] = d
      BY <1>2, <3>2, <3>3
    <3>5. QED
      BY <3>3, <3>4
  <2>4. QED
    BY <1>0, <2>1, <2>2, <2>3 DEF InQueue
<1>7. \A d \in Closure : Awaits(d)'
  <2> TAKE d \in Closure
  <2>1. CASE d = c
    BY <1>0, <1>3, <1>4, <2>1 DEF Awaits
  <2>2. CASE d # c
    BY <1>0, <1>4, <2>2, AwaitsFrame DEF Joinable
  <2>3. QED
    BY <2>1, <2>2
<1>8. QED
  BY <1>5, <1>6, <1>7 DEF WakeState

LEMMA UserWake ==
  ASSUME WakeInv, User
  PROVE  WakeState'
<1>0. /\ TypeOK /\ InQueue /\ StackOK(stack, status) /\ stack \in Seq(Frame)
      /\ \A c \in Closure : Awaits(c)
  BY DEF WakeInv, TypeOK
<1>a. PICK now \in Seq(Frame) : now = stack
  BY <1>0
<1>b. PICK st : st = status
  OBVIOUS
<1>c. \A f \in Frame : Fits(f, 1, now, st) => StackOK(<<f>> \o now, st)
  BY <1>0, <1>a, <1>b, PushOK
\* What a call from user code that triggers an event does.
<1>t. ASSUME NEW e \in Event, NEW n, n \in [Event -> Int],
             SimpleTrigger(e, n, stack), position' = position
      PROVE  WakeState'
  BY <1>0, <1>a, <1>t, TriggerOK
\* The body of a function is the innermost frame.
<1>r. ASSUME NEW c \in Closure, TopIs([op |-> "run", c |-> c])
      PROVE  /\ stack # <<>> /\ status[c] = "running" /\ stack[1] = [op |-> "run", c |-> c]
             /\ Tail(stack) \in Seq(Frame) /\ StackOK(Tail(stack), status)
             /\ \A j \in 1 .. Len(Tail(stack)) :
                  Tail(stack)[j].op \in {"run", "twait"} => Tail(stack)[j].c # c
  <2>1. stack # <<>> /\ Head(stack) = [op |-> "run", c |-> c] /\ stack[1] = Head(stack)
    BY <1>0, <1>r DEF TopIs
  <2>2. /\ Fits(Head(stack), 1, Tail(stack), status)
        /\ Tail(stack) \in Seq(Frame) /\ StackOK(Tail(stack), status)
    BY <1>0, <2>1, PopOK
  <2>3. QED
    BY <2>1, <2>2 DEF Fits
<1>1. ASSUME NEW c \in Closure, NEW method \in BOOLEAN, Start(c, method)
      PROVE  WakeState'
  <2> DEFINE f == [op |-> "run", c |-> c]
  <2>1. /\ status[c] = "unstarted" /\ stack' = <<f>> \o stack
        /\ UNCHANGED <<waiting, ready, blockedClosure, position, runq>>
        /\ \A d \in Closure : status'[d] = IF d = c THEN "running" ELSE status[d]
    BY <1>0, <1>1 DEF Start, Push, TypeOK
  <2>2. StackOK(stack, status')
    BY <1>0, <2>1, StatusOffStackOK
  <2>3. f \in Frame /\ f.op = "run" /\ f.c = c
    BY DEF Frame
  <2>4. \A j \in 1 .. Len(stack) : stack[j].op \in {"run", "twait"} => stack[j].c # c
    BY <1>0, <2>1 DEF StackOK, Fits
  <2>5. Fits(f, 1, stack, status')
    BY <2>1, <2>3, <2>4 DEF Fits, ClearOps
  <2>6. PICK new : new = status'
    OBVIOUS
  <2>7. StackOK(<<f>> \o now, new)
    BY <1>a, <2>2, <2>3, <2>5, <2>6, PushOK
  <2>8. StackOK(stack', status')
    BY <1>a, <2>1, <2>6, <2>7
  <2>9. InQueue'
    BY <1>0, <2>1, QueueFrame
  <2>10. \A d \in Closure : Awaits(d)'
    <3> TAKE d \in Closure
    <3>1. CASE d = c
      BY <1>0, <2>1, <3>1 DEF Awaits
    <3>2. CASE d # c
      BY <1>0, <2>1, <3>2, AwaitsFrame DEF Joinable
    <3>3. QED
      BY <3>1, <3>2
  <2>11. QED
    BY <2>8, <2>9, <2>10 DEF WakeState
<1>2. ASSUME NEW e \in Event, NEW r \in Rdv, MakeEvent(e, r)
      PROVE  WakeState'
  <2>1. /\ UNCHANGED <<status, position, runq, stack, blockedClosure, ready>>
        /\ \A q \in Rdv : q # r => waiting'[q] = waiting[q]
    BY <1>0, <1>2 DEF MakeEvent, closureVars, TypeOK
  <2>2. \A q \in Blocking : q \notin Closure \/ q # r => Joinable(q)' = Joinable(q)
    BY <2>1, OwnedApart DEF Joinable, Blocking
  <2>3. CASE r \notin Closure
    BY <1>0, <2>1, <2>2, <2>3, SameWake
  <2>4. CASE r \in Closure
    <3>1. OwnerOf(r) = r /\ r \in Blocking
      BY <2>4 DEF OwnerOf, Blocking
    <3>2. status[r] = "running"
      BY <1>2, <1>r, <2>4, <3>1 DEF MakeEvent
    <3>3. \A d \in Closure : Awaits(d)'
      <4> TAKE d \in Closure
      <4>1. CASE d = r
        BY <1>0, <2>1, <3>2, <4>1 DEF Awaits
      <4>2. CASE d # r
        <5>1. \A q \in Owned(d) : q # r /\ q \in Blocking
          BY <2>4, <3>1, <4>2, OwnedApart
        <5>2. QED
          BY <1>0, <2>1, <2>2, <5>1, AwaitsFrame
      <4>3. QED
        BY <4>1, <4>2
    <3>4. QED
      BY <1>0, <2>1, <3>3 DEF WakeState, InQueue
  <2>5. QED
    BY <2>3, <2>4
<1>3. ASSUME NEW e \in Event, Copy(e)
      PROVE  WakeState'
  BY <1>0, <1>3, SameWake DEF Copy, closureVars, Joinable
<1>4. ASSUME NEW e \in Event, Drop(e)
      PROVE  WakeState'
  <2> DEFINE count == [refs EXCEPT ![e] = @ - 1]
  <2>1. count \in [Event -> Int]
    BY <1>0 DEF TypeOK
  <2>2. CASE count[e] = 0 /\ rdv[e] # None
    <3>1. SimpleTrigger(e, count, stack) /\ position' = position
      BY <1>4, <2>2 DEF Drop
    <3>2. PICK n \in [Event -> Int] : n = count
      BY <2>1
    <3>3. QED
      BY <1>t, <3>1, <3>2
  <2>3. CASE ~(count[e] = 0 /\ rdv[e] # None)
    BY <1>0, <1>4, <2>3, SameWake DEF Drop, Joinable
  <2>4. QED
    BY <2>2, <2>3
<1>5. ASSUME NEW e \in Event, Trigger(e)
      PROVE  WakeState'
  <2>1. SimpleTrigger(e, refs, stack) /\ position' = position
    BY <1>5 DEF Trigger
  <2>2. PICK n \in [Event -> Int] : n = refs
    BY <1>0 DEF TypeOK
  <2>3. QED
    BY <1>t, <2>1, <2>2
<1>6. ASSUME NEW e \in Event, NEW d \in Event, AtTrigger(e, d)
      PROVE  WakeState'
  <2>1. CASE rdv[e] # None
    BY <1>0, <1>6, <2>1, SameWake DEF AtTrigger, Joinable
  <2>2. CASE rdv[e] = None
    <3>1. SimpleTrigger(d, refs, stack) /\ position' = position
      BY <1>6, <2>2 DEF AtTrigger
    <3>2. PICK n \in [Event -> Int] : n = refs
      BY <1>0 DEF TypeOK
    <3>3. QED
      BY <1>t, <3>1, <3>2
  <2>3. QED
    BY <2>1, <2>2
<1>7. ASSUME NEW c \in Closure, NEW r \in Blocking, Twait(c, r)
      PROVE  WakeState'
  <2> DEFINE f == [op |-> "twait", c |-> c, r |-> r]
  <2>1. TopIs([op |-> "run", c |-> c]) /\ r \in Owned(c) /\ stack' = <<f>> \o Tail(stack)
    BY <1>7 DEF Twait, Replace
  <2>2. f \in Frame /\ Fits(f, 1, Tail(stack), status)
    BY <1>r, <2>1 DEF Frame, Fits, ClearOps
  <2>3. PICK s \in Seq(Frame) : s = Tail(stack)
    BY <1>r, <2>1
  <2>4. StackOK(<<f>> \o s, st)
    BY <1>b, <1>r, <2>1, <2>2, <2>3, PushOK
  <2>5. StackOK(stack', status)
    BY <1>b, <2>1, <2>3, <2>4
  <2>6. QED
    BY <1>7, <2>5, SameWake DEF Twait, closureVars, Joinable
<1>8. ASSUME NEW c \in Closure, NEW r \in Blocking, Clear(c, r)
      PROVE  WakeState'
  <2> DEFINE f == [op |-> "clear", r |-> r]
  <2>1. /\ TopIs([op |-> "run", c |-> c]) /\ r \in Explicit /\ OwnerOf(r) = c
        /\ stack' = <<f>> \o stack
    BY <1>8 DEF Clear, Push, Owned
  <2>2. f \in Frame /\ f.op = "clear" /\ f.r = r
    BY DEF Frame
  <2>3. 1 \in 1 .. Len(stack) /\ stack[1].op = "run" /\ stack[1].c = c
    BY <1>0, <1>r, <2>1
  <2>4. Fits(f, 1, stack, status)
    BY <2>1, <2>2, <2>3 DEF Fits, ClearOps
  <2>5. StackOK(stack', status)
    BY <1>a, <1>b, <1>c, <2>1, <2>2, <2>4
  <2>6. QED
    BY <1>8, <2>5, SameWake DEF Clear, closureVars, Joinable
<1>9. ASSUME NEW c \in Closure, Exit(c)
      PROVE  WakeState'
  <2> DEFINE f == [op |-> "free", c |-> c, left |-> Owned(c)]
  <2>1. /\ TopIs([op |-> "run", c |-> c]) /\ stack' = <<f>> \o Tail(stack)
        /\ UNCHANGED <<waiting, ready, blockedClosure, position, runq>>
        /\ \A d \in Closure : status'[d] = IF d = c THEN "exiting" ELSE status[d]
    BY <1>0, <1>9 DEF Exit, Replace, eventVars, TypeOK
  <2>2. /\ status[c] = "running" /\ StackOK(Tail(stack), status)
        /\ Tail(stack) \in Seq(Frame)
        /\ \A j \in 1 .. Len(Tail(stack)) :
             Tail(stack)[j].op \in {"run", "twait"} => Tail(stack)[j].c # c
    BY <1>r, <2>1
  <2>3. PICK s \in Seq(Frame), new \in {status'} : s = Tail(stack)
    BY <2>2
  <2>4. StackOK(s, new)
    <3>1. \A d \in Closure :
            \/ new[d] = st[d]
            \/ /\ st[d] \in {"exiting", "freed"} => new[d] \in {"exiting", "freed"}
               /\ \A i \in 1 .. Len(s) :
                    s[i].op \in {"run", "twait"} /\ s[i].c = d => new[d] = "running"
      BY <1>b, <2>1, <2>2, <2>3
    <3>2. StackOK(s, st)
      BY <1>b, <2>2, <2>3
    <3>3. QED
      BY <3>1, <3>2, StatusOK
  <2>5. f \in Frame /\ Fits(f, 1, s, new)
    BY <2>1, <2>3 DEF Frame, Fits, ClearOps, Owned
  <2>6. StackOK(<<f>> \o s, new)
    BY <2>4, <2>5, PushOK
  <2>7. StackOK(stack', status')
    BY <2>1, <2>3, <2>6
  <2>8. InQueue'
    BY <1>0, <2>1, <2>2, QueueFrame
  <2>9. \A d \in Closure : Awaits(d)'
    <3> TAKE d \in Closure
    <3>1. CASE d = c
      BY <1>0, <2>1, <3>1 DEF Awaits
    <3>2. CASE d # c
      BY <1>0, <2>1, <3>2, AwaitsFrame DEF Joinable
    <3>3. QED
      BY <3>1, <3>2
  <2>10. QED
    BY <2>7, <2>8, <2>9 DEF WakeState
<1>10. ASSUME NEW c \in Closure, DestroyObject(c)
       PROVE  WakeState'
  <2>1. /\ status[c] \in {"blocked", "queued"}
        /\ UNCHANGED <<waiting, ready, blockedClosure, stack>>
        /\ \A d \in Closure : position'[d] = IF d = c THEN "exit" ELSE position[d]
        /\ Unblock(c)
    BY <1>0, <1>10 DEF DestroyObject, eventVars, TypeOK
  <2>2. /\ InQueue'
        /\ \A d \in Closure :
             status'[d] = IF d = c /\ status[c] = "blocked" THEN "queued" ELSE status[d]
    BY <1>0, <2>1, UnblockOK
  <2>3. StackOK(stack', status')
    BY <1>0, <2>1, <2>2, StatusOffStackOK
  <2>4. \A d \in Closure : Awaits(d)'
    <3> TAKE d \in Closure
    <3>1. CASE d = c
      BY <1>0, <2>1, <2>2, <3>1 DEF Awaits
    <3>2. CASE d # c
      BY <1>0, <2>1, <2>2, <3>2, AwaitsFrame DEF Joinable
    <3>3. QED
      BY <3>1, <3>2
  <2>5. QED
    BY <2>2, <2>3, <2>4 DEF WakeState
<1>11. CASE HookReturns
  <2>1. StackOK(Tail(stack), status)
    BY <1>0, <1>11, PopOK DEF HookReturns, TopOp
  <2>2. QED
    BY <1>11, <2>1, SameWake DEF HookReturns, eventVars, closureVars, Joinable
<1>12. QED
  BY <1>1, <1>2, <1>3, <1>4, <1>5, <1>6, <1>7, <1>8, <1>9, <1>10, <1>11 DEF User

(***************************************************************************)
(* The theorems.                                                           *)
(***************************************************************************)

\* The invariant is inductive.
THEOREM Inductive == Spec => []WakeInv
<1>1. Init => WakeInv
  <2> SUFFICES ASSUME Init PROVE WakeInv
    OBVIOUS
  <2>1. <<>> \in Seq(Event) /\ <<>> \in Seq(Closure) /\ <<>> \in Seq(Frame)
    OBVIOUS
  <2>2. 0 \in 0 .. MaxHandles
    BY ConstantsAssumption
  <2>3. TypeOK
    BY <2>1, <2>2 DEF Init, TypeOK, Status
  <2>4. StackOK(stack, status) /\ InQueue
    BY DEF Init, StackOK, InQueue
  <2>5. \A c \in Closure : Awaits(c)
    BY OwnedApart DEF Init, Awaits
  <2>6. QED
    BY <2>3, <2>4, <2>5 DEF WakeInv
<1>2. WakeInv /\ [Next]_vars => WakeInv'
  <2> SUFFICES ASSUME WakeInv, [Next]_vars PROVE WakeInv'
    OBVIOUS
  <2>0. TypeOK /\ InQueue /\ StackOK(stack, status) /\ \A c \in Closure : Awaits(c)
    BY DEF WakeInv
  <2>1. CASE Runtime
    BY <2>0, <2>1, RuntimeType, RuntimeWake DEF WakeInv, WakeState
  <2>2. CASE RunUnblocked
    BY <2>0, <2>2, UserType, RunUnblockedWake DEF WakeInv, WakeState
  <2>3. CASE User
    BY <2>0, <2>3, UserType, UserWake DEF WakeInv, WakeState
  <2>4. CASE UNCHANGED vars
    <3>1. TypeOK'
      BY <2>0, <2>4 DEF TypeOK, vars
    <3>2. WakeState'
      BY <2>0, <2>4, SameWake DEF vars, Joinable
    <3>3. QED
      BY <3>1, <3>2 DEF WakeInv, WakeState
  <2>5. QED
    BY <2>1, <2>2, <2>3, <2>4 DEF Next
<1>3. QED
  BY <1>1, <1>2, PTL DEF Spec

\* Every variable has its type in every reachable state.
THEOREM TypeCorrect == Spec => []TypeOK
<1>1. WakeInv => TypeOK
  BY DEF WakeInv
<1>2. QED
  BY <1>1, Inductive, PTL

\* Triggering, dropping or clearing events in any order, from any depth of
\* calls, never leaves a closure blocked on a rendezvous that it could join
\* (simple_trigger, blocking_rendezvous::unblock, closure::unblock).
THEOREM WakeupNotLost == Spec => []NoLostWakeup
<1>1. WakeInv => NoLostWakeup
  BY DEF WakeInv, Awaits, NoLostWakeup
<1>2. QED
  BY <1>1, Inductive, PTL

\* A closure that the driver resumes finds its rendezvous joinable, whatever
\* ran between the trigger that unblocked it and its turn in the queue.
THEOREM WakeupNotFalse == Spec => []WakeupHolds
<1>1. WakeInv => WakeupHolds
  BY DEF WakeInv, Awaits, WakeupHolds
<1>2. QED
  BY <1>1, Inductive, PTL

\* No closure is in the driver's queue twice, or while its body is on the call
\* stack, or after it was deleted; and every unblocked closure is in the queue.
THEOREM QueueExact == Spec => []QueuedOnce
<1>1. WakeInv => QueuedOnce
  <2> SUFFICES ASSUME WakeInv PROVE QueuedOnce
    OBVIOUS
  <2>1. runq \in Seq(Closure) /\ stack \in Seq(Frame) /\ InQueue /\ StackOK(stack, status)
    BY DEF WakeInv, TypeOK
  <2>2. DOMAIN runq = 1 .. Len(runq) /\ DOMAIN stack = 1 .. Len(stack)
    BY <2>1
  <2>3. \A i \in DOMAIN stack : stack[i].op \in {"run", "twait"} =>
          status[stack[i].c] = "running"
    BY <2>1, <2>2 DEF StackOK, Fits
  <2>4. QED
    BY <2>1, <2>2, <2>3 DEF InQueue, QueuedOnce
<1>2. QED
  BY <1>1, Inductive, PTL

===============================================================================
