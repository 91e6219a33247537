------------------------------ MODULE Rendezvous ------------------------------
(***************************************************************************)
(* Events, rendezvous and closures: the core of the Tamer runtime          *)
(* (tamer/xbase.hh, tamer/xbase.cc, tamer/rendezvous.hh) together with the *)
(* code that compiler/processor.cc generates for a tamed function.         *)
(*                                                                         *)
(* The process has one thread.  What makes the runtime hard is re-entry:   *)
(* triggering an event may call user code, which may trigger, copy, drop   *)
(* or clear other events before the first trigger returns.  The model      *)
(* therefore keeps the C++ call stack.  Its top frame says whose turn it   *)
(* is; an empty stack is the driver loop between two calls.                *)
(*                                                                         *)
(* Definitions named Bug... are seeded faults, not part of the             *)
(* specification: each shows that some property notices the fault.         *)
(***************************************************************************)
EXTENDS Integers, Sequences, FiniteSets

CONSTANTS
  Event,        \* the simple_event objects a run may allocate
  Closure,      \* activations of tamed functions; the name of a closure also
                \* stands for its implicit gather_rendezvous
  Explicit,     \* explicit rendezvous<> variables of the tamed functions
  Functional,   \* rendezvous that call user code (fun_event, with_helper, ...)
  Owner,        \* the closure that declares each explicit rendezvous
  MaxHandles,   \* bound: event<> objects that refer to one simple_event
  None          \* the null pointer

ASSUME ConstantsAssumption ==
  /\ Owner \in [Explicit -> Closure]
  /\ MaxHandles \in Nat \ {0}
  /\ Closure \cap Explicit = {}
  /\ Closure \cap Functional = {}
  /\ Explicit \cap Functional = {}
  /\ None \notin Event \cup Closure \cup Explicit \cup Functional

VARIABLES
  \* simple_event
  life,           \* "unborn", "live" or "deleted" memory
  rdv,            \* _r, None when the event is empty
  refs,           \* _refcount
  hook,           \* the event at_trigger_arg_ names, None when there is no hook
  handles,        \* event<> objects of the program that refer to the event
  \* rendezvous
  waiting,        \* waiting_, newest event first
  ready,          \* ready_ of an explicit rendezvous, oldest event first
  blockedClosure, \* blocked_closure_
  \* closures and the driver
  status,         \* where the activation is in its life
  position,       \* tamer_block_position_: the twait to continue at, or "exit"
  linked,         \* tamer_closures_pprev_ is set: destroying the object reaches it
  runq,           \* the driver's queue of unblocked closures
  stack           \* the C++ call stack, innermost frame first

eventVars   == <<life, rdv, refs, hook, handles>>
closureVars == <<status, position, linked>>
vars == <<life, rdv, refs, hook, handles, waiting, ready, blockedClosure,
          status, position, linked, runq, stack>>

Blocking   == Closure \cup Explicit
Rdv        == Blocking \cup Functional
OwnerOf(r) == IF r \in Closure THEN r ELSE Owner[r]
Owned(c)   == {r \in Blocking : OwnerOf(r) = c}

Frame ==
       [op : {"run"}, c : Closure]                \* the body of a tamed function
  \cup [op : {"twait"}, c : Closure, r : Blocking] \* the function at twait on r
  \cup [op : {"free"}, c : Closure, left : SUBSET Blocking] \* delete of the closure
  \cup [op : {"user"}]                            \* user code a hook called
  \cup [op : {"trigger"}, ev : Event]             \* simple_trigger(ev), not begun
  \cup [op : {"finish"}, ev : Event, reduce : BOOLEAN] \* its hook has been called
  \cup [op : {"clear"}, r : Blocking]             \* clear(), not begun
  \cup [op : {"visit"}, r : Blocking, list : Seq(Event)] \* clear() at the head of list,
  \cup [op : {"next"}, r : Blocking, list : Seq(Event) \ {<<>>}] \* and past its hook

Status == {"unstarted", "running", "blocked", "queued", "exiting", "freed"}

Push(f)    == <<f>> \o stack
Replace(f) == <<f>> \o Tail(stack)
TopIs(f)   == stack # <<>> /\ Head(stack) = f
TopOp(ops) == stack # <<>> /\ Head(stack).op \in ops
UserCode   == stack = <<>> \/ TopOp({"run", "user"})
Init ==
  /\ life = [e \in Event |-> "unborn"]
  /\ rdv = [e \in Event |-> None]
  /\ refs = [e \in Event |-> 0]
  /\ hook = [e \in Event |-> None]
  /\ handles = [e \in Event |-> 0]
  /\ waiting = [r \in Rdv |-> <<>>]
  /\ ready = [r \in Explicit |-> <<>>]
  /\ blockedClosure = [r \in Blocking |-> None]
  /\ status = [c \in Closure |-> "unstarted"]
  /\ position = [c \in Closure |-> None]
  /\ linked = [c \in Closure |-> FALSE]
  /\ runq = <<>>
  /\ stack = <<>>

(***************************************************************************)
(* Pieces that several handlers call.                                      *)
(***************************************************************************)

\* The memory of the events of D that nobody refers to any more is released.
DeleteUnused(D, count) ==
  life' = [e \in Event |-> IF e \in D /\ count[e] = 0 THEN "deleted" ELSE life[e]]

\* e leaves the list of its rendezvous.
Unlink(e) ==
  LET list == waiting[rdv[e]]
      at == CHOOSE i \in DOMAIN list : list[i] = e
  IN IF \E i \in DOMAIN list : list[i] = e
     THEN SubSeq(list, 1, at - 1) \o SubSeq(list, at + 1, Len(list))
     ELSE list

BugUnblockAlways(c) ==
  /\ status' = [status EXCEPT ![c] = "queued"]
  /\ runq' = Append(runq, c)

\* closure::unblock: a closure that is not blocked on a driver is left alone.
Unblock(c) ==
  IF status[c] = "blocked"
  THEN /\ status' = [status EXCEPT ![c] = "queued"]
       /\ runq' = Append(runq, c)
  ELSE UNCHANGED <<status, runq>>

\* blocking_rendezvous::unblock
UnblockRdv(r) ==
  IF blockedClosure[r] = None
  THEN UNCHANGED <<blockedClosure, status, runq>>
  ELSE /\ blockedClosure' = [blockedClosure EXCEPT ![r] = None]
       /\ Unblock(blockedClosure[r])

\* simple_trigger after the rendezvous has been told: give up the reference,
\* then go on with the event that the at_trigger hook names, if any.  The hook
\* of an empty event is never looked at again, so that it is forgotten here.
Released(count, e, reduce) == IF reduce THEN [count EXCEPT ![e] = @ - 1] ELSE count
CallHook(e, rest) ==
  /\ hook' = [hook EXCEPT ![e] = None]
  /\ stack' = IF hook[e] = None THEN rest
              ELSE <<[op |-> "trigger", ev |-> hook[e]]>> \o rest

\* Triggering an event that has already triggered only gives up the reference.
TriggerEmpty(e, count, rest) ==
  /\ rdv[e] = None
  /\ refs' = Released(count, e, count[e] > 0)
  /\ DeleteUnused({e}, refs')
  /\ stack' = rest
  /\ UNCHANGED <<rdv, hook, waiting, ready, blockedClosure, status, runq>>

BugGatherTestsFirst(e, count, rest) ==
  /\ rdv[e] \in Closure
  /\ rdv' = [rdv EXCEPT ![e] = None]
  /\ waiting' = [waiting EXCEPT ![rdv[e]] = Unlink(e)]
  /\ IF waiting[rdv[e]] = <<>> THEN UnblockRdv(rdv[e])
     ELSE UNCHANGED <<blockedClosure, status, runq>>
  /\ refs' = Released(count, e, count[e] > 0)
  /\ DeleteUnused({e}, refs')
  /\ CallHook(e, rest)
  /\ UNCHANGED ready

BugGatherUnblocksAlways(e, count, rest) ==
  /\ rdv[e] \in Closure
  /\ rdv' = [rdv EXCEPT ![e] = None]
  /\ waiting' = [waiting EXCEPT ![rdv[e]] = Unlink(e)]
  /\ UnblockRdv(rdv[e])
  /\ refs' = Released(count, e, count[e] > 0)
  /\ DeleteUnused({e}, refs')
  /\ CallHook(e, rest)
  /\ UNCHANGED ready

TriggerGather(e, count, rest) ==
  /\ rdv[e] \in Closure
  /\ rdv' = [rdv EXCEPT ![e] = None]
  /\ waiting' = [waiting EXCEPT ![rdv[e]] = Unlink(e)]
  /\ IF waiting'[rdv[e]] = <<>> THEN UnblockRdv(rdv[e])
     ELSE UNCHANGED <<blockedClosure, status, runq>>
  /\ refs' = Released(count, e, count[e] > 0)
  /\ DeleteUnused({e}, refs')
  /\ CallHook(e, rest)
  /\ UNCHANGED ready

\* The ready list holds a reference of its own.
TriggerExplicit(e, count, rest) ==
  /\ rdv[e] \in Explicit
  /\ rdv' = [rdv EXCEPT ![e] = None]
  /\ waiting' = [waiting EXCEPT ![rdv[e]] = Unlink(e)]
  /\ ready' = [ready EXCEPT ![rdv[e]] = Append(@, e)]
  /\ UnblockRdv(rdv[e])
  /\ refs' = Released([count EXCEPT ![e] = @ + 1], e, count[e] > 0)
  /\ DeleteUnused({e}, refs')
  /\ CallHook(e, rest)

\* The user code runs before the reference is given up.
TriggerFunctional(e, count, rest) ==
  /\ rdv[e] \in Functional
  /\ rdv' = [rdv EXCEPT ![e] = None]
  /\ waiting' = [waiting EXCEPT ![rdv[e]] = Unlink(e)]
  /\ refs' = count
  /\ stack' = <<[op |-> "user"],
                [op |-> "finish", ev |-> e, reduce |-> count[e] > 0]>> \o rest
  /\ UNCHANGED <<life, hook, ready, blockedClosure, status, runq>>

SimpleTrigger(e, count, rest) ==
  \/ TriggerEmpty(e, count, rest)
  \/ TriggerGather(e, count, rest)
  \/ TriggerExplicit(e, count, rest)
  \/ TriggerFunctional(e, count, rest)

(***************************************************************************)
(* The runtime's own steps: the rest of a call that is on the stack.       *)
(***************************************************************************)

TriggerNext ==
  /\ TopOp({"trigger"})
  /\ SimpleTrigger(Head(stack).ev, refs, Tail(stack))
  /\ UNCHANGED <<handles, position, linked>>

BugFinishLeaks ==
  /\ TopOp({"finish"})
  /\ LET e == Head(stack).ev IN
       /\ refs' = Released(refs, e, Head(stack).reduce)
       /\ CallHook(e, Tail(stack))
  /\ UNCHANGED <<life, rdv, handles, waiting, ready, blockedClosure, closureVars, runq>>

FinishTrigger ==
  /\ TopOp({"finish"})
  /\ LET e == Head(stack).ev IN
       /\ refs' = Released(refs, e, Head(stack).reduce)
       /\ DeleteUnused({e}, refs')
       /\ CallHook(e, Tail(stack))
  /\ UNCHANGED <<rdv, handles, waiting, ready, blockedClosure, closureVars, runq>>

\* hard_remove_waiting, first loop: every waiting event becomes empty.
ClearBegin ==
  /\ TopOp({"clear"})
  /\ LET r == Head(stack).r IN
       /\ rdv' = [e \in Event |-> IF rdv[e] = r THEN None ELSE rdv[e]]
       /\ stack' = Replace([op |-> "visit", r |-> r, list |-> waiting[r]])
  /\ UNCHANGED <<life, refs, hook, handles, waiting, ready, blockedClosure,
                 closureVars, runq>>

BugClearSkipsHook ==
  /\ TopOp({"visit"})
  /\ Head(stack).list # <<>>
  /\ stack' = Replace([Head(stack) EXCEPT !.op = "next"])
  /\ UNCHANGED <<eventVars, waiting, ready, blockedClosure, closureVars, runq>>

\* Second loop, at the event in front: its hook is called ...
ClearVisit ==
  /\ TopOp({"visit"})
  /\ Head(stack).list # <<>>
  /\ CallHook(Head(Head(stack).list), Replace([Head(stack) EXCEPT !.op = "next"]))
  /\ UNCHANGED <<life, rdv, refs, handles, waiting, ready, blockedClosure,
                 closureVars, runq>>

\* ... and then its _r_next is followed.
ClearNext ==
  /\ TopOp({"next"})
  /\ stack' = Replace([op |-> "visit", r |-> Head(stack).r,
                       list |-> Tail(Head(stack).list)])
  /\ UNCHANGED <<eventVars, waiting, ready, blockedClosure, closureVars, runq>>

\* The end of clear(): the list is dropped, and with it the ready events.
ClearEnd ==
  /\ TopOp({"visit"})
  /\ Head(stack).list = <<>>
  /\ LET r == Head(stack).r IN
       /\ waiting' = [waiting EXCEPT ![r] = <<>>]
       /\ IF r \in Explicit
          THEN /\ ready' = [ready EXCEPT ![r] = <<>>]
               /\ refs' = [e \in Event |->
                             refs[e] - Cardinality({i \in DOMAIN ready[r] : ready[r][i] = e})]
               /\ DeleteUnused({ready[r][i] : i \in DOMAIN ready[r]}, refs')
          ELSE UNCHANGED <<ready, refs, life>>
  /\ stack' = Tail(stack)
  /\ UNCHANGED <<rdv, hook, handles, blockedClosure, closureVars, runq>>

\* The end of delete: destructors of the rendezvous variables, in some order,
FreeRendezvous ==
  /\ TopOp({"free"})
  /\ \E r \in Head(stack).left :
       stack' = <<[op |-> "clear", r |-> r]>>
                \o Replace([Head(stack) EXCEPT !.left = @ \ {r}])
  /\ UNCHANGED <<eventVars, waiting, ready, blockedClosure, closureVars, runq>>

\* then the closure itself, which leaves its object's list.
FreeClosure ==
  /\ TopOp({"free"})
  /\ Head(stack).left = {}
  /\ LET c == Head(stack).c IN
       /\ status' = [status EXCEPT ![c] = "freed"]
       /\ linked' = [linked EXCEPT ![c] = FALSE]
       /\ blockedClosure' = [r \in Blocking |-> IF r \in Owned(c) THEN None
                                                ELSE blockedClosure[r]]
  /\ stack' = Tail(stack)
  /\ UNCHANGED <<eventVars, waiting, ready, position, runq>>

\* twait: join() succeeds and the function goes on ...
TwaitJoins ==
  /\ TopOp({"twait"})
  /\ LET c == Head(stack).c  r == Head(stack).r IN
       /\ IF r \in Explicit
          THEN /\ ready[r] # <<>>
               /\ ready' = [ready EXCEPT ![r] = Tail(@)]
               /\ refs' = [refs EXCEPT ![Head(ready[r])] = @ - 1]
               /\ DeleteUnused({Head(ready[r])}, refs')
          ELSE waiting[r] = <<>> /\ UNCHANGED <<ready, refs, life>>
       /\ stack' = Replace([op |-> "run", c |-> c])
  /\ UNCHANGED <<rdv, hook, handles, waiting, blockedClosure, closureVars, runq>>

\* ... or it fails, the closure blocks and the function returns to its caller.
TwaitBlocks ==
  /\ TopOp({"twait"})
  /\ LET c == Head(stack).c  r == Head(stack).r IN
       /\ IF r \in Explicit THEN ready[r] = <<>> ELSE waiting[r] # <<>>
       /\ blockedClosure' = [blockedClosure EXCEPT ![r] = c]
       /\ position' = [position EXCEPT ![c] = r]
       /\ status' = [status EXCEPT ![c] = "blocked"]
  /\ stack' = Tail(stack)
  /\ UNCHANGED <<eventVars, waiting, ready, linked, runq>>

BugDestroyedIsNotFreed ==
  /\ stack = <<>>
  /\ runq # <<>>
  /\ LET c == Head(runq) IN
       IF position[c] = "exit"
       THEN status' = [status EXCEPT ![c] = "exiting"] /\ UNCHANGED stack
       ELSE /\ status' = [status EXCEPT ![c] = "running"]
            /\ stack' = Push([op |-> "twait", c |-> c, r |-> position[c]])
  /\ runq' = Tail(runq)
  /\ UNCHANGED <<eventVars, waiting, ready, blockedClosure, position, linked>>

\* The driver resumes the closure at the head of its queue: at its twait, or
\* straight to the end of the function when its object has been destroyed.
RunUnblocked ==
  /\ stack = <<>>
  /\ runq # <<>>
  /\ LET c == Head(runq) IN
       IF position[c] = "exit"
       THEN /\ status' = [status EXCEPT ![c] = "exiting"]
            /\ stack' = Push([op |-> "free", c |-> c, left |-> Owned(c)])
       ELSE /\ status' = [status EXCEPT ![c] = "running"]
            /\ stack' = Push([op |-> "twait", c |-> c, r |-> position[c]])
  /\ runq' = Tail(runq)
  /\ UNCHANGED <<eventVars, waiting, ready, blockedClosure, position, linked>>

(***************************************************************************)
(* What user code does: the driver's callers, the body of a tamed function *)
(* and the code that a functional rendezvous calls.                        *)
(***************************************************************************)

\* Call tamed function c, a plain function or a method of a tamed_class.
Start(c, method) ==
  /\ UserCode
  /\ status[c] = "unstarted"
  /\ status' = [status EXCEPT ![c] = "running"]
  /\ linked' = [linked EXCEPT ![c] = method]
  /\ stack' = Push([op |-> "run", c |-> c])
  /\ UNCHANGED <<eventVars, waiting, ready, blockedClosure, position, runq>>

\* make_event(r): a function makes events on its own rendezvous; anyone may
\* build a functional rendezvous.
MakeEvent(e, r) ==
  /\ IF r \in Blocking THEN TopIs([op |-> "run", c |-> OwnerOf(r)]) ELSE UserCode
  /\ life[e] = "unborn"
  /\ life' = [life EXCEPT ![e] = "live"]
  /\ rdv' = [rdv EXCEPT ![e] = r]
  /\ refs' = [refs EXCEPT ![e] = 1]
  /\ handles' = [handles EXCEPT ![e] = 1]
  /\ waiting' = [waiting EXCEPT ![r] = <<e>> \o @]
  /\ UNCHANGED <<hook, ready, blockedClosure, closureVars, runq, stack>>

\* Copy an event<>, or take its unblocker().
Copy(e) ==
  /\ UserCode
  /\ handles[e] \in 1 .. MaxHandles - 1
  /\ handles' = [handles EXCEPT ![e] = @ + 1]
  /\ refs' = [refs EXCEPT ![e] = @ + 1]
  /\ UNCHANGED <<life, rdv, hook, waiting, ready, blockedClosure, closureVars,
                 runq, stack>>

\* Destroy an event<>.  Dropping the last reference to an active event triggers
\* it, with a count that is 0 already.
Drop(e) ==
  /\ UserCode
  /\ handles[e] > 0
  /\ handles' = [handles EXCEPT ![e] = @ - 1]
  /\ LET count == [refs EXCEPT ![e] = @ - 1] IN
       IF count[e] = 0 /\ rdv[e] # None
       THEN SimpleTrigger(e, count, stack)
       ELSE /\ refs' = count
            /\ DeleteUnused({e}, count)
            /\ UNCHANGED <<rdv, hook, waiting, ready, blockedClosure, status, runq, stack>>
  /\ UNCHANGED <<position, linked>>

\* event<>::operator(), trigger, unblock: the event<> becomes null.
Trigger(e) ==
  /\ UserCode
  /\ handles[e] > 0
  /\ handles' = [handles EXCEPT ![e] = @ - 1]
  /\ SimpleTrigger(e, refs, stack)
  /\ UNCHANGED <<position, linked>>

\* e.at_trigger(std::move(d)).  The hook of an active event is stored; with an
\* empty event d is triggered at once.  Two hooks on one event need a
\* distribute_rendezvous and are not part of this module.
AtTrigger(e, d) ==
  /\ UserCode
  /\ handles[e] > 0
  /\ handles[d] > IF e = d THEN 1 ELSE 0
  /\ handles' = [handles EXCEPT ![d] = @ - 1]
  /\ IF rdv[e] # None
     THEN /\ hook[e] = None
          /\ hook' = [hook EXCEPT ![e] = d]
          /\ UNCHANGED <<life, rdv, refs, waiting, ready, blockedClosure, status,
                         runq, stack>>
     ELSE SimpleTrigger(d, refs, stack)
  /\ UNCHANGED <<position, linked>>

\* The body of function c reaches a twait on its rendezvous r.  A twait{} block
\* must be over before a twait on an explicit rendezvous; one whose events have
\* all triggered falls through without a step.
Twait(c, r) ==
  /\ TopIs([op |-> "run", c |-> c])
  /\ r \in Owned(c)
  /\ r \in Explicit <=> waiting[c] = <<>>
  /\ stack' = Replace([op |-> "twait", c |-> c, r |-> r])
  /\ UNCHANGED <<eventVars, waiting, ready, blockedClosure, closureVars, runq>>

\* r.clear() in the body of function c; with nothing to clear it is no step.
Clear(c, r) ==
  /\ TopIs([op |-> "run", c |-> c])
  /\ r \in Owned(c) \cap Explicit
  /\ waiting[r] # <<>> \/ ready[r] # <<>>
  /\ stack' = Push([op |-> "clear", r |-> r])
  /\ UNCHANGED <<eventVars, waiting, ready, blockedClosure, closureVars, runq>>

\* The body of function c returns.
Exit(c) ==
  /\ TopIs([op |-> "run", c |-> c])
  /\ status' = [status EXCEPT ![c] = "exiting"]
  /\ stack' = Replace([op |-> "free", c |-> c, left |-> Owned(c)])
  /\ UNCHANGED <<eventVars, waiting, ready, blockedClosure, position, linked, runq>>

\* The code a hook called returns.
HookReturns ==
  /\ TopOp({"user"})
  /\ stack' = Tail(stack)
  /\ UNCHANGED <<eventVars, waiting, ready, blockedClosure, closureVars, runq>>

\* The object that c is a method of is destroyed while c waits.
DestroyObject(c) ==
  /\ UserCode
  /\ linked[c]
  /\ status[c] \in {"blocked", "queued"}
  /\ linked' = [linked EXCEPT ![c] = FALSE]
  /\ position' = [position EXCEPT ![c] = "exit"]
  /\ Unblock(c)
  /\ UNCHANGED <<eventVars, waiting, ready, blockedClosure, stack>>

Runtime ==
  \/ TriggerNext \/ FinishTrigger
  \/ ClearBegin \/ ClearVisit \/ ClearNext \/ ClearEnd
  \/ FreeRendezvous \/ FreeClosure
  \/ TwaitJoins \/ TwaitBlocks

User ==
  \/ \E c \in Closure, method \in BOOLEAN : Start(c, method)
  \/ \E e \in Event, r \in Rdv : MakeEvent(e, r)
  \/ \E e \in Event : Copy(e) \/ Drop(e) \/ Trigger(e)
  \/ \E e, d \in Event : AtTrigger(e, d)
  \/ \E c \in Closure, r \in Blocking : Twait(c, r) \/ Clear(c, r)
  \/ \E c \in Closure : Exit(c) \/ DestroyObject(c)
  \/ HookReturns

Next == Runtime \/ RunUnblocked \/ User

\* A call on the stack goes on, the driver runs the closures in its queue, and
\* code that has been called reaches its end or a twait (it never spins).
Fairness ==
  /\ WF_vars(Runtime)
  /\ WF_vars(RunUnblocked)
  /\ WF_vars(HookReturns)
  /\ \A c \in Closure : WF_vars(Exit(c) \/ \E r \in Blocking : Twait(c, r))

Spec == Init /\ [][Next]_vars
FairSpec == Spec /\ Fairness

(***************************************************************************)
(* Properties.                                                             *)
(***************************************************************************)

\* Every variable has its type.
TypeOK ==
  /\ life \in [Event -> {"unborn", "live", "deleted"}]
  /\ rdv \in [Event -> Rdv \cup {None}]
  /\ refs \in [Event -> Int]
  /\ hook \in [Event -> Event \cup {None}]
  /\ handles \in [Event -> 0 .. MaxHandles]
  /\ waiting \in [Rdv -> Seq(Event)]
  /\ ready \in [Explicit -> Seq(Event)]
  /\ blockedClosure \in [Blocking -> Closure \cup {None}]
  /\ status \in [Closure -> Status]
  /\ position \in [Closure -> Blocking \cup {None, "exit"}]
  /\ linked \in [Closure -> BOOLEAN]
  /\ runq \in Seq(Closure)
  /\ stack \in Seq(Frame)

\* Who refers to e: the hooks that name it, the rendezvous whose ready list holds
\* it, and the calls in progress that are going to give up their reference.
HooksTo(e) == {d \in Event : hook[d] = e}
ReadyOn(e) == {r \in Explicit : \E i \in DOMAIN ready[r] : ready[r][i] = e}
Holds(f, e) == \/ f = [op |-> "trigger", ev |-> e]
               \/ f = [op |-> "finish", ev |-> e, reduce |-> TRUE]
CallsOn(s, e) == {i \in DOMAIN s : Holds(s[i], e)}

\* The references to e that something is bound to give up some day.
References(e) ==
  handles[e] + Cardinality(HooksTo(e)) + Cardinality(ReadyOn(e))
  + Cardinality(CallsOn(stack, e))

\* _refcount counts exactly the event<> objects, at_trigger hooks, ready entries
\* and calls in progress that refer to the event, whatever re-entry does.
RefcountExact == \A e \in Event : refs[e] = References(e)

\* Memory: a deleted event is referred to by nobody and is on no rendezvous's
\* list; a live one that nobody refers to is being triggered by the destructor
\* of its last event<>.
EventMemory ==
  \A e \in Event :
    /\ life[e] # "live" => References(e) = 0 /\ rdv[e] = None
    /\ life[e] = "live" /\ References(e) = 0 =>
         [op |-> "finish", ev |-> e, reduce |-> FALSE] \in {stack[i] : i \in DOMAIN stack}

\* _r and waiting_ agree, except on a list that is being swept.
ListCoherence ==
  \A r \in Rdv :
    /\ \A e \in Event : rdv[e] = r => \E i \in DOMAIN waiting[r] : waiting[r][i] = e
    /\ \A i, j \in DOMAIN waiting[r] : waiting[r][i] = waiting[r][j] => i = j
    /\ \/ \A i \in DOMAIN waiting[r] : rdv[waiting[r][i]] = r
       \/ \E i \in DOMAIN stack : stack[i].op \in {"visit", "next"} /\ stack[i].r = r

\* No event is leaked, deleted in use or deleted twice: reference counts are
\* exact, events live exactly as long as they are referred to, and are on the
\* list of their rendezvous as long as they can be triggered.
EventMemoryExact == TypeOK /\ RefcountExact /\ EventMemory /\ ListCoherence

Joinable(r) == IF r \in Explicit THEN ready[r] # <<>> ELSE waiting[r] = <<>>

\* No lost wake-up: while the rendezvous a closure blocks on could be joined the
\* closure is not left blocked, and that rendezvous knows whom to unblock.
NoLostWakeup ==
  \A c \in Closure : status[c] = "blocked" =>
    ~Joinable(position[c]) /\ blockedClosure[position[c]] = c

\* No false wake-up: a closure in the driver's queue finds its rendezvous
\* joinable, however much runs before its turn.
WakeupHolds ==
  \A c \in Closure : status[c] = "queued" /\ position[c] # "exit" => Joinable(position[c])

\* The driver's queue holds every unblocked closure once, and none that the
\* stack is running, so that no closure is resumed twice or after its delete.
QueuedOnce ==
  /\ \A i, j \in DOMAIN runq : runq[i] = runq[j] => i = j
  /\ \A c \in Closure : status[c] = "queued" <=> \E i \in DOMAIN runq : runq[i] = c
  /\ \A i \in DOMAIN stack : stack[i].op \in {"run", "twait"} =>
       status[stack[i].c] = "running"

\* xbase.cc:148-150, "keep an event in memory until all its at_triggers are
\* triggered": clear() has not lost an event whose hook it has still to call.
KeptForHooks ==
  \A i \in DOMAIN stack : stack[i].op \in {"visit", "next"} =>
    \A k \in DOMAIN stack[i].list :
      hook[stack[i].list[k]] # None => life[stack[i].list[k]] = "live"

\* However an event becomes empty - triggered, dropped or cleared - the event
\* that its at_trigger names becomes empty too.
HookFires ==
  \A e, d \in Event : (hook[e] = d /\ rdv[e] = None) ~> (rdv[d] = None)

\* A closure that has been unblocked runs.
QueuedRuns == \A c \in Closure : status[c] = "queued" ~> status[c] # "queued"

\* A function whose object has been destroyed goes away.
DestroyedExits ==
  \A c \in Closure : (status[c] = "queued" /\ position[c] = "exit") ~> status[c] = "freed"

===============================================================================
