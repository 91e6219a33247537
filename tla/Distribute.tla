------------------------------- MODULE Distribute -------------------------------
(***************************************************************************)
(* Distributed events: a += b (tamer/event.hh) and the rendezvous behind   *)
(* it, distribute_rendezvous (tamer/rendezvous.hh).  Triggering the sum    *)
(* triggers every summand; a sum whose summands have all been triggered by *)
(* others becomes empty by itself.  The sum has its own memory, the node,  *)
(* which must live as long as a summand's at_trigger hook names it.        *)
(*                                                                         *)
(* A Dist stands for the node and for the one event made on it; a Leaf is  *)
(* an event on some other rendezvous, whose trigger calls user code.  The  *)
(* C++ call stack is kept as in module Rendezvous.                         *)
(***************************************************************************)
EXTENDS Integers, Sequences, FiniteSets, SequencesExt

CONSTANTS
  Leaf, Dist,
  MaxHandles,   \* bound: event<> variables of the program for one event
  Hooked,       \* bound: the events to which the program adds a hook of its own
  MaxHooks,     \* bound: at_trigger hooks on each event
  MaxCalls,     \* bound: what user code called by a trigger does; code called
                \* by a trigger inside that one does nothing
  Null          \* the null pointer; as a hook, the program's own code

VARIABLES
  life,         \* memory of the simple_event: "unborn", "live" or "deleted"
  active,       \* _r # 0
  refs,         \* _refcount
  handles,      \* event<> variables of the program that refer to the event
  hooks,        \* the at_trigger hooks, oldest first: clear_hook of a node or Null
  node,         \* memory of the distribute_rendezvous
  es,           \* es_: the summands
  outstanding,  \* outstanding_
  quiet,        \* history: the summands that add() did not watch
  stack         \* the C++ call stack, innermost frame first

vars == <<life, active, refs, handles, hooks, node, es, outstanding, quiet, stack>>

Events == Leaf \cup Dist

\* The program has made the leaves.
Init ==
  /\ life = [e \in Events |-> IF e \in Leaf THEN "live" ELSE "unborn"]
  /\ active = [e \in Events |-> e \in Leaf]
  /\ refs = [e \in Events |-> IF e \in Leaf THEN 1 ELSE 0]
  /\ handles = refs
  /\ hooks = [e \in Events |-> <<>>]
  /\ node = [d \in Dist |-> "unborn"]
  /\ es = [d \in Dist |-> <<>>]
  /\ outstanding = [d \in Dist |-> 0]
  /\ quiet = [d \in Dist |-> {}]
  /\ stack = <<>>

TopIs(op) == stack # <<>> /\ Head(stack).op = op
HooksFrame(list) == IF list = <<>> THEN <<>> ELSE <<[op |-> "hooks", list |-> list]>>
Called == <<[op |-> "user", calls |-> IF \E i \in DOMAIN stack : stack[i].op = "user"
                                      THEN 0 ELSE MaxCalls]>>

\* The program runs: the driver's callers, or the code that a trigger called.
UserCode == stack = <<>> \/ (TopIs("user") /\ Head(stack).calls > 0)
Caller ==
  IF stack = <<>> THEN <<>> ELSE <<[Head(stack) EXCEPT !.calls = @ - 1]>> \o Tail(stack)

Unused(count, D) ==
  [e \in Events |-> IF e \in D /\ count[e] = 0 THEN "deleted" ELSE life[e]]

\* distribute_rendezvous::hook begins: "keep memory around until we're done".
HookBegins(x, values, unused, rest) ==
  /\ outstanding' = [outstanding EXCEPT ![x] = @ + 1]
  /\ stack' = <<[op |-> "hook", d |-> x, i |-> 1,
                 how |-> IF values THEN "values" ELSE IF unused THEN "unuse" ELSE "unblock"]>>
              \o rest

\* simple_trigger up to and including the call of the rendezvous.
SimpleTrigger(x, values, count, rest) ==
  LET after == <<[op |-> "finish", ev |-> x, reduce |-> count[x] > 0]>> \o rest IN
  IF active[x]
  THEN /\ active' = [active EXCEPT ![x] = FALSE]
       /\ refs' = count
       /\ UNCHANGED life
       /\ IF x \in Dist THEN HookBegins(x, values, count[x] = 0, after)
          ELSE /\ stack' = Called \o after
               /\ UNCHANGED outstanding
  ELSE /\ refs' = [count EXCEPT ![x] = IF @ > 0 THEN @ - 1 ELSE 0]
       /\ life' = Unused(refs', {x})
       /\ stack' = rest
       /\ UNCHANGED <<active, outstanding>>

\* simple_event::unuse: the last reference to an active event triggers it.
Unuse(x, rest) ==
  LET count == [refs EXCEPT ![x] = @ - 1] IN
  IF count[x] = 0 /\ active[x] THEN SimpleTrigger(x, FALSE, count, rest)
  ELSE /\ refs' = count
       /\ life' = Unused(count, {x})
       /\ stack' = rest
       /\ UNCHANGED <<active, outstanding>>

\* The rest of simple_trigger: give up the reference, then call the hooks.
FinishTrigger ==
  /\ TopIs("finish")
  /\ LET x == Head(stack).ev IN
       /\ refs' = [refs EXCEPT ![x] = IF Head(stack).reduce THEN @ - 1 ELSE @]
       /\ life' = Unused(refs', {x})
       /\ stack' = HooksFrame(hooks[x]) \o Tail(stack)
       /\ hooks' = [hooks EXCEPT ![x] = <<>>]
  /\ UNCHANGED <<active, handles, node, es, outstanding, quiet>>

BugDestroyKeepsSummands(d) ==
  /\ node' = [node EXCEPT ![d] = "deleted"]
  /\ es' = [es EXCEPT ![d] = <<>>]
  /\ UNCHANGED <<refs, life>>

\* ~distribute_rendezvous: the summands that are left give up their references.
Destroy(d) ==
  /\ node' = [node EXCEPT ![d] = "deleted"]
  /\ es' = [es EXCEPT ![d] = <<>>]
  /\ LET left == {i \in DOMAIN es[d] : es[d][i] # Null} IN
       /\ refs' = [e \in Events |-> refs[e] - Cardinality({i \in left : es[d][i] = e})]
       /\ life' = Unused(refs', {es[d][i] : i \in left})

\* hook: the loop at summand i ...
Next1(frame) == [frame EXCEPT !.i = @ + 1]
HookSummand ==
  /\ TopIs("hook")
  /\ LET frame == Head(stack)
         x == es[frame.d][frame.i]
         rest == <<Next1(frame)>> \o Tail(stack)
     IN /\ frame.i <= Len(es[frame.d])
        /\ \/ x = Null /\ stack' = rest /\ UNCHANGED <<life, active, refs, es, outstanding>>
           \/ /\ x # Null /\ frame.how = "values" /\ ~active[x]
              /\ stack' = rest
              /\ UNCHANGED <<life, active, refs, es, outstanding>>
           \/ /\ x # Null /\ frame.how = "values" /\ active[x]
              /\ SimpleTrigger(x, TRUE, refs, rest)
              /\ es' = [es EXCEPT ![frame.d][frame.i] = Null]
           \/ /\ x # Null /\ frame.how = "unblock"
              /\ SimpleTrigger(x, FALSE, refs, rest)
              /\ es' = [es EXCEPT ![frame.d][frame.i] = Null]
           \/ /\ x # Null /\ frame.how = "unuse"
              /\ Unuse(x, rest)
              /\ es' = [es EXCEPT ![frame.d][frame.i] = Null]
  /\ UNCHANGED <<handles, hooks, node, quiet>>

\* ... and its end: the node goes away with the last one who counts on it.
HookEnds ==
  /\ TopIs("hook")
  /\ LET d == Head(stack).d IN
       /\ Head(stack).i > Len(es[d])
       /\ outstanding' = [outstanding EXCEPT ![d] = @ - 1]
       /\ IF outstanding'[d] = 0 THEN Destroy(d) ELSE UNCHANGED <<life, refs, node, es>>
  /\ stack' = Tail(stack)
  /\ UNCHANGED <<active, handles, hooks, quiet>>

\* Whether clear_hook gives the node up: no summand is left to be triggered.
NobodyLeft(d) == \A i \in DOMAIN es[d] : es[d][i] = Null \/ ~active[es[d][i]]

\* clear_hook of d: with nobody left, remove_waiting empties the sum and calls
\* its hooks, and then the node is deleted.
ClearHook(d, rest) ==
  /\ outstanding' = [outstanding EXCEPT ![d] = @ - 1]
  /\ IF outstanding'[d] = 0 /\ NobodyLeft(d)
     THEN /\ active' = [active EXCEPT ![d] = FALSE]
          /\ hooks' = IF active[d] THEN [hooks EXCEPT ![d] = <<>>] ELSE hooks
          /\ stack' = HooksFrame(IF active[d] THEN hooks[d] ELSE <<>>)
                       \o <<[op |-> "delete", d |-> d]>> \o rest
     ELSE stack' = rest /\ UNCHANGED <<active, hooks>>

CallHook ==
  /\ TopIs("hooks")
  /\ LET h == Head(Head(stack).list)
         rest == HooksFrame(Tail(Head(stack).list)) \o Tail(stack)
     IN IF h = Null
        THEN stack' = Called \o rest /\ UNCHANGED <<active, hooks, outstanding>>
        ELSE ClearHook(h, rest)
  /\ UNCHANGED <<life, refs, handles, node, es, quiet>>

DeleteNode ==
  /\ TopIs("delete")
  /\ Destroy(Head(stack).d)
  /\ stack' = Tail(stack)
  /\ UNCHANGED <<active, handles, hooks, outstanding, quiet>>

HookReturns ==
  /\ TopIs("user")
  /\ stack' = Tail(stack)
  /\ UNCHANGED <<life, active, refs, handles, hooks, node, es, outstanding, quiet>>

(***************************************************************************)
(* What the program does.                                                  *)
(***************************************************************************)

Copy(e) ==
  /\ UserCode
  /\ handles[e] \in 1 .. MaxHandles - 1
  /\ handles' = [handles EXCEPT ![e] = @ + 1]
  /\ refs' = [refs EXCEPT ![e] = @ + 1]
  /\ UNCHANGED <<life, active, hooks, node, es, outstanding, quiet>>
  /\ stack' = Caller

\* e.trigger(v), which leaves an empty event alone, and e.unblock().
Trigger(e, values) ==
  /\ UserCode
  /\ handles[e] > 0
  /\ values => active[e]
  /\ handles' = [handles EXCEPT ![e] = @ - 1]
  /\ SimpleTrigger(e, values, refs, Caller)
  /\ UNCHANGED <<hooks, node, es, quiet>>

Drop(e) ==
  /\ UserCode
  /\ handles[e] > 0
  /\ handles' = [handles EXCEPT ![e] = @ - 1]
  /\ Unuse(e, Caller)
  /\ UNCHANGED <<hooks, node, es, quiet>>

\* The program's own at_trigger hook; hard_at_trigger keeps several in order.
AtTrigger(e) ==
  /\ UserCode
  /\ handles[e] > 0
  /\ active[e]
  /\ e \in Hooked
  /\ Len(hooks[e]) < MaxHooks[e]
  /\ hooks' = [hooks EXCEPT ![e] = Append(@, Null)]
  /\ UNCHANGED <<life, active, refs, handles, node, es, outstanding, quiet>>
  /\ stack' = Caller

\* The rendezvous of leaf e is cleared: hard_remove_waiting calls the hooks.
Clear(e) ==
  /\ UserCode
  /\ active[e]
  /\ active' = [active EXCEPT ![e] = FALSE]
  /\ stack' = HooksFrame(hooks[e]) \o Caller
  /\ hooks' = [hooks EXCEPT ![e] = <<>>]
  /\ UNCHANGED <<life, refs, handles, node, es, outstanding, quiet>>

\* a + b, all() and distribute() come down to a += b of two variables.
Two(a, b) ==
  /\ UserCode
  /\ handles[a] > 0
  /\ handles[b] > IF a = b THEN 1 ELSE 0

\* make, when a sum of a and b needs no node: b, or an empty a, is dropped.
PlusDrops(a, b) ==
  /\ Two(a, b)
  /\ a = b \/ ~active[a] \/ ~active[b]
  /\ LET x == IF ~active[a] /\ active[b] THEN a ELSE b IN
       /\ handles' = [handles EXCEPT ![x] = @ - 1]
       /\ Unuse(x, Caller)
  /\ UNCHANGED <<hooks, node, es, quiet>>

\* add: d watches the summands that somebody else holds, too.
BugAddNeverWatches(d, list) == UNCHANGED <<hooks, outstanding, quiet>>

Add(d, list) ==
  LET watched == {i \in DOMAIN list : refs[list[i]] > 1} IN
  /\ hooks' = [e \in Events |-> IF \E i \in watched : list[i] = e
                               THEN Append(hooks[e], d) ELSE hooks[e]]
  /\ outstanding' = [outstanding EXCEPT ![d] = @ + Cardinality(watched)]
  /\ quiet' = [quiet EXCEPT ![d] = @ \cup {list[i] : i \in DOMAIN list \ watched}]

\* hard_make asks for an unshared sum without hooks to extend.
Extensible(a) == a \in Dist /\ refs[a] = 1 /\ hooks[a] = <<>>

PlusExtends(a, b) ==
  /\ Two(a, b)
  /\ a # b /\ active[a] /\ active[b]
  /\ Extensible(a)
  /\ Len(hooks[b]) < MaxHooks[b]
  /\ es' = [es EXCEPT ![a] = Append(@, b)]
  /\ Add(a, <<b>>)
  /\ handles' = [handles EXCEPT ![b] = @ - 1]
  /\ UNCHANGED <<life, active, refs, node>>
  /\ stack' = Caller

PlusMakes(a, b, d) ==
  /\ Two(a, b)
  /\ a # b /\ active[a] /\ active[b]
  /\ ~Extensible(a)
  /\ Len(hooks[a]) < MaxHooks[a] /\ Len(hooks[b]) < MaxHooks[b]
  /\ node[d] = "unborn"
  /\ node' = [node EXCEPT ![d] = "live"]
  /\ es' = [es EXCEPT ![d] = <<a, b>>]
  /\ Add(d, <<a, b>>)
  /\ life' = [life EXCEPT ![d] = "live"]
  /\ active' = [active EXCEPT ![d] = TRUE]
  /\ refs' = [refs EXCEPT ![d] = 1]
  /\ handles' = [handles EXCEPT ![a] = @ - 1, ![b] = @ - 1, ![d] = 1]
  /\ stack' = Caller

Next ==
  \/ FinishTrigger \/ HookSummand \/ HookEnds
  \/ CallHook \/ DeleteNode \/ HookReturns
  \/ \E e \in Leaf : Clear(e)
  \/ \E e \in Events : Copy(e) \/ Drop(e) \/ AtTrigger(e)
  \/ \E e \in Events, values \in BOOLEAN : Trigger(e, values)
  \/ \E a, b \in Events : PlusDrops(a, b) \/ PlusExtends(a, b)
  \/ \E a, b \in Events, d \in Dist : PlusMakes(a, b, d)

Spec == Init /\ [][Next]_vars

(***************************************************************************)
(* Properties.                                                             *)
(***************************************************************************)

Times(x, list) == Cardinality({i \in DOMAIN list : list[i] = x})
Total(f, S) == MapThenSumSet(LAMBDA x : f[x], S)
FramesOf(op, d) == {i \in DOMAIN stack : stack[i].op = op /\ stack[i].d = d}
PendingLists == {i \in DOMAIN stack : stack[i].op = "hooks"}

\* _refcount counts the program's variables, the summands and the triggers in
\* progress, whatever is triggered, dropped or cleared from inside a trigger;
\* no event that can still be triggered is deleted, and an event that nobody
\* refers to is deleted as soon as its trigger is over.
SumMemory ==
  \A e \in Events :
    /\ refs[e] = handles[e] + Total([d \in Dist |-> Times(e, es[d])], Dist)
                 + Times([op |-> "finish", ev |-> e, reduce |-> TRUE], stack)
    /\ life[e] # "live" => ~active[e] /\ refs[e] = 0
    /\ life[e] = "live" /\ refs[e] = 0 =>
         [op |-> "finish", ev |-> e, reduce |-> FALSE] \in ToSet(stack)

\* Memory of the node: outstanding_ counts exactly those who are going to use
\* the node, so that none of them finds it deleted; and a node that its sum no
\* longer needs and nobody counts on is deleted.
NodeMemory ==
  \A d \in Dist :
    /\ outstanding[d] =
         Total([e \in Events |-> Times(d, hooks[e])], Events)
         + Total([i \in PendingLists |-> Times(d, stack[i].list)], PendingLists)
         + Cardinality(FramesOf("hook", d))
    /\ outstanding[d] > 0 \/ active[d] \/ FramesOf("delete", d) # {} => node[d] = "live"
    /\ node[d] = "live" => \/ active[d] \/ outstanding[d] > 0
                           \/ Cardinality(FramesOf("delete", d)) = 1

\* When a sum has become empty and its loop over the summands is done, none of
\* them can still be triggered through it: the trigger has reached them all.
SummandsReached ==
  \A d \in Dist :
    ~active[d] /\ FramesOf("hook", d) = {} => NobodyLeft(d)

\* A sum whose summands have all become empty is empty itself (or about to be),
\* provided that others held each of them when it joined: clear_hook is told of
\* no other summand, although clearing its rendezvous empties that one, too.
SumFollowsSummands ==
  \A d \in Dist :
    active[d] /\ NobodyLeft(d) =>
      \/ quiet[d] # {}
      \/ \E e \in Events : ~active[e] /\ d \in ToSet(hooks[e])
      \/ \E i \in PendingLists : d \in ToSet(stack[i].list)

=============================================================================
