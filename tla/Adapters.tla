-------------------------------- MODULE Adapters --------------------------------
(***************************************************************************)
(* Cancel and value adapters (tamer/adapter.hh, tamer/xadapter.hh,         *)
(* tamer/xadapter.cc).  An adapter is a new event on a functional          *)
(* rendezvous, tied to its target in both directions: triggering it        *)
(* triggers the target, and the target's at_trigger hook triggers it.      *)
(*                                                                         *)
(*   "bind"    bind, and with it add_timeout and add_signal with a value   *)
(*   "helper"  with_helper: with_timeout and with_signal with a result     *)
(*   "map"     map                                                         *)
(*   "fun"     fun_event: no target, its trigger calls the program         *)
(*                                                                         *)
(* Adapters without a value or result only copy the target's handle.  Who  *)
(* holds an adapter's handle - the program, a timer or a signal - makes no *)
(* difference here.                                                        *)
(***************************************************************************)
EXTENDS Integers, Sequences, FiniteSets, SequencesExt

CONSTANTS
  Root,         \* an event on a closure's rendezvous
  Wrap,         \* the adapters
  Kinds,        \* which adapters a run uses
  Tracker,      \* the result variable of each with_helper adapter
  MaxHandles,   \* bound: event<> variables for one event
  MaxHooks,     \* bound: at_trigger hooks on one event
  Clears        \* whether Root's rendezvous may be cleared

\* What the constants must satisfy; each instance assumes it.
AdapterAssumption ==
  /\ IsFiniteSet(Wrap) /\ Root \notin Wrap
  /\ Tracker \in [Wrap -> Wrap] /\ \A v, w \in Wrap : Tracker[v] = Tracker[w] => v = w
  /\ MaxHandles \in Nat
  /\ ({Root} \cup Wrap) \cap {"unset", "natural", "zero", "hook", "active"} = {}

VARIABLES
  life, active, refs, \* memory, _r # 0 and _refcount of the simple_event
  handles,      \* event<> variables of the program, the timers and the signals
  hooks,        \* adapters that at_trigger hooks name, oldest first
  kind,         \* "none" for an adapter that has not been made
  target,       \* e_ of its rendezvous
  holds,        \* e_ is an event<> that has not been released
  node,         \* memory of the rendezvous
  slot,         \* who has set the event's result: "unset", "natural", an adapter
  result,       \* a result variable: "unset", "zero" or the adapter that set it
  why,          \* history: who emptied the event: the program ("natural"), a
                \* hook of its target, or the adapter it is the target of
  stack

vars == <<life, active, refs, handles, hooks, kind, target, holds, node, slot,
          result, why, stack>>

Events == {Root} \cup Wrap

Init ==
  /\ life = [e \in Events |-> IF e = Root THEN "live" ELSE "unborn"]
  /\ active = [e \in Events |-> e = Root]
  /\ refs = [e \in Events |-> IF e = Root THEN 1 ELSE 0]
  /\ handles = refs
  /\ hooks = [e \in Events |-> <<>>]
  /\ kind = [w \in Wrap |-> "none"]
  /\ target = [w \in Wrap |-> Root]
  /\ holds = [w \in Wrap |-> FALSE]
  /\ node = [w \in Wrap |-> "unborn"]
  /\ slot = [e \in Events |-> "unset"]
  /\ result = [w \in Wrap |-> "unset"]
  /\ why = [e \in Events |-> "active"]
  /\ stack = <<>>

TopIs(op) == stack # <<>> /\ Head(stack).op = op
UserCode == stack = <<>> \/ TopIs("user")
Unused(count, D) ==
  [e \in Events |-> IF e \in D /\ count[e] = 0 THEN "deleted" ELSE life[e]]

\* simple_trigger on behalf of `by`: up to the call of the rendezvous.
SimpleTrigger(x, values, by, count, rest) ==
  IF active[x]
  THEN /\ active' = [active EXCEPT ![x] = FALSE]
       /\ why' = [why EXCEPT ![x] = by]
       /\ refs' = count
       /\ stack' = (IF x = Root THEN <<>>
                    ELSE <<[op |-> "hook", w |-> x, values |-> values]>>)
                   \o <<[op |-> "finish", ev |-> x, reduce |-> count[x] > 0]>> \o rest
       /\ UNCHANGED life
  ELSE /\ refs' = [count EXCEPT ![x] = IF @ > 0 THEN @ - 1 ELSE 0]
       /\ life' = Unused(refs', {x})
       /\ stack' = rest
       /\ UNCHANGED <<active, why>>

Unuse(x, by, count, rest) ==
  LET less == [count EXCEPT ![x] = @ - 1] IN
  IF less[x] = 0 /\ active[x] THEN SimpleTrigger(x, FALSE, by, less, rest)
  ELSE /\ refs' = less
       /\ life' = Unused(less, {x})
       /\ stack' = rest
       /\ UNCHANGED <<active, why>>

\* The rest of simple_trigger: the reference is given up and the hooks are called.
FinishTrigger ==
  /\ TopIs("finish")
  /\ LET x == Head(stack).ev IN
       /\ refs' = [refs EXCEPT ![x] = IF Head(stack).reduce THEN @ - 1 ELSE @]
       /\ stack' = <<[op |-> "hooks", ev |-> x, list |-> hooks[x]]>> \o Tail(stack)
       /\ hooks' = [hooks EXCEPT ![x] = <<>>]
  /\ UNCHANGED <<life, active, handles, kind, target, holds, node, slot, result, why>>

CallHook ==
  /\ TopIs("hooks")
  /\ LET frame == Head(stack) IN
     IF frame.list # <<>>
     THEN SimpleTrigger(Head(frame.list), FALSE, "hook", refs,
                        <<[frame EXCEPT !.list = Tail(@)]>> \o Tail(stack))
     ELSE /\ life' = Unused(refs, {frame.ev})    \* the end: delete what is unused
          /\ stack' = Tail(stack)
          /\ UNCHANGED <<active, refs, why>>
  /\ UNCHANGED <<handles, hooks, kind, target, holds, node, slot, result>>

(***************************************************************************)
(* The hooks of the adapters' rendezvous; each ends with "delete self".    *)
(***************************************************************************)

Frame == Head(stack)
Self == Frame.w
Rest == <<[op |-> "delete", w |-> Self]>> \o Tail(stack)

\* set_result, then release e_ and trigger it.
BindHook ==
  /\ TopIs("hook") /\ kind[Self] = "bind"
  /\ LET t == target[Self] IN
       /\ slot' = IF active[t] THEN [slot EXCEPT ![t] = Self] ELSE slot
       /\ SimpleTrigger(t, TRUE, Self, refs, Rest)
  /\ holds' = [holds EXCEPT ![Self] = FALSE]
  /\ UNCHANGED <<handles, hooks, kind, target, node, result>>

BugHelperTriggersFirst ==
  /\ TopIs("hook") /\ kind[Self] = "helper"
  /\ LET t == target[Self]
         used == [refs EXCEPT ![t] = IF active[t] THEN @ + 1 ELSE @] IN
       /\ result' = [result EXCEPT ![Tracker[Self]] = "zero"]
       /\ IF active[t] THEN SimpleTrigger(t, FALSE, Self, used, Rest)
          ELSE stack' = Rest /\ UNCHANGED <<life, active, refs, why>>
  /\ UNCHANGED <<handles, hooks, kind, target, holds, node, slot>>

\* with_helper_rendezvous::hook: what has become of e_ decides the result.
HelperHook ==
  /\ TopIs("hook") /\ kind[Self] = "helper"
  /\ LET t == target[Self] IN
     IF active[t]
     THEN /\ result' = [result EXCEPT ![Tracker[Self]] = Self]
          /\ SimpleTrigger(t, FALSE, Self, [refs EXCEPT ![t] = @ + 1], Rest)
     ELSE /\ result' = [result EXCEPT ![Tracker[Self]] = "zero"]
          /\ stack' = Rest
          /\ UNCHANGED <<life, active, refs, why>>
  /\ UNCHANGED <<handles, hooks, kind, target, holds, node, slot>>

BugMapIgnoresUnblock ==
  /\ TopIs("hook") /\ kind[Self] = "map"
  /\ LET t == target[Self] IN
     IF active[t] /\ Frame.values
     THEN /\ slot' = [slot EXCEPT ![t] = Self]
          /\ holds' = [holds EXCEPT ![Self] = FALSE]
          /\ SimpleTrigger(t, TRUE, Self, refs, Rest)
     ELSE /\ stack' = Rest
          /\ UNCHANGED <<life, active, refs, why, slot, holds>>
  /\ UNCHANGED <<handles, hooks, kind, target, node, result>>

\* map_rendezvous::hook: trigger e_ with the mapped value, or unblock it.
MapHook ==
  /\ TopIs("hook") /\ kind[Self] = "map"
  /\ LET t == target[Self] IN
     \/ /\ active[t] /\ Frame.values
        /\ slot' = [slot EXCEPT ![t] = Self]
        /\ holds' = [holds EXCEPT ![Self] = FALSE]
        /\ SimpleTrigger(t, TRUE, Self, refs, Rest)
     \/ /\ active[t] /\ ~Frame.values
        /\ SimpleTrigger(t, FALSE, Self, [refs EXCEPT ![t] = @ + 1], Rest)
        /\ UNCHANGED <<slot, holds>>
     \/ /\ ~active[t]
        /\ stack' = Rest
        /\ UNCHANGED <<life, active, refs, why, slot, holds>>
  /\ UNCHANGED <<handles, hooks, kind, target, node, result>>

\* function_rendezvous::hook
FunHook ==
  /\ TopIs("hook") /\ kind[Self] = "fun"
  /\ stack' = <<[op |-> "user"]>> \o Rest
  /\ UNCHANGED <<life, active, refs, handles, hooks, kind, target, holds, node,
                 slot, result, why>>

BugDeleteKeepsEvent ==
  /\ TopIs("delete")
  /\ node' = [node EXCEPT ![Self] = "deleted"]
  /\ holds' = [holds EXCEPT ![Self] = FALSE]
  /\ stack' = Tail(stack)
  /\ UNCHANGED <<life, active, refs, handles, hooks, kind, target, slot, result, why>>

\* delete self, with e_ if it has not been released.
DeleteSelf ==
  /\ TopIs("delete")
  /\ node' = [node EXCEPT ![Self] = "deleted"]
  /\ holds' = [holds EXCEPT ![Self] = FALSE]
  /\ IF holds[Self] THEN Unuse(target[Self], Self, refs, Tail(stack))
     ELSE stack' = Tail(stack) /\ UNCHANGED <<life, active, refs, why>>
  /\ UNCHANGED <<handles, hooks, kind, target, slot, result>>

(***************************************************************************)
(* The program, the timers and the signals.                                *)
(***************************************************************************)

FunReturns ==
  /\ TopIs("user")
  /\ stack' = Tail(stack)
  /\ UNCHANGED <<life, active, refs, handles, hooks, kind, target, holds, node,
                 slot, result, why>>

Copy(e) ==
  /\ UserCode
  /\ handles[e] \in 1 .. MaxHandles - 1
  /\ handles' = [handles EXCEPT ![e] = @ + 1]
  /\ refs' = [refs EXCEPT ![e] = @ + 1]
  /\ UNCHANGED <<life, active, hooks, kind, target, holds, node, slot, result, why, stack>>

Trigger(e, values) ==
  /\ UserCode
  /\ handles[e] > 0
  /\ values => active[e]    \* with a value, an empty event is left alone
  /\ handles' = [handles EXCEPT ![e] = @ - 1]
  /\ slot' = [slot EXCEPT ![e] = IF values THEN "natural" ELSE @]
  /\ SimpleTrigger(e, values, "natural", refs, stack)
  /\ UNCHANGED <<hooks, kind, target, holds, node, result>>

Drop(e) ==
  /\ UserCode
  /\ handles[e] > 0
  /\ handles' = [handles EXCEPT ![e] = @ - 1]
  /\ Unuse(e, "natural", refs, stack)
  /\ UNCHANGED <<hooks, kind, target, holds, node, slot, result>>

\* Root's rendezvous is cleared.
Clear ==
  /\ UserCode
  /\ Clears
  /\ active[Root]
  /\ active' = [active EXCEPT ![Root] = FALSE]
  /\ why' = [why EXCEPT ![Root] = "natural"]
  /\ stack' = <<[op |-> "hooks", ev |-> Root, list |-> hooks[Root]]>> \o stack
  /\ hooks' = [hooks EXCEPT ![Root] = <<>>]
  /\ UNCHANGED <<life, refs, handles, kind, target, holds, node, slot, result>>

\* t.at_trigger(w): a hook of t, or a trigger at once when t is empty.
AtTrigger(w, t, count) ==
  /\ refs' = [count EXCEPT ![w] = @ + 1]
  /\ active' = [active EXCEPT ![w] = TRUE]
  /\ IF active[t] THEN hooks' = [hooks EXCEPT ![t] = Append(@, w)] /\ UNCHANGED stack
     ELSE /\ stack' = <<[op |-> "hooks", ev |-> t, list |-> <<w>>]>> \o stack
          /\ UNCHANGED hooks

\* A new adapter w of kind k for t.  k handles go to the program, to a timer or
\* to the list of each signal; the caller keeps its event<> or has moved it in.
Adapt(k, w, t, keep, copies) ==
  /\ UserCode
  /\ k \in Kinds
  /\ kind[w] = "none"
  /\ handles[t] > 0
  /\ t \in Wrap => kind[t] # "helper"  \* the program never sees that event
  /\ Len(hooks[t]) < MaxHooks
  /\ kind' = [kind EXCEPT ![w] = k]
  /\ target' = [target EXCEPT ![w] = t]
  /\ holds' = [holds EXCEPT ![w] = k # "helper"]
  /\ node' = [node EXCEPT ![w] = "live"]
  /\ life' = [life EXCEPT ![w] = "live"]
  /\ handles' = [handles EXCEPT ![w] = copies, ![t] = IF keep THEN @ ELSE @ - 1]
  /\ AtTrigger(w, t, [refs EXCEPT ![w] = copies,
                                  ![t] = IF k # "helper" /\ keep THEN @ + 1 ELSE @])
  /\ UNCHANGED <<slot, result, why>>

Bind(w, t, keep) == Adapt("bind", w, t, keep, 1)
Map(w, t, keep)  == Adapt("map", w, t, keep, 1)

\* With a value: bind(e, v) for the timer or for the signals, and e goes on.
AddTimeout(w, t) == Adapt("bind", w, t, TRUE, 1)
AddSignal(w, t)  == \E n \in 1 .. MaxHandles : Adapt("bind", w, t, TRUE, n)

\* With a result variable.
WithTimeout(w, t) == Adapt("helper", w, t, TRUE, 1)
WithSignal(w, t)  == \E n \in 1 .. MaxHandles : Adapt("helper", w, t, TRUE, n)

\* With neither, the timer or the signals get copies of the unblocker.
SilentTimeout(e) == Copy(e)
SilentSignal(e)  == Copy(e)

\* t.at_trigger(fun_event(f)) of an active event t.
NotifyFun(w, t) ==
  /\ UserCode
  /\ "fun" \in Kinds
  /\ kind[w] = "none"
  /\ handles[t] > 0 /\ active[t]
  /\ Len(hooks[t]) < MaxHooks
  /\ kind' = [kind EXCEPT ![w] = "fun"]
  /\ node' = [node EXCEPT ![w] = "live"]
  /\ life' = [life EXCEPT ![w] = "live"]
  /\ refs' = [refs EXCEPT ![w] = 1]
  /\ active' = [active EXCEPT ![w] = TRUE]
  /\ hooks' = [hooks EXCEPT ![t] = Append(@, w)]
  /\ UNCHANGED <<handles, target, holds, slot, result, why, stack>>

Next ==
  \/ FinishTrigger \/ CallHook \/ DeleteSelf
  \/ BindHook \/ HelperHook \/ MapHook \/ FunHook \/ FunReturns
  \/ \E e \in Events : Copy(e) \/ Drop(e) \/ SilentTimeout(e) \/ SilentSignal(e)
  \/ \E e \in Events, values \in BOOLEAN : Trigger(e, values)
  \/ Clear
  \/ \E w \in Wrap, t \in Events, keep \in BOOLEAN : Bind(w, t, keep) \/ Map(w, t, keep)
  \/ \E w \in Wrap, t \in Events :
       \/ AddTimeout(w, t) \/ AddSignal(w, t) \/ WithTimeout(w, t) \/ WithSignal(w, t)
       \/ NotifyFun(w, t)

Spec == Init /\ [][Next]_vars

(***************************************************************************)
(* Properties.                                                             *)
(***************************************************************************)

Tied(w) == kind[w] \in {"bind", "helper", "map"}

\* adapter.hh:111, "triggering either event automatically triggers the other":
\* whatever is triggered, dropped, copied or cleared, from hooks too, an adapter
\* and its target are both active or both empty when the calls have returned.
BothOrNeither ==
  stack = <<>> => \A w \in Wrap : Tied(w) => (active[w] <=> active[target[w]])

\* adapter.hh:199-200: the value of an event is that of the first to trigger it -
\* the program's, or the one bound by an adapter - and a later trigger, whose
\* hook runs all the same, does not overwrite it.
FirstSetsResult ==
  \A e \in Events :
    /\ why[e] \in {"natural", "hook"} => slot[e] \in {"unset", "natural"}
    /\ why[e] \in Wrap =>
         slot[e] = IF kind[why[e]] = "helper" THEN "unset"
                   ELSE IF kind[why[e]] = "bind" \/ slot[e] # "unset" THEN why[e] ELSE "unset"

\* doc/tamer.3:838-852, "the result variable is set to one of the following
\* constants to indicate why": an adapter that cut the event off says so, and
\* without one the variable is 0.
OutcomeTells ==
  stack = <<>> => \A w \in Wrap :
    LET e == target[w]
        mine == {x \in Wrap : kind[x] = "helper" /\ target[x] = e /\ Tracker[x] = Tracker[w]}
    IN kind[w] = "helper" /\ ~active[e] =>
         result[Tracker[w]] = IF why[e] \in mine THEN why[e] ELSE "zero"

\* xbase.cc:148-150, "keep an event in memory until all its at_triggers are
\* triggered -- some functional rendezvous, like with_helper_rendezvous, depend
\* on this property": the hook of with_helper, which holds no reference to e_,
\* finds it in memory.
HelperFindsEvent ==
  TopIs("hook") /\ kind[Self] = "helper" => life[target[Self]] = "live"

\* Memory: counts are exact, no event or rendezvous is left behind, and none is
\* deleted while it can be triggered or its hook is running.
AdapterMemory ==
  /\ \A w \in Wrap : kind[w] # "none" =>
       (node[w] = "live" <=>
          \/ active[w]
          \/ \E i \in DOMAIN stack : stack[i].op \in {"hook", "delete"} /\ stack[i].w = w)
  /\ \A e \in Events :
       /\ refs[e] = handles[e] + Cardinality({w \in Wrap : holds[w] /\ target[w] = e})
                    + Cardinality({x \in Events : e \in ToSet(hooks[x])})
                    + Cardinality({i \in DOMAIN stack :
                         \/ stack[i] = [op |-> "finish", ev |-> e, reduce |-> TRUE]
                         \/ stack[i].op = "hooks" /\ e \in ToSet(stack[i].list)})
       /\ active[e] => life[e] = "live"
       /\ life[e] = "live" /\ refs[e] = 0 =>
            \E i \in DOMAIN stack : stack[i].op \in {"finish", "hooks"} /\ stack[i].ev = e

\* doc/tamer.3:184, "Tamer automatically triggers an active event when its last
\* reference goes out of scope": when the program, the timers and the signals
\* hold neither an event nor anything that would trigger it, it is empty.
LastReferenceTriggers ==
  stack = <<>> /\ active[Root] => \E e \in Events : handles[e] > 0

==================================================================================
