------------------------------- MODULE Results -------------------------------
(***************************************************************************)
(* The event<T0, ...> objects of a program: several of them may refer to   *)
(* one occurrence, and each knows the result variables that a trigger      *)
(* fills in.  They are copied, moved, dropped and triggered, and a trigger *)
(* or a drop may call back into the program before it is finished.  A      *)
(* rendezvous and the variables its events fill in belong to one call of a *)
(* function, and end with it; explicit rendezvous keep their own lists of  *)
(* what is ready and, for a type of identifiers that must be copied, the   *)
(* memory of the identifiers.                                              *)
(***************************************************************************)
EXTENDS Integers, FiniteSets, Sequences

CONSTANTS
  Occ,      \* occurrences: objects of class simple_event
  Typed,    \* variables of the types event<T0, ...>
  Plain,    \* variables of type event<>
  Pre,      \* variables of the types preevent<R, ...>
  Scope,    \* rendezvous, each in a call of a function
  Kind,     \* which rendezvous gather, are explicit, and copy identifiers
  Slot,     \* result variables
  Home,     \* the call to which each belongs
  Misuse,   \* what of the following the program does (see Usable, Trusted, Held)
  None

Handle == Typed \cup Plain

ResultAssumption ==
  /\ IsFiniteSet(Handle) /\ IsFiniteSet(Scope)
  /\ Typed \cap Plain = {} /\ Handle \cap Scope = {}
  /\ Kind \in [Scope -> {"gather", "explicit", "ids"}]
  /\ Home \in [Slot -> Scope]
  /\ Pre \cap Occ = {}
  /\ None \notin Occ \cup Pre \cup Scope \cup Handle
  /\ Misuse \subseteq {"operands", "moved", "preevents"}

VARIABLES
  ev,       \* each occurrence: _r, _refcount, whether it has a hook, and how often
            \* it was made, deleted, and its identifier allocated and freed
  readyList,    \* the lists ready_ of the explicit rendezvous
  se, sv,   \* se_ of each handle, and the variables that its sv_ points to ({} if
            \* the handle is empty)
  moved,    \* the handles that were moved from and got another occurrence for it
  pre,      \* r_ and s0_ of each preevent
  bound,    \* the occurrence or preevent for which each result variable is meant,
            \* until the variable goes away
  value,    \* the content of each result variable, which every write changes
  over,     \* the calls that do not go on
  calls     \* operations on handles that are calling a hook, innermost first

vars == <<ev, readyList, se, sv, moved, pre, bound, value, over, calls>>

Unmade == [on |-> None, refs |-> 0, hook |-> FALSE, made |-> FALSE, deleted |-> 0, ids |-> 0]
NoPre == [r |-> None, s |-> {}]

Init ==
  /\ ev = [e \in Occ |-> Unmade]
  /\ readyList = [r \in Scope |-> <<>>]
  /\ se = [x \in Handle |-> None] /\ sv = [x \in Handle |-> {}] /\ moved = {}
  /\ pre = [p \in Pre |-> NoPre]
  /\ bound = [s \in Slot |-> None] /\ value = [s \in Slot |-> 0]
  /\ over \in SUBSET Scope /\ calls = <<>>

\* The operations that are not finished.
Ongoing == {calls[i] : i \in DOMAIN calls}

(* Class simple_event *)

Active(e) == e # None /\ ev[e].on # None

Waiting(r) == {e \in Occ : ev[e].on = r}

\* Whoever gives up the last reference deletes.
Reap(f, e) == IF f[e].refs = 0 THEN [f EXCEPT ![e].deleted = @ + 1] ELSE f

Use(f, e) == IF e = None THEN f ELSE [f EXCEPT ![e].refs = @ + 1]

BugListHasNoReference(f, e) ==
  [f EXCEPT ![e].on = None, ![e].refs = IF @ > 0 THEN @ - 1 ELSE 0]

\* simple_trigger unlinks the occurrence, gives the caller's reference back if
\* there is one, and keeps one for the list of an explicit rendezvous.
Unlinked(f, e) ==
  LET listed == f[e].on # None /\ Kind[f[e].on] # "gather"
  IN  [f EXCEPT ![e].on = None,
                ![e].refs = (IF @ > 0 THEN @ - 1 ELSE 0) + (IF listed THEN 1 ELSE 0)]

\* What the operation does when the hook has returned: an assignment reads its
\* source again.
Finish(op, x, y) ==
  LET assigns == op = "assign"
  IN  /\ se' = [se EXCEPT ![x] = IF assigns THEN se[y] ELSE None]
      /\ sv' = [sv EXCEPT ![x] = IF assigns THEN sv[y] ELSE {}]
      /\ moved' = IF assigns /\ y \in moved THEN moved \cup {x} ELSE moved \ {x}

\* simple_trigger, called by operation op with operands x and y.
SimpleTrigger(f, e, op, x, y) ==
  LET r == f[e].on
      g == Unlinked(f, e)
  IN  /\ readyList' = IF r # None /\ Kind[r] # "gather"
                  THEN [readyList EXCEPT ![r] = Append(@, e)] ELSE readyList
      /\ IF r # None /\ f[e].hook
         THEN /\ ev' = g
              /\ calls' = <<[op |-> op, x |-> x, y |-> y, e |-> e,
                             dies |-> g[e].refs = 0]>> \o calls
              /\ UNCHANGED <<se, sv, moved>>
         ELSE /\ ev' = Reap(g, e)
              /\ Finish(op, x, y) /\ UNCHANGED calls

\* unuse: the last reference to an active occurrence triggers it.
Unuse(f, e, op, x, y) ==
  LET g == [f EXCEPT ![e].refs = @ - 1]
  IN  IF e # None /\ g[e].refs = 0
      THEN SimpleTrigger(g, e, op, x, y)
      ELSE /\ ev' = IF e = None THEN f ELSE g
           /\ Finish(op, x, y) /\ UNCHANGED <<readyList, calls>>

\* The hook returns into simple_trigger.
Return ==
  /\ calls # <<>>
  /\ LET c == Head(calls)
     IN  /\ ev' = IF c.dies THEN [ev EXCEPT ![c.e].deleted = @ + 1] ELSE ev
         /\ Finish(c.op, c.x, c.y)
  /\ calls' = Tail(calls)
  /\ UNCHANGED <<readyList, pre, bound, value, over>>

(* What the program is trusted to do *)

\* It leaves the operands of an operation alone until that has finished.
Usable(x) ==
  "operands" \in Misuse \/ \A c \in Ongoing : x \notin {c.x, c.y}

\* It does not trigger, copy or move a handle that was moved from: after an
\* assignment that has the old occurrence with the results of the new one.
Trusted(x) == Usable(x) /\ ("moved" \in Misuse \/ x \notin moved)

\* It does not keep a preevent when the call ends for which that was made.
Held(r) == "preevents" \notin Misuse /\ \E p \in Pre : pre[p].r = r

(* Making events *)

Fresh(x) == se[x] = None /\ Usable(x)

\* Result variables of a call that no event has been given yet.
Free(r) == {s \in Slot : Home[s] = r /\ bound[s] = None}

Results(x, r) == IF x \in Plain THEN {{}} ELSE SUBSET Free(r)

\* __instantiate: a new occurrence on the rendezvous.
Instantiate(x, r, S) ==
  /\ r \notin over
  /\ \E e \in Occ :
       /\ ~ev[e].made
       /\ ev' = [ev EXCEPT ![e] = [on |-> r, refs |-> 1, hook |-> FALSE, made |-> TRUE,
                                   deleted |-> 0, ids |-> IF Kind[r] = "ids" THEN 1 ELSE 0]]
       /\ se' = [se EXCEPT ![x] = e]
       /\ bound' = [s \in Slot |-> IF s \in S THEN e ELSE bound[s]]
  /\ sv' = [sv EXCEPT ![x] = S] /\ moved' = moved \ {x}
  /\ UNCHANGED <<readyList, value, over, calls>>

\* make_event(r, ...) without an identifier.
MakeEvent(x, r, S) ==
  /\ Fresh(x) /\ Kind[r] = "explicit" /\ S \in Results(x, r)
  /\ Instantiate(x, r, S) /\ UNCHANGED pre

\* r.make_event(id, ...), with the copy of the identifier that make_rid allocates.
MakeWithId(x, r, S) ==
  /\ Fresh(x) /\ Kind[r] = "ids" /\ S \in Results(x, r)
  /\ Instantiate(x, r, S) /\ UNCHANGED pre

\* make_event(...) in twait { }, which the preprocessor annotates.
MakeInTwait(x, r, S) ==
  /\ Fresh(x) /\ Kind[r] = "gather" /\ S \in Results(x, r)
  /\ Instantiate(x, r, S) /\ UNCHANGED pre

(* Operations on handles *)

Written(S) == [s \in Slot |-> IF s \in S THEN 1 - value[s] ELSE value[s]]

BugWritesWhenEmpty(x) ==
  /\ x \in Typed /\ Trusted(x) /\ se[x] # None
  /\ value' = Written(sv[x])
  /\ SimpleTrigger(ev, se[x], "trigger", x, x)
  /\ UNCHANGED <<pre, bound, over>>

\* event<T0, ...>::operator()(v0, ...)
TriggerWith(x) ==
  /\ x \in Typed /\ Trusted(x) /\ Active(se[x])
  /\ value' = Written(sv[x])
  /\ SimpleTrigger(ev, se[x], "trigger", x, x)
  /\ UNCHANGED <<pre, bound, over>>

\* unblock(), and trigger() of an event<>, which writes no results.
Unblock(x) ==
  /\ Usable(x) /\ se[x] # None
  /\ SimpleTrigger(ev, se[x], "trigger", x, x)
  /\ UNCHANGED <<pre, bound, value, over>>

SetResult(x) ==
  /\ x \in Typed /\ Trusted(x) /\ Active(se[x])
  /\ \E s \in sv[x] : value' = Written({s})
  /\ UNCHANGED <<ev, readyList, se, sv, moved, pre, bound, over, calls>>

\* A second hook makes a distributed event, which is a model of its own.
SetHook(x) ==
  /\ Usable(x) /\ Active(se[x]) /\ ~ev[se[x]].hook
  /\ ev' = [ev EXCEPT ![se[x]].hook = TRUE]
  /\ UNCHANGED <<readyList, se, sv, moved, pre, bound, value, over, calls>>

\* The destructor.
Drop(x) ==
  /\ Usable(x) /\ se[x] # None
  /\ Unuse(ev, se[x], "drop", x, x)
  /\ UNCHANGED <<pre, bound, value, over>>

Alike(x, y) == {x, y} \subseteq Typed \/ {x, y} \subseteq Plain

\* x = y; the copy constructor is the case of an x that is new.
Assign(x, y) ==
  /\ Alike(x, y) /\ Usable(x) /\ Trusted(y) /\ se[y] # None
  /\ Unuse(Use(ev, se[y]), se[x], "assign", x, y)
  /\ UNCHANGED <<pre, bound, value, over>>

\* x = std::move(y) exchanges the occurrences, but not the results; with an x that
\* is new it is the move constructor.
Move(x, y) ==
  /\ Alike(x, y) /\ x # y /\ Usable(x) /\ Trusted(y) /\ se[y] # None
  /\ se' = [se EXCEPT ![x] = se[y], ![y] = se[x]]
  /\ sv' = [sv EXCEPT ![x] = sv[y], ![y] = IF se[x] = None THEN {} ELSE @]
  /\ moved' = IF se[x] = None THEN moved \ {x, y} ELSE (moved \ {x}) \cup ({y} \cap Typed)
  /\ UNCHANGED <<ev, readyList, pre, bound, value, over, calls>>

\* u = x.unblocker()
Unblocker(u, x) ==
  /\ u \in Plain /\ x \in Typed /\ Fresh(u) /\ Usable(x) /\ se[x] # None
  /\ ev' = Use(ev, se[x])
  /\ se' = [se EXCEPT ![u] = se[x]] /\ moved' = moved \ {u}
  /\ UNCHANGED <<readyList, sv, pre, bound, value, over, calls>>

\* event<T0>(u, results) and event<T0>(std::move(u), results): the same occurrence
\* with results of its own, of the call that the event is made for.
Rebind(x, u, keep, S) ==
  /\ u \in Plain /\ x \in Typed /\ Fresh(x) /\ Usable(u) /\ Active(se[u])
  /\ S \in SUBSET Free(ev[se[u]].on)
  /\ ev' = IF keep THEN Use(ev, se[u]) ELSE ev
  /\ se' = [se EXCEPT ![x] = se[u], ![u] = IF keep THEN @ ELSE None]
  /\ sv' = [sv EXCEPT ![x] = S]
  /\ moved' = moved \ {x}
  /\ bound' = [s \in Slot |-> IF s \in S THEN se[u] ELSE bound[s]]
  /\ UNCHANGED <<readyList, pre, value, over, calls>>

(* Preevents, which become events only if they have to *)

MakePre(p, r, S) ==
  /\ pre[p].r = None /\ r \notin over /\ Kind[r] # "ids"
  /\ S \in SUBSET Free(r) /\ Cardinality(S) <= 1
  /\ pre' = [pre EXCEPT ![p] = [r |-> r, s |-> S]]
  /\ bound' = [s \in Slot |-> IF s \in S THEN p ELSE bound[s]]
  /\ UNCHANGED <<ev, readyList, se, sv, moved, value, over, calls>>

\* Triggering one writes the result, and the rendezvous never hears of it.
PreTrigger(p) ==
  /\ pre[p].r # None
  /\ value' = Written(pre[p].s)
  /\ pre' = [pre EXCEPT ![p] = NoPre]
  /\ UNCHANGED <<ev, readyList, se, sv, moved, bound, over, calls>>

PreUnblock(p) ==
  /\ pre[p].r # None
  /\ pre' = [pre EXCEPT ![p] = NoPre]
  /\ UNCHANGED <<ev, readyList, se, sv, moved, bound, value, over, calls>>

PreMove(p, q) ==
  /\ pre[p].r = None /\ pre[q].r # None
  /\ pre' = [pre EXCEPT ![p] = pre[q], ![q] = NoPre]
  /\ bound' = [s \in Slot |-> IF s \in pre[q].s THEN p ELSE bound[s]]
  /\ UNCHANGED <<ev, readyList, se, sv, moved, value, over, calls>>

\* event<T0>(preevent&&)
PreToEvent(x, p) ==
  /\ Fresh(x) /\ pre[p].r # None /\ (x \in Plain => pre[p].s = {})
  /\ Instantiate(x, pre[p].r, pre[p].s)
  /\ pre' = [pre EXCEPT ![p] = NoPre]

(* Rendezvous *)

\* pop_ready, and join frees the copy of the identifier that it has moved out.
Join(r) ==
  /\ readyList[r] # <<>>
  /\ LET e == Head(readyList[r])
         f == [ev EXCEPT ![e].refs = @ - 1,
                         ![e].ids = IF Kind[r] = "ids" THEN @ - 1 ELSE @]
     IN  ev' = Reap(f, e)
  /\ readyList' = [readyList EXCEPT ![r] = Tail(@)]
  /\ UNCHANGED <<se, sv, moved, pre, bound, value, over, calls>>

\* clear() frees the identifiers on both lists, makes what waits empty, and gives
\* back its references to what is ready.  Hooks that it calls are in Rendezvous.
Cleared(r) ==
  LET listed == {readyList[r][i] : i \in DOMAIN readyList[r]}
      freed(e) == IF Kind[r] = "ids" THEN ev[e].ids - 1 ELSE ev[e].ids
  IN  /\ \A e \in Waiting(r) : ~ev[e].hook
      /\ ev' = [e \in Occ |->
           IF e \in Waiting(r) THEN [ev[e] EXCEPT !.on = None, !.ids = freed(e)]
           ELSE IF e \in listed
             THEN [ev[e] EXCEPT !.refs = @ - 1, !.ids = freed(e),
                                !.deleted = IF ev[e].refs = 1 THEN @ + 1 ELSE @]
             ELSE ev[e]]
      /\ readyList' = [readyList EXCEPT ![r] = <<>>]

Clear(r) ==
  /\ Waiting(r) # {} \/ readyList[r] # <<>>
  /\ Cleared(r)
  /\ UNCHANGED <<se, sv, moved, pre, bound, value, over, calls>>

Ends(r) ==
  /\ over' = over \cup {r}
  /\ bound' = [s \in Slot |-> IF Home[s] = r THEN None ELSE bound[s]]

\* The call goes away with its rendezvous and its variables, wherever it stands.
Destroy(r) ==
  /\ r \notin over /\ ~Held(r)
  /\ Cleared(r) /\ Ends(r)
  /\ UNCHANGED <<se, sv, moved, pre, value, calls>>

\* twait { } is left, and its results are read, when nothing is waited for.
Leave(r) ==
  /\ r \notin over /\ Kind[r] = "gather" /\ ~Held(r)
  /\ Waiting(r) = {}
  /\ Ends(r)
  /\ UNCHANGED <<ev, readyList, se, sv, moved, pre, value, calls>>

EventOps(x, y) == Assign(x, y) \/ Move(x, y)

PlainOps(x) == Unblock(x) \/ SetHook(x) \/ Drop(x)

Triggers(x) == TriggerWith(x) \/ SetResult(x)

PreOps(p, q) == PreTrigger(p) \/ PreUnblock(p) \/ PreMove(p, q)

Next ==
  \/ Return
  \/ \E x \in Handle, r \in Scope : \E S \in Results(x, r) :
       MakeEvent(x, r, S) \/ MakeWithId(x, r, S) \/ MakeInTwait(x, r, S)
  \/ \E x \in Handle : Triggers(x) \/ PlainOps(x)
  \/ \E x, y \in Handle : EventOps(x, y) \/ Unblocker(x, y)
  \/ \E x \in Typed, u \in Plain, keep \in BOOLEAN : \E S \in SUBSET Slot : Rebind(x, u, keep, S)
  \/ \E p \in Pre, r \in Scope : \E S \in SUBSET Free(r) : MakePre(p, r, S)
  \/ \E p, q \in Pre : PreOps(p, q)
  \/ \E x \in Handle, p \in Pre : PreToEvent(x, p)
  \/ \E r \in Scope : Join(r) \/ Clear(r) \/ Destroy(r) \/ Leave(r)

Spec == Init /\ [][Next]_vars

(* Properties *)

\* A handle that is the operand of an unfinished operation has given its reference
\* up, and already has that to the source if it is being assigned.
Refers(x, e) ==
  IF \E c \in Ongoing : c.x = x
  THEN \E c \in Ongoing : c.x = x /\ c.op = "assign" /\ se[c.y] = e
  ELSE se[x] = e

InList(r, e) == \E i \in DOMAIN readyList[r] : readyList[r][i] = e

\* Who refers to an occurrence: handles, and rendezvous where it is ready.
Holders(e) == {x \in Handle : Refers(x, e)} \cup {r \in Scope : InList(r, e)}

Listed(e, r) == ev[e].on = r \/ InList(r, e)

\* _refcount is the number of those who refer; an occurrence is deleted once, when
\* nobody refers to it and its trigger is over; the copy of an identifier is freed
\* once, when its event has been joined or cleared.
HandlesExact ==
  \A e \in Occ :
    /\ ev[e].refs = Cardinality(Holders(e))
    /\ ev[e].deleted = IF /\ ev[e].made /\ Holders(e) = {}
                          /\ \A c \in Ongoing : ~(c.e = e /\ c.dies)
                       THEN 1 ELSE 0
    /\ ev[e].ids = IF \E r \in Scope : Kind[r] = "ids" /\ Listed(e, r) THEN 1 ELSE 0

Pending(b) ==
  \/ b \in Occ /\ ev[b].on # None
  \/ b \in Pre /\ pre[b].r # None

\* A result variable is written only through an event that was made for it and is
\* still active, and while the call goes on that the variable belongs to.
ResultsInTime ==
  [][\A s \in Slot : value'[s] # value[s] => Pending(bound[s]) /\ Home[s] \notin over]_vars
===============================================================================
