--------------------------------- MODULE Refs ---------------------------------
(***************************************************************************)
(* Counted references (ref_ptr) and passive ones, which keep the memory of *)
(* an object but not its contents.  The last ref_ptr calls full_release of *)
(* the object if it has one, and that is code of the program, which may    *)
(* make and drop references before the count goes down; passive references *)
(* to the object may then go before, during or after it.  An object has a  *)
(* ref_ptr as a member, which its destructor releases in turn.             *)
(***************************************************************************)
EXTENDS Integers, FiniteSets, Sequences

CONSTANTS
  Obj,       \* objects of classes that derive from enable_ref_ptr
  Full,      \* those that have a full_release
  Var,       \* variables of type ref_ptr
  Passive,   \* variables of type passive_ref_ptr
  None

\* The member of an object goes by the name of the object.
Strong == Var \cup Obj
Pointer == Strong \cup Passive

RefAssumption ==
  /\ IsFiniteSet(Pointer) /\ Full \subseteq Obj
  /\ Var \cap Obj = {} /\ Passive \cap Strong = {} /\ None \notin Pointer

VARIABLES
  use, weak,  \* _use_count and _weak_count of each object
  at,         \* _t of each pointer
  made,       \* objects that have been made
  deleted,    \* how often each was deleted
  released,   \* how often full_release was called
  frames,     \* what goes on, innermost first
  wild        \* whether an assignment has read its source in a deleted object

vars == <<use, weak, at, made, deleted, released, frames, wild>>

Init ==
  /\ use = [o \in Obj |-> 0] /\ weak = [o \in Obj |-> 0]
  /\ at = [p \in Pointer |-> None]
  /\ made = {} /\ deleted = [o \in Obj |-> 0] /\ released = [o \in Obj |-> 0]
  /\ frames = <<>> /\ wild = FALSE

\* A release or full_release of o, or an assignment of q, which refers to `to', to p.
Frame(op, o, p, q, to) == [op |-> op, o |-> o, p |-> p, q |-> q, to |-> to]
Do(op, o) == Frame(op, o, None, None, None)

\* What has begun and is not finished.
Going == {frames[i] : i \in DOMAIN frames}

(* What the destructors and assignments do *)

\* delete: the destructor of the object releases its member.
Delete(o, rest) ==
  /\ deleted' = [deleted EXCEPT ![o] = @ + 1]
  /\ at' = [at EXCEPT ![o] = None]
  /\ frames' = IF at[o] = None THEN rest ELSE <<Do("release", at[o])>> \o rest

BugForgetsPassive(o, rest) ==
  /\ use' = [use EXCEPT ![o] = @ - 1]
  /\ IF use[o] = 1 THEN Delete(o, rest) ELSE frames' = rest /\ UNCHANGED <<at, deleted>>

\* release takes one from the count.
Decrement(o, rest) ==
  /\ use' = [use EXCEPT ![o] = @ - 1]
  /\ IF use[o] = 1 /\ weak[o] = 0
     THEN Delete(o, rest)
     ELSE frames' = rest /\ UNCHANGED <<at, deleted>>

\* The last reference calls full_release first, while the count is still one.
Release ==
  /\ frames # <<>> /\ Head(frames).op = "release"
  /\ LET o == Head(frames).o
     IN  IF o \in Full /\ use[o] = 1
         THEN /\ frames' = <<Do("full", o)>> \o Tail(frames)
              /\ released' = [released EXCEPT ![o] = @ + 1]
              /\ UNCHANGED <<use, at, deleted>>
         ELSE Decrement(o, Tail(frames)) /\ UNCHANGED released
  /\ UNCHANGED <<weak, made, wild>>

FullReturns ==
  /\ frames # <<>> /\ Head(frames).op = "full"
  /\ Decrement(Head(frames).o, Tail(frames))
  /\ UNCHANGED <<weak, made, released, wild>>

\* A member exists as long as its object.
Exists(p) == p \in Obj => p \in made /\ deleted[p] = 0

\* An assignment has released what its target referred to, and reads its source.  If
\* that was a member of an object that the release deleted, anything may be read;
\* the model stops.
AssignEnds ==
  /\ frames # <<>> /\ Head(frames).op = "assign"
  /\ at' = [at EXCEPT ![Head(frames).p] = at[Head(frames).q]]
  /\ wild' = ~Exists(Head(frames).q)
  /\ frames' = Tail(frames)
  /\ UNCHANGED <<use, weak, made, deleted, released>>

(* What the program does, in full_release too *)

UserCode == frames # <<>> => Head(frames).op = "full"

\* It leaves the operands of an assignment alone until that has finished.
Usable(p) == \A c \in Going : p \notin {c.p, c.q}

Ready(p) == UserCode /\ Usable(p) /\ Exists(p)

\* ref_ptr<T>(new T)
New(p, o) ==
  /\ p \in Strong /\ Ready(p) /\ at[p] = None /\ o \notin made
  /\ made' = made \cup {o}
  /\ use' = [use EXCEPT ![o] = 1]
  /\ at' = [at EXCEPT ![p] = o]
  /\ UNCHANGED <<weak, deleted, released, frames, wild>>

\* The copy constructor, and assignment to an empty pointer.
Copy(p, q) ==
  /\ {p, q} \subseteq Strong /\ Ready(p) /\ Ready(q) /\ at[p] = None /\ at[q] # None
  /\ use' = [use EXCEPT ![at[q]] = @ + 1]
  /\ at' = [at EXCEPT ![p] = at[q]]
  /\ UNCHANGED <<weak, made, deleted, released, frames, wild>>

\* p = q: takes a reference, releases the old one, and then copies.
Assign(p, q) ==
  /\ p \in Var /\ q \in Strong
  /\ Ready(p) /\ Ready(q) /\ at[p] # None
  /\ use' = IF at[q] = None THEN use ELSE [use EXCEPT ![at[q]] = @ + 1]
  /\ frames' = <<Do("release", at[p]), Frame("assign", None, p, q, at[q])>> \o frames
  /\ UNCHANGED <<weak, at, made, deleted, released, wild>>

\* std::move exchanges the two.
Move(p, q) ==
  /\ {p, q} \subseteq Strong \/ {p, q} \subseteq Passive
  /\ p # q /\ Ready(p) /\ Ready(q) /\ at[q] # None
  /\ at' = [at EXCEPT ![p] = at[q], ![q] = at[p]]
  /\ UNCHANGED <<use, weak, made, deleted, released, frames, wild>>

\* The destructor of a variable.
Drop(p) ==
  /\ p \in Var /\ Ready(p) /\ at[p] # None
  /\ at' = [at EXCEPT ![p] = None]
  /\ frames' = <<Do("release", at[p])>> \o frames
  /\ UNCHANGED <<use, weak, made, deleted, released, wild>>

(* Passive references *)

\* Who can still name an object: those who refer to it, and its full_release.
Reached(o) ==
  \/ \E p \in Pointer : at[p] = o
  \/ frames # <<>> /\ Head(frames) = Do("full", o)

\* passive_ref_ptr<T>(this) and copies of it.
Hold(p, o) ==
  /\ p \in Passive /\ Ready(p) /\ at[p] = None
  /\ o \in made /\ deleted[o] = 0 /\ Reached(o)
  /\ weak' = [weak EXCEPT ![o] = @ + 1]
  /\ at' = [at EXCEPT ![p] = o]
  /\ UNCHANGED <<use, made, deleted, released, frames, wild>>

LetGo(p) ==
  /\ p \in Passive /\ Ready(p) /\ at[p] # None
  /\ LET o == at[p]
     IN  /\ weak' = [weak EXCEPT ![o] = @ - 1]
         /\ IF weak[o] = 1 /\ use[o] = 0
            THEN /\ deleted' = [deleted EXCEPT ![o] = @ + 1]
                 /\ at' = [at EXCEPT ![p] = None, ![o] = None]
                 /\ frames' = IF at[o] = None THEN frames ELSE <<Do("release", at[o])>> \o frames
            ELSE at' = [at EXCEPT ![p] = None] /\ UNCHANGED <<deleted, frames>>
  /\ UNCHANGED <<use, made, released, wild>>

\* p = q of passive references.
HoldOther(p, q) ==
  /\ {p, q} \subseteq Passive /\ Ready(p) /\ Ready(q) /\ at[p] # None /\ at[q] # None
  /\ at[p] # at[q]
  /\ LET o == at[p]
         w == [weak EXCEPT ![at[q]] = @ + 1, ![o] = @ - 1]
     IN  /\ weak' = w
         /\ IF w[o] = 0 /\ use[o] = 0
            THEN Delete(o, <<Frame("assign", None, p, q, at[q])>> \o frames)
            ELSE at' = [at EXCEPT ![p] = at[q]] /\ UNCHANGED <<deleted, frames>>
  /\ UNCHANGED <<use, made, released, wild>>

PassiveOps(p, q) == LetGo(p) \/ HoldOther(p, q)

\* What a pointer does that was read in freed memory is not modelled.
Next ==
  /\ ~wild
  /\ \/ Release \/ FullReturns \/ AssignEnds
     \/ \E p \in Pointer, o \in Obj : New(p, o) \/ Hold(p, o)
     \/ \E p, q \in Pointer : Copy(p, q) \/ Assign(p, q) \/ Move(p, q) \/ PassiveOps(p, q)
     \/ \E p \in Var : Drop(p)

Spec == Init /\ [][Next]_vars

(* Properties *)

\* The target of an unfinished assignment already counts for what its source
\* referred to.
Refers(p, o) ==
  IF \E c \in Going : c.p = p
  THEN \E c \in Going : c.p = p /\ c.to = o
  ELSE at[p] = o

Released(o) == \E c \in Going : c.o = o

\* Who holds a counted reference: pointers, and the release that is going on (which
\* stands here under the name None).
Users(o) == {p \in Strong : Refers(p, o)} \cup {u \in {None} : Released(o)}

Holders(o) == {p \in Passive : Refers(p, o)}

\* Both counts are exact; full_release is called once, when the last counted
\* reference goes; and the object is deleted once, when no reference is left.  This
\* lasts until an assignment reads its source in an object that is gone by then.
ReferencesExact == ~wild =>
  \A o \in Obj :
    /\ use[o] = Cardinality(Users(o)) /\ weak[o] = Cardinality(Holders(o))
    /\ released[o] = IF /\ o \in Full /\ o \in made
                        /\ \/ Users(o) = {}
                           \/ Do("full", o) \in Going
                     THEN 1 ELSE 0
    /\ deleted[o] = IF o \in made /\ Users(o) = {} /\ Holders(o) = {} THEN 1 ELSE 0
===============================================================================
