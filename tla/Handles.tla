-------------------------------- MODULE Handles --------------------------------
(***************************************************************************)
(* What holds references: the objects event<T0, ...> with their result     *)
(* variables, and the counted references ref_ptr and passive_ref_ptr.      *)
(* Each is a model of its own for any values of its constants.             *)
(***************************************************************************)
EXTENDS Integers, FiniteSets, Sequences

CONSTANTS
  Occ, Typed, Plain, Pre, Scope, Kind, Slot, Home, Misuse,  \* of Results
  Obj, Full, Var, Passive,                                  \* of Refs
  Nobody                                                    \* of both

VARIABLES
  ev, readyList, se, sv, moved, pre, bound, value, over, calls,
  use, weak, at, made, deleted, released, frames, wild

valueVars == <<ev, readyList, se, sv, moved, pre, bound, value, over, calls>>
refVars == <<use, weak, at, made, deleted, released, frames, wild>>

Values == INSTANCE Results WITH None <- Nobody

Counted == INSTANCE Refs WITH None <- Nobody

(* Properties *)

\* The reference count of an occurrence is the number of handles and lists that
\* refer to it; it is deleted once, after the last of them and after its trigger;
\* the copy of an identifier is freed once, when its event was joined or cleared.
HandlesExact == Values!HandlesExact

\* A result variable is written only by an event that was made for it and is still
\* active, and only while the call goes on to which the variable belongs.
ResultsInTime == Values!ResultsInTime

\* Both counts of an object are exact; full_release is called once, when the last
\* counted reference goes; the object is deleted once, when no reference is left -
\* until an assignment reads its source in an object that is gone by then.
ReferencesExact == Counted!ReferencesExact
===============================================================================
