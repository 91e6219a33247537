----------------------------- MODULE MCRendezvous -----------------------------
(* Small instances of Rendezvous for TLC. *)
EXTENDS Rendezvous, TLC

CONSTANTS e1, e2, e3, caller, callee, r1, fn

TwoEvents   == {e1, e2}
ThreeEvents == {e1, e2, e3}
OwnerF      == [r \in {r1} |-> caller]
NoOwner     == [r \in {} |-> caller]

EventSymmetry == Permutations(Event)
===============================================================================
