------------------------------ MODULE MCAdapters ------------------------------
(* An instance of Adapters for TLC: two adapters, each with a result variable *)
(* of its own.                                                               *)
EXTENDS Adapters

CONSTANTS a, b

Both == {a, b}
Own == [w \in Both |-> w]
===============================================================================
