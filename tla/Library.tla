-------------------------------- MODULE Library --------------------------------
(***************************************************************************)
(* The resolver and the adapters: models of their own, side by side, for   *)
(* any values of their constants.                                          *)
(***************************************************************************)
EXTENDS Resolver

CONSTANTS Root, Wrap, Kinds, Tracker, MaxHandles, MaxHooks, Clears   \* of Adapters

VARIABLES
  alife, aactive, arefs, ahandles, ahooks, akind, atarget, aholds, anode, aslot,
  aresult, awhy, astack

wrapVars == <<alife, aactive, arefs, ahandles, ahooks, akind, atarget, aholds, anode,
              aslot, aresult, awhy, astack>>

Wraps == INSTANCE Adapters WITH
  life <- alife, active <- aactive, refs <- arefs, handles <- ahandles,
  hooks <- ahooks, kind <- akind, target <- atarget, holds <- aholds,
  node <- anode, slot <- aslot, result <- aresult, why <- awhy, stack <- astack

(* Properties *)

\* An adapter and its target are triggered together; the first trigger sets the
\* value and no later one overwrites it; the result variable of a timeout or signal
\* adapter says what ended the event; and no adapter's event or rendezvous is leaked,
\* or deleted in use.
AdaptersAgree ==
  /\ Wraps!BothOrNeither /\ Wraps!FirstSetsResult /\ Wraps!OutcomeTells
  /\ Wraps!AdapterMemory
===============================================================================
