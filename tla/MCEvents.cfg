CONSTANTS
  e1 = e1  e2 = e2  e3 = e3  caller = caller  callee = callee  r1 = r1  fn = fn  None = None
  Event <- TwoEvents
  Closure = {caller, callee}
  Explicit = {r1}
  Functional = {fn}
  Owner <- OwnerF
  MaxHandles = 2
  h1 = h1  h2 = h2  p1 = p1  p2 = p2  s1 = s1
  gathers = gathers  lists = lists  names = names
  Occ = {e1, e2}
  Typed = {h1, h2}
  Plain = {u}
  Pre = {p1, p2}
  Scope = {gathers, lists, names}
  Kind <- Kinds
  Slot = {s1}
  Home <- Homes
  Misuse = {}
  Obj = {e1, e2, e3}
  Full = {e1, e2}
  Var = {h1, h2}
  Passive = {p1, p2}
  Nobody = Nobody
SPECIFICATION AllSpec
SYMMETRY Symmetry
INVARIANTS
  EventMemoryExact NoLostWakeup WakeupHolds QueuedOnce HandlesExact ReferencesExact
PROPERTY ResultsInTime
CHECK_DEADLOCK FALSE
