CONSTANTS
  Value = {v1, v2, v3}  Receiver = {r1, r2, r3, r4}  Eager = {r3, r4}
  None = None  a = a  b = b  c = c
  Event = {a, b}  Width = 32  FirstMask = 1  MaxLength = 5
  Timer = {a, b, c}  Background = {c}  Arity = 4  CullAt = 3  HalfRange = 8  MaxTime = 1
  HookPush = TRUE
SPECIFICATION AllSpec
CHECK_DEADLOCK FALSE
INVARIANTS
  HeapOwns HeapOrder NothingWaitsForNothing
PROPERTIES
  ImplementsTimerQueue EveryTimerFires ImplementsEventQueue ServedInOrder
