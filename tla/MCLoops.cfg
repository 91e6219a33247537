CONSTANTS
  Request = {r1, r2, r3, r4}  Immediate = {r4}
  NTask = 2  Background = {1}  Times = {2, 5}  MaxTime = 6
  PerMs = 3  Round = 1  IntRange = 4
  Never = Never
SPECIFICATION AllSpec
INVARIANTS
  NoOversleep Exclusion FirstIsWoken
PROPERTIES
  EventsServed ImplementsFairMutex EveryoneServed
