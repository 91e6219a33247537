CONSTANTS
  \* two descriptors, one of whose numbers is reused at once; epoll fails twice
  MaxFd = 1  MaxErrors = 2  EarlyReuse = {1}
  \* two signals, one of which arrives while the other is dispatched, and enough
  \* events to distribute one of them
  NSig = 2  SigEvent = {a, b, c}  CancelHot = FALSE
  LibFd = {x, y}  LibTimer = {s, t}  Background = {t}  MaxWork = 1
SPECIFICATION AllSpec
INVARIANTS
  PollSetCoherent KernelWatches SignalSafety ForeignNoOversleep ForeignReturnsIdle
PROPERTIES
  KernelWorkEnds
