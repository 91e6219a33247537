CONSTANTS
  MaxFd = 1
  MaxErrors = 2
  EarlyReuse = {0, 1}
SPECIFICATION Spec
INVARIANTS
  KernelWatchesAll
