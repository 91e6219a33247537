CONSTANTS
  NSig = 2
  Event = {a, b}
  CancelHot = TRUE
SPECIFICATION Spec
INVARIANTS
  HandlerInstalled
