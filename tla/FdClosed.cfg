CONSTANTS
  Op = {o1}
  Size = 1
  MaxRefs = 2
  CloseOnConnect = FALSE
SPECIFICATION Spec
CHECK_DEADLOCK FALSE
PROPERTIES
  CanceledByClose
