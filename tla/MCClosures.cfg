CONSTANTS
  e1 = e1  e2 = e2  e3 = e3  caller = caller  callee = callee  r1 = r1  fn = fn  None = None
  c1 = c1  c2 = c2  c3 = c3  c4 = c4
  Event <- TwoEvents
  Closure = {caller}
  Explicit = {r1}
  Functional = {fn}
  Owner <- OwnerF
  MaxHandles = 2
SPECIFICATION AllSpec
PROPERTIES
  RuntimeSettles ImplementsRunQueue
CHECK_DEADLOCK FALSE
