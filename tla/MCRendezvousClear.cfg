CONSTANTS
  e1 = e1  e2 = e2  e3 = e3  caller = caller  callee = callee  r1 = r1  fn = fn  None = None
  Event <- ThreeEvents
  Closure = {caller}
  Explicit = {}
  Functional = {}
  Owner <- NoOwner
  MaxHandles = 1
SPECIFICATION Spec
SYMMETRY EventSymmetry
INVARIANT
  KeptForHooks
CHECK_DEADLOCK FALSE
