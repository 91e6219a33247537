CONSTANTS
  a = a  b = b  Root = root
  Wrap <- Both
  Kinds = {"bind", "helper"}
  Tracker <- Own
  MaxHandles = 2
  MaxHooks = 2
  Clears = FALSE
SPECIFICATION Spec
INVARIANT
  HelperFindsEvent
CHECK_DEADLOCK FALSE
