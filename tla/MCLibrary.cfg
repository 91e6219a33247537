CONSTANTS
  a = a  b = b  leaf1 = leaf1  leaf2 = leaf2  sum1 = sum1  sum2 = sum2
  Nobody = Nobody
  Root = root  Wrap = {a, b}  Kinds <- MCKinds  Tracker <- MCOwn
  MaxHandles = 2  MaxHooks = 2  Clears = TRUE
  Query = {a, b}
  Server = {1, 2, 3}
  Names <- MCNames
  First = {1, 2}
  Later <- MCLater
  MaxRetransmits = 2
  MaxTimeouts = 2
  MaxInflight = 0
SPECIFICATION AllSpec
CHECK_DEADLOCK FALSE
INVARIANTS
  RequestsExact ServersHandled SumsExact AdaptersAgree
PROPERTIES
  EveryRequestAnswered
