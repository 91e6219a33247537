CONSTANTS
  Op = {o1, o2}  Size = 2  MaxRefs = 2  CloseOnConnect = FALSE
  MaxNum = 9  MaxEntries = 3  Targets = {0, 1, 2}  Given = {0, 1, 2, 3}
  InUse = {{}, {0, 1, 2}}
  Request = {q1, q2, q3}  NHelper = 2  Kinds = {"open", "fstat", "read", "write"}
  DataSize = 2  CrapSize = 1
  InitialSize = 2  MaxInput = 6  MaxSize = 4
  q1 = q1  q2 = q2  q3 = q3
SPECIFICATION AllSpec
INVARIANTS
  DescriptorLifetime OperationsInOrder HelperInOrder LinesExact ChildDescriptors
PROPERTIES
  CloseEndsAll EveryRequestEnds
