SPECIFICATION Spec
CONSTANTS
  None = None
  p1 = p1
  p2 = p2
  p3 = p3
  Pid = {p1, p2, p3}
  Weight <- Weights
  Root = p1
  Td = 5
  Tb = 6
  MaxVersion = 2
  MaxUpdates = 3
  max_size = 2
INVARIANTS
  TypeOK
  OneOwner
PROPERTY Implements
CHECK_DEADLOCK FALSE
