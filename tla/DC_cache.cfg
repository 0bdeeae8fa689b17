SPECIFICATION Spec
CONSTANTS
  None = None
  root = root
  p1 = p1
  p2 = p2
  Strange = Strange
  Pid = {root, p1, p2}
  Root = root
  max_size = 2
  PageUnits = 2
  MaxVersion = 1
  MaxSessions = 3
  MaxUnits = 9
INVARIANTS
  CacheFileTypeOK
  FileExact
  HeadKept
CHECK_DEADLOCK FALSE
