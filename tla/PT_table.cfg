SPECIFICATION Spec
CONSTANTS
  None = None
  d1 = d1
  d2 = d2
  Data = {d1, d2}
  Pid = {0, 1, 2}
  FirstVersion = 1
  MaxVersion = 1
  BlockEntries = 2
  BlockBytes = 8
  CountBytes = 1
  EntryBytes <- ShortRoot
SYMMETRY DataSymmetry
INVARIANTS
  TypeOK
  LookupExact
PROPERTY Implements
CHECK_DEADLOCK FALSE
