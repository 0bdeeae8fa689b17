SPECIFICATION Spec
CONSTANTS
  None = None
  d1 = d1
  d2 = d2
  Data = {d1, d2}
  Pid = {0, 1}
  FirstVersion = 0
  MaxVersion = 2
  BlockEntries = 2
  BlockBytes = 9
  CountBytes = 1
  EntryBytes <- ShortRoot
SYMMETRY DataSymmetry
INVARIANT LookupExact
CHECK_DEADLOCK FALSE
