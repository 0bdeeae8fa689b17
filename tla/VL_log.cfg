SPECIFICATION Spec
CONSTANTS
  None = None
  v1 = v1
  v2 = v2
  Value = {v1, v2}
  ValueSize <- Sizes
  Line <- WholeLines
  HeaderSize = {1, 2}
  MaxFileSize = 6
  MaxFileID = 2
  MaxOpens = 2
INVARIANTS
  TypeOK
  ReadBack
CHECK_DEADLOCK FALSE
