SPECIFICATION StorageSpec
CONSTANTS
  None = None
  NoValue = NoValue
  a = a
  Value = {a}
  UserKey = {1, 2}
  MaxVersion = 3
INVARIANTS
  StorageTypeOK
  ReadsLastBlock
  PutsKept
  ScanComplete
PROPERTY CallsAsPromised
