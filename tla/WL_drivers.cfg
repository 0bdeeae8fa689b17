SPECIFICATION WorkloadSpec
CONSTANTS
  None = None
  NoValue = NoValue
  Carried = Carried
  UserKey = {0, 1, 2, 3, 4, 5, 6}
  Value = {0, 1, 2, 3, 4, 5}
  Fill = 0
  Opening = 1
  MaxVersion = 6
  Programs <- AllPrograms
INVARIANTS
  WorkloadTypeOK
  WrongIsRight
  ReadsCommitted
  BufferExact
  Conserved
PROPERTY CallsLawful
CHECK_DEADLOCK FALSE
