SPECIFICATION Spec
CONSTANTS
  None = None
  root = root
  leaf = leaf
  s1 = s1
  s2 = s2
  s3 = s3
  Pid = {root}
  Root = root
  Slot = {s1, s2, s3}
  SlotsOf <- SoloSlots
  Child <- SoloChild
  Weight <- SoloWeight
  Td = 6
  Tb = 7
  FirstVersion = 1
  MaxVersion = 3
  ReadVersions = {1, 2, 3}
  LruMax = 2
  PoolEvicts = TRUE
SYMMETRY SlotSymmetry
INVARIANTS
  ReadExact
  NothingUnfrozen
