SPECIFICATION Spec
CONSTANTS
  None = None
  root = root
  leaf = leaf
  s1 = s1
  s2 = s2
  s3 = s3
  Pid = {root, leaf}
  Root = root
  Slot = {s1, s2}
  SlotsOf <- TrieSlots
  Child <- TrieChild
  Weight <- TrieWeight
  Td = 4
  Tb = 5
  FirstVersion = 1
  MaxVersion = 4
  ReadVersions = {1, 2, 3, 4}
  LruMax = 3
  PoolEvicts = FALSE
INVARIANTS
  TypeOK
  ReadExact
  ResidentExact
  NeverFails
  ReplayBounded
PROPERTIES
  NoPageShadowed
  CallsReturn
