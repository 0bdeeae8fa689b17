SPECIFICATION TrieSpec
CONSTANTS
  None = None
  root = root
  left = left
  right = right
  s1 = s1
  s2 = s2
  k1 = k1
  k2 = k2
  NoValue = NoValue
  Pid = {root, left, right}
  Root = root
  Slot = {s1, s2}
  SlotsOf <- ForkSlots
  Child <- ForkChild
  Weight <- ForkWeight
  Nibble <- ForkNibble
  Path <- ForkPath
  UserKey = {k1, k2}
  Value = {a}
  Td = 4
  Tb = 5
  FirstVersion = 1
  MaxVersion = 3
  ReadVersions = {1, 2, 3}
  LruMax = 12
  PoolEvicts = FALSE
INVARIANT TrieTypeOK
PROPERTIES
  ImplementsMap
  GetAnswers
