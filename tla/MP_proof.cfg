SPECIFICATION MerkleSpec
CONSTANTS
  Padding = Padding
  a = a
  b = b
  Value = {a, b}
  Nibble = {0, 1, 10}
  Key <- KeysOfBothKinds
  MaxVersion = 2
SYMMETRY Symmetry
INVARIANTS
  MerkleTypeOK
  PathsLeadToValues
  RebuiltExact
  ProofVerifies
  VerifySound
  TreeVerifies
CHECK_DEADLOCK FALSE
