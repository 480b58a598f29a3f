CONSTANTS
  NumTxDesc = 8
  NumMemDesc = 4
  MaxSegs = 2
SPECIFICATION Spec
INVARIANTS
  MappedWhileRead
  UnmapsOwn
