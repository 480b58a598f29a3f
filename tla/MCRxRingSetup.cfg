CONSTANTS
  NumRxDesc = 4
  BatchSize = 2
  MaxFrags = 3
  Buf = {b1, b2, b3, b4, b5, b6}
  NoBuf = NoBuf
  MapMayFail = FALSE
SPECIFICATION Spec
SYMMETRY BufSymmetry
INVARIANTS
  NicOwnsFresh
