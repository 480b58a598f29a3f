CONSTANTS
  NumTxDesc = 5
  MaxSegs = 1
  Mbuf = {m1, m2}
  NoMbuf = NoMbuf
  FlushRings = TRUE
SYMMETRY MbufSymmetry
SPECIFICATION Spec
INVARIANTS
  TypeOK
  NoOverrun
  NicReadsHeld
  NoLeak
  NoDescriptorLeak
PROPERTIES
  RingIsFifo
