CONSTANTS
  Pkt = {p1, p2, p3, p4, p5, p6, p7}
  NoPkt = NoPkt
  Pool = {"mbuf", "clust"}
  Capacity = 3
SPECIFICATION PoolSpec
SYMMETRY PktSymmetry
INVARIANTS
  ListsIntact
  ScheduledRuns
