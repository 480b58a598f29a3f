CONSTANTS
  Mbuf = {m1, m2}
  RingSize = 3
  Reserve = 2
  WakeThreshold = 2
  DeadlockThreshold = 2
  FlushRings = TRUE
SPECIFICATION FairSpec
INVARIANTS
  LinkUpWatched
PROPERTIES
  ServiceIsFifo
  PacketsFreed
  StalledWakes
  ResetFollows
