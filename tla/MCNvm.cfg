SPECIFICATION FairSpec
CONSTANTS
  Layout <- MCLayout
  FlashFaults = {}
  MaxFaults = 6
  Retries = 2
  None = None
INVARIANTS
  BootsOldOrNew
  RunsRepaired
PROPERTIES
  RepairMade
