SPECIFICATION FairBusSpec
CONSTANTS
  Thread = {timer, shutdown}
  Families = {"igp", "bm", "hv"}
  Alone <- MCAlone
  MaxFaults = 1
  None = None
INVARIANTS
  ReachesMeant
  Exclusive
  NothingLeft
PROPERTIES
  AccessEnds
