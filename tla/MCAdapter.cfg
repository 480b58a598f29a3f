SPECIFICATION Spec
CONSTANTS
  Parts <- MCParts
  MaxFaults = 1
INVARIANTS
  PhyUsable
  UlpBelief
  WakeArmed
  LinkTuned
  HalvesAgree
