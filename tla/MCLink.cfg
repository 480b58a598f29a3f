CONSTANTS
  TxSpaceKB = 14
  MaxSnoop = 4099
  MaxNoSnoop = 4099
  Peers <- MCPeers
  NoPeer <- MCNoPeer
  Choices <- MCChoices
  Frames <- MCFrames
  MaxResets = 2
SPECIFICATION FairSpec
INVARIANTS Settled PausesNegotiated ToldTrue LpiNegotiated
PROPERTY LinkFollows
