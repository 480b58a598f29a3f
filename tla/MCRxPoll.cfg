CONSTANTS
  MaxWaiting = 2
SPECIFICATION Spec
INVARIANTS
  NothingStranded
PROPERTIES
  FramesTaken
