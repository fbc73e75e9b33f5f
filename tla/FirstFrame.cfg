SPECIFICATION FairSpec
CONSTANTS
  FrameCounts <- MCFrameCounts
  Width = 3
  Driver <- MCDriver
  Faults <- AllFaults
CHECK_DEADLOCK FALSE
INVARIANTS
  StreamsAgreed
  BuffersAccounted
  NoReadWhileFilled
  ImagesMatch
PROPERTIES
  Ends
