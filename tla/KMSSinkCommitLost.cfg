SPECIFICATION FairSpec
CONSTANTS
  b1 = b1
  b2 = b2
  b3 = b3
  b4 = b4
  None = None
  Requests <- MCRequests
  Faults <- CommitFaults
CHECK_DEADLOCK FALSE
PROPERTIES
  FramesMove
