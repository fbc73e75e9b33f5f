SPECIFICATION Spec
CONSTANTS
  b1 = b1
  b2 = b2
  b3 = b3
  b4 = b4
  None = None
  Requests <- MCRequests
  Faults <- CommitFaults
CHECK_DEADLOCK FALSE
INVARIANTS
  TypeOK
  FlipMatchesQueued
  NeverBusy
  ScreenHeld
PROPERTIES
  ImplementsFrameSink
