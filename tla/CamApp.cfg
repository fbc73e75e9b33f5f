SPECIFICATION FairSpec
CONSTANTS
  d1 = d1
  d2 = d2
  t1 = t1
  t2 = t2
  Missing = Missing
  Stranger = Stranger
  Daemons <- MCDaemons
  Tools <- MCTools
  PidOf <- MCPidOf
  Waits <- MCWaits
  Attempts = 2
  Ordered = TRUE
  Faults <- AppFaults
CHECK_DEADLOCK FALSE
INVARIANTS
  PidFileWhole
  InsideRoot
PROPERTIES
  InitEnds
