SPECIFICATION FairSpec
CONSTANTS
  t1 = t1
  t2 = t2
  c1 = c1
  c2 = c2
  drm = drm
  None = None
  Threads <- MCThreads
  Calls <- MCCalls
  Sources <- MCSources
  Faults <- NoFaults
  MaxCalls = 3
INVARIANTS
  TypeOK
  NoEmptyCall
  NoStrandedCall
PROPERTIES
  CallsRun
  ExitEndsLoop
