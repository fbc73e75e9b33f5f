SPECIFICATION Spec
CONSTANTS
  d1 = d1
  d2 = d2
  t1 = t1
  t2 = t2
  Missing = Missing
  Stranger = Stranger
  Daemons <- OneDaemon
  Tools <- OneTool
  PidOf <- MCPidOf
  Waits <- MCWaits
  Attempts = 2
  Ordered = FALSE
  Faults <- NoFaults
CHECK_DEADLOCK FALSE
INVARIANTS
  SignalsPidfilePid
