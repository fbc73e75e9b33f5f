SPECIFICATION PatientSpec
CONSTANTS
  NumBuffers = 2
  Sinks <- KMSOnly
  None = None
  Faults <- NoFaults
PROPERTIES
  InterruptEnds
