SPECIFICATION FairSpec
CONSTANTS
  NumBuffers = 4
  Sinks <- AllSinks
  None = None
  Faults <- AllFaults
INVARIANTS
  SingleOwner
  ScreenNotWritten
  BuffersAlive
  AllAccounted
  SDLReleased
PROPERTIES
  ShowsInOrder
  AllReturn
  CaptureContinues
  SessionEnds
