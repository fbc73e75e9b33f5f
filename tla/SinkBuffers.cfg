SPECIFICATION Spec
CONSTANTS
  fd1 = fd1
  fd2 = fd2
  fd3 = fd3
  fd4 = fd4
  A = A
  B = B
  C = C
  Buffers <- ThreeBuffers
  Dmabuf <- SharedDmabuf
  MaxHandle = 3
  Layouts <- SomeLayouts
  Images <- OneOrTwoPlanes
  Sizes = {3, 4, 20}
  Width = 4
  Huge = 99
  MaxBytes = 3
  MaxFrames = 2
  Faults <- AllFaults
  Unset = Unset
INVARIANTS
  NoHandleLeft
  HandlesMatch
  SpansInside
  FileInOrder
