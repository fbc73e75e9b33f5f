SPECIFICATION FairSpec
CONSTANTS
  front = front
  back = back
  usb = usb
  Sessions = {initramfs, root}
  Boot <- ThreeCameras
  Options <- AnyOrSecond
  MaxChanges = 2
  Denied = {root}
  None = None
INVARIANTS
  HoldsCurrent
  ReadyHolds
  IndexInRange
  FindsCamera
PROPERTIES
  InitReturns
