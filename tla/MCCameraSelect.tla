--------------------------- MODULE MCCameraSelect ---------------------------
(* Two processes and three cameras. *)
EXTENDS CameraSelect

CONSTANTS front, back, usb

ThreeCameras == <<front, back, usb>>
AnyOrSecond == {-1, 1}
=============================================================================
