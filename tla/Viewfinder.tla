----------------------------- MODULE Viewfinder -----------------------------
(***************************************************************************)
(* What a user may expect of the whole program: frames are shown in the    *)
(* order the camera captured them, never an older one after a newer one,   *)
(* and a frame that is on the screen is not overwritten by the camera.     *)
(***************************************************************************)
EXTENDS Integers, Sequences

CONSTANTS Requests, None

VARIABLES
  flight,    \* captured frames whose buffer the camera may not use, oldest first
  screen     \* the frame on the screen, or None

vars == <<flight, screen>>

InFlight(r) == \E k \in DOMAIN flight : flight[k] = r

Init == flight = <<>> /\ screen = None

Capture(r) == ~InFlight(r) /\ flight' = Append(flight, r) /\ UNCHANGED screen

(* A frame newer than the one on the screen replaces it. *)
Show(k) ==
  /\ \A j \in k .. Len(flight) : flight[j] # screen
  /\ screen' = flight[k]
  /\ UNCHANGED flight

(* A frame that is not on the screen goes back to the camera. *)
Return(k) ==
  /\ flight[k] # screen
  /\ flight' = SubSeq(flight, 1, k - 1) \o SubSeq(flight, k + 1, Len(flight))
  /\ UNCHANGED screen

(* The screen is turned off, and the oldest frames let go with it. *)
Off ==
  /\ screen' = None
  /\ \E k \in 0 .. Len(flight) : flight' = SubSeq(flight, k + 1, Len(flight))

Next ==
  \/ \E r \in Requests : Capture(r)
  \/ \E k \in DOMAIN flight : Show(k) \/ Return(k)
  \/ Off

Spec == Init /\ [][Next]_vars
=============================================================================
