-------------------------- MODULE MCCameraSession --------------------------
(***************************************************************************)
(* The sets of failures the runs of CameraSession admit.                   *)
(***************************************************************************)
EXTENDS CameraSession

(***************************************************************************)
(* A user who waits for the message of camera_session.cpp:282, printed     *)
(* when pc becomes "exec", before pressing Ctrl-C.                         *)
(***************************************************************************)
PatientNext == Next /\ (~break_ /\ break_' => pc \in {"exec", "loop"})

PatientSpec == Init /\ [][PatientNext]_vars /\ Fairness

KMSOnly == {"kms"}
AllSinks == {"kms", "sdl", "file"}
NoFaults == {}
AllFaults == {"start", "configure", "map", "commit", "stopCommit",
              "once", "event", "queue", "cancel", "stop"}
=============================================================================
