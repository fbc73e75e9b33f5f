---------------------------- MODULE CameraSelect ----------------------------
(***************************************************************************)
(* How a session gets its camera and gives it up: CameraSession's          *)
(* constructor, init(), validateConfig() and destructor, in                *)
(* src/camera_session.cpp.                                                 *)
(*                                                                         *)
(* A session is a process: the twincam of the initramfs still holds its    *)
(* camera while the one of the new root starts.  In each process           *)
(* libcamera's thread adds cameras to the list cm_->cameras() copies, and  *)
(* takes them from it, while init() walks that list by index, a fresh copy *)
(* for every look.                                                         *)
(***************************************************************************)
EXTENDS Integers, Sequences, FiniteSets, SequencesExt

CONSTANTS
  Sessions,    \* processes, each with one session
  Boot,        \* the cameras the system starts with, in libcamera's order
  Options,     \* values of opts.camera: an index, or -1 for any camera
  MaxChanges,  \* bound: cameras plugged or unplugged
  Denied,      \* bound: the sessions that may be refused a free camera
  None

Cameras == {Boot[k] : k \in DOMAIN Boot}

ASSUME CameraSelectAssumption ==
  /\ IsFiniteSet(Sessions)
  /\ Boot \in Seq(Cameras)
  /\ \A j, k \in DOMAIN Boot : Boot[j] = Boot[k] => j = k
  /\ Options \subseteq Int
  /\ MaxChanges \in Nat
  /\ Denied \subseteq Sessions
  /\ None \notin Cameras \union Sessions

VARIABLES
  option,   \* opts.camera of each process
  kind,     \* what a camera answers: "valid", "noConfig" or "invalid"
  list,     \* the cameras of each process's CameraManager
  owner,    \* the session that holds a camera, or None
  pc, i,    \* the step and the loop index of each init()
  camera_, config_,
  changes,  \* cameras plugged or unplugged so far
  shrunk,   \* sessions whose list lost a camera
  denied    \* history: sessions that were refused a camera that was free

walk == <<pc, i, camera_, config_>>
world == <<option, kind, changes, shrunk>>
vars == <<walk, world, list, owner, denied>>

Init ==
  /\ option \in [Sessions -> Options]
  /\ kind \in [Cameras -> {"valid", "noConfig", "invalid"}]
  /\ list = [s \in Sessions |-> Boot]
  /\ owner = [c \in Cameras |-> None]
  /\ pc = [s \in Sessions |-> "run"]
  /\ i = [s \in Sessions |-> 0]
  /\ camera_ = [s \in Sessions |-> None]
  /\ config_ = [s \in Sessions |-> None]
  /\ changes = 0
  /\ shrunk = {}
  /\ denied = {}

Goto(s, label) == pc' = [pc EXCEPT ![s] = label]

(* CamApp::run() does without a session when there is no camera. *)
Run(s) ==
  /\ pc[s] = "run"
  /\ Goto(s, IF list[s] = <<>> THEN "gone" ELSE "size")
  /\ UNCHANGED <<i, camera_, config_, world, list, owner, denied>>
-----------------------------------------------------------------------------
(* init(): the cameras in turn, or the one asked for. *)
Cursor(s) == IF option[s] < 0 THEN i[s] ELSE option[s]

(* Mutant of Size: the index may be the size. *)
SizeInclusive(s) ==
  /\ pc[s] = "size"
  /\ Goto(s, IF Cursor(s) <= Len(list[s]) THEN "index" ELSE "failed")
  /\ UNCHANGED <<i, camera_, config_, world, list, owner, denied>>

(* One look at the list: is there a camera at the index? *)
Size(s) ==
  /\ pc[s] = "size"
  /\ Goto(s, IF Cursor(s) < Len(list[s]) THEN "index" ELSE "failed")
  /\ UNCHANGED <<i, camera_, config_, world, list, owner, denied>>

(* Another look: the camera there.  An index that is too large by now is
   undefined behaviour, which the model does not follow. *)
Index(s) ==
  /\ pc[s] = "index"
  /\ IF Cursor(s) < Len(list[s])
     THEN /\ camera_' = [camera_ EXCEPT ![s] = list[s][Cursor(s) + 1]]
          /\ Goto(s, "acquire")
     ELSE Goto(s, "overrun") /\ UNCHANGED camera_
  /\ UNCHANGED <<i, config_, world, list, owner, denied>>

(* Mutant of Refused: a camera that does not do is tried again. *)
RefusedAgain(s) == Goto(s, "size") /\ UNCHANGED i

(* Mutant of Refused: the first camera that does not do ends the search. *)
RefusedForGood(s) == Goto(s, "failed") /\ UNCHANGED i

(* validateConfig() did not return 0. *)
Refused(s) ==
  IF option[s] < 0
  THEN Goto(s, "size") /\ i' = [i EXCEPT ![s] = @ + 1]
  ELSE Goto(s, "failed") /\ UNCHANGED i

(* Mutant of Acquire: what acquire() returns is ignored. *)
AcquireUnchecked(s) ==
  /\ pc[s] = "acquire"
  /\ LET c == camera_[s] IN
     owner' = IF owner[c] = None THEN [owner EXCEPT ![c] = s] ELSE owner
  /\ Goto(s, "generate")
  /\ UNCHANGED <<i, camera_, config_, world, list, denied>>

Free(s, c) == owner[c] = None /\ Contains(list[s], c)

(* Another process may hold the camera, or it may be unplugged, or libcamera
   cannot lock the devices behind it: then it stays in camera_, not
   acquired. *)
Acquire(s) ==
  /\ pc[s] = "acquire"
  /\ LET c == camera_[s] IN
     \/ /\ Free(s, c)
        /\ owner' = [owner EXCEPT ![c] = s]
        /\ Goto(s, "generate")
        /\ UNCHANGED <<i, denied>>
     \/ /\ ~Free(s, c)
        /\ Refused(s)
        /\ UNCHANGED <<owner, denied>>
     \/ /\ Free(s, c) /\ s \in Denied
        /\ denied' = denied \union {s}
        /\ Refused(s)
        /\ UNCHANGED owner
  /\ UNCHANGED <<camera_, config_, world, list>>

(* libcamera's release() of a camera this process does not hold does
   nothing. *)
Released(s) == [c \in Cameras |-> IF owner[c] = s THEN None ELSE owner[c]]

(* Mutant of GiveUp: the camera is dropped without being released. *)
GiveUpHeld(s) ==
  /\ camera_' = [camera_ EXCEPT ![s] = None]
  /\ Refused(s)
  /\ UNCHANGED <<owner, config_>>

(* A camera without a usable configuration is released and dropped. *)
GiveUp(s) ==
  /\ owner' = Released(s)
  /\ camera_' = [camera_ EXCEPT ![s] = None]
  /\ Refused(s)
  /\ UNCHANGED config_

GenerateConfiguration(s) ==
  /\ pc[s] = "generate"
  /\ IF kind[camera_[s]] = "noConfig"
     THEN GiveUp(s)
     ELSE Goto(s, "validate") /\ UNCHANGED <<i, camera_, config_, owner>>
  /\ UNCHANGED <<world, list, denied>>

Validate(s) ==
  /\ pc[s] = "validate"
  /\ IF kind[camera_[s]] = "invalid"
     THEN GiveUp(s)
     ELSE /\ config_' = [config_ EXCEPT ![s] = camera_[s]]
          /\ Goto(s, "ready")
          /\ UNCHANGED <<i, camera_, owner>>
  /\ UNCHANGED <<world, list, denied>>

(* run() returns, after the capture or because init() failed, and destroys
   the session. *)
Destroy(s) ==
  /\ pc[s] \in {"ready", "failed"}
  /\ owner' = Released(s)
  /\ camera_' = [camera_ EXCEPT ![s] = None]
  /\ config_' = [config_ EXCEPT ![s] = None]
  /\ Goto(s, "gone")
  /\ UNCHANGED <<i, world, list, denied>>
-----------------------------------------------------------------------------
(* libcamera's thread in the process of s. *)
Unplug(s, k) ==
  /\ changes < MaxChanges
  /\ k \in DOMAIN list[s]
  /\ list' = [list EXCEPT ![s] = RemoveAt(@, k)]
  /\ shrunk' = shrunk \union {s}
  /\ changes' = changes + 1
  /\ UNCHANGED <<option, kind, walk, owner, denied>>

Plug(s, c) ==
  /\ changes < MaxChanges
  /\ ~Contains(list[s], c)
  /\ list' = [list EXCEPT ![s] = Append(@, c)]
  /\ changes' = changes + 1
  /\ UNCHANGED <<option, kind, shrunk, walk, owner, denied>>

Select(s) ==
  \/ Size(s) \/ Index(s) \/ Acquire(s)
  \/ GenerateConfiguration(s) \/ Validate(s)

Done ==
  /\ \A s \in Sessions : pc[s] \in {"gone", "overrun"}
  /\ UNCHANGED vars

Next ==
  \/ \E s \in Sessions : Run(s) \/ Select(s) \/ Destroy(s)
  \/ \E s \in Sessions, k \in DOMAIN Boot : Unplug(s, k)
  \/ \E s \in Sessions, c \in Cameras : Plug(s, c)
  \/ Done

Spec == Init /\ [][Next]_vars

(* init() runs; how long a session lasts is up to its user. *)
FairSpec == Spec /\ \A s \in Sessions : WF_vars(Run(s) \/ Select(s))
-----------------------------------------------------------------------------
(* Every variable holds a value of its kind. *)
TypeOK ==
  /\ option \in [Sessions -> Options]
  /\ kind \in [Cameras -> {"valid", "noConfig", "invalid"}]
  /\ list \in [Sessions -> Seq(Cameras)]
  /\ owner \in [Cameras -> Sessions \union {None}]
  /\ pc \in [Sessions -> {"run", "size", "index", "acquire", "generate",
                          "validate", "ready", "failed", "overrun", "gone"}]
  /\ i \in [Sessions -> Nat]
  /\ camera_ \in [Sessions -> Cameras \union {None}]
  /\ \A s \in Sessions :
       pc[s] \in {"acquire", "generate", "validate"} => camera_[s] \in Cameras
  /\ config_ \in [Sessions -> Cameras \union {None}]
  /\ changes \in 0 .. MaxChanges
  /\ shrunk \subseteq Sessions
  /\ denied \subseteq Denied

(* A session holds at most one camera, the one in camera_, whose release
   its destructor can therefore not miss: none stays held by a session that
   failed or is gone, whatever it tried before (camera_session.cpp:43
   overwrites camera_, :74 and :90 reset it). *)
HoldsCurrent ==
  \A c \in Cameras, s \in Sessions :
    owner[c] = s => camera_[s] = c /\ pc[s] \in {"generate", "validate", "ready"}

(* The session that init() calls ready holds its camera, alone among all
   processes, and its configuration is that camera's. *)
ReadyHolds ==
  \A s \in Sessions :
    pc[s] = "ready" =>
      camera_[s] \in Cameras /\ owner[camera_[s]] = s /\ config_[s] = camera_[s]

(* Unless a camera is unplugged, init() reads no camera past the end of the
   list (camera_session.cpp:43 and :48 look twice). *)
IndexInRange == \A s \in Sessions : pc[s] = "overrun" => s \in shrunk

(* Asked for any camera, none being unplugged and libcamera denying it none
   that is free, init() fails only when the other processes may have held
   every camera that would do: the walk skips none, though they take and
   release cameras meanwhile. *)
FindsCamera ==
  \A s \in Sessions :
    pc[s] = "failed" /\ option[s] < 0 /\ s \notin shrunk \union denied =>
      Cardinality({c \in Cameras : kind[c] = "valid"}) < Cardinality(Sessions)

(* init() returns, with a camera or without, or overruns the list. *)
InitReturns ==
  \A s \in Sessions : pc[s] = "size" ~> pc[s] \in {"ready", "failed", "overrun"}
=============================================================================
