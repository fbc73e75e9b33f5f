--------------------------- MODULE CameraSession ---------------------------
(***************************************************************************)
(* The life of one capture session: CamApp::run() and CameraSession of     *)
(* src/twincam.cpp and src/camera_session.cpp, composed with the event     *)
(* loop and a frame sink: KMS, SDL or file.                                *)
(*                                                                         *)
(* Three actors share the requests.  The camera (libcamera's thread)       *)
(* completes the requests queued to it, first in first out, and defers     *)
(* each to the event loop.  The main thread starts the session, runs the   *)
(* loop and stops the session.  The display, for a KMS sink, flips.  A     *)
(* SIGINT may arrive between any two steps.                                *)
(***************************************************************************)
EXTENDS Integers, Sequences, FiniteSets

CONSTANTS
  NumBuffers,  \* the most buffers the allocator gives, one request each
  Sinks,       \* the kinds of sink the options may ask for: "kms", "sdl", "file"
  Faults,      \* the failures the run admits
  None

ASSUME CameraSessionAssumption ==
  /\ NumBuffers \in Nat \ {0}
  /\ Sinks \subseteq {"kms", "sdl", "file"}
  /\ None \notin 1 .. NumBuffers

Requests == 1 .. NumBuffers

VARIABLES
  calls_, arming, armed, events_, mainAt, call, break_,      \* EventLoop
  sinkAt, buffers_, pending_, queued_, active_,              \* KMSSink
  flip, scanout, events,
  live,                                                      \* SDLSink
  sink,       \* the kind of sink parse_args() makes, fixed by the options
  pc,         \* the step CamApp::run() is at
  ok,         \* start() has not failed
  nbuffers,   \* buffers the allocator gave
  created,    \* requests_: 1 .. created exist, with their buffers
  next,       \* the next request the loop of startCapture() queues
  camQueue,   \* requests queued to the camera, which is stopped otherwise
  lost,       \* requests libcamera cancelled or refused while capturing
  unstopped   \* history: camera_->stop() failed, the camera may still run

elVars == <<calls_, arming, armed, events_, mainAt, call, break_>>
kmsVars == <<sinkAt, buffers_, pending_, queued_, active_, flip, scanout, events>>
sinkVars == <<kmsVars, live>>
sessionVars == <<sink, pc, ok, nbuffers, created, next, camQueue, lost, unstopped>>
vars == <<elVars, sinkVars, sessionVars>>

EL == INSTANCE EventLoop WITH
        Threads <- {"camera"}, Calls <- Requests, Sources <- {"drm", "sdl"},
        MaxCalls <- NumBuffers

KMS == INSTANCE KMSSink

SDL == INSTANCE SDLSink WITH SDLFaults <- Faults

Init ==
  /\ EL!Init
  /\ KMS!Init
  /\ SDL!Init
  /\ sink \in Sinks
  /\ pc = "start" /\ ok = TRUE
  /\ nbuffers \in 1 .. NumBuffers
  /\ created = 0 /\ next = 1 /\ camQueue = <<>> /\ lost = {}
  /\ unstopped = FALSE

Goto(label) == pc' = label
Fail(label) == pc' = label /\ ok' = FALSE
-----------------------------------------------------------------------------
(* start() up to startCapture().  The constructor of KMSSink watches the
   DRM device, or dies of it; a sink that cannot be configured ends the
   session. *)
StartSession ==
  /\ pc = "start"
  /\ UNCHANGED <<sink, nbuffers, unstopped, created, next, camQueue, lost>>
  /\ \/ /\ sink = "kms"
        /\ EL!AddEvent("drm")
        /\ KMS!Configure
        /\ IF sinkAt' = "configured"
           THEN Goto("create") /\ UNCHANGED ok
           ELSE Fail("free")
        /\ UNCHANGED live
     \/ /\ sink = "kms" /\ EL!AddEventCrashes
        /\ Goto("crash")
        /\ UNCHANGED <<elVars, sinkVars, ok>>
     \/ /\ sink = "sdl"
        /\ SDL!Configure
        /\ IF SDL!Configured' THEN Goto("create") /\ UNCHANGED ok ELSE Fail("free")
        /\ UNCHANGED <<elVars, kmsVars>>
     \/ /\ sink = "file"
        /\ Goto("create")
        /\ UNCHANGED <<elVars, sinkVars, ok>>
     \/ /\ "start" \in Faults
        /\ Fail("free")
        /\ UNCHANGED <<elVars, sinkVars>>

(* One turn of the first loop of startCapture(): a request and its buffer,
   which the KMS sink imports and the others map.  The latter assert that
   it could be mapped. *)
CreateRequest ==
  /\ pc = "create"
  /\ created < nbuffers
  /\ UNCHANGED <<elVars, live, sink, nbuffers, unstopped, next, camQueue, lost>>
  /\ \/ /\ created' = created + 1
        /\ IF sink = "kms" THEN KMS!MapBuffer(created') ELSE UNCHANGED kmsVars
        /\ UNCHANGED <<pc, ok>>
     \/ /\ "map" \in Faults /\ sink # "kms"
        /\ Goto("abort")
        /\ UNCHANGED <<kmsVars, ok, created>>
     \/ /\ "start" \in Faults
        /\ Fail("free")
        /\ UNCHANGED <<kmsVars, created>>

(* sink_->start(), which only SDLSink has: it adds its timer last. *)
StartSink ==
  /\ pc = "create"
  /\ created = nbuffers
  /\ UNCHANGED <<sink, nbuffers, unstopped, created, next, camQueue, lost>>
  /\ IF sink = "kms" THEN KMS!Start ELSE UNCHANGED kmsVars
  /\ IF sink = "sdl" THEN SDL!Start ELSE UNCHANGED live
  /\ IF sink = "sdl" /\ ~SDL!Started'
     THEN Fail("free") /\ UNCHANGED elVars
     ELSE /\ UNCHANGED ok
          /\ \/ /\ Goto("startCamera")
                /\ IF sink = "sdl" THEN EL!AddEvent("sdl") ELSE UNCHANGED elVars
             \/ /\ sink = "sdl" /\ EL!AddEventCrashes
                /\ Goto("crash") /\ UNCHANGED elVars

StartCamera ==
  /\ pc = "startCamera"
  /\ \/ Goto("queue") /\ UNCHANGED ok
     \/ "start" \in Faults /\ Fail("stopSink")
  /\ UNCHANGED <<elVars, sinkVars, sink, nbuffers, unstopped, created, next, camQueue, lost>>

(* camera_->queueRequest(); only startCapture() looks at its result. *)
QueueRequest(r) ==
  \/ camQueue' = Append(camQueue, r) /\ UNCHANGED lost
  \/ "queue" \in Faults /\ lost' = lost \union {r} /\ UNCHANGED camQueue

(* One turn of the second loop: the camera may complete the first requests
   while the others are queued. *)
QueueNext ==
  /\ pc = "queue"
  /\ UNCHANGED <<elVars, sinkVars, sink, nbuffers, unstopped, created, lost>>
  /\ \/ /\ camQueue' = Append(camQueue, next)
        /\ next' = next + 1
        /\ Goto(IF next = created THEN "exec" ELSE "queue")
        /\ UNCHANGED ok
     \/ /\ "start" \in Faults
        /\ Fail("stopCamera")
        /\ UNCHANGED <<next, camQueue>>

Exec ==
  /\ pc = "exec"
  /\ EL!Exec
  /\ Goto("loop")
  /\ UNCHANGED <<sinkVars, ok, sink, nbuffers, unstopped, created, next, camQueue, lost>>
-----------------------------------------------------------------------------
(* The camera thread: requestComplete() hands the oldest request to
   callLater(), in two steps, or forgets it when it was cancelled. *)
CameraComplete ==
  /\ camQueue # <<>>
  /\ "camera" \notin arming
  /\ camQueue' = Tail(camQueue)
  /\ \/ EL!PushCallList("camera", Head(camQueue)) /\ UNCHANGED lost
     \/ /\ "cancel" \in Faults
        /\ lost' = lost \union {Head(camQueue)}
        /\ UNCHANGED elVars
  /\ UNCHANGED <<sinkVars, pc, ok, sink, nbuffers, unstopped, created, next>>

(* A camera that was not stopped completes a request that is freed by now:
   undefined behaviour, which goes unnoticed above and is a crash here. *)
CameraCrash ==
  /\ camQueue # <<>> /\ Head(camQueue) > created
  /\ Goto("crash")
  /\ UNCHANGED <<elVars, sinkVars, ok, sink, nbuffers, created, next, camQueue, lost, unstopped>>

CameraDeferred ==
  /\ EL!EventBaseOnce("camera")
  /\ UNCHANGED <<sinkVars, sessionVars>>

(* The loop pops the closure of one request ... *)
DispatchCall ==
  /\ EL!PopCallList
  /\ UNCHANGED <<sinkVars, sessionVars>>

(* Mutant of ProcessRequest: a request the sink keeps is queued again. *)
ProcessRequestRequeued ==
  /\ EL!InvokeCall
  /\ IF sink = "kms" /\ ~KMS!Dropped(call)
     THEN KMS!Accept(call) ELSE UNCHANGED kmsVars
  /\ QueueRequest(call)
  /\ UNCHANGED <<live, pc, ok, sink, nbuffers, unstopped, created, next>>

(* Mutant of ProcessRequest: a request the sink does not keep is forgotten. *)
ProcessRequestForgetful ==
  /\ EL!InvokeCall
  /\ IF sink = "kms" /\ ~KMS!Dropped(call)
     THEN KMS!Accept(call) ELSE UNCHANGED kmsVars
  /\ UNCHANGED <<live, pc, ok, sink, nbuffers, unstopped, created, next, camQueue, lost>>

(* ... and processRequest() runs: the sink may keep the request, otherwise
   it is queued again.  SDLSink and FileSink process synchronously. *)
ProcessRequest ==
  /\ EL!InvokeCall
  /\ \/ /\ sink = "kms" /\ KMS!Accept(call)
        /\ UNCHANGED <<camQueue, lost>>
     \/ /\ sink # "kms" \/ KMS!Dropped(call)
        /\ QueueRequest(call)
        /\ UNCHANGED kmsVars
  /\ UNCHANGED <<live, pc, ok, sink, nbuffers, unstopped, created, next>>

(* Mutant of PageFlip: sinkRelease() does not queue the request. *)
PageFlipForgetful ==
  /\ EL!MayDispatch("drm")
  /\ KMS!RequestComplete
  /\ UNCHANGED <<elVars, live, sessionVars>>

(* Mutant of PageFlip: the sink gives back the request just shown. *)
PageFlipEarly ==
  /\ EL!MayDispatch("drm")
  /\ KMS!RequestComplete
  /\ QueueRequest(queued_)
  /\ UNCHANGED <<elVars, live, pc, ok, sink, nbuffers, unstopped, created, next>>

(* The loop finds the device readable; sinkRelease() queues the request the
   sink gives back. *)
PageFlip ==
  /\ EL!MayDispatch("drm")
  /\ KMS!RequestComplete
  /\ IF active_ = None THEN UNCHANGED <<camQueue, lost>> ELSE QueueRequest(active_)
  /\ UNCHANGED <<elVars, live, pc, ok, sink, nbuffers, unstopped, created, next>>

Vblank == KMS!Vblank /\ UNCHANGED <<elVars, live, sessionVars>>

(* SIGINT, at any time, or the close button of the SDL window. *)
Interrupt == EL!Exit /\ UNCHANGED <<sinkVars, sessionVars>>

CloseWindow == EL!MayDispatch("sdl") /\ Interrupt

Return ==
  /\ EL!Return
  /\ Goto("stopCamera")
  /\ UNCHANGED <<sinkVars, ok, sink, nbuffers, unstopped, created, next, camQueue, lost>>
-----------------------------------------------------------------------------
(* Mutant of StopCamera: the camera is left running. *)
StopCameraMissing ==
  /\ pc = "stopCamera"
  /\ Goto("stopSink")
  /\ UNCHANGED <<elVars, sinkVars, ok, sink, nbuffers, unstopped, created, next, camQueue, lost>>

(* Mutant of StopCamera: it waits for the deferred calls to run. *)
StopCameraDrained ==
  /\ pc = "stopCamera"
  /\ arming = {} /\ calls_ = <<>>
  /\ camQueue' = <<>>
  /\ Goto("stopSink")
  /\ UNCHANGED <<elVars, sinkVars, ok, sink, nbuffers, unstopped, created, next, lost>>

(* camera_->stop() cancels what is queued and waits for the camera thread,
   so no handler of it is half done afterwards.  When it fails that is
   printed, or (camera_session.cpp:275) not even that, and the session goes
   on the same way, with a camera that may still run. *)
StopCamera ==
  /\ pc = "stopCamera"
  /\ \/ arming = {} /\ camQueue' = <<>> /\ UNCHANGED unstopped
     \/ "stop" \in Faults /\ unstopped' = TRUE /\ UNCHANGED camQueue
  /\ Goto("stopSink")
  /\ UNCHANGED <<elVars, sinkVars, ok, sink, nbuffers, created, next, lost>>

(* sink_->stop(), whose failure is only reported. *)
StopSink ==
  /\ pc = "stopSink"
  /\ IF sink = "kms" THEN KMS!Stop ELSE UNCHANGED kmsVars
  /\ IF sink = "sdl" THEN SDL!Stop ELSE UNCHANGED live
  /\ Goto(IF ok THEN "resetSink" ELSE "free")
  /\ UNCHANGED <<elVars, ok, sink, nbuffers, unstopped, created, next, camQueue, lost>>

(* stop() destroys the sink, then the requests and their buffers; after a
   failed start() the destructor of the session does it the other way
   round, the order of its members reversed. *)
ResetSink ==
  /\ pc = "resetSink"
  /\ KMS!Destroy
  /\ IF sink = "sdl" THEN SDL!Stop ELSE UNCHANGED live
  /\ Goto(IF ok THEN "free" ELSE "done")
  /\ UNCHANGED <<elVars, ok, sink, nbuffers, unstopped, created, next, camQueue, lost>>

FreeBuffers ==
  /\ pc = "free"
  /\ created' = 0
  /\ Goto(IF ok THEN "done" ELSE "resetSink")
  /\ UNCHANGED <<elVars, sinkVars, sink, ok, nbuffers, unstopped, next, camQueue, lost>>

Done == pc \in {"done", "abort", "crash"} /\ UNCHANGED vars
-----------------------------------------------------------------------------
Startup == StartSession \/ CreateRequest \/ StartSink \/ StartCamera
             \/ QueueNext \/ Exec
Capture == DispatchCall \/ ProcessRequest \/ PageFlip \/ CloseWindow \/ Return
Shutdown == StopCamera \/ StopSink \/ ResetSink \/ FreeBuffers
Camera == CameraComplete \/ CameraCrash \/ CameraDeferred

Next == Startup \/ Capture \/ Shutdown \/ Camera \/ Vblank \/ Interrupt \/ Done

Spec == Init /\ [][Next]_vars

(***************************************************************************)
(* The camera and the display keep working, and the main thread runs.      *)
(* libevent runs every active callback of a round before it polls again,   *)
(* so a readable device is not put off for ever by deferred calls: strong  *)
(* fairness, for DispatchCall leaves the loop's "poll" state.  Nothing     *)
(* makes an interrupt or a closed window happen.                           *)
(***************************************************************************)
Fairness ==
  /\ WF_vars(Startup)
  /\ WF_vars(DispatchCall)
  /\ WF_vars(ProcessRequest)
  /\ WF_vars(Return)
  /\ SF_vars(PageFlip)
  /\ WF_vars(Shutdown)
  /\ WF_vars(CameraComplete)
  /\ WF_vars(CameraDeferred)
  /\ WF_vars(Vblank)

FairSpec == Spec /\ Fairness
-----------------------------------------------------------------------------
InCamera(r) == \E k \in DOMAIN camQueue : camQueue[k] = r

(* The requests by owner: the camera, the deferred calls, the sink. *)
deferred == KMS!Cell(call) \o calls_
owned == camQueue \o deferred \o KMS!held

(* Every variable holds a value of its kind. *)
TypeOK ==
  /\ sink \in Sinks
  /\ EL!TypeOK
  /\ KMS!TypeOK
  /\ pc \in {"start", "create", "startCamera", "queue", "exec", "loop",
             "stopCamera", "stopSink", "resetSink", "free", "done", "abort",
             "crash"}
  /\ ok \in BOOLEAN
  /\ nbuffers \in 1 .. NumBuffers
  /\ created \in 0 .. nbuffers
  /\ next \in 1 .. NumBuffers + 1
  /\ camQueue \in Seq(Requests)
  /\ lost \subseteq Requests
  /\ unstopped \in BOOLEAN
  /\ live \subseteq {"texture", "sdl", "window", "renderer", "pixels"}

(* A request has at most one owner, whatever fails: it is never queued to
   the camera twice (camera_session.cpp:361 and :366), nor queued while a
   deferred call or the sink still refers to it. *)
SingleOwner ==
  \A i, j \in DOMAIN owned : owned[i] = owned[j] => i = j

(* The camera never writes into the buffer on the screen, or committed to
   be, after any failure: this is what requeue = false at
   camera_session.cpp:342 is for. *)
ScreenNotWritten == ~InCamera(flip) /\ ~InCamera(scanout)

(* Nothing uses a request or its buffer once it is freed: not the screen and
   no deferred call that still runs, whatever fails, and not the camera
   unless camera_->stop() itself failed, which camera_session.cpp:175 prints
   before :185 and :187 free what the camera may be filling. *)
BuffersAlive ==
  \A r \in Requests :
    /\ r \in {flip, scanout, call} => r <= created
    /\ InCamera(r) => r <= created \/ unstopped

(* Capture loses no request, except those libcamera cancels or refuses
   (camera_session.cpp:294, :361, :366 ignore both). *)
AllAccounted ==
  pc = "loop" =>
    \A r \in 1 .. created : r \in lost \/ \E k \in DOMAIN owned : owned[k] = r

(* Whatever step of SDLSink::start() fails, the end of the session leaves
   nothing of SDL behind (sdl_sink.cpp:121, called twice or once), and a
   frame is rendered only with the texture and the renderer in place. *)
SDLReleased ==
  /\ pc = "done" => live = {}
  /\ sink = "sdl" /\ call # None /\ mainAt = "call" => SDL!CanRender

(* Frames are shown in capture order, and a frame on the screen stays
   untouched until a newer one replaces it. *)
V == INSTANCE Viewfinder WITH flight <- KMS!held \o deferred, screen <- scanout

ShowsInOrder == V!Spec

(* What keeps deferred calls or the requests of the KMS sink waiting for
   ever: a lost wake-up, a device nobody reads, a commit that was refused. *)
CallStranded == Len(calls_) > armed + Cardinality(arming)

FlipNeverSeen ==
  /\ sink = "kms"
  /\ \/ "drm" \notin events_
     \/ queued_ # None /\ flip = None /\ events = <<>>

(* While the session runs each request returns to the camera: two buffers
   the sink could map are enough for capture never to stop
   (camera_session.cpp:226 asks for no minimum). *)
AllReturn ==
  \A r \in Requests :
    pc = "loop" /\ r <= created /\ ~InCamera(r) ~>
      \/ InCamera(r) \/ break_ \/ r \in lost
      \/ CallStranded \/ FlipNeverSeen
      \/ sink = "kms" /\ Cardinality(buffers_ \ lost) < 2

(* With four buffers capture goes on even when commits fail, buffers cannot
   be mapped or the device is not watched: the sink withholds at most
   three. *)
CaptureContinues ==
  pc = "loop" ~>
    \/ camQueue # <<>> \/ break_ \/ CallStranded
    \/ Cardinality((1 .. created) \ lost) < 4

(* The session gets to its loop, or through an interrupt, a closed window or
   a failed start to its end: nothing in between waits for ever.  A crash
   counts as an end. *)
SessionEnds ==
  pc # "loop" \/ break_ ~> pc \in {"done", "abort", "crash"} \/ (pc = "loop" /\ ~break_)

(* camera_session.cpp:282 tells the user "Capture until user interrupts by
   SIGINT": from then on an interrupt ends the session. *)
InterruptEnds == pc = "exec" /\ break_ ~> pc = "done"
=============================================================================
