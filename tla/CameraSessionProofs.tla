------------------------ MODULE CameraSessionProofs ------------------------
(***************************************************************************)
(* Safety of CameraSession for any number of buffers, any sink and any set *)
(* of failures, and that it implements Viewfinder.                         *)
(*                                                                         *)
(* A request is always at one place: libcamera's queue, the loop's list of *)
(* deferred calls, dispatchCall(), or a cell of the sink.  SingleOwner     *)
(* alone is not inductive: a request may only move on if the step that     *)
(* takes it finds it at one place, if the sink is started, commits and     *)
(* stops when it expects to, and if stop() leaves nothing behind.  OInv    *)
(* says so of the session, and the invariant of KMSSinkProofs, which the   *)
(* session's steps are shown to keep, of the sink.                         *)
(***************************************************************************)
EXTENDS CameraSession, FiniteSetTheorems, SequenceTheorems, TLAPS

Sink == INSTANCE KMSSinkProofs
Deferring == INSTANCE EventLoopProofs WITH
               Threads <- {"camera"}, Calls <- Requests, Sources <- {"drm", "sdl"},
               MaxCalls <- NumBuffers

(* r is in s; no element of s is there twice. *)
In(s, r) == \E k \in DOMAIN s : s[k] = r
Distinct(s) == \A j, k \in DOMAIN s : s[j] = s[k] => j = k

(* Who has r: the list of deferred calls, or anybody. *)
InCalls(r) == In(calls_, r)
Known(r) == InCamera(r) \/ InCalls(r) \/ r = call \/ KMS!Hold(r)

(* One owner for each request: the camera, the list, dispatchCall(), the sink. *)
Apart ==
  /\ Distinct(camQueue) /\ Distinct(calls_)
  /\ \A r \in Requests :
       /\ InCamera(r) => ~InCalls(r) /\ r # call /\ ~KMS!Hold(r)
       /\ InCalls(r) => r # call /\ ~KMS!Hold(r)
       /\ r = call => ~KMS!Hold(r)

(* The loop runs, and calls back, only while exec() does, which nothing fails before. *)
Loop ==
  /\ mainAt = "out" <=> pc # "loop"
  /\ call # None => mainAt = "call"
  /\ pc \in {"start", "create", "startCamera", "queue", "exec", "loop"} => ok

(* Where startSession() and stopCapture() are: nothing queued; the sink in use;
   the camera started. *)
Starting == {"start", "create", "startCamera"}
Using == {"startCamera", "queue", "exec", "loop", "stopCamera", "stopSink"}
Capturing == {"queue", "exec", "loop", "stopCamera"}

(* The sink is used as it expects to be. *)
SinkSteps ==
  /\ pc = "start" => sinkAt = "new"
  /\ pc = "create" => sinkAt = IF sink = "kms" THEN "configured" ELSE "new"
  /\ pc \in Using => sinkAt = IF sink = "kms" THEN "started" ELSE "new"
  /\ pc = "resetSink" \/ (pc = "free" /\ ~ok) => sinkAt \in {"new", "configured", "stopped"}

(* The sink holds nothing and shows nothing. *)
Quiet ==
  /\ pending_ = None /\ queued_ = None /\ active_ = None
  /\ flip = None /\ scanout = None

Showing == ok /\ pc \in {"loop", "stopCamera", "stopSink", "resetSink"}

(* Frames are in the sink only from exec() on, until stop() or the destructor. *)
QuietOK == Quiet \/ Showing

(* Requests are queued in order, once created, and only to a camera that runs,
   which has them afterwards only if camera_->stop() failed. *)
CreatedOK ==
  /\ pc \in Starting => next = 1 /\ calls_ = <<>> /\ arming = {}
  /\ pc \in Using => created = nbuffers
  /\ pc = "queue" => next <= created
  /\ camQueue # <<>> => pc \in Capturing \/ unstopped
  /\ unstopped => pc \in {"stopSink", "resetSink", "free", "done", "crash"}
  /\ pc \in {"stopSink", "free"} \/ (pc = "resetSink" /\ ok) =>
       \A r \in Requests : InCamera(r) => r <= created
  /\ pc = "queue" => \A r \in Requests : Known(r) => r < next
  /\ pc \in {"exec", "loop", "stopCamera"} => \A r \in Requests : Known(r) => r <= created
  /\ pc \in {"stopSink", "resetSink"} /\ ok => \A r \in Requests : KMS!Hold(r) => r <= created

(* While the loop runs a request is somewhere, unless queueRequest() refused it. *)
Kept ==
  /\ pc = "queue" => \A r \in 1 .. next - 1 : r \in lost \/ Known(r)
  /\ pc \in {"exec", "loop"} => \A r \in 1 .. created : r \in lost \/ Known(r)

(* What the SDL sink opened is there while frames can come, and gone at the end. *)
LiveOK ==
  /\ sink # "sdl" => live = {}
  /\ sink = "sdl" /\ pc \in {"startCamera", "queue", "exec", "loop"} => SDL!CanRender
  /\ pc = "done" \/ (pc = "free" /\ ok) => live = {}

OInv == TypeOK /\ Apart /\ Loop /\ SinkSteps /\ QuietOK /\ CreatedOK /\ Kept /\ LiveOK
IInv == Sink!IInv /\ OInv

LEMMA NoRequest == None \notin Requests
BY CameraSessionAssumption DEF Requests
-----------------------------------------------------------------------------
(* What is in a sequence that is built, and that nothing in it is there twice. *)
LEMMA InSeq ==
  ASSUME NEW S, NEW s \in Seq(S)
  PROVE  \A r : In(s, r) => r \in S
BY DEF In

LEMMA InEmpty == Distinct(<<>>) /\ \A r : ~In(<<>>, r)
BY DEF In, Distinct

LEMMA InAppend ==
  ASSUME NEW S, NEW s \in Seq(S), NEW e \in S
  PROVE  /\ Append(s, e) \in Seq(S)
         /\ \A r : In(Append(s, e), r) <=> In(s, r) \/ r = e
         /\ Distinct(s) /\ ~In(s, e) => Distinct(Append(s, e))
<1> DEFINE t == Append(s, e)
<1>1. /\ t \in Seq(S) /\ Len(s) \in Nat /\ DOMAIN s = 1 .. Len(s)
      /\ DOMAIN t = 1 .. Len(s) + 1 /\ t[Len(s) + 1] = e
      /\ \A k \in 1 .. Len(s) : t[k] = s[k]
  OBVIOUS
<1> HIDE DEF t
<1>2. \A k \in DOMAIN t : (k \in DOMAIN s /\ t[k] = s[k]) \/ (k = Len(s) + 1 /\ t[k] = e)
  BY <1>1
<1>3. \A k \in DOMAIN s : k \in DOMAIN t /\ t[k] = s[k]
  BY <1>1
<1>4. Len(s) + 1 \in DOMAIN t
  BY <1>1
<1>5. \A r : In(t, r) <=> In(s, r) \/ r = e
  BY <1>1, <1>2, <1>3, <1>4 DEF In
<1>6. Distinct(s) /\ ~In(s, e) => Distinct(t)
  BY <1>2 DEF In, Distinct
<1> QED
  BY <1>1, <1>5, <1>6 DEF t

LEMMA InTail ==
  ASSUME NEW S, NEW s \in Seq(S), s # <<>>, Distinct(s)
  PROVE  /\ Head(s) \in S /\ Tail(s) \in Seq(S) /\ In(s, Head(s))
         /\ Distinct(Tail(s))
         /\ \A r : In(Tail(s), r) <=> In(s, r) /\ r # Head(s)
<1> DEFINE t == Tail(s)
<1>1. /\ t \in Seq(S) /\ Head(s) = s[1] /\ s[1] \in S
      /\ Len(s) \in Nat \ {0} /\ DOMAIN s = 1 .. Len(s) /\ DOMAIN t = 1 .. Len(s) - 1
      /\ \A k \in DOMAIN t : t[k] = s[k + 1]
  OBVIOUS
<1> HIDE DEF t
<1>2. 1 \in DOMAIN s /\ \A k \in DOMAIN t : k \in Nat /\ k + 1 \in DOMAIN s /\ k + 1 # 1
  BY <1>1
<1>3. \A k \in DOMAIN s : k = 1 \/ (k - 1 \in DOMAIN t /\ t[k - 1] = s[k])
  <2> TAKE k \in DOMAIN s
  <2>1. k \in Nat /\ (k = 1 \/ k - 1 \in DOMAIN t) /\ (k - 1) + 1 = k
    BY <1>1
  <2> QED
    BY <1>1, <2>1
<1>4. In(s, Head(s))
  BY <1>1, <1>2 DEF In
<1>5. Distinct(t)
  <2> SUFFICES ASSUME NEW j \in DOMAIN t, NEW k \in DOMAIN t, t[j] = t[k]
               PROVE  j = k
    BY DEF Distinct
  <2>1. j + 1 = k + 1
    BY <1>1, <1>2 DEF Distinct
  <2> QED
    BY <1>2, <2>1
<1>6. ASSUME NEW r PROVE In(t, r) <=> In(s, r) /\ r # Head(s)
  <2>1. In(t, r) => In(s, r) /\ r # Head(s)
    BY <1>1, <1>2 DEF In, Distinct
  <2>2. In(s, r) /\ r # Head(s) => In(t, r)
    BY <1>1, <1>3 DEF In
  <2> QED
    BY <2>1, <2>2
<1> QED
  BY <1>1, <1>4, <1>5, <1>6 DEF t
-----------------------------------------------------------------------------
(* At the start nobody has a request. *)
LEMMA InitIInv == Init => IInv
<1> SUFFICES ASSUME Init PROVE IInv
  OBVIOUS
<1>1. Sink!IInv
  BY NoRequest, Sink!InitIInv DEF Init, KMS!Init, Sink!Init
<1>2. TypeOK
  <2>1. EL!TypeOK
    <3>1. calls_ \in Seq(Requests)
      BY DEF Init, EL!Init
    <3> QED
      BY <3>1 DEF Init, EL!Init, EL!TypeOK, EL!MainAt
  <2>2. KMS!TypeOK
    BY <1>1 DEF Sink!IInv, Sink!TypeOK, KMS!TypeOK, Sink!MaybeRequest, KMS!MaybeRequest
  <2>3. camQueue \in Seq(Requests)
    BY DEF Init
  <2>4. unstopped \in BOOLEAN /\ ok \in BOOLEAN
    BY DEF Init
  <2> QED
    BY <2>1, <2>2, <2>3, <2>4, CameraSessionAssumption DEF Init, TypeOK, SDL!Init
<1>3. OInv
  BY <1>2, NoRequest, InEmpty
  DEF OInv, Init, EL!Init, KMS!Init, SDL!Init, Apart, InCamera, InCalls, In, KMS!Hold, Loop,
      SinkSteps, QuietOK, Quiet, CreatedOK, Kept, LiveOK, Using, Capturing, Starting, SDL!CanRender
<1> QED
  BY <1>1, <1>3 DEF IInv

(* Every step of the session is one the sink by itself admits. *)
LEMMA SinkStep == IInv /\ [Next]_vars => [Sink!Next]_(Sink!vars)
<1> SUFFICES ASSUME IInv, [Next]_vars PROVE Sink!Next \/ UNCHANGED kmsVars
  BY DEF Sink!vars, Sink!cells, Sink!kernel, kmsVars
<1>s. OInv
  BY DEF IInv
<1>1. CASE StartSession
  BY <1>1 DEF StartSession, sinkVars, KMS!Configure, Sink!Next, Sink!Configure,
     KMS!cells, KMS!kernel, Sink!cells, Sink!kernel
<1>2. CASE CreateRequest
  <2>1. created + 1 \in Requests
    BY <1>2, <1>s, CameraSessionAssumption DEF CreateRequest, OInv, TypeOK, Requests
  <2> QED
    BY <1>2, <2>1 DEF CreateRequest, KMS!MapBuffer, Sink!MapBuffer, Sink!Next,
       KMS!cells, KMS!kernel, Sink!cells, Sink!kernel
<1>3. CASE StartSink
  BY <1>3 DEF StartSink, KMS!Start, Sink!Start, Sink!Next,
     KMS!cells, KMS!kernel, Sink!cells, Sink!kernel
<1>4. CASE StartCamera \/ QueueNext \/ Exec \/ Return \/ CameraComplete \/ CameraCrash \/ CameraDeferred
            \/ DispatchCall \/ Interrupt \/ CloseWindow \/ StopCamera \/ FreeBuffers \/ Done
            \/ UNCHANGED vars
  BY <1>4 DEF StartCamera, QueueNext, Exec, Return, CameraComplete, CameraCrash, CameraDeferred,
     DispatchCall, Interrupt, CloseWindow, StopCamera, FreeBuffers, Done, vars, sinkVars
<1>5. CASE ProcessRequest
  <2>1. CASE UNCHANGED kmsVars
    BY <2>1
  <2>2. CASE KMS!Accept(call)
    <3>1. call \in Requests /\ ~Sink!Hold(call)
      BY <1>5, <1>s DEF ProcessRequest, EL!InvokeCall, OInv, TypeOK, EL!TypeOK, Apart,
         KMS!Hold, Sink!Hold
    <3>2. Sink!Accept(call)
      BY <2>2 DEF KMS!Accept, Sink!Accept, KMS!Commit, Sink!Commit, KMS!Dropped, Sink!Dropped
    <3> QED
      BY <3>1, <3>2 DEF Sink!Next
  <2> QED
    BY <1>5, <2>1, <2>2 DEF ProcessRequest
<1>6. CASE PageFlip
  <2>1. sinkAt # "stopped"
    BY <1>6, <1>s DEF PageFlip, EL!MayDispatch, OInv, Loop, SinkSteps, Using
  <2> QED
    BY <1>6, <2>1 DEF PageFlip, KMS!RequestComplete, Sink!RequestComplete, Sink!Next,
       KMS!Commit, Sink!Commit
<1>7. CASE StopSink
  BY <1>7 DEF StopSink, KMS!Stop, Sink!Stop, Sink!Next,
     KMS!cells, KMS!kernel, Sink!cells, Sink!kernel
<1>8. CASE ResetSink
  BY <1>8, <1>s DEF ResetSink, KMS!Destroy, Sink!Destroy, Sink!Next, OInv, SinkSteps
<1>9. CASE Vblank
  BY <1>9 DEF Vblank, KMS!Vblank, Sink!Vblank, Sink!Next, KMS!cells, Sink!cells
<1> QED
  BY <1>1, <1>2, <1>3, <1>4, <1>5, <1>6, <1>7, <1>8, <1>9
  DEF Next, Startup, Capture, Shutdown, Camera

LEMMA SinkIInv == IInv /\ [Next]_vars => Sink!IInv'
BY SinkStep, NoRequest, Sink!NextIInv DEF IInv
-----------------------------------------------------------------------------
(* Every step of the session is one the event loop by itself admits. *)
LEMMA LoopStep == IInv /\ [Next]_vars => EL!TypeOK'
<1> SUFFICES ASSUME IInv, [Next]_vars PROVE EL!TypeOK'
  OBVIOUS
<1>s. /\ EL!TypeOK /\ camQueue \in Seq(Requests)
      /\ calls_ \in Seq(Requests)
  BY DEF IInv, OInv, TypeOK, EL!TypeOK
<1>1. CASE UNCHANGED elVars
  BY <1>1, <1>s DEF elVars, EL!TypeOK
<1>2. ASSUME NEW x \in {"drm", "sdl"}, EL!AddEvent(x) PROVE EL!TypeOK'
  BY <1>2, <1>s DEF EL!AddEvent, EL!TypeOK
<1>3. CASE EL!Exec \/ EL!Exit \/ EL!Return \/ EL!InvokeCall
  BY <1>3, <1>s DEF EL!Exec, EL!Exit, EL!Return, EL!InvokeCall, EL!TypeOK, EL!MainAt
<1>4. CASE camQueue # <<>> /\ EL!PushCallList("camera", Head(camQueue))
  <2>1. Append(calls_, Head(camQueue)) \in Seq(Requests)
    BY <1>s, <1>4
  <2> QED
    BY <1>4, <2>1, <1>s DEF EL!PushCallList, EL!TypeOK
<1>5. CASE EL!EventBaseOnce("camera")
  BY <1>5, <1>s DEF EL!EventBaseOnce, EL!TypeOK
<1>6. CASE EL!PopCallList
  <2>1. calls_ # <<>> => Tail(calls_) \in Seq(Requests) /\ Head(calls_) \in Requests
    BY <1>s
  <2>2. /\ mainAt' = "call" /\ armed' = armed - 1 /\ armed > 0
        /\ UNCHANGED <<arming, events_, break_>>
    BY <1>6 DEF EL!PopCallList
  <2>3. armed' \in Nat
    BY <1>s, <2>2 DEF EL!TypeOK
  <2>4. calls_' \in Seq(Requests) /\ call' \in Requests \union {None}
    BY <1>6, <2>1, <1>s DEF EL!PopCallList, EL!TypeOK
  <2> QED
    BY <1>s, <2>2, <2>3, <2>4 DEF EL!TypeOK, EL!MainAt
<1> QED
  BY <1>1, <1>2, <1>3, <1>4, <1>5, <1>6
  DEF Next, Startup, Capture, Shutdown, Camera, StartSession, CreateRequest, StartSink,
      StartCamera, QueueNext, Exec, DispatchCall, ProcessRequest, PageFlip, CloseWindow,
      Return, StopCamera, StopSink, ResetSink, FreeBuffers, CameraComplete, CameraCrash, CameraDeferred,
      Vblank, Interrupt, Done, vars

(* Every step keeps the types. *)
LEMMA QueueRequestType ==
  ASSUME NEW r \in Requests, camQueue \in Seq(Requests), lost \subseteq Requests, QueueRequest(r)
  PROVE  camQueue' \in Seq(Requests) /\ lost' \subseteq Requests
BY DEF QueueRequest

LEMMA StepTypeOK == IInv /\ [Next]_vars => TypeOK'
<1> SUFFICES ASSUME IInv, [Next]_vars PROVE TypeOK'
  OBVIOUS
<1>1. EL!TypeOK' /\ KMS!TypeOK'
  <2>1. Sink!TypeOK'
    BY SinkIInv DEF Sink!IInv
  <2> QED
    BY <2>1, LoopStep DEF Sink!TypeOK, KMS!TypeOK, Sink!MaybeRequest, KMS!MaybeRequest
<1>s. /\ TypeOK /\ KMS!TypeOK /\ EL!TypeOK /\ CreatedOK
      /\ NumBuffers \in Nat /\ None \notin Requests
  BY CameraSessionAssumption, NoRequest DEF IInv, OInv, TypeOK
<1>2. sink' \in Sinks /\ nbuffers' \in 1 .. NumBuffers /\ unstopped' \in BOOLEAN
  BY <1>s
  DEF TypeOK, Next, Startup, Capture, Shutdown, Camera, StartSession, CreateRequest, StartSink,
      StartCamera, QueueNext, Exec, DispatchCall, ProcessRequest, PageFlip, CloseWindow,
      Return, StopCamera, StopSink, ResetSink, FreeBuffers, CameraComplete, CameraCrash, CameraDeferred,
      Vblank, Interrupt, Done, vars, sessionVars
<1>3. /\ pc' \in {"start", "create", "startCamera", "queue", "exec", "loop",
                  "stopCamera", "stopSink", "resetSink", "free", "done", "abort", "crash"}
      /\ ok' \in BOOLEAN
  BY <1>s
  DEF TypeOK, Goto, Fail, Next, Startup, Capture, Shutdown, Camera, StartSession, CreateRequest,
      StartSink, StartCamera, QueueNext, Exec, DispatchCall, ProcessRequest, PageFlip, CloseWindow,
      Return, StopCamera, StopSink, ResetSink, FreeBuffers, CameraComplete, CameraCrash, CameraDeferred,
      Vblank, Interrupt, Done, vars, sessionVars
<1>4. created' \in 0 .. nbuffers' /\ next' \in 1 .. NumBuffers + 1
  <2>1. CASE CreateRequest
    BY <2>1, <1>s DEF CreateRequest, TypeOK
  <2>2. CASE QueueNext
    BY <2>2, <1>s DEF QueueNext, TypeOK, CreatedOK
  <2>3. CASE FreeBuffers
    BY <2>3, <1>s DEF FreeBuffers, TypeOK
  <2>4. CASE UNCHANGED <<created, nbuffers, next>>
    BY <2>4, <1>s DEF TypeOK
  <2> QED
    BY <2>1, <2>2, <2>3, <2>4
    DEF Next, Startup, Capture, Shutdown, Camera, StartSession, StartSink, StartCamera,
      Exec, DispatchCall, ProcessRequest, PageFlip, CloseWindow, Return, StopCamera, StopSink,
      ResetSink, CameraComplete, CameraCrash, CameraDeferred, Vblank, Interrupt, Done, vars, sessionVars
<1>5. camQueue' \in Seq(Requests) /\ lost' \subseteq Requests
  <2>1. CASE QueueNext
    <3>1. next \in Requests
      BY <2>1, <1>s DEF QueueNext, TypeOK, CreatedOK, Requests
    <3>2. Append(camQueue, next) \in Seq(Requests)
      BY <3>1, <1>s DEF TypeOK
    <3> QED
      BY <2>1, <3>2, <1>s DEF QueueNext, TypeOK
  <2>2. CASE CameraComplete
    <3>1. Tail(camQueue) \in Seq(Requests) /\ Head(camQueue) \in Requests
      BY <2>2, <1>s DEF CameraComplete, TypeOK
    <3> QED
      BY <2>2, <3>1, <1>s DEF CameraComplete, TypeOK
  <2>3. CASE ProcessRequest
    <3>1. call \in Requests
      BY <2>3, <1>s DEF ProcessRequest, EL!InvokeCall, EL!TypeOK
    <3> QED
      BY <2>3, <3>1, <1>s, QueueRequestType DEF ProcessRequest, TypeOK
  <2>4. CASE PageFlip
    <3>1. active_ # None => active_ \in Requests
      BY <1>s DEF KMS!TypeOK, KMS!MaybeRequest
    <3> QED
      BY <2>4, <3>1, <1>s, QueueRequestType DEF PageFlip, TypeOK
  <2>5. CASE StopCamera
    <3>1. camQueue' \in {<<>>, camQueue} /\ UNCHANGED lost
      BY <2>5 DEF StopCamera
    <3>2. <<>> \in Seq(Requests) /\ camQueue \in Seq(Requests) /\ lost \subseteq Requests
      BY <1>s DEF TypeOK
    <3> QED
      BY <3>1, <3>2
  <2>6. CASE UNCHANGED <<camQueue, lost>>
    BY <2>6, <1>s DEF TypeOK
  <2> QED
    BY <2>1, <2>2, <2>3, <2>4, <2>5, <2>6
    DEF Next, Startup, Capture, Shutdown, Camera, StartSession, CreateRequest, StartSink,
      StartCamera, Exec, DispatchCall, CloseWindow, Return, StopSink, ResetSink, FreeBuffers,
      CameraCrash, CameraDeferred, Vblank, Interrupt, Done, vars, sessionVars
<1>6. live' \subseteq {"texture", "sdl", "window", "renderer", "pixels"}
  BY <1>s
  DEF TypeOK, Next, Startup, Capture, Shutdown, Camera, StartSession, CreateRequest, StartSink,
      StartCamera, QueueNext, Exec, DispatchCall, ProcessRequest, PageFlip, CloseWindow,
      Return, StopCamera, StopSink, ResetSink, FreeBuffers, CameraComplete, CameraCrash, CameraDeferred,
      Vblank, Interrupt, Done, vars, sinkVars, SDL!Configure, SDL!Start, SDL!Stop
<1> QED
  BY <1>1, <1>2, <1>3, <1>4, <1>5, <1>6 DEF TypeOK
-----------------------------------------------------------------------------
(* What says who has a request. *)
owners == <<camQueue, calls_, call, KMS!cells>>

(* Steps that leave it alone leave every request where it is. *)
LEMMA SameOwners ==
  ASSUME UNCHANGED owners
  PROVE  /\ Apart => Apart'
         /\ \A r : Known(r)' <=> Known(r)
         /\ \A r : KMS!Hold(r)' <=> KMS!Hold(r)
BY DEF owners, KMS!cells, Apart, Known, InCamera, InCalls, KMS!Hold

(* Before anything is queued no request is anywhere. *)
LEMMA NobodyKnown ==
  ASSUME IInv, pc \in Starting
  PROVE  \A r \in Requests : ~Known(r)
<1>1. calls_ = <<>> /\ camQueue = <<>> /\ call = None /\ Quiet
  BY DEF IInv, OInv, CreatedOK, Starting, Capturing, Loop, QuietOK, Showing
<1> QED
  BY <1>1, NoRequest DEF Known, InCamera, InCalls, In, KMS!Hold, Quiet

(* Steps that give no request to anybody. *)
LEMMA StartupOInv ==
  ASSUME IInv, TypeOK', StartSession \/ CreateRequest \/ StartSink \/ StartCamera \/ Exec
  PROVE  OInv'
<1>s. TypeOK /\ Apart /\ Loop /\ SinkSteps /\ QuietOK /\ CreatedOK /\ Kept /\ LiveOK /\ None \notin Requests
  BY NoRequest DEF IInv, OInv
<1>0. UNCHANGED owners /\ UNCHANGED <<flip, scanout>> /\ ~unstopped /\ ~unstopped'
  BY <1>s DEF CreatedOK, StartSession, CreateRequest, StartSink, StartCamera, Exec, owners, elVars, kmsVars, sinkVars,
     EL!AddEvent, EL!Exec, KMS!Configure, KMS!MapBuffer, KMS!Start, KMS!cells, KMS!kernel
<1>1. Apart' /\ \A r : (Known(r)' <=> Known(r)) /\ (KMS!Hold(r)' <=> KMS!Hold(r))
  BY <1>0, <1>s, SameOwners
<1>c. camQueue' = <<>> \/ Exec
  BY <1>0, <1>s DEF CreatedOK, Capturing, owners, StartSession, CreateRequest, StartSink, StartCamera
<1>k. ASSUME \A r \in Requests : ~Known(r)'
      PROVE  \A r \in Requests : ~InCamera(r)' /\ ~KMS!Hold(r)'
  BY <1>k DEF Known
<1>2. QuietOK'
  <2>1. Quiet'
    BY <1>0, <1>s DEF QuietOK, Quiet, Showing, owners, KMS!cells,
       StartSession, CreateRequest, StartSink, StartCamera, Exec
  <2> QED
    BY <2>1 DEF QuietOK
<1>3. CASE StartSession
  <2>1. \A r \in Requests : ~Known(r)'
    BY <1>1, <1>3, NobodyKnown DEF StartSession, Starting
  <2>2. Loop' /\ SinkSteps' /\ LiveOK'
    BY <1>3, <1>s DEF StartSession, Loop, SinkSteps, LiveOK, Using, Goto, Fail, EL!AddEvent,
       elVars, kmsVars, sinkVars, KMS!Configure, SDL!Configure
  <2>3. CreatedOK' /\ Kept'
    BY <1>3, <1>s, <1>0, <1>c, <1>k, <2>1 DEF StartSession, CreatedOK, Kept, Using, Starting, Capturing, Goto, Fail,
       EL!AddEvent, elVars, owners
  <2> QED
    BY <1>1, <1>2, <2>2, <2>3 DEF OInv
<1>4. CASE CreateRequest
  <2>1. \A r \in Requests : ~Known(r)'
    BY <1>1, <1>4, NobodyKnown DEF CreateRequest, Starting
  <2>2. Loop' /\ SinkSteps' /\ LiveOK'
    BY <1>4, <1>s DEF CreateRequest, Loop, SinkSteps, LiveOK, Using, Goto, Fail,
       elVars, kmsVars, KMS!MapBuffer
  <2>3. CreatedOK' /\ Kept'
    BY <1>4, <1>s, <1>0, <1>c, <1>k, <2>1 DEF CreateRequest, CreatedOK, Kept, Using, Starting, Capturing, Goto, Fail,
       elVars, owners
  <2> QED
    BY <1>1, <1>2, <2>2, <2>3 DEF OInv
<1>5. CASE StartSink
  <2>1. \A r \in Requests : ~Known(r)'
    BY <1>1, <1>5, NobodyKnown DEF StartSink, Starting
  <2>2. Loop' /\ SinkSteps' /\ LiveOK'
    BY <1>5, <1>s DEF StartSink, Loop, SinkSteps, LiveOK, Using, Goto, Fail, EL!AddEvent,
       elVars, kmsVars, KMS!Start, SDL!Start, SDL!Started, SDL!CanRender
  <2>3. CreatedOK' /\ Kept'
    BY <1>5, <1>s, <1>0, <1>c, <1>k, <2>1 DEF StartSink, CreatedOK, Kept, Using, Starting, Capturing, Goto, Fail,
       EL!AddEvent, elVars, owners
  <2> QED
    BY <1>1, <1>2, <2>2, <2>3 DEF OInv
<1>6. CASE StartCamera
  <2>1. \A r \in Requests : ~Known(r)'
    BY <1>1, <1>6, NobodyKnown DEF StartCamera, Starting
  <2>2. Loop' /\ SinkSteps' /\ LiveOK'
    BY <1>6, <1>s DEF StartCamera, Loop, SinkSteps, LiveOK, Using, Goto, Fail, elVars, sinkVars, kmsVars,
       SDL!CanRender
  <2>3. CreatedOK' /\ Kept'
    <3>1. nbuffers \in Nat \ {0} /\ next = 1 /\ created = nbuffers
      BY <1>6, <1>s DEF StartCamera, TypeOK, CreatedOK, Starting, Using
    <3> QED
      BY <1>6, <1>s, <1>0, <2>1, <3>1 DEF StartCamera, CreatedOK, Kept, Using, Starting, Capturing,
         Goto, Fail, elVars, owners, Known, TypeOK
  <2> QED
    BY <1>1, <1>2, <2>2, <2>3 DEF OInv
<1>7. CASE Exec
  <2>2. Loop' /\ SinkSteps' /\ LiveOK'
    BY <1>7, <1>s DEF Exec, EL!Exec, Loop, SinkSteps, LiveOK, Using, Goto, Fail, sinkVars, kmsVars,
       SDL!CanRender
  <2>3. CreatedOK' /\ Kept'
    BY <1>7, <1>s, <1>0, <1>1 DEF Exec, EL!Exec, CreatedOK, Kept, Using, Starting, Capturing, Goto, Fail, owners
  <2> QED
    BY <1>1, <1>2, <2>2, <2>3 DEF OInv
<1> QED
  BY <1>3, <1>4, <1>5, <1>6, <1>7

(* Steps of the loop, the display and the user that move no request. *)
LEMMA IdleOInv ==
  ASSUME IInv, TypeOK',
         CameraDeferred \/ Return \/ Vblank \/ Interrupt \/ CloseWindow \/ Done \/ UNCHANGED vars
  PROVE  OInv'
<1>s. TypeOK /\ Apart /\ Loop /\ SinkSteps /\ QuietOK /\ CreatedOK /\ Kept /\ LiveOK /\ None \notin Requests
  BY NoRequest DEF IInv, OInv
<1> DEFINE Same == UNCHANGED <<sink, ok, nbuffers, created, next, camQueue, lost, unstopped, live, sinkAt>>
<1>0. UNCHANGED owners /\ Same
  BY DEF CameraDeferred, Return, Vblank, Interrupt, CloseWindow, Done, owners, vars, elVars, kmsVars,
     sinkVars, sessionVars, EL!EventBaseOnce, EL!Return, EL!Exit, KMS!Vblank, KMS!cells
<1>1. Apart' /\ \A r : (Known(r)' <=> Known(r)) /\ (KMS!Hold(r)' <=> KMS!Hold(r))
  BY <1>0, <1>s, SameOwners
<1>2. CASE Return
  <2>1. /\ pc = "loop" /\ pc' = "stopCamera" /\ mainAt = "poll" /\ mainAt' = "out"
        /\ UNCHANGED <<arming, flip, scanout>>
    BY <1>2, <1>s DEF Return, EL!Return, Goto, Loop, sinkVars, kmsVars
  <2> QED
    BY <1>0, <1>1, <1>s, <2>1
    DEF OInv, owners, KMS!cells, Loop, SinkSteps, QuietOK, Quiet, Showing, CreatedOK, Kept, LiveOK,
        Using, Starting, Capturing
<1>3. ASSUME UNCHANGED <<pc, mainAt>>, arming' \subseteq arming, QuietOK' PROVE OInv'
  <2>1. Loop' /\ SinkSteps' /\ LiveOK'
    BY <1>0, <1>3, <1>s DEF Loop, SinkSteps, LiveOK, owners, SDL!CanRender
  <2>2. /\ \A r : InCamera(r)' <=> InCamera(r)
        /\ UNCHANGED <<calls_, camQueue, created, nbuffers, next, ok, pc, unstopped, lost>>
    BY <1>0, <1>3 DEF owners, InCamera
  <2>4. arming = {} => arming' = {}
    BY <1>3
  <2>3. CreatedOK' /\ Kept'
    BY <1>1, <1>s, <2>2, <2>4 DEF CreatedOK, Kept
  <2> QED
    BY <1>1, <1>3, <2>1, <2>3 DEF OInv
<1>4. CASE Vblank
  <2>1. QuietOK'
    BY <1>4, <1>s DEF Vblank, KMS!Vblank, QuietOK, Quiet, Showing, sessionVars
  <2> QED
    BY <1>3, <1>4, <2>1 DEF Vblank, elVars, sessionVars
<1>5. CASE CameraDeferred \/ Interrupt \/ CloseWindow \/ Done \/ UNCHANGED vars
  <2>1. UNCHANGED <<pc, mainAt, sinkVars, sessionVars>> /\ arming' \subseteq arming
    BY <1>5 DEF CameraDeferred, Interrupt, CloseWindow, Done, vars, elVars, sessionVars,
       EL!EventBaseOnce, EL!Exit
  <2>2. QuietOK'
    BY <1>s, <2>1 DEF QuietOK, Quiet, Showing, sinkVars, kmsVars, sessionVars
  <2> QED
    BY <1>3, <2>1, <2>2
<1> QED
  BY <1>2, <1>4, <1>5

(* startCapture() queues the requests one after the other. *)
LEMMA QueueNextOInv ==
  ASSUME IInv, TypeOK', QueueNext
  PROVE  OInv'
<1>s. /\ TypeOK /\ Apart /\ Loop /\ SinkSteps /\ QuietOK /\ CreatedOK /\ Kept /\ LiveOK
      /\ None \notin Requests /\ pc = "queue" /\ created = nbuffers /\ next <= created
      /\ \A r \in Requests : Known(r) => r < next
  BY NoRequest DEF IInv, OInv, QueueNext, CreatedOK, Using
<1>0. UNCHANGED <<calls_, call, arming, mainAt, KMS!cells, sinkAt, flip, scanout, live, sink, nbuffers, created, lost>>
      /\ ~unstopped /\ ~unstopped'
  BY <1>s DEF CreatedOK, QueueNext, elVars, sinkVars, kmsVars, KMS!cells
<1>1. CASE UNCHANGED <<camQueue, next>> /\ Fail("stopCamera")
  <2>1. Apart' /\ \A r : (Known(r)' <=> Known(r)) /\ (KMS!Hold(r)' <=> KMS!Hold(r))
    BY <1>0, <1>1, <1>s, SameOwners DEF owners
  <2>2. QuietOK' /\ Loop' /\ SinkSteps' /\ LiveOK'
    BY <1>0, <1>1, <1>s DEF Fail, QuietOK, Quiet, Showing, Loop, SinkSteps, LiveOK, Using, KMS!cells
  <2>3. CreatedOK' /\ Kept'
    BY <1>0, <1>1, <1>s, <2>1, CameraSessionAssumption
    DEF Fail, CreatedOK, Kept, Starting, Using, Capturing, Requests, TypeOK
  <2> QED
    BY <2>1, <2>2, <2>3 DEF OInv
<1>2. CASE /\ camQueue' = Append(camQueue, next) /\ next' = next + 1 /\ UNCHANGED ok
           /\ Goto(IF next = created THEN "exec" ELSE "queue")
  <2>1. next \in Requests /\ ~Known(next) /\ next \in Nat /\ created \in Nat
    BY <1>s, CameraSessionAssumption DEF TypeOK, Requests
  <2>2. /\ Distinct(camQueue')
        /\ \A r : InCamera(r)' <=> InCamera(r) \/ r = next
    BY <1>2, <1>s, <2>1, InAppend DEF TypeOK, InCamera, In, Apart, Known
  <2>3. \A r : (InCalls(r)' <=> InCalls(r)) /\ (KMS!Hold(r)' <=> KMS!Hold(r))
    BY <1>0 DEF InCalls, KMS!Hold, KMS!cells
  <2>4. \A r : Known(r)' <=> Known(r) \/ r = next
    BY <1>0, <2>2, <2>3 DEF Known
  <2>5. Apart'
    BY <1>0, <1>s, <2>1, <2>2, <2>3 DEF Apart, Known
  <2>6. QuietOK' /\ Loop' /\ SinkSteps' /\ LiveOK'
    BY <1>0, <1>2, <1>s DEF Goto, QuietOK, Quiet, Showing, Loop, SinkSteps, LiveOK, Using, KMS!cells,
       SDL!CanRender
  <2>7. CreatedOK' /\ Kept'
    <3>1. \A r \in Requests : r \in Nat
      BY CameraSessionAssumption DEF Requests
    <3>2. \A r \in Requests : Known(r)' => r < next + 1
      BY <1>s, <2>1, <2>4, <3>1
    <3>3. \A r \in 1 .. next : r \in lost \/ Known(r)'
      <4>1. \A r \in 1 .. next : r \in 1 .. next - 1 \/ r = next
        BY <2>1
      <4> QED
        BY <1>s, <2>4, <4>1 DEF Kept
    <3>4. CASE next = created
      BY <1>0, <1>2, <1>s, <2>1, <3>1, <3>2, <3>3, <3>4
      DEF Goto, CreatedOK, Kept, Starting, Using, Capturing
    <3>5. CASE next # created
      BY <1>0, <1>2, <1>s, <2>1, <3>1, <3>2, <3>3, <3>5
      DEF Goto, CreatedOK, Kept, Starting, Using, Capturing
    <3> QED
      BY <3>4, <3>5
  <2> QED
    BY <2>5, <2>6, <2>7 DEF OInv
<1> QED
  BY <1>1, <1>2 DEF QueueNext

(* A step that hands requests on, and drops none that libcamera did not. *)
LEMMA HandedOn ==
  ASSUME IInv, TypeOK', Apart', Loop', QuietOK',
         \/ pc \in Capturing
         \/ /\ unstopped
            /\ \A r \in Requests : KMS!Hold(r)' => KMS!Hold(r)
            /\ \A r \in Requests : InCamera(r)' => InCamera(r),
         UNCHANGED <<sink, pc, ok, nbuffers, unstopped, created, next, live, sinkAt>>,
         lost \subseteq lost',
         \A r \in Requests : Known(r)' => Known(r),
         \A r \in Requests : Known(r) => Known(r)' \/ r \in lost'
  PROVE  OInv'
<1>s. /\ TypeOK /\ SinkSteps /\ CreatedOK /\ Kept /\ LiveOK
      /\ NumBuffers \in Nat /\ created \in 0 .. NumBuffers
  BY CameraSessionAssumption DEF IInv, OInv, TypeOK
<1>1. SinkSteps' /\ LiveOK'
  BY <1>s DEF SinkSteps, LiveOK, SDL!CanRender
<1>2. CreatedOK'
  <2>1. CASE pc \in Capturing
    BY <1>s, <2>1 DEF CreatedOK, Capturing, Starting
  <2>2. CASE unstopped /\ pc \notin Capturing
    BY <1>s, <2>2 DEF CreatedOK, Capturing, Starting
  <2> QED
    BY <2>1, <2>2
<1>3. Kept'
  <2>1. pc = "queue" => \A r \in 1 .. next - 1 : r \in Requests
    BY <1>s DEF CreatedOK, Requests, TypeOK
  <2>2. \A r \in 1 .. created : r \in Requests
    BY <1>s DEF Requests
  <2> QED
    BY <1>s, <2>1, <2>2 DEF Kept
<1> QED
  BY <1>1, <1>2, <1>3 DEF OInv

(* The camera thread puts the request it completed into calls_. *)
LEMMA CameraCompleteOInv ==
  ASSUME IInv, TypeOK', CameraComplete
  PROVE  OInv'
<1> DEFINE h == Head(camQueue)
<1>s. /\ TypeOK /\ EL!TypeOK /\ Apart /\ Loop /\ QuietOK /\ None \notin Requests
      /\ pc \in Capturing \/ unstopped
      /\ camQueue \in Seq(Requests) /\ calls_ \in Seq(Requests)
      /\ camQueue # <<>> /\ camQueue' = Tail(camQueue)
      /\ UNCHANGED <<sinkVars, sink, pc, ok, nbuffers, unstopped, created, next, call, mainAt>>
  BY NoRequest DEF IInv, OInv, CreatedOK, CameraComplete, TypeOK, EL!TypeOK, elVars, EL!PushCallList
<1>1. /\ h \in Requests /\ InCamera(h) /\ Distinct(camQueue')
      /\ \A r : InCamera(r)' <=> InCamera(r) /\ r # h
  BY <1>s, InTail DEF Apart, InCamera, In
<1>2. \A r : KMS!Hold(r)' <=> KMS!Hold(r)
  BY <1>s DEF KMS!Hold, sinkVars, kmsVars
<1>3. Loop' /\ QuietOK'
  BY <1>s DEF Loop, QuietOK, Quiet, Showing, sinkVars, kmsVars
<1>4. UNCHANGED <<live, sinkAt>>
  BY <1>s DEF sinkVars, kmsVars
<1>5. CASE EL!PushCallList("camera", h) /\ UNCHANGED lost
  <2>1. ~InCalls(h) /\ h # call /\ ~KMS!Hold(h)
    BY <1>1, <1>s DEF Apart
  <2>2. /\ Distinct(calls_')
        /\ \A r : InCalls(r)' <=> InCalls(r) \/ r = h
    <3>1. calls_' = Append(calls_, h) /\ Distinct(calls_) /\ ~In(calls_, h)
      BY <1>5, <1>s, <2>1 DEF EL!PushCallList, Apart, InCalls
    <3>2. /\ Distinct(Append(calls_, h))
          /\ \A r : In(Append(calls_, h), r) <=> In(calls_, r) \/ r = h
      BY <1>1, <1>s, <3>1, InAppend
    <3> QED
      BY <3>1, <3>2 DEF InCalls, In
  <2>3. Apart'
    BY <1>1, <1>2, <1>s, <2>1, <2>2 DEF Apart
  <2>4. \A r \in Requests : Known(r)' <=> Known(r)
    BY <1>1, <1>2, <1>s, <2>2 DEF Known
  <2> QED
    BY <1>1, <1>2, <1>3, <1>4, <1>5, <1>s, <2>3, <2>4, HandedOn
<1>6. CASE lost' = lost \union {h} /\ UNCHANGED elVars
  <2>1. UNCHANGED calls_ /\ \A r : InCalls(r)' <=> InCalls(r)
    BY <1>6 DEF elVars, InCalls
  <2>2. Apart'
    BY <1>1, <1>2, <1>s, <2>1 DEF Apart
  <2>3. \A r \in Requests : Known(r)' <=> Known(r) /\ r # h
    <3>1. ~InCalls(h) /\ h # call /\ ~KMS!Hold(h)
      BY <1>1, <1>s DEF Apart
    <3> QED
      BY <1>1, <1>2, <1>s, <2>1, <3>1 DEF Known
  <2> QED
    BY <1>1, <1>2, <1>3, <1>4, <1>6, <1>s, <2>2, <2>3, HandedOn
<1> QED
  BY <1>5, <1>6 DEF CameraComplete

(* What the camera has is created, unless camera_->stop() failed and the session
   is past stop(). *)
LEMMA InCameraCreated ==
  ASSUME IInv, NEW r \in Requests, InCamera(r)
  PROVE  \/ r <= created
         \/ unstopped /\ (pc \in {"done", "crash"} \/ (pc = "resetSink" /\ ~ok))
<1>s. CreatedOK /\ TypeOK
  BY DEF IInv, OInv
<1>1. Known(r) /\ camQueue # <<>> /\ r \in Int /\ next \in Int /\ created \in Int
  BY <1>s, CameraSessionAssumption DEF Known, InCamera, Requests, TypeOK
<1>2. CASE pc \in Capturing
  <2>1. pc = "queue" => r < next /\ next <= created
    BY <1>s, <1>1 DEF CreatedOK
  <2> QED
    BY <1>s, <1>1, <1>2, <2>1 DEF CreatedOK, Capturing
<1>3. CASE unstopped
  BY <1>s, <1>3 DEF CreatedOK
<1> QED
  BY <1>s, <1>1, <1>2, <1>3 DEF CreatedOK

(* A camera that was not stopped finds its request freed. *)
LEMMA CameraCrashOInv ==
  ASSUME IInv, TypeOK', CameraCrash
  PROVE  OInv'
<1> DEFINE h == Head(camQueue)
<1>s. /\ TypeOK /\ Apart /\ Loop /\ SinkSteps /\ QuietOK /\ CreatedOK /\ LiveOK
      /\ camQueue \in Seq(Requests) /\ camQueue # <<>> /\ h > created /\ pc' = "crash"
      /\ UNCHANGED <<elVars, sinkVars, ok, sink, nbuffers, created, next, camQueue, lost, unstopped>>
  BY DEF IInv, OInv, TypeOK, CameraCrash, Goto
<1>1. h \in Requests /\ InCamera(h) /\ h \in Int /\ created \in Int
  BY <1>s, CameraSessionAssumption DEF InCamera, Requests, TypeOK
<1>2. unstopped /\ (pc \in {"done", "crash"} \/ (pc = "resetSink" /\ ~ok))
  BY <1>1, <1>s, InCameraCreated
<1>3. UNCHANGED owners
  BY <1>s DEF owners, elVars, sinkVars, kmsVars, KMS!cells
<1>4. Apart' /\ Quiet
  BY <1>s, <1>2, <1>3, SameOwners DEF QuietOK, Showing
<1>5. Loop' /\ SinkSteps' /\ LiveOK' /\ QuietOK'
  BY <1>s, <1>2, <1>4 DEF elVars, sinkVars, kmsVars, Loop, SinkSteps, LiveOK, QuietOK, Quiet, Using
<1>6. CreatedOK' /\ Kept'
  BY <1>s, <1>2 DEF CreatedOK, Kept, Starting, Using, Capturing
<1> QED
  BY <1>4, <1>5, <1>6 DEF OInv

(* dispatchCall() takes the oldest of them. *)
LEMMA DispatchCallOInv ==
  ASSUME IInv, TypeOK', DispatchCall
  PROVE  OInv'
<1>s. /\ Apart /\ Loop /\ QuietOK /\ None \notin Requests
      /\ calls_ \in Seq(Requests) /\ pc = "loop" /\ call = None /\ mainAt' = "call"
      /\ UNCHANGED <<sinkVars, sessionVars>>
  BY NoRequest DEF IInv, OInv, DispatchCall, EL!PopCallList, TypeOK, EL!TypeOK, Loop
<1>1. /\ UNCHANGED <<sink, pc, ok, nbuffers, unstopped, created, next, live, sinkAt, lost>>
      /\ Loop' /\ QuietOK'
      /\ \A r : (KMS!Hold(r)' <=> KMS!Hold(r)) /\ (InCamera(r)' <=> InCamera(r))
      /\ Distinct(camQueue)'
  BY <1>s DEF Loop, QuietOK, Quiet, Showing, KMS!Hold, InCamera, Apart, sinkVars, kmsVars, sessionVars
<1>2. CASE UNCHANGED <<calls_, call>>
  <2>1. Apart' /\ \A r : Known(r)' <=> Known(r)
    BY <1>1, <1>2, <1>s DEF Apart, Known, InCalls
  <2> QED
    BY <1>1, <1>s, <2>1, HandedOn DEF Capturing
<1>3. CASE calls_ # <<>> /\ call' = Head(calls_) /\ calls_' = Tail(calls_)
  <2>1. /\ call' \in Requests /\ InCalls(call') /\ Distinct(calls_)'
        /\ \A r : InCalls(r)' <=> InCalls(r) /\ r # call'
    BY <1>3, <1>s, InTail DEF Apart, InCalls, In, Distinct
  <2>2. Apart'
    BY <1>1, <1>s, <2>1 DEF Apart
  <2>3. \A r \in Requests : Known(r)' <=> Known(r)
    BY <1>1, <1>s, <2>1 DEF Known
  <2> QED
    BY <1>1, <1>s, <2>2, <2>3, HandedOn DEF Capturing
<1> QED
  BY <1>2, <1>3 DEF DispatchCall, EL!PopCallList

(* camera_->queueRequest() of a request that nobody has. *)
LEMMA Queued ==
  ASSUME NEW q \in Requests, camQueue \in Seq(Requests), ~InCamera(q), Distinct(camQueue),
         QueueRequest(q)
  PROVE  /\ Distinct(camQueue') /\ lost \subseteq lost'
         /\ \A r : InCamera(r) => InCamera(r)'
         /\ \A r : InCamera(r)' => InCamera(r) \/ r = q
         /\ InCamera(q)' \/ q \in lost'
<1>1. CASE camQueue' = Append(camQueue, q) /\ UNCHANGED lost
  BY <1>1, InAppend DEF InCamera, In
<1>2. CASE lost' = lost \union {q} /\ UNCHANGED camQueue
  BY <1>2 DEF InCamera
<1> QED
  BY <1>1, <1>2 DEF QueueRequest

(* processRequest() gives it to the sink, or back to the camera. *)
LEMMA ProcessRequestOInv ==
  ASSUME IInv, TypeOK', ProcessRequest
  PROVE  OInv'
<1>s. /\ Apart /\ Loop /\ QuietOK /\ None \notin Requests /\ ok
      /\ camQueue \in Seq(Requests) /\ pc = "loop" /\ call \in Requests
      /\ call' = None /\ mainAt' = "poll" /\ mainAt = "call"
      /\ UNCHANGED <<calls_, live, pc, ok, sink, nbuffers, unstopped, created, next>>
  <2>1. mainAt = "call" /\ call # None /\ mainAt' = "poll" /\ call' = None /\ UNCHANGED calls_
    BY DEF ProcessRequest, EL!InvokeCall
  <2>2. pc = "loop" /\ call \in Requests /\ camQueue \in Seq(Requests) /\ Apart /\ Loop /\ QuietOK
    BY <2>1 DEF IInv, OInv, TypeOK, EL!TypeOK, Loop
  <2> QED
    BY <2>1, <2>2, NoRequest DEF ProcessRequest, Loop
<1>0. Loop' /\ QuietOK' /\ \A r : (InCalls(r)' <=> InCalls(r))
  BY <1>s DEF Loop, QuietOK, Showing, InCalls
<1>1. CASE sink = "kms" /\ KMS!Accept(call) /\ UNCHANGED <<camQueue, lost>>
  <2>1. UNCHANGED sinkAt /\ \A r \in Requests : KMS!Hold(r)' <=> KMS!Hold(r) \/ r = call
    BY <1>1, <1>s DEF KMS!Accept, KMS!Hold, KMS!Dropped
  <2>2. \A r : InCamera(r)' <=> InCamera(r)
    BY <1>1 DEF InCamera
  <2>3. Apart'
    BY <1>0, <1>1, <1>s, <2>1, <2>2 DEF Apart
  <2>4. \A r \in Requests : Known(r)' <=> Known(r)
    BY <1>0, <1>s, <2>1, <2>2 DEF Known
  <2> QED
    BY <1>0, <1>1, <1>s, <2>1, <2>3, <2>4, HandedOn DEF Capturing
<1>2. CASE QueueRequest(call) /\ UNCHANGED kmsVars
  <2> PICK c \in Requests : c = call
    BY <1>s
  <2>1. UNCHANGED sinkAt /\ \A r : KMS!Hold(r)' <=> KMS!Hold(r)
    BY <1>2 DEF kmsVars, KMS!Hold
  <2>2. /\ Distinct(camQueue') /\ lost \subseteq lost'
        /\ \A r : InCamera(r) => InCamera(r)'
        /\ \A r : InCamera(r)' => InCamera(r) \/ r = c
        /\ InCamera(c)' \/ c \in lost'
    BY <1>2, <1>s, Queued DEF Apart
  <2>3. Apart'
    BY <1>0, <1>s, <2>1, <2>2 DEF Apart
  <2>4. \A r \in Requests : (Known(r)' => Known(r)) /\ (Known(r) => Known(r)' \/ r \in lost')
    BY <1>0, <1>s, <2>1, <2>2 DEF Known
  <2> QED
    BY <1>0, <1>s, <2>1, <2>2, <2>3, <2>4, HandedOn DEF Capturing
<1> QED
  BY <1>1, <1>2 DEF ProcessRequest

(* pageFlipComplete() gives the frame shown before back to the camera. *)
LEMMA PageFlipOInv ==
  ASSUME IInv, TypeOK', PageFlip
  PROVE  OInv'
<1>s. /\ Apart /\ Loop /\ QuietOK /\ None \notin Requests /\ ok
      /\ camQueue \in Seq(Requests) /\ pc = "loop" /\ mainAt = "poll"
      /\ active_ \in Requests \union {None}
      /\ UNCHANGED <<elVars, live, pc, ok, sink, nbuffers, unstopped, created, next>>
      /\ Sink!CellsOK /\ KMS!RequestComplete
  BY NoRequest DEF IInv, OInv, PageFlip, EL!MayDispatch, TypeOK, KMS!TypeOK, KMS!MaybeRequest, Loop, Sink!IInv
<1>0. /\ Loop' /\ QuietOK' /\ UNCHANGED <<sinkAt, call, calls_>>
      /\ \A r : (InCalls(r)' <=> InCalls(r))
  BY <1>s DEF Loop, QuietOK, Showing, InCalls, elVars, KMS!RequestComplete
<1>1. \A r \in Requests : KMS!Hold(r)' <=> KMS!Hold(r) /\ r # active_
  BY <1>s DEF KMS!Hold, KMS!RequestComplete, Sink!CellsOK
<1>2. CASE active_ = None /\ UNCHANGED <<camQueue, lost>>
  <2>1. \A r : InCamera(r)' <=> InCamera(r)
    BY <1>2 DEF InCamera
  <2>2. Apart'
    BY <1>0, <1>1, <1>2, <1>s, <2>1 DEF Apart
  <2>3. \A r \in Requests : Known(r)' <=> Known(r)
    BY <1>0, <1>1, <1>2, <1>s, <2>1 DEF Known
  <2> QED
    BY <1>0, <1>2, <1>s, <2>2, <2>3, HandedOn DEF Capturing
<1>3. CASE active_ # None /\ QueueRequest(active_)
  <2> PICK c \in Requests : c = active_
    BY <1>3, <1>s
  <2>1. KMS!Hold(c)
    BY <1>3, <1>s DEF KMS!Hold
  <2>2. ~InCamera(c) /\ ~InCalls(c) /\ c # call
    BY <1>s, <2>1 DEF Apart
  <2>3. /\ Distinct(camQueue') /\ lost \subseteq lost'
        /\ \A r : InCamera(r) => InCamera(r)'
        /\ \A r : InCamera(r)' => InCamera(r) \/ r = c
        /\ InCamera(c)' \/ c \in lost'
    BY <1>3, <1>s, <2>1, <2>2, Queued DEF Apart
  <2>4. Apart'
    BY <1>0, <1>1, <1>s, <2>2, <2>3 DEF Apart
  <2>5. \A r \in Requests : (Known(r)' => Known(r)) /\ (Known(r) => Known(r)' \/ r \in lost')
    BY <1>0, <1>1, <1>s, <2>1, <2>3 DEF Known
  <2> QED
    BY <1>0, <1>s, <2>3, <2>4, <2>5, HandedOn DEF Capturing
<1> QED
  BY <1>2, <1>3 DEF PageFlip

(* Once the camera is stopped nobody is given a request any more. *)
LEMMA ShutdownOInv ==
  ASSUME IInv, TypeOK', Shutdown
  PROVE  OInv'
<1>s. /\ TypeOK /\ Apart /\ Loop /\ SinkSteps /\ QuietOK /\ CreatedOK /\ LiveOK
      /\ None \notin Requests /\ Sink!TypeOK
  BY NoRequest DEF IInv, OInv, Sink!IInv
<1>0. UNCHANGED elVars /\ mainAt = "out" /\ mainAt' = "out" /\ call = None /\ UNCHANGED <<calls_, call, ok>>
  BY <1>s DEF Shutdown, StopCamera, StopSink, ResetSink, FreeBuffers, elVars, Loop
<1>1. /\ Distinct(camQueue')
      /\ \A r : InCamera(r)' => InCamera(r)
      /\ \A r : InCalls(r)' <=> InCalls(r)
      /\ \A r \in Requests : KMS!Hold(r)' => KMS!Hold(r)
  <2>1. camQueue' = <<>> \/ UNCHANGED camQueue
    BY DEF Shutdown, StopCamera, StopSink, ResetSink, FreeBuffers
  <2>2. Distinct(camQueue') /\ \A r : InCamera(r)' => InCamera(r)
    BY <1>s, <2>1, InEmpty DEF Apart, InCamera, In
  <2>3. \A r \in Requests : KMS!Hold(r)' => KMS!Hold(r)
    BY <1>s DEF Shutdown, StopCamera, StopSink, ResetSink, FreeBuffers, KMS!Stop, KMS!Destroy, KMS!Hold,
       KMS!cells, KMS!kernel, kmsVars, sinkVars
  <2> QED
    BY <1>0, <2>2, <2>3 DEF InCalls
<1>2. Apart'
  BY <1>0, <1>1, <1>s DEF Apart
<1>3. CASE StopCamera
  <2>1. Loop' /\ SinkSteps' /\ LiveOK' /\ QuietOK'
    BY <1>0, <1>3, <1>s DEF StopCamera, Goto, Loop, SinkSteps, LiveOK, QuietOK, Quiet, Showing, Using,
       sinkVars, kmsVars
  <2>2. CreatedOK' /\ Kept'
    BY <1>1, <1>3, <1>s DEF StopCamera, Goto, CreatedOK, Kept, Known, Starting, Using, Capturing
  <2> QED
    BY <1>2, <2>1, <2>2 DEF OInv
<1>4. CASE StopSink
  <2>1. QuietOK'
    BY <1>4, <1>s DEF StopSink, Goto, QuietOK, Quiet, Showing, KMS!Stop, kmsVars, KMS!cells, KMS!kernel
  <2>2. Loop' /\ SinkSteps' /\ LiveOK'
    BY <1>0, <1>4, <1>s DEF StopSink, Goto, Loop, SinkSteps, LiveOK, Using, KMS!Stop, SDL!Stop, kmsVars
  <2>3. CreatedOK' /\ Kept'
    BY <1>1, <1>4, <1>s DEF StopSink, Goto, CreatedOK, Kept, Starting, Using, Capturing
  <2> QED
    BY <1>2, <2>1, <2>2, <2>3 DEF OInv
<1>5. CASE ResetSink
  <2>1. QuietOK'
    BY <1>5 DEF ResetSink, KMS!Destroy, QuietOK, Quiet
  <2>2. Loop' /\ SinkSteps' /\ LiveOK'
    BY <1>0, <1>5, <1>s DEF ResetSink, Goto, Loop, SinkSteps, LiveOK, Using, KMS!Destroy, SDL!Stop
  <2>3. CreatedOK' /\ Kept'
    BY <1>1, <1>5, <1>s DEF ResetSink, Goto, CreatedOK, Kept, Starting, Using, Capturing
  <2> QED
    BY <1>2, <2>1, <2>2, <2>3 DEF OInv
<1>6. CASE FreeBuffers
  <2>1. QuietOK'
    BY <1>6, <1>s DEF FreeBuffers, QuietOK, Quiet, Showing, sinkVars, kmsVars
  <2>2. Loop' /\ SinkSteps' /\ LiveOK'
    BY <1>0, <1>6, <1>s DEF FreeBuffers, Goto, Loop, SinkSteps, LiveOK, Using, sinkVars, kmsVars
  <2>3. CreatedOK' /\ Kept'
    BY <1>1, <1>6, <1>s DEF FreeBuffers, Goto, CreatedOK, Kept, Starting, Using, Capturing
  <2> QED
    BY <1>2, <2>1, <2>2, <2>3 DEF OInv
<1> QED
  BY <1>3, <1>4, <1>5, <1>6 DEF Shutdown

LEMMA StepIInv == IInv /\ [Next]_vars => IInv'
<1> SUFFICES ASSUME IInv, [Next]_vars PROVE IInv'
  OBVIOUS
<1>1. Sink!IInv' /\ TypeOK'
  BY SinkIInv, StepTypeOK
<1>2. OInv'
  BY <1>1, StartupOInv, IdleOInv, QueueNextOInv, CameraCompleteOInv, DispatchCallOInv,
     CameraCrashOInv, ProcessRequestOInv, PageFlipOInv, ShutdownOInv
  DEF Next, Startup, Capture, Camera
<1> QED
  BY <1>1, <1>2 DEF IInv

LEMMA Invariance == Spec => []IInv
BY InitIInv, StepIInv, PTL DEF Spec
-----------------------------------------------------------------------------
(* The sequences SingleOwner and Viewfinder look at hold each request once. *)
LEMMA InConcat ==
  ASSUME NEW S, NEW s \in Seq(S), NEW t \in Seq(S)
  PROVE  /\ s \o t \in Seq(S)
         /\ \A r : In(s \o t, r) <=> In(s, r) \/ In(t, r)
         /\ Distinct(s) /\ Distinct(t) /\ (\A r : ~(In(s, r) /\ In(t, r))) => Distinct(s \o t)
<1> DEFINE u == s \o t
<1>1. /\ u \in Seq(S) /\ Len(s) \in Nat /\ Len(t) \in Nat
      /\ DOMAIN s = 1 .. Len(s) /\ DOMAIN t = 1 .. Len(t) /\ DOMAIN u = 1 .. Len(s) + Len(t)
      /\ \A k \in 1 .. Len(s) + Len(t) : u[k] = IF k <= Len(s) THEN s[k] ELSE t[k - Len(s)]
  OBVIOUS
<1> HIDE DEF u
<1>2. \A k \in DOMAIN u : \/ k \in DOMAIN s /\ u[k] = s[k]
                          \/ k - Len(s) \in DOMAIN t /\ u[k] = t[k - Len(s)]
  BY <1>1
<1>3. \A k \in DOMAIN s : k \in DOMAIN u /\ u[k] = s[k]
  BY <1>1
<1>4. \A k \in DOMAIN t : k + Len(s) \in DOMAIN u /\ u[k + Len(s)] = t[k]
  <2> TAKE k \in DOMAIN t
  <2>1. k \in Nat \ {0} /\ k + Len(s) \in DOMAIN u /\ ~(k + Len(s) <= Len(s)) /\ (k + Len(s)) - Len(s) = k
    BY <1>1
  <2> QED
    BY <1>1, <2>1
<1>5. \A r : In(u, r) <=> In(s, r) \/ In(t, r)
  BY <1>2, <1>3, <1>4 DEF In
<1>6. ASSUME Distinct(s), Distinct(t), \A r : ~(In(s, r) /\ In(t, r))
      PROVE  Distinct(u)
  <2> SUFFICES ASSUME NEW j \in DOMAIN u, NEW k \in DOMAIN u, u[j] = u[k]
               PROVE  j = k
    BY DEF Distinct
  <2>1. CASE j \in DOMAIN s /\ u[j] = s[j]
    BY <1>2, <1>6, <2>1 DEF Distinct, In
  <2>2. CASE j - Len(s) \in DOMAIN t /\ u[j] = t[j - Len(s)]
    <3>1. k - Len(s) \in DOMAIN t /\ u[k] = t[k - Len(s)]
      BY <1>2, <1>6, <2>2 DEF In
    <3>2. j - Len(s) = k - Len(s)
      BY <1>6, <2>2, <3>1 DEF Distinct
    <3> QED
      BY <1>1, <3>2
  <2> QED
    BY <1>2, <2>1, <2>2
<1> QED
  BY <1>1, <1>5, <1>6 DEF u

LEMMA InCell ==
  ASSUME NEW x \in Requests \union {None}
  PROVE  /\ KMS!Cell(x) \in Seq(Requests) /\ Distinct(KMS!Cell(x))
         /\ \A r : In(KMS!Cell(x), r) <=> r = x /\ x # None
<1>1. CASE x = None
  BY <1>1, InEmpty DEF KMS!Cell
<1>2. CASE x # None
  <2>1. KMS!Cell(x) = <<x>> /\ <<x>> \in Seq(Requests) /\ Len(<<x>>) = 1 /\ <<x>>[1] = x
    BY <1>2 DEF KMS!Cell
  <2>2. DOMAIN <<x>> = {1}
    BY <2>1
  <2> QED
    BY <1>2, <2>1, <2>2 DEF In, Distinct
<1> QED
  BY <1>1, <1>2

(* What the sequences of CameraSession hold, each request once. *)
LEMMA HeldOnce ==
  ASSUME IInv
  PROVE  /\ KMS!held \in Seq(Requests) /\ Distinct(KMS!held)
         /\ \A r : In(KMS!held, r) <=> r \in Requests /\ KMS!Hold(r)
<1> DEFINE a == KMS!Cell(active_)
           q == KMS!Cell(queued_)
           p == KMS!Cell(pending_)
<1>s. /\ {pending_, queued_, active_} \subseteq Requests \union {None}
      /\ Sink!CellsOK /\ None \notin Requests
  BY NoRequest DEF IInv, OInv, TypeOK, KMS!TypeOK, KMS!MaybeRequest, Sink!IInv
<1>1. /\ a \in Seq(Requests) /\ q \in Seq(Requests) /\ p \in Seq(Requests)
      /\ Distinct(a) /\ Distinct(q) /\ Distinct(p)
      /\ \A r : In(a, r) <=> r = active_ /\ active_ # None
      /\ \A r : In(q, r) <=> r = queued_ /\ queued_ # None
      /\ \A r : In(p, r) <=> r = pending_ /\ pending_ # None
  BY <1>s, InCell
<1> HIDE DEF a, q, p
<1>2. /\ a \o q \in Seq(Requests) /\ Distinct(a \o q)
      /\ \A r : In(a \o q, r) <=> In(a, r) \/ In(q, r)
  <2>1. \A r : ~(In(a, r) /\ In(q, r))
    BY <1>1, <1>s DEF Sink!CellsOK
  <2> QED
    BY <1>1, <2>1, InConcat
<1>3. /\ (a \o q) \o p \in Seq(Requests) /\ Distinct((a \o q) \o p)
      /\ \A r : In((a \o q) \o p, r) <=> In(a \o q, r) \/ In(p, r)
  <2>1. \A r : ~(In(a \o q, r) /\ In(p, r))
    BY <1>1, <1>2, <1>s DEF Sink!CellsOK
  <2> QED
    BY <1>1, <1>2, <2>1, InConcat
<1>4. KMS!held = (a \o q) \o p
  BY DEF KMS!held, a, q, p
<1>5. \A r : (r \in Requests /\ KMS!Hold(r)) <=> In(a, r) \/ In(q, r) \/ In(p, r)
  BY <1>1, <1>s DEF KMS!Hold
<1> QED
  BY <1>2, <1>3, <1>4, <1>5

LEMMA DeferredOnce ==
  ASSUME IInv
  PROVE  /\ deferred \in Seq(Requests) /\ Distinct(deferred)
         /\ \A r : In(deferred, r) <=> r \in Requests /\ (InCalls(r) \/ r = call)
<1>s. /\ calls_ \in Seq(Requests) /\ call \in Requests \union {None} /\ None \notin Requests
      /\ Apart
  BY NoRequest DEF IInv, OInv, TypeOK, EL!TypeOK
<1>1. /\ KMS!Cell(call) \in Seq(Requests) /\ Distinct(KMS!Cell(call))
      /\ \A r : In(KMS!Cell(call), r) <=> r = call /\ call # None
  BY <1>s, InCell
<1>2. Distinct(calls_) /\ \A r : In(calls_, r) => r \in Requests /\ r # call
  BY <1>s, InSeq DEF Apart, InCalls
<1> QED
  BY <1>1, <1>2, <1>s, InConcat DEF deferred, InCalls

LEMMA OwnedOnce ==
  ASSUME IInv
  PROVE  /\ Distinct(owned)
         /\ \A r : In(owned, r) <=> r \in Requests /\ Known(r)
<1>s. camQueue \in Seq(Requests) /\ Apart
  BY DEF IInv, OInv, TypeOK
<1>1. /\ camQueue \o deferred \in Seq(Requests) /\ Distinct(camQueue \o deferred)
      /\ \A r : In(camQueue \o deferred, r) <=> In(camQueue, r) \/ In(deferred, r)
  <2>1. \A r : ~(In(camQueue, r) /\ In(deferred, r))
    BY <1>s, DeferredOnce DEF Apart, InCamera, In
  <2> QED
    BY <1>s, <2>1, DeferredOnce, InConcat DEF Apart
<1>2. /\ Distinct((camQueue \o deferred) \o KMS!held)
      /\ \A r : In((camQueue \o deferred) \o KMS!held, r)
                  <=> In(camQueue \o deferred, r) \/ In(KMS!held, r)
  <2>1. \A r : ~(In(camQueue \o deferred, r) /\ In(KMS!held, r))
    <3>1. \A r : In(camQueue, r) => InCamera(r)
      BY DEF In, InCamera
    <3> QED
      BY <1>1, <1>s, <3>1, DeferredOnce, HeldOnce DEF Apart
  <2> QED
    BY <1>1, <2>1, HeldOnce, InConcat
<1>3. \A r : In(camQueue, r) <=> r \in Requests /\ InCamera(r)
  BY <1>s, InSeq DEF In, InCamera
<1> QED
  BY <1>1, <1>2, <1>3, DeferredOnce, HeldOnce DEF owned, Known

(* The variables of the whole program keep their types, those of the event loop
   and of the sink among them. *)
THEOREM TypeCorrect == Spec => []TypeOK
<1>1. IInv => TypeOK
  BY DEF IInv, OInv
<1> QED
  BY <1>1, Invariance, PTL

(* SingleOwner: a request is never at two places, so no two of the camera, the
   list of deferred calls and the sink ever use one frame buffer, whatever
   queueRequest(), the commits and the order of the two threads do. *)
THEOREM OneOwner == Spec => []SingleOwner
<1>1. IInv => SingleOwner
  BY OwnedOnce DEF SingleOwner, Distinct
<1> QED
  BY <1>1, Invariance, PTL

(* What is on the screen, or about to be, the sink holds. *)
LEMMA OnScreen ==
  ASSUME IInv
  PROVE  \A r \in Requests : r \in {flip, scanout} => KMS!Hold(r)
BY NoRequest DEF IInv, Sink!IInv, Sink!Phase, Sink!Idle, Sink!Committed, Sink!Shown, Sink!Off, KMS!Hold

(* ScreenNotWritten: libcamera never fills the buffer the display scans out, or
   is about to: the sink keeps its request until pageFlipComplete(). *)
THEOREM ScreenSafe == Spec => []ScreenNotWritten
<1>1. IInv => ScreenNotWritten
  <2> SUFFICES ASSUME IInv, NEW r \in {flip, scanout}, InCamera(r) PROVE FALSE
    BY DEF ScreenNotWritten
  <2>1. r \in Requests
    BY DEF IInv, OInv, TypeOK, InCamera
  <2> QED
    BY <2>1, OnScreen DEF IInv, OInv, Apart
<1> QED
  BY <1>1, Invariance, PTL

(* BuffersAlive: whatever fails, the session frees no request and no frame
   buffer that a deferred processRequest() or the display still uses; nor one the
   camera uses, unless camera_->stop() itself reported failure. *)
THEOREM NoUseAfterFree == Spec => []BuffersAlive
<1>1. IInv => BuffersAlive
  <2> SUFFICES ASSUME IInv, NEW r \in Requests
               PROVE  /\ r \in {flip, scanout, call} => r <= created
                      /\ InCamera(r) => r <= created \/ unstopped
    BY DEF BuffersAlive
  <2>s. /\ CreatedOK /\ Loop /\ QuietOK /\ TypeOK /\ None \notin Requests
    BY NoRequest DEF IInv, OInv
  <2>0. InCamera(r) => r <= created \/ unstopped
    BY InCameraCreated
  <2>1. ASSUME r = call PROVE r <= created
    <3>1. pc = "loop" /\ Known(r)
      BY <2>1, <2>s DEF Loop, Known
    <3> QED
      BY <3>1, <2>s DEF CreatedOK
  <2>2. ASSUME r \in {flip, scanout} PROVE r <= created
    <3>1. KMS!Hold(r) /\ ~Quiet /\ Known(r)
      BY <2>2, <2>s, OnScreen DEF Quiet, Known
    <3> QED
      BY <3>1, <2>s DEF QuietOK, Showing, CreatedOK
  <2> QED
    BY <2>0, <2>1, <2>2
<1> QED
  BY <1>1, Invariance, PTL

(* AllAccounted: while the loop runs each request is with the camera, in the
   list, in dispatchCall() or in the sink, but for those queueRequest() refused. *)
THEOREM NoneLost == Spec => []AllAccounted
<1>1. IInv => AllAccounted
  <2> SUFFICES ASSUME IInv, pc = "loop", NEW r \in 1 .. created, r \notin lost
               PROVE  \E k \in DOMAIN owned : owned[k] = r
    BY DEF AllAccounted
  <2>1. r \in Requests
    BY CameraSessionAssumption DEF IInv, OInv, TypeOK, Requests
  <2>2. Known(r)
    BY DEF IInv, OInv, Kept
  <2> QED
    BY <2>1, <2>2, OwnedOnce DEF In
<1> QED
  BY <1>1, Invariance, PTL

(* SDLReleased: whatever fails in start(), the end of the session has released
   what the SDL sink opened. *)
THEOREM SDLGivenUp == Spec => []SDLReleased
<1>1. IInv => SDLReleased
  BY DEF IInv, OInv, LiveOK, Loop, SDLReleased
<1> QED
  BY <1>1, Invariance, PTL
-----------------------------------------------------------------------------
(* The session uses the sink as it expects: a behaviour of the session is one of
   KMSSink by itself, so that all that is proved of the sink holds here. *)
THEOREM SinkWellUsed == Spec => KMS!Spec
<1>1. Init => KMS!Init
  BY DEF Init
<1>2. IInv /\ [Next]_vars => [KMS!Next]_(KMS!vars)
  <2>1. Sink!Next => KMS!Next
    BY DEF Sink!Next, KMS!Next, Sink!Configure, KMS!Configure, Sink!MapBuffer, KMS!MapBuffer,
       Sink!Start, KMS!Start, Sink!Accept, KMS!Accept, Sink!Dropped, KMS!Dropped, Sink!Hold, KMS!Hold,
       Sink!RequestComplete, KMS!RequestComplete, Sink!Commit, KMS!Commit, Sink!Stop, KMS!Stop,
       Sink!Destroy, KMS!Destroy, Sink!Vblank, KMS!Vblank,
       Sink!cells, KMS!cells, Sink!kernel, KMS!kernel
  <2>2. UNCHANGED Sink!vars => UNCHANGED KMS!vars
    BY DEF Sink!vars, KMS!vars, Sink!cells, KMS!cells, Sink!kernel, KMS!kernel
  <2> QED
    BY <2>1, <2>2, SinkStep
<1> QED
  BY <1>1, <1>2, Invariance, PTL DEF Spec, KMS!Spec

(* The same of the event loop: the camera thread calls callLater(), and the main
   thread exec(), as EventLoop has them. *)
THEOREM LoopWellUsed == Spec => EL!Spec
<1>1. Init => EL!Init
  BY DEF Init
<1>2. IInv /\ [Next]_vars => [EL!Next]_(EL!vars)
  <2> SUFFICES ASSUME IInv, [Next]_vars PROVE EL!Next \/ UNCHANGED elVars
    BY DEF elVars, EL!vars
  <2>1. camQueue # <<>> => Head(camQueue) \in Requests
    BY DEF IInv, OInv, TypeOK
  <2> QED
    BY <2>1
    DEF EL!Next, EL!CallLater, EL!Main, Next, Startup, Capture, Shutdown, Camera, StartSession,
      CreateRequest, StartSink, StartCamera, QueueNext, Exec, DispatchCall, ProcessRequest, PageFlip,
      CloseWindow, Return, StopCamera, StopSink, ResetSink, FreeBuffers, CameraComplete, CameraCrash, CameraDeferred,
      Vblank, Interrupt, Done, vars
<1> QED
  BY <1>1, <1>2, Invariance, PTL DEF Spec, EL!Spec

(* FlipMatchesQueued: the assert of pageFlipComplete(), that the frame shown is the
   queued one, holds in the whole program. *)
THEOREM AssertHolds == Spec => []KMS!FlipMatchesQueued
<1>1. IInv => KMS!FlipMatchesQueued
  BY DEF IInv, Sink!IInv, Sink!Phase, Sink!Idle, Sink!Committed, Sink!Shown, Sink!Off, KMS!FlipMatchesQueued
<1> QED
  BY <1>1, Invariance, PTL

(* NoEmptyCall: so does what dispatchCall() relies on without a check, that the
   closure popCallList() returned is one. *)
THEOREM NeverEmpty == Spec => []EL!NoEmptyCall
<1>1. NumBuffers \in Nat /\ None \notin Requests /\ Deferring!IsFiniteSet({"camera"})
  BY NoRequest, FS_Singleton, CameraSessionAssumption DEF IsFiniteSet, Deferring!IsFiniteSet
<1>2. EL!Init => Deferring!Init
  BY DEF EL!Init, Deferring!Init
<1>3. [EL!Next]_(EL!vars) => [Deferring!Next]_(Deferring!vars)
  BY DEF EL!Next, Deferring!Next, EL!CallLater, Deferring!CallLater, EL!Main, Deferring!Main,
     EL!vars, Deferring!vars, EL!PushCallList, Deferring!PushCallList,
     EL!EventBaseOnce, Deferring!EventBaseOnce, EL!AddEvent, Deferring!AddEvent,
     EL!Exec, Deferring!Exec, EL!Exit, Deferring!Exit, EL!Return, Deferring!Return,
     EL!PopCallList, Deferring!PopCallList, EL!InvokeCall, Deferring!InvokeCall
<1>4. Deferring!NoEmptyCall => EL!NoEmptyCall
  BY DEF Deferring!NoEmptyCall, EL!NoEmptyCall
<1>5. Deferring!Init => Deferring!IInv
  BY <1>1, Deferring!InitIInv
<1>6. Deferring!IInv /\ [Deferring!Next]_(Deferring!vars) => Deferring!IInv'
  BY <1>1, Deferring!NextIInv
<1>7. Deferring!IInv => Deferring!NoEmptyCall
  BY DEF Deferring!IInv
<1> QED
  BY <1>2, <1>3, <1>4, <1>5, <1>6, <1>7, LoopWellUsed, PTL DEF EL!Spec
-----------------------------------------------------------------------------
(* The frames in flight, oldest first: flight of Viewfinder. *)
frames == KMS!held \o deferred

(* Each is in flight once. *)
LEMMA FramesOnce ==
  ASSUME IInv
  PROVE  /\ frames \in Seq(Requests) /\ Distinct(frames)
         /\ \A r : In(frames, r) <=> r \in Requests /\ (KMS!Hold(r) \/ InCalls(r) \/ r = call)
<1>1. \A r : ~(In(KMS!held, r) /\ In(deferred, r))
  BY HeldOnce, DeferredOnce DEF IInv, OInv, Apart
<1> QED
  BY <1>1, HeldOnce, DeferredOnce, InConcat DEF frames

(* Taking e out of s \o <<e>> \o t leaves s \o t. *)
Leaves(s, e, t) ==
  LET u == s \o (<<e>> \o t)
      k == Len(s) + 1
  IN  /\ k \in DOMAIN u /\ u[k] = e
      /\ SubSeq(u, 1, k - 1) \o SubSeq(u, k + 1, Len(u)) = s \o t

LEMMA TakenOut ==
  ASSUME NEW S, NEW s \in Seq(S), NEW t \in Seq(S), NEW e \in S
  PROVE  Leaves(s, e, t)
<1> DEFINE v == <<e>> \o t
           u == s \o v
           k == Len(s) + 1
           u1 == SubSeq(u, 1, k - 1)
           u2 == SubSeq(u, k + 1, Len(u))
<1>1. /\ v \in Seq(S) /\ Len(v) = Len(t) + 1 /\ v[1] = e
      /\ \A i \in 1 .. Len(t) : v[i + 1] = t[i]
      /\ Len(s) \in Nat /\ Len(t) \in Nat
  OBVIOUS
<1> HIDE DEF v
<1>2. /\ u \in Seq(S) /\ Len(u) = Len(s) + Len(t) + 1
      /\ \A i \in 1 .. Len(s) : u[i] = s[i]
      /\ \A i \in 1 .. Len(t) + 1 : u[Len(s) + i] = v[i]
  <2>1. u \in Seq(S) /\ Len(u) = Len(s) + Len(v)
        /\ \A i \in 1 .. Len(s) + Len(v) : u[i] = IF i <= Len(s) THEN s[i] ELSE v[i - Len(s)]
    BY <1>1, ConcatProperties
  <2> HIDE DEF u
  <2>2. \A i \in 1 .. Len(t) + 1 : /\ Len(s) + i \in 1 .. Len(s) + Len(v)
                                   /\ ~(Len(s) + i <= Len(s)) /\ (Len(s) + i) - Len(s) = i
    BY <1>1
  <2>3. \A i \in 1 .. Len(t) + 1 : u[Len(s) + i] = v[i]
    BY <2>1, <2>2
  <2>4. \A i \in 1 .. Len(s) : u[i] = s[i]
    BY <1>1, <2>1
  <2> QED
    BY <1>1, <2>1, <2>3, <2>4
<1> HIDE DEF u
<1>3. k \in DOMAIN u /\ u[k] = e
  BY <1>1, <1>2
<1>4. u1 = s
  <2>1. /\ u1 \in Seq(S) /\ Len(u1) = Len(s)
        /\ \A i \in 1 .. Len(s) : u1[i] = u[i]
    BY <1>1, <1>2
  <2> QED
    BY <1>2, <2>1, SeqEqual
<1>5. u2 = t
  <2>1. /\ u2 \in Seq(S) /\ Len(u2) = Len(t)
        /\ \A i \in 1 .. Len(t) : u2[i] = u[Len(s) + (i + 1)]
    BY <1>1, <1>2
  <2>2. \A i \in 1 .. Len(t) : i + 1 \in 1 .. Len(t) + 1
    BY <1>1
  <2> HIDE DEF u2
  <2>3. \A i \in 1 .. Len(t) : u2[i] = t[i]
    BY <1>1, <1>2, <2>1, <2>2
  <2> QED
    BY <2>1, <2>3, SeqEqual
<1> HIDE DEF u1, u2
<1>6. u1 \o u2 = s \o t
  BY <1>4, <1>5
<1> QED
  BY <1>3, <1>6 DEF u, v, u1, u2, Leaves
-----------------------------------------------------------------------------
(* What each step does to the frames in flight. *)
LEMMA ScreenInSink ==
  ASSUME IInv
  PROVE  /\ scanout # None => KMS!Hold(scanout) /\ scanout \in Requests
         /\ call \in Requests => call # scanout
<1>1. scanout \in Requests \union {None}
  BY DEF IInv, OInv, TypeOK, KMS!TypeOK, KMS!MaybeRequest
<1> QED
  BY <1>1, OnScreen, NoRequest DEF IInv, OInv, Apart

(* A completed request is a frame captured: it joins the flight last. *)
LEMMA CaptureStep ==
  ASSUME IInv, CameraComplete
  PROVE  [V!Next]_(V!vars)
<1> DEFINE h == Head(camQueue)
<1>s. /\ calls_ \in Seq(Requests) /\ h \in Requests /\ InCamera(h)
      /\ KMS!Cell(call) \in Seq(Requests)
  <2>1. call \in Requests \union {None}
    BY DEF IInv, OInv, TypeOK, EL!TypeOK
  <2> QED
    BY <2>1, InTail, InCell DEF IInv, OInv, TypeOK, EL!TypeOK, CameraComplete, Apart, InCamera, In
<1>1. UNCHANGED KMS!held /\ UNCHANGED scanout
  BY DEF CameraComplete, sinkVars, kmsVars, KMS!held, KMS!Cell
<1>2. CASE UNCHANGED elVars
  <2>1. UNCHANGED deferred
    BY <1>2 DEF elVars, deferred, KMS!Cell
  <2> QED
    BY <1>1, <2>1 DEF V!vars
<1>3. CASE EL!PushCallList("camera", h)
  <2>1. deferred' = Append(deferred, h)
    <3>1. deferred' = KMS!Cell(call) \o Append(calls_, h)
      BY <1>3 DEF EL!PushCallList, deferred, KMS!Cell
    <3>2. Append(calls_, h) = calls_ \o <<h>> /\ <<h>> \in Seq(Requests)
      BY <1>s, AppendIsConcat
    <3>3. Append(deferred, h) = deferred \o <<h>>
      BY <1>s, DeferredOnce, AppendIsConcat
    <3> QED
      BY <1>s, <3>1, <3>2, <3>3, ConcatAssociative DEF deferred
  <2>2. (KMS!held \o deferred)' = Append(KMS!held \o deferred, h)
    <3>1. (KMS!held \o deferred)' = KMS!held \o Append(deferred, h)
      BY <1>1, <2>1
    <3>2. Append(deferred, h) = deferred \o <<h>> /\ <<h>> \in Seq(Requests)
      BY <1>s, DeferredOnce, AppendIsConcat
    <3>3. Append(KMS!held \o deferred, h) = (KMS!held \o deferred) \o <<h>>
      BY <1>s, HeldOnce, DeferredOnce, AppendIsConcat, ConcatProperties
    <3> QED
      BY <3>1, <3>2, <3>3, HeldOnce, DeferredOnce, ConcatAssociative
  <2>3. ~V!InFlight(h)
    <3>1. ~In(frames, h)
      BY <1>s, FramesOnce DEF IInv, OInv, Apart
    <3> QED
      BY <3>1 DEF V!InFlight, In, frames
  <2>4. V!Capture(h)
    BY <1>1, <2>2, <2>3 DEF V!Capture
  <2> QED
    BY <1>s, <2>4 DEF V!Next
<1> QED
  BY <1>2, <1>3 DEF CameraComplete

(* Dispatching moves a frame on in the flight: Viewfinder does not see it. *)
LEMMA DispatchStep ==
  ASSUME IInv, DispatchCall
  PROVE  UNCHANGED V!vars
<1>s. calls_ \in Seq(Requests) /\ call = None
  BY DEF IInv, OInv, TypeOK, EL!TypeOK, Loop, DispatchCall, EL!PopCallList
<1>1. UNCHANGED KMS!held /\ UNCHANGED scanout
  BY DEF DispatchCall, sinkVars, kmsVars, KMS!held, KMS!Cell
<1>2. UNCHANGED deferred
  <2>1. CASE UNCHANGED <<calls_, call>>
    BY <2>1 DEF deferred, KMS!Cell
  <2>2. CASE calls_ # <<>> /\ call' = Head(calls_) /\ calls_' = Tail(calls_)
    <3>1. deferred = calls_
      BY <1>s, ConcatEmptySeq DEF deferred, KMS!Cell
    <3>2. Head(calls_) # None
      BY <1>s, <2>2, NoRequest
    <3>3. deferred' = <<Head(calls_)>> \o Tail(calls_)
      BY <2>2, <3>2 DEF deferred, KMS!Cell
    <3>4. <<Head(calls_)>> \o Tail(calls_) = calls_
      BY <1>s, <2>2
    <3> QED
      BY <3>1, <3>3, <3>4
  <2> QED
    BY <2>1, <2>2 DEF DispatchCall, EL!PopCallList
<1> QED
  BY <1>1, <1>2 DEF V!vars

(* processRequest() moves it into the sink, or drops it. *)
LEMMA ProcessStep ==
  ASSUME IInv, ProcessRequest
  PROVE  [V!Next]_(V!vars)
<1>s. /\ call \in Requests /\ call # None /\ call' = None /\ calls_' = calls_
      /\ calls_ \in Seq(Requests) /\ <<call>> \in Seq(Requests)
      /\ KMS!Cell(active_) \in Seq(Requests) /\ KMS!Cell(queued_) \in Seq(Requests)
      /\ call # scanout
  <2>1. {active_, queued_, call} \subseteq Requests \union {None} /\ call # None
    BY DEF IInv, OInv, TypeOK, EL!TypeOK, KMS!TypeOK, KMS!MaybeRequest, ProcessRequest, EL!InvokeCall
  <2> QED
    BY <2>1, InCell, ScreenInSink DEF IInv, OInv, TypeOK, EL!TypeOK, ProcessRequest, EL!InvokeCall
<1>1. deferred = <<call>> \o calls_
  BY <1>s DEF deferred, KMS!Cell
<1>2. deferred' = calls_
  <2>1. deferred' = <<>> \o calls_
    BY <1>s DEF deferred, KMS!Cell
  <2> QED
    BY <1>s, <2>1, ConcatEmptySeq
<1>3. CASE KMS!Accept(call)
  <2>1. (KMS!held)' = KMS!held \o <<call>> /\ UNCHANGED scanout
    <3>1. pending_ = None /\ UNCHANGED scanout
      BY <1>3 DEF KMS!Accept, KMS!Dropped
    <3>2. CASE queued_ = None
      <4>1. UNCHANGED <<active_, pending_>> /\ queued_' = call
        BY <1>3, <3>2 DEF KMS!Accept
      <4>2. KMS!held = (KMS!Cell(active_) \o <<>>) \o <<>>
        BY <3>1, <3>2 DEF KMS!held, KMS!Cell
      <4>3. (KMS!held)' = (KMS!Cell(active_) \o <<call>>) \o <<>>
        BY <1>s, <3>1, <4>1 DEF KMS!held, KMS!Cell
      <4> QED
        BY <1>s, <3>1, <4>2, <4>3, ConcatEmptySeq, ConcatProperties
    <3>3. CASE queued_ # None
      <4>1. UNCHANGED <<active_, queued_>> /\ pending_' = call
        BY <1>3, <3>3 DEF KMS!Accept
      <4>2. KMS!held = (KMS!Cell(active_) \o KMS!Cell(queued_)) \o <<>>
        BY <3>1 DEF KMS!held, KMS!Cell
      <4>3. (KMS!held)' = (KMS!Cell(active_) \o KMS!Cell(queued_)) \o <<call>>
        BY <1>s, <4>1 DEF KMS!held, KMS!Cell
      <4> QED
        BY <1>s, <3>1, <4>2, <4>3, ConcatEmptySeq, ConcatProperties
    <3> QED
      BY <3>2, <3>3
  <2>2. (KMS!held)' \o deferred' = KMS!held \o deferred
    BY <1>1, <1>2, <1>s, <2>1, HeldOnce, ConcatAssociative
  <2> QED
    BY <2>1, <2>2 DEF V!vars
<1>4. CASE UNCHANGED kmsVars
  <2>1. UNCHANGED KMS!held /\ UNCHANGED scanout
    BY <1>4 DEF kmsVars, KMS!held, KMS!Cell
  <2> DEFINE h == KMS!held
             k == Len(h) + 1
             u == h \o deferred
  <2>2. /\ k \in DOMAIN u /\ u[k] = call
        /\ SubSeq(u, 1, k - 1) \o SubSeq(u, k + 1, Len(u)) = h \o calls_
    <3>1. h \in Seq(Requests) /\ u = h \o (<<call>> \o calls_)
      BY <1>1, HeldOnce
    <3> HIDE DEF h, u
    <3>2. Leaves(h, call, calls_)
      BY <1>s, <3>1, TakenOut
    <3> QED
      BY <3>1, <3>2 DEF Leaves
  <2>3. V!Return(k)
    BY <1>2, <1>s, <2>1, <2>2 DEF V!Return
  <2> QED
    BY <2>2, <2>3 DEF V!Next
<1> QED
  BY <1>3, <1>4 DEF ProcessRequest

(* The frame shown before leaves the flight when pageFlipComplete() returns it. *)
LEMMA FlipStep ==
  ASSUME IInv, PageFlip
  PROVE  [V!Next]_(V!vars)
<1> DEFINE a == KMS!Cell(active_)
           q == KMS!Cell(queued_)
           p == KMS!Cell(pending_)
<1>s. /\ a \in Seq(Requests) /\ q \in Seq(Requests) /\ p \in Seq(Requests)
      /\ deferred \in Seq(Requests) /\ KMS!RequestComplete
      /\ active_ \in Requests \union {None}
      /\ UNCHANGED deferred /\ UNCHANGED scanout
  <2>1. {active_, queued_, pending_} \subseteq Requests \union {None}
    BY DEF IInv, OInv, TypeOK, KMS!TypeOK, KMS!MaybeRequest
  <2>2. UNCHANGED <<call, calls_, scanout>> /\ KMS!RequestComplete
    BY DEF PageFlip, elVars, KMS!RequestComplete
  <2> QED
    BY <2>1, <2>2, InCell, DeferredOnce DEF deferred, KMS!Cell
<1>1. (KMS!held)' = q \o p
  <2>1. (KMS!held)' = (q \o p) \o <<>>
    BY <1>s DEF KMS!RequestComplete, KMS!held, KMS!Cell
  <2> QED
    BY <1>s, <2>1, ConcatEmptySeq, ConcatProperties
<1>2. KMS!held \o deferred = a \o ((q \o p) \o deferred)
  <2>1. KMS!held = a \o (q \o p)
    BY <1>s, ConcatAssociative DEF KMS!held
  <2>2. q \o p \in Seq(Requests)
    BY <1>s, ConcatProperties
  <2>3. (a \o (q \o p)) \o deferred = a \o ((q \o p) \o deferred)
    <3>1. ASSUME NEW x \in Seq(Requests), NEW y \in Seq(Requests), NEW z \in Seq(Requests)
          PROVE  (x \o y) \o z = x \o (y \o z)
      BY ConcatAssociative
    <3> QED
      BY <1>s, <2>2, <3>1, Zenon
  <2> QED
    BY <2>1, <2>3
<1>3. (KMS!held \o deferred)' = (q \o p) \o deferred
  BY <1>1, <1>s
<1>c. (q \o p) \o deferred \in Seq(Requests)
  BY <1>s, ConcatProperties
<1>4. CASE active_ = None
  <2>1. a = <<>>
    BY <1>4 DEF KMS!Cell
  <2>2. KMS!held \o deferred = (q \o p) \o deferred
    BY <1>2, <1>c, <2>1, ConcatEmptySeq
  <2> QED
    BY <1>3, <1>s, <2>2 DEF V!vars
<1>5. CASE active_ # None
  <2>1. a = <<active_>> /\ active_ \in Requests
    BY <1>5, <1>s DEF KMS!Cell
  <2>2. active_ # scanout
    BY <1>5, <1>s DEF KMS!RequestComplete, IInv, Sink!IInv, Sink!CellsOK, Sink!Phase, Sink!Idle,
       Sink!Committed, Sink!Shown, Sink!Off
  <2> DEFINE t == (q \o p) \o deferred
             u == KMS!held \o deferred
  <2>3. u = <<>> \o (<<active_>> \o t)
    <3>1. <<active_>> \o t \in Seq(Requests)
      BY <1>c, <2>1, ConcatProperties
    <3> QED
      BY <1>2, <2>1, <3>1, ConcatEmptySeq
  <2> HIDE DEF t
  <2>4. /\ 1 \in DOMAIN u /\ u[1] = active_
        /\ SubSeq(u, 1, 1 - 1) \o SubSeq(u, 1 + 1, Len(u)) = t
    <3>1. t \in Seq(Requests) /\ <<>> \in Seq(Requests) /\ Len(<<>>) + 1 = 1 /\ <<>> \o t = t
      BY <1>c, ConcatEmptySeq DEF t
    <3>2. Leaves(<<>>, active_, t)
      BY <2>1, <3>1, TakenOut
    <3> QED
      BY <2>3, <3>1, <3>2 DEF Leaves
  <2>5. V!Return(1)
    BY <1>3, <1>s, <2>2, <2>4 DEF V!Return, t
  <2> QED
    BY <2>4, <2>5 DEF V!Next
<1> QED
  BY <1>4, <1>5

(* The display shows a frame that is in flight, and younger than the last. *)
LEMMA VblankStep ==
  ASSUME IInv, Vblank
  PROVE  [V!Next]_(V!vars)
<1> DEFINE f == KMS!held \o deferred
<1>1. /\ queued_ # None /\ scanout' = queued_ /\ scanout = active_
      /\ UNCHANGED <<call, calls_, KMS!cells>>
  BY DEF Vblank, KMS!Vblank, elVars, KMS!cells, IInv, Sink!IInv, Sink!Phase, Sink!Idle,
     Sink!Committed, Sink!Shown, Sink!Off
<1>2. UNCHANGED f
  BY <1>1 DEF KMS!cells, KMS!held, KMS!Cell, deferred
<1>3. /\ f \in Seq(Requests) /\ Distinct(f) /\ queued_ \in Requests /\ In(f, queued_)
      /\ None \notin Requests
  <2>1. queued_ \in Requests /\ KMS!Hold(queued_)
    BY <1>1 DEF IInv, OInv, TypeOK, KMS!TypeOK, KMS!MaybeRequest, KMS!Hold
  <2> QED
    BY <2>1, FramesOnce, NoRequest DEF frames
<1>4. PICK k \in DOMAIN f : f[k] = queued_
  BY <1>3 DEF In
<1>5. \A j \in k .. Len(f) : f[j] # scanout
  <2>1. CASE active_ = None
    BY <1>1, <1>3, <1>4, <2>1
  <2>2. CASE active_ # None
    <3>1. 1 \in DOMAIN f /\ f[1] = active_
      <4>1. /\ KMS!Cell(queued_) \in Seq(Requests) /\ KMS!Cell(pending_) \in Seq(Requests)
            /\ active_ \in Requests /\ KMS!Cell(active_) = <<active_>> /\ deferred \in Seq(Requests)
        <5>1. {active_, queued_, pending_} \subseteq Requests \union {None}
          BY DEF IInv, OInv, TypeOK, KMS!TypeOK, KMS!MaybeRequest
        <5> QED
          BY <2>2, <5>1, InCell, DeferredOnce DEF KMS!Cell
      <4> DEFINE q == KMS!Cell(queued_)
                 p == KMS!Cell(pending_)
      <4>2. f = ((<<active_>> \o q) \o p) \o deferred
        BY <4>1 DEF KMS!held
      <4> HIDE DEF f, q, p
      <4>3. q \in Seq(Requests) /\ p \in Seq(Requests)
        BY <4>1 DEF q, p
      <4>4. <<active_>> \o q \in Seq(Requests) /\ Len(<<active_>> \o q) > 0
            /\ (<<active_>> \o q)[1] = active_
        BY <4>1, <4>3
      <4> DEFINE aq == <<active_>> \o q
      <4> HIDE DEF aq
      <4>5. aq \o p \in Seq(Requests) /\ Len(aq \o p) > 0 /\ (aq \o p)[1] = active_
        BY <4>3, <4>4 DEF aq
      <4> QED
        BY <4>1, <4>2, <4>5 DEF aq
    <3>2. k # 1
      BY <1>1, <1>4, <2>2, <3>1 DEF IInv, Sink!IInv, Sink!CellsOK
    <3>3. ASSUME NEW j \in k .. Len(f), f[j] = active_ PROVE FALSE
      <4>1. j \in DOMAIN f /\ j # 1
        BY <1>3, <1>4, <3>2
      <4> QED
        BY <1>3, <3>1, <3>3, <4>1 DEF Distinct
    <3> QED
      BY <1>1, <3>3
  <2> QED
    BY <2>1, <2>2
<1>6. V!Show(k)
  BY <1>1, <1>2, <1>4, <1>5 DEF V!Show
<1> QED
  BY <1>4, <1>6 DEF V!Next

(* The screen goes dark: what the sink held is let go. *)
LEMMA OffStep ==
  ASSUME IInv, UNCHANGED <<call, calls_>>, scanout' = None,
         pending_' = None, queued_' = None, active_' = None
  PROVE  V!Next
<1> DEFINE h == KMS!held
           f == h \o deferred
<1>1. /\ h \in Seq(Requests) /\ deferred \in Seq(Requests) /\ UNCHANGED deferred
  BY HeldOnce, DeferredOnce DEF deferred, KMS!Cell
<1>2. h' = <<>>
  <2>1. h' = (<<>> \o <<>>) \o <<>>
    BY DEF KMS!held, KMS!Cell
  <2> QED
    BY <2>1
<1>3. (h \o deferred)' = deferred
  BY <1>1, <1>2, ConcatEmptySeq
<1> DEFINE d == deferred
           u == SubSeq(f, Len(h) + 1, Len(f))
<1> HIDE DEF h, d
<1>4. h \in Seq(Requests) /\ d \in Seq(Requests) /\ Len(h) \in Nat /\ Len(d) \in Nat
  BY <1>1 DEF d
<1>5. /\ h \o d \in Seq(Requests) /\ Len(h \o d) = Len(h) + Len(d)
      /\ \A i \in 1 .. Len(d) : (h \o d)[Len(h) + i] = d[i]
  <2>1. \A i \in 1 .. Len(h) + Len(d) : (h \o d)[i] = IF i <= Len(h) THEN h[i] ELSE d[i - Len(h)]
    BY <1>4, ConcatProperties
  <2>2. \A i \in 1 .. Len(d) : /\ Len(h) + i \in 1 .. Len(h) + Len(d)
                               /\ ~(Len(h) + i <= Len(h)) /\ (Len(h) + i) - Len(h) = i
    BY <1>4
  <2>3. \A i \in 1 .. Len(d) : (h \o d)[Len(h) + i] = d[i]
    BY <2>1, <2>2
  <2> QED
    BY <1>4, <2>3, ConcatProperties
<1>6. SubSeq(h \o d, Len(h) + 1, Len(h \o d)) = d
  <2> DEFINE c == h \o d
             w == SubSeq(c, Len(h) + 1, Len(c))
  <2> HIDE DEF c
  <2>1. c \in Seq(Requests) /\ Len(c) = Len(h) + Len(d)
        /\ \A i \in 1 .. Len(d) : c[Len(h) + i] = d[i]
    BY <1>5 DEF c
  <2>2. w \in Seq(Requests) /\ Len(w) = Len(d) /\ \A i \in 1 .. Len(d) : w[i] = c[Len(h) + i]
    BY <1>4, <2>1
  <2>3. \A i \in 1 .. Len(w) : w[i] = d[i]
    BY <2>1, <2>2
  <2> HIDE DEF w
  <2>4. w = d
    BY <1>4, <2>2, <2>3, SeqEqual
  <2> QED
    BY <2>4 DEF w, c
<1>7. Len(h) \in 0 .. Len(h \o d)
  BY <1>4, <1>5
<1>8. V!Off
  BY <1>3, <1>6, <1>7 DEF V!Off, h, d
<1> QED
  BY <1>8 DEF V!Next

(* ShowsInOrder: the program implements Viewfinder for any number of buffers, any
   sink and any failure: frames are shown in the order they were captured, none
   after a younger one, and none is given back while it is on the screen. *)
THEOREM ImplementsViewfinder == Spec => ShowsInOrder
<1>1. Init => V!Init
  <2> SUFFICES ASSUME Init PROVE V!Init
    OBVIOUS
  <2>1. KMS!held = (<<>> \o <<>>) \o <<>> /\ deferred = <<>> \o <<>>
    BY DEF Init, EL!Init, KMS!Init, KMS!held, KMS!Cell, deferred
  <2>2. KMS!held \o deferred = <<>>
    BY <2>1
  <2> QED
    BY <2>2 DEF Init, KMS!Init, V!Init
<1>2. IInv /\ [Next]_vars => [V!Next]_(V!vars)
  <2> SUFFICES ASSUME IInv, [Next]_vars PROVE [V!Next]_(V!vars)
    OBVIOUS
  <2>1. CASE UNCHANGED <<call, calls_, KMS!cells, scanout>>
    <3>1. UNCHANGED (KMS!held \o deferred)
      BY <2>1 DEF KMS!cells, KMS!held, KMS!Cell, deferred
    <3> QED
      BY <2>1, <3>1 DEF V!vars
  <2>2. CASE StopSink
    <3>1. CASE UNCHANGED kmsVars
      BY <2>1, <2>2, <3>1 DEF StopSink, elVars, kmsVars, KMS!cells
    <3>2. CASE KMS!Stop
      <4>1. CASE UNCHANGED <<buffers_, KMS!cells, KMS!kernel>>
        BY <2>1, <2>2, <4>1 DEF StopSink, elVars, KMS!cells, KMS!kernel
      <4>2. CASE pending_' = None /\ queued_' = None /\ active_' = None /\ scanout' = None
        BY <2>2, <4>2, OffStep DEF StopSink, elVars
      <4> QED
        BY <3>2, <4>1, <4>2 DEF KMS!Stop
    <3> QED
      BY <2>2, <3>1, <3>2 DEF StopSink
  <2>3. CASE ResetSink
    BY <2>3, OffStep DEF ResetSink, KMS!Destroy, elVars
  <2>4. CASE StartSession \/ CreateRequest \/ StartSink \/ StartCamera \/ QueueNext \/ Exec
               \/ Return \/ StopCamera \/ FreeBuffers \/ CameraCrash \/ CameraDeferred \/ Interrupt
               \/ CloseWindow
               \/ Done \/ UNCHANGED vars
    BY <2>1, <2>4
    DEF StartSession, CreateRequest, StartSink, StartCamera, QueueNext, Exec, Return, StopCamera,
        FreeBuffers, CameraCrash, CameraDeferred, Interrupt, CloseWindow, Done, vars, elVars, kmsVars,
        sinkVars, EL!AddEvent, EL!Exec, EL!Return, EL!EventBaseOnce, EL!Exit, KMS!Configure, KMS!MapBuffer,
        KMS!Start, KMS!cells, KMS!kernel
  <2> QED
    BY <2>2, <2>3, <2>4, CaptureStep, DispatchStep, ProcessStep, FlipStep, VblankStep
    DEF Next, Startup, Capture, Shutdown, Camera
<1> QED
  BY <1>1, <1>2, Invariance, PTL DEF Spec, ShowsInOrder, V!Spec
=============================================================================
