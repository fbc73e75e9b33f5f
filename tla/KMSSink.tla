------------------------------ MODULE KMSSink ------------------------------
(***************************************************************************)
(* The DRM/KMS sink: src/kms_sink.cpp over the atomic requests and the     *)
(* page flip events of src/drm.cpp.  Every operation runs on the main      *)
(* thread; the display runs by itself.                                     *)
(*                                                                         *)
(* A camera request the sink accepts goes through three cells: pending_    *)
(* (waiting for its turn), queued_ (committed, flip expected) and active_  *)
(* (its flip was reported).  A cell is named by the camera request it      *)
(* holds; that also names its AtomicRequest, the user data of the flip     *)
(* event.                                                                  *)
(***************************************************************************)
EXTENDS Integers, Sequences

CONSTANTS
  Requests,   \* the camera requests, one buffer each
  None,       \* no request
  Faults      \* failures admitted: "configure", "map", "commit", "stopCommit"

ASSUME KMSSinkAssumption == None \notin Requests

VARIABLES
  sinkAt,     \* "new", "configured", "started", "stopped", then "gone"
  buffers_,   \* requests whose buffer has a DRM frame buffer
  pending_, queued_, active_,
  flip,       \* kernel: the request committed and not on the screen yet
  scanout,    \* kernel: the request whose buffer is on the screen
  events      \* kernel: flip events the main thread has not read

cells == <<pending_, queued_, active_>>
kernel == <<flip, scanout, events>>
vars == <<sinkAt, buffers_, cells, kernel>>

MaybeRequest == Requests \union {None}

Init ==
  /\ sinkAt = "new"
  /\ buffers_ = {}
  /\ pending_ = None /\ queued_ = None /\ active_ = None
  /\ flip = None /\ scanout = None /\ events = <<>>
-----------------------------------------------------------------------------
(* An atomic commit with FlagAsync.  The kernel refuses one while a flip is
   outstanding (EBUSY), and the request may be invalid or refused for its
   content; no caller looks at the result. *)
Commit(r) ==
  \/ flip = None /\ flip' = r
  \/ (flip # None \/ "commit" \in Faults) /\ UNCHANGED flip

(* No connector, or no pipeline for the format: the sink is of no use. *)
Configure ==
  /\ sinkAt = "new"
  /\ \/ sinkAt' = "configured"
     \/ "configure" \in Faults /\ UNCHANGED sinkAt
  /\ UNCHANGED <<buffers_, cells, kernel>>

(* Mutant of MapBuffer: the frame buffer is stored without looking at it. *)
MapBufferUnchecked(r) ==
  /\ sinkAt = "configured"
  /\ \/ buffers_' = buffers_ \union {r}
     \/ "map" \in Faults /\ buffers_' = buffers_ \union {None}
  /\ UNCHANGED <<sinkAt, cells, kernel>>

(* A buffer the device cannot import is silently left out. *)
MapBuffer(r) ==
  /\ sinkAt = "configured"
  /\ \/ buffers_' = buffers_ \union {r}
     \/ "map" \in Faults /\ UNCHANGED buffers_
  /\ UNCHANGED <<sinkAt, cells, kernel>>

(* KMSSink inherits FrameSink::start(), which does nothing. *)
Start ==
  /\ sinkAt = "configured"
  /\ sinkAt' = "started"
  /\ UNCHANGED <<buffers_, cells, kernel>>

(* Mutant of Dropped: there is no rate adaptation. *)
DroppedUnmapped(r) == r \notin buffers_

(* processRequest() returns true: the caller keeps the request. *)
Dropped(r) == pending_ # None \/ r \notin buffers_

(* Mutant of Accept: every request is committed at once. *)
AcceptEager(r) ==
  /\ sinkAt = "started"
  /\ ~Dropped(r)
  /\ Commit(r) /\ queued_' = r /\ UNCHANGED pending_
  /\ UNCHANGED <<sinkAt, buffers_, active_, scanout, events>>

(* processRequest() returns false.  queued_ is set whether or not the
   commit succeeded. *)
Accept(r) ==
  /\ sinkAt = "started"
  /\ ~Dropped(r)
  /\ IF queued_ = None
     THEN Commit(r) /\ queued_' = r /\ UNCHANGED pending_
     ELSE pending_' = r /\ UNCHANGED <<queued_, flip>>
  /\ UNCHANGED <<sinkAt, buffers_, active_, scanout, events>>

(* Mutant of RequestComplete: the pending request is committed, not queued. *)
RequestCompleteUnqueued ==
  /\ events # <<>>
  /\ queued_ = Head(events)
  /\ events' = Tail(events)
  /\ active_' = queued_
  /\ queued_' = None
  /\ IF pending_ = None THEN UNCHANGED flip ELSE Commit(pending_)
  /\ UNCHANGED <<sinkAt, buffers_, pending_, scanout>>

(* Mutant of RequestComplete: the cells move in the wrong order. *)
RequestCompleteSwapped ==
  /\ events # <<>>
  /\ queued_ = Head(events)
  /\ events' = Tail(events)
  /\ active_' = pending_
  /\ queued_' = None
  /\ pending_' = None
  /\ IF pending_ = None THEN UNCHANGED flip ELSE Commit(pending_)
  /\ UNCHANGED <<sinkAt, buffers_, scanout>>

(* The handler of a page flip event; it emits requestProcessed(active_)
   when there is one.  The second conjunct is the assert of the code. *)
RequestComplete ==
  /\ events # <<>>
  /\ queued_ = Head(events)
  /\ events' = Tail(events)
  /\ active_' = queued_
  /\ queued_' = pending_
  /\ pending_' = None
  /\ IF pending_ = None THEN UNCHANGED flip ELSE Commit(pending_)
  /\ UNCHANGED <<sinkAt, buffers_, scanout>>

(* stop() turns the pipeline off with a blocking commit, which waits for the
   outstanding flip.  If that commit fails it returns at once. *)
Stop ==
  /\ sinkAt = "started"
  /\ sinkAt' = "stopped"
  /\ \/ /\ pending_' = None /\ queued_' = None /\ active_' = None
        /\ buffers_' = {}
        /\ scanout' = None
        /\ flip' = None
        /\ events' = IF flip = None THEN events ELSE Append(events, flip)
     \/ "stopCommit" \in Faults /\ UNCHANGED <<buffers_, cells, kernel>>

(* The destructor: the frame buffers are removed, which turns off a plane
   that shows one, and closing the device drops its unread events. *)
Destroy ==
  /\ sinkAt' = "gone"
  /\ buffers_' = {}
  /\ pending_' = None /\ queued_' = None /\ active_' = None
  /\ flip' = None /\ scanout' = None /\ events' = <<>>

(* The display takes the committed buffer and reports the flip. *)
Vblank ==
  /\ flip # None
  /\ scanout' = flip
  /\ flip' = None
  /\ events' = Append(events, flip)
  /\ UNCHANGED <<sinkAt, buffers_, cells>>
-----------------------------------------------------------------------------
(* The requests the sink owns, oldest first. *)
Cell(r) == IF r = None THEN <<>> ELSE <<r>>
held == Cell(active_) \o Cell(queued_) \o Cell(pending_)

(***************************************************************************)
(* By itself the sink meets any caller that hands it requests it does not  *)
(* own, reads flip events until it calls stop(), and destroys the sink     *)
(* when it is done with it.                                                *)
(***************************************************************************)
Hold(r) == r \in {pending_, queued_, active_}

Next ==
  \/ Configure
  \/ \E r \in Requests : MapBuffer(r)
  \/ Start
  \/ \E r \in Requests : ~Hold(r) /\ Accept(r)
  \/ sinkAt # "stopped" /\ RequestComplete
  \/ Stop
  \/ sinkAt \in {"new", "configured", "stopped"} /\ Destroy
  \/ Vblank

Spec == Init /\ [][Next]_vars

(* The display refreshes and the main loop reads the device. *)
Fairness == WF_vars(Vblank) /\ WF_vars(sinkAt # "stopped" /\ RequestComplete)

FairSpec == Spec /\ Fairness
-----------------------------------------------------------------------------
(* Every variable holds a value of its kind. *)
TypeOK ==
  /\ sinkAt \in {"new", "configured", "started", "stopped", "gone"}
  /\ buffers_ \subseteq Requests
  /\ {pending_, queued_, active_, flip, scanout} \subseteq MaybeRequest
  /\ events \in Seq(Requests)

(* The assert at kms_sink.cpp:287 cannot fire while the loop may run: a flip
   event is that of the queued request, whatever failed before. *)
FlipMatchesQueued ==
  events # <<>> /\ sinkAt # "stopped" => queued_ = Head(events)

(* Wherever the sink may commit (it has no queued request, or the event of
   that request is waiting) no flip is outstanding, so neither of the two
   commits whose result is ignored can be refused for being too early. *)
NeverBusy ==
  sinkAt = "started" /\ (queued_ = None \/ events # <<>>) => flip = None

(* The camera never writes into a buffer on the screen or about to be: it is
   one the sink still owns (kms_sink.cpp:290 gives back active_ only). *)
ScreenHeld ==
  \A r \in Requests : r \in {flip, scanout} => Hold(r)

(* KMSSink is a FrameSink: it takes and gives back requests in order, each
   once, and stop() leaves none behind, as frame_sink.cpp:56-57 asks, unless
   its commit fails (kms_sink.cpp:215). *)
Contract == INSTANCE FrameSink WITH running <- sinkAt = "started"

ImplementsFrameSink == Contract!Spec

(* Every accepted request but the newest is given back, or the sink is
   stopped: the newest stays on the screen until another replaces it. *)
FramesMove ==
  \A r \in Requests :
    (\E k \in DOMAIN held : held[k] = r /\ k < Len(held))
      ~> ~Hold(r) \/ sinkAt = "stopped"
=============================================================================
