--------------------------- MODULE KMSSinkProofs ---------------------------
(***************************************************************************)
(* Safety of KMSSink for any set of requests and any set of failures.      *)
(*                                                                         *)
(* The properties are not inductive: they say nothing of how the three     *)
(* cells and the kernel are related.  IInv does: at any time the display   *)
(* is in one of three phases of showing the queued request.                *)
(***************************************************************************)
EXTENDS KMSSink, TLAPS

(* Nothing is committed, or the commit of the queued request failed. *)
Idle == flip = None /\ events = <<>> /\ scanout = active_

(* The queued request is committed and waits for the next refresh. *)
Committed == queued_ # None /\ flip = queued_ /\ events = <<>> /\ scanout = active_

(* It is on the screen, and its event is not read. *)
Shown == queued_ # None /\ flip = None /\ events = <<queued_>> /\ scanout = queued_

(* stop() succeeded: at most a stale event is left. *)
Off ==
  /\ sinkAt = "stopped"
  /\ pending_ = None /\ queued_ = None /\ active_ = None
  /\ flip = None /\ scanout = None

Phase == Idle \/ Committed \/ Shown \/ Off

(* The cells fill in order and hold different requests. *)
CellsOK ==
  /\ pending_ # None => queued_ # None
  /\ pending_ # None => pending_ # queued_ /\ pending_ # active_
  /\ queued_ # None => queued_ # active_

(* The sink holds nothing before it starts. *)
FreshOK ==
  sinkAt \in {"new", "configured", "gone"} =>
    pending_ = None /\ queued_ = None /\ active_ = None

IInv == TypeOK /\ CellsOK /\ FreshOK /\ Phase

(* The initial state satisfies the invariant. *)
LEMMA InitIInv == Init => IInv
  BY DEF Init, IInv, TypeOK, CellsOK, FreshOK, Phase, Idle, MaybeRequest

(* Every operation, whatever fails in it, preserves the types. *)
LEMMA NextTypeOK == TypeOK /\ [Next]_vars => TypeOK'
<1> SUFFICES ASSUME TypeOK, [Next]_vars PROVE TypeOK'
  OBVIOUS
<1> USE DEF TypeOK, MaybeRequest
<1>1. CASE Configure
  BY <1>1 DEF Configure, cells, kernel
<1>2. ASSUME NEW r \in Requests, MapBuffer(r) PROVE TypeOK'
  BY <1>2 DEF MapBuffer, cells, kernel
<1>3. CASE Start
  BY <1>3 DEF Start, cells, kernel
<1>4. ASSUME NEW r \in Requests, Accept(r) PROVE TypeOK'
  BY <1>4 DEF Accept, Commit
<1>5. CASE RequestComplete
  <2>1. events' \in Seq(Requests)
    BY <1>5 DEF RequestComplete
  <2>2. flip' \in MaybeRequest
    BY <1>5 DEF RequestComplete, Commit
  <2> QED
    BY <1>5, <2>1, <2>2 DEF RequestComplete
<1>6. CASE Stop
  <2>1. events' \in Seq(Requests)
    BY <1>6 DEF Stop, kernel
  <2> QED
    BY <1>6, <2>1 DEF Stop, cells, kernel
<1>7. CASE Destroy
  BY <1>7 DEF Destroy
<1>8. CASE Vblank
  BY <1>8 DEF Vblank, cells
<1>9. CASE UNCHANGED vars
  BY <1>9 DEF vars, cells, kernel
<1> QED
  BY <1>1, <1>2, <1>3, <1>4, <1>5, <1>6, <1>7, <1>8, <1>9 DEF Next

(* Every operation preserves the relation between the cells and the
   display. *)
LEMMA NextIInv == IInv /\ [Next]_vars => IInv'
<1> SUFFICES ASSUME IInv, [Next]_vars PROVE IInv'
  OBVIOUS
<1>t. TypeOK'
  BY NextTypeOK DEF IInv
<1> SUFFICES (CellsOK /\ FreshOK /\ Phase)'
  BY <1>t DEF IInv
<1> USE DEF IInv, CellsOK, FreshOK, Phase, Idle, Committed, Shown, Off
<1>1. CASE Configure
  BY <1>1 DEF Configure, cells, kernel
<1>2. ASSUME NEW r \in Requests, MapBuffer(r)
      PROVE  (CellsOK /\ FreshOK /\ Phase)'
  BY <1>2 DEF MapBuffer, cells, kernel
<1>3. CASE Start
  BY <1>3 DEF Start, cells, kernel
<1>4. ASSUME NEW r \in Requests, ~Hold(r), Accept(r)
      PROVE  (CellsOK /\ FreshOK /\ Phase)'
  <2>1. CASE queued_ = None
    <3>1. Idle
      BY <1>4, <2>1 DEF Accept
    <3>2. pending_ = None /\ r # None
      BY <1>4, <2>1, KMSSinkAssumption DEF Accept, Dropped
    <3> QED
      BY <1>4, <2>1, <3>1, <3>2 DEF Accept, Commit, Hold
  <2>2. CASE queued_ # None
    BY <1>4, <2>2, KMSSinkAssumption DEF Accept, Hold
  <2> QED
    BY <2>1, <2>2
<1>5. CASE sinkAt # "stopped" /\ RequestComplete
  <2>1. Shown
    BY <1>5 DEF RequestComplete
  <2>2. events' = <<>> /\ scanout' = active_'
    BY <1>5, <2>1 DEF RequestComplete
  <2>3. flip' = None \/ (flip' = queued_' /\ queued_' # None)
    BY <1>5, <2>1 DEF RequestComplete, Commit
  <2>4. (CellsOK /\ FreshOK)'
    BY <1>5, <2>1 DEF RequestComplete
  <2> QED
    BY <2>2, <2>3, <2>4
<1>6. CASE Stop
  BY <1>6 DEF Stop, cells, kernel
<1>7. CASE Destroy
  BY <1>7 DEF Destroy
<1>8. CASE Vblank
  <2>1. Committed
    BY <1>8 DEF Vblank
  <2>2. events' = <<queued_>>
    BY <1>8, <2>1 DEF Vblank
  <2> QED
    BY <1>8, <2>1, <2>2 DEF Vblank, cells
<1>9. CASE UNCHANGED vars
  BY <1>9 DEF vars, cells, kernel
<1> QED
  BY <1>1, <1>2, <1>3, <1>4, <1>5, <1>6, <1>7, <1>8, <1>9 DEF Next

(* The relation holds for ever. *)
LEMMA Invariance == Spec => []IInv
  BY InitIInv, NextIInv, PTL DEF Spec

(* The sink's variables keep their types. *)
THEOREM TypeCorrect == Spec => []TypeOK
<1>1. IInv => TypeOK
  BY DEF IInv
<1> QED
  BY <1>1, Invariance, PTL

(* The assert at kms_sink.cpp:287 never fires while the loop may run. *)
THEOREM AssertHolds == Spec => []FlipMatchesQueued
<1>1. IInv => FlipMatchesQueued
  BY DEF IInv, FlipMatchesQueued, Phase, Idle, Committed, Shown, Off
<1> QED
  BY <1>1, Invariance, PTL

(* No commit comes while a flip is outstanding, with any number of buffers
   and any failures: neither ignored result can be EBUSY. *)
THEOREM CommitsInTime == Spec => []NeverBusy
<1>1. IInv => NeverBusy
  BY DEF IInv, NeverBusy, Phase, Idle, Committed, Shown, Off
<1> QED
  BY <1>1, Invariance, PTL

(* The sink owns what is on the screen or about to be. *)
THEOREM ScreenSafe == Spec => []ScreenHeld
<1>1. IInv => ScreenHeld
  BY KMSSinkAssumption
  DEF IInv, ScreenHeld, Hold, Phase, Idle, Committed, Shown, Off
<1> QED
  BY <1>1, Invariance, PTL
-----------------------------------------------------------------------------
(* What stop() leaves when its commit cannot fail. *)
StopClean ==
  sinkAt = "stopped" => pending_ = None /\ queued_ = None /\ active_ = None

(* Without a failing commit stop() leaves no request behind. *)
LEMMA StopCleanInvariance ==
  ASSUME "stopCommit" \notin Faults
  PROVE  Spec => []StopClean
<1>1. Init => StopClean
  BY DEF Init, StopClean
<1>2. ASSUME StopClean, [Next]_vars PROVE StopClean'
  BY <1>2 DEF StopClean, Next, vars, cells, kernel, Configure, MapBuffer, Start,
              Accept, RequestComplete, Stop, Destroy, Vblank
<1> QED
  BY <1>1, <1>2, PTL DEF Spec

(* Every element of the sequence is in one of the cells. *)
LEMMA HeldInCells == \A k \in DOMAIN held : Hold(held[k])
<1>1. CASE active_ = None
  <2>1. CASE queued_ = None
    BY <1>1, <2>1 DEF held, Cell, Hold
  <2>2. CASE queued_ # None
    BY <1>1, <2>2 DEF held, Cell, Hold
  <2> QED
    BY <2>1, <2>2
<1>2. CASE active_ # None
  <2>1. CASE queued_ = None
    BY <1>2, <2>1 DEF held, Cell, Hold
  <2>2. CASE queued_ # None /\ pending_ = None
    BY <1>2, <2>2 DEF held, Cell, Hold
  <2>3. CASE queued_ # None /\ pending_ # None
    BY <1>2, <2>3 DEF held, Cell, Hold
  <2> QED
    BY <2>1, <2>2, <2>3
<1> QED
  BY <1>1, <1>2

(* A request is accepted at the end of the sequence. *)
LEMMA AcceptAppends ==
  ASSUME IInv, NEW r \in Requests, ~Hold(r), Accept(r)
  PROVE  held' = Append(held, r)
<1>1. pending_ = None /\ r # None /\ active_' = active_
  BY KMSSinkAssumption DEF Accept, Dropped
<1>2. CASE queued_ = None
  <2>1. queued_' = r /\ pending_' = None
    BY <1>1, <1>2 DEF Accept
  <2> QED
    BY <1>1, <1>2, <2>1 DEF held, Cell
<1>3. CASE queued_ # None
  <2>1. queued_' = queued_ /\ pending_' = r
    BY <1>1, <1>3 DEF Accept
  <2> QED
    BY <1>1, <1>3, <2>1 DEF held, Cell
<1> QED
  BY <1>2, <1>3

(* A flip gives back the head of the sequence, or nothing the first time. *)
LEMMA FlipReleases ==
  ASSUME IInv, RequestComplete, sinkAt # "stopped"
  PROVE  IF active_ = None THEN held' = held ELSE held # <<>> /\ held' = Tail(held)
<1>1. queued_ # None /\ active_' = queued_ /\ queued_' = pending_ /\ pending_' = None
  BY DEF RequestComplete, IInv, Phase, Idle, Committed, Shown, Off
<1> QED
  BY <1>1 DEF held, Cell

(* KMSSink implements FrameSink, for any requests and any failures but that
   of the commit in stop(). *)
THEOREM Refinement ==
  ASSUME "stopCommit" \notin Faults
  PROVE  Spec => ImplementsFrameSink
<1>1. Init => Contract!Init
  BY DEF Init, Contract!Init, held, Cell
<1>2. ASSUME IInv, StopClean, [Next]_vars PROVE [Contract!Next]_(Contract!vars)
  <2> USE DEF Contract!vars
  <2>0. ASSUME UNCHANGED cells PROVE held' = held
    BY <2>0 DEF cells, held, Cell
  <2>1. CASE Configure
    BY <1>2, <2>0, <2>1 DEF Configure
  <2>2. ASSUME NEW r \in Requests, MapBuffer(r) PROVE [Contract!Next]_(Contract!vars)
    BY <1>2, <2>0, <2>2 DEF MapBuffer
  <2>3. CASE Start
    <3>1. held = <<>>
      BY <1>2, <2>3 DEF Start, IInv, FreshOK, held, Cell
    <3> QED
      BY <2>0, <2>3, <3>1 DEF Start, Contract!Next, Contract!Start
  <2>4. ASSUME NEW r \in Requests, ~Hold(r), Accept(r)
        PROVE  [Contract!Next]_(Contract!vars)
    <3>1. Contract!Accept(r)
      BY <1>2, <2>4, AcceptAppends, HeldInCells DEF Accept, Contract!Accept
    <3> QED
      BY <3>1 DEF Contract!Next
  <2>5. CASE sinkAt # "stopped" /\ RequestComplete
    <3>1. sinkAt' = sinkAt
      BY <2>5 DEF RequestComplete
    <3>2. sinkAt = "started"
      BY <1>2, <2>5
      DEF RequestComplete, IInv, TypeOK, FreshOK, Phase, Idle, Committed, Shown, Off
    <3> QED
      BY <1>2, <2>5, <3>1, <3>2, FlipReleases DEF Contract!Next, Contract!Release
  <2>6. CASE Stop
    BY <1>2, <2>6 DEF Stop, held, Cell, Contract!Next, Contract!Stop
  <2>7. CASE sinkAt \in {"new", "configured", "stopped"} /\ Destroy
    <3>1. held = <<>> /\ held' = <<>>
      BY <1>2, <2>7 DEF Destroy, IInv, FreshOK, StopClean, held, Cell
    <3> QED
      BY <2>7, <3>1 DEF Destroy
  <2>8. CASE Vblank
    BY <1>2, <2>0, <2>8 DEF Vblank
  <2>9. CASE UNCHANGED vars
    BY <1>2, <2>0, <2>9 DEF vars
  <2> QED
    BY <1>2, <2>1, <2>2, <2>3, <2>4, <2>5, <2>6, <2>7, <2>8, <2>9 DEF Next
<1> QED
  BY <1>1, <1>2, Invariance, StopCleanInvariance, PTL
  DEF Spec, ImplementsFrameSink, Contract!Spec
=============================================================================
