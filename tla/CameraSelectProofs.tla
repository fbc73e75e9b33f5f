------------------------- MODULE CameraSelectProofs -------------------------
(***************************************************************************)
(* The safety of CameraSelect for any number of processes and cameras: a   *)
(* camera is held by the session that has it in camera_, and by no other.  *)
(* The invariant that makes this inductive ties the steps of init() to     *)
(* what they rely on: from acquire() on camera_ is a camera, and from      *)
(* generateConfiguration() on it is held.                                  *)
(*                                                                         *)
(* And why the walk skips no camera that would do, which relates what a    *)
(* session passed long ago to what the others hold, or held, since.        *)
(***************************************************************************)
EXTENDS CameraSelect, FiniteSetTheorems, TLAPS

Labels == {"run", "size", "index", "acquire", "generate", "validate",
           "ready", "failed", "overrun", "gone"}

(* Between two cameras nothing is held, after acquire() camera_ is. *)
Holding == {"generate", "validate", "ready"}

HeldWhenNeeded ==
  \A s \in Sessions :
    pc[s] \in Holding => camera_[s] \in Cameras /\ owner[camera_[s]] = s

Configured ==
  \A s \in Sessions : pc[s] = "ready" => config_[s] = camera_[s]

IInv == TypeOK /\ HoldsCurrent /\ HeldWhenNeeded /\ Configured
-----------------------------------------------------------------------------
LEMMA BootCameras == Boot \in Seq(Cameras)
  BY CameraSelectAssumption

LEMMA InitIInv == Init => IInv
<1> SUFFICES ASSUME Init PROVE IInv
  OBVIOUS
<1>1. TypeOK
  BY CameraSelectAssumption DEF Init, TypeOK
<1> QED
  BY <1>1, CameraSelectAssumption
  DEF Init, IInv, HoldsCurrent, HeldWhenNeeded, Configured, Holding
-----------------------------------------------------------------------------
(* Releasing what s holds leaves the others what they hold. *)
LEMMA ReleasedOthers ==
  ASSUME TypeOK, NEW s \in Sessions
  PROVE  /\ Released(s) \in [Cameras -> Sessions \union {None}]
         /\ \A c \in Cameras : Released(s)[c] # s
         /\ \A c \in Cameras, t \in Sessions \ {s} : Released(s)[c] = t <=> owner[c] = t
  BY CameraSelectAssumption DEF Released, TypeOK

(* A step of s that takes it to a label where nothing is held, and that
   changes no other session. *)
LEMMA LetGo ==
  ASSUME IInv, NEW s \in Sessions,
         owner' = Released(s),
         camera_' = [camera_ EXCEPT ![s] = None],
         config_' \in {config_, [config_ EXCEPT ![s] = None]},
         \/ Refused(s)
         \/ Goto(s, "gone") /\ UNCHANGED i,
         UNCHANGED <<world, list, denied>>
  PROVE  IInv'
<1>1. /\ \A t \in Sessions \ {s} : pc'[t] = pc[t]
      /\ pc'[s] \in {"size", "failed", "gone"}
      /\ pc' \in [Sessions -> Labels]
      /\ i' \in [Sessions -> Nat]
  <2>1. PICK l \in {"size", "failed", "gone"} : pc' = [pc EXCEPT ![s] = l]
    BY DEF Refused, Goto
  <2>2. pc \in [Sessions -> Labels] /\ i \in [Sessions -> Nat]
    BY DEF IInv, TypeOK, Labels
  <2>3. i' \in {i, [i EXCEPT ![s] = @ + 1]}
    BY DEF Refused
  <2>4. i' \in [Sessions -> Nat]
    BY <2>2, <2>3
  <2> QED
    BY <2>1, <2>2, <2>4 DEF Labels
<1>2. /\ camera_' \in [Sessions -> Cameras \union {None}]
      /\ camera_'[s] = None
      /\ \A t \in Sessions \ {s} : camera_'[t] = camera_[t] /\ config_'[t] = config_[t]
      /\ config_' \in [Sessions -> Cameras \union {None}]
  BY DEF IInv, TypeOK
<1>3. TypeOK'
  BY <1>1, <1>2, ReleasedOthers DEF IInv, TypeOK, world, Labels
<1>4. HoldsCurrent'
  BY <1>1, <1>2, ReleasedOthers DEF IInv, HoldsCurrent
<1>5. HeldWhenNeeded'
  <2> SUFFICES ASSUME NEW t \in Sessions, pc'[t] \in Holding
               PROVE  camera_'[t] \in Cameras /\ owner'[camera_'[t]] = t
    BY DEF HeldWhenNeeded
  <2>1. t # s /\ pc[t] \in Holding
    BY <1>1 DEF Holding
  <2>2. camera_[t] \in Cameras /\ owner[camera_[t]] = t
    BY <2>1 DEF IInv, HeldWhenNeeded
  <2> QED
    BY <1>2, <2>1, <2>2, ReleasedOthers DEF IInv
<1>6. Configured'
  BY <1>1, <1>2 DEF IInv, Configured
<1> QED
  BY <1>3, <1>4, <1>5, <1>6 DEF IInv

(* A step of s among labels where nothing is held, or none of s at all. *)
LEMMA Idle ==
  ASSUME IInv, NEW s \in Sessions,
         TypeOK', owner' = owner, config_' = config_,
         pc[s] \notin Holding, pc'[s] \notin Holding,
         \A t \in Sessions \ {s} : pc'[t] = pc[t] /\ camera_'[t] = camera_[t]
  PROVE  IInv'
<1>1. \A c \in Cameras : owner[c] # s
  BY DEF IInv, HoldsCurrent, Holding
<1> QED
  BY <1>1 DEF IInv, HoldsCurrent, HeldWhenNeeded, Configured, Holding

LEMMA CursorInList ==
  ASSUME TypeOK, NEW s \in Sessions, Cursor(s) < Len(list[s])
  PROVE  list[s][Cursor(s) + 1] \in Cameras
<1>1. list[s] \in Seq(Cameras)
  BY DEF TypeOK
<1>2. option[s] \in Int /\ i[s] \in Nat
  BY CameraSelectAssumption DEF TypeOK
<1>3. Cursor(s) \in Nat
  BY <1>2 DEF Cursor
<1> QED
  BY <1>1, <1>3

LEMMA RefusedType ==
  ASSUME TypeOK, NEW s \in Sessions, Refused(s)
  PROVE  /\ pc' \in [Sessions -> Labels] /\ i' \in [Sessions -> Nat]
         /\ pc'[s] \in {"size", "failed"}
         /\ \A t \in Sessions \ {s} : pc'[t] = pc[t]
<1>1. PICK l \in {"size", "failed"} : pc' = [pc EXCEPT ![s] = l]
  BY DEF Refused, Goto
<1>2. pc \in [Sessions -> Labels] /\ i \in [Sessions -> Nat]
  BY DEF TypeOK, Labels
<1>3. i' \in {i, [i EXCEPT ![s] = @ + 1]}
  BY DEF Refused
<1>4. i' \in [Sessions -> Nat]
  BY <1>2, <1>3
<1> QED
  BY <1>1, <1>2, <1>4 DEF Labels

LEMMA StepIInv == IInv /\ [Next]_vars => IInv'
<1> SUFFICES ASSUME IInv, [Next]_vars PROVE IInv'
  OBVIOUS
<1>t. TypeOK
  BY DEF IInv
<1>1. ASSUME NEW s \in Sessions, Run(s) PROVE IInv'
  <2>1. TypeOK'
    BY <1>t, <1>1 DEF Run, Goto, TypeOK, world
  <2> QED
    BY <1>1, <1>t, <2>1, Idle DEF Run, Goto, TypeOK, Holding
<1>2. ASSUME NEW s \in Sessions, Size(s) PROVE IInv'
  <2>1. TypeOK'
    BY <1>t, <1>2 DEF Size, Goto, TypeOK, world
  <2> QED
    BY <1>2, <1>t, <2>1, Idle DEF Size, Goto, TypeOK, Holding
<1>3. ASSUME NEW s \in Sessions, Index(s) PROVE IInv'
  <2>1. TypeOK'
    BY <1>t, <1>3, CursorInList DEF Index, Goto, TypeOK, world
  <2> QED
    BY <1>3, <1>t, <2>1, Idle DEF Index, Goto, TypeOK, Holding
<1>4. ASSUME NEW s \in Sessions, Acquire(s) PROVE IInv'
  <2> DEFINE c == camera_[s]
  <2>c. pc[s] = "acquire" /\ c \in Cameras
    BY <1>t, <1>4 DEF Acquire, TypeOK
  <2>u. /\ UNCHANGED <<camera_, config_, option, kind, changes, shrunk, list>>
        /\ denied' \in {denied, denied \union {s}} /\ denied' \subseteq Denied
    BY <1>t, <1>4 DEF Acquire, TypeOK, world
  <2>1. CASE /\ owner[c] = None
             /\ owner' = [owner EXCEPT ![c] = s]
             /\ Goto(s, "generate")
             /\ UNCHANGED i
    <3>1. TypeOK'
      BY <1>t, <2>1, <2>c, <2>u DEF TypeOK, Goto
    <3>2. HoldsCurrent'
      BY <1>t, <2>1, <2>c, <2>u DEF IInv, HoldsCurrent, TypeOK, Goto
    <3>3. HeldWhenNeeded' /\ Configured'
      BY <1>t, <2>1, <2>c, <2>u, CameraSelectAssumption
      DEF IInv, HeldWhenNeeded, Configured, Holding, TypeOK, Goto
    <3> QED
      BY <3>1, <3>2, <3>3 DEF IInv
  <2>2. CASE Refused(s) /\ UNCHANGED owner
    <3>1. TypeOK'
      BY <1>t, <2>2, <2>u, RefusedType DEF TypeOK, Labels
    <3> QED
      BY <1>t, <2>2, <2>c, <2>u, <3>1, RefusedType, Idle DEF Holding
  <2> QED
    BY <1>4, <2>1, <2>2 DEF Acquire, Free
<1>5. ASSUME NEW s \in Sessions, GenerateConfiguration(s) PROVE IInv'
  <2>1. CASE kind[camera_[s]] = "noConfig"
    BY <1>5, <2>1, LetGo DEF GenerateConfiguration, GiveUp
  <2>2. CASE kind[camera_[s]] # "noConfig"
    <3>1. /\ pc[s] = "generate" /\ pc' = [pc EXCEPT ![s] = "validate"]
          /\ UNCHANGED <<i, camera_, config_, owner, option, kind, changes, shrunk, list, denied>>
      BY <1>5, <2>2 DEF GenerateConfiguration, Goto, world
    <3>2. TypeOK'
      BY <1>t, <3>1 DEF TypeOK
    <3>3. HoldsCurrent' /\ HeldWhenNeeded' /\ Configured'
      BY <1>t, <3>1 DEF IInv, HoldsCurrent, HeldWhenNeeded, Configured, Holding, TypeOK
    <3> QED
      BY <3>2, <3>3 DEF IInv
  <2> QED
    BY <2>1, <2>2
<1>6. ASSUME NEW s \in Sessions, Validate(s) PROVE IInv'
  <2>1. CASE kind[camera_[s]] = "invalid"
    BY <1>6, <2>1, LetGo DEF Validate, GiveUp
  <2>2. CASE kind[camera_[s]] # "invalid"
    <3>1. /\ pc[s] = "validate" /\ pc' = [pc EXCEPT ![s] = "ready"]
          /\ config_' = [config_ EXCEPT ![s] = camera_[s]]
          /\ UNCHANGED <<i, camera_, owner, option, kind, changes, shrunk, list, denied>>
      BY <1>6, <2>2 DEF Validate, Goto, world
    <3>2. TypeOK'
      BY <1>t, <3>1 DEF TypeOK
    <3>3. HoldsCurrent' /\ HeldWhenNeeded' /\ Configured'
      BY <1>t, <3>1 DEF IInv, HoldsCurrent, HeldWhenNeeded, Configured, Holding, TypeOK
    <3> QED
      BY <3>2, <3>3 DEF IInv
  <2> QED
    BY <2>1, <2>2
<1>7. ASSUME NEW s \in Sessions, Destroy(s) PROVE IInv'
  BY <1>7, LetGo DEF Destroy
<1>8. ASSUME NEW s \in Sessions, NEW k \in DOMAIN Boot, Unplug(s, k) PROVE IInv'
  <2>1. RemoveAt(list[s], k) \in Seq(Cameras)
    BY <1>t, <1>8 DEF Unplug, TypeOK, RemoveAt
  <2>2. TypeOK'
    BY <1>t, <1>8, <2>1, CameraSelectAssumption DEF Unplug, TypeOK, walk
  <2> QED
    BY <1>8, <2>2 DEF Unplug, walk, IInv, HoldsCurrent, HeldWhenNeeded, Configured
<1>9. ASSUME NEW s \in Sessions, NEW c \in Cameras, Plug(s, c) PROVE IInv'
  <2>1. Append(list[s], c) \in Seq(Cameras)
    BY <1>t, <1>9 DEF Plug, TypeOK
  <2>2. TypeOK'
    BY <1>t, <1>9, <2>1, CameraSelectAssumption DEF Plug, TypeOK, walk
  <2> QED
    BY <1>9, <2>2 DEF Plug, walk, IInv, HoldsCurrent, HeldWhenNeeded, Configured
<1>10. ASSUME UNCHANGED vars PROVE IInv'
  BY <1>10 DEF vars, walk, world, IInv, TypeOK, HoldsCurrent, HeldWhenNeeded, Configured
<1> QED
  BY <1>1, <1>2, <1>3, <1>4, <1>5, <1>6, <1>7, <1>8, <1>9, <1>10
  DEF Next, Select, Done

LEMMA Invariance == Spec => []IInv
  BY InitIInv, StepIInv, PTL DEF Spec
-----------------------------------------------------------------------------
(* The variables of every session keep their types. *)
THEOREM TypeCorrect == Spec => []TypeOK
<1>1. IInv => TypeOK
  BY DEF IInv
<1> QED
  BY <1>1, Invariance, PTL

(* Whatever cameras fail, come and go, a session holds only the camera in
   camera_, which its destructor releases (camera_session.cpp:33-36). *)
THEOREM NothingElseHeld == Spec => []HoldsCurrent
<1>1. IInv => HoldsCurrent
  BY DEF IInv
<1> QED
  BY <1>1, Invariance, PTL

(* A session whose init() succeeded holds its camera, alone among any number
   of processes. *)
THEOREM ReadySound == Spec => []ReadyHolds
<1>1. IInv => ReadyHolds
  BY DEF IInv, HeldWhenNeeded, Configured, ReadyHolds, Holding
<1> QED
  BY <1>1, Invariance, PTL
-----------------------------------------------------------------------------
(* Between the two looks the index stays in range, unless a camera went. *)
InRange ==
  \A s \in Sessions :
    pc[s] = "index" /\ s \notin shrunk => Cursor(s) < Len(list[s])

(* A step of s leaves the looks of the other sessions alone. *)
LEMMA LookKept ==
  ASSUME InRange, IndexInRange, TypeOK, NEW s \in Sessions,
         \A t \in Sessions \ {s} : pc'[t] = pc[t] /\ i'[t] = i[t],
         UNCHANGED <<option, shrunk, list>>,
         pc'[s] = "index" /\ s \notin shrunk => Cursor(s)' < Len(list[s]),
         pc'[s] = "overrun" => s \in shrunk
  PROVE  InRange' /\ IndexInRange'
  BY DEF InRange, IndexInRange, Cursor

LEMMA StepInRange ==
  IInv /\ InRange /\ IndexInRange /\ [Next]_vars => InRange' /\ IndexInRange'
<1> SUFFICES ASSUME IInv, InRange, IndexInRange, [Next]_vars
             PROVE  InRange' /\ IndexInRange'
  OBVIOUS
<1>t. TypeOK
  BY DEF IInv
<1>1. ASSUME NEW s \in Sessions, Run(s) \/ Size(s)
      PROVE  InRange' /\ IndexInRange'
  BY <1>1, <1>t, LookKept DEF Run, Size, Goto, TypeOK, world, Cursor
<1>2. ASSUME NEW s \in Sessions, Index(s)
      PROVE  InRange' /\ IndexInRange'
  BY <1>2, <1>t, LookKept DEF Index, Goto, TypeOK, world, InRange
<1>3. ASSUME NEW s \in Sessions, Refused(s), UNCHANGED <<option, shrunk, list>>
      PROVE  InRange' /\ IndexInRange'
  <2>1. \A t \in Sessions \ {s} : i'[t] = i[t]
    BY <1>3, <1>t DEF Refused, TypeOK
  <2> QED
    BY <1>3, <1>t, <2>1, RefusedType, LookKept
<1>4. ASSUME NEW s \in Sessions, UNCHANGED <<i, option, shrunk, list>>,
             NEW l \in {"generate", "validate", "ready", "gone"}, Goto(s, l)
      PROVE  InRange' /\ IndexInRange'
  BY <1>4, <1>t, LookKept DEF Goto, TypeOK
<1>5. ASSUME NEW s \in Sessions,
             Acquire(s) \/ GenerateConfiguration(s) \/ Validate(s) \/ Destroy(s)
      PROVE  InRange' /\ IndexInRange'
  BY <1>3, <1>4, <1>5 DEF Acquire, GenerateConfiguration, Validate, GiveUp, Destroy, world
<1>6. ASSUME NEW s \in Sessions, NEW k \in DOMAIN Boot, Unplug(s, k)
      PROVE  InRange' /\ IndexInRange'
  BY <1>6, <1>t DEF Unplug, TypeOK, walk, InRange, IndexInRange, Cursor
<1>7. ASSUME NEW s \in Sessions, NEW c \in Cameras, Plug(s, c)
      PROVE  InRange' /\ IndexInRange'
  <2>1. list[s] \in Seq(Cameras) /\ Len(Append(list[s], c)) = Len(list[s]) + 1
    BY <1>t DEF TypeOK
  <2>2. ASSUME NEW t \in Sessions PROVE Cursor(t) \in Int /\ Len(list[t]) \in Nat
    <3>1. option[t] \in Int /\ i[t] \in Nat /\ list[t] \in Seq(Cameras)
      BY <1>t, CameraSelectAssumption DEF TypeOK
    <3> QED
      BY <3>1 DEF Cursor
  <2>3. \A t \in Sessions : Len(list'[t]) \in Nat /\ Len(list'[t]) >= Len(list[t])
    BY <1>7, <1>t, <2>1, <2>2 DEF Plug, TypeOK
  <2> QED
    BY <1>7, <2>2, <2>3 DEF Plug, walk, InRange, IndexInRange, Cursor
<1>8. ASSUME UNCHANGED vars PROVE InRange' /\ IndexInRange'
  BY <1>8 DEF vars, walk, world, InRange, IndexInRange, Cursor
<1> QED
  BY <1>1, <1>2, <1>5, <1>6, <1>7, <1>8 DEF Next, Select, Done

(* A list that lost no camera is never read past its end, for any number of
   cameras plugged in meanwhile (camera_session.cpp:43, :49). *)
THEOREM NoOverrun == Spec => []IndexInRange
<1>1. Init => InRange /\ IndexInRange
  BY DEF Init, InRange, IndexInRange
<1> QED
  BY <1>1, StepInRange, Invariance, PTL DEF Spec
-----------------------------------------------------------------------------
(* Why the walk skips no camera.  A valid camera that s passed was another
   session's, which keeps it until it is gone and never takes another: the valid
   cameras passed can be assigned to different sessions.  What a session that is
   gone held is in no variable any more, so the invariant only says that there is
   such an assignment. *)
Valid == {c \in Cameras : kind[c] = "valid"}
Passed(s) == {c \in Valid : \E k \in 1 .. Len(Boot) : k <= i[s] /\ Boot[k] = c}
Has(t, c) == pc[t] = "gone" \/ (pc[t] \in Holding /\ camera_[t] = c)

Excuse(s, f) ==
  /\ f \in [Passed(s) -> Sessions \ {s}]
  /\ \A c, d \in Passed(s) : f[c] = f[d] => c = d
  /\ \A c \in Passed(s) : Has(f[c], c)

Excused == \A s \in Sessions \ (shrunk \union denied) : option[s] < 0 => \E f : Excuse(s, f)

(* Where a walk is that has lost no camera. *)
Walking(s) ==
  /\ list[s] = Boot
  /\ option[s] < 0 =>
       /\ pc[s] = "index" => i[s] < Len(Boot)
       /\ pc[s] \in {"acquire", "generate", "validate"} =>
            i[s] < Len(Boot) /\ camera_[s] = Boot[i[s] + 1]
       /\ pc[s] = "failed" => i[s] >= Len(Boot)

Walks == \A s \in Sessions \ shrunk : Walking(s)

(* A step of u matters to no other walk. *)
LEMMA WalkKept ==
  ASSUME Walks, NEW u \in Sessions,
         \A t \in Sessions \ {u} : pc'[t] = pc[t] /\ i'[t] = i[t] /\ camera_'[t] = camera_[t],
         UNCHANGED <<option, shrunk, list>>,
         u \notin shrunk /\ Walking(u) => Walking(u)'
  PROVE  Walks'
  BY DEF Walks, Walking

LEMMA InitWalks == Init => Walks /\ Excused
<1> SUFFICES ASSUME Init PROVE Walks /\ Excused
  OBVIOUS
<1>1. Walks
  BY DEF Init, Walks, Walking
<1>2. ASSUME NEW s \in Sessions PROVE \E f : Excuse(s, f)
  <2>1. i[s] = 0
    BY <1>2 DEF Init
  <2>2. Passed(s) = {}
    BY <2>1 DEF Passed
  <2>3. [c \in {} |-> None] \in [Passed(s) -> Sessions \ {s}]
    BY <2>2
  <2>4. Excuse(s, [c \in {} |-> None])
    BY <2>2, <2>3 DEF Excuse
  <2> QED
    BY <2>4
<1> QED
  BY <1>1, <1>2 DEF Excused

(* A camera that does not do is passed by. *)
LEMMA RefusedOn ==
  ASSUME TypeOK, NEW u \in Sessions, Refused(u)
  PROVE  /\ \A t \in Sessions \ {u} : pc'[t] = pc[t] /\ i'[t] = i[t]
         /\ option[u] < 0 => pc'[u] = "size" /\ i'[u] = i[u] + 1
         /\ option[u] >= 0 => pc'[u] = "failed" /\ i'[u] = i[u]
<1>1. option[u] \in Int /\ DOMAIN pc = Sessions /\ DOMAIN i = Sessions
  BY CameraSelectAssumption DEF TypeOK
<1> QED
  BY <1>1 DEF Refused, Goto

LEMMA StepWalks == IInv /\ Walks /\ [Next]_vars => Walks'
<1> SUFFICES ASSUME IInv, Walks, [Next]_vars PROVE Walks'
  OBVIOUS
<1>t. /\ TypeOK /\ Len(Boot) \in Nat
      /\ \A t \in Sessions : option[t] \in Int /\ i[t] \in Nat
  <2>1. Len(Boot) \in Nat
    BY BootCameras
  <2>2. \A t \in Sessions : option[t] \in Int
    BY CameraSelectAssumption DEF IInv, TypeOK
  <2>3. \A t \in Sessions : i[t] \in Nat
    BY DEF IInv, TypeOK
  <2> QED
    BY <2>1, <2>2, <2>3 DEF IInv
<1>1. ASSUME NEW u \in Sessions, Run(u) PROVE Walks'
  BY <1>1, <1>t, WalkKept DEF Run, Goto, TypeOK, world, Walking
<1>2. ASSUME NEW u \in Sessions, Size(u) PROVE Walks'
  <2>1. /\ \A t \in Sessions \ {u} : pc'[t] = pc[t]
        /\ pc'[u] = IF Cursor(u) < Len(list[u]) THEN "index" ELSE "failed"
        /\ UNCHANGED <<i, camera_, option, shrunk, list>>
    BY <1>2, <1>t DEF Size, Goto, TypeOK, world
  <2>2. ASSUME Walking(u) PROVE Walking(u)'
    BY <1>t, <2>1, <2>2 DEF Walking, Cursor
  <2> QED
    BY <2>1, <2>2, WalkKept
<1>3. ASSUME NEW u \in Sessions, Index(u) PROVE Walks'
  <2>1. /\ pc[u] = "index"
        /\ \A t \in Sessions \ {u} : pc'[t] = pc[t] /\ camera_'[t] = camera_[t]
        /\ UNCHANGED <<i, option, shrunk, list>>
        /\ IF Cursor(u) < Len(list[u])
           THEN camera_'[u] = list[u][Cursor(u) + 1] /\ pc'[u] = "acquire"
           ELSE pc'[u] = "overrun"
    BY <1>3, <1>t DEF Index, Goto, TypeOK, world
  <2>2. ASSUME Walking(u) PROVE Walking(u)'
    BY <1>t, <2>1, <2>2 DEF Walking, Cursor
  <2> QED
    BY <2>1, <2>2, WalkKept
<1>4. ASSUME NEW u \in Sessions, Refused(u), UNCHANGED <<option, shrunk, list>>,
             \A t \in Sessions \ {u} : camera_'[t] = camera_[t]
      PROVE  Walks'
  <2>1. ASSUME Walking(u) PROVE Walking(u)'
    BY <1>4, <1>t, <2>1, RefusedOn DEF Walking
  <2> QED
    BY <1>4, <1>t, <2>1, RefusedOn, WalkKept
<1>5. ASSUME NEW u \in Sessions, UNCHANGED <<i, option, shrunk, list>>,
             \A t \in Sessions \ {u} : camera_'[t] = camera_[t],
             NEW l \in {"ready", "gone"}, Goto(u, l)
      PROVE  Walks'
  <2>1. pc'[u] = l /\ \A t \in Sessions \ {u} : pc'[t] = pc[t]
    BY <1>5, <1>t DEF Goto, TypeOK
  <2>2. ASSUME Walking(u) PROVE Walking(u)'
    BY <1>5, <2>1, <2>2 DEF Walking
  <2> QED
    BY <1>5, <2>1, <2>2, WalkKept
<1>6. ASSUME NEW u \in Sessions, pc[u] \in {"acquire", "generate"},
             UNCHANGED <<i, camera_, option, shrunk, list>>,
             NEW l \in {"generate", "validate"}, Goto(u, l)
      PROVE  Walks'
  BY <1>6, <1>t, WalkKept DEF Goto, TypeOK, Walking
<1>7. ASSUME NEW u \in Sessions,
             Acquire(u) \/ GenerateConfiguration(u) \/ Validate(u) \/ Destroy(u)
      PROVE  Walks'
  <2>1. /\ UNCHANGED <<option, shrunk, list>>
        /\ \A t \in Sessions \ {u} : camera_'[t] = camera_[t]
    BY <1>7, <1>t DEF Acquire, GenerateConfiguration, Validate, Destroy, GiveUp, TypeOK, world
  <2> QED
    BY <1>4, <1>5, <1>6, <1>7, <2>1
    DEF Acquire, GenerateConfiguration, Validate, Destroy, GiveUp
<1>8. ASSUME NEW u \in Sessions, NEW k \in DOMAIN Boot, Unplug(u, k) PROVE Walks'
  BY <1>8, <1>t DEF Unplug, TypeOK, walk, Walks, Walking
<1>9. ASSUME NEW u \in Sessions, NEW c \in Cameras, Plug(u, c) PROVE Walks'
  <2>1. u \in shrunk
    <3>1. \E k \in 1 .. Len(Boot) : Boot[k] = c
      BY BootCameras DEF Cameras
    <3> QED
      BY <1>9, <3>1 DEF Plug, Walks, Walking, Contains
  <2> QED
    BY <1>9, <1>t, <2>1 DEF Plug, TypeOK, walk, Walks, Walking
<1>10. ASSUME UNCHANGED vars PROVE Walks'
  BY <1>10 DEF vars, walk, world, Walks, Walking
<1> QED
  BY <1>1, <1>2, <1>3, <1>7, <1>8, <1>9, <1>10 DEF Next, Select, Done
-----------------------------------------------------------------------------
(* A session with a valid camera keeps it until it is gone, for good. *)
LEMMA HasKept ==
  ASSUME IInv, [Next]_vars, NEW t \in Sessions, NEW c \in Valid, Has(t, c)
  PROVE  Has(t, c)'
<1>t. TypeOK
  BY DEF IInv
<1>1. CASE pc'[t] = pc[t] /\ camera_'[t] = camera_[t]
  BY <1>1 DEF Has
<1>2. ASSUME NEW u \in Sessions, Run(u) \/ Select(u) \/ Destroy(u) PROVE Has(t, c)'
  <2>1. CASE u # t
    <3>1. pc'[t] = pc[t] /\ camera_'[t] = camera_[t]
      BY <1>2, <1>t, <2>1, RefusedOn
      DEF Run, Select, Size, Index, Acquire, GenerateConfiguration, Validate, Destroy, GiveUp,
          Goto, TypeOK
    <3> QED
      BY <1>1, <3>1
  <2>2. CASE u = t
    <3>1. pc[t] \in Holding /\ camera_[t] = c /\ kind[c] = "valid"
      BY <1>2, <2>2 DEF Has, Valid, Run, Select, Size, Index, Acquire, GenerateConfiguration,
         Validate, Destroy
    <3> QED
      BY <1>2, <1>t, <2>2, <3>1
      DEF Has, Holding, Run, Select, Size, Index, Acquire, GenerateConfiguration, Validate,
          Destroy, Goto, TypeOK
  <2> QED
    BY <2>1, <2>2
<1>3. ASSUME UNCHANGED walk PROVE Has(t, c)'
  BY <1>1, <1>3 DEF walk
<1> QED
  BY <1>2, <1>3 DEF Next, Unplug, Plug, Done, vars

(* As long as s passes no camera its excuses last. *)
LEMMA ExcuseKept ==
  ASSUME NEW s \in Sessions, NEW f, Excuse(s, f), Passed(s)' = Passed(s),
         \A t \in Sessions, c \in Valid : Has(t, c) => Has(t, c)'
  PROVE  Excuse(s, f)'
<1>1. Passed(s) \subseteq Valid
  BY DEF Passed
<1>2. \A c \in Passed(s) : f[c] \in Sessions
  BY DEF Excuse
<1> QED
  BY <1>1, <1>2 DEF Excuse

(* s passes a valid camera: the session that has it is a new excuse. *)
LEMMA ExcuseMade ==
  ASSUME NEW s \in Sessions, NEW f, Excuse(s, f), NEW c \in Valid, c \notin Passed(s),
         Passed(s)' = Passed(s) \union {c},
         NEW t \in Sessions \ {s}, pc[t] \in Holding, camera_[t] = c,
         \A u \in Sessions, d \in Valid : Has(u, d) => Has(u, d)'
  PROVE  \E g : Excuse(s, g)'
<1>0. PICK g : g = [d \in Passed(s) \union {c} |-> IF d = c THEN t ELSE f[d]]
  OBVIOUS
<1>1. /\ Passed(s) \subseteq Valid /\ \A d \in Passed(s) : f[d] \in Sessions \ {s}
  BY DEF Passed, Excuse
<1>2. \A d \in Passed(s) : f[d] # t
  BY DEF Excuse, Has, Holding
<1>3. g \in [Passed(s) \union {c} -> Sessions \ {s}]
  BY <1>0, <1>1
<1>4. \A d, e \in Passed(s) \union {c} : g[d] = g[e] => d = e
  BY <1>0, <1>2 DEF Excuse
<1>5. \A d \in Passed(s) \union {c} : Has(g[d], d)'
  <2> TAKE d \in Passed(s) \union {c}
  <2>1. CASE d = c
    BY <1>0, <2>1 DEF Has
  <2>2. CASE d # c
    BY <1>0, <1>1, <2>2 DEF Excuse
  <2> QED
    BY <2>1, <2>2
<1>6. Excuse(s, g)'
  BY <1>3, <1>4, <1>5 DEF Excuse
<1> QED
  BY <1>6

LEMMA StepExcused == IInv /\ Walks /\ Excused /\ [Next]_vars => Excused'
<1> SUFFICES ASSUME IInv, Walks, Excused, [Next]_vars,
                    NEW s \in Sessions, s \notin (shrunk \union denied)',
                    option'[s] < 0
             PROVE  (\E f : Excuse(s, f))'
  BY DEF Excused
<1>t. /\ TypeOK /\ i[s] \in Nat /\ Len(Boot) \in Nat
  BY CameraSelectAssumption DEF IInv, TypeOK
<1>0. UNCHANGED <<option, kind>> /\ shrunk \subseteq shrunk' /\ denied \subseteq denied'
  BY DEF Next, Run, Select, Size, Index, Acquire, GenerateConfiguration, Validate, Destroy,
     Unplug, Plug, Done, vars, world
<1>1. Walking(s)
  BY <1>0 DEF Walks
<1>2. PICK f : Excuse(s, f)
  BY <1>0 DEF Excused
<1>3. \A t \in Sessions, c \in Valid : Has(t, c) => Has(t, c)'
  BY HasKept
<1>4. ASSUME Passed(s)' = Passed(s) PROVE (\E g : Excuse(s, g))'
  BY <1>2, <1>3, <1>4, ExcuseKept
<1>5. CASE i'[s] = i[s]
  BY <1>0, <1>4, <1>5 DEF Passed, Valid
<1>6. CASE i'[s] # i[s]
  <2>1. /\ pc[s] \in {"acquire", "generate", "validate"} /\ Refused(s)
        /\ kind[camera_[s]] = "valid" =>
             pc[s] = "acquire" /\ ~Free(s, camera_[s])
    <3>1. ASSUME NEW u \in Sessions, u # s, Refused(u) PROVE FALSE
      BY <1>6, <1>t, <3>1, RefusedOn
    <3> QED
      BY <1>6, <3>1 DEF Next, Run, Select, Size, Index, Acquire, GenerateConfiguration, Validate,
         Destroy, GiveUp, Unplug, Plug, Done, vars, walk
  <2> DEFINE c == camera_[s]
  <2>2. i'[s] = i[s] + 1 /\ i[s] + 1 \in 1 .. Len(Boot) /\ c = Boot[i[s] + 1] /\ list[s] = Boot
    BY <1>0, <1>1, <1>t, <2>1, RefusedOn DEF Walking
  <2> HIDE DEF c
  <2>3. c \in Cameras /\ Contains(list[s], c)
    BY <2>2, BootCameras DEF Contains
  <2>4. Passed(s)' = Passed(s) \union ({c} \intersect Valid)
    <3>1. Valid' = Valid
      BY <1>0 DEF Valid
    <3>2. \A k \in 1 .. Len(Boot) : k <= i'[s] <=> k <= i[s] \/ k = i[s] + 1
      BY <1>t, <2>2
    <3>3. \A d : (\E k \in 1 .. Len(Boot) : k <= i'[s] /\ Boot[k] = d)
                   <=> (\E k \in 1 .. Len(Boot) : k <= i[s] /\ Boot[k] = d) \/ d = c
      BY <2>2, <3>2
    <3> QED
      BY <3>1, <3>3 DEF Passed
  <2>5. CASE c \notin Valid
    BY <1>4, <2>4, <2>5
  <2>6. CASE c \in Passed(s)
    BY <1>4, <2>4, <2>6
  <2>7. CASE c \in Valid /\ c \notin Passed(s)
    <3>1. pc[s] = "acquire" /\ owner[c] # None
      BY <2>1, <2>3, <2>7 DEF Valid, Free, c
    <3> DEFINE t == owner[c]
    <3>2. t \in Sessions /\ pc[t] \in Holding /\ camera_[t] = c
      BY <1>t, <2>3, <3>1 DEF IInv, TypeOK, HoldsCurrent, Holding
    <3>3. t # s
      BY <3>1, <3>2 DEF Holding
    <3> QED
      BY <1>2, <1>3, <2>4, <2>7, <3>2, <3>3, ExcuseMade
  <2> QED
    BY <2>5, <2>6, <2>7
<1> QED
  BY <1>5, <1>6

(* FindsCamera: init() that was asked for any camera, whose list lost none and
   which was refused none that was free, fails only if there are fewer valid
   cameras than sessions, however the others take and release them meanwhile:
   the loop skips no camera (camera_session.cpp:42-47). *)
THEOREM NoneSkipped == Spec => []FindsCamera
<1>1. IInv /\ Walks /\ Excused => FindsCamera
  <2> SUFFICES ASSUME IInv, Walks, Excused,
                      NEW s \in Sessions, pc[s] = "failed", option[s] < 0,
                      s \notin shrunk \union denied
               PROVE  Cardinality(Valid) < Cardinality(Sessions)
    BY DEF FindsCamera, Valid
  <2>1. PICK f : Excuse(s, f)
    BY DEF Excused
  <2>2. Passed(s) = Valid
    <3>1. \A c \in Cameras : \E k \in 1 .. Len(Boot) : Boot[k] = c
      BY BootCameras DEF Cameras
    <3>2. i[s] >= Len(Boot) /\ i[s] \in Nat /\ Len(Boot) \in Nat
      BY BootCameras DEF Walks, Walking, IInv, TypeOK
    <3>3. \A k \in 1 .. Len(Boot) : k <= i[s]
      BY <3>2
    <3> QED
      BY <3>1, <3>3 DEF Passed, Valid
  <2> DEFINE others == Sessions \ {s}
  <2>3. f \in Injection(Valid, others)
    BY <2>1, <2>2 DEF Excuse, Injection, IsInjective
  <2>4. /\ IsFiniteSet(others) /\ Cardinality(others) = Cardinality(Sessions) - 1
        /\ Cardinality(Sessions) \in Nat
    BY CameraSelectAssumption, FS_RemoveElement, FS_CardinalityType
  <2>5. IsFiniteSet(Valid) /\ Cardinality(Valid) <= Cardinality(others)
    BY <2>3, <2>4, FS_Injection
  <2>6. Cardinality(Valid) \in Nat
    BY <2>5, FS_CardinalityType
  <2> QED
    BY <2>4, <2>5, <2>6
<1> QED
  BY <1>1, InitWalks, StepWalks, StepExcused, Invariance, PTL DEF Spec
=============================================================================
