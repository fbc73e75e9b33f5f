--------------------------- MODULE DrmFrameBuffer ---------------------------
(***************************************************************************)
(* The frame buffers of the DRM device, src/drm.cpp: createFrameBuffer()   *)
(* imports the dmabuf of each plane of a camera buffer, which gives it a   *)
(* GEM handle of the device, and the destructor closes the handles.  The   *)
(* kernel has one handle for a dmabuf, however often it is imported, and   *)
(* gives a new dmabuf the lowest handle that is free.                      *)
(***************************************************************************)
EXTENDS Integers, Sequences, FiniteSets

CONSTANTS
  Buffers,     \* the camera's buffers
  Dmabuf,      \* the dmabuf each file descriptor refers to
  MaxHandle,   \* bound: handles the device gives
  Unset        \* no dmabuf, no handle

Fds == DOMAIN Dmabuf
Dmabufs == {Dmabuf[fd] : fd \in Fds}
Handles == 1 .. MaxHandle

VARIABLES
  gem,       \* kernel: the dmabuf of each handle, or Unset
  planes_,   \* per frame buffer, the handle of each fd it imported
  handles,   \* of the frame buffer being made, one per plane so far
  added      \* frame buffers drmModeAddFB2() accepted

vars == <<gem, planes_, handles, added>>

Init ==
  /\ gem = [h \in Handles |-> Unset]
  /\ planes_ = [b \in Buffers |-> [fd \in Fds |-> Unset]]
  /\ handles = <<>>
  /\ added = {}

HandlesOf(b) == {planes_[b][fd] : fd \in Fds} \ {Unset}

(* drmPrimeFDToHandle() of a file descriptor. *)
PrimeHandle(fd) ==
  LET known == {h \in Handles : gem[h] = Dmabuf[fd]}
      free == {h \in Handles : gem[h] = Unset}
      from == IF known # {} THEN known ELSE free
  IN  CHOOSE h \in from : \A k \in from : h <= k

(* Mutant of Import: an fd is taken for another one. *)
ImportFirst(b, fds) ==
  /\ Len(handles) < Len(fds)
  /\ LET fd == fds[Len(handles) + 1]
         h == IF handles = <<>> THEN PrimeHandle(fd) ELSE handles[1]
     IN  /\ handles' = Append(handles, h)
         /\ planes_' = [planes_ EXCEPT ![b][fd] = h]
         /\ gem' = [gem EXCEPT ![h] = IF handles = <<>> THEN Dmabuf[fd] ELSE @]
  /\ UNCHANGED added

(* One turn of the loop over the planes. *)
Import(b, fds) ==
  /\ Len(handles) < Len(fds)
  /\ LET fd == fds[Len(handles) + 1]
         h == IF planes_[b][fd] = Unset THEN PrimeHandle(fd) ELSE planes_[b][fd]
     IN  /\ handles' = Append(handles, h)
         /\ planes_' = [planes_ EXCEPT ![b][fd] = h]
         /\ gem' = [gem EXCEPT ![h] = Dmabuf[fd]]
  /\ UNCHANGED added

AddFB2(b, fds) ==
  /\ Len(handles) = Len(fds)
  /\ added' = added \union {b}
  /\ handles' = <<>>
  /\ UNCHANGED <<gem, planes_>>

(* Mutant of Destroy: a frame buffer that was not added has no handle. *)
DestroyAdded(b) ==
  /\ gem' = [h \in Handles |->
               IF b \in added /\ h \in HandlesOf(b) THEN Unset ELSE gem[h]]
  /\ planes_' = [planes_ EXCEPT ![b] = [fd \in Fds |-> Unset]]
  /\ added' = added \ {b}
  /\ handles' = <<>>

(* The destructor, of a frame buffer that is complete or of one whose import
   or drmModeAddFB2() failed: it closes the handle of every fd, by number. *)
Destroy(b) ==
  /\ gem' = [h \in Handles |-> IF h \in HandlesOf(b) THEN Unset ELSE gem[h]]
  /\ planes_' = [planes_ EXCEPT ![b] = [fd \in Fds |-> Unset]]
  /\ added' = added \ {b}
  /\ handles' = <<>>
-----------------------------------------------------------------------------
(* Every open handle belongs to a frame buffer that exists and will close
   it, however imports fail and whatever the buffers share: when the sink
   has destroyed them the device holds no memory of the camera. *)
NoHandleLeft ==
  \A h \in Handles : gem[h] # Unset => \E b \in Buffers : h \in HandlesOf(b)

(* drmModeAddFB2() is given, for each plane, the handle of that plane's
   memory: not a handle another frame buffer has closed, or that has become
   another dmabuf's since (drm.cpp:245 closes handles by number). *)
HandlesMatch(fds) ==
  \A n \in DOMAIN handles : gem[handles[n]] = Dmabuf[fds[n]]
=============================================================================
