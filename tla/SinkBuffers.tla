---------------------------- MODULE SinkBuffers ----------------------------
(***************************************************************************)
(* What a sink makes of the buffers the session hands it one by one, and   *)
(* of its end: the KMS sink imports them into the DRM device, the file     *)
(* sink maps them and writes its frames from the maps.  The file sink maps *)
(* each buffer by itself, so that it gets one here.                        *)
(***************************************************************************)
EXTENDS Integers, Sequences, FiniteSets

CONSTANTS
  Buffers,      \* 1 .. a bound
  Dmabuf, MaxHandle,
  Layouts,      \* the fds a buffer's planes may have
  Images,       \* the planes of a buffer: fd, offset, length
  Sizes,        \* lengths a dmabuf may have
  Width, Huge,
  MaxBytes,     \* bound: bytes of a plane the camera fills
  MaxFrames,
  Faults,       \* "import", "lseek", "mmap", "open", "write"
  Unset

ASSUME SinkBuffersAssumption ==
  /\ IsFiniteSet(Buffers) /\ Buffers = 1 .. Cardinality(Buffers)
  /\ Layouts \subseteq Seq(DOMAIN Dmabuf)
  /\ MaxBytes \in Nat /\ MaxFrames \in Nat
  \* an unsigned int each, and the assert of fromFrameBuffer()
  /\ LET UInt == 0 .. 2 ^ Width - 1 IN
     Images \subseteq Seq([fd : DOMAIN Dmabuf, offset : UInt, length : UInt]) \ {<<>>}
  /\ Sizes \subseteq Nat
  /\ Width \in Nat /\ Huge \in Nat /\ Huge >= 2 ^ Width
  /\ LET Dmabufs == {Dmabuf[fd] : fd \in DOMAIN Dmabuf} IN
     /\ IsFiniteSet(Dmabufs) /\ Unset \notin Dmabufs /\ Unset \notin Nat
     /\ MaxHandle \in Nat /\ MaxHandle >= Cardinality(Dmabufs)

VARIABLES
  sink,       \* "kms" or "file"
  fdsOf,      \* the fds of the planes of each buffer
  planes,     \* the planes of the buffer the file sink maps
  dmabufSize, \* and the length of the dmabufs there
  pc, b,      \* the step, and the buffer mapBuffer() is at
  gem, planes_, handles, added,              \* DrmFrameBuffer
  length, reach, maps_, spans,               \* Image
  file, frame, plane, pos, due, whole        \* FileSink

given == <<sink, fdsOf, planes, dmabufSize>>
fbVars == <<gem, planes_, handles, added>>
imageVars == <<length, reach, maps_, spans>>
fileVars == <<file, frame, plane, pos, due, whole>>
vars == <<given, pc, b, fbVars, imageVars, fileVars>>

FB == INSTANCE DrmFrameBuffer
IMG == INSTANCE Image WITH ImageFaults <- Faults
FS == INSTANCE FileSink WITH FileFaults <- Faults

Init ==
  /\ sink \in {"kms", "file"}
  /\ fdsOf \in IF sink = "kms" THEN [Buffers -> Layouts] ELSE {[c \in Buffers |-> <<>>]}
  /\ planes \in IF sink = "kms" THEN {<<>>} ELSE Images
  /\ dmabufSize \in IF sink = "kms" THEN {0} ELSE Sizes
  /\ pc = "map" /\ b = 1
  /\ FB!Init /\ IMG!Init /\ FS!Init
-----------------------------------------------------------------------------
(* KMSSink::mapBuffer() takes a buffer that cannot be imported to be one
   that is not shown. *)
Import ==
  /\ sink = "kms" /\ pc = "map" /\ b \in Buffers
  /\ \/ FB!Import(b, fdsOf[b]) /\ UNCHANGED b
     \/ FB!AddFB2(b, fdsOf[b]) /\ b' = b + 1
     \/ "import" \in Faults /\ FB!Destroy(b) /\ b' = b + 1
  /\ UNCHANGED <<given, pc, imageVars, fileVars>>

(* buffers_.clear(), in the order of the map. *)
Clear ==
  /\ sink = "kms" /\ pc = "map" /\ b \notin Buffers
  /\ IF added = {}
     THEN pc' = "done" /\ UNCHANGED fbVars
     ELSE (\E c \in added : FB!Destroy(c)) /\ UNCHANGED pc
  /\ UNCHANGED <<given, b, imageVars, fileVars>>
-----------------------------------------------------------------------------
(* The two loops of fromFrameBuffer(), over the planes b of one buffer. *)
CheckPlane ==
  /\ sink = "file" /\ pc = "map" /\ b <= Len(planes)
  /\ \/ IMG!Check(planes[b], dmabufSize) /\ b' = b + 1 /\ UNCHANGED pc
     \/ IMG!Rejected(planes[b], dmabufSize) /\ pc' = "null" /\ UNCHANGED <<b, imageVars>>
  /\ UNCHANGED <<given, fbVars, fileVars>>

MapPlane ==
  /\ sink = "file" /\ pc = "map" /\ b > Len(planes)
  /\ LET p == planes[Len(spans) + 1] IN
     \/ /\ IMG!Map(p)
        /\ pc' = IF Len(spans') = Len(planes) THEN "write" ELSE pc
     \/ IMG!Unmappable(p) /\ pc' = "null" /\ UNCHANGED imageVars
  /\ UNCHANGED <<given, b, fbVars, fileVars>>

(* mapBuffer() asserts that there is an image. *)
AssertImage ==
  /\ pc = "null"
  /\ IMG!Unmap
  /\ pc' = "abort"
  /\ UNCHANGED <<given, b, fbVars, fileVars>>

WriteBuffer ==
  /\ pc = "write"
  /\ \/ FS!Open
     \/ \E bytesused \in 0 .. MaxBytes : FS!WritePlane(spans, bytesused)
  /\ UNCHANGED <<given, pc, b, fbVars, imageVars>>

Unmap ==
  /\ pc = "write" /\ plane = 0
  /\ IMG!Unmap
  /\ pc' = "done"
  /\ UNCHANGED <<given, b, fbVars, fileVars>>

Done == pc \in {"done", "abort"} /\ UNCHANGED vars

Next ==
  Import \/ Clear \/ CheckPlane \/ MapPlane \/ AssertImage \/ WriteBuffer \/ Unmap \/ Done

Spec == Init /\ [][Next]_vars
-----------------------------------------------------------------------------
(* See DrmFrameBuffer: no memory of the camera stays with the device ... *)
NoHandleLeft == FB!NoHandleLeft

(* ... and drmModeAddFB2() is given the handles of the planes' own memory
   (drm.cpp:245). *)
HandlesMatch == sink = "kms" /\ b \in Buffers => FB!HandlesMatch(fdsOf[b])

(* See Image: a plane that is read is mapped as far as its end is seen to be,
   and no further than its dmabuf is taken to be. *)
SpansInside == pc = "write" => IMG!SpansInside(LAMBDA fd : dmabufSize)

(* See FileSink: the file starts with the last frame that was written whole,
   and no byte of it is out of place (file_sink.cpp:55, :79, :82). *)
FileInOrder == FS!FileInOrder
=============================================================================
