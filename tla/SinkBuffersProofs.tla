------------------------- MODULE SinkBuffersProofs -------------------------
(***************************************************************************)
(* That the DRM device keeps no memory of the camera, and that frame       *)
(* buffers are made of their own memory, for any number of buffers and     *)
(* planes, any sharing of descriptors and dmabufs, and imports failing     *)
(* anywhere.                                                               *)
(*                                                                         *)
(* Neither property is inductive.  A handle closed by its number is a      *)
(* danger to the frame buffer being made: what saves it is that no other   *)
(* is destroyed meanwhile (OwnMemory, of the current buffer alone) and     *)
(* that the next one starts with no handle at all (Fresh).                 *)
(*                                                                         *)
(* Then that an Image maps what is read of it, from what its loops know    *)
(* between two planes (ImageInv), and that writes leave each byte in its   *)
(* place, from where writing stands (FileInv).                             *)
(***************************************************************************)
EXTENDS SinkBuffers, FiniteSetTheorems, SequenceTheorems, WellFoundedInduction, TLAPS

Fds == DOMAIN Dmabuf
Dmabufs == {Dmabuf[fd] : fd \in Fds}
Handles == 1 .. MaxHandle

Types ==
  /\ gem \in [Handles -> Dmabufs \union {Unset}]
  /\ planes_ \in [Buffers -> [Fds -> Handles \union {Unset}]]
  /\ handles \in Seq(Handles)
  /\ added \subseteq Buffers
  /\ b \in Nat
  /\ sink = "kms" => fdsOf \in [Buffers -> Seq(Fds)]

(* A dmabuf has one handle. *)
OneHandle ==
  \A h, k \in Handles : gem[h] # Unset /\ gem[h] = gem[k] => h = k

(* Every open handle has an owner. *)
Owned ==
  \A h \in Handles : gem[h] # Unset =>
    \E c \in Buffers, fd \in Fds : planes_[c][fd] = h

(* The handles of the current frame buffer are those of its memory. *)
OwnMemory ==
  sink = "kms" /\ b \in Buffers =>
    /\ \A fd \in Fds : planes_[b][fd] # Unset => gem[planes_[b][fd]] = Dmabuf[fd]
    /\ Len(handles) <= Len(fdsOf[b])
    /\ \A n \in 1 .. Len(handles) : gem[handles[n]] = Dmabuf[fdsOf[b][n]]

(* Later ones have none yet. *)
Fresh ==
  sink = "kms" => \A c \in Buffers : c > b => planes_[c] = [fd \in Fds |-> Unset]

IInv == Types /\ OneHandle /\ Owned /\ OwnMemory /\ Fresh

LEMMA Constants ==
  /\ \A h \in Handles : h # Unset
  /\ Unset \notin Dmabufs
  /\ \A c \in Buffers : c \in Int
  /\ IsFiniteSet(Dmabufs) /\ MaxHandle \in Nat /\ MaxHandle >= Cardinality(Dmabufs)
<1>1. Buffers \subseteq Int
  BY SinkBuffersAssumption, FS_CardinalityType
<1> QED
  BY <1>1, SinkBuffersAssumption DEF Handles, Dmabufs, Fds

LEMMA Same == FB!Fds = Fds /\ FB!Handles = Handles /\ FB!Dmabufs = Dmabufs
  BY DEF FB!Fds, FB!Handles, FB!Dmabufs, Fds, Handles, Dmabufs

(* A nonempty set of handles has a lowest one. *)
LEMMA Lowest ==
  ASSUME NEW S \in SUBSET Handles, S # {}
  PROVE  \E h \in S : \A k \in S : h <= k
<1>1. S \subseteq Nat
  BY Constants DEF Handles
<1>2. PICK h \in S : \A k \in S : <<k, h>> \notin OpToRel(<, Nat)
  BY <1>1, NatLessThanWellFounded, WFMin
<1>3. \A k \in S : ~(k < h)
  BY <1>1, <1>2 DEF OpToRel
<1> QED
  BY <1>1, <1>3

(* With more handles than dmabufs, importing a dmabuf that has none finds a
   free one. *)
LEMMA FreeHandle ==
  ASSUME Types, OneHandle, NEW d \in Dmabufs, \A h \in Handles : gem[h] # d
  PROVE  \E h \in Handles : gem[h] = Unset
<1> SUFFICES ASSUME \A h \in Handles : gem[h] # Unset PROVE FALSE
  OBVIOUS
<1>1. gem \in [Handles -> Dmabufs \ {d}]
  BY DEF Types
<1>2. /\ IsFiniteSet(Dmabufs \ {d})
      /\ Cardinality(Dmabufs \ {d}) = Cardinality(Dmabufs) - 1
  BY Constants, FS_RemoveElement
<1>3. IsFiniteSet(Handles) /\ Cardinality(Handles) = MaxHandle
  BY Constants, FS_Interval DEF Handles
<1>4. Cardinality(Dmabufs) \in Nat
  BY Constants, FS_CardinalityType
<1>5. Cardinality(Dmabufs \ {d}) < Cardinality(Handles)
  BY <1>2, <1>3, <1>4, Constants
<1>6. \E h, k \in Handles : h # k /\ gem[h] = gem[k]
  BY <1>1, <1>2, <1>3, <1>5, FS_PigeonHole
<1> QED
  BY <1>6 DEF OneHandle

(* drmPrimeFDToHandle() gives the handle of the dmabuf, or a free one when
   it has none. *)
LEMMA Prime ==
  ASSUME Types, OneHandle, NEW fd \in Fds
  PROVE  LET h == FB!PrimeHandle(fd) IN
         /\ h \in Handles
         /\ \/ gem[h] = Dmabuf[fd]
            \/ gem[h] = Unset /\ \A k \in Handles : gem[k] # Dmabuf[fd]
<1> DEFINE known == {h \in Handles : gem[h] = Dmabuf[fd]}
           free == {h \in Handles : gem[h] = Unset}
           from == IF known # {} THEN known ELSE free
<1>1. from # {} /\ from \subseteq Handles
  BY FreeHandle DEF Dmabufs
<1>2. \E h \in from : \A k \in from : h <= k
  BY <1>1, Lowest
<1>3. FB!PrimeHandle(fd) = CHOOSE h \in from : \A k \in from : h <= k
  BY Same DEF FB!PrimeHandle
<1>4. FB!PrimeHandle(fd) \in from
  BY <1>2, <1>3
<1> QED
  BY <1>4
-----------------------------------------------------------------------------
LEMMA InitIInv == Init => IInv
<1> SUFFICES ASSUME Init PROVE IInv
  OBVIOUS
<1>1. /\ gem = [h \in Handles |-> Unset]
      /\ planes_ = [c \in Buffers |-> [fd \in Fds |-> Unset]]
      /\ handles = <<>> /\ added = {} /\ b = 1
  BY Same DEF Init, FB!Init
<1>2. sink = "kms" => fdsOf \in [Buffers -> Seq(Fds)]
  BY SinkBuffersAssumption DEF Init, Fds
<1>3. Types
  BY <1>1, <1>2 DEF Types
<1>4. OwnMemory
  <2> SUFFICES ASSUME sink = "kms", b \in Buffers
               PROVE  Len(handles) <= Len(fdsOf[b])
    BY <1>1 DEF OwnMemory
  <2> QED
    BY <1>1, <1>2
<1> QED
  BY <1>1, <1>3, <1>4 DEF IInv, OneHandle, Owned, Fresh

(* One turn of the loop: the plane's handle is the one its fd has, or a new
   one, and the handles there are stay what they are. *)
LEMMA ImportStep ==
  ASSUME IInv, sink = "kms", b \in Buffers, FB!Import(b, fdsOf[b]),
         UNCHANGED <<given, b>>
  PROVE  IInv'
<1> DEFINE fd == fdsOf[b][Len(handles) + 1]
           h == IF planes_[b][fd] = Unset THEN FB!PrimeHandle(fd) ELSE planes_[b][fd]
<1>1. /\ Len(handles) < Len(fdsOf[b])
      /\ handles' = Append(handles, h)
      /\ planes_' = [planes_ EXCEPT ![b][fd] = h]
      /\ gem' = [gem EXCEPT ![h] = Dmabuf[fd]]
      /\ added' = added
  BY DEF FB!Import
<1>2. fd \in Fds /\ Dmabuf[fd] \in Dmabufs /\ Dmabuf[fd] # Unset
  BY <1>1, Constants DEF IInv, Types, Dmabufs
<1>3. /\ h \in Handles
      /\ \/ gem[h] = Dmabuf[fd]
         \/ gem[h] = Unset /\ \A k \in Handles : gem[k] # Dmabuf[fd]
      /\ planes_[b][fd] # Unset => h = planes_[b][fd]
  <2>1. CASE planes_[b][fd] = Unset
    BY <1>2, <2>1, Prime DEF IInv
  <2>2. CASE planes_[b][fd] # Unset
    BY <1>2, <2>2 DEF IInv, Types, OwnMemory
  <2> QED
    BY <2>1, <2>2
<1> HIDE DEF h
<1>4. Types'
  <2>1. gem' \in [Handles -> Dmabufs \union {Unset}]
    BY <1>1, <1>2, <1>3 DEF IInv, Types
  <2>2. planes_' \in [Buffers -> [Fds -> Handles \union {Unset}]]
    BY <1>1, <1>2, <1>3 DEF IInv, Types
  <2>3. handles' \in Seq(Handles)
    BY <1>1, <1>3 DEF IInv, Types
  <2> QED
    BY <1>1, <2>1, <2>2, <2>3 DEF IInv, Types, given
<1>5. OneHandle'
  BY <1>1, <1>2, <1>3 DEF IInv, Types, OneHandle
<1>6. ASSUME NEW k \in Handles, gem'[k] # Unset
      PROVE  \E c \in Buffers, e \in Fds : planes_'[c][e] = k
  <2>1. CASE k = h
    <3>1. planes_'[b][fd] = k
      BY <1>1, <1>2, <2>1 DEF IInv, Types
    <3> QED
      BY <3>1, <1>2
  <2>2. CASE k # h
    <3>1. gem[k] # Unset
      BY <1>1, <1>6, <2>2 DEF IInv, Types
    <3>2. PICK c \in Buffers, e \in Fds : planes_[c][e] = k
      BY <3>1 DEF IInv, Owned
    <3>3. c # b \/ e # fd
      BY <2>2, <3>2, <1>3, Constants
    <3>4. planes_'[c][e] = k
      BY <1>1, <1>2, <3>2, <3>3 DEF IInv, Types
    <3> QED
      BY <3>4
  <2> QED
    BY <2>1, <2>2
<1>7. \A k \in Handles : gem[k] # Unset => gem'[k] = gem[k]
  BY <1>1, <1>2, <1>3 DEF IInv, Types
<1>8. OwnMemory'
  <2>1. ASSUME NEW e \in Fds, planes_'[b][e] # Unset
        PROVE  gem'[planes_'[b][e]] = Dmabuf[e]
    <3>1. CASE e = fd
      BY <1>1, <1>2, <1>3, <3>1 DEF IInv, Types
    <3>2. CASE e # fd
      <4>1. planes_'[b][e] = planes_[b][e]
        BY <1>1, <1>2, <3>2 DEF IInv, Types
      <4>2. planes_[b][e] \in Handles /\ gem[planes_[b][e]] = Dmabuf[e]
        BY <2>1, <4>1 DEF IInv, Types, OwnMemory
      <4>3. Dmabuf[e] # Unset
        BY Constants DEF Dmabufs
      <4> QED
        BY <4>1, <4>2, <4>3, <1>7
    <3> QED
      BY <3>1, <3>2
  <2>2. handles \in Seq(Handles) /\ fdsOf[b] \in Seq(Fds)
    BY DEF IInv, Types
  <2>3. ASSUME NEW n \in 1 .. Len(handles')
        PROVE  gem'[handles'[n]] = Dmabuf[fdsOf[b][n]]
    <3>1. CASE n = Len(handles) + 1
      <4>1. handles'[n] = h /\ gem'[h] = Dmabuf[fd]
        BY <1>1, <1>3, <2>2, <3>1 DEF IInv, Types
      <4> QED
        BY <4>1, <3>1
    <3>2. CASE n # Len(handles) + 1
      <4>1. n \in 1 .. Len(handles) /\ handles'[n] = handles[n]
        BY <1>1, <2>2, <3>2
      <4>2. handles[n] \in Handles /\ gem[handles[n]] = Dmabuf[fdsOf[b][n]]
        BY <2>2, <4>1 DEF IInv, OwnMemory
      <4>3. fdsOf[b][n] \in Fds
        BY <1>1, <2>2, <4>1
      <4>4. Dmabuf[fdsOf[b][n]] # Unset
        BY <4>3, Constants DEF Dmabufs
      <4> QED
        BY <4>1, <4>2, <4>4, <1>7
    <3> QED
      BY <3>1, <3>2
  <2>4. Len(handles') <= Len(fdsOf[b])
    BY <1>1, <2>2
  <2> QED
    BY <2>1, <2>3, <2>4 DEF OwnMemory, given
<1>9. Fresh'
  <2>1. \A c \in Buffers : c > b => c # b
    BY Constants DEF IInv, Types
  <2> QED
    BY <1>1, <2>1 DEF IInv, Types, Fresh, given
<1> QED
  BY <1>4, <1>5, <1>6, <1>8, <1>9 DEF IInv, Owned

(* The next buffer, which no handle has been imported for. *)
LEMMA NextBuffer ==
  ASSUME IInv, sink = "kms", b \in Buffers, b' = b + 1, handles' = <<>>,
         \A c \in Buffers : c # b => planes_'[c] = planes_[c],
         UNCHANGED given
  PROVE  OwnMemory' /\ Fresh'
<1>1. b \in Nat /\ (\A c \in Buffers : c > b + 1 => c > b /\ c # b)
  BY Constants DEF IInv, Types
<1>2. Fresh'
  BY <1>1 DEF IInv, Fresh, given
<1>3. ASSUME b' \in Buffers PROVE planes_'[b'] = [fd \in Fds |-> Unset]
  <2>1. b' > b /\ b' # b
    BY <1>1
  <2> QED
    BY <1>3, <2>1 DEF IInv, Fresh
<1>4. OwnMemory'
  <2> SUFFICES ASSUME b' \in Buffers
               PROVE  /\ \A fd \in Fds : planes_'[b'][fd] = Unset
                      /\ Len(handles') = 0 /\ 0 <= Len(fdsOf'[b'])
    BY DEF OwnMemory
  <2>1. fdsOf'[b'] \in Seq(Fds)
    BY DEF IInv, Types, given
  <2> QED
    BY <1>3, <2>1
<1> QED
  BY <1>2, <1>4

LEMMA AddFB2Step ==
  ASSUME IInv, sink = "kms", b \in Buffers, FB!AddFB2(b, fdsOf[b]), b' = b + 1,
         UNCHANGED given
  PROVE  IInv'
<1>1. handles' = <<>> /\ added' = added \union {b} /\ UNCHANGED <<gem, planes_>>
  BY DEF FB!AddFB2
<1>2. OwnMemory' /\ Fresh'
  BY <1>1, NextBuffer
<1>3. Types'
  BY <1>1 DEF IInv, Types, given
<1> QED
  BY <1>1, <1>2, <1>3 DEF IInv, OneHandle, Owned

(* The destructor closes what it imported, so that what stays open has
   another owner. *)
LEMMA DestroyStep ==
  ASSUME IInv, sink = "kms", NEW c \in Buffers, FB!Destroy(c),
         \/ c = b /\ b' = b + 1
         \/ b \notin Buffers /\ b' = b,
         UNCHANGED given
  PROVE  IInv'
<1> DEFINE closed == FB!HandlesOf(c)
<1>1. /\ gem' = [h \in Handles |-> IF h \in closed THEN Unset ELSE gem[h]]
      /\ planes_' = [planes_ EXCEPT ![c] = [fd \in Fds |-> Unset]]
      /\ added' = added \ {c}
      /\ handles' = <<>>
  BY Same DEF FB!Destroy
<1>2. closed = {planes_[c][fd] : fd \in Fds} \ {Unset}
  BY Same DEF FB!HandlesOf
<1> HIDE DEF closed
<1>3. Types'
  <2>1. gem' \in [Handles -> Dmabufs \union {Unset}]
    BY <1>1 DEF IInv, Types
  <2>2. planes_' \in [Buffers -> [Fds -> Handles \union {Unset}]]
    BY <1>1 DEF IInv, Types
  <2> QED
    BY <1>1, <2>1, <2>2 DEF IInv, Types, given
<1>4. OneHandle'
  BY <1>1 DEF IInv, OneHandle
<1>5. Owned'
  <2> SUFFICES ASSUME NEW h \in Handles, gem'[h] # Unset
               PROVE  \E d \in Buffers, fd \in Fds : planes_'[d][fd] = h
    BY DEF Owned
  <2>1. h \notin closed /\ gem[h] # Unset
    BY <1>1
  <2>2. PICK d \in Buffers, fd \in Fds : planes_[d][fd] = h
    BY <2>1 DEF IInv, Owned
  <2>3. d # c
    BY <1>2, <2>1, <2>2, Constants
  <2>4. planes_'[d][fd] = h
    BY <1>1, <2>2, <2>3 DEF IInv, Types
  <2> QED
    BY <2>4
<1>6. OwnMemory' /\ Fresh'
  <2>1. CASE c = b /\ b' = b + 1
    BY <1>1, <2>1, NextBuffer DEF IInv, Types
  <2>2. CASE b \notin Buffers /\ b' = b
    BY <1>1, <2>2 DEF IInv, Types, OwnMemory, Fresh, given
  <2> QED
    BY <2>1, <2>2
<1> QED
  BY <1>3, <1>4, <1>5, <1>6 DEF IInv

(* The file sink has nothing to do with the device. *)
LEMMA OtherStep ==
  ASSUME IInv, UNCHANGED <<given, fbVars>>,
         b' = b \/ (sink = "file" /\ b' = b + 1)
  PROVE  IInv'
<1>1. Types'
  BY DEF IInv, Types, given, fbVars
<1>2. OneHandle' /\ Owned'
  BY DEF IInv, OneHandle, Owned, fbVars
<1>3. OwnMemory' /\ Fresh'
  BY DEF IInv, OwnMemory, Fresh, given, fbVars
<1> QED
  BY <1>1, <1>2, <1>3 DEF IInv

LEMMA StepIInv == IInv /\ [Next]_vars => IInv'
<1> SUFFICES ASSUME IInv, [Next]_vars PROVE IInv'
  OBVIOUS
<1>1. CASE Import
  <2>1. sink = "kms" /\ b \in Buffers /\ UNCHANGED given
    BY <1>1 DEF Import
  <2>2. CASE FB!Import(b, fdsOf[b]) /\ UNCHANGED b
    BY <2>1, <2>2, ImportStep
  <2>3. CASE FB!AddFB2(b, fdsOf[b]) /\ b' = b + 1
    BY <2>1, <2>3, AddFB2Step
  <2>4. CASE FB!Destroy(b) /\ b' = b + 1
    BY <2>1, <2>4, DestroyStep
  <2> QED
    BY <1>1, <2>2, <2>3, <2>4 DEF Import
<1>2. CASE Clear
  <2>1. sink = "kms" /\ b \notin Buffers /\ UNCHANGED <<given, b>>
    BY <1>2 DEF Clear
  <2>2. CASE UNCHANGED fbVars
    BY <2>1, <2>2, OtherStep DEF fbVars
  <2>3. ASSUME NEW c \in added, FB!Destroy(c) PROVE IInv'
    <3>1. c \in Buffers
      BY DEF IInv, Types
    <3> QED
      BY <2>1, <2>3, <3>1, DestroyStep
  <2> QED
    BY <1>2, <2>2, <2>3 DEF Clear
<1>3. CASE CheckPlane \/ MapPlane \/ AssertImage
  <2>1. UNCHANGED <<given, fbVars>>
    BY <1>3 DEF CheckPlane, MapPlane, AssertImage
  <2>2. b' = b \/ (sink = "file" /\ b' = b + 1)
    BY <1>3 DEF CheckPlane, MapPlane, AssertImage
  <2> QED
    BY <2>1, <2>2, OtherStep
<1>4. CASE WriteBuffer \/ Unmap \/ Done \/ UNCHANGED vars
  BY <1>4, OtherStep DEF WriteBuffer, Unmap, Done, vars
<1> QED
  BY <1>1, <1>2, <1>3, <1>4 DEF Next

LEMMA Invariance == Spec => []IInv
  BY InitIInv, StepIInv, PTL DEF Spec
-----------------------------------------------------------------------------
(* Whatever imports fail and whatever buffers share, an open GEM handle has a
   frame buffer that will close it (drm.cpp:245, :558). *)
THEOREM NothingLeaks == Spec => []NoHandleLeft
<1>1. IInv => NoHandleLeft
  <2> SUFFICES ASSUME IInv, NEW h \in Handles, gem[h] # Unset
               PROVE  \E c \in Buffers : h \in FB!HandlesOf(c)
    BY Same DEF NoHandleLeft, FB!NoHandleLeft
  <2>1. PICK c \in Buffers, fd \in Fds : planes_[c][fd] = h
    BY DEF IInv, Owned
  <2>2. h \in FB!HandlesOf(c)
    BY <2>1, Constants, Same DEF FB!HandlesOf
  <2> QED
    BY <2>2
<1> QED
  BY <1>1, Invariance, PTL

(* drmModeAddFB2() is given the memory of the planes, although handles are
   closed and used again by number (drm.cpp:245, :570). *)
THEOREM PlanesMatch == Spec => []HandlesMatch
<1>1. IInv => HandlesMatch
  <2> SUFFICES ASSUME IInv, sink = "kms", b \in Buffers, NEW n \in DOMAIN handles
               PROVE  gem[handles[n]] = Dmabuf[fdsOf[b][n]]
    BY DEF HandlesMatch, FB!HandlesMatch
  <2>1. n \in 1 .. Len(handles)
    BY DEF IInv, Types
  <2> QED
    BY <2>1 DEF IInv, OwnMemory
<1> QED
  BY <1>1, Invariance, PTL
-----------------------------------------------------------------------------
(* The image of the file sink.  SpansInside speaks of the planes that are read;
   before them the loops of fromFrameBuffer() have looked at the first b - 1
   planes, and put the first Len(spans) of them where their maps are. *)
UInt == 0 .. 2 ^ Width - 1
Plane == [fd : Fds, offset : UInt, length : UInt]
Seen(fd) == \E n \in 1 .. b - 1 : planes[n].fd = fd

ImageTypes ==
  /\ planes \in Seq(Plane) /\ dmabufSize \in Nat /\ b \in Nat \ {0}
  /\ spans \in Seq(Plane)
  /\ pc \in {"map", "write"} => planes # <<>>
  /\ b <= Len(planes) + 1

(* What is known of a descriptor: its map reaches as far as the planes seen. *)
Reached ==
  /\ \A fd \in Fds : Seen(fd) => fd \in DOMAIN length /\ fd \in DOMAIN reach
  /\ \A fd \in DOMAIN length : length[fd] \in {dmabufSize, Huge}
  /\ \A fd \in DOMAIN reach : fd \in DOMAIN length /\ reach[fd] \in Nat
                             /\ reach[fd] <= length[fd] /\ reach[fd] < 2 ^ Width
  /\ \A n \in 1 .. b - 1 : IMG!End(planes[n]) <= reach[planes[n].fd]

Mapped ==
  /\ Len(spans) <= Len(planes)
  /\ spans # <<>> => b = Len(planes) + 1
  /\ \A n \in 1 .. Len(spans) : spans[n] = planes[n] /\ spans[n].fd \in maps_

ImageInv ==
  sink = "file" => ImageTypes /\ (pc \in {"map", "write"} => Reached /\ Mapped)
                   /\ (pc = "map" => Len(spans) < Len(planes))
                   /\ (pc = "write" => Len(spans) = Len(planes))

LEMMA UIntNat ==
  /\ 2 ^ Width \in Int /\ Huge \in Nat
  /\ \A p \in Plane : /\ p.fd \in Fds /\ p.offset \in Nat /\ p.length \in Nat
                      /\ IMG!End(p) \in Nat /\ IMG!End(p) < 2 ^ Width
                      /\ p.offset + p.length < 2 ^ Width => IMG!End(p) = p.offset + p.length
<1>1. 2 ^ Width \in Int /\ Huge \in Nat
  BY SinkBuffersAssumption
<1> DEFINE M == 2 ^ Width
<1> HIDE DEF M
<1>2. ASSUME NEW p \in [fd : Fds, offset : 0 .. M - 1, length : 0 .. M - 1]
      PROVE  /\ p.fd \in Fds /\ p.offset \in Nat /\ p.length \in Nat
             /\ (p.offset + p.length) % M \in Nat /\ (p.offset + p.length) % M < M
             /\ p.offset + p.length < M => (p.offset + p.length) % M = p.offset + p.length
  <2>1. /\ p.fd \in Fds /\ p.offset \in Nat /\ p.length \in Nat
        /\ M \in Nat \ {0}
    BY <1>1 DEF M
  <2> DEFINE e == p.offset + p.length
  <2>2. e \in Nat
    BY <2>1
  <2> HIDE DEF e
  <2>3. e % M \in Nat /\ e % M < M /\ (e < M => e % M = e)
    BY <2>1, <2>2
  <2> QED
    BY <2>1, <2>3 DEF e
<1> QED
  BY <1>1, <1>2 DEF M, IMG!End, Plane, UInt

LEMMA InitImageInv == Init => ImageInv
<1> SUFFICES ASSUME Init, sink = "file" PROVE ImageInv
  BY DEF ImageInv
<1>1. planes \in Seq(Plane) \ {<<>>} /\ dmabufSize \in Nat
  BY SinkBuffersAssumption DEF Init, Plane, UInt, Fds
<1>2. spans = <<>> /\ Len(spans) = 0 /\ b = 1 /\ pc = "map" /\ length = <<>> /\ reach = <<>>
  BY DEF Init, IMG!Init
<1>3. Len(planes) \in Nat \ {0}
  BY <1>1, EmptySeq
<1>4. ImageTypes
  BY <1>1, <1>2, <1>3 DEF ImageTypes
<1>5. Reached
  <2>1. DOMAIN length = {} /\ DOMAIN reach = {} /\ 1 .. b - 1 = {}
    BY <1>2
  <2> QED
    BY <2>1 DEF Reached, Seen
<1>6. Mapped
  BY <1>2, <1>3 DEF Mapped
<1> QED
  BY <1>2, <1>3, <1>4, <1>5, <1>6 DEF ImageInv

(* The first loop: looking at one more plane only makes a map longer. *)
LEMMA CheckStep ==
  ASSUME ImageInv, sink = "file", pc = "map", b <= Len(planes), IMG!Check(planes[b], dmabufSize),
         b' = b + 1, UNCHANGED <<given, pc>>
  PROVE  ImageInv'
<1> DEFINE p == planes[b]
<1>s. /\ ImageTypes /\ Reached /\ Mapped /\ Len(spans) < Len(planes)
      /\ p \in Plane /\ Len(planes) \in Nat /\ UNCHANGED <<sink, planes, dmabufSize>>
  BY DEF ImageInv, ImageTypes, given
<1> PICK n \in IMG!Lengths(p.fd, dmabufSize) :
      /\ IMG!Fits(p, n)
      /\ length' = IMG!Put(length, p.fd, n)
      /\ reach' = IMG!Put(reach, p.fd, IMG!Reach(p))
      /\ UNCHANGED <<maps_, spans>>
  BY DEF IMG!Check
<1>p. /\ p.fd \in Fds /\ IMG!End(p) \in Nat /\ IMG!End(p) < 2 ^ Width
      /\ \A j \in 1 .. b : planes[j] \in Plane /\ planes[j].fd \in Fds /\ IMG!End(planes[j]) \in Nat
  <2>1. \A j \in 1 .. b : planes[j] \in Plane
    BY <1>s DEF ImageTypes
  <2> QED
    BY <1>s, <2>1, UIntNat
<1>n. n \in {dmabufSize, Huge} /\ n \in Int /\ (p.fd \in DOMAIN length => n = length[p.fd])
  BY <1>s, UIntNat DEF IMG!Lengths, Reached, ImageTypes
<1>r. /\ IMG!Reach(p) \in Nat /\ IMG!End(p) <= IMG!Reach(p) /\ IMG!Reach(p) <= n
      /\ IMG!Reach(p) < 2 ^ Width
      /\ p.fd \in DOMAIN reach => reach[p.fd] <= IMG!Reach(p)
  BY <1>s, <1>p, <1>n DEF IMG!Fits, IMG!Reach, Reached
<1>1. /\ DOMAIN length' = DOMAIN length \union {p.fd} /\ length'[p.fd] = n
      /\ \A fd \in DOMAIN length : fd # p.fd => length'[fd] = length[fd]
      /\ DOMAIN reach' = DOMAIN reach \union {p.fd} /\ reach'[p.fd] = IMG!Reach(p)
      /\ \A fd \in DOMAIN reach : fd # p.fd => reach'[fd] = reach[fd]
  BY DEF IMG!Put
<1>2. ImageTypes'
  BY <1>s DEF ImageTypes
<1>3. Reached'
  <2>1. \A fd \in Fds : Seen(fd)' => Seen(fd) \/ fd = p.fd
    <3> TAKE fd \in Fds
    <3> SUFFICES ASSUME NEW j \in 1 .. b' - 1, planes'[j].fd = fd, fd # p.fd PROVE Seen(fd)
      BY DEF Seen
    <3>1. j # b /\ j \in 1 .. b - 1
      BY <1>s DEF ImageTypes
    <3> QED
      BY <1>s, <3>1 DEF Seen
  <2>2. \A fd \in Fds : Seen(fd)' => fd \in DOMAIN length' /\ fd \in DOMAIN reach'
    BY <1>s, <1>1, <2>1 DEF Reached
  <2>3. \A fd \in DOMAIN length' : length'[fd] \in {dmabufSize', Huge}
    BY <1>s, <1>1, <1>n DEF Reached
  <2>4. ASSUME NEW fd \in DOMAIN reach'
        PROVE  /\ fd \in DOMAIN length' /\ reach'[fd] \in Nat
               /\ reach'[fd] <= length'[fd] /\ reach'[fd] < 2 ^ Width
    <3>1. CASE fd = p.fd
      BY <1>1, <1>r, <3>1
    <3>2. CASE fd # p.fd
      BY <1>s, <1>1, <3>2 DEF Reached
    <3> QED
      BY <3>1, <3>2
  <2>5. ASSUME NEW j \in 1 .. b' - 1
        PROVE  IMG!End(planes'[j]) <= reach'[planes'[j].fd]
    <3>1. j \in 1 .. b /\ planes'[j] = planes[j]
      BY <1>s DEF ImageTypes
    <3>2. CASE j = b
      BY <1>1, <1>r, <3>1, <3>2
    <3>3. CASE j # b
      <4>1. j \in 1 .. b - 1
        BY <1>s, <3>1, <3>3 DEF ImageTypes
      <4> DEFINE q == planes[j]
      <4>2. q.fd \in Fds /\ Seen(q.fd) /\ IMG!End(q) \in Nat
        BY <1>p, <3>1, <4>1 DEF Seen
      <4>3. q.fd \in DOMAIN reach /\ reach[q.fd] \in Nat /\ IMG!End(q) <= reach[q.fd]
        BY <1>s, <4>1, <4>2 DEF Reached
      <4>4. reach'[q.fd] \in Nat /\ reach[q.fd] <= reach'[q.fd]
        BY <1>1, <1>r, <4>3
      <4> HIDE DEF q
      <4>5. IMG!End(q) <= reach'[q.fd]
        BY <4>2, <4>3, <4>4
      <4> QED
        BY <3>1, <4>5 DEF q
    <3> QED
      BY <3>2, <3>3
  <2> QED
    BY <2>2, <2>3, <2>4, <2>5 DEF Reached
<1>4. Mapped'
  <2>1. spans = <<>>
    BY <1>s DEF Mapped, ImageTypes
  <2>2. Len(spans') = 0 /\ spans' = <<>>
    BY <2>1
  <2> QED
    BY <1>s, <2>2 DEF Mapped
<1> QED
  BY <1>s, <1>2, <1>3, <1>4 DEF ImageInv

(* The second loop maps the plane that comes next. *)
LEMMA MapStep ==
  ASSUME ImageInv, MapPlane
  PROVE  ImageInv'
<1> DEFINE p == planes[Len(spans) + 1]
<1>s. /\ ImageTypes /\ Reached /\ Mapped /\ Len(spans) < Len(planes)
      /\ Len(planes) \in Nat /\ Len(spans) \in Nat /\ sink = "file" /\ pc = "map"
      /\ UNCHANGED <<sink, planes, dmabufSize, b>> /\ b = Len(planes) + 1
  BY DEF ImageInv, ImageTypes, given, MapPlane
<1>1. p \in Plane
  BY <1>s DEF ImageTypes
<1>2. CASE IMG!Unmappable(p) /\ pc' = "null" /\ UNCHANGED imageVars
  BY <1>s, <1>2 DEF ImageInv, ImageTypes, imageVars
<1>3. CASE IMG!Map(p) /\ pc' = IF Len(spans') = Len(planes) THEN "write" ELSE pc
  <2>1. /\ spans' = Append(spans, p) /\ maps_' = maps_ \union {p.fd}
        /\ UNCHANGED <<length, reach>>
    BY <1>3 DEF IMG!Map
  <2>2. /\ spans' \in Seq(Plane) /\ Len(spans') = Len(spans) + 1
        /\ \A n \in 1 .. Len(spans) : spans'[n] = spans[n]
        /\ spans'[Len(spans) + 1] = p
    BY <1>s, <1>1, <2>1 DEF ImageTypes
  <2>3. ImageTypes'
    BY <1>s, <2>2 DEF ImageTypes
  <2>4. Reached'
    BY <1>s, <2>1 DEF Reached, Seen
  <2>5. Mapped'
    <3>1. ASSUME NEW n \in 1 .. Len(spans')
          PROVE  spans'[n] = planes'[n] /\ spans'[n].fd \in maps_'
      <4>1. CASE n = Len(spans) + 1
        BY <1>s, <2>1, <2>2, <4>1
      <4>2. CASE n # Len(spans) + 1
        <5>1. n \in 1 .. Len(spans)
          BY <1>s, <2>2, <4>2
        <5> QED
          BY <1>s, <2>1, <2>2, <5>1 DEF Mapped
      <4> QED
        BY <4>1, <4>2
    <3> QED
      BY <1>s, <2>2, <3>1 DEF Mapped
  <2> QED
    BY <1>3, <1>s, <2>2, <2>3, <2>4, <2>5 DEF ImageInv
<1> QED
  BY <1>2, <1>3 DEF MapPlane

LEMMA StepImageInv == ImageInv /\ [Next]_vars => ImageInv'
<1> SUFFICES ASSUME ImageInv, [Next]_vars PROVE ImageInv'
  OBVIOUS
<1>0. UNCHANGED given
  BY DEF Next, Import, Clear, CheckPlane, MapPlane, AssertImage, WriteBuffer, Unmap, Done, vars
<1>1. CASE sink # "file"
  BY <1>0, <1>1 DEF ImageInv, given
<1>2. CASE sink = "file"
  <2>1. CASE CheckPlane
    <3>1. CASE IMG!Check(planes[b], dmabufSize) /\ b' = b + 1 /\ UNCHANGED pc
      BY <1>0, <1>2, <2>1, <3>1, CheckStep DEF CheckPlane
    <3>2. CASE pc' = "null" /\ UNCHANGED <<b, imageVars>>
      BY <1>0, <1>2, <3>2 DEF ImageInv, ImageTypes, given, imageVars
    <3> QED
      BY <2>1, <3>1, <3>2 DEF CheckPlane
  <2>2. CASE MapPlane
    BY <2>2, MapStep
  <2>3. CASE AssertImage \/ Unmap
    <3>1. spans' = <<>> /\ pc' \in {"abort", "done"} /\ b' = b
      BY <2>3 DEF AssertImage, Unmap, IMG!Unmap
    <3>2. spans' \in Seq(Plane)
      BY <3>1
    <3> QED
      BY <1>0, <1>2, <3>1, <3>2 DEF ImageInv, ImageTypes, given
  <2>4. CASE WriteBuffer \/ Done \/ UNCHANGED vars
    <3>1. UNCHANGED <<given, pc, b, imageVars>>
      BY <2>4 DEF WriteBuffer, Done, vars
    <3> QED
      BY <3>1 DEF ImageInv, ImageTypes, Reached, Mapped, Seen, given, imageVars
  <2> QED
    BY <1>2, <2>1, <2>2, <2>3, <2>4 DEF Next, Import, Clear
<1> QED
  BY <1>1, <1>2

(* Only the file sink comes to write. *)
Sinks == sink \in {"kms", "file"} /\ (sink = "kms" => pc # "write")

LEMMA OnlyFilesWritten == Spec => []Sinks
<1>1. Init => Sinks
  BY DEF Init, Sinks
<1>2. Sinks /\ [Next]_vars => Sinks'
  BY DEF Sinks, Next, Import, Clear, CheckPlane, MapPlane, AssertImage, WriteBuffer, Unmap, Done,
     vars, given
<1> QED
  BY <1>1, <1>2, PTL DEF Spec

(* SpansInside: for any planes that share descriptors, overlap or are empty, and
   any width of the sums, what the file sink writes out of a plane lies in its map
   exactly when offset + length did not wrap, whatever lseek() said; and the map
   lies in the dmabuf when lseek() told its length, whatever wrapped
   (image.cpp:45, :51, :61). *)
THEOREM PlanesMapped == Spec => []SpansInside
<1>1. ImageInv /\ Sinks => SpansInside
  <2> DEFINE end(p) == p.offset + p.length
  <2> SUFFICES ASSUME ImageInv, sink = "file", pc = "write", NEW n \in DOMAIN spans
               PROVE  /\ spans[n].fd \in maps_
                      /\ end(spans[n]) <= reach[spans[n].fd] <=> end(spans[n]) < 2 ^ Width
                      /\ reach[spans[n].fd] <= dmabufSize \/ length[spans[n].fd] = Huge
    BY DEF Sinks, SpansInside, IMG!SpansInside
  <2> DEFINE p == spans[n]
             r == reach[p.fd]
  <2>1. /\ n \in 1 .. Len(spans) /\ n \in 1 .. b - 1 /\ p \in Plane /\ p = planes[n]
        /\ p.fd \in maps_
    BY DEF ImageInv, ImageTypes, Mapped
  <2>2. /\ Seen(p.fd) /\ p.fd \in Fds /\ end(p) \in Nat /\ IMG!End(p) \in Nat
        /\ end(p) < 2 ^ Width => IMG!End(p) = end(p)
    BY <2>1, UIntNat DEF Seen
  <2>3. /\ IMG!End(p) <= r /\ r \in Nat /\ r < 2 ^ Width
        /\ r <= length[p.fd] /\ length[p.fd] \in {dmabufSize, Huge}
    BY <2>1, <2>2 DEF ImageInv, Reached
  <2>4. 2 ^ Width \in Int
    BY UIntNat
  <2>5. r <= dmabufSize \/ length[p.fd] = Huge
    BY <2>3
  <2> DEFINE M == 2 ^ Width
             e == end(p)
  <2>6. e \in Nat /\ M \in Int /\ r \in Nat /\ r < M /\ (e < M => e <= r)
    BY <2>2, <2>3, <2>4
  <2> HIDE DEF M, e, r
  <2>7. e <= r <=> e < M
    BY <2>6
  <2> QED
    BY <2>1, <2>5, <2>7 DEF M, e, r
<1> QED
  BY <1>1, OnlyFilesWritten, InitImageInv, StepImageInv, PTL DEF Spec
-----------------------------------------------------------------------------
(* The file.  A plane is written where the last one ended and in its place of the
   frame, since a short write ends the frame: pos = due while there is a plane.
   What is before pos is of this frame, what is behind of older ones. *)
Byte == [frame : Nat, at : Nat]

FileTypes ==
  /\ file \in Seq(Byte)
  /\ frame \in Nat /\ pos \in Nat /\ due \in Nat /\ plane \in Nat

Writing ==
  plane # 0 =>
    /\ pc = "write" /\ plane <= Len(spans)
    /\ pos = due

Placed ==
  /\ pos <= Len(file)
  /\ \A k \in 1 .. pos : file[k].frame = frame
  /\ \A k \in 1 .. Len(file) : file[k].at = k /\ file[k].frame <= frame
  /\ \A j, k \in 1 .. Len(file) : j < k => file[j].frame >= file[k].frame

FileInv == FileTypes /\ Writing /\ Placed

LEMMA InitFileInv == Init => FileInv
<1> SUFFICES ASSUME Init PROVE FileInv
  OBVIOUS
<1>1. /\ file = <<>> /\ Len(file) = 0 /\ frame = 0 /\ pos = 0 /\ due = 0 /\ plane = 0
      /\ <<>> \in Seq(Byte)
  BY DEF Init, FS!Init
<1> QED
  BY <1>1 DEF FileInv, FileTypes, Writing, Placed

(* What write() of n bytes leaves in the file: nothing is shorter for it. *)
LEMMA Written ==
  ASSUME FileTypes, pos <= Len(file), pos = due, NEW n \in Nat
  PROVE  LET w == FS!Write(file, pos, due, n)
         IN  /\ w \in Seq(Byte) /\ Len(w) >= pos + n /\ Len(w) >= Len(file)
             /\ Len(w) = pos + n \/ Len(w) = Len(file)
             /\ \A k \in 1 .. Len(w) :
                  w[k] = IF k > pos /\ k <= pos + n THEN [frame |-> frame, at |-> k] ELSE file[k]
<1> DEFINE N == IF pos + n > Len(file) THEN pos + n ELSE Len(file)
           e(k) == IF k > pos /\ k <= pos + n
                   THEN [frame |-> frame, at |-> due + k - pos] ELSE file[k]
           w == [k \in 1 .. N |-> e(k)]
<1>1. /\ Len(file) \in Nat /\ pos \in Nat /\ due \in Nat /\ frame \in Nat
      /\ N \in Nat /\ N >= pos + n /\ N >= Len(file) /\ (N = pos + n \/ N = Len(file))
      /\ \A k \in 1 .. Len(file) : file[k] \in Byte
  BY DEF FileTypes
<1>2. ASSUME NEW k \in 1 .. N
      PROVE  /\ e(k) \in Byte
             /\ e(k) = IF k > pos /\ k <= pos + n THEN [frame |-> frame, at |-> k] ELSE file[k]
  <2>1. CASE k > pos /\ k <= pos + n
    <3>1. due + k - pos = k /\ k \in Nat
      BY <1>1
    <3> QED
      BY <1>1, <2>1, <3>1 DEF Byte
  <2>2. CASE ~(k > pos /\ k <= pos + n)
    <3>1. k \in 1 .. Len(file)
      BY <1>1, <2>2
    <3> QED
      BY <1>1, <2>2, <3>1
  <2> QED
    BY <2>1, <2>2
<1> HIDE DEF N, e
<1>3. w \in [1 .. N -> Byte]
  BY <1>2
<1>4. w \in Seq(Byte) /\ Len(w) = N
  BY <1>1, <1>3
<1>5. \A k \in 1 .. N : w[k] = e(k)
  OBVIOUS
<1>6. w = FS!Write(file, pos, due, n)
  BY DEF FS!Write, N, e
<1> HIDE DEF w
<1> QED
  BY <1>1, <1>2, <1>4, <1>5, <1>6

(* One turn of the loop over the planes. *)
LEMMA WriteStep ==
  ASSUME FileInv, ImageInv, sink = "file", pc = "write", NEW bytesused \in 0 .. MaxBytes,
         FS!WritePlane(spans, bytesused), UNCHANGED <<pc, spans>>
  PROVE  FileInv'
<1>s. /\ FileTypes /\ Writing /\ Placed /\ plane # 0 /\ pos = due /\ plane \in 1 .. Len(spans)
      /\ spans \in Seq(Plane) /\ frame' = frame
  BY DEF FileInv, FileTypes, Writing, ImageInv, ImageTypes, FS!WritePlane
<1> DEFINE size == spans[plane].length
           len == IF bytesused < size THEN bytesused ELSE size
<1>1. len \in Nat
  <2>1. size \in Nat /\ bytesused \in Nat
    BY <1>s, UIntNat, SinkBuffersAssumption
  <2> QED
    BY <2>1
<1> PICK n \in {len} \union IF "write" \in Faults THEN 0 .. len ELSE {} :
      /\ file' = FS!Write(file, pos, due, n)
      /\ pos' = pos + n
      /\ due' = due + len
      /\ plane' = IF n < len \/ plane = Len(spans) THEN 0 ELSE plane + 1
  BY DEF FS!WritePlane
<1> HIDE DEF len
<1>2. n \in Nat /\ n <= len
  BY <1>1
<1>3. /\ file' \in Seq(Byte) /\ Len(file') >= pos + n /\ Len(file') >= Len(file)
      /\ Len(file') = pos + n \/ Len(file') = Len(file)
      /\ \A k \in 1 .. Len(file') :
           file'[k] = IF k > pos /\ k <= pos + n THEN [frame |-> frame, at |-> k] ELSE file[k]
  BY <1>s, <1>2, Written DEF Placed
<1>4. FileTypes'
  BY <1>s, <1>1, <1>2, <1>3 DEF FileTypes
<1>5. Writing'
  <2>1. plane' # 0 => n = len /\ plane' <= Len(spans)
    BY <1>s, <1>1, <1>2
  <2> QED
    BY <1>s, <2>1, <1>1, <1>2 DEF Writing, FileTypes
<1>n. /\ pos \in Nat /\ n \in Nat /\ frame \in Nat /\ pos <= Len(file)
      /\ Len(file) \in Nat /\ Len(file') \in Nat
      /\ \A k \in 1 .. Len(file) : file[k].frame \in Nat
  <2>1. \A k \in 1 .. Len(file) : file[k] \in Byte
    BY <1>s DEF FileTypes
  <2>2. \A k \in 1 .. Len(file) : file[k].frame \in Nat
    BY <2>1 DEF Byte
  <2> QED
    BY <1>s, <1>2, <1>3, <2>2 DEF FileTypes, Placed
<1>6. ASSUME NEW k \in 1 .. Len(file')
      PROVE  /\ file'[k].at = k /\ file'[k].frame \in Nat /\ file'[k].frame <= frame
             /\ k <= pos + n => file'[k].frame = frame
             /\ k > pos + n => k \in 1 .. Len(file) /\ file'[k] = file[k]
  <2>1. CASE k > pos /\ k <= pos + n
    <3>1. file'[k] = [frame |-> frame, at |-> k]
      BY <1>3, <2>1
    <3> QED
      BY <1>n, <2>1, <3>1
  <2>2. CASE ~(k > pos /\ k <= pos + n)
    <3>0. k \in Nat \ {0} /\ k <= Len(file')
      BY <1>n
    <3>1. k \in 1 .. Len(file) /\ file'[k] = file[k]
      <4>1. file'[k] = file[k]
        BY <1>3, <2>2
      <4>2. k <= Len(file)
        BY <1>n, <1>3, <2>2, <3>0
      <4> QED
        BY <1>n, <3>0, <4>1, <4>2
    <3>2. file[k].frame \in Nat /\ file[k].at = k /\ file[k].frame <= frame
      BY <1>n, <1>s, <3>1 DEF Placed
    <3>3. k <= pos + n => k \in 1 .. pos
      BY <1>n, <2>2, <3>1
    <3> QED
      BY <1>s, <3>1, <3>2, <3>3 DEF Placed
  <2> QED
    BY <2>1, <2>2
<1>7. ASSUME NEW j \in 1 .. Len(file'), NEW k \in 1 .. Len(file'), j < k
      PROVE  file'[j].frame >= file'[k].frame
  <2>1. CASE j <= pos + n
    BY <1>s, <1>6, <2>1 DEF FileTypes
  <2>2. CASE ~(j <= pos + n)
    <3>1. k > pos + n /\ j > pos + n
      BY <1>s, <1>2, <1>7, <2>2 DEF FileTypes
    <3> QED
      BY <1>s, <1>6, <1>7, <3>1 DEF Placed
  <2> QED
    BY <2>1, <2>2
<1>8. Placed'
  <2>1. \A k \in 1 .. pos' : k \in 1 .. Len(file') /\ k <= pos + n
    BY <1>s, <1>2, <1>3, <1>4 DEF FileTypes
  <2> QED
    BY <1>s, <1>3, <1>6, <1>7, <2>1 DEF Placed
<1> QED
  BY <1>4, <1>5, <1>8 DEF FileInv

LEMMA StepFileInv == FileInv /\ ImageInv /\ Sinks /\ [Next]_vars => FileInv'
<1> SUFFICES ASSUME FileInv, ImageInv, Sinks, [Next]_vars PROVE FileInv'
  OBVIOUS
<1>1. CASE WriteBuffer
  <2>1. sink = "file" /\ pc = "write" /\ UNCHANGED <<pc, spans>>
    BY <1>1 DEF WriteBuffer, Sinks, imageVars
  <2>2. CASE FS!Open
    <3>1. Len(spans) \in Nat \ {0}
      <4>1. planes \in Seq(Plane) /\ planes # <<>> /\ Len(spans) = Len(planes)
        BY <2>1 DEF ImageInv, ImageTypes
      <4> QED
        BY <4>1, EmptySeq
    <3>2. /\ frame' = frame + 1 /\ plane' \in {0, 1} /\ pos' = 0 /\ due' = 0 /\ file' = file
      BY <2>2 DEF FS!Open
    <3>3. Placed'
      <4>1. \A k \in 1 .. Len(file) : file[k].frame \in Nat
        <5>1. \A k \in 1 .. Len(file) : file[k] \in Byte
          BY DEF FileInv, FileTypes
        <5> QED
          BY <5>1 DEF Byte
      <4>2. Len(file) \in Nat /\ frame \in Nat /\ 1 .. pos' = {}
        BY <3>2 DEF FileInv, FileTypes
      <4> QED
        BY <3>2, <4>1, <4>2 DEF FileInv, Placed
    <3> QED
      BY <2>1, <3>1, <3>2, <3>3 DEF FileInv, FileTypes, Writing
  <2>3. ASSUME NEW bytesused \in 0 .. MaxBytes, FS!WritePlane(spans, bytesused) PROVE FileInv'
    BY <2>1, <2>3, WriteStep
  <2> QED
    BY <1>1, <2>2, <2>3 DEF WriteBuffer
<1>2. CASE Import \/ Clear \/ CheckPlane \/ MapPlane \/ AssertImage \/ Unmap \/ Done \/ UNCHANGED vars
  <2>1. UNCHANGED fileVars /\ (plane # 0 => UNCHANGED <<pc, spans>>)
    BY <1>2 DEF Import, Clear, CheckPlane, MapPlane, AssertImage, Unmap, Done, vars, imageVars,
       FileInv, Writing
  <2> QED
    BY <2>1 DEF FileInv, FileTypes, Writing, Placed, fileVars
<1> QED
  BY <1>1, <1>2 DEF Next

(* FileInOrder: byte k of the file is byte k of a frame, newer frames before older
   ones, however long the frames are and wherever opens and writes fail or are
   short; the file starts with a frame that was written whole (file_sink.cpp:55,
   :79, :82). *)
THEOREM BytesInPlace == Spec => []FileInOrder
<1>1. FileInv => FileInOrder
  <2> SUFFICES ASSUME FileInv PROVE FileInOrder
    OBVIOUS
  <2>1. DOMAIN file = 1 .. Len(file) /\ Len(file) \in Nat /\ pos \in Nat
    BY DEF FileInv, FileTypes
  <2> QED
    BY <2>1 DEF FileInv, Placed, FileInOrder, FS!FileInOrder
<1> QED
  BY <1>1, InitFileInv, StepFileInv, InitImageInv, StepImageInv, OnlyFilesWritten, PTL DEF Spec
=============================================================================
