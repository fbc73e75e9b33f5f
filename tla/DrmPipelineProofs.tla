------------------------- MODULE DrmPipelineProofs -------------------------
(***************************************************************************)
(* What KMSSink settles on, for a device with any number of CRTCs,         *)
(* encoders, connectors and planes, and integers of any width: the         *)
(* documented connector, a pipeline that works, none only if there is      *)
(* none, and a picture that is on the screen or wholly off it.             *)
(*                                                                         *)
(* The properties speak of the ends of the loops; the invariants speak of  *)
(* their turns.  Searching is what findRequestedConnector() knows of the   *)
(* connectors it has seen, Looking what selectPipeline() knows of the      *)
(* turns it has taken.                                                     *)
(***************************************************************************)
EXTENDS DrmPipeline, FiniteSetTheorems, TLAPS

Searched == {"open", "find", "noConnector"}
Labels == Ended \union {"open", "find", "configure", "select", "place"}

DeviceOK ==
  /\ format \in Formats
  /\ encoders \in [1 .. Count -> Encoders]
  /\ connectors \in [1 .. Count -> Connectors]
  /\ planes \in [1 .. Count -> Planes]

TypeOK ==
  /\ DeviceOK
  /\ pc \in Labels
  /\ conn \in 1 .. Count + 1
  /\ connector_ \in (1 .. Count) \union {None}

Status(k) == connectors[k].status

(* The first connector with a status. *)
IsFirst(k, status) ==
  /\ k \in 1 .. Count /\ Status(k) = status
  /\ \A j \in 1 .. Count : j < k => Status(j) # status

Searching ==
  /\ pc = "open" => conn = 1 /\ connector_ = None
  /\ pc = "find" =>
       /\ \A j \in 1 .. Count : j < conn => Status(j) # "connected"
       /\ connector_ # None => connector_ < conn /\ IsFirst(connector_, "unknown")
       /\ connector_ = None => \A j \in 1 .. Count : j < conn => Status(j) # "unknown"

Found ==
  /\ pc \notin Searched =>
       \/ IsFirst(connector_, "connected")
       \/ /\ \A j \in 1 .. Count : Status(j) # "connected"
          /\ IsFirst(connector_, "unknown")
  /\ pc = "noConnector" /\ conn > Count =>
       \A j \in 1 .. Count : Status(j) = "disconnected"

ConnectorInv == TypeOK /\ Searching /\ Found
-----------------------------------------------------------------------------
LEMMA InitConnector == Init => ConnectorInv
  BY DrmPipelineAssumption
  DEF Init, ConnectorInv, TypeOK, DeviceOK, Labels, Ended, Searching, Found, Searched

(* No step changes the device. *)
LEMMA DeviceKept == [Next]_vars => UNCHANGED <<format, encoders, connectors, planes>>
  BY DEF Next, InitDevice, FindRequestedConnector, LoopEnds, Configure, SelectPipeline,
     NoPipeline, Place, Done, vars, device

(* The rest of the program leaves the connector alone. *)
LEMMA ConnectorKept ==
  ASSUME ConnectorInv, UNCHANGED <<format, encoders, connectors, planes, conn, connector_>>,
         pc \notin Searched, pc' \in Labels \ Searched
  PROVE  ConnectorInv'
  BY DEF ConnectorInv, TypeOK, DeviceOK, Searching, Found, Searched, Status, IsFirst

LEMMA StepConnector == ConnectorInv /\ [Next]_vars => ConnectorInv'
<1> SUFFICES ASSUME ConnectorInv, [Next]_vars PROVE ConnectorInv'
  OBVIOUS
<1>t. /\ Count \in Nat /\ conn \in Nat
      /\ \A k \in 1 .. Count : Status(k) \in {"connected", "unknown", "disconnected"}
  BY DrmPipelineAssumption DEF ConnectorInv, TypeOK, DeviceOK, Status
<1>d. UNCHANGED <<format, encoders, connectors, planes>>
  BY DeviceKept
<1>1. CASE InitDevice
  BY <1>1, <1>t, <1>d
  DEF InitDevice, Goto, ConnectorInv, TypeOK, DeviceOK, Labels, Ended, Searching, Found, Searched
<1>2. CASE FindRequestedConnector
  <2>1. pc = "find" /\ conn \in 1 .. Count /\ conn' = conn + 1
    BY <1>2, <1>t DEF FindRequestedConnector, ConnectorInv, TypeOK
  <2>2. CASE Status(conn) = "connected"
    <3>1. pc' = "configure" /\ connector_' = conn
      BY <1>2, <2>2 DEF FindRequestedConnector, Goto, Status
    <3>2. IsFirst(conn, "connected")
      BY <2>1, <2>2 DEF ConnectorInv, Searching, IsFirst
    <3> QED
      BY <1>d, <1>t, <2>1, <3>1, <3>2
      DEF ConnectorInv, TypeOK, DeviceOK, Labels, Searching, Found, Searched, Status, IsFirst
  <2>3. CASE Status(conn) # "connected"
    <3>1. /\ pc' = "find"
          /\ connector_' = IF connector_ = None /\ Status(conn) = "unknown" THEN conn ELSE connector_
      BY <1>2, <2>1, <2>3 DEF FindRequestedConnector, Status
    <3>2. TypeOK' /\ Found'
      BY <1>d, <1>t, <2>1, <3>1
      DEF ConnectorInv, TypeOK, DeviceOK, Labels, Found, Searched
    <3>3. \A j \in 1 .. Count : j < conn' <=> j < conn \/ j = conn
      BY <1>t, <2>1
    <3>4. None # conn
      BY <1>t, DrmPipelineAssumption
    <3>5. Searching'
      <4>1. CASE connector_ = None /\ Status(conn) = "unknown"
        <5>1. IsFirst(conn, "unknown")
          BY <2>1, <4>1 DEF ConnectorInv, Searching, IsFirst
        <5> QED
          BY <1>d, <1>t, <2>1, <2>3, <3>1, <3>3, <3>4, <4>1, <5>1
          DEF ConnectorInv, Searching, Status, IsFirst
      <4>2. CASE connector_ # None
        <5>1. connector_ \in Nat /\ connector_ < conn /\ IsFirst(connector_, "unknown")
          BY <2>1, <4>2 DEF ConnectorInv, Searching, TypeOK
        <5> QED
          BY <1>d, <1>t, <2>1, <2>3, <3>1, <3>3, <4>2, <5>1
          DEF ConnectorInv, Searching, Status, IsFirst
      <4>3. CASE connector_ = None /\ Status(conn) # "unknown"
        BY <1>d, <1>t, <2>1, <2>3, <3>1, <3>3, <4>3
        DEF ConnectorInv, Searching, Status, IsFirst
      <4> QED
        BY <4>1, <4>2, <4>3
    <3> QED
      BY <3>2, <3>5 DEF ConnectorInv
  <2> QED
    BY <2>2, <2>3
<1>3. CASE LoopEnds
  <2>1. /\ pc = "find" /\ conn > Count /\ UNCHANGED <<conn, connector_>>
        /\ pc' = IF connector_ = None THEN "noConnector" ELSE "configure"
    BY <1>3 DEF LoopEnds, Goto
  <2>2. \A j \in 1 .. Count : j < conn
    BY <1>t, <2>1
  <2> QED
    BY <1>d, <1>t, <2>1, <2>2
    DEF ConnectorInv, TypeOK, DeviceOK, Labels, Ended, Searching, Found, Searched, Status, IsFirst
<1>4. ASSUME Configure \/ SelectPipeline \/ NoPipeline \/ Place PROVE ConnectorInv'
  <2>1. pc \notin Searched /\ pc' \in Labels \ Searched /\ UNCHANGED <<conn, connector_>>
    BY <1>4 DEF Configure, SelectPipeline, NoPipeline, Place, Goto, Searched, Labels, Ended
  <2> QED
    BY <1>d, <2>1, ConnectorKept
<1>5. CASE UNCHANGED vars
  BY <1>5, <1>d DEF vars, ConnectorInv, TypeOK, DeviceOK, Searching, Found, Status, IsFirst
<1> QED
  BY <1>1, <1>2, <1>3, <1>4, <1>5 DEF Next, Done

LEMMA ConnectorInvariance == Spec => []ConnectorInv
  BY InitConnector, StepConnector, PTL DEF Spec

(* ConnectorAsDocumented: the loop of findRequestedConnector() ends with the
   first connected connector, else with the first of unknown status, for any
   number of connectors (kms_sink.cpp:32-34, :60-70). *)
THEOREM DocumentedConnector == Spec => []ConnectorAsDocumented
<1>1. ConnectorInv => ConnectorAsDocumented
  <2> SUFFICES ASSUME ConnectorInv PROVE ConnectorAsDocumented
    OBVIOUS
  <2> DEFINE With(status) == {k \in 1 .. Count : connectors[k].status = status}
             First(S) == CHOOSE k \in S : \A j \in S : k <= j
  <2>1. ASSUME NEW k, NEW status, IsFirst(k, status)
        PROVE  With(status) # {} /\ First(With(status)) = k
    <3>1. k \in With(status) /\ \A j \in With(status) : k <= j
      BY <2>1, DrmPipelineAssumption DEF IsFirst, Status
    <3>2. \A m \in With(status) : (\A j \in With(status) : m <= j) => m = k
      BY <3>1, DrmPipelineAssumption
    <3> HIDE DEF With
    <3>3. \E m \in With(status) : \A j \in With(status) : m <= j
      BY <3>1
    <3>4. /\ First(With(status)) \in With(status)
          /\ \A j \in With(status) : First(With(status)) <= j
      BY <3>3
    <3> QED
      BY <3>1, <3>2, <3>4
  <2>2. (\A j \in 1 .. Count : Status(j) # "connected") => With("connected") = {}
    BY DEF Status
  <2>3. (\A j \in 1 .. Count : Status(j) = "disconnected") => With("disconnected") = 1 .. Count
    BY DEF Status
  <2> HIDE DEF With, First
  <2>4. pc \notin Searched =>
          connector_ = IF With("connected") # {}
                       THEN First(With("connected")) ELSE First(With("unknown"))
    BY <2>1, <2>2 DEF ConnectorInv, Found
  <2>5. pc = "noConnector" /\ conn > Count => With("disconnected") = 1 .. Count
    BY <2>3 DEF ConnectorInv, Found
  <2> USE DEF With, First
  <2> QED
    BY <2>4, <2>5 DEF ConnectorAsDocumented, Searched
<1> QED
  BY <1>1, ConnectorInvariance, PTL
-----------------------------------------------------------------------------
(* The turns that are over found no plane that suits. *)
Looking ==
  pc = "select" =>
    /\ todo \subseteq Candidates(connector_)
    /\ \A t \in Candidates(connector_) \ todo : ~Suits(t.plane)

PipelineInv == Looking /\ PipelineWorks /\ FindsPipeline

(* What the lists say of a turn is what the hardware says of its pipeline. *)
LEMMA CandidateShows ==
  ASSUME ConnectorInv, NEW t \in Candidates(connector_), NEW f,
         planes[t.plane].type = "primary", Supports(t.plane, f),
         f = format \/ (format \in DOMAIN XVariant /\ f = XVariant[format])
  PROVE  Shows(connector_, t.crtc, t.plane, f)
  BY DEF Candidates, EncodersOf, PossibleCrtcs, PlanesOf, Supports, Shows

LEMMA ShownIsCandidate ==
  ASSUME NEW crtc \in 1 .. NumCrtcs, NEW p \in 1 .. Count, NEW f,
         Shows(connector_, crtc, p, f)
  PROVE  \E t \in Candidates(connector_) : t.plane = p /\ Suits(t.plane)
<1>1. PICK n \in DOMAIN connectors[connector_].encoders :
        /\ connectors[connector_].encoders[n] \in 1 .. Count
        /\ crtc \in encoders[connectors[connector_].encoders[n]]
  BY DEF Shows
<1> DEFINE t == [encoder |-> n, crtc |-> crtc, plane |-> p]
<1>2. t \in Candidates(connector_)
  BY <1>1 DEF Candidates, EncodersOf, PossibleCrtcs, PlanesOf, Shows
<1>3. Suits(p)
  BY DEF Suits, Shows, Supports, XFormat
<1> QED
  BY <1>2, <1>3

(* A plane never takes the format that stands for no X variant. *)
LEMMA NoneUnsupported ==
  ASSUME ConnectorInv, NEW p \in 1 .. Count
  PROVE  ~Supports(p, None)
  BY DrmPipelineAssumption DEF ConnectorInv, TypeOK, DeviceOK, Supports

LEMMA StepPipeline == ConnectorInv /\ PipelineInv /\ [Next]_vars => PipelineInv'
<1> SUFFICES ASSUME ConnectorInv, PipelineInv, [Next]_vars PROVE PipelineInv'
  OBVIOUS
<1>d. UNCHANGED <<format, encoders, connectors, planes>>
  BY DeviceKept
<1>1. CASE InitDevice \/ FindRequestedConnector \/ LoopEnds
  <2>1. pc' \in {"find", "noConnector", "configure"}
    BY <1>1 DEF InitDevice, FindRequestedConnector, LoopEnds, Goto
  <2> QED
    BY <2>1 DEF PipelineInv, Looking, PipelineWorks, FindsPipeline
<1>2. CASE Configure
  <2>1. pc' = "select" /\ todo' = Candidates(connector_) /\ connector_' = connector_
    BY <1>2 DEF Configure, Goto
  <2>2. Candidates(connector_)' = Candidates(connector_)
    BY <1>d, <2>1 DEF Candidates, EncodersOf, PossibleCrtcs, PlanesOf
  <2> QED
    BY <2>1, <2>2 DEF PipelineInv, Looking, PipelineWorks, FindsPipeline
<1>3. CASE SelectPipeline
  <2>1. pc = "select" /\ connector_' = connector_
    BY <1>3 DEF SelectPipeline
  <2>2. PICK t \in todo :
          IF Suits(t.plane)
          THEN /\ crtc_' = t.crtc
               /\ plane_' = t.plane
               /\ format_' = Choose(t.plane)
               /\ Goto("place")
               /\ UNCHANGED todo
          ELSE /\ todo' = todo \ {t}
               /\ UNCHANGED <<pc, crtc_, plane_, format_>>
    BY <1>3 DEF SelectPipeline
  <2>3. t \in Candidates(connector_) /\ t.plane \in 1 .. Count
    BY <2>1 DEF PipelineInv, Looking, Candidates
  <2>4. CASE Suits(t.plane)
    <3>1. /\ pc' = "place" /\ crtc_' = t.crtc /\ plane_' = t.plane
          /\ format_' = Choose(t.plane)
      BY <2>2, <2>4 DEF Goto
    <3> DEFINE f == Choose(t.plane)
    <3>2. /\ Supports(t.plane, f)
          /\ f = format \/ (format \in DOMAIN XVariant /\ f = XVariant[format])
          /\ Supports(t.plane, format) => f = format
      BY <2>3, <2>4, NoneUnsupported DEF Choose, Suits, XFormat
    <3> HIDE DEF f
    <3>3. Shows(connector_, t.crtc, t.plane, f)
      BY <2>3, <2>4, <3>2, CandidateShows DEF Suits
    <3>4. Shows(connector_, crtc_, plane_, format_)' /\ (Supports(plane_, format) => format_ = format)'
      BY <1>d, <2>1, <3>1, <3>2, <3>3 DEF Shows, Supports, f
    <3> QED
      BY <3>1, <3>4 DEF PipelineInv, Looking, PipelineWorks, FindsPipeline
  <2>5. CASE ~Suits(t.plane)
    <3>1. pc' = "select" /\ todo' = todo \ {t}
      BY <2>1, <2>2, <2>5
    <3>2. Candidates(connector_)' = Candidates(connector_)
      BY <1>d, <2>1 DEF Candidates, EncodersOf, PossibleCrtcs, PlanesOf
    <3>3. \A u : Suits(u.plane)' <=> Suits(u.plane)
      BY <1>d DEF Suits, Supports, XFormat
    <3> QED
      BY <2>1, <2>5, <3>1, <3>2, <3>3 DEF PipelineInv, Looking, PipelineWorks, FindsPipeline
  <2> QED
    BY <2>4, <2>5
<1>4. CASE NoPipeline
  <2>1. pc = "select" /\ todo = {} /\ pc' = "noPipeline" /\ connector_' = connector_
    BY <1>4 DEF NoPipeline, Goto
  <2>2. ASSUME NEW crtc \in 1 .. NumCrtcs, NEW p \in 1 .. Count, NEW f
        PROVE  ~Shows(connector_, crtc, p, f)
    BY <2>1, ShownIsCandidate DEF PipelineInv, Looking
  <2>3. ASSUME NEW crtc \in 1 .. NumCrtcs, NEW p \in 1 .. Count, NEW f
        PROVE  ~Shows(connector_, crtc, p, f)'
    BY <1>d, <2>1, <2>2 DEF Shows
  <2> QED
    BY <2>1, <2>3 DEF PipelineInv, Looking, PipelineWorks, FindsPipeline
<1>5. CASE Place
  <2>1. /\ pc = "place" /\ pc' \in {"noMode", "configured"}
        /\ UNCHANGED <<connector_, crtc_, plane_, format_>>
    BY <1>5 DEF Place, Goto
  <2> QED
    BY <1>d, <2>1 DEF PipelineInv, Looking, PipelineWorks, FindsPipeline, Shows, Supports
<1>6. CASE UNCHANGED vars
  BY <1>6, <1>d
  DEF vars, PipelineInv, Looking, PipelineWorks, FindsPipeline, Shows, Supports, Suits, XFormat,
      Candidates, EncodersOf, PossibleCrtcs, PlanesOf
<1> QED
  BY <1>1, <1>2, <1>3, <1>4, <1>5, <1>6 DEF Next, Done

LEMMA PipelineInvariance == Spec => []PipelineInv
<1>1. Init => PipelineInv
  BY DEF Init, PipelineInv, Looking, PipelineWorks, FindsPipeline
<1> QED
  BY <1>1, StepPipeline, ConnectorInvariance, PTL DEF Spec

(* PipelineWorks: whatever the masks and lists of the device, the connector can
   be fed by the CRTC that selectPipeline() chooses, the CRTC by the plane, and
   the plane takes the format (kms_sink.cpp:168-189). *)
THEOREM ChosenWorks == Spec => []PipelineWorks
<1>1. PipelineInv => PipelineWorks
  BY DEF PipelineInv
<1> QED
  BY <1>1, PipelineInvariance, PTL

(* FindsPipeline: it fails only for a connector that no CRTC and plane can show
   the format on (kms_sink.cpp:191). *)
THEOREM NoneOverlooked == Spec => []FindsPipeline
<1>1. PipelineInv => FindsPipeline
  BY DEF PipelineInv
<1> QED
  BY <1>1, PipelineInvariance, PTL
-----------------------------------------------------------------------------
N == 2 ^ Width

LEMMA WidthPositive == N \in Nat \ {0}
<1>1. IsFiniteSet(1 .. Width) /\ Cardinality(1 .. Width) = Width
  BY DrmPipelineAssumption, FS_Interval
<1>2. Cardinality(SUBSET (1 .. Width)) = N /\ IsFiniteSet(SUBSET (1 .. Width))
  BY <1>1, FS_SUBSET DEF N
<1>3. N \in Nat
  BY <1>2, FS_CardinalityType
<1>4. N # 0
  BY <1>2, FS_EmptySet
<1> QED
  BY <1>3, <1>4

(* Where unsigned arithmetic places a picture. *)
LEMMA Centred ==
  ASSUME NEW mode \in Sizes, NEW picture \in Sizes
  PROVE  IF picture <= mode
         THEN /\ Offset(mode, picture) + picture <= mode
              /\ (mode - picture) - 2 * Offset(mode, picture) \in {0, 1}
         ELSE Offset(mode, picture) >= mode
<1>1. /\ N \in Nat \ {0} /\ mode \in Nat /\ picture \in Nat
      /\ 4 * mode <= N /\ 4 * picture <= N /\ mode < N /\ picture < N
  BY WidthPositive DEF Sizes, N
<1> DEFINE d == mode - picture
<1>2. Offset(mode, picture) = (d % N) \div 2
  BY DEF Offset, N
<1>3. CASE picture <= mode
  <2>1. d \in 0 .. N - 1
    BY <1>1, <1>3
  <2>2. d % N = d
    BY <1>1, <2>1
  <2> QED
    BY <1>1, <1>2, <1>3, <2>1, <2>2
<1>4. CASE picture > mode
  <2>1. d + N \in 0 .. N - 1 /\ d \in Int
    BY <1>1, <1>4
  <2>2. d % N = d + N
    BY <1>1, <2>1
  <2>3. d + N >= 2 * mode
    BY <1>1
  <2> QED
    BY <1>1, <1>2, <1>4, <2>1, <2>2, <2>3
<1> QED
  BY <1>1, <1>3, <1>4

(* PictureCentred: at any width of unsigned, a picture no larger than the mode
   is centred on the screen, and of a larger one nothing is shown
   (kms_sink.cpp:127-128). *)
THEOREM CentredOrOff == Spec => []PictureCentred
<1>1. Init => PictureCentred
  BY DEF Init, PictureCentred
<1>2. ConnectorInv /\ PictureCentred /\ [Next]_vars => PictureCentred'
  <2> SUFFICES ASSUME ConnectorInv, PictureCentred, [Next]_vars, pc' = "configured"
               PROVE  PictureCentred'
    BY DEF PictureCentred
  <2>d. UNCHANGED connectors
    BY DeviceKept
  <2>1. CASE Place
    <3> DEFINE mode == connectors[connector_].mode
    <3>1. /\ mode # None /\ size_' \in Pictures /\ x_' = Offset(mode, size_')
          /\ connector_' = connector_ /\ pc = "place"
      BY <2>1 DEF Place, Goto
    <3>2. connector_ \in 1 .. Count
      BY <3>1 DEF ConnectorInv, Found, Searched, IsFirst
    <3>3. mode \in Sizes /\ size_' \in Sizes
      BY <3>1, <3>2, DrmPipelineAssumption DEF ConnectorInv, TypeOK, DeviceOK
    <3> HIDE DEF mode
    <3>4. /\ size_' <= mode => /\ x_' + size_' <= mode
                               /\ (mode - size_') - 2 * x_' \in {0, 1}
          /\ ~(size_' <= mode) => x_' >= mode
      BY <3>1, <3>3, Centred
    <3> QED
      BY <2>d, <3>1, <3>4 DEF PictureCentred, mode
  <2>2. CASE pc' = pc /\ UNCHANGED <<size_, x_, connector_>>
    BY <2>2, <2>d DEF PictureCentred
  <2> QED
    BY <2>1, <2>2
    DEF Next, InitDevice, FindRequestedConnector, LoopEnds, Configure, SelectPipeline,
        NoPipeline, Done, Goto, vars, device
<1> QED
  BY <1>1, <1>2, ConnectorInvariance, PTL DEF Spec
=============================================================================
