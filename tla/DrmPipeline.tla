---------------------------- MODULE DrmPipeline ----------------------------
(***************************************************************************)
(* Which connector, CRTC and plane show the picture, and where on the      *)
(* screen: Device::getResources() of src/drm.cpp, and the constructor and  *)
(* configure() of KMSSink in src/kms_sink.cpp.                             *)
(*                                                                         *)
(* Objects are named by their position in the kernel's lists, from 1; a    *)
(* mask of CRTCs is the set of their positions.                            *)
(***************************************************************************)
EXTENDS Integers, Sequences, FiniteSets

CONSTANTS
  NumCrtcs,
  Encoders,     \* the masks the kernel may report, one per encoder
  Connectors,   \* the connectors it may report: status, encoders, mode
  Planes,       \* the planes it may report: type, mask of CRTCs, formats
  Count,        \* encoders, connectors and planes the device has of each
  Formats, XVariant,  \* formats a camera may give; the X variant of some
  Pictures,     \* widths (and heights) of the camera's picture
  Width,        \* bits of an unsigned int
  None

(* No width uses the two highest bits of an unsigned int. *)
Sizes == {n \in 0 .. 2 ^ Width - 1 : 4 * n <= 2 ^ Width}

ASSUME DrmPipelineAssumption ==
  /\ NumCrtcs \in Nat /\ Count \in Nat /\ Width \in Nat \ {0, 1}
  /\ \A mask \in Encoders : mask \subseteq 1 .. NumCrtcs
  /\ \A p \in Planes : p.crtcs \subseteq 1 .. NumCrtcs /\ None \notin p.formats
  /\ \A k \in Connectors :
       /\ k.status \in {"connected", "unknown", "disconnected"}
       /\ k.encoders \in Seq(1 .. Count + 1)
       /\ k.mode \in (Sizes \ {0}) \union {None}
  /\ DOMAIN XVariant \subseteq Formats
  /\ Pictures \subseteq Sizes \ {0}
  /\ None \notin Nat /\ None \notin Formats

VARIABLES
  format,      \* the pixel format of the camera's configuration
  encoders, connectors, planes,   \* the device, as getResources() read it
  pc,
  conn,        \* the connector findRequestedConnector() looks at next
  connector_, crtc_, plane_, format_,
  todo,        \* turns of its loops that selectPipeline() has yet to take
  size_, x_

device == <<encoders, connectors, planes>>
vars == <<format, device, pc, conn, connector_, crtc_, plane_, format_, todo, size_, x_>>

(* The kernel's resources are whatever they are. *)
Init ==
  /\ format \in Formats
  /\ encoders \in [1 .. Count -> Encoders]
  /\ connectors \in [1 .. Count -> Connectors]
  /\ planes \in [1 .. Count -> Planes]
  /\ pc = "open"
  /\ conn = 1
  /\ connector_ = None /\ crtc_ = None /\ plane_ = None /\ format_ = None
  /\ todo = {}
  /\ size_ = None /\ x_ = None

Goto(label) == pc' = label
-----------------------------------------------------------------------------
(* Device::init(): no card, no atomic API, or an object the kernel does not
   describe, and the sink has no connector. *)
InitDevice ==
  /\ pc = "open"
  /\ Goto("find") \/ Goto("noConnector")
  /\ UNCHANGED <<format, device, conn, connector_, crtc_, plane_, format_, todo, size_, x_>>

(* Mutant of FindRequestedConnector: the last connector that may do. *)
FindRequestedConnectorLast ==
  /\ pc = "find"
  /\ conn <= Count
  /\ conn' = conn + 1
  /\ connector_' = IF connectors[conn].status # "disconnected" THEN conn ELSE connector_
  /\ UNCHANGED <<pc, format, device, crtc_, plane_, format_, todo, size_, x_>>

(* One turn of the loop.  No caller names a connector. *)
FindRequestedConnector ==
  /\ pc = "find"
  /\ conn <= Count
  /\ LET status == connectors[conn].status IN
     \/ /\ status = "connected"
        /\ connector_' = conn
        /\ Goto("configure")
     \/ /\ status # "connected"
        /\ connector_' = IF connector_ = None /\ status = "unknown" THEN conn ELSE connector_
        /\ UNCHANGED pc
  /\ conn' = conn + 1
  /\ UNCHANGED <<format, device, crtc_, plane_, format_, todo, size_, x_>>

LoopEnds ==
  /\ pc = "find"
  /\ conn > Count
  /\ Goto(IF connector_ = None THEN "noConnector" ELSE "configure")
  /\ UNCHANGED <<format, device, conn, connector_, crtc_, plane_, format_, todo, size_, x_>>
-----------------------------------------------------------------------------
(* The CRTCs of a mask that the device has. *)
PossibleCrtcs(mask) == mask \cap 1 .. NumCrtcs

(* Mutant of PlanesOf: the planes of the device, whatever CRTC they feed. *)
PlanesOfAny(crtc) == 1 .. Count

(* Crtc::planes_, which setPossiblePlanesForEachCRTC() fills. *)
PlanesOf(crtc) == {p \in 1 .. Count : crtc \in planes[p].crtcs}

(* The places of a connector's encoders in its list; one the device does not
   have is left out. *)
EncodersOf(k) ==
  {n \in DOMAIN connectors[k].encoders : connectors[k].encoders[n] \in 1 .. Count}

(* Mutant of Candidates: only the connector's first encoder is followed. *)
CandidatesFirst(k) ==
  {t \in [encoder : EncodersOf(k) \cap {1}, crtc : 1 .. NumCrtcs, plane : 1 .. Count] :
     /\ t.crtc \in PossibleCrtcs(encoders[connectors[k].encoders[t.encoder]])
     /\ t.plane \in PlanesOf(t.crtc)}

(* The turns of the three nested loops of selectPipeline(). *)
Candidates(k) ==
  {t \in [encoder : EncodersOf(k), crtc : 1 .. NumCrtcs, plane : 1 .. Count] :
     /\ t.crtc \in PossibleCrtcs(encoders[connectors[k].encoders[t.encoder]])
     /\ t.plane \in PlanesOf(t.crtc)}

(* Their order: that of the connector's list, then of the device's lists. *)
NotAfter(t, u) ==
  \/ t.encoder < u.encoder
  \/ t.encoder = u.encoder /\ t.crtc < u.crtc
  \/ t.encoder = u.encoder /\ t.crtc = u.crtc /\ t.plane <= u.plane

(* configure() enters selectPipeline(). *)
Configure ==
  /\ pc = "configure"
  /\ todo' = Candidates(connector_)
  /\ Goto("select")
  /\ UNCHANGED <<format, device, conn, connector_, crtc_, plane_, format_, size_, x_>>

XFormat == IF format \in DOMAIN XVariant THEN XVariant[format] ELSE None

Supports(p, f) == f \in planes[p].formats

(* The format the plane is used with. *)
Choose(p) == IF Supports(p, format) THEN format ELSE XFormat

(* The plane takes the format or its X variant. *)
Suits(p) ==
  planes[p].type = "primary" /\ (Supports(p, format) \/ Supports(p, XFormat))

(* One turn of the innermost loop: a plane that suits ends the search. *)
SelectPipeline ==
  /\ pc = "select"
  /\ \E t \in todo :
       /\ \A u \in todo : NotAfter(t, u)
       /\ IF Suits(t.plane)
          THEN /\ crtc_' = t.crtc
               /\ plane_' = t.plane
               /\ format_' = Choose(t.plane)
               /\ Goto("place")
               /\ UNCHANGED todo
          ELSE /\ todo' = todo \ {t}
               /\ UNCHANGED <<pc, crtc_, plane_, format_>>
  /\ UNCHANGED <<format, device, conn, connector_, size_, x_>>

NoPipeline ==
  /\ pc = "select"
  /\ todo = {}
  /\ Goto("noPipeline")
  /\ UNCHANGED <<format, device, conn, connector_, crtc_, plane_, format_, todo, size_, x_>>

(* Mutant of Offset: halved before the difference is taken. *)
OffsetHalves(display, picture) == (display \div 2 - picture \div 2) % 2 ^ Width

(* The arithmetic is that of unsigned int. *)
Offset(display, picture) == ((display - picture) % 2 ^ Width) \div 2

(* The first mode of the connector, and the picture centred in it; y_ is
   computed as x_ is.  Reading the first mode of none is undefined
   behaviour, which the model does not follow. *)
Place ==
  /\ pc = "place"
  /\ LET mode == connectors[connector_].mode IN
     IF mode = None
     THEN Goto("noMode") /\ UNCHANGED <<size_, x_>>
     ELSE /\ size_' \in Pictures
          /\ x_' = Offset(mode, size_')
          /\ Goto("configured")
  /\ UNCHANGED <<format, device, conn, connector_, crtc_, plane_, format_, todo>>

Ended == {"noConnector", "noPipeline", "noMode", "configured"}

Done == pc \in Ended /\ UNCHANGED vars

Next ==
  \/ InitDevice \/ FindRequestedConnector \/ LoopEnds \/ Configure
  \/ SelectPipeline \/ NoPipeline \/ Place \/ Done

Spec == Init /\ [][Next]_vars
-----------------------------------------------------------------------------
(* The hardware can show the camera's picture with this CRTC and plane. *)
Shows(k, crtc, p, f) ==
  /\ \E n \in DOMAIN connectors[k].encoders :
       LET e == connectors[k].encoders[n] IN e \in 1 .. Count /\ crtc \in encoders[e]
  /\ crtc \in planes[p].crtcs
  /\ planes[p].type = "primary"
  /\ f \in planes[p].formats
  /\ \/ f = format
     \/ format \in DOMAIN XVariant /\ f = XVariant[format]

(* What configure() settles on works together: the connector can be fed by
   the CRTC, the CRTC by the plane, and the plane takes the camera's format
   or its X variant, the format itself if it can (kms_sink.cpp:138-192 over
   the lists drm.cpp builds in three places). *)
PipelineWorks ==
  pc \in {"place", "configured"} =>
    /\ Shows(connector_, crtc_, plane_, format_)
    /\ Supports(plane_, format) => format_ = format

(* It finds no pipeline only when the connector has none. *)
FindsPipeline ==
  pc = "noPipeline" =>
    \A crtc \in 1 .. NumCrtcs, p \in 1 .. Count, f \in Formats \union {XFormat} :
      ~Shows(connector_, crtc, p, f)

(* kms_sink.cpp:32-34: the first connected connector or, if none is, the
   first with unknown status; none only when all are disconnected. *)
ConnectorAsDocumented ==
  LET With(status) == {k \in 1 .. Count : connectors[k].status = status}
      First(S) == CHOOSE k \in S : \A j \in S : k <= j
  IN  /\ pc \notin {"open", "find", "noConnector"} =>
           connector_ = IF With("connected") # {}
                        THEN First(With("connected")) ELSE First(With("unknown"))
      /\ pc = "noConnector" /\ conn > Count => With("disconnected") = 1 .. Count

(* A picture no larger than the mode is on the screen, its borders equal to
   a pixel; a larger one wraps to an offset far off the screen
   (kms_sink.cpp:127-128), never to one that shows a part of it. *)
PictureCentred ==
  pc = "configured" =>
    LET mode == connectors[connector_].mode IN
    IF size_ <= mode
    THEN x_ + size_ <= mode /\ (mode - size_) - 2 * x_ \in {0, 1}
    ELSE x_ >= mode
=============================================================================
