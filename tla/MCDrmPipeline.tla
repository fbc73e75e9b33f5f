--------------------------- MODULE MCDrmPipeline ---------------------------
(* Two of everything; six-bit unsigned integers. *)
EXTENDS DrmPipeline

CONSTANTS argb, xrgb, nv12

AllFormats == {argb, nv12}
AlphaToX == [f \in {argb} |-> xrgb]
Masks == {{1}, {2}, {1, 2}}

(* Encoder 3 does not exist. *)
AnyConnectors ==
  [status : {"connected"}, encoders : {<<1>>, <<3, 2, 1>>}, mode : {6}]
    \union [status : {"unknown"}, encoders : {<<2>>}, mode : {6, None}]
    \union [status : {"disconnected"}, encoders : {<<1, 2>>}, mode : {None}]

AnyPlanes ==
  [type : {"primary"}, crtcs : {{1}, {1, 2}},
   formats : {{argb, xrgb}, {xrgb}, {nv12}}]
    \union [type : {"overlay"}, crtcs : {{1, 2}}, formats : {{argb, nv12}}]
=============================================================================
