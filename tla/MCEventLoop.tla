---------------------------- MODULE MCEventLoop ----------------------------
(***************************************************************************)
(* Small instance of EventLoop: two threads race to call callLater().      *)
(***************************************************************************)
EXTENDS EventLoop

CONSTANTS t1, t2, c1, c2, drm

MCThreads == {t1, t2}
MCCalls == {c1, c2}
MCSources == {drm}
NoFaults == {}
=============================================================================
