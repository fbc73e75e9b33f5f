------------------------------ MODULE MCCamApp ------------------------------
(***************************************************************************)
(* Small instances of CamApp.  The first pid is longer than the second.    *)
(***************************************************************************)
EXTENDS CamApp

CONSTANTS d1, d2, t1, t2

MCDaemons == {d1, d2}
OneDaemon == {d1}
MCTools == {t1, t2}
OneTool == {t1}
MCPidOf == [d \in Daemons |-> IF d = d1 THEN <<4, 0, 7>> ELSE <<5, 1>>]
MCWaits == <<"devices", "cameras">>
NoFaults == {}
AppFaults == {"manager", "pidfile", "chroot"}
=============================================================================
