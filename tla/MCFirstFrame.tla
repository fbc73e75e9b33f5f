---------------------------- MODULE MCFirstFrame ----------------------------
(***************************************************************************)
(* Small instances of FirstFrame: a counter of three bits, an option that  *)
(* is negative among the counts, drivers that agree to less and to more    *)
(* than the four buffers asked for.                                        *)
(***************************************************************************)
EXTENDS FirstFrame

MCFrameCounts == {-1, 0, 1, 5}
MCDriver == {1, 2, 4, 5}
AllFaults == {"ioctl", "again", "timeout"}
=============================================================================
