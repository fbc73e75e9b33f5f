----------------------------- MODULE MCKMSSink -----------------------------
(***************************************************************************)
(* Small instance of KMSSink: four buffers, what libcamera usually gives a *)
(* viewfinder, are one more than the sink has cells.                       *)
(***************************************************************************)
EXTENDS KMSSink

CONSTANTS b1, b2, b3, b4

MCRequests == {b1, b2, b3, b4}
CommitFaults == {"configure", "map", "commit"}
=============================================================================
