--------------------------- MODULE MCSinkBuffers ---------------------------
(* Four file descriptors, two of them of one dmabuf; four-bit offsets. *)
EXTENDS SinkBuffers, TLC

CONSTANTS fd1, fd2, fd3, fd4, A, B, C

SharedDmabuf == fd1 :> A @@ fd2 :> A @@ fd3 :> B @@ fd4 :> C
ThreeBuffers == 1 .. 3
SomeLayouts == {<<fd1>>, <<fd1, fd1>>, <<fd1, fd2>>, <<fd3>>, <<fd2, fd3>>, <<fd4, fd4>>}

SomePlanes == [fd : {fd1, fd3}, offset : {0, 2, 14}, length : {0, 2, 3}]
OneOrTwoPlanes == {<<p>> : p \in SomePlanes} \union {<<p, q>> : p, q \in SomePlanes}

AllFaults == {"import", "lseek", "mmap", "open", "write"}
=============================================================================
