----------------------------- MODULE FirstFrame -----------------------------
(***************************************************************************)
(* The program first-frame: src/first_frame.c, the V4L2 capture that shows *)
(* how soon a first frame can be had.  One thread; the driver fills        *)
(* buffers and the clock may run out between any two steps.                *)
(***************************************************************************)
EXTENDS Integers, Sequences, FiniteSets

CONSTANTS
  FrameCounts, \* values of the option -c, an int
  Width,       \* width in bits of the unsigned counter of mainloop() (32)
  Driver,      \* the numbers of buffers the driver may agree to
  Faults       \* failures admitted: "ioctl", "again", "timeout"

ASSUME FirstFrameAssumption ==
  /\ FrameCounts \subseteq Int
  /\ Width \in Nat \ {0}
  /\ Driver \subseteq Nat

VARIABLES
  io,         \* the I/O method the options -m, -r and -u choose
  frame_count,\* the option -c
  at,         \* the step of main()
  n_buffers,  \* buffers mapped or allocated so far
  agreed,     \* driver: the number of buffers VIDIOC_REQBUFS settled on
  incoming,   \* driver: the buffers queued to be filled
  outgoing,   \* driver: the buffers filled and not dequeued, oldest first
  streaming,  \* driver: between STREAMON and STREAMOFF
  buf,        \* the buffer DQBUF returned, or -1
  count,      \* local variable of mainloop(): frames still to come
  images,     \* the number of calls of process_image(), modulo 2^Width
  timer       \* the time select() may still wait has run out

options == <<io, frame_count>>
driver == <<incoming, outgoing>>
loop == <<buf, count, images, timer>>
vars == <<options, at, n_buffers, agreed, driver, streaming, loop>>
setup == <<options, n_buffers, agreed>>
Method == {"read", "mmap", "userptr"}

(* What init_mmap() and init_userp() ask for. *)
Requested == 4
Buffers == 0 .. n_buffers - 1

(* The options main() reads. *)
Init ==
  /\ io \in Method
  /\ frame_count \in FrameCounts
  /\ at = "device"
  /\ n_buffers = 0 /\ agreed = 0
  /\ incoming = {} /\ outgoing = <<>> /\ streaming = FALSE
  /\ buf = -1
  /\ count = 0 /\ images = 0
  /\ timer = FALSE

Filled == {outgoing[k] : k \in DOMAIN outgoing}

(* errno_exit(), or a message and exit(EXIT_FAILURE): nothing is undone. *)
ExitFailure ==
  /\ at' = "failed"
  /\ UNCHANGED <<setup, driver, streaming, loop>>
-----------------------------------------------------------------------------
(* The waiting for the devices, open_device() and init_device() up to its last
   switch, then the request for buffers of init_mmap() or init_userp(). *)
OpenDevice ==
  /\ at = "device"
  /\ \/ /\ agreed' \in IF io = "read" THEN {0} ELSE Driver
        /\ at' = IF io = "mmap" /\ agreed' < 2 THEN "failed" ELSE "buffers"
        /\ UNCHANGED <<options, n_buffers, driver, streaming, loop>>
     \/ "ioctl" \in Faults /\ ExitFailure

(* init_mmap() maps what the driver agreed to; init_userp() always
   allocates four. *)
Wanted ==
  CASE io = "read"    -> 0
    [] io = "mmap"    -> agreed
    [] io = "userptr" -> Requested

(* One turn of the loop of init_mmap() or init_userp(); init_read() leaves
   n_buffers alone. *)
InitBuffer ==
  /\ at = "buffers"
  /\ \/ /\ n_buffers < Wanted
        /\ n_buffers' = n_buffers + 1
        /\ UNCHANGED <<options, at, agreed, driver, streaming, loop>>
     \/ /\ n_buffers = Wanted
        /\ at' = "queue"
        /\ UNCHANGED <<setup, driver, streaming, loop>>
     \/ "ioctl" \in Faults /\ ExitFailure

(* Mutant of QueueBuffer: the result of VIDIOC_QBUF is not looked at. *)
QueueBufferUnchecked ==
  /\ at = "queue"
  /\ \E i \in Buffers \ incoming :
       /\ \A j \in 0 .. i - 1 : j \in incoming
       /\ incoming' = incoming \union {i}
  /\ UNCHANGED <<options, at, n_buffers, agreed, outgoing, streaming, loop>>

(* start_capturing(): VIDIOC_QBUF of each buffer in turn.  The driver refuses
   an index it did not agree to, and may refuse any other. *)
QueueBuffer ==
  /\ at = "queue"
  /\ \E i \in Buffers \ incoming :
       /\ \A j \in 0 .. i - 1 : j \in incoming
       /\ \/ /\ i < agreed
             /\ incoming' = incoming \union {i}
             /\ UNCHANGED <<options, at, n_buffers, agreed, outgoing, streaming, loop>>
          \/ (i >= agreed \/ "ioctl" \in Faults) /\ ExitFailure

(* ... VIDIOC_STREAMON, and the start of mainloop(): the int becomes an
   unsigned. *)
StartCapturing ==
  /\ at = "queue"
  /\ incoming = Buffers
  /\ \/ /\ at' = "while"
        /\ streaming' = (io # "read")
        /\ count' = frame_count % 2^Width
        /\ UNCHANGED <<setup, driver, buf, images, timer>>
     \/ "ioctl" \in Faults /\ ExitFailure

(* Mutant of While: the count is tested after it is decremented. *)
WhilePre ==
  /\ at = "while"
  /\ count' = (count - 1) % 2^Width
  /\ at' = IF count' = 0 THEN "stop" ELSE "select"
  /\ timer' = FALSE
  /\ UNCHANGED <<setup, driver, streaming, buf, images>>

(* Mutant of While: the condition of an unsigned counter that always holds. *)
WhileUnsigned ==
  /\ at = "while"
  /\ count' = (count - 1) % 2^Width
  /\ at' = "select"
  /\ timer' = FALSE
  /\ UNCHANGED <<setup, driver, streaming, buf, images>>

(* while (count-- > 0) *)
While ==
  /\ at = "while"
  /\ count' = (count - 1) % 2^Width
  /\ at' = IF count = 0 THEN "stop" ELSE "select"
  /\ timer' = FALSE
  /\ UNCHANGED <<setup, driver, streaming, buf, images>>

(* select() returns: the device is readable, or two seconds have gone by. *)
Select ==
  /\ at = "select"
  /\ \/ /\ io = "read" \/ outgoing # <<>>
        /\ at' = "read"
     \/ /\ outgoing = <<>> /\ timer
        /\ at' = "failed"
  /\ UNCHANGED <<setup, driver, streaming, loop>>

(* select() is interrupted by a signal and called again, with two seconds to
   wait, or fails. *)
SelectError ==
  /\ at = "select"
  /\ \/ /\ "again" \in Faults
        /\ timer' = FALSE
        /\ UNCHANGED <<setup, at, driver, streaming, buf, count, images>>
     \/ "ioctl" \in Faults /\ ExitFailure

(* Mutant of ReadFrame: the buffer is not dequeued but looked at in place. *)
ReadFramePeek ==
  /\ at = "read"
  /\ outgoing # <<>>
  /\ buf' = Head(outgoing)
  /\ incoming' = incoming \union {Head(outgoing)}
  /\ outgoing' = Tail(outgoing)
  /\ at' = "process"
  /\ UNCHANGED <<setup, streaming, count, images, timer>>

(* read_frame(): read() or VIDIOC_DQBUF, which may say EAGAIN (select again,
   for another two seconds) or fail. *)
ReadFrame ==
  /\ at = "read"
  /\ \/ /\ io = "read"
        /\ at' = "process"
        /\ UNCHANGED <<setup, driver, streaming, loop>>
     \/ /\ outgoing # <<>>
        /\ buf' = Head(outgoing)
        /\ outgoing' = Tail(outgoing)
        /\ at' = "process"
        /\ UNCHANGED <<setup, incoming, streaming, count, images, timer>>
     \/ /\ "again" \in Faults
        /\ at' = "select"
        /\ timer' = FALSE
        /\ UNCHANGED <<setup, driver, streaming, buf, count, images>>
     \/ "ioctl" \in Faults /\ ExitFailure

(* process_image() *)
ProcessImage ==
  /\ at = "process"
  /\ images' = (images + 1) % 2^Width
  /\ at' = IF io = "read" THEN "while" ELSE "requeue"
  /\ UNCHANGED <<setup, driver, streaming, buf, count, timer>>

(* Mutant of Requeue: the buffer is not given back. *)
RequeueMissing ==
  /\ at = "requeue"
  /\ buf' = -1
  /\ at' = "while"
  /\ UNCHANGED <<setup, driver, streaming, count, images, timer>>

(* VIDIOC_QBUF, the end of read_frame(). *)
Requeue ==
  /\ at = "requeue"
  /\ \/ /\ incoming' = incoming \union {buf}
        /\ buf' = -1
        /\ at' = "while"
        /\ UNCHANGED <<setup, outgoing, streaming, count, images, timer>>
     \/ "ioctl" \in Faults /\ ExitFailure
-----------------------------------------------------------------------------
(* stop_capturing(): VIDIOC_STREAMOFF takes every buffer from the driver. *)
StopCapturing ==
  /\ at = "stop"
  /\ \/ /\ incoming' = {} /\ outgoing' = <<>>
        /\ streaming' = FALSE
        /\ at' = "uninit"
        /\ UNCHANGED <<setup, loop>>
     \/ "ioctl" \in Faults /\ ExitFailure

(* uninit_device() and close_device(): everything is unmapped or freed. *)
UninitDevice ==
  /\ at = "uninit"
  /\ \/ /\ at' = "done"
        /\ UNCHANGED <<setup, driver, streaming, loop>>
     \/ "ioctl" \in Faults /\ ExitFailure

(* The driver fills a buffer, and the clock runs. *)
Fill ==
  /\ streaming
  /\ \E i \in incoming :
       incoming' = incoming \ {i} /\ outgoing' = Append(outgoing, i)
  /\ UNCHANGED <<options, at, n_buffers, agreed, streaming, loop>>

Timeout ==
  /\ at = "select" /\ ~timer
  /\ \/ "timeout" \in Faults
     \/ io # "read" /\ incoming = {} /\ outgoing = <<>>
  /\ timer' = TRUE
  /\ UNCHANGED <<options, at, n_buffers, agreed, driver, streaming, buf, count, images>>

Main == OpenDevice \/ InitBuffer \/ QueueBuffer \/ StartCapturing \/ While
          \/ Select \/ ReadFrame \/ ProcessImage \/ Requeue \/ StopCapturing
          \/ UninitDevice

Next == Main \/ SelectError \/ Fill \/ Timeout

Spec == Init /\ [][Next]_vars

(* The program runs on, the driver fills what it was given, time passes;
   select() need not fail. *)
FairSpec == Spec /\ WF_vars(Main) /\ WF_vars(Fill) /\ WF_vars(Timeout)
-----------------------------------------------------------------------------
(* Types; the counters keep to their width. *)
TypeOK ==
  /\ io \in Method /\ frame_count \in FrameCounts
  /\ at \in {"device", "buffers", "queue", "while", "select", "read", "process",
             "requeue", "stop", "uninit", "done", "failed"}
  /\ n_buffers \in Nat /\ agreed \in Driver \union {0}
  /\ incoming \subseteq Buffers
  /\ outgoing \in Seq(Buffers)
  /\ streaming \in BOOLEAN /\ timer \in BOOLEAN
  /\ buf \in Buffers \union {-1}
  /\ count \in 0 .. 2^Width - 1 /\ images \in 0 .. 2^Width - 1

(* Whatever number of buffers the driver settles on, streaming never starts
   with a buffer it does not have, nor with fewer than two: init_userp()
   allocates four whatever the answer, and it is VIDIOC_QBUF that finds out. *)
StreamsAgreed == streaming => n_buffers >= 2 /\ n_buffers <= agreed

(* Each buffer is with the driver once or in read_frame()'s hands: while the
   program waits in select() the driver has all of them, so that the next
   frame always finds room and the wait is not for nothing. *)
BuffersAccounted ==
  /\ at \in {"while", "select", "read"} => incoming \union Filled = Buffers
  /\ incoming \intersect Filled = {}
  /\ Cardinality(Filled) = Len(outgoing)

(* process_image() writes out a buffer the driver may not fill meanwhile. *)
NoReadWhileFilled ==
  at \in {"process", "requeue"} => buf \notin incoming \union Filled

(* A run that ends well has put out as many images as -c asked for, the int
   taken for an unsigned: none more for a frame that was tried again. *)
ImagesMatch == at = "done" => images = frame_count % 2^Width

(* The program comes to its end, whatever the count, the driver and the
   failures, unless the driver answers EAGAIN or signals interrupt select()
   for ever. *)
Again ==
  \/ at = "read" /\ at' = "select"
  \/ at = "select" /\ at' = "select" /\ timer /\ ~timer'
Ends == <>[][~Again]_vars => <>(at \in {"done", "failed"})
=============================================================================
