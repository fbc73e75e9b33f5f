-------------------------- MODULE FirstFrameProofs --------------------------
(***************************************************************************)
(* Where the buffers of first-frame are, for any driver, any count and any *)
(* failure.  What BuffersAccounted says while the program waits must be    *)
(* known of every other moment too: before streaming nothing is filled     *)
(* (Early), and in read_frame() all but the buffer in its hands are with   *)
(* the driver (InHands).  That it streams only with buffers the driver     *)
(* agreed to is known one by one while they are queued (Agreed).           *)
(*                                                                         *)
(* And that images and the counter always add up to what was asked for     *)
(* (Counted), negative counts included.                                    *)
(***************************************************************************)
EXTENDS FirstFrame, FiniteSetTheorems, TLAPS

Shape ==
  /\ io \in Method
  /\ n_buffers \in Nat /\ agreed \in Nat
  /\ io = "read" => n_buffers = 0
  /\ incoming \subseteq Buffers
  /\ outgoing \in Seq(Buffers)
  /\ buf \in Buffers \union {-1}

(* The driver has no buffer twice. *)
Once ==
  /\ \A j, k \in 1 .. Len(outgoing) : outgoing[j] = outgoing[k] => j = k
  /\ \A k \in 1 .. Len(outgoing) : outgoing[k] \notin incoming

WithDriver(i) == i \in incoming \/ \E k \in 1 .. Len(outgoing) : outgoing[k] = i

Early ==
  /\ at \in {"device", "buffers", "queue"} => outgoing = <<>> /\ ~streaming
  /\ at \in {"device", "buffers"} => incoming = {}
  /\ at = "device" => n_buffers = 0

Waiting ==
  at \in {"while", "select", "read"} => \A i \in Buffers : WithDriver(i)

InHands ==
  /\ at \in {"process", "requeue"} =>
       ~WithDriver(buf) /\ \A i \in Buffers \ {buf} : WithDriver(i)
  /\ at = "requeue" \/ (at = "process" /\ io # "read") => buf \in Buffers

(* init_mmap() maps two buffers or more, all of them agreed to; init_userp()
   allocates four; and what is queued the driver has accepted. *)
Agreed ==
  /\ at \in {"buffers", "queue"} /\ io = "mmap" => agreed >= 2 /\ n_buffers <= agreed
  /\ at = "queue" /\ io # "read" => n_buffers >= 2
  /\ at = "queue" => \A i \in incoming : i < agreed
  /\ StreamsAgreed

IInv == Shape /\ Once /\ Early /\ Waiting /\ InHands /\ Agreed

LEMMA InitIInv == Init => IInv
<1> SUFFICES ASSUME Init PROVE IInv
  OBVIOUS
<1>1. outgoing = <<>> /\ Len(outgoing) = 0 /\ n_buffers = 0
  BY DEF Init
<1> QED
  BY <1>1 DEF Init, IInv, Shape, Once, Early, Waiting, InHands, Agreed, StreamsAgreed,
             Buffers, Method

(* Once buffers are queued the numbers stay, and streaming ends at most. *)
LEMMA StaysAgreed ==
  ASSUME Agreed, UNCHANGED <<n_buffers, agreed>>, at' \notin {"buffers", "queue"},
         UNCHANGED streaming \/ ~streaming'
  PROVE  Agreed'
BY DEF Agreed, StreamsAgreed

(* Steps that leave buffers alone and lead to a label that asks no more. *)
LEMMA Quiet ==
  ASSUME IInv, UNCHANGED <<setup, driver, buf>>, streaming' = streaming,
         \/ at' \in {"failed", "stop", "uninit", "done"}
         \/ at' = at
         \/ at = "buffers" /\ at' = "queue" /\ n_buffers = Wanted
         \/ at \in {"while", "select", "read"} /\ at' \in {"while", "select", "read"}
  PROVE  IInv'
<1>1. Shape' /\ Once'
  BY DEF IInv, Shape, Once, setup, options, driver, Buffers
<1>2. \A i : WithDriver(i)' <=> WithDriver(i)
  BY DEF WithDriver, driver
<1>3. Early'
  BY DEF IInv, Early, setup, options, driver
<1>5. Agreed'
  <2>1. UNCHANGED <<io, n_buffers, agreed, incoming, streaming>> /\ Agreed
    BY DEF IInv, setup, options, driver
  <2>2. CASE at' \notin {"buffers", "queue"}
    BY <2>1, <2>2, StaysAgreed
  <2>3. CASE at' = at
    BY <2>1, <2>3 DEF Agreed, StreamsAgreed
  <2>4. CASE at = "buffers" /\ at' = "queue" /\ n_buffers = Wanted
    <3>1. incoming = {} /\ io \in Method
      BY <2>4 DEF IInv, Early, Shape
    <3>2. io # "read" => n_buffers >= 2
      BY <2>1, <2>4, <3>1 DEF Agreed, Wanted, Requested, Method
    <3> QED
      BY <2>1, <2>4, <3>1, <3>2 DEF Agreed, StreamsAgreed
  <2> QED
    BY <2>2, <2>3, <2>4
<1>4. Waiting' /\ InHands'
  <2>1. Buffers' = Buffers /\ buf' = buf /\ io' = io
    BY DEF Buffers, setup, options
  <2>2. Waiting'
    BY <1>2, <2>1 DEF IInv, Waiting
  <2>3. InHands'
    BY <1>2, <2>1 DEF IInv, InHands
  <2> QED
    BY <2>2, <2>3
<1> QED
  BY <1>1, <1>3, <1>4, <1>5 DEF IInv

LEMMA Failure == IInv /\ ExitFailure => IInv'
  BY Quiet DEF ExitFailure, setup, driver, loop

LEMMA StepIInv == IInv /\ [Next]_vars => IInv'
<1> SUFFICES ASSUME IInv, [Next]_vars PROVE IInv'
  OBVIOUS
<1>s. /\ Shape /\ Once /\ Early /\ Waiting /\ InHands /\ Agreed
      /\ \A j \in Buffers : j \in Nat /\ j # -1
  BY DEF IInv, Shape, Buffers
<1>1. CASE OpenDevice
  <2>1. CASE ExitFailure
    BY <2>1, Failure
  <2>2. CASE /\ agreed' \in IF io = "read" THEN {0} ELSE Driver
             /\ at' = IF io = "mmap" /\ agreed' < 2 THEN "failed" ELSE "buffers"
             /\ UNCHANGED <<options, n_buffers, driver, streaming, loop>>
    <3>1. agreed' \in Nat
      BY <2>2, FirstFrameAssumption
    <3>2. n_buffers = 0
      BY <1>1, <1>s DEF OpenDevice, Early
    <3> QED
      <4>1. Agreed'
        BY <1>1, <1>s, <2>2, <3>1, <3>2
        DEF OpenDevice, Early, Agreed, StreamsAgreed, options, driver
      <4> QED
        BY <1>1, <1>s, <2>2, <3>1, <3>2, <4>1
        DEF OpenDevice, IInv, Shape, Once, Early, Waiting, InHands, Buffers, options, driver, loop
  <2> QED
    BY <1>1, <2>1, <2>2 DEF OpenDevice
<1>2. CASE InitBuffer
  <2>1. CASE ExitFailure
    BY <2>1, Failure
  <2>2. CASE n_buffers = Wanted /\ at' = "queue" /\ UNCHANGED <<setup, driver, streaming, loop>>
    BY <1>2, <2>2, Quiet DEF InitBuffer, loop
  <2>3. CASE /\ n_buffers < Wanted
             /\ n_buffers' = n_buffers + 1
             /\ UNCHANGED <<options, at, agreed, driver, streaming, loop>>
    <3>1. at = "buffers" /\ incoming = {} /\ outgoing = <<>>
      BY <1>2, <1>s DEF InitBuffer, Early
    <3>2. Buffers \subseteq Buffers'
      BY <2>3, <1>s DEF Shape, Buffers
    <3>3. Shape'
      BY <1>s, <2>3, <3>1, <3>2 DEF Shape, options, driver, loop, Wanted
    <3>4. Agreed'
      BY <1>s, <2>3, <3>1 DEF Shape, Early, Agreed, StreamsAgreed, options, driver, Wanted
    <3> QED
      BY <1>s, <2>3, <3>1, <3>3, <3>4
      DEF IInv, Once, Early, Waiting, InHands, driver, loop, options
  <2> QED
    BY <1>2, <2>1, <2>2, <2>3 DEF InitBuffer
<1>3. CASE QueueBuffer
  <2>1. CASE ExitFailure
    BY <2>1, Failure
  <2>2. ASSUME NEW k \in Buffers \ incoming, k < agreed, incoming' = incoming \union {k},
               UNCHANGED <<options, at, n_buffers, agreed, outgoing, streaming, loop>>
        PROVE  IInv'
    <3>1. at = "queue" /\ outgoing = <<>> /\ ~streaming
      BY <1>3, <1>s DEF QueueBuffer, Early
    <3> QED
      <4>1. Agreed'
        BY <1>s, <2>2, <3>1 DEF Agreed, StreamsAgreed, options
      <4> QED
        BY <1>s, <2>2, <3>1, <4>1
        DEF IInv, Shape, Once, Early, Waiting, InHands, Buffers, options, loop
  <2> QED
    BY <1>3, <2>1, <2>2 DEF QueueBuffer
<1>4. CASE StartCapturing
  <2>1. CASE ExitFailure
    BY <2>1, Failure
  <2>2. CASE at' = "while" /\ UNCHANGED <<setup, driver, buf>>
    <3>1. incoming' = Buffers' /\ outgoing' = outgoing /\ at = "queue"
      BY <1>4, <2>2 DEF StartCapturing, setup, driver, Buffers
    <3> QED
      <4>1. n_buffers <= agreed /\ (io # "read" => n_buffers >= 2)
        <5>1. n_buffers \in Nat /\ agreed \in Nat /\ \A i \in Buffers : i < agreed
          BY <1>4, <1>s, <3>1 DEF StartCapturing, Agreed, Shape
        <5>2. n_buffers > 0 => n_buffers - 1 \in Buffers
          BY <5>1 DEF Buffers
        <5> QED
          BY <1>s, <3>1, <5>1, <5>2 DEF Agreed
      <4>2. Agreed'
        BY <1>4, <2>2, <4>1 DEF StartCapturing, ExitFailure, Agreed, StreamsAgreed, setup, options
      <4> QED
        BY <1>s, <2>2, <3>1, <4>2
        DEF IInv, Shape, Once, Early, Waiting, InHands, WithDriver, setup, options, driver, Buffers
  <2> QED
    BY <1>4, <2>1, <2>2 DEF StartCapturing
<1>5. CASE While \/ Select
  BY <1>5, Quiet DEF While, Select, loop
<1>6. CASE ReadFrame
  <2>1. CASE ExitFailure
    BY <2>1, Failure
  <2>2. CASE at' = "select" /\ UNCHANGED <<setup, driver, streaming, buf>>
    BY <1>6, <2>2, Quiet DEF ReadFrame
  <2>3. CASE io = "read" /\ at' = "process" /\ UNCHANGED <<setup, driver, streaming, loop>>
    <3>1. Buffers = {} /\ incoming = {} /\ buf = -1
      BY <1>s, <2>3 DEF Shape, Buffers
    <3>2. Len(outgoing) = 0
      BY <1>s, <3>1 DEF Shape
    <3>3. Agreed'
      BY <1>s, <2>3, StaysAgreed DEF setup
    <3> QED
      BY <1>s, <1>6, <2>3, <3>1, <3>2, <3>3
      DEF ReadFrame, IInv, Shape, Once, Early, Waiting, InHands, WithDriver,
          setup, options, driver, loop, Buffers
  <2>4. CASE /\ outgoing # <<>>
             /\ buf' = Head(outgoing)
             /\ outgoing' = Tail(outgoing)
             /\ at' = "process"
             /\ UNCHANGED <<setup, incoming, streaming, count, images, timer>>
    <3>1. /\ Len(outgoing) \in Nat \ {0} /\ buf' = outgoing[1] /\ buf' \in Buffers
          /\ outgoing' \in Seq(Buffers)
          /\ Len(outgoing') = Len(outgoing) - 1
          /\ \A k \in 1 .. Len(outgoing') : outgoing'[k] = outgoing[k + 1]
      BY <1>s, <2>4 DEF Shape
    <3>2. \A j \in Buffers : WithDriver(j)' <=> WithDriver(j) /\ j # buf'
      <4> TAKE j \in Buffers
      <4>1. WithDriver(j) /\ j # buf' => WithDriver(j)'
        <5> SUFFICES ASSUME NEW k \in 1 .. Len(outgoing), outgoing[k] = j, j # buf'
                     PROVE  \E m \in 1 .. Len(outgoing') : outgoing'[m] = j
          BY <2>4 DEF WithDriver
        <5>1. k # 1 /\ k - 1 \in 1 .. Len(outgoing') /\ outgoing'[k - 1] = outgoing[(k - 1) + 1]
          BY <3>1
        <5> QED
          BY <5>1
      <4>2. WithDriver(j)' => WithDriver(j) /\ j # buf'
        <5>1. CASE j \in incoming
          BY <1>s, <3>1, <5>1 DEF WithDriver, Once
        <5>2. ASSUME NEW m \in 1 .. Len(outgoing'), outgoing'[m] = j
              PROVE  WithDriver(j) /\ j # buf'
          <6>1. m + 1 \in 1 .. Len(outgoing) /\ m + 1 # 1 /\ outgoing[m + 1] = j
            BY <3>1, <5>2
          <6>2. 1 \in 1 .. Len(outgoing) /\ outgoing[m + 1] # outgoing[1]
            BY <1>s, <3>1, <6>1 DEF Once
          <6> QED
            BY <3>1, <6>1, <6>2 DEF WithDriver
        <5> QED
          BY <2>4, <5>1, <5>2 DEF WithDriver
      <4> QED
        BY <4>1, <4>2
    <3>3. Shape' /\ Buffers' = Buffers /\ io' = io
      BY <1>s, <2>4, <3>1 DEF Shape, setup, options, Buffers
    <3>4. Once'
      <4>1. \A k \in 1 .. Len(outgoing') : k + 1 \in 1 .. Len(outgoing)
        BY <3>1
      <4>2. ASSUME NEW j \in 1 .. Len(outgoing'), NEW k \in 1 .. Len(outgoing'),
                   outgoing'[j] = outgoing'[k]
            PROVE  j = k
        <5>1. j + 1 = k + 1
          BY <1>s, <3>1, <4>1, <4>2 DEF Once
        <5> QED
          BY <5>1
      <4>3. ASSUME NEW k \in 1 .. Len(outgoing')
            PROVE  outgoing'[k] \notin incoming'
        BY <1>s, <2>4, <3>1, <4>1 DEF Once
      <4> QED
        BY <4>2, <4>3 DEF Once
    <3>5. \A i \in Buffers : WithDriver(i)
      BY <1>s, <1>6 DEF ReadFrame, Waiting
    <3>6. InHands'
      BY <2>4, <3>1, <3>2, <3>3, <3>5 DEF InHands
    <3>7. Agreed'
      BY <1>s, <2>4, StaysAgreed DEF setup
    <3> QED
      BY <1>s, <2>4, <3>3, <3>4, <3>6, <3>7
      DEF IInv, Early, Waiting, setup, options
  <2> QED
    BY <1>6, <2>1, <2>2, <2>3, <2>4 DEF ReadFrame
<1>7. CASE ProcessImage
  <2>1. /\ Buffers' = Buffers /\ io' = io /\ buf' = buf /\ at = "process"
        /\ at' = IF io = "read" THEN "while" ELSE "requeue"
        /\ \A i : WithDriver(i)' <=> WithDriver(i)
    BY <1>7 DEF ProcessImage, WithDriver, Buffers, setup, options, driver
  <2>2. Shape' /\ Once'
    BY <1>7, <1>s DEF ProcessImage, Shape, Once, Buffers, setup, options, driver
  <2>3. Early' /\ Agreed'
    BY <1>s, <1>7, <2>1, StaysAgreed DEF ProcessImage, Early, setup
  <2>4. Waiting'
    <3>1. io = "read" => Buffers = {}
      BY <1>s DEF Shape, Buffers
    <3> QED
      BY <2>1, <3>1 DEF Waiting
  <2>5. InHands'
    BY <1>s, <2>1 DEF InHands
  <2> QED
    BY <2>2, <2>3, <2>4, <2>5 DEF IInv
<1>8. CASE Requeue
  <2>1. CASE ExitFailure
    BY <2>1, Failure
  <2>2. CASE /\ incoming' = incoming \union {buf}
             /\ buf' = -1
             /\ at' = "while"
             /\ UNCHANGED <<setup, outgoing, streaming, count, images, timer>>
    <3>1. at = "requeue" /\ buf \in Buffers /\ ~WithDriver(buf)
      BY <1>8, <1>s DEF Requeue, InHands
    <3>2. Buffers' = Buffers
      BY <2>2 DEF setup, options, Buffers
    <3>3. Shape'
      BY <1>s, <2>2, <3>1, <3>2 DEF Shape, setup, options
    <3>4. Once'
      BY <1>s, <2>2, <3>1 DEF Once, WithDriver
    <3>5. Waiting'
      BY <1>s, <2>2, <3>1, <3>2 DEF Waiting, InHands, WithDriver
    <3>6. Agreed'
      BY <1>s, <2>2, StaysAgreed DEF setup
    <3> QED
      BY <2>2, <3>3, <3>4, <3>5, <3>6 DEF IInv, Early, InHands
  <2> QED
    BY <1>8, <2>1, <2>2 DEF Requeue
<1>9. CASE StopCapturing
  <2>1. CASE ExitFailure
    BY <2>1, Failure
  <2>2. CASE /\ incoming' = {} /\ outgoing' = <<>> /\ streaming' = FALSE
             /\ at' = "uninit" /\ UNCHANGED <<setup, loop>>
    <3>1. Agreed'
      BY <1>s, <2>2, StaysAgreed DEF setup
    <3> QED
      BY <1>s, <2>2, <3>1
      DEF IInv, Shape, Once, Early, Waiting, InHands, setup, options, loop, Buffers
  <2> QED
    BY <1>9, <2>1, <2>2 DEF StopCapturing
<1>10. CASE UninitDevice
  BY <1>10, Quiet, Failure DEF UninitDevice, loop
<1>11. CASE Fill
  <2> PICK i \in incoming : /\ incoming' = incoming \ {i} /\ outgoing' = Append(outgoing, i)
                            /\ streaming
                            /\ UNCHANGED <<options, at, n_buffers, agreed, streaming, loop>>
    BY <1>11 DEF Fill
  <2>1. /\ i \in Buffers /\ Len(outgoing) \in Nat
        /\ outgoing' \in Seq(Buffers) /\ Len(outgoing') = Len(outgoing) + 1
        /\ \A k \in 1 .. Len(outgoing) : outgoing'[k] = outgoing[k]
        /\ outgoing'[Len(outgoing) + 1] = i
    BY <1>s DEF Shape
  <2>2. Buffers' = Buffers /\ io' = io /\ buf' = buf
    BY DEF options, loop, Buffers
  <2>3. \A j : WithDriver(j)' <=> WithDriver(j)
    <3>1. \A k \in 1 .. Len(outgoing) : k \in 1 .. Len(outgoing')
      BY <2>1
    <3>2. \A k \in 1 .. Len(outgoing') : k \in 1 .. Len(outgoing) \/ k = Len(outgoing) + 1
      BY <2>1
    <3>3. Len(outgoing) + 1 \in 1 .. Len(outgoing')
      BY <2>1
    <3> QED
      BY <2>1, <3>1, <3>2, <3>3 DEF WithDriver
  <2>4. Shape'
    BY <1>s, <2>1, <2>2 DEF Shape, options, loop
  <2>5. Once'
    <3>1. \A k \in 1 .. Len(outgoing') :
             \/ k \in 1 .. Len(outgoing) /\ outgoing'[k] = outgoing[k]
             \/ k = Len(outgoing) + 1 /\ outgoing'[k] = i
      BY <2>1
    <3> QED
      BY <1>s, <3>1 DEF Once
  <2>6. Early' /\ Agreed'
    <3>1. at \notin {"buffers", "queue"}
      BY <1>s DEF Early
    <3> QED
      BY <1>s, <3>1, StaysAgreed DEF Early
  <2>7. Waiting' /\ InHands'
    <3>1. Waiting'
      BY <1>s, <2>2, <2>3 DEF Waiting
    <3>2. InHands'
      BY <1>s, <2>2, <2>3 DEF InHands
    <3> QED
      BY <3>1, <3>2
  <2> QED
    BY <2>4, <2>5, <2>6, <2>7 DEF IInv
<1>12. CASE Timeout \/ SelectError \/ UNCHANGED vars
  BY <1>12, Quiet, Failure DEF Timeout, SelectError, vars, setup, loop
<1> QED
  BY <1>1, <1>2, <1>3, <1>4, <1>5, <1>6, <1>7, <1>8, <1>9, <1>10, <1>11, <1>12
  DEF Next, Main

LEMMA Invariance == Spec => []IInv
BY InitIInv, StepIInv, PTL DEF Spec

(* StreamsAgreed: for any number of buffers the driver settles on, and whatever
   fails, init_userp() and init_mmap() get to STREAMON only with two buffers or
   more, and none the driver did not agree to. *)
THEOREM StreamedBuffersAgreed == Spec => []StreamsAgreed
<1>1. IInv => StreamsAgreed
  BY DEF IInv, Agreed
<1> QED
  BY <1>1, Invariance, PTL

(* NoReadWhileFilled: the driver does not have the buffer that is written out. *)
THEOREM NotFilledWhileRead == Spec => []NoReadWhileFilled
<1>1. IInv => NoReadWhileFilled
  <2> SUFFICES ASSUME IInv, at \in {"process", "requeue"}, buf \in incoming \union Filled
               PROVE  FALSE
    BY DEF NoReadWhileFilled
  <2>1. DOMAIN outgoing = 1 .. Len(outgoing)
    BY DEF IInv, Shape
  <2> QED
    BY <2>1 DEF IInv, InHands, WithDriver, Filled
<1> QED
  BY <1>1, Invariance, PTL

(* BuffersAccounted: each buffer is with the driver once, or in read_frame(). *)
THEOREM AccountedFor == Spec => []BuffersAccounted
<1>1. IInv => BuffersAccounted
  <2> SUFFICES ASSUME IInv PROVE BuffersAccounted
    OBVIOUS
  <2>1. outgoing \in Seq(Buffers) /\ DOMAIN outgoing = 1 .. Len(outgoing) /\ Len(outgoing) \in Nat
    BY DEF IInv, Shape
  <2>2. \A i : WithDriver(i) <=> i \in incoming \union Filled
    BY <2>1 DEF WithDriver, Filled
  <2>3. incoming \union Filled \subseteq Buffers
    BY <2>1 DEF IInv, Shape, Filled
  <2>4. at \in {"while", "select", "read"} => incoming \union Filled = Buffers
    BY <2>2, <2>3 DEF IInv, Waiting
  <2>5. incoming \intersect Filled = {}
    BY <2>1 DEF IInv, Once, Filled
  <2>6. Cardinality(Filled) = Len(outgoing)
    <3>1. outgoing \in Bijection(1 .. Len(outgoing), Filled)
      BY <2>1 DEF IInv, Once, Filled, Bijection, Injection, Surjection, IsInjective
    <3>2. IsFiniteSet(1 .. Len(outgoing)) /\ Cardinality(1 .. Len(outgoing)) = Len(outgoing)
      BY <2>1, FS_Interval
    <3>3. ExistsBijection(1 .. Len(outgoing), Filled)
      BY <3>1 DEF ExistsBijection
    <3> QED
      BY <3>2, <3>3, FS_Bijection
  <2> QED
    BY <2>4, <2>5, <2>6 DEF BuffersAccounted
<1> QED
  BY <1>1, Invariance, PTL
-----------------------------------------------------------------------------
(* The counters of mainloop() never wrap before the last image: what is put out
   and what is still to come are together what -c asked for.  From while (count--)
   to process_image() one image is in neither. *)
Asked == frame_count % 2^Width

Counted ==
  /\ count \in Nat /\ images \in Nat /\ frame_count \in Int
  /\ at \in {"device", "buffers", "queue"} => images = 0
  /\ at \in {"while", "requeue"} => images + count = Asked
  /\ at \in {"select", "read", "process"} => images + count + 1 = Asked
  /\ at \in {"stop", "uninit", "done"} => images = Asked

(* What 2^Width is: as many as there are sets of Width bits. *)
LEMMA WidthPositive == 2^Width \in Nat \ {0}
<1> DEFINE bits == 1 .. Width
<1>1. Width \in Nat /\ IsFiniteSet(bits) /\ Cardinality(bits) = Width
  BY FirstFrameAssumption, FS_Interval
<1>2. IsFiniteSet(SUBSET bits) /\ Cardinality(SUBSET bits) = 2^Width
  BY <1>1, FS_SUBSET
<1>3. SUBSET bits # {}
  OBVIOUS
<1> QED
  BY <1>2, <1>3, FS_CardinalityType, FS_EmptySet

(* Within the width nothing wraps. *)
LEMMA InWidth ==
  ASSUME NEW m \in Nat \ {0}
  PROVE  /\ \A x \in Int : x % m \in 0 .. m - 1
         /\ \A x \in 0 .. m - 1 : x % m = x
<1>1. ASSUME NEW x \in Int PROVE x % m \in 0 .. m - 1
  OBVIOUS
<1>2. ASSUME NEW x \in 0 .. m - 1 PROVE x % m = x
  OBVIOUS
<1> QED
  BY <1>1, <1>2

(* ImagesMatch: a run that ends well has put out as many images as asked for, for
   any width, any count, negative ones included, and however often a frame is
   tried again. *)
THEOREM AsManyAsAsked == Spec => []ImagesMatch
<1> DEFINE M == 2^Width
<1>m. /\ M \in Nat \ {0}
      /\ \A x \in Int : x % M \in 0 .. M - 1
      /\ \A x \in 0 .. M - 1 : x % M = x
  BY WidthPositive, InWidth
<1>1. Init => Counted
  BY FirstFrameAssumption DEF Init, Counted
<1>2. Counted /\ [Next]_vars => Counted'
  <2> SUFFICES ASSUME Counted, [Next]_vars PROVE Counted'
    OBVIOUS
  <2>a. Asked \in 0 .. M - 1 /\ (frame_count' = frame_count => Asked' = Asked)
    BY <1>m DEF Counted, Asked
  <2> HIDE DEF M
  <2>1. CASE StartCapturing
    <3>1. frame_count % 2^Width = Asked
      BY DEF Asked
    <3> QED
      BY <2>1, <2>a, <3>1 DEF StartCapturing, ExitFailure, Counted, setup, options, loop
  <2>2. CASE While
    <3>1. frame_count' = frame_count /\ images' = images /\ at = "while" /\ count' = (count - 1) % M
          /\ at' = IF count = 0 THEN "stop" ELSE "select"
      BY <2>2 DEF While, setup, options, M
    <3>2. count' \in Nat
      BY <1>m, <3>1 DEF Counted
    <3>3. CASE count = 0
      BY <2>a, <3>1, <3>2, <3>3 DEF Counted
    <3>4. CASE count # 0
      <4>1. count - 1 \in 0 .. M - 1
        BY <1>m, <2>a, <3>1, <3>4 DEF Counted
      <4>2. count' = count - 1
        BY <1>m, <3>1, <4>1
      <4> QED
        BY <2>a, <3>1, <3>2, <3>4, <4>2 DEF Counted
    <3> QED
      BY <3>3, <3>4
  <2>3. CASE ProcessImage
    <3>1. frame_count' = frame_count /\ count' = count /\ at = "process" /\ images' = (images + 1) % M
          /\ at' \in {"while", "requeue"}
      BY <2>3 DEF ProcessImage, setup, options, M
    <3>2. images + 1 \in 0 .. M - 1
      BY <1>m, <2>a, <3>1 DEF Counted
    <3>3. images' = images + 1
      BY <1>m, <3>1, <3>2
    <3> QED
      BY <2>a, <3>1, <3>3 DEF Counted
  <2>4. CASE OpenDevice \/ InitBuffer \/ QueueBuffer \/ Select \/ ReadFrame \/ Requeue
               \/ StopCapturing \/ UninitDevice \/ SelectError \/ Fill \/ Timeout
               \/ UNCHANGED vars
    BY <2>a, <2>4
    DEF OpenDevice, InitBuffer, QueueBuffer, Select, ReadFrame, Requeue, StopCapturing,
        UninitDevice, SelectError, Fill, Timeout, vars, ExitFailure, Counted, setup, options, loop
  <2> QED
    BY <2>1, <2>2, <2>3, <2>4 DEF Next, Main
<1>3. Counted => ImagesMatch
  BY DEF Counted, Asked, ImagesMatch
<1> QED
  BY <1>1, <1>2, <1>3, PTL DEF Spec
-----------------------------------------------------------------------------
LEMMA StepTypeOK == IInv /\ IInv' /\ TypeOK /\ [Next]_vars => TypeOK'
<1> SUFFICES ASSUME IInv, IInv', TypeOK, [Next]_vars PROVE TypeOK'
  OBVIOUS
<1> DEFINE M == 2^Width
<1>m. M \in Nat \ {0} /\ \A x \in Int : x % M \in 0 .. M - 1
  BY WidthPositive, InWidth
<1> HIDE DEF M
<1>1. n_buffers' \in Nat /\ (incoming \subseteq Buffers)' /\ outgoing' \in Seq(Buffers') /\ io' \in Method
      /\ buf' \in Buffers' \union {-1}
  BY DEF IInv, Shape
<1>2. count' \in 0 .. M - 1 /\ images' \in 0 .. M - 1
  <2>1. count \in 0 .. M - 1 /\ images \in 0 .. M - 1 /\ frame_count \in Int
    BY FirstFrameAssumption DEF TypeOK, M
  <2>2. count' \in {count, frame_count % M, (count - 1) % M}
    BY DEF Next, Main, OpenDevice, InitBuffer, QueueBuffer, StartCapturing, While, Select,
       ReadFrame, ProcessImage, Requeue, StopCapturing, UninitDevice, SelectError, Fill, Timeout, vars,
       ExitFailure, loop, M
  <2>3. images' \in {images, (images + 1) % M}
    BY DEF Next, Main, OpenDevice, InitBuffer, QueueBuffer, StartCapturing, While, Select,
       ReadFrame, ProcessImage, Requeue, StopCapturing, UninitDevice, SelectError, Fill, Timeout, vars,
       ExitFailure, loop, M
  <2> QED
    BY <1>m, <2>1, <2>2, <2>3
<1>3. /\ frame_count' = frame_count
      /\ at' \in {"device", "buffers", "queue", "while", "select", "read", "process",
                  "requeue", "stop", "uninit", "done", "failed"}
      /\ streaming' \in BOOLEAN /\ timer' \in BOOLEAN
  BY DEF Next, Main, OpenDevice, InitBuffer, QueueBuffer, StartCapturing, While, Select,
     ReadFrame, ProcessImage, Requeue, StopCapturing, UninitDevice, SelectError, Fill, Timeout, vars,
     ExitFailure, loop, options, setup, TypeOK
<1>4. agreed' \in Driver \union {0}
  BY DEF Next, Main, OpenDevice, InitBuffer, QueueBuffer, StartCapturing, While, Select,
     ReadFrame, ProcessImage, Requeue, StopCapturing, UninitDevice, SelectError, Fill, Timeout, vars,
     ExitFailure, setup, TypeOK
<1> QED
  BY <1>1, <1>2, <1>3, <1>4 DEF TypeOK, M

(* The variables keep their types, the unsigned counters their width, for any
   driver, count and failure. *)
THEOREM TypeCorrect == Spec => []TypeOK
<1>1. Init => TypeOK
  <2> DEFINE M == 2^Width
  <2>1. 0 \in 0 .. M - 1
    BY WidthPositive
  <2> HIDE DEF M
  <2>2. Init => count \in 0 .. M - 1 /\ images \in 0 .. M - 1
    BY <2>1 DEF Init
  <2>3. Init => outgoing \in Seq(Buffers)
    BY DEF Init
  <2>4. Init => /\ io \in Method /\ frame_count \in FrameCounts /\ at = "device"
                /\ n_buffers \in Nat /\ agreed \in Driver \union {0} /\ incoming \subseteq Buffers
                /\ buf \in Buffers \union {-1}
    BY DEF Init
  <2>5. Init => streaming \in BOOLEAN /\ timer \in BOOLEAN
    BY DEF Init
  <2> QED
    BY <2>2, <2>3, <2>4, <2>5 DEF TypeOK, M
<1> QED
  BY <1>1, InitIInv, StepIInv, StepTypeOK, PTL DEF Spec
=============================================================================
