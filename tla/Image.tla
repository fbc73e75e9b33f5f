-------------------------------- MODULE Image --------------------------------
(***************************************************************************)
(* Mapping a camera buffer for reading, src/image.cpp: fromFrameBuffer()   *)
(* checks every plane against the length of its dmabuf, then maps each     *)
(* file descriptor once, as far as its planes reach; the destructor unmaps *)
(* what was mapped.  Offsets and lengths are unsigned ints, the length of  *)
(* a dmabuf is a size_t.                                                   *)
(***************************************************************************)
EXTENDS Integers, Sequences

CONSTANTS
  Width,       \* bits of an unsigned int
  Huge,        \* the size_t that a failing lseek() returns, -1
  ImageFaults  \* "lseek", "mmap"

VARIABLES
  length,   \* dmabufLength of each fd of the loop so far
  reach,    \* mapLength of each of them
  maps_,    \* the file descriptors that are mapped
  spans     \* planes_: the parts of the maps that are the planes

vars == <<length, reach, maps_, spans>>

Init == length = <<>> /\ reach = <<>> /\ maps_ = {} /\ spans = <<>>

(* offset + length, as the code computes it. *)
End(plane) == (plane.offset + plane.length) % 2 ^ Width

(* The length of an fd, size bytes long, is looked up at its first plane. *)
Lengths(fd, size) ==
  IF fd \in DOMAIN length THEN {length[fd]}
  ELSE {size} \union IF "lseek" \in ImageFaults THEN {Huge} ELSE {}

Fits(plane, n) == plane.offset <= n /\ End(plane) <= n

(* Mutant of Reach: the plane looked at last decides. *)
ReachLast(plane) == End(plane)

(* How far the map of a plane's fd must reach. *)
Reach(plane) ==
  IF plane.fd \in DOMAIN reach /\ reach[plane.fd] > End(plane)
  THEN reach[plane.fd] ELSE End(plane)

Put(f, k, v) == [x \in DOMAIN f \union {k} |-> IF x = k THEN v ELSE f[x]]

(* One turn of the first loop. *)
Check(plane, size) ==
  \E n \in Lengths(plane.fd, size) :
    /\ Fits(plane, n)
    /\ length' = Put(length, plane.fd, n)
    /\ reach' = Put(reach, plane.fd, Reach(plane))
    /\ UNCHANGED <<maps_, spans>>

(* The plane is out of its buffer. *)
Rejected(plane, size) == \E n \in Lengths(plane.fd, size) : ~Fits(plane, n)

(* One turn of the second loop. *)
Map(plane) ==
  /\ plane.fd \in maps_ \/ reach[plane.fd] > 0
  /\ maps_' = maps_ \union {plane.fd}
  /\ spans' = Append(spans, plane)
  /\ UNCHANGED <<length, reach>>

(* mmap() refuses to map nothing, or fails. *)
Unmappable(plane) ==
  plane.fd \notin maps_ /\ (reach[plane.fd] = 0 \/ "mmap" \in ImageFaults)

(* The destructor, of an image or of what there is of one. *)
Unmap == length' = <<>> /\ reach' = <<>> /\ maps_' = {} /\ spans' = <<>>
-----------------------------------------------------------------------------
(* Where what a reader takes for a plane lies: in a map of the plane's fd, and
   inside that map exactly when offset + length fits into 32 bits
   (image.cpp:51 and :61 let a sum through that wrapped); and the map ends
   inside the dmabuf, unless lseek() failed (:45 takes its -1 for a length).
   Neither failure makes room for the other. *)
SpansInside(size(_)) ==
  \A n \in DOMAIN spans :
    LET p == spans[n]
        end == p.offset + p.length
    IN
    /\ p.fd \in maps_
    /\ end <= reach[p.fd] <=> end < 2 ^ Width
    /\ reach[p.fd] <= size(p.fd) \/ length[p.fd] = Huge
=============================================================================
