------------------------------ MODULE FileSink ------------------------------
(***************************************************************************)
(* Writing frames to a file, src/file_sink.cpp.  A byte of the file is     *)
(* told by the frame it is of and its place in that frame.                 *)
(***************************************************************************)
EXTENDS Integers, Sequences

CONSTANTS
  MaxFrames,   \* bound: frames written
  FileFaults   \* "open", "write"

VARIABLES
  file,    \* the bytes of the file
  frame,   \* frames given to writeBuffer() so far
  plane,   \* the plane writeBuffer() writes next, or 0
  pos,     \* its offset in the file
  due,     \* where the frame's bytes of that plane belong
  whole    \* the last frame was written to its end

vars == <<file, frame, plane, pos, due, whole>>

Init == file = <<>> /\ frame = 0 /\ plane = 0 /\ pos = 0 /\ due = 0 /\ whole = FALSE

(* The bytes n of the frame from place at on, written to a file at offset. *)
Write(bytes, offset, at, n) ==
  [k \in 1 .. IF offset + n > Len(bytes) THEN offset + n ELSE Len(bytes) |->
     IF k > offset /\ k <= offset + n
     THEN [frame |-> frame, at |-> at + k - offset] ELSE bytes[k]]

(* The file is opened anew for each frame, not truncated; a frame that
   finds it unopenable is skipped. *)
Open ==
  /\ plane = 0
  /\ frame < MaxFrames
  /\ frame' = frame + 1
  /\ \/ plane' = 1
     \/ "open" \in FileFaults /\ plane' = 0
  /\ pos' = 0 /\ due' = 0
  /\ whole' = FALSE
  /\ UNCHANGED file

(* Mutant of WritePlane: the next plane follows even a short write. *)
WritePlaneOn(planes, bytesused) ==
  /\ plane # 0
  /\ UNCHANGED frame
  /\ LET size == planes[plane].length
         len == IF bytesused < size THEN bytesused ELSE size
     IN  \E n \in {len} \union IF "write" \in FileFaults THEN 0 .. len ELSE {} :
           /\ file' = Write(file, pos, due, n)
           /\ pos' = pos + n
           /\ due' = due + len
           /\ plane' = IF plane = Len(planes) THEN 0 ELSE plane + 1
           /\ whole' = (plane = Len(planes) /\ n = len)

(* One turn of the loop over the planes: as many bytes as the camera filled,
   but no more than the plane has.  A write that fails or is short ends the
   frame. *)
WritePlane(planes, bytesused) ==
  /\ plane # 0
  /\ UNCHANGED frame
  /\ LET size == planes[plane].length
         len == IF bytesused < size THEN bytesused ELSE size
     IN  \E n \in {len} \union IF "write" \in FileFaults THEN 0 .. len ELSE {} :
           /\ file' = Write(file, pos, due, n)
           /\ pos' = pos + n
           /\ due' = due + len
           /\ plane' = IF n < len \/ plane = Len(planes) THEN 0 ELSE plane + 1
           /\ whole' = (plane = Len(planes) /\ n = len)
-----------------------------------------------------------------------------
(* The file starts with the last frame, when that was written to its end;
   and whatever writes fail or are short no byte is out of place: byte k of the
   file is byte k of some frame, and a newer frame ends where an older one
   goes on.  file_sink.cpp:55 opens the file for every frame and never
   truncates it; :79 and :82 leave the loop. *)
FileInOrder ==
  /\ whole => Len(file) >= pos /\ \A k \in 1 .. pos : file[k].frame = frame
  /\ \A j, k \in DOMAIN file :
       file[k].at = k /\ (j < k => file[j].frame >= file[k].frame)
=============================================================================
