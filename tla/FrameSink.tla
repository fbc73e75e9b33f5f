----------------------------- MODULE FrameSink -----------------------------
(***************************************************************************)
(* What src/frame_sink.cpp asks of every sink, as the session sees it: a   *)
(* request is either processed synchronously, which leaves no trace here,  *)
(* or the sink takes it and owns it until it emits requestProcessed.  An   *)
(* accepted request is given back exactly once, in the order of            *)
(* acceptance, and stop() gives back whatever is left.                     *)
(***************************************************************************)
EXTENDS Sequences

CONSTANT Requests

VARIABLES
  held,      \* the requests the sink owns, oldest first
  running    \* between start() and stop()

vars == <<held, running>>

Init == held = <<>> /\ running = FALSE

Start == ~running /\ running' = TRUE /\ held = <<>> /\ UNCHANGED held

Accept(r) ==
  /\ running
  /\ \A k \in DOMAIN held : held[k] # r
  /\ held' = Append(held, r)
  /\ UNCHANGED running

Release ==
  /\ running
  /\ held # <<>>
  /\ held' = Tail(held)
  /\ UNCHANGED running

Stop == running /\ running' = FALSE /\ held' = <<>>

Next == Start \/ (\E r \in Requests : Accept(r)) \/ Release \/ Stop

Spec == Init /\ [][Next]_vars
=============================================================================
