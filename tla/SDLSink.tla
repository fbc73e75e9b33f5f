------------------------------ MODULE SDLSink ------------------------------
(***************************************************************************)
(* The SDL sink, src/sdl_sink.cpp: the four things start() and configure() *)
(* make one after the other, any of which may fail, and stop(), which is   *)
(* called by the session, by the destructor, or by both.                   *)
(***************************************************************************)
CONSTANT SDLFaults   \* "configure", "start"

VARIABLE live   \* what exists of "texture", "sdl", "window", "renderer", "pixels"

vars == live

Init == live = {}

(* The texture object, for a pixel format the sink knows. *)
Configure ==
  \/ live' = {"texture"}
  \/ "configure" \in SDLFaults /\ UNCHANGED live

Configured == "texture" \in live

(* SDL_Init, SDL_CreateWindow, SDL_CreateRenderer and texture_->create() in
   turn; the first that fails ends start(). *)
Start ==
  /\ Configured
  /\ \/ live' = {"texture", "sdl", "window", "renderer", "pixels"}
     \/ /\ "start" \in SDLFaults
        /\ live' \in {{"texture"}, {"texture", "sdl"},
                      {"texture", "sdl", "window"},
                      {"texture", "sdl", "window", "renderer"}}

Started == "pixels" \in live

(* Mutant of Stop: a sink that was not started has nothing to stop. *)
StopStarted == live' = IF Started THEN {} ELSE live

(* The pixels belong to the texture object; each of the rest is given up
   when it is there, so that a second stop() does nothing. *)
Stop == live' = {}

(* renderBuffer() follows texture_ and renderer_ unchecked. *)
CanRender == {"texture", "window", "renderer", "pixels"} \subseteq live
=============================================================================
