------------------------- MODULE MCEventLoopHandles -------------------------
(* Instances of EventLoopHandles for TLC. *)
EXTENDS EventLoopHandles
=============================================================================
