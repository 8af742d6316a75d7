------------------------- MODULE MCEventLoopThread --------------------------
(* EventLoopThread and its properties for TLC. *)
EXTENDS EventLoopThreadProps
=============================================================================
