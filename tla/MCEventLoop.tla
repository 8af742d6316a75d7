---------------------------- MODULE MCEventLoop -----------------------------
(* EventLoop and its properties for TLC: the cfg gives the constants their
   values. *)
EXTENDS EventLoopProps
=============================================================================
