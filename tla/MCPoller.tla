------------------------------ MODULE MCPoller ------------------------------
(* Poller for TLC: four channels on three descriptors, one number used
   twice, descriptor 0 among them, whose negative form is -1. *)
EXTENDS PollerProps, TLC

CONSTANTS c1, c2, c3, c4

MCFd == c1 :> 0 @@ c2 :> 3 @@ c3 :> 3 @@ c4 :> 4
=============================================================================
