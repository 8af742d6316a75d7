------------------------------ MODULE MCThread -------------------------------
(* Thread and its properties for TLC. *)
EXTENDS ThreadProps
=============================================================================
