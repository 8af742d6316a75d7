------------------------------ MODULE MCBuffer ------------------------------
(* Buffer and its properties for TLC. *)
EXTENDS BufferProps

MCByte == {0, 1}
=============================================================================
