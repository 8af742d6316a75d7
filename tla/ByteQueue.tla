----------------------------- MODULE ByteQueue ------------------------------
(***************************************************************************)
(* What CBuffer promises its users: bytes written at the back are read at  *)
(* the front, in order, each once, and a header may be put back in front.  *)
(* Storage, indices, growing and moving are absent.                        *)
(***************************************************************************)
EXTENDS Sequences

CONSTANT Byte

VARIABLES bytes,    (* the readable bytes, oldest first *)
          last      (* the last call and the bytes that it wrote or read *)

Call == [name : {"none", "write", "read", "prepend"}, data : Seq(Byte)]

Init == bytes = <<>> /\ last = [name |-> "none", data |-> <<>>]

Write == last'.name = "write" /\ bytes' = bytes \o last'.data
Read == last'.name = "read" /\ bytes = last'.data \o bytes'
Prepend == last'.name = "prepend" /\ bytes' = last'.data \o bytes

Next == last' \in Call /\ (Write \/ Read \/ Prepend)

Spec == Init /\ [][Next]_<<bytes, last>>
=============================================================================
