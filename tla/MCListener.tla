----------------------------- MODULE MCListener -----------------------------
(* Listener and its properties for TLC. *)
EXTENDS ListenerProps, TLC

CONSTANTS h1, h2

MCSources == {[host |-> h2, port |-> 1]}
MCSymmetry == Permutations(Conns) \cup Permutations(Servers)
=============================================================================
