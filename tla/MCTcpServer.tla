---------------------------- MODULE MCTcpServer -----------------------------
(* TcpServer and its properties for TLC. *)
EXTENDS TcpServerProps, TLC

(* A bound for a run with threads and several peers: other peers than First
   connect only while no message has been sent and no other thread is in a
   call, and while they are there nobody begins either.  It cuts off only
   steps that begin something, which no fairness asks for, and none of the
   loop's. *)
First == CHOOSE c \in Conns : TRUE
Crowded == \E c \in Conns \ {First} : c \in backlog \/ conn[c].state # "none"
Busy == sends > 0 \/ \E t \in Threads : call[t] # Idle
NotCrowdedAndBusy == ~(Crowded /\ Busy)

Symmetry ==
    Permutations(Conns) \cup Permutations(Threads) \cup Permutations(Fds)
=============================================================================
