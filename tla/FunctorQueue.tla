---------------------------- MODULE FunctorQueue ----------------------------
(***************************************************************************)
(* What CEventLoop::QueueInLoop promises its callers, and nothing about    *)
(* how: functors wait in one first-in first-out queue and each is taken    *)
(* out once, in the order in which the calls took effect.  The two vectors *)
(* of the code, their swap, the eventfd and the threads are absent.        *)
(***************************************************************************)
EXTENDS Naturals, Sequences

CONSTANT Functor      (* the functors that may be queued *)

VARIABLES queue,      (* functors accepted and not yet started *)
          ran         (* functors started, oldest first *)

vars == <<queue, ran>>

Init == queue = <<>> /\ ran = <<>>

Post == /\ \E f \in Functor : queue' = Append(queue, f)
        /\ UNCHANGED ran

Run == /\ queue # <<>>
       /\ ran' = Append(ran, Head(queue))
       /\ queue' = Tail(queue)

Next == Post \/ Run

Spec == Init /\ [][Next]_vars
=============================================================================
