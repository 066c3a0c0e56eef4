---------------------------- MODULE BoundedFIFO ----------------------------
(***************************************************************************)
(* What a single-producer single-consumer queue promises its two threads:  *)
(* a FIFO of at most Cap elements.  Put and Get are single steps, a Put    *)
(* waits while the FIFO is full, a Get hands over the oldest element.      *)
(* JackieSPSCQueue is shown to implement this in module SPSCQueue; the     *)
(* modules that use it (DatagramPipeline, UserPipeline) do so at this one. *)
(***************************************************************************)
EXTENDS Naturals, Sequences

CONSTANTS Elem,   \* the elements (pointers to pooled objects)
          Cap     \* how many of them the queue holds

VARIABLES q,      \* the elements pushed and not yet popped, oldest first
          got     \* the element the consumer popped last

vars == <<q, got>>

Init == q = <<>> /\ got \in Elem

Put(e) ==
  /\ Len(q) < Cap
  /\ q' = Append(q, e)
  /\ UNCHANGED got

Get ==
  /\ q # <<>>
  /\ got' = Head(q)
  /\ q' = Tail(q)

Next == Get \/ \E e \in Elem : Put(e)

Spec == Init /\ [][Next]_vars
=============================================================================
