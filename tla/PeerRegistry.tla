---------------------------- MODULE PeerRegistry ----------------------------
(***************************************************************************)
(* What the table of remote systems promises: a register of at most Size   *)
(* peers by their address, each with the guid it came with.  A peer can    *)
(* move to a free address; none is ever replaced or lost.                  *)
(***************************************************************************)
EXTENDS Naturals, FiniteSets

CONSTANTS Addrs, Guids,
          Size    \* how many peers the register holds

VARIABLE peers    \* pairs of an address and a guid

Init == peers = {}

IsFree(a) == \A p \in peers : p[1] # a

Join(a, g) ==
  /\ IsFree(a)
  /\ Cardinality(peers) < Size
  /\ peers' = peers \cup {<<a, g>>}

Move(p, a) ==
  /\ IsFree(a)
  /\ peers' = (peers \ {p}) \cup {<<a, p[2]>>}

Next ==
  \/ \E a \in Addrs, g \in Guids : Join(a, g)
  \/ \E p \in peers, a \in Addrs : Move(p, a)

Spec == Init /\ [][Next]_peers
=============================================================================
