-------------------------- MODULE MCRemoteSystems --------------------------
(***************************************************************************)
(* Three slots, four addresses of which three collide, one guid and the    *)
(* null guid.                                                              *)
(***************************************************************************)
EXTENDS RemoteSystems

CONSTANTS a1, a2, a3, a4, g1

MCAddrs == {a1, a2, a3, a4}
MCGuids == {g1}
MCBuckets == {0, 1}
\* The addresses of bucket 0 are alike.
Symmetry == Permutations({a1, a2, a3})

MCHash == [a \in MCAddrs |-> IF a = a4 THEN 1 ELSE 0]
=============================================================================
