----------------------------- MODULE MCBitStream -----------------------------
(* Bytes of 4 bits.  The fields cover all outcomes of each kind: short and   *)
(* long, aligned and not, with and without the sign's bytes, inside and      *)
(* outside a range.                                                          *)
EXTENDS BitStream

MCFields ==
    { [op |-> "bits", n |-> 1, v |-> v] : v \in {0, 1} }
    \cup { [op |-> "bits", n |-> n, v |-> 2 ^ n - 2] : n \in {3, 4, 6, 8} }
    \cup { [op |-> "left", n |-> 6, v |-> 42, rest |-> r] : r \in {0, 1} }
    \cup { [op |-> "mini", bytes |-> 2, isUnsigned |-> u, v |-> v] :
             u \in BOOLEAN, v \in {2, 7, 15, 243, 249, 42} }
    \cup { [op |-> "changed", bytes |-> 1, last |-> 5, v |-> v] : v \in {5, 6, 14} }
    \cup { [op |-> "ranged", bytes |-> 1, min |-> 3, max |-> 3 + d,
            allowOutside |-> FALSE, v |-> 3 + d] : d \in {0, 1, 4, 7} }
    \cup { [op |-> "ranged", bytes |-> 1, min |-> 3, max |-> 6,
            allowOutside |-> TRUE, v |-> v] : v \in {2, 6, 9} }
    \cup { [op |-> "aligned", bytes |-> b, v |-> 2 ^ (4 * b) - 6] : b \in {1, 2} }
=============================================================================
