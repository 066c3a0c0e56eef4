------------------------- MODULE MCDatagramDispatch -------------------------
(***************************************************************************)
(* Two senders, a ban of each and a ban of both, so that the list has up   *)
(* to three entries and each scan an entry it passes over.  The clock goes *)
(* past Wrap, where every temporary ban ends as soon as it is scanned.     *)
(***************************************************************************)
EXTENDS DatagramDispatch

CONSTANTS a1, a2, x1, x2, net

TwoAddresses == {a1, a2}
ThreePatterns == {x1, x2, net}
CoversEach == {<<x1, a1>>, <<x2, a2>>, <<net, a1>>, <<net, a2>>}
=============================================================================
