------------------------- MODULE MCDatagramPipeline -------------------------
(***************************************************************************)
(* One or two sockets and queues of two or three pointers.  With one       *)
(* socket the pool has two buffers more than the Cap + 2 it should ever    *)
(* hand out, so that two may be lost.                                      *)
(***************************************************************************)
EXTENDS DatagramPipeline

CONSTANTS b1, b2, b3, b4, b5, b6

SixCells == {b1, b2, b3, b4, b5, b6}
FourCells == {b1, b2, b3, b4}
=============================================================================
