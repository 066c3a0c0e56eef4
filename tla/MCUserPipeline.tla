--------------------------- MODULE MCUserPipeline ---------------------------
(***************************************************************************)
(* Queues of two pointers and two message ids.                             *)
(***************************************************************************)
EXTENDS UserPipeline, TLC

CONSTANTS failed, rejected

MCIds == {failed, rejected}
=============================================================================
