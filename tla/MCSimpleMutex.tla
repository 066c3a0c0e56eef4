---------------------------- MODULE MCSimpleMutex ----------------------------
(***************************************************************************)
(* Three threads that nest their locks up to three deep.                   *)
(***************************************************************************)
EXTENDS SimpleMutex

CONSTANTS user, network, receiver

MCThreads == {user, network, receiver}
=============================================================================
