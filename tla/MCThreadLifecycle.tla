------------------------- MODULE MCThreadLifecycle -------------------------
(***************************************************************************)
(* Two sockets, because startup waits for one of two receive threads and   *)
(* stop_recv_thread counts both while it wakes one; queues of one pointer  *)
(* that fill at once; two calls of startup.                                *)
(***************************************************************************)
EXTENDS ThreadLifecycle
=============================================================================
