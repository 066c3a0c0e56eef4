-------------------------- MODULE MCRequestSchedule --------------------------
(***************************************************************************)
(* Every attemptTimes a caller can pass.                                   *)
(***************************************************************************)
EXTENDS RequestSchedule

AllTimes == 0 .. 255
Windows == {"sent", "slow", "toolong"}
=============================================================================
