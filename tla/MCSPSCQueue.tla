---------------------------- MODULE MCSPSCQueue ----------------------------
(***************************************************************************)
(* The ring with Cap = 3 cells and indices that wrap at 6: a short run     *)
(* already wraps both of them, at every fill level.                        *)
(***************************************************************************)
EXTENDS SPSCQueue, TLC

CONSTANTS e1, e2

MCElem == {e1, e2}
=============================================================================
