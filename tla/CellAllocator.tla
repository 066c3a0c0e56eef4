---------------------------- MODULE CellAllocator ----------------------------
(***************************************************************************)
(* What JackieMemoryPool promises its caller: a cell that is handed out    *)
(* lies in memory the pool has, nobody else has it, and the memory stays   *)
(* until the caller gives the cell back (or the whole pool is cleared).    *)
(***************************************************************************)
CONSTANT Cells      \* every cell there may ever be

VARIABLES
  backed,   \* the cells that lie in memory the pool got from malloc
  live      \* the cells the caller has

vars == <<backed, live>>

Init == backed = {} /\ live = {}

(* A cell nobody has, in memory that may have been obtained for it. *)
Allocate ==
  \E c \in Cells \ live :
    /\ backed \subseteq backed'
    /\ c \in backed'
    /\ backed' \subseteq Cells
    /\ live' = live \cup {c}

(* A cell comes back, and memory in which nobody has a cell may be freed. *)
Reclaim ==
  \E c \in live :
    /\ live' = live \ {c}
    /\ live' \subseteq backed'
    /\ backed' \subseteq backed

Clear == backed' = {} /\ live' = {}

Next == Allocate \/ Reclaim \/ Clear

Spec == Init /\ [][Next]_vars
=============================================================================
