----------------------------- MODULE MemoryPool -----------------------------
(***************************************************************************)
(* JackieMemoryPool: cells of one type, taken from pages of                *)
(* CELLS_SIZE_PER_PAGE cells (include/JackieMemoryPool.h).                 *)
(*                                                                         *)
(* A page is on one of two circular doubly linked lists: usablePage heads  *)
(* the pages with a free cell, unUsablePage those without.  A list of size *)
(* 0 keeps a dangling head.  A cell knows its page, so that Reclaim finds  *)
(* it, and a page keeps its free cells as a stack.  A page whose cells     *)
(* have all come back is freed when more than MAX_FREE_PAGES are usable.   *)
(*                                                                         *)
(* A pool has one thread.  An operation is one step, with every pointer it *)
(* writes.  malloc is external: it may return any page that is not in use  *)
(* or fail.  When it fails inside InitPage the new page stays on the list  *)
(* although nothing in it was set ("raw"); the callers call Allocate again *)
(* at once (do .. while (ptr == 0)), which returns what the page happens   *)
(* to hold ("undefined"); the program is not followed any further.         *)
(***************************************************************************)
EXTENDS Naturals, Sequences, FiniteSets

CONSTANTS
  Pages,                 \* the addresses malloc may return for a page (bound)
  CELLS_SIZE_PER_PAGE,
  MAX_FREE_PAGES,
  NoPage                 \* null pointer

ASSUME PoolAssumption ==
  /\ IsFiniteSet(Pages) /\ NoPage \notin Pages
  /\ CELLS_SIZE_PER_PAGE \in Nat \ {0, 1}    \* assert(usablePage->freeCellsSize > 1)
  /\ MAX_FREE_PAGES \in Nat \ {0}

VARIABLES
  usablePage, unUsablePage,                  \* heads of the two lists
  mUsablePagesSize, mUnUsablePagesSize,
  link,        \* the fields next and prev of every page
  freeCells,   \* per page, the stack of its free cells (the last is the top)
  inUse,       \* the pages got from malloc and not freed
  live,        \* the cells the callers have
  health       \* "ok", "raw" after a failed InitPage, "undefined" once it is read

vars == <<usablePage, unUsablePage, mUsablePagesSize, mUnUsablePagesSize,
          link, freeCells, inUse, live, health>>

CellNumbers == 1 .. CELLS_SIZE_PER_PAGE
Cells == Pages \X CellNumbers
IsEmpty(p) == Len(freeCells[p]) = CELLS_SIZE_PER_PAGE    \* no cell of p is out

TypeOK ==
  /\ usablePage \in Pages \cup {NoPage} /\ unUsablePage \in Pages \cup {NoPage}
  /\ mUsablePagesSize \in 0 .. Cardinality(Pages)
  /\ mUnUsablePagesSize \in 0 .. Cardinality(Pages)
  /\ link \in [next : [Pages -> Pages \cup {NoPage}], prev : [Pages -> Pages \cup {NoPage}]]
  /\ \A p \in Pages : /\ freeCells[p] \in Seq(CellNumbers)
                      /\ Len(freeCells[p]) <= CELLS_SIZE_PER_PAGE
  /\ inUse \subseteq Pages /\ live \subseteq Cells
  /\ health \in {"ok", "raw", "undefined"}

Init ==
  /\ usablePage = NoPage /\ unUsablePage = NoPage
  /\ mUsablePagesSize = 0 /\ mUnUsablePagesSize = 0
  /\ link = [next |-> [p \in Pages |-> NoPage], prev |-> [p \in Pages |-> NoPage]]
  /\ freeCells = [p \in Pages |-> <<>>]
  /\ inUse = {} /\ live = {} /\ health = "ok"

-----------------------------------------------------------------------------
(* The pointer work on the lists. *)

UnlinkedForwards(l, p) == [l EXCEPT !.next[l.prev[p]] = l.next[p]]

Unlinked(l, p) == [next |-> [l.next EXCEPT ![l.prev[p]] = l.next[p]],
                   prev |-> [l.prev EXCEPT ![l.next[p]] = l.prev[p]]]

(* p becomes the last page of the list of size n with head h. *)
Appended(l, p, h, n) ==
  IF n = 0
  THEN [l EXCEPT !.next[p] = p, !.prev[p] = p]
  ELSE [l EXCEPT !.next[p] = h, !.prev[p] = l.prev[h],
                 !.next[l.prev[h]] = p, !.prev[h] = p]

HeadOf(p, h, n) == IF n = 0 THEN p ELSE h

(* What a freed page held is gone. *)
Forget(l, p) == [l EXCEPT !.next[p] = NoPage, !.prev[p] = NoPage]

-----------------------------------------------------------------------------
(* Allocate *)

Pop(p) ==
  /\ freeCells' = [freeCells EXCEPT ![p] = SubSeq(@, 1, Len(@) - 1)]
  /\ live' = live \cup {<<p, freeCells[p][Len(freeCells[p])]>>}

AllocateFromPage ==
  /\ health = "ok" /\ mUsablePagesSize > 0
  /\ Len(freeCells[usablePage]) > 1
  /\ Pop(usablePage)
  /\ UNCHANGED <<usablePage, unUsablePage, mUsablePagesSize, mUnUsablePagesSize,
                 link, inUse, health>>

(* The last free cell of the head: the page moves to the other list. *)
AllocateLastOfPage ==
  /\ health = "ok" /\ mUsablePagesSize > 0
  /\ Len(freeCells[usablePage]) = 1
  /\ Pop(usablePage)
  /\ mUsablePagesSize' = mUsablePagesSize - 1
  /\ usablePage' = link.next[usablePage]
  /\ link' = Appended(Unlinked(link, usablePage), usablePage, unUsablePage, mUnUsablePagesSize)
  /\ unUsablePage' = HeadOf(usablePage, unUsablePage, mUnUsablePagesSize)
  /\ mUnUsablePagesSize' = mUnUsablePagesSize + 1
  /\ UNCHANGED <<inUse, health>>

(* No usable page is left: malloc and InitPage. *)
AllocateNewPage ==
  /\ health = "ok" /\ mUsablePagesSize = 0
  /\ \E p \in Pages \ inUse :
       /\ usablePage' = p
       /\ mUsablePagesSize' = 1
       /\ link' = Appended(link, p, p, 0)
       /\ inUse' = inUse \cup {p}
       /\ freeCells' = [freeCells EXCEPT ![p] = [i \in 1 .. CELLS_SIZE_PER_PAGE - 1 |-> i]]
       /\ live' = live \cup {<<p, CELLS_SIZE_PER_PAGE>>}
  /\ UNCHANGED <<unUsablePage, mUnUsablePagesSize, health>>

(* No memory for the page: 0 is returned and the caller tries again. *)
NoMemoryForPage ==
  /\ health = "ok" /\ mUsablePagesSize = 0
  /\ usablePage' = NoPage
  /\ UNCHANGED <<unUsablePage, mUsablePagesSize, mUnUsablePagesSize,
                 link, freeCells, inUse, live, health>>

(* Memory for the page but not for its arrays: the size is 1 already. *)
InitPageFails ==
  /\ health = "ok" /\ mUsablePagesSize = 0
  /\ \E p \in Pages \ inUse : usablePage' = p /\ inUse' = inUse \cup {p}
  /\ mUsablePagesSize' = 1
  /\ health' = "raw"
  /\ UNCHANGED <<unUsablePage, mUnUsablePagesSize, link, freeCells, live>>

(* The retry takes freeCells[--freeCellsSize] of the page that has neither, *)
(* and returns whatever is there: any cell, also one that somebody has.     *)
AllocateFromRawPage ==
  /\ health = "raw"
  /\ health' = "undefined"
  /\ \E c \in Cells : live' = live \cup {c}
  /\ UNCHANGED <<usablePage, unUsablePage, mUsablePagesSize, mUnUsablePagesSize,
                 link, freeCells, inUse>>

-----------------------------------------------------------------------------
(* Reclaim of a cell the caller has. *)

Push(p, c) ==
  /\ <<p, c>> \in live
  /\ freeCells' = [freeCells EXCEPT ![p] = Append(@, c)]
  /\ live' = live \ {<<p, c>>}

(* The page had no free cell: it moves to the end of the usable list. *)
ReclaimToFullPage(p, c) ==
  /\ health = "ok"
  /\ freeCells[p] = <<>>
  /\ Push(p, c)
  /\ mUnUsablePagesSize' = mUnUsablePagesSize - 1
  /\ unUsablePage' = IF mUnUsablePagesSize > 1 /\ p = unUsablePage
                     THEN link.next[p] ELSE unUsablePage
  /\ link' = Appended(Unlinked(link, p), p, usablePage, mUsablePagesSize)
  /\ usablePage' = HeadOf(p, usablePage, mUsablePagesSize)
  /\ mUsablePagesSize' = mUsablePagesSize + 1
  /\ UNCHANGED <<inUse, health>>

(* Whether a page with one more free cell is freed. *)
IsSurplusByCount(p) ==
  mUsablePagesSize > MAX_FREE_PAGES

IsSurplusLate(p) ==
  Len(freeCells[p]) + 1 = CELLS_SIZE_PER_PAGE /\ mUsablePagesSize > MAX_FREE_PAGES + 1

IsSurplus(p) ==
  Len(freeCells[p]) + 1 = CELLS_SIZE_PER_PAGE /\ mUsablePagesSize > MAX_FREE_PAGES

ReclaimToPage(p, c) ==
  /\ health = "ok"
  /\ freeCells[p] # <<>> /\ ~IsSurplus(p)
  /\ Push(p, c)
  /\ UNCHANGED <<usablePage, unUsablePage, mUsablePagesSize, mUnUsablePagesSize,
                 link, inUse, health>>

ReclaimAndFreePage(p, c) ==
  /\ health = "ok"
  /\ freeCells[p] # <<>> /\ IsSurplus(p)
  /\ <<p, c>> \in live
  /\ live' = live \ {<<p, c>>}
  /\ freeCells' = [freeCells EXCEPT ![p] = <<>>]
  /\ usablePage' = IF p = usablePage THEN link.next[p] ELSE usablePage
  /\ link' = Forget(Unlinked(link, p), p)
  /\ mUsablePagesSize' = mUsablePagesSize - 1
  /\ inUse' = inUse \ {p}
  /\ UNCHANGED <<unUsablePage, mUnUsablePagesSize, health>>

-----------------------------------------------------------------------------
(* The pages met by following next from h, at most n of them. *)
Walk(h, n) ==
  LET at[i \in 0 .. n - 1] == IF i = 0 THEN h ELSE link.next[at[i - 1]]
  IN  IF n = 0 THEN {} ELSE {at[i] : i \in 0 .. n - 1}

(* Both lists are walked and freed, whoever has their cells; the heads stay. *)
Clear ==
  /\ health = "ok"
  /\ LET freed == Walk(usablePage, mUsablePagesSize)
                    \cup Walk(unUsablePage, mUnUsablePagesSize)
     IN  /\ inUse' = inUse \ freed
         /\ freeCells' = [p \in Pages |-> IF p \in freed THEN <<>> ELSE freeCells[p]]
         /\ link' = [next |-> [p \in Pages |-> IF p \in freed THEN NoPage ELSE link.next[p]],
                     prev |-> [p \in Pages |-> IF p \in freed THEN NoPage ELSE link.prev[p]]]
  /\ mUsablePagesSize' = 0 /\ mUnUsablePagesSize' = 0
  /\ live' = {}
  /\ UNCHANGED <<usablePage, unUsablePage, health>>

-----------------------------------------------------------------------------
Allocate == \/ AllocateFromPage \/ AllocateLastOfPage \/ AllocateNewPage
            \/ NoMemoryForPage \/ InitPageFails \/ AllocateFromRawPage

Reclaim == \E p \in Pages, c \in CellNumbers :
             ReclaimToFullPage(p, c) \/ ReclaimToPage(p, c) \/ ReclaimAndFreePage(p, c)

Next == Allocate \/ Reclaim \/ Clear

Spec == Init /\ [][Next]_vars

-----------------------------------------------------------------------------
(* Properties *)

(* The list of size n with head h is a ring of exactly the pages in S. *)
IsRing(h, n, S) ==
  /\ n = Cardinality(S)
  /\ Walk(h, n) = S
  /\ \A p \in S : link.next[p] \in S /\ link.prev[link.next[p]] = p

(* A page is on the list its number of free cells calls for, the recorded  *)
(* sizes are right, both lists are closed in both directions, and no freed *)
(* page is on one: pages move, are freed and are cleared in any order, and *)
(* nothing but these lists finds a page again (JackieMemoryPool.h 116-136, *)
(* 163-187, 201-208).                                                      *)
ListsExact ==
  health = "ok" =>
    /\ IsRing(usablePage, mUsablePagesSize, {p \in inUse : freeCells[p] # <<>>})
    /\ IsRing(unUsablePage, mUnUsablePagesSize, {p \in inUse : freeCells[p] = <<>>})

(* A cell is free or handed out, never both, and a page that is kept has   *)
(* all its cells accounted for: nothing leaks however long the pool runs.  *)
CellsAccounted ==
  health = "ok" => \A p \in inUse, c \in CellNumbers :
    Cardinality({i \in 1 .. Len(freeCells[p]) : freeCells[p][i] = c})
      = IF <<p, c>> \in live THEN 0 ELSE 1

(* The lists and the cells on their pages are right after any sequence of  *)
(* allocations, reclaims and clears.                                       *)
PoolExact == TypeOK /\ ListsExact /\ CellsAccounted

(* "After a certain point, just deallocate empty pages rather than keep    *)
(* them around" (line 199): although only the page that gets its last cell *)
(* back is looked at, never more than MAX_FREE_PAGES empty ones are kept.  *)
EmptyPagesBounded ==
  health = "ok" => Cardinality({p \in inUse : IsEmpty(p)}) <= MAX_FREE_PAGES

(* The pool is an allocator: no cell is handed out twice, none outside the *)
(* memory the pool has, and no page is freed while the caller has one of   *)
(* its cells (except by Clear).  The one step that is not an allocator's   *)
(* is the retry after a failed InitPage (line 115).                        *)
Initialised == IF health = "ok" THEN inUse ELSE inUse \ {usablePage}

Allocator == INSTANCE CellAllocator WITH backed <- Initialised \X CellNumbers

ImplementsAllocator ==
  Allocator!Init /\ [][health' # "undefined" => Allocator!Next]_(Allocator!vars)
=============================================================================
