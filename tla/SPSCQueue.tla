----------------------------- MODULE SPSCQueue -----------------------------
(***************************************************************************)
(* JackieSPSCQueue (include/JackieSPSCQueue.h): the lock-free ring the     *)
(* user, receive and network threads hand pooled pointers through.  One    *)
(* thread pushes, one thread pops, and neither takes a lock: the ring is   *)
(* correct only because of the order in which an index is sampled, the     *)
(* bytes are copied and the other index is published, which the code fixes *)
(* with memory barriers.  Every piece between two barriers is one action.  *)
(*                                                                         *)
(* Units.  The code counts bytes; every queue of the program holds         *)
(* pointers, whose size divides the power of two m_nSize, so an index is   *)
(* always a multiple of m_ElementSize and the partial copies of the        *)
(* while-loops never happen.  Here an index counts elements: it runs       *)
(* modulo Wrap = 2^32 / m_ElementSize and the ring has                     *)
(* Cap = m_nSize / m_ElementSize cells.                                    *)
(***************************************************************************)
EXTENDS Integers, Sequences

CONSTANTS Elem,   \* the elements: pointers to pooled objects
          Cap,    \* cells of the ring
          Wrap    \* indices are unsigned and wrap at this value

\* m_nSize and 2^32 are powers of two and m_nSize is the smaller one.
ASSUME SizesAssumption ==
  /\ Cap \in Nat \ {0}
  /\ Wrap \in Nat /\ Wrap > Cap /\ Wrap % Cap = 0

ASSUME ElemAssumption == Elem # {}

VARIABLES
  m_pBuffer,  \* the cells
  m_nIn,      \* where the producer writes next
  m_nOut,     \* where the consumer reads next
  ppc,        \* producer: "idle", or how far PushTail is
  pushing,    \* PushTail's argument
  cpc,        \* consumer: "idle", or how far PopHead is
  popped      \* PopHead's result

vars == <<m_pBuffer, m_nIn, m_nOut, ppc, pushing, cpc, popped>>

\* Unsigned subtraction and increment of indices.
Minus(a, b) == (a - b) % Wrap
Inc(a) == (a + 1) % Wrap

\* m_nIn & (m_nSize - 1)
Cell(i) == i % Cap

\* What Size() returns, and the free cells PushTail computes.
SizeSigned == m_nIn - m_nOut
Size == Minus(m_nIn, m_nOut)

FreeOffByOne == (Cap + 1 - m_nIn + m_nOut) % Wrap
Free == (Cap - m_nIn + m_nOut) % Wrap

Init ==
  /\ m_pBuffer \in [0 .. Cap - 1 -> Elem]
  /\ m_nIn = 0 /\ m_nOut = 0
  /\ ppc = "idle" /\ cpc = "idle"
  /\ pushing \in Elem /\ popped \in Elem

(***************************************************************************)
(* PushTail(e), on the producer's thread.  With no free cell the loop      *)
(* copies nothing and samples again, so the sampling step waits.           *)
(***************************************************************************)
PushTail(e) ==
  /\ ppc = "idle"
  /\ ppc' = "sample" /\ pushing' = e
  /\ UNCHANGED <<m_pBuffer, m_nIn, m_nOut, cpc, popped>>

PushSample ==
  /\ ppc = "sample"
  /\ Free > 0
  /\ ppc' = "copy"
  /\ UNCHANGED <<m_pBuffer, m_nIn, m_nOut, pushing, cpc, popped>>

PushCopy ==
  /\ ppc = "copy"
  /\ m_pBuffer' = [m_pBuffer EXCEPT ![Cell(m_nIn)] = pushing]
  /\ ppc' = "publish"
  /\ UNCHANGED <<m_nIn, m_nOut, pushing, cpc, popped>>

PushPublish ==
  /\ ppc = "publish"
  /\ m_nIn' = Inc(m_nIn)
  /\ ppc' = "idle"
  /\ UNCHANGED <<m_pBuffer, m_nOut, pushing, cpc, popped>>

(***************************************************************************)
(* PopHead, on the consumer's thread.  Every caller tests Size() first.    *)
(***************************************************************************)
PopHeadUnchecked ==
  /\ cpc = "idle"
  /\ cpc' = "sample"
  /\ UNCHANGED <<m_pBuffer, m_nIn, m_nOut, ppc, pushing, popped>>

PopHead ==
  /\ cpc = "idle"
  /\ Size > 0
  /\ cpc' = "sample"
  /\ UNCHANGED <<m_pBuffer, m_nIn, m_nOut, ppc, pushing, popped>>

PopSample ==
  /\ cpc = "sample"
  /\ Size > 0
  /\ cpc' = "copy"
  /\ UNCHANGED <<m_pBuffer, m_nIn, m_nOut, ppc, pushing, popped>>

PopCopy ==
  /\ cpc = "copy"
  /\ popped' = m_pBuffer[Cell(m_nOut)]
  /\ cpc' = "publish"
  /\ UNCHANGED <<m_pBuffer, m_nIn, m_nOut, ppc, pushing>>

PopPublish ==
  /\ cpc = "publish"
  /\ m_nOut' = Inc(m_nOut)
  /\ cpc' = "idle"
  /\ UNCHANGED <<m_pBuffer, m_nIn, ppc, pushing, popped>>

Producer == (\E e \in Elem : PushTail(e)) \/ PushSample \/ PushCopy \/ PushPublish
Consumer == PopHead \/ PopSample \/ PopCopy \/ PopPublish

Next == Producer \/ Consumer

Spec == Init /\ [][Next]_vars

\* Both threads run loops without end: the consumer keeps polling Size().
FairSpec ==
  /\ Spec
  /\ WF_vars(PushSample \/ PushCopy \/ PushPublish)
  /\ WF_vars(Consumer)

-----------------------------------------------------------------------------
Steps == {"idle", "sample", "copy", "publish"}

\* The ring keeps its shape: indices stay unsigned and below Wrap.
TypeOK ==
  /\ m_pBuffer \in [0 .. Cap - 1 -> Elem]
  /\ m_nIn \in 0 .. Wrap - 1
  /\ m_nOut \in 0 .. Wrap - 1
  /\ ppc \in Steps /\ cpc \in Steps
  /\ pushing \in Elem /\ popped \in Elem

\* The two memcpys never touch the same cell at the same time, although
\* neither thread holds a lock (PushTail and PopHead, JackieSPSCQueue.h).
NoCopyRace ==
  ppc = "copy" /\ cpc = "copy" => Cell(m_nIn) # Cell(m_nOut)

\* A consumer that saw Size() > 0 never spins in PopHead, whatever the
\* producer does in between: every caller relies on it.
PopNeverSpins == cpc = "sample" => Size > 0

\* The strengthening from which the others follow: the ring never holds more
\* than Cap elements, a producer past its sampling step owns a free cell, and
\* a consumer past its sampling step owns a full one.
RingInv ==
  /\ TypeOK
  /\ Size <= Cap
  /\ ppc \in {"copy", "publish"} => Size < Cap
  /\ ppc = "publish" => m_pBuffer[Cell(m_nIn)] = pushing
  /\ cpc # "idle" => Size > 0
  /\ cpc = "publish" => popped = m_pBuffer[Cell(m_nOut)]

\* The elements in the ring, oldest first.
Window(buf, out, n) == [i \in 1 .. n |-> buf[Cell(out + i - 1)]]
Contents == Window(m_pBuffer, m_nOut, Size)

FIFO == INSTANCE BoundedFIFO WITH
  q   <- IF cpc = "publish" THEN Tail(Contents) ELSE Contents,
  got <- popped

\* The ring is a bounded FIFO: a push takes effect when m_nIn is published,
\* a pop when the element has been copied out.  Nothing is lost, repeated,
\* reordered or overwritten, also after the indices wrap.
ImplementsFIFO == FIFO!Spec

\* "will walways return true" (JackieSPSCQueue.h:38): a push returns, as
\* long as the consumer keeps popping.
PushReturns == ppc # "idle" ~> ppc = "idle"
=============================================================================
