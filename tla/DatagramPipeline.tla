-------------------------- MODULE DatagramPipeline --------------------------
(***************************************************************************)
(* How a datagram travels from a receive thread to the network thread and  *)
(* how its buffer travels back (src/geco_application.cpp).                 *)
(*                                                                         *)
(* Each bound socket has a receive thread (RunRecvCycleOnce), a pool of    *)
(* recv_params_t buffers, a queue allocRecvParamQ to the network thread    *)
(* and a queue deAllocRecvParamQ back.  "Who alloc who dealloc": only the  *)
(* receive thread touches its pool, so the pool needs no lock.  The single *)
(* network thread polls the sockets in turn (ProcessAllocJISRecvParamsQ).  *)
(*                                                                         *)
(* Both queues are JackieSPSCQueues, used here as the bounded FIFOs that   *)
(* module SPSCQueue shows them to be: a push on a full queue spins, which  *)
(* is a step that is not enabled.  The waits of the network thread between *)
(* two cycles end by themselves after 10 ms and are not shown.             *)
(*                                                                         *)
(* The datagrams of a socket are numbered 1, 2, .., Numbers, 1, .. so that *)
(* a behaviour may receive any number of them.  A datagram is forgotten    *)
(* once it has been processed.                                             *)
(***************************************************************************)
EXTENDS Naturals, Sequences, FiniteSets

CONSTANTS
  NSockets,   \* bindedSockets.Size()
  Cap,        \* capacity of each queue, in pointers
  Cells,      \* buffers a pool may have handed out at once (bound)
  Numbers,    \* the largest datagram number
  NoBuffer    \* null pointer

ASSUME PipelineAssumption ==
  /\ NSockets \in Nat \ {0} /\ Cap \in Nat \ {0}
  /\ Cells # {} /\ IsFiniteSet(Cells)
  /\ Numbers \in Nat /\ Numbers > 1

Sockets == 0 .. NSockets - 1

Successor(n) == (n % Numbers) + 1

\* A buffer belongs to the pool of the socket it was allocated for.
Buffers == Sockets \X Cells
Pool(s) == {s} \X Cells

ASSUME NoBufferAssumption == NoBuffer \notin Buffers

VARIABLES
  free,              \* free[s]: buffers in JISRecvParamsPool[s]
  allocRecvParamQ,   \* receive thread -> network thread
  deAllocRecvParamQ, \* network thread -> receive thread
  lost,              \* buffers pushed to a queue that does not exist
  datagram,          \* datagram[p]: what RecvFrom wrote into buffer p
  arrived,           \* arrived[s]: number of the last datagram received
  rpc, rindex, rbuf, \* receive threads: step, ReclaimAll's index, recvParams
  hbuf,              \* hbuf[s]: what incomeDatagramEventHandler was called with
  npc, outter, inner, nbuf, \* network thread: step, loop indices, recvParams
  processed          \* processed[s]: number of the last datagram processed

recvVars == <<free, datagram, arrived, rpc, rindex, rbuf, hbuf>>
netVars == <<npc, outter, inner, nbuf, processed, lost>>
vars == <<recvVars, netVars, allocRecvParamQ, deAllocRecvParamQ>>

Init ==
  /\ free = [s \in Sockets |-> Pool(s)]
  /\ allocRecvParamQ = [s \in Sockets |-> <<>>]
  /\ deAllocRecvParamQ = [s \in Sockets |-> <<>>]
  /\ lost = {}
  /\ datagram = [p \in Buffers |-> 0]
  /\ arrived = [s \in Sockets |-> 0]
  /\ processed = [s \in Sockets |-> 0]
  /\ rpc = [s \in Sockets |-> "reclaim"]
  /\ rindex = [s \in Sockets |-> 0]
  /\ rbuf = [s \in Sockets |-> NoBuffer]
  /\ hbuf = [s \in Sockets |-> NoBuffer]
  /\ npc = "poll" /\ outter = 0 /\ inner = 0 /\ nbuf = NoBuffer

-----------------------------------------------------------------------------
(* Receive thread s: RunRecvCycleOnce(s), over and over.                   *)

\* One round of ReclaimAllJISRecvParams: the loop compares its index with the
\* size that is left, so a pass returns only half of what was queued.
ReclaimNothing(s) ==
  /\ rpc[s] = "reclaim"
  /\ rindex[s] < Len(deAllocRecvParamQ[s])
  /\ rindex' = [rindex EXCEPT ![s] = @ + 1]
  /\ UNCHANGED <<free, datagram, arrived, rpc, rbuf, hbuf, allocRecvParamQ,
                 deAllocRecvParamQ, netVars>>

ReclaimAllJISRecvParams(s) ==
  /\ rpc[s] = "reclaim"
  /\ rindex[s] < Len(deAllocRecvParamQ[s])
  /\ LET p == Head(deAllocRecvParamQ[s]) IN
       free' = [free EXCEPT ![s] = @ \cup {p}]
  /\ deAllocRecvParamQ' = [deAllocRecvParamQ EXCEPT ![s] = Tail(@)]
  /\ rindex' = [rindex EXCEPT ![s] = @ + 1]
  /\ UNCHANGED <<datagram, arrived, rpc, rbuf, hbuf, allocRecvParamQ, netVars>>

\* The loop ends; AllocJISRecvParams takes a buffer (and retries without one).
AllocJISRecvParams(s) ==
  /\ rpc[s] = "reclaim"
  /\ rindex[s] >= Len(deAllocRecvParamQ[s])
  /\ \E p \in free[s] :
       /\ free' = [free EXCEPT ![s] = @ \ {p}]
       /\ rbuf' = [rbuf EXCEPT ![s] = p]
  /\ rindex' = [rindex EXCEPT ![s] = 0]
  /\ rpc' = [rpc EXCEPT ![s] = "recv"]
  /\ UNCHANGED <<datagram, arrived, hbuf, allocRecvParamQ, deAllocRecvParamQ, netVars>>

\* RecvFrom returns a datagram.
RecvFrom(s) ==
  /\ rpc[s] = "recv"
  /\ arrived' = [arrived EXCEPT ![s] = Successor(@)]
  /\ datagram' = [datagram EXCEPT ![rbuf[s]] = arrived'[s]]
  /\ rpc' = [rpc EXCEPT ![s] = "push"]
  /\ UNCHANGED <<free, rindex, rbuf, hbuf, allocRecvParamQ, deAllocRecvParamQ, netVars>>

\* RecvFrom fails or returns nothing: the buffer goes straight to the pool.
RecvFromFails(s) ==
  /\ rpc[s] = "recv"
  /\ free' = [free EXCEPT ![s] = @ \cup {rbuf[s]}]
  /\ rbuf' = [rbuf EXCEPT ![s] = NoBuffer]
  /\ rpc' = [rpc EXCEPT ![s] = "reclaim"]
  /\ UNCHANGED <<datagram, arrived, rindex, hbuf, allocRecvParamQ, deAllocRecvParamQ,
                 netVars>>

\* allocRecvParamQ[s].PushTail(recvParams): spins while the queue is full.  The
\* thread keeps the pointer for the call of the handler.
PushAndReclaim(s) ==
  /\ rpc[s] = "push"
  /\ Len(allocRecvParamQ[s]) < Cap
  /\ allocRecvParamQ' = [allocRecvParamQ EXCEPT ![s] = Append(@, rbuf[s])]
  /\ free' = [free EXCEPT ![s] = @ \cup {rbuf[s]}]
  /\ hbuf' = [hbuf EXCEPT ![s] = rbuf[s]]
  /\ rbuf' = [rbuf EXCEPT ![s] = NoBuffer]
  /\ rpc' = [rpc EXCEPT ![s] = "notify"]
  /\ UNCHANGED <<datagram, arrived, rindex, deAllocRecvParamQ, netVars>>

PushRecvParams(s) ==
  /\ rpc[s] = "push"
  /\ Len(allocRecvParamQ[s]) < Cap
  /\ allocRecvParamQ' = [allocRecvParamQ EXCEPT ![s] = Append(@, rbuf[s])]
  /\ hbuf' = [hbuf EXCEPT ![s] = rbuf[s]]
  /\ rbuf' = [rbuf EXCEPT ![s] = NoBuffer]
  /\ rpc' = [rpc EXCEPT ![s] = "notify"]
  /\ UNCHANGED <<free, datagram, arrived, rindex, deAllocRecvParamQ, netVars>>

\* incomeDatagramEventHandler(recvParams), which the user may set, returns; it
\* may have looked at the buffer until now.
IncomeDatagramEventHandler(s) ==
  /\ rpc[s] = "notify"
  /\ hbuf' = [hbuf EXCEPT ![s] = NoBuffer]
  /\ rpc' = [rpc EXCEPT ![s] = "reclaim"]
  /\ UNCHANGED <<free, datagram, arrived, rindex, rbuf, allocRecvParamQ,
                 deAllocRecvParamQ, netVars>>

-----------------------------------------------------------------------------
(* Network thread: ProcessAllocJISRecvParamsQ.                             *)

\* Pop the next buffer of socket outter and process its datagram.
ProcessLast ==
  /\ npc = "poll"
  /\ inner < Len(allocRecvParamQ[outter])
  /\ LET n == Len(allocRecvParamQ[outter]) IN
       /\ nbuf' = allocRecvParamQ[outter][n]
       /\ allocRecvParamQ' = [allocRecvParamQ EXCEPT ![outter] = SubSeq(@, 1, n - 1)]
  /\ processed' = [processed EXCEPT ![outter] = datagram[nbuf']]
  /\ datagram' = [datagram EXCEPT ![nbuf'] = 0]
  /\ npc' = "reclaim"
  /\ UNCHANGED <<outter, inner, lost, deAllocRecvParamQ, free, arrived, rpc, rindex,
                 rbuf, hbuf>>

ProcessOneRecvParam ==
  /\ npc = "poll"
  /\ inner < Len(allocRecvParamQ[outter])
  /\ nbuf' = Head(allocRecvParamQ[outter])
  /\ allocRecvParamQ' = [allocRecvParamQ EXCEPT ![outter] = Tail(@)]
  /\ processed' = [processed EXCEPT ![outter] = datagram[nbuf']]
  /\ datagram' = [datagram EXCEPT ![nbuf'] = 0]
  /\ npc' = "reclaim"
  /\ UNCHANGED <<outter, inner, lost, deAllocRecvParamQ, free, arrived, rpc, rindex,
                 rbuf, hbuf>>

\* ReclaimOneJISRecvParams(recvParams, inner): the buffer goes to the queue
\* whose number is the loop index, not the socket.
ReclaimOneJISRecvParams ==
  /\ npc = "reclaim"
  /\ inner \in Sockets
  /\ Len(deAllocRecvParamQ[inner]) < Cap
  /\ deAllocRecvParamQ' = [deAllocRecvParamQ EXCEPT ![inner] = Append(@, nbuf)]
  /\ nbuf' = NoBuffer
  /\ inner' = inner + 1
  /\ npc' = "poll"
  /\ UNCHANGED <<outter, processed, lost, allocRecvParamQ, recvVars>>

\* No queue has that number: the push writes past the array.  If it returns at
\* all, no thread will ever find the buffer.
ReclaimPastTheQueues ==
  /\ npc = "reclaim"
  /\ inner \notin Sockets
  /\ lost' = lost \cup {nbuf}
  /\ nbuf' = NoBuffer
  /\ inner' = inner + 1
  /\ npc' = "poll"
  /\ UNCHANGED <<outter, processed, allocRecvParamQ, deAllocRecvParamQ, recvVars>>

\* The same push, when the bytes past the array make it crash or never return.
ReclaimNeverReturns ==
  /\ npc = "reclaim"
  /\ inner \notin Sockets
  /\ npc' = "stuck"
  /\ UNCHANGED <<outter, inner, nbuf, processed, lost, allocRecvParamQ,
                 deAllocRecvParamQ, recvVars>>

\* The inner loop is over: next socket, or the next cycle.
NextSocket ==
  /\ npc = "poll"
  /\ inner >= Len(allocRecvParamQ[outter])
  /\ outter' = (outter + 1) % NSockets
  /\ inner' = 0
  /\ UNCHANGED <<npc, nbuf, processed, lost, allocRecvParamQ, deAllocRecvParamQ, recvVars>>

-----------------------------------------------------------------------------
Receiver(s) ==
  \/ ReclaimAllJISRecvParams(s) \/ AllocJISRecvParams(s)
  \/ RecvFrom(s) \/ RecvFromFails(s) \/ PushRecvParams(s)
  \/ IncomeDatagramEventHandler(s)

Network ==
  \/ ProcessOneRecvParam \/ ReclaimOneJISRecvParams
  \/ ReclaimPastTheQueues \/ ReclaimNeverReturns \/ NextSocket

Next == Network \/ \E s \in Sockets : Receiver(s)

Spec == Init /\ [][Next]_vars

\* Every thread runs and the user's handler returns; RecvFrom alone may block for
\* ever, when nothing arrives.
FairSpec ==
  /\ Spec
  /\ WF_vars(Network)
  /\ \A s \in Sockets :
       WF_vars(\/ ReclaimAllJISRecvParams(s) \/ AllocJISRecvParams(s)
               \/ PushRecvParams(s) \/ IncomeDatagramEventHandler(s))

-----------------------------------------------------------------------------
InQueue(queue, p) == \E i \in DOMAIN queue : queue[i] = p
Indices(queue, p) == {i \in DOMAIN queue : queue[i] = p}

\* The pools, queues and pointers of the three kinds of owner are what the
\* code declares them to be.
TypeOK ==
  /\ free \in [Sockets -> SUBSET Buffers]
  /\ allocRecvParamQ \in [Sockets -> Seq(Buffers)]
  /\ deAllocRecvParamQ \in [Sockets -> Seq(Buffers)]
  /\ \A s \in Sockets : Len(allocRecvParamQ[s]) <= Cap /\ Len(deAllocRecvParamQ[s]) <= Cap
  /\ datagram \in [Buffers -> 0 .. Numbers]
  /\ arrived \in [Sockets -> 0 .. Numbers]
  /\ processed \in [Sockets -> 0 .. Numbers]
  /\ rpc \in [Sockets -> {"reclaim", "recv", "push", "notify"}]
  /\ rindex \in [Sockets -> 0 .. Cap]
  /\ rbuf \in [Sockets -> Buffers \cup {NoBuffer}]
  /\ hbuf \in [Sockets -> Buffers \cup {NoBuffer}]
  /\ npc \in {"poll", "reclaim", "stuck"}
  /\ outter \in Sockets /\ inner \in Nat
  /\ nbuf \in Buffers \cup {NoBuffer}
  /\ lost \in SUBSET Buffers

\* Where buffer p is: a set with one member for each owner of p.
Owners(p) ==
  {<<"pool", s>> : s \in {t \in Sockets : p \in free[t]}}
    \cup {<<"recv", s>> : s \in {t \in Sockets : rbuf[t] = p}}
    \cup {<<"net", 0>> : x \in {nbuf} \cap {p}}
    \cup (UNION {{<<"alloc", s, i>> : i \in Indices(allocRecvParamQ[s], p)} : s \in Sockets})
    \cup (UNION {{<<"dealloc", s, i>> : i \in Indices(deAllocRecvParamQ[s], p)} : s \in Sockets})

\* A buffer that was not lost has exactly one owner at any time: RecvFrom never
\* writes into a buffer that is still queued for, or held by, the network thread.
\* incomeDatagramEventHandler is not an owner: it is called after the push (2681
\* to 2687) and looks at a buffer that another thread may have by then; all that
\* holds is that its own thread does not fill the buffer again meanwhile.
OneOwner ==
  /\ TypeOK
  /\ \A p \in Buffers : Cardinality(Owners(p)) = IF p \in lost THEN 0 ELSE 1
  /\ \A s \in Sockets : hbuf[s] \notin free[s] \cup ({rbuf[s]} \ {NoBuffer})

\* Datagrams of one socket are processed in the order of their arrival, and
\* none is skipped or processed twice.
InOrder ==
  [][\A s \in Sockets :
       processed'[s] # processed[s] => processed'[s] = Successor(processed[s])]_vars

\* Apart from the buffers lost for good, of which there may be any number, a pool
\* never has more than Cap + 2 buffers out with one socket: although a reclaim
\* pass returns only half of the queue, what is left does not accumulate.
BufferDemand ==
  \A s \in Sockets : Cardinality(Pool(s) \ (free[s] \cup lost)) <= Cap + 2

\* "recv thread will pop this ptr out from bufferedDeallocatedRecvParamQueue
\* and use this ptr to deallocate" (geco_application.h): a buffer returns to
\* the thread that allocated it.
ReturnsToItsThread ==
  /\ lost = {}
  /\ \A s \in Sockets : \A p \in Buffers :
       InQueue(deAllocRecvParamQ[s], p) => p \in Pool(s)

\* Every datagram the receive thread queued is processed, also when no other
\* datagram ever arrives, unless a push past the array stops the network thread.
\* With one socket: with two the network thread may also spin on a full return
\* queue (see ThreadLifecycle).
QueuedIsProcessed ==
  \A s \in Sockets : \A n \in 1 .. Numbers :
    (\E i \in DOMAIN allocRecvParamQ[s] : datagram[allocRecvParamQ[s][i]] = n)
      ~> (processed[s] = n \/ npc = "stuck")
=============================================================================
