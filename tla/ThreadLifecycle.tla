--------------------------- MODULE ThreadLifecycle ---------------------------
(***************************************************************************)
(* Starting and stopping an application (src/geco_application.cpp): the    *)
(* user thread in startup, stop_recv_thread, stop_network_update_thread    *)
(* and reclaim_instance, a receive thread for each bound socket            *)
(* (RunRecvCycleLoop) and the network thread (RunNetworkUpdateCycleLoop).  *)
(*                                                                         *)
(* The threads share three words without a lock: endThreads, which every   *)
(* loop tests, isRecvPollingThreadActive, which a receive thread           *)
(* increments when it begins and decrements when it leaves, and            *)
(* isNetworkUpdateThreadActive.  One access to one of them is one step.    *)
(*                                                                         *)
(* A receive thread blocks in RecvFrom, so stop_recv_thread sends          *)
(* datagrams to the thread's own socket to wake it, and gives up after a   *)
(* second (a step that may happen at any time).  What it receives it       *)
(* pushes, and a push spins while the queue is full.  The network thread's *)
(* wait between two cycles ends by itself (WaitEvent(10)).  A cycle takes  *)
(* the first half of each queue and pushes every buffer to a return queue, *)
(* which may be that of another thread (see DatagramPipeline).  Only the   *)
(* lengths of the queues are kept here.                                    *)
(*                                                                         *)
(* startup never empties bindedSockets: what an earlier call put there is  *)
(* freed again and used.  The model follows the program until it uses a    *)
(* freed object ("undefined") and not further.  Sockets are blocking, the  *)
(* default.  The operating system is external: a socket may not be bound,  *)
(* for a while or for ever, and threads may fail to be created.            *)
(***************************************************************************)
EXTENDS Naturals, Sequences

CONSTANTS
  NSockets,     \* bindLocalSocketsCount
  Cap,          \* capacity of allocRecvParamQ and deAllocRecvParamQ
  MaxInbox,     \* datagrams a socket buffers (bound)
  MaxStarts     \* calls of startup that get past the first test (bound)

ASSUME LifecycleAssumption ==
  /\ NSockets \in Nat \ {0} /\ Cap \in Nat \ {0}
  /\ MaxInbox \in Nat \ {0} /\ MaxStarts \in Nat \ {0}

Sockets == 1 .. NSockets

VARIABLES
  endThreads, isNetworkUpdateThreadActive, isRecvPollingThreadActive,
  bindedSockets,   \* what each element points to: "open", "freed" or "twice" freed
  unbindable,      \* sockets that socket() or bind() fails for
  inbox,           \* datagrams in each socket's buffer
  queue, back,     \* length of each allocRecvParamQ and deAllocRecvParamQ
  rindex,          \* per socket, the index of ReclaimAllJISRecvParams
  outter, inner,   \* loop indices of the network thread, counted from 1
  recv,            \* per socket, where its receive thread is
  net,             \* where the network thread is
  user,            \* where the user thread is
  at,              \* the socket its loop is at
  starts,          \* calls of startup that got past the first test
  stops,           \* the stop functions that have returned
  gaveUp,          \* whether stop_recv_thread gave up at its last socket
  late,            \* receive threads that had not begun when it was called
  notCreated       \* whether a thread could not be created

vars == <<endThreads, isNetworkUpdateThreadActive, isRecvPollingThreadActive,
          bindedSockets, unbindable, inbox, queue, back, rindex, outter, inner,
          recv, net, user, at, starts, stops, gaveUp, late, notCreated>>

words == <<endThreads, isNetworkUpdateThreadActive, isRecvPollingThreadActive>>
flow == <<queue, back, rindex, outter, inner>>
history == <<starts, stops, gaveUp, late, notCreated>>

InStartup == {"bind", "threads", "wait recv", "create net", "wait net"}

TypeOK ==
  /\ endThreads \in BOOLEAN /\ isNetworkUpdateThreadActive \in BOOLEAN
  /\ isRecvPollingThreadActive \in 0 .. NSockets
  /\ bindedSockets \in Seq({"open", "freed", "twice"})
  /\ Len(bindedSockets) <= NSockets * MaxStarts
  /\ unbindable \subseteq Sockets
  /\ inbox \in [Sockets -> 0 .. MaxInbox]
  /\ queue \in [Sockets -> 0 .. Cap] /\ back \in [Sockets -> 0 .. Cap]
  /\ rindex \in [Sockets -> 0 .. Cap]
  /\ outter \in Sockets /\ inner \in Nat \ {0}
  /\ recv \in [Sockets -> {"none", "created", "test", "reclaim", "receive", "push",
                          "leave", "ended"}]
  /\ net \in {"none", "created", "test", "cycle", "return", "stuck", "leave", "ended"}
  /\ user \in InStartup \cup {"out", "stop", "reclaimed", "undefined"}
  /\ at \in 1 .. NSockets + 1
  /\ starts \in 0 .. MaxStarts
  /\ stops \subseteq {"recv", "net"}
  /\ gaveUp \in BOOLEAN /\ late \subseteq Sockets
  /\ notCreated \in BOOLEAN

Init ==
  /\ endThreads = TRUE
  /\ isNetworkUpdateThreadActive \in BOOLEAN      \* not initialised
  /\ isRecvPollingThreadActive = 0
  /\ bindedSockets = <<>>
  /\ unbindable \in SUBSET Sockets
  /\ inbox = [s \in Sockets |-> 0]
  /\ queue = [s \in Sockets |-> 0] /\ back = [s \in Sockets |-> 0]
  /\ rindex = [s \in Sockets |-> 0] /\ outter = 1 /\ inner = 1
  /\ recv = [s \in Sockets |-> "none"] /\ net = "none"
  /\ user = "out" /\ at = 1
  /\ starts = 0 /\ stops = {} /\ gaveUp = FALSE /\ late = {} /\ notCreated = FALSE

-----------------------------------------------------------------------------
(* startup *)

active == ~endThreads

Freed(x) == IF x = "open" THEN "freed" ELSE "twice"

DeallocBindedSockets(b) == [i \in 1 .. Len(b) |-> Freed(b[i])]

StartupBeginsActive ==
  /\ user = "out" /\ ~active /\ starts < MaxStarts
  /\ bindedSockets' = DeallocBindedSockets(bindedSockets)
  /\ endThreads' = FALSE
  /\ user' = "bind" /\ at' = 1 /\ starts' = starts + 1 /\ stops' = {}
  /\ UNCHANGED <<isNetworkUpdateThreadActive, isRecvPollingThreadActive, unbindable, inbox, flow,
                 recv, net, gaveUp, late, notCreated>>

(* When active() it returns ALREADY_STARTED. *)
StartupBegin ==
  /\ user = "out" /\ ~active /\ starts < MaxStarts
  /\ bindedSockets' = DeallocBindedSockets(bindedSockets)
  /\ user' = "bind" /\ at' = 1 /\ starts' = starts + 1 /\ stops' = {}
  /\ UNCHANGED <<words, unbindable, inbox, flow, recv, net, gaveUp, late, notCreated>>

(* A socket is appended and bound.  Bind tries again for as long as socket()  *)
(* or bind() fails, be it that the port is in use or that the family or the   *)
(* host will never do; the tests of the family and of a failed bind that      *)
(* follow it (234-260) are not reached.                                       *)
BindSocket ==
  /\ user = "bind" /\ at <= NSockets /\ at \notin unbindable
  /\ bindedSockets' = Append(bindedSockets, "open")
  /\ at' = at + 1
  /\ UNCHANGED <<words, unbindable, inbox, flow, recv, net, user, history>>

BindTestFailsTwice ==
  /\ user = "bind" /\ at <= NSockets /\ at \notin unbindable
  /\ bindedSockets' = DeallocBindedSockets(Append(bindedSockets, "freed"))
  /\ user' = "out"
  /\ UNCHANGED <<words, unbindable, inbox, flow, recv, net, at, history>>

(* The datagram that Bind sends to itself is not the one that it receives. *)
BindTestFails ==
  /\ user = "bind" /\ at <= NSockets /\ at \notin unbindable
  /\ bindedSockets' = DeallocBindedSockets(Append(bindedSockets, "open"))
  /\ user' = "out"
  /\ UNCHANGED <<words, unbindable, inbox, flow, recv, net, at, history>>

(* All sockets are bound: bindedSockets[0] and the first elements are used. *)
UseFreedSockets ==
  /\ user = "bind" /\ at > NSockets
  /\ \E s \in Sockets : bindedSockets[s] # "open"
  /\ user' = "undefined"
  /\ UNCHANGED <<words, bindedSockets, unbindable, inbox, flow, recv, net, at, history>>

StartAlreadyEnded ==
  /\ user = "bind" /\ at > NSockets
  /\ \A s \in Sockets : bindedSockets[s] = "open"
  /\ endThreads' = TRUE /\ isNetworkUpdateThreadActive' = FALSE
  /\ user' = "threads" /\ at' = 1
  /\ UNCHANGED <<isRecvPollingThreadActive, bindedSockets, unbindable, inbox, flow, recv, net, history>>

SetupThreads ==
  /\ user = "bind" /\ at > NSockets
  /\ \A s \in Sockets : bindedSockets[s] = "open"
  /\ endThreads' = FALSE /\ isNetworkUpdateThreadActive' = FALSE
  /\ user' = "threads" /\ at' = 1
  /\ UNCHANGED <<isRecvPollingThreadActive, bindedSockets, unbindable, inbox, flow, recv, net, history>>

CreateRecvPollingThread ==
  /\ user = "threads"
  /\ recv' = [recv EXCEPT ![at] = "created"]
  /\ user' = IF at = NSockets THEN "wait recv" ELSE "threads"
  /\ at' = IF at = NSockets THEN 1 ELSE at + 1
  /\ UNCHANGED <<words, bindedSockets, unbindable, inbox, flow, net, history>>

WaitForRecvThread ==
  /\ user = "wait recv" /\ isRecvPollingThreadActive > 0
  /\ user' = "create net"
  /\ UNCHANGED <<words, bindedSockets, unbindable, inbox, flow, recv, net, at, history>>

CreateNetworkUpdateThread ==
  /\ user = "create net"
  /\ net' = "created" /\ user' = "wait net"
  /\ UNCHANGED <<words, bindedSockets, unbindable, inbox, flow, recv, at, history>>

(* A thread is not created: End() does nothing and an error is returned. *)
CreateThreadFails ==
  /\ user \in {"threads", "create net"}
  /\ user' = "out"
  /\ notCreated' = TRUE
  /\ UNCHANGED <<words, bindedSockets, unbindable, inbox, flow, recv, net, at, starts, stops, gaveUp, late>>

WaitForNetworkThread ==
  /\ user = "wait net" /\ isNetworkUpdateThreadActive
  /\ user' = "out"
  /\ UNCHANGED <<words, bindedSockets, unbindable, inbox, flow, recv, net, at, history>>

-----------------------------------------------------------------------------
(* The stop functions and reclaim_instance *)

Delivered(s) == [inbox EXCEPT ![s] = IF @ < MaxInbox THEN @ + 1 ELSE @]

(* endThreads is set and the first socket gets its first datagram.  The      *)
(* sockets of a startup that failed are freed.                               *)
StopRecvBegin ==
  /\ user = "out" /\ bindedSockets # <<>>
  /\ endThreads' = TRUE
  /\ IF \A i \in 1 .. Len(bindedSockets) : bindedSockets[i] = "open"
     THEN user' = "stop" /\ inbox' = Delivered(1)
     ELSE user' = "undefined" /\ inbox' = inbox
  /\ at' = 1 /\ gaveUp' = FALSE
  /\ late' = {s \in Sockets : recv[s] = "created"}
  /\ UNCHANGED <<isNetworkUpdateThreadActive, isRecvPollingThreadActive, bindedSockets,
                 unbindable, flow, recv, net, starts, stops, notCreated>>

StopSendAgain ==
  /\ user = "stop" /\ isRecvPollingThreadActive > 0
  /\ inbox' = Delivered(at)
  /\ UNCHANGED <<words, bindedSockets, unbindable, flow, recv, net, user, at, history>>

StopNextSocket(givesUp) ==
  /\ user = "stop"
  /\ gaveUp' = givesUp
  /\ IF at < NSockets
     THEN at' = at + 1 /\ inbox' = Delivered(at + 1) /\ UNCHANGED <<user, stops>>
     ELSE user' = "out" /\ at' = 1 /\ stops' = stops \cup {"recv"} /\ UNCHANGED inbox
  /\ UNCHANGED <<words, bindedSockets, unbindable, flow, recv, net, starts, late, notCreated>>

StopUnconditionally == StopNextSocket(FALSE)

StopNoThreadLeft == isRecvPollingThreadActive = 0 /\ StopNextSocket(FALSE)

StopGivesUp == isRecvPollingThreadActive > 0 /\ StopNextSocket(TRUE)

stop_network_update_thread ==
  /\ user = "out"
  /\ endThreads' = TRUE /\ isNetworkUpdateThreadActive' = FALSE
  /\ stops' = stops \cup {"net"}
  /\ UNCHANGED <<isRecvPollingThreadActive, bindedSockets, unbindable, inbox, flow, recv, net,
                 user, at, starts, gaveUp, late, notCreated>>

(* As the tests do, after both stop functions. *)
reclaim_instance ==
  /\ user = "out" /\ stops = {"recv", "net"}
  /\ user' = "reclaimed"
  /\ UNCHANGED <<words, bindedSockets, unbindable, inbox, flow, recv, net, at, history>>

Running(s) == recv[s] \notin {"none", "ended"}

UseReclaimedInstance ==
  /\ user = "reclaimed"
  /\ net \notin {"none", "ended"} \/ \E s \in Sockets : Running(s)
  /\ user' = "undefined"
  /\ UNCHANGED <<words, bindedSockets, unbindable, inbox, flow, recv, net, at, history>>

Exists == user \notin {"reclaimed", "undefined"}

-----------------------------------------------------------------------------
(* RunRecvCycleLoop for socket s *)

RecvGoes(s, from, to) ==
  /\ Exists /\ recv[s] = from
  /\ recv' = [recv EXCEPT ![s] = to]
  /\ UNCHANGED <<isNetworkUpdateThreadActive, endThreads, bindedSockets, unbindable, outter,
                 inner, net, user, at, history>>

RecvBegins(s) ==
  /\ RecvGoes(s, "created", "test")
  /\ isRecvPollingThreadActive' = isRecvPollingThreadActive + 1
  /\ UNCHANGED <<inbox, queue, back, rindex>>

RecvTests(s) ==
  /\ RecvGoes(s, "test", IF endThreads THEN "leave" ELSE "reclaim")
  /\ UNCHANGED <<isRecvPollingThreadActive, inbox, queue, back, rindex>>

(* A round of ReclaimAllJISRecvParams. *)
RecvReclaims(s) ==
  /\ rindex[s] < back[s]
  /\ RecvGoes(s, "reclaim", "reclaim")
  /\ back' = [back EXCEPT ![s] = @ - 1]
  /\ rindex' = [rindex EXCEPT ![s] = @ + 1]
  /\ UNCHANGED <<isRecvPollingThreadActive, inbox, queue>>

RecvAllocates(s) ==
  /\ rindex[s] >= back[s]
  /\ RecvGoes(s, "reclaim", "receive")
  /\ rindex' = [rindex EXCEPT ![s] = 0]
  /\ UNCHANGED <<isRecvPollingThreadActive, inbox, queue, back>>

RecvFrom(s) ==
  /\ inbox[s] > 0 /\ bindedSockets[s] = "open"
  /\ RecvGoes(s, "receive", "push")
  /\ inbox' = [inbox EXCEPT ![s] = @ - 1]
  /\ UNCHANGED <<isRecvPollingThreadActive, queue, back, rindex>>

(* Error 10040: the datagram is too long and is dropped. *)
RecvFromFails(s) ==
  /\ inbox[s] > 0 /\ bindedSockets[s] = "open"
  /\ RecvGoes(s, "receive", "test")
  /\ inbox' = [inbox EXCEPT ![s] = @ - 1]
  /\ UNCHANGED <<isRecvPollingThreadActive, queue, back, rindex>>

(* startup has freed the socket under the thread. *)
RecvFromFreed(s) ==
  /\ Exists /\ recv[s] = "receive" /\ bindedSockets[s] # "open"
  /\ user' = "undefined"
  /\ UNCHANGED <<words, bindedSockets, unbindable, inbox, flow, recv, net, at, history>>

RecvGoesOn(s) ==
  /\ queue[s] < Cap
  /\ RecvGoes(s, "push", "reclaim")
  /\ queue' = [queue EXCEPT ![s] = @ + 1]
  /\ UNCHANGED <<isRecvPollingThreadActive, inbox, back, rindex>>

RecvPushes(s) ==
  /\ queue[s] < Cap
  /\ RecvGoes(s, "push", "test")
  /\ queue' = [queue EXCEPT ![s] = @ + 1]
  /\ UNCHANGED <<isRecvPollingThreadActive, inbox, back, rindex>>

RecvLeaves(s) ==
  /\ RecvGoes(s, "leave", "ended")
  /\ isRecvPollingThreadActive' = isRecvPollingThreadActive - 1
  /\ UNCHANGED <<inbox, queue, back, rindex>>

RunRecvCycleLoop(s) ==
  \/ RecvBegins(s) \/ RecvTests(s) \/ RecvReclaims(s) \/ RecvAllocates(s)
  \/ RecvFrom(s) \/ RecvFromFails(s) \/ RecvFromFreed(s)
  \/ RecvPushes(s) \/ RecvLeaves(s)

-----------------------------------------------------------------------------
(* RunNetworkUpdateCycleLoop *)

NetGoes(from, to) ==
  /\ Exists /\ net = from
  /\ net' = to
  /\ UNCHANGED <<endThreads, isRecvPollingThreadActive, bindedSockets, unbindable, inbox,
                 rindex, recv, user, at, history>>

NetBegins ==
  /\ NetGoes("created", "test")
  /\ isNetworkUpdateThreadActive' = TRUE
  /\ UNCHANGED <<queue, back, outter, inner>>

NetTests ==
  /\ NetGoes("test", IF endThreads THEN "leave" ELSE "cycle")
  /\ outter' = 1 /\ inner' = 1
  /\ UNCHANGED <<isNetworkUpdateThreadActive, queue, back>>

(* ProcessAllocJISRecvParamsQ takes and processes a datagram. *)
NetTakes ==
  /\ inner <= queue[outter]
  /\ NetGoes("cycle", "return")
  /\ queue' = [queue EXCEPT ![outter] = @ - 1]
  /\ UNCHANGED <<isNetworkUpdateThreadActive, back, outter, inner>>

(* ReclaimOneJISRecvParams(recvParams, inner) spins while that queue is full; *)
(* past the last queue the push returns or never does.                        *)
NetReturns ==
  /\ \E to \in {"cycle", "stuck"} :
       /\ NetGoes("return", to)
       /\ IF inner \in Sockets
          THEN /\ to = "cycle" /\ back[inner] < Cap
               /\ back' = [back EXCEPT ![inner] = @ + 1]
          ELSE UNCHANGED back
  /\ inner' = inner + 1
  /\ UNCHANGED <<isNetworkUpdateThreadActive, queue, outter>>

NetFirstSocketOnly ==
  /\ inner > queue[outter]
  /\ NetGoes("cycle", "test")
  /\ UNCHANGED <<isNetworkUpdateThreadActive, queue, back, outter, inner>>

(* The next socket, or the end of the cycle. *)
NetNextSocket ==
  /\ inner > queue[outter]
  /\ NetGoes("cycle", IF outter < NSockets THEN "cycle" ELSE "test")
  /\ outter' = IF outter < NSockets THEN outter + 1 ELSE 1
  /\ inner' = 1
  /\ UNCHANGED <<isNetworkUpdateThreadActive, queue, back>>

NetLeaves ==
  /\ NetGoes("leave", "ended")
  /\ isNetworkUpdateThreadActive' = FALSE
  /\ UNCHANGED <<queue, back, outter, inner>>

RunNetworkUpdateCycleLoop ==
  NetBegins \/ NetTests \/ NetTakes \/ NetReturns \/ NetNextSocket \/ NetLeaves

-----------------------------------------------------------------------------
(* The environment: datagrams come, ports become free. *)

Arrive(s) ==
  /\ Exists /\ s <= Len(bindedSockets) /\ inbox[s] < MaxInbox
  /\ inbox' = Delivered(s)
  /\ UNCHANGED <<words, bindedSockets, unbindable, flow, recv, net, user, at, history>>

PortFreed(s) ==
  /\ Exists /\ s \in unbindable
  /\ unbindable' = unbindable \ {s}
  /\ UNCHANGED <<words, bindedSockets, inbox, flow, recv, net, user, at, history>>

StartupSteps == \/ BindSocket \/ BindTestFails \/ UseFreedSockets \/ SetupThreads
                \/ CreateRecvPollingThread \/ WaitForRecvThread \/ CreateNetworkUpdateThread
                \/ CreateThreadFails \/ WaitForNetworkThread

Next ==
  \/ StartupBegin \/ StartupSteps
  \/ StopRecvBegin \/ StopSendAgain \/ StopNoThreadLeft \/ StopGivesUp
  \/ stop_network_update_thread \/ reclaim_instance \/ UseReclaimedInstance
  \/ RunNetworkUpdateCycleLoop
  \/ \E s \in Sockets : RunRecvCycleLoop(s) \/ Arrive(s) \/ PortFreed(s)

Spec == Init /\ [][Next]_vars

(* Every thread that can go on does; a started call of the user goes on.    *)
FairSpec ==
  /\ Spec
  /\ WF_vars(StartupSteps)
  /\ WF_vars(StopNoThreadLeft \/ StopGivesUp)
  /\ WF_vars(RunNetworkUpdateCycleLoop)
  /\ \A s \in Sockets : WF_vars(RunRecvCycleLoop(s))

-----------------------------------------------------------------------------
(* Properties *)

(* startup comes back: the words it waits for are set by threads that the  *)
(* call itself created, and nothing resets them in between.  The exception *)
(* is a socket that cannot be bound: Bind never stops trying               *)
(* (network_socket_t.cpp:158), whether another program has the port or the *)
(* family or the host will never do, so SOCKET_PORT_ALREADY_IN_USE and     *)
(* SOCKET_FAMILY_NOT_SUPPORTED are never returned.                         *)
StartupReturnsUnlessUnbindable ==
  user \in InStartup ~> \/ user \notin InStartup
                        \/ user = "bind" /\ at \in unbindable

(* A receive thread that does not come to reclaim: it waits for a datagram, *)
(* has ended or spins on its own full queue.                                *)
DoesNotReclaim(s) ==
  \/ recv[s] = "receive" /\ inbox[s] = 0
  \/ recv[s] = "push" /\ queue[s] = Cap
  \/ recv[s] \in {"none", "ended"}

(* The network thread spins at 437: the return queue with the number of its *)
(* inner loop is full, and the thread it belongs to does not reclaim.       *)
NetworkSpins ==
  net = "return" /\ inner \in Sockets /\ back[inner] = Cap /\ DoesNotReclaim(inner)

(* A receive thread that queues a datagram (2681) goes on, whichever socket  *)
(* the datagrams come from.  The exceptions are a network thread that has    *)
(* ended or never began, one that a push past the array stopped, and one     *)
(* that spins for ever because the buffers of one socket went to the return  *)
(* queue of another whose thread sleeps.                                     *)
PushReturnsUnlessNetworkStops ==
  \A s \in Sockets :
    recv[s] = "push" ~> \/ ~Exists \/ recv[s] # "push"
                        \/ net \in {"none", "leave", "ended", "stuck"}
                        \/ []NetworkSpins

(* "Try to send 0 data to let recv thread keep running .. so that stop the  *)
(* thread" (672): once stop_recv_thread has been called, the network thread *)
(* and every receive thread end, wherever they were and whenever the call   *)
(* gave up.  The exceptions are a receive thread that waits for room in its *)
(* queue, since the same flag has ended the network thread, which alone     *)
(* empties it; and a network thread stopped by a push past the array, or    *)
(* one that spins on a full return queue: the receive thread that is woken  *)
(* leaves its loop without another reclaim.                                 *)
StoppedThreadsEnd ==
  user = "stop" ~> \/ ~Exists
                   \/ /\ net \in {"none", "ended", "stuck"} \/ NetworkSpins
                      /\ \A s \in Sockets :
                           Running(s) => recv[s] = "push" /\ queue[s] = Cap

(* When stop_recv_thread returns because the count is 0, no receive thread *)
(* that had begun touches the application again, so that it may be         *)
(* reclaimed.  startup waits for any one receive thread (394), though, and *)
(* a thread that had not begun is not in the count.                        *)
StoppedThreadsAreGone ==
  "recv" \in stops /\ user = "out" /\ ~gaveUp => \A s \in Sockets : Running(s) => s \in late

(* active() (geco_application.h:504), by which Connect, fetch_packet and   *)
(* startup decide, says that the application runs: between two calls it is *)
(* true only if all its threads were created and none has ended.  The      *)
(* exception is a startup that could not create one of them (385, 405):    *)
(* End() is empty, so the application counts as started.                   *)
ActiveMeansRunning ==
  /\ TypeOK
  /\ user = "out" /\ active /\ ~notCreated =>
       net \notin {"none", "ended"} /\ \A s \in Sockets : Running(s)

(* A socket is freed once, wherever the first startup fails.  A second one  *)
(* finds the old sockets still in bindedSockets (175) and frees them again.  *)
SocketsFreedOnce ==
  starts <= 1 => \A i \in 1 .. Len(bindedSockets) : bindedSockets[i] # "twice"
=============================================================================
