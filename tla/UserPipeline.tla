---------------------------- MODULE UserPipeline ----------------------------
(***************************************************************************)
(* The user thread and the network thread (src/geco_application.cpp).      *)
(*                                                                         *)
(* Commands go from the user to the network thread (run_cmd,               *)
(* ProcessAllocCommandQ) and back for reuse (ReclaimAllCommands, called by *)
(* fetch_packet); packets go from the network thread to the user           *)
(* (fetch_packet) and back for reuse (reclaim_packet, ReclaimAllPackets).  *)
(* The four queues are JackieSPSCQueues; a push on a full one spins, so    *)
(* its step is not enabled.  Three have one producer and one consumer and  *)
(* are used as bounded FIFOs (module SPSCQueue).                           *)
(*                                                                         *)
(* allocCommandQ has two producers: the network thread carries a connect   *)
(* command out by calling Connect_, which posts it again from that thread  *)
(* and takes it from commandPool, the user thread's pool.  So the steps of *)
(* PushTail on this queue are modelled (sample, copy, publish), and its    *)
(* cells: ring[1] is the one at m_nOut, size is m_nIn - m_nOut, and a cell *)
(* is "stale" once its command has been taken.  The model follows the      *)
(* program until the ring is overrun, a command is taken a second time or  *)
(* both threads are in commandPool, and not further.                       *)
(*                                                                         *)
(* A packet carries a pointer to its message id.  AllocPacket(size, data)  *)
(* keeps the caller's pointer, and the callers pass the address of the     *)
(* member msgid, of a local variable, or of the receive buffer.  Nobody    *)
(* looks at a command or a packet on its way back.                         *)
(***************************************************************************)
EXTENDS Naturals, Sequences, Functions

CONSTANTS
  Cap,           \* capacity of each queue, in pointers
  Ids,           \* message ids a packet can carry
  MaxCommands,   \* commands the user posts before it fetches again (bound)
  MaxConnects,   \* calls of Connect_ in all (bound)
  MaxRaised      \* packets the network thread raises in one cycle (bound)

ASSUME UserPipelineAssumption ==
  /\ Cap \in Nat \ {0} /\ MaxCommands \in Nat /\ MaxConnects \in Nat /\ MaxRaised \in Nat
  /\ Ids # {}

VARIABLES
  ring, size,      \* allocCommandQ: "connect" for Connect_, else "other"
  overlapped,      \* whether two pushes on it ever overlapped
  deAllocCommandQ, \* how many commands are on their way back
  allocPacketQ,    \* packets raised: the id meant, and where data points
  deAllocPacketQ,  \* how many packets are on their way back
  msgid,           \* the member the network thread keeps message ids in
  upc, uindex, cmd, packet, posted, connects, \* user thread
  npc, nindex, ncmd, npacket, raised          \* network thread

userVars == <<upc, uindex, cmd, packet, posted, connects>>
netVars == <<npc, nindex, ncmd, npacket, raised, msgid>>
allocCommandQ == <<ring, size>>
queues == <<allocCommandQ, overlapped, deAllocCommandQ, allocPacketQ, deAllocPacketQ>>
vars == <<userVars, netVars, queues>>

Places == {"msgid", "reused"}   \* a local or a receive buffer is reused at once
Packets == [id : Ids, data : Places]
NoPacket == [id |-> "none", data |-> "none"]

Init ==
  /\ ring = [i \in 1 .. Cap |-> "stale"] /\ size = 0 /\ overlapped = FALSE
  /\ deAllocCommandQ = 0
  /\ allocPacketQ = <<>> /\ deAllocPacketQ = 0
  /\ msgid \in Ids
  /\ upc = "run" /\ uindex = 0 /\ cmd = "other" /\ packet = NoPacket
  /\ posted = 0 /\ connects = 0
  /\ npc = "packets" /\ nindex = 0 /\ ncmd = "other" /\ npacket = NoPacket /\ raised = 0

-----------------------------------------------------------------------------
(* PushTail on allocCommandQ.                                              *)

\* m_nSize - m_nIn + m_nOut is unsigned: it is 0 for a full ring only.
RoomOffByOne == size # Cap + 1
Room == size # Cap

InPush(pc) == pc \in {"copy", "publish"}

PushSample(other) ==
  /\ Room
  /\ overlapped' = (overlapped \/ InPush(other))
  /\ UNCHANGED <<allocCommandQ, deAllocCommandQ, allocPacketQ, deAllocPacketQ>>

PushCopy(e) ==
  /\ ring' = [ring EXCEPT ![(size % Cap) + 1] = e]
  /\ UNCHANGED <<size, overlapped, deAllocCommandQ, allocPacketQ, deAllocPacketQ>>

PushPublish ==
  /\ size' = size + 1
  /\ UNCHANGED <<ring, overlapped, deAllocCommandQ, allocPacketQ, deAllocPacketQ>>

-----------------------------------------------------------------------------
(* User thread.                                                            *)

\* ban_remote_system and the other callers of alloc_cmd.
AllocCommand ==
  /\ upc = "run" /\ posted < MaxCommands
  /\ cmd' = "other" /\ posted' = posted + 1
  /\ upc' = "run_cmd"
  /\ UNCHANGED <<uindex, packet, connects, netVars, queues>>

Connect_ ==
  /\ upc = "run" /\ posted < MaxCommands
  /\ connects < MaxConnects
  /\ cmd' = "connect" /\ posted' = posted + 1 /\ connects' = connects + 1
  /\ upc' = "run_cmd"
  /\ UNCHANGED <<uindex, packet, netVars, queues>>

run_cmd ==
  /\ upc = "run_cmd"
  /\ PushSample(npc)
  /\ upc' = "copy"
  /\ UNCHANGED <<uindex, cmd, packet, posted, connects, netVars>>

CommandCopied ==
  /\ upc = "copy"
  /\ PushCopy(cmd)
  /\ upc' = "publish"
  /\ UNCHANGED <<uindex, cmd, packet, posted, connects, netVars>>

CommandPublished ==
  /\ upc = "publish"
  /\ PushPublish
  /\ upc' = "run"
  /\ UNCHANGED <<uindex, cmd, packet, posted, connects, netVars>>

fetch_packet ==
  /\ upc = "run"
  /\ upc' = "reclaim" /\ posted' = 0
  /\ UNCHANGED <<uindex, cmd, packet, connects, netVars, queues>>

\* One round of ReclaimAllCommands (half of the queue in a pass).
ReclaimAllCommands ==
  /\ upc = "reclaim"
  /\ uindex < deAllocCommandQ
  /\ deAllocCommandQ' = deAllocCommandQ - 1
  /\ uindex' = uindex + 1
  /\ UNCHANGED <<upc, cmd, packet, posted, connects, netVars,
                 allocCommandQ, overlapped, allocPacketQ, deAllocPacketQ>>

\* The rest of RunGetPacketCycleOnce: one packet, or none.
RunGetPacketCycleOnce ==
  /\ upc = "reclaim"
  /\ uindex >= deAllocCommandQ
  /\ uindex' = 0
  /\ \/ /\ allocPacketQ # <<>>
        /\ packet' = Head(allocPacketQ)
        /\ allocPacketQ' = Tail(allocPacketQ)
        /\ upc' = "use"
     \/ /\ allocPacketQ = <<>>
        /\ upc' = "run"
        /\ UNCHANGED <<packet, allocPacketQ>>
  /\ UNCHANGED <<cmd, posted, connects, netVars, allocCommandQ, overlapped,
                 deAllocCommandQ, deAllocPacketQ>>

\* The user is done with the packet it fetched.
reclaim_packet ==
  /\ upc = "use"
  /\ deAllocPacketQ < Cap
  /\ deAllocPacketQ' = deAllocPacketQ + 1
  /\ packet' = NoPacket
  /\ upc' = "run"
  /\ UNCHANGED <<uindex, cmd, posted, connects, netVars, allocCommandQ, overlapped,
                 deAllocCommandQ, allocPacketQ>>

-----------------------------------------------------------------------------
(* Network thread: RunNetworkUpdateCycleOnce, over and over.               *)

\* One round of ReclaimAllPackets.
ReclaimNoPackets ==
  /\ npc = "packets"
  /\ nindex < deAllocPacketQ
  /\ nindex' = nindex + 1
  /\ UNCHANGED <<npc, ncmd, npacket, raised, msgid, userVars, queues>>

ReclaimAllPackets ==
  /\ npc = "packets"
  /\ nindex < deAllocPacketQ
  /\ deAllocPacketQ' = deAllocPacketQ - 1
  /\ nindex' = nindex + 1
  /\ UNCHANGED <<npc, ncmd, npacket, raised, msgid, userVars,
                 allocCommandQ, overlapped, deAllocCommandQ, allocPacketQ>>

ReclaimAllPacketsEnds ==
  /\ npc = "packets"
  /\ nindex >= deAllocPacketQ
  /\ npc' = "commands" /\ nindex' = 0
  /\ UNCHANGED <<ncmd, npacket, raised, msgid, userVars, queues>>

\* ProcessAllocCommandQ pops a command; BCS_CONEECT calls Connect_, which
\* posts a new BCS_CONEECT command from this thread.
PopCommand ==
  /\ npc = "commands"
  /\ nindex < size
  /\ ncmd' = Head(ring)
  /\ ring' = Append(Tail(ring), "stale")
  /\ size' = size - 1
  /\ npc' = IF ncmd' = "connect" THEN "alloc_cmd"
            ELSE IF ncmd' = "other" THEN "return" ELSE "undefined"
  /\ UNCHANGED <<nindex, npacket, raised, msgid, userVars,
                 overlapped, deAllocCommandQ, allocPacketQ, deAllocPacketQ>>

RepostAlloc ==
  /\ npc = "alloc_cmd"
  /\ npc' = "run_cmd"
  /\ UNCHANGED <<nindex, ncmd, npacket, raised, msgid, userVars, queues>>

\* The user allocates or reclaims a command meanwhile: the pool has no lock.
CommandPoolRace ==
  /\ npc = "alloc_cmd"
  /\ \/ upc = "run" /\ posted < MaxCommands
     \/ upc = "reclaim" /\ uindex < deAllocCommandQ
  /\ npc' = "undefined"
  /\ UNCHANGED <<nindex, ncmd, npacket, raised, msgid, userVars, queues>>

RepostConnect ==
  /\ npc = "run_cmd"
  /\ PushSample(upc)
  /\ npc' = "copy"
  /\ UNCHANGED <<nindex, ncmd, npacket, raised, msgid, userVars>>

RepostCopied ==
  /\ npc = "copy"
  /\ PushCopy("connect")
  /\ npc' = "publish"
  /\ UNCHANGED <<nindex, ncmd, npacket, raised, msgid, userVars>>

RepostPublished ==
  /\ npc = "publish"
  /\ PushPublish
  /\ npc' = "return"
  /\ UNCHANGED <<nindex, ncmd, npacket, raised, msgid, userVars>>

\* m_nIn += m_len is not atomic: two of them at once may count as one.
PublishTogether ==
  /\ upc = "publish" /\ npc = "publish"
  /\ PushPublish
  /\ upc' = "run" /\ npc' = "return"
  /\ UNCHANGED <<uindex, cmd, packet, posted, connects, nindex, ncmd, npacket, raised, msgid>>

ReturnCommand ==
  /\ npc = "return"
  /\ deAllocCommandQ < Cap
  /\ deAllocCommandQ' = deAllocCommandQ + 1
  /\ nindex' = nindex + 1
  /\ npc' = "commands"
  /\ UNCHANGED <<ncmd, npacket, raised, msgid, userVars,
                 allocCommandQ, overlapped, allocPacketQ, deAllocPacketQ>>

ProcessAllocCommandQEnds ==
  /\ npc = "commands"
  /\ nindex >= size
  /\ npc' = "datagrams" /\ nindex' = 0
  /\ UNCHANGED <<ncmd, npacket, raised, msgid, userVars, queues>>

AllocPacketIdLate(id, place) ==
  /\ npc = "datagrams" /\ raised < MaxRaised
  /\ raised' = raised + 1
  /\ npacket' = [id |-> id, data |-> place]
  /\ msgid' = IF npacket.data = "msgid" THEN npacket.id ELSE msgid
  /\ npc' = "raise"
  /\ UNCHANGED <<nindex, ncmd, userVars, queues>>

\* A datagram or a connection request makes the thread raise a packet.
AllocPacket(id, place) ==
  /\ npc = "datagrams" /\ raised < MaxRaised
  /\ raised' = raised + 1
  /\ npacket' = [id |-> id, data |-> place]
  /\ msgid' = IF place = "msgid" THEN id ELSE msgid
  /\ npc' = "raise"
  /\ UNCHANGED <<nindex, ncmd, userVars, queues>>

PushPacket ==
  /\ npc = "raise"
  /\ Len(allocPacketQ) < Cap
  /\ allocPacketQ' = Append(allocPacketQ, npacket)
  /\ npacket' = NoPacket
  /\ npc' = "datagrams"
  /\ UNCHANGED <<nindex, ncmd, raised, msgid, userVars,
                 allocCommandQ, overlapped, deAllocCommandQ, deAllocPacketQ>>

CycleEnds ==
  /\ npc = "datagrams"
  /\ npc' = "packets" /\ raised' = 0
  /\ UNCHANGED <<nindex, ncmd, npacket, msgid, userVars, queues>>

-----------------------------------------------------------------------------
User ==
  \/ AllocCommand \/ Connect_ \/ run_cmd \/ CommandCopied \/ CommandPublished \/ fetch_packet
  \/ ReclaimAllCommands \/ RunGetPacketCycleOnce \/ reclaim_packet

Network ==
  \/ ReclaimAllPackets \/ ReclaimAllPacketsEnds
  \/ PopCommand \/ RepostAlloc \/ RepostConnect \/ RepostCopied \/ RepostPublished
  \/ ReturnCommand \/ ProcessAllocCommandQEnds
  \/ (\E id \in Ids, place \in Places : AllocPacket(id, place))
  \/ PushPacket \/ CycleEnds

Undefined == npc = "undefined" \/ size > Cap

Next == ~Undefined /\ (User \/ Network \/ CommandPoolRace \/ PublishTogether)

Spec == Init /\ [][Next]_vars

\* Both threads keep running; the user keeps calling the library.
FairSpec == Spec /\ WF_vars(~Undefined /\ User) /\ WF_vars(~Undefined /\ Network)

-----------------------------------------------------------------------------
Commands == {"other", "connect", "stale"}

\* No queue but allocCommandQ ever holds more than its capacity.
TypeOK ==
  /\ ring \in Seq(Commands) /\ Len(ring) = Cap /\ size \in 0 .. Cap + 1
  /\ overlapped \in BOOLEAN
  /\ deAllocCommandQ \in 0 .. Cap
  /\ allocPacketQ \in Seq(Packets) /\ Len(allocPacketQ) <= Cap
  /\ deAllocPacketQ \in 0 .. Cap
  /\ msgid \in Ids
  /\ upc \in {"run", "run_cmd", "copy", "publish", "reclaim", "use"}
  /\ uindex \in 0 .. Cap /\ posted \in 0 .. MaxCommands /\ connects \in 0 .. MaxConnects
  /\ npc \in {"packets", "commands", "alloc_cmd", "run_cmd", "copy", "publish", "return",
             "datagrams", "raise", "undefined"}
  /\ cmd \in {"other", "connect"} /\ ncmd \in Commands
  /\ nindex \in Nat /\ raised \in 0 .. MaxRaised
  /\ packet \in Packets \cup {NoPacket} /\ npacket \in Packets \cup {NoPacket}

\* A thread that spins in PushTail on a full queue.
UserBlocked ==
  \/ upc = "run_cmd" /\ ~Room
  \/ upc = "use" /\ deAllocPacketQ = Cap

NetworkBlocked ==
  \/ npc = "run_cmd" /\ ~Room
  \/ npc = "return" /\ deAllocCommandQ = Cap
  \/ npc = "raise" /\ Len(allocPacketQ) = Cap

\* Each thread waits for room that the other would make, or the network
\* thread for room in the queue that only it empties.  "will walways return
\* true" (JackieSPSCQueue.h:38, of PushTail) is all the code says of this.
Deadlocked ==
  \/ UserBlocked /\ NetworkBlocked
  \/ npc = "run_cmd" /\ NetworkBlocked

\* Packets alone deadlock the threads only in a burst: ReclaimAllPackets has
\* made enough room for every cycle that raises at most half a queue of them.
PacketDeadlockNeedsBurst ==
  UserBlocked /\ NetworkBlocked /\ upc = "use" /\ npc = "raise"
    => raised > (Cap + 1) \div 2

\* Nothing but such a deadlock keeps a call that the user makes from
\* returning, although a pass of a reclaim loop empties half of its queue.
\* (When the two producers of allocCommandQ have broken it, or both threads
\* are in commandPool, nothing is said.)
UserCallsReturn ==
  upc \in {"run_cmd", "copy", "publish", "use"} ~> (upc = "run" \/ Deadlocked \/ Undefined)

\* allocCommandQ is made for one producer and has two.  Every command that is
\* posted is taken, and taken once: the cells between m_nOut and m_nIn are
\* those copied and not yet taken, and no push overwrites one.  The exception
\* is a push by the user (2805, 3582) that overlaps with one of the network
\* thread, which posts a connect command again (2061).
CommandsKeptUnlessOverlapped ==
  /\ TypeOK
  /\ ~overlapped =>
       /\ size <= Cap /\ ncmd # "stale"
       /\ \A i \in 1 .. Cap :
            ring[i] # "stale" <=>
              (i <= size \/ (i = size + 1 /\ "publish" \in {upc, npc}))

\* The user reads the message id the network thread meant, although the
\* packet points into the network thread's variables.  Of a packet that
\* points to a local (1880) or to the receive buffer (956) it may read
\* anything; one that points to the member msgid it misreads only while a
\* later packet, which has overwritten the id, is on its way (1757).
MisreadOnlyIfOvertaken ==
  upc = "use" /\ packet.data = "msgid" /\ msgid # packet.id =>
    [id |-> msgid, data |-> "msgid"] \in {npacket} \cup Range(allocPacketQ)
=============================================================================
