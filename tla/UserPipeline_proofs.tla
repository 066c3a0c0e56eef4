------------------------- MODULE UserPipeline_proofs -------------------------
(***************************************************************************)
(* The safety of the two threads and their four queues, for every capacity *)
(* and every bound on what the user posts and the network thread raises.   *)
(***************************************************************************)
EXTENDS UserPipeline, SequenceTheorems, WellFoundedInduction, TLAPS

-----------------------------------------------------------------------------
(* The inductive invariant, in parts.                                      *)

\* The network thread pushes only a packet that AllocPacket has filled in.
PacketFilled == IF npc = "raise" THEN npacket \in Packets ELSE npacket = NoPacket

\* Packets that are neither in a pool nor in the network thread's hands.
Out == Len(allocPacketQ) + deAllocPacketQ + (IF upc = "use" THEN 1 ELSE 0)

\* A round of ReclaimAllPackets takes one of them back, and a pass ends only
\* when it has made as many rounds as packets are left on their way back.  So
\* the passes keep them below three halves of a queue, plus what the cycle has
\* raised since.
RoomMade ==
  /\ npc \in {"datagrams", "raise"} => nindex = 0
  /\ npc = "packets" => Out + nindex <= 2 * Cap + 1
  /\ npc # "packets" => Out <= Cap + 1 + Cap \div 2 + raised
  /\ npc = "raise" => Out + 1 <= Cap + 1 + Cap \div 2 + raised

\* msgid holds the id of the last packet that was raised with a pointer to it.
Later(i) == {j \in DOMAIN allocPacketQ : j > i /\ allocPacketQ[j].data = "msgid"}

MsgidIsLatest ==
  /\ npacket.data = "msgid" => npacket.id = msgid
  /\ npacket.data # "msgid" =>
       \A i \in DOMAIN allocPacketQ :
         allocPacketQ[i].data = "msgid" /\ Later(i) = {} => allocPacketQ[i].id = msgid
  /\ packet.data = "msgid" /\ npacket.data # "msgid" /\ Later(0) = {} =>
       packet.id = msgid

PipelineInv == TypeOK /\ PacketFilled /\ RoomMade /\ MsgidIsLatest

-----------------------------------------------------------------------------
\* A set of positions in a sequence has a last one.
LEMMA LastOfRange ==
  ASSUME NEW n \in Nat, NEW S, S \subseteq 1 .. n, S # {}
  PROVE  \E i \in S : \A j \in S : j <= i
<1> DEFINE R == {n - j : j \in S}
<1>1. R \subseteq Nat /\ R # {}
  <2>1. \A j \in S : n - j \in Nat
    OBVIOUS
  <2> QED BY <2>1
<1>2. PICK m \in R : \A k \in R : m <= k
  <2>1. PICK m \in R : \A k \in R : ~ (<<k, m>> \in OpToRel(<, Nat))
    BY <1>1, NatLessThanWellFounded, WFMin
  <2>2. \A k \in R : ~ (k < m)
    BY <1>1, <2>1 DEF OpToRel
  <2> QED BY <1>1, <2>2
<1>3. PICK i \in S : m = n - i
  OBVIOUS
<1>4. \A j \in S : n - i <= n - j
  BY <1>2, <1>3
<1>5. ASSUME NEW j \in S PROVE j <= i
  <2>1. j \in Int /\ i \in Int /\ n - i <= n - j
    BY <1>4
  <2> QED BY <2>1
<1> QED BY <1>5

\* A push of a command keeps the shape of the ring.
LEMMA CopyKeepsRing ==
  ASSUME NEW r \in Seq(Commands), NEW k, NEW e \in Commands
  PROVE  [r EXCEPT ![k] = e] \in Seq(Commands) /\ Len([r EXCEPT ![k] = e]) = Len(r)
<1>1. Len(r) \in Nat /\ r \in [1 .. Len(r) -> Commands]
  BY LenProperties
<1>2. [r EXCEPT ![k] = e] \in [1 .. Len(r) -> Commands]
  BY <1>1
<1> QED BY <1>1, <1>2, SeqDef, LenProperties

-----------------------------------------------------------------------------
(* Types.                                                                  *)

\* The queues, indices and program counters keep their types, and no queue
\* outgrows its ring, in every interleaving of the two threads.
LEMMA TypeStep ==
  ASSUME TypeOK, PacketFilled, [Next]_vars
  PROVE  TypeOK' /\ PacketFilled'
<1> SUFFICES ASSUME ~ Undefined \/ UNCHANGED vars
             PROVE  TypeOK' /\ PacketFilled'
  BY DEF Next
<1>u. size' = size + 1 => size' \in 0 .. Cap + 1
  <2>1. size \in 0 .. Cap + 1 /\ Cap \in Nat
    BY UserPipelineAssumption DEF TypeOK
  <2>2. CASE UNCHANGED vars
    <3>1. size' = size
      BY <2>2 DEF vars, queues, allocCommandQ
    <3> QED BY <2>1, <3>1
  <2>3. CASE ~ Undefined
    BY <2>1, <2>3 DEF Undefined
  <2> QED BY <2>2, <2>3
<1> USE UserPipelineAssumption DEF TypeOK, PacketFilled, allocCommandQ
<1>1. CASE AllocCommand
  BY <1>1 DEF AllocCommand, netVars, queues
<1>2. CASE Connect_
  BY <1>2 DEF Connect_, netVars, queues
<1>r. ring \in Seq(Commands) /\ Len(ring) = Cap /\ ring # <<>> /\ Cap \in Nat \ {0}
  OBVIOUS
<1>3. CASE run_cmd \/ CommandCopied \/ CommandPublished
  <2>1. CASE run_cmd
    BY <2>1 DEF run_cmd, PushSample, netVars, allocCommandQ
  <2>2. CASE CommandCopied
    <3>1. ring' \in Seq(Commands) /\ Len(ring') = Cap
      BY <2>2, <1>r, CopyKeepsRing DEF CommandCopied, PushCopy, Commands
    <3> QED BY <2>2, <3>1 DEF CommandCopied, PushCopy, netVars
  <2>3. CASE CommandPublished
    BY <2>3, <1>u DEF CommandPublished, PushPublish, netVars
  <2> QED BY <1>3, <2>1, <2>2, <2>3
<1>4. CASE fetch_packet
  BY <1>4 DEF fetch_packet, netVars, queues
<1>5. CASE ReclaimAllCommands
  BY <1>5 DEF ReclaimAllCommands, netVars
<1>6. CASE reclaim_packet
  BY <1>6 DEF reclaim_packet, netVars
<1>7. CASE RunGetPacketCycleOnce
  <2>1. CASE allocPacketQ # <<>>
    <3>1. Head(allocPacketQ) \in Packets /\ Tail(allocPacketQ) \in Seq(Packets)
          /\ Len(Tail(allocPacketQ)) = Len(allocPacketQ) - 1
      BY <2>1, HeadTailProperties
    <3>2. /\ packet' \in Packets /\ allocPacketQ' \in Seq(Packets)
          /\ Len(allocPacketQ') <= Cap /\ upc' = "use" /\ uindex' = 0
      BY <1>7, <2>1, <3>1 DEF RunGetPacketCycleOnce
    <3>3. UNCHANGED <<cmd, posted, connects, netVars, allocCommandQ, overlapped,
                      deAllocCommandQ, deAllocPacketQ>>
      BY <1>7 DEF RunGetPacketCycleOnce
    <3> QED BY <3>2, <3>3 DEF netVars
  <2>2. CASE allocPacketQ = <<>>
    BY <1>7, <2>2 DEF RunGetPacketCycleOnce, netVars
  <2> QED BY <2>1, <2>2
<1>8. CASE ReclaimAllPackets \/ ReclaimAllPacketsEnds \/ ReturnCommand
  <2>1. CASE ReclaimAllPackets
    BY <2>1 DEF ReclaimAllPackets, userVars
  <2>2. CASE ReclaimAllPacketsEnds
    BY <2>2 DEF ReclaimAllPacketsEnds, userVars, queues
  <2>3. CASE ReturnCommand
    BY <2>3 DEF ReturnCommand, userVars
  <2> QED BY <1>8, <2>1, <2>2, <2>3
<1>9. CASE PopCommand
  <2>1. /\ ring' \in Seq(Commands) /\ Len(ring') = Cap /\ ncmd' \in Commands
        /\ size' \in 0 .. Cap + 1
    <3>1. Tail(ring) \in Seq(Commands) /\ Len(Tail(ring)) = Cap - 1 /\ Head(ring) \in Commands
      BY <1>r, HeadTailProperties
    <3>2. "stale" \in Commands
      BY DEF Commands
    <3>3. Append(Tail(ring), "stale") \in Seq(Commands)
          /\ Len(Append(Tail(ring), "stale")) = Len(Tail(ring)) + 1
      BY <3>1, <3>2, AppendProperties
    <3> QED BY <1>9, <1>r, <3>1, <3>3 DEF PopCommand
  <2>2. npc' \in {"alloc_cmd", "return", "undefined"}
    BY <1>9, <2>1 DEF PopCommand, Commands
  <2> QED BY <1>9, <2>1, <2>2 DEF PopCommand, userVars
<1>10. CASE \/ RepostAlloc \/ CommandPoolRace \/ RepostConnect \/ RepostCopied
            \/ RepostPublished \/ PublishTogether
  <2>1. CASE RepostAlloc \/ CommandPoolRace
    BY <2>1 DEF RepostAlloc, CommandPoolRace, userVars, queues, allocCommandQ
  <2>2. CASE RepostConnect
    BY <2>2 DEF RepostConnect, PushSample, userVars, allocCommandQ
  <2>3. CASE RepostCopied
    <3>1. ring' \in Seq(Commands) /\ Len(ring') = Cap
      BY <2>3, <1>r, CopyKeepsRing DEF RepostCopied, PushCopy, Commands
    <3> QED BY <2>3, <3>1 DEF RepostCopied, PushCopy, userVars
  <2>4. CASE RepostPublished
    BY <2>4, <1>u DEF RepostPublished, PushPublish, userVars
  <2>5. CASE PublishTogether
    BY <2>5, <1>u DEF PublishTogether, PushPublish
  <2> QED BY <1>10, <2>1, <2>2, <2>3, <2>4, <2>5
<1>11. CASE ProcessAllocCommandQEnds
  BY <1>11 DEF ProcessAllocCommandQEnds, userVars, queues
<1>12. ASSUME NEW id \in Ids, NEW place \in Places, AllocPacket(id, place)
      PROVE  TypeOK' /\ PacketFilled'
  BY <1>12 DEF AllocPacket, Packets, userVars, queues
<1>13. CASE PushPacket
  BY <1>13 DEF PushPacket, userVars
<1>14. CASE CycleEnds
  BY <1>14 DEF CycleEnds, userVars, queues
<1>15. CASE UNCHANGED vars
  BY <1>15 DEF vars, userVars, netVars, queues
<1> QED BY <1>1, <1>2, <1>3, <1>4, <1>5, <1>6, <1>7, <1>8,
           <1>9, <1>10, <1>11, <1>12, <1>13, <1>14, <1>15
        DEF Next, User, Network

-----------------------------------------------------------------------------
(* The room that ReclaimAllPackets makes.                                  *)

\* RoomMade is kept by every step of the two threads.
LEMMA RoomStep ==
  ASSUME TypeOK, RoomMade, [Next]_vars
  PROVE  RoomMade'
<1> USE UserPipelineAssumption DEF RoomMade, Out
<1>t. /\ Len(allocPacketQ) \in 0 .. Cap /\ deAllocPacketQ \in 0 .. Cap
      /\ nindex \in Nat /\ raised \in Nat /\ Cap \in Nat \ {0} /\ Cap \div 2 \in Nat
  BY DEF TypeOK
<1>1. CASE \/ AllocCommand \/ Connect_ \/ run_cmd \/ CommandCopied \/ CommandPublished
           \/ fetch_packet \/ ReclaimAllCommands
  BY <1>1, <1>t DEF AllocCommand, Connect_, run_cmd, CommandCopied, CommandPublished,
                    fetch_packet, ReclaimAllCommands, PushSample, PushCopy, PushPublish,
                    netVars, queues
<1>2. CASE RunGetPacketCycleOnce
  <2>1. CASE allocPacketQ # <<>>
    <3>1. Len(allocPacketQ') = Len(allocPacketQ) - 1
      BY <1>2, <2>1 DEF TypeOK, RunGetPacketCycleOnce
    <3> QED BY <1>2, <1>t, <2>1, <3>1 DEF RunGetPacketCycleOnce, netVars
  <2>2. CASE allocPacketQ = <<>>
    BY <1>2, <1>t, <2>2 DEF RunGetPacketCycleOnce, netVars
  <2> QED BY <2>1, <2>2
<1>3. CASE reclaim_packet
  BY <1>3, <1>t DEF reclaim_packet, netVars
<1>4. CASE ReclaimAllPackets
  BY <1>4, <1>t DEF ReclaimAllPackets, userVars
<1>5. CASE ReclaimAllPacketsEnds
  BY <1>5, <1>t DEF ReclaimAllPacketsEnds, userVars, queues
<1>6. CASE PopCommand \/ ReturnCommand \/ ProcessAllocCommandQEnds
  <2>1. CASE PopCommand
    <3>1. ncmd' \in Commands
      BY <2>1, HeadTailProperties DEF PopCommand, TypeOK
    <3>2. npc = "commands" /\ npc' \in {"alloc_cmd", "return", "undefined"}
      BY <2>1, <3>1 DEF PopCommand, Commands
    <3> QED BY <2>1, <3>2, <1>t DEF PopCommand, userVars
  <2>2. CASE ReturnCommand \/ ProcessAllocCommandQEnds
    BY <2>2, <1>t DEF ReturnCommand, ProcessAllocCommandQEnds, userVars, queues
  <2> QED BY <1>6, <2>1, <2>2
<1>7. ASSUME NEW id \in Ids, NEW place \in Places, AllocPacket(id, place)
      PROVE  RoomMade'
  BY <1>7, <1>t DEF AllocPacket, userVars, queues
<1>8. CASE PushPacket
  <2>1. Len(allocPacketQ') = Len(allocPacketQ) + 1
    BY <1>8 DEF TypeOK, PushPacket
  <2> QED BY <1>8, <1>t, <2>1 DEF PushPacket, userVars
<1>9. CASE CycleEnds
  BY <1>9, <1>t DEF CycleEnds, userVars, queues
<1>10. CASE \/ RepostAlloc \/ CommandPoolRace \/ RepostConnect \/ RepostCopied
            \/ RepostPublished \/ PublishTogether
  BY <1>10, <1>t DEF RepostAlloc, CommandPoolRace, RepostConnect, RepostCopied,
                     RepostPublished, PublishTogether, PushSample, PushCopy, PushPublish,
                     userVars, queues
<1>11. CASE UNCHANGED vars
  BY <1>11 DEF vars, userVars, netVars, queues
<1> QED BY <1>1, <1>2, <1>3, <1>4, <1>5, <1>6, <1>7, <1>8, <1>9, <1>10, <1>11
        DEF Next, User, Network

-----------------------------------------------------------------------------
(* The member msgid.                                                       *)

\* MsgidIsLatest is kept by every step of the two threads.
LEMMA MsgidStep ==
  ASSUME TypeOK, PacketFilled, MsgidIsLatest, [Next]_vars
  PROVE  MsgidIsLatest'
<1> USE DEF MsgidIsLatest, Later
<1>t. allocPacketQ \in Seq(Packets) /\ DOMAIN allocPacketQ = 1 .. Len(allocPacketQ)
      /\ Len(allocPacketQ) \in Nat
  BY DEF TypeOK
<1>1. CASE RunGetPacketCycleOnce
  <2>1. CASE allocPacketQ # <<>>
    <3> DEFINE q == allocPacketQ
    <3>1. /\ packet' = q[1] /\ allocPacketQ' = Tail(q)
          /\ npacket' = npacket /\ msgid' = msgid
      BY <1>1, <2>1, <1>t DEF RunGetPacketCycleOnce, netVars
    <3>2. /\ Tail(q) \in Seq(Packets) /\ Len(Tail(q)) = Len(q) - 1
          /\ \A i \in 1 .. Len(Tail(q)) : Tail(q)[i] = q[i + 1]
          /\ DOMAIN Tail(q) = 1 .. Len(q) - 1
      BY <2>1, <1>t, HeadTailProperties, LenProperties
    <3>3. ASSUME NEW i \in 0 .. Len(q) - 1, Later(i)' = {}
          PROVE  Later(i + 1) = {}
      <4>1. ASSUME NEW j \in DOMAIN q, j > i + 1, q[j].data = "msgid"
            PROVE  FALSE
        <5>1. j - 1 \in DOMAIN allocPacketQ' /\ j - 1 > i /\ allocPacketQ'[j - 1] = q[j]
          BY <4>1, <3>1, <3>2, <1>t
        <5> QED BY <5>1, <4>1, <3>3
      <4> QED BY <4>1
    <3>4. 1 \in DOMAIN q
      BY <2>1, <1>t
    <3>5. packet'.data = "msgid" /\ npacket'.data # "msgid" /\ Later(0)' = {}
            => packet'.id = msgid'
      BY <3>1, <3>3, <3>4, <1>t
    <3>6. ASSUME npacket'.data # "msgid", NEW i \in DOMAIN allocPacketQ',
                 allocPacketQ'[i].data = "msgid", Later(i)' = {}
          PROVE  allocPacketQ'[i].id = msgid'
      <4>1. i + 1 \in DOMAIN q /\ allocPacketQ'[i] = q[i + 1] /\ i \in 0 .. Len(q) - 1
        BY <3>1, <3>2, <3>6, <1>t
      <4> QED BY <4>1, <3>1, <3>3, <3>6
    <3> QED BY <3>1, <3>5, <3>6
  <2>2. CASE allocPacketQ = <<>>
    BY <1>1, <2>2 DEF RunGetPacketCycleOnce, netVars
  <2> QED BY <2>1, <2>2
<1>2. CASE reclaim_packet
  BY <1>2 DEF reclaim_packet, NoPacket, netVars
<1>3. ASSUME NEW id \in Ids, NEW place \in Places, AllocPacket(id, place)
      PROVE  MsgidIsLatest'
  <2>1. npacket' = [id |-> id, data |-> place] /\ UNCHANGED <<allocPacketQ, packet>>
        /\ msgid' = (IF place = "msgid" THEN id ELSE msgid) /\ npc = "datagrams"
    BY <1>3 DEF AllocPacket, userVars, queues
  <2>2. CASE place = "msgid"
    BY <2>1, <2>2
  <2>3. CASE place # "msgid"
    BY <2>1, <2>3 DEF PacketFilled, NoPacket
  <2> QED BY <2>2, <2>3
<1>4. CASE PushPacket
  <2> DEFINE q == allocPacketQ
  <2>1. /\ npacket \in Packets /\ npacket' = NoPacket /\ npacket'.data # "msgid"
        /\ allocPacketQ' = Append(q, npacket) /\ UNCHANGED <<packet, msgid>>
    BY <1>4 DEF PushPacket, PacketFilled, NoPacket, userVars
  <2>2. /\ DOMAIN allocPacketQ' = 1 .. Len(q) + 1
        /\ \A i \in 1 .. Len(q) : allocPacketQ'[i] = q[i]
        /\ allocPacketQ'[Len(q) + 1] = npacket
    BY <2>1, <1>t
  <2>3. ASSUME NEW i \in 0 .. Len(q), Later(i)' = {}
        PROVE  npacket.data # "msgid" /\ Later(i) = {}
    BY <2>2, <2>3, <1>t
  <2>4. packet'.data = "msgid" /\ Later(0)' = {} => packet'.id = msgid'
    BY <2>1, <2>3, <1>t
  <2>5. ASSUME NEW i \in DOMAIN allocPacketQ',
               allocPacketQ'[i].data = "msgid", Later(i)' = {}
        PROVE  allocPacketQ'[i].id = msgid'
    <3>1. CASE i = Len(q) + 1
      BY <3>1, <2>1, <2>2, <2>5
    <3>2. CASE i \in 1 .. Len(q)
      BY <3>2, <2>1, <2>2, <2>3, <2>5, <1>t
    <3> QED BY <3>1, <3>2, <2>2, <1>t
  <2> QED BY <2>1, <2>4, <2>5
<1>5. CASE \/ AllocCommand \/ Connect_ \/ run_cmd \/ CommandCopied \/ CommandPublished
           \/ fetch_packet \/ ReclaimAllCommands \/ ReclaimAllPackets \/ ReclaimAllPacketsEnds
  BY <1>5 DEF AllocCommand, Connect_, run_cmd, CommandCopied, CommandPublished, fetch_packet,
              ReclaimAllCommands, ReclaimAllPackets, ReclaimAllPacketsEnds, PushSample,
              PushCopy, PushPublish, userVars, netVars, queues
<1>6. CASE \/ PopCommand \/ ReturnCommand \/ ProcessAllocCommandQEnds
           \/ CycleEnds \/ UNCHANGED vars
  BY <1>6 DEF PopCommand, ReturnCommand, ProcessAllocCommandQEnds, CycleEnds,
              vars, userVars, netVars, queues
<1>7. CASE \/ RepostAlloc \/ CommandPoolRace \/ RepostConnect \/ RepostCopied
           \/ RepostPublished \/ PublishTogether
  BY <1>7 DEF RepostAlloc, CommandPoolRace, RepostConnect, RepostCopied, RepostPublished,
              PublishTogether, PushSample, PushCopy, PushPublish, userVars, queues
<1> QED BY <1>1, <1>2, <1>3, <1>4, <1>5, <1>6, <1>7 DEF Next, User, Network

-----------------------------------------------------------------------------
(* The ring of commands.                                                   *)

\* While no two pushes have overlapped, the one producer that has sampled the
\* ring keeps the room it saw.
RingExact ==
  ~ overlapped =>
    /\ size <= Cap /\ ncmd # "stale"
    /\ ~ (InPush(upc) /\ InPush(npc))
    /\ InPush(upc) \/ InPush(npc) => size < Cap
    /\ \A i \in 1 .. Cap :
         ring[i] # "stale" <=> (i <= size \/ (i = size + 1 /\ "publish" \in {upc, npc}))

\* RingExact is kept by every step of the two threads.
LEMMA RingStep ==
  ASSUME TypeOK, RingExact, [Next]_vars
  PROVE  RingExact'
<1>t. /\ Cap \in Nat \ {0} /\ size \in Nat /\ ring \in Seq(Commands) /\ Len(ring) = Cap
      /\ DOMAIN ring = 1 .. Cap /\ cmd \in {"other", "connect"}
  BY UserPipelineAssumption, LenProperties DEF TypeOK
<1>1. CASE run_cmd
  <2>1. /\ UNCHANGED <<ring, size, ncmd, npc>> /\ size # Cap
        /\ upc = "run_cmd" /\ upc' = "copy" /\ overlapped' = (overlapped \/ InPush(npc))
    BY <1>1 DEF run_cmd, PushSample, Room, netVars, allocCommandQ
  <2> SUFFICES ASSUME ~ overlapped, ~ InPush(npc)
               PROVE  RingExact'
    BY <2>1 DEF RingExact
  <2>2. size < Cap /\ ncmd # "stale" /\ "publish" \notin {upc, npc}
    BY <2>1, <1>t DEF RingExact, InPush
  <2>3. \A i \in 1 .. Cap : ring[i] # "stale" <=> i <= size
    BY <2>2 DEF RingExact
  <2>4. "publish" \notin {upc', npc'} /\ ~ InPush(npc')
    BY <2>1, <2>2
  <2> QED BY <2>1, <2>2, <2>3, <2>4, <1>t DEF RingExact
<1>2. CASE RepostConnect
  <2>1. /\ UNCHANGED <<ring, size, ncmd, upc>> /\ size # Cap
        /\ npc = "run_cmd" /\ npc' = "copy" /\ overlapped' = (overlapped \/ InPush(upc))
    BY <1>2 DEF RepostConnect, PushSample, Room, userVars, allocCommandQ
  <2> SUFFICES ASSUME ~ overlapped, ~ InPush(upc)
               PROVE  RingExact'
    BY <2>1 DEF RingExact
  <2>2. size < Cap /\ ncmd # "stale" /\ "publish" \notin {upc, npc}
    BY <2>1, <1>t DEF RingExact, InPush
  <2>3. \A i \in 1 .. Cap : ring[i] # "stale" <=> i <= size
    BY <2>2 DEF RingExact
  <2>4. "publish" \notin {upc', npc'} /\ ~ InPush(upc')
    BY <2>1, <2>2
  <2> QED BY <2>1, <2>2, <2>3, <2>4, <1>t DEF RingExact
<1>3. ASSUME NEW e \in {"other", "connect"}, PushCopy(e), ~ Undefined,
             \/ upc = "copy" /\ upc' = "publish" /\ npc' = npc
             \/ npc = "copy" /\ npc' = "publish" /\ upc' = upc,
             ncmd' = ncmd
      PROVE  RingExact'
  <2> SUFFICES ASSUME ~ overlapped
               PROVE  RingExact'
    BY <1>3 DEF PushCopy, RingExact
  <2>1. size < Cap /\ size' = size /\ overlapped' = overlapped
        /\ ~ (InPush(upc') /\ InPush(npc')) /\ ncmd # "stale"
        /\ \A i \in 1 .. Cap : ring[i] # "stale" <=> i <= size
    BY <1>3, <1>t DEF PushCopy, RingExact, InPush
  <2>2. size % Cap = size
    BY <2>1, <1>t
  <2>3. /\ size + 1 \in DOMAIN ring /\ ring' = [ring EXCEPT ![size + 1] = e]
        /\ "publish" \in {upc', npc'}
    <3>1. size + 1 \in 1 .. Cap
      BY <2>1, <1>t
    <3>2. ring' = [ring EXCEPT ![(size % Cap) + 1] = e]
      BY <1>3 DEF PushCopy
    <3> QED BY <1>3, <1>t, <2>2, <3>1, <3>2
  <2>4. \A i \in 1 .. Cap : ring'[i] # "stale" <=> (i <= size \/ i = size + 1)
    BY <2>1, <2>3, <1>t
  <2> QED BY <2>1, <2>3, <2>4, <1>3, <1>t DEF RingExact
<1>4. CASE CommandCopied /\ ~ Undefined
  BY <1>3, <1>4, <1>t DEF CommandCopied, netVars
<1>5. CASE RepostCopied /\ ~ Undefined
  BY <1>3, <1>5, <1>t DEF RepostCopied, userVars
<1>6. ASSUME PushPublish, ncmd' = ncmd,
             \/ upc = "publish" /\ upc' = "run" /\ npc' = npc
             \/ npc = "publish" /\ npc' = "return" /\ upc' = upc
             \/ upc = "publish" /\ npc = "publish"
      PROVE  RingExact'
  <2> SUFFICES ASSUME ~ overlapped
               PROVE  RingExact'
    BY <1>6 DEF PushPublish, RingExact
  <2>1. size < Cap /\ size' = size + 1 /\ overlapped' = overlapped /\ ring' = ring
        /\ ncmd # "stale" /\ ~ (InPush(upc) /\ InPush(npc)) /\ "publish" \in {upc, npc}
    BY <1>6 DEF PushPublish, RingExact, InPush
  <2>2. \A i \in 1 .. Cap : ring[i] # "stale" <=> i <= size + 1
    BY <2>1, <1>t DEF RingExact
  <2>3. ~ InPush(upc') /\ ~ InPush(npc') /\ "publish" \notin {upc', npc'}
    BY <2>1, <1>6 DEF InPush
  <2> QED BY <2>1, <2>2, <2>3, <1>6, <1>t DEF RingExact
<1>7. CASE CommandPublished
  BY <1>6, <1>7 DEF CommandPublished, netVars
<1>8. CASE RepostPublished
  BY <1>6, <1>8 DEF RepostPublished, userVars
<1>9. CASE PublishTogether
  BY <1>6, <1>9 DEF PublishTogether
<1>10. CASE PopCommand
  <2> SUFFICES ASSUME ~ overlapped
               PROVE  RingExact'
    BY <1>10 DEF PopCommand, RingExact
  <2>1. /\ size \in 1 .. Cap /\ size' = size - 1 /\ overlapped' = overlapped
        /\ upc' = upc /\ npc = "commands" /\ ncmd' = Head(ring)
        /\ ring' = Append(Tail(ring), "stale")
    BY <1>10, <1>t DEF PopCommand, RingExact, TypeOK, userVars
  <2>2. ring # <<>> /\ Head(ring) = ring[1] /\ 1 \in 1 .. Cap
    BY <1>t, <2>1
  <2>3. ncmd' # "stale"
    BY <2>1, <2>2, <1>t DEF RingExact
  <2>4. ~ InPush(npc') /\ npc' # "publish" /\ ~ InPush(npc) /\ npc # "publish"
    <3>1. ncmd' \in {"other", "connect"}
      BY <2>1, <2>2, <2>3, <1>t DEF Commands
    <3>2. npc' \in {"alloc_cmd", "return"}
      BY <1>10, <3>1 DEF PopCommand
    <3> QED BY <2>1, <3>2 DEF InPush
  <2>5. /\ \A i \in 1 .. Cap - 1 : ring'[i] = ring[i + 1]
        /\ ring'[Cap] = "stale"
    <3>1. Tail(ring) \in Seq(Commands) /\ Len(Tail(ring)) = Cap - 1
          /\ \A i \in 1 .. Cap - 1 : Tail(ring)[i] = ring[i + 1]
      BY <1>t, <2>2, HeadTailProperties
    <3> QED BY <2>1, <3>1, <1>t, AppendProperties DEF Commands
  <2>6. InPush(upc) => size < Cap
    BY DEF RingExact
  <2>7. upc = "publish" => size < Cap
    BY <2>6 DEF InPush
  <2>8. ASSUME NEW i \in 1 .. Cap
        PROVE  ring'[i] # "stale" <=> (i <= size - 1 \/ (i = size /\ upc = "publish"))
    <3>1. CASE i = Cap
      BY <3>1, <2>1, <2>5, <2>7, <1>t
    <3>2. CASE i # Cap
      <4>1. i \in 1 .. Cap - 1 /\ i + 1 \in 1 .. Cap /\ ring'[i] = ring[i + 1]
        BY <3>2, <2>5, <1>t
      <4>2. ring[i + 1] # "stale"
              <=> (i + 1 <= size \/ (i + 1 = size + 1 /\ "publish" \in {upc, npc}))
        BY <4>1 DEF RingExact
      <4> QED BY <4>1, <4>2, <2>1, <2>4, <1>t
    <3> QED BY <3>1, <3>2
  <2> QED BY <2>1, <2>3, <2>4, <2>6, <2>8, <1>t DEF RingExact, InPush
<1>11. CASE AllocCommand \/ Connect_ \/ fetch_packet \/ ReclaimAllCommands
  BY <1>11 DEF AllocCommand, Connect_, fetch_packet, ReclaimAllCommands, InPush, RingExact,
               netVars, queues, allocCommandQ
<1>12. CASE RunGetPacketCycleOnce \/ reclaim_packet
  BY <1>12 DEF RunGetPacketCycleOnce, reclaim_packet, InPush, RingExact, netVars, allocCommandQ
<1>13. CASE ReclaimAllPackets \/ ReclaimAllPacketsEnds \/ RepostAlloc \/ CommandPoolRace
  BY <1>13 DEF ReclaimAllPackets, ReclaimAllPacketsEnds, RepostAlloc, CommandPoolRace, InPush,
               RingExact, userVars, queues, allocCommandQ
<1>14. CASE ReturnCommand \/ ProcessAllocCommandQEnds \/ PushPacket \/ CycleEnds
  BY <1>14 DEF ReturnCommand, ProcessAllocCommandQEnds, PushPacket, CycleEnds, InPush,
               RingExact, userVars, queues, allocCommandQ
<1>15. ASSUME NEW id \in Ids, NEW place \in Places, AllocPacket(id, place)
      PROVE  RingExact'
  BY <1>15 DEF AllocPacket, InPush, RingExact, userVars, queues, allocCommandQ
<1>16. CASE UNCHANGED vars
  BY <1>16 DEF vars, userVars, netVars, queues, allocCommandQ, RingExact, InPush
<1> QED BY <1>1, <1>2, <1>4, <1>5, <1>7, <1>8, <1>9, <1>10, <1>11, <1>12, <1>13, <1>14,
           <1>15, <1>16
        DEF Next, User, Network

-----------------------------------------------------------------------------
(* The theorems.                                                           *)

\* So all parts hold in every state.
LEMMA PipelineInvariant == Spec => [](PipelineInv /\ RingExact)
<1>1. Init => PipelineInv /\ RingExact
  <2> SUFFICES ASSUME Init PROVE PipelineInv /\ RingExact
    OBVIOUS
  <2>1. TypeOK /\ PacketFilled
    <3>1. ring \in Seq(Commands) /\ Len(ring) = Cap
      <4>1. ring \in [1 .. Cap -> Commands] /\ Cap \in Nat
        BY UserPipelineAssumption DEF Init, Commands
      <4> QED BY <4>1, SeqDef, LenProperties
    <3>2. 0 \in 0 .. Cap /\ 0 \in 0 .. Cap + 1 /\ 0 \in 0 .. MaxCommands /\ 0 \in 0 .. MaxConnects
          /\ 0 \in 0 .. MaxRaised
      BY UserPipelineAssumption
    <3>3. allocPacketQ \in Seq(Packets) /\ Len(allocPacketQ) <= Cap
      BY UserPipelineAssumption DEF Init
    <3>4. deAllocCommandQ \in 0 .. Cap /\ deAllocPacketQ \in 0 .. Cap /\ uindex \in 0 .. Cap
          /\ size \in 0 .. Cap + 1 /\ nindex \in Nat
      BY <3>2 DEF Init
    <3> QED BY <3>1, <3>2, <3>3, <3>4 DEF Init, TypeOK, PacketFilled, Commands
  <2>2. RoomMade
    BY UserPipelineAssumption DEF Init, RoomMade, Out
  <2>3. MsgidIsLatest
    BY DEF Init, MsgidIsLatest, NoPacket
  <2>4. RingExact
    BY UserPipelineAssumption DEF Init, RingExact, InPush
  <2> QED BY <2>1, <2>2, <2>3, <2>4 DEF PipelineInv
<1>2. PipelineInv /\ RingExact /\ [Next]_vars => (PipelineInv /\ RingExact)'
  BY TypeStep, RoomStep, MsgidStep, RingStep DEF PipelineInv
<1> QED BY <1>1, <1>2, PTL DEF Spec

\* Whatever the capacity of the queues, the user in reclaim_packet and the
\* network thread in PushPacket wait for each other only after a cycle that
\* raised more than half a queue of packets (geco_application.cpp:643).
THEOREM PacketDeadlockOnlyByBurst == Spec => []PacketDeadlockNeedsBurst
<1>1. PipelineInv => PacketDeadlockNeedsBurst
  <2> SUFFICES ASSUME PipelineInv, UserBlocked, NetworkBlocked, upc = "use", npc = "raise"
               PROVE  raised > (Cap + 1) \div 2
    BY DEF PacketDeadlockNeedsBurst
  <2>1. Len(allocPacketQ) = Cap /\ deAllocPacketQ = Cap
    BY DEF UserBlocked, NetworkBlocked
  <2>2. Cap \in Nat /\ raised \in Nat /\ 2 * Cap + 2 <= Cap + 1 + Cap \div 2 + raised
    BY <2>1, UserPipelineAssumption DEF PipelineInv, TypeOK, RoomMade, Out
  <2> QED BY <2>2
<1> QED BY <1>1, PipelineInvariant, PTL

\* A packet that points to msgid is misread only while a later one, which has
\* overwritten it, is on its way (geco_application.cpp:614).
THEOREM MisreadOnlyOvertaken == Spec => []MisreadOnlyIfOvertaken
<1>1. PipelineInv => MisreadOnlyIfOvertaken
  <2> SUFFICES ASSUME PipelineInv, packet.data = "msgid", msgid # packet.id
               PROVE  [id |-> msgid, data |-> "msgid"] \in {npacket} \cup Range(allocPacketQ)
    BY DEF MisreadOnlyIfOvertaken
  <2> USE DEF PipelineInv, MsgidIsLatest
  <2>1. CASE npacket.data = "msgid"
    <3>1. npacket \in Packets
      BY <2>1 DEF PacketFilled, NoPacket
    <3> QED BY <3>1, <2>1 DEF Packets
  <2>2. CASE npacket.data # "msgid"
    <3>1. Later(0) # {}
      BY <2>2
    <3>2. PICK i \in Later(0) : \A j \in Later(0) : j <= i
      <4>1. Later(0) \subseteq 1 .. Len(allocPacketQ) /\ Len(allocPacketQ) \in Nat
        BY DEF Later, TypeOK
      <4> QED BY <4>1, <3>1, LastOfRange
    <3>3. Later(i) = {} /\ i \in DOMAIN allocPacketQ /\ allocPacketQ[i].data = "msgid"
      BY <3>2 DEF Later, TypeOK
    <3>4. allocPacketQ[i].id = msgid /\ allocPacketQ[i] \in Packets
      BY <3>3, <2>2 DEF TypeOK
    <3>5. allocPacketQ[i] = [id |-> msgid, data |-> "msgid"]
      BY <3>3, <3>4 DEF Packets
    <3> QED BY <3>3, <3>5 DEF Range
  <2> QED BY <2>1, <2>2
<1> QED BY <1>1, PipelineInvariant, PTL

\* Whatever the capacity of the queues, a command that is posted is taken, and
\* taken once, unless a push by the user has overlapped with one by the network
\* thread, the second producer of allocCommandQ (geco_application.cpp:2836).
THEOREM CommandsKept == Spec => []CommandsKeptUnlessOverlapped
<1>1. PipelineInv /\ RingExact => CommandsKeptUnlessOverlapped
  BY DEF PipelineInv, RingExact, CommandsKeptUnlessOverlapped
<1> QED BY <1>1, PipelineInvariant, PTL
=============================================================================
