---------------------------- MODULE RemoteSystems ----------------------------
(***************************************************************************)
(* The table of remote systems (remoteSystemList, remoteSystemLookup and   *)
(* activeSystemList in src/geco_application.cpp) and the handlers of the   *)
(* network thread that change it: ID_OPEN_CONNECTION_REQUEST_2 on a server *)
(* without secure connections, ID_OPEN_CONNECTION_REPLY_2 on a client, and *)
(* the user's commands BCS_SEND and BCS_CHANGE_SYSTEM_ADDRESS.             *)
(*                                                                         *)
(* A slot is found by address through a hash table whose chains hold slot  *)
(* numbers, and by guid through a scan.  isActive is never reset, and      *)
(* limitConnFrequencyOfSameClient is never set, so nothing is refused for  *)
(* coming too often.  A guid is read from the datagram as it is and may be *)
(* JACKIE_NULL_GUID.  Assertions are off (NDEBUG); with them on, the one   *)
(* in RefRemoteEndPoint stops the program at every change of address.      *)
(***************************************************************************)
EXTENDS Naturals, Sequences, FiniteSets, SequencesExt

CONSTANTS
  Addrs, Guids,
  NullAddr, NullGuid,
  maxConnections,
  Buckets, Hash,     \* ToHashCode modulo the size of the hash table
  MaxBadAnswers      \* slots that bad answers take (bound)

ASSUME TableAssumption ==
  /\ maxConnections \in Nat \ {0} /\ MaxBadAnswers \in Nat
  /\ Hash \in [Addrs -> Buckets]
  /\ NullAddr \notin Addrs /\ NullGuid \notin Guids

Received == Guids \cup {NullGuid}    \* guids that a datagram can carry
Slots == 0 .. maxConnections - 1
NoSlot == maxConnections    \* stands for -1 and for a null pointer

VARIABLES
  systemAddress, guid, isActive, connectMode, weInitiateConnection, \* by slot
  remoteSystemLookup,  \* the chain of each bucket
  activeSystemList,    \* its first activeSystemListSize entries
  reply,               \* what the last handler answered the sender
  unanswered           \* slots that OnConnectionReply2 took and left for a bad answer

slotVars == <<systemAddress, guid, isActive, connectMode, weInitiateConnection>>
vars == <<slotVars, remoteSystemLookup, activeSystemList, reply, unanswered>>

\* The code tells only two modes apart; "other" is REQUESTED_CONNECTION too.
Modes == {"NO_ACTION", "UNVERIFIED_SENDER", "CONNECTED", "other"}
Messages == {"reply2", "already_connected", "cannot_accept", "none"}

Init ==
  /\ systemAddress = [s \in Slots |-> NullAddr] /\ guid = [s \in Slots |-> NullGuid]
  /\ isActive = [s \in Slots |-> FALSE] /\ connectMode = [s \in Slots |-> "NO_ACTION"]
  /\ weInitiateConnection = [s \in Slots |-> FALSE]
  /\ remoteSystemLookup = [b \in Buckets |-> <<>>]
  /\ activeSystemList = <<>>
  /\ reply = "none" /\ unanswered = {}

-----------------------------------------------------------------------------
(* Finding a slot.                                                         *)

\* Place in the chain of the first slot with address a, or 0.
Place(lookup, a) == SelectInSeq(lookup[Hash[a]], LAMBDA s : systemAddress[s] = a)

GetRemoteSystemIndex(a) ==
  LET place == Place(remoteSystemLookup, a) IN
    IF place = 0 THEN NoSlot ELSE remoteSystemLookup[Hash[a]][place]

\* GetRemoteSystem(a, true, true)
ByAddress(a) ==
  LET s == GetRemoteSystemIndex(a) IN
    IF s # NoSlot /\ isActive[s] THEN s ELSE NoSlot

LowestOf(S) == IF S = {} THEN NoSlot ELSE CHOOSE s \in S : \A t \in S : s <= t

\* GetRemoteSystem(g, true)
ByGuid(g) ==
  IF g = NullGuid THEN NoSlot ELSE LowestOf({s \in Slots : isActive[s] /\ guid[s] = g})

-----------------------------------------------------------------------------
(* Changing the table.                                                     *)

DeRefNothing(lookup, a) == lookup
DeRefRemoteSystem(lookup, a) ==
  LET place == Place(lookup, a) IN
    IF place = 0 THEN lookup ELSE [lookup EXCEPT ![Hash[a]] = RemoveAt(@, place)]

RefRemoteEndPoint(a, s) ==
  LET old == systemAddress[s]
      dropped == IF old # NullAddr /\ GetRemoteSystemIndex(old) = s
                 THEN DeRefRemoteSystem(remoteSystemLookup, old)
                 ELSE remoteSystemLookup
  IN
    /\ remoteSystemLookup' =
         [DeRefRemoteSystem(dropped, a) EXCEPT ![Hash[a]] = Append(@, s)]
    /\ systemAddress' = [systemAddress EXCEPT ![s] = a]

FreeSlot == LowestOf({s \in Slots : ~ isActive[s]})

\* Add2RemoteSystemList when a slot is free, and what its caller then sets.
Add2RemoteSystemList(a, g, mode, ours) ==
  /\ FreeSlot # NoSlot
  /\ RefRemoteEndPoint(a, FreeSlot)
  /\ guid' = [guid EXCEPT ![FreeSlot] = g]
  /\ isActive' = [isActive EXCEPT ![FreeSlot] = TRUE]
  /\ connectMode' = [connectMode EXCEPT ![FreeSlot] = mode]
  /\ weInitiateConnection' = [weInitiateConnection EXCEPT ![FreeSlot] = ours]
  /\ activeSystemList' = Append(activeSystemList, FreeSlot)

Unchanged == UNCHANGED <<slotVars, remoteSystemLookup, activeSystemList, unanswered>>

-----------------------------------------------------------------------------
(* The server's OnConnectionRequest2, by its outcome.                      *)

\* Outcome 1: the request came before, "Send back the same answer".
RequestRepeated(a, g) ==
  /\ ByAddress(a) # NoSlot /\ ByAddress(a) = ByGuid(g)
  /\ connectMode[ByAddress(a)] = "UNVERIFIED_SENDER"
  /\ reply' = "reply2"
  /\ Unchanged

\* Outcomes 2, 3 and 4: the address or the guid is taken.
RequestTaken(a, g) ==
  /\ ByAddress(a) # NoSlot \/ ByGuid(g) # NoSlot
  /\ ~ (ByAddress(a) = ByGuid(g) /\ connectMode[ByAddress(a)] = "UNVERIFIED_SENDER")
  /\ reply' = "already_connected"
  /\ Unchanged

NewAddress(a, g) == ByAddress(a) = NoSlot
NewGuid(a, g) == ByGuid(g) = NoSlot

\* Outcome 0: a new peer.
NewPeer(a, g) == ByAddress(a) = NoSlot /\ ByGuid(g) = NoSlot

IncomingConnections ==
  {i \in DOMAIN activeSystemList :
     LET s == activeSystemList[i] IN
       isActive[s] /\ connectMode[s] = "CONNECTED" /\ ~ weInitiateConnection[s]}

CanAcceptIncomingConnection == Cardinality(IncomingConnections) < maxConnections

RequestNotAccepted(a, g) ==
  /\ NewPeer(a, g)
  /\ ~ CanAcceptIncomingConnection
  /\ reply' = "cannot_accept"
  /\ Unchanged

RequestAccepted(a, g) ==
  /\ NewPeer(a, g)
  /\ CanAcceptIncomingConnection
  /\ Add2RemoteSystemList(a, g, "UNVERIFIED_SENDER", FALSE)
  /\ reply' = "reply2"
  /\ UNCHANGED unanswered

\* No slot is free, and the answer is the same.
RequestWithoutSlot(a, g) ==
  /\ NewPeer(a, g)
  /\ CanAcceptIncomingConnection
  /\ FreeSlot = NoSlot
  /\ reply' = "reply2"
  /\ Unchanged

-----------------------------------------------------------------------------
(* The client's OnConnectionReply2 to a request of ours, while the request *)
(* is in connReqQ (module ConnectionRequests).  SendImmediate is not given *)
(* a receiver, so ID_CONNECTION_REQUEST is never sent.                     *)

\* "You might get this when already connected because of cross-connections"
ReplyCrossed(a) ==
  /\ ByAddress(a) # NoSlot
  /\ weInitiateConnection' = [weInitiateConnection EXCEPT ![ByAddress(a)] = TRUE]
  /\ connectMode' = [connectMode EXCEPT ![ByAddress(a)] = "other"]
  /\ reply' = "none"
  /\ UNCHANGED <<systemAddress, guid, isActive, remoteSystemLookup, activeSystemList,
                 unanswered>>

\* The guid is not looked up: "server will verify".
ReplyAccepted(a, g) ==
  /\ ByAddress(a) = NoSlot
  /\ Add2RemoteSystemList(a, g, "other", TRUE)
  /\ reply' = "none"
  /\ UNCHANGED unanswered

\* The server's answer to our challenge is bad: the handler returns and keeps
\* the slot it has just taken.
ReplyBadAnswer(a, g) ==
  /\ Cardinality(unanswered) < MaxBadAnswers
  /\ ByAddress(a) = NoSlot
  /\ Add2RemoteSystemList(a, g, "UNVERIFIED_SENDER", FALSE)
  /\ reply' = "none"
  /\ unanswered' = unanswered \cup {FreeSlot}

ReplyBadAnswerCrossed(a) ==
  /\ ByAddress(a) # NoSlot
  /\ reply' = "none"
  /\ Unchanged

\* ID_CONNECTION_ATTEMPT_FAILED goes to the user.
ReplyWithoutSlot(a) ==
  /\ ByAddress(a) = NoSlot
  /\ FreeSlot = NoSlot
  /\ reply' = "none"
  /\ Unchanged

-----------------------------------------------------------------------------
(* Commands of the user.                                                   *)

\* BCS_SEND with a repStatus, to the slot that guid or address denotes.
SendCommand(s, mode) ==
  /\ s # NoSlot
  /\ mode # "NO_ACTION"
  /\ connectMode' = [connectMode EXCEPT ![s] = mode]
  /\ reply' = "none"
  /\ UNCHANGED <<systemAddress, guid, isActive, weInitiateConnection,
                 remoteSystemLookup, activeSystemList, unanswered>>

\* BCS_CHANGE_SYSTEM_ADDRESS, for the slot that guid or address denotes.  That
\* no other system has the new address is the caller's duty.
ChangeSystemAddress(s, a) ==
  /\ s # NoSlot
  /\ \A t \in Slots \ {s} : systemAddress[t] # a
  /\ RefRemoteEndPoint(a, GetRemoteSystemIndex(systemAddress[s]))
  /\ reply' = "none"
  /\ UNCHANGED <<guid, isActive, connectMode, weInitiateConnection, activeSystemList,
                 unanswered>>

-----------------------------------------------------------------------------
OnConnectionRequest2(a, g) ==
  \/ RequestRepeated(a, g) \/ RequestTaken(a, g) \/ RequestNotAccepted(a, g)
  \/ RequestAccepted(a, g) \/ RequestWithoutSlot(a, g)

OnConnectionReply2(a) ==
  \/ ReplyCrossed(a) \/ ReplyWithoutSlot(a) \/ ReplyBadAnswerCrossed(a)
  \/ \E g \in Received : ReplyAccepted(a, g) \/ ReplyBadAnswer(a, g)

Commands ==
  \/ \E s \in {ByGuid(g) : g \in Guids} \cup {ByAddress(a) : a \in Addrs}, mode \in Modes :
       SendCommand(s, mode)
  \/ \E g \in Guids, a \in Addrs : ChangeSystemAddress(ByGuid(g), a)
  \/ \E a \in Addrs : ChangeSystemAddress(ByAddress(a), a)

Next ==
  \/ \E a \in Addrs, g \in Received : OnConnectionRequest2(a, g)
  \/ \E a \in Addrs : OnConnectionReply2(a)
  \/ Commands

Spec == Init /\ [][Next]_vars

-----------------------------------------------------------------------------
\* Types; activeSystemList stays within its array.
TypeOK ==
  /\ systemAddress \in [Slots -> Addrs \cup {NullAddr}]
  /\ guid \in [Slots -> Received]
  /\ isActive \in [Slots -> BOOLEAN] /\ connectMode \in [Slots -> Modes]
  /\ weInitiateConnection \in [Slots -> BOOLEAN]
  /\ remoteSystemLookup \in [Buckets -> Seq(Slots)]
  /\ activeSystemList \in Seq(Slots) /\ Len(activeSystemList) <= maxConnections
  /\ reply \in Messages /\ unanswered \subseteq Slots

\* "assert(hashIndex == remoteSystemIndex)" (geco_application.cpp:2268): the
\* hash table leads from the address of every active slot to that slot,
\* through collisions and changes of address.
LookupFindsActive ==
  \A s \in Slots : isActive[s] => GetRemoteSystemIndex(systemAddress[s]) = s

\* The chains hold each active slot once, in its bucket, and nothing else: no
\* JackieRemoteIndex is lost or left behind.
ChainsExact ==
  \A b \in Buckets :
    /\ IsInjective(remoteSystemLookup[b])
    /\ ToSet(remoteSystemLookup[b]) =
         {s \in Slots : isActive[s] /\ Hash[systemAddress[s]] = b}

\* The table of slots and the hash table over it agree, and stay well formed,
\* in every order of requests, replies, disconnects and changes of address.
TableExact == TypeOK /\ ChainsExact /\ LookupFindsActive

\* "ID_ALREADY_CONNECTED (someone else took this guid)"
\* (geco_application.cpp:1057): two systems that connected to us have
\* different guids, although our own connections are not checked for theirs.
\* The exceptions are the null guid, which is never found (2223), and the
\* slots that a bad answer left (1653, 1677), which look like incoming ones.
IncomingGuidsUnique ==
  \A s, t \in Slots \ unanswered :
    /\ isActive[s] /\ ~ weInitiateConnection[s]
    /\ isActive[t] /\ ~ weInitiateConnection[t]
    /\ guid[s] = guid[t] /\ guid[s] # NullGuid
    => s = t

\* "Duplicate connection request packet from packetloss.  Send back the same
\* answer" (geco_application.cpp:1122): as long as an incoming connection is
\* unverified, a repetition of its request is not refused.  The exceptions
\* are the same.
ReplyRepeated ==
  [][\A s \in Slots \ unanswered :
       /\ guid[s] # NullGuid
       /\ isActive[s] /\ ~ weInitiateConnection[s]
       /\ connectMode[s] = "UNVERIFIED_SENDER"
       /\ OnConnectionRequest2(systemAddress[s], guid[s])
       => reply' = "reply2"]_vars

\* The table is a register of peers by address.
Registry == INSTANCE PeerRegistry WITH
  Size <- maxConnections, Guids <- Received,
  peers <- {<<systemAddress[s], guid[s]>> : s \in {t \in Slots : isActive[t]}}

ImplementsRegistry == Registry!Spec
=============================================================================
