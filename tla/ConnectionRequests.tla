------------------------- MODULE ConnectionRequests -------------------------
(***************************************************************************)
(* The queue of pending connection requests that the user thread and the   *)
(* network thread share (connReqQ in src/geco_application.cpp).            *)
(*                                                                         *)
(* The user thread adds requests (Connect) and asks to cancel them         *)
(* (CancelConnectionRequest).  The network thread retries them             *)
(* (ProcessConnectionRequestQ) and removes them when a reply or a refusal  *)
(* arrives or when they have been tried often enough.  connReqQLock is a   *)
(* JackieSimpleMutex; its Lock and Unlock are single steps here, module    *)
(* SimpleMutex takes them apart.  Unlock asks neither whether the mutex is *)
(* locked nor by whom, and some paths of the code call it too often or not *)
(* at all, so what it then does to m_count is part of the model.  To       *)
(* unlock a free pthread mutex is undefined; glibc leaves it free.         *)
(*                                                                         *)
(* A reply is matched by address alone.  Whether it makes the client go    *)
(* on, refuse or run out of slots depends on its other fields, and all     *)
(* outcomes are possible here.  The schedule of the retries is that of     *)
(* module RequestSchedule, seen as some progress towards the last one, or  *)
(* as none.                                                                *)
(*                                                                         *)
(* connReqQ is a plain array (JackieArraryQueue).  Where the lock fails to *)
(* keep the threads apart, RemoveAtIndex of the network thread meets the   *)
(* search or the PushTail of the user thread, and the outcomes of that     *)
(* race are part of the model.  A request that was deleted and stays in    *)
(* the array is treated like any other.                                    *)
(***************************************************************************)
EXTENDS Naturals, Sequences, SequencesExt

CONSTANTS
  Peers,      \* addresses that datagrams come from
  Addrs,      \* the ones the user connects to
  NoAddr,
  Attempts,   \* stages of the retry schedule told apart, up to connAttemptTimes
  NPlugins,   \* pluginListNTS.Size()
  CountMod,   \* m_count is unsigned: 2^32
  MaxCalls,   \* calls of Connect the user makes (bound)
  MaxCancels  \* calls of CancelConnectionRequest (bound)

ASSUME RequestsAssumption ==
  /\ Addrs \subseteq Peers /\ NoAddr \notin Peers
  /\ Attempts \in Nat /\ NPlugins \in Nat /\ MaxCalls \in Nat /\ MaxCancels \in Nat
  /\ CountMod \in Nat /\ CountMod > 3

VARIABLES
  connReqQ,         \* pending requests: address and requestsMade
  connReqQLock,     \* m_count, m_threadID, and whether m_mutex is locked
  connReqCancelQ,   \* its length; the addresses in it are never read
  active,           \* addresses that have an active remote system
  upc, uaddr, uindex, calls,  \* user thread
  npc, ntask, naddr, nindex,  \* network thread
  raced             \* a request was removed while Connect was at the queue

user == <<upc, uaddr, uindex, calls>>
net == <<npc, ntask, naddr, nindex>>
vars == <<connReqQ, connReqQLock, connReqCancelQ, active, user, net, raced>>

Tasks == {"requests", "cancels", "reply1", "reply2", "failed"}
Requests == [addr : Addrs, made : 0 .. Attempts + 1]

Init ==
  /\ connReqQ = <<>> /\ connReqCancelQ = 0 /\ active = {}
  /\ connReqQLock = [count |-> 0, thread |-> "none", locked |-> FALSE]
  /\ upc = "run" /\ uaddr = NoAddr /\ uindex = 0 /\ calls = 0
  /\ npc = "cycle" /\ ntask = "requests" /\ naddr = NoAddr /\ nindex = 0
  /\ raced = FALSE

-----------------------------------------------------------------------------
(* connReqQLock.                                                           *)

Again(t) == connReqQLock.count # 0 /\ connReqQLock.thread = t

CanLock(t) == Again(t) \/ ~ connReqQLock.locked

Lock(t) ==
  /\ CanLock(t)
  /\ connReqQLock' = [count |-> (connReqQLock.count + 1) % CountMod,
                      thread |-> t, locked |-> TRUE]

UnlockedOnce(lock) ==
  IF lock.count > 1
  THEN [lock EXCEPT !.count = @ - 1]
  ELSE [count |-> (lock.count + CountMod - 1) % CountMod,
        thread |-> "none", locked |-> FALSE]

Unlock == connReqQLock' = UnlockedOnce(connReqQLock)

-----------------------------------------------------------------------------
(* User thread.                                                            *)

Pending(a) == \E i \in DOMAIN connReqQ : connReqQ[i].addr = a

\* Connect up to its Lock; ALREADY_CONNECTED_TO_ENDPOINT returns at once.
Connect(a) ==
  /\ upc = "run" /\ calls < MaxCalls
  /\ calls' = calls + 1
  /\ \/ /\ a \in active
        /\ UNCHANGED <<upc, uaddr>>
     \/ /\ a \notin active
        /\ upc' = "lock" /\ uaddr' = a
  /\ UNCHANGED <<connReqQ, connReqQLock, connReqCancelQ, active, uindex, net, raced>>

ConnectLock ==
  /\ upc = "lock"
  /\ Lock("user")
  /\ upc' = "search" /\ uindex' = 1
  /\ UNCHANGED <<connReqQ, connReqCancelQ, active, uaddr, calls, net, raced>>

Searching == upc = "search" /\ uindex <= Len(connReqQ)
SearchOn == uindex' = uindex + 1 /\ UNCHANGED <<upc, uaddr, calls>>
Return == upc' = "run" /\ uaddr' = NoAddr /\ uindex' = 0 /\ UNCHANGED calls

ConnectSkip ==
  /\ Searching
  /\ connReqQ[uindex].addr # uaddr
  /\ SearchOn
  /\ UNCHANGED <<connReqQ, connReqQLock, connReqCancelQ, active, net, raced>>

\* CONNECTION_ATTEMPT_ALREADY_IN_PROGRESS: returns without Unlock.
ConnectInProgress ==
  /\ Searching
  /\ connReqQ[uindex].addr = uaddr
  /\ Return
  /\ UNCHANGED <<connReqQ, connReqQLock, connReqCancelQ, active, net, raced>>

SearchedAllButLast == upc = "search" /\ uindex >= Len(connReqQ)
SearchedAll == upc = "search" /\ uindex > Len(connReqQ)

ConnectSearched ==
  /\ SearchedAll
  /\ upc' = "push" /\ uindex' = 0
  /\ UNCHANGED <<connReqQ, connReqQLock, connReqCancelQ, active, uaddr, calls, net, raced>>

Request == [addr |-> uaddr, made |-> 0]

ConnectPush ==
  /\ upc = "push"
  /\ connReqQ' = Append(connReqQ, Request)
  /\ upc' = "unlock"
  /\ UNCHANGED <<connReqQLock, connReqCancelQ, active, uaddr, uindex, calls, net, raced>>

\* CONNECTION_ATTEMPT_POSTED
ConnectUnlock ==
  /\ upc = "unlock"
  /\ Unlock
  /\ Return
  /\ UNCHANGED <<connReqQ, connReqCancelQ, active, net, raced>>

\* The network thread holds connReqCancelQLock while it handles the queue.
CancelQLocked == ntask = "cancels" /\ npc \in {"lock", "cancels"}

CancelConnectionRequest ==
  /\ upc = "run"
  /\ ~ CancelQLocked
  /\ connReqCancelQ < MaxCancels
  /\ connReqCancelQ' = connReqCancelQ + 1
  /\ UNCHANGED <<connReqQ, connReqQLock, active, user, net, raced>>

-----------------------------------------------------------------------------
(* Network thread.                                                         *)

\* The network thread starts one of its tasks: a datagram that arrived from
\* address a, or (with no address) the retries or the cancellations.
Begin(task, a) ==
  /\ npc = "cycle"
  /\ task \in {"requests", "cancels"} <=> a = NoAddr
  /\ task = "requests" => connReqQ # <<>>
  /\ task = "cancels" => connReqCancelQ > 0
  /\ npc' = "lock" /\ ntask' = task /\ naddr' = a /\ nindex' = 1
  /\ UNCHANGED <<connReqQ, connReqQLock, connReqCancelQ, active, user, raced>>

NetLock ==
  /\ npc = "lock"
  /\ Lock("network")
  /\ npc' = ntask
  /\ UNCHANGED <<connReqQ, connReqCancelQ, active, user, ntask, naddr, nindex, raced>>

Finish == npc' = "cycle" /\ ntask' = "requests" /\ naddr' = NoAddr /\ nindex' = 0
Advance == nindex' = nindex + 1 /\ UNCHANGED <<npc, ntask, naddr>>

More == nindex <= Len(connReqQ)

\* RemoveAtIndex while Connect is elsewhere, or between two rounds of its
\* search, which then passes over the request that moves up.
RemovedAlone(k) ==
  /\ connReqQ' = RemoveAt(connReqQ, k)
  /\ raced' = (raced \/ upc = "search")
  /\ UNCHANGED user

\* Connect compares the address of the request that is being deleted: it may
\* find any.
RemovedWhileRead(k) ==
  /\ upc = "search" /\ uindex = k
  /\ connReqQ' = RemoveAt(connReqQ, k)
  /\ raced' = TRUE
  /\ SearchOn \/ Return

\* RemoveAtIndex and PushTail both move tail: one or the other may be lost, so
\* that the last request stays behind its moved copy or the new one is gone.
RemovedWhilePushed(k) ==
  /\ upc = "push"
  /\ \E kept \in {<<>>, <<Last(connReqQ)>>}, pushed \in {<<>>, <<Request>>} :
       connReqQ' = RemoveAt(connReqQ, k) \o kept \o pushed
  /\ raced' = TRUE
  /\ upc' = "unlock" /\ UNCHANGED <<uaddr, uindex, calls>>

RemoveAtIndex(k) == RemovedAlone(k) \/ RemovedWhileRead(k) \/ RemovedWhilePushed(k)

\* ProcessConnectionRequestQ, one round up to its Unlock.
RequestRound ==
  /\ npc = "requests" /\ More
  /\ npc' = "release" /\ nindex' = nindex + 1 /\ UNCHANGED <<ntask, naddr>>
  /\ UNCHANGED <<connReqQLock, connReqCancelQ, active>>

RequestNotDue ==
  /\ RequestRound
  /\ UNCHANGED <<connReqQ, user, raced>>

NeverFails ==
  /\ RequestRound
  /\ connReqQ[nindex].made = Attempts + 2
  /\ RemoveAtIndex(nindex)

\* ID_CONNECTION_ATTEMPT_FAILED; the request behind it is skipped.
RequestFails ==
  /\ RequestRound
  /\ connReqQ[nindex].made = Attempts + 1
  /\ RemoveAtIndex(nindex)

Retried(made) ==
  /\ RequestRound
  /\ connReqQ[nindex].made <= Attempts
  /\ connReqQ' = [connReqQ EXCEPT ![nindex].made = made]
  /\ UNCHANGED <<user, raced>>

RequestAgain ==
  \E made \in 0 .. Attempts + 1 : Retried(made) /\ made > connReqQ[nindex].made

\* Error 10040 at the smallest MTU, or requestsMade wraps (RequestSchedule).
RequestStuck ==
  \E made \in 0 .. Attempts + 1 : Retried(made) /\ made <= connReqQ[nindex].made

\* The lock is released in each round and was taken once.
RequestRelease ==
  /\ npc = "release"
  /\ Unlock
  /\ npc' = "requests"
  /\ UNCHANGED <<connReqQ, connReqCancelQ, active, user, ntask, naddr, nindex, raced>>

RequestsEnd ==
  /\ npc = "requests" /\ ~ More
  /\ Finish
  /\ UNCHANGED <<connReqQ, connReqQLock, connReqCancelQ, active, user, raced>>

\* ProcessConnectionRequestCancelQ looks for the request to an unset address,
\* once for each entry of a queue it never empties.
CancelRound ==
  /\ npc = "cancels"
  /\ Unlock
  /\ \/ /\ nindex < connReqCancelQ
        /\ npc' = "lock" /\ nindex' = nindex + 1 /\ UNCHANGED <<ntask, naddr>>
     \/ /\ nindex >= connReqCancelQ
        /\ Finish
  /\ UNCHANGED <<connReqQ, connReqCancelQ, active, user, raced>>

\* The loops that look for the sender's request.
Found == More /\ connReqQ[nindex].addr = naddr
Loops == {"reply1", "reply2", "remove", "failed"}

SkipStays ==
  /\ npc \in Loops /\ More
  /\ connReqQ[nindex].addr # naddr
  /\ UNCHANGED vars

Skip ==
  /\ npc \in Loops /\ More
  /\ connReqQ[nindex].addr # naddr
  /\ Advance
  /\ UNCHANGED <<connReqQ, connReqQLock, connReqCancelQ, active, user, raced>>

\* Behind each of them is an Unlock, also behind the one of OnConnectionReply1
\* that has released the lock already.
LoopEnd ==
  /\ (npc \in Loops /\ ~ More) \/ npc = "break"
  /\ Unlock
  /\ Finish
  /\ UNCHANGED <<connReqQ, connReqCancelQ, active, user, raced>>

\* OnConnectionReply1 sends ID_OPEN_CONNECTION_REQUEST_2; the loop over the
\* plugins leaves their number in the loop's own index.
Reply1Match ==
  /\ npc = "reply1" /\ Found
  /\ Unlock
  /\ nindex' = NPlugins + 2
  /\ UNCHANGED <<connReqQ, connReqCancelQ, active, user, npc, ntask, naddr, raced>>

\* Or it returns: ID_WECLI_SECURE_BUT_SRV_NO, or a bad public key.  So does
\* OnConnectionReply2 when the public key is missing.
ReplyRefused ==
  /\ npc \in {"reply1", "reply2"} /\ Found
  /\ Unlock
  /\ Finish
  /\ UNCHANGED <<connReqQ, connReqCancelQ, active, user, raced>>

Reply2Match ==
  /\ npc = "reply2" /\ Found
  /\ Unlock
  /\ npc' = "answer"
  /\ UNCHANGED <<connReqQ, connReqCancelQ, active, user, ntask, naddr, nindex, raced>>

\* The answer is wrong: a second Unlock, and the slot stays taken.
Reply2BadAnswer ==
  /\ npc = "answer"
  /\ Unlock
  /\ active' = active \cup {naddr}
  /\ Finish
  /\ UNCHANGED <<connReqQ, connReqCancelQ, user, raced>>

\* ID_CONNECTION_REQUEST is sent, or there is no slot and the attempt fails:
\* the request will be removed.
Reply2Done ==
  /\ npc = "answer"
  /\ active' \in {active, active \cup {naddr}}
  /\ npc' = "relock"
  /\ UNCHANGED <<connReqQ, connReqQLock, connReqCancelQ, user, ntask, naddr, nindex, raced>>

Reply2Relock ==
  /\ npc = "relock"
  /\ Lock("network")
  /\ npc' = "remove" /\ nindex' = 1
  /\ UNCHANGED <<connReqQ, connReqCancelQ, active, user, ntask, naddr, raced>>

\* "remove all same connections": the one that moves up is passed over.
Reply2Remove ==
  /\ npc = "remove" /\ Found
  /\ RemoveAtIndex(nindex)
  /\ Advance
  /\ UNCHANGED <<connReqQLock, connReqCancelQ, active>>

OnConnectionFailed ==
  /\ npc = "failed" /\ Found
  /\ RemoveAtIndex(nindex)
  /\ npc' = "break" /\ UNCHANGED <<ntask, naddr, nindex>>
  /\ UNCHANGED <<connReqQLock, connReqCancelQ, active>>

-----------------------------------------------------------------------------
ConnectSteps ==
  ConnectSkip \/ ConnectInProgress \/ ConnectSearched \/ ConnectPush \/ ConnectUnlock

User ==
  \/ (\E a \in Addrs : Connect(a))
  \/ CancelConnectionRequest
  \/ ConnectLock \/ ConnectSteps

\* The rest of a task the network thread has begun.
NetSteps ==
  \/ NetLock \/ Skip \/ LoopEnd \/ CancelRound
  \/ RequestNotDue \/ RequestFails \/ RequestAgain \/ RequestStuck
  \/ RequestRelease \/ RequestsEnd
  \/ Reply1Match \/ ReplyRefused
  \/ Reply2Match \/ Reply2BadAnswer \/ Reply2Done \/ Reply2Relock \/ Reply2Remove
  \/ OnConnectionFailed

Network ==
  \/ (\E task \in Tasks, a \in Peers \cup {NoAddr} : Begin(task, a))
  \/ NetSteps

Next == User \/ Network

Spec == Init /\ [][Next]_vars

\* The threads run.  A thread that waits for a lock that is free again and
\* again gets it: the network thread waits between its cycles.  It calls
\* ProcessConnectionRequestQ in each cycle, and the time of every request
\* comes.
FairSpec ==
  /\ Spec
  /\ SF_vars(ConnectLock)
  /\ WF_vars(ConnectSteps)
  /\ WF_vars(NetSteps)
  /\ SF_vars(Begin("requests", NoAddr))
  /\ SF_vars(RequestFails \/ RequestAgain \/ RequestStuck)

-----------------------------------------------------------------------------
\* Types; requestsMade stays within the schedule.
TypeOK ==
  /\ connReqQ \in Seq(Requests)
  /\ connReqQLock \in [count : 0 .. CountMod - 1,
                       thread : {"none", "user", "network"}, locked : BOOLEAN]
  /\ connReqCancelQ \in 0 .. MaxCancels
  /\ active \subseteq Addrs
  /\ upc \in {"run", "lock", "search", "push", "unlock"}
  /\ uaddr \in Addrs \cup {NoAddr} /\ uindex \in Nat /\ calls \in 0 .. MaxCalls
  /\ npc \in Tasks \cup {"cycle", "lock", "release", "break", "answer", "relock", "remove"}
  /\ ntask \in Tasks /\ naddr \in Peers \cup {NoAddr} /\ nindex \in Nat
  /\ raced \in BOOLEAN

\* "CONNECTION_ATTEMPT_ALREADY_IN_PROGRESS" (geco_application.cpp:2928): the
\* queue does not hold two requests to one address, although the network
\* thread uses it without the lock (1977, 1531).  The one way to a second
\* request is a removal while Connect is at the queue.
OneRequestPerAddress ==
  /\ TypeOK
  /\ raced \/ \A i, j \in DOMAIN connReqQ : connReqQ[i].addr = connReqQ[j].addr => i = j

\* Connect has returned with the lock (a second call for a pending address,
\* 2926), which stops the network thread for good.  It stops the user thread
\* too, in its next call, when m_count is 0: it had wrapped below zero before.
LockLeft == upc \in {"run", "lock"} /\ connReqQLock.locked /\ connReqQLock.thread = "user"
LockedOut == upc = "lock" /\ LockLeft /\ connReqQLock.count = 0

\* The network thread keeps the lock between its tasks.  It does so once
\* m_count has wrapped below zero, because it released the lock too often:
\* Unlock then sees a count that only nested locks explain.
LockKept == connReqQLock.thread = "network" /\ npc \in {"cycle", "lock"}

\* OnConnectionReply1 has found a request at the place that the loop over the
\* plugins makes it look at next (1531): it finds it again and again.
Resending ==
  /\ npc = "reply1" /\ nindex = NPlugins + 2
  /\ Found

\* "reach the max try times" (geco_application.cpp:1868): a request does not
\* stay in the queue, whatever replies come, but for the two ways in which
\* the network thread stops and for retries without progress.
RequestsLeaveUnlessLocked ==
  \/ []<><<RequestStuck>>_vars
  \/ \A a \in Addrs : Pending(a) ~> (~ Pending(a) \/ LockLeft \/ Resending)

\* "This is a non-blocking connection" (geco_application.h:480): Connect
\* returns, except when the network thread does not give the lock back or an
\* earlier Connect has not and the wrapped m_count hides it.
ConnectReturnsUnlessKept ==
  upc = "lock" ~> (upc = "run" \/ LockKept \/ LockedOut \/ Resending)
=============================================================================
