--------------------- MODULE ConnectionRequests_proofs ---------------------
(***************************************************************************)
(* The queue of connection requests, for every set of addresses, every     *)
(* number of attempts and plugins and every width of m_count; and the      *)
(* schedule by which one of them is retried, for every attemptTimes.       *)
(***************************************************************************)
EXTENDS ConnectionRequests, RequestSchedule, SequenceTheorems, WellFoundedInduction, TLAPS

Distinct == \A i, j \in DOMAIN connReqQ : connReqQ[i].addr = connReqQ[j].addr => i = j

\* What Connect knows of the requests that its search has passed, unless one was
\* removed meanwhile: none is to its address.
Searched ==
  /\ upc = "search" =>
       \A i \in DOMAIN connReqQ : i < uindex => connReqQ[i].addr # uaddr
  /\ upc = "push" => \A i \in DOMAIN connReqQ : connReqQ[i].addr # uaddr

QueueInv == raced \/ (Distinct /\ Searched)

\* The address Connect works on is one of its own, the network thread's index
\* is never the 0 before the queue, and it answers only an address that had a
\* request.
Indexed ==
  /\ upc # "run" => uaddr \in Addrs
  /\ npc # "cycle" => nindex >= 1
  /\ npc = "answer" => naddr \in Addrs

RequestsInv == TypeOK /\ QueueInv /\ Indexed

-----------------------------------------------------------------------------
(* The queue.                                                              *)

\* The queue without the request at place k.
LEMMA RemoveRequest ==
  ASSUME NEW q \in Seq(Requests), NEW k \in 1 .. Len(q)
  PROVE  /\ RemoveAt(q, k) \in Seq(Requests) /\ Len(RemoveAt(q, k)) = Len(q) - 1
         /\ \A i \in 1 .. Len(q) - 1 : RemoveAt(q, k)[i] = q[IF i < k THEN i ELSE i + 1]
<1>1. Len(q) \in Nat /\ k \in Nat /\ \A i \in 1 .. Len(q) : q[i] \in Requests
  OBVIOUS
<1> DEFINE p == SubSeq(q, 1, k - 1)
           r == SubSeq(q, k + 1, Len(q))
<1>2. /\ p \in Seq(Requests) /\ Len(p) = k - 1
      /\ \A i \in 1 .. k - 1 : p[i] = q[i]
  <2>1. \A i \in 1 .. k - 1 : q[i] \in Requests
    BY <1>1
  <2>2. 1 \in Int /\ k - 1 \in Int
    BY <1>1
  <2>3. /\ p \in Seq(Requests) /\ Len(p) = IF 1 <= k - 1 THEN (k - 1) - 1 + 1 ELSE 0
        /\ \A i \in 1 .. (k - 1) - 1 + 1 : p[i] = q[1 + i - 1]
    BY <2>1, <2>2, SubSeqProperties
  <2> QED BY <1>1, <2>3
<1>3. /\ r \in Seq(Requests) /\ Len(r) = Len(q) - k
      /\ \A i \in 1 .. Len(q) - k : r[i] = q[k + i]
  <2>1. \A i \in k + 1 .. Len(q) : q[i] \in Requests
    BY <1>1
  <2>2. k + 1 \in Int /\ Len(q) \in Int
    BY <1>1
  <2>3. /\ r \in Seq(Requests) /\ Len(r) = IF k + 1 <= Len(q) THEN Len(q) - (k + 1) + 1 ELSE 0
        /\ \A i \in 1 .. Len(q) - (k + 1) + 1 : r[i] = q[(k + 1) + i - 1]
    BY <2>1, <2>2, SubSeqProperties
  <2> QED BY <1>1, <2>3
<1> HIDE DEF p, r
<1>4. /\ p \o r \in Seq(Requests) /\ Len(p \o r) = Len(p) + Len(r)
      /\ \A i \in 1 .. Len(p) + Len(r) :
           (p \o r)[i] = IF i <= Len(p) THEN p[i] ELSE r[i - Len(p)]
  BY <1>2, <1>3, ConcatProperties
<1>5. Len(p) + Len(r) = Len(q) - 1
  BY <1>1, <1>2, <1>3
<1>6. ASSUME NEW i \in 1 .. Len(q) - 1
      PROVE  (p \o r)[i] = q[IF i < k THEN i ELSE i + 1]
  <2>1. (p \o r)[i] = IF i <= k - 1 THEN p[i] ELSE r[i - (k - 1)]
    BY <1>2, <1>4, <1>5
  <2>2. CASE i < k
    BY <1>1, <1>2, <2>1, <2>2
  <2>3. CASE ~ (i < k)
    <3>1. PICK n \in 1 .. Len(q) - k : n = i - (k - 1) /\ k + n = i + 1
      BY <1>1, <2>3
    <3>2. (p \o r)[i] = r[n]
      BY <1>1, <2>1, <2>3, <3>1
    <3>3. r[n] = q[k + n]
      BY <1>3
    <3> QED BY <2>3, <3>1, <3>2, <3>3
  <2> QED BY <2>2, <2>3
<1>7. RemoveAt(q, k) = p \o r
  BY DEF RemoveAt, p, r
<1> QED BY <1>4, <1>5, <1>6, <1>7

\* A request is removed: the others keep their addresses.
LEMMA RemovalKeepsDistinct ==
  ASSUME connReqQ \in Seq(Requests), Distinct, NEW k \in 1 .. Len(connReqQ),
         connReqQ' = RemoveAt(connReqQ, k)
  PROVE  connReqQ' \in Seq(Requests) /\ Distinct'
<1>1. /\ connReqQ' \in Seq(Requests) /\ Len(connReqQ') = Len(connReqQ) - 1
      /\ \A i \in 1 .. Len(connReqQ) - 1 :
           connReqQ'[i] = connReqQ[IF i < k THEN i ELSE i + 1]
  BY RemoveRequest
<1>2. /\ Len(connReqQ) \in Nat /\ DOMAIN connReqQ = 1 .. Len(connReqQ)
      /\ DOMAIN connReqQ' = 1 .. Len(connReqQ) - 1
  BY <1>1
<1>3. ASSUME NEW i \in 1 .. Len(connReqQ) - 1, NEW j \in 1 .. Len(connReqQ) - 1,
             connReqQ'[i].addr = connReqQ'[j].addr
      PROVE  i = j
  <2>1. PICK m \in 1 .. Len(connReqQ) :
          connReqQ'[i] = connReqQ[m] /\ m = IF i < k THEN i ELSE i + 1
    BY <1>1, <1>2
  <2>2. PICK n \in 1 .. Len(connReqQ) :
          connReqQ'[j] = connReqQ[n] /\ n = IF j < k THEN j ELSE j + 1
    BY <1>1, <1>2
  <2>3. m = n
    BY <1>2, <1>3, <2>1, <2>2 DEF Distinct
  <2> QED BY <1>2, <2>1, <2>2, <2>3
<1> QED BY <1>1, <1>2, <1>3 DEF Distinct

\* The lock has its type whatever Unlock finds.
LEMMA UnlockedOnceType ==
  ASSUME NEW lock \in [count : 0 .. CountMod - 1, thread : {"none", "user", "network"},
                       locked : BOOLEAN]
  PROVE  UnlockedOnce(lock) \in [count : 0 .. CountMod - 1,
                                 thread : {"none", "user", "network"}, locked : BOOLEAN]
<1>1. CountMod \in Nat /\ CountMod > 3 /\ lock.count \in 0 .. CountMod - 1
  BY RequestsAssumption
<1>2. CASE lock.count > 1
  <2>1. lock.count - 1 \in 0 .. CountMod - 1
    BY <1>1, <1>2
  <2> QED BY <1>2, <2>1 DEF UnlockedOnce
<1>3. CASE ~ (lock.count > 1)
  <2>1. (lock.count + CountMod - 1) % CountMod \in 0 .. CountMod - 1
    BY <1>1
  <2> QED BY <1>3, <2>1 DEF UnlockedOnce
<1> QED BY <1>2, <1>3

LockType == connReqQLock \in [count : 0 .. CountMod - 1,
                              thread : {"none", "user", "network"}, locked : BOOLEAN]

\* Lock and Unlock keep the type of the lock.
LEMMA LockTypeKept ==
  ASSUME LockType, Lock("user") \/ Lock("network") \/ Unlock
  PROVE  LockType'
<1>1. CASE Lock("user") \/ Lock("network")
  <2>1. CountMod \in Nat /\ CountMod > 3 /\ connReqQLock.count \in 0 .. CountMod - 1
    BY RequestsAssumption DEF LockType
  <2>2. (connReqQLock.count + 1) % CountMod \in 0 .. CountMod - 1
    BY <2>1
  <2>3. \A n \in 0 .. CountMod - 1, t \in {"user", "network"} :
          [count |-> n, thread |-> t, locked |-> TRUE]
            \in [count : 0 .. CountMod - 1, thread : {"none", "user", "network"},
                locked : BOOLEAN]
    OBVIOUS
  <2>4. \E t \in {"user", "network"} :
          connReqQLock' = [count |-> (connReqQLock.count + 1) % CountMod,
                           thread |-> t, locked |-> TRUE]
    BY <1>1 DEF Lock
  <2> QED BY <2>2, <2>3, <2>4 DEF LockType
<1>2. CASE Unlock
  BY <1>2, UnlockedOnceType DEF Unlock, LockType
<1> QED BY <1>1, <1>2

-----------------------------------------------------------------------------
(* The steps.                                                              *)

\* Nothing is pending at the start.
LEMMA InitRequestsInv == Init => RequestsInv
<1> SUFFICES ASSUME Init PROVE RequestsInv
  OBVIOUS
<1>1. TypeOK
  <2>1. /\ connReqQ \in Seq(Requests) /\ connReqCancelQ \in 0 .. MaxCancels
        /\ active \subseteq Addrs /\ uindex \in Nat /\ nindex \in Nat /\ calls \in 0 .. MaxCalls
    BY RequestsAssumption DEF Init
  <2>2. 0 \in 0 .. CountMod - 1
    BY RequestsAssumption
  <2> QED BY <2>1, <2>2 DEF Init, TypeOK, Tasks
<1>2. QueueInv /\ Indexed
  BY DEF Init, QueueInv, Distinct, Searched, Indexed
<1> QED BY <1>1, <1>2 DEF RequestsInv

QueueType == connReqQ \in Seq(Requests) /\ raced \in BOOLEAN

UserType ==
  /\ upc \in {"run", "lock", "search", "push", "unlock"}
  /\ uaddr \in Addrs \cup {NoAddr} /\ uindex \in Nat /\ calls \in 0 .. MaxCalls
  /\ upc # "run" => uaddr \in Addrs

NetType ==
  /\ npc \in Tasks \cup {"cycle", "lock", "release", "break", "answer", "relock", "remove"}
  /\ ntask \in Tasks /\ naddr \in Peers \cup {NoAddr} /\ nindex \in Nat
  /\ npc # "cycle" => nindex >= 1
  /\ npc = "answer" => naddr \in Addrs

OtherType == connReqCancelQ \in 0 .. MaxCancels /\ active \subseteq Addrs

Parts == QueueType /\ QueueInv /\ LockType /\ UserType /\ NetType /\ OtherType

\* The invariant by the variables its parts are about.
LEMMA RequestsInvParts == RequestsInv <=> Parts
BY DEF RequestsInv, TypeOK, Indexed, Parts, QueueType, LockType, UserType, NetType, OtherType

\* A part whose variables a step leaves alone stays.
LEMMA PartsKept ==
  /\ QueueType /\ UNCHANGED <<connReqQ, raced>> => QueueType'
  /\ QueueInv /\ UNCHANGED <<connReqQ, user, raced>> => QueueInv'
  /\ LockType /\ UNCHANGED connReqQLock => LockType'
  /\ UserType /\ UNCHANGED user => UserType'
  /\ NetType /\ UNCHANGED net => NetType'
  /\ OtherType /\ UNCHANGED <<connReqCancelQ, active>> => OtherType'
<1>1. QueueInv /\ UNCHANGED <<connReqQ, user, raced>> => QueueInv'
  BY DEF QueueInv, Distinct, Searched, user
<1> QED BY <1>1 DEF QueueType, LockType, UserType, NetType, OtherType, user, net

\* While Connect is not at the queue, nothing is said of its search.
LEMMA NotSearching ==
  ASSUME QueueInv, UNCHANGED <<connReqQ, raced>>, upc' \notin {"search", "push"}
  PROVE  QueueInv'
BY DEF QueueInv, Distinct, Searched

\* The user thread outside the queue.
LEMMA CallsKeepParts ==
  ASSUME Parts,
         \/ \E a \in Addrs : Connect(a)
         \/ CancelConnectionRequest \/ ConnectLock \/ ConnectUnlock
  PROVE  Parts'
<1>1. QueueType /\ QueueInv /\ LockType /\ UserType /\ NetType /\ OtherType
  BY DEF Parts
<1>2. ASSUME NEW a \in Addrs, Connect(a) PROVE Parts'
  <2>1. UserType'
    <3>1. calls \in Nat /\ MaxCalls \in Nat /\ calls + 1 \in 0 .. MaxCalls
      BY <1>1, <1>2, RequestsAssumption DEF UserType, Connect
    <3> QED BY <1>1, <1>2, <3>1 DEF UserType, Connect
  <2>2. QueueInv'
    BY <1>1, <1>2, NotSearching DEF Connect
  <2> QED BY <1>1, <1>2, <2>1, <2>2, PartsKept DEF Connect, Parts
<1>3. CASE CancelConnectionRequest
  <2>1. OtherType'
    <3>1. connReqCancelQ + 1 \in 0 .. MaxCancels
      BY <1>1, <1>3, RequestsAssumption DEF OtherType, CancelConnectionRequest
    <3> QED BY <1>1, <1>3, <3>1 DEF OtherType, CancelConnectionRequest
  <2> QED BY <1>1, <1>3, <2>1, PartsKept DEF CancelConnectionRequest, Parts
<1>4. CASE ConnectLock
  <2>1. UserType'
    BY <1>1, <1>4 DEF UserType, ConnectLock
  <2>2. LockType'
    BY <1>1, <1>4, LockTypeKept DEF ConnectLock
  <2>3. QueueInv'
    <3>1. connReqQ \in Seq(Requests) /\ connReqQ' = connReqQ /\ raced' = raced
          /\ upc' = "search" /\ uindex' = 1
      BY <1>1, <1>4 DEF QueueType, ConnectLock
    <3>2. \A i \in DOMAIN connReqQ : ~ (i < 1)
      BY <3>1
    <3> QED BY <1>1, <3>1, <3>2 DEF QueueInv, Distinct, Searched
  <2> QED BY <1>1, <1>4, <2>1, <2>2, <2>3, PartsKept DEF ConnectLock, Parts
<1>5. CASE ConnectUnlock
  <2>1. UserType'
    BY <1>1, <1>5 DEF UserType, ConnectUnlock, Return
  <2>2. LockType'
    BY <1>1, <1>5, LockTypeKept DEF ConnectUnlock
  <2>3. QueueInv'
    BY <1>1, <1>5, NotSearching DEF ConnectUnlock, Return
  <2> QED BY <1>1, <1>5, <2>1, <2>2, <2>3, PartsKept DEF ConnectUnlock, Parts
<1> QED BY <1>2, <1>3, <1>4, <1>5

\* The search and the push: each round adds a request to those that are not to
\* the address, and the push follows the last.
LEMMA SearchKeepsParts ==
  ASSUME Parts, ConnectSkip \/ ConnectInProgress \/ ConnectSearched \/ ConnectPush
  PROVE  Parts'
<1>1. QueueType /\ QueueInv /\ LockType /\ UserType /\ NetType /\ OtherType
  BY DEF Parts
<1>2. /\ connReqQ \in Seq(Requests) /\ Len(connReqQ) \in Nat /\ uindex \in Nat
      /\ DOMAIN connReqQ = 1 .. Len(connReqQ)
  BY <1>1 DEF QueueType, UserType
<1>3. CASE ConnectSkip
  <2>1. UserType'
    BY <1>1, <1>3 DEF UserType, ConnectSkip, SearchOn
  <2>2. QueueInv'
    <3>1. /\ upc = "search" /\ connReqQ[uindex].addr # uaddr
          /\ uindex' = uindex + 1 /\ UNCHANGED <<connReqQ, raced, upc, uaddr>>
      BY <1>3 DEF ConnectSkip, Searching, SearchOn
    <3>2. \A i \in 1 .. Len(connReqQ) : i < uindex + 1 => i < uindex \/ i = uindex
      BY <1>2
    <3> QED BY <1>1, <1>2, <3>1, <3>2 DEF QueueInv, Distinct, Searched
  <2> QED BY <1>1, <1>3, <2>1, <2>2, PartsKept DEF ConnectSkip, Parts
<1>4. CASE ConnectInProgress
  <2>1. UserType'
    BY <1>1, <1>4 DEF UserType, ConnectInProgress, Return
  <2>2. QueueInv'
    BY <1>1, <1>4, NotSearching DEF ConnectInProgress, Return
  <2> QED BY <1>1, <1>4, <2>1, <2>2, PartsKept DEF ConnectInProgress, Parts
<1>5. CASE ConnectSearched
  <2>1. UserType'
    BY <1>1, <1>5 DEF UserType, ConnectSearched, SearchedAll
  <2>2. QueueInv'
    <3>1. /\ upc = "search" /\ uindex > Len(connReqQ) /\ upc' = "push"
          /\ UNCHANGED <<connReqQ, raced, uaddr>>
      BY <1>5 DEF ConnectSearched, SearchedAll
    <3>2. \A i \in DOMAIN connReqQ : i < uindex
      BY <1>2, <3>1
    <3> QED BY <1>1, <3>1, <3>2 DEF QueueInv, Distinct, Searched
  <2> QED BY <1>1, <1>5, <2>1, <2>2, PartsKept DEF ConnectSearched, Parts
<1>6. CASE ConnectPush
  <2>1. UserType'
    BY <1>1, <1>6 DEF UserType, ConnectPush
  <2>2. QueueType' /\ QueueInv'
    <3> DEFINE r == Request
    <3>1. r \in Requests /\ r.addr = uaddr
      <4>1. uaddr \in Addrs /\ 0 \in 0 .. Attempts + 1
        BY <1>1, <1>6, RequestsAssumption DEF UserType, ConnectPush
      <4> QED BY <4>1 DEF Requests, Request
    <3>2. /\ connReqQ' = Append(connReqQ, r) /\ upc = "push" /\ upc' = "unlock"
          /\ raced' = raced
      BY <1>6 DEF ConnectPush
    <3> HIDE DEF r
    <3>3. /\ connReqQ' \in Seq(Requests) /\ Len(connReqQ') = Len(connReqQ) + 1
          /\ \A i \in 1 .. Len(connReqQ) : connReqQ'[i] = connReqQ[i]
          /\ connReqQ'[Len(connReqQ) + 1] = r
      BY <1>2, <3>1, <3>2, AppendProperties
    <3>4. DOMAIN connReqQ' = 1 .. Len(connReqQ) + 1
      BY <1>2, <3>3
    <3>5. ~ raced => Distinct'
      <4> SUFFICES ASSUME ~ raced PROVE Distinct'
        OBVIOUS
      <4>1. Distinct /\ \A i \in 1 .. Len(connReqQ) : connReqQ[i].addr # uaddr
        BY <1>1, <1>2, <3>2 DEF QueueInv, Searched
      <4> QED BY <1>2, <3>1, <3>3, <3>4, <4>1 DEF Distinct
    <3> QED BY <1>1, <3>2, <3>3, <3>5 DEF QueueType, QueueInv, Searched
  <2> QED BY <1>1, <1>6, <2>1, <2>2, PartsKept DEF ConnectPush, Parts
<1> QED BY <1>3, <1>4, <1>5, <1>6

\* A removal, wherever it meets Connect.
LEMMA RemovalKeeps ==
  ASSUME QueueType, QueueInv, UserType, NEW k \in 1 .. Len(connReqQ), RemoveAtIndex(k)
  PROVE  QueueType' /\ QueueInv' /\ UserType'
<1>1. /\ connReqQ \in Seq(Requests) /\ raced \in BOOLEAN /\ Len(connReqQ) \in Nat
      /\ DOMAIN connReqQ = 1 .. Len(connReqQ)
  BY DEF QueueType
<1>2. /\ RemoveAt(connReqQ, k) \in Seq(Requests)
      /\ Len(RemoveAt(connReqQ, k)) = Len(connReqQ) - 1
      /\ \A i \in 1 .. Len(connReqQ) - 1 :
           RemoveAt(connReqQ, k)[i] = connReqQ[IF i < k THEN i ELSE i + 1]
  BY <1>1, RemoveRequest
<1>3. CASE RemovedAlone(k)
  <2>1. /\ connReqQ' = RemoveAt(connReqQ, k) /\ raced' = (raced \/ upc = "search")
        /\ UNCHANGED user
    BY <1>3 DEF RemovedAlone
  <2>2. QueueType' /\ UserType'
    BY <1>1, <1>2, <2>1, PartsKept DEF QueueType
  <2>3. QueueInv'
    <3> SUFFICES ASSUME ~ raced' PROVE Distinct' /\ Searched'
      BY DEF QueueInv
    <3>1. ~ raced /\ upc # "search"
      BY <2>1
    <3>2. Distinct /\ Searched
      BY <3>1 DEF QueueInv
    <3>3. Distinct'
      BY <1>1, <2>1, <3>2, RemovalKeepsDistinct
    <3>4. ASSUME upc = "push", NEW i \in DOMAIN connReqQ'
          PROVE  connReqQ'[i].addr # uaddr
      <4>1. i \in 1 .. Len(connReqQ) - 1
        BY <1>2, <2>1
      <4>2. \E m \in 1 .. Len(connReqQ) : connReqQ'[i] = connReqQ[m]
        BY <1>1, <1>2, <2>1, <4>1
      <4> QED BY <1>1, <3>2, <3>4, <4>2 DEF Searched
    <3> QED BY <2>1, <3>1, <3>3, <3>4 DEF Searched, user
  <2> QED BY <2>2, <2>3
<1>4. CASE RemovedWhileRead(k)
  <2>1. QueueType' /\ QueueInv'
    BY <1>2, <1>4 DEF RemovedWhileRead, QueueType, QueueInv
  <2>2. UserType'
    BY <1>4 DEF RemovedWhileRead, UserType, SearchOn, Return
  <2> QED BY <2>1, <2>2
<1>5. CASE RemovedWhilePushed(k)
  <2>1. UserType'
    BY <1>5 DEF RemovedWhilePushed, UserType
  <2>2. QueueInv' /\ raced' \in BOOLEAN
    BY <1>5 DEF RemovedWhilePushed, QueueInv
  <2>3. Request \in Requests
    <3>1. uaddr \in Addrs /\ 0 \in 0 .. Attempts + 1
      BY <1>5, RequestsAssumption DEF RemovedWhilePushed, UserType
    <3> QED BY <3>1 DEF Requests, Request
  <2>4. Last(connReqQ) \in Requests
    BY <1>1 DEF Last
  <2>5. PICK kept \in {<<>>, <<Last(connReqQ)>>}, pushed \in {<<>>, <<Request>>} :
          connReqQ' = RemoveAt(connReqQ, k) \o kept \o pushed
    BY <1>5 DEF RemovedWhilePushed
  <2>6. kept \in Seq(Requests) /\ pushed \in Seq(Requests)
    <3>1. <<>> \in Seq(Requests) /\ \A r \in Requests : <<r>> \in Seq(Requests)
      OBVIOUS
    <3> QED BY <2>3, <2>4, <2>5, <3>1
  <2>7. connReqQ' \in Seq(Requests)
    <3>1. \A p, q \in Seq(Requests) : p \o q \in Seq(Requests)
      BY ConcatProperties
    <3> QED BY <1>2, <2>5, <2>6, <3>1
  <2> QED BY <2>1, <2>2, <2>7 DEF QueueType
<1> QED BY <1>3, <1>4, <1>5 DEF RemoveAtIndex

\* The network thread's index and program counter.
LEMMA NetMoves ==
  ASSUME NetType, Finish \/ (Advance /\ npc # "cycle")
  PROVE  NetType'
BY DEF NetType, Finish, Advance, Tasks

\* A request the network thread found is in the queue.
LEMMA FoundIs ==
  ASSUME QueueType, NetType, npc # "cycle", More
  PROVE  /\ nindex \in 1 .. Len(connReqQ) /\ Len(connReqQ) \in Nat
         /\ DOMAIN connReqQ = 1 .. Len(connReqQ)
         /\ connReqQ[nindex] \in Requests /\ connReqQ[nindex].addr \in Addrs
<1>1. nindex \in 1 .. Len(connReqQ) /\ Len(connReqQ) \in Nat
  BY DEF QueueType, NetType, More
<1>2. connReqQ[nindex] \in Requests
  BY <1>1 DEF QueueType
<1> QED BY <1>1, <1>2 DEF QueueType, Requests

\* The retries: a request is removed or counted up where it is.
LEMMA RetriesKeepParts ==
  ASSUME Parts,
         RequestNotDue \/ RequestFails \/ RequestAgain \/ RequestStuck
         \/ RequestRelease \/ RequestsEnd
  PROVE  Parts'
<1>1. QueueType /\ QueueInv /\ LockType /\ UserType /\ NetType /\ OtherType
  BY DEF Parts
<1>2. CASE RequestsEnd
  <2>1. NetType'
    BY <1>1, <1>2, NetMoves DEF RequestsEnd
  <2> QED BY <1>1, <1>2, <2>1, PartsKept DEF RequestsEnd, Parts
<1>3. CASE RequestRelease
  <2>1. NetType'
    BY <1>1, <1>3 DEF NetType, RequestRelease, Tasks
  <2>2. LockType'
    BY <1>1, <1>3, LockTypeKept DEF RequestRelease
  <2> QED BY <1>1, <1>3, <2>1, <2>2, PartsKept DEF RequestRelease, Parts
<1>4. CASE RequestNotDue \/ RequestFails \/ RequestAgain \/ RequestStuck
  <2>1. RequestRound
    BY <1>4 DEF RequestNotDue, RequestFails, RequestAgain, RequestStuck, Retried
  <2>2. NetType'
    BY <1>1, <2>1 DEF RequestRound, NetType
  <2>3. LockType' /\ OtherType'
    BY <1>1, <2>1, PartsKept DEF RequestRound
  <2>4. /\ nindex \in 1 .. Len(connReqQ) /\ Len(connReqQ) \in Nat
        /\ DOMAIN connReqQ = 1 .. Len(connReqQ) /\ connReqQ[nindex] \in Requests
    BY <1>1, <2>1, FoundIs DEF RequestRound
  <2>5. QueueType' /\ QueueInv' /\ UserType'
    <3>1. CASE RequestNotDue
      BY <1>1, <3>1, PartsKept DEF RequestNotDue
    <3>2. CASE RequestFails
      BY <1>1, <2>4, <3>2, RemovalKeeps DEF RequestFails
    <3>3. ASSUME NEW made \in 0 .. Attempts + 1, Retried(made)
          PROVE  QueueType' /\ QueueInv' /\ UserType'
      <4> DEFINE r == [connReqQ[nindex] EXCEPT !.made = made]
      <4>1. r \in Requests /\ r.addr = connReqQ[nindex].addr
        BY <2>4 DEF Requests
      <4>2. connReqQ' = [connReqQ EXCEPT ![nindex] = r] /\ UNCHANGED <<user, raced>>
        BY <3>3 DEF Retried
      <4> HIDE DEF r
      <4>3. connReqQ' \in Seq(Requests)
        BY <1>1, <2>4, <4>1, <4>2 DEF QueueType
      <4>4. DOMAIN connReqQ' = DOMAIN connReqQ
        BY <4>2
      <4>5. \A i \in DOMAIN connReqQ : connReqQ'[i].addr = connReqQ[i].addr
        BY <2>4, <4>1, <4>2
      <4>6. QueueInv'
        BY <1>1, <4>2, <4>4, <4>5 DEF QueueInv, Distinct, Searched, user
      <4> QED BY <1>1, <4>2, <4>3, <4>6, PartsKept DEF QueueType
    <3> QED BY <1>4, <3>1, <3>2, <3>3 DEF RequestAgain, RequestStuck
  <2> QED BY <2>2, <2>3, <2>5 DEF Parts
<1> QED BY <1>2, <1>3, <1>4

\* The network thread takes up a task and its lock, or handles the cancellations.
LEMMA TasksKeepParts ==
  ASSUME Parts,
         \/ \E task \in Tasks, a \in Peers \cup {NoAddr} : Begin(task, a)
         \/ NetLock \/ CancelRound
  PROVE  Parts'
<1>1. QueueType /\ QueueInv /\ LockType /\ UserType /\ NetType /\ OtherType
  BY DEF Parts
<1>2. ASSUME NEW task \in Tasks, NEW a \in Peers \cup {NoAddr}, Begin(task, a)
      PROVE  Parts'
  <2>1. NetType'
    BY <1>1, <1>2 DEF NetType, Begin
  <2> QED BY <1>1, <1>2, <2>1, PartsKept DEF Begin, Parts
<1>3. CASE NetLock
  <2>1. NetType'
    BY <1>1, <1>3 DEF NetType, NetLock, Tasks
  <2>2. LockType'
    BY <1>1, <1>3, LockTypeKept DEF NetLock
  <2> QED BY <1>1, <1>3, <2>1, <2>2, PartsKept DEF NetLock, Parts
<1>4. CASE CancelRound
  <2>1. NetType'
    <3>1. CASE Finish
      BY <1>1, <3>1, NetMoves
    <3>2. CASE npc' = "lock" /\ nindex' = nindex + 1 /\ UNCHANGED <<ntask, naddr>>
      BY <1>1, <3>2 DEF NetType
    <3> QED BY <1>4, <3>1, <3>2 DEF CancelRound
  <2>2. LockType'
    BY <1>1, <1>4, LockTypeKept DEF CancelRound
  <2> QED BY <1>1, <1>4, <2>1, <2>2, PartsKept DEF CancelRound, Parts
<1> QED BY <1>2, <1>3, <1>4

\* The loops over the queue that remove nothing.
LEMMA LoopsKeepParts ==
  ASSUME Parts, Skip \/ LoopEnd \/ Reply1Match \/ ReplyRefused \/ Reply2Match
  PROVE  Parts'
<1>1. QueueType /\ QueueInv /\ LockType /\ UserType /\ NetType /\ OtherType
  BY DEF Parts
<1>2. CASE Skip
  <2>1. NetType'
    BY <1>1, <1>2, NetMoves DEF Skip, Loops
  <2> QED BY <1>1, <1>2, <2>1, PartsKept DEF Skip, Parts
<1>3. CASE Reply1Match
  <2>1. NetType'
    BY <1>1, <1>3, RequestsAssumption DEF NetType, Reply1Match
  <2>2. LockType'
    BY <1>1, <1>3, LockTypeKept DEF Reply1Match
  <2> QED BY <1>1, <1>3, <2>1, <2>2, PartsKept DEF Reply1Match, Parts
<1>4. CASE LoopEnd \/ ReplyRefused
  <2>1. NetType'
    BY <1>1, <1>4, NetMoves DEF LoopEnd, ReplyRefused
  <2>2. LockType'
    BY <1>1, <1>4, LockTypeKept DEF LoopEnd, ReplyRefused
  <2> QED BY <1>1, <1>4, <2>1, <2>2, PartsKept DEF LoopEnd, ReplyRefused, Parts
<1>5. CASE Reply2Match
  <2>1. naddr \in Addrs
    BY <1>1, <1>5, FoundIs DEF Reply2Match, Found
  <2>2. NetType'
    BY <1>1, <1>5, <2>1 DEF NetType, Reply2Match
  <2>3. LockType'
    BY <1>1, <1>5, LockTypeKept DEF Reply2Match
  <2> QED BY <1>1, <1>5, <2>2, <2>3, PartsKept DEF Reply2Match, Parts
<1> QED BY <1>2, <1>3, <1>4, <1>5

\* What OnConnectionReply2 does after it found the request.
LEMMA AnswerKeepsParts ==
  ASSUME Parts, Reply2BadAnswer \/ Reply2Done \/ Reply2Relock
  PROVE  Parts'
<1>1. QueueType /\ QueueInv /\ LockType /\ UserType /\ NetType /\ OtherType
  BY DEF Parts
<1>2. LockType'
  BY <1>1, LockTypeKept, PartsKept DEF Reply2BadAnswer, Reply2Done, Reply2Relock
<1>3. NetType'
  <2>1. CASE Reply2BadAnswer
    BY <1>1, <2>1, NetMoves DEF Reply2BadAnswer
  <2>2. CASE Reply2Done \/ Reply2Relock
    BY <1>1, <2>2 DEF NetType, Reply2Done, Reply2Relock
  <2> QED BY <2>1, <2>2
<1>4. OtherType'
  <2>1. CASE Reply2Relock
    BY <1>1, <2>1, PartsKept DEF Reply2Relock
  <2>2. CASE Reply2BadAnswer \/ Reply2Done
    <3>1. naddr \in Addrs
      BY <1>1, <2>2 DEF NetType, Reply2BadAnswer, Reply2Done
    <3> QED BY <1>1, <2>2, <3>1 DEF OtherType, Reply2BadAnswer, Reply2Done
  <2> QED BY <2>1, <2>2
<1> QED
  BY <1>1, <1>2, <1>3, <1>4, PartsKept
  DEF Reply2BadAnswer, Reply2Done, Reply2Relock, Parts

\* An attempt that succeeded, or was refused, removes its request.
LEMMA AnsweredKeepsParts ==
  ASSUME Parts, Reply2Remove \/ OnConnectionFailed
  PROVE  Parts'
<1>1. QueueType /\ QueueInv /\ LockType /\ UserType /\ NetType /\ OtherType
  BY DEF Parts
<1>2. nindex \in 1 .. Len(connReqQ)
  BY <1>1, FoundIs DEF Reply2Remove, OnConnectionFailed, Found
<1>3. QueueType' /\ QueueInv' /\ UserType'
  BY <1>1, <1>2, RemovalKeeps DEF Reply2Remove, OnConnectionFailed
<1>4. NetType'
  <2>1. CASE Reply2Remove
    BY <1>1, <2>1, NetMoves DEF Reply2Remove
  <2>2. CASE OnConnectionFailed
    BY <1>1, <2>2 DEF NetType, OnConnectionFailed
  <2> QED BY <2>1, <2>2
<1> QED BY <1>1, <1>3, <1>4, PartsKept DEF Reply2Remove, OnConnectionFailed, Parts

\* The invariant of the queue of requests.
THEOREM RequestsCorrect == Spec => []RequestsInv
<1>1. Parts /\ [Next]_vars => Parts'
  <2> SUFFICES ASSUME Parts, [Next]_vars PROVE Parts'
    OBVIOUS
  <2>1. CASE User
    BY <2>1, CallsKeepParts, SearchKeepsParts DEF User, ConnectSteps
  <2>2. CASE Network
    BY <2>2, RetriesKeepParts, TasksKeepParts, LoopsKeepParts, AnswerKeepsParts,
       AnsweredKeepsParts
    DEF Network, NetSteps
  <2>3. CASE UNCHANGED vars
    BY <2>3, PartsKept DEF vars, Parts
  <2> QED BY <2>1, <2>2, <2>3 DEF Next
<1>2. Init => Parts
  BY InitRequestsInv, RequestsInvParts
<1>3. Parts => RequestsInv
  BY RequestsInvParts
<1> QED BY <1>1, <1>2, <1>3, PTL DEF Spec

\* The queue never holds two requests to one address unless a request was
\* removed while Connect was searching it or pushing to it, however else the
\* threads interleave and whatever has become of the lock.
THEOREM RequestsOnePerAddress == Spec => []OneRequestPerAddress
<1>1. RequestsInv => OneRequestPerAddress
  BY DEF RequestsInv, QueueInv, Distinct, OneRequestPerAddress
<1> QED BY <1>1, RequestsCorrect, PTL

-----------------------------------------------------------------------------
(* The schedule of the retries: the MTU never grows from one connection    *)
(* request to the next, for every attemptTimes but 255, with which         *)
(* requestsMade wraps around.                                              *)

\* Division as the code's comparisons see it: quotients below, at and above 2.
LEMMA Quotient ==
  ASSUME NEW m \in Nat, NEW k \in Nat \ {0}
  PROVE  /\ m \div k \in Nat
         /\ m \div k = 0 <=> m < k
         /\ m \div k = 1 <=> k <= m /\ m < 2 * k
         /\ m \div k >= 2 <=> m >= 2 * k
         /\ m \div k >= 3 <=> m >= 3 * k
<1> DEFINE q == m \div k
<1>1. q \in Nat /\ k * q <= m /\ m < k * (q + 1)
  OBVIOUS
<1> HIDE DEF q
<1>2. q = 0 => m < k
  BY <1>1
<1>3. q >= 1 => m >= k
  BY <1>1
<1>4. q >= 2 => m >= 2 * k
  BY <1>1
<1>5. q >= 3 => m >= 3 * k
  BY <1>1
<1>6. q <= 1 => m < 2 * k
  BY <1>1
<1>7. q <= 2 => m < 3 * k
  BY <1>1
<1> QED
  BY <1>1, <1>2, <1>3, <1>4, <1>5, <1>6, <1>7 DEF q

\* MTUSizeIndex without division: thirds of 3 * PerSize.
LEMMA MTUSizeIndexByThirds ==
  ASSUME requestsMade \in Nat, connAttemptTimes \in Nat, PerSize # 0
  PROVE  /\ PerSize \in Nat \ {0} /\ 3 * PerSize <= connAttemptTimes
         /\ MTUSizeIndex = IF requestsMade < PerSize THEN 0
                           ELSE IF requestsMade < 2 * PerSize THEN 1 ELSE 2
<1>1. PerSize \in Nat \ {0} /\ 3 * PerSize <= connAttemptTimes
  BY DEF PerSize, mtuSizesCount
<1> QED
  BY <1>1, Quotient DEF MTUSizeIndex, mtuSizesCount

ScheduleInv == ScheduleTypeOK /\ MTUFollows

\* The first request uses the largest MTU.
LEMMA InitScheduleInv == ScheduleInit => ScheduleInv
<1> SUFFICES ASSUME ScheduleInit PROVE ScheduleInv
  OBVIOUS
<1>1. ScheduleTypeOK
  <2>1. due \in BOOLEAN /\ state \in {"trying", "failed", "crashed"}
    BY DEF ScheduleInit
  <2>2. connAttemptTimes \in AttemptTimes /\ connAttemptTimes \in 0 .. 255
    BY ScheduleAssumption DEF ScheduleInit
  <2>3. requestsMade = 0 /\ mtu = 0
    BY DEF ScheduleInit
  <2> QED
    BY <2>1, <2>2, <2>3 DEF ScheduleTypeOK, mtuSizesCount
<1>2. MTUFollows
  <2> SUFFICES ASSUME PerSize # 0 PROVE mtu <= MTUSizeIndex
    BY DEF MTUFollows
  <2> QED
    BY MTUSizeIndexByThirds, ScheduleAssumption DEF ScheduleInit
<1> QED
  BY <1>1, <1>2 DEF ScheduleInv

\* A request sent, in any of the three ways, keeps the schedule; its own MTU
\* is not larger than the one before.
LEMMA SendKeepsScheduleInv ==
  ASSUME ScheduleInv, connAttemptTimes < 255, Sent \/ TooLong \/ Slow
  PROVE  ScheduleInv' /\ mtu' >= mtu
<1> DEFINE k == PerSize
<1>0. /\ connAttemptTimes \in 0 .. 254 /\ requestsMade \in 0 .. connAttemptTimes + 1
      /\ mtu \in 0 .. 2 /\ Sending
  BY ScheduleAssumption DEF ScheduleInv, ScheduleTypeOK, mtuSizesCount, Sent, TooLong, Slow
<1>1. /\ k \in Nat \ {0} /\ 3 * k <= connAttemptTimes
      /\ mtu' = IF requestsMade < k THEN 0 ELSE IF requestsMade < 2 * k THEN 1 ELSE 2
      /\ mtu' >= mtu
      /\ requestsMade # connAttemptTimes + 1
      /\ UNCHANGED <<connAttemptTimes, state>>
  BY <1>0, MTUSizeIndexByThirds DEF Sending, ScheduleInv, MTUFollows
<1>2. k' = k
  BY <1>1 DEF PerSize
<1> HIDE DEF k
<1>due. due' \in BOOLEAN
  BY DEF Sent, TooLong, Slow
<1>3. /\ requestsMade' \in 0 .. connAttemptTimes + 1
      /\ mtu' = 1 => requestsMade' >= k
      /\ mtu' = 2 => requestsMade' >= 2 * k
  <2>1. CASE Sent
    <3>1. requestsMade' = (requestsMade + 1) % 256
      BY <2>1 DEF Sent, UChar
    <3>2. requestsMade' = requestsMade + 1
      BY <3>1, <1>0, <1>1
    <3> QED
      BY <3>2, <1>0, <1>1
  <2>2. CASE TooLong
    <3>1. mtu' \in 0 .. 2 /\ (mtu' + 1) * k <= 3 * k /\ (mtu' + 1) * k \in Nat
      BY <1>1
    <3>2. requestsMade' = (mtu' + 1) * k
      BY <2>2, <3>1, <1>0, <1>1 DEF TooLong, UChar, k
    <3> QED
      BY <3>1, <3>2, <1>0, <1>1
  <2>3. CASE Slow
    <3>1. \/ requestsMade' = (2 * k) % 256 /\ 2 * k > (requestsMade + 1) % 256
          \/ requestsMade' = (connAttemptTimes + 1) % 256
      BY <2>3, <1>1 DEF Slow, Lowest, mtuSizesCount, UChar, k
    <3>2. requestsMade' = 2 * k \/ requestsMade' = connAttemptTimes + 1
      BY <3>1, <1>0, <1>1
    <3> QED
      BY <3>2, <1>0, <1>1
  <2> QED
    BY <2>1, <2>2, <2>3
<1>4. ScheduleTypeOK'
  <2>1. connAttemptTimes \in AttemptTimes /\ state \in {"trying", "failed", "crashed"}
    BY DEF ScheduleInv, ScheduleTypeOK
  <2>2. mtu' \in 0 .. 2
    BY <1>1
  <2> QED
    BY <2>1, <2>2, <1>1, <1>3, <1>due DEF ScheduleTypeOK, mtuSizesCount
<1>5. MTUFollows'
  <2>1. MTUSizeIndex' = IF requestsMade' < k THEN 0
                        ELSE IF requestsMade' < 2 * k THEN 1 ELSE 2
    <3>1. connAttemptTimes' \in Nat /\ requestsMade' \in Nat /\ PerSize' # 0 /\ PerSize' = k
      BY <1>0, <1>1, <1>2, <1>3 DEF k
    <3>2. MTUSizeIndex' = IF requestsMade' \div k >= 3 THEN 2 ELSE requestsMade' \div k
      BY <3>1 DEF MTUSizeIndex, mtuSizesCount
    <3>3. /\ requestsMade' \div k \in Nat
          /\ requestsMade' \div k = 0 <=> requestsMade' < k
          /\ requestsMade' \div k = 1 <=> k <= requestsMade' /\ requestsMade' < 2 * k
          /\ requestsMade' \div k >= 2 <=> requestsMade' >= 2 * k
      BY <3>1, <1>1, Quotient
    <3> DEFINE q == requestsMade' \div k
               m == requestsMade'
               x == MTUSizeIndex'
    <3>k. k \in Nat /\ k > 0
      BY <1>1
    <3>m. m \in Nat
      BY <3>1
    <3>x. x = IF q >= 3 THEN 2 ELSE q
      BY <3>2
    <3>4. /\ q \in Nat
          /\ q = 0 <=> m < k
          /\ q = 1 <=> k <= m /\ m < 2 * k
          /\ q >= 2 <=> m >= 2 * k
      BY <3>3
    <3> HIDE DEF q, m, x
    <3>5. x = IF m < k THEN 0 ELSE IF m < 2 * k THEN 1 ELSE 2
      BY <3>k, <3>m, <3>x, <3>4
    <3> QED
      BY <3>5 DEF m, x
  <2> QED
    BY <2>1, <1>1, <1>3 DEF MTUFollows
<1> QED
  BY <1>1, <1>4, <1>5 DEF ScheduleInv

\* With attemptTimes 255 requestsMade may wrap, but keeps its type.
LEMMA SendAtLargest ==
  ASSUME ScheduleInv, connAttemptTimes = 255, Sent \/ TooLong \/ Slow
  PROVE  ScheduleInv'
<1>1. /\ requestsMade \in Nat /\ Sending /\ UNCHANGED <<connAttemptTimes, state>>
      /\ connAttemptTimes \in AttemptTimes /\ state \in {"trying", "failed", "crashed"}
  BY DEF ScheduleInv, ScheduleTypeOK, Sent, TooLong, Slow, Sending
<1>2. PerSize = 85 /\ mtu' \in 0 .. 2
  BY <1>1, MTUSizeIndexByThirds DEF Sending, PerSize, mtuSizesCount
<1>3. due' \in BOOLEAN
  BY DEF Sent, TooLong, Slow
<1>4. requestsMade' \in 0 .. 255
  <2>1. CASE Sent
    BY <2>1, <1>1 DEF Sent, UChar
  <2>2. CASE TooLong
    <3>1. requestsMade' = ((mtu' + 1) * PerSize) % 256
      BY <2>2 DEF TooLong, UChar
    <3>2. CASE mtu' = 0
      BY <3>1, <3>2, <1>2
    <3>3. CASE mtu' = 1
      BY <3>1, <3>3, <1>2
    <3>4. CASE mtu' = 2
      BY <3>1, <3>4, <1>2
    <3> QED
      BY <3>2, <3>3, <3>4, <1>2
  <2>3. CASE Slow
    <3>1. requestsMade' = 170 % 256 \/ requestsMade' = 256 % 256
      BY <2>3, <1>2 DEF Slow, Lowest, mtuSizesCount, UChar
    <3> QED
      BY <3>1
  <2> QED
    BY <2>1, <2>2, <2>3
<1>5. ScheduleTypeOK'
  BY <1>1, <1>2, <1>3, <1>4 DEF ScheduleTypeOK, mtuSizesCount
<1>6. MTUFollows'
  BY <1>1 DEF MTUFollows
<1> QED
  BY <1>5, <1>6 DEF ScheduleInv

\* The steps that send nothing leave the schedule alone.
LEMMA OthersKeepScheduleInv ==
  ASSUME ScheduleInv, Tick \/ GiveUp \/ DivideByZero \/ Stopped \/ UNCHANGED scheduleVars
  PROVE  ScheduleInv' /\ mtu' >= mtu
<1>1. /\ UNCHANGED <<connAttemptTimes, requestsMade, mtu>>
      /\ due' \in BOOLEAN /\ state' \in {"trying", "failed", "crashed"}
  BY DEF ScheduleInv, ScheduleTypeOK, Tick, GiveUp, DivideByZero, Stopped, scheduleVars
<1>2. ScheduleTypeOK' /\ mtu' >= mtu
  BY <1>1 DEF ScheduleInv, ScheduleTypeOK, mtuSizesCount
<1>3. MTUFollows'
  BY <1>1 DEF ScheduleInv, MTUFollows, PerSize, MTUSizeIndex
<1> QED
  BY <1>2, <1>3 DEF ScheduleInv

\* Every step keeps the invariant and shrinks the MTU, if anything.
LEMMA NextKeepsScheduleInv ==
  ASSUME ScheduleInv, [ScheduleNext]_scheduleVars
  PROVE  ScheduleInv' /\ (connAttemptTimes < 255 => mtu' >= mtu)
<1>1. connAttemptTimes \in 0 .. 255
  BY ScheduleAssumption DEF ScheduleInv, ScheduleTypeOK
<1>2. CASE Sent \/ TooLong \/ Slow
  <2>1. CASE connAttemptTimes < 255
    BY <1>2, <2>1, SendKeepsScheduleInv
  <2>2. CASE connAttemptTimes = 255
    BY <1>2, <2>2, SendAtLargest
  <2> QED
    BY <1>1, <2>1, <2>2
<1>3. CASE Tick \/ GiveUp \/ DivideByZero \/ Stopped \/ UNCHANGED scheduleVars
  BY <1>3, OthersKeepScheduleInv
<1> QED
  BY <1>2, <1>3 DEF ScheduleNext

\* The schedule's invariant, for every set of attemptTimes and outcomes.
THEOREM ScheduleCorrect == ScheduleSpec => []ScheduleInv
<1>1. ScheduleInv /\ [ScheduleNext]_scheduleVars => ScheduleInv'
  BY NextKeepsScheduleInv
<1> QED
  BY <1>1, InitScheduleInv, PTL DEF ScheduleSpec

\* requestsMade never passes the value that ends the attempt.
THEOREM RequestsMadeBounded == ScheduleSpec => []ScheduleTypeOK
<1>1. ScheduleInv => ScheduleTypeOK
  BY DEF ScheduleInv
<1> QED
  BY <1>1, ScheduleCorrect, PTL

\* From one request to the next the MTU never grows, whatever Send reports,
\* unless attemptTimes is 255.
THEOREM ScheduleMTUNeverGrows == ScheduleSpec => MTUNeverGrows
<1>1. ScheduleInv /\ [ScheduleNext]_scheduleVars
        => [connAttemptTimes < 255 => mtu' >= mtu]_scheduleVars
  BY NextKeepsScheduleInv
<1> QED
  BY <1>1, ScheduleCorrect, PTL DEF ScheduleSpec, MTUNeverGrows
=============================================================================
