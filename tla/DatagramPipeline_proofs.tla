----------------------- MODULE DatagramPipeline_proofs -----------------------
(***************************************************************************)
(* Who owns a buffer and in which order datagrams are processed, for any   *)
(* number of sockets, every capacity of the queues and every set of        *)
(* buffers; how many buffers a pool hands out, for one socket.             *)
(***************************************************************************)
EXTENDS DatagramPipeline, FiniteSetTheorems, SequenceTheorems, TLAPS

-----------------------------------------------------------------------------
(* The inductive invariant, in parts.                                      *)

\* The places a buffer may be in.
Places == {"pool", "recv", "alloc", "dealloc", "net", "lost"} \X Sockets

\* The buffers in each place.  The network thread and what it lost are counted
\* with socket 0.
Contents ==
  [x \in Places |->
     CASE x[1] = "pool"    -> free[x[2]]
       [] x[1] = "recv"    -> {rbuf[x[2]]} \ {NoBuffer}
       [] x[1] = "alloc"   -> Range(allocRecvParamQ[x[2]])
       [] x[1] = "dealloc" -> Range(deAllocRecvParamQ[x[2]])
       [] x[1] = "net"     -> IF x[2] = 0 THEN {nbuf} \ {NoBuffer} ELSE {}
       [] x[1] = "lost"    -> IF x[2] = 0 THEN lost ELSE {}]

\* Every buffer is in one place.
Partition(contents) ==
  /\ \A p \in Buffers : \E x \in Places : p \in contents[x]
  /\ \A x, y \in Places : \A p \in contents[x] : p \in contents[y] => x = y

\* No queue has a pointer twice.
NoRepeats ==
  \A s \in Sockets : IsInjective(allocRecvParamQ[s]) /\ IsInjective(deAllocRecvParamQ[s])

\* A thread has a buffer exactly where its code has one.
Handles ==
  /\ \A s \in Sockets : rbuf[s] = NoBuffer <=> rpc[s] \in {"reclaim", "notify"}
  /\ \A s \in Sockets : hbuf[s] = NoBuffer <=> rpc[s] # "notify"
  /\ nbuf = NoBuffer <=> npc = "poll"

OwnerInv == TypeOK /\ Handles /\ NoRepeats /\ Partition(Contents)

\* Number of the last datagram of socket s that is processed or among the
\* first i in its queue.
Number(s, i) == IF i = 0 THEN processed[s] ELSE datagram[allocRecvParamQ[s][i]]

\* The numbers are consecutive from the last processed to the last received.
Consecutive ==
  \A s \in Sockets :
    /\ \A i \in 1 .. Len(allocRecvParamQ[s]) : Number(s, i) = Successor(Number(s, i - 1))
    /\ LET last == Number(s, Len(allocRecvParamQ[s])) IN
         /\ rpc[s] # "push" => arrived[s] = last
         /\ rpc[s] = "push" => arrived[s] = Successor(last) /\ datagram[rbuf[s]] = arrived[s]

OrderInv == OwnerInv /\ Consecutive

-----------------------------------------------------------------------------
(* Moving one buffer.                                                      *)

\* What is in place z when p moves from place x to place y.
Moved(x, y, p, z, old, new) ==
  new = IF z = x THEN old \ {p} ELSE IF z = y THEN old \cup {p} ELSE old

Transfer(x, y, p, H, G) == \A z \in Places : Moved(x, y, p, z, H[z], G[z])

\* A buffer that moves from one place to another leaves every buffer in one place.
LEMMA Move ==
  ASSUME NEW H, NEW G, NEW x \in Places, NEW y \in Places, x # y, NEW p, p \in H[x],
         Partition(H), Transfer(x, y, p, H, G)
  PROVE  Partition(G)
<1>0. \A z \in Places : G[z] = IF z = x THEN H[z] \ {p}
                               ELSE IF z = y THEN H[z] \cup {p} ELSE H[z]
  BY DEF Transfer, Moved
<1>1. ASSUME NEW q \in Buffers
      PROVE  \E z \in Places : q \in G[z]
  <2>1. PICK z \in Places : q \in H[z]
    BY DEF Partition
  <2>2. CASE q = p
    BY <2>2, <1>0
  <2>3. CASE q # p
    BY <2>1, <2>3, <1>0
  <2> QED BY <2>2, <2>3
<1>2. ASSUME NEW z \in Places, NEW w \in Places, NEW q \in G[z], q \in G[w]
      PROVE  z = w
  <2>1. CASE q = p
    <3>1. \A v \in Places : p \in H[v] => v = x
      BY DEF Partition
    <3>2. \A v \in Places : p \in G[v] => v = y
      BY <3>1, <1>0
    <3> QED BY <2>1, <3>2, <1>2
  <2>2. CASE q # p
    <3>1. q \in H[z] /\ q \in H[w]
      BY <2>2, <1>2, <1>0
    <3> QED BY <3>1 DEF Partition
  <2> QED BY <2>1, <2>2
<1> QED BY <1>1, <1>2 DEF Partition

\* What a queue holds after a push of a pointer it did not hold.
LEMMA RangeOfAppend ==
  ASSUME NEW S, NEW q \in Seq(S), NEW p \in S, p \notin Range(q), IsInjective(q)
  PROVE  /\ Append(q, p) \in Seq(S) /\ Len(Append(q, p)) = Len(q) + 1
         /\ IsInjective(Append(q, p))
         /\ Range(Append(q, p)) = Range(q) \cup {p}
<1> DEFINE n == Len(q)
           r == Append(q, p)
<1>1. /\ n \in Nat /\ DOMAIN q = 1 .. n
      /\ r \in Seq(S) /\ Len(r) = n + 1 /\ DOMAIN r = 1 .. n + 1
      /\ \A i \in 1 .. n : r[i] = q[i]
      /\ r[n + 1] = p
  BY AppendProperties, LenProperties
<1> HIDE DEF n, r
<1>2. \A i \in 1 .. n : q[i] # p
  BY <1>1 DEF Range
<1>3. \A i \in 1 .. n + 1 : i \in 1 .. n \/ i = n + 1
  BY <1>1
<1>4. IsInjective(r)
  <2> SUFFICES ASSUME NEW i \in 1 .. n + 1, NEW j \in 1 .. n + 1, r[i] = r[j]
               PROVE  i = j
    BY <1>1 DEF IsInjective
  <2>1. CASE i \in 1 .. n /\ j \in 1 .. n
    BY <2>1, <1>1 DEF IsInjective
  <2> QED BY <2>1, <1>1, <1>2, <1>3
<1>5. Range(r) = Range(q) \cup {p}
  <2>1. \A y \in Range(r) : y \in Range(q) \cup {p}
    BY <1>1, <1>3 DEF Range
  <2>2. n + 1 \in 1 .. n + 1 /\ \A i \in 1 .. n : i \in 1 .. n + 1
    BY <1>1
  <2>3. \A y \in Range(q) \cup {p} : y \in Range(r)
    BY <1>1, <2>2 DEF Range
  <2> QED BY <2>1, <2>3
<1> QED BY <1>1, <1>4, <1>5 DEF n, r

\* What a queue holds after a pop.
LEMMA RangeOfTail ==
  ASSUME NEW S, NEW q \in Seq(S), q # <<>>, IsInjective(q)
  PROVE  /\ Head(q) \in S /\ Head(q) \in Range(q)
         /\ Tail(q) \in Seq(S) /\ Len(Tail(q)) = Len(q) - 1
         /\ \A i \in 1 .. Len(Tail(q)) : i + 1 \in 1 .. Len(q) /\ Tail(q)[i] = q[i + 1]
         /\ IsInjective(Tail(q))
         /\ Range(Tail(q)) = Range(q) \ {Head(q)}
<1> DEFINE n == Len(q)
           r == Tail(q)
<1>1. /\ n \in Nat \ {0} /\ DOMAIN q = 1 .. n /\ Head(q) = q[1] /\ Head(q) \in S
      /\ r \in Seq(S) /\ Len(r) = n - 1 /\ DOMAIN r = 1 .. n - 1
      /\ \A i \in 1 .. n - 1 : r[i] = q[i + 1]
  BY HeadTailProperties, LenProperties, EmptySeq
<1> HIDE DEF n, r
<1>2. 1 \in 1 .. n /\ \A i \in 1 .. n - 1 : i + 1 \in 1 .. n /\ i + 1 # 1
  BY <1>1
<1>3. IsInjective(r)
  <2> SUFFICES ASSUME NEW i \in 1 .. n - 1, NEW j \in 1 .. n - 1, r[i] = r[j]
               PROVE  i = j
    BY <1>1 DEF IsInjective
  <2>1. q[i + 1] = q[j + 1] /\ i + 1 \in DOMAIN q /\ j + 1 \in DOMAIN q
    BY <1>1, <1>2
  <2>2. i + 1 = j + 1
    BY <2>1 DEF IsInjective
  <2> QED BY <2>2
<1>4. Range(r) = Range(q) \ {Head(q)}
  <2>1. ASSUME NEW y \in Range(r)
        PROVE  y \in Range(q) \ {Head(q)}
    <3>1. PICK i \in 1 .. n - 1 : y = r[i]
      BY <1>1 DEF Range
    <3>2. y = q[i + 1] /\ q[i + 1] # q[1]
      BY <3>1, <1>1, <1>2 DEF IsInjective
    <3> QED BY <3>2, <1>1, <1>2 DEF Range
  <2>2. ASSUME NEW y \in Range(q), y # Head(q)
        PROVE  y \in Range(r)
    <3>1. PICK i \in 1 .. n : y = q[i]
      BY <1>1 DEF Range
    <3>2. i - 1 \in 1 .. n - 1 /\ r[i - 1] = q[i]
      BY <3>1, <2>2, <1>1
    <3> QED BY <3>1, <3>2, <1>1 DEF Range
  <2> QED BY <2>1, <2>2
<1>5. Head(q) \in Range(q)
  BY <1>1, <1>2 DEF Range
<1> QED BY <1>1, <1>2, <1>3, <1>4, <1>5 DEF n, r

ContentsByKind ==
  /\ \A s \in Sockets :
       /\ Contents[<<"pool", s>>] = free[s]
       /\ Contents[<<"recv", s>>] = {rbuf[s]} \ {NoBuffer}
       /\ Contents[<<"alloc", s>>] = Range(allocRecvParamQ[s])
       /\ Contents[<<"dealloc", s>>] = Range(deAllocRecvParamQ[s])
       /\ Contents[<<"net", s>>] = IF s = 0 THEN {nbuf} \ {NoBuffer} ELSE {}
       /\ Contents[<<"lost", s>>] = IF s = 0 THEN lost ELSE {}
  /\ \A x \in Places : \E s \in Sockets :
       x \in {<<"pool", s>>, <<"recv", s>>, <<"alloc", s>>, <<"dealloc", s>>, <<"net", s>>,
             <<"lost", s>>}
  /\ 0 \in Sockets
  /\ \A s \in Sockets :
       /\ <<"pool", s>> \in Places /\ <<"recv", s>> \in Places /\ <<"alloc", s>> \in Places
       /\ <<"dealloc", s>> \in Places /\ <<"net", s>> \in Places /\ <<"lost", s>> \in Places

\* Contents, place by place.
LEMMA ContentsAt == ContentsByKind
<1>1. 0 \in Sockets
  BY PipelineAssumption DEF Sockets
<1>2. \A s \in Sockets :
       /\ <<"pool", s>> \in Places /\ <<"recv", s>> \in Places /\ <<"alloc", s>> \in Places
       /\ <<"dealloc", s>> \in Places /\ <<"net", s>> \in Places /\ <<"lost", s>> \in Places
  BY DEF Places
<1>3. \A x \in Places : \E s \in Sockets :
       x \in {<<"pool", s>>, <<"recv", s>>, <<"alloc", s>>, <<"dealloc", s>>, <<"net", s>>,
             <<"lost", s>>}
  BY DEF Places
<1>4. ASSUME NEW s \in Sockets
      PROVE  /\ Contents[<<"pool", s>>] = free[s]
             /\ Contents[<<"recv", s>>] = {rbuf[s]} \ {NoBuffer}
             /\ Contents[<<"alloc", s>>] = Range(allocRecvParamQ[s])
             /\ Contents[<<"dealloc", s>>] = Range(deAllocRecvParamQ[s])
             /\ Contents[<<"net", s>>] = IF s = 0 THEN {nbuf} \ {NoBuffer} ELSE {}
             /\ Contents[<<"lost", s>>] = IF s = 0 THEN lost ELSE {}
  BY <1>2 DEF Contents
<1> QED BY <1>1, <1>2, <1>3, <1>4 DEF ContentsByKind

\* And in the next state.
LEMMA ContentsAtNext == ContentsByKind'
  BY ContentsAt, PTL

\* Move for the variables: each of them changes by p alone.
LEMMA MoveBuffer ==
  ASSUME NEW x \in Places, NEW y \in Places, x # y, NEW p \in Contents[x],
         Partition(Contents),
         \A t \in Sockets : Moved(x, y, p, <<"pool", t>>, free[t], free'[t]),
         \A t \in Sockets :
           Moved(x, y, p, <<"recv", t>>, {rbuf[t]} \ {NoBuffer}, {rbuf'[t]} \ {NoBuffer}),
         \A t \in Sockets :
           Moved(x, y, p, <<"alloc", t>>, Range(allocRecvParamQ[t]), Range(allocRecvParamQ'[t])),
         \A t \in Sockets :
           Moved(x, y, p, <<"dealloc", t>>, Range(deAllocRecvParamQ[t]),
                 Range(deAllocRecvParamQ'[t])),
         Moved(x, y, p, <<"net", 0>>, {nbuf} \ {NoBuffer}, {nbuf'} \ {NoBuffer}),
         Moved(x, y, p, <<"lost", 0>>, lost, lost'),
         \A t \in Sockets \ {0} : <<"net", t>> \notin {x, y} /\ <<"lost", t>> \notin {x, y}
  PROVE  Partition(Contents')
<1>1. ASSUME NEW z \in Places
      PROVE  Moved(x, y, p, z, Contents[z], Contents'[z])
  <2>1. PICK t \in Sockets :
          z \in {<<"pool", t>>, <<"recv", t>>, <<"alloc", t>>, <<"dealloc", t>>, <<"net", t>>,
                <<"lost", t>>}
    BY ContentsAt DEF ContentsByKind
  <2>2. CASE z = <<"pool", t>>
    <3>1. Contents[z] = free[t] /\ Contents'[z] = free'[t]
      BY <2>2, ContentsAt, ContentsAtNext DEF ContentsByKind
    <3> QED BY <2>2, <3>1
  <2>3. CASE z = <<"recv", t>>
    <3>1. Contents[z] = {rbuf[t]} \ {NoBuffer} /\ Contents'[z] = {rbuf'[t]} \ {NoBuffer}
      BY <2>3, ContentsAt, ContentsAtNext DEF ContentsByKind
    <3> QED BY <2>3, <3>1
  <2>4. CASE z = <<"alloc", t>>
    <3>1. Contents[z] = Range(allocRecvParamQ[t]) /\ Contents'[z] = Range(allocRecvParamQ'[t])
      BY <2>4, ContentsAt, ContentsAtNext DEF ContentsByKind
    <3> QED BY <2>4, <3>1
  <2>5. CASE z = <<"dealloc", t>>
    <3>1. Contents[z] = Range(deAllocRecvParamQ[t]) /\ Contents'[z] = Range(deAllocRecvParamQ'[t])
      BY <2>5, ContentsAt, ContentsAtNext DEF ContentsByKind
    <3> QED BY <2>5, <3>1
  <2>6. CASE z = <<"net", t>> /\ t = 0
    <3>1. Contents[z] = {nbuf} \ {NoBuffer} /\ Contents'[z] = {nbuf'} \ {NoBuffer}
      BY <2>6, ContentsAt, ContentsAtNext DEF ContentsByKind
    <3> QED BY <2>6, <3>1
  <2>7. CASE z = <<"net", t>> /\ t # 0
    <3>1. Contents[z] = {} /\ Contents'[z] = {}
      BY <2>7, ContentsAt, ContentsAtNext DEF ContentsByKind
    <3>2. z # x /\ z # y
      BY <2>7
    <3> QED BY <3>1, <3>2 DEF Moved
  <2>8. CASE z = <<"lost", t>> /\ t = 0
    <3>1. Contents[z] = lost /\ Contents'[z] = lost'
      BY <2>8, ContentsAt, ContentsAtNext DEF ContentsByKind
    <3> QED BY <2>8, <3>1
  <2>9. CASE z = <<"lost", t>> /\ t # 0
    <3>1. Contents[z] = {} /\ Contents'[z] = {}
      BY <2>9, ContentsAt, ContentsAtNext DEF ContentsByKind
    <3>2. z # x /\ z # y
      BY <2>9
    <3> QED BY <3>1, <3>2 DEF Moved
  <2> QED BY <2>1, <2>2, <2>3, <2>4, <2>5, <2>6, <2>7, <2>8, <2>9
<1>2. Transfer(x, y, p, Contents, Contents')
  BY <1>1 DEF Transfer
<1> QED BY <1>2, Move

-----------------------------------------------------------------------------
(* The steps of a receive thread.                                          *)

\* OwnerInv is kept by a round of ReclaimAllJISRecvParams.
LEMMA ReclaimAllStep ==
  ASSUME OwnerInv, NEW s \in Sockets, ReclaimAllJISRecvParams(s)
  PROVE  OwnerInv'
<1> DEFINE q == deAllocRecvParamQ[s]
           p == Head(q)
<1>u. /\ UNCHANGED <<datagram, arrived, rpc, rbuf, hbuf, allocRecvParamQ, netVars>>
      /\ free' = [free EXCEPT ![s] = @ \cup {p}]
      /\ deAllocRecvParamQ' = [deAllocRecvParamQ EXCEPT ![s] = Tail(@)]
      /\ rindex' = [rindex EXCEPT ![s] = @ + 1]
      /\ rindex[s] < Len(q)
  BY DEF ReclaimAllJISRecvParams
<1>t. /\ TypeOK /\ q \in Seq(Buffers) /\ IsInjective(q) /\ Len(q) <= Cap /\ Len(q) \in Nat
      /\ rindex[s] \in Nat /\ Cap \in Nat
  BY PipelineAssumption, LenProperties DEF OwnerInv, NoRepeats, TypeOK
<1>0. q # <<>>
  BY <1>u, <1>t
<1>1. /\ p \in Buffers /\ p \in Range(q)
      /\ Tail(q) \in Seq(Buffers) /\ Len(Tail(q)) = Len(q) - 1
      /\ IsInjective(Tail(q)) /\ Range(Tail(q)) = Range(q) \ {p}
  BY <1>t, <1>0, RangeOfTail
<1>s. /\ free'[s] = free[s] \cup {p} /\ \A t \in Sockets \ {s} : free'[t] = free[t]
      /\ deAllocRecvParamQ'[s] = Tail(q)
      /\ \A t \in Sockets \ {s} : deAllocRecvParamQ'[t] = deAllocRecvParamQ[t]
  BY <1>u, <1>t DEF TypeOK
<1> HIDE DEF q, p
<1>2. TypeOK'
  <2>1. /\ free' \in [Sockets -> SUBSET Buffers]
        /\ deAllocRecvParamQ' \in [Sockets -> Seq(Buffers)]
    BY <1>u, <1>t, <1>1 DEF TypeOK, q
  <2>2. rindex' \in [Sockets -> 0 .. Cap]
    <3>1. rindex[s] + 1 \in 0 .. Cap
      BY <1>u, <1>t
    <3> QED BY <3>1, <1>u, <1>t DEF TypeOK
  <2>3. Len(deAllocRecvParamQ'[s]) <= Cap
    BY <1>s, <1>t, <1>1
  <2>4. \A t \in Sockets : Len(deAllocRecvParamQ'[t]) <= Cap
    BY <1>s, <1>t, <2>3 DEF TypeOK
  <2> QED BY <1>u, <1>t, <2>1, <2>2, <2>4 DEF TypeOK, netVars
<1>3. Handles' /\ NoRepeats'
  BY <1>u, <1>s, <1>1 DEF OwnerInv, Handles, NoRepeats, netVars
<1>4. Partition(Contents')
  <2> DEFINE x == <<"dealloc", s>>
             y == <<"pool", s>>
  <2>1. x \in Places /\ y \in Places /\ x # y /\ p \in Contents[x]
    BY ContentsAt, <1>1 DEF ContentsByKind, q
  <2>2. \A t \in Sockets : Moved(x, y, p, <<"pool", t>>, free[t], free'[t])
    BY <1>s DEF Moved
  <2>3. \A t \in Sockets :
          /\ Moved(x, y, p, <<"recv", t>>, {rbuf[t]} \ {NoBuffer}, {rbuf'[t]} \ {NoBuffer})
          /\ Moved(x, y, p, <<"alloc", t>>, Range(allocRecvParamQ[t]), Range(allocRecvParamQ'[t]))
    BY <1>u DEF Moved
  <2>4. \A t \in Sockets :
          Moved(x, y, p, <<"dealloc", t>>, Range(deAllocRecvParamQ[t]), Range(deAllocRecvParamQ'[t]))
    BY <1>s, <1>1 DEF Moved, q
  <2>5. /\ Moved(x, y, p, <<"net", 0>>, {nbuf} \ {NoBuffer}, {nbuf'} \ {NoBuffer})
        /\ Moved(x, y, p, <<"lost", 0>>, lost, lost')
        /\ \A t \in Sockets \ {0} : <<"net", t>> \notin {x, y} /\ <<"lost", t>> \notin {x, y}
    BY <1>u DEF Moved, netVars
  <2>6. Partition(Contents)
    BY DEF OwnerInv
  <2> HIDE DEF x, y
  <2> QED BY <2>1, <2>2, <2>3, <2>4, <2>5, <2>6, MoveBuffer
<1> QED BY <1>2, <1>3, <1>4 DEF OwnerInv

\* By the allocation of a buffer.
LEMMA AllocStep ==
  ASSUME OwnerInv, NEW s \in Sockets, AllocJISRecvParams(s)
  PROVE  OwnerInv'
<1>u. /\ UNCHANGED <<datagram, arrived, hbuf, allocRecvParamQ, deAllocRecvParamQ, netVars>>
      /\ rindex' = [rindex EXCEPT ![s] = 0]
      /\ rpc' = [rpc EXCEPT ![s] = "recv"]
      /\ rpc[s] = "reclaim"
  BY DEF AllocJISRecvParams
<1>0. PICK p \in free[s] :
        /\ free' = [free EXCEPT ![s] = @ \ {p}]
        /\ rbuf' = [rbuf EXCEPT ![s] = p]
  BY DEF AllocJISRecvParams
<1>t. TypeOK /\ p \in Buffers /\ p # NoBuffer /\ rbuf[s] = NoBuffer /\ 0 \in 0 .. Cap
  <2>1. TypeOK /\ rbuf[s] = NoBuffer /\ 0 \in 0 .. Cap
    BY <1>u, PipelineAssumption DEF OwnerInv, Handles
  <2>2. p \in Buffers
    BY <2>1, <1>0 DEF TypeOK
  <2> QED BY <2>1, <2>2, NoBufferAssumption
<1>s. /\ free'[s] = free[s] \ {p} /\ \A t \in Sockets \ {s} : free'[t] = free[t]
      /\ rbuf'[s] = p /\ \A t \in Sockets \ {s} : rbuf'[t] = rbuf[t]
      /\ rpc'[s] = "recv" /\ \A t \in Sockets \ {s} : rpc'[t] = rpc[t]
  BY <1>0, <1>u, <1>t DEF TypeOK
<1>2. TypeOK'
  <2>1. /\ free' \in [Sockets -> SUBSET Buffers]
        /\ rbuf' \in [Sockets -> Buffers \cup {NoBuffer}]
    BY <1>0, <1>t DEF TypeOK
  <2>2. rindex' \in [Sockets -> 0 .. Cap] /\ rpc' \in [Sockets -> {"reclaim", "recv", "push", "notify"}]
    BY <1>u, <1>t DEF TypeOK
  <2> QED BY <1>u, <1>t, <2>1, <2>2 DEF TypeOK, netVars
<1>3. Handles' /\ NoRepeats'
  BY <1>u, <1>s, <1>t DEF OwnerInv, Handles, NoRepeats, netVars
<1>4. Partition(Contents')
  <2> DEFINE x == <<"pool", s>>
             y == <<"recv", s>>
  <2>1. x \in Places /\ y \in Places /\ x # y /\ p \in Contents[x]
    BY ContentsAt, <1>0 DEF ContentsByKind
  <2>2. \A t \in Sockets : Moved(x, y, p, <<"pool", t>>, free[t],
                                free'[t])
    BY <1>s DEF Moved
  <2>3. \A t \in Sockets : Moved(x, y, p, <<"recv", t>>, {rbuf[t]} \ {NoBuffer},
                                {rbuf'[t]} \ {NoBuffer})
    BY <1>s, <1>t DEF Moved
  <2>4. \A t \in Sockets : Moved(x, y, p, <<"alloc", t>>, Range(allocRecvParamQ[t]),
                                Range(allocRecvParamQ'[t]))
    BY <1>u DEF Moved
  <2>5. \A t \in Sockets : Moved(x, y, p, <<"dealloc", t>>, Range(deAllocRecvParamQ[t]),
                                Range(deAllocRecvParamQ'[t]))
    BY <1>u DEF Moved
  <2>6. /\ Moved(x, y, p, <<"net", 0>>, {nbuf} \ {NoBuffer}, {nbuf'} \ {NoBuffer})
        /\ Moved(x, y, p, <<"lost", 0>>, lost, lost')
        /\ \A t \in Sockets \ {0} : <<"net", t>> \notin {x, y} /\ <<"lost", t>> \notin {x, y}
    BY <1>u DEF Moved, netVars
  <2>7. Partition(Contents)
    BY DEF OwnerInv
  <2> HIDE DEF x, y
  <2> QED BY <2>1, <2>2, <2>3, <2>4, <2>5, <2>6, <2>7, MoveBuffer
<1> QED BY <1>2, <1>3, <1>4 DEF OwnerInv

\* By the receipt of a datagram.
LEMMA RecvFromStep ==
  ASSUME OwnerInv, NEW s \in Sockets, RecvFrom(s)
  PROVE  OwnerInv'
<1>u. /\ UNCHANGED <<free, rindex, rbuf, hbuf, allocRecvParamQ, deAllocRecvParamQ, netVars>>
      /\ arrived' = [arrived EXCEPT ![s] = Successor(@)]
      /\ datagram' = [datagram EXCEPT ![rbuf[s]] = arrived'[s]]
      /\ rpc' = [rpc EXCEPT ![s] = "push"] /\ rpc[s] = "recv"
  BY DEF RecvFrom
<1>t. TypeOK
  BY DEF OwnerInv
<1>1. arrived' \in [Sockets -> 0 .. Numbers]
  <2>1. arrived[s] \in 0 .. Numbers
    BY <1>t DEF TypeOK
  <2>2. Successor(arrived[s]) \in 0 .. Numbers
    BY <2>1, PipelineAssumption DEF Successor
  <2> QED BY <1>u, <1>t, <2>2 DEF TypeOK
<1>2. TypeOK'
  <2>1. datagram' \in [Buffers -> 0 .. Numbers]
    BY <1>u, <1>t, <1>1 DEF TypeOK
  <2>2. rpc' \in [Sockets -> {"reclaim", "recv", "push", "notify"}]
    BY <1>u, <1>t DEF TypeOK
  <2> QED BY <1>u, <1>t, <1>1, <2>1, <2>2 DEF TypeOK, netVars
<1>3. Handles' /\ NoRepeats'
  <2>1. rpc'[s] = "push" /\ \A t \in Sockets \ {s} : rpc'[t] = rpc[t]
    BY <1>u, <1>t DEF TypeOK
  <2> QED BY <1>u, <2>1 DEF OwnerInv, Handles, NoRepeats, netVars
<1>4. Partition(Contents')
  <2>1. Contents' = Contents
    BY <1>u DEF Contents, netVars
  <2> QED BY <2>1 DEF OwnerInv
<1> QED BY <1>2, <1>3, <1>4 DEF OwnerInv

\* By a failure of RecvFrom, after which the buffer returns to the pool.
LEMMA RecvFromFailsStep ==
  ASSUME OwnerInv, NEW s \in Sockets, RecvFromFails(s)
  PROVE  OwnerInv'
<1> DEFINE p == rbuf[s]
<1>u. /\ UNCHANGED <<datagram, arrived, rindex, hbuf, allocRecvParamQ, deAllocRecvParamQ, netVars>>
      /\ free' = [free EXCEPT ![s] = @ \cup {p}]
      /\ rbuf' = [rbuf EXCEPT ![s] = NoBuffer]
      /\ rpc' = [rpc EXCEPT ![s] = "reclaim"] /\ rpc[s] = "recv"
  BY DEF RecvFromFails
<1>t. TypeOK /\ p \in Buffers /\ p # NoBuffer
  BY <1>u DEF OwnerInv, TypeOK, Handles
<1>r. p \in Contents[<<"recv", s>>]
  <2>1. Contents[<<"recv", s>>] = {p} \ {NoBuffer}
    BY ContentsAt DEF ContentsByKind
  <2> QED BY <2>1, <1>t
<1>s. /\ free'[s] = free[s] \cup {p} /\ \A t \in Sockets \ {s} : free'[t] = free[t]
      /\ rbuf'[s] = NoBuffer /\ \A t \in Sockets \ {s} : rbuf'[t] = rbuf[t]
      /\ rpc'[s] = "reclaim" /\ \A t \in Sockets \ {s} : rpc'[t] = rpc[t]
  BY <1>u, <1>t DEF TypeOK
<1>2. TypeOK'
  <2>1. /\ free' \in [Sockets -> SUBSET Buffers]
        /\ rbuf' \in [Sockets -> Buffers \cup {NoBuffer}]
    BY <1>u, <1>t DEF TypeOK
  <2>2. rpc' \in [Sockets -> {"reclaim", "recv", "push", "notify"}]
    BY <1>u, <1>t DEF TypeOK
  <2> QED BY <1>u, <1>t, <2>1, <2>2 DEF TypeOK, netVars
<1>3. Handles' /\ NoRepeats'
  BY <1>u, <1>s, <1>t DEF OwnerInv, Handles, NoRepeats, netVars
<1>4. Partition(Contents')
  <2> DEFINE x == <<"recv", s>>
             y == <<"pool", s>>
  <2>1. x \in Places /\ y \in Places /\ x # y /\ p \in Contents[x]
    BY ContentsAt, <1>r DEF ContentsByKind
  <2>2. \A t \in Sockets : Moved(x, y, p, <<"pool", t>>, free[t],
                                free'[t])
    BY <1>s DEF Moved
  <2>3. \A t \in Sockets : Moved(x, y, p, <<"recv", t>>, {rbuf[t]} \ {NoBuffer},
                                {rbuf'[t]} \ {NoBuffer})
    BY <1>s, <1>t DEF Moved
  <2>4. \A t \in Sockets : Moved(x, y, p, <<"alloc", t>>, Range(allocRecvParamQ[t]),
                                Range(allocRecvParamQ'[t]))
    BY <1>u DEF Moved
  <2>5. \A t \in Sockets : Moved(x, y, p, <<"dealloc", t>>, Range(deAllocRecvParamQ[t]),
                                Range(deAllocRecvParamQ'[t]))
    BY <1>u DEF Moved
  <2>6. /\ Moved(x, y, p, <<"net", 0>>, {nbuf} \ {NoBuffer}, {nbuf'} \ {NoBuffer})
        /\ Moved(x, y, p, <<"lost", 0>>, lost, lost')
        /\ \A t \in Sockets \ {0} : <<"net", t>> \notin {x, y} /\ <<"lost", t>> \notin {x, y}
    BY <1>u DEF Moved, netVars
  <2>7. Partition(Contents)
    BY DEF OwnerInv
  <2> HIDE DEF x, y
  <2> QED BY <2>1, <2>2, <2>3, <2>4, <2>5, <2>6, <2>7, MoveBuffer
<1> QED BY <1>2, <1>3, <1>4 DEF OwnerInv

\* By the push of a buffer to the network thread.
LEMMA PushStep ==
  ASSUME OwnerInv, NEW s \in Sockets, PushRecvParams(s)
  PROVE  OwnerInv'
<1> DEFINE p == rbuf[s]
           q == allocRecvParamQ[s]
<1>u. /\ UNCHANGED <<free, datagram, arrived, rindex, deAllocRecvParamQ, netVars>>
      /\ allocRecvParamQ' = [allocRecvParamQ EXCEPT ![s] = Append(@, p)]
      /\ rbuf' = [rbuf EXCEPT ![s] = NoBuffer]
      /\ hbuf' = [hbuf EXCEPT ![s] = p]
      /\ rpc' = [rpc EXCEPT ![s] = "notify"] /\ rpc[s] = "push"
      /\ Len(q) < Cap
  BY DEF PushRecvParams
<1>t. /\ TypeOK /\ p \in Buffers /\ p # NoBuffer
      /\ q \in Seq(Buffers) /\ IsInjective(q) /\ Len(q) \in Nat /\ Cap \in Nat
  BY <1>u, PipelineAssumption, LenProperties DEF OwnerInv, TypeOK, Handles, NoRepeats
<1>r. p \in Contents[<<"recv", s>>]
  <2>1. Contents[<<"recv", s>>] = {p} \ {NoBuffer}
    BY ContentsAt DEF ContentsByKind
  <2> QED BY <2>1, <1>t
<1>0. p \notin Range(q)
  <2>1. Contents[<<"alloc", s>>] = Range(q) /\ <<"alloc", s>> \in Places /\ <<"recv", s>> \in Places
    BY ContentsAt DEF ContentsByKind
  <2>2. <<"alloc", s>> # <<"recv", s>>
    OBVIOUS
  <2> QED BY <1>r, <2>1, <2>2 DEF OwnerInv, Partition
<1>1. /\ Append(q, p) \in Seq(Buffers) /\ Len(Append(q, p)) = Len(q) + 1
      /\ IsInjective(Append(q, p)) /\ Range(Append(q, p)) = Range(q) \cup {p}
  BY <1>0, <1>t, RangeOfAppend
<1>s. /\ allocRecvParamQ'[s] = Append(q, p)
      /\ \A t \in Sockets \ {s} : allocRecvParamQ'[t] = allocRecvParamQ[t]
      /\ rbuf'[s] = NoBuffer /\ \A t \in Sockets \ {s} : rbuf'[t] = rbuf[t]
      /\ hbuf'[s] = p /\ \A t \in Sockets \ {s} : hbuf'[t] = hbuf[t]
      /\ rpc'[s] = "notify" /\ \A t \in Sockets \ {s} : rpc'[t] = rpc[t]
  BY <1>u, <1>t DEF TypeOK
<1>2. TypeOK'
  <2>1. allocRecvParamQ' \in [Sockets -> Seq(Buffers)]
    BY <1>u, <1>t, <1>1 DEF TypeOK
  <2>2. /\ rbuf' \in [Sockets -> Buffers \cup {NoBuffer}]
        /\ hbuf' \in [Sockets -> Buffers \cup {NoBuffer}]
        /\ rpc' \in [Sockets -> {"reclaim", "recv", "push", "notify"}]
    BY <1>u, <1>t DEF TypeOK
  <2>3. Len(allocRecvParamQ'[s]) <= Cap
    BY <1>s, <1>t, <1>1, <1>u
  <2>4. \A t \in Sockets : Len(allocRecvParamQ'[t]) <= Cap
    BY <1>s, <1>t, <2>3 DEF TypeOK
  <2> QED BY <1>u, <1>t, <2>1, <2>2, <2>4 DEF TypeOK, netVars
<1>3. Handles' /\ NoRepeats'
  BY <1>u, <1>s, <1>t, <1>1 DEF OwnerInv, Handles, NoRepeats, netVars
<1>4. Partition(Contents')
  <2> DEFINE x == <<"recv", s>>
             y == <<"alloc", s>>
  <2>1. x \in Places /\ y \in Places /\ x # y /\ p \in Contents[x]
    BY ContentsAt, <1>r DEF ContentsByKind
  <2>2. \A t \in Sockets : Moved(x, y, p, <<"pool", t>>, free[t],
                                free'[t])
    BY <1>u DEF Moved
  <2>3. \A t \in Sockets : Moved(x, y, p, <<"recv", t>>, {rbuf[t]} \ {NoBuffer},
                                {rbuf'[t]} \ {NoBuffer})
    BY <1>s, <1>t DEF Moved
  <2>4. \A t \in Sockets : Moved(x, y, p, <<"alloc", t>>, Range(allocRecvParamQ[t]),
                                Range(allocRecvParamQ'[t]))
    BY <1>s, <1>1 DEF Moved
  <2>5. \A t \in Sockets : Moved(x, y, p, <<"dealloc", t>>, Range(deAllocRecvParamQ[t]),
                                Range(deAllocRecvParamQ'[t]))
    BY <1>u DEF Moved
  <2>6. /\ Moved(x, y, p, <<"net", 0>>, {nbuf} \ {NoBuffer}, {nbuf'} \ {NoBuffer})
        /\ Moved(x, y, p, <<"lost", 0>>, lost, lost')
        /\ \A t \in Sockets \ {0} : <<"net", t>> \notin {x, y} /\ <<"lost", t>> \notin {x, y}
    BY <1>u DEF Moved, netVars
  <2>7. Partition(Contents)
    BY DEF OwnerInv
  <2> HIDE DEF x, y
  <2> QED BY <2>1, <2>2, <2>3, <2>4, <2>5, <2>6, <2>7, MoveBuffer
<1> QED BY <1>2, <1>3, <1>4 DEF OwnerInv

\* By the return of the handler.
LEMMA HandlerStep ==
  ASSUME OwnerInv, NEW s \in Sockets, IncomeDatagramEventHandler(s)
  PROVE  OwnerInv'
<1>u. /\ UNCHANGED <<free, datagram, arrived, rindex, rbuf, allocRecvParamQ,
                     deAllocRecvParamQ, netVars>>
      /\ hbuf' = [hbuf EXCEPT ![s] = NoBuffer]
      /\ rpc' = [rpc EXCEPT ![s] = "reclaim"] /\ rpc[s] = "notify"
  BY DEF IncomeDatagramEventHandler
<1>t. TypeOK
  BY DEF OwnerInv
<1>1. TypeOK'
  <2>1. /\ hbuf' \in [Sockets -> Buffers \cup {NoBuffer}]
        /\ rpc' \in [Sockets -> {"reclaim", "recv", "push", "notify"}]
    BY <1>u, <1>t DEF TypeOK
  <2> QED BY <1>u, <1>t, <2>1 DEF TypeOK, netVars
<1>2. Handles' /\ NoRepeats'
  <2>1. /\ rpc'[s] = "reclaim" /\ hbuf'[s] = NoBuffer
        /\ \A t \in Sockets \ {s} : rpc'[t] = rpc[t] /\ hbuf'[t] = hbuf[t]
    BY <1>u, <1>t DEF TypeOK
  <2> QED BY <1>u, <2>1 DEF OwnerInv, Handles, NoRepeats, netVars
<1>3. Contents' = Contents
  BY <1>u DEF Contents, netVars
<1> QED BY <1>1, <1>2, <1>3 DEF OwnerInv


-----------------------------------------------------------------------------
(* The steps of the network thread.                                        *)

\* By the pop and the handling of a datagram.
LEMMA ProcessStep ==
  ASSUME OwnerInv, ProcessOneRecvParam
  PROVE  OwnerInv'
<1> DEFINE q == allocRecvParamQ[outter]
           p == Head(q)
<1>u. /\ UNCHANGED <<outter, inner, lost, deAllocRecvParamQ, free, arrived, rpc, rindex, rbuf, hbuf>>
      /\ npc = "poll" /\ npc' = "reclaim" /\ inner < Len(q) /\ nbuf' = p
      /\ allocRecvParamQ' = [allocRecvParamQ EXCEPT ![outter] = Tail(@)]
      /\ processed' = [processed EXCEPT ![outter] = datagram[nbuf']]
      /\ datagram' = [datagram EXCEPT ![nbuf'] = 0]
  BY DEF ProcessOneRecvParam
<1>t. /\ TypeOK /\ outter \in Sockets /\ nbuf = NoBuffer
      /\ q \in Seq(Buffers) /\ IsInjective(q) /\ Len(q) <= Cap /\ Len(q) \in Nat
      /\ inner \in Nat /\ Cap \in Nat
  BY <1>u, PipelineAssumption, LenProperties DEF OwnerInv, NoRepeats, Handles, TypeOK
<1>0. q # <<>>
  BY <1>u, <1>t
<1>1. /\ p \in Buffers /\ p \in Range(q) /\ p # NoBuffer
      /\ Tail(q) \in Seq(Buffers) /\ Len(Tail(q)) = Len(q) - 1
      /\ IsInjective(Tail(q)) /\ Range(Tail(q)) = Range(q) \ {p}
  BY <1>t, <1>0, RangeOfTail, NoBufferAssumption
<1>s. /\ allocRecvParamQ'[outter] = Tail(q)
      /\ \A t \in Sockets \ {outter} : allocRecvParamQ'[t] = allocRecvParamQ[t]
  BY <1>u, <1>t DEF TypeOK
<1>r. p \in Contents[<<"alloc", outter>>]
  <2>1. Contents[<<"alloc", outter>>] = Range(q)
    BY <1>t, ContentsAt DEF ContentsByKind
  <2> QED BY <2>1, <1>1
<1> HIDE DEF q, p
<1>2. TypeOK'
  <2>1. allocRecvParamQ' \in [Sockets -> Seq(Buffers)]
    BY <1>u, <1>t, <1>1 DEF TypeOK, q
  <2>2. /\ datagram[p] \in 0 .. Numbers /\ 0 \in 0 .. Numbers
    BY <1>t, <1>1, PipelineAssumption DEF TypeOK
  <2>3. /\ processed' \in [Sockets -> 0 .. Numbers] /\ datagram' \in [Buffers -> 0 .. Numbers]
        /\ nbuf' \in Buffers \cup {NoBuffer}
    BY <1>u, <1>t, <1>1, <2>2 DEF TypeOK
  <2>4. Len(allocRecvParamQ'[outter]) <= Cap
    BY <1>s, <1>t, <1>1
  <2>5. \A t \in Sockets : Len(allocRecvParamQ'[t]) <= Cap
    BY <1>s, <1>t, <2>4 DEF TypeOK
  <2> QED BY <1>u, <1>t, <2>1, <2>3, <2>5 DEF TypeOK
<1>3. Handles' /\ NoRepeats'
  BY <1>u, <1>s, <1>1 DEF OwnerInv, Handles, NoRepeats
<1>4. Partition(Contents')
  <2> DEFINE x == <<"alloc", outter>>
             y == <<"net", 0>>
  <2>1. x \in Places /\ y \in Places /\ x # y /\ p \in Contents[x]
    BY ContentsAt, <1>r, <1>t DEF ContentsByKind
  <2>2. \A t \in Sockets : Moved(x, y, p, <<"pool", t>>, free[t],
                                free'[t])
    BY <1>u DEF Moved
  <2>3. \A t \in Sockets : Moved(x, y, p, <<"recv", t>>, {rbuf[t]} \ {NoBuffer},
                                {rbuf'[t]} \ {NoBuffer})
    BY <1>u DEF Moved
  <2>4. \A t \in Sockets : Moved(x, y, p, <<"alloc", t>>, Range(allocRecvParamQ[t]),
                                Range(allocRecvParamQ'[t]))
    BY <1>s, <1>1, <1>t DEF Moved, q
  <2>5. \A t \in Sockets : Moved(x, y, p, <<"dealloc", t>>, Range(deAllocRecvParamQ[t]),
                                Range(deAllocRecvParamQ'[t]))
    BY <1>u DEF Moved
  <2>6. /\ Moved(x, y, p, <<"net", 0>>, {nbuf} \ {NoBuffer}, {nbuf'} \ {NoBuffer})
        /\ Moved(x, y, p, <<"lost", 0>>, lost, lost')
        /\ \A t \in Sockets \ {0} : <<"net", t>> \notin {x, y} /\ <<"lost", t>> \notin {x, y}
    BY <1>u, <1>t, <1>1 DEF Moved
  <2>7. Partition(Contents)
    BY DEF OwnerInv
  <2> HIDE DEF x, y
  <2> QED BY <2>1, <2>2, <2>3, <2>4, <2>5, <2>6, <2>7, MoveBuffer
<1> QED BY <1>2, <1>3, <1>4 DEF OwnerInv

\* By the return of a buffer through the queue with the number of the loop index.
LEMMA ReclaimOneStep ==
  ASSUME OwnerInv, ReclaimOneJISRecvParams
  PROVE  OwnerInv'
<1> DEFINE q == deAllocRecvParamQ[inner]
           p == nbuf
<1>u. /\ UNCHANGED <<outter, processed, lost, allocRecvParamQ>>
      /\ UNCHANGED <<free, datagram, arrived, rpc, rindex, rbuf, hbuf>>
      /\ npc = "reclaim" /\ npc' = "poll" /\ inner \in Sockets /\ inner' = inner + 1
      /\ Len(q) < Cap /\ nbuf' = NoBuffer
      /\ deAllocRecvParamQ' = [deAllocRecvParamQ EXCEPT ![inner] = Append(@, p)]
  BY DEF ReclaimOneJISRecvParams, recvVars
<1>t. /\ TypeOK /\ p \in Buffers /\ p # NoBuffer
      /\ q \in Seq(Buffers) /\ IsInjective(q) /\ Len(q) \in Nat /\ Cap \in Nat
  BY <1>u, PipelineAssumption, LenProperties DEF OwnerInv, TypeOK, Handles, NoRepeats
<1>r. p \in Contents[<<"net", 0>>]
  <2>1. Contents[<<"net", 0>>] = {p} \ {NoBuffer}
    BY ContentsAt DEF ContentsByKind
  <2> QED BY <2>1, <1>t
<1>0. p \notin Range(q)
  <2>1. /\ Contents[<<"dealloc", inner>>] = Range(q)
        /\ <<"dealloc", inner>> \in Places /\ <<"net", 0>> \in Places
    BY <1>u, ContentsAt DEF ContentsByKind
  <2>2. <<"dealloc", inner>> # <<"net", 0>>
    OBVIOUS
  <2> QED BY <1>r, <2>1, <2>2 DEF OwnerInv, Partition
<1>1. /\ Append(q, p) \in Seq(Buffers) /\ Len(Append(q, p)) = Len(q) + 1
      /\ IsInjective(Append(q, p)) /\ Range(Append(q, p)) = Range(q) \cup {p}
  BY <1>0, <1>t, RangeOfAppend
<1>s. /\ deAllocRecvParamQ'[inner] = Append(q, p)
      /\ \A t \in Sockets \ {inner} : deAllocRecvParamQ'[t] = deAllocRecvParamQ[t]
  BY <1>u, <1>t DEF TypeOK
<1>2. TypeOK'
  <2>1. deAllocRecvParamQ' \in [Sockets -> Seq(Buffers)] /\ inner' \in Nat
    BY <1>u, <1>t, <1>1 DEF TypeOK
  <2>3. Len(deAllocRecvParamQ'[inner]) <= Cap
    BY <1>s, <1>t, <1>1, <1>u
  <2>4. \A t \in Sockets : Len(deAllocRecvParamQ'[t]) <= Cap
    BY <1>s, <1>t, <2>3 DEF TypeOK
  <2> QED BY <1>u, <1>t, <2>1, <2>4 DEF TypeOK
<1>3. Handles' /\ NoRepeats'
  BY <1>u, <1>s, <1>t, <1>1 DEF OwnerInv, Handles, NoRepeats
<1>4. Partition(Contents')
  <2> DEFINE x == <<"net", 0>>
             y == <<"dealloc", inner>>
  <2>1. x \in Places /\ y \in Places /\ x # y /\ p \in Contents[x]
    BY ContentsAt, <1>r, <1>u DEF ContentsByKind
  <2>2. \A t \in Sockets : Moved(x, y, p, <<"pool", t>>, free[t],
                                free'[t])
    BY <1>u DEF Moved
  <2>3. \A t \in Sockets : Moved(x, y, p, <<"recv", t>>, {rbuf[t]} \ {NoBuffer},
                                {rbuf'[t]} \ {NoBuffer})
    BY <1>u DEF Moved
  <2>4. \A t \in Sockets : Moved(x, y, p, <<"alloc", t>>, Range(allocRecvParamQ[t]),
                                Range(allocRecvParamQ'[t]))
    BY <1>u DEF Moved
  <2>5. \A t \in Sockets : Moved(x, y, p, <<"dealloc", t>>, Range(deAllocRecvParamQ[t]),
                                Range(deAllocRecvParamQ'[t]))
    BY <1>s, <1>1 DEF Moved
  <2>6. /\ Moved(x, y, p, <<"net", 0>>, {nbuf} \ {NoBuffer}, {nbuf'} \ {NoBuffer})
        /\ Moved(x, y, p, <<"lost", 0>>, lost, lost')
        /\ \A t \in Sockets \ {0} : <<"net", t>> \notin {x, y} /\ <<"lost", t>> \notin {x, y}
    BY <1>u, <1>t DEF Moved
  <2>7. Partition(Contents)
    BY DEF OwnerInv
  <2> HIDE DEF x, y
  <2> QED BY <2>1, <2>2, <2>3, <2>4, <2>5, <2>6, <2>7, MoveBuffer
<1> QED BY <1>2, <1>3, <1>4 DEF OwnerInv

\* By the push past the queues.
LEMMA PastTheQueuesStep ==
  ASSUME OwnerInv, ReclaimPastTheQueues
  PROVE  OwnerInv'
<1> DEFINE p == nbuf
<1>u. /\ UNCHANGED <<outter, processed, allocRecvParamQ, deAllocRecvParamQ>>
      /\ UNCHANGED <<free, datagram, arrived, rpc, rindex, rbuf, hbuf>>
      /\ npc = "reclaim" /\ npc' = "poll" /\ inner' = inner + 1
      /\ lost' = lost \cup {p} /\ nbuf' = NoBuffer
  BY DEF ReclaimPastTheQueues, recvVars
<1>t. TypeOK /\ p \in Buffers /\ p # NoBuffer /\ outter \in Sockets
  BY <1>u DEF OwnerInv, TypeOK, Handles
<1>r. p \in Contents[<<"net", 0>>] /\ <<"net", 0>> \in Places
  <2>1. Contents[<<"net", 0>>] = {p} \ {NoBuffer} /\ <<"net", 0>> \in Places
    BY ContentsAt DEF ContentsByKind
  <2> QED BY <2>1, <1>t
<1>2. TypeOK'
  <2>1. lost' \in SUBSET Buffers /\ inner' \in Nat
    BY <1>u, <1>t DEF TypeOK
  <2> QED BY <1>u, <1>t, <2>1 DEF TypeOK
<1>3. Handles' /\ NoRepeats'
  BY <1>u DEF OwnerInv, Handles, NoRepeats
<1>4. Partition(Contents')
  <2> DEFINE x == <<"net", 0>>
             y == <<"lost", 0>>
  <2>1. x \in Places /\ y \in Places /\ x # y /\ p \in Contents[x]
    BY ContentsAt, <1>r, <1>t DEF ContentsByKind
  <2>2. \A t \in Sockets : Moved(x, y, p, <<"pool", t>>, free[t],
                                free'[t])
    BY <1>u DEF Moved
  <2>3. \A t \in Sockets : Moved(x, y, p, <<"recv", t>>, {rbuf[t]} \ {NoBuffer},
                                {rbuf'[t]} \ {NoBuffer})
    BY <1>u DEF Moved
  <2>4. \A t \in Sockets : Moved(x, y, p, <<"alloc", t>>, Range(allocRecvParamQ[t]),
                                Range(allocRecvParamQ'[t]))
    BY <1>u DEF Moved
  <2>5. \A t \in Sockets : Moved(x, y, p, <<"dealloc", t>>, Range(deAllocRecvParamQ[t]),
                                Range(deAllocRecvParamQ'[t]))
    BY <1>u DEF Moved
  <2>6. /\ Moved(x, y, p, <<"net", 0>>, {nbuf} \ {NoBuffer}, {nbuf'} \ {NoBuffer})
        /\ Moved(x, y, p, <<"lost", 0>>, lost, lost')
        /\ \A t \in Sockets \ {0} : <<"net", t>> \notin {x, y} /\ <<"lost", t>> \notin {x, y}
    BY <1>u, <1>t DEF Moved
  <2>7. Partition(Contents)
    BY DEF OwnerInv
  <2> HIDE DEF x, y
  <2> QED BY <2>1, <2>2, <2>3, <2>4, <2>5, <2>6, <2>7, MoveBuffer
<1> QED BY <1>2, <1>3, <1>4 DEF OwnerInv

\* The steps that move no buffer.
LEMMA OtherStep ==
  ASSUME OwnerInv, ReclaimNeverReturns \/ NextSocket \/ UNCHANGED vars
  PROVE  OwnerInv'
<1>u. /\ UNCHANGED <<free, datagram, arrived, rpc, rindex, rbuf, hbuf>>
      /\ UNCHANGED <<nbuf, processed, lost, allocRecvParamQ, deAllocRecvParamQ>>
      /\ \/ npc = "reclaim" /\ npc' = "stuck" /\ UNCHANGED <<inner, outter>>
         \/ UNCHANGED npc /\ inner' = 0 /\ outter' = (outter + 1) % NSockets
         \/ UNCHANGED <<npc, inner, outter>>
  BY DEF ReclaimNeverReturns, NextSocket, vars, netVars, recvVars
<1>1. outter' \in Sockets /\ inner' \in Nat
  <2>1. outter \in Sockets /\ inner \in Nat
    BY DEF OwnerInv, TypeOK
  <2>2. (outter + 1) % NSockets \in Sockets
    BY <2>1, PipelineAssumption DEF Sockets
  <2> QED BY <1>u, <2>1, <2>2
<1>2. TypeOK'
  BY <1>u, <1>1 DEF OwnerInv, TypeOK
<1>3. Handles' /\ NoRepeats'
  BY <1>u DEF OwnerInv, Handles, NoRepeats
<1>4. Contents' = Contents
  BY <1>u DEF Contents
<1> QED BY <1>2, <1>3, <1>4 DEF OwnerInv

\* By every step.
LEMMA OwnerStep ==
  ASSUME OwnerInv, [Next]_vars
  PROVE  OwnerInv'
  BY ReclaimAllStep, AllocStep, RecvFromStep, RecvFromFailsStep, PushStep, HandlerStep,
     ProcessStep, ReclaimOneStep, PastTheQueuesStep, OtherStep
     DEF Next, Network, Receiver

\* It holds when the application has started.
LEMMA OwnerInit ==
  ASSUME Init
  PROVE  OwnerInv
<1>0. 0 \in 0 .. Numbers /\ 0 \in 0 .. Cap /\ 0 <= Cap /\ 0 \in Sockets
  BY PipelineAssumption DEF Sockets
<1>1. TypeOK
  <2>1. \A s \in Sockets : Pool(s) \subseteq Buffers
    BY DEF Pool, Buffers
  <2> QED BY <1>0, <2>1 DEF Init, TypeOK
<1>2. Handles /\ NoRepeats
  BY DEF Init, Handles, NoRepeats, IsInjective
<1>3. \A s \in Sockets :
        /\ Contents[<<"pool", s>>] = Pool(s) /\ Contents[<<"recv", s>>] = {}
        /\ Contents[<<"alloc", s>>] = {} /\ Contents[<<"dealloc", s>>] = {}
        /\ Contents[<<"net", s>>] = {} /\ Contents[<<"lost", s>>] = {}
  <2>1. Range(<<>>) = {}
    BY DEF Range
  <2>2. ASSUME NEW s \in Sockets
        PROVE  /\ free[s] = Pool(s) /\ rbuf[s] = NoBuffer /\ nbuf = NoBuffer
               /\ lost = {} /\ allocRecvParamQ[s] = <<>> /\ deAllocRecvParamQ[s] = <<>>
    BY DEF Init
  <2> QED BY <2>1, <2>2, ContentsAt DEF ContentsByKind
<1>4. \A x \in Places : \A p \in Contents[x] : \E s \in Sockets : x = <<"pool", s>> /\ p \in Pool(s)
  <2> SUFFICES ASSUME NEW x \in Places, NEW p \in Contents[x]
               PROVE  \E s \in Sockets : x = <<"pool", s>> /\ p \in Pool(s)
    OBVIOUS
  <2>1. PICK s \in Sockets :
          x \in {<<"pool", s>>, <<"recv", s>>, <<"alloc", s>>, <<"dealloc", s>>, <<"net", s>>,
             <<"lost", s>>}
    BY ContentsAt DEF ContentsByKind
  <2>2. x = <<"pool", s>>
    BY <2>1, <1>3
  <2> QED BY <2>2, <1>3
<1>5. Partition(Contents)
  <2>1. ASSUME NEW p \in Buffers
        PROVE  \E x \in Places : p \in Contents[x]
    <3>1. PICK s \in Sockets, c \in Cells : p = <<s, c>>
      BY DEF Buffers
    <3>2. p \in Contents[<<"pool", s>>] /\ <<"pool", s>> \in Places
      BY <3>1, <1>3, ContentsAt DEF Pool, ContentsByKind
    <3> QED BY <3>2
  <2>2. ASSUME NEW x \in Places, NEW y \in Places, NEW p \in Contents[x], p \in Contents[y]
        PROVE  x = y
    BY <2>2, <1>4 DEF Pool
  <2> QED BY <2>1, <2>2 DEF Partition
<1> QED BY <1>1, <1>2, <1>5 DEF OwnerInv

\* So it holds in every state.
LEMMA OwnerInvariant == Spec => []OwnerInv
<1>1. Init => OwnerInv
  BY OwnerInit
<1>2. OwnerInv /\ [Next]_vars => OwnerInv'
  BY OwnerStep
<1> QED BY <1>1, <1>2, PTL DEF Spec

-----------------------------------------------------------------------------
(* Owners.                                                                 *)

\* The places of a pointer in a queue that does not hold it.
LEMMA InRange ==
  ASSUME NEW q \in Seq(Buffers), NEW p
  PROVE  Indices(q, p) = {} <=> p \notin Range(q)
  BY DEF Indices, Range

\* A pointer that a queue holds has one place in it.
LEMMA OneIndex ==
  ASSUME NEW q \in Seq(Buffers), NEW p \in Range(q), IsInjective(q)
  PROVE  \E i : Indices(q, p) = {i}
<1>1. PICK i \in DOMAIN q : q[i] = p
  BY DEF Range
<1>2. Indices(q, p) = {i}
  BY <1>1 DEF Indices, IsInjective
<1> QED BY <1>2

\* The buffer the handler looks at is not in the pool of its thread.
Looks == \A s \in Sockets : hbuf[s] # NoBuffer => hbuf[s] \notin free[s]

\* Only the thread itself puts buffers into its pool, and not while its handler
\* runs.
LEMMA LooksStep ==
  ASSUME OwnerInv, Looks, [Next]_vars
  PROVE  Looks'
<1>t. TypeOK /\ Handles
  BY DEF OwnerInv
<1>1. ASSUME NEW s \in Sockets, ReclaimAllJISRecvParams(s) \/ AllocJISRecvParams(s) \/ RecvFromFails(s)
      PROVE  Looks'
  <2>1. /\ hbuf' = hbuf /\ hbuf[s] = NoBuffer
        /\ \A t \in Sockets \ {s} : free'[t] = free[t]
    BY <1>1, <1>t DEF ReclaimAllJISRecvParams, AllocJISRecvParams, RecvFromFails, TypeOK, Handles
  <2> QED BY <2>1 DEF Looks
<1>2. ASSUME NEW s \in Sockets, PushRecvParams(s)
      PROVE  Looks'
  <2>1. /\ free' = free /\ hbuf'[s] = rbuf[s] /\ \A t \in Sockets \ {s} : hbuf'[t] = hbuf[t]
        /\ rbuf[s] # NoBuffer
    BY <1>2, <1>t DEF PushRecvParams, TypeOK, Handles
  <2>2. /\ Contents[<<"recv", s>>] = {rbuf[s]} \ {NoBuffer} /\ Contents[<<"pool", s>>] = free[s]
        /\ <<"recv", s>> \in Places /\ <<"pool", s>> \in Places
    BY ContentsAt DEF ContentsByKind
  <2>3. <<"recv", s>> # <<"pool", s>>
    OBVIOUS
  <2>4. rbuf[s] \notin free[s]
    BY <2>1, <2>2, <2>3 DEF OwnerInv, Partition
  <2> QED BY <2>1, <2>4 DEF Looks
<1>3. ASSUME NEW s \in Sockets, IncomeDatagramEventHandler(s)
      PROVE  Looks'
  <2>1. /\ free' = free /\ hbuf'[s] = NoBuffer /\ \A t \in Sockets \ {s} : hbuf'[t] = hbuf[t]
    BY <1>3, <1>t DEF IncomeDatagramEventHandler, TypeOK
  <2> QED BY <2>1 DEF Looks
<1>4. ASSUME NEW s \in Sockets, RecvFrom(s)
      PROVE  Looks'
  BY <1>4 DEF RecvFrom, Looks
<1>5. CASE Network \/ UNCHANGED vars
  <2>1. free' = free /\ hbuf' = hbuf
    BY <1>5 DEF Network, ProcessOneRecvParam, ReclaimOneJISRecvParams, ReclaimPastTheQueues,
                ReclaimNeverReturns, NextSocket, vars, recvVars
  <2> QED BY <2>1 DEF Looks
<1> QED BY <1>1, <1>2, <1>3, <1>4, <1>5 DEF Next, Receiver

(* RecvFrom writes only into a buffer that no queue and no other thread    *)
(* has: a buffer of recv_params_t that was not lost has exactly one owner, *)
(* for any number of sockets, although ReclaimOneJISRecvParams returns     *)
(* buffers to the wrong queue when there are several.  The buffer that     *)
(* incomeDatagramEventHandler looks at is not filled again by the thread   *)
(* that called it.                                                         *)
THEOREM BuffersHaveOneOwner == Spec => []OneOwner
<1>1. OwnerInv /\ Looks => OneOwner
  <2>h. ASSUME OwnerInv, Looks, NEW s \in Sockets
        PROVE  hbuf[s] \notin free[s] \cup ({rbuf[s]} \ {NoBuffer})
    <3>1. hbuf[s] = NoBuffer \/ rbuf[s] = NoBuffer
      BY <2>h DEF OwnerInv, TypeOK, Handles
    <3>2. free[s] \subseteq Buffers
      BY <2>h DEF OwnerInv, TypeOK
    <3> QED BY <2>h, <3>1, <3>2, NoBufferAssumption DEF Looks
  <2> SUFFICES ASSUME OwnerInv, Looks, NEW p \in Buffers
               PROVE  Cardinality(Owners(p)) = IF p \in lost THEN 0 ELSE 1
    BY <2>h DEF OneOwner, OwnerInv
  <2> DEFINE P == {<<"pool", s>> : s \in {t \in Sockets : p \in free[t]}}
             R == {<<"recv", s>> : s \in {t \in Sockets : rbuf[t] = p}}
             N == {<<"net", 0>> : x \in {nbuf} \cap {p}}
             A(s) == {<<"alloc", s, i>> : i \in Indices(allocRecvParamQ[s], p)}
             D(s) == {<<"dealloc", s, i>> : i \in Indices(deAllocRecvParamQ[s], p)}
             UA == UNION {A(s) : s \in Sockets}
             UD == UNION {D(s) : s \in Sockets}
  <2>o. Owners(p) = P \cup R \cup N \cup UA \cup UD
    BY DEF Owners
  <2>t. /\ p # NoBuffer
        /\ \A s \in Sockets : allocRecvParamQ[s] \in Seq(Buffers) /\ IsInjective(allocRecvParamQ[s])
        /\ \A s \in Sockets :
             deAllocRecvParamQ[s] \in Seq(Buffers) /\ IsInjective(deAllocRecvParamQ[s])
    BY NoBufferAssumption DEF OwnerInv, TypeOK, NoRepeats
  <2>x. PICK x \in Places : p \in Contents[x] /\ \A y \in Places : p \in Contents[y] => y = x
    BY DEF OwnerInv, Partition
  \* What each of the five sets is when p is in a place, or is not.
  <2>c. ASSUME NEW s \in Sockets
        PROVE  /\ p \in free[s] <=> x = <<"pool", s>>
               /\ rbuf[s] = p <=> x = <<"recv", s>>
               /\ p \in Range(allocRecvParamQ[s]) <=> x = <<"alloc", s>>
               /\ p \in Range(deAllocRecvParamQ[s]) <=> x = <<"dealloc", s>>
               /\ x = <<"net", s>> => s = 0
               /\ x = <<"lost", s>> => s = 0
    <3>1. /\ Contents[<<"pool", s>>] = free[s]
          /\ Contents[<<"recv", s>>] = {rbuf[s]} \ {NoBuffer}
          /\ Contents[<<"alloc", s>>] = Range(allocRecvParamQ[s])
          /\ Contents[<<"dealloc", s>>] = Range(deAllocRecvParamQ[s])
          /\ Contents[<<"net", s>>] = IF s = 0 THEN {nbuf} \ {NoBuffer} ELSE {}
          /\ Contents[<<"lost", s>>] = IF s = 0 THEN lost ELSE {}
          /\ <<"pool", s>> \in Places /\ <<"recv", s>> \in Places /\ <<"alloc", s>> \in Places
          /\ <<"dealloc", s>> \in Places /\ <<"net", s>> \in Places /\ <<"lost", s>> \in Places
      BY ContentsAt DEF ContentsByKind
    <3>2. p \in free[s] <=> x = <<"pool", s>>
      BY <3>1, <2>x
    <3>3. rbuf[s] = p <=> x = <<"recv", s>>
      BY <3>1, <2>x, <2>t
    <3>4. p \in Range(allocRecvParamQ[s]) <=> x = <<"alloc", s>>
      BY <3>1, <2>x
    <3>5. p \in Range(deAllocRecvParamQ[s]) <=> x = <<"dealloc", s>>
      BY <3>1, <2>x
    <3>6. x = <<"net", s>> => s = 0
      BY <3>1, <2>x
    <3>7. x = <<"lost", s>> => s = 0
      BY <3>1, <2>x
    <3> QED BY <3>2, <3>3, <3>4, <3>5, <3>6, <3>7
  <2>n. nbuf = p <=> x = <<"net", 0>>
    <3>1. Contents[<<"net", 0>>] = {nbuf} \ {NoBuffer} /\ <<"net", 0>> \in Places
      BY ContentsAt DEF ContentsByKind
    <3> QED BY <3>1, <2>x, <2>t
  <2>l. p \in lost <=> x = <<"lost", 0>>
    <3>1. Contents[<<"lost", 0>>] = lost /\ <<"lost", 0>> \in Places
      BY ContentsAt DEF ContentsByKind
    <3> QED BY <3>1, <2>x
  <2>k. PICK s \in Sockets :
          x \in {<<"pool", s>>, <<"recv", s>>, <<"alloc", s>>, <<"dealloc", s>>, <<"net", s>>,
             <<"lost", s>>}
    BY ContentsAt DEF ContentsByKind
  <2>1. x = <<"pool", s>> => P = {<<"pool", s>>}
    BY <2>c
  <2>2. x # <<"pool", s>> => P = {}
    BY <2>c, <2>k
  <2>3. x = <<"recv", s>> => R = {<<"recv", s>>}
    BY <2>c
  <2>4. x # <<"recv", s>> => R = {}
    BY <2>c, <2>k
  <2>5. x = <<"net", s>> => N = {<<"net", 0>>}
    BY <2>c, <2>n
  <2>6. x # <<"net", s>> => N = {}
    BY <2>n, <2>k
  <2>7. x = <<"alloc", s>> => \E o : UA = {o}
    <3> SUFFICES ASSUME x = <<"alloc", s>>
                 PROVE  \E o : UA = {o}
      OBVIOUS
    <3>1. PICK i : Indices(allocRecvParamQ[s], p) = {i}
      BY <2>c, <2>t, OneIndex
    <3>2. A(s) = {<<"alloc", s, i>>}
      BY <3>1
    <3>3. \A t \in Sockets : t # s => Indices(allocRecvParamQ[t], p) = {}
      BY <2>c, <2>t, InRange
    <3>4. \A t \in Sockets : t # s => A(t) = {}
      BY <3>3
    <3> HIDE DEF A
    <3>5. UA = {<<"alloc", s, i>>}
      BY <3>2, <3>4
    <3> QED BY <3>5
  <2>8. x # <<"alloc", s>> => UA = {}
    <3> SUFFICES ASSUME x # <<"alloc", s>>
                 PROVE  UA = {}
      OBVIOUS
    <3>1. \A t \in Sockets : p \notin Range(allocRecvParamQ[t])
      BY <2>c, <2>k
    <3>2. \A t \in Sockets : Indices(allocRecvParamQ[t], p) = {}
      BY <3>1, <2>t, InRange
    <3> QED BY <3>2
  <2>9. x = <<"dealloc", s>> => \E o : UD = {o}
    <3> SUFFICES ASSUME x = <<"dealloc", s>>
                 PROVE  \E o : UD = {o}
      OBVIOUS
    <3>1. PICK i : Indices(deAllocRecvParamQ[s], p) = {i}
      BY <2>c, <2>t, OneIndex
    <3>2. D(s) = {<<"dealloc", s, i>>}
      BY <3>1
    <3>3. \A t \in Sockets : t # s => Indices(deAllocRecvParamQ[t], p) = {}
      BY <2>c, <2>t, InRange
    <3>4. \A t \in Sockets : t # s => D(t) = {}
      BY <3>3
    <3> HIDE DEF D
    <3>5. UD = {<<"dealloc", s, i>>}
      BY <3>2, <3>4
    <3> QED BY <3>5
  <2>10. x # <<"dealloc", s>> => UD = {}
    <3> SUFFICES ASSUME x # <<"dealloc", s>>
                 PROVE  UD = {}
      OBVIOUS
    <3>1. \A t \in Sockets : p \notin Range(deAllocRecvParamQ[t])
      BY <2>c, <2>k
    <3>2. \A t \in Sockets : Indices(deAllocRecvParamQ[t], p) = {}
      BY <3>1, <2>t, InRange
    <3> QED BY <3>2
  <2> HIDE DEF P, R, N, UA, UD
  <2>11. CASE x = <<"lost", s>>
    <3>1. p \in lost
      BY <2>11, <2>c, <2>l
    <3>2. Owners(p) = {}
      BY <2>11, <2>o, <2>2, <2>4, <2>6, <2>8, <2>10
    <3> QED BY <3>1, <3>2, FS_EmptySet
  <2>12. CASE x # <<"lost", s>>
    <3>6. \E o : Owners(p) = {o}
      <4>1. CASE x = <<"pool", s>>
        BY <4>1, <2>o, <2>1, <2>4, <2>6, <2>8, <2>10
      <4>2. CASE x = <<"recv", s>>
        BY <4>2, <2>o, <2>2, <2>3, <2>6, <2>8, <2>10
      <4>3. CASE x = <<"net", s>>
        BY <4>3, <2>o, <2>2, <2>4, <2>5, <2>8, <2>10
      <4>4. CASE x = <<"alloc", s>>
        BY <4>4, <2>o, <2>2, <2>4, <2>6, <2>7, <2>10
      <4>5. CASE x = <<"dealloc", s>>
        BY <4>5, <2>o, <2>2, <2>4, <2>6, <2>8, <2>9
      <4> QED BY <2>k, <2>12, <4>1, <4>2, <4>3, <4>4, <4>5
    <3>7. p \notin lost
      BY <2>12, <2>k, <2>l
    <3> QED BY <3>6, <3>7, FS_Singleton
  <2> QED BY <2>11, <2>12
<1>2. Init => Looks
  BY DEF Init, Looks
<1>3. OwnerInv /\ Looks /\ [Next]_vars => Looks'
  BY LooksStep
<1> QED BY <1>1, <1>2, <1>3, OwnerInvariant, PTL DEF Spec

-----------------------------------------------------------------------------
(* The order of the datagrams.                                             *)

\* What RecvFrom and ProcessOneRecvParam write to one buffer leaves the others.
LEMMA OtherBuffers ==
  ASSUME OwnerInv
  PROVE  /\ \A s, t \in Sockets : rbuf[s] # NoBuffer => rbuf[s] \notin Range(allocRecvParamQ[t])
         /\ \A s, t \in Sockets : rbuf[s] # NoBuffer /\ rbuf[s] = rbuf[t] => s = t
         /\ \A s, t \in Sockets : \A p \in Range(allocRecvParamQ[s]) :
              p \in Range(allocRecvParamQ[t]) => s = t
<1>c. \A s \in Sockets :
        /\ Contents[<<"recv", s>>] = {rbuf[s]} \ {NoBuffer}
        /\ Contents[<<"alloc", s>>] = Range(allocRecvParamQ[s])
        /\ <<"recv", s>> \in Places /\ <<"alloc", s>> \in Places
  BY ContentsAt DEF ContentsByKind
<1>p. \A x, y \in Places : \A p \in Contents[x] : p \in Contents[y] => x = y
  BY DEF OwnerInv, Partition
<1>1. ASSUME NEW s \in Sockets, NEW t \in Sockets, rbuf[s] # NoBuffer
      PROVE  rbuf[s] \notin Range(allocRecvParamQ[t])
  <2>1. rbuf[s] \in Contents[<<"recv", s>>] /\ <<"recv", s>> # <<"alloc", t>>
    BY <1>1, <1>c
  <2>2. /\ <<"recv", s>> \in Places /\ <<"alloc", t>> \in Places
        /\ Contents[<<"alloc", t>>] = Range(allocRecvParamQ[t])
    BY <1>c
  <2> QED BY <2>1, <2>2, <1>p
<1>2. ASSUME NEW s \in Sockets, NEW t \in Sockets, rbuf[s] # NoBuffer, rbuf[s] = rbuf[t]
      PROVE  s = t
  <2>1. rbuf[s] \in Contents[<<"recv", s>>] /\ rbuf[s] \in Contents[<<"recv", t>>]
    BY <1>2, <1>c
  <2>2. <<"recv", s>> = <<"recv", t>>
    BY <2>1, <1>c, <1>p
  <2> QED BY <2>2
<1>3. ASSUME NEW s \in Sockets, NEW t \in Sockets, NEW p \in Range(allocRecvParamQ[s]),
             p \in Range(allocRecvParamQ[t])
      PROVE  s = t
  <2>1. /\ <<"alloc", s>> \in Places /\ <<"alloc", t>> \in Places
        /\ p \in Contents[<<"alloc", s>>] /\ p \in Contents[<<"alloc", t>>]
    BY <1>3, <1>c
  <2>2. <<"alloc", s>> = <<"alloc", t>>
    BY <2>1, <1>p
  <2> QED BY <2>2
<1> QED BY <1>1, <1>2, <1>3

\* The steps that neither receive, queue nor process.
LEMMA QuietOrder ==
  ASSUME Consecutive, UNCHANGED <<allocRecvParamQ, processed, datagram, arrived>>,
         \A t \in Sockets : /\ rpc'[t] = "push" <=> rpc[t] = "push"
                            /\ rpc[t] = "push" => rbuf'[t] = rbuf[t]
  PROVE  Consecutive'
  BY DEF Consecutive, Number

\* Consecutive in the next state, with the length of each queue named.
LEMMA ConsecutiveNext ==
  ASSUME \A t \in Sockets : Len(allocRecvParamQ'[t]) \in Nat,
         \A t \in Sockets : \A n \in Nat : n = Len(allocRecvParamQ'[t]) =>
           /\ \A i \in 1 .. n : Number(t, i)' = Successor(Number(t, i - 1)')
           /\ rpc'[t] # "push" => arrived'[t] = Number(t, n)'
           /\ rpc'[t] = "push" => /\ arrived'[t] = Successor(Number(t, n)')
                                  /\ datagram'[rbuf'[t]] = arrived'[t]
  PROVE  Consecutive'
  BY DEF Consecutive, Number

\* The numbers stay consecutive when a datagram arrives.
LEMMA RecvFromOrder ==
  ASSUME OrderInv, NEW s \in Sockets, RecvFrom(s)
  PROVE  Consecutive'
<1>u. /\ UNCHANGED <<rbuf, allocRecvParamQ, processed>>
      /\ arrived' = [arrived EXCEPT ![s] = Successor(@)]
      /\ datagram' = [datagram EXCEPT ![rbuf[s]] = arrived'[s]]
      /\ rpc' = [rpc EXCEPT ![s] = "push"] /\ rpc[s] = "recv"
  BY DEF RecvFrom, netVars
<1>t. TypeOK /\ Handles /\ OwnerInv /\ Consecutive
  BY DEF OrderInv, OwnerInv
<1>b. rbuf[s] \in Buffers /\ rbuf[s] # NoBuffer
  BY <1>u, <1>t DEF TypeOK, Handles
<1>s. /\ arrived'[s] = Successor(arrived[s])
      /\ \A t \in Sockets \ {s} : arrived'[t] = arrived[t] /\ rpc'[t] = rpc[t]
      /\ rpc'[s] = "push"
      /\ datagram'[rbuf[s]] = arrived'[s]
      /\ \A p \in Buffers \ {rbuf[s]} : datagram'[p] = datagram[p]
  BY <1>u, <1>t, <1>b DEF TypeOK
<1>1. ASSUME NEW t \in Sockets, NEW i \in 0 .. Len(allocRecvParamQ[t])
      PROVE  Number(t, i)' = Number(t, i)
  <2>1. CASE i = 0
    BY <2>1, <1>u DEF Number
  <2>2. CASE i # 0
    <3>1. /\ allocRecvParamQ[t] \in Seq(Buffers) /\ i \in 1 .. Len(allocRecvParamQ[t])
      BY <2>2, <1>t DEF TypeOK
    <3>2. allocRecvParamQ[t][i] \in Buffers /\ allocRecvParamQ[t][i] \in Range(allocRecvParamQ[t])
      BY <3>1, ElementOfSeq DEF Range
    <3>3. allocRecvParamQ[t][i] # rbuf[s]
      BY <3>2, <1>t, <1>b, OtherBuffers
    <3> QED BY <2>2, <3>2, <3>3, <1>s, <1>u DEF Number
  <2> QED BY <2>1, <2>2
<1>2. ASSUME NEW t \in Sockets, NEW n \in Nat, n = Len(allocRecvParamQ[t])
      PROVE  /\ \A i \in 1 .. n : Number(t, i)' = Successor(Number(t, i - 1)')
             /\ rpc'[t] # "push" => arrived'[t] = Number(t, n)'
             /\ rpc'[t] = "push" => /\ arrived'[t] = Successor(Number(t, n)')
                                    /\ datagram'[rbuf'[t]] = arrived'[t]
  <2>0. n \in 0 .. n
    OBVIOUS
  <2>1. \A i \in 1 .. n : Number(t, i)' = Successor(Number(t, i - 1)')
    <3> SUFFICES ASSUME NEW i \in 1 .. n
                 PROVE  Number(t, i)' = Successor(Number(t, i - 1)')
      OBVIOUS
    <3>1. i \in 0 .. n /\ i - 1 \in 0 .. n
      OBVIOUS
    <3>2. Number(t, i)' = Number(t, i) /\ Number(t, i - 1)' = Number(t, i - 1)
      BY <3>1, <1>1, <1>2
    <3>3. Number(t, i) = Successor(Number(t, i - 1))
      BY <1>t, <1>2 DEF Consecutive
    <3> QED BY <3>2, <3>3
  <2>2. Number(t, n)' = Number(t, n)
    BY <2>0, <1>1, <1>2
  <2>3. CASE t = s
    <3>1. arrived[s] = Number(s, n)
      BY <2>3, <1>t, <1>u, <1>2 DEF Consecutive
    <3> QED BY <2>1, <2>2, <2>3, <3>1, <1>s, <1>u
  <2>4. CASE t # s
    <3>1. /\ rpc[t] # "push" => arrived[t] = Number(t, n)
          /\ rpc[t] = "push" => /\ arrived[t] = Successor(Number(t, n))
                                /\ datagram[rbuf[t]] = arrived[t]
      BY <1>t, <1>2 DEF Consecutive
    <3>2. rpc[t] = "push" => rbuf[t] \in Buffers /\ rbuf[t] # rbuf[s]
      BY <2>4, <1>t, <1>b, OtherBuffers DEF TypeOK, Handles
    <3> QED BY <2>1, <2>2, <2>4, <3>1, <3>2, <1>s, <1>u
  <2> QED BY <2>3, <2>4
<1>3. \A t \in Sockets : Len(allocRecvParamQ[t]) \in Nat
  BY <1>t, LenProperties DEF TypeOK
<1> QED BY <1>2, <1>3, ConsecutiveNext, <1>u

\* When a buffer is queued.
LEMMA PushOrder ==
  ASSUME OrderInv, NEW s \in Sockets, PushRecvParams(s)
  PROVE  Consecutive'
<1> DEFINE q == allocRecvParamQ[s]
<1>u. /\ UNCHANGED <<processed, datagram, arrived>>
      /\ allocRecvParamQ' = [allocRecvParamQ EXCEPT ![s] = Append(@, rbuf[s])]
      /\ rbuf' = [rbuf EXCEPT ![s] = NoBuffer]
      /\ rpc' = [rpc EXCEPT ![s] = "notify"] /\ rpc[s] = "push"
  BY DEF PushRecvParams, netVars
<1>t. TypeOK /\ Handles /\ Consecutive
  BY DEF OrderInv, OwnerInv
<1>b. rbuf[s] \in Buffers
  BY <1>u, <1>t DEF TypeOK, Handles
<1>s. /\ allocRecvParamQ'[s] = Append(q, rbuf[s]) /\ rpc'[s] = "notify"
      /\ \A t \in Sockets \ {s} : /\ allocRecvParamQ'[t] = allocRecvParamQ[t]
                                  /\ rpc'[t] = rpc[t] /\ rbuf'[t] = rbuf[t]
  BY <1>u, <1>t DEF TypeOK
<1>l. \A t \in Sockets : Len(allocRecvParamQ[t]) \in Nat
  BY <1>t, LenProperties DEF TypeOK
<1>a. PICK m \in Nat : m = Len(q)
  BY <1>l
<1>1. /\ Len(Append(q, rbuf[s])) = m + 1
      /\ \A i \in 1 .. m : Append(q, rbuf[s])[i] = q[i]
      /\ Append(q, rbuf[s])[m + 1] = rbuf[s]
  <2>1. q \in Seq(Buffers)
    BY <1>t DEF TypeOK
  <2> QED BY <2>1, <1>a, <1>b, AppendProperties
<1>2. ASSUME NEW n \in Nat, n = Len(allocRecvParamQ'[s])
      PROVE  /\ \A i \in 1 .. n : Number(s, i)' = Successor(Number(s, i - 1)')
             /\ arrived'[s] = Number(s, n)'
  <2>1. n = m + 1
    BY <1>2, <1>s, <1>1
  <2>2. ASSUME NEW i \in 0 .. m
        PROVE  Number(s, i)' = Number(s, i)
    <3>1. CASE i = 0
      BY <3>1, <1>u DEF Number
    <3>2. CASE i # 0
      <4>1. i \in 1 .. m
        BY <3>2
      <4> QED BY <3>2, <4>1, <1>1, <1>s, <1>u DEF Number
    <3> QED BY <3>1, <3>2
  <2>3. Number(s, n)' = datagram[rbuf[s]]
    BY <2>1, <1>1, <1>s, <1>u DEF Number
  <2>4. /\ arrived[s] = Successor(Number(s, m)) /\ datagram[rbuf[s]] = arrived[s]
        /\ \A i \in 1 .. m : Number(s, i) = Successor(Number(s, i - 1))
    BY <1>t, <1>u, <1>a DEF Consecutive
  <2>5. ASSUME NEW i \in 1 .. n
        PROVE  Number(s, i)' = Successor(Number(s, i - 1)')
    <3>1. i - 1 \in 0 .. m /\ (i \in 1 .. m \/ i = m + 1)
      BY <2>1
    <3>2. Number(s, i - 1)' = Number(s, i - 1)
      BY <3>1, <2>2
    <3>3. CASE i \in 1 .. m
      <4>1. i \in 0 .. m
        BY <3>3
      <4> QED BY <4>1, <3>2, <3>3, <2>2, <2>4
    <3>4. CASE i = m + 1
      <4>1. i = n /\ i - 1 = m
        BY <3>4, <2>1
      <4> QED BY <4>1, <3>2, <2>3, <2>4
    <3> QED BY <3>1, <3>3, <3>4
  <2> QED BY <2>3, <2>4, <2>5, <1>u
<1>3. ASSUME NEW t \in Sockets, t # s, NEW n \in Nat, n = Len(allocRecvParamQ'[t])
      PROVE  /\ \A i \in 1 .. n : Number(t, i)' = Successor(Number(t, i - 1)')
             /\ rpc'[t] # "push" => arrived'[t] = Number(t, n)'
             /\ rpc'[t] = "push" => /\ arrived'[t] = Successor(Number(t, n)')
                                    /\ datagram'[rbuf'[t]] = arrived'[t]
  <2>1. n = Len(allocRecvParamQ[t])
    BY <1>3, <1>s
  <2>2. ASSUME NEW i \in Nat
        PROVE  Number(t, i)' = Number(t, i)
    BY <1>3, <1>s, <1>u DEF Number
  <2>3. /\ \A i \in 1 .. n : Number(t, i) = Successor(Number(t, i - 1))
        /\ rpc[t] # "push" => arrived[t] = Number(t, n)
        /\ rpc[t] = "push" => /\ arrived[t] = Successor(Number(t, n))
                              /\ datagram[rbuf[t]] = arrived[t]
    BY <1>t, <2>1 DEF Consecutive
  <2>4. \A i \in 1 .. n : i \in Nat /\ i - 1 \in Nat
    OBVIOUS
  <2> QED BY <2>2, <2>3, <2>4, <1>3, <1>s, <1>u
<1>4. \A t \in Sockets : Len(allocRecvParamQ'[t]) \in Nat
  BY <1>l, <1>s, <1>1
<1>5. \A t \in Sockets : \A n \in Nat : n = Len(allocRecvParamQ'[t]) =>
        /\ \A i \in 1 .. n : Number(t, i)' = Successor(Number(t, i - 1)')
        /\ rpc'[t] # "push" => arrived'[t] = Number(t, n)'
        /\ rpc'[t] = "push" => /\ arrived'[t] = Successor(Number(t, n)')
                               /\ datagram'[rbuf'[t]] = arrived'[t]
  BY <1>2, <1>3, <1>s
<1> QED BY <1>4, <1>5, ConsecutiveNext

\* When a datagram is processed, which is the next of its socket.
LEMMA ProcessOrder ==
  ASSUME OrderInv, ProcessOneRecvParam
  PROVE  /\ Consecutive'
         /\ processed'[outter] = Successor(processed[outter])
         /\ \A t \in Sockets \ {outter} : processed'[t] = processed[t]
<1> DEFINE q == allocRecvParamQ[outter]
           p == Head(q)
<1>u. /\ UNCHANGED <<outter, arrived, rpc, rbuf>>
      /\ npc = "poll" /\ inner < Len(q) /\ nbuf' = p
      /\ allocRecvParamQ' = [allocRecvParamQ EXCEPT ![outter] = Tail(@)]
      /\ processed' = [processed EXCEPT ![outter] = datagram[p]]
      /\ datagram' = [datagram EXCEPT ![p] = 0]
  BY DEF ProcessOneRecvParam
<1>t. /\ TypeOK /\ Handles /\ Consecutive /\ OwnerInv /\ outter \in Sockets
      /\ q \in Seq(Buffers) /\ IsInjective(q) /\ Len(q) \in Nat /\ inner \in Nat
  BY LenProperties DEF OrderInv, OwnerInv, NoRepeats, TypeOK
<1>l. \A t \in Sockets : Len(allocRecvParamQ[t]) \in Nat
  BY <1>t, LenProperties DEF TypeOK
<1>0. q # <<>>
  BY <1>u, <1>t
<1>a. PICK m \in Nat : m = Len(q)
  BY <1>t
<1>1. /\ p \in Buffers /\ p \in Range(q) /\ p = q[1] /\ m \in Nat \ {0}
      /\ Len(Tail(q)) = m - 1
      /\ \A i \in 1 .. m - 1 : i + 1 \in 1 .. m /\ Tail(q)[i] = q[i + 1]
  BY <1>t, <1>0, <1>a, RangeOfTail
<1>s. /\ allocRecvParamQ'[outter] = Tail(q)
      /\ \A t \in Sockets \ {outter} : allocRecvParamQ'[t] = allocRecvParamQ[t]
      /\ processed'[outter] = datagram[p]
      /\ \A t \in Sockets \ {outter} : processed'[t] = processed[t]
      /\ \A b \in Buffers \ {p} : datagram'[b] = datagram[b]
  BY <1>u, <1>t, <1>1 DEF TypeOK
<1>c. /\ \A i \in 1 .. m : q[i] \in Buffers /\ q[i] \in Range(q)
      /\ \A i \in 1 .. m : q[i] = p => i = 1
  BY <1>t, <1>a, <1>1, ElementOfSeq DEF Range, IsInjective
<1> HIDE DEF p
<1>r. \A t \in Sockets : rpc[t] = "push" => rbuf[t] \in Buffers /\ rbuf[t] # p
  BY <1>t, <1>1, OtherBuffers DEF TypeOK, Handles
<1>2. ASSUME NEW i \in 0 .. m - 1
      PROVE  Number(outter, i)' = Number(outter, i + 1)
  <2>1. CASE i = 0
    BY <2>1, <1>s, <1>1, <1>u DEF Number
  <2>2. CASE i # 0
    <3>1. i \in 1 .. m - 1 /\ i + 1 # 1 /\ i + 1 # 0
      BY <2>2
    <3>2. allocRecvParamQ'[outter][i] = q[i + 1] /\ q[i + 1] # p /\ q[i + 1] \in Buffers
      BY <3>1, <1>1, <1>s, <1>c
    <3>3. Number(outter, i)' = datagram'[q[i + 1]]
      BY <2>2, <3>2, <1>u DEF Number
    <3>4. Number(outter, i + 1) = datagram[q[i + 1]]
      BY <3>1 DEF Number
    <3> QED BY <3>2, <3>3, <3>4, <1>s
  <2> QED BY <2>1, <2>2
<1>k. /\ \A i \in 1 .. m : Number(outter, i) = Successor(Number(outter, i - 1))
      /\ rpc[outter] # "push" => arrived[outter] = Number(outter, m)
      /\ rpc[outter] = "push" => /\ arrived[outter] = Successor(Number(outter, m))
                                 /\ datagram[rbuf[outter]] = arrived[outter]
  BY <1>t, <1>a DEF Consecutive
<1>3. ASSUME NEW n \in Nat, n = Len(allocRecvParamQ'[outter])
      PROVE  /\ \A i \in 1 .. n : Number(outter, i)' = Successor(Number(outter, i - 1)')
             /\ rpc'[outter] # "push" => arrived'[outter] = Number(outter, n)'
             /\ rpc'[outter] = "push" => /\ arrived'[outter] = Successor(Number(outter, n)')
                                         /\ datagram'[rbuf'[outter]] = arrived'[outter]
  <2>1. n = m - 1
    BY <1>3, <1>s, <1>1
  <2>2. ASSUME NEW i \in 1 .. n
        PROVE  Number(outter, i)' = Successor(Number(outter, i - 1)')
    <3>1. i \in 0 .. m - 1 /\ i - 1 \in 0 .. m - 1 /\ i + 1 \in 1 .. m /\ (i - 1) + 1 = i
          /\ (i + 1) - 1 = i
      BY <2>1
    <3>2. Number(outter, i)' = Number(outter, i + 1)
      BY <3>1, <1>2
    <3>3. Number(outter, i - 1)' = Number(outter, (i - 1) + 1)
      BY <3>1, <1>2
    <3> QED BY <3>1, <3>2, <3>3, <1>k
  <2>3. Number(outter, n)' = Number(outter, m)
    <3>1. n \in 0 .. m - 1 /\ n + 1 = m
      BY <2>1, <1>1
    <3> QED BY <3>1, <1>2
  <2> QED BY <2>2, <2>3, <1>k, <1>u, <1>r, <1>s, <1>t
<1>4. ASSUME NEW t \in Sockets, t # outter, NEW n \in Nat, n = Len(allocRecvParamQ'[t])
      PROVE  /\ \A i \in 1 .. n : Number(t, i)' = Successor(Number(t, i - 1)')
             /\ rpc'[t] # "push" => arrived'[t] = Number(t, n)'
             /\ rpc'[t] = "push" => /\ arrived'[t] = Successor(Number(t, n)')
                                    /\ datagram'[rbuf'[t]] = arrived'[t]
  <2>1. n = Len(allocRecvParamQ[t])
    BY <1>4, <1>s
  <2>2. ASSUME NEW i \in 0 .. n
        PROVE  Number(t, i)' = Number(t, i)
    <3>1. CASE i = 0
      BY <3>1, <1>4, <1>s DEF Number
    <3>2. CASE i # 0
      <4>1. allocRecvParamQ[t] \in Seq(Buffers) /\ i \in 1 .. Len(allocRecvParamQ[t])
        BY <3>2, <2>1, <1>t DEF TypeOK
      <4>2. allocRecvParamQ[t][i] \in Buffers /\ allocRecvParamQ[t][i] \in Range(allocRecvParamQ[t])
        BY <4>1, ElementOfSeq DEF Range
      <4>3. allocRecvParamQ[t][i] # p
        BY <4>2, <1>t, <1>1, <1>4, OtherBuffers
      <4> QED BY <3>2, <4>2, <4>3, <1>4, <1>s DEF Number
    <3> QED BY <3>1, <3>2
  <2>3. /\ \A i \in 1 .. n : Number(t, i) = Successor(Number(t, i - 1))
        /\ rpc[t] # "push" => arrived[t] = Number(t, n)
        /\ rpc[t] = "push" => /\ arrived[t] = Successor(Number(t, n))
                              /\ datagram[rbuf[t]] = arrived[t]
    BY <1>t, <2>1 DEF Consecutive
  <2>4. n \in 0 .. n /\ \A i \in 1 .. n : i \in 0 .. n /\ i - 1 \in 0 .. n
    OBVIOUS
  <2> QED BY <2>2, <2>3, <2>4, <1>4, <1>u, <1>r, <1>s
<1>5. \A t \in Sockets : Len(allocRecvParamQ'[t]) \in Nat
  BY <1>l, <1>s, <1>1, <1>a
<1>6. \A t \in Sockets : \A n \in Nat : n = Len(allocRecvParamQ'[t]) =>
        /\ \A i \in 1 .. n : Number(t, i)' = Successor(Number(t, i - 1)')
        /\ rpc'[t] # "push" => arrived'[t] = Number(t, n)'
        /\ rpc'[t] = "push" => /\ arrived'[t] = Successor(Number(t, n)')
                               /\ datagram'[rbuf'[t]] = arrived'[t]
  <2>1. outter' = outter
    BY <1>u
  <2> QED BY <1>3, <1>4, <2>1
<1>7. Consecutive'
  BY <1>5, <1>6, ConsecutiveNext
<1>8. processed'[outter] = Successor(processed[outter])
  <2>1. 1 \in 1 .. m /\ 1 - 1 = 0
    BY <1>1
  <2>2. Number(outter, 1) = Successor(Number(outter, 0))
    BY <2>1, <1>k
  <2> QED BY <2>2, <1>1, <1>s DEF Number
<1> QED BY <1>7, <1>8, <1>s

\* In every step.
LEMMA OrderStep ==
  ASSUME OrderInv, [Next]_vars
  PROVE  /\ OrderInv'
         /\ \A s \in Sockets :
              processed'[s] # processed[s] => processed'[s] = Successor(processed[s])
<1>t. TypeOK /\ Consecutive /\ OwnerInv
  BY DEF OrderInv, OwnerInv
<1>o. OwnerInv'
  BY <1>t, OwnerStep
<1> SUFFICES /\ Consecutive'
             /\ \A s \in Sockets :
                  processed'[s] # processed[s] => processed'[s] = Successor(processed[s])
  BY <1>o DEF OrderInv
<1>1. ASSUME NEW s \in Sockets, ReclaimAllJISRecvParams(s)
      PROVE  Consecutive' /\ processed' = processed
  BY <1>1, <1>t, QuietOrder DEF ReclaimAllJISRecvParams, netVars
<1>2. ASSUME NEW s \in Sockets, AllocJISRecvParams(s)
      PROVE  Consecutive' /\ processed' = processed
  <2>1. \A t \in Sockets : /\ rpc'[t] = "push" <=> rpc[t] = "push"
                           /\ rpc[t] = "push" => rbuf'[t] = rbuf[t]
    BY <1>2, <1>t DEF AllocJISRecvParams, TypeOK
  <2> QED BY <1>2, <1>t, <2>1, QuietOrder DEF AllocJISRecvParams, netVars
<1>3. ASSUME NEW s \in Sockets, RecvFrom(s)
      PROVE  Consecutive' /\ processed' = processed
  BY <1>3, RecvFromOrder DEF RecvFrom, netVars
<1>4. ASSUME NEW s \in Sockets, RecvFromFails(s)
      PROVE  Consecutive' /\ processed' = processed
  <2>1. \A t \in Sockets : /\ rpc'[t] = "push" <=> rpc[t] = "push"
                           /\ rpc[t] = "push" => rbuf'[t] = rbuf[t]
    BY <1>4, <1>t DEF RecvFromFails, TypeOK
  <2> QED BY <1>4, <1>t, <2>1, QuietOrder DEF RecvFromFails, netVars
<1>5. ASSUME NEW s \in Sockets, PushRecvParams(s)
      PROVE  Consecutive' /\ processed' = processed
  BY <1>5, PushOrder DEF PushRecvParams, netVars
<1>12. ASSUME NEW s \in Sockets, IncomeDatagramEventHandler(s)
       PROVE  Consecutive' /\ processed' = processed
  <2>1. \A t \in Sockets : /\ rpc'[t] = "push" <=> rpc[t] = "push"
                           /\ rpc[t] = "push" => rbuf'[t] = rbuf[t]
    BY <1>12, <1>t DEF IncomeDatagramEventHandler, TypeOK
  <2> QED BY <1>12, <1>t, <2>1, QuietOrder DEF IncomeDatagramEventHandler, netVars
<1>6. CASE ReclaimOneJISRecvParams
  BY <1>6, <1>t, QuietOrder DEF ReclaimOneJISRecvParams, recvVars
<1>7. CASE ReclaimPastTheQueues
  BY <1>7, <1>t, QuietOrder DEF ReclaimPastTheQueues, recvVars
<1>8. CASE ReclaimNeverReturns
  BY <1>8, <1>t, QuietOrder DEF ReclaimNeverReturns, recvVars
<1>9. CASE NextSocket
  BY <1>9, <1>t, QuietOrder DEF NextSocket, recvVars
<1>10. CASE UNCHANGED vars
  BY <1>10, <1>t, QuietOrder DEF vars, recvVars, netVars
<1>11. CASE ProcessOneRecvParam
  BY <1>11, ProcessOrder
<1> QED BY <1>1, <1>2, <1>3, <1>4, <1>5, <1>6, <1>7, <1>8, <1>9, <1>10, <1>11, <1>12
        DEF Next, Network, Receiver

\* So they are consecutive in every state.
LEMMA OrderInvariant == Spec => []OrderInv
<1>1. Init => OrderInv
  <2> SUFFICES ASSUME Init
               PROVE  Consecutive
    BY OwnerInit DEF OrderInv
  <2>1. \A s \in Sockets : allocRecvParamQ[s] = <<>> /\ Len(allocRecvParamQ[s]) = 0
    BY DEF Init
  <2> QED BY <2>1 DEF Init, Consecutive, Number
<1>2. OrderInv /\ [Next]_vars => OrderInv'
  BY OrderStep
<1> QED BY <1>1, <1>2, PTL DEF Spec

(* ProcessAllocJISRecvParamsQ processes the datagrams of each socket in    *)
(* the order in which its receive thread received them, without a gap and  *)
(* without a repetition, for any number of sockets.                        *)
THEOREM ProcessedInOrder == Spec => InOrder
<1>1. OrderInv /\ [Next]_vars =>
        [\A s \in Sockets :
           processed'[s] # processed[s] => processed'[s] = Successor(processed[s])]_vars
  BY OrderStep
<1> QED BY <1>1, OrderInvariant, PTL DEF Spec, InOrder

-----------------------------------------------------------------------------
(* The buffers a pool has handed out, with one socket.                     *)

Out == Pool(0) \ (free[0] \cup lost)

\* A pass of ReclaimAllJISRecvParams that has met a buffer has made room for
\* the one that AllocJISRecvParams takes after it.
Demand ==
  /\ Cardinality(Out) <= Cap + 2
  /\ rpc[0] = "reclaim" /\ rindex[0] > 0 => Cardinality(Out) <= Cap + 1
  /\ rpc[0] # "reclaim" => rindex[0] = 0

\* A queue holds no more buffers than it has cells in use.
LEMMA RangeBound ==
  ASSUME NEW S, NEW q \in Seq(S)
  PROVE  IsFiniteSet(Range(q)) /\ Cardinality(Range(q)) <= Len(q)
<1>1. q \in Surjection(1 .. Len(q), Range(q)) /\ Len(q) \in Nat
  BY LenProperties DEF Surjection, Range
<1>2. IsFiniteSet(1 .. Len(q)) /\ Cardinality(1 .. Len(q)) = Len(q)
  <2>1. \A a, b \in Int : /\ IsFiniteSet(a .. b)
                          /\ Cardinality(a .. b) = IF a > b THEN 0 ELSE b - a + 1
    BY FS_Interval
  <2>2. \A n \in Nat : IsFiniteSet(1 .. n) /\ Cardinality(1 .. n) = n
    BY <2>1
  <2> QED BY <2>2, <1>1
<1> QED BY <1>1, <1>2, FS_Surjection

\* The buffers that are out can be counted.
LEMMA OutFinite == IsFiniteSet(Out) /\ Cardinality(Out) \in Nat
<1>1. IsFiniteSet({0}) /\ IsFiniteSet(Cells)
  BY FS_Singleton, PipelineAssumption
<1>2. IsFiniteSet(Pool(0))
  BY <1>1, FS_Product DEF Pool
<1>3. Out \in SUBSET Pool(0)
  BY DEF Out
<1>4. IsFiniteSet(Out)
  BY <1>2, <1>3, FS_Subset
<1> QED BY <1>4, FS_CardinalityType

\* The constants when there is one socket.
LEMMA OneSocket ==
  ASSUME NSockets = 1
  PROVE  Sockets = {0} /\ Pool(0) = Buffers /\ Places = {"pool", "recv", "alloc", "dealloc", "net", "lost"} \X {0}
  BY DEF Sockets, Pool, Buffers, Places

\* With nothing to reclaim, what is out is queued or with the network thread.
LEMMA OutWhenNothingToReclaim ==
  ASSUME NSockets = 1, OwnerInv, rpc[0] = "reclaim", Len(deAllocRecvParamQ[0]) = 0
  PROVE  Cardinality(Out) <= Cap + 1
<1> DEFINE R == Range(allocRecvParamQ[0])
<1>t. /\ 0 \in Sockets /\ allocRecvParamQ[0] \in Seq(Buffers) /\ Len(allocRecvParamQ[0]) <= Cap
      /\ deAllocRecvParamQ[0] \in Seq(Buffers) /\ rbuf[0] = NoBuffer
      /\ Cap \in Nat /\ Len(allocRecvParamQ[0]) \in Nat
  BY OneSocket, PipelineAssumption, LenProperties DEF OwnerInv, TypeOK, Handles
<1>0. Range(deAllocRecvParamQ[0]) = {}
  BY <1>t, EmptySeq DEF Range
<1>1. ASSUME NEW p \in Out
      PROVE  p \in R \cup {nbuf}
  <2>1. p \in Buffers /\ p \notin free[0] /\ p \notin lost
    BY OneSocket DEF Out
  <2>2. PICK x \in Places : p \in Contents[x]
    BY <2>1 DEF OwnerInv, Partition
  <2>3. x \in {<<"pool", 0>>, <<"recv", 0>>, <<"alloc", 0>>, <<"dealloc", 0>>, <<"net", 0>>,
              <<"lost", 0>>}
    BY ContentsAt, OneSocket DEF ContentsByKind
  <2>4. /\ Contents[<<"pool", 0>>] = free[0]
        /\ Contents[<<"recv", 0>>] = {rbuf[0]} \ {NoBuffer}
        /\ Contents[<<"alloc", 0>>] = R
        /\ Contents[<<"dealloc", 0>>] = Range(deAllocRecvParamQ[0])
        /\ Contents[<<"net", 0>>] = {nbuf} \ {NoBuffer}
        /\ Contents[<<"lost", 0>>] = lost
    BY <1>t, ContentsAt DEF ContentsByKind
  <2>5. x = <<"alloc", 0>> \/ x = <<"net", 0>>
    BY <2>1, <2>2, <2>3, <2>4, <1>0, <1>t
  <2> QED BY <2>2, <2>4, <2>5
<1>2. IsFiniteSet(R) /\ Cardinality(R) <= Cap /\ Cardinality(R) \in Nat
  <2>1. IsFiniteSet(R) /\ Cardinality(R) <= Len(allocRecvParamQ[0])
    BY <1>t, RangeBound
  <2>2. Cardinality(R) \in Nat
    BY <2>1, FS_CardinalityType
  <2> QED BY <2>1, <2>2, <1>t
<1> HIDE DEF R
<1>3. IsFiniteSet(R \cup {nbuf}) /\ Cardinality(R \cup {nbuf}) <= Cap + 1
      /\ Cardinality(R \cup {nbuf}) \in Nat
  <2>1. /\ IsFiniteSet(R \cup {nbuf})
        /\ Cardinality(R \cup {nbuf}) = IF nbuf \in R THEN Cardinality(R) ELSE Cardinality(R) + 1
    BY <1>2, FS_AddElement
  <2> QED BY <2>1, <1>2, <1>t
<1>4. Out \in SUBSET (R \cup {nbuf})
  BY <1>1
<1>5. Cardinality(Out) <= Cardinality(R \cup {nbuf})
  BY <1>3, <1>4, FS_Subset
<1> QED BY <1>3, <1>5, <1>t, OutFinite

\* The bound is kept by every step.
LEMMA DemandStep ==
  ASSUME NSockets = 1, OwnerInv, Demand, [Next]_vars
  PROVE  Demand'
<1>t. /\ TypeOK /\ 0 \in Sockets /\ Cap \in Nat /\ rindex[0] \in Nat
      /\ rpc[0] \in {"reclaim", "recv", "push", "notify"}
      /\ \A s \in Sockets : s = 0
      /\ free[0] \subseteq Pool(0) /\ Pool(0) = Buffers
      /\ IsFiniteSet(Out) /\ Cardinality(Out) \in Nat
  BY OneSocket, OutFinite, PipelineAssumption DEF OwnerInv, TypeOK
<1>c. /\ Contents[<<"pool", 0>>] = free[0]
      /\ Contents[<<"recv", 0>>] = {rbuf[0]} \ {NoBuffer}
      /\ Contents[<<"dealloc", 0>>] = Range(deAllocRecvParamQ[0])
      /\ Contents[<<"net", 0>>] = {nbuf} \ {NoBuffer}
      /\ Contents[<<"lost", 0>>] = lost
      /\ <<"pool", 0>> \in Places /\ <<"recv", 0>> \in Places
      /\ <<"dealloc", 0>> \in Places /\ <<"net", 0>> \in Places /\ <<"lost", 0>> \in Places
  BY <1>t, ContentsAt DEF ContentsByKind
<1>p. \A x, y \in Places : \A p \in Contents[x] : p \in Contents[y] => x = y
  BY DEF OwnerInv, Partition
\* A buffer that a thread or the return queue has is out.
<1>o. \A p \in Buffers :
        /\ p \in Contents[<<"recv", 0>>] => p \in Out
        /\ p \in Contents[<<"dealloc", 0>>] => p \in Out
        /\ p \in Contents[<<"net", 0>>] => p \in Out
  <2> SUFFICES ASSUME NEW p \in Buffers, p \in free[0] \cup lost
               PROVE  /\ p \notin Contents[<<"recv", 0>>] /\ p \notin Contents[<<"dealloc", 0>>]
                      /\ p \notin Contents[<<"net", 0>>]
    BY <1>t DEF Out
  <2>1. /\ <<"pool", 0>> # <<"recv", 0>> /\ <<"pool", 0>> # <<"dealloc", 0>>
        /\ <<"pool", 0>> # <<"net", 0>> /\ <<"lost", 0>> # <<"recv", 0>>
        /\ <<"lost", 0>> # <<"dealloc", 0>> /\ <<"lost", 0>> # <<"net", 0>>
    OBVIOUS
  <2>2. p \in Contents[<<"pool", 0>>] \/ p \in Contents[<<"lost", 0>>]
    BY <1>c
  <2> QED BY <1>c, <1>p, <2>1, <2>2
\* Putting a buffer back, or losing it, lowers the number that is out by one.
<1>b. ASSUME NEW p \in Buffers, p \in Out,
             \/ free'[0] = free[0] \cup {p} /\ lost' = lost
             \/ free'[0] = free[0] /\ lost' = lost \cup {p}
      PROVE  Cardinality(Out') = Cardinality(Out) - 1
  <2>1. Out' = Out \ {p}
    BY <1>b DEF Out, Pool
  <2> QED BY <2>1, <1>b, <1>t, FS_RemoveElement
\* Steps that leave the pool alone.
<1>k. ASSUME free'[0] = free[0], lost' = lost
      PROVE  Out' = Out
  BY <1>k DEF Out, Pool
<1>1. ASSUME ReclaimAllJISRecvParams(0)
      PROVE  Demand'
  <2> DEFINE q == deAllocRecvParamQ[0]
  <2>1. /\ rpc' = rpc /\ rpc[0] = "reclaim" /\ q \in Seq(Buffers) /\ IsInjective(q)
        /\ free'[0] = free[0] \cup {Head(q)} /\ lost' = lost
        /\ rindex[0] < Len(q) /\ Len(q) \in Nat
    BY <1>1, <1>t, LenProperties DEF ReclaimAllJISRecvParams, OwnerInv, TypeOK, NoRepeats, netVars
  <2>2. q # <<>>
    BY <2>1, <1>t
  <2>3. Head(q) \in Buffers /\ Head(q) \in Range(q)
    BY <2>1, <2>2, RangeOfTail
  <2>4. Head(q) \in Out
    BY <2>3, <1>o, <1>c
  <2>5. Cardinality(Out') = Cardinality(Out) - 1
    BY <2>1, <2>3, <2>4, <1>b
  <2> QED BY <2>1, <2>5, <1>t DEF Demand
<1>2. ASSUME AllocJISRecvParams(0)
      PROVE  Demand'
  <2>1. PICK p \in free[0] : free'[0] = free[0] \ {p} /\ lost' = lost
    BY <1>2, <1>t DEF AllocJISRecvParams, TypeOK, netVars
  <2>l. p \notin lost
    <3>1. <<"pool", 0>> # <<"lost", 0>>
      OBVIOUS
    <3> QED BY <3>1, <1>c, <1>p
  <2>2. /\ rpc[0] = "reclaim" /\ rpc'[0] = "recv" /\ rindex'[0] = 0
        /\ rindex[0] >= Len(deAllocRecvParamQ[0]) /\ Len(deAllocRecvParamQ[0]) \in Nat
    BY <1>2, <1>t, LenProperties DEF AllocJISRecvParams, TypeOK
  <2>3. Out' = Out \cup {p} /\ p \notin Out
    BY <2>1, <2>l, <1>t DEF Out, Pool
  <2>4. Cardinality(Out') = Cardinality(Out) + 1
    BY <2>3, <1>t, FS_AddElement
  <2>5. Cardinality(Out) <= Cap + 1
    <3>1. CASE rindex[0] > 0
      BY <3>1, <2>2 DEF Demand
    <3>2. CASE rindex[0] = 0
      <4>1. Len(deAllocRecvParamQ[0]) = 0
        BY <3>2, <2>2
      <4> QED BY <4>1, <2>2, OutWhenNothingToReclaim
    <3> QED BY <3>1, <3>2, <1>t
  <2> QED BY <2>2, <2>4, <2>5, <1>t DEF Demand
<1>3. ASSUME RecvFrom(0)
      PROVE  Demand'
  <2>1. /\ free' = free /\ lost' = lost /\ rindex' = rindex
        /\ rpc[0] = "recv" /\ rpc'[0] = "push"
    BY <1>3, <1>t DEF RecvFrom, TypeOK, netVars
  <2> QED BY <2>1, <1>k DEF Demand
<1>4. ASSUME RecvFromFails(0)
      PROVE  Demand'
  <2>1. /\ rpc[0] = "recv" /\ rpc'[0] = "reclaim" /\ rindex' = rindex /\ lost' = lost
        /\ free'[0] = free[0] \cup {rbuf[0]} /\ rbuf[0] # NoBuffer /\ rbuf[0] \in Buffers
    BY <1>4, <1>t DEF RecvFromFails, OwnerInv, TypeOK, Handles, netVars
  <2>2. rbuf[0] \in Out
    BY <2>1, <1>o, <1>c
  <2>3. Cardinality(Out') = Cardinality(Out) - 1
    BY <2>1, <2>2, <1>b
  <2> QED BY <2>1, <2>3, <1>t DEF Demand
<1>5. ASSUME PushRecvParams(0) \/ IncomeDatagramEventHandler(0)
      PROVE  Demand'
  <2>1. /\ free' = free /\ lost' = lost /\ rindex' = rindex
        /\ rpc[0] # "reclaim" /\ rpc'[0] \in {"reclaim", "notify"}
    BY <1>5, <1>t DEF PushRecvParams, IncomeDatagramEventHandler, TypeOK, netVars
  <2>2. rindex'[0] = 0
    BY <2>1 DEF Demand
  <2> QED BY <2>1, <2>2, <1>k DEF Demand
<1>6. CASE ReclaimPastTheQueues
  <2>1. /\ rpc' = rpc /\ rindex' = rindex /\ free' = free
        /\ lost' = lost \cup {nbuf} /\ nbuf # NoBuffer /\ nbuf \in Buffers
    BY <1>6, <1>t DEF ReclaimPastTheQueues, OwnerInv, TypeOK, Handles, recvVars
  <2>2. nbuf \in Out
    BY <2>1, <1>o, <1>c
  <2>3. Cardinality(Out') = Cardinality(Out) - 1
    BY <2>1, <2>2, <1>b
  <2> QED BY <2>1, <2>3, <1>t DEF Demand
<1>7. CASE ProcessOneRecvParam \/ ReclaimOneJISRecvParams \/ ReclaimNeverReturns \/ NextSocket
           \/ UNCHANGED vars
  <2>1. free' = free /\ lost' = lost /\ rpc' = rpc /\ rindex' = rindex
    BY <1>7 DEF ProcessOneRecvParam, ReclaimOneJISRecvParams, ReclaimNeverReturns, NextSocket,
                vars, recvVars, netVars
  <2> QED BY <2>1, <1>k DEF Demand
<1> QED BY <1>1, <1>2, <1>3, <1>4, <1>5, <1>6, <1>7, <1>t DEF Next, Network, Receiver

(* With one socket the pool of receive buffers never has more than Cap + 2 *)
(* buffers out besides those that were lost for good by a push past the    *)
(* array, for every capacity and however many buffers it could hand out:   *)
(* each pass of ReclaimAllJISRecvParams returns enough of the queue.  With *)
(* several sockets ReclaimOneJISRecvParams returns buffers to other pools  *)
(* and the bound does not hold.                                            *)
THEOREM PoolDemandBounded ==
  ASSUME NSockets = 1
  PROVE  Spec => []BufferDemand
<1>1. Init => Demand
  <2> SUFFICES ASSUME Init
               PROVE  Demand
    OBVIOUS
  <2>1. 0 \in Sockets
    BY OneSocket
  <2>2. Out = {} /\ rpc[0] = "reclaim" /\ rindex[0] = 0
    BY <2>1 DEF Init, Out
  <2> QED BY <2>2, FS_EmptySet, PipelineAssumption DEF Demand
<1>2. OwnerInv /\ Demand /\ [Next]_vars => Demand'
  BY DemandStep
<1>3. Demand => BufferDemand
  BY OneSocket DEF Demand, BufferDemand, Out
<1> QED BY <1>1, <1>2, <1>3, OwnerInvariant, PTL DEF Spec

=============================================================================
