------------------------ MODULE RemoteSystems_proofs ------------------------
(***************************************************************************)
(* The table of remote systems, for every number of slots, every set of    *)
(* addresses and guids and every hash function.                            *)
(***************************************************************************)
EXTENDS RemoteSystems, FiniteSetTheorems, SequenceTheorems, WellFoundedInduction, TLAPS

-----------------------------------------------------------------------------
(* The inductive invariant, in parts.                                      *)

Active == {s \in Slots : isActive[s]}

\* Exactly the active slots have an address, and no two have the same.
Addressed ==
  /\ \A s \in Slots : isActive[s] => systemAddress[s] \in Addrs
  /\ \A s \in Slots : ~ isActive[s] => systemAddress[s] = NullAddr
  /\ \A s, t \in Active : systemAddress[s] = systemAddress[t] => s = t

\* activeSystemList has one entry for each active slot.
Listed == Len(activeSystemList) = Cardinality(Active)

\* Slots are taken in order, for isActive is never reset.  So a system with the
\* guid of an incoming connection, which only a connection of ours or one that
\* a bad answer left can be, has a later slot, and the scan for the guid finds
\* the incoming one.
Prefix == \A s, t \in Slots : isActive[t] /\ s <= t => isActive[s]

IncomingFirst ==
  \A s, t \in Active :
    (/\ ~ weInitiateConnection[s] /\ s \notin unanswered
     /\ guid[s] # NullGuid /\ guid[s] = guid[t])
    => s <= t

TableInv == TypeOK /\ Addressed /\ ChainsExact /\ Listed /\ Prefix /\ IncomingFirst

-----------------------------------------------------------------------------
(* Sequences without repetitions, and the lowest of a set of slots.        *)

\* Slots are numbers, and NoSlot is none of them.
LEMMA SlotFacts ==
  /\ Slots \subseteq Nat /\ NoSlot \notin Slots
  /\ IsFiniteSet(Slots) /\ Cardinality(Slots) = maxConnections
<1>1. \A a, b \in Int : /\ IsFiniteSet(a .. b)
                        /\ Cardinality(a .. b) = IF a > b THEN 0 ELSE b - a + 1
  BY FS_Interval
<1>2. maxConnections \in Nat /\ maxConnections > 0
  BY TableAssumption
<1>3. 0 \in Int /\ maxConnections - 1 \in Int /\ ~ (0 > maxConnections - 1)
  BY <1>2
<1>4. IsFiniteSet(Slots) /\ Cardinality(Slots) = maxConnections - 1 - 0 + 1
  BY <1>1, <1>3 DEF Slots
<1> QED BY <1>2, <1>4 DEF Slots, NoSlot

\* LowestOf finds a slot in every set that has one, and the lowest.
LEMMA LowestFound ==
  ASSUME NEW S \in SUBSET Slots, S # {}
  PROVE  LowestOf(S) \in S /\ \A t \in S : LowestOf(S) <= t
<1>1. S \subseteq Nat
  BY SlotFacts
<1>2. \E s \in S : \A t \in S : s <= t
  <2>1. PICK s \in S : \A t \in S : ~ (<<t, s>> \in OpToRel(<, Nat))
    BY <1>1, NatLessThanWellFounded, WFMin
  <2>2. \A t \in S : ~ (t < s)
    BY <1>1, <2>1 DEF OpToRel
  <2> QED BY <1>1, <2>2
<1> QED BY <1>2 DEF LowestOf

\* A slot at the end of a chain that does not have it.
LEMMA AppendDistinct ==
  ASSUME NEW S, NEW c \in Seq(S), NEW x \in S, IsInjective(c), x \notin ToSet(c)
  PROVE  /\ Append(c, x) \in Seq(S) /\ IsInjective(Append(c, x))
         /\ ToSet(Append(c, x)) = ToSet(c) \cup {x}
<1>1. /\ Append(c, x) \in Seq(S) /\ Len(Append(c, x)) = Len(c) + 1
      /\ \A i \in 1 .. Len(c) : Append(c, x)[i] = c[i]
      /\ Append(c, x)[Len(c) + 1] = x
  BY AppendProperties
<1>2. /\ DOMAIN c = 1 .. Len(c) /\ DOMAIN Append(c, x) = 1 .. Len(c) + 1
      /\ Len(c) \in Nat
  BY <1>1
<1>3. \A i \in 1 .. Len(c) : c[i] # x
  BY <1>2 DEF ToSet
<1>4. IsInjective(Append(c, x))
  BY <1>1, <1>2, <1>3 DEF IsInjective
<1>5. ToSet(Append(c, x)) = ToSet(c) \cup {x}
  BY <1>1, <1>2 DEF ToSet
<1> QED BY <1>1, <1>4, <1>5

\* A chain after one of its slots is taken out.
LEMMA RemoveDistinct ==
  ASSUME NEW S, NEW c \in Seq(S), IsInjective(c), NEW k \in DOMAIN c
  PROVE  /\ RemoveAt(c, k) \in Seq(S) /\ IsInjective(RemoveAt(c, k))
         /\ ToSet(RemoveAt(c, k)) = ToSet(c) \ {c[k]}
<1>1. Len(c) \in Nat /\ DOMAIN c = 1 .. Len(c) /\ k \in 1 .. Len(c) /\ k \in Nat
      /\ \A i \in 1 .. Len(c) : c[i] \in S
  OBVIOUS
<1> DEFINE p == SubSeq(c, 1, k - 1)
           q == SubSeq(c, k + 1, Len(c))
<1>2. /\ p \in Seq(S) /\ Len(p) = k - 1
      /\ \A i \in 1 .. k - 1 : p[i] = c[i]
  <2>1. \A i \in 1 .. k - 1 : c[i] \in S
    BY <1>1
  <2>2. /\ p \in Seq(S) /\ Len(p) = IF 1 <= k - 1 THEN (k - 1) - 1 + 1 ELSE 0
        /\ \A i \in 1 .. (k - 1) - 1 + 1 : p[i] = c[1 + i - 1]
    <3>1. 1 \in Int /\ k - 1 \in Int
      BY <1>1
    <3> QED BY <2>1, <3>1, SubSeqProperties
  <2> QED BY <1>1, <2>2
<1>3. /\ q \in Seq(S) /\ Len(q) = Len(c) - k
      /\ \A i \in 1 .. Len(c) - k : q[i] = c[k + i]
  <2>1. \A i \in k + 1 .. Len(c) : c[i] \in S
    BY <1>1
  <2>2. /\ q \in Seq(S)
        /\ Len(q) = IF k + 1 <= Len(c) THEN Len(c) - (k + 1) + 1 ELSE 0
        /\ \A i \in 1 .. Len(c) - (k + 1) + 1 : q[i] = c[(k + 1) + i - 1]
    <3>1. k + 1 \in Int /\ Len(c) \in Int
      BY <1>1
    <3> QED BY <2>1, <3>1, SubSeqProperties
  <2> QED BY <1>1, <2>2
<1> DEFINE r == p \o q
<1>4. /\ r \in Seq(S) /\ Len(r) = Len(c) - 1
      /\ \A i \in 1 .. Len(c) - 1 : r[i] = IF i < k THEN c[i] ELSE c[i + 1]
  <2> HIDE DEF p, q
  <2>1. /\ r \in Seq(S) /\ Len(r) = Len(p) + Len(q)
        /\ \A i \in 1 .. Len(p) + Len(q) :
             r[i] = IF i <= Len(p) THEN p[i] ELSE q[i - Len(p)]
    BY <1>2, <1>3, ConcatProperties
  <2>2. Len(p) + Len(q) = Len(c) - 1
    BY <1>1, <1>2, <1>3
  <2>3. ASSUME NEW i \in 1 .. Len(c) - 1
        PROVE  r[i] = IF i < k THEN c[i] ELSE c[i + 1]
    <3>1. r[i] = IF i <= k - 1 THEN p[i] ELSE q[i - (k - 1)]
      BY <1>2, <2>1, <2>2
    <3>2. CASE i < k
      BY <1>1, <1>2, <3>1, <3>2
    <3>3. CASE ~ (i < k)
      <4>1. PICK n \in 1 .. Len(c) - k : n = i - (k - 1) /\ k + n = i + 1
        BY <1>1, <3>3
      <4>2. r[i] = q[n]
        BY <1>1, <3>1, <3>3, <4>1
      <4>3. q[n] = c[k + n]
        BY <1>3
      <4> QED BY <3>3, <4>1, <4>2, <4>3
    <3> QED BY <3>2, <3>3
  <2> QED BY <2>1, <2>2, <2>3
<1> HIDE DEF r
<1>5. DOMAIN r = 1 .. Len(c) - 1
  BY <1>4
<1>6. IsInjective(r)
  <2> SUFFICES ASSUME NEW i \in 1 .. Len(c) - 1, NEW j \in 1 .. Len(c) - 1, r[i] = r[j]
               PROVE  i = j
    BY <1>5 DEF IsInjective
  <2>1. PICK m \in 1 .. Len(c) : r[i] = c[m] /\ m = IF i < k THEN i ELSE i + 1
    BY <1>1, <1>4
  <2>2. PICK n \in 1 .. Len(c) : r[j] = c[n] /\ n = IF j < k THEN j ELSE j + 1
    BY <1>1, <1>4
  <2>3. m = n
    BY <1>1, <2>1, <2>2 DEF IsInjective
  <2> QED BY <1>1, <2>1, <2>2, <2>3
<1>7. ToSet(r) = ToSet(c) \ {c[k]}
  <2>1. ASSUME NEW i \in 1 .. Len(c) - 1
        PROVE  r[i] \in ToSet(c) /\ r[i] # c[k]
    <3>1. PICK m \in 1 .. Len(c) : r[i] = c[m] /\ m # k
      BY <1>1, <1>4
    <3>2. c[m] # c[k]
      BY <1>1, <3>1 DEF IsInjective
    <3>3. c[m] \in ToSet(c)
      BY <1>1 DEF ToSet
    <3> QED BY <3>1, <3>2, <3>3
  <2>2. ASSUME NEW j \in 1 .. Len(c), c[j] # c[k]
        PROVE  c[j] \in ToSet(r)
    <3>1. CASE j < k
      <4>1. j \in 1 .. Len(c) - 1 /\ r[j] = c[j]
        BY <1>1, <1>4, <3>1
      <4> QED BY <1>5, <4>1 DEF ToSet
    <3>2. CASE j > k
      <4>1. j - 1 \in 1 .. Len(c) - 1 /\ r[j - 1] = c[j]
        BY <1>1, <1>4, <3>2
      <4> QED BY <1>5, <4>1 DEF ToSet
    <3> QED BY <1>1, <2>2, <3>1, <3>2
  <2> QED BY <1>1, <1>5, <2>1, <2>2 DEF ToSet
<1>8. RemoveAt(c, k) = r
  BY DEF RemoveAt, r
<1> QED BY <1>4, <1>6, <1>7, <1>8

-----------------------------------------------------------------------------
(* Finding a slot.                                                         *)

\* No slot of the chain has the address: the search ends at the end.
LEMMA PlaceNone ==
  ASSUME NEW lookup, NEW a, lookup[Hash[a]] \in Seq(Slots),
         \A s \in ToSet(lookup[Hash[a]]) : systemAddress[s] # a
  PROVE  Place(lookup, a) = 0
<1> DEFINE c == lookup[Hash[a]]
           I == {i \in 1 .. Len(c) : systemAddress[c[i]] = a}
<1>1. DOMAIN c = 1 .. Len(c)
  OBVIOUS
<1>2. I = {}
  BY <1>1 DEF ToSet
<1>3. Place(lookup, a) = IF I # {} THEN Min(I) ELSE 0
  BY DEF Place, SelectInSeq
<1> QED BY <1>2, <1>3

\* One slot of the chain has the address: the search stops there.
LEMMA PlaceOne ==
  ASSUME NEW lookup, NEW a, lookup[Hash[a]] \in Seq(Slots), NEW s \in Slots,
         s \in ToSet(lookup[Hash[a]]), IsInjective(lookup[Hash[a]]),
         \A t \in ToSet(lookup[Hash[a]]) : systemAddress[t] = a <=> t = s
  PROVE  /\ Place(lookup, a) \in DOMAIN lookup[Hash[a]] /\ Place(lookup, a) # 0
         /\ lookup[Hash[a]][Place(lookup, a)] = s
<1> DEFINE c == lookup[Hash[a]]
           I == {i \in 1 .. Len(c) : systemAddress[c[i]] = a}
<1>1. DOMAIN c = 1 .. Len(c) /\ Len(c) \in Nat
  OBVIOUS
<1>2. PICK k \in 1 .. Len(c) : c[k] = s
  BY <1>1 DEF ToSet
<1>3. \A i \in 1 .. Len(c) : systemAddress[c[i]] = a <=> i = k
  BY <1>1, <1>2 DEF ToSet, IsInjective
<1>4. I = {k}
  BY <1>3
<1>5. Place(lookup, a) = IF I # {} THEN Min(I) ELSE 0
  BY DEF Place, SelectInSeq
<1>6. Min({k}) = k
  <2>1. k <= k
    OBVIOUS
  <2> QED BY <2>1 DEF Min
<1>7. Place(lookup, a) = k
  BY <1>4, <1>5, <1>6
<1> QED BY <1>1, <1>2, <1>7

\* An address leads to the one active slot that has it, or nowhere.
LEMMA Lookup ==
  ASSUME TypeOK, Addressed, ChainsExact, NEW a \in Addrs
  PROVE  /\ \A s \in Active : systemAddress[s] = a =>
              GetRemoteSystemIndex(a) = s /\ ByAddress(a) = s
         /\ (\A s \in Active : systemAddress[s] # a) => ByAddress(a) = NoSlot
<1> DEFINE c == remoteSystemLookup[Hash[a]]
<1>1. Hash[a] \in Buckets
  BY TableAssumption
<1>2. c \in Seq(Slots)
  BY <1>1 DEF TypeOK
<1>3. IsInjective(c) /\ ToSet(c) = {s \in Slots : isActive[s] /\ Hash[systemAddress[s]] = Hash[a]}
  BY <1>1 DEF ChainsExact
<1>4. ASSUME NEW s \in Active, systemAddress[s] = a
      PROVE  GetRemoteSystemIndex(a) = s /\ ByAddress(a) = s
  <2>1. s \in Slots /\ isActive[s] /\ s \in ToSet(c)
    BY <1>3, <1>4 DEF Active
  <2>2. \A t \in ToSet(c) : systemAddress[t] = a <=> t = s
    BY <1>3, <1>4, <2>1 DEF Active, Addressed
  <2>3. Place(remoteSystemLookup, a) # 0 /\ c[Place(remoteSystemLookup, a)] = s
    BY <1>2, <1>3, <2>1, <2>2, PlaceOne
  <2>4. GetRemoteSystemIndex(a) = s
    BY <2>3 DEF GetRemoteSystemIndex
  <2> QED BY <2>1, <2>4, SlotFacts DEF ByAddress
<1>5. ASSUME \A s \in Active : systemAddress[s] # a
      PROVE  ByAddress(a) = NoSlot
  <2>1. \A s \in ToSet(c) : systemAddress[s] # a
    BY <1>3, <1>5 DEF Active
  <2>2. Place(remoteSystemLookup, a) = 0
    BY <1>2, <2>1, PlaceNone
  <2> QED BY <2>2 DEF GetRemoteSystemIndex, ByAddress
<1> QED BY <1>4, <1>5

\* What a lookup by address that found something tells.
LEMMA ByAddressFound ==
  ASSUME TypeOK, Addressed, ChainsExact, NEW a \in Addrs, ByAddress(a) # NoSlot
  PROVE  ByAddress(a) \in Active /\ systemAddress[ByAddress(a)] = a
BY Lookup

\* What a lookup by address that found nothing tells.
LEMMA ByAddressMissed ==
  ASSUME TypeOK, Addressed, ChainsExact, NEW a \in Addrs, ByAddress(a) = NoSlot
  PROVE  \A s \in Slots : systemAddress[s] # a
<1>1. ASSUME NEW s \in Active
      PROVE  systemAddress[s] # a
  <2>1. s # NoSlot
    BY SlotFacts DEF Active
  <2> QED BY <2>1, Lookup
<1>2. ASSUME NEW s \in Slots, ~ isActive[s]
      PROVE  systemAddress[s] # a
  BY <1>2, TableAssumption DEF Addressed
<1> QED BY <1>1, <1>2 DEF Active

\* The scan by guid finds the lowest active slot with it, if there is one.
LEMMA Scan ==
  ASSUME NEW g
  PROVE  /\ ByGuid(g) # NoSlot => ByGuid(g) \in Active /\ guid[ByGuid(g)] = g
         /\ g # NullGuid =>
              \A s \in Active : guid[s] = g => ByGuid(g) # NoSlot /\ ByGuid(g) <= s
<1> DEFINE S == {s \in Slots : isActive[s] /\ guid[s] = g}
<1>1. ByGuid(g) = IF g = NullGuid THEN NoSlot ELSE LowestOf(S)
  BY DEF ByGuid
<1>2. S = {} => LowestOf(S) = NoSlot
  BY DEF LowestOf
<1>3. S # {} => LowestOf(S) \in S /\ \A t \in S : LowestOf(S) <= t
  BY LowestFound
<1> QED BY <1>1, <1>2, <1>3, SlotFacts DEF Active

\* The slot for a new system is the lowest that is not active.
LEMMA FreeSlotIs ==
  ASSUME FreeSlot # NoSlot
  PROVE  /\ FreeSlot \in Slots /\ ~ isActive[FreeSlot]
         /\ \A t \in Slots : ~ isActive[t] => FreeSlot <= t
<1> DEFINE S == {s \in Slots : ~ isActive[s]}
<1>1. FreeSlot = LowestOf(S)
  BY DEF FreeSlot
<1>2. S = {} => LowestOf(S) = NoSlot
  BY DEF LowestOf
<1>3. S # {} => LowestOf(S) \in S /\ \A t \in S : LowestOf(S) <= t
  BY LowestFound
<1> QED BY <1>1, <1>2, <1>3

-----------------------------------------------------------------------------
(* Changing the table.                                                     *)

\* The chains of a table hold each active slot but s, and nothing else.
Without(lookup, s) ==
  \A b \in Buckets :
    /\ IsInjective(lookup[b])
    /\ ToSet(lookup[b]) =
         {t \in Slots : t # s /\ isActive[t] /\ Hash[systemAddress[t]] = b}

\* The first step of RefRemoteEndPoint: s leaves the chain of its old address.
LEMMA OldReferenceDropped ==
  ASSUME TypeOK, Addressed, ChainsExact, NEW s \in Slots
  PROVE  LET old == systemAddress[s]
             dropped == IF old # NullAddr /\ GetRemoteSystemIndex(old) = s
                        THEN DeRefRemoteSystem(remoteSystemLookup, old)
                        ELSE remoteSystemLookup
         IN  dropped \in [Buckets -> Seq(Slots)] /\ Without(dropped, s)
<1> DEFINE old == systemAddress[s]
           dropped == IF old # NullAddr /\ GetRemoteSystemIndex(old) = s
                      THEN DeRefRemoteSystem(remoteSystemLookup, old)
                      ELSE remoteSystemLookup
<1> SUFFICES dropped \in [Buckets -> Seq(Slots)] /\ Without(dropped, s)
  OBVIOUS
<1>t. remoteSystemLookup \in [Buckets -> Seq(Slots)]
  BY DEF TypeOK
<1>1. CASE ~ isActive[s]
  <2>1. old = NullAddr
    BY <1>1 DEF Addressed
  <2>2. dropped = remoteSystemLookup
    BY <2>1
  <2>3. Without(remoteSystemLookup, s)
    BY <1>1 DEF ChainsExact, Without
  <2> QED BY <1>t, <2>2, <2>3
<1>2. CASE isActive[s]
  <2>1. old \in Addrs /\ old # NullAddr /\ s \in Active /\ Hash[old] \in Buckets
    BY <1>2, TableAssumption DEF Addressed, Active
  <2>2. GetRemoteSystemIndex(old) = s
    BY <2>1, Lookup
  <2> DEFINE c == remoteSystemLookup[Hash[old]]
             k == Place(remoteSystemLookup, old)
  <2>3. c \in Seq(Slots)
    BY <1>t, <2>1
  <2>4. IsInjective(c)
        /\ ToSet(c) = {t \in Slots : isActive[t] /\ Hash[systemAddress[t]] = Hash[old]}
    BY <2>1 DEF ChainsExact
  <2>5. k \in DOMAIN c /\ k # 0 /\ c[k] = s
    <3>1. s \in ToSet(c)
      BY <1>2, <2>4
    <3>2. \A t \in ToSet(c) : systemAddress[t] = old <=> t = s
      BY <2>1, <2>4 DEF Active, Addressed
    <3> QED BY <2>3, <2>4, <3>1, <3>2, PlaceOne
  <2>6. dropped = [remoteSystemLookup EXCEPT ![Hash[old]] = RemoveAt(@, k)]
    BY <2>1, <2>2, <2>5 DEF DeRefRemoteSystem
  <2> DEFINE d == RemoveAt(c, k)
  <2>7. d \in Seq(Slots) /\ IsInjective(d) /\ ToSet(d) = ToSet(c) \ {s}
    BY <2>3, <2>4, <2>5, RemoveDistinct
  <2> HIDE DEF d
  <2>8. dropped = [remoteSystemLookup EXCEPT ![Hash[old]] = d]
    BY <2>6 DEF d
  <2> HIDE DEF k, dropped
  <2>9. dropped \in [Buckets -> Seq(Slots)]
    BY <1>t, <2>7, <2>8
  <2>10. ASSUME NEW b \in Buckets
         PROVE  /\ IsInjective(dropped[b])
                /\ ToSet(dropped[b]) =
                     {t \in Slots : t # s /\ isActive[t] /\ Hash[systemAddress[t]] = b}
    <3>1. CASE b = Hash[old]
      <4>1. dropped[b] = d
        BY <1>t, <2>1, <2>8, <3>1
      <4> QED BY <2>4, <2>7, <3>1, <4>1
    <3>2. CASE b # Hash[old]
      <4>1. dropped[b] = remoteSystemLookup[b]
        BY <1>t, <2>1, <2>8, <3>2
      <4>2. IsInjective(remoteSystemLookup[b]) /\ ToSet(remoteSystemLookup[b]) =
              {t \in Slots : isActive[t] /\ Hash[systemAddress[t]] = b}
        BY DEF ChainsExact
      <4> QED BY <3>2, <4>1, <4>2
    <3> QED BY <3>1, <3>2
  <2> QED BY <2>9, <2>10 DEF Without
<1> QED BY <1>1, <1>2

\* The whole of RefRemoteEndPoint for an address that no other slot has, and a
\* slot that is active afterwards: the chains are exact again.
LEMMA Referenced ==
  ASSUME TypeOK, Addressed, ChainsExact, NEW a \in Addrs, NEW s \in Slots,
         \A t \in Slots \ {s} : systemAddress[t] # a,
         RefRemoteEndPoint(a, s), isActive' = [isActive EXCEPT ![s] = TRUE]
  PROVE  /\ systemAddress' \in [Slots -> Addrs \cup {NullAddr}]
         /\ systemAddress' = [systemAddress EXCEPT ![s] = a]
         /\ remoteSystemLookup' \in [Buckets -> Seq(Slots)]
         /\ ChainsExact' /\ Addressed'
<1> DEFINE old == systemAddress[s]
           dropped == IF old # NullAddr /\ GetRemoteSystemIndex(old) = s
                      THEN DeRefRemoteSystem(remoteSystemLookup, old)
                      ELSE remoteSystemLookup
<1>t. /\ systemAddress \in [Slots -> Addrs \cup {NullAddr}]
      /\ isActive \in [Slots -> BOOLEAN]
      /\ Hash[a] \in Buckets
  BY TableAssumption DEF TypeOK
<1>1. dropped \in [Buckets -> Seq(Slots)] /\ Without(dropped, s)
  BY OldReferenceDropped
<1>2. /\ remoteSystemLookup' =
           [DeRefRemoteSystem(dropped, a) EXCEPT ![Hash[a]] = Append(@, s)]
      /\ systemAddress' = [systemAddress EXCEPT ![s] = a]
  BY DEF RefRemoteEndPoint
<1> HIDE DEF dropped
<1>3. DeRefRemoteSystem(dropped, a) = dropped
  <2>1. dropped[Hash[a]] \in Seq(Slots)
    BY <1>t, <1>1
  <2>2. \A t \in ToSet(dropped[Hash[a]]) : systemAddress[t] # a
    BY <1>t, <1>1 DEF Without
  <2>3. Place(dropped, a) = 0
    BY <2>1, <2>2, PlaceNone
  <2> QED BY <2>3 DEF DeRefRemoteSystem
<1> DEFINE d == Append(dropped[Hash[a]], s)
<1>4. d \in Seq(Slots) /\ IsInjective(d) /\ ToSet(d) = ToSet(dropped[Hash[a]]) \cup {s}
  <2>1. dropped[Hash[a]] \in Seq(Slots)
    BY <1>t, <1>1
  <2>2. IsInjective(dropped[Hash[a]]) /\ s \notin ToSet(dropped[Hash[a]])
    BY <1>t, <1>1 DEF Without
  <2> QED BY <2>1, <2>2, AppendDistinct
<1> HIDE DEF d
<1>5. remoteSystemLookup' = [dropped EXCEPT ![Hash[a]] = d]
  BY <1>2, <1>3 DEF d
<1>6. remoteSystemLookup' \in [Buckets -> Seq(Slots)]
  BY <1>1, <1>4, <1>5
<1>7. /\ systemAddress' \in [Slots -> Addrs \cup {NullAddr}] /\ systemAddress'[s] = a
      /\ isActive'[s] = TRUE
      /\ \A t \in Slots : t # s => /\ systemAddress'[t] = systemAddress[t]
                                   /\ isActive'[t] = isActive[t]
  BY <1>t, <1>2
<1>8. ASSUME NEW b \in Buckets
      PROVE  /\ IsInjective(remoteSystemLookup'[b])
             /\ ToSet(remoteSystemLookup'[b]) =
                  {t \in Slots : isActive'[t] /\ Hash[systemAddress'[t]] = b}
  <2>1. /\ IsInjective(dropped[b])
        /\ ToSet(dropped[b]) =
             {t \in Slots : t # s /\ isActive[t] /\ Hash[systemAddress[t]] = b}
    BY <1>1 DEF Without
  <2>2. CASE b = Hash[a]
    <3>1. remoteSystemLookup'[b] = d
      BY <1>t, <1>1, <1>5, <2>2
    <3> QED BY <1>4, <1>7, <2>1, <2>2, <3>1
  <2>3. CASE b # Hash[a]
    <3>1. remoteSystemLookup'[b] = dropped[b]
      BY <1>t, <1>1, <1>5, <2>3
    <3> QED BY <1>7, <2>1, <2>3, <3>1
  <2> QED BY <2>2, <2>3
<1>9. ChainsExact'
  BY <1>8 DEF ChainsExact
<1>10. Addressed'
  BY <1>7 DEF Addressed, Active
<1> QED BY <1>2, <1>6, <1>7, <1>9, <1>10

-----------------------------------------------------------------------------
(* What a step can do: add a system, move one, or only change its modes.   *)

Adds(a, g, mode, ours) ==
  /\ Add2RemoteSystemList(a, g, mode, ours)
  /\ ByAddress(a) = NoSlot /\ reply' \in Messages
  /\ unanswered' \in {unanswered, unanswered \cup {FreeSlot}}
  /\ ours \/ ByGuid(g) = NoSlot \/ FreeSlot \in unanswered'

Quiet ==
  /\ UNCHANGED <<systemAddress, guid, isActive, remoteSystemLookup, activeSystemList,
                 unanswered>>
  /\ connectMode' \in [Slots -> Modes]
  /\ weInitiateConnection' \in [Slots -> BOOLEAN]
  /\ \A s \in Slots : weInitiateConnection[s] => weInitiateConnection'[s]
  /\ reply' \in Messages

\* A command that sets a mode leaves the table alone.
LEMMA SendIsQuiet ==
  ASSUME TypeOK, NEW s \in Active, NEW mode \in Modes, SendCommand(s, mode)
  PROVE  Quiet
<1>1. s \in Slots
  BY DEF Active
<1>2. connectMode' \in [Slots -> Modes]
  BY <1>1 DEF SendCommand, TypeOK
<1>3. reply' \in Messages
  BY DEF SendCommand, Messages
<1> QED BY <1>2, <1>3 DEF SendCommand, Quiet, TypeOK

\* So does a reply when the connection exists.
LEMMA CrossedIsQuiet ==
  ASSUME TypeOK, Addressed, ChainsExact, NEW a \in Addrs, ReplyCrossed(a)
  PROVE  Quiet
<1>1. ByAddress(a) \in Slots
  BY ByAddressFound DEF ReplyCrossed, Active
<1> DEFINE s == ByAddress(a)
<1>2. /\ weInitiateConnection' = [weInitiateConnection EXCEPT ![s] = TRUE]
      /\ connectMode' = [connectMode EXCEPT ![s] = "other"]
      /\ reply' = "none"
      /\ UNCHANGED <<systemAddress, guid, isActive, remoteSystemLookup, activeSystemList,
                     unanswered>>
  BY DEF ReplyCrossed
<1> HIDE DEF s
<1>t. connectMode \in [Slots -> Modes] /\ weInitiateConnection \in [Slots -> BOOLEAN]
  BY DEF TypeOK
<1>3. "other" \in Modes /\ "none" \in Messages
  BY DEF Modes, Messages
<1>4. connectMode' \in [Slots -> Modes]
  BY <1>t, <1>2, <1>3
<1>5. /\ weInitiateConnection' \in [Slots -> BOOLEAN]
      /\ \A t \in Slots : weInitiateConnection[t] => weInitiateConnection'[t]
  BY <1>t, <1>2
<1>6. reply' \in Messages
  BY <1>2, <1>3
<1> QED BY <1>2, <1>4, <1>5, <1>6 DEF Quiet

\* And so does an answer that changes nothing.
LEMMA AnswerIsQuiet ==
  ASSUME TypeOK, Unchanged, reply' \in Messages
  PROVE  Quiet
BY DEF Unchanged, slotVars, Quiet, TypeOK

\* A step of the program is one of these.
LEMMA Kinds ==
  ASSUME TypeOK, Addressed, ChainsExact, Next
  PROVE  \/ \E a \in Addrs, g \in Received, mode \in Modes, ours \in BOOLEAN :
              Adds(a, g, mode, ours)
         \/ \E s \in Active, a \in Addrs : ChangeSystemAddress(s, a)
         \/ Quiet
<1>m. /\ \A x \in {"reply2", "already_connected", "cannot_accept", "none"} : x \in Messages
      /\ "UNVERIFIED_SENDER" \in Modes /\ "other" \in Modes
  BY DEF Messages, Modes
<1>1. ASSUME NEW a \in Addrs, NEW g \in Received, OnConnectionRequest2(a, g)
      PROVE  Quiet \/ Adds(a, g, "UNVERIFIED_SENDER", FALSE)
  <2>1. CASE RequestRepeated(a, g)
    BY <1>m, <2>1, AnswerIsQuiet DEF RequestRepeated
  <2>2. CASE RequestTaken(a, g)
    BY <1>m, <2>2, AnswerIsQuiet DEF RequestTaken
  <2>3. CASE RequestNotAccepted(a, g)
    BY <1>m, <2>3, AnswerIsQuiet DEF RequestNotAccepted
  <2>4. CASE RequestAccepted(a, g)
    BY <1>m, <2>4 DEF RequestAccepted, NewPeer, Adds
  <2>5. CASE RequestWithoutSlot(a, g)
    BY <1>m, <2>5, AnswerIsQuiet DEF RequestWithoutSlot
  <2> QED BY <1>1, <2>1, <2>2, <2>3, <2>4, <2>5 DEF OnConnectionRequest2
<1>2. ASSUME NEW a \in Addrs, OnConnectionReply2(a)
      PROVE  \/ Quiet
             \/ \E g \in Received :
                  Adds(a, g, "other", TRUE) \/ Adds(a, g, "UNVERIFIED_SENDER", FALSE)
  <2>1. CASE ReplyCrossed(a)
    BY <2>1, CrossedIsQuiet
  <2>2. ASSUME NEW g \in Received, ReplyAccepted(a, g)
        PROVE  Adds(a, g, "other", TRUE)
    BY <1>m, <2>2 DEF ReplyAccepted, Adds
  <2>3. CASE ReplyWithoutSlot(a)
    BY <1>m, <2>3, AnswerIsQuiet DEF ReplyWithoutSlot
  <2>4. ASSUME NEW g \in Received, ReplyBadAnswer(a, g)
        PROVE  Adds(a, g, "UNVERIFIED_SENDER", FALSE)
    BY <1>m, <2>4 DEF ReplyBadAnswer, Adds
  <2>5. CASE ReplyBadAnswerCrossed(a)
    BY <1>m, <2>5, AnswerIsQuiet DEF ReplyBadAnswerCrossed
  <2> QED BY <1>2, <2>1, <2>2, <2>3, <2>4, <2>5 DEF OnConnectionReply2
<1>3. ASSUME NEW g \in Guids, NEW mode \in Modes, SendCommand(ByGuid(g), mode)
      PROVE  Quiet
  <2>1. ByGuid(g) \in Active
    BY <1>3, Scan DEF SendCommand
  <2> QED BY <1>3, <2>1, SendIsQuiet
<1>4. ASSUME NEW a \in Addrs, NEW mode \in Modes, SendCommand(ByAddress(a), mode)
      PROVE  Quiet
  <2>1. ByAddress(a) \in Active
    BY <1>4, ByAddressFound DEF SendCommand
  <2> QED BY <1>4, <2>1, SendIsQuiet
<1>5. ASSUME NEW g \in Guids, NEW a \in Addrs, ChangeSystemAddress(ByGuid(g), a)
      PROVE  \E s \in Active : ChangeSystemAddress(s, a)
  <2>1. ByGuid(g) \in Active
    BY <1>5, Scan DEF ChangeSystemAddress
  <2> QED BY <1>5, <2>1
<1>6. ASSUME NEW a \in Addrs, ChangeSystemAddress(ByAddress(a), a)
      PROVE  \E s \in Active : ChangeSystemAddress(s, a)
  <2>1. ByAddress(a) \in Active
    BY <1>6, ByAddressFound DEF ChangeSystemAddress
  <2> QED BY <1>6, <2>1
<1>7. TRUE \in BOOLEAN /\ FALSE \in BOOLEAN
  OBVIOUS
<1>8. CASE \E a \in Addrs, g \in Received : OnConnectionRequest2(a, g)
  BY <1>m, <1>1, <1>7, <1>8
<1>9. CASE \E a \in Addrs : OnConnectionReply2(a)
  BY <1>m, <1>2, <1>7, <1>9
<1>10. CASE Commands
  <2>1. CASE \E s \in {ByGuid(g) : g \in Guids} \cup {ByAddress(a) : a \in Addrs},
                mode \in Modes : SendCommand(s, mode)
    BY <1>3, <1>4, <2>1
  <2> QED BY <1>5, <1>6, <1>10, <2>1 DEF Commands
<1> QED BY <1>8, <1>9, <1>10 DEF Next

-----------------------------------------------------------------------------
(* The invariant is kept.                                                  *)

\* By Add2RemoteSystemList, on a request or on a reply.
LEMMA AddStep ==
  ASSUME TableInv, NEW a \in Addrs, NEW g \in Received, NEW mode \in Modes,
         NEW ours \in BOOLEAN, Adds(a, g, mode, ours)
  PROVE  TableInv'
<1> DEFINE f == FreeSlot
<1>t. /\ guid \in [Slots -> Received]
      /\ isActive \in [Slots -> BOOLEAN] /\ connectMode \in [Slots -> Modes]
      /\ weInitiateConnection \in [Slots -> BOOLEAN]
      /\ activeSystemList \in Seq(Slots) /\ unanswered \subseteq Slots
      /\ TypeOK /\ Addressed /\ ChainsExact /\ Listed /\ Prefix /\ IncomingFirst
  BY DEF TableInv, TypeOK
<1>1. f # NoSlot /\ f \in Slots /\ ~ isActive[f] /\ \A t \in Slots : ~ isActive[t] => f <= t
  BY FreeSlotIs DEF Adds, Add2RemoteSystemList
<1>2. /\ RefRemoteEndPoint(a, f)
      /\ guid' = [guid EXCEPT ![f] = g]
      /\ isActive' = [isActive EXCEPT ![f] = TRUE]
      /\ connectMode' = [connectMode EXCEPT ![f] = mode]
      /\ weInitiateConnection' = [weInitiateConnection EXCEPT ![f] = ours]
      /\ activeSystemList' = Append(activeSystemList, f)
      /\ reply' \in Messages
      /\ ByAddress(a) = NoSlot
      /\ unanswered' \in {unanswered, unanswered \cup {f}}
      /\ ours \/ ByGuid(g) = NoSlot \/ f \in unanswered'
  BY DEF Adds, Add2RemoteSystemList
<1> HIDE DEF f
<1>3. \A t \in Slots \ {f} : systemAddress[t] # a
  BY <1>t, <1>2, ByAddressMissed
<1>4. /\ systemAddress' \in [Slots -> Addrs \cup {NullAddr}]
      /\ remoteSystemLookup' \in [Buckets -> Seq(Slots)]
      /\ ChainsExact' /\ Addressed'
  BY <1>t, <1>1, <1>2, <1>3, Referenced
<1>5. /\ guid' \in [Slots -> Received] /\ guid'[f] = g
      /\ \A t \in Slots : t # f => guid'[t] = guid[t]
  BY <1>t, <1>1, <1>2
<1>6. /\ isActive' \in [Slots -> BOOLEAN] /\ isActive'[f]
      /\ \A t \in Slots : t # f => isActive'[t] = isActive[t]
  BY <1>t, <1>1, <1>2
<1>7. /\ weInitiateConnection' \in [Slots -> BOOLEAN] /\ weInitiateConnection'[f] = ours
      /\ \A t \in Slots : t # f => weInitiateConnection'[t] = weInitiateConnection[t]
  BY <1>t, <1>1, <1>2
<1>8. connectMode' \in [Slots -> Modes]
  BY <1>t, <1>1, <1>2
<1>9. activeSystemList' \in Seq(Slots) /\ Len(activeSystemList') = Len(activeSystemList) + 1
  BY <1>t, <1>1, <1>2, AppendProperties
<1>10. Active' = Active \cup {f} /\ f \notin Active
  BY <1>1, <1>6 DEF Active
<1>11. /\ IsFiniteSet(Active) /\ Cardinality(Active \cup {f}) = Cardinality(Active) + 1
       /\ Cardinality(Active \cup {f}) <= maxConnections
  <2>1. Active \in SUBSET Slots /\ Active \cup {f} \in SUBSET Slots
    BY <1>1 DEF Active
  <2>2. IsFiniteSet(Active)
    BY <2>1, SlotFacts, FS_Subset
  <2>3. Cardinality(Active \cup {f}) = Cardinality(Active) + 1
    BY <1>10, <2>2, FS_AddElement
  <2>4. Cardinality(Active \cup {f}) <= maxConnections
    BY <2>1, SlotFacts, FS_Subset
  <2> QED BY <2>2, <2>3, <2>4
<1>12. Listed' /\ Len(activeSystemList') <= maxConnections
  BY <1>t, <1>9, <1>10, <1>11 DEF Listed
<1>13. TypeOK'
  BY <1>t, <1>1, <1>2, <1>4, <1>5, <1>6, <1>7, <1>8, <1>9, <1>12 DEF TypeOK
<1>n. Slots \subseteq Nat
  BY SlotFacts
<1>14. Prefix'
  <2> SUFFICES ASSUME NEW s \in Slots, NEW t \in Slots, isActive'[t], s <= t, s # f
               PROVE  isActive'[s]
    BY <1>6 DEF Prefix
  <2>1. CASE t # f
    BY <1>t, <1>6, <2>1 DEF Prefix
  <2>2. CASE t = f
    BY <1>1, <1>6, <1>n, <2>2
  <2> QED BY <2>1, <2>2
<1>15. IncomingFirst'
  <2> SUFFICES ASSUME NEW s \in Active', NEW t \in Active', ~ weInitiateConnection'[s],
                      s \notin unanswered', guid'[s] # NullGuid, guid'[s] = guid'[t]
               PROVE  s <= t
    BY DEF IncomingFirst
  <2>1. s \in Slots /\ t \in Slots
    BY DEF Active
  <2>2. CASE s = f /\ t = f
    BY <1>n, <2>1, <2>2
  <2>3. CASE s = f /\ t # f
    <3>1. t \in Active /\ guid[t] = g /\ g # NullGuid /\ ByGuid(g) = NoSlot
      BY <1>2, <1>5, <1>7, <1>10, <2>1, <2>3
    <3> QED BY <3>1, Scan
  <2>4. CASE s # f /\ t = f
    <3>1. isActive[s]
      BY <1>10, <2>4 DEF Active
    <3>2. ~ (f <= s)
      BY <1>1, <1>t, <2>1, <3>1 DEF Prefix
    <3> QED BY <1>n, <1>1, <2>1, <2>4, <3>2
  <2>5. CASE s # f /\ t # f
    <3>1. s \notin unanswered
      BY <1>2
    <3> QED BY <1>t, <1>5, <1>7, <1>10, <2>1, <2>5, <3>1 DEF IncomingFirst
  <2> QED BY <2>2, <2>3, <2>4, <2>5
<1> QED BY <1>4, <1>12, <1>13, <1>14, <1>15 DEF TableInv

\* By a change of address.
LEMMA MoveStep ==
  ASSUME TableInv, NEW s \in Active, NEW a \in Addrs, ChangeSystemAddress(s, a)
  PROVE  TableInv' /\ systemAddress' = [systemAddress EXCEPT ![s] = a]
<1>t. /\ isActive \in [Slots -> BOOLEAN]
      /\ TypeOK /\ Addressed /\ ChainsExact /\ Listed /\ Prefix /\ IncomingFirst
  BY DEF TableInv, TypeOK
<1>1. s \in Slots /\ isActive[s] /\ systemAddress[s] \in Addrs
  BY <1>t DEF Active, Addressed
<1>2. GetRemoteSystemIndex(systemAddress[s]) = s
  BY <1>t, <1>1, Lookup
<1>3. /\ RefRemoteEndPoint(a, s) /\ \A t \in Slots \ {s} : systemAddress[t] # a
      /\ reply' = "none"
      /\ UNCHANGED <<guid, isActive, connectMode, weInitiateConnection, activeSystemList,
                     unanswered>>
  BY <1>2 DEF ChangeSystemAddress
<1>4. isActive' = [isActive EXCEPT ![s] = TRUE]
  BY <1>t, <1>1, <1>3
<1>5. /\ systemAddress' \in [Slots -> Addrs \cup {NullAddr}]
      /\ systemAddress' = [systemAddress EXCEPT ![s] = a]
      /\ remoteSystemLookup' \in [Buckets -> Seq(Slots)]
      /\ ChainsExact' /\ Addressed'
  BY <1>t, <1>1, <1>3, <1>4, Referenced
<1>6. TypeOK'
  BY <1>t, <1>3, <1>5 DEF TypeOK, Messages
<1>7. Listed' /\ Prefix' /\ IncomingFirst'
  BY <1>t, <1>3 DEF Listed, Prefix, IncomingFirst, Active
<1> QED BY <1>5, <1>6, <1>7 DEF TableInv

\* By a step that changes no more than modes.
LEMMA QuietStep ==
  ASSUME TableInv, Quiet
  PROVE  TableInv'
<1>1. TypeOK'
  BY DEF TableInv, Quiet, TypeOK
<1>2. ChainsExact' /\ Addressed' /\ Listed' /\ Prefix'
  BY DEF TableInv, Quiet, ChainsExact, Addressed, Listed, Prefix, Active
<1>3. IncomingFirst'
  <2>1. /\ weInitiateConnection \in [Slots -> BOOLEAN]
        /\ guid' = guid /\ Active' = Active /\ unanswered' = unanswered
        /\ \A s \in Slots : weInitiateConnection[s] => weInitiateConnection'[s]
    BY DEF TableInv, TypeOK, Quiet, Active
  <2> QED BY <2>1 DEF TableInv, IncomingFirst, Active
<1> QED BY <1>1, <1>2, <1>3 DEF TableInv

\* By every step.
LEMMA TableStep ==
  ASSUME TableInv, [Next]_vars
  PROVE  TableInv'
<1>1. CASE Next
  <2>1. TypeOK /\ Addressed /\ ChainsExact
    BY DEF TableInv
  <2> QED BY <1>1, <2>1, Kinds, AddStep, MoveStep, QuietStep
<1>2. CASE UNCHANGED vars
  <2>1. Quiet
    BY <1>2 DEF TableInv, TypeOK, Quiet, vars, slotVars
  <2> QED BY <2>1, QuietStep
<1> QED BY <1>1, <1>2

\* The empty table has it.
LEMMA TableStart ==
  ASSUME Init
  PROVE  TableInv
<1>1. TypeOK
  <2>1. \A S : <<>> \in Seq(S) /\ Len(<<>>) = 0
    OBVIOUS
  <2>2. maxConnections \in Nat
    BY TableAssumption
  <2>3. [s \in Slots |-> NullGuid] \in [Slots -> Received]
    BY DEF Received
  <2> QED BY <2>1, <2>2, <2>3 DEF Init, TypeOK, Modes, Messages
<1>2. Active = {}
  BY DEF Init, Active
<1>3. Addressed
  BY <1>2 DEF Init, Addressed, Active
<1>4. Listed
  BY <1>2, FS_EmptySet DEF Init, Listed
<1>5. ChainsExact
  <2>1. IsInjective(<<>>) /\ ToSet(<<>>) = {}
    BY DEF IsInjective, ToSet
  <2> QED BY <2>1 DEF Init, ChainsExact
<1>6. Prefix /\ IncomingFirst
  BY <1>2 DEF Init, Prefix, IncomingFirst
<1> QED BY <1>1, <1>3, <1>4, <1>5, <1>6 DEF TableInv

\* So it holds in every state.
LEMMA TableInvariant == Spec => []TableInv
<1>1. Init => TableInv
  BY TableStart
<1>2. TableInv /\ [Next]_vars => TableInv'
  BY TableStep
<1> QED BY <1>1, <1>2, PTL DEF Spec

-----------------------------------------------------------------------------
(* Theorems.                                                               *)

\* remoteSystemList and remoteSystemLookup agree: the chains hold each active
\* slot once and in its bucket, and GetRemoteSystemIndex leads from the address
\* of every active slot to that slot, whatever hash function spreads the
\* addresses and in whatever order systems come and change their address.
THEOREM RemoteTableExact == Spec => []TableExact
<1>1. TableInv => TableExact
  <2> SUFFICES ASSUME TableInv PROVE TableExact
    OBVIOUS
  <2>1. TypeOK /\ Addressed /\ ChainsExact
    BY DEF TableInv
  <2>2. LookupFindsActive
    <3> SUFFICES ASSUME NEW s \in Slots, isActive[s]
                 PROVE  GetRemoteSystemIndex(systemAddress[s]) = s
      BY DEF LookupFindsActive
    <3>1. s \in Active /\ systemAddress[s] \in Addrs
      BY <2>1 DEF Active, Addressed
    <3> QED BY <2>1, <3>1, Lookup
  <2> QED BY <2>1, <2>2 DEF TableExact
<1> QED BY <1>1, TableInvariant, PTL

\* Two systems whose ID_OPEN_CONNECTION_REQUEST_2 was accepted never have the
\* same guid, unless it is the null guid, although OnConnectionReply2 never
\* compares guids.  A slot that OnConnectionReply2 took for a bad answer looks
\* like an incoming one and is the other exception.
THEOREM RemoteIncomingGuidsUnique == Spec => []IncomingGuidsUnique
<1>1. TableInv => IncomingGuidsUnique
  <2> SUFFICES ASSUME TableInv,
                      NEW s \in Slots \ unanswered, NEW t \in Slots \ unanswered,
                      isActive[s], ~ weInitiateConnection[s],
                      isActive[t], ~ weInitiateConnection[t],
                      guid[s] = guid[t], guid[s] # NullGuid
               PROVE  s = t
    BY DEF IncomingGuidsUnique
  <2>1. s <= t /\ t <= s
    BY DEF TableInv, IncomingFirst, Active
  <2> QED BY <2>1, SlotFacts
<1> QED BY <1>1, TableInvariant, PTL

\* A repetition of the request of an unverified incoming connection is answered
\* with ID_OPEN_CONNECTION_REPLY_2 again: the lookup by address and the scan by
\* guid meet in its slot even when a connection of ours has its guid.  The
\* null guid and the slots that a bad answer left are excepted.
THEOREM RemoteReplyRepeated == Spec => ReplyRepeated
<1> DEFINE Repeated(s) ==
             /\ guid[s] # NullGuid
             /\ isActive[s] /\ ~ weInitiateConnection[s]
             /\ connectMode[s] = "UNVERIFIED_SENDER"
             /\ OnConnectionRequest2(systemAddress[s], guid[s])
             => reply' = "reply2"
<1>1. ASSUME TableInv, NEW s \in Slots \ unanswered
      PROVE  Repeated(s)
  <2> SUFFICES ASSUME guid[s] # NullGuid, isActive[s], ~ weInitiateConnection[s],
                      connectMode[s] = "UNVERIFIED_SENDER",
                      OnConnectionRequest2(systemAddress[s], guid[s])
               PROVE  reply' = "reply2"
    OBVIOUS
  <2> DEFINE a == systemAddress[s]
             g == guid[s]
  <2>1. TypeOK /\ Addressed /\ ChainsExact /\ IncomingFirst
    BY <1>1 DEF TableInv
  <2>2. s \in Active /\ a \in Addrs /\ s # NoSlot
    BY <2>1, SlotFacts DEF Active, Addressed
  <2>3. ByAddress(a) = s
    BY <2>1, <2>2, Lookup
  <2>4. ByGuid(g) = s
    <3>1. ByGuid(g) \in Active /\ guid[ByGuid(g)] = g /\ ByGuid(g) <= s
      BY <2>2, Scan
    <3>2. s <= ByGuid(g)
      BY <2>1, <2>2, <3>1 DEF IncomingFirst
    <3>3. ByGuid(g) \in Nat /\ s \in Nat
      BY <2>2, <3>1, SlotFacts DEF Active
    <3> QED BY <3>1, <3>2, <3>3
  <2> HIDE DEF a, g
  <2>5. OnConnectionRequest2(a, g)
    BY DEF a, g
  <2>6. ~ NewPeer(a, g)
    BY <2>2, <2>3 DEF NewPeer
  <2>7. ~ RequestTaken(a, g)
    BY <2>3, <2>4 DEF RequestTaken
  <2>8. RequestRepeated(a, g)
    BY <2>5, <2>6, <2>7
       DEF OnConnectionRequest2, RequestNotAccepted, RequestAccepted, RequestWithoutSlot
  <2> QED BY <2>8 DEF RequestRepeated
<1>2. TableInv => [\A s \in Slots \ unanswered : Repeated(s)]_vars
  BY <1>1
<1> QED BY <1>2, TableInvariant, PTL DEF ReplyRepeated

\* The table implements the register of peers of module PeerRegistry: a system
\* joins under an address that is free while there is room, or moves to a free
\* address, and no handler replaces or loses one.
THEOREM RemoteImplementsRegistry == Spec => ImplementsRegistry
<1> DEFINE Pairs == {<<systemAddress[s], guid[s]>> : s \in {t \in Slots : isActive[t]}}
<1>1. Init => Registry!Init
  BY DEF Init, Registry!Init
<1>2. ASSUME TableInv, [Next]_vars
      PROVE  [Registry!Next]_Pairs
  <2>t. /\ TypeOK /\ Addressed /\ ChainsExact
        /\ systemAddress \in [Slots -> Addrs \cup {NullAddr}]
        /\ guid \in [Slots -> Received]
        /\ isActive \in [Slots -> BOOLEAN]
    BY <1>2 DEF TableInv, TypeOK
  <2>1. ASSUME NEW a \in Addrs, NEW g \in Received, NEW mode \in Modes,
               NEW ours \in BOOLEAN, Adds(a, g, mode, ours)
        PROVE  Registry!Join(a, g)
    <3> DEFINE f == FreeSlot
    <3>1. f \in Slots /\ ~ isActive[f]
      BY <2>1, FreeSlotIs DEF Adds, Add2RemoteSystemList
    <3>2. /\ systemAddress' = [systemAddress EXCEPT ![f] = a]
          /\ guid' = [guid EXCEPT ![f] = g]
          /\ isActive' = [isActive EXCEPT ![f] = TRUE]
      BY <2>1 DEF Adds, Add2RemoteSystemList, RefRemoteEndPoint
    <3>3. \A s \in Slots : systemAddress[s] # a
      BY <2>1, <2>t, ByAddressMissed DEF Adds
    <3> HIDE DEF f
    <3>4. Registry!IsFree(a)
      BY <3>3 DEF Registry!IsFree
    <3>5. Cardinality(Pairs) < maxConnections
      <4>1. IsFiniteSet(Active) /\ Cardinality(Active) < maxConnections
        <5>1. Active \in SUBSET Slots /\ Active # Slots
          BY <3>1 DEF Active
        <5>2. IsFiniteSet(Active) /\ Cardinality(Active) <= maxConnections
              /\ Cardinality(Active) # maxConnections
          BY <5>1, SlotFacts, FS_Subset
        <5>3. Cardinality(Active) \in Nat
          BY <5>2, FS_CardinalityType
        <5> QED BY <5>2, <5>3, TableAssumption
      <4> DEFINE h == [s \in Active |-> <<systemAddress[s], guid[s]>>]
      <4>2. h \in Surjection(Active, Pairs)
        BY DEF Surjection, Active
      <4>3. IsFiniteSet(Pairs) /\ Cardinality(Pairs) <= Cardinality(Active)
        BY <4>1, <4>2, FS_Surjection
      <4>4. Cardinality(Pairs) \in Nat /\ Cardinality(Active) \in Nat
        BY <4>1, <4>3, FS_CardinalityType
      <4> QED BY <4>1, <4>3, <4>4, TableAssumption
    <3>6. Pairs' = Pairs \cup {<<a, g>>}
      <4>1. /\ systemAddress'[f] = a /\ guid'[f] = g /\ isActive'[f]
            /\ \A t \in Slots : t # f => /\ systemAddress'[t] = systemAddress[t]
                                         /\ guid'[t] = guid[t]
                                         /\ isActive'[t] = isActive[t]
        BY <2>t, <3>1, <3>2
      <4> QED BY <3>1, <4>1
    <3>7. Registry!Cardinality(Pairs) = Cardinality(Pairs)
      <4> HIDE DEF Pairs
      <4> QED BY Zenon DEF Cardinality, Registry!Cardinality
    <3> QED BY <3>4, <3>5, <3>6, <3>7 DEF Registry!Join
  <2>2. ASSUME NEW s \in Active, NEW a \in Addrs, ChangeSystemAddress(s, a)
        PROVE  [Registry!Next]_Pairs
    <3>1. /\ systemAddress' = [systemAddress EXCEPT ![s] = a]
          /\ guid' = guid /\ isActive' = isActive
          /\ \A t \in Slots \ {s} : systemAddress[t] # a
      BY <1>2, <2>2, MoveStep DEF ChangeSystemAddress
    <3>2. s \in Slots /\ isActive[s]
      BY DEF Active
    <3>3. CASE a = systemAddress[s]
      <4>1. systemAddress' = systemAddress
        BY <2>t, <3>1, <3>2, <3>3
      <4> QED BY <3>1, <4>1
    <3>4. CASE a # systemAddress[s]
      <4> DEFINE p == <<systemAddress[s], guid[s]>>
      <4>1. p \in Pairs /\ p[2] = guid[s]
        BY <3>2
      <4>2. Registry!IsFree(a)
        BY <3>1, <3>4 DEF Registry!IsFree
      <4>3. Pairs' = (Pairs \ {p}) \cup {<<a, guid[s]>>}
        <5>1. /\ systemAddress'[s] = a
              /\ \A t \in Slots : t # s => systemAddress'[t] = systemAddress[t]
          BY <2>t, <3>1, <3>2
        <5>2. \A t \in Slots : isActive[t] /\ t # s => systemAddress[t] # systemAddress[s]
          BY <2>t, <3>2 DEF Addressed, Active
        <5> QED BY <3>1, <3>2, <5>1, <5>2
      <4>4. Registry!Move(p, a)
        BY <4>1, <4>2, <4>3 DEF Registry!Move
      <4> QED BY <4>1, <4>4 DEF Registry!Next
    <3> QED BY <3>3, <3>4
  <2>3. CASE Quiet
    BY <2>3 DEF Quiet
  <2>4. CASE Next
    BY <2>t, <2>1, <2>2, <2>3, <2>4, Kinds DEF Registry!Next
  <2>5. CASE UNCHANGED vars
    BY <2>5 DEF vars, slotVars
  <2> QED BY <1>2, <2>4, <2>5
<1> QED BY <1>1, <1>2, TableInvariant, PTL DEF Spec, ImplementsRegistry, Registry!Spec

=============================================================================
