-------------------------- MODULE MemoryPool_proofs --------------------------
(***************************************************************************)
(* JackieMemoryPool, for every finite set of pages, every number of cells  *)
(* of a page and every MAX_FREE_PAGES.                                     *)
(***************************************************************************)
EXTENDS MemoryPool, FiniteSetTheorems, SequenceTheorems, WellFoundedInduction, TLAPS

-----------------------------------------------------------------------------
(* A ring, given by the pages in the order of the list.                    *)

After(i, n) == IF i = n - 1 THEN 0 ELSE i + 1

\* f lists the pages of S from the head h on, and l links them in this order.
RingOrder(l, h, n, S, f) ==
  /\ f \in [0 .. n - 1 -> S]
  /\ \A p \in S : \E i \in 0 .. n - 1 : f[i] = p
  /\ \A i, j \in 0 .. n - 1 : f[i] = f[j] => i = j
  /\ n > 0 => f[0] = h
  /\ \A i \in 0 .. n - 1 : l.next[f[i]] = f[After(i, n)] /\ l.prev[f[After(i, n)]] = f[i]

Links == [next : [Pages -> Pages \cup {NoPage}], prev : [Pages -> Pages \cup {NoPage}]]

Ring(l, h, n, S) ==
  /\ S \subseteq Pages /\ n = Cardinality(S)
  /\ \E f : RingOrder(l, h, n, S, f)

\* Following next from the head meets the pages of a ring, all of them.
LEMMA WalkIsRing ==
  ASSUME NEW h, NEW n \in Nat, NEW S, NEW f, RingOrder(link, h, n, S, f)
  PROVE  Walk(h, n) = S
<1> DEFINE F(at) == [i \in 0 .. n - 1 |-> IF i = 0 THEN h ELSE link.next[at[i - 1]]]
           at == CHOOSE g : g = F(g)
<1>1. Walk(h, n) = IF n = 0 THEN {} ELSE {at[i] : i \in 0 .. n - 1}
  BY DEF Walk
<1>2. f = F(f)
  <2>1. \A i \in 0 .. n - 1 : f[i] = IF i = 0 THEN h ELSE link.next[f[i - 1]]
    <3> SUFFICES ASSUME NEW i \in 0 .. n - 1
                 PROVE  f[i] = IF i = 0 THEN h ELSE link.next[f[i - 1]]
      OBVIOUS
    <3>1. CASE i = 0
      BY <3>1 DEF RingOrder
    <3>2. CASE i # 0
      <4>1. i - 1 \in 0 .. n - 1 /\ After(i - 1, n) = i
        BY <3>2 DEF After
      <4> QED BY <3>2, <4>1 DEF RingOrder
    <3> QED BY <3>1, <3>2
  <2>2. f \in [0 .. n - 1 -> S]
    BY DEF RingOrder
  <2> QED BY <2>1, <2>2
<1>3. at = F(at)
  BY <1>2
<1> HIDE DEF at
<1>4. \A i \in 0 .. n - 1 : at[i] = f[i]
  <2> DEFINE B == {i \in 0 .. n - 1 : at[i] # f[i]}
  <2> SUFFICES ASSUME B # {} PROVE FALSE
    OBVIOUS
  <2>1. B \subseteq Nat
    OBVIOUS
  <2>2. PICK s \in B : \A t \in B : ~ (<<t, s>> \in OpToRel(<, Nat))
    BY <2>1, NatLessThanWellFounded, WFMin
  <2>3. \A t \in B : ~ (t < s)
    BY <2>1, <2>2 DEF OpToRel
  <2>4. at[s] = IF s = 0 THEN h ELSE link.next[at[s - 1]]
    BY <1>3
  <2>5. f[s] = IF s = 0 THEN h ELSE link.next[f[s - 1]]
    BY <1>2
  <2>6. s # 0 => s - 1 \notin B /\ s - 1 \in 0 .. n - 1
    BY <2>3
  <2> QED BY <2>4, <2>5, <2>6
<1>5. n > 0 => {at[i] : i \in 0 .. n - 1} = S
  BY <1>4 DEF RingOrder
<1>6. n = 0 => S = {}
  BY DEF RingOrder
<1> QED BY <1>1, <1>5, <1>6

-----------------------------------------------------------------------------
(* The pointer work on one ring.                                           *)

Before(i, n) == IF i = 0 THEN n - 1 ELSE i - 1

\* The places next to a place, all of them places of the ring.
LEMMA Neighbours ==
  ASSUME NEW n \in Nat, NEW k \in 0 .. n - 1
  PROVE  /\ After(k, n) \in 0 .. n - 1 /\ Before(k, n) \in 0 .. n - 1
         /\ After(Before(k, n), n) = k
BY DEF After, Before

\* The links as they are after a page has been taken out, page by page.
LEMMA UnlinkedAt ==
  ASSUME NEW l \in Links, NEW p \in Pages, l.prev[p] \in Pages, l.next[p] \in Pages
  PROVE  /\ Unlinked(l, p) \in Links
         /\ \A q \in Pages : Unlinked(l, p).next[q] = IF q = l.prev[p] THEN l.next[p] ELSE l.next[q]
         /\ \A q \in Pages : Unlinked(l, p).prev[q] = IF q = l.next[p] THEN l.prev[p] ELSE l.prev[q]
BY DEF Links, Unlinked

\* And after it has become the last one of a list.
LEMMA AppendedAt ==
  ASSUME NEW l \in Links, NEW p \in Pages, NEW h, NEW n \in Nat,
         n > 0 => h \in Pages /\ l.prev[h] \in Pages /\ h # p /\ l.prev[h] # p
  PROVE  /\ Appended(l, p, h, n) \in Links
         /\ \A q \in Pages : Appended(l, p, h, n).next[q] =
              IF q = p THEN IF n = 0 THEN p ELSE h
              ELSE IF n > 0 /\ q = l.prev[h] THEN p ELSE l.next[q]
         /\ \A q \in Pages : Appended(l, p, h, n).prev[q] =
              IF q = p THEN IF n = 0 THEN p ELSE l.prev[h]
              ELSE IF n > 0 /\ q = h THEN p ELSE l.prev[q]
<1>1. CASE n = 0
  <2> DEFINE N == [l.next EXCEPT ![p] = p]
             P == [l.prev EXCEPT ![p] = p]
  <2>1. Appended(l, p, h, n) = [next |-> N, prev |-> P]
    BY <1>1 DEF Links, Appended
  <2>2. /\ N \in [Pages -> Pages \cup {NoPage}] /\ P \in [Pages -> Pages \cup {NoPage}]
        /\ \A q \in Pages : N[q] = IF q = p THEN p ELSE l.next[q]
        /\ \A q \in Pages : P[q] = IF q = p THEN p ELSE l.prev[q]
    BY DEF Links
  <2> QED BY <1>1, <2>1, <2>2 DEF Links
<1>2. CASE n # 0
  <2> DEFINE N == [[l.next EXCEPT ![p] = h] EXCEPT ![l.prev[h]] = p]
             P == [[l.prev EXCEPT ![p] = l.prev[h]] EXCEPT ![h] = p]
  <2>1. Appended(l, p, h, n) = [next |-> N, prev |-> P]
    BY <1>2 DEF Links, Appended
  <2>2. /\ N \in [Pages -> Pages \cup {NoPage}] /\ P \in [Pages -> Pages \cup {NoPage}]
        /\ \A q \in Pages : N[q] = IF q = p THEN h ELSE IF q = l.prev[h] THEN p ELSE l.next[q]
        /\ \A q \in Pages : P[q] = IF q = p THEN l.prev[h] ELSE IF q = h THEN p ELSE l.prev[q]
    BY <1>2 DEF Links
  <2> QED BY <1>2, <2>1, <2>2 DEF Links
<1> QED BY <1>1, <1>2

\* A ring depends on the links of its own pages only.
LEMMA RingFrame ==
  ASSUME NEW l, NEW m, NEW h, NEW n \in Nat, NEW S, NEW f, RingOrder(l, h, n, S, f),
         \A q \in S : m.next[q] = l.next[q] /\ m.prev[q] = l.prev[q]
  PROVE  RingOrder(m, h, n, S, f)
<1>1. \A i \in 0 .. n - 1 : f[i] \in S /\ After(i, n) \in 0 .. n - 1
  BY DEF RingOrder, After
<1>2. \A i \in 0 .. n - 1 : f[After(i, n)] \in S
  BY <1>1
<1>3. \A i \in 0 .. n - 1 : m.next[f[i]] = f[After(i, n)] /\ m.prev[f[After(i, n)]] = f[i]
  BY <1>1, <1>2 DEF RingOrder
<1> QED BY <1>3 DEF RingOrder

\* The head after p has been taken out of the list of size n with head h.
HeadWithout(g, l, p, h, n) == n > 1 => g = IF p = h THEN l.next[p] ELSE h

\* m is l without p, as far as the pages of S are concerned.
Unlinks(m, l, p, S) ==
  /\ \A q \in S : m.next[q] = IF q = l.prev[p] THEN l.next[p] ELSE l.next[q]
  /\ \A q \in S : m.prev[q] = IF q = l.next[p] THEN l.prev[p] ELSE l.prev[q]

\* m is l with p behind the last page.
Appends(m, l, p, h, n, S) ==
  /\ m.next[p] = (IF n = 0 THEN p ELSE h)
  /\ m.prev[p] = (IF n = 0 THEN p ELSE l.prev[h])
  /\ \A q \in S : m.next[q] = IF n > 0 /\ q = l.prev[h] THEN p ELSE l.next[q]
  /\ \A q \in S : m.prev[q] = IF n > 0 /\ q = h THEN p ELSE l.prev[q]

\* A ring without one of its pages is a ring.
LEMMA UnlinkedRing ==
  ASSUME NEW l, NEW m, NEW h, NEW n \in Nat, NEW S, NEW f, RingOrder(l, h, n, S, f),
         NEW p \in S, NEW g, HeadWithout(g, l, p, h, n), Unlinks(m, l, p, S)
  PROVE  \E e : RingOrder(m, g, n - 1, S \ {p}, e)
<1>k. PICK k \in 0 .. n - 1 : p = f[k]
  BY DEF RingOrder
<1>g. n > 1 => g = IF k = 0 THEN l.next[f[k]] ELSE h
  <2>1. f[k] = h <=> k = 0
    <3>1. 0 \in 0 .. n - 1
      OBVIOUS
    <3> QED BY <3>1 DEF RingOrder
  <2> QED BY <1>k, <2>1 DEF HeadWithout
<1>m. /\ \A q \in S : m.next[q] = IF q = l.prev[f[k]] THEN l.next[f[k]] ELSE l.next[q]
      /\ \A q \in S : m.prev[q] = IF q = l.next[f[k]] THEN l.prev[f[k]] ELSE l.prev[q]
  BY <1>k DEF Unlinks
<1>0. /\ l.next[f[k]] = f[After(k, n)] /\ l.prev[f[k]] = f[Before(k, n)]
      /\ After(k, n) \in 0 .. n - 1 /\ Before(k, n) \in 0 .. n - 1
  <2>1. l.next[f[k]] = f[After(k, n)]
    BY DEF RingOrder
  <2>2. l.prev[f[k]] = f[Before(k, n)]
    <3>1. Before(k, n) \in 0 .. n - 1 /\ After(Before(k, n), n) = k
      BY Neighbours
    <3>2. \A i \in 0 .. n - 1 : l.prev[f[After(i, n)]] = f[i]
      BY DEF RingOrder
    <3> QED BY ONLY <3>1, <3>2
  <2> QED BY <2>1, <2>2, Neighbours
<1> DEFINE Old(i) == IF i < k THEN i ELSE i + 1
           e == [i \in 0 .. n - 2 |-> f[Old(i)]]
<1>1. /\ n > 0 /\ f[0] = h /\ f \in [0 .. n - 1 -> S]
      /\ \A i, j \in 0 .. n - 1 : f[i] = f[j] => i = j
  BY <1>k DEF RingOrder
<1>2. \A i \in 0 .. n - 2 : Old(i) \in 0 .. n - 1 /\ Old(i) # k
  OBVIOUS
<1>3. e \in [0 .. n - 2 -> S \ {p}]
  BY <1>k, <1>1, <1>2
<1>4. ASSUME NEW q \in S \ {p} PROVE \E i \in 0 .. n - 2 : e[i] = q
  <2>1. PICK j \in 0 .. n - 1 : f[j] = q
    BY DEF RingOrder
  <2>2. j # k
    BY <1>k, <2>1
  <2>3. PICK i \in 0 .. n - 2 : Old(i) = j
    <3>1. CASE j < k
      BY <3>1
    <3>2. CASE j > k
      <4>1. j - 1 \in 0 .. n - 2 /\ Old(j - 1) = j
        BY <3>2
      <4> QED BY <4>1
    <3> QED BY <1>m, <2>2, <3>1, <3>2
  <2> QED BY <2>1, <2>3
<1>5. ASSUME NEW i \in 0 .. n - 2, NEW j \in 0 .. n - 2, e[i] = e[j] PROVE i = j
  <2>1. Old(i) = Old(j)
    BY <1>1, <1>2, <1>5
  <2> QED BY <2>1
<1>6. n - 1 > 0 => e[0] = g
  <2> SUFFICES ASSUME n > 1 PROVE e[0] = g
    OBVIOUS
  <2>1. CASE k = 0
    <3>1. e[0] = f[1] /\ After(k, n) = 1
      BY <2>1 DEF After
    <3> QED BY <1>0, <1>g, <2>1, <3>1
  <2>2. CASE k # 0
    BY <1>1, <1>g, <2>2
  <2> QED BY <2>1, <2>2
<1>7. ASSUME NEW i \in 0 .. n - 2
      PROVE  m.next[e[i]] = e[After(i, n - 1)] /\ m.prev[e[After(i, n - 1)]] = e[i]
  <2> DEFINE a == Old(i)
             b == Old(After(i, n - 1))
  <2>1. /\ a \in 0 .. n - 1 /\ a # k /\ b \in 0 .. n - 1 /\ b # k
        /\ After(i, n - 1) \in 0 .. n - 2
    BY DEF After
  <2>2. e[i] = f[a] /\ e[After(i, n - 1)] = f[b] /\ f[a] \in S /\ f[b] \in S
    BY <1>1, <2>1
  <2>3. a = Before(k, n) <=> b = After(k, n)
    BY DEF After, Before
  <2>4. a # Before(k, n) => b = After(a, n)
    BY DEF After, Before
  <2> HIDE DEF a, b
  <2>6. CASE a = Before(k, n)
    BY <1>0, <1>m, <2>2, <2>3, <2>6
  <2>7. CASE a # Before(k, n)
    <3>1. f[a] # l.prev[f[k]] /\ f[b] # l.next[f[k]]
      BY <1>0, <1>1, <2>1, <2>3, <2>7
    <3>2. l.next[f[a]] = f[b] /\ l.prev[f[b]] = f[a]
      BY <2>1, <2>4, <2>7 DEF RingOrder
    <3> QED BY <1>m, <2>2, <3>1, <3>2
  <2> QED BY <2>6, <2>7
<1> HIDE DEF e
<1>8. n - 1 - 1 = n - 2
  OBVIOUS
<1>9. RingOrder(m, g, n - 1, S \ {p}, e)
  BY <1>3, <1>4, <1>5, <1>6, <1>7, <1>8 DEF RingOrder
<1> QED BY <1>9

\* A ring with a page added behind the last one is a ring.
LEMMA AppendedRing ==
  ASSUME NEW l, NEW m, NEW h, NEW n \in Nat, NEW S, NEW f, RingOrder(l, h, n, S, f),
         NEW p, p \notin S, Appends(m, l, p, h, n, S)
  PROVE  \E e : RingOrder(m, HeadOf(p, h, n), n + 1, S \cup {p}, e)
<1>m. /\ m.next[p] = (IF n = 0 THEN p ELSE h)
      /\ m.prev[p] = (IF n = 0 THEN p ELSE l.prev[h])
      /\ \A q \in S : m.next[q] = IF n > 0 /\ q = l.prev[h] THEN p ELSE l.next[q]
      /\ \A q \in S : m.prev[q] = IF n > 0 /\ q = h THEN p ELSE l.prev[q]
  BY DEF Appends
<1> DEFINE e == [i \in 0 .. n |-> IF i = n THEN p ELSE f[i]]
<1>1. /\ f \in [0 .. n - 1 -> S]
      /\ n > 0 => f[0] = h
      /\ \A i, j \in 0 .. n - 1 : f[i] = f[j] => i = j
  BY DEF RingOrder
<1>2. e \in [0 .. n -> S \cup {p}]
  BY <1>1
<1>3. ASSUME NEW q \in S \cup {p} PROVE \E i \in 0 .. n : e[i] = q
  <2>1. CASE q = p
    BY <2>1
  <2>2. CASE q \in S
    <3>1. PICK i \in 0 .. n - 1 : f[i] = q
      BY <2>2 DEF RingOrder
    <3>2. i \in 0 .. n /\ e[i] = q
      BY <3>1
    <3> QED BY <3>2
  <2> QED BY <2>1, <2>2
<1>4. ASSUME NEW i \in 0 .. n, NEW j \in 0 .. n, e[i] = e[j] PROVE i = j
  BY <1>1, <1>4
<1>5. e[0] = HeadOf(p, h, n)
  BY <1>1 DEF HeadOf
<1>6. n > 0 => l.prev[h] = f[n - 1] /\ h \in S /\ f[n - 1] \in S
  <2>1. n > 0 => 0 \in 0 .. n - 1 /\ n - 1 \in 0 .. n - 1 /\ After(n - 1, n) = 0
    BY DEF After
  <2>2. n > 0 => l.prev[f[0]] = f[n - 1]
    BY <2>1 DEF RingOrder
  <2> QED BY <1>1, <2>1, <2>2
<1>7. ASSUME NEW i \in 0 .. n
      PROVE  m.next[e[i]] = e[After(i, n + 1)] /\ m.prev[e[After(i, n + 1)]] = e[i]
  <2>1. CASE n = 0
    BY <1>m, <2>1 DEF After
  <2>2. CASE n > 0 /\ i = n
    <3>1. e[i] = p /\ After(i, n + 1) = 0 /\ e[0] = h
      BY <1>1, <2>2 DEF After
    <3> QED BY <1>m, <1>6, <2>2, <3>1
  <2>3. CASE n > 0 /\ i = n - 1
    <3>1. e[i] = f[n - 1] /\ After(i, n + 1) = n /\ e[n] = p
      BY <1>1, <2>3 DEF After
    <3> QED BY <1>m, <1>6, <2>3, <3>1
  <2>4. CASE n > 0 /\ i < n - 1
    <3>1. /\ e[i] = f[i] /\ After(i, n + 1) = i + 1 /\ e[i + 1] = f[i + 1]
          /\ i \in 0 .. n - 1 /\ i + 1 \in 0 .. n - 1 /\ After(i, n) = i + 1
      BY <2>4 DEF After
    <3>2. l.next[f[i]] = f[i + 1] /\ l.prev[f[i + 1]] = f[i] /\ f[i] \in S /\ f[i + 1] \in S
      BY <1>1, <3>1 DEF RingOrder
    <3>3. f[i] # f[n - 1] /\ f[i + 1] # h
      <4>1. 0 \in 0 .. n - 1 /\ n - 1 \in 0 .. n - 1 /\ i + 1 # 0 /\ i # n - 1
        BY <2>4
      <4> QED BY <1>1, <2>4, <3>1, <4>1
    <3> QED BY <1>m, <1>6, <3>1, <3>2, <3>3
  <2> QED BY <2>1, <2>2, <2>3, <2>4
<1> HIDE DEF e
<1>8. n + 1 - 1 = n /\ n + 1 > 0
  OBVIOUS
<1>9. RingOrder(m, HeadOf(p, h, n), n + 1, S \cup {p}, e)
  BY <1>2, <1>3, <1>4, <1>5, <1>7, <1>8 DEF RingOrder
<1> QED BY <1>9

-----------------------------------------------------------------------------
(* The pointer work on two rings.                                          *)

\* The size of a ring.
LEMMA RingSize ==
  ASSUME NEW l, NEW h, NEW n, NEW S, Ring(l, h, n, S)
  PROVE  /\ n \in Nat /\ n <= Cardinality(Pages) /\ Cardinality(Pages) \in Nat
         /\ IsFiniteSet(S) /\ n = Cardinality(S) /\ (n = 0 <=> S = {})
<1>1. S \subseteq Pages /\ n = Cardinality(S) /\ IsFiniteSet(Pages)
  BY PoolAssumption DEF Ring
<1>2. IsFiniteSet(S) /\ Cardinality(S) <= Cardinality(Pages)
  BY <1>1, FS_Subset
<1>3. Cardinality(S) \in Nat /\ Cardinality(Pages) \in Nat
  BY <1>1, <1>2, FS_CardinalityType
<1>4. Cardinality(S) = 0 <=> S = {}
  BY <1>2, FS_EmptySet
<1> QED BY <1>1, <1>2, <1>3, <1>4

\* The head of a ring that has pages, and the neighbours of one of them.
LEMMA RingMembers ==
  ASSUME NEW l, NEW h, NEW n, NEW S, Ring(l, h, n, S), NEW p \in S
  PROVE  n > 0 /\ h \in S /\ l.next[p] \in S /\ l.prev[p] \in S
<1>0. n \in Nat
  BY RingSize
<1>1. PICK f : RingOrder(l, h, n, S, f)
  BY DEF Ring
<1>2. PICK k \in 0 .. n - 1 : f[k] = p
  BY <1>1 DEF RingOrder
<1>3. n > 0 /\ 0 \in 0 .. n - 1
  BY <1>0, <1>2
<1>4. \A i \in 0 .. n - 1 : f[i] \in S
  BY <1>1 DEF RingOrder
<1>5. h \in S
  BY <1>1, <1>3, <1>4 DEF RingOrder
<1>6. After(k, n) \in 0 .. n - 1 /\ Before(k, n) \in 0 .. n - 1 /\ After(Before(k, n), n) = k
  BY <1>0, Neighbours
<1>7. l.next[p] = f[After(k, n)]
  BY <1>1, <1>2 DEF RingOrder
<1>8. l.prev[p] = f[Before(k, n)]
  BY <1>1, <1>2, <1>6 DEF RingOrder
<1> QED BY <1>3, <1>4, <1>5, <1>6, <1>7, <1>8

\* Every page of a ring is the one before its next one.
LEMMA RingClosed ==
  ASSUME NEW l, NEW h, NEW n, NEW S, Ring(l, h, n, S), NEW p \in S
  PROVE  l.prev[l.next[p]] = p
<1>1. PICK f : RingOrder(l, h, n, S, f)
  BY DEF Ring
<1>2. PICK k \in 0 .. n - 1 : f[k] = p
  BY <1>1 DEF RingOrder
<1> QED BY <1>1, <1>2 DEF RingOrder

SameLinks(m, l, S) == \A q \in S : m.next[q] = l.next[q] /\ m.prev[q] = l.prev[q]

\* A ring none of whose pages has been written to.
LEMMA RingKept ==
  ASSUME NEW l, NEW m, NEW h, NEW n, NEW S, Ring(l, h, n, S),
         SameLinks(m, l, S)
  PROVE  Ring(m, h, n, S)
<1>0. n \in Nat
  BY RingSize
<1>1. PICK f : RingOrder(l, h, n, S, f)
  BY DEF Ring
<1>2. RingOrder(m, h, n, S, f)
  BY <1>0, <1>1, RingFrame DEF SameLinks
<1> QED BY <1>2 DEF Ring

\* A page is taken out of its ring.
LEMMA UnlinkPage ==
  ASSUME NEW l \in Links, NEW h, NEW n, NEW S, Ring(l, h, n, S), NEW p \in S, NEW g,
         HeadWithout(g, l, p, h, n)
  PROVE  /\ Unlinked(l, p) \in Links /\ Ring(Unlinked(l, p), g, n - 1, S \ {p})
         /\ SameLinks(Unlinked(l, p), l, Pages \ S)
<1> DEFINE m == Unlinked(l, p)
<1>0. n \in Nat /\ IsFiniteSet(S) /\ n = Cardinality(S) /\ S \subseteq Pages
  BY RingSize DEF Ring
<1>1. PICK f : RingOrder(l, h, n, S, f)
  BY DEF Ring
<1>3. l.next[p] \in S /\ l.prev[p] \in S
  BY RingMembers
<1>4. /\ m \in Links
      /\ \A q \in Pages : m.next[q] = IF q = l.prev[p] THEN l.next[p] ELSE l.next[q]
      /\ \A q \in Pages : m.prev[q] = IF q = l.next[p] THEN l.prev[p] ELSE l.prev[q]
  BY <1>0, <1>3, UnlinkedAt
<1> HIDE DEF m
<1>5. Unlinks(m, l, p, S)
  BY <1>0, <1>4 DEF Unlinks
<1>8. \E e : RingOrder(m, g, n - 1, S \ {p}, e)
  BY <1>0, <1>1, <1>5, UnlinkedRing
<1>9. Cardinality(S \ {p}) = n - 1
  BY <1>0, FS_RemoveElement
<1>10. Ring(m, g, n - 1, S \ {p})
  BY <1>0, <1>8, <1>9 DEF Ring
<1>11. SameLinks(m, l, Pages \ S)
  BY <1>3, <1>4 DEF SameLinks
<1> QED BY <1>4, <1>10, <1>11 DEF m

\* A page is put at the end of a ring.
LEMMA AppendPage ==
  ASSUME NEW l \in Links, NEW h, NEW n, NEW S, Ring(l, h, n, S), NEW p \in Pages, p \notin S,
         NEW m, m = Appended(l, p, h, n)
  PROVE  /\ m \in Links /\ Ring(m, HeadOf(p, h, n), n + 1, S \cup {p})
         /\ SameLinks(m, l, (Pages \ S) \ {p})
<1>0. /\ n \in Nat /\ IsFiniteSet(S) /\ n = Cardinality(S) /\ S \subseteq Pages
      /\ n = 0 <=> S = {}
  BY RingSize DEF Ring
<1>1. PICK f : RingOrder(l, h, n, S, f)
  BY DEF Ring
<1>2. n > 0 => h \in S /\ l.prev[h] \in S
  <2> SUFFICES ASSUME n > 0 PROVE h \in S /\ l.prev[h] \in S
    OBVIOUS
  <2>1. PICK q \in S : TRUE
    BY <1>0
  <2>2. h \in S
    BY <2>1, RingMembers
  <2> QED BY <2>2, RingMembers
<1>3. n > 0 => h \in Pages /\ l.prev[h] \in Pages /\ h # p /\ l.prev[h] # p
  BY <1>0, <1>2
<1>4. /\ m \in Links
      /\ \A q \in Pages : m.next[q] = IF q = p THEN IF n = 0 THEN p ELSE h
                                      ELSE IF n > 0 /\ q = l.prev[h] THEN p ELSE l.next[q]
      /\ \A q \in Pages : m.prev[q] = IF q = p THEN IF n = 0 THEN p ELSE l.prev[h]
                                      ELSE IF n > 0 /\ q = h THEN p ELSE l.prev[q]
  BY <1>0, <1>3, AppendedAt
<1>5. Appends(m, l, p, h, n, S)
  BY <1>0, <1>4 DEF Appends
<1>6. \E e : RingOrder(m, HeadOf(p, h, n), n + 1, S \cup {p}, e)
  BY <1>0, <1>1, <1>5, AppendedRing
<1>7. Cardinality(S \cup {p}) = n + 1
  BY <1>0, FS_AddElement
<1>8. Ring(m, HeadOf(p, h, n), n + 1, S \cup {p})
  BY <1>0, <1>6, <1>7 DEF Ring
<1>9. SameLinks(m, l, (Pages \ S) \ {p})
  BY <1>2, <1>4 DEF SameLinks
<1> QED BY <1>4, <1>8, <1>9

\* A page moves from one list to the end of the other.
LEMMA MovePage ==
  ASSUME NEW l \in Links, NEW h, NEW n, NEW S, NEW H, NEW N, NEW T,
         Ring(l, h, n, S), Ring(l, H, N, T), S \cap T = {}, NEW p \in S, NEW g,
         HeadWithout(g, l, p, h, n), NEW m, m = Appended(Unlinked(l, p), p, H, N)
  PROVE  /\ m \in Links /\ Ring(m, g, n - 1, S \ {p})
         /\ Ring(m, HeadOf(p, H, N), N + 1, T \cup {p})
<1> DEFINE u == Unlinked(l, p)
<1>0. S \subseteq Pages /\ T \subseteq Pages
  BY DEF Ring
<1>1. /\ u \in Links /\ Ring(u, g, n - 1, S \ {p})
      /\ SameLinks(u, l, Pages \ S)
  BY UnlinkPage
<1>2. m = Appended(u, p, H, N)
  OBVIOUS
<1> HIDE DEF u
<1>3. SameLinks(u, l, T)
  BY <1>0, <1>1 DEF SameLinks
<1>4. Ring(u, H, N, T)
  BY <1>3, RingKept
<1>5. /\ m \in Links /\ Ring(m, HeadOf(p, H, N), N + 1, T \cup {p})
      /\ SameLinks(m, u, (Pages \ T) \ {p})
  BY <1>0, <1>1, <1>2, <1>4, AppendPage
<1>6. SameLinks(m, u, S \ {p})
  BY <1>0, <1>5 DEF SameLinks
<1>7. Ring(m, g, n - 1, S \ {p})
  BY <1>1, <1>6, RingKept
<1> QED BY <1>5, <1>7

\* A page is taken out of its list and freed.
LEMMA FreePage ==
  ASSUME NEW l \in Links, NEW h, NEW n, NEW S, NEW H, NEW N, NEW T,
         Ring(l, h, n, S), Ring(l, H, N, T), S \cap T = {}, NEW p \in S, NEW g,
         HeadWithout(g, l, p, h, n), NEW m, m = Forget(Unlinked(l, p), p)
  PROVE  m \in Links /\ Ring(m, g, n - 1, S \ {p}) /\ Ring(m, H, N, T)
<1> DEFINE u == Unlinked(l, p)
<1>0. S \subseteq Pages /\ T \subseteq Pages
  BY DEF Ring
<1>1. /\ u \in Links /\ Ring(u, g, n - 1, S \ {p})
      /\ SameLinks(u, l, Pages \ S)
  BY UnlinkPage
<1>2. m = Forget(u, p)
  OBVIOUS
<1> HIDE DEF u
<1>3. m \in Links /\ SameLinks(m, u, Pages \ {p})
  <2> DEFINE X == [u.next EXCEPT ![p] = NoPage]
             Y == [u.prev EXCEPT ![p] = NoPage]
  <2>1. m = [next |-> X, prev |-> Y]
    BY <1>0, <1>1, <1>2 DEF Forget, Links
  <2>2. /\ X \in [Pages -> Pages \cup {NoPage}] /\ Y \in [Pages -> Pages \cup {NoPage}]
        /\ \A q \in Pages \ {p} : X[q] = u.next[q] /\ Y[q] = u.prev[q]
    BY <1>0, <1>1 DEF Links
  <2> QED BY <2>1, <2>2 DEF Links, SameLinks
<1>4. SameLinks(m, l, T)
  BY <1>0, <1>1, <1>3 DEF SameLinks
<1>5. Ring(m, H, N, T)
  BY <1>4, RingKept
<1>6. SameLinks(m, u, S \ {p})
  BY <1>0, <1>3 DEF SameLinks
<1>7. Ring(m, g, n - 1, S \ {p})
  BY <1>1, <1>6, RingKept
<1> QED BY <1>3, <1>5, <1>7

\* A list without pages is a ring, whatever its head is.
LEMMA EmptyRing ==
  ASSUME NEW l, NEW h
  PROVE  Ring(l, h, 0, {})
<1>1. Cardinality({}) = 0
  BY FS_EmptySet
<1>2. RingOrder(l, h, 0, {}, [i \in 0 .. 0 - 1 |-> h])
  BY DEF RingOrder
<1> QED BY <1>1, <1>2 DEF Ring

\* A first page makes a list of its own.
LEMMA NewPage ==
  ASSUME NEW l \in Links, NEW H, NEW N, NEW T, Ring(l, H, N, T), NEW p \in Pages, p \notin T,
         NEW m, m = Appended(l, p, p, 0)
  PROVE  m \in Links /\ Ring(m, p, 1, {p}) /\ Ring(m, H, N, T)
<1>0. T \subseteq Pages
  BY DEF Ring
<1>1. Ring(l, p, 0, {})
  BY EmptyRing
<1>2. /\ m \in Links /\ Ring(m, HeadOf(p, p, 0), 0 + 1, {} \cup {p})
      /\ SameLinks(m, l, (Pages \ {}) \ {p})
  <2>1. p \notin {}
    OBVIOUS
  <2> QED BY <1>1, <2>1, AppendPage, Zenon
<1>3. HeadOf(p, p, 0) = p /\ 0 + 1 = 1 /\ {} \cup {p} = {p}
  BY DEF HeadOf
<1>4. Ring(m, p, 1, {p})
  BY <1>2, <1>3
<1>5. SameLinks(m, l, T)
  BY <1>0, <1>2 DEF SameLinks
<1>6. Ring(m, H, N, T)
  BY <1>5, RingKept
<1> QED BY <1>2, <1>4, <1>6

-----------------------------------------------------------------------------
(* The cells of a page.                                                    *)

LiveIn(V, p) == {c \in CellNumbers : <<p, c>> \in V}

\* s is the stack of the free cells of a page of which the cells in L are out.
PageCells(s, L) ==
  /\ s \in Seq(CellNumbers)
  /\ \A i, j \in 1 .. Len(s) : s[i] = s[j] => i = j
  /\ \A c \in CellNumbers : (\E i \in 1 .. Len(s) : s[i] = c) <=> c \notin L
  /\ Len(s) + Cardinality(L) = CELLS_SIZE_PER_PAGE

\* A page has finitely many cells, and at least two.
LEMMA CellFacts ==
  /\ CELLS_SIZE_PER_PAGE \in Nat /\ CELLS_SIZE_PER_PAGE > 1
  /\ IsFiniteSet(CellNumbers)
  /\ \A L \in SUBSET CellNumbers : IsFiniteSet(L) /\ Cardinality(L) \in Nat
<1>1. CELLS_SIZE_PER_PAGE \in Nat /\ CELLS_SIZE_PER_PAGE > 1
  BY PoolAssumption
<1>2. \A a, b \in Int : IsFiniteSet(a .. b)
  BY FS_Interval
<1>3. IsFiniteSet(CellNumbers)
  BY <1>1, <1>2 DEF CellNumbers
<1>4. \A L \in SUBSET CellNumbers : IsFiniteSet(L) /\ Cardinality(L) \in Nat
  BY <1>3, FS_Subset, FS_CardinalityType
<1> QED BY <1>1, <1>3, <1>4

\* The top of the stack is a cell nobody has; it goes out.
LEMMA PopCells ==
  ASSUME NEW s, NEW L \in SUBSET CellNumbers, PageCells(s, L), s # <<>>
  PROVE  /\ Len(s) > 0 /\ s[Len(s)] \in CellNumbers /\ s[Len(s)] \notin L
         /\ Len(SubSeq(s, 1, Len(s) - 1)) = Len(s) - 1
         /\ PageCells(SubSeq(s, 1, Len(s) - 1), L \cup {s[Len(s)]})
<1>1. /\ s \in Seq(CellNumbers) /\ Len(s) \in Nat /\ Len(s) > 0
      /\ \A i \in 1 .. Len(s) : s[i] \in CellNumbers
  BY DEF PageCells
<1>2. /\ \A i, j \in 1 .. Len(s) : s[i] = s[j] => i = j
      /\ \A c \in CellNumbers : (\E i \in 1 .. Len(s) : s[i] = c) <=> c \notin L
      /\ Len(s) + Cardinality(L) = CELLS_SIZE_PER_PAGE
  BY DEF PageCells
<1> DEFINE n == Len(s)
           t == SubSeq(s, 1, n - 1)
           c == s[n]
<1>3. n \in 1 .. n /\ c \in CellNumbers /\ c \notin L
  BY <1>1, <1>2
<1>4. /\ t \in Seq(CellNumbers) /\ Len(t) = n - 1
      /\ \A i \in 1 .. n - 1 : t[i] = s[i]
  <2>1. \A i \in 1 .. n - 1 : s[i] \in CellNumbers
    BY <1>1
  <2>2. 1 \in Int /\ n - 1 \in Int
    BY <1>1
  <2>3. /\ t \in Seq(CellNumbers) /\ Len(t) = IF 1 <= n - 1 THEN (n - 1) - 1 + 1 ELSE 0
        /\ \A i \in 1 .. (n - 1) - 1 + 1 : t[i] = s[1 + i - 1]
    BY <2>1, <2>2, SubSeqProperties
  <2>n. n \in Nat /\ n > 0
    BY <1>1
  <2> HIDE DEF n, t
  <2>4. Len(t) = n - 1
    BY <2>n, <2>3
  <2>5. \A i \in 1 .. n - 1 : t[i] = s[i]
    BY <2>n, <2>3
  <2> QED BY <2>3, <2>4, <2>5
<1> HIDE DEF n, t, c
<1>n. n \in Nat /\ n > 0 /\ n = Len(s) /\ c = s[n]
  BY <1>1 DEF n, c
<1>5. \A i, j \in 1 .. Len(t) : t[i] = t[j] => i = j
  BY <1>n, <1>2, <1>4
<1>6. ASSUME NEW d \in CellNumbers
      PROVE  (\E i \in 1 .. Len(t) : t[i] = d) <=> d \notin L \cup {c}
  <2>1. ASSUME NEW i \in 1 .. n - 1, t[i] = d PROVE d \notin L \cup {c}
    <3>1. i \in 1 .. n /\ n \in 1 .. n /\ i # n /\ s[i] = d
      BY <1>n, <1>4, <2>1
    <3>2. d \notin L
      BY <1>n, <1>2, <3>1
    <3>3. d # c
      BY <1>n, <1>2, <3>1
    <3> QED BY <3>2, <3>3
  <2>2. ASSUME d \notin L \cup {c} PROVE \E i \in 1 .. n - 1 : t[i] = d
    <3>1. PICK i \in 1 .. n : s[i] = d
      BY <1>n, <1>2, <2>2
    <3>2. i # n
      BY <1>n, <2>2, <3>1
    <3>3. i \in 1 .. n - 1
      BY <1>n, <3>1, <3>2
    <3> QED BY <1>4, <3>1, <3>3
  <2> QED BY <1>4, <2>1, <2>2
<1>7. Len(t) + Cardinality(L \cup {c}) = CELLS_SIZE_PER_PAGE
  <2>1. Cardinality(L \cup {c}) = Cardinality(L) + 1 /\ Cardinality(L) \in Nat
    BY <1>3, CellFacts, FS_AddElement
  <2> QED BY <1>n, <1>2, <1>4, <2>1, CellFacts
<1>8. PageCells(t, L \cup {c})
  BY <1>4, <1>5, <1>6, <1>7 DEF PageCells
<1> QED BY <1>n, <1>3, <1>4, <1>8 DEF n, t, c

\* A cell that was out comes back.
LEMMA PushCells ==
  ASSUME NEW s, NEW L \in SUBSET CellNumbers, PageCells(s, L), NEW c \in L
  PROVE  /\ Len(s) \in Nat /\ Len(s) < CELLS_SIZE_PER_PAGE
         /\ Len(Append(s, c)) = Len(s) + 1 /\ Append(s, c) # <<>>
         /\ PageCells(Append(s, c), L \ {c})
<1>1. /\ s \in Seq(CellNumbers) /\ Len(s) \in Nat
      /\ \A i, j \in 1 .. Len(s) : s[i] = s[j] => i = j
      /\ \A d \in CellNumbers : (\E i \in 1 .. Len(s) : s[i] = d) <=> d \notin L
      /\ Len(s) + Cardinality(L) = CELLS_SIZE_PER_PAGE
  BY DEF PageCells
<1> DEFINE t == Append(s, c)
           n == Len(s)
<1>2. /\ t \in Seq(CellNumbers) /\ Len(t) = n + 1
      /\ \A i \in 1 .. n : t[i] = s[i]
      /\ t[n + 1] = c
  BY <1>1, AppendProperties
<1>3. c \in CellNumbers /\ \A i \in 1 .. n : s[i] # c
  BY <1>1
<1>4. Cardinality(L \ {c}) = Cardinality(L) - 1 /\ Cardinality(L) \in Nat /\ Cardinality(L) # 0
  <2>1. Cardinality(L \ {c}) = Cardinality(L) - 1 /\ Cardinality(L) \in Nat
    BY CellFacts, FS_RemoveElement
  <2>2. Cardinality(L) # 0
    BY CellFacts, FS_EmptySet
  <2> QED BY <2>1, <2>2
<1> HIDE DEF t, n
<1>n. n \in Nat /\ n = Len(s)
  BY <1>1 DEF n
<1>5. \A i, j \in 1 .. Len(t) : t[i] = t[j] => i = j
  <2> SUFFICES ASSUME NEW i \in 1 .. n + 1, NEW j \in 1 .. n + 1, t[i] = t[j] PROVE i = j
    BY <1>2
  <2>1. CASE i \in 1 .. n /\ j \in 1 .. n
    BY <1>n, <1>1, <1>2, <2>1
  <2>2. CASE ~ (i \in 1 .. n /\ j \in 1 .. n)
    BY <1>n, <1>2, <1>3, <2>2
  <2> QED BY <2>1, <2>2
<1>6. ASSUME NEW d \in CellNumbers
      PROVE  (\E i \in 1 .. Len(t) : t[i] = d) <=> d \notin L \ {c}
  <2>1. CASE d = c
    BY <1>n, <1>2, <2>1
  <2>2. CASE d # c
    <3>1. (\E i \in 1 .. n + 1 : t[i] = d) <=> (\E i \in 1 .. n : s[i] = d)
      BY <1>n, <1>2, <2>2
    <3> QED BY <1>n, <1>1, <1>2, <2>2, <3>1
  <2> QED BY <2>1, <2>2
<1>7. Len(t) + Cardinality(L \ {c}) = CELLS_SIZE_PER_PAGE /\ n < CELLS_SIZE_PER_PAGE
  BY <1>n, <1>1, <1>2, <1>4
<1>8. PageCells(t, L \ {c})
  BY <1>2, <1>5, <1>6, <1>7 DEF PageCells
<1>9. t # <<>>
  BY <1>n, <1>2
<1> QED BY <1>n, <1>2, <1>7, <1>8, <1>9 DEF t

\* The cells of a new page, of which the last one goes out at once.
LEMMA NewCells ==
  LET s == [i \in 1 .. CELLS_SIZE_PER_PAGE - 1 |-> i]
  IN  /\ PageCells(s, {CELLS_SIZE_PER_PAGE}) /\ s # <<>>
      /\ Len(s) = CELLS_SIZE_PER_PAGE - 1 /\ CELLS_SIZE_PER_PAGE \in CellNumbers
<1> DEFINE s == [i \in 1 .. CELLS_SIZE_PER_PAGE - 1 |-> i]
<1>1. /\ s \in Seq(CellNumbers) /\ Len(s) = CELLS_SIZE_PER_PAGE - 1
      /\ \A i \in 1 .. Len(s) : s[i] = i
  BY CellFacts DEF CellNumbers
<1>2. Cardinality({CELLS_SIZE_PER_PAGE}) = 1
  BY FS_Singleton
<1> HIDE DEF s
<1>3. PageCells(s, {CELLS_SIZE_PER_PAGE})
  BY <1>1, <1>2, CellFacts DEF PageCells, CellNumbers
<1>4. s # <<>>
  BY <1>1, CellFacts
<1>5. CELLS_SIZE_PER_PAGE \in CellNumbers
  BY CellFacts DEF CellNumbers
<1> QED BY <1>1, <1>3, <1>4, <1>5 DEF s

\* When all cells but one are free, one is out.
LEMMA LastCell ==
  ASSUME NEW s, NEW L \in SUBSET CellNumbers, PageCells(s, L), NEW c \in L,
         Len(s) + 1 = CELLS_SIZE_PER_PAGE
  PROVE  L = {c}
<1>1. Len(s) \in Nat /\ Cardinality(L) = 1 /\ IsFiniteSet(L)
  BY CellFacts DEF PageCells
<1>2. Cardinality(L \ {c}) = 0 /\ IsFiniteSet(L \ {c})
  BY <1>1, FS_RemoveElement
<1>3. L \ {c} = {}
  BY <1>2, FS_EmptySet
<1> QED BY <1>3

-----------------------------------------------------------------------------
(* The inductive invariant.                                                *)

UsablePages == {p \in inUse : freeCells[p] # <<>>}
FullPages == {p \in inUse : freeCells[p] = <<>>}
EmptyPages == {p \in inUse : IsEmpty(p)}

PoolTypes ==
  /\ usablePage \in Pages \cup {NoPage} /\ unUsablePage \in Pages \cup {NoPage}
  /\ link \in Links
  /\ freeCells \in [Pages -> Seq(CellNumbers)]
  /\ inUse \subseteq Pages /\ live \subseteq Cells
  /\ health \in {"ok", "raw", "undefined"}

ListsOK ==
  /\ Ring(link, usablePage, mUsablePagesSize, UsablePages)
  /\ Ring(link, unUsablePage, mUnUsablePagesSize, FullPages)

CellsOK ==
  /\ live \subseteq inUse \X CellNumbers
  /\ \A p \in inUse : PageCells(freeCells[p], LiveIn(live, p))
  /\ \A p \in Pages \ inUse : freeCells[p] = <<>>

EmptyOK == Cardinality(EmptyPages) <= MAX_FREE_PAGES

PoolInv == PoolTypes /\ TypeOK /\ (health = "ok" => ListsOK /\ CellsOK /\ EmptyOK)

\* The sizes and the stacks are in their ranges because the lists and the cells
\* are right.
LEMMA TypeFromLists == PoolTypes /\ ListsOK /\ CellsOK => TypeOK
<1> SUFFICES ASSUME PoolTypes, ListsOK, CellsOK PROVE TypeOK
  OBVIOUS
<1>1. mUsablePagesSize \in 0 .. Cardinality(Pages)
  <2>1. mUsablePagesSize \in Nat /\ mUsablePagesSize <= Cardinality(Pages)
        /\ Cardinality(Pages) \in Nat
    BY RingSize DEF ListsOK
  <2> QED BY <2>1
<1>2. mUnUsablePagesSize \in 0 .. Cardinality(Pages)
  <2>1. mUnUsablePagesSize \in Nat /\ mUnUsablePagesSize <= Cardinality(Pages)
        /\ Cardinality(Pages) \in Nat
    BY RingSize DEF ListsOK
  <2> QED BY <2>1
<1>3. ASSUME NEW p \in Pages
      PROVE  freeCells[p] \in Seq(CellNumbers) /\ Len(freeCells[p]) <= CELLS_SIZE_PER_PAGE
  <2>1. freeCells[p] \in Seq(CellNumbers)
    BY DEF PoolTypes
  <2>2. CASE p \in inUse
    <3>1. PageCells(freeCells[p], LiveIn(live, p))
      BY <2>2 DEF CellsOK
    <3>2. /\ Len(freeCells[p]) + Cardinality(LiveIn(live, p)) = CELLS_SIZE_PER_PAGE
          /\ Len(freeCells[p]) \in Nat
      BY <2>1, <3>1 DEF PageCells
    <3>3. Cardinality(LiveIn(live, p)) \in Nat
      BY CellFacts DEF LiveIn
    <3>4. Len(freeCells[p]) <= CELLS_SIZE_PER_PAGE
      BY <3>2, <3>3, CellFacts
    <3> QED BY <2>1, <3>4
  <2>3. CASE p \notin inUse
    <3>1. freeCells[p] = <<>>
      BY <2>3 DEF CellsOK
    <3>2. Len(freeCells[p]) = 0
      BY <3>1
    <3> QED BY <2>1, <3>2, CellFacts
  <2> QED BY <2>2, <2>3
<1> QED BY <1>1, <1>2, <1>3 DEF PoolTypes, TypeOK, Links

\* The same of the next state.
LEMMA TypeFromListsNext == (PoolTypes /\ ListsOK /\ CellsOK => TypeOK)'
BY TypeFromLists, PTL

\* What an operation that ends well has to keep.
LEMMA PoolInvNext ==
  ASSUME PoolTypes', ListsOK', CellsOK', EmptyOK'
  PROVE  PoolInv'
BY TypeFromListsNext DEF PoolInv

\* Fewer empty pages than before are not too many.
LEMMA EmptyKept ==
  ASSUME PoolTypes, EmptyOK, EmptyPages' \subseteq EmptyPages
  PROVE  EmptyOK'
<1>1. EmptyPages \subseteq Pages /\ IsFiniteSet(Pages)
  BY PoolAssumption DEF PoolTypes, EmptyPages
<1>2. IsFiniteSet(EmptyPages) /\ IsFiniteSet(EmptyPages')
      /\ Cardinality(EmptyPages') <= Cardinality(EmptyPages)
  BY <1>1, FS_Subset
<1>3. Cardinality(EmptyPages) \in Nat /\ Cardinality(EmptyPages') \in Nat
  BY <1>2, FS_CardinalityType
<1>4. MAX_FREE_PAGES \in Nat
  BY PoolAssumption
<1> QED BY <1>2, <1>3, <1>4 DEF EmptyOK

\* A list that is not empty has its head on it.
LEMMA HeadUsable ==
  ASSUME ListsOK, mUsablePagesSize > 0
  PROVE  usablePage \in UsablePages
<1>1. Ring(link, usablePage, mUsablePagesSize, UsablePages)
  BY DEF ListsOK
<1>2. UsablePages # {}
  BY <1>1, RingSize
<1> QED BY <1>1, <1>2, RingMembers

-----------------------------------------------------------------------------
(* Cells go out and come back.                                             *)

\* The top cell of a usable page goes out.
LEMMA PopKeepsCells ==
  ASSUME PoolTypes, CellsOK, NEW p \in UsablePages, Pop(p), UNCHANGED inUse
  PROVE  /\ CellsOK' /\ freeCells' \in [Pages -> Seq(CellNumbers)] /\ live' \subseteq Cells
         /\ Len(freeCells'[p]) = Len(freeCells[p]) - 1
         /\ \A q \in Pages \ {p} : freeCells'[q] = freeCells[q]
         /\ EmptyPages' \subseteq EmptyPages
         /\ \E c \in CellNumbers : <<p, c>> \notin live /\ live' = live \cup {<<p, c>>}
<1> DEFINE s == freeCells[p]
           c == s[Len(s)]
           t == SubSeq(s, 1, Len(s) - 1)
           L == LiveIn(live, p)
<1>1. /\ p \in inUse /\ p \in Pages /\ s # <<>> /\ PageCells(s, L) /\ L \subseteq CellNumbers
      /\ inUse \subseteq Pages
  BY DEF UsablePages, PoolTypes, CellsOK, LiveIn
<1>2. /\ Len(s) > 0 /\ c \in CellNumbers /\ c \notin L
      /\ Len(t) = Len(s) - 1 /\ PageCells(t, L \cup {c})
  BY <1>1, PopCells
<1>3. freeCells' = [freeCells EXCEPT ![p] = t] /\ live' = live \cup {<<p, c>>}
  BY DEF Pop
<1>4. t \in Seq(CellNumbers) /\ Len(s) \in Nat /\ Len(s) <= CELLS_SIZE_PER_PAGE
  <2>1. t \in Seq(CellNumbers)
    BY <1>2 DEF PageCells
  <2>2. Len(s) \in Nat /\ Len(s) + Cardinality(L) = CELLS_SIZE_PER_PAGE
    BY <1>1 DEF PageCells
  <2>3. Cardinality(L) \in Nat
    BY <1>1, CellFacts
  <2> QED BY <2>1, <2>2, <2>3, CellFacts
<1> HIDE DEF s, c, t, L
<1>5. /\ freeCells' \in [Pages -> Seq(CellNumbers)] /\ freeCells'[p] = t
      /\ \A q \in Pages \ {p} : freeCells'[q] = freeCells[q]
  BY <1>1, <1>3, <1>4 DEF PoolTypes
<1>6. /\ LiveIn(live', p) = L \cup {c}
      /\ \A q \in Pages \ {p} : LiveIn(live', q) = LiveIn(live, q)
  BY <1>2, <1>3 DEF LiveIn, L
<1>7. live' \subseteq inUse \X CellNumbers /\ live' \subseteq Cells
  BY <1>1, <1>2, <1>3 DEF CellsOK, Cells
<1>8. \A q \in inUse : PageCells(freeCells'[q], LiveIn(live', q))
  <2> SUFFICES ASSUME NEW q \in inUse PROVE PageCells(freeCells'[q], LiveIn(live', q))
    OBVIOUS
  <2>1. CASE q = p
    BY <1>2, <1>5, <1>6, <2>1
  <2>2. CASE q # p
    BY <1>1, <1>5, <1>6, <2>2 DEF CellsOK
  <2> QED BY <2>1, <2>2
<1>9. CellsOK'
  BY <1>1, <1>5, <1>7, <1>8 DEF CellsOK
<1>10. EmptyPages' \subseteq EmptyPages
  <2> SUFFICES ASSUME NEW q \in inUse, Len(freeCells'[q]) = CELLS_SIZE_PER_PAGE
               PROVE  Len(freeCells[q]) = CELLS_SIZE_PER_PAGE
    BY DEF EmptyPages, IsEmpty
  <2>1. q # p
    BY <1>2, <1>4, <1>5, CellFacts
  <2> QED BY <1>1, <1>5, <2>1
<1>11. <<p, c>> \notin live
  BY <1>2 DEF LiveIn, L
<1> QED BY <1>2, <1>3, <1>5, <1>7, <1>9, <1>10, <1>11 DEF s

\* A cell comes back to its page.
LEMMA PushKeepsCells ==
  ASSUME PoolTypes, CellsOK, NEW p \in Pages, NEW c \in CellNumbers, Push(p, c),
         UNCHANGED inUse
  PROVE  /\ CellsOK' /\ freeCells' \in [Pages -> Seq(CellNumbers)] /\ live' \subseteq Cells
         /\ p \in inUse /\ Len(freeCells[p]) \in Nat
         /\ Len(freeCells'[p]) = Len(freeCells[p]) + 1 /\ freeCells'[p] # <<>>
         /\ \A q \in Pages \ {p} : freeCells'[q] = freeCells[q]
<1> DEFINE s == freeCells[p]
           t == Append(s, c)
           L == LiveIn(live, p)
<1>0. <<p, c>> \in live /\ freeCells' = [freeCells EXCEPT ![p] = t] /\ live' = live \ {<<p, c>>}
  BY DEF Push
<1>1. p \in inUse /\ c \in L /\ L \subseteq CellNumbers /\ inUse \subseteq Pages
  BY <1>0 DEF CellsOK, LiveIn, PoolTypes
<1>2. PageCells(s, L)
  BY <1>1 DEF CellsOK
<1>3. /\ Len(s) \in Nat /\ Len(t) = Len(s) + 1 /\ t # <<>> /\ PageCells(t, L \ {c})
  BY <1>1, <1>2, PushCells
<1>4. t \in Seq(CellNumbers)
  BY <1>3 DEF PageCells
<1> HIDE DEF s, t, L
<1>5. /\ freeCells' \in [Pages -> Seq(CellNumbers)] /\ freeCells'[p] = t
      /\ \A q \in Pages \ {p} : freeCells'[q] = freeCells[q]
  BY <1>0, <1>1, <1>4 DEF PoolTypes
<1>6. /\ LiveIn(live', p) = L \ {c}
      /\ \A q \in Pages \ {p} : LiveIn(live', q) = LiveIn(live, q)
  BY <1>0 DEF LiveIn, L
<1>7. live' \subseteq inUse \X CellNumbers /\ live' \subseteq Cells
  BY <1>0, <1>1 DEF CellsOK, Cells
<1>8. \A q \in inUse : PageCells(freeCells'[q], LiveIn(live', q))
  <2> SUFFICES ASSUME NEW q \in inUse PROVE PageCells(freeCells'[q], LiveIn(live', q))
    OBVIOUS
  <2>1. CASE q = p
    BY <1>3, <1>5, <1>6, <2>1
  <2>2. CASE q # p
    BY <1>1, <1>5, <1>6, <2>2 DEF CellsOK
  <2> QED BY <2>1, <2>2
<1>9. CellsOK'
  BY <1>1, <1>5, <1>7, <1>8 DEF CellsOK
<1> QED BY <1>1, <1>3, <1>5, <1>7, <1>9 DEF s

-----------------------------------------------------------------------------
(* Allocate.                                                               *)

\* What holds before an operation of a pool that is in order.
LEMMA PoolInvNow ==
  ASSUME PoolInv, health = "ok"
  PROVE  PoolTypes /\ ListsOK /\ CellsOK /\ EmptyOK
BY DEF PoolInv

\* A cell of the first usable page, which has more.
LEMMA AllocateFromPageKeeps ==
  ASSUME PoolInv, AllocateFromPage
  PROVE  PoolInv'
<1>1. /\ health = "ok" /\ mUsablePagesSize > 0 /\ Len(freeCells[usablePage]) > 1
      /\ Pop(usablePage)
      /\ UNCHANGED <<usablePage, unUsablePage, mUsablePagesSize, mUnUsablePagesSize,
                     link, inUse, health>>
  BY DEF AllocateFromPage
<1>2. PoolTypes /\ ListsOK /\ CellsOK /\ EmptyOK
  BY <1>1, PoolInvNow
<1>3. usablePage \in UsablePages
  BY <1>1, <1>2, HeadUsable
<1> DEFINE p == usablePage
<1>4. /\ CellsOK' /\ freeCells' \in [Pages -> Seq(CellNumbers)] /\ live' \subseteq Cells
      /\ Len(freeCells'[p]) = Len(freeCells[p]) - 1
      /\ \A q \in Pages \ {p} : freeCells'[q] = freeCells[q]
      /\ EmptyPages' \subseteq EmptyPages
  BY <1>1, <1>2, <1>3, PopKeepsCells
<1>5. PoolTypes'
  BY <1>1, <1>2, <1>4 DEF PoolTypes
<1>6. freeCells'[p] # <<>> /\ freeCells[p] # <<>> /\ p \in inUse /\ inUse \subseteq Pages
  <2>1. p \in inUse /\ inUse \subseteq Pages /\ freeCells[p] # <<>>
    BY <1>2, <1>3 DEF UsablePages, PoolTypes
  <2>2. Len(freeCells[p]) \in Nat
    BY <1>2, <2>1 DEF PoolTypes
  <2>3. Len(freeCells[p]) > 1 /\ Len(freeCells'[p]) = Len(freeCells[p]) - 1
    BY <1>1, <1>4
  <2>4. \A a, b : a \in Nat /\ a > 1 /\ b = a - 1 => b # 0
    OBVIOUS
  <2>5. Len(freeCells'[p]) # 0
    BY ONLY <2>2, <2>3, <2>4
  <2> QED BY <2>1, <2>5
<1>7. UsablePages' = UsablePages /\ FullPages' = FullPages
  BY <1>1, <1>4, <1>6 DEF UsablePages, FullPages
<1>8. ListsOK'
  BY <1>1, <1>2, <1>7 DEF ListsOK
<1>9. EmptyOK'
  BY <1>2, <1>4, EmptyKept
<1> QED BY <1>4, <1>5, <1>8, <1>9, PoolInvNext

\* The last free cell of the first usable page, which moves to the other list.
LEMMA AllocateLastOfPageKeeps ==
  ASSUME PoolInv, AllocateLastOfPage
  PROVE  PoolInv'
<1> DEFINE p == usablePage
<1>1. /\ health = "ok" /\ mUsablePagesSize > 0 /\ Len(freeCells[p]) = 1 /\ Pop(p)
      /\ mUsablePagesSize' = mUsablePagesSize - 1
      /\ usablePage' = link.next[p]
      /\ link' = Appended(Unlinked(link, p), p, unUsablePage, mUnUsablePagesSize)
      /\ unUsablePage' = HeadOf(p, unUsablePage, mUnUsablePagesSize)
      /\ mUnUsablePagesSize' = mUnUsablePagesSize + 1
      /\ UNCHANGED <<inUse, health>>
  BY DEF AllocateLastOfPage
<1>2. PoolTypes /\ ListsOK /\ CellsOK /\ EmptyOK
  BY <1>1, PoolInvNow
<1>3. p \in UsablePages
  BY <1>1, <1>2, HeadUsable
<1>4. /\ CellsOK' /\ freeCells' \in [Pages -> Seq(CellNumbers)] /\ live' \subseteq Cells
      /\ Len(freeCells'[p]) = Len(freeCells[p]) - 1
      /\ \A q \in Pages \ {p} : freeCells'[q] = freeCells[q]
      /\ EmptyPages' \subseteq EmptyPages
  BY <1>1, <1>2, <1>3, PopKeepsCells
<1>5. p \in inUse /\ inUse \subseteq Pages /\ freeCells'[p] = <<>> /\ inUse' = inUse
  <2>1. p \in inUse /\ inUse \subseteq Pages
    BY <1>2, <1>3 DEF UsablePages, PoolTypes
  <2>2. Len(freeCells'[p]) = 0 /\ freeCells'[p] \in Seq(CellNumbers)
    BY <1>1, <1>4, <2>1
  <2>3. \A s \in Seq(CellNumbers) : Len(s) = 0 => s = <<>>
    BY EmptySeq
  <2> QED BY <1>1, <2>1, <2>2, <2>3
<1>6. UsablePages' = UsablePages \ {p} /\ FullPages' = FullPages \cup {p}
  BY <1>4, <1>5 DEF UsablePages, FullPages
<1>7. HeadWithout(usablePage', link, p, usablePage, mUsablePagesSize)
  BY <1>1 DEF HeadWithout
<1>8. UsablePages \cap FullPages = {}
  BY DEF UsablePages, FullPages
<1>9. /\ Ring(link, usablePage, mUsablePagesSize, UsablePages)
      /\ Ring(link, unUsablePage, mUnUsablePagesSize, FullPages)
      /\ link \in Links
  BY <1>2 DEF ListsOK, PoolTypes
<1>10. /\ link' \in Links
       /\ Ring(link', usablePage', mUsablePagesSize - 1, UsablePages \ {p})
       /\ Ring(link', HeadOf(p, unUsablePage, mUnUsablePagesSize), mUnUsablePagesSize + 1,
               FullPages \cup {p})
  BY <1>1, <1>3, <1>7, <1>8, <1>9, MovePage
<1>11. ListsOK'
  BY <1>1, <1>6, <1>10 DEF ListsOK
<1>12. usablePage' \in Pages /\ unUsablePage' \in Pages \cup {NoPage}
  <2>1. link.next[p] \in UsablePages
    BY <1>3, <1>9, RingMembers
  <2>2. UsablePages \subseteq Pages
    BY <1>5 DEF UsablePages
  <2> QED BY <1>1, <1>2, <1>5, <2>1, <2>2 DEF HeadOf, PoolTypes
<1>13. PoolTypes'
  BY <1>1, <1>2, <1>4, <1>5, <1>10, <1>12 DEF PoolTypes
<1>14. EmptyOK'
  BY <1>2, <1>4, EmptyKept
<1> QED BY <1>4, <1>11, <1>13, <1>14, PoolInvNext

\* No usable page is left, and malloc has one.
LEMMA AllocateNewPageKeeps ==
  ASSUME PoolInv, AllocateNewPage
  PROVE  PoolInv'
<1> DEFINE s == [i \in 1 .. CELLS_SIZE_PER_PAGE - 1 |-> i]
           c == CELLS_SIZE_PER_PAGE
<1>0. PICK p \in Pages \ inUse :
        /\ usablePage' = p
        /\ mUsablePagesSize' = 1
        /\ link' = Appended(link, p, p, 0)
        /\ inUse' = inUse \cup {p}
        /\ freeCells' = [freeCells EXCEPT ![p] = s]
        /\ live' = live \cup {<<p, c>>}
  BY DEF AllocateNewPage
<1>1. /\ health = "ok" /\ mUsablePagesSize = 0
      /\ UNCHANGED <<unUsablePage, mUnUsablePagesSize, health>>
  BY DEF AllocateNewPage
<1>2. PoolTypes /\ ListsOK /\ CellsOK /\ EmptyOK
  BY <1>1, PoolInvNow
<1>3. /\ PageCells(s, {c}) /\ s # <<>> /\ Len(s) = c - 1 /\ c \in CellNumbers
  BY NewCells
<1>4. s \in Seq(CellNumbers) /\ Len(s) # CELLS_SIZE_PER_PAGE
  BY <1>3, CellFacts DEF PageCells
<1> HIDE DEF s, c
<1>5. /\ freeCells' \in [Pages -> Seq(CellNumbers)] /\ freeCells'[p] = s
      /\ \A q \in Pages \ {p} : freeCells'[q] = freeCells[q]
  BY <1>0, <1>2, <1>4 DEF PoolTypes
<1>6. LiveIn(live', p) = {c} /\ \A q \in Pages \ {p} : LiveIn(live', q) = LiveIn(live, q)
  <2>1. \A d \in CellNumbers : <<p, d>> \notin live
    BY <1>0, <1>2 DEF CellsOK
  <2> QED BY <1>0, <1>3, <2>1 DEF LiveIn
<1>7. inUse \subseteq Pages /\ inUse' \subseteq Pages /\ live \subseteq inUse \X CellNumbers
  BY <1>0, <1>2 DEF PoolTypes, CellsOK
<1>8. live' \subseteq inUse' \X CellNumbers /\ live' \subseteq Cells
  BY <1>0, <1>3, <1>7 DEF Cells
<1>9. CellsOK'
  <2>1. \A q \in inUse' : PageCells(freeCells'[q], LiveIn(live', q))
    <3> SUFFICES ASSUME NEW q \in inUse' PROVE PageCells(freeCells'[q], LiveIn(live', q))
      OBVIOUS
    <3>1. CASE q = p
      BY <1>3, <1>5, <1>6, <3>1
    <3>2. CASE q # p
      <4>1. q \in inUse /\ q \in Pages \ {p}
        BY <1>0, <1>7, <3>2
      <4> QED BY <1>2, <1>5, <1>6, <4>1 DEF CellsOK
    <3> QED BY <3>1, <3>2
  <2>2. \A q \in Pages \ inUse' : freeCells'[q] = <<>>
    BY <1>0, <1>2, <1>5 DEF CellsOK
  <2> QED BY <1>8, <2>1, <2>2 DEF CellsOK
<1>10. /\ Ring(link, unUsablePage, mUnUsablePagesSize, FullPages)
       /\ link \in Links /\ p \notin FullPages /\ UsablePages = {}
  <2>1. Ring(link, usablePage, mUsablePagesSize, UsablePages)
    BY <1>2 DEF ListsOK
  <2>2. UsablePages = {}
    BY <1>1, <2>1, RingSize
  <2> QED BY <1>0, <1>2, <2>2 DEF ListsOK, PoolTypes, FullPages
<1>11. /\ link' \in Links /\ Ring(link', p, 1, {p})
       /\ Ring(link', unUsablePage, mUnUsablePagesSize, FullPages)
  BY <1>0, <1>10, NewPage
<1>12. UsablePages' = {p} /\ FullPages' = FullPages
  <2>1. UsablePages' = UsablePages \cup {p}
    BY <1>0, <1>3, <1>5, <1>7 DEF UsablePages
  <2>2. FullPages' = FullPages
    BY <1>0, <1>3, <1>5, <1>7 DEF FullPages
  <2> QED BY <1>10, <2>1, <2>2
<1>13. ListsOK'
  BY <1>0, <1>1, <1>11, <1>12 DEF ListsOK
<1>14. PoolTypes'
  BY <1>0, <1>1, <1>2, <1>5, <1>7, <1>8, <1>11 DEF PoolTypes
<1>15. EmptyPages' \subseteq EmptyPages
  BY <1>0, <1>4, <1>5, <1>7 DEF EmptyPages, IsEmpty
<1>16. EmptyOK'
  BY <1>2, <1>15, EmptyKept
<1> QED BY <1>9, <1>13, <1>14, <1>16, PoolInvNext

\* malloc has no page, or no memory for its arrays, or the raw page is read.
LEMMA AllocateFailsKeeps ==
  ASSUME PoolInv, NoMemoryForPage \/ InitPageFails \/ AllocateFromRawPage
  PROVE  PoolInv'
<1>1. CASE NoMemoryForPage
  <2>1. /\ health = "ok" /\ mUsablePagesSize = 0 /\ usablePage' = NoPage
        /\ UNCHANGED <<unUsablePage, mUsablePagesSize, mUnUsablePagesSize,
                       link, freeCells, inUse, live, health>>
    BY <1>1 DEF NoMemoryForPage
  <2>2. PoolTypes /\ ListsOK /\ CellsOK /\ EmptyOK
    BY <2>1, PoolInvNow
  <2>3. UsablePages = {}
    BY <2>1, <2>2, RingSize DEF ListsOK
  <2>4. UsablePages' = {} /\ FullPages' = FullPages
    BY <2>1, <2>3 DEF UsablePages, FullPages
  <2>5. Ring(link', usablePage', 0, {})
    BY EmptyRing
  <2>6. ListsOK'
    BY <2>1, <2>2, <2>4, <2>5 DEF ListsOK
  <2>7. CellsOK' /\ EmptyOK' /\ PoolTypes'
    BY <2>1, <2>2 DEF CellsOK, EmptyOK, EmptyPages, IsEmpty, PoolTypes
  <2> QED BY <2>6, <2>7, PoolInvNext
<1>2. CASE InitPageFails
  <2>1. PICK p \in Pages \ inUse : usablePage' = p /\ inUse' = inUse \cup {p}
    BY <1>2 DEF InitPageFails
  <2>2. /\ mUsablePagesSize' = 1 /\ health' = "raw"
        /\ UNCHANGED <<unUsablePage, mUnUsablePagesSize, link, freeCells, live>>
    BY <1>2 DEF InitPageFails
  <2>3. 1 \in 0 .. Cardinality(Pages)
    <3>1. IsFiniteSet(Pages) /\ Cardinality(Pages) \in Nat
      BY PoolAssumption, FS_CardinalityType
    <3>2. Cardinality(Pages) # 0
      BY <2>1, <3>1, FS_EmptySet
    <3> QED BY <3>1, <3>2
  <2>4. PoolTypes' /\ TypeOK'
    BY <2>1, <2>2, <2>3 DEF PoolInv, PoolTypes, TypeOK
  <2> QED BY <2>2, <2>4 DEF PoolInv
<1>3. CASE AllocateFromRawPage
  <2>1. /\ health' = "undefined"
        /\ UNCHANGED <<usablePage, unUsablePage, mUsablePagesSize, mUnUsablePagesSize,
                       link, freeCells, inUse>>
    BY <1>3 DEF AllocateFromRawPage
  <2>2. PICK c \in Cells : live' = live \cup {c}
    BY <1>3 DEF AllocateFromRawPage
  <2>3. live' \subseteq Cells
    BY <2>2 DEF PoolInv, PoolTypes
  <2>4. PoolTypes' /\ TypeOK'
    BY <2>1, <2>3 DEF PoolInv, PoolTypes, TypeOK
  <2> QED BY <2>1, <2>4 DEF PoolInv
<1> QED BY <1>1, <1>2, <1>3

-----------------------------------------------------------------------------
(* Reclaim and Clear.                                                      *)

\* The page had no free cell and moves to the end of the usable list.
LEMMA ReclaimToFullPageKeeps ==
  ASSUME PoolInv, NEW p \in Pages, NEW c \in CellNumbers, ReclaimToFullPage(p, c)
  PROVE  PoolInv'
<1>1. /\ health = "ok" /\ freeCells[p] = <<>> /\ Push(p, c)
      /\ mUnUsablePagesSize' = mUnUsablePagesSize - 1
      /\ unUsablePage' = IF mUnUsablePagesSize > 1 /\ p = unUsablePage
                         THEN link.next[p] ELSE unUsablePage
      /\ link' = Appended(Unlinked(link, p), p, usablePage, mUsablePagesSize)
      /\ usablePage' = HeadOf(p, usablePage, mUsablePagesSize)
      /\ mUsablePagesSize' = mUsablePagesSize + 1
      /\ UNCHANGED <<inUse, health>>
  BY DEF ReclaimToFullPage
<1>2. PoolTypes /\ ListsOK /\ CellsOK /\ EmptyOK
  BY <1>1, PoolInvNow
<1>4. /\ CellsOK' /\ freeCells' \in [Pages -> Seq(CellNumbers)] /\ live' \subseteq Cells
      /\ p \in inUse /\ Len(freeCells'[p]) = Len(freeCells[p]) + 1 /\ freeCells'[p] # <<>>
      /\ \A q \in Pages \ {p} : freeCells'[q] = freeCells[q]
  BY <1>1, <1>2, PushKeepsCells
<1>5. inUse \subseteq Pages /\ inUse' = inUse /\ p \in FullPages
  BY <1>1, <1>2, <1>4 DEF PoolTypes, FullPages
<1>6. UsablePages' = UsablePages \cup {p} /\ FullPages' = FullPages \ {p}
  BY <1>4, <1>5 DEF UsablePages, FullPages
<1>7. HeadWithout(unUsablePage', link, p, unUsablePage, mUnUsablePagesSize)
  BY <1>1 DEF HeadWithout
<1>8. FullPages \cap UsablePages = {}
  BY DEF UsablePages, FullPages
<1>9. /\ Ring(link, usablePage, mUsablePagesSize, UsablePages)
      /\ Ring(link, unUsablePage, mUnUsablePagesSize, FullPages)
      /\ link \in Links
  BY <1>2 DEF ListsOK, PoolTypes
<1>10. /\ link' \in Links
       /\ Ring(link', unUsablePage', mUnUsablePagesSize - 1, FullPages \ {p})
       /\ Ring(link', HeadOf(p, usablePage, mUsablePagesSize), mUsablePagesSize + 1,
               UsablePages \cup {p})
  BY <1>1, <1>5, <1>7, <1>8, <1>9, MovePage
<1>11. ListsOK'
  BY <1>1, <1>6, <1>10 DEF ListsOK
<1>12. unUsablePage' \in Pages \cup {NoPage} /\ usablePage' \in Pages \cup {NoPage}
  <2>1. link.next[p] \in FullPages
    BY <1>5, <1>9, RingMembers
  <2>2. FullPages \subseteq Pages
    BY <1>5 DEF FullPages
  <2>3. usablePage \in Pages \cup {NoPage} /\ unUsablePage \in Pages \cup {NoPage}
    BY <1>2 DEF PoolTypes
  <2> QED BY <1>1, <2>1, <2>2, <2>3 DEF HeadOf
<1>13. PoolTypes'
  BY <1>1, <1>2, <1>4, <1>5, <1>10, <1>12 DEF PoolTypes
<1>14. EmptyPages' \subseteq EmptyPages
  <2>1. Len(freeCells'[p]) # CELLS_SIZE_PER_PAGE
    <3>1. Len(freeCells[p]) = 0
      BY <1>1
    <3> QED BY <1>4, <3>1, CellFacts
  <2> QED BY <1>4, <1>5, <2>1 DEF EmptyPages, IsEmpty
<1>15. EmptyOK'
  BY <1>2, <1>14, EmptyKept
<1> QED BY <1>4, <1>11, <1>13, <1>15, PoolInvNext

\* The page has other free cells and is kept.
LEMMA ReclaimToPageKeeps ==
  ASSUME PoolInv, NEW p \in Pages, NEW c \in CellNumbers, ReclaimToPage(p, c)
  PROVE  PoolInv'
<1>1. /\ health = "ok" /\ freeCells[p] # <<>> /\ ~ IsSurplus(p) /\ Push(p, c)
      /\ UNCHANGED <<usablePage, unUsablePage, mUsablePagesSize, mUnUsablePagesSize,
                     link, inUse, health>>
  BY DEF ReclaimToPage
<1>2. PoolTypes /\ ListsOK /\ CellsOK /\ EmptyOK
  BY <1>1, PoolInvNow
<1>4. /\ CellsOK' /\ freeCells' \in [Pages -> Seq(CellNumbers)] /\ live' \subseteq Cells
      /\ p \in inUse /\ Len(freeCells[p]) \in Nat
      /\ Len(freeCells'[p]) = Len(freeCells[p]) + 1 /\ freeCells'[p] # <<>>
      /\ \A q \in Pages \ {p} : freeCells'[q] = freeCells[q]
  BY <1>1, <1>2, PushKeepsCells
<1>5. inUse \subseteq Pages /\ inUse' = inUse
  BY <1>1, <1>2 DEF PoolTypes
<1>6. UsablePages' = UsablePages /\ FullPages' = FullPages
  BY <1>1, <1>4, <1>5 DEF UsablePages, FullPages
<1>7. ListsOK'
  BY <1>1, <1>2, <1>6 DEF ListsOK
<1>8. PoolTypes'
  BY <1>1, <1>2, <1>4, <1>5 DEF PoolTypes
<1>9. EmptyOK'
  <2>1. CASE Len(freeCells[p]) + 1 = CELLS_SIZE_PER_PAGE
    <3>1. ~ (mUsablePagesSize > MAX_FREE_PAGES)
      BY <1>1, <2>1 DEF IsSurplus
    <3>2. EmptyPages' \subseteq UsablePages
      <4>1. \A q \in inUse : Len(freeCells'[q]) = CELLS_SIZE_PER_PAGE => freeCells'[q] # <<>>
        BY CellFacts
      <4>2. EmptyPages' \subseteq UsablePages'
        BY <1>5, <4>1 DEF EmptyPages, IsEmpty, UsablePages
      <4> QED BY <1>6, <4>2
    <3>3. /\ IsFiniteSet(UsablePages) /\ mUsablePagesSize = Cardinality(UsablePages)
          /\ mUsablePagesSize \in Nat
      BY <1>2, RingSize DEF ListsOK
    <3>4. IsFiniteSet(EmptyPages') /\ Cardinality(EmptyPages') <= Cardinality(UsablePages)
      BY <3>2, <3>3, FS_Subset
    <3>5. Cardinality(EmptyPages') \in Nat
      BY <3>4, FS_CardinalityType
    <3>6. MAX_FREE_PAGES \in Nat
      BY PoolAssumption
    <3>7. Cardinality(EmptyPages') <= MAX_FREE_PAGES
      BY <3>1, <3>3, <3>4, <3>5, <3>6
    <3> QED BY <3>7 DEF EmptyOK
  <2>2. CASE Len(freeCells[p]) + 1 # CELLS_SIZE_PER_PAGE
    <3>1. EmptyPages' \subseteq EmptyPages
      BY <1>4, <1>5, <2>2 DEF EmptyPages, IsEmpty
    <3> QED BY <1>2, <3>1, EmptyKept
  <2> QED BY <2>1, <2>2
<1> QED BY <1>4, <1>7, <1>8, <1>9, PoolInvNext

\* The last cell that was out comes back and its page is freed.
LEMMA ReclaimAndFreePageKeeps ==
  ASSUME PoolInv, NEW p \in Pages, NEW c \in CellNumbers, ReclaimAndFreePage(p, c)
  PROVE  PoolInv' /\ LiveIn(live, p) = {c}
<1>1. /\ health = "ok" /\ freeCells[p] # <<>> /\ IsSurplus(p) /\ <<p, c>> \in live
      /\ live' = live \ {<<p, c>>}
      /\ freeCells' = [freeCells EXCEPT ![p] = <<>>]
      /\ usablePage' = IF p = usablePage THEN link.next[p] ELSE usablePage
      /\ link' = Forget(Unlinked(link, p), p)
      /\ mUsablePagesSize' = mUsablePagesSize - 1
      /\ inUse' = inUse \ {p}
      /\ UNCHANGED <<unUsablePage, mUnUsablePagesSize, health>>
  BY DEF ReclaimAndFreePage
<1>2. PoolTypes /\ ListsOK /\ CellsOK /\ EmptyOK
  BY <1>1, PoolInvNow
<1>3. p \in inUse /\ inUse \subseteq Pages /\ p \in UsablePages
  BY <1>1, <1>2 DEF CellsOK, PoolTypes, UsablePages
<1>4. LiveIn(live, p) = {c}
  <2>1. PageCells(freeCells[p], LiveIn(live, p)) /\ c \in LiveIn(live, p)
        /\ LiveIn(live, p) \subseteq CellNumbers
    BY <1>1, <1>2, <1>3 DEF CellsOK, LiveIn
  <2>2. Len(freeCells[p]) + 1 = CELLS_SIZE_PER_PAGE
    BY <1>1 DEF IsSurplus
  <2> QED BY <2>1, <2>2, LastCell
<1>5. /\ freeCells' \in [Pages -> Seq(CellNumbers)] /\ freeCells'[p] = <<>>
      /\ \A q \in Pages \ {p} : freeCells'[q] = freeCells[q]
  <2>1. <<>> \in Seq(CellNumbers)
    OBVIOUS
  <2> QED BY <1>1, <1>2, <2>1 DEF PoolTypes
<1>6. \A q \in Pages \ {p} : LiveIn(live', q) = LiveIn(live, q)
  BY <1>1 DEF LiveIn
<1>7. live' \subseteq inUse' \X CellNumbers /\ live' \subseteq Cells
  <2>1. \A d \in CellNumbers : <<p, d>> \in live => d = c
    BY <1>4 DEF LiveIn
  <2>2. live \subseteq inUse \X CellNumbers /\ live \subseteq Cells
    BY <1>2 DEF CellsOK, PoolTypes
  <2> QED BY <1>1, <2>1, <2>2
<1>8. CellsOK'
  <2>1. \A q \in inUse' : PageCells(freeCells'[q], LiveIn(live', q))
    BY <1>1, <1>2, <1>3, <1>5, <1>6 DEF CellsOK
  <2>2. \A q \in Pages \ inUse' : freeCells'[q] = <<>>
    BY <1>1, <1>2, <1>5 DEF CellsOK
  <2> QED BY <1>7, <2>1, <2>2 DEF CellsOK
<1>9. /\ Ring(link, usablePage, mUsablePagesSize, UsablePages)
      /\ Ring(link, unUsablePage, mUnUsablePagesSize, FullPages)
      /\ link \in Links
  BY <1>2 DEF ListsOK, PoolTypes
<1>10. /\ HeadWithout(usablePage', link, p, usablePage, mUsablePagesSize)
       /\ UsablePages \cap FullPages = {}
  BY <1>1 DEF HeadWithout, UsablePages, FullPages
<1>11. /\ link' \in Links
       /\ Ring(link', usablePage', mUsablePagesSize - 1, UsablePages \ {p})
       /\ Ring(link', unUsablePage, mUnUsablePagesSize, FullPages)
  BY <1>1, <1>3, <1>9, <1>10, FreePage
<1>12. UsablePages' = UsablePages \ {p} /\ FullPages' = FullPages
  BY <1>1, <1>3, <1>5 DEF UsablePages, FullPages
<1>13. ListsOK'
  BY <1>1, <1>11, <1>12 DEF ListsOK
<1>14. usablePage' \in Pages \cup {NoPage}
  <2>1. link.next[p] \in UsablePages
    BY <1>3, <1>9, RingMembers
  <2>2. UsablePages \subseteq Pages
    BY <1>3 DEF UsablePages
  <2> QED BY <1>1, <1>2, <2>1, <2>2 DEF PoolTypes
<1>15. PoolTypes'
  BY <1>1, <1>2, <1>5, <1>7, <1>11, <1>14 DEF PoolTypes
<1>16. EmptyPages' \subseteq EmptyPages
  BY <1>1, <1>3, <1>5 DEF EmptyPages, IsEmpty
<1>17. EmptyOK'
  BY <1>2, <1>16, EmptyKept
<1> QED BY <1>4, <1>8, <1>13, <1>15, <1>17, PoolInvNext

\* The walks of Clear meet the pages of the two lists.
LEMMA WalksMeetAll ==
  ASSUME PoolTypes, ListsOK
  PROVE  /\ Walk(usablePage, mUsablePagesSize) = UsablePages
         /\ Walk(unUsablePage, mUnUsablePagesSize) = FullPages
<1>1. \A h, n, S : Ring(link, h, n, S) => Walk(h, n) = S
  <2> SUFFICES ASSUME NEW h, NEW n, NEW S, Ring(link, h, n, S) PROVE Walk(h, n) = S
    OBVIOUS
  <2>1. n \in Nat
    BY RingSize
  <2>2. PICK f : RingOrder(link, h, n, S, f)
    BY DEF Ring
  <2> QED BY <2>1, <2>2, WalkIsRing
<1> QED BY <1>1 DEF ListsOK

\* Clear frees every page the pool has.
LEMMA ClearKeeps ==
  ASSUME PoolInv, Clear
  PROVE  PoolInv' /\ inUse' = {} /\ live' = {}
<1> DEFINE freed == Walk(usablePage, mUsablePagesSize)
                      \cup Walk(unUsablePage, mUnUsablePagesSize)
<1>1. /\ health = "ok" /\ inUse' = inUse \ freed
      /\ freeCells' = [p \in Pages |-> IF p \in freed THEN <<>> ELSE freeCells[p]]
      /\ link' = [next |-> [p \in Pages |-> IF p \in freed THEN NoPage ELSE link.next[p]],
                  prev |-> [p \in Pages |-> IF p \in freed THEN NoPage ELSE link.prev[p]]]
      /\ mUsablePagesSize' = 0 /\ mUnUsablePagesSize' = 0 /\ live' = {}
      /\ UNCHANGED <<usablePage, unUsablePage, health>>
  BY DEF Clear
<1>2. PoolTypes /\ ListsOK /\ CellsOK /\ EmptyOK
  BY <1>1, PoolInvNow
<1>3. freed = inUse
  <2>1. freed = UsablePages \cup FullPages
    BY <1>2, WalksMeetAll
  <2> QED BY <2>1 DEF UsablePages, FullPages
<1> HIDE DEF freed
<1>4. inUse' = {}
  BY <1>1, <1>3
<1>5. /\ freeCells' \in [Pages -> Seq(CellNumbers)]
      /\ \A p \in Pages : freeCells'[p] = <<>>
  <2>1. \A p \in Pages : freeCells'[p] = IF p \in freed THEN <<>> ELSE freeCells[p]
    BY <1>1
  <2>2. \A p \in Pages : freeCells'[p] = <<>>
    BY <1>2, <1>3, <2>1 DEF CellsOK
  <2>3. freeCells' = [p \in Pages |-> <<>>]
    BY <1>1, <2>2
  <2> QED BY <2>2, <2>3
<1>6. link' \in Links
  BY <1>1, <1>2 DEF PoolTypes, Links
<1>7. PoolTypes'
  BY <1>1, <1>2, <1>4, <1>5, <1>6 DEF PoolTypes
<1>8. UsablePages' = {} /\ FullPages' = {} /\ EmptyPages' = {}
  BY <1>4 DEF UsablePages, FullPages, EmptyPages
<1>9. ListsOK'
  BY <1>1, <1>8, EmptyRing DEF ListsOK
<1>10. CellsOK'
  BY <1>1, <1>4, <1>5 DEF CellsOK
<1>11. EmptyOK'
  BY <1>8, FS_EmptySet, PoolAssumption DEF EmptyOK
<1> QED BY <1>1, <1>4, <1>7, <1>9, <1>10, <1>11, PoolInvNext

-----------------------------------------------------------------------------
(* The theorems.                                                           *)

\* A pool that was never used is in order.
LEMMA InitPoolInv == Init => PoolInv
<1> SUFFICES ASSUME Init PROVE PoolInv
  OBVIOUS
<1>1. /\ usablePage = NoPage /\ unUsablePage = NoPage
      /\ mUsablePagesSize = 0 /\ mUnUsablePagesSize = 0
      /\ link = [next |-> [p \in Pages |-> NoPage], prev |-> [p \in Pages |-> NoPage]]
      /\ freeCells = [p \in Pages |-> <<>>]
      /\ inUse = {} /\ live = {} /\ health = "ok"
  BY DEF Init
<1>2. PoolTypes
  BY <1>1 DEF PoolTypes, Links, Cells
<1>3. UsablePages = {} /\ FullPages = {} /\ EmptyPages = {}
  BY <1>1 DEF UsablePages, FullPages, EmptyPages
<1>4. ListsOK
  BY <1>1, <1>3, EmptyRing DEF ListsOK
<1>5. CellsOK
  BY <1>1 DEF CellsOK
<1>6. EmptyOK
  <2>1. Cardinality(EmptyPages) = 0
    BY <1>3, FS_EmptySet
  <2> QED BY <2>1, PoolAssumption DEF EmptyOK
<1> QED BY <1>2, <1>4, <1>5, <1>6, TypeFromLists DEF PoolInv

\* No operation, and nothing at all, breaks the invariant.
LEMMA NextPoolInv == PoolInv /\ [Next]_vars => PoolInv'
<1> SUFFICES ASSUME PoolInv, [Next]_vars PROVE PoolInv'
  OBVIOUS
<1>1. CASE Allocate
  BY <1>1, AllocateFromPageKeeps, AllocateLastOfPageKeeps, AllocateNewPageKeeps,
     AllocateFailsKeeps DEF Allocate
<1>2. CASE Reclaim
  <2>1. PICK p \in Pages, c \in CellNumbers :
          ReclaimToFullPage(p, c) \/ ReclaimToPage(p, c) \/ ReclaimAndFreePage(p, c)
    BY <1>2 DEF Reclaim
  <2> QED BY <2>1, ReclaimToFullPageKeeps, ReclaimToPageKeeps, ReclaimAndFreePageKeeps
<1>3. CASE Clear
  BY <1>3, ClearKeeps
<1>4. CASE UNCHANGED vars
  BY <1>4 DEF vars, PoolInv, PoolTypes, TypeOK, ListsOK, CellsOK, EmptyOK, UsablePages,
              FullPages, EmptyPages, IsEmpty
<1> QED BY <1>1, <1>2, <1>3, <1>4 DEF Next

\* The invariant: both lists are rings of the pages that belong on them, every
\* cell is free or out, and few pages are empty, after any sequence of Allocate,
\* Reclaim and Clear.
THEOREM PoolCorrect == Spec => []PoolInv
BY InitPoolInv, NextPoolInv, PTL DEF Spec

\* A cell is once among the free ones of its page, or not at all.
LEMMA TimesFree ==
  ASSUME NEW s, NEW L \in SUBSET CellNumbers, PageCells(s, L), NEW c \in CellNumbers
  PROVE  Cardinality({i \in 1 .. Len(s) : s[i] = c}) = IF c \in L THEN 0 ELSE 1
<1> DEFINE T == {i \in 1 .. Len(s) : s[i] = c}
<1>1. CASE c \in L
  <2>1. T = {}
    BY <1>1 DEF PageCells
  <2>2. Cardinality(T) = 0
    BY <2>1, FS_EmptySet
  <2> QED BY <1>1, <2>2
<1>2. CASE c \notin L
  <2>1. PICK k \in 1 .. Len(s) : s[k] = c
    BY <1>2 DEF PageCells
  <2>2. T = {k}
    BY <2>1 DEF PageCells
  <2>3. Cardinality(T) = 1
    BY <2>2, FS_Singleton
  <2> QED BY <1>2, <2>3
<1> QED BY <1>1, <1>2

\* What the order of a ring says in the words of the property.
LEMMA RingsAreRings ==
  ASSUME PoolTypes, ListsOK
  PROVE  /\ IsRing(usablePage, mUsablePagesSize, UsablePages)
         /\ IsRing(unUsablePage, mUnUsablePagesSize, FullPages)
<1>1. \A h, n, S : Ring(link, h, n, S) =>
        /\ n = Cardinality(S)
        /\ \A p \in S : link.next[p] \in S /\ link.prev[link.next[p]] = p
  BY RingSize, RingMembers, RingClosed
<1>2. /\ Walk(usablePage, mUsablePagesSize) = UsablePages
      /\ Walk(unUsablePage, mUnUsablePagesSize) = FullPages
  BY WalksMeetAll
<1> QED BY <1>1, <1>2 DEF IsRing, ListsOK

\* The invariant says what the run checks.
LEMMA PoolInvExact == PoolInv => PoolExact
<1> SUFFICES ASSUME PoolInv PROVE PoolExact
  OBVIOUS
<1>1. ListsExact
  <2> SUFFICES ASSUME health = "ok"
               PROVE  /\ IsRing(usablePage, mUsablePagesSize, UsablePages)
                      /\ IsRing(unUsablePage, mUnUsablePagesSize, FullPages)
    BY DEF ListsExact, UsablePages, FullPages
  <2>1. PoolTypes /\ ListsOK
    BY PoolInvNow
  <2> QED BY <2>1, RingsAreRings
<1>2. CellsAccounted
  <2> SUFFICES ASSUME health = "ok", NEW p \in inUse, NEW c \in CellNumbers
               PROVE  Cardinality({i \in 1 .. Len(freeCells[p]) : freeCells[p][i] = c})
                        = IF <<p, c>> \in live THEN 0 ELSE 1
    BY DEF CellsAccounted
  <2>1. PageCells(freeCells[p], LiveIn(live, p))
    BY PoolInvNow DEF CellsOK
  <2>2. LiveIn(live, p) \subseteq CellNumbers /\ (c \in LiveIn(live, p) <=> <<p, c>> \in live)
    BY DEF LiveIn
  <2>3. Cardinality({i \in 1 .. Len(freeCells[p]) : freeCells[p][i] = c})
          = IF c \in LiveIn(live, p) THEN 0 ELSE 1
    BY <2>1, <2>2, TimesFree
  <2> QED BY <2>2, <2>3
<1> QED BY <1>1, <1>2 DEF PoolInv, PoolExact

\* Whatever order pages move, are freed and are cleared in, the two lists are
\* closed rings of the right pages with the right sizes, and no cell is lost or
\* both free and handed out (Allocate, Reclaim and Clear of JackieMemoryPool).
THEOREM PoolListsAndCellsExact == Spec => []PoolExact
BY PoolCorrect, PoolInvExact, PTL

\* Never more than MAX_FREE_PAGES pages without a cell out are kept, although
\* Reclaim looks at one page only.
THEOREM PoolKeepsFewEmptyPages == Spec => []EmptyPagesBounded
<1>1. PoolInv => EmptyPagesBounded
  BY DEF PoolInv, EmptyOK, EmptyPages, EmptyPagesBounded
<1> QED BY <1>1, PoolCorrect, PTL

-----------------------------------------------------------------------------
(* The pool implements the allocator.                                      *)

Backed == Initialised \X CellNumbers

\* In a pool that is in order, the memory of every page in use backs its cells.
LEMMA BackedByPages ==
  ASSUME PoolInv, health = "ok"
  PROVE  Initialised = inUse /\ live \subseteq Backed /\ Backed \subseteq Cells
BY PoolInvNow DEF Initialised, Backed, CellsOK, PoolTypes, Cells

\* The same of the next state.
LEMMA BackedByPagesNext ==
  (PoolInv /\ health = "ok" =>
     Initialised = inUse /\ live \subseteq Backed /\ Backed \subseteq Cells)'
BY BackedByPages, PTL

\* A cell nobody had goes out, in memory that is there or is got for it.
LEMMA PopAllocates ==
  ASSUME PoolInv, PoolInv', health = "ok", health' = "ok", inUse \subseteq inUse',
         NEW p \in inUse', NEW c \in CellNumbers, <<p, c>> \notin live,
         live' = live \cup {<<p, c>>}
  PROVE  Allocator!Next
<1>1. /\ Initialised = inUse /\ Initialised' = inUse'
      /\ Backed \subseteq Cells /\ Backed' \subseteq Cells
  BY BackedByPages, BackedByPagesNext
<1>2. Backed \subseteq Backed' /\ <<p, c>> \in Backed'
  BY <1>1 DEF Backed
<1>3. <<p, c>> \in Cells \ live
  BY <1>1, <1>2
<1>4. Allocator!Allocate
  BY <1>1, <1>2, <1>3 DEF Allocator!Allocate, Backed
<1> QED BY <1>4 DEF Allocator!Next

\* A cell comes back, and what is freed holds no other one.
LEMMA PushReclaims ==
  ASSUME PoolInv, PoolInv', health = "ok", health' = "ok", inUse' \subseteq inUse,
         NEW p, NEW c, <<p, c>> \in live, live' = live \ {<<p, c>>}
  PROVE  Allocator!Next
<1>1. Initialised = inUse /\ Initialised' = inUse' /\ live' \subseteq Backed'
  BY BackedByPages, BackedByPagesNext
<1>2. Backed' \subseteq Backed
  BY <1>1 DEF Backed
<1>3. Allocator!Reclaim
  BY <1>1, <1>2 DEF Allocator!Reclaim, Backed
<1> QED BY <1>3 DEF Allocator!Next

\* A failed allocation gives nothing and takes nothing: the raw page backs no cell.
LEMMA FailuresStutter ==
  ASSUME PoolInv, NoMemoryForPage \/ InitPageFails
  PROVE  UNCHANGED Allocator!vars
<1>1. live' = live
  BY DEF NoMemoryForPage, InitPageFails
<1>2. Initialised' = Initialised
  <2>1. CASE NoMemoryForPage
    BY <2>1 DEF NoMemoryForPage, Initialised
  <2>2. CASE InitPageFails
    <3>1. PICK p \in Pages \ inUse : usablePage' = p /\ inUse' = inUse \cup {p}
      BY <2>2 DEF InitPageFails
    <3>2. health = "ok" /\ health' = "raw"
      BY <2>2 DEF InitPageFails
    <3>3. Initialised' = (inUse \cup {p}) \ {p}
      BY <3>1, <3>2 DEF Initialised
    <3>4. Initialised = inUse
      BY <3>2 DEF Initialised
    <3> QED BY <3>1, <3>3, <3>4
  <2> QED BY <2>1, <2>2
<1> QED BY <1>1, <1>2 DEF Allocator!vars

\* Every step of the pool is a step of the allocator, or none, unless it reads
\* the page whose InitPage failed.
LEMMA PoolStepAllocates ==
  PoolInv /\ PoolInv' /\ [Next]_vars =>
    [health' # "undefined" => Allocator!Next]_(Allocator!vars)
<1> SUFFICES ASSUME PoolInv, PoolInv', [Next]_vars
             PROVE  Allocator!Next \/ UNCHANGED Allocator!vars \/ health' = "undefined"
  OBVIOUS
<1>1. CASE AllocateFromPage \/ AllocateLastOfPage
  <2>1. /\ health = "ok" /\ health' = health /\ mUsablePagesSize > 0 /\ inUse' = inUse
        /\ Pop(usablePage)
    BY <1>1 DEF AllocateFromPage, AllocateLastOfPage
  <2>2. PoolTypes /\ ListsOK /\ CellsOK
    BY <2>1, PoolInvNow
  <2>3. usablePage \in UsablePages
    BY <2>1, <2>2, HeadUsable
  <2>4. PICK c \in CellNumbers :
          <<usablePage, c>> \notin live /\ live' = live \cup {<<usablePage, c>>}
    BY <2>1, <2>2, <2>3, PopKeepsCells
  <2>5. usablePage \in inUse'
    BY <2>1, <2>3 DEF UsablePages
  <2> QED BY <2>1, <2>4, <2>5, PopAllocates
<1>2. CASE AllocateNewPage
  <2>1. PICK p \in Pages \ inUse :
          inUse' = inUse \cup {p} /\ live' = live \cup {<<p, CELLS_SIZE_PER_PAGE>>}
    BY <1>2 DEF AllocateNewPage
  <2>2. health = "ok" /\ health' = "ok"
    BY <1>2 DEF AllocateNewPage
  <2>3. <<p, CELLS_SIZE_PER_PAGE>> \notin live
    BY <2>1, <2>2, PoolInvNow DEF CellsOK
  <2>4. CELLS_SIZE_PER_PAGE \in CellNumbers
    BY NewCells
  <2> QED BY <2>1, <2>2, <2>3, <2>4, PopAllocates
<1>3. CASE NoMemoryForPage \/ InitPageFails
  BY <1>3, FailuresStutter
<1>7. CASE AllocateFromRawPage
  BY <1>7 DEF AllocateFromRawPage
<1>4. CASE Reclaim
  <2>1. PICK p \in Pages, c \in CellNumbers :
          ReclaimToFullPage(p, c) \/ ReclaimToPage(p, c) \/ ReclaimAndFreePage(p, c)
    BY <1>4 DEF Reclaim
  <2>2. /\ health = "ok" /\ health' = "ok" /\ inUse' \subseteq inUse
        /\ <<p, c>> \in live /\ live' = live \ {<<p, c>>}
    BY <2>1 DEF ReclaimToFullPage, ReclaimToPage, ReclaimAndFreePage, Push
  <2> QED BY <2>2, PushReclaims
<1>5. CASE Clear
  <2>1. inUse' = {} /\ live' = {} /\ health' = "ok"
    BY <1>5, ClearKeeps DEF Clear
  <2>2. Initialised' = {}
    BY <2>1 DEF Initialised
  <2>3. Allocator!Clear
    BY <2>1, <2>2 DEF Allocator!Clear
  <2> QED BY <2>3 DEF Allocator!Next
<1>6. CASE UNCHANGED vars
  BY <1>6 DEF vars, Initialised, Allocator!vars
<1> QED BY <1>1, <1>2, <1>3, <1>4, <1>5, <1>6, <1>7 DEF Next, Allocate

\* The pool is an allocator: Allocate hands out a cell nobody has in memory the
\* pool has, and Reclaim frees no page in which somebody still has a cell.  The
\* retry after a failed InitPage is the exception: it returns what it finds.
THEOREM PoolImplementsAllocator == Spec => ImplementsAllocator
<1>1. Init => Allocator!Init
  <2>1. Init => Initialised = {} /\ live = {}
    BY DEF Init, Initialised
  <2> QED BY <2>1 DEF Allocator!Init
<1> QED BY <1>1, PoolStepAllocates, PoolCorrect, PTL DEF Spec, ImplementsAllocator
=============================================================================
