-------------------------- MODULE Primitives_proofs --------------------------
(***************************************************************************)
(* What the threads of the program share: JackieSPSCQueue is a bounded     *)
(* FIFO for every ring size and every width of its wrapping indices, and   *)
(* JackieSimpleMutex excludes, for any number of threads and any depth of  *)
(* nesting that m_count can hold.                                          *)
(***************************************************************************)
EXTENDS SPSCQueue, SimpleMutex, TLAPS

-----------------------------------------------------------------------------
(* Modular arithmetic.                                                     *)

\* Quotient and remainder of an integer by a positive number.
LEMMA DivMod ==
  ASSUME NEW a \in Int, NEW n \in Nat \ {0}
  PROVE  /\ a \div n \in Int
         /\ a % n \in 0 .. n - 1
         /\ a = n * (a \div n) + (a % n)
  OBVIOUS

\* The remainder is the only number below n that differs from a by a
\* multiple of n.
LEMMA ModUnique ==
  ASSUME NEW n \in Nat \ {0}, NEW q \in Int, NEW r \in 0 .. n - 1
  PROVE  (n * q + r) % n = r
<1> DEFINE a == n * q + r
           p == a \div n
           s == a % n
<1>1. a \in Int
  OBVIOUS
<1>2. p \in Int /\ s \in 0 .. n - 1 /\ a = n * p + s
  BY <1>1, DivMod
<1>3. n * (q - p) = s - r
  BY <1>2
<1>4. CASE q - p >= 1
  <2>1. n * (q - p) >= n
    BY <1>4, <1>2
  <2> QED BY <2>1, <1>3, <1>2
<1>5. CASE q - p <= -1
  <2>1. n * (q - p) <= -n
    BY <1>5, <1>2
  <2> QED BY <2>1, <1>3, <1>2
<1>6. CASE q = p
  BY <1>6, <1>2
<1> QED BY <1>2, <1>4, <1>5, <1>6

\* Adding a multiple of n does not change the remainder.
LEMMA ModPeriod ==
  ASSUME NEW n \in Nat \ {0}, NEW x \in Int, NEW k \in Int
  PROVE  (x + n * k) % n = x % n
<1> DEFINE p == x \div n
           r == x % n
<1>1. p \in Int /\ r \in 0 .. n - 1 /\ x = n * p + r
  BY DivMod
<1> HIDE DEF p, r
<1>2. p + k \in Int /\ x + n * k = n * (p + k) + r
  BY <1>1
<1>3. (n * (p + k) + r) % n = r
  BY <1>1, ModUnique
<1> QED BY <1>2, <1>3 DEF r

\* Two numbers less than n apart have different remainders.
LEMMA ModDistinct ==
  ASSUME NEW n \in Nat \ {0}, NEW x \in Int, NEW d \in 1 .. n - 1
  PROVE  x % n # (x + d) % n
<1> DEFINE p == x \div n
           r == x % n
<1>1. p \in Int /\ r \in 0 .. n - 1 /\ x = n * p + r
  BY DivMod
<1> HIDE DEF p, r
<1>2. CASE r + d < n
  <2>1. x + d = n * p + (r + d) /\ r + d \in 0 .. n - 1
    BY <1>1, <1>2
  <2>2. (x + d) % n = r + d
    BY <2>1, <1>1, ModUnique
  <2> QED BY <2>2, <1>1 DEF r
<1>3. CASE r + d >= n
  <2>1. /\ p + 1 \in Int /\ r + d - n \in 0 .. n - 1
        /\ x + d = n * (p + 1) + (r + d - n)
    BY <1>1, <1>3
  <2>2. (n * (p + 1) + (r + d - n)) % n = r + d - n
    BY <2>1, ModUnique
  <2> QED BY <2>1, <2>2, <1>1 DEF r
<1> QED BY <1>1, <1>2, <1>3

-----------------------------------------------------------------------------
(* What the index arithmetic of the ring computes.                         *)

\* An index is advanced by one and wraps at Wrap.
LEMMA IncIs ==
  ASSUME NEW a \in 0 .. Wrap - 1
  PROVE  Inc(a) = IF a = Wrap - 1 THEN 0 ELSE a + 1
<1>1. Wrap \in Nat \ {0}
  BY SizesAssumption
<1>2. CASE a = Wrap - 1
  <2>1. a + 1 = Wrap * 1 + 0 /\ 0 \in 0 .. Wrap - 1
    BY <1>1, <1>2
  <2> QED BY <2>1, <1>1, <1>2, ModUnique DEF Inc
<1>3. CASE a # Wrap - 1
  <2>1. a + 1 = Wrap * 0 + (a + 1) /\ a + 1 \in 0 .. Wrap - 1
    BY <1>1, <1>3
  <2>2. (Wrap * 0 + (a + 1)) % Wrap = a + 1
    BY <2>1, <1>1, ModUnique
  <2> QED BY <2>1, <2>2, <1>1, <1>3 DEF Inc
<1> QED BY <1>2, <1>3

\* The unsigned difference of two indices.
LEMMA MinusIs ==
  ASSUME NEW a \in 0 .. Wrap - 1, NEW b \in 0 .. Wrap - 1
  PROVE  Minus(a, b) = IF a >= b THEN a - b ELSE a - b + Wrap
<1>1. Wrap \in Nat \ {0}
  BY SizesAssumption
<1>2. CASE a >= b
  <2>1. a - b = Wrap * 0 + (a - b) /\ a - b \in 0 .. Wrap - 1
    BY <1>1, <1>2
  <2>2. (Wrap * 0 + (a - b)) % Wrap = a - b
    BY <2>1, <1>1, ModUnique
  <2> QED BY <2>1, <2>2, <1>2 DEF Minus
<1>3. CASE ~(a >= b)
  <2>1. a - b = Wrap * (-1) + (a - b + Wrap) /\ a - b + Wrap \in 0 .. Wrap - 1
    BY <1>1, <1>3
  <2>2. (Wrap * (-1) + (a - b + Wrap)) % Wrap = a - b + Wrap
    BY <2>1, <1>1, ModUnique
  <2> QED BY <2>1, <2>2, <1>3 DEF Minus
<1> QED BY <1>2, <1>3

\* A cell index is an index of the ring.
LEMMA CellType ==
  ASSUME NEW a \in Int
  PROVE  Cell(a) \in 0 .. Cap - 1
BY SizesAssumption, DivMod DEF Cell

\* Wrapping an index does not move it to another cell.
LEMMA CellWrap ==
  ASSUME NEW a \in Int
  PROVE  Cell(a + Wrap) = Cell(a)
<1> DEFINE k == Wrap \div Cap
<1>1. k \in Int /\ Wrap = Cap * k + (Wrap % Cap)
  BY SizesAssumption, DivMod
<1> HIDE DEF k
<1>2. Wrap = Cap * k
  BY <1>1, SizesAssumption
<1>3. (a + Cap * k) % Cap = a % Cap
  BY <1>1, SizesAssumption, ModPeriod
<1> QED BY <1>2, <1>3 DEF Cell

\* The cell after a position is the same whether the index wraps or not.
LEMMA CellInc ==
  ASSUME NEW a \in 0 .. Wrap - 1, NEW j \in Int
  PROVE  Cell(Inc(a) + j) = Cell(a + 1 + j)
<1>1. Wrap \in Nat /\ a \in Int
  BY SizesAssumption
<1>2. CASE a = Wrap - 1
  <2>1. Inc(a) + j = j /\ a + 1 + j = j + Wrap
    BY <1>1, <1>2, IncIs
  <2> QED BY <2>1, CellWrap
<1>3. CASE a # Wrap - 1
  BY <1>1, <1>3, IncIs
<1> QED BY <1>2, <1>3

\* The producer's cell is the one after the last full cell.
LEMMA CellIn ==
  ASSUME TypeOK
  PROVE  Cell(m_nIn) = Cell(m_nOut + Size)
<1>1. Wrap \in Nat /\ m_nIn \in 0 .. Wrap - 1 /\ m_nOut \in 0 .. Wrap - 1
  BY SizesAssumption DEF TypeOK
<1>2. CASE m_nIn >= m_nOut
  BY <1>1, <1>2, MinusIs DEF Size
<1>3. CASE ~(m_nIn >= m_nOut)
  <2>1. m_nOut + Size = m_nIn + Wrap
    BY <1>1, <1>3, MinusIs DEF Size
  <2> QED BY <2>1, <1>1, CellWrap
<1> QED BY <1>2, <1>3

\* Size() is the number of full cells, and the free ones are the others.
LEMMA SizeType ==
  ASSUME TypeOK
  PROVE  /\ Size \in 0 .. Wrap - 1
         /\ Size <= Cap => Free = Cap - Size
<1>1. /\ Wrap \in Nat \ {0} /\ Cap \in Nat \ {0} /\ Wrap > Cap
      /\ m_nIn \in 0 .. Wrap - 1 /\ m_nOut \in 0 .. Wrap - 1
  BY SizesAssumption DEF TypeOK
<1>2. Size = IF m_nIn >= m_nOut THEN m_nIn - m_nOut ELSE m_nIn - m_nOut + Wrap
  BY <1>1, MinusIs DEF Size
<1>3. ASSUME Size <= Cap PROVE Free = Cap - Size
  <2> DEFINE q == IF m_nIn >= m_nOut THEN 0 ELSE 1
  <2>1. /\ q \in Int /\ Cap - Size \in 0 .. Wrap - 1
        /\ Cap - m_nIn + m_nOut = Wrap * q + (Cap - Size)
    BY <1>1, <1>2, <1>3
  <2> HIDE DEF q
  <2>2. (Wrap * q + (Cap - Size)) % Wrap = Cap - Size
    BY <1>1, <2>1, ModUnique
  <2> QED BY <2>1, <2>2 DEF Free
<1> QED BY <1>1, <1>2, <1>3

\* While there is room, no full cell is the producer's cell.
LEMMA CellFree ==
  ASSUME TypeOK, Size < Cap, NEW i \in 0 .. Size - 1
  PROVE  Cell(m_nOut + i) # Cell(m_nIn)
<1>1. /\ Cap \in Nat \ {0} /\ m_nOut \in Int /\ Size \in Nat
  BY SizesAssumption, SizeType DEF TypeOK
<1>2. /\ m_nOut + i \in Int /\ Size - i \in 1 .. Cap - 1
      /\ (m_nOut + i) + (Size - i) = m_nOut + Size
  BY <1>1
<1>3. (m_nOut + i) % Cap # ((m_nOut + i) + (Size - i)) % Cap
  BY <1>1, <1>2, ModDistinct
<1> QED BY <1>2, <1>3, CellIn DEF Cell

-----------------------------------------------------------------------------
(* The inductive invariant.                                                *)

\* Publishing m_nIn adds one element; publishing m_nOut removes one.
LEMMA SizeSteps ==
  ASSUME TypeOK, Size <= Cap
  PROVE  /\ Size < Cap => Minus(Inc(m_nIn), m_nOut) = Size + 1
         /\ Size > 0 => Minus(m_nIn, Inc(m_nOut)) = Size - 1
         /\ Inc(m_nIn) \in 0 .. Wrap - 1 /\ Inc(m_nOut) \in 0 .. Wrap - 1
<1>1. /\ Wrap \in Nat /\ Cap \in Nat \ {0} /\ Wrap > Cap
      /\ m_nIn \in 0 .. Wrap - 1 /\ m_nOut \in 0 .. Wrap - 1
  BY SizesAssumption DEF TypeOK
<1>2. /\ Inc(m_nIn) = IF m_nIn = Wrap - 1 THEN 0 ELSE m_nIn + 1
      /\ Inc(m_nOut) = IF m_nOut = Wrap - 1 THEN 0 ELSE m_nOut + 1
  BY <1>1, IncIs
<1>3. Inc(m_nIn) \in 0 .. Wrap - 1 /\ Inc(m_nOut) \in 0 .. Wrap - 1
  BY <1>1, <1>2
<1>4. Size = IF m_nIn >= m_nOut THEN m_nIn - m_nOut ELSE m_nIn - m_nOut + Wrap
  BY <1>1, MinusIs DEF Size
<1>5. ASSUME Size < Cap PROVE Minus(Inc(m_nIn), m_nOut) = Size + 1
  <2>1. Minus(Inc(m_nIn), m_nOut)
          = IF Inc(m_nIn) >= m_nOut THEN Inc(m_nIn) - m_nOut
                                    ELSE Inc(m_nIn) - m_nOut + Wrap
    BY <1>1, <1>3, MinusIs
  <2> QED BY <2>1, <1>1, <1>2, <1>4, <1>5
<1>6. ASSUME Size > 0 PROVE Minus(m_nIn, Inc(m_nOut)) = Size - 1
  <2>1. Minus(m_nIn, Inc(m_nOut))
          = IF m_nIn >= Inc(m_nOut) THEN m_nIn - Inc(m_nOut)
                                    ELSE m_nIn - Inc(m_nOut) + Wrap
    BY <1>1, <1>3, MinusIs
  <2> QED BY <2>1, <1>1, <1>2, <1>4, <1>6
<1> QED BY <1>3, <1>5, <1>6

\* Every step of either thread preserves the ring invariant.
LEMMA RingInvStep == RingInv /\ [Next]_vars => RingInv'
<1> SUFFICES ASSUME RingInv, [Next]_vars PROVE RingInv'
  OBVIOUS
<1>0. TypeOK /\ Size \in 0 .. Wrap - 1 /\ Size <= Cap /\ Wrap \in Nat /\ Cap \in Nat \ {0}
  BY SizeType, SizesAssumption DEF RingInv
<1>1. ASSUME NEW e \in Elem, PushTail(e) PROVE RingInv'
  BY <1>1 DEF PushTail, RingInv, TypeOK, Steps, Size, Minus
<1>2. CASE PushSample
  <2>1. Size < Cap
    BY <1>0, <1>2, SizeType DEF PushSample
  <2> QED BY <2>1, <1>2 DEF PushSample, RingInv, TypeOK, Steps, Size, Minus
<1>3. CASE PushCopy
  <2>1. Cell(m_nIn) \in 0 .. Cap - 1 /\ Size < Cap
    BY <1>3, CellType DEF PushCopy, RingInv, TypeOK
  <2>2. m_pBuffer'[Cell(m_nIn)] = pushing
    BY <2>1, <1>0, <1>3 DEF PushCopy, TypeOK
  <2>3. cpc = "publish" => m_pBuffer'[Cell(m_nOut)] = m_pBuffer[Cell(m_nOut)]
    <3> SUFFICES ASSUME cpc = "publish"
                 PROVE  m_pBuffer'[Cell(m_nOut)] = m_pBuffer[Cell(m_nOut)]
      OBVIOUS
    <3>1. 0 \in 0 .. Size - 1 /\ m_nOut + 0 = m_nOut
      BY <1>0 DEF RingInv, TypeOK
    <3>2. Cell(m_nOut) # Cell(m_nIn)
      BY <1>0, <2>1, <3>1, CellFree
    <3>3. Cell(m_nOut) \in 0 .. Cap - 1
      BY <1>0, CellType DEF TypeOK
    <3> QED BY <3>2, <3>3, <1>0, <1>3 DEF PushCopy, TypeOK
  <2> QED BY <2>1, <2>2, <2>3, <1>3 DEF PushCopy, RingInv, TypeOK, Steps, Size, Minus, Cell
<1>4. CASE PushPublish
  <2>1. Size' = Size + 1 /\ Size < Cap /\ m_nIn' \in 0 .. Wrap - 1
    BY <1>0, <1>4, SizeSteps DEF PushPublish, RingInv, Size, Minus
  <2> QED BY <2>1, <1>0, <1>4 DEF PushPublish, RingInv, TypeOK, Steps, Cell
<1>5. CASE PopHead
  BY <1>5 DEF PopHead, RingInv, TypeOK, Steps, Size, Minus
<1>6. CASE PopSample
  BY <1>6 DEF PopSample, RingInv, TypeOK, Steps, Size, Minus
<1>7. CASE PopCopy
  <2>1. Cell(m_nOut) \in 0 .. Cap - 1
    BY <1>0, CellType DEF TypeOK
  <2> QED BY <2>1, <1>7 DEF PopCopy, RingInv, TypeOK, Steps, Size, Minus, Cell
<1>8. CASE PopPublish
  <2>1. Size' = Size - 1 /\ m_nOut' \in 0 .. Wrap - 1
    BY <1>0, <1>8, SizeSteps DEF PopPublish, RingInv, Size, Minus
  <2> QED BY <2>1, <1>0, <1>8 DEF PopPublish, RingInv, TypeOK, Steps, Cell
<1>9. CASE UNCHANGED vars
  BY <1>9 DEF vars, RingInv, TypeOK, Steps, Size, Minus, Cell
<1> QED
  BY <1>1, <1>2, <1>3, <1>4, <1>5, <1>6, <1>7, <1>8, <1>9
  DEF Next, Producer, Consumer

\* The initial ring is empty and both threads are outside PushTail and PopHead.
LEMMA RingInvInit == Init => RingInv
<1> SUFFICES ASSUME Init PROVE RingInv
  OBVIOUS
<1>1. TypeOK
  BY SizesAssumption DEF Init, TypeOK, Steps
<1>2. Size = 0
  BY <1>1, MinusIs DEF Init, Size, TypeOK
<1> QED BY <1>1, <1>2, SizesAssumption DEF Init, RingInv

\* The ring invariant holds in every reachable state, for every capacity.
THEOREM RingCorrect == Spec => []RingInv
BY RingInvInit, RingInvStep, PTL DEF Spec

\* The lock-free ring keeps its shape and never grows past its buffer.
THEOREM RingTypeOK == Spec => []TypeOK
<1>1. RingInv => TypeOK
  BY DEF RingInv
<1> QED BY <1>1, RingCorrect, PTL

\* PushTail's memcpy and PopHead's memcpy never meet in one cell.
THEOREM RingNoCopyRace == Spec => []NoCopyRace
<1>1. RingInv => NoCopyRace
  <2> SUFFICES ASSUME RingInv, ppc = "copy", cpc = "copy"
               PROVE  Cell(m_nIn) # Cell(m_nOut)
    BY DEF NoCopyRace
  <2>1. TypeOK /\ Size < Cap /\ Size \in Int /\ Size > 0 /\ m_nOut \in Int
    BY SizeType, SizesAssumption DEF RingInv, TypeOK
  <2>2. 0 \in 0 .. Size - 1 /\ m_nOut + 0 = m_nOut
    BY <2>1
  <2> QED BY <2>1, <2>2, CellFree
<1> QED BY <1>1, RingCorrect, PTL

\* A consumer that saw Size() > 0 never waits inside PopHead.
THEOREM RingPopNeverSpins == Spec => []PopNeverSpins
<1>1. RingInv => PopNeverSpins
  BY DEF RingInv, PopNeverSpins
<1> QED BY <1>1, RingCorrect, PTL

-----------------------------------------------------------------------------
(* Refinement of the bounded FIFO.                                         *)

\* The n cells from position out on, as a sequence.
LEMMA WindowSeq ==
  ASSUME NEW buf \in [0 .. Cap - 1 -> Elem], NEW out \in Int, NEW n \in Nat
  PROVE  /\ Window(buf, out, n) \in Seq(Elem)
         /\ Len(Window(buf, out, n)) = n
         /\ \A i \in 1 .. n : Window(buf, out, n)[i] = buf[Cell(out + i - 1)]
<1>1. \A i \in 1 .. n : buf[Cell(out + i - 1)] \in Elem
  BY CellType
<1>2. Window(buf, out, n) \in [1 .. n -> Elem]
  BY <1>1 DEF Window
<1>3. Window(buf, out, n) \in Seq(Elem) /\ Len(Window(buf, out, n)) = n
  BY <1>2
<1>4. \A i \in 1 .. n : Window(buf, out, n)[i] = buf[Cell(out + i - 1)]
  BY DEF Window
<1> QED BY <1>3, <1>4

\* Two sequences of the same length with the same elements are equal.
LEMMA SeqEqual ==
  ASSUME NEW s \in Seq(Elem), NEW t \in Seq(Elem), Len(s) = Len(t),
         \A i \in 1 .. Len(s) : s[i] = t[i]
  PROVE  s = t
OBVIOUS

\* Publishing m_nIn appends the pushed element to the contents.
LEMMA ContentsPush ==
  ASSUME RingInv, RingInv', PushPublish
  PROVE  Contents' = Append(Contents, pushing)
<1>0. /\ Size \in Nat /\ m_nOut \in Int /\ m_pBuffer \in [0 .. Cap - 1 -> Elem]
      /\ Size' \in Nat
  BY SizeType, SizeSteps, SizesAssumption
  DEF PushPublish, RingInv, TypeOK, Size, Minus
<1>1. /\ Contents \in Seq(Elem) /\ Len(Contents) = Size
      /\ \A i \in 1 .. Size : Contents[i] = m_pBuffer[Cell(m_nOut + i - 1)]
  BY <1>0, WindowSeq DEF Contents
<1>2. /\ Contents' \in Seq(Elem) /\ Len(Contents') = Size'
      /\ \A i \in 1 .. Size' : Contents'[i] = m_pBuffer[Cell(m_nOut + i - 1)]
  <2>1. Contents' = Window(m_pBuffer, m_nOut, Size')
    BY DEF PushPublish, Contents, Window, Cell
  <2> QED BY <1>0, <2>1, WindowSeq
<1>3. /\ Size' = Size + 1 /\ Size \in Nat /\ pushing \in Elem /\ m_nOut \in Int
      /\ m_pBuffer[Cell(m_nIn)] = pushing
  BY SizeSteps, SizeType, SizesAssumption
  DEF PushPublish, RingInv, TypeOK, Size, Minus
<1>4. m_pBuffer[Cell(m_nOut + Size)] = pushing
  BY <1>3, CellIn DEF RingInv
<1> DEFINE a == Append(Contents, pushing)
<1>5. a \in Seq(Elem) /\ Len(a) = Size + 1
  BY <1>1, <1>3
<1>6. ASSUME NEW i \in 1 .. Size + 1 PROVE Contents'[i] = a[i]
  <2>1. CASE i = Size + 1
    <3>1. a[i] = pushing
      BY <1>1, <1>3, <2>1
    <3>2. Contents'[i] = m_pBuffer[Cell(m_nOut + i - 1)] /\ m_nOut + i - 1 = m_nOut + Size
      BY <1>2, <1>3, <2>1
    <3> QED BY <3>1, <3>2, <1>4
  <2>2. CASE i \in 1 .. Size
    <3>1. a[i] = Contents[i] /\ i \in 1 .. Size'
      BY <1>1, <1>3, <2>2
    <3> HIDE DEF a
    <3> QED BY <3>1, <1>1, <1>2, <2>2
  <2>3. i = Size + 1 \/ i \in 1 .. Size
    BY <1>3
  <2> HIDE DEF a
  <2> QED BY <2>1, <2>2, <2>3
<1> HIDE DEF a
<1> QED BY <1>2, <1>3, <1>5, <1>6, SeqEqual DEF a

\* The number of elements is a number, in this state and in the next.
LEMMA SizeNat == TypeOK => Size \in Nat
BY SizeType, SizesAssumption

LEMMA SizeNatNext == (TypeOK => Size \in Nat)'
BY SizeNat, PTL

\* Publishing m_nOut removes the oldest element from the contents.
LEMMA ContentsPop ==
  ASSUME RingInv, RingInv', PopPublish
  PROVE  Contents' = Tail(Contents)
<1>0. /\ Size \in Nat /\ m_nOut \in Int /\ m_pBuffer \in [0 .. Cap - 1 -> Elem]
      /\ Size' \in Nat /\ Inc(m_nOut) \in Int
  <2>1. TypeOK /\ TypeOK' /\ Size <= Cap
    BY DEF RingInv
  <2>2. Size \in Nat /\ Inc(m_nOut) \in Int
    BY <2>1, SizeType, SizeSteps, SizesAssumption
  <2>3. Size' \in Nat
    BY <2>1, SizeNatNext
  <2>4. m_nOut \in Int /\ m_pBuffer \in [0 .. Cap - 1 -> Elem]
    BY <2>1, SizesAssumption DEF TypeOK
  <2> QED BY <2>2, <2>3, <2>4
<1>1. /\ Contents \in Seq(Elem) /\ Len(Contents) = Size
      /\ \A i \in 1 .. Size : Contents[i] = m_pBuffer[Cell(m_nOut + i - 1)]
  BY <1>0, WindowSeq DEF Contents
<1>2. /\ Contents' \in Seq(Elem) /\ Len(Contents') = Size'
      /\ \A i \in 1 .. Size' : Contents'[i] = m_pBuffer[Cell(Inc(m_nOut) + i - 1)]
  <2>1. Contents' = Window(m_pBuffer, Inc(m_nOut), Size')
    BY DEF PopPublish, Contents, Window, Cell
  <2> QED BY <1>0, <2>1, WindowSeq
<1>3. /\ Size' = Size - 1 /\ Size \in Nat /\ Size > 0 /\ m_nOut \in 0 .. Wrap - 1
      /\ Wrap \in Nat /\ Inc(m_nOut) \in Int
  BY SizeSteps, SizeType, SizesAssumption
  DEF PopPublish, RingInv, TypeOK, Size, Minus
<1> DEFINE t == Tail(Contents)
<1>4. /\ t \in Seq(Elem) /\ Len(t) = Size - 1
      /\ \A i \in 1 .. Size - 1 : t[i] = Contents[i + 1]
  BY <1>1, <1>3
<1>5. ASSUME NEW i \in 1 .. Size - 1 PROVE Contents'[i] = t[i]
  <2>1. Contents'[i] = m_pBuffer[Cell(Inc(m_nOut) + (i - 1))]
    <3>1. Inc(m_nOut) + i - 1 = Inc(m_nOut) + (i - 1)
      BY <1>3
    <3> QED BY <1>2, <1>3, <3>1
  <2>2. Cell(Inc(m_nOut) + (i - 1)) = Cell(m_nOut + 1 + (i - 1))
    BY <1>3, CellInc
  <2>3. /\ t[i] = m_pBuffer[Cell(m_nOut + (i + 1) - 1)]
        /\ m_nOut + 1 + (i - 1) = m_nOut + (i + 1) - 1
    BY <1>1, <1>3, <1>4
  <2> QED BY <2>1, <2>2, <2>3
<1> HIDE DEF t
<1> QED BY <1>2, <1>3, <1>4, <1>5, SeqEqual DEF t

\* Steps that leave m_nIn, m_nOut and the full cells alone leave the contents.
LEMMA ContentsSame ==
  ASSUME RingInv, UNCHANGED <<m_nIn, m_nOut>>, UNCHANGED m_pBuffer \/ PushCopy
  PROVE  Contents' = Contents
<1>1. /\ Size' = Size /\ Size \in Nat /\ m_nOut \in Int
      /\ m_pBuffer \in [0 .. Cap - 1 -> Elem]
  BY SizeType, SizesAssumption DEF RingInv, TypeOK, Size, Minus
<1>2. ASSUME NEW i \in 1 .. Size
      PROVE  m_pBuffer'[Cell(m_nOut + i - 1)] = m_pBuffer[Cell(m_nOut + i - 1)]
  <2>1. CASE UNCHANGED m_pBuffer
    BY <2>1
  <2>2. CASE PushCopy
    <3>1. /\ i - 1 \in 0 .. Size - 1 /\ m_nOut + (i - 1) = m_nOut + i - 1
          /\ m_nOut + i - 1 \in Int
      BY <1>1
    <3>2. Cell(m_nOut + i - 1) # Cell(m_nIn)
      BY <2>2, <3>1, CellFree DEF PushCopy, RingInv
    <3>3. Cell(m_nOut + i - 1) \in 0 .. Cap - 1
      BY <3>1, CellType
    <3> QED BY <2>2, <3>2, <3>3, <1>1 DEF PushCopy
  <2> QED BY <2>1, <2>2
<1>3. Contents' = [i \in 1 .. Size |-> m_pBuffer'[Cell(m_nOut + i - 1)]]
  BY <1>1 DEF Contents, Window, Cell
<1> QED BY <1>2, <1>3 DEF Contents, Window

\* JackieSPSCQueue implements the bounded FIFO.
THEOREM RingImplementsFIFO == Spec => ImplementsFIFO
<1>1. Init => FIFO!Init
  <2> SUFFICES ASSUME Init PROVE FIFO!Init
    OBVIOUS
  <2>1. Size = 0
    BY RingInvInit, MinusIs DEF Init, Size, RingInv, TypeOK
  <2>2. Contents = <<>>
    BY <2>1 DEF Contents, Window
  <2> QED BY <2>2 DEF Init, FIFO!Init
<1>2. RingInv /\ RingInv' /\ [Next]_vars => [FIFO!Next]_(FIFO!vars)
  <2> SUFFICES ASSUME RingInv, RingInv', [Next]_vars
               PROVE  [FIFO!Next]_(FIFO!vars)
    OBVIOUS
  <2>0. /\ Contents \in Seq(Elem) /\ Len(Contents) = Size /\ Size \in Nat
        /\ Size <= Cap /\ Cap \in Nat /\ m_nOut \in Int
        /\ \A i \in 1 .. Size : Contents[i] = m_pBuffer[Cell(m_nOut + i - 1)]
    <3>1. /\ Size \in Nat /\ Size <= Cap /\ Cap \in Nat /\ m_nOut \in Int
          /\ m_pBuffer \in [0 .. Cap - 1 -> Elem]
      BY SizeNat, SizesAssumption DEF RingInv, TypeOK
    <3> QED BY <3>1, WindowSeq DEF Contents
  <2>1. ASSUME Contents' = Contents, UNCHANGED popped, cpc # "publish", cpc' # "publish"
        PROVE  UNCHANGED FIFO!vars
    BY <2>1 DEF FIFO!vars
  <2>2. ASSUME Contents' = Contents, UNCHANGED <<popped, cpc>>
        PROVE  UNCHANGED FIFO!vars
    BY <2>2 DEF FIFO!vars
  <2>3. ASSUME NEW e \in Elem, PushTail(e) PROVE UNCHANGED FIFO!vars
    BY <2>2, <2>3, ContentsSame DEF PushTail
  <2>4. CASE PushSample
    BY <2>2, <2>4, ContentsSame DEF PushSample
  <2>5. CASE PushCopy
    BY <2>2, <2>5, ContentsSame DEF PushCopy
  <2>6. CASE PushPublish
    <3>1. Contents' = Append(Contents, pushing) /\ pushing \in Elem /\ Size < Cap
      BY <2>6, ContentsPush DEF RingInv, TypeOK, PushPublish
    <3>2. CASE cpc = "publish"
      <4>1. Size > 0
        BY <3>2 DEF RingInv
      <4>2. /\ Tail(Append(Contents, pushing)) = Append(Tail(Contents), pushing)
            /\ Len(Tail(Contents)) < Cap
        BY <2>0, <3>1, <4>1
      <4>3. FIFO!Put(pushing)
        BY <2>6, <3>1, <3>2, <4>2 DEF PushPublish, FIFO!Put
      <4> QED BY <3>1, <4>3 DEF FIFO!Next
    <3>3. CASE cpc # "publish"
      <4>1. FIFO!Put(pushing)
        BY <2>0, <2>6, <3>1, <3>3 DEF PushPublish, FIFO!Put
      <4> QED BY <3>1, <4>1 DEF FIFO!Next
    <3> QED BY <3>2, <3>3
  <2>7. CASE PopHead
    BY <2>1, <2>7, ContentsSame DEF PopHead
  <2>8. CASE PopSample
    BY <2>1, <2>8, ContentsSame DEF PopSample
  <2>9. CASE PopCopy
    <3>1. Contents' = Contents /\ Size > 0
      BY <2>9, ContentsSame DEF PopCopy, RingInv
    <3>2. /\ Contents # <<>> /\ Head(Contents) = Contents[1]
          /\ Contents[1] = m_pBuffer[Cell(m_nOut)]
      <4>1. 1 \in 1 .. Size /\ m_nOut + 1 - 1 = m_nOut
        BY <2>0, <3>1
      <4> QED BY <2>0, <3>1, <4>1
    <3>3. FIFO!Get
      BY <2>9, <3>1, <3>2 DEF PopCopy, FIFO!Get
    <3> QED BY <3>3 DEF FIFO!Next
  <2>10. CASE PopPublish
    <3>1. Contents' = Tail(Contents)
      BY <2>10, ContentsPop
    <3> QED BY <2>10, <3>1 DEF PopPublish, FIFO!vars
  <2>11. CASE UNCHANGED vars
    BY <2>2, <2>11, ContentsSame DEF vars
  <2> QED
    BY <2>3, <2>4, <2>5, <2>6, <2>7, <2>8, <2>9, <2>10, <2>11
    DEF Next, Producer, Consumer
<1> QED
  BY <1>1, <1>2, RingCorrect, PTL DEF Spec, ImplementsFIFO, FIFO!Spec

-----------------------------------------------------------------------------
(* The mutex.                                                              *)

MutexInv == MutexTypeOK /\ Ownership

\* Nobody holds the mutex in the initial state.
LEMMA InitMutexInv == MutexInit => MutexInv
  BY MutexAssumption DEF MutexInit, MutexInv, MutexTypeOK, Ownership, Inside, MutexSteps

\* Reading m_count and m_threadID changes only the program counter: a thread
\* that finds its own id there has the mutex.
LEMMA ReadKeepsMutexInv ==
  ASSUME MutexInv, NEW t \in Threads, Lock(t) \/ Whose(t)
  PROVE  MutexInv'
<1>1. CASE Lock(t)
  BY <1>1, MutexAssumption DEF Lock, Goto, Depth, MutexInv, MutexTypeOK,
    Ownership, Inside, MutexSteps
<1>2. CASE Whose(t)
  BY <1>2, MutexAssumption DEF Whose, Goto, Depth, MutexInv, MutexTypeOK,
    Ownership, Inside, MutexSteps
<1> QED
  BY <1>1, <1>2

\* The steps of Lock that write.
LEMMA LockKeepsMutexInv ==
  ASSUME MutexInv, NEW t \in Threads, LockAgain(t) \/ Acquire(t) \/ Count(t) \/ Own(t)
  PROVE  MutexInv'
<1>1. CASE LockAgain(t)
  BY <1>1, MutexAssumption DEF LockAgain, Goto, Depth, MutexInv, MutexTypeOK,
    Ownership, Inside, MutexSteps
<1>2. CASE Acquire(t)
  BY <1>2, MutexAssumption DEF Acquire, Goto, Depth, MutexInv, MutexTypeOK,
    Ownership, Inside, MutexSteps
<1>3. CASE Count(t)
  BY <1>3, MutexAssumption DEF Count, Goto, Depth, MutexInv, MutexTypeOK,
    Ownership, Inside, MutexSteps
<1>4. CASE Own(t)
  BY <1>4, MutexAssumption DEF Own, Goto, Depth, MutexInv, MutexTypeOK,
    Ownership, Inside, MutexSteps
<1> QED
  BY <1>1, <1>2, <1>3, <1>4

\* The steps of Unlock.
LEMMA UnlockKeepsMutexInv ==
  ASSUME MutexInv, NEW t \in Threads, Unlocking(t)
  PROVE  MutexInv'
<1>1. CASE UnlockOnce(t)
  BY <1>1, MutexAssumption DEF UnlockOnce, Goto, Depth, MutexInv, MutexTypeOK,
    Ownership, Inside, MutexSteps
<1>2. CASE Unlock(t)
  BY <1>2, MutexAssumption DEF Unlock, Goto, Depth, MutexInv, MutexTypeOK,
    Ownership, Inside, MutexSteps
<1>3. CASE Disown(t)
  BY <1>3, MutexAssumption DEF Disown, Goto, Depth, MutexInv, MutexTypeOK,
    Ownership, Inside, MutexSteps
<1>4. CASE Release(t)
  BY <1>4, MutexAssumption DEF Release, Goto, Depth, MutexInv, MutexTypeOK,
    Ownership, Inside, MutexSteps
<1> QED
  BY <1>1, <1>2, <1>3, <1>4 DEF Unlocking

\* MutexInv is an invariant of the lock.
THEOREM MutexCorrect == MutexSpec => []MutexInv
<1>1. MutexInv /\ [MutexNext]_mutexVars => MutexInv'
  <2> SUFFICES ASSUME MutexInv, [MutexNext]_mutexVars PROVE MutexInv'
    OBVIOUS
  <2>1. CASE MutexNext
    BY <2>1, ReadKeepsMutexInv, LockKeepsMutexInv, UnlockKeepsMutexInv DEF MutexNext, Locking
  <2>2. CASE UNCHANGED mutexVars
    BY <2>2 DEF mutexVars, MutexInv, MutexTypeOK, Ownership, Inside
  <2> QED
    BY <2>1, <2>2
<1> QED
  BY <1>1, InitMutexInv, PTL DEF MutexSpec

\* Types are kept, and m_count stays within the depth of nesting.
THEOREM MutexCountBounded == MutexSpec => []MutexTypeOK
<1>1. MutexInv => MutexTypeOK
  BY DEF MutexInv
<1> QED
  BY <1>1, MutexCorrect, PTL

\* Two threads are never between Lock and Unlock of one JackieSimpleMutex.
THEOREM MutexExcludes == MutexSpec => []MutualExclusion
<1>1. MutexInv => MutualExclusion
  BY DEF MutexInv, MutexTypeOK, Ownership, Inside, MutualExclusion
<1> QED
  BY <1>1, MutexCorrect, PTL

\* A thread that locks again does not wait for itself.
THEOREM MutexReentrant == MutexSpec => []NoSelfDeadlock
<1>1. MutexInv => NoSelfDeadlock
  BY DEF MutexInv, MutexTypeOK, Ownership, NoSelfDeadlock
<1> QED
  BY <1>1, MutexCorrect, PTL
=============================================================================
