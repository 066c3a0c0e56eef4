----------------------- MODULE DatagramDispatch_proofs -----------------------
(***************************************************************************)
(* What the ban list keeps and whom it stops, and where a datagram goes,   *)
(* for every set of addresses, patterns and durations, every width of the  *)
(* end of a ban and any time the program runs.                             *)
(***************************************************************************)
EXTENDS DatagramDispatch, FiniteSetTheorems, SequenceTheorems, TLAPS

-----------------------------------------------------------------------------
(* The inductive invariant, in parts.                                      *)

\* A pattern has one entry.
OneEntry ==
  \A i, j \in 1 .. Len(banList) : banList[i].IP = banList[j].IP => i = j

\* A ban in force whose end fits in 32 bits has its entry, with that end.
InForceListed ==
  \A p \in Patterns : left[p] # 0 /\ p \notin cut =>
    \E i \in 1 .. Len(banList) :
      /\ banList[i].IP = p
      /\ banList[i].timeout = IF left[p] = Forever THEN 0 ELSE now + left[p]

\* No entry ends later than its ban, and one that never ends is permanent or
\* has its end cut to 0.
EntriesEnd ==
  \A i \in 1 .. Len(banList) :
    LET p == banList[i].IP IN
      left[p] # Forever => /\ banList[i].timeout <= now + left[p]
                           /\ banList[i].timeout = 0 => p \in cut

\* A scan that has removed nothing has looked at every other entry so far.
ScannedOdd ==
  sender # NoSender /\ ~ shrunk =>
    /\ index % 2 = 0
    /\ \A i \in 1 .. Len(banList) :
         i <= index /\ i % 2 = 1 => <<banList[i].IP, sender>> \notin Covers

BanInv == TypeOK /\ OneEntry /\ InForceListed /\ EntriesEnd /\ ScannedOdd

-----------------------------------------------------------------------------
(* The end an entry is given.                                              *)

\* The end of a ban has its width, and is what was asked for if it fits.
LEMMA TimeoutFits ==
  ASSUME NEW ms \in Durations, now \in Nat
  PROVE  /\ Timeout(ms) \in 0 .. Wrap - 1
         /\ ms # 0 => Timeout(ms) <= now + ms
         /\ ms # 0 /\ now + ms < Wrap => Timeout(ms) = now + ms
<1>1. ms \in Nat /\ Wrap \in Nat \ {0} /\ now + ms \in Nat
  BY BanAssumption
<1>2. /\ (now + ms) % Wrap \in 0 .. Wrap - 1
      /\ now + ms < Wrap => (now + ms) % Wrap = now + ms
  BY <1>1
<1>3. (now + ms) % Wrap <= now + ms
  BY <1>1, <1>2
<1> QED BY <1>1, <1>2, <1>3 DEF Timeout

-----------------------------------------------------------------------------
(* The steps.                                                              *)

\* BanInv is kept when time passes: what is left of a ban shrinks as its end nears.
LEMMA TickStep ==
  ASSUME BanInv, TimePasses
  PROVE  BanInv'
<1> USE BanAssumption DEF BanInv, TypeOK, BanTypeOK, TimePasses, Tick
<1>t. /\ now \in Nat /\ now' = now + 1 /\ now' \in 0 .. MaxTime
      /\ banList' = banList /\ sender' = sender /\ index' = index
      /\ shrunk' = shrunk /\ cut' = cut
      /\ banList \in Seq(Entries)
      /\ \A i \in 1 .. Len(banList) : banList[i] \in Entries
  BY ElementOfSeq
<1>1. \A p \in Patterns :
        /\ left[p] \in {0, Forever} => left'[p] = left[p]
        /\ left[p] \notin {0, Forever} =>
             left[p] \in Nat \ {0} /\ left'[p] = left[p] - 1 /\ left'[p] \in Nat
  OBVIOUS
<1>2. TypeOK'
  <2>1. left' \in [Patterns -> Nat \cup {Forever}]
    BY <1>1
  <2> QED BY <1>t, <2>1
<1>3. OneEntry'
  BY <1>t DEF OneEntry
<1>4. InForceListed'
  <2> SUFFICES ASSUME NEW p \in Patterns, left'[p] # 0, p \notin cut
               PROVE  \E i \in 1 .. Len(banList) :
                        /\ banList[i].IP = p
                        /\ banList[i].timeout = IF left'[p] = Forever THEN 0
                                                ELSE now' + left'[p]
    BY <1>t DEF InForceListed
  <2>1. left[p] # 0
    BY <1>1
  <2>2. PICK i \in 1 .. Len(banList) :
          /\ banList[i].IP = p
          /\ banList[i].timeout = IF left[p] = Forever THEN 0 ELSE now + left[p]
    BY <2>1, <1>t DEF InForceListed
  <2>3. left'[p] = Forever <=> left[p] = Forever
    BY <1>1
  <2>4. ASSUME left[p] # Forever PROVE now' + left'[p] = now + left[p]
    <3>1. left[p] \in Nat \ {0} /\ left'[p] = left[p] - 1
      BY <1>1, <2>1, <2>4
    <3> QED BY <3>1, <1>t
  <2> QED BY <2>2, <2>3, <2>4
<1>5. EntriesEnd'
  <2> SUFFICES ASSUME NEW i \in 1 .. Len(banList), left'[banList[i].IP] # Forever
               PROVE  /\ banList[i].timeout <= now' + left'[banList[i].IP]
                      /\ banList[i].timeout = 0 => banList[i].IP \in cut
    BY <1>t DEF EntriesEnd
  <2> DEFINE p == banList[i].IP
  <2>1. p \in Patterns /\ banList[i].timeout \in Nat
    BY <1>t DEF Entries
  <2>2. left[p] # Forever
    BY <1>1, <2>1
  <2>3. banList[i].timeout <= now + left[p] /\ (banList[i].timeout = 0 => p \in cut)
    BY <2>2 DEF EntriesEnd
  <2>4. left[p] \in Nat /\ left'[p] \in Nat /\ now' + left'[p] >= now + left[p]
    BY <1>1, <1>t, <2>1, <2>2
  <2> DEFINE end == banList[i].timeout
             before == now + left[p]
             after == now' + left'[p]
  <2>5. end \in Int /\ before \in Int /\ after \in Int /\ end <= before /\ after >= before
    <3>1. now \in Nat /\ now' \in Nat
      BY <1>t
    <3>2. before \in Int /\ after \in Int
      BY <2>4, <3>1
    <3>3. end \in Int /\ end <= before /\ after >= before
      BY <2>1, <2>3, <2>4
    <3> QED BY <3>2, <3>3
  <2>6. end <= after
    <3> HIDE DEF end, before, after
    <3> QED BY <2>5
  <2> QED BY <2>3, <2>6
<1>6. ScannedOdd'
  BY <1>t DEF ScannedOdd
<1> QED BY <1>2, <1>3, <1>4, <1>5, <1>6

\* BanInv is kept by AddToBanList, which overwrites an entry or adds one.
LEMMA BanStep ==
  ASSUME BanInv, NEW p \in Patterns, NEW ms \in Durations, BanCommand(p, ms)
  PROVE  BanInv'
<1> DEFINE n == Len(banList)
           e == [IP |-> p, timeout |-> Timeout(ms)]
<1>t. /\ now \in Nat /\ now' = now /\ sender = NoSender /\ sender' = sender
      /\ index' = index /\ shrunk' = shrunk /\ ms \in Nat
      /\ banList \in Seq(Entries) /\ n \in Nat
      /\ \A i \in 1 .. n : banList[i] \in Entries
      /\ Wrap \in Nat \ {0}
  BY BanAssumption, ElementOfSeq
     DEF BanInv, TypeOK, BanTypeOK, BanCommand, AddToBanList
<1>e. /\ Timeout(ms) \in 0 .. Wrap - 1
      /\ ms # 0 => Timeout(ms) <= now + ms
      /\ ms # 0 /\ now + ms < Wrap => Timeout(ms) = now + ms
      /\ ms = 0 => Timeout(ms) = 0
  BY <1>t, TimeoutFits DEF Timeout
<1>l. /\ left \in [Patterns -> Nat \cup {Forever}]
      /\ left' \in [Patterns -> Nat \cup {Forever}]
      /\ left'[p] = IF ms = 0 THEN Forever ELSE ms
      /\ \A q \in Patterns \ {p} : left'[q] = left[q]
      /\ cut \subseteq Patterns /\ cut' \subseteq Patterns
      /\ p \in cut' <=> now + ms >= Wrap /\ ms # 0
      /\ \A q \in Patterns \ {p} : q \in cut' <=> q \in cut
  BY <1>t DEF BanInv, TypeOK, BanTypeOK, BanCommand, AddToBanList
\* Entry by entry: the entries of p get the new end, the others stay.
<1>b. /\ banList' \in Seq(Entries) /\ Len(banList') \in Nat
      /\ n <= Len(banList')
      /\ \A i \in 1 .. n : banList[i].IP # p => banList'[i] = banList[i]
      /\ \A i \in 1 .. n : banList[i].IP = p => banList'[i] = e
      /\ \A i \in 1 .. Len(banList') : i \notin 1 .. n => banList'[i] = e
      /\ \A i \in 1 .. Len(banList') : i \notin 1 .. n =>
            i = n + 1 /\ \A j \in 1 .. n : banList[j].IP # p
      /\ \E i \in 1 .. Len(banList') : banList'[i] = e
  <2>e. e \in Entries /\ e.IP = p /\ e.timeout = Timeout(ms)
    BY <1>e DEF Entries
  <2>1. CASE Place(p) = {}
    <3>1. banList' = Append(banList, e)
      BY <2>1 DEF BanCommand, AddToBanList
    <3>2. \A j \in 1 .. n : banList[j].IP # p
      BY <2>1 DEF Place
    <3>3. /\ banList' \in Seq(Entries) /\ Len(banList') = n + 1
          /\ \A i \in 1 .. n : banList'[i] = banList[i]
          /\ banList'[n + 1] = e
      BY <3>1, <2>e, <1>t, AppendProperties
    <3> QED BY <3>2, <3>3, <1>t
  <2>2. CASE Place(p) # {}
    <3>1. banList' = [i \in 1 .. n |->
                        IF i \in Place(p) THEN [banList[i] EXCEPT !.timeout = Timeout(ms)]
                                          ELSE banList[i]]
      BY <2>2 DEF BanCommand, AddToBanList
    <3>2. \A i \in 1 .. n : i \in Place(p) <=> banList[i].IP = p
      BY DEF Place
    <3>3. \A i \in 1 .. n : i \in Place(p) =>
            [banList[i] EXCEPT !.timeout = Timeout(ms)] = e
      BY <1>t, <3>2, <2>e DEF Entries
    <3>4. \A i \in 1 .. n : banList'[i] = IF banList[i].IP = p THEN e ELSE banList[i]
      BY <3>1, <3>2, <3>3
    <3>5. banList' \in Seq(Entries) /\ Len(banList') = n
      BY <3>1, <3>4, <2>e, <1>t
    <3>6. \E i \in 1 .. n : banList[i].IP = p
      BY <2>2 DEF Place
    <3> QED BY <3>4, <3>5, <3>6, <1>t
  <2> QED BY <2>1, <2>2
<1>ip. /\ e.IP = p /\ e.timeout = Timeout(ms)
       /\ \A i \in 1 .. n : banList'[i].IP = banList[i].IP
       /\ \A i \in 1 .. Len(banList') : i \notin 1 .. n => banList'[i].IP = p
  BY <1>b, <1>t
<1> HIDE DEF n, e
<1>1. TypeOK'
  <2>1. index' \in 0 .. Len(banList') + 2 /\ shrunk' \in BOOLEAN
    BY <1>t, <1>b DEF BanInv, TypeOK, BanTypeOK, n
  <2> QED BY <1>t, <1>l, <1>b, <2>1
          DEF BanInv, TypeOK, BanTypeOK, BanCommand, AddToBanList
<1>2. OneEntry'
  <2> SUFFICES ASSUME NEW i \in 1 .. Len(banList'), NEW j \in 1 .. Len(banList'),
                      banList'[i].IP = banList'[j].IP
               PROVE  i = j
    BY DEF OneEntry
  <2>1. CASE i \in 1 .. n /\ j \in 1 .. n
    BY <2>1, <1>ip DEF BanInv, OneEntry, n
  <2>2. CASE i \notin 1 .. n \/ j \notin 1 .. n
    BY <2>2, <1>ip, <1>b
  <2> QED BY <2>1, <2>2
<1>3. InForceListed'
  <2> SUFFICES ASSUME NEW q \in Patterns, left'[q] # 0, q \notin cut'
               PROVE  \E i \in 1 .. Len(banList') :
                        /\ banList'[i].IP = q
                        /\ banList'[i].timeout = IF left'[q] = Forever THEN 0
                                                 ELSE now + left'[q]
    BY <1>t DEF InForceListed
  <2>1. CASE q = p
    <3>1. e.timeout = IF left'[p] = Forever THEN 0 ELSE now + left'[p]
      BY <2>1, <1>e, <1>l, <1>t, <1>ip, BanAssumption
    <3> QED BY <2>1, <3>1, <1>b, <1>ip
  <2>2. CASE q # p
    <3>1. PICK i \in 1 .. n :
            /\ banList[i].IP = q
            /\ banList[i].timeout = IF left[q] = Forever THEN 0 ELSE now + left[q]
      BY <2>2, <1>l DEF BanInv, InForceListed, n
    <3>2. i \in 1 .. Len(banList') /\ banList'[i] = banList[i]
      BY <2>2, <3>1, <1>b, <1>t
    <3> QED BY <3>1, <3>2, <2>2, <1>l
  <2> QED BY <2>1, <2>2
<1>4. EntriesEnd'
  <2> SUFFICES ASSUME NEW i \in 1 .. Len(banList'), left'[banList'[i].IP] # Forever
               PROVE  /\ banList'[i].timeout <= now + left'[banList'[i].IP]
                      /\ banList'[i].timeout = 0 => banList'[i].IP \in cut'
    BY <1>t DEF EntriesEnd
  <2>1. CASE banList'[i].IP = p
    <3>1. banList'[i] = e
      BY <2>1, <1>b, <1>ip
    <3>2. ms # 0 /\ left'[p] = ms
      BY <2>1, <1>l
    <3>3. Timeout(ms) = 0 => p \in cut'
      BY <3>2, <1>e, <1>l, <1>t
    <3> QED BY <2>1, <3>1, <3>2, <3>3, <1>e, <1>ip
  <2>2. CASE banList'[i].IP # p
    <3>1. i \in 1 .. n /\ banList'[i] = banList[i]
      BY <2>2, <1>b, <1>ip
    <3>2. banList[i].IP \in Patterns \ {p}
      BY <2>2, <3>1, <1>t DEF Entries
    <3> QED BY <3>1, <3>2, <1>l, <1>t DEF BanInv, EntriesEnd, n
  <2> QED BY <2>1, <2>2
<1>5. ScannedOdd'
  BY <1>t DEF ScannedOdd
<1> QED BY <1>1, <1>2, <1>3, <1>4, <1>5 DEF BanInv

\* BanInv is kept by a round of IsBanned that removes an expired entry.
LEMMA RemoveStep ==
  ASSUME BanInv, Scan, RemoveExpired
  PROVE  BanInv'
<1> DEFINE n == Len(banList)
           k == index + 1
<1>t. /\ now \in Nat /\ now' = now /\ sender' = sender /\ index \in Nat
      /\ index' = k /\ shrunk' = TRUE /\ left' = left /\ cut' = cut
      /\ banList \in Seq(Entries) /\ n \in Nat /\ k \in 1 .. n
      /\ \A i \in 1 .. n : banList[i] \in Entries
      /\ banList[k].timeout > 0 /\ banList[k].timeout <= now
  BY ElementOfSeq
     DEF BanInv, TypeOK, BanTypeOK, RemoveExpired, InList, Expired, Entry
<1>b. /\ banList' = [j \in 1 .. n - 1 |-> IF j = k THEN banList[n] ELSE banList[j]]
      /\ banList' \in Seq(Entries) /\ Len(banList') = n - 1
  BY <1>t DEF RemoveExpired, RemoveAtIndexFast
\* Where each entry of the new list was in the old one.
<1> DEFINE from(j) == IF j = k THEN n ELSE j
<1>f. /\ \A j \in 1 .. n - 1 : from(j) \in 1 .. n /\ banList'[j] = banList[from(j)]
      /\ \A i, j \in 1 .. n - 1 : from(i) = from(j) => i = j
      /\ \A i \in 1 .. n : i # k => \E j \in 1 .. n - 1 : from(j) = i
  <2>1. /\ \A j \in 1 .. n - 1 : from(j) \in 1 .. n /\ banList'[j] = banList[from(j)]
        /\ \A i, j \in 1 .. n - 1 : from(i) = from(j) => i = j
    BY <1>t, <1>b
  <2>2. ASSUME NEW i \in 1 .. n, i # k
        PROVE  \E j \in 1 .. n - 1 : from(j) = i
    <3>1. CASE i = n
      <4>1. k \in 1 .. n - 1 /\ from(k) = i
        BY <1>t, <2>2, <3>1
      <4> QED BY <4>1
    <3>2. CASE i # n
      <4>1. i \in 1 .. n - 1 /\ from(i) = i
        BY <1>t, <2>2, <3>2
      <4> QED BY <4>1
    <3> QED BY <3>1, <3>2
  <2> QED BY <2>1, <2>2
<1> HIDE DEF from
<1>1. TypeOK'
  <2>1. index' \in 0 .. Len(banList') + 2
    BY <1>t, <1>b
  <2> QED BY <1>t, <1>b, <2>1 DEF BanInv, TypeOK, BanTypeOK, Scan
<1>2. OneEntry'
  <2> SUFFICES ASSUME NEW i \in 1 .. n - 1, NEW j \in 1 .. n - 1, banList'[i].IP = banList'[j].IP
               PROVE  i = j
    <3>1. Len(banList') = n - 1
      BY <1>b
    <3> QED BY <3>1 DEF OneEntry
  <2>1. from(i) \in 1 .. n /\ from(j) \in 1 .. n
        /\ banList[from(i)].IP = banList[from(j)].IP
    BY <1>f
  <2>2. from(i) = from(j)
    BY <2>1 DEF BanInv, OneEntry
  <2> QED BY <1>f, <2>2
<1>3. InForceListed'
  <2> SUFFICES ASSUME NEW p \in Patterns, left[p] # 0, p \notin cut
               PROVE  \E i \in 1 .. n - 1 :
                        /\ banList'[i].IP = p
                        /\ banList'[i].timeout = IF left[p] = Forever THEN 0
                                                 ELSE now + left[p]
    BY <1>t, <1>b DEF InForceListed
  <2>1. PICK i \in 1 .. n :
          /\ banList[i].IP = p
          /\ banList[i].timeout = IF left[p] = Forever THEN 0 ELSE now + left[p]
    BY DEF BanInv, InForceListed
  <2>2. left[p] # Forever => left[p] \in Nat \ {0}
    BY DEF BanInv, TypeOK, BanTypeOK
  <2>3. i # k
    BY <2>1, <2>2, <1>t
  <2>4. PICK j \in 1 .. n - 1 : from(j) = i
    BY <2>3, <1>f
  <2> QED BY <2>1, <2>4, <1>f
<1>4. EntriesEnd'
  <2> SUFFICES ASSUME NEW j \in 1 .. n - 1, left[banList'[j].IP] # Forever
               PROVE  /\ banList'[j].timeout <= now + left[banList'[j].IP]
                      /\ banList'[j].timeout = 0 => banList'[j].IP \in cut
    BY <1>t, <1>b DEF EntriesEnd
  <2> QED BY <1>f DEF BanInv, EntriesEnd
<1>5. ScannedOdd'
  BY <1>t DEF ScannedOdd
<1> QED BY <1>1, <1>2, <1>3, <1>4, <1>5 DEF BanInv

\* BanInv is kept by a round of IsBanned that compares an entry without a match.
LEMMA PassStep ==
  ASSUME BanInv, Scan, Pass
  PROVE  BanInv'
<1> DEFINE n == Len(banList)
<1>t. /\ now' = now /\ sender' = sender /\ sender # NoSender /\ index \in Nat
      /\ index' = index + 2 /\ shrunk' = shrunk /\ left' = left /\ cut' = cut
      /\ banList' = banList /\ n \in Nat /\ index < n
      /\ <<banList[index + 1].IP, sender>> \notin Covers
  BY DEF BanInv, TypeOK, BanTypeOK, Pass, InList, Entry, Matches
<1>1. TypeOK'
  BY <1>t DEF BanInv, TypeOK, BanTypeOK, Scan
<1>2. OneEntry' /\ InForceListed' /\ EntriesEnd'
  BY <1>t DEF BanInv, OneEntry, InForceListed, EntriesEnd
<1>3. ScannedOdd'
  <2> SUFFICES ASSUME ~ shrunk
               PROVE  /\ (index + 2) % 2 = 0
                      /\ \A i \in 1 .. n : i <= index + 2 /\ i % 2 = 1 =>
                           <<banList[i].IP, sender>> \notin Covers
    BY <1>t DEF ScannedOdd
  <2>1. /\ index % 2 = 0
        /\ \A i \in 1 .. n : i <= index /\ i % 2 = 1 =>
             <<banList[i].IP, sender>> \notin Covers
    BY <1>t DEF BanInv, ScannedOdd
  <2>2. (index + 2) % 2 = 0
    BY <2>1, <1>t
  <2>3. ASSUME NEW i \in 1 .. n, i <= index + 2, i % 2 = 1
        PROVE  <<banList[i].IP, sender>> \notin Covers
    <3>1. i <= index \/ i = index + 1
      BY <2>2, <2>3, <1>t
    <3> QED BY <3>1, <2>1, <2>3, <1>t
  <2> QED BY <2>2, <2>3
<1> QED BY <1>1, <1>2, <1>3 DEF BanInv

\* The steps that leave the list and its ends alone.
LEMMA DispatchStep ==
  ASSUME BanInv,
         \/ \E a \in Addresses : Receive(a)
         \/ RefuseBanned
         \/ \E d \in Datagrams : ProcessOneRecvParam(d)
         \/ UNCHANGED vars
  PROVE  BanInv'
<1>0. 0 \in 0 .. Len(banList) + 2 /\ FALSE \in BOOLEAN
  <2>1. Len(banList) \in Nat
    BY DEF BanInv, TypeOK, BanTypeOK
  <2> QED BY <2>1
<1>1. ASSUME NEW a \in Addresses, Receive(a)
      PROVE  BanInv'
  <2>1. TypeOK'
    BY <1>0, <1>1 DEF BanInv, TypeOK, BanTypeOK, Receive, Begin, Fates
  <2>2. OneEntry' /\ InForceListed' /\ EntriesEnd'
    BY <1>1 DEF BanInv, OneEntry, InForceListed, EntriesEnd, Receive, Begin
  <2>3. ScannedOdd'
    BY <1>1 DEF ScannedOdd, Receive, Begin
  <2> QED BY <2>1, <2>2, <2>3 DEF BanInv
<1>2. ASSUME RefuseBanned
      PROVE  BanInv'
  <2>1. TypeOK'
    BY <1>0, <1>2 DEF BanInv, TypeOK, BanTypeOK, RefuseBanned, Refuse, Fates
  <2>2. OneEntry' /\ InForceListed' /\ EntriesEnd'
    BY <1>2 DEF BanInv, OneEntry, InForceListed, EntriesEnd, RefuseBanned, Refuse
  <2>3. ScannedOdd'
    BY <1>2 DEF ScannedOdd, RefuseBanned, Refuse
  <2> QED BY <2>1, <2>2, <2>3 DEF BanInv
<1>3. ASSUME NEW d \in Datagrams, ProcessOneRecvParam(d)
      PROVE  BanInv'
  <2>1. BanTypeOK'
    BY <1>0, <1>3 DEF BanInv, TypeOK, BanTypeOK, ProcessOneRecvParam, LetThrough
  <2>2. isUnconnectedRecvPrrams' \in BOOLEAN
    BY <1>3 DEF BanInv, TypeOK, ProcessOneRecvParam, IsOfflineRecvParams, IsOffline
  <2>3. connected' \subseteq Addresses
    BY <1>3 DEF BanInv, TypeOK, BanTypeOK, ProcessOneRecvParam, LetThrough, Handled
  <2>4. fate' \in Fates
    BY <1>3 DEF ProcessOneRecvParam, Fates
  <2>5. OneEntry' /\ InForceListed' /\ EntriesEnd'
    BY <1>3 DEF BanInv, OneEntry, InForceListed, EntriesEnd, ProcessOneRecvParam, LetThrough
  <2>6. ScannedOdd'
    BY <1>3 DEF ScannedOdd, ProcessOneRecvParam, LetThrough
  <2> QED BY <2>1, <2>2, <2>3, <2>4, <2>5, <2>6 DEF BanInv, TypeOK
<1>4. ASSUME UNCHANGED vars
      PROVE  BanInv'
  BY <1>4 DEF BanInv, TypeOK, BanTypeOK, OneEntry, InForceListed, EntriesEnd, ScannedOdd,
              vars, banVars
<1> QED BY <1>1, <1>2, <1>3, <1>4

\* So it holds in every state.
LEMMA BanInvariant == Spec => []BanInv
<1>1. Init => BanInv
  <2> SUFFICES ASSUME Init
               PROVE  BanInv
    OBVIOUS
  <2>1. /\ banList = <<>> /\ Len(banList) = 0 /\ banList \in Seq(Entries)
        /\ now = 0 /\ 0 \in 0 .. MaxTime /\ index = 0 /\ 0 \in 0 .. Len(banList) + 2
    BY BanAssumption DEF Init, BanInit
  <2>2. TypeOK
    BY <2>1 DEF Init, BanInit, TypeOK, BanTypeOK, Fates
  <2>3. OneEntry /\ EntriesEnd
    BY <2>1 DEF OneEntry, EntriesEnd
  <2>4. InForceListed /\ ScannedOdd
    BY DEF Init, BanInit, InForceListed, ScannedOdd
  <2> QED BY <2>2, <2>3, <2>4 DEF BanInv
<1>2. BanInv /\ [Next]_vars => BanInv'
  <2> SUFFICES ASSUME BanInv, [Next]_vars
               PROVE  BanInv'
    OBVIOUS
  <2>1. CASE Scan
    BY <2>1, RemoveStep, PassStep DEF Scan
  <2>2. CASE \E p \in Patterns, ms \in Durations : BanCommand(p, ms)
    BY <2>2, BanStep
  <2>3. CASE TimePasses
    BY <2>3, TickStep
  <2> QED BY <2>1, <2>2, <2>3, DispatchStep DEF Next
<1> QED BY <1>1, <1>2, PTL DEF Spec

-----------------------------------------------------------------------------
(* The theorems.                                                           *)

(* AddToBanList and the scans of IsBanned keep at most one entry for each  *)
(* dotted address, and a ban in force whose end fits in 32 bits is listed  *)
(* with the end the user asked for.                                        *)
THEOREM BanListExact == Spec => []BansExact
<1>1. BanInv => BansExact
  <2> SUFFICES ASSUME BanInv, NEW p \in Patterns
               PROVE  /\ Cardinality(Place(p)) <= 1
                      /\ left[p] # 0 /\ p \notin cut =>
                           \E i \in Place(p) :
                             banList[i].timeout = IF left[p] = Forever THEN 0
                                                  ELSE now + left[p]
    BY DEF BansExact, BansKept, BanInv
  <2>1. Cardinality(Place(p)) <= 1
    <3>1. CASE Place(p) = {}
      BY <3>1, FS_EmptySet
    <3>2. CASE Place(p) # {}
      <4>1. PICK i : i \in Place(p)
        BY <3>2
      <4>2. Place(p) = {i}
        BY <4>1 DEF BanInv, OneEntry, Place
      <4> QED BY <4>2, FS_Singleton
    <3> QED BY <3>1, <3>2
  <2>2. ASSUME left[p] # 0, p \notin cut
        PROVE  \E i \in Place(p) :
                 banList[i].timeout = IF left[p] = Forever THEN 0 ELSE now + left[p]
    BY <2>2 DEF BanInv, InForceListed, Place
  <2> QED BY <2>1, <2>2
<1> QED BY <1>1, BanInvariant, PTL

(* IsBanned returns true only for a sender that a ban in force covers, or  *)
(* one whose end was cut to 0.                                             *)
THEOREM RefusedAreBanned == Spec => RefusedOnlyIfBanned
<1>1. ASSUME BanInv, Refuse
      PROVE  \E p \in Patterns :
               /\ <<p, sender>> \in Covers
               /\ \/ left[p] # 0
                  \/ p \in cut /\ \E i \in Place(p) : banList[i].timeout = 0
  <2> DEFINE k == index + 1
             p == banList[k].IP
  <2>1. /\ k \in 1 .. Len(banList) /\ banList[k] \in Entries /\ now \in Nat
        /\ <<p, sender>> \in Covers
        /\ ~ (banList[k].timeout > 0 /\ banList[k].timeout <= now)
    BY <1>1, ElementOfSeq
       DEF BanInv, TypeOK, BanTypeOK, Refuse, InList, Expired, Matches, Entry
  <2>2. p \in Patterns /\ banList[k].timeout \in Nat
    BY <2>1, BanAssumption DEF Entries
  <2>3. k \in Place(p)
    BY <2>1 DEF Place
  <2>4. ASSUME left[p] = 0
        PROVE  p \in cut /\ banList[k].timeout = 0
    <3>1. /\ banList[k].timeout <= now + left[p]
          /\ banList[k].timeout = 0 => p \in cut
      BY <1>1, <2>1, <2>4, BanAssumption DEF BanInv, EntriesEnd
    <3> QED BY <3>1, <2>1, <2>2, <2>4
  <2> QED BY <2>1, <2>2, <2>3, <2>4
<1>2. BanInv => [Refuse => \E p \in Patterns :
                   /\ <<p, sender>> \in Covers
                   /\ \/ left[p] # 0
                      \/ p \in cut /\ \E i \in Place(p) : banList[i].timeout = 0]_banVars
  BY <1>1
<1> QED BY <1>2, BanInvariant, PTL DEF RefusedOnlyIfBanned

(* IsBanned returns false for a sender that a ban in force covers only if  *)
(* the end of that ban was cut, the scan removed an entry, or the entry is *)
(* at an even place.                                                       *)
THEOREM EvasionsAreBlind == Spec => EvadesOnlyWhereBlind
<1>1. ASSUME BanInv, LetThrough, NEW p \in Patterns,
             <<p, sender>> \in Covers, left[p] # 0
      PROVE  p \in cut \/ shrunk \/ \E i \in Place(p) : i % 2 = 0
  <2> SUFFICES ASSUME p \notin cut, ~ shrunk
               PROVE  \E i \in Place(p) : i % 2 = 0
    OBVIOUS
  <2>1. PICK i \in 1 .. Len(banList) : banList[i].IP = p
    BY <1>1 DEF BanInv, InForceListed
  <2>2. i <= index
    BY <1>1, <2>1 DEF BanInv, TypeOK, BanTypeOK, LetThrough
  <2>3. i % 2 # 1
    BY <1>1, <2>1, <2>2 DEF BanInv, ScannedOdd, LetThrough
  <2>4. i \in Place(p) /\ i % 2 = 0
    BY <2>1, <2>3 DEF Place
  <2> QED BY <2>4
<1>2. BanInv => [LetThrough => \A p \in Patterns :
                   <<p, sender>> \in Covers /\ left[p] # 0 =>
                     p \in cut \/ shrunk \/ \E i \in Place(p) : i % 2 = 0]_banVars
  BY <1>1
<1> QED BY <1>2, BanInvariant, PTL DEF EvadesOnlyWhereBlind

(* ProcessOneRecvParam gives what a connected system sends to its          *)
(* reliability layer, except for the three named reasons.                  *)
THEOREM DataLossExplained == Spec => DataLostOnlyByStaleVerdict
<1>1. ASSUME TypeOK, NEW d \in Datagrams,
             ProcessOneRecvParam(d), d.sent = "data", sender \in connected,
             fate' # "reliability layer"
      PROVE  \/ d.size = "tiny"
             \/ d.kind = "pong" /\ d.id
             \/ /\ isUnconnectedRecvPrrams
                /\ d.kind \in {"ping", "opening"} => d.size = "short"
                /\ d.kind \in {"refusal", "incompatible"} => d.size # "fit"
                /\ d.kind \notin {"data", "pong"}
  <2>1. isUnconnectedRecvPrrams'
    BY <1>1 DEF ProcessOneRecvParam
  <2>2. CASE Assigns(d)
    <3>1. IsOffline(d)
      BY <1>1, <2>1, <2>2 DEF ProcessOneRecvParam, IsOfflineRecvParams
    <3>2. d.id => d.kind = "pong"
      BY <1>1 DEF Datagrams
    <3> QED BY <3>1, <3>2 DEF IsOffline
  <2>3. CASE ~ Assigns(d)
    <3>1. isUnconnectedRecvPrrams
      BY <1>1, <2>1, <2>3 DEF ProcessOneRecvParam, IsOfflineRecvParams
    <3>2. d.size \in {"tiny", "short", "fit", "over"}
      BY DEF Datagrams
    <3> QED BY <3>1, <3>2, <2>3 DEF Assigns
  <2> QED BY <2>2, <2>3
<1>2. TypeOK =>
        [\A d \in Datagrams :
           /\ ProcessOneRecvParam(d) /\ d.sent = "data" /\ sender \in connected
           /\ fate' # "reliability layer"
           => \/ d.size = "tiny"
              \/ d.kind = "pong" /\ d.id
              \/ /\ isUnconnectedRecvPrrams
                 /\ d.kind \in {"ping", "opening"} => d.size = "short"
                 /\ d.kind \in {"refusal", "incompatible"} => d.size # "fit"
                 /\ d.kind \notin {"data", "pong"}]_vars
  BY <1>1
<1>3. BanInv => TypeOK
  BY DEF BanInv
<1> QED BY <1>2, <1>3, BanInvariant, PTL DEF DataLostOnlyByStaleVerdict

(* IsOfflineRecvParams takes every offline message of the library for one, *)
(* whatever its verdict on the datagram before, except                     *)
(* ID_INCOMPATIBLE_PROTOCOL_VERSION and, by a stale verdict only, a        *)
(* refusal longer than OnConnectionFailed looks at.                        *)
THEOREM OfflineMessagesHandled == Spec => OfflineMissedOnlyWhereBlind
<1>1. ASSUME NEW d \in Datagrams, ProcessOneRecvParam(d), d.sent = "offline",
             fate' # "offline", d.kind # "incompatible"
      PROVE  d.kind = "refusal" /\ d.size = "over" /\ ~ isUnconnectedRecvPrrams
  <2>1. ~ isUnconnectedRecvPrrams'
    BY <1>1 DEF ProcessOneRecvParam
  <2>2. /\ d.id /\ d.kind \in {"opening", "refusal"} /\ d.size \in {"fit", "over"}
        /\ d.kind = "opening" => d.size = "fit"
    BY <1>1 DEF Datagrams
  <2>3. IsOffline(d)
    BY <2>2 DEF IsOffline
  <2>4. ~ Assigns(d)
    BY <1>1, <2>1, <2>3 DEF ProcessOneRecvParam, IsOfflineRecvParams
  <2>5. ~ isUnconnectedRecvPrrams
    BY <1>1, <2>1, <2>4 DEF ProcessOneRecvParam, IsOfflineRecvParams
  <2>6. d.kind = "refusal" /\ d.size = "over"
    BY <2>2, <2>4 DEF Assigns
  <2> QED BY <2>5, <2>6
<1>2. [\A d \in Datagrams :
         ProcessOneRecvParam(d) /\ d.sent = "offline" /\ fate' # "offline"
         => \/ d.kind = "incompatible"
            \/ d.kind = "refusal" /\ d.size = "over" /\ ~ isUnconnectedRecvPrrams]_vars
  BY <1>1
<1> QED BY <1>2, PTL DEF OfflineMissedOnlyWhereBlind
=============================================================================
