------------------------------ MODULE BanList ------------------------------
(***************************************************************************)
(* The ban list: AddToBanList and IsBanned (src/geco_application.cpp       *)
(* 3478-3577), both run by the network thread.                             *)
(*                                                                         *)
(* An entry has a dotted address, possibly with a wildcard, and the time   *)
(* at which it ends, 0 for never.  Which addresses a dotted address covers *)
(* is the relation Covers, what the comparison character by character in   *)
(* IsBanned computes.                                                      *)
(*                                                                         *)
(* GetTimeMS() has 64 bits (USE_TIME_MS_64BITS is 1) but an entry keeps    *)
(* the end of the ban in a TimeMS of 32 bits: it is cut to its value       *)
(* modulo Wrap, and compared with the whole clock.                         *)
(*                                                                         *)
(* The scan is modelled round by round, because each round reads the clock *)
(* again and because of its index: a round that compares an entry ends     *)
(* with index++ and then meets the index++ of the for, so it passes over   *)
(* the entry after it.  A round that removes an entry puts the last one in *)
(* its place (RemoveAtIndexFast) and passes over that one.                 *)
(*                                                                         *)
(* left and cut say what the user asked for; no step depends on them.      *)
(***************************************************************************)
EXTENDS Naturals, Sequences, FiniteSets

CONSTANTS
  Addresses,    \* senders
  Patterns,     \* the dotted addresses that are ever banned
  Covers,       \* pairs of a pattern and an address it covers
  Durations,    \* milliseconds of a ban, 0 for a permanent one
  Wrap,         \* 2^32
  MaxTime,      \* the clock stops here (bound)
  Forever,      \* a permanent ban has this left
  NoSender      \* no datagram is being processed

ASSUME BanAssumption ==
  /\ Covers \subseteq Patterns \X Addresses
  /\ NoSender \notin Addresses
  /\ Durations \subseteq Nat /\ Forever \notin Nat
  /\ Wrap \in Nat \ {0} /\ MaxTime \in Nat
  /\ \A ms \in Durations : ms < Wrap

VARIABLES
  banList,   \* sequence of entries
  now,       \* GetTimeMS()
  sender,    \* whose datagram IsBanned is called for, or NoSender
  index,     \* of the scan, from 0
  shrunk,    \* whether this scan has removed an entry
  left,      \* per pattern, what is left of the ban the user asked for
  cut        \* the patterns whose end did not fit in 32 bits

banVars == <<banList, now, sender, index, shrunk, left, cut>>

Entries == [IP : Patterns, timeout : 0 .. Wrap - 1]

BanTypeOK ==
  /\ banList \in Seq(Entries)
  /\ now \in 0 .. MaxTime
  /\ sender \in Addresses \cup {NoSender}
  /\ index \in 0 .. Len(banList) + 2 /\ shrunk \in BOOLEAN
  /\ left \in [Patterns -> Nat \cup {Forever}]
  /\ cut \subseteq Patterns

BanInit ==
  /\ banList = <<>> /\ now = 0
  /\ sender = NoSender /\ index = 0 /\ shrunk = FALSE
  /\ left = [p \in Patterns |-> 0] /\ cut = {}

Place(p) == {i \in 1 .. Len(banList) : banList[i].IP = p}

-----------------------------------------------------------------------------
Tick ==
  /\ now < MaxTime
  /\ now' = now + 1
  /\ left' = [p \in Patterns |-> IF left[p] \in {0, Forever} THEN left[p] ELSE left[p] - 1]
  /\ UNCHANGED <<banList, sender, index, shrunk, cut>>

Timeout(ms) == IF ms = 0 THEN 0 ELSE (now + ms) % Wrap

AppendBan(p, ms) ==
  /\ sender = NoSender
  /\ banList' = Append(banList, [IP |-> p, timeout |-> Timeout(ms)])
  /\ left' = [left EXCEPT ![p] = IF ms = 0 THEN Forever ELSE ms]
  /\ cut' = IF now + ms >= Wrap /\ ms # 0 THEN cut \cup {p} ELSE cut \ {p}
  /\ UNCHANGED <<now, sender, index, shrunk>>

(* A ban of a listed address changes its entry. *)
AddToBanList(p, ms) ==
  /\ sender = NoSender
  /\ banList' = IF Place(p) = {}
                THEN Append(banList, [IP |-> p, timeout |-> Timeout(ms)])
                ELSE [i \in 1 .. Len(banList) |->
                        IF i \in Place(p) THEN [banList[i] EXCEPT !.timeout = Timeout(ms)]
                                          ELSE banList[i]]
  /\ left' = [left EXCEPT ![p] = IF ms = 0 THEN Forever ELSE ms]
  /\ cut' = IF now + ms >= Wrap /\ ms # 0 THEN cut \cup {p} ELSE cut \ {p}
  /\ UNCHANGED <<now, sender, index, shrunk>>

-----------------------------------------------------------------------------
(* IsBanned *)

Begin(a) ==
  /\ sender = NoSender
  /\ sender' = a /\ index' = 0 /\ shrunk' = FALSE
  /\ UNCHANGED <<banList, now, left, cut>>

Entry == banList[index + 1]
InList == sender # NoSender /\ index < Len(banList)

ExpiredLate == Entry.timeout > 0 /\ Entry.timeout < now

(* timeout > 0 && timeout <= GetTimeMS() *)
Expired == Entry.timeout > 0 /\ Entry.timeout <= now

(* The last entry takes the place of entry i (from 1). *)
RemoveAtIndexFast(s, i) == [j \in 1 .. Len(s) - 1 |-> IF j = i THEN s[Len(s)] ELSE s[j]]

RemoveExpired ==
  /\ InList /\ Expired
  /\ banList' = RemoveAtIndexFast(banList, index + 1)
  /\ index' = index + 1 /\ shrunk' = TRUE
  /\ UNCHANGED <<now, sender, left, cut>>

Matches == <<Entry.IP, sender>> \in Covers

PassThree ==
  /\ InList /\ ~Expired /\ ~Matches
  /\ index' = index + 3
  /\ UNCHANGED <<banList, now, sender, shrunk, left, cut>>

Pass ==
  /\ InList /\ ~Expired /\ ~Matches
  /\ index' = index + 2
  /\ UNCHANGED <<banList, now, sender, shrunk, left, cut>>

(* IsBanned returns true. *)
Refuse ==
  /\ InList /\ ~Expired /\ Matches
  /\ sender' = NoSender /\ index' = 0 /\ shrunk' = FALSE
  /\ UNCHANGED <<banList, now, left, cut>>

(* IsBanned returns false. *)
LetThrough ==
  /\ sender # NoSender /\ index >= Len(banList)
  /\ sender' = NoSender /\ index' = 0 /\ shrunk' = FALSE
  /\ UNCHANGED <<banList, now, left, cut>>

-----------------------------------------------------------------------------
(* Properties *)

(* A ban in force is in the list, once, with the end the user asked for,   *)
(* through repeated bans, removals that move the last entry, and scans     *)
(* during which bans end; the exception is an end that does not fit in the *)
(* 32 bits of TimeMS (geco_application.cpp:3562, 3574).                     *)
BansKept ==
  \A p \in Patterns :
    /\ Cardinality(Place(p)) <= 1
    /\ left[p] # 0 /\ p \notin cut =>
         \E i \in Place(p) :
           banList[i].timeout = IF left[p] = Forever THEN 0 ELSE now + left[p]

(* "Bans an IP from connecting" (geco_application.h:550): nobody is refused *)
(* whom no ban in force covers, even when bans end during the scan.  The   *)
(* exception is a ban whose end is cut to 0, which makes it permanent.      *)
RefusedOnlyIfBanned ==
  [][Refuse => \E p \in Patterns :
       /\ <<p, sender>> \in Covers
       /\ \/ left[p] # 0
          \/ p \in cut /\ \E i \in Place(p) : banList[i].timeout = 0]_banVars

(* A datagram gets past a ban in force only where the scan is known to be  *)
(* blind: the end of the ban was cut (3562), the scan itself removed an    *)
(* entry (3496), or the entry is at an even place, which the two index++   *)
(* pass over (3488, 3533).                                                  *)
EvadesOnlyWhereBlind ==
  [][LetThrough => \A p \in Patterns :
       <<p, sender>> \in Covers /\ left[p] # 0 =>
         p \in cut \/ shrunk \/ \E i \in Place(p) : i % 2 = 0]_banVars
=============================================================================
