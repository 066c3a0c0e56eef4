-------------------------- MODULE DatagramDispatch --------------------------
(***************************************************************************)
(* What the network thread does with one datagram: ProcessOneRecvParam and *)
(* IsOfflineRecvParams (src/geco_application.cpp 695-890) with the ban     *)
(* list of module BanList.                                                 *)
(*                                                                         *)
(* A datagram of a banned sender is refused.  Otherwise the first byte     *)
(* selects a handler, which decides whether the datagram is an offline     *)
(* message (handled here) or belongs to the reliability layer of a         *)
(* connected system.  The verdict isUnconnectedRecvPrrams is a member of   *)
(* the application, never initialised: a handler whose length test fails   *)
(* leaves it as the datagram before left it, and acts on it.               *)
(*                                                                         *)
(* Of a datagram the model keeps                                           *)
(*   kind    the handler: "ping" also stands for ID_OUT_OF_BAND_INTERNAL,  *)
(*           "opening" for the two requests and the two replies, "refusal" *)
(*           for the messages of OnConnectionFailed except "incompatible"; *)
(*   size    "tiny" (two bytes at most), "short" (below what the handler   *)
(*           tests for), "fit", or "over" (above the upper bound that only *)
(*           OnConnectionFailed has);                                      *)
(*   id      whether the bytes where the handler looks are                 *)
(*           OFFLINE_MESSAGE_DATA_ID;                                      *)
(*   sent    as an "offline" message of this library, or as "data".        *)
(* An offline message of the library has the id where its handler looks,   *)
(* except ID_INCOMPATIBLE_PROTOCOL_VERSION, which has the protocol version *)
(* before it (1286-1287).  The requests and replies fit.  A refusal may be *)
(* "over": the bound is the 25 bytes of a message id, the offline id and a *)
(* guid, and WriteMini writes up to 65 bits of a guid (719, 1174, 1209),   *)
(* less when its leading bytes are zero; only ID_ALREADY_CONNECTED writes  *)
(* it whole (1151).  The handler of ID_UNCONNECTED_PONG compares whatever  *)
(* the length is, so that the bytes of an earlier datagram in the same     *)
(* buffer may be taken for the id.                                         *)
(***************************************************************************)
EXTENDS BanList

VARIABLES
  isUnconnectedRecvPrrams,
  connected,  \* addresses of the active remote systems
  fate        \* what became of the last datagram

vars == <<banVars, isUnconnectedRecvPrrams, connected, fate>>

Kinds == {"ping", "pong", "opening", "refusal", "incompatible", "data"}

Datagrams ==
  [kind : {"opening"}, size : {"fit"}, id : {TRUE}, sent : {"offline"}]
    \cup [kind : {"refusal"}, size : {"fit", "over"}, id : {TRUE}, sent : {"offline"}]
    \cup [kind : {"incompatible"}, size : {"fit", "over"}, id : {FALSE}, sent : {"offline"}]
    \cup [kind : Kinds, size : {"tiny", "short", "fit", "over"}, id : {FALSE}, sent : {"data"}]
    \cup [kind : {"pong"}, size : {"short"}, id : {TRUE}, sent : {"data"}]

Fates == {"none", "refused", "offline", "reliability layer", "unconnected sender"}

TypeOK ==
  /\ BanTypeOK
  /\ isUnconnectedRecvPrrams \in BOOLEAN
  /\ connected \subseteq Addresses
  /\ fate \in Fates

Init ==
  /\ BanInit
  /\ isUnconnectedRecvPrrams \in BOOLEAN     \* not initialised
  /\ connected = {}
  /\ fate = "none"

-----------------------------------------------------------------------------
(* Whether the handler of d assigns the verdict. *)
AssignsUnlessData(d) ==
  \/ d.size = "tiny" \/ d.kind = "pong"
  \/ (d.kind \in {"ping", "opening"} /\ d.size \in {"fit", "over"})
  \/ (d.kind \in {"refusal", "incompatible"} /\ d.size = "fit")

Assigns(d) ==
  \/ d.size = "tiny" \/ d.kind \in {"pong", "data"}
  \/ (d.kind \in {"ping", "opening"} /\ d.size \in {"fit", "over"})
  \/ (d.kind \in {"refusal", "incompatible"} /\ d.size = "fit")

IsOfflineInverted(d) == d.size = "tiny" \/ (d.kind # "data" /\ ~d.id)

(* The verdict it assigns. *)
IsOffline(d) == d.size = "tiny" \/ (d.kind # "data" /\ d.id)

IsOfflineRecvParams(d) ==
  isUnconnectedRecvPrrams' = IF Assigns(d) THEN IsOffline(d) ELSE isUnconnectedRecvPrrams

(* OnConnectionRequest2 and OnConnectionReply2 may activate a remote system. *)
Handled(d) ==
  IF isUnconnectedRecvPrrams'
  THEN connected' \in IF d.kind = "opening" /\ d.size # "tiny"
                      THEN {connected, connected \cup {sender}} ELSE {connected}
  ELSE connected' = connected

ProcessOneRecvParam(d) ==
  /\ LetThrough
  /\ IsOfflineRecvParams(d)
  /\ Handled(d)
  /\ fate' = IF isUnconnectedRecvPrrams' THEN "offline"
             ELSE IF sender \in connected THEN "reliability layer" ELSE "unconnected sender"

(* ID_CONNECTION_BANNED is sent; the verdict is not touched. *)
RefuseBanned ==
  /\ Refuse
  /\ fate' = "refused"
  /\ UNCHANGED <<isUnconnectedRecvPrrams, connected>>

Receive(a) ==
  /\ Begin(a)
  /\ fate' = "none"
  /\ UNCHANGED <<isUnconnectedRecvPrrams, connected>>

Scan ==
  /\ RemoveExpired \/ Pass
  /\ UNCHANGED <<isUnconnectedRecvPrrams, connected, fate>>

(* BCS_ADD_2_BANNED_LIST, which ban_remote_system has posted. *)
BanCommand(p, ms) ==
  /\ AddToBanList(p, ms)
  /\ UNCHANGED <<isUnconnectedRecvPrrams, connected, fate>>

TimePasses == Tick /\ UNCHANGED <<isUnconnectedRecvPrrams, connected, fate>>

Next ==
  \/ \E a \in Addresses : Receive(a)
  \/ Scan
  \/ RefuseBanned
  \/ \E d \in Datagrams : ProcessOneRecvParam(d)
  \/ \E p \in Patterns, ms \in Durations : BanCommand(p, ms)
  \/ TimePasses

Spec == Init /\ [][Next]_vars

-----------------------------------------------------------------------------
(* Properties *)

(* The ban list keeps what AddToBanList was asked for while datagrams of     *)
(* every kind are received in between.                                        *)
BansExact == TypeOK /\ BansKept

(* "The reliability layer has no way to tell between offline messages .. and *)
(* a regular encoding.  So I insert OFFLINE_MESSAGE_DATA_ID" (766-769): what  *)
(* a connected system sends, without that id, gets to its reliability layer.  *)
(* It is lost only if it is too small to carry anything, if the buffer still  *)
(* has the id of an earlier datagram (pong), or if its first byte selects a   *)
(* handler that does not look at it and the datagram before it, whoever sent  *)
(* it, was taken for an offline message.                                      *)
DataLostOnlyByStaleVerdict ==
  [][\A d \in Datagrams :
       /\ ProcessOneRecvParam(d) /\ d.sent = "data" /\ sender \in connected
       /\ fate' # "reliability layer"
       => \/ d.size = "tiny"
          \/ d.kind = "pong" /\ d.id
          \/ /\ isUnconnectedRecvPrrams
             /\ d.kind \in {"ping", "opening"} => d.size = "short"
             /\ d.kind \in {"refusal", "incompatible"} => d.size # "fit"
             /\ d.kind \notin {"data", "pong"}]_vars

(* An offline message of the library whose sender is not refused is handled *)
(* as one whatever came before it, with two exceptions: the refusal          *)
(* ID_INCOMPATIBLE_PROTOCOL_VERSION, whose id the handler looks for one byte *)
(* too early (901), and a refusal whose guid makes it too long for the       *)
(* length test of OnConnectionFailed (895-899), when the datagram before it, *)
(* whoever sent it, was not an offline message.  In both a client never      *)
(* learns why it cannot connect.                                             *)
OfflineMissedOnlyWhereBlind ==
  [][\A d \in Datagrams :
       ProcessOneRecvParam(d) /\ d.sent = "offline" /\ fate' # "offline"
       => \/ d.kind = "incompatible"
          \/ d.kind = "refusal" /\ d.size = "over" /\ ~ isUnconnectedRecvPrrams]_vars
=============================================================================
