--------------------------- MODULE RequestSchedule ---------------------------
(***************************************************************************)
(* How the network thread retries one connection request                   *)
(* (ProcessConnectionRequestQ in src/geco_application.cpp): how often it   *)
(* sends ID_OPEN_CONNECTION_REQUEST_1, with which of the three MTU sizes,  *)
(* and when it gives up.  Every call that finds the request due makes one  *)
(* step.  The request is alone in the queue; the queue and its lock are in *)
(* module ConnectionRequests.                                              *)
(***************************************************************************)
EXTENDS Naturals

CONSTANTS
  AttemptTimes,   \* values of Connect's attemptTimes (an unsigned char)
  Outcomes        \* what Send can do on this platform

ASSUME ScheduleAssumption ==
  /\ AttemptTimes \subseteq 0 .. 255
  /\ Outcomes \subseteq {"sent", "slow", "toolong"}

UChar == 256          \* requestsMade is an unsigned char
mtuSizesCount == 3

VARIABLES
  connAttemptTimes,
  requestsMade,
  due,        \* nextRequestTime < timeMS
  mtu,        \* index in mtuSizes of the last request sent
  state       \* "trying"; "failed"; "crashed"

scheduleVars == <<connAttemptTimes, requestsMade, due, mtu, state>>

ScheduleInit ==
  /\ connAttemptTimes \in AttemptTimes
  /\ requestsMade = 0 /\ due = FALSE /\ mtu = 0 /\ state = "trying"

\* Requests sent with one MTU size.
PerSize == connAttemptTimes \div mtuSizesCount

MTUIndexUncapped == requestsMade \div PerSize
MTUIndexReversed ==
  IF requestsMade \div PerSize >= mtuSizesCount THEN 0
  ELSE mtuSizesCount - 1 - requestsMade \div PerSize
MTUSizeIndex ==
  IF requestsMade \div PerSize >= mtuSizesCount
  THEN mtuSizesCount - 1
  ELSE requestsMade \div PerSize

\* Time passes nextRequestTime.
Tick ==
  /\ state = "trying" /\ ~ due
  /\ due' = TRUE
  /\ UNCHANGED <<connAttemptTimes, requestsMade, mtu, state>>

\* "reach the max try times"
GiveUp ==
  /\ state = "trying" /\ due
  /\ requestsMade = connAttemptTimes + 1
  /\ state' = "failed"
  /\ UNCHANGED <<connAttemptTimes, requestsMade, due, mtu>>

\* The division by connAttemptTimes / mtuSizesCount.
DivideByZero ==
  /\ state = "trying" /\ due
  /\ requestsMade # connAttemptTimes + 1
  /\ PerSize = 0
  /\ state' = "crashed"
  /\ UNCHANGED <<connAttemptTimes, requestsMade, due, mtu>>

Sending ==
  /\ state = "trying" /\ due
  /\ requestsMade # connAttemptTimes + 1
  /\ PerSize # 0
  /\ mtu' = MTUSizeIndex
  /\ UNCHANGED <<connAttemptTimes, state>>

SentNotCounted ==
  /\ "sent" \in Outcomes
  /\ Sending
  /\ requestsMade' = requestsMade
  /\ due' = FALSE

Sent ==
  /\ "sent" \in Outcomes
  /\ Sending
  /\ requestsMade' = (requestsMade + 1) % UChar
  /\ due' = FALSE

\* Error 10040 (a Windows code): the next smaller MTU, in the next millisecond.
TooLong ==
  /\ "toolong" \in Outcomes
  /\ Sending
  /\ requestsMade' = ((mtu' + 1) * PerSize) % UChar
  /\ due' = FALSE

\* Send took more than 100 ms: "Drop to lowest MTU", or give up.
Lowest == PerSize * (mtuSizesCount - 1)

Slow ==
  /\ "slow" \in Outcomes
  /\ Sending
  /\ due' = FALSE
  /\ LET made == (requestsMade + 1) % UChar IN
       \/ /\ Lowest > made
          /\ requestsMade' = Lowest % UChar
       \/ /\ Lowest <= made
          /\ requestsMade' = (connAttemptTimes + 1) % UChar

Stopped == state # "trying" /\ UNCHANGED scheduleVars

ScheduleNext == Tick \/ GiveUp \/ DivideByZero \/ Sent \/ TooLong \/ Slow \/ Stopped

ScheduleSpec == ScheduleInit /\ [][ScheduleNext]_scheduleVars

\* The clock advances and the network thread polls the queue in every cycle.
ScheduleFairSpec == ScheduleSpec /\ WF_scheduleVars(ScheduleNext)

-----------------------------------------------------------------------------
\* Types; a request never overshoots the value that ends it.
ScheduleTypeOK ==
  /\ connAttemptTimes \in AttemptTimes
  /\ requestsMade \in 0 .. connAttemptTimes + 1
  /\ due \in BOOLEAN /\ mtu \in 0 .. mtuSizesCount - 1
  /\ state \in {"trying", "failed", "crashed"}

\* "more times try to request connection, less mtu used"
\* (geco_application.cpp:1901): from one request to the next the MTU never
\* grows again, whatever Send reported in between.  The exception is
\* attemptTimes 255: requestsMade wraps to 0 and the sizes begin again.
MTUNeverGrows == [][connAttemptTimes < 255 => mtu' >= mtu]_scheduleVars

\* What makes it inductive: the next request will not use a larger MTU than
\* the last one did.
MTUFollows == PerSize # 0 /\ connAttemptTimes < 255 => mtu <= MTUSizeIndex

\* "reach the max try times" (1868): a request to a peer that never answers
\* ends with ID_CONNECTION_ATTEMPT_FAILED.  It does for every attemptTimes
\* from 3 to 254, unless the network reports again and again that the
\* datagram is too long: error 10040 at the smallest MTU makes the code try
\* the same size again, before the last attempt.  With attemptTimes 255 it
\* never does: requestsMade, an unsigned char, is not 256.
GivesUpUnlessTooLong ==
  PerSize # 0 => IF connAttemptTimes < 255
                 THEN <>(state = "failed") \/ []<><<TooLong>>_scheduleVars
                 ELSE [](state = "trying")
=============================================================================
