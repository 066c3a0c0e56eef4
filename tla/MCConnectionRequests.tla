------------------------ MODULE MCConnectionRequests ------------------------
(***************************************************************************)
(* Two addresses, few attempts and a narrow m_count.                       *)
(***************************************************************************)
EXTENDS ConnectionRequests

CONSTANTS a1, a2

TwoAddrs == {a1, a2}
=============================================================================
