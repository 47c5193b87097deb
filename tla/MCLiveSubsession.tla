-------------------------- MODULE MCLiveSubsession --------------------------
(* Three clients, whose requests may be handled in loops within loops, and  *)
(* one carrier in each picture.  UINT_MAX leaves room for the message, read *)
(* once, between two returns of frameNumber to 0.                           *)
EXTENDS LiveSubsession, TLC

CONSTANTS c1, c2, c3

MCOneCarrier == [p \in 0 .. Pictures |-> {1}]
=============================================================================
