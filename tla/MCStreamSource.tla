--------------------------- MODULE MCStreamSource ---------------------------
(* Two sources, one after the other.  Every pass over the video has room    *)
(* for the message, though a single picture may have no carrier at all.     *)
EXTENDS StreamSource, TLC

CONSTANTS s1, s2

MCCarriers == (0 :> {0, 1}) @@ (1 :> {1, 2}) @@ (2 :> {2}) 
=============================================================================
