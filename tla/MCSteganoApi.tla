---------------------------- MODULE MCSteganoApi ----------------------------
(* A large and a small video, a sound file and a path that does not exist.  *)
(* The long file is one bit too long for the small video: it has as many    *)
(* carriers as bits, and the read that would end the message is missing.    *)
EXTENDS SteganoApi, TLC

CONSTANTS large, small, sound, nowhere, short, long, k1, k2, p1, p2

MCKind == (large :> "video") @@ (small :> "video") @@ (sound :> "audio")
            @@ (nowhere :> "missing")
MCSize == (large :> 2) @@ (small :> 1) @@ (sound :> 0) @@ (nowhere :> 0)
MCCounted == (large :> 40) @@ (small :> 20) @@ (sound :> 0) @@ (nowhere :> 0)
MCCarriersIn == (large :> 12) @@ (small :> 6) @@ (sound :> 0) @@ (nowhere :> 0)
MCDerived == [v \in Video |-> IF v = large THEN p1 ELSE p2]
MCLength == (short :> 4) @@ (long :> 6)
=============================================================================
