------------------------- MODULE MCMacroblockCoder -------------------------
(***************************************************************************)
(* Frames of two by two macroblocks: every set of neighbours that one      *)
(* slice per frame can produce occurs, and rows have more than one         *)
(* macroblock.  The messages end within the frames that are encoded, unless*)
(* a row that is encoded again takes some of their bits.                   *)
(***************************************************************************)
EXTENDS MacroblockCoder

MCBodies == { << 0, 1, 1 >>, << 1, 0, 0, 1, 0 >> }
=============================================================================
