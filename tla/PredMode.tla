------------------------------ MODULE PredMode ------------------------------
(***************************************************************************)
(* How one intra prediction mode carries one bit.  libx264 (encoder/       *)
(* analyse.c) chooses a mode among those the neighbours of the macroblock  *)
(* allow, asks for the next bit and replaces the mode by one with the      *)
(* right parity; the bitstream has one code for all DC variants; ffmpeg    *)
(* (libavcodec/h264_parse.c, h264_cabac.c, h264_cavlc.c) finds the variant *)
(* again from the neighbours and takes the bit from its own numbering.     *)
(* Both luma (16x16) and chroma modes are numbers; encoder and decoder     *)
(* number the luma modes differently.                                      *)
(***************************************************************************)
EXTENDS Integers

\* Which neighbours intra prediction may use; "all" has the top left one too.
Neighbours == {"none", "left", "top", "left_top", "all"}
HasTop(n) == n \in {"top", "left_top", "all"}
HasLeft(n) == n \in {"left", "left_top", "all"}

\* The encoder's numbers of the luma modes ...
I_PRED_16x16_V == 0
I_PRED_16x16_H == 1
I_PRED_16x16_DC == 2

\* ... of the chroma modes, which are also the decoder's for both planes ...
I_PRED_CHROMA_DC == 0
I_PRED_CHROMA_H == 1
I_PRED_CHROMA_V == 2

\* ... and those the two share.
P == 3
DC_LEFT == 4
DC_TOP == 5
DC_128 == 6

\* The modes allowed: for luma and chroma the same up to their numbers.
ModesAvailable(n, V, H, DC) ==
  CASE n = "none" -> {DC_128}
    [] n = "left" -> {DC_LEFT, H}
    [] n = "top" -> {DC_TOP, V}
    [] n = "left_top" -> {V, H, DC}
    [] n = "all" -> {V, H, DC, P}

predict_16x16_mode_available(n) ==
  ModesAvailable(n, I_PRED_16x16_V, I_PRED_16x16_H, I_PRED_16x16_DC)

predict_chroma_mode_available(n) ==
  ModesAvailable(n, I_PRED_CHROMA_V, I_PRED_CHROMA_H, I_PRED_CHROMA_DC)

\* Mutant: the only mode without neighbours is asked to carry a bit.
ReadsAlways(n) == n \in Neighbours

\* Without neighbours there is one mode, and no bit is read for it.
Reads(n) == n # "none"

\* i16x16_mod3, longPredictMode: all modes are available and none is special.
LongModes(n, lossless) == n = "all" /\ ~lossless

\* Mutant: the plane mode is forgotten.
LumaLongKeepsPlane(mode, bit) ==
  IF bit = 0 /\ mode = I_PRED_16x16_H THEN I_PRED_16x16_V
  ELSE IF bit = 1 /\ mode \in {I_PRED_16x16_V, I_PRED_16x16_DC} THEN I_PRED_16x16_H
  ELSE mode

\* The mode that ebi_estegano leaves; bit is 0, 1 or neither.
LumaLong(mode, bit) ==
  IF bit = 0 /\ mode \in {I_PRED_16x16_H, P} THEN I_PRED_16x16_V
  ELSE IF bit = 1 /\ mode \in {I_PRED_16x16_V, I_PRED_16x16_DC} THEN I_PRED_16x16_H
  ELSE mode

LumaLeft(mode, bit) ==
  IF bit = 0 THEN DC_LEFT ELSE IF bit = 1 THEN I_PRED_16x16_H ELSE mode

LumaTop(mode, bit) ==
  IF bit = 0 THEN I_PRED_16x16_V ELSE IF bit = 1 THEN DC_TOP ELSE mode

LumaShort(mode, bit) ==
  IF bit = 0 /\ mode = I_PRED_16x16_H THEN I_PRED_16x16_V
  ELSE IF bit = 1 THEN I_PRED_16x16_H
  ELSE mode

ebi_estegano(n, lossless, mode, bit) ==
  IF LongModes(n, lossless) THEN LumaLong(mode, bit)
  ELSE IF n = "none" THEN mode
  ELSE IF n = "left" THEN LumaLeft(mode, bit)
  ELSE IF n = "top" THEN LumaTop(mode, bit)
  ELSE LumaShort(mode, bit)

\* Mutant: bit 0 leaves the plane mode.
ChromaLongKeepsPlane(mode, bit) ==
  IF bit = 0 /\ mode = I_PRED_CHROMA_H THEN I_PRED_16x16_V
  ELSE IF bit = 1 /\ mode \in {I_PRED_CHROMA_V, I_PRED_CHROMA_DC} THEN I_PRED_16x16_H
  ELSE mode

\* The same for chroma; bit 0 turns H and P into I_PRED_16x16_V, which is
\* the number of the chroma mode DC.
ChromaLong(mode, bit) ==
  IF bit = 0 /\ mode \in {I_PRED_CHROMA_H, P} THEN I_PRED_16x16_V
  ELSE IF bit = 1 /\ mode \in {I_PRED_CHROMA_V, I_PRED_CHROMA_DC} THEN I_PRED_16x16_H
  ELSE mode

ChromaLeft(mode, bit) ==
  IF bit = 0 /\ mode = I_PRED_CHROMA_H THEN DC_LEFT
  ELSE IF bit = 1 /\ mode = DC_LEFT THEN I_PRED_CHROMA_H
  ELSE mode

\* Mutant: DC_TOP taken for an even mode, as DC_LEFT is.
ChromaTopAsLeft(mode, bit) ==
  IF bit = 0 /\ mode = I_PRED_CHROMA_V THEN DC_TOP
  ELSE IF bit = 1 /\ mode = DC_TOP THEN I_PRED_CHROMA_V
  ELSE mode

ChromaTop(mode, bit) ==
  IF bit = 0 /\ mode = DC_TOP THEN I_PRED_CHROMA_V
  ELSE IF bit = 1 /\ mode = I_PRED_CHROMA_V THEN DC_TOP
  ELSE mode

ChromaShort(mode, bit) ==
  IF bit = 0 /\ mode = I_PRED_CHROMA_H THEN I_PRED_CHROMA_V
  ELSE IF bit = 1 THEN I_PRED_CHROMA_H
  ELSE mode

EmbedChroma(n, lossless, mode, bit) ==
  IF LongModes(n, lossless) THEN ChromaLong(mode, bit)
  ELSE IF n = "none" THEN mode
  ELSE IF n = "left" THEN ChromaLeft(mode, bit)
  ELSE IF n = "top" THEN ChromaTop(mode, bit)
  ELSE ChromaShort(mode, bit)

\* Mutant: the DC variants are written as they are.
LumaCodeUnfixed(mode) == mode

\* What is written: x264_mb_pred_mode16x16_fix, x264_mb_chroma_pred_mode_fix.
LumaCode(mode) == IF mode > P THEN I_PRED_16x16_DC ELSE mode
ChromaCode(mode) == IF mode > P THEN I_PRED_CHROMA_DC ELSE mode

\* ff_h264_i_mb_type_info: the decoder's number of a luma code.
LumaOfCode(code) ==
  CASE code = I_PRED_16x16_V -> I_PRED_CHROMA_V
    [] code = I_PRED_16x16_H -> I_PRED_CHROMA_H
    [] code = I_PRED_16x16_DC -> I_PRED_CHROMA_DC
    [] code = P -> P

Invalid == -1

\* ff_h264_check_intra_pred_mode: the tables top and left, in this order.
WithoutTop(mode) ==
  IF mode = I_PRED_CHROMA_DC THEN DC_LEFT
  ELSE IF mode = I_PRED_CHROMA_H THEN I_PRED_CHROMA_H ELSE Invalid

\* Mutant: a DC mode without any neighbour keeps the number of DC_LEFT.
WithoutLeftKeepsDC(mode) ==
  IF mode = I_PRED_CHROMA_DC THEN DC_TOP
  ELSE IF mode \in {I_PRED_CHROMA_V, DC_LEFT} THEN mode ELSE Invalid

WithoutLeft(mode) ==
  IF mode = I_PRED_CHROMA_DC THEN DC_TOP
  ELSE IF mode = I_PRED_CHROMA_V THEN I_PRED_CHROMA_V
  ELSE IF mode = DC_LEFT THEN DC_128 ELSE Invalid

CheckTop(n, mode) == IF HasTop(n) THEN mode ELSE WithoutTop(mode)

ff_h264_check_intra_pred_mode(n, mode) ==
  IF CheckTop(n, mode) = Invalid THEN Invalid
  ELSE IF HasLeft(n) THEN CheckTop(n, mode) ELSE WithoutLeft(CheckTop(n, mode))

\* The bit handed to decode_msg_add_bit; DC_128 is passed over.
Counts(mode) == mode # DC_128
DecodedBit(mode) == mode % 2

DecodedLuma(n, code) == ff_h264_check_intra_pred_mode(n, LumaOfCode(code))
DecodedChroma(n, code) == ff_h264_check_intra_pred_mode(n, code)

=============================================================================
