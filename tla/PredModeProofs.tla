--------------------------- MODULE PredModeProofs ---------------------------
(***************************************************************************)
(* One mode, one bit.  Both directions of the embedding are finite tables, *)
(* so the provers walk through them, one set of neighbours at a time.      *)
(***************************************************************************)
EXTENDS PredMode, TLAPS

(***************************************************************************)
(* The mode that embedding a bit leaves is one the neighbours allow, and   *)
(* the decoder counts it and reads that bit from it.                       *)
(***************************************************************************)
Carries(available, embedded, decoded, bit) ==
  /\ embedded \in available
  /\ decoded # Invalid /\ Counts(decoded) /\ DecodedBit(decoded) = bit


LumaCarries(n, mode, bit) ==
  Carries(predict_16x16_mode_available(n), ebi_estegano(n, FALSE, mode, bit),
          DecodedLuma(n, LumaCode(ebi_estegano(n, FALSE, mode, bit))), bit)

\* Whatever luma mode x264 prefers, the bit is embedded in a mode that carries it
\* (ebi_estegano and ff_h264_check_intra_pred_mode).
THEOREM LumaBit ==
  ASSUME NEW n \in Neighbours, Reads(n), NEW mode \in predict_16x16_mode_available(n),
         NEW bit \in {0, 1}
  PROVE  LumaCarries(n, mode, bit)
<1> USE DEF LumaCarries, Carries, predict_16x16_mode_available,
            ModesAvailable, ebi_estegano, LongModes, DecodedLuma, LumaCode, LumaOfCode, ff_h264_check_intra_pred_mode, CheckTop,
            WithoutTop, WithoutLeft, HasTop, HasLeft, Invalid, Counts, DecodedBit,
            I_PRED_16x16_V, I_PRED_16x16_H, I_PRED_16x16_DC, I_PRED_CHROMA_DC,
            I_PRED_CHROMA_H, I_PRED_CHROMA_V, P, DC_LEFT, DC_TOP, DC_128
<1>1. CASE n = "left" BY <1>1 DEF LumaLeft
<1>2. CASE n = "top" BY <1>2 DEF LumaTop
<1>3. CASE n = "left_top" BY <1>3 DEF LumaShort
<1>4. CASE n = "all" BY <1>4 DEF LumaLong
<1> QED BY <1>1, <1>2, <1>3, <1>4 DEF Neighbours, Reads

\* An answer that is neither 0 nor 1 leaves the preferred mode alone.
LEMMA LumaAlone ==
  ASSUME NEW n \in Neighbours, NEW mode
  PROVE  ebi_estegano(n, FALSE, mode, 2) = mode
BY DEF ebi_estegano, LongModes, LumaLeft, LumaTop, LumaShort, LumaLong

\* The decoder passes over exactly the modes that were asked to carry no bit.
THEOREM LumaCountedAlike ==
  ASSUME NEW n \in Neighbours, NEW mode \in predict_16x16_mode_available(n)
  PROVE  Reads(n) <=> Counts(DecodedLuma(n, LumaCode(mode)))
<1> USE DEF Reads, predict_16x16_mode_available,
            ModesAvailable, ebi_estegano, LongModes, DecodedLuma, LumaCode, LumaOfCode, ff_h264_check_intra_pred_mode, CheckTop,
            WithoutTop, WithoutLeft, HasTop, HasLeft, Invalid, Counts, DecodedBit,
            I_PRED_16x16_V, I_PRED_16x16_H, I_PRED_16x16_DC, I_PRED_CHROMA_DC,
            I_PRED_CHROMA_H, I_PRED_CHROMA_V, P, DC_LEFT, DC_TOP, DC_128
<1>1. CASE n = "none" BY <1>1
<1>2. CASE n = "left" BY <1>2
<1>3. CASE n = "top" BY <1>3
<1>4. CASE n = "left_top" BY <1>4
<1>5. CASE n = "all" BY <1>5
<1> QED BY <1>1, <1>2, <1>3, <1>4, <1>5 DEF Neighbours

\* The modes are numbers up to DC_128, and those written numbers up to P.
LEMMA LumaNumbers ==
  ASSUME NEW n \in Neighbours, NEW mode \in predict_16x16_mode_available(n)
  PROVE  mode \in 0 .. DC_128
BY DEF Neighbours, predict_16x16_mode_available, ModesAvailable,
       I_PRED_16x16_V, I_PRED_16x16_H, I_PRED_16x16_DC, I_PRED_CHROMA_DC,
       I_PRED_CHROMA_H, I_PRED_CHROMA_V, P, DC_LEFT, DC_TOP, DC_128

ChromaCarries(n, mode, bit) ==
  Carries(predict_chroma_mode_available(n), EmbedChroma(n, FALSE, mode, bit),
          DecodedChroma(n, ChromaCode(EmbedChroma(n, FALSE, mode, bit))), bit)

\* Whatever chroma mode x264 prefers, the bit is embedded in a mode that carries it
\* (x264_mb_analyse_intra_chroma and ff_h264_check_intra_pred_mode).
THEOREM ChromaBit ==
  ASSUME NEW n \in Neighbours, Reads(n), NEW mode \in predict_chroma_mode_available(n),
         NEW bit \in {0, 1}
  PROVE  ChromaCarries(n, mode, bit)
<1> USE DEF ChromaCarries, Carries, predict_chroma_mode_available,
            ModesAvailable, EmbedChroma, LongModes, DecodedChroma, ChromaCode, ff_h264_check_intra_pred_mode, CheckTop,
            WithoutTop, WithoutLeft, HasTop, HasLeft, Invalid, Counts, DecodedBit,
            I_PRED_16x16_V, I_PRED_16x16_H, I_PRED_16x16_DC, I_PRED_CHROMA_DC,
            I_PRED_CHROMA_H, I_PRED_CHROMA_V, P, DC_LEFT, DC_TOP, DC_128
<1>1. CASE n = "left" BY <1>1 DEF ChromaLeft
<1>2. CASE n = "top" BY <1>2 DEF ChromaTop
<1>3. CASE n = "left_top" BY <1>3 DEF ChromaShort
<1>4. CASE n = "all" BY <1>4 DEF ChromaLong
<1> QED BY <1>1, <1>2, <1>3, <1>4 DEF Neighbours, Reads

\* An answer that is neither 0 nor 1 leaves the preferred mode alone.
LEMMA ChromaAlone ==
  ASSUME NEW n \in Neighbours, NEW mode
  PROVE  EmbedChroma(n, FALSE, mode, 2) = mode
BY DEF EmbedChroma, LongModes, ChromaLeft, ChromaTop, ChromaShort, ChromaLong

\* The decoder passes over exactly the modes that were asked to carry no bit.
THEOREM ChromaCountedAlike ==
  ASSUME NEW n \in Neighbours, NEW mode \in predict_chroma_mode_available(n)
  PROVE  Reads(n) <=> Counts(DecodedChroma(n, ChromaCode(mode)))
<1> USE DEF Reads, predict_chroma_mode_available,
            ModesAvailable, EmbedChroma, LongModes, DecodedChroma, ChromaCode, ff_h264_check_intra_pred_mode, CheckTop,
            WithoutTop, WithoutLeft, HasTop, HasLeft, Invalid, Counts, DecodedBit,
            I_PRED_16x16_V, I_PRED_16x16_H, I_PRED_16x16_DC, I_PRED_CHROMA_DC,
            I_PRED_CHROMA_H, I_PRED_CHROMA_V, P, DC_LEFT, DC_TOP, DC_128
<1>1. CASE n = "none" BY <1>1
<1>2. CASE n = "left" BY <1>2
<1>3. CASE n = "top" BY <1>3
<1>4. CASE n = "left_top" BY <1>4
<1>5. CASE n = "all" BY <1>5
<1> QED BY <1>1, <1>2, <1>3, <1>4, <1>5 DEF Neighbours

\* The modes are numbers up to DC_128, and those written numbers up to P.
LEMMA ChromaNumbers ==
  ASSUME NEW n \in Neighbours, NEW mode \in predict_chroma_mode_available(n)
  PROVE  mode \in 0 .. DC_128
BY DEF Neighbours, predict_chroma_mode_available, ModesAvailable,
       I_PRED_16x16_V, I_PRED_16x16_H, I_PRED_16x16_DC, I_PRED_CHROMA_DC,
       I_PRED_CHROMA_H, I_PRED_CHROMA_V, P, DC_LEFT, DC_TOP, DC_128

LEMMA CodeNumbers ==
  ASSUME NEW mode \in 0 .. DC_128
  PROVE  /\ LumaCode(mode) \in 0 .. DC_128 /\ LumaCode(mode) <= P
         /\ ChromaCode(mode) \in 0 .. DC_128 /\ ChromaCode(mode) <= P
BY DEF LumaCode, ChromaCode, DC_128, P, I_PRED_16x16_DC, I_PRED_CHROMA_DC
=============================================================================
