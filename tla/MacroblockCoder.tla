-------------------------- MODULE MacroblockCoder --------------------------
(***************************************************************************)
(* libx264's encoder as far as it touches the message: the slice loop      *)
(* (encoder/encoder.c) analyses one macroblock after the other, the        *)
(* analysis (encoder/analyse.c) reads one bit for the luma mode of a 16x16 *)
(* macroblock and one for the chroma mode of every intra macroblock, and   *)
(* the chosen modes are written to the bitstream.  When a row turns out    *)
(* too large for the rate control (VBV) its part of the bitstream is taken *)
(* back and the row is analysed again, but the message's cursor is not.    *)
(*                                                                         *)
(* The decoder is a function of the bitstream: Recovered is what it hands  *)
(* to decode_msg_add_bit.  One thread and one slice per frame, as          *)
(* libavcodec/libx264.c and clsX264encoder.cpp configure it.               *)
(***************************************************************************)
EXTENDS PredMode, MessageReader, FiniteSets

CONSTANTS
  Width, Height,     \* of a frame, in macroblocks
  Bodies,            \* the messages the encoder may be given
  MaxMacroblocks,    \* bound: macroblocks that are encoded
  MaxReencodes       \* bound: rows that are encoded again

ASSUME CoderAssumption ==
  /\ Width \in Nat \ {0} /\ Height \in Nat \ {0}
  /\ Bodies \subseteq Seq(Bit)
  /\ MaxMacroblocks \in Nat /\ MaxReencodes \in Nat

VARIABLES
  bitstream,   \* the macroblocks written and not taken back
  stage,       \* "analyse", "chroma" or "write": where the slice loop is
  current,     \* the macroblock being encoded
  reencodes,   \* rows that have been encoded again
  CHROMA444    \* the video has no separate chroma mode

coderVars == << bitstream, stage, current, reencodes, CHROMA444 >>
vars == << messageVars, coderVars >>

Kinds == {"I_16x16", "I_NxN", "inter"}

(***************************************************************************)
(* A macroblock: its kind, its neighbours and the modes that have been     *)
(* chosen.  lumaFrom and chromaFrom are the positions in the body of the   *)
(* bits that were read for them, 0 if there was none: history, on which no *)
(* step depends.                                                           *)
(***************************************************************************)
NoMacroblock ==
  [kind |-> "inter", n |-> "none", luma |-> DC_128, chroma |-> DC_128,
   lumaFrom |-> 0, chromaFrom |-> 0]

\* The place of the next macroblock, in raster order.
Column == Len(bitstream) % Width
Row == (Len(bitstream) \div Width) % Height

\* Every macroblock before it in the frame is in the same slice.
NeighboursHere ==
  IF Row = 0 THEN IF Column = 0 THEN "none" ELSE "left"
             ELSE IF Column = 0 THEN "top" ELSE "all"

\* Which bit of the body this read hands out: none when it is past the end.
From(bit) == IF ~gettingCapacity /\ bit # NoBit THEN cursor + 1 ELSE 0

Init ==
  /\ body \in Bodies
  /\ cursor = 0
  /\ isInitialized \in BOOLEAN
  /\ isSendingMessage \in BOOLEAN
  /\ isSendingMessage => isInitialized
  /\ gettingCapacity \in BOOLEAN
  /\ gettingCapacity => ~isSendingMessage
  /\ numberOfEmbededBits = 0
  /\ bitstream = << >>
  /\ stage = "analyse"
  /\ current = NoMacroblock
  /\ reencodes = 0
  /\ CHROMA444 \in BOOLEAN

Chosen(kind, luma, from) ==
  [kind |-> kind, n |-> NeighboursHere, luma |-> luma, chroma |-> DC_128,
   lumaFrom |-> from, chromaFrom |-> 0]

AfterLuma(kind) == IF kind = "inter" \/ CHROMA444 THEN "write" ELSE "chroma"

(***************************************************************************)
(* x264_macroblock_analyse up to x264_analyse_update_cache.  The costs of  *)
(* the modes are arbitrary; an inter macroblock that the intra refresh     *)
(* turns into an intra one ends here as that intra macroblock, having read *)
(* nothing before.                                                         *)
(***************************************************************************)
AnalyseOther ==
  /\ stage = "analyse"
  /\ Len(bitstream) < MaxMacroblocks
  /\ \E kind \in Kinds \ {"I_16x16"} :
       /\ current' = Chosen(kind, DC_128, 0)
       /\ stage' = AfterLuma(kind)
  /\ UNCHANGED << messageVars, bitstream, reencodes, CHROMA444 >>

Analyse16x16 ==
  /\ stage = "analyse"
  /\ Len(bitstream) < MaxMacroblocks
  /\ \E preferred \in predict_16x16_mode_available(NeighboursHere) :
       \/ /\ Reads(NeighboursHere)
          /\ \E bit \in Bit \cup {NoBit} :
               /\ messageReadBit(bit)
               /\ current' = Chosen("I_16x16",
                                    ebi_estegano(NeighboursHere, FALSE, preferred, bit),
                                    From(bit))
       \/ /\ ~Reads(NeighboursHere)
          /\ current' = Chosen("I_16x16", preferred, 0)
          /\ UNCHANGED messageVars
  /\ stage' = AfterLuma("I_16x16")
  /\ UNCHANGED << bitstream, reencodes, CHROMA444 >>

\* x264_mb_analyse_intra_chroma, called for an intra macroblock by
\* x264_analyse_update_cache, once for each analysis.
AnalyseChroma ==
  /\ stage = "chroma"
  /\ \E preferred \in predict_chroma_mode_available(current.n) :
       \/ /\ Reads(current.n)
          /\ \E bit \in Bit \cup {NoBit} :
               /\ messageReadBit(bit)
               /\ current' = [current EXCEPT
                                !.chroma = EmbedChroma(current.n, FALSE, preferred, bit),
                                !.chromaFrom = From(bit)]
       \/ /\ ~Reads(current.n)
          /\ current' = [current EXCEPT !.chroma = preferred]
          /\ UNCHANGED messageVars
  /\ stage' = "write"
  /\ UNCHANGED << bitstream, reencodes, CHROMA444 >>

\* What the bitstream holds of a macroblock.
Written(mb) == [mb EXCEPT !.luma = LumaCode(mb.luma), !.chroma = ChromaCode(mb.chroma)]

\* x264_macroblock_encode and _write, then x264_ratecontrol_mb content.
WriteMacroblock ==
  /\ stage = "write"
  /\ bitstream' = Append(bitstream, Written(current))
  /\ current' = NoMacroblock
  /\ stage' = "analyse"
  /\ UNCHANGED << messageVars, reencodes, CHROMA444 >>

(***************************************************************************)
(* At the end of a row x264_ratecontrol_mb may ask for the row again: the  *)
(* bitstream is restored to the backup made at its first macroblock.       *)
(***************************************************************************)
\* Mutant: the backup of the frame's first row is restored.
RowStartOfFrame == SubSeq(bitstream, 1, Len(bitstream) - Column - Row * Width)

RowStart == SubSeq(bitstream, 1, Len(bitstream) - Column)

ReencodeRow ==
  /\ stage = "write"
  /\ Column = Width - 1
  /\ reencodes < MaxReencodes
  /\ reencodes' = reencodes + 1
  /\ bitstream' = RowStart
  /\ current' = NoMacroblock
  /\ stage' = "analyse"
  /\ UNCHANGED << messageVars, CHROMA444 >>

Next ==
  \/ AnalyseOther
  \/ Analyse16x16
  \/ AnalyseChroma
  \/ WriteMacroblock
  \/ ReencodeRow

Spec == Init /\ [][Next]_vars

-----------------------------------------------------------------------------
(* The decoder: h264_cabac.c and h264_cavlc.c, luma before chroma *)

Carrier(mode, from) ==
  IF Counts(mode) THEN << [bit |-> DecodedBit(mode), from |-> from] >> ELSE << >>

LumaCarrier(mb) ==
  IF mb.kind = "I_16x16"
  THEN Carrier(DecodedLuma(mb.n, mb.luma), mb.lumaFrom) ELSE << >>

ChromaCarrier(mb) ==
  IF mb.kind # "inter" /\ ~CHROMA444
  THEN Carrier(DecodedChroma(mb.n, mb.chroma), mb.chromaFrom) ELSE << >>

CarriersOf(mbs) ==
  LET carriers[i \in 0 .. Len(mbs)] ==
        IF i = 0 THEN << >>
        ELSE carriers[i - 1] \o LumaCarrier(mbs[i]) \o ChromaCarrier(mbs[i])
  IN  carriers[Len(mbs)]

\* The carriers of what is written, and of the macroblock in progress.
Recovered == CarriersOf(bitstream)

InProgress ==
  CASE stage = "analyse" -> << >>
    [] stage = "chroma" -> LumaCarrier(Written(current))
    [] stage = "write" ->
         LumaCarrier(Written(current)) \o ChromaCarrier(Written(current))

AllCarriers == Recovered \o InProgress

-----------------------------------------------------------------------------
(* Properties *)

\* The slice loop keeps to its types: modes that are coded, kinds, positions.
Macroblocks ==
  [kind : Kinds, n : Neighbours, luma : 0 .. DC_128, chroma : 0 .. DC_128,
   lumaFrom : 0 .. length, chromaFrom : 0 .. length]

TypeOK ==
  /\ body \in Seq(Bit) /\ cursor \in 0 .. length
  /\ isSendingMessage \in BOOLEAN /\ isInitialized \in BOOLEAN
  /\ gettingCapacity \in BOOLEAN /\ numberOfEmbededBits \in Nat
  /\ bitstream \in Seq(Macroblocks)
  /\ \A i \in 1 .. Len(bitstream) : bitstream[i].luma <= P /\ bitstream[i].chroma <= P
  /\ stage \in {"analyse", "chroma", "write"}
  /\ current \in Macroblocks
  /\ reencodes \in 0 .. MaxReencodes
  /\ CHROMA444 \in BOOLEAN

(***************************************************************************)
(* One mode, one bit: whatever mode the encoder preferred, the mode it     *)
(* leaves once it has asked for a bit is one the neighbours allow, and     *)
(* from what is written of it the decoder reads that bit of the message    *)
(* (ebi_estegano, x264_mb_analyse_intra_chroma; h264_cabac.c).             *)
(***************************************************************************)
CarrierOf(from) == << [bit |-> body[from], from |-> from] >>

ModesCarryBits ==
  /\ current.lumaFrom # 0 =>
       /\ current.luma \in predict_16x16_mode_available(current.n)
       /\ LumaCarrier(Written(current)) = CarrierOf(current.lumaFrom)
  /\ current.chromaFrom # 0 =>
       /\ current.chroma \in predict_chroma_mode_available(current.n)
       /\ ChromaCarrier(Written(current)) = CarrierOf(current.chromaFrom)

(***************************************************************************)
(* The decoder passes over exactly the modes for which the encoder did not *)
(* ask for a bit, whatever was preferred and whether there was a bit.      *)
(***************************************************************************)
BothCountAlike ==
  /\ stage # "analyse" /\ current.kind = "I_16x16" =>
       (LumaCarrier(Written(current)) # << >> <=> Reads(current.n))
  /\ stage = "write" /\ current.kind # "inter" /\ ~CHROMA444 =>
       (ChromaCarrier(Written(current)) # << >> <=> Reads(current.n))

(***************************************************************************)
(* The encoder implements the channel on which HiddenChannel builds: what  *)
(* the decoder will recover grows by exactly one carrier with every read,  *)
(* and by nothing else.  Only encoding a row again is no step of the       *)
(* channel, so a video without such a row is one of CarrierChannel.        *)
(***************************************************************************)
Channel ==
  INSTANCE CarrierChannel WITH
    video <- [i \in 1 .. Len(AllCarriers) |-> AllCarriers[i].bit]

ImplementsChannel ==
  /\ Channel!ChannelInit
  /\ [][reencodes' = reencodes => Channel!EncodeBit]_(Channel!channelVars)

(***************************************************************************)
(* Even with rows encoded again: every carrier for which a bit was read    *)
(* gives back that bit, the bits appear in the order of the message, none  *)
(* twice, and once the message is over no carrier holds any of it.         *)
(***************************************************************************)
CarriedInOrder ==
  \A i \in 1 .. Len(AllCarriers) :
    /\ AllCarriers[i].from # 0 => AllCarriers[i].bit = body[AllCarriers[i].from]
    /\ \A j \in 1 .. i - 1 :
         AllCarriers[i].from # 0 =>
           AllCarriers[j].from # 0 /\ AllCarriers[j].from < AllCarriers[i].from

(***************************************************************************)
(* What encoding a row again costs: the bits read for the row it takes     *)
(* back, at most two for each of its macroblocks, are in no carrier; all   *)
(* others are.  So a message is embedded whole unless a row is encoded     *)
(* again, although startEncoding then still reports success.               *)
(***************************************************************************)
Missing == cursor - Cardinality({i \in 1 .. Len(AllCarriers) : AllCarriers[i].from # 0})

OnlyRowsAreLost == Missing \in 0 .. 2 * Width * reencodes

(***************************************************************************)
(* The dry run of getCapacity counts what the decoder would find: without  *)
(* a row encoded again the counter is the number of carriers, and it is    *)
(* never below it.                                                         *)
(***************************************************************************)
CounterIsCapacity ==
  /\ Len(AllCarriers) <= numberOfEmbededBits
  /\ reencodes = 0 => Len(AllCarriers) = numberOfEmbededBits
=============================================================================
