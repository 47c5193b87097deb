----------------------- MODULE MacroblockCoderProofs -----------------------
(***************************************************************************)
(* What MacroblockCoder promises, for every frame size and every message.  *)
(* First of the macroblock in progress: the modes that were asked for a    *)
(* bit carry it, and no others are counted (IInv).  From this, of the      *)
(* whole bitstream: a step leaves the carriers alone, adds the one whose   *)
(* mode asked for a bit, or takes those of a row back (CarriersStep).  The *)
(* rest of the theorems rest on that lemma and never look at a macroblock  *)
(* again: the order of the bits, what a row encoded again costs, what the  *)
(* counter counts, and the refinement of CarrierChannel.                   *)
(***************************************************************************)
EXTENDS MacroblockCoder, PredModeProofs, Recursion, FiniteSetTheorems

(***************************************************************************)
(* The modes in progress are modes the neighbours allow, as far as they    *)
(* have been chosen.                                                       *)
(***************************************************************************)
ModesAllowed ==
  /\ stage = "analyse" => current = NoMacroblock
  /\ stage = "chroma" => /\ current.kind # "inter" /\ ~CHROMA444
                         /\ current.chromaFrom = 0
  /\ current.kind = "I_16x16" =>
       current.luma \in predict_16x16_mode_available(current.n)
  /\ stage = "write" /\ current.kind # "inter" /\ ~CHROMA444 =>
       current.chroma \in predict_chroma_mode_available(current.n)

IInv == TypeOK /\ ModesAllowed /\ ModesCarryBits

-----------------------------------------------------------------------------
(* The reader *)

\* An answer of messageReadBit that is a bit of the message is the next one.
LEMMA ReaderStep ==
  ASSUME TypeOK, NEW bit \in Bit \cup {NoBit}, messageReadBit(bit)
  PROVE  /\ body' = body /\ cursor' \in 0 .. length
         /\ isSendingMessage' \in BOOLEAN /\ isInitialized' \in BOOLEAN
         /\ gettingCapacity' \in BOOLEAN /\ numberOfEmbededBits' \in Nat
         /\ From(bit) \in 0 .. length
         /\ From(bit) # 0 => bit \in {0, 1} /\ bit = body[From(bit)]
<1> USE DEF TypeOK, messageReadBit, length
<1>0. /\ body' = body /\ gettingCapacity' \in BOOLEAN /\ numberOfEmbededBits' \in Nat
      /\ Len(body) \in Nat /\ cursor \in 0 .. Len(body)
  OBVIOUS
<1>1. CASE ReadNext(bit)
  <2>1. /\ ~gettingCapacity /\ cursor < Len(body) /\ cursor' = cursor + 1
        /\ bit = body[cursor + 1]
    BY <1>1 DEF ReadNext
  <2>2. cursor + 1 \in 1 .. Len(body)
    BY <1>0, <2>1
  <2>3. bit \in {0, 1} /\ bit # NoBit
    BY <2>1, <2>2 DEF Bit, NoBit
  <2>4. From(bit) = cursor + 1
    BY <2>1, <2>3 DEF From
  <2>5. isSendingMessage' \in BOOLEAN /\ isInitialized' \in BOOLEAN
    BY <1>1 DEF ReadNext
  <2>6. cursor' \in 0 .. Len(body) /\ From(bit) \in 0 .. Len(body)
    BY <1>0, <2>1, <2>2, <2>4
  <2> QED
    BY <1>0, <2>1, <2>3, <2>4, <2>5, <2>6
<1>2. CASE ReadRandom(bit) \/ ReadIdle(bit) \/ ReadPastEnd(bit)
  <2>1. cursor' = cursor /\ From(bit) = 0
    BY <1>2 DEF ReadRandom, ReadIdle, ReadPastEnd, From
  <2>2. isSendingMessage' \in BOOLEAN /\ isInitialized' \in BOOLEAN
    BY <1>2 DEF ReadRandom, ReadIdle, ReadPastEnd
  <2> QED
    BY <1>0, <2>1, <2>2
<1> QED
  BY <1>1, <1>2

-----------------------------------------------------------------------------
(* What a macroblock yields *)

LEMMA WrittenFields ==
  ASSUME NEW mb \in Macroblocks
  PROVE  /\ Written(mb) \in Macroblocks
         /\ Written(mb).luma = LumaCode(mb.luma) /\ Written(mb).luma <= P
         /\ Written(mb).chroma = ChromaCode(mb.chroma) /\ Written(mb).chroma <= P
         /\ Written(mb).kind = mb.kind /\ Written(mb).n = mb.n
         /\ Written(mb).lumaFrom = mb.lumaFrom /\ Written(mb).chromaFrom = mb.chromaFrom
<1>1. mb.luma \in 0 .. DC_128 /\ mb.chroma \in 0 .. DC_128
  BY DEF Macroblocks
<1>2. /\ LumaCode(mb.luma) \in 0 .. DC_128 /\ LumaCode(mb.luma) <= P
      /\ ChromaCode(mb.chroma) \in 0 .. DC_128 /\ ChromaCode(mb.chroma) <= P
  BY <1>1, CodeNumbers
<1> HIDE DEF DC_128, P
<1> QED
  BY <1>2 DEF Written, Macroblocks

\* An embedded luma bit is in the carrier; likewise for chroma.
LEMMA LumaInCarrier ==
  ASSUME NEW mb \in Macroblocks, mb.kind = "I_16x16", Reads(mb.n),
         NEW mode \in predict_16x16_mode_available(mb.n), NEW bit \in {0, 1},
         mb.luma = ebi_estegano(mb.n, FALSE, mode, bit)
  PROVE  LumaCarrier(Written(mb)) = << [bit |-> bit, from |-> mb.lumaFrom] >>
<1>1. mb.n \in Neighbours
  BY DEF Macroblocks
<1>2. LumaCarries(mb.n, mode, bit)
  BY <1>1, LumaBit
<1>3. /\ Counts(DecodedLuma(mb.n, LumaCode(mb.luma)))
      /\ DecodedBit(DecodedLuma(mb.n, LumaCode(mb.luma))) = bit
  BY <1>2 DEF LumaCarries, Carries
<1> QED
  BY <1>3, WrittenFields DEF LumaCarrier, Carrier

LEMMA ChromaInCarrier ==
  ASSUME NEW mb \in Macroblocks, mb.kind # "inter", ~CHROMA444, Reads(mb.n),
         NEW mode \in predict_chroma_mode_available(mb.n), NEW bit \in {0, 1},
         mb.chroma = EmbedChroma(mb.n, FALSE, mode, bit)
  PROVE  ChromaCarrier(Written(mb)) = << [bit |-> bit, from |-> mb.chromaFrom] >>
<1>1. mb.n \in Neighbours
  BY DEF Macroblocks
<1>2. ChromaCarries(mb.n, mode, bit)
  BY <1>1, ChromaBit
<1>3. /\ Counts(DecodedChroma(mb.n, ChromaCode(mb.chroma)))
      /\ DecodedBit(DecodedChroma(mb.n, ChromaCode(mb.chroma))) = bit
  BY <1>2 DEF ChromaCarries, Carries
<1> QED
  BY <1>3, WrittenFields DEF ChromaCarrier, Carrier

\* Embedding never leaves a mode that the neighbours do not allow.
LEMMA LumaAllowed ==
  ASSUME NEW n \in Neighbours, Reads(n), NEW mode \in predict_16x16_mode_available(n),
         NEW bit \in Bit \cup {NoBit}
  PROVE  ebi_estegano(n, FALSE, mode, bit) \in predict_16x16_mode_available(n)
<1>1. CASE bit \in {0, 1}
  BY <1>1, LumaBit DEF LumaCarries, Carries
<1>2. CASE bit = 2
  BY <1>2, LumaAlone
<1> QED
  BY <1>1, <1>2 DEF Bit, NoBit

LEMMA ChromaAllowed ==
  ASSUME NEW n \in Neighbours, Reads(n), NEW mode \in predict_chroma_mode_available(n),
         NEW bit \in Bit \cup {NoBit}
  PROVE  EmbedChroma(n, FALSE, mode, bit) \in predict_chroma_mode_available(n)
<1>1. CASE bit \in {0, 1}
  BY <1>1, ChromaBit DEF ChromaCarries, Carries
<1>2. CASE bit = 2
  BY <1>2, ChromaAlone
<1> QED
  BY <1>1, <1>2 DEF Bit, NoBit

\* The place of the next macroblock is one the model of the modes knows.
LEMMA NeighboursHereKnown ==
  NeighboursHere \in Neighbours
BY DEF NeighboursHere, Neighbours

\* What the analysis starts from: nothing chosen, nothing read.
LEMMA NoMacroblockFields ==
  ASSUME length \in Nat
  PROVE  /\ NoMacroblock \in Macroblocks
         /\ NoMacroblock.kind = "inter"
         /\ NoMacroblock.lumaFrom = 0 /\ NoMacroblock.chromaFrom = 0
BY DEF NoMacroblock, Macroblocks, Kinds, Neighbours, DC_128

\* What the analysis leaves of a macroblock whose chroma mode is still open.
LEMMA ChosenFields ==
  ASSUME length \in Nat, NEW kind \in Kinds, NEW luma \in 0 .. DC_128,
         NEW from \in 0 .. length
  PROVE  /\ Chosen(kind, luma, from) \in Macroblocks
         /\ Chosen(kind, luma, from).kind = kind
         /\ Chosen(kind, luma, from).n = NeighboursHere
         /\ Chosen(kind, luma, from).luma = luma
         /\ Chosen(kind, luma, from).lumaFrom = from
         /\ Chosen(kind, luma, from).chromaFrom = 0
<1>1. DC_128 \in 0 .. DC_128
  BY DEF DC_128
<1>2. NeighboursHere \in Neighbours /\ 0 \in 0 .. length
  BY NeighboursHereKnown
<1> HIDE DEF DC_128
<1> QED
  BY <1>1, <1>2 DEF Chosen, Macroblocks

-----------------------------------------------------------------------------
(* The invariant *)

LEMMA IInvInit ==
  Init => IInv
<1> SUFFICES ASSUME Init PROVE IInv
  OBVIOUS
<1>1. body \in Seq(Bit) /\ length \in Nat
  BY CoderAssumption DEF Init, length
<1>2. current = NoMacroblock /\ stage = "analyse" /\ bitstream = << >>
  BY DEF Init
<1>3. NoMacroblock \in Macroblocks /\ NoMacroblock.kind = "inter"
      /\ NoMacroblock.lumaFrom = 0 /\ NoMacroblock.chromaFrom = 0
  BY <1>1, NoMacroblockFields
<1>4. TypeOK
  BY <1>1, <1>2, <1>3, CoderAssumption DEF Init, TypeOK
<1>5. ModesAllowed
  BY <1>2, <1>3 DEF ModesAllowed
<1>6. ModesCarryBits
  BY <1>2, <1>3 DEF ModesCarryBits
<1> QED
  BY <1>4, <1>5, <1>6 DEF IInv

\* Giving up the macroblock in progress, whatever happens to the bitstream.
LEMMA StartAgain ==
  ASSUME IInv, current' = NoMacroblock, stage' = "analyse",
         UNCHANGED << messageVars, CHROMA444 >>,
         bitstream' \in Seq(Macroblocks), reencodes' \in 0 .. MaxReencodes,
         \A i \in 1 .. Len(bitstream') :
           bitstream'[i].luma <= P /\ bitstream'[i].chroma <= P
  PROVE  IInv'
<1>0. body' = body /\ length' = length /\ length \in Nat
  BY DEF IInv, TypeOK, length, messageVars
<1>1. NoMacroblock \in Macroblocks /\ NoMacroblock.kind = "inter"
      /\ NoMacroblock.lumaFrom = 0 /\ NoMacroblock.chromaFrom = 0
  BY <1>0, NoMacroblockFields
<1>2. Macroblocks' = Macroblocks
  BY <1>0 DEF Macroblocks
<1>3. TypeOK'
  BY <1>0, <1>1, <1>2 DEF IInv, TypeOK, messageVars
<1>4. ModesAllowed'
  BY <1>1 DEF ModesAllowed
<1>5. ModesCarryBits'
  BY <1>1 DEF ModesCarryBits
<1> QED
  BY <1>3, <1>4, <1>5 DEF IInv

\* A carrier depends only on these fields of a macroblock.
LEMMA SameLuma ==
  ASSUME NEW mb \in Macroblocks, NEW other \in Macroblocks,
         other.kind = mb.kind, other.n = mb.n, other.luma = mb.luma,
         other.lumaFrom = mb.lumaFrom
  PROVE  LumaCarrier(Written(other)) = LumaCarrier(Written(mb))
<1>1. /\ Written(mb).kind = Written(other).kind /\ Written(mb).n = Written(other).n
      /\ Written(mb).luma = Written(other).luma
      /\ Written(mb).lumaFrom = Written(other).lumaFrom
  BY WrittenFields
<1> QED
  BY <1>1 DEF LumaCarrier

\* The analysis has chosen the luma mode, if there is one to choose.
LEMMA LumaStep ==
  ASSUME IInv, NEW kind \in Kinds, NEW luma \in 0 .. DC_128, NEW from \in 0 .. length,
         current' = Chosen(kind, luma, from), stage' = AfterLuma(kind),
         UNCHANGED << body, bitstream, reencodes, CHROMA444 >>,
         cursor' \in 0 .. length,
         isSendingMessage' \in BOOLEAN, isInitialized' \in BOOLEAN,
         gettingCapacity' \in BOOLEAN, numberOfEmbededBits' \in Nat,
         kind = "I_16x16" => luma \in predict_16x16_mode_available(NeighboursHere),
         from # 0 => /\ luma \in predict_16x16_mode_available(NeighboursHere)
                     /\ LumaCarrier(Written(Chosen(kind, luma, from))) =
                          << [bit |-> body[from], from |-> from] >>
  PROVE  IInv'
<1>0. length' = length /\ length \in Nat /\ Macroblocks' = Macroblocks
  BY DEF IInv, TypeOK, length, Macroblocks
<1>1. /\ current' \in Macroblocks /\ current'.kind = kind
      /\ current'.n = NeighboursHere /\ current'.luma = luma
      /\ current'.lumaFrom = from /\ current'.chromaFrom = 0
  BY <1>0, ChosenFields
<1>2. TypeOK'
  BY <1>0, <1>1 DEF IInv, TypeOK, AfterLuma
<1>3. ModesAllowed'
  BY <1>1 DEF ModesAllowed, AfterLuma
<1>4. LumaCarrier(Written(current))' = LumaCarrier(Written(current'))
  BY DEF LumaCarrier, Written
<1>5. ModesCarryBits'
  BY <1>1, <1>4 DEF ModesCarryBits, CarrierOf
<1> QED
  BY <1>2, <1>3, <1>5 DEF IInv

LEMMA AnalyseOtherKeeps ==
  ASSUME IInv, AnalyseOther
  PROVE  IInv'
<1>1. PICK kind \in Kinds \ {"I_16x16"} :
        current' = Chosen(kind, DC_128, 0) /\ stage' = AfterLuma(kind)
  BY DEF AnalyseOther
<1>2. DC_128 \in 0 .. DC_128
  BY DEF DC_128
<1>3. length \in Nat /\ 0 \in 0 .. length
  BY DEF IInv, TypeOK, length
<1>4. /\ UNCHANGED << body, bitstream, reencodes, CHROMA444 >>
      /\ cursor' \in 0 .. length
      /\ isSendingMessage' \in BOOLEAN /\ isInitialized' \in BOOLEAN
      /\ gettingCapacity' \in BOOLEAN /\ numberOfEmbededBits' \in Nat
  BY DEF AnalyseOther, messageVars, IInv, TypeOK
<1> QED
  BY <1>1, <1>2, <1>3, <1>4, LumaStep

LEMMA Analyse16x16Keeps ==
  ASSUME IInv, Analyse16x16
  PROVE  IInv'
<1> DEFINE here == NeighboursHere
<1>1. /\ here \in Neighbours /\ "I_16x16" \in Kinds
      /\ length \in Nat /\ 0 \in 0 .. length
  BY NeighboursHereKnown DEF Kinds, IInv, TypeOK, length
<1>2. /\ stage' = AfterLuma("I_16x16")
      /\ UNCHANGED << bitstream, reencodes, CHROMA444 >>
  BY DEF Analyse16x16
<1>3. PICK preferred \in predict_16x16_mode_available(here) :
        \/ /\ Reads(here)
           /\ \E bit \in Bit \cup {NoBit} :
                /\ messageReadBit(bit)
                /\ current' = Chosen("I_16x16",
                                     ebi_estegano(here, FALSE, preferred, bit), From(bit))
        \/ /\ ~Reads(here)
           /\ current' = Chosen("I_16x16", preferred, 0)
           /\ UNCHANGED messageVars
  BY DEF Analyse16x16
<1>4. CASE ~Reads(here)
  <2>1. current' = Chosen("I_16x16", preferred, 0) /\ UNCHANGED messageVars
    BY <1>3, <1>4
  <2>2. preferred \in 0 .. DC_128
    BY <1>1, LumaNumbers
  <2>3. /\ body' = body /\ cursor' \in 0 .. length
        /\ isSendingMessage' \in BOOLEAN /\ isInitialized' \in BOOLEAN
        /\ gettingCapacity' \in BOOLEAN /\ numberOfEmbededBits' \in Nat
    BY <2>1 DEF messageVars, IInv, TypeOK
  <2> QED
    BY <1>1, <1>2, <2>1, <2>2, <2>3, LumaStep
<1>5. CASE Reads(here)
  <2>1. PICK bit \in Bit \cup {NoBit} :
          /\ messageReadBit(bit)
          /\ current' = Chosen("I_16x16",
                               ebi_estegano(here, FALSE, preferred, bit), From(bit))
    BY <1>3, <1>5
  <2> DEFINE luma == ebi_estegano(here, FALSE, preferred, bit)
             mb == Chosen("I_16x16", luma, From(bit))
  <2>2. /\ body' = body /\ cursor' \in 0 .. length
        /\ isSendingMessage' \in BOOLEAN /\ isInitialized' \in BOOLEAN
        /\ gettingCapacity' \in BOOLEAN /\ numberOfEmbededBits' \in Nat
        /\ From(bit) \in 0 .. length
        /\ From(bit) # 0 => bit \in {0, 1} /\ bit = body[From(bit)]
    BY <2>1, ReaderStep DEF IInv
  <2>3. luma \in predict_16x16_mode_available(here)
    BY <1>1, <1>5, LumaAllowed
  <2>4. luma \in 0 .. DC_128
    BY <1>1, <2>3, LumaNumbers
  <2>5. /\ mb \in Macroblocks /\ mb.kind = "I_16x16" /\ mb.n = here
        /\ mb.luma = luma /\ mb.lumaFrom = From(bit)
    <3> HIDE DEF luma
    <3> QED
      BY <1>1, <2>2, <2>4, ChosenFields
  <2>6. From(bit) # 0 =>
          LumaCarrier(Written(mb)) = << [bit |-> body[From(bit)], from |-> From(bit)] >>
    <3>1. SUFFICES ASSUME From(bit) # 0
                   PROVE  LumaCarrier(Written(mb)) =
                            << [bit |-> body[From(bit)], from |-> From(bit)] >>
      OBVIOUS
    <3>2. bit \in {0, 1} /\ bit = body[From(bit)]
      BY <2>2, <3>1
    <3>3. LumaCarrier(Written(mb)) = << [bit |-> bit, from |-> mb.lumaFrom] >>
      <4> HIDE DEF mb
      <4> QED
        BY <1>5, <2>5, <3>2, LumaInCarrier
    <3> QED
      BY <2>5, <3>2, <3>3
  <2> HIDE DEF luma
  <2> QED
    BY <1>1, <1>2, <2>1, <2>2, <2>3, <2>4, <2>6, LumaStep DEF luma
<1> QED
  BY <1>4, <1>5

LEMMA AnalyseChromaKeeps ==
  ASSUME IInv, AnalyseChroma
  PROVE  IInv'
<1>1. /\ current \in Macroblocks /\ current.kind # "inter" /\ ~CHROMA444
      /\ current.kind \in Kinds /\ current.n \in Neighbours
      /\ current.luma \in 0 .. DC_128
      /\ current.lumaFrom \in 0 .. length /\ current.chromaFrom = 0
      /\ length \in Nat /\ 0 \in 0 .. length
  <2>0. stage = "chroma"
    BY DEF AnalyseChroma
  <2>1. current \in Macroblocks /\ stage = "chroma" /\ length \in Nat
    BY <2>0 DEF IInv, TypeOK, length
  <2>2. current.kind # "inter" /\ ~CHROMA444 /\ current.chromaFrom = 0
    BY <2>1 DEF IInv, ModesAllowed
  <2>3. /\ current.kind \in Kinds /\ current.n \in Neighbours
        /\ current.luma \in 0 .. DC_128 /\ current.lumaFrom \in 0 .. length
    BY <2>1 DEF Macroblocks
  <2> QED
    BY <2>1, <2>2, <2>3
<1>2. PICK chroma, from :
        /\ current' = [current EXCEPT !.chroma = chroma, !.chromaFrom = from]
        /\ chroma \in predict_chroma_mode_available(current.n)
        /\ from \in 0 .. length
        /\ body' = body /\ cursor' \in 0 .. length
        /\ isSendingMessage' \in BOOLEAN /\ isInitialized' \in BOOLEAN
        /\ gettingCapacity' \in BOOLEAN /\ numberOfEmbededBits' \in Nat
        /\ from # 0 => \E preferred \in predict_chroma_mode_available(current.n),
                          bit \in {0, 1} :
                         /\ Reads(current.n) /\ bit = body[from]
                         /\ chroma = EmbedChroma(current.n, FALSE, preferred, bit)
  <2>1. PICK preferred \in predict_chroma_mode_available(current.n) :
          \/ /\ Reads(current.n)
             /\ \E bit \in Bit \cup {NoBit} :
                  /\ messageReadBit(bit)
                  /\ current' = [current EXCEPT
                                   !.chroma = EmbedChroma(current.n, FALSE, preferred, bit),
                                   !.chromaFrom = From(bit)]
          \/ /\ ~Reads(current.n)
             /\ current' = [current EXCEPT !.chroma = preferred]
             /\ UNCHANGED messageVars
    BY DEF AnalyseChroma
  <2>2. CASE ~Reads(current.n)
    <3>1. current' = [current EXCEPT !.chroma = preferred, !.chromaFrom = 0]
      BY <1>1, <2>1, <2>2 DEF Macroblocks
    <3>2. /\ body' = body /\ cursor' \in 0 .. length
          /\ isSendingMessage' \in BOOLEAN /\ isInitialized' \in BOOLEAN
          /\ gettingCapacity' \in BOOLEAN /\ numberOfEmbededBits' \in Nat
      BY <2>1, <2>2 DEF messageVars, IInv, TypeOK
    <3> QED
      BY <1>1, <3>1, <3>2
  <2>3. CASE Reads(current.n)
    <3>1. PICK bit \in Bit \cup {NoBit} :
            /\ messageReadBit(bit)
            /\ current' = [current EXCEPT
                             !.chroma = EmbedChroma(current.n, FALSE, preferred, bit),
                             !.chromaFrom = From(bit)]
      BY <2>1, <2>3
    <3>2. /\ body' = body /\ cursor' \in 0 .. length
          /\ isSendingMessage' \in BOOLEAN /\ isInitialized' \in BOOLEAN
          /\ gettingCapacity' \in BOOLEAN /\ numberOfEmbededBits' \in Nat
          /\ From(bit) \in 0 .. length
          /\ From(bit) # 0 => bit \in {0, 1} /\ bit = body[From(bit)]
      BY <3>1, ReaderStep DEF IInv
    <3>3. EmbedChroma(current.n, FALSE, preferred, bit)
            \in predict_chroma_mode_available(current.n)
      BY <1>1, <2>3, ChromaAllowed
    <3> QED
      BY <2>3, <3>1, <3>2, <3>3
  <2> QED
    BY <2>2, <2>3
<1>3. chroma \in 0 .. DC_128
  BY <1>1, <1>2, ChromaNumbers
<1>4. /\ current' \in Macroblocks
      /\ current'.kind = current.kind /\ current'.n = current.n
      /\ current'.luma = current.luma /\ current'.lumaFrom = current.lumaFrom
      /\ current'.chroma = chroma /\ current'.chromaFrom = from
  <2> HIDE DEF DC_128
  <2> QED
    BY <1>1, <1>2, <1>3 DEF Macroblocks
<1>5. /\ stage = "chroma" /\ stage' = "write"
      /\ UNCHANGED << bitstream, reencodes, CHROMA444 >>
      /\ length' = length /\ Macroblocks' = Macroblocks
  BY <1>2 DEF AnalyseChroma, length, Macroblocks
<1>6. TypeOK'
  BY <1>2, <1>4, <1>5 DEF IInv, TypeOK
<1>7. ModesAllowed'
  BY <1>2, <1>4, <1>5 DEF IInv, ModesAllowed
<1>8. LumaCarrier(Written(current))' = LumaCarrier(Written(current))
  BY <1>1, <1>4, <1>5, SameLuma DEF LumaCarrier, Written
<1>9. from # 0 =>
        ChromaCarrier(Written(current')) = << [bit |-> body[from], from |-> from] >>
  <2>1. SUFFICES ASSUME from # 0
                 PROVE  ChromaCarrier(Written(current')) =
                          << [bit |-> body[from], from |-> from] >>
    OBVIOUS
  <2>2. PICK preferred \in predict_chroma_mode_available(current.n), bit \in {0, 1} :
          /\ Reads(current.n) /\ bit = body[from]
          /\ chroma = EmbedChroma(current.n, FALSE, preferred, bit)
    BY <1>2, <2>1
  <2>3. ChromaCarrier(Written(current')) =
          << [bit |-> bit, from |-> current'.chromaFrom] >>
    BY <1>1, <1>4, <2>2, ChromaInCarrier
  <2> QED
    BY <1>4, <2>2, <2>3
<1>10. ChromaCarrier(Written(current))' = ChromaCarrier(Written(current'))
  BY <1>5 DEF ChromaCarrier, Written
<1>11. ModesCarryBits'
  BY <1>2, <1>4, <1>5, <1>8, <1>9, <1>10 DEF IInv, ModesCarryBits, CarrierOf
<1> QED
  BY <1>6, <1>7, <1>11 DEF IInv

\* What is written is a list of macroblocks with coded modes, as it was.
LEMMA WriteMacroblockKeeps ==
  ASSUME IInv, WriteMacroblock
  PROVE  IInv'
<1>1. /\ bitstream \in Seq(Macroblocks) /\ current \in Macroblocks
      /\ \A i \in 1 .. Len(bitstream) :
           bitstream[i].luma <= P /\ bitstream[i].chroma <= P
      /\ bitstream' = Append(bitstream, Written(current))
      /\ reencodes' \in 0 .. MaxReencodes
  BY DEF WriteMacroblock, IInv, TypeOK
<1>2. /\ Written(current) \in Macroblocks
      /\ Written(current).luma <= P /\ Written(current).chroma <= P
  BY <1>1, WrittenFields
<1>3. bitstream' \in Seq(Macroblocks)
  BY <1>1, <1>2
<1>4. ASSUME NEW i \in 1 .. Len(bitstream')
      PROVE  bitstream'[i].luma <= P /\ bitstream'[i].chroma <= P
  <2>1. /\ Len(bitstream) \in Nat /\ Len(bitstream') = Len(bitstream) + 1
        /\ i <= Len(bitstream) => bitstream'[i] = bitstream[i]
        /\ i = Len(bitstream) + 1 => bitstream'[i] = Written(current)
    BY <1>1, <1>2
  <2>2. i \in 1 .. Len(bitstream) \/ i = Len(bitstream) + 1
    BY <2>1
  <2> QED
    BY <1>1, <1>2, <2>1, <2>2
<1> QED
  BY <1>1, <1>3, <1>4, StartAgain DEF WriteMacroblock

LEMMA ReencodeRowKeeps ==
  ASSUME IInv, ReencodeRow
  PROVE  IInv'
<1>1. /\ bitstream \in Seq(Macroblocks)
      /\ \A i \in 1 .. Len(bitstream) :
           bitstream[i].luma <= P /\ bitstream[i].chroma <= P
      /\ reencodes' \in 0 .. MaxReencodes
  BY CoderAssumption DEF ReencodeRow, IInv, TypeOK
<1> DEFINE rest == Len(bitstream) - Column
<1>2. rest \in 0 .. Len(bitstream)
  <2>1. Len(bitstream) \in Nat /\ Width \in Nat \ {0}
    BY <1>1, CoderAssumption
  <2>2. Column \in 0 .. Len(bitstream)
    BY <2>1 DEF Column
  <2> QED
    BY <2>1, <2>2
<1>3. bitstream' = SubSeq(bitstream, 1, rest)
  BY DEF ReencodeRow, RowStart
<1> HIDE DEF rest
<1>4. /\ bitstream' \in Seq(Macroblocks) /\ Len(bitstream') = rest
      /\ \A i \in 1 .. rest : bitstream'[i] = bitstream[i]
  BY <1>1, <1>2, <1>3
<1>5. \A i \in 1 .. Len(bitstream') :
        bitstream'[i].luma <= P /\ bitstream'[i].chroma <= P
  BY <1>1, <1>2, <1>4
<1> QED
  BY <1>1, <1>4, <1>5, StartAgain DEF ReencodeRow

LEMMA IInvStep ==
  IInv /\ [Next]_vars => IInv'
<1> SUFFICES ASSUME IInv, [Next]_vars PROVE IInv'
  OBVIOUS
<1>1. CASE AnalyseOther
  BY <1>1, AnalyseOtherKeeps
<1>2. CASE Analyse16x16
  BY <1>2, Analyse16x16Keeps
<1>3. CASE AnalyseChroma
  BY <1>3, AnalyseChromaKeeps
<1>4. CASE WriteMacroblock
  BY <1>4, WriteMacroblockKeeps
<1>5. CASE ReencodeRow
  BY <1>5, ReencodeRowKeeps
<1>6. CASE UNCHANGED vars
  <2> USE <1>6 DEF vars, messageVars, coderVars
  <2>1. TypeOK'
    BY DEF IInv, TypeOK, Macroblocks, length
  <2>2. ModesAllowed'
    BY DEF IInv, ModesAllowed
  <2>3. /\ LumaCarrier(Written(current))' = LumaCarrier(Written(current))
        /\ ChromaCarrier(Written(current))' = ChromaCarrier(Written(current))
    BY DEF LumaCarrier, ChromaCarrier, Written
  <2>4. ModesCarryBits'
    BY <2>3 DEF IInv, ModesCarryBits, CarrierOf
  <2> QED
    BY <2>1, <2>2, <2>4 DEF IInv
<1> QED
  BY <1>1, <1>2, <1>3, <1>4, <1>5, <1>6 DEF Next

LEMMA Inductive == Spec => []IInv
<1> QED
  BY IInvInit, IInvStep, PTL DEF Spec

-----------------------------------------------------------------------------
(* The theorems *)

\* The slice loop keeps to its types (encoder.c, analyse.c, message.c).
THEOREM TypeCorrect == Spec => []TypeOK
<1>1. IInv => TypeOK
  BY DEF IInv
<1> QED
  BY <1>1, Inductive, PTL

\* A mode that was asked for a bit is allowed and yields that bit of the message
\* (ebi_estegano, x264_mb_analyse_intra_chroma and the decoder's tables).
THEOREM ModesCarry == Spec => []ModesCarryBits
<1>1. IInv => ModesCarryBits
  BY DEF IInv
<1> QED
  BY <1>1, Inductive, PTL

\* The decoder counts exactly the modes that were asked for a bit.
THEOREM CountAlike == Spec => []BothCountAlike
<1>1. IInv => BothCountAlike
  <2> SUFFICES ASSUME IInv PROVE BothCountAlike
    OBVIOUS
  <2>1. current \in Macroblocks /\ current.n \in Neighbours
    BY DEF IInv, TypeOK, Macroblocks
  <2>2. ASSUME current.kind = "I_16x16"
        PROVE  LumaCarrier(Written(current)) # << >> <=> Reads(current.n)
    <3>1. current.luma \in predict_16x16_mode_available(current.n)
      BY <2>2 DEF IInv, ModesAllowed
    <3>2. Reads(current.n) <=> Counts(DecodedLuma(current.n, LumaCode(current.luma)))
      BY <2>1, <3>1, LumaCountedAlike
    <3> QED
      BY <2>1, <2>2, <3>2, WrittenFields DEF LumaCarrier, Carrier
  <2>3. ASSUME stage = "write", current.kind # "inter", ~CHROMA444
        PROVE  ChromaCarrier(Written(current)) # << >> <=> Reads(current.n)
    <3>1. current.chroma \in predict_chroma_mode_available(current.n)
      BY <2>3 DEF IInv, ModesAllowed
    <3>2. Reads(current.n) <=>
            Counts(DecodedChroma(current.n, ChromaCode(current.chroma)))
      BY <2>1, <3>1, ChromaCountedAlike
    <3> QED
      BY <2>1, <2>3, <3>2, WrittenFields DEF ChromaCarrier, Carrier
  <2> QED
    BY <2>2, <2>3 DEF BothCountAlike
<1> QED
  BY <1>1, Inductive, PTL

-----------------------------------------------------------------------------
(* The carriers of a bitstream *)

\* A carrier as the decoder hands it on.
Carried == [bit : {0, 1}, from : Nat]

\* A macroblock with modes as the bitstream codes them.
CodedMacroblocks == {mb \in Macroblocks : mb.luma <= P /\ mb.chroma <= P}

\* t begins with s and has at most n elements more.
Extends(s, t, n) ==
  /\ Len(s) <= Len(t) /\ Len(t) <= Len(s) + n
  /\ \A i \in 1 .. Len(s) : t[i] = s[i]

LEMMA DecodedNumbers ==
  ASSUME NEW n \in Neighbours, NEW code \in 0 .. P
  PROVE  DecodedLuma(n, code) \in Int /\ DecodedChroma(n, code) \in Int
<1>1. LumaOfCode(code) \in Int /\ code \in Int
  BY DEF LumaOfCode, P, I_PRED_16x16_V, I_PRED_16x16_H, I_PRED_16x16_DC,
         I_PRED_CHROMA_DC, I_PRED_CHROMA_H, I_PRED_CHROMA_V
<1>2. \A mode \in Int : ff_h264_check_intra_pred_mode(n, mode) \in Int
  BY DEF ff_h264_check_intra_pred_mode, CheckTop, WithoutTop, WithoutLeft, Invalid,
         I_PRED_CHROMA_DC, I_PRED_CHROMA_H, I_PRED_CHROMA_V, DC_LEFT, DC_TOP, DC_128
<1> QED
  BY <1>1, <1>2 DEF DecodedLuma, DecodedChroma

\* A mode yields no carrier or one.
LEMMA CarrierType ==
  ASSUME NEW mode \in Int, NEW from \in Nat
  PROVE  Carrier(mode, from) \in Seq(Carried) /\ Len(Carrier(mode, from)) <= 1
<1>1. DecodedBit(mode) \in {0, 1}
  BY DEF DecodedBit
<1>2. << [bit |-> DecodedBit(mode), from |-> from] >> \in Seq(Carried)
  BY <1>1 DEF Carried
<1> QED
  BY <1>2 DEF Carrier

LEMMA CarriersOfMacroblock ==
  ASSUME length \in Nat, NEW mb \in CodedMacroblocks
  PROVE  /\ LumaCarrier(mb) \in Seq(Carried) /\ Len(LumaCarrier(mb)) <= 1
         /\ ChromaCarrier(mb) \in Seq(Carried) /\ Len(ChromaCarrier(mb)) <= 1
<1>1. /\ mb.n \in Neighbours /\ mb.luma \in 0 .. P /\ mb.chroma \in 0 .. P
      /\ mb.lumaFrom \in Nat /\ mb.chromaFrom \in Nat
  BY DEF CodedMacroblocks, Macroblocks, P, DC_128
<1>2. << >> \in Seq(Carried) /\ Len(<< >>) <= 1
  OBVIOUS
<1>3. DecodedLuma(mb.n, mb.luma) \in Int /\ DecodedChroma(mb.n, mb.chroma) \in Int
  BY <1>1, DecodedNumbers
<1>4. LumaCarrier(mb) \in Seq(Carried) /\ Len(LumaCarrier(mb)) <= 1
  BY <1>1, <1>2, <1>3, CarrierType DEF LumaCarrier
<1>5. ChromaCarrier(mb) \in Seq(Carried) /\ Len(ChromaCarrier(mb)) <= 1
  BY <1>1, <1>2, <1>3, CarrierType DEF ChromaCarrier
<1> QED
  BY <1>4, <1>5

\* f[k] are the carriers of the first k macroblocks.
Accumulates(f, mbs) ==
  /\ f \in [0 .. Len(mbs) -> Seq(Carried)]
  /\ f[0] = << >>
  /\ \A k \in 1 .. Len(mbs) : f[k] = f[k - 1] \o LumaCarrier(mbs[k]) \o ChromaCarrier(mbs[k])

LEMMA CarriersAccumulate ==
  ASSUME length \in Nat, NEW mbs \in Seq(CodedMacroblocks)
  PROVE  \E f : Accumulates(f, mbs) /\ CarriersOf(mbs) = f[Len(mbs)]
<1> DEFINE n == Len(mbs)
           S == Seq(Carried)
           Grows(f) == f = [i \in 0 .. n |->
                              IF i = 0 THEN << >>
                              ELSE f[i - 1] \o LumaCarrier(mbs[i]) \o ChromaCarrier(mbs[i])]
           step == [p \in (1 .. n) \X S |->
                      p[2] \o LumaCarrier(mbs[p[1]]) \o ChromaCarrier(mbs[p[1]])]
<1>1. n \in Nat /\ \A k \in 1 .. n : mbs[k] \in CodedMacroblocks
  OBVIOUS
<1>2. \A k \in 1 .. n, s \in S : s \o LumaCarrier(mbs[k]) \o ChromaCarrier(mbs[k]) \in S
  <2> SUFFICES ASSUME NEW k \in 1 .. n, NEW s \in S
               PROVE  s \o LumaCarrier(mbs[k]) \o ChromaCarrier(mbs[k]) \in S
    OBVIOUS
  <2>1. LumaCarrier(mbs[k]) \in S /\ ChromaCarrier(mbs[k]) \in S
    BY <1>1, CarriersOfMacroblock
  <2> QED
    BY <2>1
<1>3. step \in [(1 .. n) \X S -> S]
  <2> HIDE DEF S
  <2> QED
    BY <1>2
<1>4. \A i \in 1 .. n, s \in S :
        step[<<i, s>>] = s \o LumaCarrier(mbs[i]) \o ChromaCarrier(mbs[i])
  OBVIOUS
<1>5. << >> \in S
  OBVIOUS
<1> HIDE DEF n, step, S
<1>6. PICK f \in [0 .. n -> S] :
        /\ f[0] = << >>
        /\ \A i \in 1 .. n : f[i] = step[<<i, f[i - 1]>>]
  <2>1. HasRecursion(S, << >>, n, step)
    BY <1>1, <1>3, <1>5, FiniteRecursion
  <2> QED
    BY <2>1 DEF HasRecursion
<1>7. Grows(f)
  <2>1. ASSUME NEW i \in 0 .. n, i # 0
        PROVE  f[i] = f[i - 1] \o LumaCarrier(mbs[i]) \o ChromaCarrier(mbs[i])
    <3>1. i \in 1 .. n /\ i - 1 \in 0 .. n
      BY <1>1, <2>1
    <3>2. f[i - 1] \in S
      BY <1>6, <3>1
    <3> QED
      BY <1>4, <1>6, <3>1, <3>2
  <2> QED
    BY <1>6, <2>1
<1> DEFINE g == CHOOSE h : Grows(h)
<1>8. Grows(g)
  <2> HIDE DEF Grows
  <2> QED
    BY <1>7
<1>9. CarriersOf(mbs) = g[n]
  BY DEF CarriersOf, n
<1> HIDE DEF g
<1>10. /\ g = [i \in 0 .. n |-> g[i]]
       /\ g[0] = << >>
       /\ \A k \in 1 .. n : g[k] = g[k - 1] \o LumaCarrier(mbs[k]) \o ChromaCarrier(mbs[k])
  <2>1. 0 \in 0 .. n /\ \A k \in 1 .. n : k \in 0 .. n /\ k # 0
    BY <1>1
  <2> QED
    BY <1>8, <2>1
<1> HIDE DEF Grows
<1>11. \A k \in Nat : k \in {i \in Nat : i <= n => g[i] \in S}
  <2> DEFINE T == {i \in Nat : i <= n => g[i] \in S}
  <2>1. 0 \in T
    BY <1>5, <1>10
  <2>2. ASSUME NEW i \in Nat, i \in T
        PROVE  i + 1 \in T
    <3> SUFFICES ASSUME i + 1 <= n PROVE g[i + 1] \in S
      OBVIOUS
    <3>1. i + 1 \in 1 .. n /\ (i + 1) - 1 = i /\ g[i] \in S
      BY <1>1, <2>2
    <3> QED
      BY <1>2, <1>10, <3>1
  <2> HIDE DEF T
  <2>3. \A i \in Nat : i \in T
    BY <2>1, <2>2, NatSetInduction
  <2> QED
    BY <2>3 DEF T
<1>12. g \in [0 .. n -> S]
  BY <1>1, <1>10, <1>11
<1> QED
  BY <1>9, <1>10, <1>12 DEF Accumulates, n, S

\* Two bitstreams with the same beginning have the same carriers in it.
LEMMA SameBeginning ==
  ASSUME NEW s \in Seq(CodedMacroblocks), NEW t \in Seq(CodedMacroblocks),
         NEW f, Accumulates(f, s), NEW g, Accumulates(g, t),
         NEW n \in Nat, n <= Len(s), n <= Len(t), \A i \in 1 .. n : s[i] = t[i]
  PROVE  f[n] = g[n]
<1> DEFINE T == {i \in Nat : i <= n => f[i] = g[i]}
<1>1. 0 \in T
  BY DEF Accumulates
<1>2. ASSUME NEW i \in Nat, i \in T
      PROVE  i + 1 \in T
  <2> SUFFICES ASSUME i + 1 <= n PROVE f[i + 1] = g[i + 1]
    OBVIOUS
  <2>1. /\ i + 1 \in 1 .. n /\ (i + 1) - 1 = i /\ f[i] = g[i]
        /\ i + 1 \in 1 .. Len(s) /\ i + 1 \in 1 .. Len(t)
    BY <1>2
  <2>2. f[i + 1] = f[i] \o LumaCarrier(s[i + 1]) \o ChromaCarrier(s[i + 1])
    BY <2>1 DEF Accumulates
  <2>3. g[i + 1] = g[i] \o LumaCarrier(t[i + 1]) \o ChromaCarrier(t[i + 1])
    BY <2>1 DEF Accumulates
  <2>4. s[i + 1] = t[i + 1]
    BY <2>1
  <2> QED
    BY <2>1, <2>2, <2>3, <2>4
<1> HIDE DEF T
<1>3. \A i \in Nat : i \in T
  BY <1>1, <1>2, NatSetInduction
<1> QED
  BY <1>3 DEF T

LEMMA ThreeParts ==
  ASSUME NEW S, NEW r \in Seq(S), NEW s \in Seq(S), NEW t \in Seq(S)
  PROVE  /\ (r \o s) \o t = r \o (s \o t)
         /\ (r \o s) \o t \in Seq(S)
         /\ Len((r \o s) \o t) = Len(r) + Len(s) + Len(t)
         /\ Extends(r, (r \o s) \o t, Len(s) + Len(t))
<1>1. r \o s \in Seq(S) /\ Len(r \o s) = Len(r) + Len(s)
  OBVIOUS
<1>2. (r \o s) \o t \in Seq(S) /\ Len((r \o s) \o t) = Len(r) + Len(s) + Len(t)
  BY <1>1
<1>3. (r \o s) \o t = r \o (s \o t)
  OBVIOUS
<1>4. \A i \in 1 .. Len(r) : ((r \o s) \o t)[i] = r[i]
  <2> SUFFICES ASSUME NEW i \in 1 .. Len(r) PROVE ((r \o s) \o t)[i] = r[i]
    OBVIOUS
  <2>1. i \in 1 .. Len(r \o s) /\ (r \o s)[i] = r[i]
    BY <1>1
  <2> QED
    BY <1>1, <2>1
<1> QED
  BY <1>1, <1>2, <1>3, <1>4 DEF Extends

LEMMA CarriersOfNone ==
  ASSUME length \in Nat
  PROVE  CarriersOf(<< >>) = << >>
<1>1. << >> \in Seq(CodedMacroblocks) /\ Len(<< >>) = 0
  OBVIOUS
<1> QED
  BY <1>1, CarriersAccumulate DEF Accumulates

LEMMA CarriersOfType ==
  ASSUME length \in Nat, NEW mbs \in Seq(CodedMacroblocks)
  PROVE  CarriersOf(mbs) \in Seq(Carried)
<1>1. PICK f : Accumulates(f, mbs) /\ CarriersOf(mbs) = f[Len(mbs)]
  BY CarriersAccumulate
<1>2. Len(mbs) \in 0 .. Len(mbs)
  OBVIOUS
<1> QED
  BY <1>1, <1>2 DEF Accumulates

\* One more macroblock adds its own carriers.
LEMMA CarriersOfAppend ==
  ASSUME length \in Nat, NEW mbs \in Seq(CodedMacroblocks), NEW mb \in CodedMacroblocks
  PROVE  CarriersOf(Append(mbs, mb)) =
           CarriersOf(mbs) \o LumaCarrier(mb) \o ChromaCarrier(mb)
<1> DEFINE more == Append(mbs, mb)
           n == Len(mbs)
<1>1. /\ more \in Seq(CodedMacroblocks) /\ Len(more) = n + 1 /\ n \in Nat
      /\ \A i \in 1 .. n : mbs[i] = more[i]
      /\ more[n + 1] = mb
  OBVIOUS
<1> HIDE DEF more
<1>2. PICK f : Accumulates(f, mbs) /\ CarriersOf(mbs) = f[n]
  BY CarriersAccumulate
<1>3. PICK g : Accumulates(g, more) /\ CarriersOf(more) = g[n + 1]
  BY <1>1, CarriersAccumulate
<1>4. f[n] = g[n]
  BY <1>1, <1>2, <1>3, SameBeginning
<1>5. g[n + 1] = g[n] \o LumaCarrier(mb) \o ChromaCarrier(mb)
  <2>1. n + 1 \in 1 .. Len(more) /\ (n + 1) - 1 = n
    BY <1>1
  <2> QED
    BY <1>1, <1>3, <2>1 DEF Accumulates
<1> QED
  BY <1>2, <1>3, <1>4, <1>5 DEF more

\* What is taken back has at most two carriers in each macroblock.
LEMMA CarriersOfPrefix ==
  ASSUME length \in Nat, NEW mbs \in Seq(CodedMacroblocks), NEW k \in 0 .. Len(mbs)
  PROVE  Extends(CarriersOf(SubSeq(mbs, 1, k)), CarriersOf(mbs), 2 * (Len(mbs) - k))
<1> DEFINE less == SubSeq(mbs, 1, k)
           n == Len(mbs)
<1>1. /\ less \in Seq(CodedMacroblocks) /\ Len(less) = k /\ k \in Nat /\ n \in Nat /\ k <= n
      /\ \A i \in 1 .. k : less[i] = mbs[i]
  OBVIOUS
<1> HIDE DEF less
<1>2. PICK f : Accumulates(f, less) /\ CarriersOf(less) = f[k]
  BY <1>1, CarriersAccumulate
<1>3. PICK g : Accumulates(g, mbs) /\ CarriersOf(mbs) = g[n]
  BY CarriersAccumulate
<1>4. f[k] = g[k]
  BY <1>1, <1>2, <1>3, SameBeginning
<1> DEFINE T == {i \in Nat : k + i <= n => Extends(g[k], g[k + i], 2 * i)}
<1>5. 0 \in T
  <2>1. g[k] \in Seq(Carried) /\ k + 0 = k
    BY <1>1, <1>3 DEF Accumulates
  <2> QED
    BY <2>1 DEF Extends
<1>6. ASSUME NEW i \in Nat, i \in T
      PROVE  i + 1 \in T
  <2> SUFFICES ASSUME k + (i + 1) <= n PROVE Extends(g[k], g[k + (i + 1)], 2 * (i + 1))
    OBVIOUS
  <2> DEFINE j == k + i + 1
             luma == LumaCarrier(mbs[j])
             chroma == ChromaCarrier(mbs[j])
  <2>1. j \in 1 .. n /\ j - 1 = k + i /\ k + (i + 1) = j /\ k \in 0 .. n /\ k + i \in 0 .. n
    BY <1>1
  <2>2. mbs[j] \in CodedMacroblocks
    BY <2>1
  <2> HIDE DEF j
  <2>3. /\ luma \in Seq(Carried) /\ Len(luma) <= 1
        /\ chroma \in Seq(Carried) /\ Len(chroma) <= 1
    BY <2>2, CarriersOfMacroblock
  <2>4. g[j] = (g[k + i] \o luma) \o chroma
    BY <1>3, <2>1 DEF Accumulates
  <2>5. g[k] \in Seq(Carried) /\ g[k + i] \in Seq(Carried)
    BY <1>3, <2>1 DEF Accumulates
  <2> HIDE DEF luma, chroma
  <2>6. Extends(g[k + i], g[j], Len(luma) + Len(chroma)) /\ g[j] \in Seq(Carried)
    BY <2>3, <2>4, <2>5, ThreeParts
  <2>7. Extends(g[k], g[k + i], 2 * i)
    BY <1>6, <2>1
  <2>8. Extends(g[k], g[j], 2 * (i + 1))
    <3>1. /\ Len(g[k]) \in Nat /\ Len(g[k + i]) \in Nat /\ Len(g[j]) \in Nat
          /\ Len(luma) \in 0 .. 1 /\ Len(chroma) \in 0 .. 1
      <4>1. Len(g[k]) \in Nat /\ Len(g[k + i]) \in Nat
        BY <2>5
      <4>2. Len(g[j]) \in Nat
        BY <2>6
      <4>3. Len(luma) \in Nat /\ Len(chroma) \in Nat
        BY <2>3
      <4>4. Len(luma) <= 1 /\ Len(chroma) <= 1
        BY <2>3
      <4>5. \A m \in Nat : m <= 1 => m \in 0 .. 1
        OBVIOUS
      <4> QED
        BY <4>1, <4>2, <4>3, <4>4, <4>5, Zenon
    <3>2. /\ Len(g[k]) <= Len(g[k + i]) /\ Len(g[k + i]) <= Len(g[k]) + 2 * i
          /\ Len(g[k + i]) <= Len(g[j])
          /\ Len(g[j]) <= Len(g[k + i]) + (Len(luma) + Len(chroma))
      BY <2>6, <2>7 DEF Extends
    <3>3. \A m \in 1 .. Len(g[k]) : g[j][m] = g[k][m]
      <4> SUFFICES ASSUME NEW m \in 1 .. Len(g[k]) PROVE g[j][m] = g[k][m]
        OBVIOUS
      <4>1. m \in 1 .. Len(g[k + i])
        BY <3>1, <3>2
      <4> QED
        BY <2>6, <2>7, <4>1 DEF Extends
    <3>4. Len(g[k]) <= Len(g[j]) /\ Len(g[j]) <= Len(g[k]) + 2 * (i + 1)
      <4>1. \A a, b, c \in Nat : \A x, y \in 0 .. 1 :
              a <= b /\ b <= a + 2 * i /\ b <= c /\ c <= b + (x + y) =>
                a <= c /\ c <= a + 2 * (i + 1)
        OBVIOUS
      <4> QED
        BY <3>1, <3>2, <4>1, Zenon
    <3> QED
      BY <3>3, <3>4 DEF Extends
  <2> QED
    BY <2>1, <2>8
<1>7. \A i \in Nat : i \in T
  <2> HIDE DEF T
  <2> QED
    BY <1>5, <1>6, NatSetInduction
<1>8. n - k \in Nat /\ k + (n - k) = n
  BY <1>1
<1>9. Extends(g[k], g[n], 2 * (n - k))
  BY <1>7, <1>8
<1> QED
  BY <1>2, <1>3, <1>4, <1>9 DEF less

-----------------------------------------------------------------------------
(* What a step does to the carriers *)

SameCarriers ==
  AllCarriers' = AllCarriers /\ UNCHANGED << messageVars, reencodes >>

\* One read, and one carrier that gives its answer back.
OneCarrierMore ==
  \E bit \in Bit \cup {NoBit}, carried \in {0, 1} :
    /\ messageReadBit(bit)
    /\ bit # NoBit => carried = bit
    /\ AllCarriers' = Append(AllCarriers, [bit |-> carried, from |-> From(bit)])
    /\ reencodes' = reencodes

\* The carriers at the end are gone, no more than a row has.
RowTakenBack ==
  /\ \E n \in 0 .. Len(AllCarriers) :
       /\ Len(AllCarriers) - n <= 2 * Width
       /\ AllCarriers' = SubSeq(AllCarriers, 1, n)
  /\ reencodes' = reencodes + 1
  /\ UNCHANGED messageVars

LEMMA Coded ==
  ASSUME IInv
  PROVE  /\ length \in Nat /\ bitstream \in Seq(CodedMacroblocks)
         /\ current \in Macroblocks /\ Written(current) \in CodedMacroblocks
<1>1. /\ length \in Nat /\ bitstream \in Seq(Macroblocks) /\ current \in Macroblocks
      /\ \A i \in 1 .. Len(bitstream) : bitstream[i].luma <= P /\ bitstream[i].chroma <= P
  BY DEF IInv, TypeOK, length
<1>2. Written(current) \in CodedMacroblocks
  BY <1>1, WrittenFields DEF CodedMacroblocks
<1>3. \A i \in 1 .. Len(bitstream) : bitstream[i] \in CodedMacroblocks
  BY <1>1 DEF CodedMacroblocks
<1> QED
  BY <1>1, <1>2, <1>3

\* The parts of AllCarriers, before and after a step.
LEMMA Parts ==
  /\ AllCarriers = CarriersOf(bitstream) \o InProgress
  /\ stage = "analyse" => InProgress = << >>
  /\ stage = "chroma" => InProgress = LumaCarrier(Written(current))
  /\ stage = "write" => InProgress =
       LumaCarrier(Written(current)) \o ChromaCarrier(Written(current))
BY DEF AllCarriers, Recovered, InProgress

LEMMA PartsAfter ==
  ASSUME CHROMA444' = CHROMA444
  PROVE  /\ AllCarriers' = CarriersOf(bitstream') \o InProgress'
         /\ stage' = "analyse" => InProgress' = << >>
         /\ stage' = "chroma" => InProgress' = LumaCarrier(Written(current'))
         /\ stage' = "write" => InProgress' =
              LumaCarrier(Written(current')) \o ChromaCarrier(Written(current'))
<1>1. AllCarriers' = CarriersOf(bitstream') \o InProgress'
  BY DEF AllCarriers, Recovered, CarriersOf, LumaCarrier, ChromaCarrier
<1>2. stage' = "analyse" => InProgress' = << >>
  BY DEF InProgress
<1>3. stage' = "chroma" => InProgress' = LumaCarrier(Written(current'))
  BY DEF InProgress, LumaCarrier, Written
<1>4. stage' = "write" => InProgress' =
              LumaCarrier(Written(current')) \o ChromaCarrier(Written(current'))
  <2>1. LumaCarrier(Written(current))' = LumaCarrier(Written(current'))
    BY DEF LumaCarrier, Written
  <2>2. ChromaCarrier(Written(current))' = ChromaCarrier(Written(current'))
    BY DEF ChromaCarrier, Written
  <2> QED
    BY <2>1, <2>2 DEF InProgress
<1> QED
  BY <1>1, <1>2, <1>3, <1>4

LEMMA PartTypes ==
  ASSUME IInv
  PROVE  /\ CarriersOf(bitstream) \in Seq(Carried)
         /\ LumaCarrier(Written(current)) \in Seq(Carried)
         /\ Len(LumaCarrier(Written(current))) <= 1
         /\ ChromaCarrier(Written(current)) \in Seq(Carried)
         /\ Len(ChromaCarrier(Written(current))) <= 1
         /\ InProgress \in Seq(Carried) /\ AllCarriers \in Seq(Carried)
<1>1. /\ CarriersOf(bitstream) \in Seq(Carried)
      /\ LumaCarrier(Written(current)) \in Seq(Carried)
      /\ Len(LumaCarrier(Written(current))) <= 1
      /\ ChromaCarrier(Written(current)) \in Seq(Carried)
      /\ Len(ChromaCarrier(Written(current))) <= 1
  BY Coded, CarriersOfType, CarriersOfMacroblock
<1>2. InProgress \in Seq(Carried)
  <2>1. << >> \in Seq(Carried)
    OBVIOUS
  <2>2. LumaCarrier(Written(current)) \o ChromaCarrier(Written(current)) \in Seq(Carried)
    BY <1>1
  <2>3. stage \in {"analyse", "chroma", "write"}
    BY DEF IInv, TypeOK
  <2> QED
    BY <1>1, <2>1, <2>2, <2>3, Parts
<1> QED
  BY <1>1, <1>2, Parts

\* A mode that was asked for a bit is one carrier, whatever the answer was.
LEMMA OneLumaCarrier ==
  ASSUME NEW mb \in Macroblocks, mb.kind = "I_16x16", Reads(mb.n),
         NEW mode \in predict_16x16_mode_available(mb.n), NEW bit \in Bit \cup {NoBit},
         mb.luma = ebi_estegano(mb.n, FALSE, mode, bit)
  PROVE  \E carried \in {0, 1} :
           /\ bit # NoBit => carried = bit
           /\ LumaCarrier(Written(mb)) = << [bit |-> carried, from |-> mb.lumaFrom] >>
<1>1. CASE bit \in {0, 1}
  BY <1>1, LumaInCarrier
<1>2. CASE bit = NoBit
  <2> DEFINE decoded == DecodedLuma(mb.n, LumaCode(mb.luma))
  <2>1. mb.n \in Neighbours /\ mb.luma = mode
    BY <1>2, LumaAlone DEF Macroblocks, NoBit
  <2>2. Counts(decoded)
    BY <2>1, LumaCountedAlike
  <2>3. DecodedBit(decoded) \in {0, 1}
    <3>1. LumaCode(mb.luma) \in 0 .. P
      <4>1. mb.luma \in 0 .. DC_128
        BY <2>1, LumaNumbers
      <4>2. LumaCode(mb.luma) \in 0 .. DC_128 /\ LumaCode(mb.luma) <= P
        BY <4>1, CodeNumbers
      <4>3. \A c \in 0 .. DC_128 : c <= P => c \in 0 .. P
        BY DEF P, DC_128
      <4> QED
        BY <4>2, <4>3, Zenon
    <3>2. decoded \in Int
      BY <2>1, <3>1, DecodedNumbers
    <3> HIDE DEF decoded
    <3> QED
      BY <3>2 DEF DecodedBit
  <2>4. LumaCarrier(Written(mb)) = << [bit |-> DecodedBit(decoded), from |-> mb.lumaFrom] >>
    BY <2>2, WrittenFields DEF LumaCarrier, Carrier
  <2> QED
    BY <1>2, <2>3, <2>4
<1> QED
  BY <1>1, <1>2 DEF Bit

LEMMA OneChromaCarrier ==
  ASSUME NEW mb \in Macroblocks, mb.kind # "inter", ~CHROMA444, Reads(mb.n),
         NEW mode \in predict_chroma_mode_available(mb.n), NEW bit \in Bit \cup {NoBit},
         mb.chroma = EmbedChroma(mb.n, FALSE, mode, bit)
  PROVE  \E carried \in {0, 1} :
           /\ bit # NoBit => carried = bit
           /\ ChromaCarrier(Written(mb)) = << [bit |-> carried, from |-> mb.chromaFrom] >>
<1>1. CASE bit \in {0, 1}
  BY <1>1, ChromaInCarrier
<1>2. CASE bit = NoBit
  <2> DEFINE decoded == DecodedChroma(mb.n, ChromaCode(mb.chroma))
  <2>1. mb.n \in Neighbours /\ mb.chroma = mode
    BY <1>2, ChromaAlone DEF Macroblocks, NoBit
  <2>2. Counts(decoded)
    BY <2>1, ChromaCountedAlike
  <2>3. DecodedBit(decoded) \in {0, 1}
    <3>1. ChromaCode(mb.chroma) \in 0 .. P
      <4>1. mb.chroma \in 0 .. DC_128
        BY <2>1, ChromaNumbers
      <4>2. ChromaCode(mb.chroma) \in 0 .. DC_128 /\ ChromaCode(mb.chroma) <= P
        BY <4>1, CodeNumbers
      <4>3. \A c \in 0 .. DC_128 : c <= P => c \in 0 .. P
        BY DEF P, DC_128
      <4> QED
        BY <4>2, <4>3, Zenon
    <3>2. decoded \in Int
      BY <2>1, <3>1, DecodedNumbers
    <3> HIDE DEF decoded
    <3> QED
      BY <3>2 DEF DecodedBit
  <2>4. ChromaCarrier(Written(mb)) =
          << [bit |-> DecodedBit(decoded), from |-> mb.chromaFrom] >>
    BY <2>2, WrittenFields DEF ChromaCarrier, Carrier
  <2> QED
    BY <1>2, <2>3, <2>4
<1> QED
  BY <1>1, <1>2 DEF Bit

\* A mode for which nothing is read is no carrier.
LEMMA NoLumaCarrier ==
  ASSUME NEW mb \in Macroblocks, ~Reads(mb.n), mb.luma \in predict_16x16_mode_available(mb.n)
  PROVE  LumaCarrier(Written(mb)) = << >>
<1>1. mb.n \in Neighbours
  BY DEF Macroblocks
<1>2. ~Counts(DecodedLuma(mb.n, LumaCode(mb.luma)))
  BY <1>1, LumaCountedAlike
<1> QED
  BY <1>2, WrittenFields DEF LumaCarrier, Carrier

LEMMA NoChromaCarrier ==
  ASSUME NEW mb \in Macroblocks, ~Reads(mb.n),
         mb.chroma \in predict_chroma_mode_available(mb.n)
  PROVE  ChromaCarrier(Written(mb)) = << >>
<1>1. mb.n \in Neighbours
  BY DEF Macroblocks
<1>2. ~Counts(DecodedChroma(mb.n, ChromaCode(mb.chroma)))
  BY <1>1, ChromaCountedAlike
<1> QED
  BY <1>2, WrittenFields DEF ChromaCarrier, Carrier

LEMMA AppendOne ==
  ASSUME NEW S, NEW s \in Seq(S), NEW e \in S
  PROVE  s \o << e >> = Append(s, e)
OBVIOUS

LEMMA Associative ==
  ASSUME NEW S, NEW r \in Seq(S), NEW s \in Seq(S), NEW t \in Seq(S)
  PROVE  (r \o s) \o t = r \o (s \o t)
OBVIOUS

LEMMA ConcatNone ==
  ASSUME NEW S, NEW s \in Seq(S)
  PROVE  s \o << >> = s /\ << >> \o s = s
OBVIOUS

\* The analysis of the luma mode: what is in progress is its carrier.
LEMMA LumaInProgress ==
  ASSUME IInv, stage = "analyse", NEW kind \in Kinds, current' \in Macroblocks,
         current'.kind = kind, stage' = AfterLuma(kind), bitstream' = bitstream,
         CHROMA444' = CHROMA444
  PROVE  AllCarriers' = AllCarriers \o LumaCarrier(Written(current'))
<1>1. AllCarriers = CarriersOf(bitstream) /\ CarriersOf(bitstream) \in Seq(Carried)
  BY Parts, PartTypes, ConcatNone
<1>2. AllCarriers' = CarriersOf(bitstream) \o InProgress'
  BY PartsAfter
<1>3. InProgress' = LumaCarrier(Written(current'))
  <2>1. CASE stage' = "chroma"
    BY <2>1, PartsAfter
  <2>2. CASE stage' = "write"
    <3>1. ChromaCarrier(Written(current')) = << >>
      <4>1. kind = "inter" \/ CHROMA444
        BY <2>2 DEF AfterLuma
      <4> QED
        BY <4>1, WrittenFields DEF ChromaCarrier
    <3>2. InProgress' = LumaCarrier(Written(current')) \o << >>
      BY <2>2, <3>1, PartsAfter
    <3>3. \A c : LumaCarrier(c) \o << >> = LumaCarrier(c)
      <4>1. \A m, from : Carrier(m, from) \o << >> = Carrier(m, from)
        BY DEF Carrier
      <4>2. << >> \o << >> = << >>
        OBVIOUS
      <4> QED
        BY <4>1, <4>2 DEF LumaCarrier
    <3> QED
      BY <3>2, <3>3
  <2> QED
    BY <2>1, <2>2 DEF AfterLuma
<1> QED
  BY <1>1, <1>2, <1>3

LEMMA AnalyseOtherCarriers ==
  ASSUME IInv, AnalyseOther
  PROVE  SameCarriers
<1>1. PICK kind \in Kinds \ {"I_16x16"} :
        current' = Chosen(kind, DC_128, 0) /\ stage' = AfterLuma(kind)
  BY DEF AnalyseOther
<1>2. /\ stage = "analyse" /\ bitstream' = bitstream /\ CHROMA444' = CHROMA444
      /\ UNCHANGED << messageVars, reencodes >>
  BY DEF AnalyseOther
<1>3. current' \in Macroblocks /\ current'.kind = kind
  <2>1. length \in Nat /\ 0 \in 0 .. length /\ DC_128 \in 0 .. DC_128
    BY Coded DEF DC_128
  <2> QED
    BY <1>1, <2>1, ChosenFields
<1>4. LumaCarrier(Written(current')) = << >>
  BY <1>1, <1>3, WrittenFields DEF LumaCarrier
<1>5. AllCarriers' = AllCarriers \o << >>
  BY <1>1, <1>2, <1>3, <1>4, LumaInProgress
<1> QED
  BY <1>2, <1>5, PartTypes, ConcatNone DEF SameCarriers

LEMMA FromType ==
  ASSUME IInv, NEW bit
  PROVE  From(bit) \in Nat
BY DEF IInv, TypeOK, From, length

LEMMA Analyse16x16Carriers ==
  ASSUME IInv, Analyse16x16
  PROVE  SameCarriers \/ OneCarrierMore
<1> DEFINE here == NeighboursHere
<1>1. /\ stage = "analyse" /\ stage' = AfterLuma("I_16x16") /\ "I_16x16" \in Kinds
      /\ bitstream' = bitstream /\ reencodes' = reencodes /\ CHROMA444' = CHROMA444
  BY DEF Analyse16x16, Kinds
<1>2. length \in Nat /\ 0 \in 0 .. length /\ here \in Neighbours
  BY Coded, NeighboursHereKnown
<1>3. PICK preferred \in predict_16x16_mode_available(here) :
        \/ /\ Reads(here)
           /\ \E bit \in Bit \cup {NoBit} :
                /\ messageReadBit(bit)
                /\ current' = Chosen("I_16x16",
                                     ebi_estegano(here, FALSE, preferred, bit), From(bit))
        \/ /\ ~Reads(here)
           /\ current' = Chosen("I_16x16", preferred, 0)
           /\ UNCHANGED messageVars
  BY DEF Analyse16x16
<1>4. CASE ~Reads(here)
  <2>1. current' = Chosen("I_16x16", preferred, 0) /\ UNCHANGED messageVars
    BY <1>3, <1>4
  <2>2. preferred \in 0 .. DC_128
    BY <1>2, LumaNumbers
  <2>3. /\ current' \in Macroblocks /\ current'.kind = "I_16x16"
        /\ current'.n = here /\ current'.luma = preferred
    BY <1>1, <1>2, <2>1, <2>2, ChosenFields
  <2>4. LumaCarrier(Written(current')) = << >>
    BY <1>4, <2>3, NoLumaCarrier
  <2>5. AllCarriers' = AllCarriers \o << >>
    BY <1>1, <2>3, <2>4, LumaInProgress
  <2> QED
    BY <1>1, <2>1, <2>5, PartTypes, ConcatNone DEF SameCarriers
<1>5. CASE Reads(here)
  <2>1. PICK bit \in Bit \cup {NoBit} :
          /\ messageReadBit(bit)
          /\ current' = Chosen("I_16x16",
                               ebi_estegano(here, FALSE, preferred, bit), From(bit))
    BY <1>3, <1>5
  <2> DEFINE luma == ebi_estegano(here, FALSE, preferred, bit)
  <2>2. From(bit) \in 0 .. length /\ luma \in 0 .. DC_128
    <3>1. ebi_estegano(here, FALSE, preferred, bit) \in predict_16x16_mode_available(here)
      BY <1>2, <1>5, LumaAllowed
    <3> QED
      BY <1>2, <2>1, <3>1, LumaNumbers, ReaderStep DEF IInv
  <2>3. /\ current' \in Macroblocks /\ current'.kind = "I_16x16"
        /\ current'.n = here /\ current'.lumaFrom = From(bit)
        /\ current'.luma = luma
    <3>1. current' = Chosen("I_16x16", luma, From(bit))
      BY <2>1
    <3> HIDE DEF luma, here
    <3> QED
      BY <1>1, <1>2, <2>2, <3>1, ChosenFields DEF here
  <2>4. PICK carried \in {0, 1} :
          /\ bit # NoBit => carried = bit
          /\ LumaCarrier(Written(current')) = << [bit |-> carried, from |-> From(bit)] >>
    BY <1>5, <2>3, OneLumaCarrier
  <2>5. AllCarriers' = AllCarriers \o << [bit |-> carried, from |-> From(bit)] >>
    BY <1>1, <2>3, <2>4, LumaInProgress
  <2>6. AllCarriers' = Append(AllCarriers, [bit |-> carried, from |-> From(bit)])
    <3>1. [bit |-> carried, from |-> From(bit)] \in Carried
      BY FromType DEF Carried
    <3> QED
      BY <2>5, <3>1, PartTypes, AppendOne
  <2> QED
    BY <1>1, <2>1, <2>4, <2>6 DEF OneCarrierMore
<1> QED
  BY <1>4, <1>5

LEMMA AnalyseChromaCarriers ==
  ASSUME IInv, AnalyseChroma
  PROVE  SameCarriers \/ OneCarrierMore
<1>1. /\ stage = "chroma" /\ stage' = "write" /\ bitstream' = bitstream
      /\ reencodes' = reencodes /\ CHROMA444' = CHROMA444
  BY DEF AnalyseChroma
<1>2. /\ current \in Macroblocks /\ current.n \in Neighbours /\ current.kind # "inter"
      /\ ~CHROMA444 /\ length \in Nat
  BY <1>1, Coded DEF IInv, ModesAllowed, Macroblocks
<1>3. PICK preferred \in predict_chroma_mode_available(current.n) :
        \/ /\ Reads(current.n)
           /\ \E bit \in Bit \cup {NoBit} :
                /\ messageReadBit(bit)
                /\ current' = [current EXCEPT
                                 !.chroma = EmbedChroma(current.n, FALSE, preferred, bit),
                                 !.chromaFrom = From(bit)]
        \/ /\ ~Reads(current.n)
           /\ current' = [current EXCEPT !.chroma = preferred]
           /\ UNCHANGED messageVars
  BY DEF AnalyseChroma
<1> DEFINE luma == LumaCarrier(Written(current))
<1>4. AllCarriers = CarriersOf(bitstream) \o luma
  BY <1>1, Parts
<1>5. CarriersOf(bitstream) \in Seq(Carried) /\ luma \in Seq(Carried)
  BY PartTypes
\* Either way the luma mode is as it was, and the carrier of the chroma mode follows.
<1>6. ASSUME current' \in Macroblocks, current'.kind = current.kind, current'.n = current.n,
             current'.luma = current.luma, current'.lumaFrom = current.lumaFrom,
             NEW chroma \in Seq(Carried), ChromaCarrier(Written(current')) = chroma
      PROVE  AllCarriers' = AllCarriers \o chroma
  <2>1. LumaCarrier(Written(current')) = luma
    BY <1>2, <1>6, SameLuma
  <2>2. AllCarriers' = CarriersOf(bitstream) \o (luma \o chroma)
    BY <1>1, <1>6, <2>1, PartsAfter
  <2> HIDE DEF luma
  <2>3. (CarriersOf(bitstream) \o luma) \o chroma = CarriersOf(bitstream) \o (luma \o chroma)
    BY ONLY <1>5, chroma \in Seq(Carried), Associative
  <2> QED
    BY <1>4, <2>2, <2>3
<1> HIDE DEF luma
<1>7. CASE ~Reads(current.n)
  <2>1. current' = [current EXCEPT !.chroma = preferred] /\ UNCHANGED messageVars
    BY <1>3, <1>7
  <2>2. preferred \in 0 .. DC_128
    BY <1>2, ChromaNumbers
  <2>3. /\ current' \in Macroblocks /\ current'.kind = current.kind
        /\ current'.n = current.n /\ current'.chroma = preferred
        /\ current'.luma = current.luma /\ current'.lumaFrom = current.lumaFrom
    BY <1>2, <2>1, <2>2 DEF Macroblocks
  <2>4. ChromaCarrier(Written(current')) = << >>
    BY <1>7, <2>3, NoChromaCarrier
  <2>5. AllCarriers' = AllCarriers \o << >>
    <3>1. << >> \in Seq(Carried)
      OBVIOUS
    <3> QED
      BY <1>6, <2>3, <2>4, <3>1
  <2> QED
    BY <1>1, <2>1, <2>5, PartTypes, ConcatNone DEF SameCarriers
<1>8. CASE Reads(current.n)
  <2>1. PICK bit \in Bit \cup {NoBit} :
          /\ messageReadBit(bit)
          /\ current' = [current EXCEPT
                           !.chroma = EmbedChroma(current.n, FALSE, preferred, bit),
                           !.chromaFrom = From(bit)]
    BY <1>3, <1>8
  <2> DEFINE chroma == EmbedChroma(current.n, FALSE, preferred, bit)
  <2>2. From(bit) \in 0 .. length /\ chroma \in 0 .. DC_128
    <3>1. chroma \in predict_chroma_mode_available(current.n)
      BY <1>2, <1>8, ChromaAllowed
    <3> QED
      BY <1>2, <2>1, <3>1, ChromaNumbers, ReaderStep DEF IInv
  <2>3. /\ current' \in Macroblocks /\ current'.kind = current.kind
        /\ current'.n = current.n /\ current'.chroma = chroma
        /\ current'.luma = current.luma /\ current'.lumaFrom = current.lumaFrom
        /\ current'.chromaFrom = From(bit)
    <3>1. current' = [current EXCEPT !.chroma = chroma, !.chromaFrom = From(bit)]
      BY <2>1
    <3> HIDE DEF chroma
    <3> QED
      BY <1>2, <2>2, <3>1 DEF Macroblocks
  <2>4. PICK carried \in {0, 1} :
          /\ bit # NoBit => carried = bit
          /\ ChromaCarrier(Written(current')) = << [bit |-> carried, from |-> From(bit)] >>
    BY <1>2, <1>8, <2>3, OneChromaCarrier
  <2>5. [bit |-> carried, from |-> From(bit)] \in Carried
    BY FromType DEF Carried
  <2>6. AllCarriers' = AllCarriers \o << [bit |-> carried, from |-> From(bit)] >>
    <3>1. << [bit |-> carried, from |-> From(bit)] >> \in Seq(Carried)
      BY <2>5
    <3> QED
      BY <1>6, <2>3, <2>4, <3>1
  <2>7. AllCarriers' = Append(AllCarriers, [bit |-> carried, from |-> From(bit)])
    BY <2>5, <2>6, PartTypes, AppendOne
  <2> QED
    BY <1>1, <2>1, <2>4, <2>7 DEF OneCarrierMore
<1> QED
  BY <1>7, <1>8

LEMMA WriteCarriers ==
  ASSUME IInv, WriteMacroblock
  PROVE  SameCarriers
<1>1. /\ stage = "write" /\ stage' = "analyse"
      /\ bitstream' = Append(bitstream, Written(current))
      /\ CHROMA444' = CHROMA444 /\ UNCHANGED << messageVars, reencodes >>
  BY DEF WriteMacroblock
<1> DEFINE before == CarriersOf(bitstream)
           luma == LumaCarrier(Written(current))
           chroma == ChromaCarrier(Written(current))
<1>2. before \in Seq(Carried) /\ luma \in Seq(Carried) /\ chroma \in Seq(Carried)
  BY PartTypes
<1>3. AllCarriers = before \o (luma \o chroma)
  BY <1>1, Parts
<1>4. AllCarriers' = ((before \o luma) \o chroma) \o << >>
  <2>1. CarriersOf(bitstream') = (before \o luma) \o chroma
    BY <1>1, Coded, CarriersOfAppend
  <2> QED
    BY <1>1, <2>1, PartsAfter
<1> HIDE DEF before, luma, chroma
<1>5. AllCarriers' = AllCarriers
  <2>1. (before \o luma) \o chroma \in Seq(Carried)
    BY <1>2
  <2> QED
    BY <1>2, <1>3, <1>4, <2>1, ThreeParts, ConcatNone
<1> QED
  BY <1>1, <1>5 DEF SameCarriers

LEMMA ExtendsIsPrefix ==
  ASSUME NEW S, NEW s \in Seq(S), NEW t \in Seq(S), NEW n, Extends(s, t, n)
  PROVE  s = SubSeq(t, 1, Len(s))
BY DEF Extends

LEMMA ReencodeCarriers ==
  ASSUME IInv, ReencodeRow
  PROVE  RowTakenBack
<1>1. /\ stage = "write" /\ stage' = "analyse" /\ Column = Width - 1
      /\ bitstream' = SubSeq(bitstream, 1, Len(bitstream) - Column)
      /\ reencodes' = reencodes + 1
      /\ CHROMA444' = CHROMA444 /\ UNCHANGED messageVars
  BY DEF ReencodeRow, RowStart
<1> DEFINE k == Len(bitstream) - Column
           after == CarriersOf(SubSeq(bitstream, 1, k))
           before == CarriersOf(bitstream)
           luma == LumaCarrier(Written(current))
           chroma == ChromaCarrier(Written(current))
<1>2. Width \in Nat \ {0} /\ bitstream \in Seq(CodedMacroblocks) /\ length \in Nat
  BY Coded, CoderAssumption
<1>3. k \in 0 .. Len(bitstream) /\ Len(bitstream) - k = Width - 1
  <2>1. Len(bitstream) \in Nat /\ Column \in 0 .. Len(bitstream)
    BY <1>2 DEF Column
  <2> HIDE DEF Column
  <2> QED
    BY <1>1, <1>2, <2>1
<1> HIDE DEF k
<1>4. Extends(after, before, 2 * (Width - 1)) /\ after \in Seq(Carried)
  <2>1. SubSeq(bitstream, 1, k) \in Seq(CodedMacroblocks)
    BY <1>2, <1>3
  <2> QED
    BY <1>2, <1>3, <2>1, CarriersOfPrefix, CarriersOfType
<1>5. /\ before \in Seq(Carried) /\ luma \in Seq(Carried) /\ chroma \in Seq(Carried)
      /\ Len(luma) <= 1 /\ Len(chroma) <= 1
  BY PartTypes
<1>6. AllCarriers = before \o (luma \o chroma) /\ AllCarriers \in Seq(Carried)
  BY <1>1, Parts, PartTypes
<1>7. AllCarriers' = after
  <2>1. AllCarriers' = CarriersOf(SubSeq(bitstream, 1, k)) \o << >>
    BY <1>1, PartsAfter DEF k
  <2> HIDE DEF after
  <2> QED
    BY <1>4, <2>1, ConcatNone DEF after
<1> HIDE DEF after, before, luma, chroma
<1>8. Extends(before, AllCarriers, Len(luma) + Len(chroma))
  BY <1>5, <1>6, ThreeParts
<1>9. Extends(after, AllCarriers, 2 * Width)
  <2>1. /\ Len(after) <= Len(before) /\ Len(before) <= Len(after) + 2 * (Width - 1)
        /\ Len(before) <= Len(AllCarriers)
        /\ Len(AllCarriers) <= Len(before) + (Len(luma) + Len(chroma))
    BY <1>4, <1>8 DEF Extends
  <2>2. /\ Len(after) \in Nat /\ Len(before) \in Nat /\ Len(AllCarriers) \in Nat
        /\ Len(luma) \in Nat /\ Len(chroma) \in Nat
    BY <1>4, <1>5, <1>6
  <2>3. \A a, b, c, x, y \in Nat :
          a <= b /\ b <= a + 2 * (Width - 1) /\ b <= c /\ c <= b + (x + y) /\ x <= 1 /\ y <= 1
            => a <= c /\ c <= a + 2 * Width
    BY <1>2
  <2>4. Len(after) <= Len(AllCarriers) /\ Len(AllCarriers) <= Len(after) + 2 * Width
    BY <1>5, <2>1, <2>2, <2>3, Zenon
  <2>5. \A i \in 1 .. Len(after) : AllCarriers[i] = after[i]
    <3> SUFFICES ASSUME NEW i \in 1 .. Len(after) PROVE AllCarriers[i] = after[i]
      OBVIOUS
    <3>1. i \in 1 .. Len(before)
      BY <2>1, <2>2
    <3> QED
      BY <1>4, <1>8, <3>1 DEF Extends
  <2> QED
    BY <2>4, <2>5 DEF Extends
<1>10. /\ Len(after) \in 0 .. Len(AllCarriers) /\ Len(AllCarriers) - Len(after) <= 2 * Width
       /\ AllCarriers' = SubSeq(AllCarriers, 1, Len(after))
  <2>1. Len(after) \in Nat /\ Len(AllCarriers) \in Nat
    BY <1>4, <1>6
  <2>2. Len(after) <= Len(AllCarriers) /\ Len(AllCarriers) <= Len(after) + 2 * Width
    BY <1>9 DEF Extends
  <2>3. after = SubSeq(AllCarriers, 1, Len(after))
    BY <1>4, <1>6, <1>9, ExtendsIsPrefix
  <2> QED
    BY <1>2, <1>7, <2>1, <2>2, <2>3
<1> QED
  BY <1>1, <1>10 DEF RowTakenBack

LEMMA CarriersStep ==
  ASSUME IInv, [Next]_vars
  PROVE  SameCarriers \/ OneCarrierMore \/ RowTakenBack
<1>1. CASE AnalyseOther
  BY <1>1, AnalyseOtherCarriers
<1>2. CASE Analyse16x16
  BY <1>2, Analyse16x16Carriers
<1>3. CASE AnalyseChroma
  BY <1>3, AnalyseChromaCarriers
<1>4. CASE WriteMacroblock
  BY <1>4, WriteCarriers
<1>5. CASE ReencodeRow
  BY <1>5, ReencodeCarriers
<1>6. CASE UNCHANGED vars
  <2>1. AllCarriers' = AllCarriers
    BY <1>6 DEF vars, coderVars, AllCarriers, Recovered, CarriersOf, InProgress,
                LumaCarrier, ChromaCarrier, Written
  <2> QED
    BY <1>6, <2>1 DEF vars, coderVars, SameCarriers
<1> QED
  BY <1>1, <1>2, <1>3, <1>4, <1>5, <1>6 DEF Next

-----------------------------------------------------------------------------
(* Order and loss *)

\* What is in the carriers has been read, and is what was read.
FromMessage(carriers) ==
  \A i \in 1 .. Len(carriers) :
    /\ carriers[i].from <= cursor
    /\ carriers[i].from # 0 => carriers[i].bit = body[carriers[i].from]

Ordered(carriers) ==
  \A i \in 1 .. Len(carriers) : \A j \in 1 .. i - 1 :
    carriers[i].from # 0 =>
      carriers[j].from # 0 /\ carriers[j].from < carriers[i].from

\* As long as the message goes on no carrier is without a bit of it: a read that
\* hands out nothing is the end of the message.
Unbroken(carriers) ==
  isSendingMessage /\ ~gettingCapacity =>
    \A i \in 1 .. Len(carriers) : carriers[i].from # 0

InOrder ==
  FromMessage(AllCarriers) /\ Ordered(AllCarriers) /\ Unbroken(AllCarriers)

LEMMA ReaderCases ==
  ASSUME IInv, NEW bit \in Bit \cup {NoBit}, messageReadBit(bit)
  PROVE  /\ body' = body /\ gettingCapacity' = gettingCapacity
         /\ numberOfEmbededBits' = numberOfEmbededBits + 1
         /\ \/ /\ From(bit) = cursor + 1 /\ cursor' = cursor + 1
               /\ isSendingMessage /\ ~gettingCapacity
               /\ bit # NoBit /\ bit = body[cursor + 1]
            \/ /\ From(bit) = 0 /\ cursor' = cursor
               /\ ~isSendingMessage' \/ gettingCapacity
<1>1. /\ body' = body /\ gettingCapacity' = gettingCapacity
      /\ numberOfEmbededBits' = numberOfEmbededBits + 1
  BY DEF messageReadBit
<1>2. CASE ReadNext(bit)
  <2>1. /\ ~gettingCapacity /\ isSendingMessage /\ cursor < length
        /\ cursor' = cursor + 1 /\ bit = body[cursor + 1]
    BY <1>2 DEF ReadNext
  <2>2. cursor + 1 \in 1 .. Len(body) /\ body \in Seq(Bit)
    BY <2>1 DEF IInv, TypeOK, length
  <2>3. bit \in Bit
    BY <2>1, <2>2
  <2>4. bit # NoBit
    BY <2>3 DEF Bit, NoBit
  <2> QED
    BY <1>1, <2>1, <2>4 DEF From
<1>3. CASE ReadRandom(bit)
  BY <1>1, <1>3 DEF ReadRandom, From
<1>4. CASE ReadIdle(bit)
  BY <1>1, <1>4 DEF ReadIdle, From
<1>5. CASE ReadPastEnd(bit)
  BY <1>1, <1>5 DEF ReadPastEnd, From
<1> QED
  BY <1>2, <1>3, <1>4, <1>5 DEF messageReadBit

LEMMA AppendedElements ==
  ASSUME NEW S, NEW s \in Seq(S), NEW e \in S
  PROVE  /\ Append(s, e) \in Seq(S) /\ Len(Append(s, e)) = Len(s) + 1 /\ Len(s) \in Nat
         /\ \A i \in 1 .. Len(s) : Append(s, e)[i] = s[i] /\ i \in 1 .. Len(s) + 1
         /\ Append(s, e)[Len(s) + 1] = e
         /\ \A i \in 1 .. Len(s) + 1 : i \in 1 .. Len(s) \/ i = Len(s) + 1
OBVIOUS

LEMMA OneMoreInOrder ==
  ASSUME IInv, InOrder, OneCarrierMore
  PROVE  InOrder'
<1>1. PICK bit \in Bit \cup {NoBit}, carried \in {0, 1} :
        /\ messageReadBit(bit)
        /\ bit # NoBit => carried = bit
        /\ AllCarriers' = Append(AllCarriers, [bit |-> carried, from |-> From(bit)])
  BY DEF OneCarrierMore
<1> DEFINE cs == AllCarriers
           c == [bit |-> carried, from |-> From(bit)]
           n == Len(cs)
<1>2. cs \in Seq(Carried) /\ c \in Carried /\ cursor \in Nat
  BY PartTypes, FromType DEF Carried, IInv, TypeOK, length
<1>3. /\ Append(cs, c) \in Seq(Carried) /\ Len(Append(cs, c)) = n + 1 /\ n \in Nat
      /\ \A i \in 1 .. n : Append(cs, c)[i] = cs[i] /\ i \in 1 .. n + 1
      /\ Append(cs, c)[n + 1] = c
      /\ \A i \in 1 .. n + 1 : i \in 1 .. n \/ i = n + 1
  BY <1>2, AppendedElements
<1>4. AllCarriers' = Append(cs, c) /\ c.bit = carried /\ c.from = From(bit)
  BY <1>1
<1>5. \A i \in 1 .. n : cs[i].from \in Nat
  <2>1. \A e \in Carried : e.from \in Nat
    BY DEF Carried
  <2> HIDE DEF cs
  <2>2. \A i \in 1 .. n : cs[i] \in Carried
    BY <1>2
  <2> QED
    BY <2>1, <2>2
<1>6. FromMessage(cs) /\ Ordered(cs) /\ Unbroken(cs)
  BY DEF InOrder
<1>7. /\ body' = body /\ gettingCapacity' = gettingCapacity
      /\ \/ /\ c.from = cursor + 1 /\ cursor' = cursor + 1
            /\ isSendingMessage /\ ~gettingCapacity /\ c.bit = body[cursor + 1]
         \/ /\ c.from = 0 /\ cursor' = cursor
            /\ ~isSendingMessage' \/ gettingCapacity
  BY <1>1, <1>4, ReaderCases
<1> HIDE DEF cs, c
<1> DEFINE more == Append(cs, c)
<1>8. /\ \A i \in 1 .. n : more[i] = cs[i]
      /\ more[n + 1] = c /\ Len(more) = n + 1
  BY <1>3
<1> HIDE DEF more
<1>9. \A i \in 1 .. Len(more) :
        /\ more[i].from <= cursor'
        /\ more[i].from # 0 => more[i].bit = body[more[i].from]
  <2> SUFFICES ASSUME NEW i \in 1 .. n + 1
               PROVE  /\ more[i].from <= cursor'
                      /\ more[i].from # 0 => more[i].bit = body[more[i].from]
    BY <1>8
  <2>1. CASE i \in 1 .. n
    <3>1. more[i] = cs[i] /\ cs[i].from \in Nat /\ cs[i].from <= cursor
          /\ (cs[i].from # 0 => cs[i].bit = body[cs[i].from])
      BY <1>5, <1>6, <1>8, <2>1 DEF FromMessage
    <3>2. cursor <= cursor' /\ cursor' \in Nat
      BY <1>2, <1>7
    <3> QED
      BY <1>2, <3>1, <3>2
  <2>2. CASE i = n + 1
    BY <1>2, <1>7, <1>8, <2>2
  <2> QED
    BY <1>3, <2>1, <2>2
<1>10. Ordered(more)
  <2> SUFFICES ASSUME NEW i \in 1 .. n + 1, NEW j \in 1 .. i - 1, more[i].from # 0
               PROVE  more[j].from # 0 /\ more[j].from < more[i].from
    BY <1>8 DEF Ordered
  <2>1. j \in 1 .. n
    BY <1>3
  <2>2. CASE i \in 1 .. n
    BY <1>6, <1>8, <2>1, <2>2 DEF Ordered
  <2>3. CASE i = n + 1
    <3>1. c.from = cursor + 1 /\ isSendingMessage /\ ~gettingCapacity
      BY <1>7, <1>8, <2>3
    <3>2. cs[j].from # 0 /\ cs[j].from <= cursor /\ cs[j].from \in Nat
      BY <1>5, <1>6, <2>1, <3>1 DEF Unbroken, FromMessage
    <3> QED
      BY <1>2, <1>8, <2>1, <2>3, <3>1, <3>2
  <2> QED
    BY <1>3, <2>2, <2>3
<1>11. isSendingMessage' /\ ~gettingCapacity =>
         \A i \in 1 .. Len(more) : more[i].from # 0
  <2> SUFFICES ASSUME isSendingMessage', ~gettingCapacity, NEW i \in 1 .. n + 1
               PROVE  more[i].from # 0
    BY <1>8
  <2>1. c.from = cursor + 1 /\ isSendingMessage
    BY <1>7
  <2>2. CASE i \in 1 .. n
    BY <1>6, <1>8, <2>1, <2>2 DEF Unbroken
  <2>3. CASE i = n + 1
    BY <1>2, <1>8, <2>1, <2>3
  <2> QED
    BY <1>3, <2>2, <2>3
<1>12. AllCarriers' = more
  BY <1>4 DEF more
<1> QED
  BY <1>7, <1>9, <1>10, <1>11, <1>12 DEF InOrder, FromMessage, Ordered, Unbroken

LEMMA RowBackInOrder ==
  ASSUME IInv, InOrder, RowTakenBack
  PROVE  InOrder'
<1>1. /\ body' = body /\ cursor' = cursor /\ isSendingMessage' = isSendingMessage
      /\ gettingCapacity' = gettingCapacity
  BY DEF RowTakenBack, messageVars
<1>2. PICK n \in 0 .. Len(AllCarriers) : AllCarriers' = SubSeq(AllCarriers, 1, n)
  BY DEF RowTakenBack
<1> DEFINE cs == AllCarriers
           fewer == SubSeq(cs, 1, n)
<1>3. cs \in Seq(Carried)
  BY PartTypes
<1>4. /\ Len(fewer) = n /\ n \in Nat /\ n <= Len(cs) /\ Len(cs) \in Nat
      /\ \A i \in 1 .. n : fewer[i] = cs[i] /\ i \in 1 .. Len(cs)
  BY <1>3
<1>5. FromMessage(cs) /\ Ordered(cs) /\ Unbroken(cs)
  BY DEF InOrder
<1> HIDE DEF cs, fewer
<1>6. FromMessage(fewer) /\ Unbroken(fewer)
  BY <1>4, <1>5 DEF FromMessage, Unbroken
<1>7. Ordered(fewer)
  <2> SUFFICES ASSUME NEW i \in 1 .. n, NEW j \in 1 .. i - 1, fewer[i].from # 0
               PROVE  fewer[j].from # 0 /\ fewer[j].from < fewer[i].from
    BY <1>4 DEF Ordered
  <2>1. j \in 1 .. n
    BY <1>4
  <2> QED
    BY <1>4, <1>5, <2>1 DEF Ordered
<1>8. AllCarriers' = fewer
  BY <1>2 DEF fewer, cs
<1> QED
  BY <1>1, <1>6, <1>7, <1>8 DEF InOrder, FromMessage, Ordered, Unbroken

LEMMA InOrderInit ==
  Init => InOrder /\ AllCarriers = << >>
<1> SUFFICES ASSUME Init PROVE InOrder /\ AllCarriers = << >>
  OBVIOUS
<1>1. bitstream = << >> /\ stage = "analyse" /\ length \in Nat
  BY IInvInit, Coded DEF Init
<1>2. AllCarriers = << >> \o << >>
  BY <1>1, Parts, CarriersOfNone
<1>3. AllCarriers = << >> /\ Len(AllCarriers) = 0
  BY <1>2
<1> QED
  BY <1>3 DEF InOrder, FromMessage, Ordered, Unbroken

LEMMA InOrderStep ==
  ASSUME IInv, InOrder, [Next]_vars
  PROVE  InOrder'
<1>1. CASE SameCarriers
  BY <1>1 DEF SameCarriers, messageVars, InOrder, FromMessage, Ordered, Unbroken
<1>2. CASE OneCarrierMore
  BY <1>2, OneMoreInOrder
<1>3. CASE RowTakenBack
  BY <1>3, RowBackInOrder
<1> QED
  BY <1>1, <1>2, <1>3, CarriersStep

LEMMA InOrderAlways == Spec => [](IInv /\ InOrder)
<1>1. Init => IInv /\ InOrder
  BY IInvInit, InOrderInit
<1>2. IInv /\ InOrder /\ [Next]_vars => IInv' /\ InOrder'
  BY IInvStep, InOrderStep
<1> QED
  BY <1>1, <1>2, PTL DEF Spec

\* For every frame, message and number of rows encoded again: what the decoder
\* recovers of the message is right, in the order of the message, none twice, and
\* nothing of it comes behind its end (message.c, x264_analyse_update_cache, the
\* restored backup of x264_slice_write).
THEOREM CarriedInOrderTheorem == Spec => []CarriedInOrder
<1>1. InOrder => CarriedInOrder
  BY DEF InOrder, FromMessage, Ordered, CarriedInOrder
<1> QED
  BY <1>1, InOrderAlways, PTL

-----------------------------------------------------------------------------
(* How much is lost *)

\* The carriers that hold a bit of the message, and how many they are.
Holding(carriers) == {i \in 1 .. Len(carriers) : carriers[i].from # 0}
Held(carriers) == Cardinality(Holding(carriers))

LEMMA HeldNumber ==
  ASSUME NEW S, NEW s \in Seq(S)
  PROVE  IsFiniteSet(Holding(s)) /\ Held(s) \in Nat
<1>1. IsFiniteSet(1 .. Len(s)) /\ Holding(s) \in SUBSET (1 .. Len(s))
  BY FS_Interval DEF Holding
<1>2. IsFiniteSet(Holding(s))
  BY <1>1, FS_Subset
<1> QED
  BY <1>2, FS_CardinalityType DEF Held

LEMMA HeldByNone ==
  Held(<< >>) = 0
<1>1. Holding(<< >>) = {}
  BY DEF Holding
<1> QED
  BY <1>1, FS_EmptySet DEF Held

LEMMA HeldAfterAppend ==
  ASSUME NEW S, NEW s \in Seq(S), NEW e \in S
  PROVE  Held(Append(s, e)) = IF e.from # 0 THEN Held(s) + 1 ELSE Held(s)
<1> DEFINE more == Append(s, e)
           n == Len(s)
<1>1. /\ n \in Nat /\ Len(more) = n + 1 /\ more[n + 1] = e
      /\ \A i \in 1 .. n : more[i] = s[i] /\ i \in 1 .. n + 1
      /\ \A i \in 1 .. n + 1 : i \in 1 .. n \/ i = n + 1
  BY AppendedElements
<1>2. n + 1 \in 1 .. n + 1 /\ n + 1 \notin 1 .. n
  BY <1>1
<1> HIDE DEF more, n
<1>3. CASE e.from # 0
  <2>1. Holding(more) = Holding(s) \cup {n + 1}
    BY <1>1, <1>2, <1>3 DEF Holding, n
  <2>2. n + 1 \notin Holding(s)
    BY <1>2 DEF Holding, n
  <2> QED
    BY <1>3, <2>1, <2>2, HeldNumber, FS_AddElement DEF Held, more
<1>4. CASE e.from = 0
  <2>1. Holding(more) = Holding(s)
    BY <1>1, <1>2, <1>4 DEF Holding, n
  <2> QED
    BY <1>4, <2>1 DEF Held, more
<1> QED
  BY <1>3, <1>4

\* Of a prefix no more is gone than the carriers behind it held.
LEMMA HeldByPrefix ==
  ASSUME NEW S, NEW s \in Seq(S), NEW n \in 0 .. Len(s)
  PROVE  /\ Held(SubSeq(s, 1, n)) \in Nat /\ Held(SubSeq(s, 1, n)) <= Held(s)
         /\ Held(s) <= Held(SubSeq(s, 1, n)) + (Len(s) - n)
<1> DEFINE fewer == SubSeq(s, 1, n)
           m == Len(s)
<1>1. /\ fewer \in Seq(S) /\ Len(fewer) = n /\ n \in Nat /\ m \in Nat /\ n <= m
      /\ \A i \in 1 .. n : fewer[i] = s[i] /\ i \in 1 .. m
      /\ \A i \in 1 .. m : i \in 1 .. n \/ i \in n + 1 .. m
  OBVIOUS
<1> HIDE DEF fewer
<1>2. IsFiniteSet(Holding(s)) /\ IsFiniteSet(Holding(fewer)) /\ Held(s) \in Nat
      /\ Held(fewer) \in Nat
  BY <1>1, HeldNumber
<1>3. Holding(fewer) \subseteq Holding(s)
  BY <1>1 DEF Holding
<1>4. Held(fewer) <= Held(s)
  BY <1>2, <1>3, FS_Subset DEF Held
<1>5. /\ IsFiniteSet(n + 1 .. m) /\ Cardinality(n + 1 .. m) = m - n
  <2>1. n + 1 \in Int /\ m \in Int
    BY <1>1
  <2> HIDE DEF m
  <2>2. /\ IsFiniteSet(n + 1 .. m)
        /\ Cardinality(n + 1 .. m) = IF n + 1 > m THEN 0 ELSE m - (n + 1) + 1
    BY <2>1, FS_Interval
  <2> QED
    BY <1>1, <2>2
<1> DEFINE both == Holding(fewer) \cup (n + 1 .. m)
           common == Holding(fewer) \cap (n + 1 .. m)
<1>6. Holding(s) \subseteq both
  BY <1>1 DEF Holding
<1>7. IsFiniteSet(both) /\ Cardinality(both) = Held(fewer) + (m - n) - Cardinality(common)
  BY <1>2, <1>5, FS_Union DEF Held
<1>8. common = {}
  <2>1. \A i \in 1 .. n : i \notin n + 1 .. m
    BY <1>1
  <2> QED
    BY <1>1, <2>1 DEF Holding
<1>9. Cardinality(common) = 0
  BY <1>8, FS_EmptySet
<1>10. Held(s) <= Cardinality(both)
  BY <1>6, <1>7, FS_Subset DEF Held
<1> HIDE DEF both, common, m
<1>11. Held(s) <= Held(fewer) + (m - n)
  BY <1>1, <1>2, <1>7, <1>9, <1>10
<1> QED
  BY <1>2, <1>4, <1>11 DEF fewer, m

LEMMA MissingIsNotHeld ==
  Missing = cursor - Held(AllCarriers)
BY DEF Missing, Held, Holding

LEMMA OnlyRowsStep ==
  ASSUME IInv, OnlyRowsAreLost, [Next]_vars
  PROVE  OnlyRowsAreLost'
<1> DEFINE cs == AllCarriers
           lost == 2 * Width * reencodes
<1>1. /\ cs \in Seq(Carried) /\ Held(cs) \in Nat /\ cursor \in Nat /\ reencodes \in Nat
      /\ Width \in Nat
  BY PartTypes, HeldNumber, CoderAssumption DEF IInv, TypeOK, length
<1>2. lost \in Nat /\ cursor - Held(cs) \in 0 .. lost
  <2>1. \A w, r \in Nat : 2 * w * r \in Nat
    OBVIOUS
  <2> QED
    BY <1>1, <2>1, MissingIsNotHeld DEF OnlyRowsAreLost
<1>3. Missing' = cursor' - Held(AllCarriers')
  BY DEF Missing, Held, Holding
<1>4. CASE SameCarriers
  BY <1>2, <1>3, <1>4 DEF SameCarriers, messageVars, OnlyRowsAreLost
<1>5. CASE OneCarrierMore
  <2>1. PICK bit \in Bit \cup {NoBit}, carried \in {0, 1} :
          /\ messageReadBit(bit)
          /\ AllCarriers' = Append(AllCarriers, [bit |-> carried, from |-> From(bit)])
          /\ reencodes' = reencodes
    BY <1>5 DEF OneCarrierMore
  <2> DEFINE c == [bit |-> carried, from |-> From(bit)]
  <2>2. c \in Carried /\ c.from = From(bit)
    BY FromType DEF Carried
  <2>3. Held(AllCarriers') = IF From(bit) # 0 THEN Held(cs) + 1 ELSE Held(cs)
    BY <1>1, <2>1, <2>2, HeldAfterAppend
  <2>4. \/ From(bit) = cursor + 1 /\ cursor' = cursor + 1
        \/ From(bit) = 0 /\ cursor' = cursor
    BY <2>1, ReaderCases
  <2>5. Missing' = cursor - Held(cs)
    <3> HIDE DEF cs
    <3>1. CASE From(bit) = cursor + 1 /\ cursor' = cursor + 1
      BY <1>1, <1>3, <2>3, <3>1
    <3>2. CASE From(bit) = 0 /\ cursor' = cursor
      BY <1>1, <1>3, <2>3, <3>2
    <3> QED
      BY <2>4, <3>1, <3>2
  <2> QED
    BY <1>2, <2>1, <2>5 DEF OnlyRowsAreLost
<1>6. CASE RowTakenBack
  <2>1. PICK n \in 0 .. Len(AllCarriers) :
          /\ Len(AllCarriers) - n <= 2 * Width
          /\ AllCarriers' = SubSeq(AllCarriers, 1, n)
    BY <1>6 DEF RowTakenBack
  <2>2. cursor' = cursor /\ reencodes' = reencodes + 1
    BY <1>6 DEF RowTakenBack, messageVars
  <2>3. /\ Held(AllCarriers') \in Nat /\ Held(AllCarriers') <= Held(cs)
        /\ Held(cs) <= Held(AllCarriers') + (Len(cs) - n)
    BY <1>1, <2>1, HeldByPrefix
  <2>4. 2 * Width * (reencodes + 1) = lost + 2 * Width
    <3>1. \A w, r \in Nat : 2 * w * (r + 1) = 2 * w * r + 2 * w
      OBVIOUS
    <3> QED
      BY <1>1, <3>1
  <2>5. Len(cs) - n <= 2 * Width /\ Len(cs) \in Nat /\ n \in Nat
    BY <1>1, <2>1
  <2>6. Missing' \in 0 .. lost + 2 * Width
    <3> HIDE DEF cs, lost
    <3> QED
      BY <1>1, <1>2, <1>3, <2>2, <2>3, <2>5
  <2> QED
    BY <2>2, <2>4, <2>6 DEF OnlyRowsAreLost
<1> QED
  BY <1>4, <1>5, <1>6, CarriersStep

\* For every frame, message and number of rows encoded again: the bits that were
\* read and are in no carrier are at most two for every macroblock of a row that was
\* encoded again, and without such a row none is missing (x264_slice_write restores
\* the bitstream, nothing restores the cursor of message.c).
THEOREM OnlyRowsAreLostTheorem == Spec => []OnlyRowsAreLost
<1>1. Init => IInv /\ OnlyRowsAreLost
  <2> SUFFICES ASSUME Init PROVE OnlyRowsAreLost
    BY IInvInit
  <2>1. Missing = 0 - 0
    BY InOrderInit, MissingIsNotHeld, HeldByNone DEF Init
  <2>2. 2 * Width * reencodes = 0
    BY CoderAssumption DEF Init
  <2> QED
    BY <2>1, <2>2 DEF OnlyRowsAreLost
<1>2. IInv /\ OnlyRowsAreLost /\ [Next]_vars => IInv' /\ OnlyRowsAreLost'
  BY IInvStep, OnlyRowsStep
<1> QED
  BY <1>1, <1>2, PTL DEF Spec

LEMMA CounterStep ==
  ASSUME IInv, CounterIsCapacity, [Next]_vars
  PROVE  CounterIsCapacity'
<1>1. /\ AllCarriers \in Seq(Carried) /\ Len(AllCarriers) \in Nat
      /\ numberOfEmbededBits \in Nat /\ reencodes \in Nat
  BY PartTypes DEF IInv, TypeOK
<1>2. CASE SameCarriers
  BY <1>2 DEF SameCarriers, messageVars, CounterIsCapacity
<1>3. CASE OneCarrierMore
  <2>1. PICK bit \in Bit \cup {NoBit}, carried \in {0, 1} :
          /\ messageReadBit(bit)
          /\ AllCarriers' = Append(AllCarriers, [bit |-> carried, from |-> From(bit)])
          /\ reencodes' = reencodes
    BY <1>3 DEF OneCarrierMore
  <2>2. [bit |-> carried, from |-> From(bit)] \in Carried
    BY FromType DEF Carried
  <2>3. Len(AllCarriers') = Len(AllCarriers) + 1
    BY <1>1, <2>1, <2>2, AppendedElements
  <2>4. numberOfEmbededBits' = numberOfEmbededBits + 1
    BY <2>1 DEF messageReadBit
  <2> QED
    BY <1>1, <2>1, <2>3, <2>4 DEF CounterIsCapacity
<1>4. CASE RowTakenBack
  <2>1. PICK n \in 0 .. Len(AllCarriers) : AllCarriers' = SubSeq(AllCarriers, 1, n)
    BY <1>4 DEF RowTakenBack
  <2>2. Len(AllCarriers') = n /\ n \in Nat /\ n <= Len(AllCarriers)
    BY <1>1, <2>1
  <2>3. numberOfEmbededBits' = numberOfEmbededBits /\ reencodes' = reencodes + 1
    BY <1>4 DEF RowTakenBack, messageVars
  <2> QED
    BY <1>1, <2>2, <2>3 DEF CounterIsCapacity
<1> QED
  BY <1>2, <1>3, <1>4, CarriersStep

\* For every frame and number of rows encoded again: the counter that getCapacity
\* returns is never below what the decoder will find, and is exactly that as long as
\* no row is encoded again (message.c numberOfEmbededBits, Stegano::getCapacity).
THEOREM CounterIsCapacityTheorem == Spec => []CounterIsCapacity
<1>1. Init => IInv /\ CounterIsCapacity
  <2> SUFFICES ASSUME Init PROVE CounterIsCapacity
    BY IInvInit
  <2>1. AllCarriers = << >> /\ numberOfEmbededBits = 0
    BY InOrderInit DEF Init
  <2>2. Len(AllCarriers) = 0
    BY <2>1
  <2> QED
    BY <2>1, <2>2 DEF CounterIsCapacity
<1>2. IInv /\ CounterIsCapacity /\ [Next]_vars => IInv' /\ CounterIsCapacity'
  BY IInvStep, CounterStep
<1> QED
  BY <1>1, <1>2, PTL DEF Spec

-----------------------------------------------------------------------------
(* The channel *)

\* What the channel shows of the carriers.
BitsOf(carriers) == [i \in 1 .. Len(carriers) |-> carriers[i].bit]

LEMMA BitsOfAppend ==
  ASSUME NEW s \in Seq(Carried), NEW c \in Carried
  PROVE  BitsOf(Append(s, c)) = Append(BitsOf(s), c.bit)
<1>1. \A e \in Carried : e.bit \in Bit
  BY DEF Carried, Bit
<1>2. \A t \in Seq(Carried) : BitsOf(t) \in Seq(Bit) /\ Len(BitsOf(t)) = Len(t)
                              /\ \A i \in 1 .. Len(t) : BitsOf(t)[i] = t[i].bit
  BY <1>1 DEF BitsOf
<1> DEFINE more == Append(s, c)
           n == Len(s)
<1>3. /\ more \in Seq(Carried) /\ Len(more) = n + 1 /\ n \in Nat
      /\ \A i \in 1 .. n : more[i] = s[i] /\ i \in 1 .. n + 1
      /\ more[n + 1] = c
      /\ \A i \in 1 .. n + 1 : i \in 1 .. n \/ i = n + 1
  BY AppendedElements
<1> DEFINE x == BitsOf(more)
           y == Append(BitsOf(s), c.bit)
<1>4. /\ y \in Seq(Bit) /\ Len(y) = n + 1 /\ y[n + 1] = c.bit
      /\ \A i \in 1 .. n : y[i] = BitsOf(s)[i]
  BY <1>1, <1>2
<1>5. x \in Seq(Bit) /\ Len(x) = n + 1
  BY <1>2, <1>3
<1>6. \A i \in 1 .. n + 1 : x[i] = y[i]
  <2> HIDE DEF more, n, y
  <2>1. \A i \in 1 .. n + 1 : x[i] = more[i].bit
    BY <1>2, <1>3
  <2>2. \A i \in 1 .. n : y[i] = s[i].bit
    BY <1>2, <1>4 DEF n
  <2> HIDE DEF x
  <2> QED
    BY <1>3, <1>4, <2>1, <2>2
<1> HIDE DEF x, y, n
<1>7. x = y
  BY <1>3, <1>4, <1>5, <1>6
<1> QED
  BY <1>7 DEF x, y

LEMMA ChannelBegins ==
  ASSUME Init
  PROVE  Channel!ChannelInit
<1>1. AllCarriers = << >>
  BY InOrderInit
<1>2. [i \in 1 .. Len(AllCarriers) |-> AllCarriers[i].bit] = << >>
  BY <1>1
<1>3. body \in Seq(Channel!Bit)
  BY CoderAssumption DEF Init, Bit, Channel!Bit
<1> QED
  BY <1>2, <1>3 DEF Init, Channel!ChannelInit

LEMMA ChannelStep ==
  ASSUME IInv, IInv', [Next]_vars
  PROVE  [reencodes' = reencodes => Channel!EncodeBit]_(Channel!channelVars)
<1>1. CASE SameCarriers
  BY <1>1 DEF SameCarriers, messageVars, Channel!channelVars, Channel!messageVars
<1>2. CASE OneCarrierMore
  <2>1. PICK bit \in Bit \cup {NoBit}, carried \in {0, 1} :
          /\ messageReadBit(bit)
          /\ bit # NoBit => carried = bit
          /\ AllCarriers' = Append(AllCarriers, [bit |-> carried, from |-> From(bit)])
    BY <1>2 DEF OneCarrierMore
  <2> DEFINE c == [bit |-> carried, from |-> From(bit)]
  <2>2. c \in Carried /\ c.bit = carried /\ AllCarriers \in Seq(Carried)
    BY FromType, PartTypes DEF Carried
  <2>3. BitsOf(AllCarriers') = Append(BitsOf(AllCarriers), carried)
    BY <2>1, <2>2, BitsOfAppend
  <2>4. Channel!messageReadBit(bit)
    BY <2>1 DEF messageReadBit, ReadRandom, ReadIdle, ReadNext, ReadPastEnd, length, Bit,
         NoBit, Channel!messageReadBit, Channel!ReadRandom, Channel!ReadIdle,
         Channel!ReadNext, Channel!ReadPastEnd, Channel!length, Channel!Bit, Channel!NoBit
  <2>5. bit \in Channel!Bit \cup {Channel!NoBit}
        /\ carried \in (IF bit = Channel!NoBit THEN Channel!Bit ELSE {bit})
    BY <2>1 DEF Bit, NoBit, Channel!Bit, Channel!NoBit
  <2> QED
    BY <2>3, <2>4, <2>5 DEF Channel!EncodeBit, BitsOf
<1>3. CASE RowTakenBack
  <2>1. reencodes \in Nat /\ reencodes' = reencodes + 1
    BY <1>3, CoderAssumption DEF IInv, TypeOK, RowTakenBack
  <2> QED
    BY <2>1
<1> QED
  BY <1>1, <1>2, <1>3, CarriersStep

\* Refinement, for every frame and message: an encoder that encodes no row again
\* implements the channel of HiddenChannel, and one that does implements it in all
\* other steps.  What the decoder will recover grows by one carrier with every read
\* of messageReadBit, which holds the bit that was answered, and by nothing else
\* (encoder/analyse.c, h264_cabac.c, h264_cavlc.c).
THEOREM CoderImplementsChannel == Spec => ImplementsChannel
<1>1. Init => IInv /\ Channel!ChannelInit
  BY IInvInit, ChannelBegins
<1>2. IInv /\ [Next]_vars => IInv'
  BY IInvStep
<1>3. IInv /\ IInv' /\ [Next]_vars
        => [reencodes' = reencodes => Channel!EncodeBit]_(Channel!channelVars)
  BY ChannelStep
<1> QED
  BY <1>1, <1>2, <1>3, PTL DEF Spec, ImplementsChannel
=============================================================================
