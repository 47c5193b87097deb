------------------------ MODULE HiddenChannelProofs ------------------------
(***************************************************************************)
(* What HiddenChannel promises, for every choice of the field widths, the  *)
(* keys and their start patterns, the files and the video.                 *)
(***************************************************************************)
EXTENDS HiddenChannel, FramingProofs

\* The frame of a file is a sequence of bits.
LEMMA FrameType ==
  ASSUME NEW k \in Key, NEW f \in File
  PROVE  Frame(startBit[k], f.ext, f.msg) \in Seq(Bit)
<1>1. /\ startBit[k] \in [1 .. START_BITS_COUNT -> Bit]
      /\ f.ext \in Seq(Char) /\ f.msg \in Seq(Char)
  BY ChannelAssumption
<1>2. LaidOut(startBit[k], f.ext, f.msg)
  BY <1>1, FrameLayout
<1> QED
  BY <1>2 DEF LaidOut

LEMMA ReaderType ==
  ASSUME TypeOK, NEW bit \in Bit \cup {NoBit}, messageReadBit(bit)
  PROVE  /\ body' = body /\ cursor' \in 0 .. length /\ cursor' <= cursor + 1
         /\ isSendingMessage' \in BOOLEAN /\ isInitialized' \in BOOLEAN
         /\ gettingCapacity' = gettingCapacity /\ numberOfEmbededBits' \in Nat
<1> USE DEF TypeOK, messageReadBit, length
<1>0. body' = body /\ gettingCapacity' = gettingCapacity /\ numberOfEmbededBits' \in Nat
  OBVIOUS
<1>1. CASE ReadNext(bit)
  <2>1. Len(body) \in Nat /\ cursor \in 0 .. Len(body)
    OBVIOUS
  <2>2. cursor < Len(body) /\ cursor' = cursor + 1
    BY <1>1 DEF ReadNext
  <2>3. cursor' \in 0 .. Len(body) /\ cursor' <= cursor + 1
    BY <2>1, <2>2
  <2>4. isSendingMessage' \in BOOLEAN /\ isInitialized' \in BOOLEAN
    BY <1>1 DEF ReadNext
  <2> QED
    BY <1>0, <2>3, <2>4
<1>2. CASE ReadIdle(bit) \/ ReadRandom(bit)
  <2>1. cursor' = cursor /\ cursor \in 0 .. Len(body) /\ cursor <= cursor + 1
    BY <1>2 DEF ReadIdle, ReadRandom
  <2>2. isSendingMessage' \in BOOLEAN /\ isInitialized' \in BOOLEAN
    BY <1>2 DEF ReadIdle, ReadRandom
  <2> QED
    BY <1>0, <2>1, <2>2
<1>3. CASE ReadPastEnd(bit)
  <2>1. cursor' = cursor /\ cursor \in 0 .. Len(body) /\ cursor <= cursor + 1
    BY <1>3 DEF ReadPastEnd
  <2>2. isSendingMessage' = FALSE /\ isInitialized' = FALSE
    BY <1>3 DEF ReadPastEnd
  <2>3. isSendingMessage' \in BOOLEAN /\ isInitialized' \in BOOLEAN
    BY <2>2
  <2> QED
    BY <1>0, <2>1, <2>3
<1> QED
  BY <1>1, <1>2, <1>3

\* What a capacity run measures is a number of bits.
LEMMA EstimateType ==
  ASSUME NEW n \in Nat
  PROVE  Estimate(n) \in Nat
BY DEF Estimate

LEMMA DecoderType ==
  ASSUME TypeOK, NEW bit \in Bit, decode_msg_add_bit(bit, Boundary)
  PROVE  /\ messageSection' \in 0 .. 4
         /\ recievedMessageBits' \in Seq(Bit)
         /\ allocated' \in Int /\ messageLength' \in Int
         /\ isBusy' \in BOOLEAN
<1> USE DEF TypeOK
<1>1. FromBits(recievedMessageBits) \in Nat
  BY FromBitsType
<1>2. FromBits(recievedMessageBits) * BYTE \in Nat
  BY <1>1, WidthsAssumption
<1>3. DecodedLength(recievedMessageBits) \in Int
  BY <1>2, WidthsAssumption DEF DecodedLength, WrapInt
<1>4. << bit >> \in Seq(Bit) /\ Append(recievedMessageBits, bit) \in Seq(Bit)
  OBVIOUS
<1>5. CASE UNCHANGED decoderVars
  BY <1>5 DEF decoderVars
<1>6. CASE CollectStart(bit) \/ CollectExtensionLength(bit)
             \/ CollectExtension(bit) \/ CollectMessageSize(bit)
  BY <1>4, <1>6 DEF CollectStart, CollectExtensionLength, CollectExtension,
                    CollectMessageSize, Store
<1>7. CASE StartDetected(bit, Boundary)
  BY <1>4, <1>7 DEF StartDetected
<1>8. CASE SlideWindow(bit, Boundary)
  <2>1. recievedMessageBits # << >>
    BY <1>8, WidthsAssumption DEF SlideWindow, Collected
  <2>2. Tail(recievedMessageBits) \in Seq(Bit)
    BY <2>1
  <2>3. Append(Tail(recievedMessageBits), bit) \in Seq(Bit)
    BY <2>2
  <2> QED
    BY <1>8, <2>3 DEF SlideWindow
<1>9. CASE ExtensionLengthKnown(bit)
  <2>1. FromBits(recievedMessageBits) * BYTE + 1 \in Int
    BY <1>2
  <2> QED
    BY <1>2, <1>4, <1>9, <2>1 DEF ExtensionLengthKnown
<1>10. CASE NoExtension(bit)
  BY <1>4, <1>10 DEF NoExtension
<1>11. CASE ExtensionKnown(bit)
  BY <1>4, <1>11 DEF ExtensionKnown
<1>12. CASE MessageSizeKnown(bit)
  BY <1>3, <1>4, <1>12 DEF MessageSizeKnown
<1>13. CASE CollectMessage(bit)
  BY <1>4, <1>13 DEF CollectMessage
<1> QED
  BY <1>5, <1>6, <1>7, <1>8, <1>9, <1>10, <1>11, <1>12, <1>13
     DEF decode_msg_add_bit

LEMMA TypeInit == Init => TypeOK
<1> SUFFICES ASSUME Init
             PROVE  TypeOK
  OBVIOUS
<1>1. /\ body = << >> /\ recievedMessageBits = << >> /\ video = << >>
      /\ cursor = 0 /\ position = 0 /\ numberOfEmbededBits = 0
  BY DEF Init, NoMessage, DecoderInit
<1>2. /\ body \in Seq(Bit) /\ recievedMessageBits \in Seq(Bit) /\ video \in Seq(Bit)
      /\ cursor \in 0 .. length /\ position \in 0 .. Len(video)
      /\ numberOfEmbededBits \in Nat
  BY <1>1 DEF length
<1>3. allocated \in Int /\ messageLength \in Int /\ messageSection \in 0 .. 4
  BY WidthsAssumption DEF Init, DecoderInit
<1>4. /\ isSendingMessage \in BOOLEAN /\ isInitialized \in BOOLEAN
      /\ isBusy \in BOOLEAN /\ gettingCapacity \in BOOLEAN
  BY DEF Init, NoMessage, DecoderInit
<1> QED
  BY <1>2, <1>3, <1>4 DEF Init, TypeOK

LEMMA TypeStep == TypeOK /\ [Next]_vars => TypeOK'
<1> SUFFICES ASSUME TypeOK, [Next]_vars
             PROVE  TypeOK'
  OBVIOUS
<1>1. CASE PrepareMessage
  <2>1. body' \in Seq(Bit)
    BY <1>1, FrameType DEF PrepareMessage, messageInit, callVars, TypeOK
  <2>2. cursor' \in 0 .. length'
    BY <1>1, <2>1 DEF PrepareMessage, messageInit, length
  <2>3. /\ gettingCapacity' \in BOOLEAN /\ isInitialized' \in BOOLEAN
        /\ isSendingMessage' \in BOOLEAN
    BY <1>1 DEF PrepareMessage, messageInit, TypeOK
  <2>4. embedResult' \in {0, 4, 10} /\ phase' \in {"idle", "prepared"}
    BY <1>1 DEF PrepareMessage, TypeOK
  <2>5. numberOfEmbededBits' \in Nat
    BY <1>1 DEF PrepareMessage, messageInit
  <2> QED
    BY <1>1, <2>1, <2>2, <2>3, <2>4, <2>5
       DEF PrepareMessage, callVars, extractVars, decoderVars, TypeOK
<1>10. CASE PrepareInfo
  <2>1. PICK k \in Key : messageInit(startBit[k], source.ext, source.msg)
    BY <1>10 DEF PrepareInfo
  <2>2. body' \in Seq(Bit)
    BY <2>1, FrameType DEF messageInit, TypeOK
  <2>3. cursor' \in 0 .. length' /\ numberOfEmbededBits' \in Nat
    BY <2>1, <2>2 DEF messageInit, length
  <2>4. /\ gettingCapacity' \in BOOLEAN /\ isInitialized' \in BOOLEAN
        /\ isSendingMessage' \in BOOLEAN
    BY <2>1 DEF messageInit, TypeOK
  <2> QED
    BY <1>10, <2>2, <2>3, <2>4
       DEF PrepareInfo, callVars, extractVars, decoderVars, TypeOK
<1>11. CASE BeginCapacity
  BY <1>11 DEF BeginCapacity, callVars, extractVars, decoderVars, TypeOK, length
<1>12. CASE CountCarrier
  <2>1. PICK bit \in Bit \cup {NoBit} : messageReadBit(bit)
    BY <1>12 DEF CountCarrier
  <2>2. /\ body' = body /\ cursor' \in 0 .. length
        /\ isSendingMessage' \in BOOLEAN /\ isInitialized' \in BOOLEAN
        /\ gettingCapacity' = gettingCapacity /\ numberOfEmbededBits' \in Nat
    BY <2>1, ReaderType
  <2> QED
    BY <1>12, <2>2 DEF CountCarrier, callVars, extractVars, decoderVars, TypeOK, length
<1>13. CASE EndCapacity
  <2>1. capacity' \in Nat
    BY <1>13, EstimateType DEF EndCapacity, TypeOK
  <2> QED
    BY <1>13, <2>1 DEF EndCapacity, extractVars, decoderVars, TypeOK, length
<1>14. CASE InfoKnown
  BY <1>14 DEF InfoKnown, messageVars, callVars, extractVars, decoderVars, TypeOK, length
<1>2. CASE StartEncoding
  BY <1>2, ChannelAssumption
     DEF StartEncoding, callVars, extractVars, decoderVars, TypeOK, length
<1>3. CASE EncodeCarrier
  <2>1. PICK bit \in Bit \cup {NoBit} :
          /\ messageReadBit(bit)
          /\ \E carried \in (IF bit = NoBit THEN Bit ELSE {bit}) :
               video' = Append(video, carried)
    BY <1>3 DEF EncodeCarrier, EncodeBit
  <2>2. PICK carried \in Bit : video' = Append(video, carried)
    BY <2>1 DEF NoBit
  <2>3. video' \in Seq(Bit) /\ Len(video') = Len(video) + 1
    BY <2>2 DEF TypeOK
  <2>4. position' \in 0 .. Len(video')
    BY <1>3, <2>3 DEF EncodeCarrier, extractVars, TypeOK
  <2>5. /\ body' = body /\ cursor' \in 0 .. length
        /\ isSendingMessage' \in BOOLEAN /\ isInitialized' \in BOOLEAN
        /\ gettingCapacity' = gettingCapacity /\ numberOfEmbededBits' \in Nat
    BY <2>1, ReaderType
  <2> QED
    BY <1>3, <2>3, <2>4, <2>5
       DEF EncodeCarrier, callVars, extractVars, decoderVars, TypeOK, length
<1>4. CASE FinishEncoding
  BY <1>4 DEF FinishEncoding, messageVars, callVars, extractVars, decoderVars,
              TypeOK, length
<1>5. CASE BeginExtract
  BY <1>5, WidthsAssumption
     DEF BeginExtract, initDecodedMessage, messageVars, callVars, TypeOK, length
<1>6. CASE DecodeCarrier
  <2>1. video[position + 1] \in Bit
    BY <1>6 DEF DecodeCarrier, TypeOK
  <2>2. decode_msg_add_bit(video[position + 1], Boundary)
    BY <1>6 DEF DecodeCarrier
  <2>3. /\ messageSection' \in 0 .. 4
        /\ recievedMessageBits' \in Seq(Bit)
        /\ allocated' \in Int /\ messageLength' \in Int
        /\ isBusy' \in BOOLEAN
    BY <2>1, <2>2, DecoderType
  <2>4. position' \in 0 .. Len(video')
    BY <1>6 DEF DecodeCarrier, TypeOK
  <2> QED
    BY <1>6, <2>3, <2>4
       DEF DecodeCarrier, messageVars, callVars, TypeOK, length
<1>7. CASE StoreMessage
  BY <1>7 DEF StoreMessage, Verdict, messageVars, callVars, decoderVars, TypeOK, length
<1>8. CASE VideoExhausted
  BY <1>8 DEF VideoExhausted, Verdict, messageVars, callVars, decoderVars, TypeOK, length
<1>9. CASE UNCHANGED vars
  BY <1>9 DEF vars, messageVars, callVars, extractVars, decoderVars, TypeOK, length
<1> QED
  BY <1>1, <1>2, <1>3, <1>4, <1>5, <1>6, <1>7, <1>8, <1>9, <1>10,
     <1>11, <1>12, <1>13, <1>14 DEF Next

(***************************************************************************)
(* Reader, video, decoder and results keep to their types and ranges.      *)
(***************************************************************************)
THEOREM TypeCorrect == Spec => []TypeOK
<1>1. Spec => Init /\ [][Next]_vars
  BY DEF Spec
<1> QED
  BY <1>1, TypeInit, TypeStep, PTL

-----------------------------------------------------------------------------
(* The frame in the terms of the decoder's sections *)

LEMMA Widths ==
  ASSUME source \in File
  PROVE  /\ source.ext \in Seq(Char) /\ source.msg \in Seq(Char)
         /\ Len(source.ext) \in Nat /\ Len(source.msg) \in Nat
         /\ ExtBits \in Nat /\ MsgBits \in Nat
         /\ START_BITS_COUNT \in Nat /\ EXTENSION_BITS_COUNT \in Nat
         /\ MESSAGE_SIZE_BITS_COUNT \in Nat
         /\ START_BITS_COUNT >= 1 /\ EXTENSION_BITS_COUNT >= 1
         /\ MESSAGE_SIZE_BITS_COUNT >= 1
         /\ BYTE \in Nat /\ BYTE >= 2
<1>1. source.ext \in Seq(Char) /\ source.msg \in Seq(Char)
  BY ChannelAssumption
<1>2. Len(source.ext) \in Nat /\ Len(source.msg) \in Nat
  BY <1>1
<1> QED
  BY <1>1, <1>2, WidthsAssumption DEF ExtBits, MsgBits

LEMMA SectionStarts ==
  /\ FieldsBefore(0) = 0
  /\ FieldsBefore(1) = START_BITS_COUNT
  /\ FieldsBefore(2) = START_BITS_COUNT + EXTENSION_BITS_COUNT
  /\ FieldsBefore(3) = START_BITS_COUNT + EXTENSION_BITS_COUNT + ExtBits
  /\ FieldsBefore(4) = START_BITS_COUNT + EXTENSION_BITS_COUNT + ExtBits
                          + MESSAGE_SIZE_BITS_COUNT
BY DEF FieldsBefore

LEMMA BodyLayout ==
  ASSUME source \in File, key \in Key, Framed
  PROVE  /\ length = FieldsBefore(4) + MsgBits
         /\ \A i \in 1 .. START_BITS_COUNT : body[i] = startBit[key][i]
         /\ \A i \in 1 .. EXTENSION_BITS_COUNT :
              body[FieldsBefore(1) + i] = ToBits(Len(source.ext), EXTENSION_BITS_COUNT)[i]
         /\ \A i \in 1 .. ExtBits :
              body[FieldsBefore(2) + i] = ascii2Binary(source.ext)[i]
         /\ \A i \in 1 .. MESSAGE_SIZE_BITS_COUNT :
              body[FieldsBefore(3) + i]
                = ToBits(Len(source.msg), MESSAGE_SIZE_BITS_COUNT)[i]
         /\ \A i \in 1 .. MsgBits :
              body[FieldsBefore(4) + i] = ascii2Binary(source.msg)[i]
<1>1. /\ startBit[key] \in [1 .. START_BITS_COUNT -> Bit]
      /\ source.ext \in Seq(Char) /\ source.msg \in Seq(Char)
  BY ChannelAssumption
<1>2. LaidOut(startBit[key], source.ext, source.msg)
  BY <1>1, FrameLayout
<1> QED
  BY <1>2, SectionStarts DEF LaidOut, Framed, ExtBits, MsgBits, length

-----------------------------------------------------------------------------
(* Reader and video *)

LEMMA CarriersStep ==
  ASSUME TypeOK, CarriersHoldMessage, [Next]_vars
  PROVE  CarriersHoldMessage'
<1> USE DEF CarriersHoldMessage
<1>10. CASE PrepareInfo
  <2>1. PICK k \in Key : messageInit(startBit[k], source.ext, source.msg)
    BY <1>10 DEF PrepareInfo
  <2>2. /\ phase = "idle" /\ phase' = "info" /\ video' = video
        /\ cursor' = 0 /\ gettingCapacity' = FALSE /\ isSendingMessage' = isSendingMessage
    BY <1>10, <2>1 DEF PrepareInfo, messageInit
  <2> QED
    BY <2>2 DEF BeforeEncoding
<1>11. CASE BeginCapacity \/ InfoKnown
  <2>1. /\ phase = "info" /\ phase' \in {"measuring", "idle"}
        /\ gettingCapacity' => phase' = "measuring"
        /\ UNCHANGED << video, cursor, isSendingMessage >>
    BY <1>11 DEF BeginCapacity, InfoKnown, messageVars
  <2> QED
    BY <2>1 DEF BeforeEncoding
<1>12. CASE CountCarrier
  <2>1. PICK bit \in Bit \cup {NoBit} : messageReadBit(bit)
    BY <1>12 DEF CountCarrier
  <2>2. /\ phase = "measuring" /\ phase' = "measuring" /\ video' = video
        /\ ~isSendingMessage /\ cursor = 0
    BY <1>12 DEF CountCarrier, BeforeEncoding
  <2>3. cursor' = 0 /\ ~isSendingMessage'
    BY <2>1, <2>2 DEF messageReadBit, ReadRandom, ReadIdle, ReadNext, ReadPastEnd
  <2> QED
    BY <2>2, <2>3 DEF BeforeEncoding
<1>13. CASE EndCapacity
  <2>1. /\ phase = "measuring" /\ phase' = "idle" /\ gettingCapacity' = FALSE
        /\ UNCHANGED << video, cursor, isSendingMessage >>
    BY <1>13 DEF EndCapacity
  <2> QED
    BY <2>1 DEF BeforeEncoding
<1>1. CASE PrepareMessage
  <2>1. /\ phase = "idle" /\ phase' \in {"idle", "prepared"} /\ video' = video
        /\ cursor' = 0 /\ gettingCapacity' = FALSE /\ isSendingMessage' = isSendingMessage
        /\ isInitialized' = TRUE
    BY <1>1 DEF PrepareMessage, messageInit
  <2>2. Framed'
    BY <1>1 DEF PrepareMessage, messageInit, callVars, Framed
  <2>3. phase' = "prepared" => WithinCapacity(length)'
    BY <1>1 DEF PrepareMessage, callVars, WithinCapacity, length
  <2> QED
    BY <2>1, <2>2, <2>3 DEF BeforeEncoding
<1>2. CASE StartEncoding
  <2>1. /\ phase = "prepared" /\ phase' = "encoding" /\ ~gettingCapacity'
        /\ cursor' = 0 /\ video' = << >> /\ Framed' /\ WithinCapacity(length)'
        /\ isInitialized' = doEmbedding /\ doEmbedding' = doEmbedding
        /\ isSendingMessage' = (isSendingMessage \/ isInitialized')
    BY <1>2 DEF StartEncoding, callVars, Framed, WithinCapacity, length, BeforeEncoding
  <2>2. doEmbedding' => isSendingMessage'
    BY <2>1
  <2>3. /\ cursor' <= Len(video') /\ Len(video') = cursor'
        /\ \A i \in 1 .. cursor' : video'[i] = body'[i]
    BY <2>1
  <2> QED
    BY <2>1, <2>2, <2>3 DEF BeforeEncoding
<1>3. CASE EncodeCarrier
  <2>1. PICK bit \in Bit \cup {NoBit} :
          /\ messageReadBit(bit)
          /\ \E carried \in (IF bit = NoBit THEN Bit ELSE {bit}) :
               video' = Append(video, carried)
    BY <1>3 DEF EncodeCarrier, EncodeBit
  <2>2. PICK carried \in (IF bit = NoBit THEN Bit ELSE {bit}) :
          video' = Append(video, carried)
    BY <2>1
  <2>3. /\ phase = "encoding" /\ phase' = "encoding" /\ ~gettingCapacity
        /\ doEmbedding' = doEmbedding /\ Framed' /\ body' = body
        /\ gettingCapacity' = gettingCapacity /\ WithinCapacity(length)'
    BY <1>3, <2>1 DEF EncodeCarrier, callVars, Framed, messageReadBit, WithinCapacity,
                      length
  <2>4. SUFFICES ASSUME doEmbedding
                 PROVE  /\ cursor' <= Len(video')
                        /\ cursor' < length => isSendingMessage'
                        /\ isSendingMessage' => Len(video') = cursor'
                        /\ \A i \in 1 .. cursor' : video'[i] = body[i]
    BY <2>3 DEF length, BeforeEncoding
  <2>5. /\ Len(video') = Len(video) + 1 /\ video'[Len(video) + 1] = carried
        /\ \A i \in 1 .. Len(video) : video'[i] = video[i]
    BY <2>2 DEF TypeOK
  <2>6. /\ cursor \in Nat /\ Len(video) \in Nat /\ length \in Nat
        /\ cursor <= Len(video) /\ cursor <= length
        /\ \A i \in 1 .. cursor : video[i] = body[i]
    BY <2>3, <2>4 DEF TypeOK, length, BeforeEncoding
  <2>10. /\ cursor < length => isSendingMessage
         /\ isSendingMessage => Len(video) = cursor
    BY <2>3, <2>4 DEF BeforeEncoding
  <2>7. CASE ReadNext(bit)
    <3>1. bit = body[cursor + 1] /\ cursor' = cursor + 1 /\ cursor < length
      BY <2>7 DEF ReadNext
    <3>2. isSendingMessage /\ isSendingMessage'
      BY <2>7 DEF ReadNext
    <3>3. body[cursor + 1] \in Bit
      BY <2>6, <3>1 DEF TypeOK, length
    <3>4. carried = body[cursor + 1]
      BY <2>2, <3>1, <3>3 DEF NoBit, Bit
    <3>5. Len(video) = cursor
      BY <2>10, <3>2
    <3>6. /\ \A i \in 1 .. cursor' : video'[i] = body[i]
          /\ Len(video') = cursor' /\ cursor' <= Len(video')
      BY <2>5, <2>6, <3>1, <3>4, <3>5
    <3> QED
      BY <3>2, <3>6
  <2>8. CASE ReadIdle(bit) \/ ReadPastEnd(bit)
    <3>1. cursor' = cursor /\ ~isSendingMessage'
      BY <2>8 DEF ReadIdle, ReadPastEnd
    <3>2. cursor >= length
      BY <2>6, <2>8, <2>10 DEF ReadIdle, ReadPastEnd
    <3>3. /\ cursor' <= Len(video') /\ ~(cursor' < length)
          /\ \A i \in 1 .. cursor' : video'[i] = body[i]
      BY <2>5, <2>6, <3>1, <3>2
    <3> QED
      BY <3>1, <3>3
  <2>9. ~ReadRandom(bit)
    BY <2>3 DEF ReadRandom
  <2> QED
    BY <2>1, <2>7, <2>8, <2>9 DEF messageReadBit
<1>4. CASE \/ FinishEncoding \/ BeginExtract \/ DecodeCarrier
           \/ StoreMessage \/ VideoExhausted \/ UNCHANGED vars
  <2>1. /\ UNCHANGED << body, cursor, isSendingMessage, isInitialized,
                        gettingCapacity, callVars, video >>
        /\ phase' \in {"encoded", "extracting", "extracted"} \/ phase' = phase
        /\ phase' # phase => ~BeforeEncoding /\ phase # "measuring"
    BY <1>4 DEF FinishEncoding, BeginExtract, DecodeCarrier, StoreMessage,
                VideoExhausted, vars, messageVars, BeforeEncoding
  <2>2. /\ Framed' = Framed /\ length' = length
        /\ WithinCapacity(length)' = WithinCapacity(length)
    BY <2>1 DEF callVars, Framed, length, WithinCapacity
  <2>3. ~gettingCapacity \/ phase' = phase
    BY <2>1
  <2>4. BeforeEncoding' <=> BeforeEncoding
    BY <2>1 DEF BeforeEncoding
  <2>5. phase' \notin {"idle", "info", "measuring"} =>
          phase \notin {"idle", "info", "measuring"}
    BY <2>1 DEF BeforeEncoding
  <2>6. phase' = "prepared" => phase = "prepared"
    BY <2>1
  <2> QED
    BY <2>1, <2>2, <2>3, <2>4, <2>5, <2>6 DEF callVars
<1> QED
  BY <1>1, <1>2, <1>3, <1>4, <1>10, <1>11, <1>12, <1>13 DEF Next

-----------------------------------------------------------------------------
(* Video and decoder *)

\* As far as the frame goes, the video holds it.
LEMMA VideoHoldsFrame ==
  ASSUME TypeOK, CarriersHoldMessage, doEmbedding,
         phase \in {"encoded", "extracting", "extracted"}
  PROVE  /\ Framed
         /\ \A i \in 1 .. Len(video) : i <= length => video[i] = body[i]
         /\ cursor < length => Len(video) < length
<1>1. /\ Framed /\ cursor <= Len(video)
      /\ cursor < length => Len(video) = cursor
      /\ \A i \in 1 .. cursor : video[i] = body[i]
  BY DEF CarriersHoldMessage, BeforeEncoding
<1>2. cursor \in Nat /\ length \in Nat /\ cursor <= length /\ Len(video) \in Nat
  BY DEF TypeOK, length
<1> QED
  BY <1>1, <1>2

\* The bits collected in a section are those the frame has there.
LEMMA CollectedBits ==
  ASSUME TypeOK, CarriersHoldMessage, DecoderInStep, RightKey, phase = "extracting"
  PROVE  \A i \in 1 .. Collected :
           FieldsBefore(messageSection) + i <= length =>
             recievedMessageBits[i] = body[FieldsBefore(messageSection) + i]
<1> DEFINE b == FieldsBefore(messageSection)
<1>1. /\ b + Collected <= position
      /\ \A i \in 1 .. Collected : recievedMessageBits[i] = video[b + i]
  BY DEF DecoderInStep
<1>2. position \in Nat /\ position <= Len(video) /\ Len(video) \in Nat /\ Collected \in Nat
  BY DEF TypeOK, Collected
<1>3. b \in Nat
  <2>1. source \in File /\ messageSection \in 0 .. 4
    BY DEF TypeOK
  <2> QED
    BY <2>1, Widths, SectionStarts
<1>4. \A i \in 1 .. Len(video) : i <= length => video[i] = body[i]
  BY VideoHoldsFrame DEF RightKey
<1> HIDE DEF b
<1>5. ASSUME NEW i \in 1 .. Collected, b + i <= length
      PROVE  recievedMessageBits[i] = body[b + i]
  <2>1. b + i \in 1 .. Len(video)
    BY <1>1, <1>2, <1>3
  <2> QED
    BY <1>1, <1>4, <1>5, <2>1
<1> QED
  BY <1>5 DEF b

\* A full section reads as the field it is.
LEMMA FieldRead ==
  ASSUME NEW bits \in Seq(Bit), NEW field \in Seq(Bit), Len(bits) = Len(field),
         \A i \in 1 .. Len(field) : bits[i] = field[i]
  PROVE  bits = field
OBVIOUS

LEMMA StartRead ==
  ASSUME TypeOK, CarriersHoldMessage, DecoderInStep, RightKey, phase = "extracting",
         messageSection = 0, Collected = START_BITS_COUNT
  PROVE  recievedMessageBits = Boundary
<1>1. source \in File /\ key \in Key /\ Framed
  BY VideoHoldsFrame DEF TypeOK, RightKey
<1>2. /\ length = FieldsBefore(4) + MsgBits
      /\ \A i \in 1 .. START_BITS_COUNT : body[i] = startBit[key][i]
  BY <1>1, BodyLayout
<1>3. START_BITS_COUNT <= length
  BY <1>1, <1>2, Widths, SectionStarts
<1>4. \A i \in 1 .. START_BITS_COUNT : recievedMessageBits[i] = startBit[key][i]
  <2>1. \A i \in 1 .. START_BITS_COUNT : i <= length => recievedMessageBits[i] = body[i]
    BY CollectedBits, SectionStarts, WidthsAssumption
  <2> QED
    BY <1>1, <1>2, <1>3, <2>1, Widths
<1>5. startBit[key] \in [1 .. START_BITS_COUNT -> Bit] /\ Boundary = startBit[key]
  BY <1>1, ChannelAssumption DEF Boundary, RightKey
<1>6. startBit[key] \in Seq(Bit) /\ Len(startBit[key]) = START_BITS_COUNT
  BY <1>1, <1>5, Widths, FunctionIsSequence
<1>7. recievedMessageBits = startBit[key]
  BY <1>4, <1>6, FieldRead DEF TypeOK, Collected
<1> QED
  BY <1>5, <1>7

LEMMA ExtensionLengthRead ==
  ASSUME TypeOK, CarriersHoldMessage, DecoderInStep, RightKey, phase = "extracting",
         messageSection = 1, Collected = EXTENSION_BITS_COUNT
  PROVE  FromBits(recievedMessageBits) = Len(source.ext)
<1> DEFINE field == ToBits(Len(source.ext), EXTENSION_BITS_COUNT)
<1>1. source \in File /\ key \in Key /\ Framed
  BY VideoHoldsFrame DEF TypeOK, RightKey
<1>2. /\ length = FieldsBefore(4) + MsgBits
      /\ \A i \in 1 .. EXTENSION_BITS_COUNT : body[FieldsBefore(1) + i] = field[i]
  BY <1>1, BodyLayout
<1>3. field \in Seq(Bit) /\ Len(field) = EXTENSION_BITS_COUNT
  BY <1>1, Widths, ToBitsType
<1> HIDE DEF field
<1>4. \A i \in 1 .. EXTENSION_BITS_COUNT : recievedMessageBits[i] = field[i]
  <2>1. \A i \in 1 .. EXTENSION_BITS_COUNT :
          FieldsBefore(1) + i <= length => recievedMessageBits[i] = body[FieldsBefore(1) + i]
    BY CollectedBits
  <2>2. \A i \in 1 .. EXTENSION_BITS_COUNT : FieldsBefore(1) + i <= length
    BY <1>1, <1>2, Widths, SectionStarts
  <2> QED
    BY <1>2, <2>1, <2>2
<1>5. recievedMessageBits = field
  BY <1>3, <1>4, FieldRead DEF TypeOK, Collected
<1>6. Fits(Len(source.ext), EXTENSION_BITS_COUNT)
  BY <1>1, FilesFit
<1> QED
  BY <1>1, <1>5, <1>6, FieldRoundTrip, Widths DEF field

LEMMA ExtensionRead ==
  ASSUME TypeOK, CarriersHoldMessage, DecoderInStep, RightKey, phase = "extracting",
         messageSection = 2, Collected = ExtBits
  PROVE  binaryToAscii(recievedMessageBits) = source.ext
<1> DEFINE field == ascii2Binary(source.ext)
<1>1. source \in File /\ key \in Key /\ Framed
  BY VideoHoldsFrame DEF TypeOK, RightKey
<1>2. /\ length = FieldsBefore(4) + MsgBits
      /\ \A i \in 1 .. ExtBits : body[FieldsBefore(2) + i] = field[i]
  BY <1>1, BodyLayout
<1>3. field \in Seq(Bit) /\ Len(field) = ExtBits
  BY <1>1, Widths, ascii2BinaryType DEF ExtBits
<1> HIDE DEF field
<1>4. \A i \in 1 .. ExtBits : recievedMessageBits[i] = field[i]
  <2>1. \A i \in 1 .. ExtBits :
          FieldsBefore(2) + i <= length => recievedMessageBits[i] = body[FieldsBefore(2) + i]
    BY CollectedBits
  <2>2. \A i \in 1 .. ExtBits : FieldsBefore(2) + i <= length
    BY <1>1, <1>2, Widths, SectionStarts
  <2> QED
    BY <1>2, <2>1, <2>2
<1>5. recievedMessageBits = field
  BY <1>3, <1>4, FieldRead DEF TypeOK, Collected
<1> QED
  BY <1>1, <1>5, CharsRoundTrip, Widths DEF field

LEMMA MessageSizeRead ==
  ASSUME TypeOK, CarriersHoldMessage, DecoderInStep, RightKey, phase = "extracting",
         messageSection = 3, Collected = MESSAGE_SIZE_BITS_COUNT
  PROVE  DecodedLength(recievedMessageBits) = MsgBits
<1> DEFINE field == ToBits(Len(source.msg), MESSAGE_SIZE_BITS_COUNT)
<1>1. source \in File /\ key \in Key /\ Framed
  BY VideoHoldsFrame DEF TypeOK, RightKey
<1>2. /\ length = FieldsBefore(4) + MsgBits
      /\ \A i \in 1 .. MESSAGE_SIZE_BITS_COUNT : body[FieldsBefore(3) + i] = field[i]
  BY <1>1, BodyLayout
<1>3. field \in Seq(Bit) /\ Len(field) = MESSAGE_SIZE_BITS_COUNT
  BY <1>1, Widths, ToBitsType
<1> HIDE DEF field
<1>4. \A i \in 1 .. MESSAGE_SIZE_BITS_COUNT : recievedMessageBits[i] = field[i]
  <2>1. \A i \in 1 .. MESSAGE_SIZE_BITS_COUNT :
          FieldsBefore(3) + i <= length => recievedMessageBits[i] = body[FieldsBefore(3) + i]
    BY CollectedBits
  <2>2. \A i \in 1 .. MESSAGE_SIZE_BITS_COUNT : FieldsBefore(3) + i <= length
    BY <1>1, <1>2, Widths, SectionStarts
  <2> QED
    BY <1>2, <2>1, <2>2
<1>5. recievedMessageBits = field
  BY <1>3, <1>4, FieldRead DEF TypeOK, Collected
<1>6. Fits(Len(source.msg), MESSAGE_SIZE_BITS_COUNT) /\ MsgBits <= INT_MAX
  BY <1>1, FilesFit DEF MsgBits
<1>7. FromBits(recievedMessageBits) = Len(source.msg)
  BY <1>1, <1>5, <1>6, FieldRoundTrip, Widths DEF field
<1> QED
  BY <1>6, <1>7 DEF DecodedLength, WrapInt, MsgBits

\* One more carrier decoded keeps the decoder in step.
LEMMA DecodeInStep ==
  ASSUME TypeOK, CarriersHoldMessage, DecoderInStep, DecodeCarrier, RightKey
  PROVE  DecoderInStep'
<1> DEFINE bit == video[position + 1]
           n == Collected
           b(s) == FieldsBefore(s)
<1>1. /\ phase = "extracting" /\ phase' = "extracting"
      /\ position < Len(video) /\ position' = position + 1
      /\ decode_msg_add_bit(bit, Boundary)
      /\ source' = source /\ video' = video
  BY DEF DecodeCarrier, callVars
<1>2. /\ source \in File /\ position \in Nat /\ n \in Nat
      /\ recievedMessageBits \in Seq(Bit) /\ messageSection \in 0 .. 4
  BY DEF TypeOK, Collected
<1>3. /\ InSection(messageSection)
      /\ messageSection < 4 => isBusy
      /\ messageSection > 2 => extension = source.ext
      /\ b(messageSection) + n <= position
      /\ isBusy => b(messageSection) + n = position
      /\ \A i \in 1 .. n : recievedMessageBits[i] = video[b(messageSection) + i]
  BY <1>1 DEF DecoderInStep
<1>4. /\ ExtBits \in Nat /\ MsgBits \in Nat
      /\ b(0) \in Nat /\ b(1) \in Nat /\ b(2) \in Nat /\ b(3) \in Nat /\ b(4) \in Nat
  BY <1>2, Widths, SectionStarts
\* The bits of a section are those the video has there, up to this carrier.
<1> DEFINE Carried(s, bits) ==
             /\ b(s) + Len(bits) = position + 1
             /\ \A i \in 1 .. Len(bits) : bits[i] = video[b(s) + i]
           Becomes(s, bits) ==
             /\ messageSection' = s
             /\ recievedMessageBits' = bits
             /\ s > 2 => extension' = source.ext
\* What has to be shown of the state after the step.
<1>5. ASSUME NEW s \in 0 .. 4, NEW bits, Becomes(s, bits), Carried(s, bits),
             InSection(messageSection)', s < 4 => isBusy'
      PROVE  DecoderInStep'
  <2>1. FieldsBefore(messageSection)' = b(s)
    BY <1>1, <1>5 DEF FieldsBefore, ExtBits
  <2>2. Collected' = Len(bits)
    BY <1>5 DEF Collected
  <2>3. b(s) + Len(bits) <= position'
    BY <1>1, <1>2, <1>5
  <2> QED
    BY <1>1, <1>5, <2>1, <2>2, <2>3 DEF DecoderInStep
\* The two ways the buffer changes.
<1>6. /\ Append(recievedMessageBits, bit) \in Seq(Bit)
      /\ Len(Append(recievedMessageBits, bit)) = n + 1
      /\ isBusy => \A i \in 1 .. n + 1 :
           Append(recievedMessageBits, bit)[i] = video[b(messageSection) + i]
  <2>1. bit \in Bit
    BY <1>1, <1>2 DEF TypeOK
  <2>2. /\ Append(recievedMessageBits, bit) \in Seq(Bit)
        /\ Len(Append(recievedMessageBits, bit)) = n + 1
        /\ Append(recievedMessageBits, bit)[n + 1] = bit
        /\ \A i \in 1 .. n : Append(recievedMessageBits, bit)[i] = recievedMessageBits[i]
    BY <1>2, <2>1 DEF Collected
  <2>3. isBusy => b(messageSection) + (n + 1) = position + 1
    <3>1. b(messageSection) \in Nat
      BY <1>2, <1>4
    <3> QED
      BY <1>2, <1>3, <3>1
  <2> QED
    BY <1>2, <1>3, <2>2, <2>3
<1>7. /\ Len(<< bit >>) = 1 /\ << bit >>[1] = bit
  OBVIOUS
<1>8. CASE ~isBusy
  <2>1. messageSection = 4 /\ UNCHANGED decoderVars
    BY <1>1, <1>2, <1>3, <1>8 DEF decode_msg_add_bit
  <2>2. /\ FieldsBefore(messageSection)' = b(4)
        /\ InSection(messageSection)' = InSection(messageSection)
        /\ Collected' = n
    BY <1>1, <2>1
       DEF decoderVars, FieldsBefore, InSection, ExtBits, MsgBits, Collected
  <2>3. b(4) + n <= position'
    BY <1>1, <1>2, <1>3, <1>4, <2>1
  <2> QED
    BY <1>1, <1>3, <1>8, <2>1, <2>2, <2>3 DEF DecoderInStep, decoderVars
<1>9. CASE isBusy
  <2> DEFINE more == Append(recievedMessageBits, bit)
             one == << bit >>
  <2>a. Carried(messageSection, more) /\ Len(more) = n + 1
    <3>1. b(messageSection) \in Nat
      BY <1>2, <1>4
    <3>2. b(messageSection) + n = position
      BY <1>3, <1>9
    <3> HIDE DEF bit, b, n
    <3>3. \A i \in 1 .. n + 1 : more[i] = video[b(messageSection) + i]
      BY <1>6, <1>9
    <3>4. Len(more) = n + 1
      BY <1>6
    <3>5. n \in Nat /\ position \in Nat
      BY <1>2
    <3> HIDE DEF more
    <3>6. b(messageSection) + Len(more) = position + 1
      BY <3>1, <3>2, <3>4, <3>5
    <3> QED
      BY <3>3, <3>4, <3>6
  <2>b. \A s \in 0 .. 4 : b(s) = position => Carried(s, one)
    <3> SUFFICES ASSUME NEW s \in 0 .. 4, b(s) = position
                 PROVE  Carried(s, one)
      OBVIOUS
    <3> HIDE DEF b
    <3>1. Len(one) = 1 /\ one[1] = video[b(s) + 1]
      OBVIOUS
    <3> QED
      BY <1>2, <3>1
  <2>c. b(messageSection) + n = position
    BY <1>3, <1>9
  <2> HIDE DEF Carried, b, n, more, one
  <2>1. CASE CollectStart(bit)
    <3>1. messageSection = 0 /\ n # START_BITS_COUNT /\ Becomes(0, more) /\ isBusy'
      BY <1>9, <2>1 DEF CollectStart, Store, Collected, n, more
    <3>2. n + 1 <= START_BITS_COUNT
      BY <1>2, <1>3, <3>1, Widths DEF InSection, n
    <3>3. InSection(messageSection)'
      BY <2>a, <3>1, <3>2 DEF InSection, Collected
    <3> QED
      BY <1>5, <2>a, <3>1, <3>3
  <2>2. CASE StartDetected(bit, Boundary)
    <3>1. /\ messageSection = 0 /\ n = START_BITS_COUNT
          /\ Becomes(1, one) /\ isBusy'
      BY <1>9, <2>2 DEF StartDetected, Collected, n, one
    <3>2. b(1) = position
      BY <1>2, <2>c, <3>1, Widths, SectionStarts DEF b
    <3>3. InSection(messageSection)'
      BY <1>2, <3>1, Widths DEF InSection, Collected, one
    <3> QED
      BY <1>5, <2>b, <3>1, <3>2, <3>3
  <2>3. ~SlideWindow(bit, Boundary)
    BY <1>1, StartRead DEF SlideWindow
  <2>4. CASE CollectExtensionLength(bit)
    <3>1. /\ messageSection = 1 /\ n < EXTENSION_BITS_COUNT
          /\ Becomes(1, more) /\ isBusy'
      BY <1>9, <2>4 DEF CollectExtensionLength, Store, Collected, n, more
    <3>2. n + 1 \in 1 .. EXTENSION_BITS_COUNT
      BY <1>2, <3>1, Widths
    <3>3. InSection(messageSection)'
      BY <2>a, <3>1, <3>2 DEF InSection, Collected
    <3> QED
      BY <1>5, <2>a, <3>1, <3>3
  <2>5. CASE ExtensionLengthKnown(bit)
    <3>1. /\ messageSection = 1 /\ n >= EXTENSION_BITS_COUNT
          /\ Becomes(2, one) /\ isBusy'
      BY <1>9, <2>5 DEF ExtensionLengthKnown, Collected, n, one
    <3>2. n = EXTENSION_BITS_COUNT
      BY <1>2, <1>3, <3>1, Widths DEF InSection, n
    <3>3. FromBits(recievedMessageBits) = Len(source.ext)
      BY <1>1, <3>1, <3>2, ExtensionLengthRead DEF n
    <3>4. messageLength' = ExtBits /\ Len(source.ext) # 0
      BY <2>5, <3>3 DEF ExtensionLengthKnown, ExtBits
    <3>5. ExtBits >= 1
      BY <1>2, <3>4, Widths DEF ExtBits
    <3>6. b(2) = position
      BY <1>2, <2>c, <3>1, <3>2, Widths, SectionStarts DEF b
    <3>7. ExtBits' = ExtBits /\ Collected' = 1
      BY <1>1, <3>1 DEF ExtBits, Collected, one
    <3>8. InSection(messageSection)'
      BY <1>4, <3>1, <3>4, <3>5, <3>7 DEF InSection
    <3> QED
      BY <1>5, <2>b, <3>1, <3>6, <3>8
  <2>6. CASE NoExtension(bit)
    <3>1. /\ messageSection = 1 /\ n >= EXTENSION_BITS_COUNT
          /\ messageSection' = 3 /\ recievedMessageBits' = one
          /\ extension' = << >> /\ isBusy'
      BY <1>9, <2>6 DEF NoExtension, Collected, n, one
    <3>2. n = EXTENSION_BITS_COUNT
      BY <1>2, <1>3, <3>1, Widths DEF InSection, n
    <3>3. FromBits(recievedMessageBits) = Len(source.ext)
      BY <1>1, <3>1, <3>2, ExtensionLengthRead DEF n
    <3>4. Len(source.ext) = 0
      BY <2>6, <3>3 DEF NoExtension
    <3>5. source.ext = << >> /\ ExtBits = 0
      <4>1. source.ext \in Seq(Char)
        BY <1>2, Widths
      <4> QED
        BY <3>4, <4>1, Widths, <1>2 DEF ExtBits
    <3>6. b(3) = position
      BY <1>2, <2>c, <3>1, <3>2, <3>5, Widths, SectionStarts DEF b
    <3>7. InSection(messageSection)'
      BY <1>2, <3>1, Widths DEF InSection, Collected, one
    <3> QED
      BY <1>5, <2>b, <3>1, <3>5, <3>6, <3>7
  <2>7. CASE CollectExtension(bit)
    <3>1. /\ messageSection = 2 /\ n < messageLength /\ messageLength' = messageLength
          /\ Becomes(2, more) /\ isBusy'
      BY <1>9, <2>7 DEF CollectExtension, Store, Collected, n, more
    <3>2. messageLength = ExtBits
      BY <1>3, <3>1 DEF InSection
    <3>3. n + 1 \in 1 .. ExtBits
      BY <1>2, <1>4, <3>1, <3>2
    <3>4. ExtBits' = ExtBits
      BY <1>1 DEF ExtBits
    <3>5. InSection(messageSection)'
      BY <2>a, <3>1, <3>2, <3>3, <3>4 DEF InSection, Collected
    <3> QED
      BY <1>5, <2>a, <3>1, <3>5
  <2>8. CASE ExtensionKnown(bit)
    <3>1. /\ messageSection = 2 /\ n >= messageLength
          /\ messageSection' = 3 /\ recievedMessageBits' = one
          /\ extension' = binaryToAscii(recievedMessageBits) /\ isBusy'
      BY <1>9, <2>8 DEF ExtensionKnown, Collected, n, one
    <3>2. n = ExtBits
      BY <1>2, <1>3, <1>4, <3>1 DEF InSection, n
    <3>3. extension' = source.ext
      BY <1>1, <3>1, <3>2, ExtensionRead DEF n
    <3>4. b(3) = position
      BY <1>2, <1>4, <2>c, <3>1, <3>2, Widths, SectionStarts DEF b
    <3>5. InSection(messageSection)'
      BY <1>2, <3>1, Widths DEF InSection, Collected, one
    <3> QED
      BY <1>5, <2>b, <3>1, <3>3, <3>4, <3>5
  <2>9. CASE CollectMessageSize(bit)
    <3>1. /\ messageSection = 3 /\ n < MESSAGE_SIZE_BITS_COUNT
          /\ messageSection' = 3 /\ recievedMessageBits' = more
          /\ extension' = extension /\ isBusy'
      BY <1>9, <2>9 DEF CollectMessageSize, Store, Collected, n, more
    <3>2. n + 1 \in 1 .. MESSAGE_SIZE_BITS_COUNT
      BY <1>2, <3>1, Widths
    <3>3. InSection(messageSection)'
      BY <2>a, <3>1, <3>2 DEF InSection, Collected
    <3>4. extension' = source.ext
      BY <1>3, <3>1
    <3> QED
      BY <1>5, <2>a, <3>1, <3>3, <3>4
  <2>10. CASE MessageSizeKnown(bit)
    <3>1. /\ messageSection = 3 /\ n >= MESSAGE_SIZE_BITS_COUNT
          /\ messageLength' = DecodedLength(recievedMessageBits)
          /\ messageSection' = 4 /\ recievedMessageBits' = one
          /\ extension' = extension /\ isBusy'
      BY <1>9, <2>10 DEF MessageSizeKnown, Collected, n, one
    <3>2. n = MESSAGE_SIZE_BITS_COUNT
      BY <1>2, <1>3, <3>1, Widths DEF InSection, n
    <3>3. messageLength' = MsgBits /\ MsgBits' = MsgBits
      BY <1>1, <3>1, <3>2, MessageSizeRead DEF n, MsgBits
    <3>4. extension' = source.ext
      BY <1>3, <3>1
    <3>5. b(4) = position
      BY <1>2, <1>4, <2>c, <3>1, <3>2, Widths, SectionStarts DEF b
    <3>6. InSection(messageSection)'
      <4>1. Collected' = 1 /\ 1 \in 1 .. (IF MsgBits' = 0 THEN 2 ELSE MsgBits')
        BY <1>4, <3>1, <3>3 DEF Collected, one
      <4> QED
        BY <3>1, <3>3, <4>1 DEF InSection
    <3> QED
      BY <1>5, <2>b, <3>1, <3>4, <3>5, <3>6
  <2>11. CASE CollectMessage(bit)
    <3>1. /\ messageSection = 4 /\ messageSection' = 4 /\ recievedMessageBits' = more
          /\ extension' = extension /\ messageLength' = messageLength
          /\ isBusy' = (n < messageLength - 1)
      BY <2>11 DEF CollectMessage, Collected, n, more
    <3>2. /\ messageLength = MsgBits /\ n >= 1 /\ extension = source.ext
          /\ MsgBits' = MsgBits
      BY <1>1, <1>3, <3>1 DEF InSection, n, MsgBits
    <3>3. (n < messageLength - 1) <=> (n + 1 = 1 \/ n + 1 < MsgBits)
      BY <1>2, <1>4, <3>2
    <3>4. InSection(messageSection)'
      <4>1. /\ Collected' = n + 1
            /\ n + 1 \in 1 .. (IF MsgBits' = 0 THEN 2 ELSE MsgBits')
        <5>1. n = 1 \/ n < MsgBits
          BY <1>3, <1>9, <3>1 DEF InSection, n
        <5>2. MsgBits = 0 \/ MsgBits >= 2
          BY <1>2, Widths DEF MsgBits
        <5>3. n + 1 \in 1 .. (IF MsgBits = 0 THEN 2 ELSE MsgBits)
          <6>1. n \in 1 .. (IF MsgBits = 0 THEN 2 ELSE MsgBits)
            BY <1>3, <3>1 DEF InSection, n
          <6> QED
            BY <1>2, <1>4, <5>1, <5>2, <6>1
        <5> QED
          BY <2>a, <3>1, <3>2, <5>3 DEF Collected
      <4>2. isBusy' <=> (Collected' = 1 \/ Collected' < MsgBits')
        BY <3>1, <3>2, <3>3, <4>1
      <4> QED
        BY <3>1, <3>2, <4>1, <4>2 DEF InSection
    <3> QED
      BY <1>5, <2>a, <3>1, <3>2, <3>4
  <2> QED
    BY <1>1, <1>9, <2>1, <2>2, <2>3, <2>4, <2>5, <2>6, <2>7, <2>8, <2>9, <2>10,
       <2>11 DEF decode_msg_add_bit
<1> QED
  BY <1>8, <1>9

LEMMA DecoderStep ==
  ASSUME TypeOK, CarriersHoldMessage, DecoderInStep, [Next]_vars
  PROVE  DecoderInStep'
<1>1. CASE \/ PrepareInfo \/ BeginCapacity \/ CountCarrier \/ EndCapacity \/ InfoKnown
           \/ PrepareMessage \/ StartEncoding \/ EncodeCarrier \/ FinishEncoding
  <2>1. phase' \notin {"extracting", "extracted"}
    BY <1>1 DEF PrepareInfo, BeginCapacity, CountCarrier, EndCapacity, InfoKnown,
                PrepareMessage, StartEncoding, EncodeCarrier, FinishEncoding
  <2> QED
    BY <2>1 DEF DecoderInStep
<1>2. CASE BeginExtract
  <2>1. /\ messageSection' = 0 /\ recievedMessageBits' = << >> /\ isBusy' = TRUE
        /\ position' = 0
    BY <1>2 DEF BeginExtract, initDecodedMessage
  <2>2. Collected' = 0 /\ FieldsBefore(messageSection)' = 0
    BY <2>1 DEF Collected, FieldsBefore
  <2>3. InSection(messageSection)'
    BY <2>1, <2>2, WidthsAssumption DEF InSection
  <2> QED
    BY <2>1, <2>2, <2>3 DEF DecoderInStep
<1>3. CASE DecodeCarrier
  <2>1. CASE RightKey
    BY <1>3, <2>1, DecodeInStep
  <2>2. CASE ~RightKey
    <3>1. ~RightKey'
      BY <1>3, <2>2 DEF DecodeCarrier, RightKey, callVars
    <3> QED
      BY <3>1 DEF DecoderInStep
  <2> QED
    BY <2>1, <2>2
<1>4. CASE StoreMessage \/ VideoExhausted \/ UNCHANGED vars
  <2>1. /\ UNCHANGED << decoderVars, callVars, video, extractKey, position >>
        /\ phase' \in {"extracting", "extracted"} => phase \in {"extracting", "extracted"}
    BY <1>4 DEF StoreMessage, VideoExhausted, vars, extractVars
  <2>2. /\ RightKey' = RightKey /\ Collected' = Collected
        /\ ExtBits' = ExtBits /\ MsgBits' = MsgBits
        /\ messageSection' = messageSection /\ isBusy' = isBusy
        /\ messageLength' = messageLength
    BY <2>1 DEF decoderVars, callVars, RightKey, Collected, ExtBits, MsgBits
  <2>3. FieldsBefore(messageSection)' = FieldsBefore(messageSection)
    BY <2>2 DEF FieldsBefore
  <2>4. InSection(messageSection)' = InSection(messageSection)
    BY <2>2 DEF InSection
  <2> QED
    BY <2>1, <2>2, <2>3, <2>4 DEF DecoderInStep, decoderVars, callVars
<1> QED
  BY <1>1, <1>2, <1>3, <1>4 DEF Next

-----------------------------------------------------------------------------
(* Results *)

\* What storeMessage writes when the decoder has stopped is the message.
LEMMA MessageRead ==
  ASSUME TypeOK, CarriersHoldMessage, DecoderInStep, RightKey, phase = "extracting",
         MessageComplete
  PROVE  [ext |-> extension, msg |-> StoredMessage] = source
<1> DEFINE field == ascii2Binary(source.msg)
           bits == SubSeq(recievedMessageBits, 1, MsgBits)
<1>1. source \in File /\ key \in Key /\ Framed
  BY VideoHoldsFrame DEF TypeOK, RightKey
<1>2. /\ length = FieldsBefore(4) + MsgBits
      /\ \A i \in 1 .. MsgBits : body[FieldsBefore(4) + i] = field[i]
  BY <1>1, BodyLayout
<1>3. field \in Seq(Bit) /\ Len(field) = MsgBits
  BY <1>1, Widths, ascii2BinaryType DEF MsgBits
<1>4. MsgBits \in Nat /\ FieldsBefore(4) \in Nat
  BY <1>1, Widths, SectionStarts
<1>5. messageLength = MsgBits /\ Collected >= MsgBits /\ extension = source.ext
  <2>1. /\ messageSection = 4 /\ ~isBusy
        /\ InSection(4) /\ extension = source.ext
    BY DEF DecoderInStep, MessageComplete
  <2>2. messageLength = MsgBits /\ ~(Collected < MsgBits)
    BY <2>1 DEF InSection
  <2> QED
    BY <1>4, <2>1, <2>2 DEF TypeOK, Collected
<1> HIDE DEF field
<1>6. \A i \in 1 .. MsgBits : recievedMessageBits[i] = field[i]
  <2>1. \A i \in 1 .. Collected :
          FieldsBefore(4) + i <= length => recievedMessageBits[i] = body[FieldsBefore(4) + i]
    BY CollectedBits DEF MessageComplete
  <2>2. \A i \in 1 .. MsgBits : FieldsBefore(4) + i <= length /\ i \in 1 .. Collected
    BY <1>2, <1>4, <1>5 DEF TypeOK, Collected
  <2> QED
    BY <1>2, <2>1, <2>2
<1>7. /\ bits \in Seq(Bit) /\ Len(bits) = MsgBits
      /\ \A i \in 1 .. MsgBits : bits[i] = recievedMessageBits[i]
  BY <1>4, <1>5 DEF TypeOK, Collected
<1> HIDE DEF bits
<1>8. bits = field
  BY <1>3, <1>6, <1>7, FieldRead
<1>9. StoredMessage = binaryToAscii(bits)
  <2>1. (IF messageLength > 0 THEN messageLength ELSE 0) = MsgBits
    BY <1>4, <1>5
  <2> QED
    BY <2>1 DEF StoredMessage, bits
<1>10. StoredMessage = source.msg
  BY <1>1, <1>8, <1>9, CharsRoundTrip, Widths DEF field
<1>11. source \in [ext : Seq(Char), msg : Seq(Char)]
  BY <1>1, ChannelAssumption
<1> QED
  BY <1>5, <1>10, <1>11

LEMMA ResultsStep ==
  ASSUME IInv, [Next]_vars
  PROVE  ResultsInStep'
<1> USE DEF IInv
<1>1. CASE \/ PrepareInfo \/ BeginCapacity \/ CountCarrier \/ EndCapacity \/ InfoKnown
           \/ PrepareMessage \/ StartEncoding \/ EncodeCarrier
  <2>1. /\ phase' \in {"idle", "info", "measuring", "prepared", "encoding"}
        /\ stored' = stored /\ phase # "extracted"
    BY <1>1 DEF PrepareInfo, BeginCapacity, CountCarrier, EndCapacity, InfoKnown,
                PrepareMessage, StartEncoding, EncodeCarrier, extractVars
  <2> QED
    BY <2>1 DEF ResultsInStep
<1>2. CASE FinishEncoding
  <2>1. /\ phase = "encoding" /\ phase' = "encoded" /\ stored' = stored
        /\ isSendingMessage' = isSendingMessage
        /\ embedResult' = IF isSendingMessage THEN 10 ELSE 0
    BY <1>2 DEF FinishEncoding, messageVars, extractVars
  <2>2. embedResult' = 0 <=> ~isSendingMessage'
    BY <2>1
  <2> QED
    BY <2>1, <2>2 DEF ResultsInStep
<1>3. CASE BeginExtract \/ DecodeCarrier
  <2>1. /\ phase \in {"encoded", "extracting", "extracted"}
        /\ phase' = "extracting" /\ stored' = {}
        /\ UNCHANGED << embedResult, isSendingMessage >>
    BY <1>3 DEF BeginExtract, DecodeCarrier, messageVars, ResultsInStep
  <2> QED
    BY <2>1 DEF ResultsInStep
<1>4. ASSUME StoreMessage \/ VideoExhausted
      PROVE  ResultsInStep'
  <2>1. /\ phase = "extracting" /\ phase' = "extracted"
        /\ UNCHANGED << embedResult, isSendingMessage >>
        /\ extractResult' = Verdict /\ Verdict' = Verdict
        /\ MessageComplete' = MessageComplete
        /\ position' = position /\ video' = video /\ RightKey' = RightKey
        /\ source' = source /\ lastChecked' = lastChecked
    BY <1>4 DEF StoreMessage, VideoExhausted, messageVars, decoderVars, callVars,
                Verdict, MessageComplete, Collected, RightKey
  <2>2. MessageComplete' \/ position' = Len(video')
    BY <1>4, <2>1 DEF StoreMessage, VideoExhausted
  <2>3. CASE StoreMessage
    <3>1. /\ MessageComplete
          /\ stored' = {[ext |-> extension, msg |-> StoredMessage]}
      BY <2>3 DEF StoreMessage
    <3>2. RightKey => stored' = {source}
      BY <2>1, <3>1, MessageRead
    <3> QED
      BY <2>1, <2>2, <3>1, <3>2 DEF ResultsInStep
  <2>4. CASE VideoExhausted
    <3>1. /\ stored' = {}
          /\ MessageComplete => ~lastChecked
      BY <2>4 DEF VideoExhausted, ResultsInStep
    <3> QED
      BY <2>1, <2>2, <3>1 DEF ResultsInStep
  <2> QED
    BY <1>4, <2>3, <2>4
<1>5. CASE UNCHANGED vars
  BY <1>5 DEF vars, messageVars, decoderVars, callVars, extractVars, ResultsInStep,
              Verdict, MessageComplete, Collected, RightKey
<1> QED
  BY <1>1, <1>2, <1>3, <1>4, <1>5 DEF Next

-----------------------------------------------------------------------------
(* The inductive invariant and what follows from it *)

LEMMA IInvInit == Init => IInv
<1> SUFFICES ASSUME Init
             PROVE  IInv
  OBVIOUS
<1>1. /\ phase = "idle" /\ cursor = 0 /\ video = << >> /\ stored = {}
      /\ ~isSendingMessage /\ ~gettingCapacity
  BY DEF Init, NoMessage
<1>2. CarriersHoldMessage
  BY <1>1 DEF CarriersHoldMessage, BeforeEncoding
<1>3. DecoderInStep /\ ResultsInStep
  BY <1>1 DEF DecoderInStep, ResultsInStep
<1> QED
  BY <1>2, <1>3, TypeInit DEF IInv

LEMMA IInvStep == IInv /\ [Next]_vars => IInv'
BY TypeStep, CarriersStep, DecoderStep, ResultsStep DEF IInv

THEOREM Invariant == Spec => []IInv
<1>1. Spec => Init /\ [][Next]_vars
  BY DEF Spec
<1> QED
  BY <1>1, IInvInit, IInvStep, PTL

(***************************************************************************)
(* Whatever a video's carriers behind the message hold, and wherever it    *)
(* stops: Extract with the key of Embed writes the embedded file or none.  *)
(***************************************************************************)
THEOREM Delivery == Spec => []ExactDelivery
<1>1. IInv => ExactDelivery
  <2> SUFFICES ASSUME IInv, RightKey
               PROVE  stored \subseteq {source}
    BY DEF ExactDelivery
  <2> QED
    BY DEF IInv, ResultsInStep
<1> QED
  BY <1>1, Invariant, PTL

\* In the end the decoder has stopped exactly when the message was carried.
LEMMA CompleteIffCarried ==
  ASSUME IInv, RightKey, phase = "extracted", source.msg # << >>
  PROVE  /\ MessageComplete <=> cursor = length
         /\ extractResult = 0 <=> MessageComplete
<1>0. TypeOK /\ CarriersHoldMessage /\ DecoderInStep /\ ResultsInStep
  BY DEF IInv
<1>1. source \in File /\ key \in Key /\ Framed /\ doEmbedding
  BY <1>0, VideoHoldsFrame DEF TypeOK, RightKey
<1>2. /\ cursor <= Len(video)
      /\ cursor < length => Len(video) = cursor
  BY <1>0, <1>1 DEF CarriersHoldMessage, BeforeEncoding
<1>3. length = FieldsBefore(4) + MsgBits
  BY <1>1, BodyLayout
<1>4. /\ cursor \in Nat /\ length \in Nat /\ cursor <= length /\ Len(video) \in Nat
      /\ position \in Nat /\ position <= Len(video) /\ Collected \in Nat
      /\ messageSection \in 0 .. 4
  BY <1>0 DEF TypeOK, length, Collected
<1>5. /\ MsgBits \in Nat /\ MsgBits >= 2 /\ ExtBits \in Nat
      /\ FieldsBefore(4) \in Nat
  <2>1. Len(source.msg) \in Nat /\ Len(source.msg) # 0
    BY <1>1, Widths
  <2>2. BYTE \in Nat /\ BYTE >= 2
    BY <1>1, Widths
  <2>3. MsgBits >= 2
    BY <2>1, <2>2 DEF MsgBits
  <2> QED
    BY <1>1, <2>3, Widths, SectionStarts
<1>6. /\ InSection(messageSection)
      /\ messageSection < 4 => isBusy
      /\ FieldsBefore(messageSection) + Collected <= position
      /\ isBusy => FieldsBefore(messageSection) + Collected = position
  BY <1>0 DEF DecoderInStep
<1>7. ASSUME MessageComplete
      PROVE  cursor = length /\ Verdict = 0
  <2>1. messageSection = 4 /\ ~isBusy
    BY <1>7 DEF MessageComplete
  <2>2. messageLength = MsgBits /\ Collected = MsgBits
    <3>1. /\ messageLength = MsgBits /\ ~(Collected < MsgBits)
          /\ Collected \in 1 .. (IF MsgBits = 0 THEN 2 ELSE MsgBits)
      BY <1>6, <2>1 DEF InSection
    <3> QED
      BY <1>4, <1>5, <3>1
  <2>3. FieldsBefore(4) + MsgBits <= Len(video)
    BY <1>4, <1>5, <1>6, <2>1, <2>2
  <2>4. cursor = length
    BY <1>2, <1>3, <1>4, <2>3
  <2> QED
    BY <2>1, <2>2, <2>4 DEF Verdict
<1>8. ASSUME ~MessageComplete
      PROVE  cursor < length /\ Verdict # 0
  <2>1. isBusy /\ FieldsBefore(messageSection) + Collected = Len(video)
    <3>1. isBusy
      BY <1>4, <1>6, <1>8 DEF MessageComplete
    <3>2. position = Len(video)
      BY <1>0, <1>8 DEF ResultsInStep
    <3> QED
      BY <1>6, <3>1, <3>2
  <2>2. CASE messageSection < 4
    <3>1. FieldsBefore(messageSection) + Collected <= FieldsBefore(4)
      <4>1. CASE messageSection = 0
        BY <1>1, <1>4, <1>5, <1>6, <4>1, Widths, SectionStarts DEF InSection
      <4>2. CASE messageSection = 1
        BY <1>1, <1>4, <1>5, <1>6, <4>2, Widths, SectionStarts DEF InSection
      <4>3. CASE messageSection = 2
        BY <1>1, <1>4, <1>5, <1>6, <4>3, Widths, SectionStarts DEF InSection
      <4>4. CASE messageSection = 3
        BY <1>1, <1>4, <1>5, <1>6, <4>4, Widths, SectionStarts DEF InSection
      <4> QED
        BY <1>4, <2>2, <4>1, <4>2, <4>3, <4>4
    <3>2. Len(video) < length
      BY <1>3, <1>4, <1>5, <2>1, <3>1
    <3>3. cursor < length
      BY <1>2, <1>4, <3>2
    <3> QED
      BY <2>2, <3>3 DEF Verdict
  <2>3. CASE messageSection = 4
    <3>1. /\ messageLength = MsgBits
          /\ Collected = 1 \/ Collected < MsgBits
      BY <1>6, <2>1, <2>3 DEF InSection
    <3>2. Collected < MsgBits
      BY <1>4, <1>5, <3>1
    <3>3. Len(video) < length
      BY <1>3, <1>4, <1>5, <2>1, <2>3, <3>2
    <3>4. cursor < length
      BY <1>2, <1>4, <3>3
    <3> QED
      BY <1>4, <2>3, <3>1, <3>2, <3>4 DEF Verdict
  <2> QED
    BY <1>4, <2>2, <2>3
<1>9. extractResult = Verdict
  BY <1>0 DEF ResultsInStep
<1> QED
  BY <1>4, <1>7, <1>8, <1>9

(***************************************************************************)
(* A file that is not empty is found in the video exactly when the encoder *)
(* handed all of its frame to carriers.  It is written in no other case,   *)
(* and in that case unless no check follows its last bit.                  *)
(***************************************************************************)
THEOREM Retrieval == Spec => []RetrievedIffCarried
<1>1. IInv => RetrievedIffCarried
  <2> SUFFICES ASSUME IInv, RightKey, phase = "extracted", source.msg # << >>
               PROVE  /\ (extractResult = 0) <=> (cursor = length)
                      /\ stored = {source} => cursor = length
                      /\ cursor = length /\ lastChecked => stored = {source}
    BY DEF RetrievedIffCarried
  <2>1. /\ MessageComplete <=> cursor = length
        /\ extractResult = 0 <=> MessageComplete
    BY CompleteIffCarried
  <2>2. /\ ~MessageComplete => stored = {}
        /\ MessageComplete /\ lastChecked => stored = {source}
    BY DEF IInv, ResultsInStep
  <2>3. stored = {source} => MessageComplete
    BY <2>2
  <2> QED
    BY <2>1, <2>2, <2>3
<1> QED
  BY <1>1, Invariant, PTL

(***************************************************************************)
(* Result 0 of Embed is a promise: the file is found in the video, and     *)
(* written if a check follows the video's last carrier.                    *)
(***************************************************************************)
THEOREM Success == Spec => []SuccessIsRetrievable
<1>1. IInv => SuccessIsRetrievable
  <2> SUFFICES ASSUME IInv, RightKey, phase = "extracted", source.msg # << >>,
                      embedResult = 0
               PROVE  extractResult = 0 /\ (lastChecked => stored = {source})
    BY DEF SuccessIsRetrievable
  <2>1. ~isSendingMessage
    BY DEF IInv, ResultsInStep
  <2>2. ~(cursor < length) /\ cursor \in 0 .. length /\ length \in Nat
    BY <2>1 DEF IInv, CarriersHoldMessage, BeforeEncoding, RightKey, TypeOK, length
  <2>3. MessageComplete /\ extractResult = 0
    BY <2>2, CompleteIffCarried
  <2> QED
    BY <2>3 DEF IInv, ResultsInStep
<1> QED
  BY <1>1, Invariant, PTL

(***************************************************************************)
(* The carriers hold the frame without gap or repetition, as far as the    *)
(* reader has handed it out.                                               *)
(***************************************************************************)
THEOREM Carriers == Spec => []CarriersHoldMessage
<1>1. IInv => CarriersHoldMessage
  BY DEF IInv
<1> QED
  BY <1>1, Invariant, PTL

(***************************************************************************)
(* A message accepted against a measured capacity is embedded whole in any *)
(* video with more carriers than that.                                     *)
(***************************************************************************)
THEOREM Accepted == Spec => []AcceptedFits
<1>1. IInv => AcceptedFits
  <2> SUFFICES ASSUME IInv, phase \in {"encoded", "extracting", "extracted"},
                      doEmbedding, capacity # Unknown, Len(video) > capacity
               PROVE  embedResult = 0
    BY DEF AcceptedFits
  <2>1. /\ cursor <= length /\ length <= capacity
        /\ isSendingMessage => Len(video) = cursor
    BY DEF IInv, CarriersHoldMessage, BeforeEncoding, WithinCapacity, TypeOK, length
  <2>2. cursor \in Nat /\ length \in Nat /\ capacity \in Nat /\ Len(video) \in Nat
    BY DEF IInv, TypeOK, length
  <2>3. Len(video) # cursor
    BY <2>1, <2>2
  <2>4. ~isSendingMessage
    BY <2>1, <2>3
  <2> QED
    BY <2>4 DEF IInv, ResultsInStep
<1> QED
  BY <1>1, Invariant, PTL

-----------------------------------------------------------------------------
(* MessageTransfer *)

\* A file that Extract has written under the key of Embed was carried whole, an
\* empty one too.
DeliveredIsCarried == RightKey /\ stored # {} => cursor = length

LEMMA DeliveredCarried == IInv => DeliveredIsCarried
<1> SUFFICES ASSUME IInv, RightKey, stored # {}
             PROVE  cursor = length
  BY DEF DeliveredIsCarried
<1>0. TypeOK /\ CarriersHoldMessage /\ DecoderInStep /\ ResultsInStep
  BY DEF IInv
<1>1. phase = "extracted" /\ MessageComplete
  BY <1>0 DEF ResultsInStep
<1>2. source \in File /\ key \in Key /\ Framed /\ doEmbedding
  BY <1>0, <1>1, VideoHoldsFrame DEF TypeOK, RightKey
<1>3. CASE source.msg # << >>
  BY <1>1, <1>3, CompleteIffCarried
<1>4. CASE source.msg = << >>
  <2>1. cursor <= Len(video) /\ (cursor < length => Len(video) = cursor)
    BY <1>0, <1>1, <1>2 DEF CarriersHoldMessage, BeforeEncoding
  <2>2. MsgBits = 0
    BY <1>2, <1>4, Widths DEF MsgBits
  <2>3. length = FieldsBefore(4) /\ FieldsBefore(4) \in Nat
    <3>1. length = FieldsBefore(4) + MsgBits
      BY <1>2, BodyLayout
    <3>2. FieldsBefore(4) \in Nat
      BY <1>2, Widths, SectionStarts
    <3> QED
      BY <2>2, <3>1, <3>2
  <2>4. /\ cursor \in Nat /\ cursor <= length /\ Len(video) \in Nat
        /\ position \in Nat /\ position <= Len(video) /\ Collected \in Nat
    BY <1>0 DEF TypeOK, length, Collected
  <2>5. Collected \in 1 .. 2 /\ FieldsBefore(4) + Collected <= position
    BY <1>0, <1>1, <2>2 DEF DecoderInStep, MessageComplete, InSection
  <2> QED
    BY <2>1, <2>3, <2>4, <2>5
<1> QED
  BY <1>3, <1>4

LEMMA TransferStart == Init => Transfer!TransferInit
<1> SUFFICES ASSUME Init
             PROVE  Transfer!TransferInit
  OBVIOUS
<1>1. ~Sealed /\ phase = "idle"
  BY DEF Init, Sealed
<1>2. doEmbedding \in BOOLEAN
  BY ChannelAssumption DEF Init
<1> QED
  BY <1>1, <1>2 DEF Init, Transfer!TransferInit

\* Before an embedding has ended nothing is seen of it.
LEMMA Unseen ==
  ASSUME ~Sealed, ~Sealed',
         UNCHANGED << key, source, doEmbedding, extractKey, lastChecked >>
  PROVE  UNCHANGED Transfer!transferVars
<1>1. phase \notin {"extracting", "extracted"} /\ phase' \notin {"extracting", "extracted"}
  BY DEF Sealed
<1>2. Sealed' <=> Sealed
  OBVIOUS
<1>3. (Sealed /\ embedResult = 0)' <=> (Sealed /\ embedResult = 0)
  OBVIOUS
<1>4. (phase = "extracting")' <=> phase = "extracting"
  BY <1>1
<1>5. /\ (IF Sealed /\ doEmbedding /\ cursor = length THEN {source} ELSE {})' = {}
      /\ (IF Sealed /\ doEmbedding /\ cursor = length THEN {source} ELSE {}) = {}
  OBVIOUS
<1>6. /\ (IF phase = "extracted" THEN stored ELSE {})' = {}
      /\ (IF phase = "extracted" THEN stored ELSE {}) = {}
  BY <1>1
<1> QED
  BY <1>2, <1>3, <1>4, <1>5, <1>6 DEF Transfer!transferVars

\* The end of an extraction, by either of its steps.
LEMMA Ends ==
  ASSUME phase = "extracting", phase' = "extracted",
         ExactDelivery', RetrievedIffCarried', DeliveredIsCarried',
         UNCHANGED << messageVars, callVars, embedResult, extractKey, lastChecked >>
  PROVE  Transfer!EndExtract
<1>1. Sealed /\ Sealed'
  BY DEF Sealed
<1>2. /\ key' = key /\ source' = source /\ doEmbedding' = doEmbedding
      /\ length' = length /\ cursor' = cursor
  BY DEF callVars, messageVars, length
<1> DEFINE hidden == IF doEmbedding /\ cursor = length THEN {source} ELSE {}
<1>3. ASSUME doEmbedding, extractKey = key
      PROVE  /\ stored' \subseteq hidden
             /\ source.msg # << >> /\ lastChecked => stored' = hidden
  <2>1. RightKey'
    BY <1>2, <1>3 DEF RightKey
  <2>2. stored' \subseteq {source}
    BY <1>2, <2>1 DEF ExactDelivery
  <2>3. stored' # {} => cursor = length
    BY <1>2, <2>1 DEF DeliveredIsCarried
  <2>4. source.msg # << >> /\ lastChecked /\ cursor = length => stored' = {source}
    BY <1>2, <2>1 DEF RetrievedIffCarried
  <2> QED
    BY <1>3, <2>2, <2>3, <2>4
<1> QED
  BY <1>1, <1>2, <1>3 DEF Transfer!EndExtract

LEMMA TransferStep ==
  ASSUME IInv, ExactDelivery', RetrievedIffCarried', DeliveredIsCarried', [Next]_vars
  PROVE  [Transfer!TransferNext]_Transfer!transferVars
<1>1. CASE PrepareInfo \/ BeginCapacity \/ CountCarrier \/ EndCapacity \/ InfoKnown
             \/ StartEncoding \/ EncodeCarrier
  <2>1. ~Sealed /\ ~Sealed'
    BY <1>1 DEF Sealed, PrepareInfo, BeginCapacity, CountCarrier, EndCapacity,
       InfoKnown, StartEncoding, EncodeCarrier
  <2>2. UNCHANGED << key, source, doEmbedding, extractKey, lastChecked >>
    BY <1>1 DEF PrepareInfo, BeginCapacity, CountCarrier, EndCapacity, InfoKnown,
       StartEncoding, EncodeCarrier, callVars, extractVars
  <2> QED
    BY <2>1, <2>2, Unseen
<1>2. CASE PrepareMessage
  <2>1. /\ ~Sealed /\ ~Sealed'
        /\ UNCHANGED << key, source, doEmbedding, extractKey, lastChecked >>
    BY <1>2 DEF Sealed, PrepareMessage, callVars, extractVars
  <2> QED
    BY <2>1, Unseen
<1>3. CASE FinishEncoding
  <2>1. phase = "encoding" /\ phase' = "encoded" /\ ~Sealed /\ Sealed'
    BY <1>3 DEF FinishEncoding, Sealed
  <2>2. UNCHANGED << key, source, doEmbedding, extractKey, lastChecked, cursor, body >>
    BY <1>3 DEF FinishEncoding, callVars, extractVars, messageVars
  <2>3. ASSUME embedResult' = 0, doEmbedding
        PROVE  cursor = length
    <3>1. ~isSendingMessage
      BY <1>3, <2>3 DEF FinishEncoding
    <3>2. ~(cursor < length)
      BY <2>1, <2>3, <3>1 DEF IInv, CarriersHoldMessage, BeforeEncoding
    <3>3. cursor \in 0 .. length /\ length \in Nat
      BY DEF IInv, TypeOK, length
    <3> QED
      BY <3>2, <3>3
  <2>4. length' = length
    BY <2>2 DEF length
  <2>5. Transfer!Embed
    BY <2>1, <2>2, <2>3, <2>4 DEF Transfer!Embed
  <2> QED
    BY <2>5 DEF Transfer!TransferNext
<1>4. CASE BeginExtract
  <2>1. /\ phase \in {"encoded", "extracted"} /\ phase' = "extracting"
        /\ Sealed /\ Sealed' /\ extractKey' \in Key /\ lastChecked' \in BOOLEAN
    BY <1>4 DEF BeginExtract, Sealed
  <2>2. UNCHANGED << key, source, doEmbedding, cursor, length, embedResult >>
    BY <1>4 DEF BeginExtract, callVars, messageVars, length
  <2>3. Transfer!BeginExtract
    BY <2>1, <2>2 DEF Transfer!BeginExtract
  <2> QED
    BY <2>3 DEF Transfer!TransferNext
<1>5. CASE DecodeCarrier \/ UNCHANGED vars
  <2>1. phase' = phase /\ (phase = "extracted" => stored' = stored)
    BY <1>5 DEF DecodeCarrier, vars, extractVars
  <2>2. UNCHANGED << key, source, doEmbedding, extractKey, lastChecked, cursor, length,
                     embedResult >>
    BY <1>5 DEF DecodeCarrier, vars, callVars, extractVars, messageVars, length
  <2> QED
    BY <2>1, <2>2 DEF Transfer!transferVars, Sealed
<1>6. CASE StoreMessage \/ VideoExhausted
  <2>1. /\ phase = "extracting" /\ phase' = "extracted"
        /\ UNCHANGED << messageVars, callVars, embedResult, extractKey, lastChecked >>
    BY <1>6 DEF StoreMessage, VideoExhausted
  <2> QED
    BY <2>1, Ends DEF Transfer!TransferNext
<1> QED
  BY <1>1, <1>2, <1>3, <1>4, <1>5, <1>6 DEF Next

(***************************************************************************)
(* Embed and Extract keep the promise of MessageTransfer, for all widths,  *)
(* keys, files and videos, whichever packets are followed by a check.      *)
(***************************************************************************)
THEOREM TransferTheorem == Spec => ImplementsTransfer
<1>1. Spec => Init /\ [][Next]_vars
  BY DEF Spec
<1> QED
  BY <1>1, Invariant, Delivery, Retrieval, DeliveredCarried, TransferStart, TransferStep, PTL
     DEF ImplementsTransfer, Transfer!TransferSpec

-----------------------------------------------------------------------------
(* The decoder's buffer *)

(***************************************************************************)
(* How large the buffer of each section is: the start pattern's serves for *)
(* the extension length, the extension's, if there is one, for the message *)
(* size.                                                                   *)
(***************************************************************************)
BufferInStep ==
  /\ phase \notin {"extracting", "extracted"} =>
       messageSection = 0 /\ Collected = 0 /\ allocated = START_BITS_COUNT + 1
  /\ (RightKey /\ phase \in {"extracting", "extracted"}) =>
       /\ messageSection \in {0, 1} => allocated = START_BITS_COUNT + 1
       /\ messageSection \in {2, 4} => allocated = messageLength + 1
       /\ messageSection = 3 =>
            allocated = (IF source.ext = << >> THEN START_BITS_COUNT ELSE ExtBits) + 1

LEMMA NoExtensionBits ==
  ASSUME TypeOK
  PROVE  ExtBits \in Nat /\ (ExtBits = 0 <=> source.ext = << >>)
<1>1. /\ Len(source.ext) \in Nat /\ BYTE \in Nat \ {0, 1}
      /\ source.ext \in Seq(Char)
  BY ChannelAssumption, WidthsAssumption DEF TypeOK
<1>2. Len(source.ext) = 0 <=> source.ext = << >>
  BY <1>1
<1> QED
  BY <1>1, <1>2 DEF ExtBits

LEMMA BufferStep ==
  ASSUME IInv, IInv', BufferInStep, [Next]_vars
  PROVE  BufferInStep'
<1>1. CASE \/ PrepareInfo \/ BeginCapacity \/ CountCarrier \/ EndCapacity \/ InfoKnown
           \/ PrepareMessage \/ StartEncoding \/ EncodeCarrier \/ FinishEncoding
  <2>1. /\ phase \notin {"extracting", "extracted"}
        /\ phase' \notin {"extracting", "extracted"}
        /\ UNCHANGED decoderVars
    BY <1>1 DEF PrepareInfo, BeginCapacity, CountCarrier, EndCapacity, InfoKnown,
                PrepareMessage, StartEncoding, EncodeCarrier, FinishEncoding
  <2> QED
    BY <2>1 DEF BufferInStep, decoderVars, Collected
<1>2. CASE BeginExtract
  BY <1>2 DEF BeginExtract, initDecodedMessage, BufferInStep
<1>3. CASE DecodeCarrier
  <2> SUFFICES ASSUME RightKey', phase' \in {"extracting", "extracted"}
               PROVE  /\ messageSection' \in {0, 1} => allocated' = START_BITS_COUNT + 1
                      /\ messageSection' \in {2, 4} => allocated' = messageLength' + 1
                      /\ messageSection' = 3 =>
                           allocated' = (IF source'.ext = << >> THEN START_BITS_COUNT
                                                                ELSE ExtBits') + 1
    BY <1>3 DEF BufferInStep, DecodeCarrier
  <2>1. /\ phase = "extracting" /\ RightKey /\ source' = source
        /\ ExtBits' = ExtBits /\ key' = key
        /\ decode_msg_add_bit(video[position + 1], Boundary)
    BY <1>3 DEF DecodeCarrier, callVars, RightKey, ExtBits
  <2>2. /\ messageSection \in {0, 1} => allocated = START_BITS_COUNT + 1
        /\ messageSection \in {2, 4} => allocated = messageLength + 1
        /\ messageSection = 3 =>
             allocated = (IF source.ext = << >> THEN START_BITS_COUNT ELSE ExtBits) + 1
    BY <2>1 DEF BufferInStep
  <2>3. /\ InSection(messageSection) /\ TypeOK
        /\ InSection(messageSection)' /\ phase' = "extracting"
    BY <2>1, <1>3 DEF IInv, DecoderInStep, DecodeCarrier
  <2> DEFINE bit == video[position + 1]
  <2>4. CASE ~isBusy /\ UNCHANGED decoderVars
    BY <2>1, <2>2, <2>4 DEF decoderVars
  <2>5. CASE CollectStart(bit) \/ CollectExtensionLength(bit) \/ CollectExtension(bit)
             \/ CollectMessageSize(bit)
    BY <2>1, <2>2, <2>5 DEF CollectStart, CollectExtensionLength, CollectExtension,
       CollectMessageSize, Store
  <2>6. CASE StartDetected(bit, Boundary) \/ SlideWindow(bit, Boundary)
    BY <2>1, <2>2, <2>6 DEF StartDetected, SlideWindow
  <2>7. CASE ExtensionLengthKnown(bit)
    BY <2>1, <2>2, <2>7 DEF ExtensionLengthKnown
  <2>8. CASE NoExtension(bit)
    <3>1. /\ messageSection = 1 /\ messageSection' = 3 /\ extension' = << >>
          /\ allocated' = START_BITS_COUNT + 1
      BY <2>2, <2>8 DEF NoExtension
    <3>2. extension' = source'.ext
      BY <3>1 DEF IInv, DecoderInStep
    <3> QED
      BY <2>1, <3>1, <3>2
  <2>9. CASE ExtensionKnown(bit)
    <3>1. /\ messageSection = 2 /\ messageSection' = 3
          /\ allocated' = messageLength + 1
      BY <2>2, <2>9 DEF ExtensionKnown
    <3>2. Collected \in 1 .. ExtBits /\ messageLength = ExtBits
      BY <2>3, <3>1 DEF InSection
    <3>3. source.ext # << >>
      BY <2>3, <3>2, NoExtensionBits
    <3> QED
      BY <2>1, <3>1, <3>2, <3>3
  <2>10. CASE MessageSizeKnown(bit) \/ CollectMessage(bit)
    BY <2>1, <2>2, <2>10 DEF MessageSizeKnown, CollectMessage
  <2> QED
    BY <2>1, <2>4, <2>5, <2>6, <2>7, <2>8, <2>9, <2>10 DEF decode_msg_add_bit
<1>4. CASE StoreMessage \/ VideoExhausted \/ UNCHANGED vars
  <2>1. /\ UNCHANGED << messageSection, allocated, messageLength, source, Collected >>
        /\ RightKey' = RightKey /\ ExtBits' = ExtBits
        /\ phase' \in {"extracting", "extracted"} <=> phase \in {"extracting", "extracted"}
    BY <1>4 DEF StoreMessage, VideoExhausted, vars, decoderVars, callVars, extractVars,
                RightKey, ExtBits, Collected
  <2> QED
    BY <2>1 DEF BufferInStep
<1> QED
  BY <1>1, <1>2, <1>3, <1>4 DEF Next

(***************************************************************************)
(* Bits and NULs are stored behind the end of their buffer in two cases,   *)
(* and in no other: an extension shorter than the message size field, and  *)
(* an empty message (decodeMessage.c).                                     *)
(***************************************************************************)
THEOREM InBuffer == Spec => []WritesInBuffer
<1>1. Spec => Init /\ [][Next]_vars
  BY DEF Spec
<1>2. Init => BufferInStep
  BY DEF Init, DecoderInit, BufferInStep, Collected
<1>3. IInv /\ IInv' /\ BufferInStep /\ [Next]_vars => BufferInStep'
  BY BufferStep
<1>4. IInv /\ BufferInStep => WritesInBuffer
  <2> DEFINE short == messageSection = 3 /\ ShortExtension
             empty == messageSection = 4 /\ source.msg = << >> /\ Collected = 2
  <2> SUFFICES ASSUME IInv, BufferInStep, RightKey
               PROVE  ~StoresInBuffer <=> short \/ empty
    BY DEF WritesInBuffer
  <2>0. TypeOK /\ DecoderInStep
    BY DEF IInv
  <2>1. CASE phase \in {"extracting", "extracted"}
    <3>1. /\ InSection(messageSection) /\ messageSection \in 0 .. 4
          /\ Collected \in Nat
      BY <2>0, <2>1 DEF DecoderInStep, TypeOK, Collected
    <3>2. /\ messageSection \in {0, 1} => allocated = START_BITS_COUNT + 1
          /\ messageSection \in {2, 4} => allocated = messageLength + 1
          /\ messageSection = 3 =>
               allocated = (IF source.ext = << >> THEN START_BITS_COUNT ELSE ExtBits) + 1
      BY <2>1 DEF BufferInStep
    <3>3. /\ START_BITS_COUNT \in Nat /\ EXTENSION_BITS_COUNT \in Nat
          /\ MESSAGE_SIZE_BITS_COUNT \in Nat
          /\ EXTENSION_BITS_COUNT <= START_BITS_COUNT
          /\ MESSAGE_SIZE_BITS_COUNT <= START_BITS_COUNT
          /\ ExtBits \in Nat /\ (ExtBits = 0 <=> source.ext = << >>)
      BY <2>0, WidthsAssumption, ExtensionLengthFits, MessageSizeFits, NoExtensionBits
    <3>4. MsgBits \in Nat /\ (MsgBits = 0 <=> source.msg = << >>)
      <4>1. source.msg \in Seq(Char) /\ BYTE \in Nat \ {0, 1}
        BY <2>0, ChannelAssumption, WidthsAssumption DEF TypeOK
      <4>2. Len(source.msg) \in Nat /\ (Len(source.msg) = 0 <=> source.msg = << >>)
        BY <4>1
      <4> QED
        BY <4>1, <4>2 DEF MsgBits
    <3>5. CASE messageSection = 0
      <4>1. StoresInBuffer
        BY <3>1, <3>2, <3>3, <3>5 DEF InSection, StoresInBuffer
      <4> QED
        BY <3>5, <4>1
    <3>6. CASE messageSection = 1
      <4>1. StoresInBuffer
        BY <3>1, <3>2, <3>3, <3>6 DEF InSection, StoresInBuffer
      <4> QED
        BY <3>6, <4>1
    <3>7. CASE messageSection = 2
      <4>1. StoresInBuffer
        BY <3>1, <3>2, <3>3, <3>7 DEF InSection, StoresInBuffer
      <4> QED
        BY <3>7, <4>1
    <3>8. CASE messageSection = 3
      <4>1. Collected <= MESSAGE_SIZE_BITS_COUNT
        BY <3>1, <3>3, <3>8 DEF InSection
      <4>2. StoresInBuffer <=> MESSAGE_SIZE_BITS_COUNT < allocated
        BY <3>1, <3>2, <3>3, <3>8, <4>1 DEF StoresInBuffer
      <4>3. MESSAGE_SIZE_BITS_COUNT < allocated <=> ~ShortExtension
        BY <3>2, <3>3, <3>8 DEF ShortExtension
      <4> QED
        BY <3>8, <4>2, <4>3
    <3>9. CASE messageSection = 4
      <4>1. /\ Collected \in 1 .. (IF MsgBits = 0 THEN 2 ELSE MsgBits)
            /\ allocated = MsgBits + 1
        BY <3>1, <3>2, <3>9 DEF InSection
      <4>2. StoresInBuffer <=> Collected <= allocated
        BY <3>9 DEF StoresInBuffer
      <4>3. Collected <= allocated <=> ~(MsgBits = 0 /\ Collected = 2)
        BY <3>1, <3>4, <4>1
      <4> QED
        BY <3>4, <3>9, <4>2, <4>3
    <3> QED
      BY <3>1, <3>5, <3>6, <3>7, <3>8, <3>9
  <2>2. CASE phase \notin {"extracting", "extracted"}
    <3>1. messageSection = 0 /\ Collected = 0 /\ allocated = START_BITS_COUNT + 1
      BY <2>2 DEF BufferInStep
    <3>2. StoresInBuffer
      BY <3>1, WidthsAssumption DEF StoresInBuffer
    <3> QED
      BY <3>1, <3>2
  <2> QED
    BY <2>1, <2>2
<1> QED
  BY <1>1, <1>2, <1>3, <1>4, Invariant, PTL

-----------------------------------------------------------------------------
(* The decoder's window *)

(***************************************************************************)
(* While the decoder looks for the start pattern it holds the last bits of *)
(* the video it has seen, and none before them completed the pattern.      *)
(***************************************************************************)
WindowInStep ==
  /\ phase \in {"extracting", "extracted"} /\ messageSection = 0 =>
       /\ isBusy /\ ~PatternSeen
       /\ Collected = IF position < START_BITS_COUNT THEN position ELSE START_BITS_COUNT
       /\ \A i \in 1 .. Collected :
            recievedMessageBits[i] = video[position - Collected + i]
  /\ phase \in {"extracting", "extracted"} /\ messageSection # 0 => PatternSeen

\* Carrier i is the first of a start pattern.
PatternAt(i) == SubSeq(video, i + 1, i + START_BITS_COUNT) = Boundary

\* The window is full: it is the pattern exactly when the pattern lies there.
LEMMA FullWindow ==
  ASSUME TypeOK, Collected = START_BITS_COUNT, START_BITS_COUNT <= position,
         \A i \in 1 .. Collected :
           recievedMessageBits[i] = video[position - Collected + i]
  PROVE  recievedMessageBits = Boundary <=> PatternAt(position - START_BITS_COUNT)
<1> DEFINE n == START_BITS_COUNT
           first == position - n
           seen == SubSeq(video, first + 1, first + n)
<1>1. /\ n \in Nat \ {0} /\ position \in Nat /\ position <= Len(video)
      /\ video \in Seq(Bit) /\ recievedMessageBits \in Seq(Bit)
  BY WidthsAssumption DEF TypeOK
<1>2. /\ seen \in Seq(Bit) /\ Len(seen) = n
      /\ \A i \in 1 .. n : seen[i] = video[first + i]
  BY <1>1
<1>3. seen = recievedMessageBits
  <2> HIDE DEF seen
  <2> QED
    BY <1>1, <1>2 DEF Collected
<1> QED
  BY <1>3 DEF PatternAt

LEMMA WindowStep ==
  ASSUME TypeOK, TypeOK', WindowInStep, [Next]_vars
  PROVE  WindowInStep'
<1>0. START_BITS_COUNT \in Nat \ {0} /\ position \in Nat /\ position <= Len(video)
      /\ video \in Seq(Bit) /\ recievedMessageBits \in Seq(Bit) /\ Collected \in Nat
  BY WidthsAssumption DEF TypeOK, Collected
<1>1. CASE \/ PrepareInfo \/ BeginCapacity \/ CountCarrier \/ EndCapacity \/ InfoKnown
           \/ PrepareMessage \/ StartEncoding \/ EncodeCarrier \/ FinishEncoding
  <2>1. phase' \notin {"extracting", "extracted"}
    BY <1>1 DEF PrepareInfo, BeginCapacity, CountCarrier, EndCapacity, InfoKnown,
                PrepareMessage, StartEncoding, EncodeCarrier, FinishEncoding
  <2> QED
    BY <2>1 DEF WindowInStep
<1>2. CASE BeginExtract
  <2>1. /\ messageSection' = 0 /\ recievedMessageBits' = << >> /\ isBusy' = TRUE
        /\ position' = 0
    BY <1>2 DEF BeginExtract, initDecodedMessage
  <2>2. Collected' = 0 /\ ~PatternSeen'
    BY <1>0, <2>1 DEF Collected, PatternSeen
  <2> QED
    BY <1>0, <2>1, <2>2 DEF WindowInStep
<1>3. CASE DecodeCarrier
  <2>1. /\ phase = "extracting" /\ position < Len(video)
        /\ position' = position + 1 /\ video' = video /\ Boundary' = Boundary
        /\ decode_msg_add_bit(video[position + 1], Boundary)
    BY <1>3 DEF DecodeCarrier, Boundary
  <2>2. PatternSeen' <=> \/ PatternSeen
                         \/ /\ START_BITS_COUNT <= position
                            /\ PatternAt(position - START_BITS_COUNT)
    <3>1. PatternSeen' <=> \E i \in 0 .. position - START_BITS_COUNT : PatternAt(i)
      <4>1. position' - START_BITS_COUNT - 1 = position - START_BITS_COUNT
        BY <1>0, <2>1
      <4> QED
        BY <2>1, <4>1 DEF PatternSeen, PatternAt
    <3>2. PatternSeen <=> \E i \in 0 .. position - START_BITS_COUNT - 1 : PatternAt(i)
      BY DEF PatternSeen, PatternAt
    <3>3. \A i : i \in 0 .. position - START_BITS_COUNT <=>
                   \/ i \in 0 .. position - START_BITS_COUNT - 1
                   \/ START_BITS_COUNT <= position /\ i = position - START_BITS_COUNT
      BY <1>0
    <3>4. (\E i \in 0 .. position - START_BITS_COUNT : PatternAt(i))
            <=> \/ \E i \in 0 .. position - START_BITS_COUNT - 1 : PatternAt(i)
                \/ /\ START_BITS_COUNT <= position
                   /\ PatternAt(position - START_BITS_COUNT)
      BY <3>3
    <3> QED
      BY <3>1, <3>2, <3>4
  <2> DEFINE bit == video[position + 1]
  <2>3. CASE messageSection # 0
    <3>1. messageSection' # 0
      <4>1. CASE ~isBusy /\ UNCHANGED decoderVars
        BY <2>3, <4>1 DEF decoderVars
      <4>2. CASE ~(~isBusy /\ UNCHANGED decoderVars)
        BY <2>1, <2>3, <4>2 DEF decode_msg_add_bit, CollectStart, StartDetected,
           SlideWindow, CollectExtensionLength, ExtensionLengthKnown, NoExtension,
           CollectExtension, ExtensionKnown, CollectMessageSize, MessageSizeKnown,
           CollectMessage, Store
      <4> QED
        BY <4>1, <4>2
    <3>2. PatternSeen
      BY <2>1, <2>3 DEF WindowInStep
    <3>3. PatternSeen'
      BY <2>2, <3>2
    <3> QED
      BY <3>1, <3>3 DEF WindowInStep
  <2>4. CASE messageSection = 0
    <3>1. /\ isBusy /\ ~PatternSeen
          /\ Collected = IF position < START_BITS_COUNT THEN position ELSE START_BITS_COUNT
          /\ \A i \in 1 .. Collected :
                recievedMessageBits[i] = video[position - Collected + i]
      BY <2>1, <2>4 DEF WindowInStep
    <3>2. CollectStart(bit) \/ StartDetected(bit, Boundary) \/ SlideWindow(bit, Boundary)
      BY <2>1, <2>4, <3>1 DEF decode_msg_add_bit, CollectExtensionLength,
         ExtensionLengthKnown, NoExtension, CollectExtension, ExtensionKnown,
         CollectMessageSize, MessageSizeKnown, CollectMessage
    <3>3. bit \in Bit
      BY <1>0, <2>1
    <3>4. CASE CollectStart(bit)
      <4>1. /\ Collected # START_BITS_COUNT /\ messageSection' = 0 /\ isBusy' = isBusy
            /\ recievedMessageBits' = Append(recievedMessageBits, bit)
        BY <3>4 DEF CollectStart, Store
      <4>2. position < START_BITS_COUNT /\ Collected = position
        BY <1>0, <3>1, <4>1
      <4>3. Collected' = position + 1
        BY <1>0, <4>1, <4>2 DEF Collected
      <4>4. ~PatternSeen'
        BY <1>0, <2>2, <3>1, <4>2
      <4>5. ASSUME NEW i \in 1 .. Collected'
            PROVE  recievedMessageBits'[i] = video'[position' - Collected' + i]
        <5>1. position' - Collected' + i = i
          BY <1>0, <2>1, <4>3
        <5>2. CASE i = position + 1
          <6>1. recievedMessageBits'[i] = bit
            BY <1>0, <3>3, <4>1, <4>2, <5>2 DEF Collected
          <6> QED
            BY <2>1, <5>1, <5>2, <6>1
        <5>3. CASE i # position + 1
          <6>1. i \in 1 .. Collected /\ position - Collected + i = i
            BY <1>0, <4>2, <4>3, <5>3
          <6>2. recievedMessageBits'[i] = recievedMessageBits[i]
            BY <1>0, <4>1, <6>1 DEF Collected
          <6> QED
            BY <2>1, <3>1, <5>1, <6>1, <6>2
        <5> QED
          BY <5>2, <5>3
      <4>6. Collected' = IF position' < START_BITS_COUNT THEN position'
                                                         ELSE START_BITS_COUNT
        BY <1>0, <2>1, <4>2, <4>3
      <4> QED
        BY <3>1, <4>1, <4>4, <4>5, <4>6 DEF WindowInStep
    <3>5. CASE Collected = START_BITS_COUNT
      <4>1. START_BITS_COUNT <= position
        BY <1>0, <3>1, <3>5
      <4>2. recievedMessageBits = Boundary <=> PatternAt(position - START_BITS_COUNT)
        BY <3>1, <3>5, <4>1, FullWindow
      <4>3. CASE StartDetected(bit, Boundary)
        <5>1. messageSection' = 1 /\ recievedMessageBits = Boundary
          BY <4>3 DEF StartDetected
        <5>2. PatternSeen'
          BY <2>2, <4>1, <4>2, <5>1
        <5> QED
          BY <5>1, <5>2 DEF WindowInStep
      <4>4. CASE SlideWindow(bit, Boundary)
        <5>1. /\ messageSection' = 0 /\ isBusy' = isBusy
              /\ recievedMessageBits # Boundary
              /\ recievedMessageBits' = Append(Tail(recievedMessageBits), bit)
          BY <4>4 DEF SlideWindow
        <5>2. ~PatternSeen'
          BY <2>2, <3>1, <4>2, <5>1
        <5>3. /\ Tail(recievedMessageBits) \in Seq(Bit)
              /\ Len(Tail(recievedMessageBits)) = START_BITS_COUNT - 1
              /\ \A i \in 1 .. START_BITS_COUNT - 1 :
                   Tail(recievedMessageBits)[i] = recievedMessageBits[i + 1]
          <6>1. recievedMessageBits # << >>
            BY <1>0, <3>5 DEF Collected
          <6> QED
            BY <1>0, <3>5, <6>1 DEF Collected
        <5>4. Collected' = START_BITS_COUNT
          BY <1>0, <3>3, <5>1, <5>3 DEF Collected
        <5>5. ASSUME NEW i \in 1 .. Collected'
              PROVE  recievedMessageBits'[i] = video'[position' - Collected' + i]
          <6>0. Tail(recievedMessageBits) \in Seq(Bit)
            BY <5>3
          <6>1. CASE i = START_BITS_COUNT
            <7>1. recievedMessageBits'[i] = bit
              BY <1>0, <5>1, <5>3, <6>1, <3>3
            <7>2. position' - Collected' + i = position + 1
              BY <1>0, <2>1, <5>4, <6>1
            <7> QED
              BY <2>1, <7>1, <7>2
          <6>2. CASE i # START_BITS_COUNT
            <7>1. i \in 1 .. START_BITS_COUNT - 1 /\ i + 1 \in 1 .. Collected
              BY <1>0, <3>5, <5>4, <6>2
            <7>2. recievedMessageBits'[i] = Tail(recievedMessageBits)[i]
              BY <1>0, <3>3, <5>1, <5>3, <7>1
            <7>3. position' - Collected' + i = position - Collected + (i + 1)
              BY <1>0, <2>1, <3>5, <5>4, <7>1
            <7> QED
              BY <2>1, <3>1, <5>3, <7>1, <7>2, <7>3
          <6> QED
            BY <6>1, <6>2
        <5>6. Collected' = IF position' < START_BITS_COUNT THEN position'
                                                           ELSE START_BITS_COUNT
          BY <1>0, <2>1, <4>1, <5>4
        <5> QED
          BY <3>1, <5>1, <5>2, <5>5, <5>6 DEF WindowInStep
      <4>5. ~CollectStart(bit)
        BY <3>5 DEF CollectStart
      <4> QED
        BY <3>2, <4>3, <4>4, <4>5
    <3>6. CollectStart(bit) \/ Collected = START_BITS_COUNT
      BY <3>2 DEF StartDetected, SlideWindow
    <3> QED
      BY <3>4, <3>5, <3>6
  <2> QED
    BY <2>3, <2>4
<1>4. CASE StoreMessage \/ VideoExhausted \/ UNCHANGED vars
  <2>1. /\ UNCHANGED << messageSection, recievedMessageBits, isBusy, position, video,
                        Collected >>
        /\ extractKey' = extractKey
        /\ phase' \in {"extracting", "extracted"} <=> phase \in {"extracting", "extracted"}
    BY <1>4 DEF StoreMessage, VideoExhausted, vars, decoderVars, extractVars, Collected
  <2>2. PatternSeen' <=> PatternSeen
    BY <2>1 DEF PatternSeen, Boundary
  <2> QED
    BY <2>1, <2>2 DEF WindowInStep
<1> QED
  BY <1>1, <1>2, <1>3, <1>4 DEF Next

(***************************************************************************)
(* In every video and with every key the decoder leaves its first section  *)
(* exactly when the start pattern has gone by, however partial matches lie *)
(* before it (the memmove of decode_msg_add_bit).                          *)
(***************************************************************************)
THEOREM StartFound == Spec => []StartFoundIffSeen
<1>1. Spec => Init /\ [][Next]_vars
  BY DEF Spec
<1>2. Init => WindowInStep
  BY DEF Init, WindowInStep
<1>3. TypeOK /\ TypeOK' /\ WindowInStep /\ [Next]_vars => WindowInStep'
  BY WindowStep
<1>4. WindowInStep => StartFoundIffSeen
  BY DEF WindowInStep, StartFoundIffSeen
<1> QED
  BY <1>1, <1>2, <1>3, <1>4, TypeCorrect, PTL

(***************************************************************************)
(* The bits of every section are those the frame has there, for as long as *)
(* an extraction with the key of Embed lasts (decode_msg_add_bit).         *)
(***************************************************************************)
THEOREM Decoder == Spec => []DecoderInStep
<1>1. IInv => DecoderInStep
  BY DEF IInv
<1> QED
  BY <1>1, Invariant, PTL

(***************************************************************************)
(* A decoder that has its message changes nothing of it when more of the   *)
(* video follows, whatever the carriers there hold (isBusy).               *)
(***************************************************************************)
THEOREM CompleteStays == Spec => CompleteStaysComplete
<1>1. Spec => Init /\ [][Next]_vars
  BY DEF Spec
<1>2. [Next]_vars => [(MessageComplete /\ phase = "extracting") =>
                       UNCHANGED << messageSection, recievedMessageBits, extension >>]_vars
  <2> SUFFICES ASSUME Next, MessageComplete, phase = "extracting"
               PROVE  UNCHANGED << messageSection, recievedMessageBits, extension >>
    OBVIOUS
  <2>1. ~isBusy
    BY DEF MessageComplete
  <2>2. CASE DecodeCarrier
    BY <2>1, <2>2 DEF DecodeCarrier, decode_msg_add_bit, decoderVars
  <2>3. CASE StoreMessage \/ VideoExhausted
    BY <2>3 DEF StoreMessage, VideoExhausted, decoderVars
  <2> QED
    BY <2>2, <2>3 DEF Next, PrepareInfo, BeginCapacity, CountCarrier, EndCapacity,
       InfoKnown, PrepareMessage, StartEncoding, EncodeCarrier, FinishEncoding, BeginExtract
<1> QED
  BY <1>1, <1>2, PTL DEF CompleteStaysComplete
=============================================================================
