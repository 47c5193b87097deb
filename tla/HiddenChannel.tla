--------------------------- MODULE HiddenChannel ---------------------------
(***************************************************************************)
(* One message hidden in one video file and looked for again: the library  *)
(* calls FileAndMessageInfo and Embed (VideoSteg.cpp, Stegano.cpp) drive   *)
(* the reader of MessageReader through an encoder, the call Extract        *)
(* (Destegano.cpp) drives DecodeMessage through the decoder, and between   *)
(* them lies the video, seen here as the sequence of bits its carriers     *)
(* hold.                                                                   *)
(*                                                                         *)
(* A carrier is one intra prediction mode that encoder and decoder both    *)
(* count: PredMode shows that its parity is the bit the encoder asked for, *)
(* MacroblockCoder that both sides count the same carriers in the same     *)
(* order.  Behind the message its parity is arbitrary (CarrierChannel).    *)
(***************************************************************************)
EXTENDS CarrierChannel, DecodeMessage

CONSTANTS
  Key,          \* values of Stegano::key
  startBit,     \* the start pattern srand(key) yields for each key
  File,         \* the files that may be embedded: records [ext, msg]
  EmbedChoices, \* the values of Embed's doEmbedding that callers use
  MaxCarriers,  \* bound: carriers of the longest video
  MaxCounted    \* bound: carriers that a capacity run counts

ASSUME ChannelAssumption ==
  /\ startBit \in [Key -> [1 .. START_BITS_COUNT -> Bit]]
  /\ File \subseteq [ext : Seq(Char), msg : Seq(Char)]
  /\ EmbedChoices \subseteq BOOLEAN
  /\ MaxCarriers \in Nat /\ MaxCounted \in Nat

\* A file name's extension is shorter than 256 characters, and the message's
\* bits can be counted in an int: nothing in the code checks the latter.
ASSUME FilesFit ==
  \A f \in File : /\ Fits(Len(f.ext), EXTENSION_BITS_COUNT)
                  /\ Fits(Len(f.msg), MESSAGE_SIZE_BITS_COUNT)
                  /\ Len(f.msg) * BYTE <= INT_MAX

VARIABLES
  phase,          \* what the caller's program is doing
  key,            \* the key of Embed
  source,         \* the file given to Embed
  doEmbedding,    \* Embed's last argument
  capacity,       \* maximumCapacity, once FileAndMessageInfo has measured it
  embedResult,    \* what Embed returned
  extractKey,     \* the key of the current or last Extract
  position,       \* carriers that Extract has decoded
  lastChecked,    \* a check of Extract's follows the video's last carrier
  stored,         \* the files the current or last Extract wrote: at most one
  extractResult   \* what extractMessage returned

callVars == << key, source, doEmbedding, capacity >>
extractVars == << extractKey, position, lastChecked, stored, extractResult >>
vars == << messageVars, decoderVars, phase, callVars, video, embedResult,
           extractVars >>

Boundary == startBit[extractKey]

\* maximumCapacity = -1 in an unsigned field: no message is longer.
Unknown == -1

\* The share of the counted carriers that may be used.
Estimate(n) == n - (85 * n) \div 100

\* Mutant: characters compared with bits.
WithinCapacityOfBytes(bits) == capacity = Unknown \/ bits \div BYTE <= capacity

WithinCapacity(bits) == capacity = Unknown \/ bits <= capacity

Init ==
  /\ NoMessage
  /\ DecoderInit
  /\ phase = "idle"
  /\ key \in Key
  /\ source \in File
  /\ doEmbedding \in EmbedChoices
  /\ capacity = Unknown
  /\ video = << >>
  /\ embedResult = 0
  /\ extractKey = key
  /\ position = 0
  /\ lastChecked = TRUE
  /\ stored = {}
  /\ extractResult = 0

-----------------------------------------------------------------------------
(* FileAndMessageInfo: the message is framed (with whatever key was last   *)
(* set), and a dry run of the encoder counts the carriers.                 *)

PrepareInfo ==
  /\ phase = "idle"
  /\ \E k \in Key : messageInit(startBit[k], source.ext, source.msg)
  /\ phase' = "info"
  /\ UNCHANGED << decoderVars, callVars, video, embedResult, extractVars >>

\* Stegano::getCapacity; a capacity that is known is not measured again.
BeginCapacity ==
  /\ phase = "info"
  /\ capacity = Unknown
  /\ gettingCapacity' = TRUE
  /\ numberOfEmbededBits' = 0
  /\ phase' = "measuring"
  /\ UNCHANGED << body, cursor, isSendingMessage, isInitialized, decoderVars,
                  callVars, video, embedResult, extractVars >>

CountCarrier ==
  /\ phase = "measuring"
  /\ numberOfEmbededBits < MaxCounted
  /\ \E bit \in Bit \cup {NoBit} : messageReadBit(bit)
  /\ UNCHANGED << decoderVars, phase, callVars, video, embedResult, extractVars >>

EndCapacity ==
  /\ phase = "measuring"
  /\ gettingCapacity' = FALSE
  /\ capacity' = Estimate(numberOfEmbededBits)
  /\ numberOfEmbededBits' = 0
  /\ phase' = "idle"
  /\ UNCHANGED << body, cursor, isSendingMessage, isInitialized, decoderVars,
                  key, source, doEmbedding, video, embedResult, extractVars >>

InfoKnown ==
  /\ phase = "info"
  /\ capacity # Unknown
  /\ phase' = "idle"
  /\ UNCHANGED << messageVars, decoderVars, callVars, video, embedResult,
                  extractVars >>

-----------------------------------------------------------------------------
(* Embed *)

\* Stegano::embed frames the file, and refuses one that is too long.
PrepareMessage ==
  /\ phase = "idle"
  /\ messageInit(startBit[key], source.ext, source.msg)
  /\ \/ /\ WithinCapacity(Len(body'))
        /\ phase' = "prepared"
        /\ UNCHANGED embedResult
     \/ /\ ~WithinCapacity(Len(body'))
        /\ embedResult' = 4
        /\ UNCHANGED phase
  /\ UNCHANGED << decoderVars, callVars, video, extractVars >>

\* Stegano::dontEmbed, then Stegano::startEncoding up to the call of embedVideo.
StartEncoding ==
  /\ phase = "prepared"
  /\ isInitialized' = doEmbedding
  /\ isSendingMessage' = (isSendingMessage \/ isInitialized')
  /\ phase' = "encoding"
  /\ UNCHANGED << body, cursor, gettingCapacity, numberOfEmbededBits,
                  decoderVars, callVars, video, embedResult, extractVars >>

\* One carrier of the encoded video.
EncodeCarrier ==
  /\ phase = "encoding"
  /\ Len(video) < MaxCarriers
  /\ EncodeBit
  /\ UNCHANGED << decoderVars, phase, callVars, embedResult, extractVars >>

\* Mutant: the message is not looked at again.
FinishUnseen ==
  /\ phase = "encoding"
  /\ embedResult' = 0
  /\ phase' = "encoded"
  /\ UNCHANGED << messageVars, decoderVars, callVars, video, extractVars >>

\* embedVideo returns and startEncoding looks at the message again.
FinishEncoding ==
  /\ phase = "encoding"
  /\ embedResult' = IF isSendingMessage THEN 10 ELSE 0
  /\ phase' = "encoded"
  /\ UNCHANGED << messageVars, decoderVars, callVars, video, extractVars >>

-----------------------------------------------------------------------------
(* Extract: any number of times, with any key.  The loop of extractMessage *)
(* looks at the message behind a packet only if a picture came out of it,  *)
(* or if it is a packet of sound: behind the others it goes on at once     *)
(* (decodeFrame returned false), although their carriers were decoded.     *)

BeginExtract ==
  /\ phase \in {"encoded", "extracted"}
  /\ extractKey' \in Key
  /\ initDecodedMessage
  /\ position' = 0
  /\ lastChecked' \in BOOLEAN
  /\ stored' = {}
  /\ extractResult' = 0
  /\ phase' = "extracting"
  /\ UNCHANGED << messageVars, callVars, video, embedResult >>

DecodeCarrier ==
  /\ phase = "extracting"
  /\ position < Len(video)
  /\ decode_msg_add_bit(video[position + 1], Boundary)
  /\ position' = position + 1
  /\ UNCHANGED << messageVars, phase, callVars, video, embedResult,
                  extractKey, lastChecked, stored, extractResult >>

MessageComplete == messageSection = 4 /\ ~isBusy

\* The return value after the loop over the packets.
Verdict ==
  IF messageSection # 4 THEN 6
  ELSE IF Collected = messageLength THEN 0 ELSE 5

\* The check behind a packet.  Which carriers end a packet that is followed by
\* it is arbitrary; for the last, lastChecked says so.
StoreMessage ==
  /\ phase = "extracting"
  /\ MessageComplete
  /\ position = Len(video) => lastChecked
  /\ stored' = {[ext |-> extension, msg |-> StoredMessage]}
  /\ extractResult' = Verdict
  /\ phase' = "extracted"
  /\ UNCHANGED << messageVars, decoderVars, callVars, video, embedResult,
                  extractKey, position, lastChecked >>

\* Mutant: the end of the video is only noticed inside a message.
ExhaustedInMessage ==
  /\ phase = "extracting"
  /\ position = Len(video)
  /\ messageSection = 4
  /\ isBusy
  /\ extractResult' = Verdict
  /\ phase' = "extracted"
  /\ UNCHANGED << messageVars, decoderVars, callVars, video, embedResult,
                  extractKey, position, lastChecked, stored >>

\* The video ends before that: the message is not complete, or no check has
\* followed its last bit.
VideoExhausted ==
  /\ phase = "extracting"
  /\ position = Len(video)
  /\ MessageComplete => ~lastChecked
  /\ extractResult' = Verdict
  /\ phase' = "extracted"
  /\ UNCHANGED << messageVars, decoderVars, callVars, video, embedResult,
                  extractKey, position, lastChecked, stored >>

Next ==
  \/ PrepareInfo
  \/ BeginCapacity
  \/ CountCarrier
  \/ EndCapacity
  \/ InfoKnown
  \/ PrepareMessage
  \/ StartEncoding
  \/ EncodeCarrier
  \/ FinishEncoding
  \/ BeginExtract
  \/ DecodeCarrier
  \/ StoreMessage
  \/ VideoExhausted

\* extractMessage is a sequential loop over a finite file: it keeps going.
Fairness == WF_vars(DecodeCarrier \/ StoreMessage \/ VideoExhausted)

Spec == Init /\ [][Next]_vars /\ Fairness

-----------------------------------------------------------------------------
(* Properties *)

\* Embed hid something, and Extract was called with Embed's key.
RightKey == doEmbedding /\ extractKey = key

\* The reader and the decoder keep to the types and ranges of their fields.
TypeOK ==
  /\ body \in Seq(Bit)
  /\ cursor \in 0 .. length
  /\ isSendingMessage \in BOOLEAN
  /\ isInitialized \in BOOLEAN
  /\ gettingCapacity \in BOOLEAN
  /\ numberOfEmbededBits \in Nat
  /\ capacity \in Nat \cup {Unknown}
  /\ messageSection \in 0 .. 4
  /\ recievedMessageBits \in Seq(Bit)
  /\ allocated \in Int
  /\ messageLength \in Int
  /\ isBusy \in BOOLEAN
  /\ phase \in {"idle", "info", "measuring", "prepared", "encoding", "encoded",
                "extracting", "extracted"}
  /\ key \in Key /\ extractKey \in Key
  /\ source \in File
  /\ doEmbedding \in EmbedChoices
  /\ video \in Seq(Bit)
  /\ embedResult \in {0, 4, 10}
  /\ position \in 0 .. Len(video)
  /\ lastChecked \in BOOLEAN
  /\ extractResult \in {0, 5, 6}

(***************************************************************************)
(* What Extract writes, given the key of Embed, is the embedded file:      *)
(* never another one, never part of it, whatever parities the carriers     *)
(* behind the message have and wherever the video stops.                   *)
(***************************************************************************)
ExactDelivery == RightKey => stored \subseteq {source}

(***************************************************************************)
(* A file that is not empty is found exactly when the video had room for   *)
(* all of its bits, although every section but the last ends one bit late  *)
(* for the decoder.  It is written then too, unless no packet behind its   *)
(* last bit gets as far as the check (decodeFrame, Destegano.cpp:74).      *)
(***************************************************************************)
RetrievedIffCarried ==
  (RightKey /\ phase = "extracted" /\ source.msg # << >>) =>
     /\ (extractResult = 0) <=> (cursor = length)
     /\ stored = {source} => cursor = length
     /\ cursor = length /\ lastChecked => stored = {source}

(***************************************************************************)
(* What Embed's result 0 is worth: every extraction with the right key     *)
(* finds the whole file and, if the video's last packet gets as far as the *)
(* check, writes it.  That no row was encoded again is a premise of this   *)
(* module's channel (CarrierChannel): such a row's bits are missing from   *)
(* the video although Embed returns 0 (MacroblockCoder, OnlyRowsAreLost).  *)
(***************************************************************************)
SuccessIsRetrievable ==
  (RightKey /\ phase = "extracted" /\ source.msg # << >> /\ embedResult = 0) =>
     /\ extractResult = 0
     /\ lastChecked => stored = {source}

(***************************************************************************)
(* A message that Embed accepted against a measured capacity is embedded   *)
(* whole in every video with more carriers than that capacity: the dry run *)
(* has not used up any of it, and one more carrier is enough for the       *)
(* encoder to notice the end.                                              *)
(***************************************************************************)
AcceptedFits ==
  (/\ phase \in {"encoded", "extracting", "extracted"}
   /\ doEmbedding
   /\ capacity # Unknown
   /\ Len(video) > capacity) => embedResult = 0

(***************************************************************************)
(* What Embed says when it fails, "The message couldn't be embeded due to  *)
(* its size" (Stegano.cpp:240, VideoSteg.cpp:15), and result 5 of          *)
(* extractMessage, "The message was uncomplete." (VideoSteg.cpp:16), taken *)
(* at their word: then nothing can be retrieved, or some of the message is *)
(* missing.  The code keeps to neither: a video with exactly as many       *)
(* carriers as bits holds the message, and an empty message is reported as *)
(* incomplete.                                                             *)
(***************************************************************************)
FailureReportIsTrue ==
  (RightKey /\ phase = "extracted" /\ embedResult = 10) => stored = {}

UncompleteMeansTruncated ==
  (RightKey /\ phase = "extracted" /\ extractResult = 5) => cursor < length

(***************************************************************************)
(* "Embeded message retrieved and stored in" (Destegano.cpp:101), which    *)
(* extractMessage says with its result 0, taken at its word.  The code     *)
(* does not keep to it either: it computes the result from the decoder's   *)
(* record, whether the file was written or not.                            *)
(***************************************************************************)
RetrievedMeansStored ==
  (phase = "extracted" /\ extractResult = 0) => stored # {}

(***************************************************************************)
(* Reader and video in step: the carriers hold the frame from its first    *)
(* bit on, without a gap or a repetition, for as many bits as the reader   *)
(* has handed out; behind them a carrier is written only when the frame is *)
(* complete, and the encoder keeps asking until a read has failed.  A      *)
(* capacity run leaves no trace in the message.                            *)
(***************************************************************************)
Framed == body = Frame(startBit[key], source.ext, source.msg)

BeforeEncoding == phase \in {"idle", "info", "measuring", "prepared"}

CarriersHoldMessage ==
  /\ gettingCapacity => phase = "measuring"
  /\ BeforeEncoding => cursor = 0 /\ ~isSendingMessage /\ video = << >>
  /\ phase = "prepared" => isInitialized
  /\ phase \notin {"idle", "info", "measuring"} => Framed /\ WithinCapacity(length)
  /\ (~BeforeEncoding /\ doEmbedding) =>
       /\ cursor <= Len(video)
       /\ cursor < length => isSendingMessage
       /\ isSendingMessage => Len(video) = cursor
       /\ \A i \in 1 .. cursor : video[i] = body[i]

(***************************************************************************)
(* Video and decoder in step: extracting with the key of Embed, the bits   *)
(* of each section are those the frame has there.  FieldsBefore(s) is what *)
(* lies in the frame before section s.                                     *)
(***************************************************************************)
ExtBits == Len(source.ext) * BYTE
MsgBits == Len(source.msg) * BYTE

FieldsBefore(s) ==
  CASE s = 0 -> 0
    [] s = 1 -> START_BITS_COUNT
    [] s = 2 -> START_BITS_COUNT + EXTENSION_BITS_COUNT
    [] s = 3 -> START_BITS_COUNT + EXTENSION_BITS_COUNT + ExtBits
    [] s = 4 -> START_BITS_COUNT + EXTENSION_BITS_COUNT + ExtBits
                  + MESSAGE_SIZE_BITS_COUNT

InSection(s) ==
  CASE s = 0 -> Collected <= START_BITS_COUNT
    [] s = 1 -> Collected \in 1 .. EXTENSION_BITS_COUNT
    [] s = 2 -> Collected \in 1 .. ExtBits /\ messageLength = ExtBits
    [] s = 3 -> Collected \in 1 .. MESSAGE_SIZE_BITS_COUNT
    [] s = 4 -> /\ Collected \in 1 .. (IF MsgBits = 0 THEN 2 ELSE MsgBits)
                /\ messageLength = MsgBits
                /\ isBusy <=> (Collected = 1 \/ Collected < MsgBits)

DecoderInStep ==
  (RightKey /\ phase \in {"extracting", "extracted"}) =>
     /\ InSection(messageSection)
     /\ messageSection < 4 => isBusy
     /\ messageSection > 2 => extension = source.ext
     /\ FieldsBefore(messageSection) + Collected <= position
     /\ isBusy => FieldsBefore(messageSection) + Collected = position
     /\ \A i \in 1 .. Collected :
          recievedMessageBits[i] = video[FieldsBefore(messageSection) + i]

(***************************************************************************)
(* Results in step: what the finished calls returned agrees with the state *)
(* they left.                                                              *)
(***************************************************************************)
ResultsInStep ==
  /\ phase \in {"encoded", "extracting", "extracted"} =>
       (embedResult = 0 <=> ~isSendingMessage)
  /\ phase # "extracted" => stored = {}
  /\ phase = "extracted" =>
       /\ extractResult = Verdict
       /\ ~MessageComplete => position = Len(video) /\ stored = {}
       /\ RightKey => /\ stored \subseteq {source}
                      /\ MessageComplete /\ lastChecked => stored = {source}

\* The inductive invariant behind the theorems of HiddenChannelProofs.
IInv == TypeOK /\ CarriersHoldMessage /\ DecoderInStep /\ ResultsInStep

(***************************************************************************)
(* What the decoder stores stays in the buffer it has allocated for it,    *)
(* with two exceptions.  Section 3 reuses the buffer of the extension for  *)
(* the message size and a NUL behind it, so an extension that is shorter   *)
(* than the size field, of one to three characters in the code, leaves too *)
(* little room; and the buffer of an empty message holds one bit, where    *)
(* the decoder stores two.  These are all the cases, and they always occur.*)
(***************************************************************************)
StoresInBuffer ==
  /\ Collected <= allocated
  /\ messageSection = 3 => MESSAGE_SIZE_BITS_COUNT < allocated

ShortExtension == ExtBits \in 1 .. MESSAGE_SIZE_BITS_COUNT - 1

WritesInBuffer ==
  RightKey =>
     (~StoresInBuffer <=>
        \/ messageSection = 3 /\ ShortExtension
        \/ messageSection = 4 /\ source.msg = << >> /\ Collected = 2)

(***************************************************************************)
(* In any video, with any key: the decoder starts to collect a message     *)
(* exactly when the start pattern has gone by with one more carrier behind *)
(* it, wherever it lies and whatever partial match precedes it.            *)
(***************************************************************************)
PatternSeen ==
  \E i \in 0 .. position - START_BITS_COUNT - 1 :
    SubSeq(video, i + 1, i + START_BITS_COUNT) = Boundary

StartFoundIffSeen ==
  phase \in {"extracting", "extracted"} => ((messageSection # 0) <=> PatternSeen)

\* An extraction that has begun ends, with a verdict.
ExtractionEnds == (phase = "extracting") ~> (phase = "extracted")

(***************************************************************************)
(* Once the decoder has stopped collecting, it ignores every further       *)
(* carrier of the video until the next extraction.                         *)
(***************************************************************************)
CompleteStaysComplete ==
  [][(MessageComplete /\ phase = "extracting") =>
        UNCHANGED << messageSection, recievedMessageBits, extension >>]_vars

(***************************************************************************)
(* The two calls together keep what they promise (MessageTransfer): the    *)
(* file is in the video when the reader has handed out its last bit, an    *)
(* empty file is promised to nobody, and all the calls for information and *)
(* the refused attempts before an embedding are steps of no account.       *)
(***************************************************************************)
Sealed == phase \in {"encoded", "extracting", "extracted"}

Transfer ==
  INSTANCE MessageTransfer WITH
    Promised <- {f \in File : f.msg # << >>},
    sealed <- Sealed,
    hidden <- IF Sealed /\ doEmbedding /\ cursor = length THEN {source} ELSE {},
    success <- Sealed /\ embedResult = 0,
    extracting <- phase = "extracting",
    received <- IF phase = "extracted" THEN stored ELSE {}

ImplementsTransfer == Transfer!TransferSpec
=============================================================================
