--------------------------- MODULE DecodeMessage ---------------------------
(***************************************************************************)
(* ffmpeg/libavcodec/decodeMessage.c: the state machine that collects a    *)
(* message from the bits the H.264 decoder recovers, one call of           *)
(* decode_msg_add_bit for each.  The cursor of the code is                 *)
(* Len(recievedMessageBits): every assignment that moves the cursor also   *)
(* stores a bit or empties the buffer.  progress is left out.              *)
(*                                                                         *)
(* Each section's end is seen by the bit that FOLLOWS it: the state moves  *)
(* on, and that bit is the first of the next section.  Only the last       *)
(* section ends with its own last bit.                                     *)
(***************************************************************************)
EXTENDS Framing

VARIABLES
  messageSection,       \* 0 start, 1 extension length, 2 extension,
                        \* 3 message size, 4 message
  recievedMessageBits,  \* the bits of this section so far
  allocated,            \* the size of the buffer they are stored in
  messageLength,        \* bits of section 2, then of section 4
  extension,            \* the decoded extension
  isBusy                \* still collecting

\* The extension length is collected in the buffer of the start pattern (8 bits
\* and 32 in the code).
ASSUME ExtensionLengthFits == EXTENSION_BITS_COUNT <= START_BITS_COUNT

\* So is the message size, if there is no extension (32 bits both).
ASSUME MessageSizeFits == MESSAGE_SIZE_BITS_COUNT <= START_BITS_COUNT

decoderVars == << messageSection, recievedMessageBits, allocated,
                  messageLength, extension, isBusy >>

DecoderInit ==
  /\ messageSection = 0
  /\ recievedMessageBits = << >>
  /\ allocated = START_BITS_COUNT + 1
  /\ messageLength = 0
  /\ extension = << >>
  /\ isBusy = TRUE

\* clsPrivateDestegano::initDecodedMessage: a new record for every extraction
initDecodedMessage ==
  /\ messageSection' = 0
  /\ recievedMessageBits' = << >>
  /\ allocated' = START_BITS_COUNT + 1
  /\ messageLength' = 0
  /\ extension' = << >>
  /\ isBusy' = TRUE

Collected == Len(recievedMessageBits)

Store(bit) ==
  /\ recievedMessageBits' = Append(recievedMessageBits, bit)
  /\ UNCHANGED << messageSection, allocated, messageLength, extension, isBusy >>

\* Section 0: a window as long as the start pattern slides over the bits.
CollectStart(bit) ==
  /\ messageSection = 0
  /\ Collected # START_BITS_COUNT
  /\ Store(bit)

\* Mutant: the bit that reveals the end of the pattern is lost.
StartDetectedDropsBit(bit, boundary) ==
  /\ messageSection = 0
  /\ Collected = START_BITS_COUNT
  /\ recievedMessageBits = boundary
  /\ messageSection' = 1
  /\ recievedMessageBits' = << >>
  /\ UNCHANGED << allocated, messageLength, extension, isBusy >>

StartDetected(bit, boundary) ==
  /\ messageSection = 0
  /\ Collected = START_BITS_COUNT
  /\ recievedMessageBits = boundary
  /\ messageSection' = 1
  /\ recievedMessageBits' = << bit >>
  /\ UNCHANGED << allocated, messageLength, extension, isBusy >>

\* Mutant: a window that is not the pattern is thrown away whole.
SlideWindowRestarts(bit, boundary) ==
  /\ messageSection = 0
  /\ Collected = START_BITS_COUNT
  /\ recievedMessageBits # boundary
  /\ recievedMessageBits' = << bit >>
  /\ UNCHANGED << messageSection, allocated, messageLength, extension, isBusy >>

SlideWindow(bit, boundary) ==
  /\ messageSection = 0
  /\ Collected = START_BITS_COUNT
  /\ recievedMessageBits # boundary
  /\ recievedMessageBits' = Append(Tail(recievedMessageBits), bit)
  /\ UNCHANGED << messageSection, allocated, messageLength, extension, isBusy >>

\* Section 1
CollectExtensionLength(bit) ==
  /\ messageSection = 1
  /\ Collected < EXTENSION_BITS_COUNT
  /\ Store(bit)

\* Mutant: a buffer of bytes where one of bits is needed.
ExtensionLengthInBytes(bit) ==
  /\ messageSection = 1
  /\ Collected >= EXTENSION_BITS_COUNT
  /\ FromBits(recievedMessageBits) # 0
  /\ messageSection' = 2
  /\ messageLength' = FromBits(recievedMessageBits) * BYTE
  /\ allocated' = FromBits(recievedMessageBits) + 1
  /\ recievedMessageBits' = << bit >>
  /\ UNCHANGED << extension, isBusy >>

\* A buffer for the extension; the message size will be stored in it too.
ExtensionLengthKnown(bit) ==
  /\ messageSection = 1
  /\ Collected >= EXTENSION_BITS_COUNT
  /\ FromBits(recievedMessageBits) # 0
  /\ messageSection' = 2
  /\ messageLength' = FromBits(recievedMessageBits) * BYTE
  /\ allocated' = FromBits(recievedMessageBits) * BYTE + 1
  /\ recievedMessageBits' = << bit >>
  /\ UNCHANGED << extension, isBusy >>

\* Mutant: the bit behind an extension length of 0 is lost.
NoExtensionDropsBit(bit) ==
  /\ messageSection = 1
  /\ Collected >= EXTENSION_BITS_COUNT
  /\ FromBits(recievedMessageBits) = 0
  /\ messageSection' = 3
  /\ extension' = << >>
  /\ recievedMessageBits' = << >>
  /\ UNCHANGED << allocated, messageLength, isBusy >>

NoExtension(bit) ==
  /\ messageSection = 1
  /\ Collected >= EXTENSION_BITS_COUNT
  /\ FromBits(recievedMessageBits) = 0
  /\ messageSection' = 3
  /\ extension' = << >>
  /\ recievedMessageBits' = << bit >>
  /\ UNCHANGED << allocated, messageLength, isBusy >>

\* Section 2
CollectExtension(bit) ==
  /\ messageSection = 2
  /\ Collected < messageLength
  /\ Store(bit)

ExtensionKnown(bit) ==
  /\ messageSection = 2
  /\ Collected >= messageLength
  /\ extension' = binaryToAscii(recievedMessageBits)
  /\ messageSection' = 3
  /\ recievedMessageBits' = << bit >>
  /\ UNCHANGED << allocated, messageLength, isBusy >>

\* Section 3
CollectMessageSize(bit) ==
  /\ messageSection = 3
  /\ Collected < MESSAGE_SIZE_BITS_COUNT
  /\ Store(bit)

MessageSizeKnown(bit) ==
  /\ messageSection = 3
  /\ Collected >= MESSAGE_SIZE_BITS_COUNT
  /\ messageLength' = DecodedLength(recievedMessageBits)
  /\ allocated' = DecodedLength(recievedMessageBits) + 1
  /\ messageSection' = 4
  /\ recievedMessageBits' = << bit >>
  /\ UNCHANGED << extension, isBusy >>

\* Mutant: the last section waits for one bit more, as the others do.
CollectMessageLate(bit) ==
  /\ messageSection = 4
  /\ recievedMessageBits' = Append(recievedMessageBits, bit)
  /\ isBusy' = (Collected < messageLength)
  /\ UNCHANGED << messageSection, allocated, messageLength, extension >>

\* Section 4
CollectMessage(bit) ==
  /\ messageSection = 4
  /\ recievedMessageBits' = Append(recievedMessageBits, bit)
  /\ isBusy' = (Collected < messageLength - 1)
  /\ UNCHANGED << messageSection, allocated, messageLength, extension >>

\* Mutant: a message that is complete is not left alone.
decode_without_isBusy(bit, boundary) ==
  \/ CollectStart(bit)
  \/ StartDetected(bit, boundary)
  \/ SlideWindow(bit, boundary)
  \/ CollectExtensionLength(bit)
  \/ ExtensionLengthKnown(bit)
  \/ NoExtension(bit)
  \/ CollectExtension(bit)
  \/ ExtensionKnown(bit)
  \/ CollectMessageSize(bit)
  \/ MessageSizeKnown(bit)
  \/ CollectMessage(bit)

decode_msg_add_bit(bit, boundary) ==
  \/ /\ ~isBusy
     /\ UNCHANGED decoderVars
  \/ /\ isBusy
     /\ \/ CollectStart(bit)
        \/ StartDetected(bit, boundary)
        \/ SlideWindow(bit, boundary)
        \/ CollectExtensionLength(bit)
        \/ ExtensionLengthKnown(bit)
        \/ NoExtension(bit)
        \/ CollectExtension(bit)
        \/ ExtensionKnown(bit)
        \/ CollectMessageSize(bit)
        \/ MessageSizeKnown(bit)
        \/ CollectMessage(bit)

(***************************************************************************)
(* What storeMessage writes: the whole characters among the first          *)
(* messageLength bits.  The code's binaryToAscii takes the buffer for a    *)
(* string, which no NUL ends, so it may convert what lies behind it as     *)
(* well; the characters of the message come first and are not touched by   *)
(* that, and fwrite takes messageLength / BYTE of them.  Where the code    *)
(* then reads and writes behind its buffers is not modelled.               *)
(***************************************************************************)
StoredMessage ==
  binaryToAscii(SubSeq(recievedMessageBits, 1,
                       IF messageLength > 0 THEN messageLength ELSE 0))
=============================================================================
