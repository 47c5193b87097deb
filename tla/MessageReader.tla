--------------------------- MODULE MessageReader ---------------------------
(***************************************************************************)
(* libx264/message.c: the message a video encoder is given, and            *)
(* messageReadBit, the one place where the encoder takes the next bit of   *)
(* it.  The record stuMessage is one variable per field; length is the     *)
(* length of body, and width, height, frameNumber and progress, which no   *)
(* decision reads, are left out.                                           *)
(***************************************************************************)
EXTENDS Framing

VARIABLES
  body,                 \* the framed message, START_BITS first
  cursor,               \* how many bits of body have been handed out
  isSendingMessage,     \* the encoder should embed
  isInitialized,        \* messageInit has filled body
  gettingCapacity,      \* a dry run that only counts
  numberOfEmbededBits   \* reads since the counter was reset

messageVars == << body, cursor, isSendingMessage, isInitialized,
                  gettingCapacity, numberOfEmbededBits >>

\* What messageReadBit answers when the encoder is to leave a mode alone.
NoBit == 2

length == Len(body)

NoMessage ==
  /\ body = << >>
  /\ cursor = 0
  /\ isSendingMessage = FALSE
  /\ isInitialized = FALSE
  /\ gettingCapacity = FALSE
  /\ numberOfEmbededBits = 0

\* Mutant: the capacity run uses up the message.
ReadRandomConsumes(bit) ==
  /\ gettingCapacity
  /\ bit \in Bit
  /\ cursor' = cursor + 1
  /\ UNCHANGED << isSendingMessage, isInitialized >>

\* A capacity run embeds random bits and reads nothing.
ReadRandom(bit) ==
  /\ gettingCapacity
  /\ bit \in Bit
  /\ UNCHANGED << cursor, isSendingMessage, isInitialized >>

ReadIdle(bit) ==
  /\ ~gettingCapacity
  /\ ~isSendingMessage
  /\ bit = NoBit
  /\ UNCHANGED << cursor, isSendingMessage, isInitialized >>

\* Mutants: the first bit is left out; the end is announced one bit early.
ReadNextSkipsFirst(bit) ==
  /\ ~gettingCapacity
  /\ isSendingMessage
  /\ cursor < length
  /\ bit = body[IF cursor + 2 <= length THEN cursor + 2 ELSE length]
  /\ cursor' = cursor + 1
  /\ UNCHANGED << isSendingMessage, isInitialized >>

ReadNextStopsEarly(bit) ==
  /\ ~gettingCapacity
  /\ isSendingMessage
  /\ cursor < length
  /\ bit = body[cursor + 1]
  /\ cursor' = cursor + 1
  /\ isSendingMessage' = (cursor + 2 < length)
  /\ UNCHANGED isInitialized

ReadNext(bit) ==
  /\ ~gettingCapacity
  /\ isSendingMessage
  /\ cursor < length
  /\ bit = body[cursor + 1]
  /\ cursor' = cursor + 1
  /\ UNCHANGED << isSendingMessage, isInitialized >>

\* Mutant: the cursor moves on even when nothing is left.
ReadPastEndOverruns(bit) ==
  /\ ~gettingCapacity
  /\ isSendingMessage
  /\ cursor >= length
  /\ bit = NoBit
  /\ cursor' = cursor + 1
  /\ UNCHANGED << isSendingMessage, isInitialized >>

\* Only the read AFTER the last bit notices that the message is sent.
ReadPastEnd(bit) ==
  /\ ~gettingCapacity
  /\ isSendingMessage
  /\ cursor >= length
  /\ bit = NoBit
  /\ isSendingMessage' = FALSE
  /\ isInitialized' = FALSE
  /\ UNCHANGED cursor

messageReadBit(bit) ==
  /\ numberOfEmbededBits' = numberOfEmbededBits + 1
  /\ UNCHANGED << body, gettingCapacity >>
  /\ \/ ReadRandom(bit)
     \/ ReadIdle(bit)
     \/ ReadNext(bit)
     \/ ReadPastEnd(bit)

\* messageInit and the start pattern that Stegano::embed copies over its head.
messageInit(start, ext, msg) ==
  /\ body' = Frame(start, ext, msg)
  /\ cursor' = 0
  /\ numberOfEmbededBits' = 0
  /\ gettingCapacity' = FALSE
  /\ isInitialized' = TRUE
  /\ UNCHANGED isSendingMessage
=============================================================================
