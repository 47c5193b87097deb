------------------------------ MODULE Framing ------------------------------
(***************************************************************************)
(* The bit layout of an embedded message, as libvideostegano writes it     *)
(* (Private/hlpFunctions.cpp) and as the decoder in ffmpeg reads it back   *)
(* (libavcodec/decodeMessage.c, Private/clsPrivateDestegano.cpp):          *)
(*                                                                         *)
(*   start bits | extension length | extension | message size | message    *)
(*                                                                         *)
(* A file's extension and contents are sequences of characters, a          *)
(* character is a number of BYTE bits, and every field is written most     *)
(* significant bit first.  The field widths and the range of a C int are   *)
(* parameters.                                                             *)
(***************************************************************************)
EXTENDS Integers, Sequences

CONSTANTS
  START_BITS_COUNT,         \* width of the start pattern (32 in the code)
  EXTENSION_BITS_COUNT,     \* width of the extension length (8)
  MESSAGE_SIZE_BITS_COUNT,  \* width of the message size (32)
  BYTE,                     \* bits of a character (8)
  INT_MAX                   \* the largest C int (2^31 - 1)

ASSUME WidthsAssumption ==
  /\ START_BITS_COUNT \in Nat \ {0}
  /\ EXTENSION_BITS_COUNT \in Nat \ {0}
  /\ MESSAGE_SIZE_BITS_COUNT \in Nat \ {0}
  /\ BYTE \in Nat \ {0, 1}
  /\ INT_MAX \in Nat \ {0}

Bit == {0, 1}

\* n >> places, for n >= 0
RightShift(n, places) ==
  LET shifted[k \in Nat] == IF k = 0 THEN n ELSE shifted[k - 1] \div 2
  IN  shifted[places]

\* The numbers a field of so many bits can hold, and the characters.
Fits(n, width) == n \in Nat /\ RightShift(n, width) = 0

Char == {c \in Nat : Fits(c, BYTE)}

\* (n >> (width - i)) & 1 for each position i of a field
ToBits(n, width) == [i \in 1 .. width |-> RightShift(n, width - i) % 2]

\* the sum of bits[i] * pow(2, length - i)
FromBits(bits) ==
  LET value[i \in 0 .. Len(bits)] ==
        IF i = 0 THEN 0 ELSE 2 * value[i - 1] + bits[i]
  IN  value[Len(bits)]

\* Every character as BYTE bits, in order.
ascii2Binary(chars) ==
  [i \in 1 .. Len(chars) * BYTE |->
     ToBits(chars[((i - 1) \div BYTE) + 1], BYTE)[((i - 1) % BYTE) + 1]]

\* The inverse: each group of BYTE bits as a character.
binaryToAscii(bits) ==
  [c \in 1 .. Len(bits) \div BYTE |->
     FromBits([i \in 1 .. BYTE |-> bits[(c - 1) * BYTE + i]])]

\* What messageInit lays out behind the start pattern.
Header(ext, msg) ==
  ToBits(Len(ext), EXTENSION_BITS_COUNT)
    \o ascii2Binary(ext) \o ToBits(Len(msg), MESSAGE_SIZE_BITS_COUNT)

Frame(start, ext, msg) == start \o Header(ext, msg) \o ascii2Binary(msg)

(***************************************************************************)
(* The decoder keeps a length in an int: messageLength = size; then        *)
(* messageLength *= BYTE.  The conversion of a too large double and the    *)
(* product both wrap on the machines this runs on, so the result is the    *)
(* two's complement number.                                                *)
(***************************************************************************)
WrapInt(n) ==
  IF n <= INT_MAX THEN n
  ELSE ((n + INT_MAX + 1) % (2 * (INT_MAX + 1))) - (INT_MAX + 1)

DecodedLength(sizeBits) == WrapInt(FromBits(sizeBits) * BYTE)
=============================================================================
