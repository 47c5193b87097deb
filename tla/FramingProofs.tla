--------------------------- MODULE FramingProofs ---------------------------
(***************************************************************************)
(* What the field conversions of Framing do, for every width and every     *)
(* number: a field read back is the number written, and the characters     *)
(* read back are the characters written.                                   *)
(***************************************************************************)
EXTENDS Framing, Recursion

-----------------------------------------------------------------------------
(***************************************************************************)
(* RightShift halves its argument once for every place.                    *)
(***************************************************************************)
LEMMA RightShiftStep ==
  ASSUME NEW n \in Nat
  PROVE  /\ RightShift(n, 0) = n
         /\ \A k \in Nat : /\ RightShift(n, k) \in Nat
                           /\ RightShift(n, k + 1) = RightShift(n, k) \div 2
<1> DEFINE Halving(f) == f = [k \in Nat |-> IF k = 0 THEN n ELSE f[k - 1] \div 2]
           shifted == CHOOSE f : Halving(f)
           step == [p \in Nat \X Nat |-> p[2] \div 2]
<1>1. \E f : Halving(f)
  <2>1. step \in [Nat \X Nat -> Nat]
    OBVIOUS
  <2>2. PICK f \in [Nat -> Nat] :
          /\ f[0] = n
          /\ \A k \in Nat : f[k + 1] = step[<<k, f[k]>>]
    <3> HIDE DEF step
    <3>1. HasIteration(Nat, n, step)
      BY <2>1, Iteration
    <3> QED
      BY <3>1 DEF HasIteration
  <2>3. \A k \in Nat : k # 0 => f[k] = f[k - 1] \div 2
    <3> SUFFICES ASSUME NEW k \in Nat, k # 0
                 PROVE  f[k] = f[k - 1] \div 2
      OBVIOUS
    <3>1. k - 1 \in Nat /\ (k - 1) + 1 = k
      OBVIOUS
    <3> QED
      BY <2>2, <3>1
  <2>4. f = [k \in Nat |-> IF k = 0 THEN n ELSE f[k - 1] \div 2]
    BY <2>2, <2>3
  <2> QED
    BY <2>4
<1>2. Halving(shifted)
  BY <1>1
<1>3. \A k \in Nat : RightShift(n, k) = shifted[k]
  BY DEF RightShift
<1> HIDE DEF shifted
<1>4. shifted[0] = n
  BY <1>2
<1>5. \A k \in Nat : shifted[k + 1] = shifted[k] \div 2
  <2> SUFFICES ASSUME NEW k \in Nat
               PROVE  shifted[k + 1] = shifted[k] \div 2
    OBVIOUS
  <2>1. k + 1 \in Nat /\ k + 1 # 0 /\ (k + 1) - 1 = k
    OBVIOUS
  <2> QED
    BY <1>2, <2>1
<1>6. \A k \in Nat : shifted[k] \in Nat
  <2> DEFINE S == {k \in Nat : shifted[k] \in Nat}
  <2>1. 0 \in S
    BY <1>4
  <2>2. \A k \in Nat : k \in S => k + 1 \in S
    BY <1>5
  <2>3. \A k \in Nat : k \in S
    <3> HIDE DEF S
    <3> QED
      BY <2>1, <2>2, NatSetInduction
  <2> QED
    BY <2>3
<1> QED
  BY <1>3, <1>4, <1>5, <1>6

(***************************************************************************)
(* FromBits is computed from the left, doubling and adding; partial results*)
(* of a sequence of bits are natural numbers.                              *)
(***************************************************************************)
LEMMA FromBitsFold ==
  ASSUME NEW bits \in Seq(Nat)
  PROVE  \E value \in [0 .. Len(bits) -> Nat] :
           /\ value[0] = 0
           /\ \A i \in 1 .. Len(bits) : value[i] = 2 * value[i - 1] + bits[i]
           /\ FromBits(bits) = value[Len(bits)]
<1> DEFINE n == Len(bits)
           Folding(f) ==
             f = [i \in 0 .. n |-> IF i = 0 THEN 0 ELSE 2 * f[i - 1] + bits[i]]
           value == CHOOSE f : Folding(f)
           step == [p \in Nat \X Nat |->
                      IF p[1] < n THEN 2 * p[2] + bits[p[1] + 1] ELSE 0]
<1>1. n \in Nat /\ \A i \in 1 .. n : bits[i] \in Nat
  OBVIOUS
<1>2. PICK f \in [Nat -> Nat] :
        /\ f[0] = 0
        /\ \A i \in Nat : f[i + 1] = step[<<i, f[i]>>]
  <2>1. step \in [Nat \X Nat -> Nat]
    OBVIOUS
  <2> HIDE DEF step
  <2>2. 0 \in Nat
    OBVIOUS
  <2>3. HasIteration(Nat, 0, step)
    BY <2>1, <2>2, Iteration
  <2> QED
    BY <2>3 DEF HasIteration
<1>3. \A i \in 1 .. n : f[i] = 2 * f[i - 1] + bits[i]
  <2> SUFFICES ASSUME NEW i \in 1 .. n
               PROVE  f[i] = 2 * f[i - 1] + bits[i]
    OBVIOUS
  <2>1. i - 1 \in Nat /\ (i - 1) + 1 = i /\ i - 1 < n
    BY <1>1
  <2>2. f[i] = step[<<i - 1, f[i - 1]>>]
    BY <1>2, <2>1
  <2> QED
    BY <2>1, <2>2
<1> HIDE DEF n
<1> DEFINE g == [i \in 0 .. n |-> f[i]]
<1>4. Folding(g)
  <2>1. \A i \in 0 .. n : g[i] = IF i = 0 THEN 0 ELSE 2 * g[i - 1] + bits[i]
    BY <1>1, <1>2, <1>3
  <2> QED
    BY <2>1
<1>5. Folding(value)
  BY <1>4
<1>6. FromBits(bits) = value[n]
  BY DEF FromBits, n
<1> HIDE DEF value, g
<1>7. value[0] = 0 /\ \A i \in 1 .. n : value[i] = 2 * value[i - 1] + bits[i]
  <2>1. \A i \in 0 .. n :
          value[i] = IF i = 0 THEN 0 ELSE 2 * value[i - 1] + bits[i]
    BY <1>5
  <2>2. 0 \in 0 .. n /\ \A i \in 1 .. n : i \in 0 .. n /\ i # 0
    BY <1>1
  <2> QED
    BY <2>1, <2>2
<1>8. \A i \in Nat : i <= n => value[i] \in Nat
  <2> DEFINE S == {j \in Nat : j <= n => value[j] \in Nat}
  <2>1. 0 \in S
    BY <1>7
  <2>2. ASSUME NEW i \in Nat, i \in S
        PROVE  i + 1 \in S
    <3> SUFFICES ASSUME i + 1 <= n PROVE value[i + 1] \in Nat
      OBVIOUS
    <3>1. i + 1 \in 1 .. n /\ (i + 1) - 1 = i /\ value[i] \in Nat
      BY <1>1, <2>2
    <3>2. bits[i + 1] \in Nat
      BY <1>1, <3>1
    <3>3. value[i + 1] = 2 * value[i] + bits[i + 1]
      BY <1>7, <3>1
    <3>4. \A v, b \in Nat : 2 * v + b \in Nat
      OBVIOUS
    <3> QED
      BY <3>1, <3>2, <3>3, <3>4, Zenon
  <2>3. \A i \in Nat : i \in S
    <3> HIDE DEF S
    <3> QED
      BY <2>1, <2>2, NatSetInduction
  <2> QED
    BY <2>3
<1>9. value \in [0 .. n -> Nat]
  <2>1. value = [i \in 0 .. n |-> value[i]]
    BY <1>5
  <2> QED
    BY <1>1, <1>8, <2>1
<1> QED
  BY <1>6, <1>7, <1>9 DEF n

LEMMA FromBitsType ==
  \A bits \in Seq(Bit) : FromBits(bits) \in Nat
<1> SUFFICES ASSUME NEW bits \in Seq(Bit) PROVE FromBits(bits) \in Nat
  OBVIOUS
<1>1. bits \in Seq(Nat) /\ Len(bits) \in Nat
  BY DEF Bit
<1>2. PICK value \in [0 .. Len(bits) -> Nat] : FromBits(bits) = value[Len(bits)]
  BY <1>1, FromBitsFold
<1> QED
  BY <1>1, <1>2

(***************************************************************************)
(* A number that fits its field is what the field reads as.                *)
(***************************************************************************)
THEOREM FieldRoundTrip ==
  ASSUME NEW width \in Nat, NEW n, Fits(n, width)
  PROVE  FromBits(ToBits(n, width)) = n
<1> DEFINE bits == ToBits(n, width)
<1>0. n \in Nat /\ RightShift(n, width) = 0
  BY DEF Fits
<1>1. \A k \in Nat : /\ RightShift(n, k) \in Nat
                    /\ RightShift(n, k + 1) = RightShift(n, k) \div 2
  BY <1>0, RightShiftStep
<1>2. bits \in Seq(Nat) /\ Len(bits) = width
  BY <1>1 DEF ToBits
<1>3. \A i \in 1 .. width : bits[i] = RightShift(n, width - i) % 2
  BY DEF ToBits
<1> HIDE DEF bits
<1>4. PICK value \in [0 .. width -> Nat] :
        /\ value[0] = 0
        /\ \A i \in 1 .. width : value[i] = 2 * value[i - 1] + bits[i]
        /\ FromBits(bits) = value[width]
  BY <1>2, FromBitsFold
<1> DEFINE S == {i \in Nat : i <= width => value[i] = RightShift(n, width - i)}
<1>5. 0 \in S
  BY <1>0, <1>4
<1>6. ASSUME NEW i \in Nat, i \in S
      PROVE  i + 1 \in S
  <2> SUFFICES ASSUME i + 1 <= width
               PROVE  value[i + 1] = RightShift(n, width - (i + 1))
    OBVIOUS
  <2> DEFINE k == width - (i + 1)
  <2>1. k \in Nat /\ k + 1 = width - i /\ i + 1 \in 1 .. width /\ (i + 1) - 1 = i
    OBVIOUS
  <2>2. value[i] = RightShift(n, k) \div 2
    BY <1>1, <1>6, <2>1
  <2>3. bits[i + 1] = RightShift(n, k) % 2
    BY <1>3, <2>1
  <2>4. value[i + 1] = 2 * value[i] + bits[i + 1]
    BY <1>4, <2>1
  <2>5. RightShift(n, k) \in Nat
    BY <1>1, <2>1
  <2> QED
    BY <2>2, <2>3, <2>4, <2>5
<1>7. \A i \in Nat : i \in S
  <2> HIDE DEF S
  <2> QED
    BY <1>5, <1>6, NatSetInduction
<1>8. value[width] = RightShift(n, 0)
  BY <1>7
<1> QED
  BY <1>0, <1>4, <1>8, RightShiftStep DEF bits

-----------------------------------------------------------------------------
\* A function on 1 .. m is a sequence of length m.
LEMMA FunctionIsSequence ==
  ASSUME NEW T, NEW m \in Nat, NEW f \in [1 .. m -> T]
  PROVE  f \in Seq(T) /\ Len(f) = m
OBVIOUS

\* Where a bit of a character lies among the bits of all of them.
LEMMA PlaceOfBit ==
  ASSUME NEW n \in Nat, NEW c \in 1 .. n, NEW i \in 1 .. BYTE
  PROVE  LET place == (c - 1) * BYTE + i
         IN  /\ place \in 1 .. n * BYTE
             /\ (place - 1) \div BYTE = c - 1
             /\ (place - 1) % BYTE = i - 1
<1> USE WidthsAssumption
<1> DEFINE q == c - 1
           r == i - 1
<1>1. q \in Nat /\ q < n /\ r \in 0 .. BYTE - 1 /\ q * BYTE \in Nat
  OBVIOUS
<1>2. q * BYTE + r < n * BYTE
  BY <1>1
<1>3. (q * BYTE + r) \div BYTE = q /\ (q * BYTE + r) % BYTE = r
  BY <1>1
<1>4. n * BYTE \in Nat
  OBVIOUS
<1>5. q * BYTE + i - 1 = q * BYTE + r
  BY <1>1
<1> HIDE DEF q, r
<1>6. q * BYTE + i \in 1 .. n * BYTE
  BY <1>1, <1>2, <1>4, <1>5 DEF r
<1> QED
  BY <1>3, <1>5, <1>6 DEF q, r

(***************************************************************************)
(* Characters are laid out as bits, BYTE for each.                         *)
(***************************************************************************)
LEMMA ascii2BinaryType ==
  ASSUME NEW s \in Seq(Char)
  PROVE  /\ ascii2Binary(s) \in Seq(Bit)
         /\ Len(ascii2Binary(s)) = Len(s) * BYTE
<1> USE WidthsAssumption
<1> DEFINE n == Len(s)
           bits == ascii2Binary(s)
<1>1. n \in Nat /\ n * BYTE \in Nat
  OBVIOUS
<1>2. ASSUME NEW p \in 1 .. n * BYTE
      PROVE  bits[p] \in Bit
  <2> DEFINE c == ((p - 1) \div BYTE) + 1
             i == ((p - 1) % BYTE) + 1
  <2>1. (p - 1) \div BYTE \in Nat /\ (p - 1) \div BYTE < n
    BY <1>1
  <2>2. c \in 1 .. n /\ i \in 1 .. BYTE
    BY <1>1, <2>1
  <2>3. s[c] \in Nat
    BY <2>2 DEF Char, Fits
  <2>4. bits[p] = RightShift(s[c], BYTE - i) % 2
    BY <2>2 DEF ascii2Binary, ToBits
  <2>5. RightShift(s[c], BYTE - i) \in Nat
    <3>1. BYTE - i \in Nat
      BY <2>2
    <3> QED
      BY <2>3, <3>1, RightShiftStep
  <2> QED
    BY <2>4, <2>5 DEF Bit
<1>3. bits = [p \in 1 .. n * BYTE |-> bits[p]]
  BY DEF ascii2Binary
<1> HIDE DEF bits
<1>4. bits \in Seq(Bit) /\ Len(bits) = n * BYTE
  <2> DEFINE m == n * BYTE
  <2>1. m \in Nat /\ bits \in [1 .. m -> Bit]
    BY <1>1, <1>2, <1>3
  <2> HIDE DEF m
  <2>2. bits \in Seq(Bit) /\ Len(bits) = m
    BY <2>1, FunctionIsSequence
  <2> QED
    BY <2>2 DEF m
<1> QED
  BY <1>4 DEF bits

(***************************************************************************)
(* The characters read back are the characters written.                    *)
(***************************************************************************)
THEOREM CharsRoundTrip ==
  ASSUME NEW s \in Seq(Char)
  PROVE  binaryToAscii(ascii2Binary(s)) = s
<1> USE WidthsAssumption
<1> DEFINE n == Len(s)
           bits == ascii2Binary(s)
<1>1. n \in Nat /\ Len(bits) = n * BYTE
  BY ascii2BinaryType
<1>2. Len(bits) \div BYTE = n
  BY <1>1
<1>3. ASSUME NEW c \in 1 .. n
      PROVE  FromBits([i \in 1 .. BYTE |-> bits[((c - 1) * BYTE) + i]]) = s[c]
  <2>1. s[c] \in Char
    OBVIOUS
  <2>2. ASSUME NEW i \in 1 .. BYTE
        PROVE  bits[((c - 1) * BYTE) + i] = ToBits(s[c], BYTE)[i]
    <3> DEFINE place == (c - 1) * BYTE + i
    <3>1. /\ place \in 1 .. n * BYTE
          /\ (place - 1) \div BYTE = c - 1
          /\ (place - 1) % BYTE = i - 1
      BY <1>1, PlaceOfBit
    <3> HIDE DEF place
    <3>2. bits[place] = ToBits(s[c], BYTE)[i]
      BY <3>1 DEF ascii2Binary
    <3> QED
      BY <3>2 DEF place
  <2>3. [i \in 1 .. BYTE |-> bits[((c - 1) * BYTE) + i]] = ToBits(s[c], BYTE)
    BY <2>2 DEF ToBits
  <2> QED
    BY <2>1, <2>3, FieldRoundTrip DEF Char
<1>4. binaryToAscii(bits) = [c \in 1 .. n |-> s[c]]
  <2> HIDE DEF bits
  <2> QED
    BY <1>2, <1>3 DEF binaryToAscii
<1>5. s = [c \in 1 .. n |-> s[c]]
  OBVIOUS
<1> QED
  BY <1>4, <1>5

-----------------------------------------------------------------------------
\* A field's bits.
LEMMA ToBitsType ==
  ASSUME NEW n \in Nat, NEW width \in Nat
  PROVE  ToBits(n, width) \in Seq(Bit) /\ Len(ToBits(n, width)) = width
<1>1. ASSUME NEW i \in 1 .. width
      PROVE  RightShift(n, width - i) % 2 \in Bit
  <2>1. width - i \in Nat
    OBVIOUS
  <2>2. RightShift(n, width - i) \in Nat
    BY <2>1, RightShiftStep
  <2> QED
    BY <2>2 DEF Bit
<1> QED
  BY <1>1, FunctionIsSequence DEF ToBits

\* Where the parts of a concatenation lie.
IsJoin(a, b, c) ==
  /\ c \in Seq(Bit)
  /\ Len(c) = Len(a) + Len(b)
  /\ \A i \in 1 .. Len(a) : c[i] = a[i]
  /\ \A i \in 1 .. Len(b) : c[Len(a) + i] = b[i]

LEMMA Join ==
  \A a, b \in Seq(Bit) : IsJoin(a, b, a \o b)
BY DEF IsJoin

(***************************************************************************)
(* The layout of a frame: its type, its length, and which field each of    *)
(* its bits belongs to.                                                    *)
(***************************************************************************)
LaidOut(start, ext, msg) ==
  LET frame == Frame(start, ext, msg)
      e == START_BITS_COUNT + EXTENSION_BITS_COUNT
      x == e + Len(ext) * BYTE
      m == x + MESSAGE_SIZE_BITS_COUNT
  IN  /\ frame \in Seq(Bit)
      /\ Len(frame) = m + Len(msg) * BYTE
      /\ \A i \in 1 .. START_BITS_COUNT : frame[i] = start[i]
      /\ \A i \in 1 .. EXTENSION_BITS_COUNT :
           frame[START_BITS_COUNT + i] = ToBits(Len(ext), EXTENSION_BITS_COUNT)[i]
      /\ \A i \in 1 .. Len(ext) * BYTE : frame[e + i] = ascii2Binary(ext)[i]
      /\ \A i \in 1 .. MESSAGE_SIZE_BITS_COUNT :
           frame[x + i] = ToBits(Len(msg), MESSAGE_SIZE_BITS_COUNT)[i]
      /\ \A i \in 1 .. Len(msg) * BYTE : frame[m + i] = ascii2Binary(msg)[i]

THEOREM FrameLayout ==
  \A start \in [1 .. START_BITS_COUNT -> Bit], ext, msg \in Seq(Char) :
    LaidOut(start, ext, msg)
<1> SUFFICES ASSUME NEW start \in [1 .. START_BITS_COUNT -> Bit],
                    NEW ext \in Seq(Char), NEW msg \in Seq(Char)
             PROVE  LaidOut(start, ext, msg)
  OBVIOUS
<1> DEFINE extLen == ToBits(Len(ext), EXTENSION_BITS_COUNT)
           extBits == ascii2Binary(ext)
           msgLen == ToBits(Len(msg), MESSAGE_SIZE_BITS_COUNT)
           msgBits == ascii2Binary(msg)
           head == extLen \o extBits
           header == head \o msgLen
           front == start \o header
           E == EXTENSION_BITS_COUNT
           X == Len(ext) * BYTE
           Z == MESSAGE_SIZE_BITS_COUNT
           M == Len(msg) * BYTE
<1>1. /\ START_BITS_COUNT \in Nat /\ E \in Nat /\ Z \in Nat
      /\ Len(ext) \in Nat /\ Len(msg) \in Nat /\ X \in Nat /\ M \in Nat
  BY WidthsAssumption
<1>2. start \in Seq(Bit) /\ Len(start) = START_BITS_COUNT
  BY <1>1, FunctionIsSequence
<1>3. extLen \in Seq(Bit) /\ Len(extLen) = E /\ msgLen \in Seq(Bit) /\ Len(msgLen) = Z
  BY <1>1, ToBitsType
<1>4. extBits \in Seq(Bit) /\ Len(extBits) = X /\ msgBits \in Seq(Bit) /\ Len(msgBits) = M
  BY ascii2BinaryType
<1>5. Frame(start, ext, msg) = front \o msgBits
  <2>1. Header(ext, msg) = header
    BY DEF Header
  <2> HIDE DEF header, msgBits
  <2> QED
    BY <2>1 DEF Frame, msgBits
<1> HIDE DEF extLen, extBits, msgLen, msgBits, head, header, front, E, X, Z, M
<1>6. /\ head \in Seq(Bit) /\ Len(head) = E + X
      /\ \A i \in 1 .. E : head[i] = extLen[i]
      /\ \A i \in 1 .. X : head[E + i] = extBits[i]
  <2>1. IsJoin(extLen, extBits, head)
    BY <1>3, <1>4, Join DEF head
  <2> QED
    BY <1>3, <1>4, <2>1 DEF IsJoin
<1>7. /\ header \in Seq(Bit) /\ Len(header) = E + X + Z
      /\ \A i \in 1 .. E + X : header[i] = head[i]
      /\ \A i \in 1 .. Z : header[E + X + i] = msgLen[i]
  <2>1. IsJoin(head, msgLen, header)
    BY <1>3, <1>6, Join DEF header
  <2> QED
    BY <1>3, <1>6, <2>1 DEF IsJoin
<1>8. /\ front \in Seq(Bit) /\ Len(front) = START_BITS_COUNT + (E + X + Z)
      /\ \A i \in 1 .. START_BITS_COUNT : front[i] = start[i]
      /\ \A i \in 1 .. E + X + Z : front[START_BITS_COUNT + i] = header[i]
  <2>1. IsJoin(start, header, front)
    BY <1>2, <1>7, Join DEF front
  <2> QED
    BY <1>2, <1>7, <2>1 DEF IsJoin
<1> DEFINE frame == front \o msgBits
<1>9. /\ frame \in Seq(Bit) /\ Len(frame) = START_BITS_COUNT + (E + X + Z) + M
      /\ \A i \in 1 .. START_BITS_COUNT + (E + X + Z) : frame[i] = front[i]
      /\ \A i \in 1 .. M : frame[START_BITS_COUNT + (E + X + Z) + i] = msgBits[i]
  <2>1. IsJoin(front, msgBits, frame)
    BY <1>4, <1>8, Join DEF frame
  <2> QED
    BY <1>4, <1>8, <2>1 DEF IsJoin
<1> HIDE DEF frame
<1>10. \A i \in 1 .. START_BITS_COUNT : frame[i] = start[i]
  BY <1>1, <1>8, <1>9
<1>11. \A i \in 1 .. E + X + Z : frame[START_BITS_COUNT + i] = header[i]
  BY <1>1, <1>8, <1>9
<1>12. \A i \in 1 .. E : frame[START_BITS_COUNT + i] = extLen[i]
  BY <1>1, <1>6, <1>7, <1>11
<1>13. \A i \in 1 .. X : frame[START_BITS_COUNT + E + i] = extBits[i]
  <2> SUFFICES ASSUME NEW i \in 1 .. X
               PROVE  frame[START_BITS_COUNT + E + i] = extBits[i]
    OBVIOUS
  <2>1. E + i \in 1 .. E + X /\ E + i \in 1 .. E + X + Z
    BY <1>1
  <2>2. START_BITS_COUNT + (E + i) = START_BITS_COUNT + E + i
    BY <1>1
  <2> QED
    BY <1>6, <1>7, <1>11, <2>1, <2>2
<1>14. \A i \in 1 .. Z : frame[START_BITS_COUNT + E + X + i] = msgLen[i]
  <2> SUFFICES ASSUME NEW i \in 1 .. Z
               PROVE  frame[START_BITS_COUNT + E + X + i] = msgLen[i]
    OBVIOUS
  <2>1. E + X + i \in 1 .. E + X + Z
    BY <1>1
  <2>2. START_BITS_COUNT + (E + X + i) = START_BITS_COUNT + E + X + i
    BY <1>1
  <2> QED
    BY <1>7, <1>11, <2>1, <2>2
<1>15. START_BITS_COUNT + (E + X + Z) = START_BITS_COUNT + E + X + Z
  BY <1>1
<1>16. Frame(start, ext, msg) = frame
  BY <1>5 DEF frame
<1> QED
  BY <1>9, <1>10, <1>12, <1>13, <1>14, <1>15, <1>16
     DEF LaidOut, extLen, extBits, msgLen, msgBits, E, X, Z, M
=============================================================================
