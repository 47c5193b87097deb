------------------------- MODULE StreamSourceProofs -------------------------
(***************************************************************************)
(* What StreamSource promises for any number of sources, in any order, any *)
(* video, any message and any width of the frame counter.                  *)
(*   - Unless a capacity run has filled the queue before, every NAL unit   *)
(*     that waits in the encoder's queue, and every one that is handed     *)
(*     out, still is what was encoded.                                     *)
(*   - Whatever has filled the queue, and as long as no unit is too large  *)
(*     for the framer, a listener goes on with the next bit of the message *)
(*     where it stands.                                                    *)
(***************************************************************************)
EXTENDS StreamSource, Recursion

IntactUnit ==
  [kind : {"SPS", "PPS", "SEI", "slice", "empty"}, picture : 0 .. Pictures,
   bits : Seq(0 .. length), intact : {TRUE}]

MessageInv == cursor \in 0 .. length /\ isSendingMessage \in BOOLEAN

QueueInv ==
  /\ output_queue \in Seq(IntactUnit)
  /\ delivered \in IntactUnit
  /\ packet \in 1 .. Pictures + 1

-----------------------------------------------------------------------------
(* Units *)

LEMMA FunctionIsSeq ==
  ASSUME NEW S, NEW n \in Nat, NEW f \in [1 .. n -> S]
  PROVE  f \in Seq(S)
OBVIOUS

LEMMA PrefixType ==
  ASSUME NEW S, NEW s \in Seq(S), NEW n \in 0 .. Len(s)
  PROVE  SubSeq(s, 1, n) \in Seq(S)
OBVIOUS

LEMMA BitsForType ==
  ASSUME NEW n \in Nat, NEW at \in 0 .. length, NEW sending \in BOOLEAN
  PROVE  BitsFor(n, at, sending) \in Seq(0 .. length)
<1>1. length \in Nat
  BY StreamAssumption
<1>2. ASSUME NEW i \in 1 .. n
      PROVE  (IF sending /\ at + i <= length THEN at + i ELSE Noise) \in 0 .. length
  BY <1>1, <1>2 DEF Noise
<1>3. BitsFor(n, at, sending) \in [1 .. n -> 0 .. length]
  BY <1>2 DEF BitsFor
<1> HIDE DEF Noise
<1>4. QED
  BY ONLY <1>3, FunctionIsSeq, n \in Nat

LEMMA SliceType ==
  ASSUME NEW p \in 0 .. Pictures, NEW bits \in Seq(0 .. length)
  PROVE  Slice(p, bits) \in IntactUnit
BY DEF Slice, IntactUnit

LEMMA HeaderType ==
  ASSUME NEW p \in 0 .. Pictures, NEW kind \in {"SPS", "PPS", "SEI"}
  PROVE  Header(kind, p) \in IntactUnit
<1>1. << >> \in Seq(0 .. length)
  OBVIOUS
<1>2. QED
  BY <1>1 DEF Header, IntactUnit

LEMMA EmptyUnitType == EmptyUnit \in IntactUnit
<1>1. << >> \in Seq(0 .. length) /\ 0 \in 0 .. Pictures
  BY StreamAssumption
<1>2. QED
  BY <1>1 DEF EmptyUnit, IntactUnit

LEMMA UnitsOfType ==
  ASSUME NEW p \in 0 .. Pictures, NEW isKey \in BOOLEAN,
         NEW bits \in Seq(0 .. length)
  PROVE  UnitsOf(p, isKey, bits) \in Seq(IntactUnit) /\ UnitsOf(p, isKey, bits) # << >>
<1>1. Slice(p, bits) \in IntactUnit
  BY SliceType
<1>2. /\ Header("SPS", p) \in IntactUnit
      /\ Header("PPS", p) \in IntactUnit
      /\ Header("SEI", p) \in IntactUnit
  BY HeaderType
<1>3. << Slice(p, bits) >> \in Seq(IntactUnit) /\ Len(<< Slice(p, bits) >>) = 1
  BY <1>1
<1>4. << Header("SPS", p), Header("PPS", p), Header("SEI", p) >> \in Seq(IntactUnit)
  BY <1>2
<1>5. << >> \in Seq(IntactUnit)
  OBVIOUS
<1>6. ASSUME NEW s \in Seq(IntactUnit)
      PROVE  /\ s \o << Slice(p, bits) >> \in Seq(IntactUnit)
             /\ s \o << Slice(p, bits) >> # << >>
  <2>1. Len(s \o << Slice(p, bits) >>) = Len(s) + 1 /\ Len(s) \in Nat
    BY <1>3
  <2>2. QED
    BY <2>1, <1>3
<1>7. QED
  BY <1>4, <1>5, <1>6 DEF UnitsOf

LEMMA NothingOverwritten == Overwritten(<< >>) = << >>
BY DEF Overwritten

LEMMA TruncatedType ==
  ASSUME NEW u \in IntactUnit
  PROVE  Truncated(u) \in IntactUnit
<1>1. u.bits \in Seq(0 .. length) /\ Len(u.bits) \in Nat /\ fMaxSize \in Nat
  BY StreamAssumption DEF IntactUnit
<1> DEFINE n == IF Len(u.bits) < fMaxSize THEN Len(u.bits) ELSE fMaxSize
<1>2. n \in 0 .. Len(u.bits)
  BY <1>1
<1>3. SubSeq(u.bits, 1, n) \in Seq(0 .. length)
  <2> HIDE DEF n
  <2>1. QED
    BY <1>1, <1>2, PrefixType
<1>4. Truncated(u) = [u EXCEPT !.bits = SubSeq(u.bits, 1, n)]
  BY DEF Truncated
<1>5. QED
  BY <1>3, <1>4 DEF IntactUnit

LEMMA Deliver ==
  ASSUME NEW u \in IntactUnit, NEW listeners, deliverFrame(u, listeners)
  PROVE  delivered' \in IntactUnit
BY TruncatedType DEF deliverFrame

LEMMA HeadAndTail ==
  ASSUME NEW S, NEW s \in Seq(S), s # << >>
  PROVE  Head(s) \in S /\ Tail(s) \in Seq(S)
OBVIOUS

-----------------------------------------------------------------------------
(* Steps *)

\* What is encoded for an empty queue is intact, and the message stays one.
LEMMA EncodeStep ==
  ASSUME output_queue = << >>, NEW picture \in 0 .. Pictures, NEW since,
         NEW at \in 0 .. length, NEW sending \in BOOLEAN, NEW listeners,
         encodeFrame(picture, since, at, sending, listeners)
  PROVE  /\ output_queue' \in Seq(IntactUnit)
         /\ delivered' \in IntactUnit
         /\ MessageInv'
<1>1. PICK n \in Carriers[picture], isKey \in BOOLEAN :
        /\ output_queue' = Tail(Overwritten(output_queue)
                             \o UnitsOf(picture, isKey, BitsFor(n, at, sending)))
        /\ deliverFrame(Head(Overwritten(output_queue)
                             \o UnitsOf(picture, isKey, BitsFor(n, at, sending))),
                        listeners)
        /\ cursor' = IF sending THEN CursorAfter(n, at) ELSE at
        /\ isSendingMessage' = (sending /\ at + n <= length)
  BY DEF encodeFrame
<1>2. n \in Nat /\ length \in Nat
  BY StreamAssumption
<1> DEFINE units == UnitsOf(picture, isKey, BitsFor(n, at, sending))
<1>3. BitsFor(n, at, sending) \in Seq(0 .. length)
  BY <1>2, BitsForType
<1>4. units \in Seq(IntactUnit) /\ units # << >>
  BY <1>3, UnitsOfType
<1>5. Overwritten(output_queue) \o units = units
  BY <1>4, NothingOverwritten
<1>6. /\ output_queue' = Tail(units)
      /\ deliverFrame(Head(units), listeners)
  BY <1>1, <1>5
<1> HIDE DEF units
<1>7. Head(units) \in IntactUnit /\ Tail(units) \in Seq(IntactUnit)
  BY <1>4, HeadAndTail
<1>8. output_queue' \in Seq(IntactUnit) /\ delivered' \in IntactUnit
  BY <1>6, <1>7, Deliver
<1>9. MessageInv'
  BY <1>1, <1>2 DEF MessageInv, CursorAfter
<1>10. QED
  BY <1>8, <1>9

LEMMA GetNextFrameStep ==
  ASSUME MessageInv, QueueInv, NEW s \in Source, NEW listeners,
         doGetNextFrame(s, listeners)
  PROVE  MessageInv' /\ QueueInv'
<1>1. Pictures \in Nat \ {0} /\ length \in Nat
  BY StreamAssumption
<1>2. 0 \in 0 .. length /\ 0 \in 0 .. Pictures /\ 1 \in 0 .. Pictures
  BY <1>1
<1>3. cursor \in 0 .. length /\ isSendingMessage \in BOOLEAN
      /\ packet \in 1 .. Pictures + 1
  BY DEF MessageInv, QueueInv
<1>4. CASE FromQueue(s, listeners)
  <2>1. /\ output_queue # << >> /\ output_queue' = Tail(output_queue)
        /\ deliverFrame(Head(output_queue), listeners)
        /\ UNCHANGED << packet, cursor, isSendingMessage >>
    BY <1>4 DEF FromQueue, messageVars
  <2>2. Head(output_queue) \in IntactUnit /\ Tail(output_queue) \in Seq(IntactUnit)
    BY <2>1, HeadAndTail DEF QueueInv
  <2>3. delivered' \in IntactUnit
    BY <2>1, <2>2, Deliver
  <2>4. QED
    BY <2>1, <2>2, <2>3, <1>3 DEF MessageInv, QueueInv
<1>5. CASE WhitePicture(s, listeners)
  <2>1. /\ output_queue = << >> /\ packet' = packet
        /\ encodeFrame(0, sinceKey, cursor, isSendingMessage, listeners)
    BY <1>5 DEF WhitePicture
  <2>2. QED
    BY <2>1, <1>2, <1>3, EncodeStep DEF QueueInv
<1>6. CASE BeginVideo(s, listeners)
  <2>1. /\ output_queue = << >> /\ packet' = 2
        /\ encodeFrame(1, KEYINT, cursor, TRUE, listeners)
    BY <1>6 DEF BeginVideo
  <2>2. 2 \in 1 .. Pictures + 1
    BY <1>1
  <2>3. QED
    BY <2>1, <2>2, <1>2, <1>3, EncodeStep DEF QueueInv
<1>7. CASE NextPicture(s, listeners)
  <2> DEFINE from == IF isSendingMessage THEN cursor ELSE 0
  <2>1. /\ output_queue = << >> /\ packet <= Pictures /\ packet' = packet + 1
        /\ encodeFrame(packet, sinceKey, from, TRUE, listeners)
    BY <1>7 DEF NextPicture
  <2>2. from \in 0 .. length
    BY <1>2, <1>3
  <2>3. packet \in 0 .. Pictures /\ packet + 1 \in 1 .. Pictures + 1
    BY <2>1, <1>1, <1>3
  <2> HIDE DEF from
  <2>4. QED
    BY <2>1, <2>2, <2>3, EncodeStep DEF QueueInv
<1>8. CASE EndOfVideo(s, listeners)
  <2>1. /\ packet' = 1 /\ cursor' = 0 /\ isSendingMessage' = TRUE
        /\ deliverFrame(EmptyUnit, listeners)
        /\ output_queue' = output_queue
    BY <1>8 DEF EndOfVideo
  <2>2. delivered' \in IntactUnit
    BY <2>1, EmptyUnitType, Deliver
  <2>3. 1 \in 1 .. Pictures + 1
    BY <1>1
  <2>4. QED
    BY <2>1, <2>2, <2>3, <1>2 DEF MessageInv, QueueInv
<1>9. QED
  BY <1>4, <1>5, <1>6, <1>7, <1>8 DEF doGetNextFrame

LEMMA StreamInit_Inv ==
  ASSUME Measured \subseteq {FALSE}
  PROVE  StreamInit => MessageInv /\ QueueInv
<1>1. SUFFICES ASSUME StreamInit PROVE MessageInv /\ QueueInv
  OBVIOUS
<1>2. output_queue = << >> /\ packet = 1 /\ cursor = 0
      /\ isSendingMessage = FALSE /\ delivered = EmptyUnit
  BY <1>1 DEF StreamInit
<1>3. Pictures \in Nat \ {0} /\ length \in Nat
  BY StreamAssumption
<1>4. << >> \in Seq(IntactUnit)
  OBVIOUS
<1>5. cursor \in 0 .. length /\ packet \in 1 .. Pictures + 1
  <2>1. cursor = 0 /\ packet = 1
    BY <1>2
  <2>2. QED
    BY <2>1, <1>3
<1>6. isSendingMessage \in BOOLEAN
  BY <1>2
<1>7. QED
  BY <1>2, <1>4, <1>5, <1>6, EmptyUnitType DEF MessageInv, QueueInv

LEMMA StreamStep_Inv ==
  MessageInv /\ QueueInv /\ [StreamNext]_streamVars => MessageInv' /\ QueueInv'
<1>1. SUFFICES ASSUME MessageInv, QueueInv, [StreamNext]_streamVars
               PROVE  MessageInv' /\ QueueInv'
  OBVIOUS
<1>2. ASSUME UNCHANGED << output_queue, delivered, packet, cursor, isSendingMessage >>
      PROVE  MessageInv' /\ QueueInv'
  BY <1>1, <1>2 DEF MessageInv, QueueInv
<1>3. ASSUME NEW s \in Source, Begin(s) PROVE MessageInv' /\ QueueInv'
  BY <1>2, <1>3 DEF Begin, encoderVars, messageVars
<1>4. ASSUME NEW s \in Source, Read(s) PROVE MessageInv' /\ QueueInv'
  BY <1>1, <1>4, GetNextFrameStep DEF Read
<1>5. ASSUME NEW s \in Source, Leave(s) PROVE MessageInv' /\ QueueInv'
  BY <1>2, <1>5 DEF Leave, encoderVars, messageVars
<1>6. CASE UNCHANGED streamVars
  BY <1>2, <1>6 DEF streamVars, encoderVars, messageVars
<1>7. QED
  BY <1>1, <1>3, <1>4, <1>5, <1>6 DEF StreamNext

LEMMA InvImpliesIntact == QueueInv => UnitsIntact /\ StoredUnitsAreDelivered
<1>1. SUFFICES ASSUME QueueInv PROVE UnitsIntact /\ StoredUnitsAreDelivered
  OBVIOUS
<1>2. \A i \in DOMAIN output_queue : output_queue[i] \in IntactUnit
  BY <1>1 DEF QueueInv
<1>3. UnitsIntact
  BY <1>2 DEF UnitsIntact, IntactUnit
<1>4. StoredUnitsAreDelivered
  BY <1>1 DEF QueueInv, StoredUnitsAreDelivered, IntactUnit
<1>5. QED
  BY <1>3, <1>4

\* A stream that no capacity run has preceded: doGetNextFrame never encodes a
\* picture over units that wait to be handed out, so every unit waiting, and
\* every unit handed out, is the one that was encoded.
THEOREM UnitsIntactTheorem ==
  ASSUME Measured \subseteq {FALSE}
  PROVE  StreamSpec => [](UnitsIntact /\ StoredUnitsAreDelivered)
<1>1. StreamInit => MessageInv /\ QueueInv
  BY StreamInit_Inv
<1>2. MessageInv /\ QueueInv /\ [StreamNext]_streamVars => MessageInv' /\ QueueInv'
  BY StreamStep_Inv
<1>3. QueueInv => UnitsIntact /\ StoredUnitsAreDelivered
  BY InvImpliesIntact
<1>4. QED
  BY <1>1, <1>2, <1>3, PTL DEF StreamSpec

-----------------------------------------------------------------------------
(* What comes in with a unit *)

\* A listener's count after each carrier: the equations of HeardAfter.
LEMMA Hearing ==
  ASSUME NEW count \in 0 .. length, NEW bits \in Seq(0 .. length)
  PROVE  /\ HeardAfter(count, bits) \in [0 .. Len(bits) -> 0 .. length]
         /\ HeardAfter(count, bits)[0] = count
         /\ \A k \in 1 .. Len(bits) : HeardAfter(count, bits)[k] =
              Hear(HeardAfter(count, bits)[k - 1], bits[k])
<1> DEFINE n == Len(bits)
           S == 0 .. length
           Counts(f) == f = [k \in 0 .. n |-> IF k = 0 THEN count
                                              ELSE Hear(f[k - 1], bits[k])]
           step == [p \in (1 .. n) \X S |-> Hear(p[2], bits[p[1]])]
<1>1. length \in Nat \ {0} /\ n \in Nat /\ \A k \in 1 .. n : bits[k] \in S
  BY StreamAssumption
<1>2. \A h, b \in S : Hear(h, b) \in S
  BY <1>1 DEF Hear
<1>3. step \in [(1 .. n) \X S -> S]
  BY <1>1, <1>2
<1>4. \A i \in 1 .. n, h \in S : step[<<i, h>>] = Hear(h, bits[i])
  OBVIOUS
<1> HIDE DEF n, step, S
<1>5. PICK f \in [0 .. n -> S] :
        /\ f[0] = count
        /\ \A i \in 1 .. n : f[i] = step[<<i, f[i - 1]>>]
  <2>1. count \in S
    BY DEF S
  <2> QED
    <3>1. HasRecursion(S, count, n, step)
      BY <1>1, <1>3, <2>1, FiniteRecursion
    <3> QED
      BY <3>1 DEF HasRecursion
<1>6. Counts(f)
  <2>1. ASSUME NEW k \in 0 .. n, k # 0
        PROVE  f[k] = Hear(f[k - 1], bits[k])
    <3>1. k \in 1 .. n /\ k - 1 \in 0 .. n
      BY <1>1, <2>1
    <3>2. f[k - 1] \in S
      BY <1>5, <3>1
    <3> QED
      BY <1>4, <1>5, <3>1, <3>2
  <2> QED
    BY <1>5, <2>1
<1>7. Counts(HeardAfter(count, bits))
  <2>1. Counts(CHOOSE g : Counts(g))
    <3> HIDE DEF Counts
    <3> QED
      BY <1>6
  <2>2. HeardAfter(count, bits) = CHOOSE g : Counts(g)
    BY DEF HeardAfter, n
  <2> HIDE DEF Counts
  <2> QED
    BY <2>1, <2>2
<1> DEFINE after == HeardAfter(count, bits)
<1>8. /\ after = [k \in 0 .. n |-> after[k]]
      /\ after[0] = count
      /\ \A k \in 1 .. n : after[k] = Hear(after[k - 1], bits[k])
  <2> HIDE DEF after
  <2>1. Counts(after)
    BY <1>7 DEF after
  <2>2. 0 \in 0 .. n /\ \A k \in 1 .. n : k \in 0 .. n /\ k # 0
    BY <1>1
  <2> QED
    BY <2>1, <2>2
<1> HIDE DEF after, Counts
<1>9. \A k \in Nat : k \in {i \in Nat : i <= n => after[i] \in S}
  <2> DEFINE T == {i \in Nat : i <= n => after[i] \in S}
  <2>1. 0 \in T
    BY <1>8 DEF S
  <2>2. ASSUME NEW i \in Nat, i \in T
        PROVE  i + 1 \in T
    <3> SUFFICES ASSUME i + 1 <= n PROVE after[i + 1] \in S
      OBVIOUS
    <3>1. i + 1 \in 1 .. n /\ (i + 1) - 1 = i /\ after[i] \in S
      BY <1>1, <2>2
    <3> QED
      BY <1>1, <1>2, <1>8, <3>1
  <2> HIDE DEF T
  <2>3. \A i \in Nat : i \in T
    BY <2>1, <2>2, NatSetInduction
  <2> QED
    BY <2>3 DEF T
<1>10. after \in [0 .. n -> S]
  BY <1>1, <1>8, <1>9
<1> QED
  BY <1>8, <1>10 DEF after, n, S

-----------------------------------------------------------------------------
(* Types *)

LEMMA IntactUnits ==
  IntactUnit \subseteq Unit /\ Seq(IntactUnit) \subseteq Seq(Unit)
<1>1. IntactUnit \subseteq Unit
  BY DEF IntactUnit, Unit
<1> QED
  BY <1>1

LEMMA TruncatedUnit ==
  ASSUME NEW u \in Unit
  PROVE  Truncated(u) \in Unit
<1>1. u.bits \in Seq(0 .. length) /\ Len(u.bits) \in Nat /\ fMaxSize \in Nat
  BY StreamAssumption DEF Unit
<1> DEFINE n == IF Len(u.bits) < fMaxSize THEN Len(u.bits) ELSE fMaxSize
<1>2. n \in 0 .. Len(u.bits)
  BY <1>1
<1>3. SubSeq(u.bits, 1, n) \in Seq(0 .. length)
  <2> HIDE DEF n
  <2> QED
    BY <1>1, <1>2, PrefixType
<1>4. Truncated(u) = [u EXCEPT !.bits = SubSeq(u.bits, 1, n)]
  BY DEF Truncated
<1> QED
  BY <1>3, <1>4 DEF Unit

\* What the other variables of a delivery become.
ListenersOK == heard \in [Listener -> 0 .. length] /\ complete \in [Listener -> BOOLEAN]

LEMMA DeliverTypes ==
  ASSUME ListenersOK, NEW u \in Unit, NEW listeners, deliverFrame(u, listeners)
  PROVE  delivered' \in Unit /\ ListenersOK'
<1> DEFINE bits == Truncated(u).bits
<1>1. Truncated(u) \in Unit /\ bits \in Seq(0 .. length) /\ Len(bits) \in Nat
  BY TruncatedUnit DEF Unit
<1>2. \A count \in 0 .. length : HeardWith(count, bits) \in 0 .. length
  BY <1>1, Hearing DEF HeardWith
<1>3. /\ delivered' = Truncated(u)
      /\ heard' = [l \in Listener |->
           IF l \in listeners THEN HeardWith(heard[l], bits) ELSE heard[l]]
      /\ complete' = [l \in Listener |->
           complete[l] \/ (l \in listeners /\ Completes(heard[l], bits))]
  BY DEF deliverFrame
<1> HIDE DEF bits
<1>4. heard' \in [Listener -> 0 .. length]
  BY <1>2, <1>3 DEF ListenersOK
<1>5. complete' \in [Listener -> BOOLEAN]
  BY <1>3 DEF ListenersOK
<1> QED
  BY <1>1, <1>3, <1>4, <1>5 DEF ListenersOK

\* A unit without a bit of the message.
QuietUnit == {u \in Unit : \A k \in 1 .. Len(u.bits) : u.bits[k] = Noise}

\* The units of a capacity run, all but the last of them overwritten.
LEMMA DryRunQuiet ==
  DryRunUnits \in Seq(QuietUnit)
<1>1. Pictures \in Nat \ {0} /\ length \in Nat /\ 1 \in 0 .. Pictures
  BY StreamAssumption
<1>2. /\ << Noise >> \in Seq(0 .. length) /\ << >> \in Seq(0 .. length)
      /\ \A k \in 1 .. Len(<< Noise >>) : << Noise >>[k] = Noise
      /\ \A k \in 1 .. Len(<< >>) : << >>[k] = Noise
  BY <1>1 DEF Noise
<1>3. \A p \in 0 .. Pictures : Slice(p, << Noise >>) \in QuietUnit
  BY <1>2, SliceType, IntactUnits DEF QuietUnit, Slice
<1>4. \A p \in 0 .. Pictures, kind \in {"SPS", "PPS", "SEI"} : Header(kind, p) \in QuietUnit
  BY <1>2, HeaderType, IntactUnits DEF QuietUnit, Header
<1> DEFINE first == UnitsOf(1, TRUE, << Noise >>)
           rest == [i \in 1 .. Pictures - 1 |-> Slice(i + 1, << Noise >>)]
           all == first \o rest
<1>5. first \in Seq(QuietUnit)
  BY <1>1, <1>3, <1>4 DEF UnitsOf
<1>6. rest \in Seq(QuietUnit)
  <2>1. \A i \in 1 .. Pictures - 1 : i + 1 \in 0 .. Pictures
    BY <1>1
  <2>2. rest \in [1 .. Pictures - 1 -> QuietUnit]
    BY <1>3, <2>1
  <2> HIDE DEF rest
  <2> QED
    BY <1>1, <2>2, FunctionIsSeq
<1>7. all \in Seq(QuietUnit)
  <2> HIDE DEF first, rest
  <2> QED
    BY <1>5, <1>6
<1>8. DryRunUnits = [i \in 1 .. Len(all) |->
                       [all[i] EXCEPT !.intact = (all[i].picture = Pictures)]]
  <2>1. DryRunUnits = [i \in DOMAIN all |->
                         [all[i] EXCEPT !.intact = (all[i].picture = Pictures)]]
    BY DEF DryRunUnits
  <2> HIDE DEF all
  <2> QED
    BY <1>7, <2>1
<1> HIDE DEF all
<1>9. \A i \in 1 .. Len(all) :
        [all[i] EXCEPT !.intact = (all[i].picture = Pictures)] \in QuietUnit
  <2> SUFFICES ASSUME NEW i \in 1 .. Len(all)
               PROVE  [all[i] EXCEPT !.intact = (all[i].picture = Pictures)] \in QuietUnit
    OBVIOUS
  <2>1. all[i] \in QuietUnit
    BY <1>7
  <2> QED
    BY <2>1 DEF QuietUnit, Unit
<1>10. DryRunUnits \in [1 .. Len(all) -> QuietUnit] /\ Len(all) \in Nat
  BY <1>7, <1>8, <1>9
<1> QED
  BY <1>10, FunctionIsSeq

LEMMA DryRunType ==
  DryRunUnits \in Seq(Unit)
<1>1. Seq(QuietUnit) \subseteq Seq(Unit)
  BY DEF QuietUnit
<1> QED
  BY <1>1, DryRunQuiet

LEMMA SameSequence ==
  ASSUME NEW S, NEW s \in Seq(S), NEW t \in Seq(S), Len(s) = Len(t),
         \A i \in 1 .. Len(s) : s[i] = t[i]
  PROVE  s = t
OBVIOUS

LEMMA FourUnits ==
  ASSUME NEW S, NEW a \in S, NEW b \in S, NEW c \in S, NEW d \in S
  PROVE  << a, b, c >> \o << d >> = << a, b, c, d >>
<1> DEFINE s == << a, b, c >> \o << d >>
           t == << a, b, c, d >>
<1>1. /\ << a, b, c >> \in Seq(S) /\ << d >> \in Seq(S) /\ t \in Seq(S)
      /\ Len(<< a, b, c >>) = 3 /\ Len(<< d >>) = 1 /\ Len(t) = 4
  OBVIOUS
<1>2. s \in Seq(S) /\ Len(s) = 4 /\ s[1]= a /\ s[2] = b /\ s[3] = c /\ s[4] = d
  BY <1>1
<1>3. \A i \in 1 .. Len(s) : s[i] = t[i]
  <2>1. ASSUME NEW i \in 1 .. 4 PROVE i = 1 \/ i = 2 \/ i = 3 \/ i = 4
    OBVIOUS
  <2> QED
    BY <1>2, <2>1
<1> HIDE DEF s, t
<1>4. s = t
  BY <1>1, <1>2, <1>3, SameSequence
<1> QED
  BY <1>4 DEF s, t

\* With an empty queue one picture is encoded, and its first unit handed out.
LEMMA EncodeCases ==
  ASSUME output_queue = << >>, NEW picture \in 0 .. Pictures, NEW since,
         NEW at \in 0 .. length, NEW sending \in BOOLEAN, NEW listeners,
         encodeFrame(picture, since, at, sending, listeners)
  PROVE  \E n \in Carriers[picture] :
           LET slice == Slice(picture, BitsFor(n, at, sending))
           IN /\ slice \in IntactUnit
              /\ \/ /\ deliverFrame(Header("SPS", picture), listeners)
                    /\ output_queue' = << Header("PPS", picture), Header("SEI", picture),
                                          slice >>
                    /\ sinceKey' = 1
                 \/ /\ ~(since >= KEYINT)
                    /\ deliverFrame(slice, listeners)
                    /\ output_queue' = << >>
                    /\ sinceKey' = since + 1
              /\ cursor' = IF sending THEN CursorAfter(n, at) ELSE at
              /\ isSendingMessage' = (sending /\ at + n <= length)
<1>1. PICK n \in Carriers[picture], isKey \in BOOLEAN :
        /\ since >= KEYINT => isKey
        /\ output_queue' = Tail(Overwritten(output_queue)
                             \o UnitsOf(picture, isKey, BitsFor(n, at, sending)))
        /\ deliverFrame(Head(Overwritten(output_queue)
                             \o UnitsOf(picture, isKey, BitsFor(n, at, sending))),
                        listeners)
        /\ sinceKey' = IF isKey THEN 1 ELSE since + 1
        /\ cursor' = IF sending THEN CursorAfter(n, at) ELSE at
        /\ isSendingMessage' = (sending /\ at + n <= length)
  BY DEF encodeFrame
<1>2. n \in Nat
  BY StreamAssumption
<1> DEFINE bits == BitsFor(n, at, sending)
           slice == Slice(picture, bits)
           units == UnitsOf(picture, isKey, bits)
           sps == Header("SPS", picture)
           pps == Header("PPS", picture)
           sei == Header("SEI", picture)
<1>3. bits \in Seq(0 .. length)
  BY <1>2, BitsForType
<1>4. slice \in IntactUnit /\ units \in Seq(IntactUnit)
  <2> HIDE DEF bits
  <2> QED
    BY <1>3, SliceType, UnitsOfType
<1>5. sps \in IntactUnit /\ pps \in IntactUnit /\ sei \in IntactUnit
  BY HeaderType
<1>6. Overwritten(output_queue) \o units = units
  BY <1>4, NothingOverwritten
<1>7. units = (IF isKey THEN << sps, pps, sei >> ELSE << >>) \o << slice >>
  BY DEF UnitsOf
<1> HIDE DEF units, slice, sps, pps, sei
<1>8. CASE isKey
  <2>1. units = << sps, pps, sei, slice >>
    <3>1. units = << sps, pps, sei >> \o << slice >>
      BY <1>7, <1>8
    <3> QED
      BY <1>4, <1>5, <3>1, FourUnits
  <2>2. Head(units) = sps /\ Tail(units) = << pps, sei, slice >>
    BY <2>1
  <2>3. deliverFrame(sps, listeners) /\ output_queue' = << pps, sei, slice >>
        /\ sinceKey' = 1
    BY <1>1, <1>6, <1>8, <2>2 DEF units
  <2> QED
    BY <1>1, <1>4, <2>3 DEF slice, sps, pps, sei
<1>9. CASE ~isKey
  <2>1. units = << slice >>
    BY <1>4, <1>7, <1>9
  <2>2. Head(units) = slice /\ Tail(units) = << >>
    BY <2>1
  <2>3. deliverFrame(slice, listeners) /\ output_queue' = << >>
        /\ sinceKey' = since + 1 /\ ~(since >= KEYINT)
    BY <1>1, <1>6, <1>9, <2>2 DEF units
  <2> QED
    BY <1>1, <1>4, <2>3 DEF slice
<1> QED
  BY <1>8, <1>9

LEMMA EncodeTypes ==
  ASSUME ListenersOK, output_queue = << >>, NEW picture \in 0 .. Pictures,
         NEW since \in 1 .. KEYINT, NEW at \in 0 .. length, NEW sending \in BOOLEAN,
         NEW listeners, encodeFrame(picture, since, at, sending, listeners)
  PROVE  /\ output_queue' \in Seq(Unit) /\ delivered' \in Unit /\ ListenersOK'
         /\ sinceKey' \in 1 .. KEYINT
         /\ cursor' \in 0 .. length /\ isSendingMessage' \in BOOLEAN
<1>1. PICK n \in Carriers[picture] :
        LET slice == Slice(picture, BitsFor(n, at, sending))
        IN /\ slice \in IntactUnit
           /\ \/ /\ deliverFrame(Header("SPS", picture), listeners)
                 /\ output_queue' = << Header("PPS", picture), Header("SEI", picture),
                                       slice >>
                 /\ sinceKey' = 1
              \/ /\ ~(since >= KEYINT)
                 /\ deliverFrame(slice, listeners)
                 /\ output_queue' = << >>
                 /\ sinceKey' = since + 1
           /\ cursor' = IF sending THEN CursorAfter(n, at) ELSE at
           /\ isSendingMessage' = (sending /\ at + n <= length)
  BY EncodeCases
<1> DEFINE slice == Slice(picture, BitsFor(n, at, sending))
<1>2. n \in Nat /\ length \in Nat /\ KEYINT \in Nat \ {0}
  BY StreamAssumption
<1>3. /\ slice \in Unit /\ Header("SPS", picture) \in Unit
      /\ Header("PPS", picture) \in Unit /\ Header("SEI", picture) \in Unit
  BY <1>1, HeaderType, IntactUnits
<1>4. cursor' \in 0 .. length /\ isSendingMessage' \in BOOLEAN
  <2>1. cursor' \in 0 .. length
    BY <1>1, <1>2 DEF CursorAfter
  <2>2. isSendingMessage' \in BOOLEAN
    BY <1>1
  <2> QED
    BY <2>1, <2>2
<1> HIDE DEF slice
<1>5. \/ /\ deliverFrame(Header("SPS", picture), listeners)
         /\ output_queue' = << Header("PPS", picture), Header("SEI", picture), slice >>
         /\ sinceKey' = 1
      \/ /\ ~(since >= KEYINT)
         /\ deliverFrame(slice, listeners)
         /\ output_queue' = << >>
         /\ sinceKey' = since + 1
  BY <1>1 DEF slice
<1>6. output_queue' \in Seq(Unit) /\ sinceKey' \in 1 .. KEYINT
  <2>1. ASSUME output_queue' = << Header("PPS", picture), Header("SEI", picture), slice >>
        PROVE  output_queue' \in Seq(Unit)
    BY <1>3, <2>1
  <2>2. << >> \in Seq(Unit)
    OBVIOUS
  <2>3. sinceKey' \in 1 .. KEYINT
    BY <1>2, <1>5
  <2> QED
    BY <1>5, <2>1, <2>2, <2>3
<1>7. delivered' \in Unit /\ ListenersOK'
  BY <1>3, <1>5, DeliverTypes
<1> QED
  BY <1>4, <1>6, <1>7

LEMMA GetNextFrameTypes ==
  ASSUME StreamTypeOK, NEW s \in Source, NEW listeners, doGetNextFrame(s, listeners),
         open' \subseteq Source
  PROVE  StreamTypeOK'
<1>1. /\ Pictures \in Nat \ {0} /\ length \in Nat /\ KEYINT \in Nat \ {0}
      /\ UINT_MAX \in Nat
  BY StreamAssumption
<1>2. /\ 0 \in 0 .. length /\ 0 \in 0 .. Pictures /\ 1 \in 0 .. Pictures
      /\ KEYINT \in 1 .. KEYINT
  BY <1>1
<1>3. /\ cursor \in 0 .. length /\ isSendingMessage \in BOOLEAN
      /\ packet \in 1 .. Pictures + 1 /\ sinceKey \in 1 .. KEYINT
      /\ output_queue \in Seq(Unit) /\ ListenersOK
  BY DEF StreamTypeOK, ListenersOK
<1>4. frameNumber' \in [Source -> 0 .. UINT_MAX]
  <2>1. Calls(s) \in 0 .. UINT_MAX
    BY <1>1 DEF Calls, StreamTypeOK
  <2> QED
    BY <2>1 DEF doGetNextFrame, StreamTypeOK
<1> SUFFICES /\ output_queue' \in Seq(Unit) /\ delivered' \in Unit /\ ListenersOK'
             /\ sinceKey' \in 1 .. KEYINT /\ packet' \in 1 .. Pictures + 1
             /\ cursor' \in 0 .. length /\ isSendingMessage' \in BOOLEAN
  BY <1>4 DEF StreamTypeOK, ListenersOK
<1>5. CASE FromQueue(s, listeners)
  <2>1. /\ output_queue # << >> /\ output_queue' = Tail(output_queue)
        /\ deliverFrame(Head(output_queue), listeners)
        /\ UNCHANGED << sinceKey, packet, cursor, isSendingMessage >>
    BY <1>5 DEF FromQueue, messageVars
  <2>2. Head(output_queue) \in Unit /\ Tail(output_queue) \in Seq(Unit)
    BY <1>3, <2>1, HeadAndTail
  <2>3. delivered' \in Unit /\ ListenersOK'
    BY <1>3, <2>1, <2>2, DeliverTypes
  <2> QED
    BY <1>3, <2>1, <2>2, <2>3
<1>6. CASE WhitePicture(s, listeners)
  <2>1. /\ output_queue = << >> /\ packet' = packet
        /\ encodeFrame(0, sinceKey, cursor, isSendingMessage, listeners)
    BY <1>6 DEF WhitePicture
  <2> QED
    BY <2>1, <1>2, <1>3, EncodeTypes
<1>7. CASE BeginVideo(s, listeners)
  <2>1. /\ output_queue = << >> /\ packet' = 2
        /\ encodeFrame(1, KEYINT, cursor, TRUE, listeners)
    BY <1>7 DEF BeginVideo
  <2>2. 2 \in 1 .. Pictures + 1
    BY <1>1
  <2> QED
    BY <2>1, <2>2, <1>2, <1>3, EncodeTypes
<1>8. CASE NextPicture(s, listeners)
  <2> DEFINE from == IF isSendingMessage THEN cursor ELSE 0
  <2>1. /\ output_queue = << >> /\ packet <= Pictures /\ packet' = packet + 1
        /\ encodeFrame(packet, sinceKey, from, TRUE, listeners)
    BY <1>8 DEF NextPicture
  <2>2. from \in 0 .. length
    BY <1>2, <1>3
  <2>3. packet \in 0 .. Pictures /\ packet + 1 \in 1 .. Pictures + 1
    BY <2>1, <1>1, <1>3
  <2> HIDE DEF from
  <2> QED
    BY <2>1, <2>2, <2>3, <1>3, EncodeTypes
<1>9. CASE EndOfVideo(s, listeners)
  <2>1. /\ packet' = 1 /\ sinceKey' = KEYINT /\ cursor' = 0 /\ isSendingMessage' = TRUE
        /\ deliverFrame(EmptyUnit, listeners)
        /\ output_queue' = output_queue
    BY <1>9 DEF EndOfVideo
  <2>2. delivered' \in Unit /\ ListenersOK'
    BY <2>1, <1>3, EmptyUnitType, IntactUnits, DeliverTypes
  <2>3. 1 \in 1 .. Pictures + 1
    BY <1>1
  <2> QED
    BY <2>1, <2>2, <2>3, <1>2, <1>3
<1> QED
  BY <1>5, <1>6, <1>7, <1>8, <1>9 DEF doGetNextFrame

LEMMA StreamTypeInit == StreamInit => StreamTypeOK
<1> SUFFICES ASSUME StreamInit PROVE StreamTypeOK
  OBVIOUS
<1>1. /\ Pictures \in Nat \ {0} /\ length \in Nat /\ KEYINT \in Nat \ {0}
      /\ UINT_MAX \in Nat
  BY StreamAssumption
<1>2. output_queue \in Seq(Unit)
  <2>1. << >> \in Seq(Unit)
    OBVIOUS
  <2> QED
    BY <2>1, DryRunType DEF StreamInit
<1>3. delivered \in Unit
  BY EmptyUnitType, IntactUnits DEF StreamInit
<1>4. /\ sinceKey \in 1 .. KEYINT /\ packet \in 1 .. Pictures + 1
      /\ cursor \in 0 .. length /\ isSendingMessage \in BOOLEAN /\ open \subseteq Source
  <2>1. sinceKey = KEYINT /\ packet = 1 /\ cursor = 0 /\ open = {}
    BY DEF StreamInit
  <2>2. isSendingMessage \in BOOLEAN
    BY DEF StreamInit
  <2> QED
    BY <1>1, <2>1, <2>2
<1>5. /\ frameNumber \in [Source -> 0 .. UINT_MAX]
      /\ heard \in [Listener -> 0 .. length] /\ complete \in [Listener -> BOOLEAN]
  <2>1. frameNumber \in [Source -> 0 .. UINT_MAX]
    BY <1>1 DEF StreamInit
  <2>2. heard \in [Listener -> 0 .. length]
    BY <1>1 DEF StreamInit
  <2>3. complete \in [Listener -> BOOLEAN]
    BY Zenon DEF StreamInit
  <2> QED
    BY <2>1, <2>2, <2>3
<1> QED
  BY <1>2, <1>3, <1>4, <1>5 DEF StreamTypeOK

\* Opening and closing a source, and a listener that begins to listen.
LEMMA OpenTypes ==
  ASSUME StreamTypeOK, NEW s \in Source, OpenSource(s) \/ CloseSource(s)
  PROVE  open' \subseteq Source /\ frameNumber' \in [Source -> 0 .. UINT_MAX]
<1>1. UINT_MAX \in Nat
  BY StreamAssumption
<1> QED
  BY <1>1 DEF StreamTypeOK, OpenSource, CloseSource

LEMMA AttachTypes ==
  ASSUME StreamTypeOK, NEW l, Attach(l)
  PROVE  ListenersOK'
<1>1. length \in Nat
  BY StreamAssumption
<1>2. heard' \in [Listener -> 0 .. length]
  <2>1. /\ heard' = [heard EXCEPT ![l] = 0] /\ 0 \in 0 .. length
        /\ heard \in [Listener -> 0 .. length]
    BY <1>1 DEF StreamTypeOK, Attach
  <2> QED
    BY <2>1
<1>3. complete' \in [Listener -> BOOLEAN]
  BY Zenon DEF StreamTypeOK, Attach
<1> QED
  BY <1>2, <1>3 DEF ListenersOK

LEMMA StreamTypeStep == StreamTypeOK /\ [StreamNext]_streamVars => StreamTypeOK'
<1> SUFFICES ASSUME StreamTypeOK, [StreamNext]_streamVars PROVE StreamTypeOK'
  OBVIOUS
<1>1. ASSUME NEW s \in Source, Begin(s) PROVE StreamTypeOK'
  <2>1. OpenSource(s) /\ Attach(s) /\ UNCHANGED << encoderVars, packet, messageVars, delivered >>
    BY <1>1 DEF Begin
  <2> QED
    BY <2>1, OpenTypes, AttachTypes DEF StreamTypeOK, ListenersOK, encoderVars, messageVars
<1>2. ASSUME NEW s \in Source, Read(s) PROVE StreamTypeOK'
  <2>1. doGetNextFrame(s, {s}) /\ open' \subseteq Source
    BY <1>2 DEF Read, StreamTypeOK
  <2> QED
    BY <2>1, GetNextFrameTypes
<1>3. ASSUME NEW s \in Source, Leave(s) PROVE StreamTypeOK'
  <2>1. CloseSource(s) /\ UNCHANGED << encoderVars, packet, messageVars, delivered,
                                       listenerVars >>
    BY <1>3 DEF Leave
  <2> QED
    BY <2>1, OpenTypes DEF StreamTypeOK, encoderVars, messageVars, listenerVars
<1>4. CASE UNCHANGED streamVars
  BY <1>4 DEF streamVars, encoderVars, messageVars, listenerVars, StreamTypeOK
<1> QED
  BY <1>1, <1>2, <1>3, <1>4 DEF StreamNext

\* The queue holds units, the cursor stays in the message, the frame counter in
\* its width and a listener's count in the message, whatever came before
\* (clsVideoFramedSource.cpp, clsX264encoder.cpp).
THEOREM StreamTypeCorrect == StreamSpec => []StreamTypeOK
BY StreamTypeInit, StreamTypeStep, PTL DEF StreamSpec

-----------------------------------------------------------------------------
(* Reader and listeners in step *)

(***************************************************************************)
(* A listener who has heard h and will next hear what messageReadBit       *)
(* answers from the position `at` on: it is at this position, or has yet   *)
(* to hear the beginning, or the message begins again.                     *)
(***************************************************************************)
InStep(h, at, sending) ==
  IF sending THEN h = 0 \/ h = at \/ at = 0 ELSE h = 0

Expect(W, at, sending) == \A l \in W : InStep(heard[l], at, sending)

\* Only the last unit in the queue has carriers, and they hold what was read
\* for them behind what the listeners of W have heard.
PictureWaits(W) ==
  LET last == Len(output_queue)
  IN /\ \A i \in 1 .. last - 1 : output_queue[i].bits = << >>
     /\ last = 0 => Expect(W, cursor, isSendingMessage)
     /\ last # 0 => \E n \in 0 .. fMaxSize, at \in 0 .. length, sending \in BOOLEAN :
          /\ output_queue[last].bits = BitsFor(n, at, sending)
          /\ cursor = IF sending THEN CursorAfter(n, at) ELSE at
          /\ isSendingMessage <=> (sending /\ at + n <= length)
          /\ Expect(W, at, sending)

\* The units of a capacity run hold nothing of the message, and none of W has heard
\* any of it.
NoiseWaits(W) ==
  /\ \A i \in 1 .. Len(output_queue) : \A k \in 1 .. Len(output_queue[i].bits) :
       output_queue[i].bits[k] = Noise
  /\ \A l \in W : heard[l] = 0

QueueInStep(W) == PictureWaits(W) \/ NoiseWaits(W)

\* The sources are heard by the listeners of the same name.
ListenersInStep == \E W \in SUBSET Listener : W = Listener \cap open /\ QueueInStep(W)

OneSource == \A s, t \in open : s = t

\* Every unit fits into the buffer of the framer.
UnitsFit == \A p \in 0 .. Pictures : Carriers[p] \subseteq 0 .. fMaxSize

LEMMA HearNothing ==
  ASSUME NEW h \in 0 .. length
  PROVE  HeardWith(h, << >>) = h
<1>1. << >> \in Seq(0 .. length) /\ Len(<< >>) = 0
  OBVIOUS
<1> QED
  BY <1>1, Hearing DEF HeardWith

LEMMA HearNoise ==
  ASSUME NEW bits \in Seq(0 .. length), \A k \in 1 .. Len(bits) : bits[k] = Noise
  PROVE  HeardWith(0, bits) = 0
<1> DEFINE H == HeardAfter(0, bits)
           S == {k \in Nat : k <= Len(bits) => H[k] = 0}
<1>1. length \in Nat /\ 0 \in 0 .. length /\ Len(bits) \in Nat
  BY StreamAssumption
<1>2. H[0] = 0 /\ \A k \in 1 .. Len(bits) : H[k] = Hear(H[k - 1], bits[k])
  BY <1>1, Hearing
<1> HIDE DEF H
<1>3. 0 \in S
  BY <1>2
<1>4. ASSUME NEW k \in Nat, k \in S
      PROVE  k + 1 \in S
  <2> SUFFICES ASSUME k + 1 <= Len(bits) PROVE H[k + 1] = 0
    OBVIOUS
  <2>1. k + 1 \in 1 .. Len(bits) /\ (k + 1) - 1 = k /\ H[k] = 0
    BY <1>1, <1>4
  <2>2. H[k + 1] = Hear(0, 0)
    BY <1>2, <2>1 DEF Noise
  <2> QED
    BY <2>2 DEF Hear
<1>5. \A k \in Nat : k \in S
  <2> HIDE DEF S
  <2> QED
    BY <1>3, <1>4, NatSetInduction
<1>6. H[Len(bits)] = 0
  BY <1>1, <1>5
<1> QED
  BY <1>6 DEF H, HeardWith

\* What one picture does to a listener in step with it.
LEMMA HearPicture ==
  ASSUME NEW n \in Nat, NEW at \in 0 .. length, NEW sending \in BOOLEAN,
         NEW h \in 0 .. length, InStep(h, at, sending)
  PROVE  /\ InStep(HeardWith(h, BitsFor(n, at, sending)),
                   IF sending THEN CursorAfter(n, at) ELSE at, sending /\ at + n <= length)
         /\ HeardWith(h, BitsFor(n, at, sending)) < h =>
              \/ h = length
              \/ Completes(h, BitsFor(n, at, sending))
              \/ 1 \in Range(BitsFor(n, at, sending))
<1> DEFINE bits == BitsFor(n, at, sending)
           H == HeardAfter(h, bits)
           Q(k) == /\ ~sending => H[k] = 0
                   /\ sending /\ at + k > length => H[k] = 0
                   /\ sending /\ at + k <= length /\ k > 0 => H[k] = 0 \/ H[k] = at + k
                   /\ sending /\ at + k <= length /\ (h = at \/ (at = 0 /\ k > 0)) =>
                        H[k] = at + k
           S == {k \in Nat : k <= n => Q(k)}
<1>1. length \in Nat \ {0} /\ bits \in Seq(0 .. length)
  BY StreamAssumption, BitsForType
<1>2. /\ Len(bits) = n /\ DOMAIN bits = 1 .. n
      /\ \A k \in 1 .. n : bits[k] = IF sending /\ at + k <= length THEN at + k ELSE 0
  BY DEF BitsFor, Noise
<1> HIDE DEF bits
<1>3. /\ H[0] = h /\ \A k \in 1 .. n : H[k] = Hear(H[k - 1], bits[k])
      /\ \A k \in 0 .. n : H[k] \in 0 .. length
  BY <1>1, <1>2, Hearing
<1> HIDE DEF H
<1>4. 0 \in S
  BY <1>1, <1>3 DEF InStep
<1>5. ASSUME NEW k \in Nat, k \in S
      PROVE  k + 1 \in S
  <2> SUFFICES ASSUME k + 1 <= n PROVE Q(k + 1)
    OBVIOUS
  <2>1. /\ k + 1 \in 1 .. n /\ (k + 1) - 1 = k /\ Q(k) /\ k \in 0 .. n
        /\ H[k] \in 0 .. length
    BY <1>3, <1>5
  <2>2. H[k + 1] = Hear(H[k], bits[k + 1])
    BY <1>3, <2>1
  <2>3. CASE ~sending
    BY <1>2, <2>1, <2>2, <2>3 DEF Hear
  <2>4. CASE sending /\ at + (k + 1) > length
    <3>1. bits[k + 1] = 0
      BY <1>1, <1>2, <2>1, <2>4
    <3>2. H[k + 1] = 0
      BY <1>1, <2>1, <2>2, <3>1 DEF Hear
    <3> QED
      BY <1>1, <2>4, <3>2
  <2>5. CASE sending /\ at + (k + 1) <= length
    <3>1. bits[k + 1] = at + (k + 1)
      BY <1>2, <2>1, <2>5
    <3>2. H[k + 1] = 0 \/ H[k + 1] = at + (k + 1)
      BY <1>1, <2>2, <3>1 DEF Hear
    <3>3. ASSUME h = at \/ at = 0
          PROVE  H[k + 1] = at + (k + 1)
      <4>1. H[k] = at + k \/ (at = 0 /\ k = 0)
        BY <1>1, <1>3, <2>1, <2>5, <3>3
      <4> QED
        BY <1>1, <2>2, <3>1, <4>1 DEF Hear
    <3> QED
      BY <1>1, <2>5, <3>2, <3>3
  <2> QED
    BY <1>1, <2>3, <2>4, <2>5
<1>6. \A k \in 0 .. n : Q(k)
  <2>1. \A k \in Nat : k \in S
    <3> HIDE DEF S
    <3> QED
      BY <1>4, <1>5, NatSetInduction
  <2> QED
    BY <2>1
<1>7. HeardWith(h, bits) = H[n] /\ H[n] \in 0 .. length /\ Q(n)
  BY <1>2, <1>3, <1>6 DEF HeardWith, H
<1>8. InStep(H[n], IF sending THEN CursorAfter(n, at) ELSE at, sending /\ at + n <= length)
  <2>1. CASE ~sending
    BY <1>7, <2>1 DEF InStep
  <2>2. CASE sending /\ at + n <= length
    <3>1. CursorAfter(n, at) = at + n
      BY <1>1, <2>2 DEF CursorAfter
    <3>2. H[n] = 0 \/ H[n] = at + n \/ at + n = 0
      <4>1. CASE n = 0
        BY <1>3, <2>2, <4>1 DEF InStep
      <4>2. CASE n > 0
        BY <1>7, <2>2, <4>2
      <4> QED
        BY <4>1, <4>2
    <3> QED
      BY <2>2, <3>1, <3>2 DEF InStep
  <2>3. CASE sending /\ ~(at + n <= length)
    <3>1. H[n] = 0
      BY <1>1, <1>7, <2>3
    <3> QED
      BY <2>3, <3>1 DEF InStep
  <2> QED
    BY <2>1, <2>2, <2>3
<1>9. ASSUME H[n] < h, h # length
      PROVE  Completes(h, bits) \/ 1 \in Range(bits)
  <2>1. sending /\ n # 0 /\ h # 0 /\ (h = at \/ at = 0)
    BY <1>3, <1>7, <1>9 DEF InStep
  <2>2. CASE at = 0
    <3>1. 1 \in DOMAIN bits /\ bits[1] = 1
      BY <1>1, <1>2, <2>1, <2>2
    <3> QED
      BY <3>1 DEF Range
  <2>3. CASE at # 0
    <3>1. h = at /\ at + n > length
      BY <1>1, <1>7, <1>9, <2>1, <2>3
    <3> DEFINE k == length - at
    <3>2. k \in 1 .. n /\ at + k = length
      BY <1>1, <1>9, <3>1
    <3>3. H[k] = length
      <4> HIDE DEF k
      <4>1. Q(k)
        BY <1>6, <3>2
      <4> QED
        BY <2>1, <3>1, <3>2, <4>1
    <3> QED
      BY <1>2, <3>2, <3>3 DEF Completes, H
  <2> QED
    BY <2>2, <2>3
<1> QED
  BY <1>7, <1>8, <1>9 DEF bits

\* What KeepsInStep asks of a step that opens and closes no source.
Continues ==
  \A l \in Listener : heard'[l] < heard[l] =>
    \/ heard[l] = length
    \/ Completes(heard[l], delivered'.bits)
    \/ 1 \in Range(delivered'.bits)

LEMMA DeliverWhole ==
  ASSUME StreamTypeOK, NEW u \in Unit, Len(u.bits) <= fMaxSize, NEW listeners,
         deliverFrame(u, listeners)
  PROVE  /\ delivered'.bits = u.bits
         /\ \A l \in Listener : heard'[l] =
              IF l \in listeners THEN HeardWith(heard[l], u.bits) ELSE heard[l]
<1>1. u.bits \in Seq(0 .. length) /\ Len(u.bits) \in Nat /\ fMaxSize \in Nat
  BY StreamAssumption DEF Unit
<1> DEFINE n == IF Len(u.bits) < fMaxSize THEN Len(u.bits) ELSE fMaxSize
<1>2. n = Len(u.bits)
  BY <1>1
<1>3. SubSeq(u.bits, 1, Len(u.bits)) = u.bits
  BY <1>1
<1>4. Truncated(u) = [u EXCEPT !.bits = SubSeq(u.bits, 1, n)]
  BY DEF Truncated
<1>5. Truncated(u).bits = u.bits
  <2> HIDE DEF n
  <2> QED
    BY <1>2, <1>3, <1>4 DEF Unit
<1> QED
  BY <1>5 DEF deliverFrame

LEMMA DeliverNothing ==
  ASSUME StreamTypeOK, NEW u \in Unit, u.bits = << >>, NEW listeners,
         deliverFrame(u, listeners)
  PROVE  \A l \in Listener : heard'[l] = heard[l]
<1>1. Len(u.bits) = 0 /\ fMaxSize \in Nat /\ 0 <= fMaxSize
  BY StreamAssumption
<1>2. ASSUME NEW l \in Listener
      PROVE  heard[l] \in 0 .. length /\ HeardWith(heard[l], << >>) = heard[l]
  <2>1. heard[l] \in 0 .. length
    BY DEF StreamTypeOK
  <2> QED
    BY <2>1, HearNothing
<1> QED
  BY <1>1, <1>2, DeliverWhole

LEMMA DeliverNoise ==
  ASSUME StreamTypeOK, NEW u \in Unit, NEW listeners, deliverFrame(u, listeners),
         \A k \in 1 .. Len(u.bits) : u.bits[k] = Noise,
         \A l \in Listener \cap listeners : heard[l] = 0
  PROVE  \A l \in Listener : heard'[l] = heard[l]
<1>1. u.bits \in Seq(0 .. length) /\ Len(u.bits) \in Nat /\ fMaxSize \in Nat
  BY StreamAssumption DEF Unit
<1> DEFINE n == IF Len(u.bits) < fMaxSize THEN Len(u.bits) ELSE fMaxSize
           sent == SubSeq(u.bits, 1, n)
<1>2. n \in 0 .. Len(u.bits)
  BY <1>1
<1>3. Truncated(u) = [u EXCEPT !.bits = sent]
  BY DEF Truncated
<1>4. sent \in Seq(0 .. length) /\ \A k \in 1 .. Len(sent) : sent[k] = Noise
  <2> HIDE DEF n
  <2>1. sent \in Seq(0 .. length)
    BY <1>1, <1>2, PrefixType
  <2>2. Len(sent) = n /\ \A k \in 1 .. n : sent[k] = u.bits[k]
    BY <1>1, <1>2
  <2> QED
    BY <1>1, <1>2, <2>1, <2>2
<1>5. HeardWith(0, sent) = 0
  <2> HIDE DEF sent
  <2> QED
    BY <1>4, HearNoise
<1>6. Truncated(u).bits = sent
  <2> HIDE DEF sent
  <2> QED
    BY <1>3 DEF Unit
<1> HIDE DEF sent
<1> QED
  BY <1>5, <1>6 DEF deliverFrame

\* Those of W are served, except some who have not heard anything yet.
Served(listeners, W) ==
  /\ Listener \cap listeners \subseteq W /\ W \subseteq Listener
  /\ \A l \in W \ listeners : heard[l] = 0

\* A picture that is heard from where its listeners stand.
LEMMA DeliverPicture ==
  ASSUME StreamTypeOK, NEW W, NEW listeners, Served(listeners, W),
         NEW u \in Unit, NEW n \in 0 .. fMaxSize, NEW at \in 0 .. length,
         NEW sending \in BOOLEAN, u.bits = BitsFor(n, at, sending),
         Expect(W, at, sending), deliverFrame(u, listeners)
  PROVE  /\ Continues
         /\ \A l \in W :
              InStep(heard'[l], IF sending THEN CursorAfter(n, at) ELSE at,
                     sending /\ at + n <= length)
<1> DEFINE bits == BitsFor(n, at, sending)
<1>1. n \in Nat /\ Len(bits) = n /\ n <= fMaxSize
  BY StreamAssumption DEF BitsFor
<1> HIDE DEF bits
<1>2. /\ delivered'.bits = bits
      /\ \A l \in Listener : heard'[l] =
           IF l \in listeners THEN HeardWith(heard[l], bits) ELSE heard[l]
  <2>1. Len(u.bits) <= fMaxSize
    BY <1>1 DEF bits
  <2> QED
    BY <2>1, DeliverWhole DEF bits
<1>3. ASSUME NEW l \in Listener, l \in listeners
      PROVE  /\ InStep(heard'[l], IF sending THEN CursorAfter(n, at) ELSE at,
                       sending /\ at + n <= length)
             /\ heard'[l] < heard[l] =>
                  \/ heard[l] = length
                  \/ Completes(heard[l], bits)
                  \/ 1 \in Range(bits)
  <2>1. heard[l] \in 0 .. length /\ InStep(heard[l], at, sending)
    BY <1>3 DEF StreamTypeOK, Expect, Served
  <2>2. heard'[l] = HeardWith(heard[l], bits)
    BY <1>2, <1>3
  <2> QED
    BY <1>1, <2>1, <2>2, HearPicture DEF bits
<1>4. ASSUME NEW l \in Listener, l \notin listeners
      PROVE  ~(heard'[l] < heard[l])
  <2>1. heard[l] \in 0 .. length /\ heard'[l] = heard[l] /\ length \in Nat
    BY <1>2, <1>4, StreamAssumption DEF StreamTypeOK
  <2> QED
    BY <2>1
<1>5. \A l \in W \ listeners : l \in Listener /\ heard'[l] = 0
  BY <1>2 DEF Served
<1>6. W \subseteq Listener
  BY DEF Served
<1>7. \A at2, sending2 : InStep(0, at2, sending2)
  BY DEF InStep
<1> QED
  BY <1>2, <1>3, <1>4, <1>5, <1>6, <1>7 DEF Continues

LEMMA SameContinues ==
  ASSUME StreamTypeOK, \A l \in Listener : heard'[l] = heard[l]
  PROVE  Continues
<1>1. ASSUME NEW l \in Listener
      PROVE  ~(heard'[l] < heard[l])
  <2>1. heard[l] \in 0 .. length /\ heard'[l] = heard[l] /\ length \in Nat
    BY StreamAssumption DEF StreamTypeOK
  <2> QED
    BY <2>1
<1> QED
  BY <1>1 DEF Continues

LEMMA EncodeInStep ==
  ASSUME UnitsFit, StreamTypeOK, NEW W, NEW listeners, Served(listeners, W),
         output_queue = << >>, NEW picture \in 0 .. Pictures, NEW since,
         NEW at \in 0 .. length, NEW sending \in BOOLEAN, Expect(W, at, sending),
         encodeFrame(picture, since, at, sending, listeners)
  PROVE  Continues /\ PictureWaits(W)'
<1>1. PICK n \in Carriers[picture] :
        LET slice == Slice(picture, BitsFor(n, at, sending))
        IN /\ slice \in IntactUnit
           /\ \/ /\ deliverFrame(Header("SPS", picture), listeners)
                 /\ output_queue' = << Header("PPS", picture), Header("SEI", picture),
                                       slice >>
                 /\ sinceKey' = 1
              \/ /\ ~(since >= KEYINT)
                 /\ deliverFrame(slice, listeners)
                 /\ output_queue' = << >>
                 /\ sinceKey' = since + 1
           /\ cursor' = IF sending THEN CursorAfter(n, at) ELSE at
           /\ isSendingMessage' = (sending /\ at + n <= length)
  BY EncodeCases
<1> DEFINE bits == BitsFor(n, at, sending)
           slice == Slice(picture, bits)
           sps == Header("SPS", picture)
           pps == Header("PPS", picture)
           sei == Header("SEI", picture)
<1>2. n \in 0 .. fMaxSize
  BY DEF UnitsFit
<1>3. slice \in Unit /\ slice.bits = bits
  BY <1>1, IntactUnits DEF Slice
<1>4. /\ sps \in Unit /\ pps \in Unit /\ sei \in Unit
      /\ sps.bits = << >> /\ pps.bits = << >> /\ sei.bits = << >>
  BY HeaderType, IntactUnits DEF Header
<1>5. /\ cursor' = IF sending THEN CursorAfter(n, at) ELSE at
      /\ isSendingMessage' <=> (sending /\ at + n <= length)
  BY <1>1
<1>6. CASE deliverFrame(sps, listeners) /\ output_queue' = << pps, sei, slice >>
  <2>1. \A l \in Listener : heard'[l] = heard[l]
    BY <1>4, <1>6, DeliverNothing
  <2>2. Continues
    BY <2>1, SameContinues
  <2>3. Len(output_queue') = 3 /\ output_queue'[1] = pps /\ output_queue'[2] = sei
        /\ output_queue'[3] = slice
    BY <1>6
  <2>4. \A l \in W : InStep(heard'[l], at, sending)
    BY <2>1 DEF Expect, Served
  <2>5. \A i \in 1 .. Len(output_queue') - 1 : output_queue'[i].bits = << >>
    <3>1. ASSUME NEW i \in 1 .. 2 PROVE i = 1 \/ i = 2
      OBVIOUS
    <3> HIDE DEF sps, pps, sei, slice
    <3> QED
      BY <1>4, <2>3, <3>1
  <2>6. output_queue'[3].bits = BitsFor(n, at, sending)
    BY <1>3, <2>3
  <2>7. PictureWaits(W)'
    <3> HIDE DEF sps, pps, sei, slice, bits
    <3>1. Len(output_queue') # 0
      BY <2>3
    <3> QED
      BY <1>2, <1>5, <2>3, <2>4, <2>5, <2>6, <3>1 DEF PictureWaits, Expect
  <2> QED
    BY <2>2, <2>7
<1>7. CASE deliverFrame(slice, listeners) /\ output_queue' = << >>
  <2>1. /\ Continues
        /\ \A l \in W :
             InStep(heard'[l], IF sending THEN CursorAfter(n, at) ELSE at,
                    sending /\ at + n <= length)
    BY <1>2, <1>3, <1>7, DeliverPicture
  <2>2. Expect(W, cursor, isSendingMessage)'
    <3>1. ASSUME NEW l \in W
          PROVE  InStep(heard'[l], cursor', isSendingMessage')
      BY <1>5, <2>1 DEF InStep
    <3> QED
      BY <3>1 DEF Expect, InStep
  <2>3. Len(output_queue') = 0
    BY <1>7
  <2>4. PictureWaits(W)'
    BY <2>2, <2>3 DEF PictureWaits
  <2> QED
    BY <2>1, <2>4
<1> QED
  BY <1>1, <1>6, <1>7

\* With nothing waiting, either half of QueueInStep says where the listeners are.
LEMMA NothingWaits ==
  ASSUME StreamTypeOK, NEW W, QueueInStep(W), output_queue = << >>
  PROVE  Expect(W, cursor, isSendingMessage)
<1>1. CASE PictureWaits(W)
  BY <1>1 DEF PictureWaits
<1>2. CASE NoiseWaits(W)
  BY <1>2 DEF NoiseWaits, Expect, InStep
<1> QED
  BY <1>1, <1>2 DEF QueueInStep

\* The front of the queue is handed out.
LEMMA QueueFront ==
  ASSUME StreamTypeOK, NEW W, QueueInStep(W), NEW listeners,
         Served(listeners, W), NEW s, FromQueue(s, listeners)
  PROVE  Continues /\ QueueInStep(W)'
<1> DEFINE last == Len(output_queue)
           front == output_queue[1]
<1>1. /\ output_queue # << >> /\ output_queue' = Tail(output_queue)
      /\ deliverFrame(Head(output_queue), listeners)
      /\ cursor' = cursor /\ isSendingMessage' = isSendingMessage
  BY DEF FromQueue, messageVars
<1>2. output_queue \in Seq(Unit) /\ last \in Nat \ {0} /\ front \in Unit
  BY <1>1 DEF StreamTypeOK
<1>3. /\ Len(output_queue') = last - 1
      /\ \A i \in 1 .. last - 1 : output_queue'[i] = output_queue[i + 1]
      /\ deliverFrame(front, listeners)
  BY <1>1, <1>2
<1>4. CASE NoiseWaits(W)
  <2>1. \A k \in 1 .. Len(front.bits) : front.bits[k] = Noise
    BY <1>2, <1>4 DEF NoiseWaits
  <2>2. \A l \in Listener : heard'[l] = heard[l]
    <3>1. \A l \in Listener \cap listeners : heard[l] = 0
      BY <1>4 DEF NoiseWaits, Served
    <3> HIDE DEF front
    <3> QED
      BY <1>2, <1>3, <2>1, <3>1, DeliverNoise
  <2>3. NoiseWaits(W)'
    <3>1. ASSUME NEW i \in 1 .. Len(output_queue')
          PROVE  \A k \in 1 .. Len(output_queue'[i].bits) : output_queue'[i].bits[k] = Noise
      <4>1. i + 1 \in 1 .. last /\ output_queue'[i] = output_queue[i + 1]
        BY <1>2, <1>3
      <4> QED
        BY <1>4, <4>1 DEF NoiseWaits
    <3>2. \A l \in W : heard'[l] = 0
      BY <1>4, <2>2 DEF NoiseWaits, Served
    <3> QED
      BY <3>1, <3>2 DEF NoiseWaits
  <2> QED
    BY <2>2, <2>3, SameContinues DEF QueueInStep
<1>5. CASE PictureWaits(W)
  <2>1. /\ \A i \in 1 .. last - 1 : output_queue[i].bits = << >>
        /\ \E n \in 0 .. fMaxSize, at \in 0 .. length, sending \in BOOLEAN :
             /\ output_queue[last].bits = BitsFor(n, at, sending)
             /\ cursor = IF sending THEN CursorAfter(n, at) ELSE at
             /\ isSendingMessage <=> (sending /\ at + n <= length)
             /\ Expect(W, at, sending)
    BY <1>2, <1>5 DEF PictureWaits
  <2>2. PICK n \in 0 .. fMaxSize, at \in 0 .. length, sending \in BOOLEAN :
             /\ output_queue[last].bits = BitsFor(n, at, sending)
             /\ cursor = IF sending THEN CursorAfter(n, at) ELSE at
             /\ isSendingMessage <=> (sending /\ at + n <= length)
             /\ Expect(W, at, sending)
    BY <2>1
  <2>3. CASE last = 1
    <3>1. /\ Continues
          /\ \A l \in W :
               InStep(heard'[l], IF sending THEN CursorAfter(n, at) ELSE at,
                      sending /\ at + n <= length)
      <4>1. front.bits = BitsFor(n, at, sending)
        BY <2>2, <2>3
      <4> HIDE DEF front
      <4> QED
        BY <1>2, <1>3, <2>2, <4>1, DeliverPicture
    <3>2. Expect(W, cursor, isSendingMessage)'
      <4>1. ASSUME NEW l \in W
            PROVE  InStep(heard'[l], cursor', isSendingMessage')
        BY <1>1, <2>2, <3>1 DEF InStep
      <4> QED
        BY <4>1 DEF Expect, InStep
    <3>3. Len(output_queue') = 0
      BY <1>3, <2>3
    <3> QED
      BY <3>1, <3>2, <3>3 DEF PictureWaits, QueueInStep
  <2>4. CASE last # 1
    <3>1. front.bits = << >>
      <4>1. 1 \in 1 .. last - 1
        <5> HIDE DEF last
        <5> QED
          BY <1>2, <2>4
      <4> QED
        BY <2>1, <4>1
    <3>2. \A l \in Listener : heard'[l] = heard[l]
      <4> HIDE DEF front
      <4> QED
        BY <1>2, <1>3, <3>1, DeliverNothing
    <3>3. \A i \in 1 .. Len(output_queue') - 1 : output_queue'[i].bits = << >>
      <4> SUFFICES ASSUME NEW i \in 1 .. Len(output_queue') - 1
                   PROVE  output_queue'[i].bits = << >>
        OBVIOUS
      <4>1. i \in 1 .. last - 1 /\ i + 1 \in 1 .. last - 1
        BY <1>2, <1>3
      <4> QED
        BY <1>3, <2>1, <4>1
    <3>4. /\ Len(output_queue') # 0 /\ Len(output_queue') = last - 1
          /\ output_queue'[last - 1].bits = BitsFor(n, at, sending)
      <4>1. last - 1 \in 1 .. last - 1 /\ (last - 1) + 1 = last
        <5> HIDE DEF last
        <5> QED
          BY <1>2, <2>4
      <4> QED
        BY <1>3, <2>2, <4>1
    <3>5. \A l \in W : InStep(heard'[l], at, sending)
      BY <2>2, <3>2 DEF Expect, Served
    <3>6. PictureWaits(W)'
      BY <1>1, <2>2, <3>3, <3>4, <3>5 DEF PictureWaits, Expect
    <3> QED
      BY <3>2, <3>6, SameContinues DEF QueueInStep
  <2> QED
    BY <2>3, <2>4
<1> QED
  BY <1>4, <1>5 DEF QueueInStep

LEMMA GetNextFrameInStep ==
  ASSUME UnitsFit, StreamTypeOK, NEW W, QueueInStep(W), NEW listeners,
         Served(listeners, W), NEW s, doGetNextFrame(s, listeners)
  PROVE  Continues /\ QueueInStep(W)'
<1>1. /\ Pictures \in Nat \ {0} /\ length \in Nat
      /\ 0 \in 0 .. length /\ 0 \in 0 .. Pictures /\ 1 \in 0 .. Pictures
  BY StreamAssumption
<1>2. /\ cursor \in 0 .. length /\ isSendingMessage \in BOOLEAN
      /\ packet \in 1 .. Pictures + 1
  BY DEF StreamTypeOK
<1>3. CASE FromQueue(s, listeners)
  BY <1>3, QueueFront
<1>4. CASE WhitePicture(s, listeners)
  <2>1. output_queue = << >> /\ encodeFrame(0, sinceKey, cursor, isSendingMessage, listeners)
    BY <1>4 DEF WhitePicture
  <2> QED
    BY <1>1, <1>2, <2>1, NothingWaits, EncodeInStep DEF QueueInStep
<1>5. CASE BeginVideo(s, listeners)
  <2>1. output_queue = << >> /\ encodeFrame(1, KEYINT, cursor, TRUE, listeners)
    BY <1>5 DEF BeginVideo
  <2>2. Expect(W, cursor, TRUE)
    BY <2>1, NothingWaits DEF Expect, InStep
  <2> QED
    BY <1>1, <1>2, <2>1, <2>2, EncodeInStep DEF QueueInStep
<1>6. CASE NextPicture(s, listeners)
  <2> DEFINE from == IF isSendingMessage THEN cursor ELSE 0
  <2>1. /\ output_queue = << >> /\ packet <= Pictures
        /\ encodeFrame(packet, sinceKey, from, TRUE, listeners)
    BY <1>6 DEF NextPicture
  <2>2. from \in 0 .. length /\ packet \in 0 .. Pictures
    BY <1>1, <1>2, <2>1
  <2>3. Expect(W, from, TRUE)
    BY <2>1, NothingWaits DEF Expect, InStep
  <2> HIDE DEF from
  <2> QED
    BY <2>1, <2>2, <2>3, EncodeInStep DEF QueueInStep
<1>7. CASE EndOfVideo(s, listeners)
  <2>1. /\ output_queue = << >> /\ output_queue' = output_queue
        /\ cursor' = 0 /\ isSendingMessage' = TRUE /\ deliverFrame(EmptyUnit, listeners)
    BY <1>7 DEF EndOfVideo
  <2>2. EmptyUnit \in Unit /\ EmptyUnit.bits = << >>
    BY EmptyUnitType, IntactUnits DEF EmptyUnit
  <2>3. \A l \in Listener : heard'[l] = heard[l]
    BY <2>1, <2>2, DeliverNothing
  <2>4. PictureWaits(W)'
    <3>1. Len(output_queue') = 0
      BY <2>1
    <3> QED
      BY <2>1, <3>1 DEF PictureWaits, Expect, InStep
  <2> QED
    BY <2>3, <2>4, SameContinues DEF QueueInStep
<1> QED
  BY <1>3, <1>4, <1>5, <1>6, <1>7 DEF doGetNextFrame

\* The queue is as it was, and so is a listener, or it begins to listen.
LEMMA SameInStep ==
  ASSUME StreamTypeOK, NEW W, QueueInStep(W),
         encoderVars' = encoderVars, messageVars' = messageVars,
         NEW V, \A l \in V : heard'[l] = 0 \/ (l \in W /\ heard'[l] = heard[l])
  PROVE  QueueInStep(V)'
<1>1. /\ output_queue' = output_queue /\ cursor' = cursor
      /\ isSendingMessage' = isSendingMessage
  BY DEF encoderVars, messageVars
<1>2. \A at, sending : Expect(W, at, sending) =>
        \A l \in V : InStep(heard'[l], at, sending)
  BY DEF Expect, InStep
<1>3. PictureWaits(W) => PictureWaits(V)'
  BY <1>1, <1>2 DEF PictureWaits, Expect
<1>4. NoiseWaits(W) => NoiseWaits(V)'
  BY <1>1 DEF NoiseWaits
<1> QED
  BY <1>3, <1>4 DEF QueueInStep

LEMMA QueueInStepInit ==
  ASSUME StreamInit
  PROVE  QueueInStep({})
<1>1. CASE output_queue = << >>
  BY <1>1 DEF QueueInStep, NoiseWaits
<1>2. CASE output_queue = DryRunUnits
  <2>1. output_queue \in Seq(QuietUnit)
    BY <1>2, DryRunQuiet
  <2>2. \A i \in 1 .. Len(output_queue) : output_queue[i] \in QuietUnit
    BY <2>1
  <2> QED
    BY <2>2 DEF QueueInStep, NoiseWaits, QuietUnit
<1> QED
  BY <1>1, <1>2 DEF StreamInit

InStepInv == StreamTypeOK /\ OneSource /\ ListenersInStep

LEMMA InStepInit == StreamInit => OneSource /\ ListenersInStep
<1> SUFFICES ASSUME StreamInit PROVE OneSource /\ ListenersInStep
  OBVIOUS
<1>1. open = {} /\ OneSource
  BY DEF StreamInit, OneSource
<1>2. {} \in SUBSET Listener /\ {} = Listener \cap open
  BY <1>1
<1> QED
  BY <1>1, <1>2, QueueInStepInit DEF ListenersInStep

LEMMA InStepStep ==
  ASSUME UnitsFit
  PROVE  InStepInv /\ [StreamNext]_streamVars =>
           (UNCHANGED open => Continues) /\ OneSource' /\ ListenersInStep'
<1> SUFFICES ASSUME InStepInv, [StreamNext]_streamVars
             PROVE  (UNCHANGED open => Continues) /\ OneSource' /\ ListenersInStep'
  OBVIOUS
<1>1. StreamTypeOK /\ OneSource
  BY DEF InStepInv
<1>2. PICK W \in SUBSET Listener : W = Listener \cap open /\ QueueInStep(W)
  BY DEF InStepInv, ListenersInStep
<1>3. ASSUME NEW s \in Source, Begin(s)
      PROVE  (UNCHANGED open => Continues) /\ OneSource' /\ ListenersInStep'
  <2>1. /\ open = {} /\ open' = {s} /\ heard' = [heard EXCEPT ![s] = 0]
        /\ encoderVars' = encoderVars /\ messageVars' = messageVars
    BY <1>3 DEF Begin, OpenSource, Attach
  <2> DEFINE V == Listener \cap {s}
  <2>2. \A l \in V : heard'[l] = 0
    BY <1>1, <2>1 DEF StreamTypeOK
  <2>3. QueueInStep(V)'
    <3> HIDE DEF V
    <3> QED
      BY <1>1, <1>2, <2>1, <2>2, SameInStep
  <2>4. OneSource' /\ ~UNCHANGED open
    BY <2>1 DEF OneSource
  <2>5. V \in SUBSET Listener /\ V = Listener \cap open'
    BY <2>1
  <2> HIDE DEF V
  <2> QED
    BY <2>3, <2>4, <2>5 DEF ListenersInStep
<1>4. ASSUME NEW s \in Source, Read(s)
      PROVE  (UNCHANGED open => Continues) /\ OneSource' /\ ListenersInStep'
  <2>1. s \in open /\ open' = open /\ doGetNextFrame(s, {s})
    BY <1>4 DEF Read
  <2>2. open \subseteq {s} /\ OneSource'
    BY <1>1, <2>1 DEF OneSource
  <2>3. Served({s}, W)
    BY <1>2, <2>1, <2>2 DEF Served
  <2>4. Continues /\ QueueInStep(W)'
    BY <1>1, <1>2, <2>1, <2>3, GetNextFrameInStep
  <2> QED
    BY <1>2, <2>1, <2>2, <2>4 DEF ListenersInStep
<1>5. ASSUME NEW s \in Source, Leave(s)
      PROVE  (UNCHANGED open => Continues) /\ OneSource' /\ ListenersInStep'
  <2>1. /\ s \in open /\ open' = open \ {s} /\ heard' = heard
        /\ encoderVars' = encoderVars /\ messageVars' = messageVars
    BY <1>5 DEF Leave, CloseSource, listenerVars
  <2> DEFINE V == W \ {s}
  <2>2. QueueInStep(V)'
    <3>1. \A l \in V : l \in W /\ heard'[l] = heard[l]
      BY <2>1
    <3> HIDE DEF V
    <3> QED
      BY <1>1, <1>2, <2>1, <3>1, SameInStep
  <2>3. OneSource' /\ ~UNCHANGED open
    BY <1>1, <2>1 DEF OneSource
  <2>4. V \in SUBSET Listener /\ V = Listener \cap open'
    BY <1>2, <2>1
  <2> HIDE DEF V
  <2> QED
    BY <2>2, <2>3, <2>4 DEF ListenersInStep
<1>6. CASE UNCHANGED streamVars
  <2>1. /\ open' = open /\ heard' = heard
        /\ encoderVars' = encoderVars /\ messageVars' = messageVars
    BY <1>6 DEF streamVars, listenerVars
  <2>2. QueueInStep(W)'
    BY <1>1, <1>2, <2>1, SameInStep
  <2>3. Continues /\ OneSource'
    BY <1>1, <2>1, SameContinues DEF OneSource
  <2> QED
    BY <1>2, <2>1, <2>2, <2>3 DEF ListenersInStep
<1> QED
  BY <1>3, <1>4, <1>5, <1>6 DEF StreamNext

\* Sources follow one another, and every unit fits into the buffer of the framer:
\* whatever the video, the message, the pictures of a capacity run in the queue and
\* the phases of doGetNextFrame, a listener in the middle of the message goes on
\* with its next bit, unless the message is complete or begins again.
THEOREM InStepTheorem ==
  ASSUME UnitsFit
  PROVE  StreamSpec => KeepsInStep
<1>1. StreamInit => InStepInv
  BY StreamTypeInit, InStepInit DEF InStepInv
<1>2. InStepInv /\ [StreamNext]_streamVars => InStepInv'
  BY StreamTypeStep, InStepStep DEF InStepInv
<1>3. InStepInv /\ [StreamNext]_streamVars =>
        [\A l \in Listener :
           UNCHANGED open /\ heard'[l] < heard[l] =>
             \/ heard[l] = length
             \/ Completes(heard[l], delivered'.bits)
             \/ 1 \in Range(delivered'.bits)]_streamVars
  BY InStepStep DEF Continues
<1> QED
  BY <1>1, <1>2, <1>3, PTL DEF StreamSpec, KeepsInStep
=============================================================================
