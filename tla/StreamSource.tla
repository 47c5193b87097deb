---------------------------- MODULE StreamSource ----------------------------
(***************************************************************************)
(* The video and the message as Stegano::startStreaming serves them: the   *)
(* source objects of the RTSP server (Private/clsVideoFramedSource.cpp)    *)
(* share one demuxer, one encoder with its queue of NAL units              *)
(* (Private/clsX264encoder.cpp) and one message.  A source first shows     *)
(* white pictures while its client synchronises, then the video, over and  *)
(* over again, and the message is sent over and over again with it.        *)
(*                                                                         *)
(* The message is seen as the positions 1 .. length of its bits, a NAL     *)
(* unit as the positions its carriers hold.  Which listeners a unit        *)
(* reaches is for the module that composes this one (LiveSubsession); here *)
(* a source is its own listener, and one source follows another.           *)
(***************************************************************************)
EXTENDS Integers, Sequences, SequencesExt

CONSTANTS
  Source,          \* the clsVideoFramedSource objects
  Listener,        \* who receives what a source delivers
  length,          \* bits of the framed message
  SYNCING_FRAMES,  \* calls of doGetNextFrame before the video begins
  KEYINT,          \* i_keyint_max: pictures from one key picture to the next
  Pictures,        \* pictures of the video
  Carriers,        \* for 0 (white) and each picture: the possible numbers of carriers
  fMaxSize,        \* carriers that fit into the buffer of the framer
  UINT_MAX,        \* frameNumber is unsigned
  Measured         \* whether FileAndMessageInfo may have been called before

ASSUME StreamAssumption ==
  /\ length \in Nat \ {0} /\ fMaxSize \in Nat \ {0}
  /\ SYNCING_FRAMES \in Nat /\ SYNCING_FRAMES > 1
  /\ KEYINT \in Nat \ {0} /\ Pictures \in Nat \ {0}
  /\ Carriers \in [0 .. Pictures -> SUBSET Nat]
  /\ \A p \in 0 .. Pictures : Carriers[p] # {}
  /\ UINT_MAX \in Nat /\ UINT_MAX > SYNCING_FRAMES
  /\ Measured \subseteq BOOLEAN

VARIABLES
  \* clsX264Encoder and the x264 encoder it has open
  output_queue,     \* NAL units that have not been handed out
  sinceKey,         \* pictures encoded since the last key picture
  \* clsDemuxer
  packet,           \* the next picture of the video
  \* *message
  cursor, isSendingMessage,
  \* the sources
  open,             \* those that exist
  frameNumber,      \* of each: calls of doGetNextFrame
  delivered,        \* the unit delivered last
  \* the listeners
  heard,            \* of each: the positions 1 .. heard have just come in
  complete          \* of each: the whole message has come in

encoderVars == << output_queue, sinceKey >>
messageVars == << cursor, isSendingMessage >>
listenerVars == << heard, complete >>
streamVars == << encoderVars, packet, messageVars, open, frameNumber, delivered,
                 listenerVars >>

-----------------------------------------------------------------------------
(* NAL units *)

\* The position that stands for a carrier without a message bit.
Noise == 0

\* A unit is intact as long as the memory it points into holds what was
\* encoded for it.  Picture 0 is the white one.
Unit ==
  [kind : {"SPS", "PPS", "SEI", "slice", "empty"}, picture : 0 .. Pictures,
   bits : Seq(0 .. length), intact : BOOLEAN]

Header(kind, picture) ==
  [kind |-> kind, picture |-> picture, bits |-> << >>, intact |-> TRUE]

Slice(picture, bits) ==
  [kind |-> "slice", picture |-> picture, bits |-> bits, intact |-> TRUE]

\* What is left in nalUnit once a unit has been handed on: a unit of no bytes.
EmptyUnit == [kind |-> "empty", picture |-> 0, bits |-> << >>, intact |-> TRUE]

\* b_repeat_headers: a key picture brings the parameter sets along.
UnitsOf(picture, isKey, bits) ==
  (IF isKey
   THEN << Header("SPS", picture), Header("PPS", picture), Header("SEI", picture) >>
   ELSE << >>)
  \o << Slice(picture, bits) >>

\* x264 writes every picture into the same memory: what the queue still points
\* to is lost.
Overwritten(queue) == [i \in DOMAIN queue |-> [queue[i] EXCEPT !.intact = FALSE]]

\* Stegano::getCapacity encodes the whole video and takes no unit out.  The
\* units hold random bits, and only those of the last picture are intact; that
\* further pictures may have been key pictures is left out.
DryRunUnits ==
  LET all == UnitsOf(1, TRUE, << Noise >>)
               \o [i \in 1 .. Pictures - 1 |-> Slice(i + 1, << Noise >>)]
  IN  [i \in DOMAIN all |-> [all[i] EXCEPT !.intact = (all[i].picture = Pictures)]]

-----------------------------------------------------------------------------
(* startStreaming, up to the event loop: everything is opened again, but    *)
(* the queue is not emptied and the cursor stays where messageInit put it.  *)

StreamInit ==
  /\ \E measured \in Measured : output_queue = IF measured THEN DryRunUnits ELSE << >>
  /\ sinceKey = KEYINT
  /\ packet = 1
  /\ cursor = 0
  /\ isSendingMessage = FALSE
  /\ open = {}
  /\ frameNumber = [s \in Source |-> 0]
  /\ delivered = EmptyUnit
  /\ heard = [l \in Listener |-> 0]
  /\ complete = [l \in Listener |-> FALSE]

\* The constructor and the destructor of clsVideoFramedSource; the counter of a
\* source that does not exist is kept at 0.
OpenSource(s) ==
  /\ open' = open \cup {s}
  /\ UNCHANGED frameNumber

CloseSource(s) ==
  /\ open' = open \ {s}
  /\ frameNumber' = [frameNumber EXCEPT ![s] = 0]

\* l begins to listen.
Attach(l) ==
  /\ heard' = [heard EXCEPT ![l] = 0]
  /\ complete' = [complete EXCEPT ![l] = FALSE]

-----------------------------------------------------------------------------
(* Delivery *)

\* Mutant: the last byte does not fit either.
TruncatedShort(unit) ==
  [unit EXCEPT !.bits = SubSeq(@, 1, IF Len(@) < fMaxSize THEN Len(@) ELSE fMaxSize - 1)]

Truncated(unit) ==
  [unit EXCEPT !.bits = SubSeq(@, 1, IF Len(@) < fMaxSize THEN Len(@) ELSE fMaxSize)]

\* One more carrier: the next bit of the message, its first bit, or neither.
Hear(count, position) ==
  IF position = count + 1 THEN position
  ELSE IF position = 1 THEN 1
  ELSE 0

\* What has come in behind each of the carriers, and behind the last of them.
HeardAfter(count, bits) ==
  LET after[k \in 0 .. Len(bits)] ==
        IF k = 0 THEN count ELSE Hear(after[k - 1], bits[k])
  IN  after

HeardWith(count, bits) == HeardAfter(count, bits)[Len(bits)]

Completes(count, bits) == \E k \in 1 .. Len(bits) : HeardAfter(count, bits)[k] = length

\* The unit is copied out of the encoder's memory and handed on at once.
deliverFrame(unit, listeners) ==
  LET sent == Truncated(unit)
  IN /\ delivered' = sent
     /\ heard' = [l \in Listener |->
          IF l \in listeners THEN HeardWith(heard[l], sent.bits) ELSE heard[l]]
     /\ complete' = [l \in Listener |->
          complete[l] \/ (l \in listeners /\ Completes(heard[l], sent.bits))]

-----------------------------------------------------------------------------
(* clsX264Encoder::encodeFrame, with messageReadBit for each carrier         *)

\* Mutant: the reads behind the end of the message move the cursor too.
CursorOverruns(n, at) == at + n

CursorAfter(n, at) == IF at + n < length THEN at + n ELSE length

\* The bits that n carriers of one picture are given, from position `at` on.
BitsFor(n, at, sending) ==
  [i \in 1 .. n |-> IF sending /\ at + i <= length THEN at + i ELSE Noise]

\* The picture is encoded behind what the queue holds, and getNalUnit takes the
\* front out.  The read behind the last bit ends the message.
encodeFrame(picture, since, at, sending, listeners) ==
  \E n \in Carriers[picture], isKey \in BOOLEAN :
    /\ since >= KEYINT => isKey
    /\ LET all == Overwritten(output_queue)
                    \o UnitsOf(picture, isKey, BitsFor(n, at, sending))
       IN /\ output_queue' = Tail(all)
          /\ deliverFrame(Head(all), listeners)
    /\ sinceKey' = IF isKey THEN 1 ELSE since + 1
    /\ cursor' = IF sending THEN CursorAfter(n, at) ELSE at
    /\ isSendingMessage' = (sending /\ at + n <= length)

-----------------------------------------------------------------------------
(* clsVideoFramedSource::doGetNextFrame: every call counts as a frame,      *)
(* although it delivers one NAL unit                                        *)

Calls(s) == (frameNumber[s] + 1) % (UINT_MAX + 1)

\* Whatever the phase: as long as the queue holds a unit, nothing is encoded.
FromQueue(s, listeners) ==
  /\ output_queue # << >>
  /\ deliverFrame(Head(output_queue), listeners)
  /\ output_queue' = Tail(output_queue)
  /\ UNCHANGED << sinceKey, packet, messageVars >>

\* White pictures, as long as the client synchronises.
WhitePicture(s, listeners) ==
  /\ output_queue = << >>
  /\ Calls(s) < SYNCING_FRAMES
  /\ encodeFrame(0, sinceKey, cursor, isSendingMessage, listeners)
  /\ UNCHANGED packet

\* Mutant: the video begins although the queue still holds units.
BeginVideoAtOnce(s, listeners) ==
  /\ Calls(s) = SYNCING_FRAMES
  /\ encodeFrame(1, KEYINT, cursor, TRUE, listeners)
  /\ packet' = 2

\* Demuxer, decoder and encoder are opened again, the message is armed, and the
\* cursor stays where it is.
BeginVideo(s, listeners) ==
  /\ output_queue = << >>
  /\ Calls(s) = SYNCING_FRAMES
  /\ encodeFrame(1, KEYINT, cursor, TRUE, listeners)
  /\ packet' = 2

\* Mutant: every picture begins the message again.
NextPictureAfresh(s, listeners) ==
  /\ output_queue = << >>
  /\ Calls(s) > SYNCING_FRAMES
  /\ packet <= Pictures
  /\ encodeFrame(packet, sinceKey, 0, TRUE, listeners)
  /\ packet' = packet + 1

\* A message that has been sent begins again with the next picture.
NextPicture(s, listeners) ==
  /\ output_queue = << >>
  /\ Calls(s) > SYNCING_FRAMES
  /\ packet <= Pictures
  /\ encodeFrame(packet, sinceKey, IF isSendingMessage THEN cursor ELSE 0, TRUE, listeners)
  /\ packet' = packet + 1

\* Everything begins again, with a unit of no bytes: the fragmenter asks for
\* the next one at once.
EndOfVideo(s, listeners) ==
  /\ output_queue = << >>
  /\ Calls(s) > SYNCING_FRAMES
  /\ packet > Pictures
  /\ packet' = 1
  /\ sinceKey' = KEYINT
  /\ cursor' = 0
  /\ isSendingMessage' = TRUE
  /\ deliverFrame(EmptyUnit, listeners)
  /\ UNCHANGED output_queue

doGetNextFrame(s, listeners) ==
  /\ frameNumber' = [frameNumber EXCEPT ![s] = Calls(s)]
  /\ \/ FromQueue(s, listeners)
     \/ WhitePicture(s, listeners)
     \/ BeginVideo(s, listeners)
     \/ NextPicture(s, listeners)
     \/ EndOfVideo(s, listeners)

-----------------------------------------------------------------------------
(* One source after another, each heard by one listener.  Once its client   *)
(* plays, the sink asks a source for the next unit again and again          *)
(* (MultiFramedRTPSink schedules its next packet behind every packet).      *)

Begin(s) ==
  /\ open = {}
  /\ OpenSource(s)
  /\ Attach(s)
  /\ UNCHANGED << encoderVars, packet, messageVars, delivered >>

Read(s) ==
  /\ s \in open
  /\ doGetNextFrame(s, {s})
  /\ UNCHANGED open

Leave(s) ==
  /\ s \in open
  /\ CloseSource(s)
  /\ UNCHANGED << encoderVars, packet, messageVars, delivered, listenerVars >>

StreamNext == \E s \in Source : Begin(s) \/ Read(s) \/ Leave(s)

StreamFairness == \A s \in Source : WF_streamVars(Read(s))

StreamSpec == StreamInit /\ [][StreamNext]_streamVars /\ StreamFairness

-----------------------------------------------------------------------------
(* Properties *)

\* Every variable has its type (clsVideoFramedSource.h, clsX264encoder.h,
\* message.h).
StreamTypeOK ==
  /\ output_queue \in Seq(Unit)
  /\ sinceKey \in 1 .. KEYINT
  /\ packet \in 1 .. Pictures + 1
  /\ cursor \in 0 .. length
  /\ isSendingMessage \in BOOLEAN
  /\ open \subseteq Source
  /\ frameNumber \in [Source -> 0 .. UINT_MAX]
  /\ delivered \in Unit
  /\ heard \in [Listener -> 0 .. length]
  /\ complete \in [Listener -> BOOLEAN]

\* A NAL unit is a pointer into memory that the encoder writes again with the
\* next picture: a unit that waits in the queue still is what was encoded, as
\* no picture is encoded before the queue is empty (doGetNextFrame).
UnitsIntact == \A i \in DOMAIN output_queue : output_queue[i].intact

\* Across white pictures, the beginning of the video and the wrap of the frame
\* counter a listener who is in the middle of the message goes on with its next
\* bit, with no bit left out and no carrier without a bit between, unless the
\* message is complete or begins again.
KeepsInStep ==
  [][\A l \in Listener :
       UNCHANGED open /\ heard'[l] < heard[l] =>
         \/ heard[l] = length
         \/ Completes(heard[l], delivered'.bits)
         \/ 1 \in Range(delivered'.bits)]_streamVars

\* Who keeps listening receives the whole message in one piece, wherever the
\* message was when the source was opened (doGetNextFrame arms it again).
WholeMessageReceived ==
  \A s \in Source : s \in open ~> (complete[s] \/ s \notin open)

-----------------------------------------------------------------------------
(* What a comment says of encodeFrame *)

\* "Encode the rgb frame into a sequence of NALs unit that are stored"
\* (clsX264encoder.cpp): what is handed out is what was encoded.
StoredUnitsAreDelivered == delivered.intact
=============================================================================
