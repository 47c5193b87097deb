# libvideostegano in TLA+

libvideostegano hides a file in an H.264 video. Each bit of the file selects the parity of
an intra prediction mode while a patched x264 encodes the video, and a patched ffmpeg
decoder collects the parities again. This directory holds TLA+ modules that model the
library and its hooks in x264 and ffmpeg, TLC configurations that check them on small
instances, and TLAPS proofs of the main results for all values of the constants.
`PROJECT.json` maps every definition to the source lines it stands for.

## 1. The system

| Part | State it keeps | Operations | What is hard about it |
|---|---|---|---|
| Message layout (`Private/hlpFunctions.cpp`, `Private/clsPrivateDestegano.cpp`) | none | `messageInit`, `ascii2Binary`, `binaryToAscii` | field boundaries; the two sides are written separately |
| Message reader (`libx264/message.c`) | `stuMessage`: body, cursor, `isSendingMessage`, `isInitialized`, `gettingCapacity`, counter | `messageReadBit` | the end is noticed one read late; capacity runs use the same record |
| Message decoder (`ffmpeg/libavcodec/decodeMessage.c`) | section, bits received, buffer sizes, `isBusy` | `decode_msg_add_bit` | five sections, each ended by the bit that follows it; sliding window; shared buffer |
| Prediction modes as carriers (`libx264/encoder/analyse.c`, `common/predict.h`, `libavcodec/h264_parse.c`, `h264_cabac.c`, `h264_cavlc.c`) | two globals that describe the current macroblock | `ebi_estegano`, `x264_mb_analyse_intra_chroma`, `ff_h264_check_intra_pred_mode` | two numberings, five neighbour situations, luma constants in the chroma branch |
| Macroblock coding (`libx264/encoder/encoder.c`, `ratecontrol.c`) | bitstream, backup of the row | slice loop, `x264_ratecontrol_mb` | a row that is taken back does not give its bits back |
| Session state (`VideoSteg.cpp`, `Stegano.cpp`, `Private/ffmpeg/ffmpeg.c`) | the global `stegano`, the shared `message` pointer, ffmpeg's static variables | `Embed`, `Extract`, `FileAndMessageInfo`, `EmbedNetworkStreaming` | everything survives the call; failures leave half of a state |
| Streaming source (`Private/clsVideoFramedSource.cpp`, `clsX264encoder.cpp`) | NAL queue, frame number, truncated unit | `doGetNextFrame`, `deliverFrame` | units are pointers into memory x264 writes again; restart at the end of the video, resending of the message |
| RTSP subsession (`Private/clsLiveServerMediaSubsession.cpp`) | SDP line, done flag, dummy sink | `getAuxSDPLine`, `checkForAuxSdpLine1` | a polling event loop inside an event handler, which handles further requests |
| Demuxer, decoder, muxer, command line | a libav context | thin wrappers | nothing of their own, except the demuxer's left-over context (in SteganoApi) |
| The rest of x264, ffmpeg, live555 | | | third-party code, not modelled |

How they interact: `Embed` sets the static `Stegano::key`, lets `Stegano::openVideo` open
demuxer and encoder, lets `Stegano::embed` fill the shared record through `messageInit`,
arms it in `startEncoding` and runs the ffmpeg program as a function (`embedVideo`).
The first libx264 encoder that program opens takes over the record
(`init_output_stream`), and its macroblock analysis calls `messageReadBit` once for
every carrier. `Extract` has its own demuxer and decoder; ffmpeg's H.264 decoder calls
`decode_msg_add_bit` once for every carrier and `extractMessage` looks at the result
between two packets. `FileAndMessageInfo` prepares a message in the same way and then
drives the library's own encoder in a dry run that only counts. `EmbedNetworkStreaming`
prepares a message too, opens everything again and enters live555's event loop for good:
each source object (`clsVideoFramedSource`) asks the one shared encoder for its next NAL
unit, and each DESCRIBE of a client creates a source of its own besides the one of the
stream.

What makes each part correct:

* layout, reader, decoder: what is extracted with the right key is the embedded file or
  nothing, and it is the file exactly when the video carried all of the frame;
* carriers: a mode that is allowed and has the parity of the bit, which the decoder counts
  and reads; both sides pass over the same macroblocks;
* macroblock coding: one carrier for one read, in the same order; rows that are encoded
  again lose their own bits and no others;
* session: a call that reports success did what it was asked for, whatever went before,
  and does no harm to the outputs of earlier calls;
* stream: a unit that is handed out still is what was encoded, no two sinks take units in
  turns, and a client that keeps playing receives the whole message, whenever it comes;
* subsession: every DESCRIBE is answered, whoever plays is served, no source is left over.

There are no threads in the encoder (`i_threads = 1`, and one message record per
process), so in the library's calls the hard behaviour is in their order, in boundaries and
in left-over state. The server is one thread as well, but its event loop interleaves
the requests of all clients with the reads of all sinks, and runs loops within loops. The hazards, each at its line and with the properties that guard
against it, are listed in `PROJECT.json`.

## 2. Modules

| Module | Models | Builds on |
|---|---|---|
| `Framing` | the bit layout, as pure functions with the field widths as parameters | |
| `MessageReader` | `stuMessage` and `messageReadBit`: one action per branch (`ReadRandom`, `ReadIdle`, `ReadNext`, `ReadPastEnd`) | `Framing` |
| `DecodeMessage` | `decode_msg_add_bit`: one action per branch of each section, with the sizes of the buffers it allocates | `Framing` |
| `CarrierChannel` | the abstract specification of an encoder: every carrier takes one answer of `messageReadBit` and holds it | `MessageReader` |
| `MessageTransfer` | the abstract specification of `Embed` and `Extract`: a file goes in whole or not at all, a success means whole, with the key it comes out | |
| `HiddenChannel` | one video: `FileAndMessageInfo` (`PrepareInfo`, `BeginCapacity`, `CountCarrier`, `EndCapacity`), `Embed` (`PrepareMessage`, `StartEncoding`, `EncodeCarrier`, `FinishEncoding`) and any number of `Extract`s (`BeginExtract`, `DecodeCarrier`, `StoreMessage`, `VideoExhausted`) | `CarrierChannel`, `DecodeMessage`; implements `MessageTransfer` |
| `PredMode` | how one luma or chroma mode carries a bit, from the choice of the mode through the code in the bitstream to the decoder's number | |
| `MacroblockCoder` | x264's slice loop as far as it touches the message, with row re-encoding, and the decoder as a function of the bitstream | `PredMode`, `MessageReader`; implements `CarrierChannel` |
| `SteganoApi` | what the calls of one process leave behind for each other, in memory and on disk: `Embed`, `FileAndMessageInfo` and `EmbedNetworkStreaming` up to the point where it serves, with `Extract` between them; a message is its length, an encoding one step | |
| `StreamSource` | `doGetNextFrame` with its branches (`FromQueue`, `WhitePicture`, `BeginVideo`, `NextPicture`, `EndOfVideo`), `deliverFrame`, and the encoder's queue; one source after another | |
| `LiveSubsession` | the subsession and its clients: `DescribeCached`, `DescribeFirst`, `DescribeNested`, `CheckForAuxSDPLine`, `LeaveLoop`, `Setup`, `Play`, `Teardown`, and the two sinks that read (`ReadDummy`, `ReadLive`) | `StreamSource` |
| `Recursion` | lemmas about functions over the naturals and over intervals that are defined by recursion; no code | |
| `FramingProofs`, `HiddenChannelProofs`, `PredModeProofs`, `MacroblockCoderProofs`, `SteganoApiProofs`, `StreamSourceProofs`, `LiveSubsessionProofs` | theorems and proofs | |
| `MCHiddenChannel`, `MCMacroblockCoder`, `MCSteganoApi`, `MCStreamSource`, `MCLiveSubsession` | constants for TLC | |

Correspondence with the code. `HiddenChannel`'s `video` is the sequence of bits that the
video's carriers hold. `MacroblockCoder` justifies it: its `Recovered` is what the
decoder gets from the bitstream, and with `video` mapped to those bits every step but the
taking back of a row is one of `CarrierChannel` or a stutter. So what is proved about the
channel holds for every choice of macroblock kinds and modes the encoder may make, as long as
no row is encoded again. What such a row does to it is the subject of `CarriedInOrder` and
`OnlyRowsAreLost`.

`extractMessage` works packet by packet, and looks for a complete message behind a packet of
sound or one that yielded a picture; behind the others `decodeFrame` returned false and it
goes on at once (`Destegano.cpp:76`), although their carriers have been decoded. In
`HiddenChannel` the packets are therefore left open: `StoreMessage` may come between any two
carriers once the message is complete, or never, and `lastChecked` says whether a check
follows the last carrier of the video. If the message is complete there and no check follows,
`VideoExhausted` ends the loop, with result 0 and without a file.

In `SteganoApi` the record `message` is `*(pPrivate->message)`, `holder` tells which of
three objects the pointer leads to: the one of Stegano's constructor, the one of the
library's own encoder, or the one of ffmpeg's first encoder. `inputs` is ffmpeg's
`input_files`, which no call ever empties: `open_output_file` picks the first of the
largest videos among *all* files the process has encoded (`Picked`), so a second Embed may
encode a file that has been read to its end (`EncodeOld`); with a sound track that ends
without a picture, without one `transcode` polls for ever (stage "stuck"). Undefined
behaviour is a choice: `initialized`, which nothing sets before `openVideo` reads it
(constant `Garbage`), `streams[-1]` for a sound file (`OpensAudio`), and `streams[nb_streams]`
in `embedVideo` (`EncodeCrashes`). After a sound file the demuxer keeps its context, and
`avformat_open_input` reads on from that one (`OpenLeftOver`). On disk the model knows the output files that exist (`disk`) and those
an Embed of this process has finished (`finished`). An output path is one a caller
names or the one `generateOutputFileName` makes up for a video (`Derived`); `openVideo`
removes the file of the first call only, and ffmpeg refuses an output that
exists (`EncodeRefused`: it asks, and nobody has answered yes).

In `StreamSource` the message is seen as the positions of its bits, and a NAL unit as the
positions its carriers hold. `output_queue` is the encoder's vector of NAL units; a unit is
`intact` until the next picture is encoded into the memory it points to (`Overwritten`).
`Measured` says whether a `FileAndMessageInfo` came before, which leaves the units of its
dry run in the queue (`DryRunUnits`). A listener is seen as the number of consecutive
positions it has just received (`heard`); it is a device of the model to say what a client
could extract, the code has no such variable. `LiveSubsession` adds who listens. Its `loops`
is the stack of event loops that run inside handlers of DESCRIBE: after each step the
innermost one looks at `fDoneFlag`, which nothing resets, and from the moment it is set no
request is handled until all of them have returned (`Listening`). Only the first DESCRIBE
plays its dummy sink; a nested one finds `fDummySink` taken and merely waits.

## 3. Runs

| Run | Instance | Question and answer |
|---|---|---|
| `hidden_channel` | start pattern 3 bits, extension length 2, message size 3, characters of 2 bits; 9 files, 2 keys with overlapping patterns, videos of 0 to 17 carriers, with a check behind the last one or without | Delivery, verdicts and the inductive invariant, which writes leave the decoder's buffers, that an extraction ends, and the refinement of `MessageTransfer`. All hold. |
| `unmarked_video` | 3-bit self-overlapping patterns, all videos of up to 10 carriers, dry runs of up to 54 carriers before, Embed with and without a message | The decoder starts exactly when the pattern went by, and never changes a complete message. Counting leaves no trace; a message accepted against the capacity fits. |
| `macroblocks` | frames of 2 x 2 macroblocks, up to 4 of them, two messages, every choice of kind and mode, with and without chroma, at most one row encoded again | The encoder implements `CarrierChannel` but for the row it takes back; the mode that is left after a bit was read is allowed and yields that bit (`ModesCarryBits`); both sides count alike (`BothCountAlike`). Only the row's bits are missing, none is repeated or out of order; the capacity counter never falls short. |
| `calls_of_a_process` | 4 calls, and Extract anywhere between them; 2 videos, a sound file, a missing path, a short and a long file, 2 keys, 2 output paths or none | Success means that the file asked for is in the output under the key asked for; "don't embed" embeds nothing; an unfinished message blocks the process; at most one output carries a message; no output is removed by a later call; the stream carries the message of its call if its preparation succeeded. |
| `stream` | 2 sources one after the other, message of 3 bits, white pictures with 0 or 1 carrier, a video of 2 pictures with 1 or 2 carriers, a framer with room for exactly 2, with and without a dry run before | Who keeps listening receives the whole message in one piece, from wherever it began; nobody who is in the middle of it loses a bit. |
| `clients` | 3 clients that ask for a description before they set up, message of 2 bits, one carrier in each picture | Units are never written over while they wait, one sink at a time reads, no source is left over, players are served and none loses a bit to a description or to who comes and goes; every DESCRIBE is answered and every player receives the message. |
| `full_video`, `empty_message`, `unseen_end`, `second_embed`, `other_info`, `stale_units` | as small as the case allows | Each states what a message or comment of the library says, and shows an execution in which it is not so (section 5). |

Why the bounds are enough. Fields of two or three bits have all the values that the code
tells apart: no extension, one that is shorter than the message size field, as those of one to
three characters are in the code, and a longer one; empty, one-character and longer contents.
The longest frame is 3+2+4+3+4 = 16 bits, so 17 carriers include videos that end inside each
section, exactly at the end and one behind it; shorter files leave room further behind. Bit and
field widths enter the proofs as parameters. Frames of 2 x 2 macroblocks give each neighbour situation that one
slice per frame can produce; the theorems of `PredModeProofs` range over all five. For `SteganoApi`,
everything a call can leave behind is a flag or one of the two videos, and three calls
(measure, fail, retry) reach each of them; the fourth shows that nothing comes back. In the
two modules of the stream, `SYNCING_FRAMES`, `KEYINT` and `Pictures` of 2 or 3 instead of the
code's numbers still put a key picture, the beginning of the video and its end in
different phases against each other. `UINT_MAX` is small so that `frameNumber` wraps within
a run: at each wrap the source shows white pictures and begins the video again,
in the code after 2^32 calls. The message has to fit in between; the run with `UINT_MAX` 4
instead of 5 has too few pictures between two wraps and `PlayerReceivesAll` fails in it. Three
clients give a loop within a loop within a loop, and a player who leaves while two stay. The
bounds are `MaxCarriers`, `MaxCounted`, `MaxMacroblocks`, `MaxReencodes` and `MaxCalls`;
`StreamSource` and `LiveSubsession` have finitely many states without any bound.

Deadlock is not checked in `macroblocks` (a video ends) nor in the
runs of `SteganoApi` (the process may die, and the number of calls is bounded).

Fairness. `HiddenChannel` has weak fairness of the steps of one extraction
(`DecodeCarrier`, `StoreMessage`, `VideoExhausted`, taken together). They are the body of the loop in
`extractMessage`, which runs in the caller's thread without waiting for anyone, on a
finite file. `StreamSource` has weak fairness of the read of a source that is open, and
`LiveSubsession` of `ReadLive`, `ReadDummy`, `CheckForAuxSDPLine` and `LeaveLoop`: a live555
sink schedules its next read behind each packet, `checkForAuxSdpLine1` schedules itself
again as a delayed task, and the event loop, outer or inner, runs each task that is due.
Loops return from the inside out, which `LeaveLoop`'s guard says, and fairness is of the
innermost one. Callers and clients are under no obligation to do anything.

## 4. Proofs

All proofs are checked by tlapm 1.4.5. Assumptions are those named in the modules:
`WidthsAssumption` (all fields have at least one bit, characters at least two),
`ChannelAssumption` (types of the constants), `ExtensionLengthFits` and `MessageSizeFits` (the
fields of the extension's length and of the message's size are not longer than the start
pattern, whose buffer they are read into, the latter when there is no extension: 8, 32 and 32
bits in the code), and `FilesFit`: the extension's length and the
size of the contents fit their fields, and the number of message bits fits a C int. The code
checks none of the last; from 2^28 bytes on `messageLength *= BYTE` leaves the int.

* `Recursion`: what the other proofs need of recursive functions. `NatSetInduction` is
  induction over a set of naturals; `Iteration` (a step applied n times) and
  `FiniteRecursion` (a function on `0 .. n` defined through its previous value) say that such a
  function exists and satisfies its equation.
* `FramingProofs`: a number that fits a field is read back from its bits
  (`FieldRoundTrip`), `binaryToAscii` inverts `ascii2Binary` (`CharsRoundTrip`), and where
  each field of a frame lies (`FrameLayout`), for all widths.
* `HiddenChannelProofs`: all safety properties of `hidden_channel` and `unmarked_video`.
  `TypeCorrect`, `Delivery`, `Retrieval`, `Success`, `Carriers`, `Accepted`, `Decoder` rest on
  the invariant `IInv == TypeOK /\ CarriersHoldMessage /\ DecoderInStep /\
  ResultsInStep`. Delivery alone is not inductive: that the decoder stores the right file
  needs to know that the bits collected in its section are those the frame has there
  (`DecoderInStep`, by section), which needs to know that the video's carriers hold the
  frame without a gap (`CarriersHoldMessage`), and a finished call's result has to be tied
  to the state it was computed from (`ResultsInStep`). TLC checks the first three as
  invariants of `hidden_channel`. The proof has one lemma per conjunct
  (`CarriersStep`, `DecoderStep`, `ResultsStep`), the decoder's split by section, and
  uses `FrameLayout` and the round trips where a section ends.
  `Retrieval` and `Success` say that the file is found, and that it is written if a check
  follows the last carrier. `TransferTheorem` is the refinement: every step is one of
  `MessageTransfer` or a stutter.
  `StartFound` does not use the frame at all, as it is about any video: its invariant
  (`WindowInStep`) says that in the first section the decoder's window is the end of what has
  gone by, and that the pattern was not found earlier. `InBuffer` adds to `IInv` what each section has
  allocated (`BufferInStep`), and says in which two cases, and in no other, a write leaves
  the buffer (section 5). `CompleteStays` is an action property: a decoder
  that is no longer `isBusy` stores nothing.
* `PredModeProofs`: `LumaBit` and `ChromaBit` (a mode that is left after embedding a bit is
  allowed and the decoder reads that bit), `LumaCountedAlike` and `ChromaCountedAlike` (it
  passes over the modes without neighbours and no others), by cases on the neighbours.
* `MacroblockCoderProofs`, for every frame size and every message, in two layers. The first
  is about the macroblock in progress: `TypeCorrect`, `ModesCarry`, `CountAlike`, with the
  invariant `IInv == TypeOK /\ ModesAllowed /\ ModesCarryBits`; `ModesAllowed` is needed
  because the modes that were chosen without a bit have to be allowed too before the
  decoder's count can be compared. One lemma per action; `ReaderStep` says what an answer of
  `messageReadBit` may be, and the two that read cite the theorems of `PredModeProofs`. The
  second layer is about the whole bitstream. `CarriersStep` says that a step leaves the carriers
  alone (`SameCarriers`: also when the macroblock in progress is written, whose carriers only
  move), appends the one that gives the answer of this step's read back (`OneCarrierMore`), or
  cuts off at most two for each macroblock of a row (`RowTakenBack`). Everything else
  follows from these three cases without looking at a macroblock again.
  `CarriedInOrderTheorem`: the invariant `InOrder` adds that what is in a carrier lies before the
  cursor, and that as long as the message goes on every carrier holds a bit of it (`Unbroken`); without
  the last, a carrier of the message could follow one of nothing. `OnlyRowsAreLostTheorem` counts the
  carriers that hold a bit. `CounterIsCapacityTheorem`.
  `CoderImplementsChannel`: every step but the taking back of a row (one that changes
  `reencodes`) is a step of `CarrierChannel` or a stutter. That one cannot be, since the channel
  never shrinks, and the two theorems before say what remains.

* `SteganoApiProofs`: all eight invariants of `calls_of_a_process`, for any number of calls
  and any videos, files, keys and paths that satisfy `ApiAssumption`. The invariant is their conjunction with
  `InitializedOnce`, `OneVideo`, `InCall`, `Prepared` and `FirstVideo`: what is true of the
  object as long as nothing was opened, that the demuxer holds one video, what a call under
  way still has of its request, what `initEmbedding` has left when the encoder starts, and
  that the first encoding of a process picks the file the call asked for, because it is the
  only one. `SuccessCarriesRequest` needs all of them: the message has to be the one of this
  call (`Prepared`), in the record the encoder is given (`OneVideo`), for the video that was
  asked for (`FirstVideo`). One lemma per action, each with one step per part.
* `StreamSourceProofs`, for any sources in any order, any video, any message and any width of
  the frame counter. `StreamTypeCorrect`: the types. `UnitsIntactTheorem` assumes
  `Measured \subseteq {FALSE}`, as the run `stale_units` shows it must. The invariant
  `QueueInv` says that each unit in the queue is intact. It is inductive because every branch
  of `doGetNextFrame` that encodes has found the queue empty; one lemma per branch.
  `InStepTheorem` (`KeepsInStep`) also holds after a dry run. Its invariant `QueueInStep` relates the queue to
  the listeners: either it holds nothing but the units of a dry run, and nobody has heard
  anything (`NoiseWaits`), or its last unit alone has carriers, which were read from the position where
  the listeners stand, and cursor and flag are those behind them (`PictureWaits`). What one
  picture does to a listener in step is `HearPicture`, by induction over its carriers. The theorem
  assumes `UnitsFit`: every unit fits into the buffer of the framer. Otherwise `deliverFrame`
  cuts off carriers and a bit is lost, which KeepsInStep rightly calls out; in the code
  the buffer is live555's `OutPacketBuffer::maxSize`.
* `LiveSubsessionProofs`, for any number of clients: `LiveTypeCorrect`, `SourcesInUseTheorem`,
  `PlayersAreServedTheorem`, `LiveUnitsIntact` (with `Measured \subseteq {FALSE}`), and, for clients that
  ask for a description before they set up (`SetupFrom \subseteq {"described"}`), `OneReaderTheorem`
  and `PlayersKeepInStepTheorem` (with `UnitsFit`). The invariant is `LiveInv == LiveTypes /\
  LoopsInv /\ DummyInv /\ PlayingInv /\ SourcesInUse /\ PlayersAreServed`, and for the last two
  theorems also `OrderInv` (`Ordered`): as long as a loop runs, nobody has set up the stream, since a SETUP
  needs a description and there is none before the first loop has been left, after
  which no loop handles another request. So the dummy sink (`DummyInv`: it belongs to a loop) and
  the stream's (`PlayingInv`: it has a user) never run together. `PlayersKeepInStep` composes
  this with `QueueInStep`, stated there for any set of listeners, here the stream's users: whenever a dummy sink
  reads there are none, and who has set up but does not play yet has heard nothing (`ReadyInv`).

Every safety property and every refinement that a passing run checks is stated by a theorem.
Only model-checked is liveness (`ExtractionEnds`, `WholeMessageReceived`,
`DescriptionAnswered`, `PlayerReceivesAll`), which is beyond this prover: it needs fairness and ENABLED.

## 5. Where the code and its words differ

* `full_video`: a video with exactly as many carriers as the message has bits holds all of
  it, yet Embed says that it could not be embedded (`Stegano.cpp:238`).
* `empty_message`: an empty file is embedded whole, and `extractMessage` calls it incomplete
  (`decodeMessage.c:97`).
* `unseen_end`: when the message is completed by the last packets of the video and these yield no
  picture, `extractMessage` says that it was retrieved and stored, and has written nothing
  (`Destegano.cpp:76`).
* `second_embed`: only the first Embed of a process can embed; each later one blames the
  size of the message (`ffmpeg.c:2727`).
* `other_info`: FileAndMessageInfo describes the video the process opened first
  (`Stegano.cpp:81`).
* `stale_units`: a stream that follows FileAndMessageInfo begins with NAL units whose memory
  x264 has written over meanwhile (`Stegano.cpp:200`).

The decoder writes behind two of its buffers, always, which no document speaks of;
`WritesInBuffer` says exactly when. The buffer of an extension of n characters has 8n+1 bytes
(`decodeMessage.c:59`) and is used for the message size too: with one to three characters ("h",
"7z", "txt", "mp4") the NUL at index 32 (`:82`) and some of the 32 bits (`:87`) lie behind it. The
buffer of an empty message has one byte (`:96`), and two bits are stored (`:97`, `:104`). The
model keeps the bits it writes there; what else such a write changes is outside it, so all
that is said here about files with these extensions presumes that it changes nothing.

Two consequences of left-over state have no run of their own. After the failure
of `second_embed` each further call is told that a message is being sent (`Stegano.cpp:49`),
which is what `UnfinishedMessageBlocks` describes. And a message is refused for a capacity
measured on another video, or when there was none (`Stegano.cpp:70`); `CapacityIsOfDemuxed`
says whose capacity it is.

## 6. What is left out, and why

* Lossless macroblocks, `subme >= 5` (chroma motion estimation reads the chroma bit before
  the luma bit) and PCM macroblocks: not reachable with the presets the library sets
  ("veryfast", CRF). MBAFF and constrained intra prediction likewise.
* Costs, transforms, motion and entropy coding: they choose modes or write them, and any
  choice is allowed in the model.
* The effect of a re-encoded row on the decoder's sections: the channel of `HiddenChannel`
  has none; `MacroblockCoder` says what is lost. So what `SuccessIsRetrievable` promises is
  promised for videos without such a row; with one, Embed may return 0 for a message with a hole
  (`OnlyRowsAreLost`). `StreamSource` has no re-encoded rows either.
* What lies behind the buffer of the message, which no NUL ends (`decodeMessage.c:96`):
  `binaryToAscii` looks for one with `strlen` and converts what it finds, behind the characters of
  the message, of which `fwrite` takes the right number (`StoredMessage`).
* The contents of files on disk. `disk` has which exist. `OutputsKept` is about their removal: a
  second `embedVideo` opens no file of an earlier one again, but `transcode_init` writes the
  headers of all `output_files` once more and `transcode` their trailers, at the end of what
  the earlier call has written; what a player makes of that is not modelled. Inputs and
  outputs are different paths; with the same one for both, the first `openVideo` removes the input.
* `Extract` in `SteganoApi` leaves a key and nothing else. The demuxer of `clsPrivateDestegano` is never
  closed (`Destegano.cpp:30`), so a second Extract of one process may read on in what the first has
  left; `HiddenChannel` takes each Extract as the first of its process.
* In the stream: a video that cannot be opened again, or has no pictures (`doGetNextFrame` would
  ask the framer again without end). It is the video the process opened first, as in `other_info`.
* The size of a streamed message: `EmbedNetworkStreaming` checks no capacity, and the cursor is set
  back at the end of the video. `WholeMessageReceived` and `PlayerReceivesAll` therefore rest on
  each pass over the video having room for the message, as those of the runs have.
* In the subsession: RTP over UDP and its losses (a lost unit loses a part of the message, and the
  next round brings it again), ports, RTCP except as the end of a
  client, and the memory that a nested DESCRIBE leaks with its unused sink.
* A SETUP without a DESCRIBE: a client that knows the URL may send one, and the server accepts it
  (`RTSPServer.cpp:751-776`). The run `clients` has none. With `SetupFrom = {"new", "described"}`
  in `MCLiveSubsession.cfg` TLC shows what then fails: a dummy sink reads beside the
  stream's and takes units from the players (`OneReader`, `PlayersKeepInStep`,
  `PlayerReceivesAll`), and the stream may take the parameter sets a description waits for
  (`DescriptionAnswered`). `UnitsIntact`, `SourcesInUse` and `PlayersAreServed` still hold, and are
  proved without that assumption.
* A message record that is read while `getProgress` is polled: progress is never decided on.
* Demuxer and decoder beyond what they keep between calls, the muxer (every call of it is
  commented out), the command line, build scripts.
* The third-party code. About 99 % of the lines in `src/` are ffmpeg, x264 and live555 as their
  authors publish them. The library has changed a few hundred of them; those, the
  code they rely on, and the library's own files are what is modelled. The share of the
  whole tree that the map covers is therefore small and cannot become large.

## 7. Plan

1. Done: `Framing`, `MessageReader`, `DecodeMessage`, `HiddenChannel` with proofs.
2. Done: `CarrierChannel`, `PredMode` with proofs, `MacroblockCoder`, `SteganoApi`.
3. Done: `StreamSource` and `LiveSubsession` with proofs, on disk state and streaming in
   `SteganoApi`, and its proofs.
4. Done: `MessageTransfer`, which `HiddenChannel` implements, with its proof.
5. Done: proofs of all remaining safety properties and of the refinement of `CarrierChannel`.
6. Done: packets without a check in `HiddenChannel`, the writes that leave the decoder's buffers,
   clients without a description in `LiveSubsession`.
7. Open: `PlayersKeepInStep` for units that are cut off (which bits a listener then misses); the
   demuxer of `Extract` in `SteganoApi`.
