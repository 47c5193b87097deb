----------------------------- MODULE SteganoApi -----------------------------
(***************************************************************************)
(* The state that libvideostegano keeps between the calls of a process:    *)
(* the global object stegano (VideoSteg.cpp, Stegano.cpp), the messages it *)
(* and its two encoders share by pointer, and the static variables of the  *)
(* ffmpeg program that embedVideo runs in the same process                 *)
(* (Private/ffmpeg/ffmpeg.c).                                              *)
(*                                                                         *)
(* A call is a sequence of steps, one for each function of Stegano it      *)
(* makes.  HiddenChannel looks into one call, carrier by carrier; here a   *)
(* message is its length and an encoding is one step, and the question is  *)
(* what one call leaves behind for the next, in memory and on disk.        *)
(* EmbedNetworkStreaming is followed to the point where it serves;         *)
(* StreamSource goes on from there.                                        *)
(***************************************************************************)
EXTENDS Integers, Sequences, FiniteSets, FiniteSetsExt

CONSTANTS
  Video,         \* the paths that callers pass as input
  Kind,          \* of each path: "missing", "audio" or "video"
  Size,          \* pixels of a frame of each video
  Counted,       \* reads of a capacity run over each video
  CarriersIn,    \* carriers that embedVideo's encoder finds in each video
  File,          \* the files to embed
  Length,        \* bits of each file once it is framed
  Key,           \* values of Stegano::key
  Path,          \* the output paths
  Derived,       \* of each video: the output path made up for it, "..._embeded"
  Garbage,       \* what the memory of clsPrivateStegano::initialized may hold
  MaxCalls       \* bound: calls of a process

ASSUME ApiAssumption ==
  /\ Kind \in [Video -> {"missing", "audio", "video"}]
  /\ Size \in [Video -> Nat]
  /\ Counted \in [Video -> Nat] /\ CarriersIn \in [Video -> Nat]
  /\ Length \in [File -> Nat \ {0}]
  /\ Derived \in [Video -> Path]
  /\ Garbage \subseteq BOOLEAN
  /\ MaxCalls \in Nat

VARIABLES
  \* Stegano and clsPrivateStegano
  key,                \* Stegano::key
  named,              \* outputFileName is not empty
  initialized,        \* openVideo has succeeded
  fileName,           \* clsDemuxer::fileName: at most one
  demuxed,            \* the files whose content the demuxer reads: at most one
  readable,           \* clsDemuxer::initialized
  capacity,           \* info.maximumCapacity
  described,          \* the videos whose size and frames info holds: at most one
  message,            \* *(pPrivate->message)
  \* ffmpeg.c
  inputs,             \* input_files: every path an encoding has opened so far
  initializedMessage, \* the message has been handed to the first encoder
  \* the file system
  disk,               \* the output paths at which there is a file
  finished,           \* those that an encoding of this process has written
  \* the call that is being made, or was made last
  stage, call, result, calls,
  output              \* what its output file carries: at most one message

objectVars == << key, named, initialized, fileName, demuxed, readable, capacity, described, message >>
programVars == << inputs, initializedMessage >>
diskVars == << disk, finished >>
callVars == << call, calls >>
vars == << objectVars, programVars, diskVars, stage, callVars, result, output >>

Unknown == -1

\* Mutant: more than there is is taken away.
EstimateOver(n) == n - (185 * n) \div 100

Estimate(n) == n - (85 * n) \div 100

(***************************************************************************)
(* The message record *(pPrivate->message).  holder tells which object it  *)
(* is: "P" made by Stegano's constructor, "A" the own encoder's, "X" the   *)
(* one of ffmpeg's first encoder.                                          *)
(***************************************************************************)
Fresh(holder) ==
  [holder |-> holder, isInitialized |-> FALSE, isSendingMessage |-> FALSE,
   content |-> {}, length |-> 0]

Calls ==
  [name : {"Embed"}, video : Video, file : File, key : Key, path : Path,
   doEmbedding : BOOLEAN]
    \cup [name : {"FileAndMessageInfo"}, video : Video, file : File]
    \cup [name : {"EmbedNetworkStreaming"}, video : Video, file : File, key : Key]

NoCall == [name |-> "none"]

\* initialized is never given a value before openVideo reads it.
Init ==
  /\ key \in Key
  /\ named = FALSE
  /\ initialized \in Garbage
  /\ fileName = {}
  /\ demuxed = {}
  /\ readable = FALSE
  /\ capacity = Unknown
  /\ described = {}
  /\ message = Fresh("P")
  /\ inputs = << >>
  /\ initializedMessage = FALSE
  /\ disk \in SUBSET Path
  /\ finished = {}
  /\ stage = "idle"
  /\ call = NoCall
  /\ result = 0
  /\ calls = 0
  /\ output = {}

\* Where a call goes on once initEmbedding has failed: FileAndMessageInfo
\* still asks for the information, EmbedNetworkStreaming still streams, and
\* Embed returns.
AfterFailure ==
  CASE call.name = "FileAndMessageInfo" -> "getInfo"
    [] call.name = "EmbedNetworkStreaming" -> "startStreaming"
    [] call.name = "Embed" -> "idle"

-----------------------------------------------------------------------------
(* The calls *)

\* Embed sets the key first; it fails with 7 if there is no key file.
BeginEmbed ==
  /\ stage = "idle"
  /\ calls < MaxCalls
  /\ calls' = calls + 1
  /\ call' \in {c \in Calls : c.name = "Embed"}
  /\ output' = {}
  /\ \/ /\ key' = call'.key
        /\ result' = 0
        /\ stage' = "openVideo"
     \/ /\ result' = 7
        /\ UNCHANGED << key, stage >>
  /\ UNCHANGED << named, initialized, fileName, demuxed, readable, capacity,
                  described, message, programVars, diskVars >>

\* Without a key file EmbedNetworkStreaming streams what there is.
BeginStreaming ==
  /\ stage = "idle"
  /\ calls < MaxCalls
  /\ calls' = calls + 1
  /\ call' \in {c \in Calls : c.name = "EmbedNetworkStreaming"}
  /\ output' = {}
  /\ \/ /\ key' = call'.key
        /\ result' = 0
        /\ stage' = "openVideo"
     \/ /\ result' = 7
        /\ stage' = "startStreaming"
        /\ UNCHANGED key
  /\ UNCHANGED << named, initialized, fileName, demuxed, readable, capacity,
                  described, message, programVars, diskVars >>

\* FileAndMessageInfo brings no key.
BeginInfo ==
  /\ stage = "idle"
  /\ calls < MaxCalls
  /\ calls' = calls + 1
  /\ call' \in {c \in Calls : c.name = "FileAndMessageInfo"}
  /\ output' = {}
  /\ result' = 0
  /\ stage' = "openVideo"
  /\ UNCHANGED << objectVars, programVars, diskVars >>

\* Extract only leaves its key behind: it has its own demuxer and decoder.
Extract ==
  /\ stage = "idle"
  /\ key' \in Key
  /\ UNCHANGED << named, initialized, fileName, demuxed, readable, capacity,
                  described, message, programVars, diskVars, stage, callVars,
                  result, output >>

-----------------------------------------------------------------------------
(* Stegano::openVideo *)

\* The output file is removed before the input has been looked at.  A path is
\* made up where the call gives none; once outputFileName holds another, the
\* new one is put in front of it, and no file has such a name.
Removed ==
  CASE call.name = "Embed" -> {call.path}
    [] call.name # "Embed" /\ ~named -> {Derived[call.video]}
    [] OTHER -> {}

OpensFirst ==
  /\ stage = "openVideo"
  /\ ~initialized
  /\ named' = TRUE
  /\ disk' = disk \ Removed
  /\ fileName' = {call.video}
  /\ UNCHANGED << finished, programVars, callVars, output >>

\* Mutant: an initialized object opens the new video and keeps the capacity.
OpenNext ==
  /\ stage = "openVideo"
  /\ initialized
  /\ stage' = "embed"
  /\ demuxed' = IF Kind[call.video] = "video" THEN {call.video} ELSE demuxed
  /\ UNCHANGED << key, named, initialized, fileName, readable, capacity, described,
                  message, programVars, diskVars, callVars, result, output >>

\* Mutant: an initialized object removes the output file too.
OpenAgainRemoves ==
  /\ stage = "openVideo"
  /\ initialized
  /\ stage' = "embed"
  /\ disk' = disk \ (IF call.name = "Embed" THEN {call.path} ELSE {Derived[call.video]})
  /\ UNCHANGED << objectVars, programVars, finished, callVars, result, output >>

\* An initialized object only takes note of the paths.
OpenAgain ==
  /\ stage = "openVideo"
  /\ initialized
  /\ stage' = "embed"
  /\ UNCHANGED << objectVars, programVars, diskVars, callVars, result, output >>

OpenFails ==
  /\ result' = 1
  /\ initialized' = FALSE
  /\ demuxed' = {}
  /\ stage' = AfterFailure
  /\ UNCHANGED << key, readable, capacity, described, message >>

\* streams[-1] is read before the index is checked: the process may die there.
OpensAudio(path) ==
  \/ /\ stage' = "dead"
     /\ UNCHANGED << key, initialized, demuxed, readable, capacity, described,
                     message, result >>
  \/ /\ demuxed' = {path}
     /\ readable' = TRUE
     /\ message' = Fresh("A")
     /\ result' = 3
     /\ stage' = AfterFailure
     /\ UNCHANGED << key, initialized, capacity, described >>

OpenMissing ==
  /\ OpensFirst
  /\ demuxed = {}
  /\ Kind[call.video] = "missing"
  /\ OpenFails

OpenAudio ==
  /\ OpensFirst
  /\ demuxed = {}
  /\ Kind[call.video] = "audio"
  /\ OpensAudio(call.video)

\* avformat_open_input finds the context of the audio file that was opened
\* before and reads on from it, whatever the new path is.
OpenLeftOver ==
  /\ OpensFirst
  /\ \E path \in demuxed : OpenFails \/ OpensAudio(path)

\* Mutant: the message stays where the constructor has put it.
OpenKeepsMessage ==
  /\ OpensFirst
  /\ demuxed = {}
  /\ Kind[call.video] = "video"
  /\ demuxed' = {call.video}
  /\ readable' = TRUE
  /\ described' = {call.video}
  /\ initialized' = TRUE
  /\ stage' = "embed"
  /\ UNCHANGED << key, capacity, message, result >>

Open ==
  /\ OpensFirst
  /\ demuxed = {}
  /\ Kind[call.video] = "video"
  /\ demuxed' = {call.video}
  /\ readable' = TRUE
  /\ described' = {call.video}
  /\ message' = Fresh("A")
  /\ initialized' = TRUE
  /\ stage' = "embed"
  /\ UNCHANGED << key, capacity, result >>

-----------------------------------------------------------------------------
(* Stegano::embed.  It is never reached without initialized (result 8).    *)

AfterEmbed == IF call.name = "Embed" THEN "startEncoding" ELSE AfterFailure

AlreadySending ==
  /\ stage = "embed"
  /\ message.isSendingMessage
  /\ result' = 9
  /\ stage' = AfterFailure
  /\ UNCHANGED << objectVars, programVars, diskVars, callVars, output >>

\* maximumCapacity is unsigned: the -1 of the constructor is no limit.
FitsCapacity(bits) == capacity = Unknown \/ bits <= capacity

\* Mutant: the start pattern is made before the key of the call is set.
FrameWithSomeKey(withKey) ==
  [message EXCEPT !.isInitialized = TRUE,
                  !.content = {[file |-> call.file, key |-> CHOOSE k \in Key : TRUE]},
                  !.length = Length[call.file]]

\* messageInit, and the start pattern made of Stegano::key.
Frame(withKey) ==
  [message EXCEPT !.isInitialized = TRUE,
                  !.content = {[file |-> call.file, key |-> withKey]},
                  !.length = Length[call.file]]

Prepare ==
  /\ message' = Frame(key)
  /\ \/ /\ FitsCapacity(Length[call.file])
        /\ stage' = AfterEmbed
        /\ UNCHANGED result
     \/ /\ ~FitsCapacity(Length[call.file])
        /\ result' = 4
        /\ stage' = AfterFailure
  /\ UNCHANGED << key, named, initialized, fileName, demuxed, readable, capacity,
                  described, programVars, diskVars, callVars, output >>

\* Mutant: embed does not look at isSendingMessage.
PrepareAnyway ==
  /\ stage = "embed"
  /\ Prepare

PrepareMessage ==
  /\ stage = "embed"
  /\ ~message.isSendingMessage
  /\ Prepare

-----------------------------------------------------------------------------
(* Stegano::getInfo and getCapacity *)

\* Reads are counted in the record the own encoder holds, and only there.
CountedReads ==
  IF message.holder = "A" /\ \E v \in demuxed : Kind[v] = "video"
  THEN Counted[CHOOSE v \in demuxed : TRUE]
  ELSE 0

\* The demuxer is asked for frames although its context is gone.
GetInfoCrashes ==
  /\ stage = "getInfo"
  /\ capacity = Unknown
  /\ readable
  /\ demuxed = {}
  /\ stage' = "dead"
  /\ UNCHANGED << objectVars, programVars, diskVars, callVars, result, output >>

GetInfo ==
  /\ stage = "getInfo"
  /\ ~(capacity = Unknown /\ readable /\ demuxed = {})
  /\ capacity' = IF capacity = Unknown THEN Estimate(CountedReads) ELSE capacity
  /\ stage' = "idle"
  /\ UNCHANGED << key, named, initialized, fileName, demuxed, readable, described,
                  message, programVars, diskVars, callVars, result, output >>

-----------------------------------------------------------------------------
(* Stegano::dontEmbed, Stegano::startEncoding and embedVideo *)

\* Mutant: dontEmbed is forgotten.
ArmedAlways == [message EXCEPT !.isSendingMessage = TRUE]

\* dontEmbed clears isInitialized, and startEncoding arms what is initialized.
Armed ==
  [message EXCEPT
     !.isInitialized = @ /\ call.doEmbedding,
     !.isSendingMessage = @ \/ (message.isInitialized /\ call.doEmbedding)]

\* The read behind the last bit ends the message: one carrier more is needed.
Embedded(m) ==
  IF m.isSendingMessage /\ m.length < CarriersIn[call.video]
  THEN [m EXCEPT !.isSendingMessage = FALSE, !.isInitialized = FALSE]
  ELSE m

Carried(m) ==
  IF m.isSendingMessage /\ m.length <= CarriersIn[call.video] THEN m.content ELSE {}

EncodingResult(m) == IF m.isSendingMessage THEN 10 ELSE 0

\* input_files is never emptied: the video to encode is picked among those of
\* all the files the process has encoded, the first of the largest.
Videos(files) == {i \in DOMAIN files : Kind[files[i]] = "video"}

Picked(files) ==
  Min({i \in Videos(files) : \A j \in Videos(files) : Size[files[j]] <= Size[files[i]]})

Files == Append(inputs, call.video)

PicksNew == Videos(Files) # {} /\ Picked(Files) = Len(Files)
PicksOld == Videos(Files) # {} /\ Picked(Files) < Len(Files)

\* embedVideo copies the figures of input_files[0] into info; for a file
\* without video it reads behind the end of streams.
DescribesFirst ==
  described' = IF Kind[Head(Files)] = "video" THEN {Head(Files)} ELSE {}

\* ffmpeg asks on the terminal before it overwrites a file.
Encodes ==
  /\ stage = "startEncoding"
  /\ Kind[call.video] # "missing"
  /\ inputs' = Files
  /\ disk' = disk \cup {call.path}
  /\ UNCHANGED << key, named, initialized, fileName, demuxed, readable, capacity,
                  callVars >>

\* The encoding comes to its end.
EncodingEnds ==
  /\ finished' = finished \cup {call.path}
  /\ result' = EncodingResult(message')
  /\ stage' = "idle"

EncodingStops ==
  /\ DescribesFirst
  /\ message' = Armed
  /\ output' = {}
  /\ UNCHANGED << initializedMessage, result, finished >>

\* The ffmpeg program exits when it cannot open its input, and when it may not
\* overwrite its output.
EncodeRefused ==
  /\ stage = "startEncoding"
  /\ \/ Kind[call.video] = "missing" /\ UNCHANGED inputs
     \/ Kind[call.video] # "missing" /\ call.path \in disk /\ inputs' = Files
  /\ message' = Armed
  /\ stage' = "dead"
  /\ UNCHANGED << key, named, initialized, fileName, demuxed, readable, capacity,
                  described, initializedMessage, diskVars, callVars, result, output >>

EncodeCrashes ==
  /\ Encodes
  /\ Kind[Head(Files)] = "audio"
  /\ EncodingStops
  /\ stage' = "dead"

\* There is only sound to copy, and no encoder.
EncodeAudio ==
  /\ Encodes
  /\ DescribesFirst
  /\ Videos(Files) = {}
  /\ message' = Armed
  /\ output' = {}
  /\ EncodingEnds
  /\ UNCHANGED initializedMessage

\* The first encoder is given a copy, and *message becomes that copy.
EncodeFirst ==
  /\ Encodes
  /\ DescribesFirst
  /\ PicksNew
  /\ ~initializedMessage
  /\ initializedMessage' = TRUE
  /\ message' = [Embedded(Armed) EXCEPT !.holder = "X"]
  /\ output' = Carried(Armed)
  /\ EncodingEnds

\* Mutant: every encoder is given the message.
EncodeLaterGiven ==
  /\ Encodes
  /\ DescribesFirst
  /\ PicksNew
  /\ initializedMessage
  /\ message' = [Embedded(Armed) EXCEPT !.holder = "X"]
  /\ output' = Carried(Armed)
  /\ EncodingEnds
  /\ UNCHANGED initializedMessage

\* Every later encoder has a message of its own that nobody fills.
EncodeLater ==
  /\ Encodes
  /\ DescribesFirst
  /\ PicksNew
  /\ initializedMessage
  /\ message' = Armed
  /\ output' = {}
  /\ EncodingEnds
  /\ UNCHANGED initializedMessage

\* The picked video is one that has been read to its end.  If a sound track of
\* the same file is copied too, its end ends the encoding, with no picture
\* written; otherwise the program polls for ever.
EncodeOld ==
  /\ Encodes
  /\ PicksOld
  /\ \/ EncodingStops /\ stage' = "stuck"
     \/ /\ DescribesFirst
        /\ message' = Armed
        /\ output' = {}
        /\ EncodingEnds
        /\ UNCHANGED initializedMessage

-----------------------------------------------------------------------------
(* Stegano::startStreaming: whatever initEmbedding has said                  *)

\* Demuxer, decoder and encoder are opened again.  Without a file there is no
\* context, and the decoder asks for one; a server whose encoder was never set
\* up comes down with its first client; and the port may be taken.
StreamingDies ==
  /\ stage = "startStreaming"
  /\ stage' = "dead"
  /\ UNCHANGED << objectVars, programVars, diskVars, callVars, result, output >>

\* The encoder was set up with the file that is opened again, and it reads the
\* record *message leads to.
StartStreaming ==
  /\ stage = "startStreaming"
  /\ initialized
  /\ fileName # {}
  /\ demuxed' = fileName
  /\ message' = [message EXCEPT !.isSendingMessage = FALSE]
  /\ stage' = "streaming"
  /\ UNCHANGED << key, named, initialized, fileName, readable, capacity, described,
                  programVars, diskVars, callVars, result, output >>

Next ==
  \/ BeginEmbed
  \/ BeginInfo
  \/ BeginStreaming
  \/ Extract
  \/ OpenAgain
  \/ OpenMissing
  \/ OpenAudio
  \/ OpenLeftOver
  \/ Open
  \/ AlreadySending
  \/ PrepareMessage
  \/ GetInfoCrashes
  \/ GetInfo
  \/ EncodeRefused
  \/ EncodeCrashes
  \/ EncodeAudio
  \/ EncodeFirst
  \/ EncodeLater
  \/ EncodeOld
  \/ StreamingDies
  \/ StartStreaming

Spec == Init /\ [][Next]_vars

-----------------------------------------------------------------------------
(* Properties *)

Finished(name) == stage = "idle" /\ call.name = name

\* Every variable has its type (Stegano.h, clsPrivateStegano.h, message.h).
TypeOK ==
  /\ key \in Key
  /\ named \in BOOLEAN /\ initialized \in BOOLEAN
  /\ fileName \subseteq Video /\ demuxed \subseteq Video
  /\ readable \in BOOLEAN
  /\ capacity \in Nat \cup {Unknown}
  /\ described \subseteq Video
  /\ message \in [holder : {"P", "A", "X"}, isInitialized : BOOLEAN,
                  isSendingMessage : BOOLEAN,
                  content : SUBSET [file : File, key : Key], length : Nat]
  /\ inputs \in Seq(Video)
  /\ initializedMessage \in BOOLEAN
  /\ disk \subseteq Path /\ finished \subseteq Path
  /\ stage \in {"idle", "openVideo", "embed", "getInfo", "startEncoding",
                "startStreaming", "streaming", "dead", "stuck"}
  /\ call \in Calls \cup {NoCall}
  /\ result \in {0, 1, 3, 4, 7, 9, 10}
  /\ calls \in 0 .. MaxCalls
  /\ output \subseteq [file : File, key : Key]

\* An Embed that reports success has written the file it was asked for, under
\* the key it was given, whatever calls came before (VideoSteg.cpp, Embed).
SuccessCarriesRequest ==
  Finished("Embed") /\ result = 0 /\ call.doEmbedding =>
    output = {[file |-> call.file, key |-> call.key]}

\* An Embed told not to embed writes a video without a message, even though it
\* prepares one and the encoder looks at the record of an earlier call
\* (Stegano::dontEmbed).
DontEmbedCarriesNothing ==
  Finished("Embed") /\ ~call.doEmbedding => output = {}

\* A message that did not fit blocks the process for good: whatever is called
\* later fails (Stegano::startEncoding leaves isSendingMessage set).
UnfinishedMessageBlocks ==
  stage = "idle" /\ message.isSendingMessage => result \in {7, 9, 10}

\* The capacity that Embed compares a message with was counted on the video the
\* demuxer has open (Stegano::getCapacity, Stegano::openVideo).
CapacityIsOfDemuxed ==
  capacity \notin {Unknown, 0} => \E v \in demuxed : capacity = Estimate(Counted[v])

\* Only the first encoding of a video is ever given the message, so at most
\* one output of a process carries one (ffmpeg.c, init_output_stream).
OneMessageAProcess ==
  output # {} /\ stage = "idle" =>
    Cardinality(Videos(inputs)) = 1 /\ initializedMessage

\* The files the process has written stay on disk (with what contents is not
\* said): openVideo removes the output file of a call, or the one it makes up,
\* only before anything has been encoded, however the calls follow each other.
OutputsKept == finished \subseteq disk

\* EmbedNetworkStreaming ignores the result of initEmbedding.  When there was
\* nothing to ignore, the stream has the message of the call under its key, in
\* the record that the encoder reads, whatever was encoded, measured or refused
\* before; when there was, it is a message of the library's all the same.
StreamCarriesRequest ==
  stage = "streaming" =>
    /\ message.holder # "P"
    /\ result = 0 => message.content = {[file |-> call.file, key |-> call.key]}

-----------------------------------------------------------------------------
(* What the messages and comments of the library say of a call *)

\* "The message couldn't be embeded due to its size" (Stegano::startEncoding):
\* the video has no carrier to spare.
TooLargeMeansTooLarge ==
  Finished("Embed") /\ result = 10 => Length[call.file] >= CarriersIn[call.video]

\* FileAndMessageInfo "Proivides information for video file" (VideoSteg.h).
InfoIsOfThisVideo ==
  Finished("FileAndMessageInfo") /\ result = 0 => described = {call.video}
=============================================================================
