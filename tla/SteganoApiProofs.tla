--------------------------- MODULE SteganoApiProofs ---------------------------
(***************************************************************************)
(* The calls of a process, for any number of them, any videos, files, keys *)
(* and paths.  The invariant says what `initialized` implies, which file   *)
(* the demuxer holds, and what the record of the message holds at each     *)
(* stage of a call.                                                        *)
(***************************************************************************)
EXTENDS SteganoApi, FiniteSetTheorems, TLAPS

Message ==
  [holder : {"P", "A", "X"}, isInitialized : BOOLEAN, isSendingMessage : BOOLEAN,
   content : SUBSET [file : File, key : Key], length : Nat]

Request == {[file |-> call.file, key |-> call.key]}

\* initialized is never taken back, so it is true once one of these is.
InitializedOnce ==
  /\ stage \in {"embed", "startEncoding"} => initialized
  /\ finished # {} => initialized
  /\ message.isSendingMessage => initialized
  /\ capacity \notin {Unknown, 0} => initialized

\* An object that has a video keeps it; one that has none holds at most the
\* context of a file without video.
OneVideo ==
  /\ initialized => demuxed = fileName
  /\ ~initialized => \A v \in demuxed : Kind[v] # "video"
  /\ initialized /\ fileName # {} => message.holder # "P"

\* What each stage may rely on.
InCall ==
  /\ stage \notin {"idle", "dead", "stuck"} => call \in Calls /\ output = {}
  /\ stage \in {"openVideo", "embed"} =>
       result = 0 /\ (call.name # "FileAndMessageInfo" => key = call.key)
  /\ stage = "getInfo" => call.name = "FileAndMessageInfo"
  /\ stage = "getInfo" /\ message.isSendingMessage => result = 9

Prepared ==
  /\ stage = "startEncoding" =>
       /\ call.name = "Embed"
       /\ result = 0
       /\ message.isInitialized
       /\ ~message.isSendingMessage
       /\ message.content = Request
  /\ stage \in {"startStreaming", "streaming"} =>
       /\ call.name = "EmbedNetworkStreaming"
       /\ result = 0 => message.content = Request

\* The first video that is encoded goes to the first encoder.
FirstVideo ==
  ~initializedMessage /\ stage \notin {"dead", "stuck"} => Videos(inputs) = {}

IInv ==
  /\ TypeOK
  /\ InitializedOnce
  /\ OneVideo
  /\ InCall
  /\ Prepared
  /\ FirstVideo
  /\ SuccessCarriesRequest
  /\ DontEmbedCarriesNothing
  /\ UnfinishedMessageBlocks
  /\ CapacityIsOfDemuxed
  /\ OneMessageAProcess
  /\ OutputsKept
  /\ StreamCarriesRequest

-----------------------------------------------------------------------------
(* Calls and records *)

LEMMA CallFields ==
  ASSUME NEW c \in Calls
  PROVE  /\ c.name \in {"Embed", "FileAndMessageInfo", "EmbedNetworkStreaming"}
         /\ c.video \in Video /\ c.file \in File
         /\ c.name # "FileAndMessageInfo" => c.key \in Key
         /\ c.name = "Embed" => c.path \in Path /\ c.doEmbedding \in BOOLEAN
BY DEF Calls

LEMMA FreshFields ==
  ASSUME NEW h \in {"P", "A", "X"}
  PROVE  /\ Fresh(h) \in Message
         /\ Fresh(h).holder = h
         /\ ~Fresh(h).isSendingMessage
BY DEF Fresh, Message

LEMMA SetHolder ==
  ASSUME NEW m \in Message
  PROVE  LET r == [m EXCEPT !.holder = "X"]
         IN  /\ r \in Message
             /\ r.holder = "X"
             /\ r.isSendingMessage = m.isSendingMessage
             /\ r.content = m.content
BY DEF Message

LEMMA FrameFields ==
  ASSUME ApiAssumption, message \in Message, call \in Calls, NEW k \in Key
  PROVE  /\ Frame(k) \in Message
         /\ Frame(k).holder = message.holder
         /\ Frame(k).isInitialized
         /\ Frame(k).isSendingMessage = message.isSendingMessage
         /\ Frame(k).content = {[file |-> call.file, key |-> k]}
<1>1. call.file \in File
  BY CallFields
<1>2. Length[call.file] \in Nat
  BY <1>1 DEF ApiAssumption
<1>3. {[file |-> call.file, key |-> k]} \in SUBSET [file : File, key : Key]
  BY <1>1
<1> DEFINE c == {[file |-> call.file, key |-> k]}
           n == Length[call.file]
<1>4. Frame(k) = [message EXCEPT !.isInitialized = TRUE, !.content = c, !.length = n]
  BY Zenon DEF Frame
<1>5. c \in SUBSET [file : File, key : Key] /\ n \in Nat
  BY <1>2, <1>3
<1> HIDE DEF c, n
<1>6. /\ Frame(k) \in Message
      /\ Frame(k).holder = message.holder
      /\ Frame(k).isInitialized = TRUE
      /\ Frame(k).isSendingMessage = message.isSendingMessage
      /\ Frame(k).content = c
  BY <1>4, <1>5 DEF Message
<1> QED
  BY <1>6 DEF c

LEMMA ArmedFields ==
  ASSUME message \in Message, call \in Calls, call.name = "Embed"
  PROVE  /\ Armed \in Message
         /\ Armed.holder = message.holder
         /\ Armed.content = message.content
         /\ Armed.length = message.length
         /\ Armed.isSendingMessage
              <=> message.isSendingMessage \/ (message.isInitialized /\ call.doEmbedding)
<1> DEFINE i == message.isInitialized /\ call.doEmbedding
           s == message.isSendingMessage \/ (message.isInitialized /\ call.doEmbedding)
<1>1. i \in BOOLEAN /\ s \in BOOLEAN
  BY Zenon
<1>2. Armed = [message EXCEPT !.isInitialized = i, !.isSendingMessage = s]
  BY Zenon DEF Armed
<1> HIDE DEF i, s
<1>3. /\ Armed \in Message
      /\ Armed.holder = message.holder
      /\ Armed.content = message.content
      /\ Armed.length = message.length
      /\ Armed.isSendingMessage = s
  BY <1>1, <1>2 DEF Message
<1> QED
  BY <1>3 DEF s

LEMMA EmbeddedFields ==
  ASSUME NEW m \in Message
  PROVE  LET e == [Embedded(m) EXCEPT !.holder = "X"]
         IN  /\ e \in Message
             /\ e.holder = "X"
             /\ e.content = m.content
             /\ e.isSendingMessage
                  <=> m.isSendingMessage /\ ~(m.length < CarriersIn[call.video])
<1> DEFINE ends == m.isSendingMessage /\ m.length < CarriersIn[call.video]
<1>1. /\ Embedded(m) \in Message
      /\ Embedded(m).content = m.content
      /\ Embedded(m).isSendingMessage <=> m.isSendingMessage /\ ~ends
  <2>1. CASE ends
    <3>1. Embedded(m) = [m EXCEPT !.isSendingMessage = FALSE, !.isInitialized = FALSE]
      BY <2>1 DEF Embedded
    <3>2. QED
      BY <3>1, <2>1 DEF Message
  <2>2. CASE ~ends
    <3>1. Embedded(m) = m
      BY <2>2 DEF Embedded
    <3>2. QED
      BY <3>1, <2>2
  <2> QED
    BY <2>1, <2>2
<1> QED
  BY <1>1, SetHolder

LEMMA AfterFailureIs ==
  ASSUME call \in Calls
  PROVE  /\ call.name = "FileAndMessageInfo" => AfterFailure = "getInfo"
         /\ call.name = "EmbedNetworkStreaming" => AfterFailure = "startStreaming"
         /\ call.name = "Embed" => AfterFailure = "idle"
         /\ AfterFailure \in {"getInfo", "startStreaming", "idle"}
BY CallFields DEF AfterFailure

LEMMA FilesFields ==
  ASSUME inputs \in Seq(Video), call.video \in Video
  PROVE  Files \in Seq(Video) /\ Head(Files) \in Video
<1>1. Files \in Seq(Video) /\ Len(Files) = Len(inputs) + 1 /\ Len(inputs) \in Nat
  BY DEF Files
<1>2. Files # << >>
  BY <1>1
<1> QED
  BY <1>1, <1>2

\* Without a video before, the new path is the only one there can be.
LEMMA OneMore ==
  ASSUME inputs \in Seq(Video), call.video \in Video, Videos(inputs) = {}
  PROVE  /\ Videos(Files) \subseteq {Len(Files)}
         /\ (Videos(Files) # {} => \E i : Videos(Files) = {i})
<1>1. /\ DOMAIN Files = 1 .. Len(inputs) + 1 /\ Len(Files) = Len(inputs) + 1
      /\ DOMAIN inputs = 1 .. Len(inputs) /\ Len(inputs) \in Nat
      /\ \A i \in 1 .. Len(inputs) : Files[i] = inputs[i]
  BY DEF Files
<1>2. ASSUME NEW i \in Videos(Files), i # Len(Files)
      PROVE  FALSE
  <2>1. i \in 1 .. Len(inputs) /\ Kind[inputs[i]] = "video"
    BY <1>1, <1>2 DEF Videos
  <2> QED
    BY <1>1, <2>1 DEF Videos
<1>3. Videos(Files) \subseteq {Len(Files)}
  BY <1>2
<1> QED
  BY <1>3

LEMMA OnlyOne ==
  ASSUME ApiAssumption, inputs \in Seq(Video), call.video \in Video, PicksOld
  PROVE  Videos(inputs) # {}
<1> SUFFICES ASSUME Videos(inputs) = {}
             PROVE  FALSE
  OBVIOUS
<1> DEFINE best == {i \in Videos(Files) :
                      \A j \in Videos(Files) : Size[Files[j]] <= Size[Files[i]]}
<1>1. Videos(Files) = {Len(Files)}
  BY OneMore DEF PicksOld
<1>2. Len(Files) \in Nat
  BY DEF Files
<1>3. Size[Files[Len(Files)]] \in Nat
  BY <1>2 DEF Files, ApiAssumption
<1>4. best = {Len(Files)}
  BY <1>1, <1>3
<1>5. Picked(Files) = Min({Len(Files)})
  BY <1>4 DEF Picked
<1>6. Min({Len(Files)}) = Len(Files)
  BY <1>2 DEF Min
<1> QED
  BY <1>2, <1>5, <1>6 DEF PicksOld

LEMMA EstimateIsNat ==
  /\ \A n \in Nat : Estimate(n) \in Nat
  /\ Estimate(0) = 0
BY DEF Estimate

\* Only an open video is counted.
LEMMA CountedReadsIs ==
  ASSUME ApiAssumption, TypeOK, OneVideo
  PROVE  \/ CountedReads = 0
         \/ /\ initialized
            /\ \E v \in demuxed : v \in Video /\ CountedReads = Counted[v]
<1>1. CASE message.holder = "A" /\ \E v \in demuxed : Kind[v] = "video"
  <2> DEFINE w == CHOOSE v \in demuxed : TRUE
  <2>1. w \in demuxed
    BY <1>1
  <2>2. CountedReads = Counted[w]
    BY <1>1 DEF CountedReads
  <2> HIDE DEF w
  <2> QED
    BY <1>1, <2>1, <2>2 DEF OneVideo, TypeOK
<1>2. CASE ~(message.holder = "A" /\ \E v \in demuxed : Kind[v] = "video")
  BY <1>2 DEF CountedReads
<1> QED
  BY <1>1, <1>2

-----------------------------------------------------------------------------
(* The steps *)

LEMMA BeginEmbedStep ==
  ASSUME ApiAssumption, IInv, BeginEmbed
  PROVE  IInv'
<1>1. TypeOK'
  BY CallFields DEF IInv, TypeOK, BeginEmbed, programVars, diskVars
<1>2. InitializedOnce'
  BY DEF IInv, InitializedOnce, BeginEmbed, diskVars
<1>3. OneVideo'
  BY DEF IInv, OneVideo, BeginEmbed
<1>4. InCall'
  BY DEF InCall, BeginEmbed
<1>5. Prepared'
  BY DEF Prepared, BeginEmbed
<1>6. (FirstVideo /\ OneMessageAProcess)'
  BY DEF IInv, FirstVideo, OneMessageAProcess, BeginEmbed, programVars
<1>7. (SuccessCarriesRequest /\ DontEmbedCarriesNothing)'
  BY DEF SuccessCarriesRequest, DontEmbedCarriesNothing, Finished, BeginEmbed
<1>8. UnfinishedMessageBlocks'
  BY DEF UnfinishedMessageBlocks, BeginEmbed
<1>9. CapacityIsOfDemuxed'
  BY DEF IInv, CapacityIsOfDemuxed, BeginEmbed
<1>10. (OutputsKept /\ StreamCarriesRequest)'
  BY DEF IInv, OutputsKept, StreamCarriesRequest, BeginEmbed, diskVars
<1> QED
  BY <1>1, <1>2, <1>3, <1>4, <1>5, <1>6, <1>7, <1>8, <1>9, <1>10 DEF IInv

LEMMA BeginInfoStep ==
  ASSUME ApiAssumption, IInv, BeginInfo
  PROVE  IInv'
<1>1. TypeOK'
  BY DEF IInv, TypeOK, BeginInfo, objectVars, programVars, diskVars
<1>2. InitializedOnce'
  BY DEF IInv, InitializedOnce, BeginInfo, objectVars, diskVars
<1>3. OneVideo'
  BY DEF IInv, OneVideo, BeginInfo, objectVars
<1>4. InCall'
  BY DEF InCall, BeginInfo
<1>5. Prepared'
  BY DEF Prepared, BeginInfo
<1>6. (FirstVideo /\ OneMessageAProcess)'
  BY DEF IInv, FirstVideo, OneMessageAProcess, BeginInfo, programVars
<1>7. (SuccessCarriesRequest /\ DontEmbedCarriesNothing)'
  BY DEF SuccessCarriesRequest, DontEmbedCarriesNothing, Finished, BeginInfo
<1>8. UnfinishedMessageBlocks'
  BY DEF UnfinishedMessageBlocks, BeginInfo
<1>9. CapacityIsOfDemuxed'
  BY DEF IInv, CapacityIsOfDemuxed, BeginInfo, objectVars
<1>10. (OutputsKept /\ StreamCarriesRequest)'
  BY DEF IInv, OutputsKept, StreamCarriesRequest, BeginInfo, diskVars
<1> QED
  BY <1>1, <1>2, <1>3, <1>4, <1>5, <1>6, <1>7, <1>8, <1>9, <1>10 DEF IInv

LEMMA BeginStreamingStep ==
  ASSUME ApiAssumption, IInv, BeginStreaming
  PROVE  IInv'
<1>1. TypeOK'
  BY CallFields DEF IInv, TypeOK, BeginStreaming, programVars, diskVars
<1>2. InitializedOnce'
  BY DEF IInv, InitializedOnce, BeginStreaming, diskVars
<1>3. OneVideo'
  BY DEF IInv, OneVideo, BeginStreaming
<1>4. InCall'
  BY DEF InCall, BeginStreaming
<1>5. Prepared'
  BY DEF Prepared, BeginStreaming
<1>6. (FirstVideo /\ OneMessageAProcess)'
  BY DEF IInv, FirstVideo, OneMessageAProcess, BeginStreaming, programVars
<1>7. (SuccessCarriesRequest /\ DontEmbedCarriesNothing)'
  BY DEF SuccessCarriesRequest, DontEmbedCarriesNothing, Finished,
     BeginStreaming
<1>8. UnfinishedMessageBlocks'
  BY DEF UnfinishedMessageBlocks, BeginStreaming
<1>9. CapacityIsOfDemuxed'
  BY DEF IInv, CapacityIsOfDemuxed, BeginStreaming
<1>10. (OutputsKept /\ StreamCarriesRequest)'
  BY DEF IInv, OutputsKept, StreamCarriesRequest, BeginStreaming, diskVars
<1> QED
  BY <1>1, <1>2, <1>3, <1>4, <1>5, <1>6, <1>7, <1>8, <1>9, <1>10 DEF IInv

LEMMA ExtractStep ==
  ASSUME ApiAssumption, IInv, Extract
  PROVE  IInv'
<1>1. TypeOK'
  BY DEF IInv, TypeOK, Extract, programVars, diskVars, callVars
<1>2. InitializedOnce'
  BY DEF IInv, InitializedOnce, Extract, diskVars
<1>3. OneVideo'
  BY DEF IInv, OneVideo, Extract
<1>4. InCall'
  BY DEF InCall, Extract
<1>5. Prepared'
  BY DEF Prepared, Extract
<1>6. (FirstVideo /\ OneMessageAProcess)'
  BY DEF IInv, FirstVideo, OneMessageAProcess, Extract, programVars
<1>7. (SuccessCarriesRequest /\ DontEmbedCarriesNothing)'
  BY DEF IInv, SuccessCarriesRequest, DontEmbedCarriesNothing, Finished,
     Extract, callVars
<1>8. UnfinishedMessageBlocks'
  BY DEF IInv, UnfinishedMessageBlocks, Extract
<1>9. CapacityIsOfDemuxed'
  BY DEF IInv, CapacityIsOfDemuxed, Extract
<1>10. (OutputsKept /\ StreamCarriesRequest)'
  BY DEF IInv, OutputsKept, StreamCarriesRequest, Extract, diskVars
<1> QED
  BY <1>1, <1>2, <1>3, <1>4, <1>5, <1>6, <1>7, <1>8, <1>9, <1>10 DEF IInv

LEMMA OpenAgainStep ==
  ASSUME ApiAssumption, IInv, OpenAgain
  PROVE  IInv'
<1>1. TypeOK'
  BY DEF IInv, TypeOK, OpenAgain, objectVars, programVars, diskVars, callVars
<1>2. InitializedOnce'
  BY DEF InitializedOnce, OpenAgain, objectVars
<1>3. OneVideo'
  BY DEF IInv, OneVideo, OpenAgain, objectVars
<1>4. InCall'
  BY DEF IInv, InCall, OpenAgain, objectVars, callVars
<1>5. Prepared'
  BY DEF Prepared, OpenAgain
<1>6. (FirstVideo /\ OneMessageAProcess)'
  BY DEF IInv, FirstVideo, OneMessageAProcess, OpenAgain, programVars
<1>7. (SuccessCarriesRequest /\ DontEmbedCarriesNothing)'
  BY DEF SuccessCarriesRequest, DontEmbedCarriesNothing, Finished, OpenAgain
<1>8. UnfinishedMessageBlocks'
  BY DEF UnfinishedMessageBlocks, OpenAgain
<1>9. CapacityIsOfDemuxed'
  BY DEF IInv, CapacityIsOfDemuxed, OpenAgain, objectVars
<1>10. (OutputsKept /\ StreamCarriesRequest)'
  BY DEF IInv, OutputsKept, StreamCarriesRequest, OpenAgain, diskVars
<1> QED
  BY <1>1, <1>2, <1>3, <1>4, <1>5, <1>6, <1>7, <1>8, <1>9, <1>10 DEF IInv

LEMMA OpenMissingStep ==
  ASSUME ApiAssumption, IInv, OpenMissing
  PROVE  IInv'
<1>a. call \in Calls /\ output = {} /\ message \in Message /\ result = 0
  BY DEF IInv, InCall, TypeOK, Message, OpenMissing, OpensFirst
<1>b. /\ call.name = "FileAndMessageInfo" => AfterFailure = "getInfo"
      /\ call.name = "EmbedNetworkStreaming" => AfterFailure = "startStreaming"
      /\ call.name = "Embed" => AfterFailure = "idle"
      /\ AfterFailure \in {"getInfo", "startStreaming", "idle"}
  BY <1>a, AfterFailureIs
<1>1. TypeOK'
  BY CallFields, <1>a, <1>b DEF IInv, TypeOK, OpenMissing, OpensFirst,
     OpenFails, programVars, callVars
<1>2. InitializedOnce'
  BY <1>b DEF IInv, InitializedOnce, OpenMissing, OpensFirst, OpenFails
<1>3. OneVideo'
  BY DEF OneVideo, OpenMissing, OpenFails
<1>4. InCall'
  BY CallFields, <1>b DEF IInv, InCall, InitializedOnce, OpenMissing,
     OpensFirst, OpenFails, callVars
<1>5. Prepared'
  BY CallFields, <1>a, <1>b DEF Prepared, OpenMissing, OpensFirst, OpenFails,
     callVars
<1>6. (FirstVideo /\ OneMessageAProcess)'
  BY <1>a DEF IInv, FirstVideo, OneMessageAProcess, OpenMissing, OpensFirst,
     programVars
<1>7. (SuccessCarriesRequest /\ DontEmbedCarriesNothing)'
  BY <1>a DEF SuccessCarriesRequest, DontEmbedCarriesNothing, OpenMissing,
     OpensFirst, OpenFails
<1>8. UnfinishedMessageBlocks'
  BY DEF IInv, UnfinishedMessageBlocks, InitializedOnce, OpenMissing,
     OpensFirst, OpenFails
<1>9. CapacityIsOfDemuxed'
  BY DEF IInv, CapacityIsOfDemuxed, OpenMissing, OpenFails
<1>10. (OutputsKept /\ StreamCarriesRequest)'
  BY <1>b DEF IInv, OutputsKept, StreamCarriesRequest, InitializedOnce,
     OpenMissing, OpensFirst, OpenFails
<1> QED
  BY <1>1, <1>2, <1>3, <1>4, <1>5, <1>6, <1>7, <1>8, <1>9, <1>10 DEF IInv

LEMMA OpenAudioStep ==
  ASSUME ApiAssumption, IInv, OpenAudio
  PROVE  IInv'
<1>a. call \in Calls /\ output = {} /\ message \in Message /\ result = 0
  BY DEF IInv, InCall, TypeOK, Message, OpenAudio, OpensFirst
<1>b. /\ call.name = "FileAndMessageInfo" => AfterFailure = "getInfo"
      /\ call.name = "EmbedNetworkStreaming" => AfterFailure = "startStreaming"
      /\ call.name = "Embed" => AfterFailure = "idle"
      /\ AfterFailure \in {"getInfo", "startStreaming", "idle"}
  BY <1>a, AfterFailureIs
<1>c. /\ Fresh("A") \in Message
      /\ Fresh("A").holder = "A"
      /\ ~Fresh("A").isSendingMessage
  BY FreshFields
<1>1. TypeOK'
  BY CallFields, <1>a, <1>b, <1>c DEF IInv, TypeOK, Message, OpenAudio,
     OpensFirst, OpensAudio, programVars, callVars
<1>2. InitializedOnce'
  BY <1>b, <1>c DEF IInv, InitializedOnce, OpenAudio, OpensFirst, OpensAudio
<1>3. OneVideo'
  BY DEF OneVideo, OpenAudio, OpensFirst, OpensAudio
<1>4. InCall'
  BY CallFields, <1>b, <1>c DEF IInv, InCall, OpenAudio, OpensFirst, OpensAudio,
     callVars
<1>5. Prepared'
  BY CallFields, <1>a, <1>b DEF Prepared, OpenAudio, OpensFirst, OpensAudio,
     callVars
<1>6. (FirstVideo /\ OneMessageAProcess)'
  BY <1>a DEF IInv, FirstVideo, OneMessageAProcess, OpenAudio, OpensFirst,
     programVars
<1>7. (SuccessCarriesRequest /\ DontEmbedCarriesNothing)'
  BY <1>a DEF SuccessCarriesRequest, DontEmbedCarriesNothing, Finished,
     OpenAudio, OpensFirst, OpensAudio
<1>8. UnfinishedMessageBlocks'
  BY <1>c DEF UnfinishedMessageBlocks, OpenAudio, OpensAudio
<1>9. CapacityIsOfDemuxed'
  BY DEF IInv, CapacityIsOfDemuxed, OpenAudio, OpensAudio
<1>10. (OutputsKept /\ StreamCarriesRequest)'
  BY <1>c DEF IInv, OutputsKept, StreamCarriesRequest, InitializedOnce,
     OpenAudio, OpensFirst, OpensAudio
<1> QED
  BY <1>1, <1>2, <1>3, <1>4, <1>5, <1>6, <1>7, <1>8, <1>9, <1>10 DEF IInv

LEMMA OpenLeftOverStep ==
  ASSUME ApiAssumption, IInv, OpenLeftOver
  PROVE  IInv'
<1>a. call \in Calls /\ output = {} /\ message \in Message /\ result = 0
  BY DEF IInv, InCall, TypeOK, Message, OpenLeftOver, OpensFirst
<1>b. /\ call.name = "FileAndMessageInfo" => AfterFailure = "getInfo"
      /\ call.name = "EmbedNetworkStreaming" => AfterFailure = "startStreaming"
      /\ call.name = "Embed" => AfterFailure = "idle"
      /\ AfterFailure \in {"getInfo", "startStreaming", "idle"}
  BY <1>a, AfterFailureIs
<1>c. /\ Fresh("A") \in Message
      /\ Fresh("A").holder = "A"
      /\ ~Fresh("A").isSendingMessage
  BY FreshFields
<1>1. TypeOK'
  BY CallFields, <1>a, <1>b, <1>c DEF IInv, TypeOK, Message, OpenLeftOver,
     OpensFirst, OpenFails, OpensAudio, programVars, callVars
<1>2. InitializedOnce'
  BY <1>b, <1>c DEF IInv, InitializedOnce, OpenLeftOver, OpensFirst, OpenFails,
     OpensAudio
<1>3. OneVideo'
  BY DEF IInv, OneVideo, OpenLeftOver, OpensFirst, OpenFails, OpensAudio
<1>4. InCall'
  BY CallFields, <1>b, <1>c DEF IInv, InCall, InitializedOnce, OpenLeftOver,
     OpensFirst, OpenFails, OpensAudio, callVars
<1>5. Prepared'
  BY CallFields, <1>a, <1>b DEF Prepared, OpenLeftOver, OpensFirst, OpenFails,
     OpensAudio, callVars
<1>6. (FirstVideo /\ OneMessageAProcess)'
  BY <1>a DEF IInv, FirstVideo, OneMessageAProcess, OpenLeftOver, OpensFirst,
     programVars
<1>7. (SuccessCarriesRequest /\ DontEmbedCarriesNothing)'
  BY <1>a DEF SuccessCarriesRequest, DontEmbedCarriesNothing, Finished,
     OpenLeftOver, OpensFirst, OpenFails, OpensAudio
<1>8. UnfinishedMessageBlocks'
  BY <1>c DEF IInv, UnfinishedMessageBlocks, InitializedOnce, OpenLeftOver,
     OpensFirst, OpenFails, OpensAudio
<1>9. CapacityIsOfDemuxed'
  BY DEF IInv, CapacityIsOfDemuxed, InitializedOnce, OpenLeftOver, OpensFirst,
     OpenFails, OpensAudio
<1>10. (OutputsKept /\ StreamCarriesRequest)'
  BY <1>b DEF IInv, OutputsKept, StreamCarriesRequest, InitializedOnce,
     OpenLeftOver, OpensFirst, OpenFails, OpensAudio
<1> QED
  BY <1>1, <1>2, <1>3, <1>4, <1>5, <1>6, <1>7, <1>8, <1>9, <1>10 DEF IInv

LEMMA OpenStep ==
  ASSUME ApiAssumption, IInv, Open
  PROVE  IInv'
<1>a. call \in Calls /\ output = {} /\ message \in Message /\ result = 0
  BY DEF IInv, InCall, TypeOK, Message, Open, OpensFirst
<1>b. /\ call.name = "FileAndMessageInfo" => AfterFailure = "getInfo"
      /\ call.name = "EmbedNetworkStreaming" => AfterFailure = "startStreaming"
      /\ call.name = "Embed" => AfterFailure = "idle"
      /\ AfterFailure \in {"getInfo", "startStreaming", "idle"}
  BY <1>a, AfterFailureIs
<1>c. /\ Fresh("A") \in Message
      /\ Fresh("A").holder = "A"
      /\ ~Fresh("A").isSendingMessage
  BY FreshFields
<1>1. TypeOK'
  BY CallFields, <1>a, <1>c DEF IInv, TypeOK, Message, Open, OpensFirst,
     programVars, callVars
<1>2. InitializedOnce'
  BY DEF InitializedOnce, Open
<1>3. OneVideo'
  BY <1>c DEF OneVideo, Open, OpensFirst
<1>4. InCall'
  BY DEF IInv, InCall, Open, OpensFirst, callVars
<1>5. Prepared'
  BY DEF Prepared, Open
<1>6. (FirstVideo /\ OneMessageAProcess)'
  BY DEF IInv, FirstVideo, OneMessageAProcess, Open, OpensFirst, programVars
<1>7. (SuccessCarriesRequest /\ DontEmbedCarriesNothing)'
  BY DEF SuccessCarriesRequest, DontEmbedCarriesNothing, Finished, Open
<1>8. UnfinishedMessageBlocks'
  BY DEF UnfinishedMessageBlocks, Open
<1>9. CapacityIsOfDemuxed'
  BY DEF IInv, CapacityIsOfDemuxed, Open
<1>10. (OutputsKept /\ StreamCarriesRequest)'
  BY DEF IInv, OutputsKept, StreamCarriesRequest, InitializedOnce, Open,
     OpensFirst
<1> QED
  BY <1>1, <1>2, <1>3, <1>4, <1>5, <1>6, <1>7, <1>8, <1>9, <1>10 DEF IInv

LEMMA AlreadySendingStep ==
  ASSUME ApiAssumption, IInv, AlreadySending
  PROVE  IInv'
<1>a. call \in Calls /\ output = {} /\ message \in Message /\ result = 0
  BY DEF IInv, InCall, TypeOK, Message, AlreadySending
<1>b. /\ call.name = "FileAndMessageInfo" => AfterFailure = "getInfo"
      /\ call.name = "EmbedNetworkStreaming" => AfterFailure = "startStreaming"
      /\ call.name = "Embed" => AfterFailure = "idle"
      /\ AfterFailure \in {"getInfo", "startStreaming", "idle"}
  BY <1>a, AfterFailureIs
<1>1. TypeOK'
  BY <1>b DEF IInv, TypeOK, AlreadySending, objectVars, programVars, diskVars,
     callVars
<1>2. InitializedOnce'
  BY DEF IInv, InitializedOnce, AlreadySending, objectVars
<1>3. OneVideo'
  BY DEF IInv, OneVideo, AlreadySending, objectVars
<1>4. InCall'
  BY CallFields, <1>b DEF IInv, InCall, AlreadySending, callVars
<1>5. Prepared'
  BY CallFields, <1>a, <1>b DEF Prepared, AlreadySending, callVars
<1>6. (FirstVideo /\ OneMessageAProcess)'
  BY <1>a DEF IInv, FirstVideo, OneMessageAProcess, AlreadySending, programVars
<1>7. (SuccessCarriesRequest /\ DontEmbedCarriesNothing)'
  BY <1>a DEF SuccessCarriesRequest, DontEmbedCarriesNothing, AlreadySending
<1>8. UnfinishedMessageBlocks'
  BY DEF UnfinishedMessageBlocks, AlreadySending
<1>9. CapacityIsOfDemuxed'
  BY DEF IInv, CapacityIsOfDemuxed, AlreadySending, objectVars
<1>10. (OutputsKept /\ StreamCarriesRequest)'
  BY <1>b DEF IInv, OutputsKept, StreamCarriesRequest, AlreadySending, diskVars
<1> QED
  BY <1>1, <1>2, <1>3, <1>4, <1>5, <1>6, <1>7, <1>8, <1>9, <1>10 DEF IInv

LEMMA PrepareMessageStep ==
  ASSUME ApiAssumption, IInv, PrepareMessage
  PROVE  IInv'
<1>a. call \in Calls /\ output = {} /\ message \in Message /\ result = 0
  BY DEF IInv, InCall, TypeOK, Message, PrepareMessage
<1>b. /\ call.name = "FileAndMessageInfo" => AfterFailure = "getInfo"
      /\ call.name = "EmbedNetworkStreaming" => AfterFailure = "startStreaming"
      /\ call.name = "Embed" => AfterFailure = "idle"
      /\ AfterFailure \in {"getInfo", "startStreaming", "idle"}
  BY <1>a, AfterFailureIs
<1>c. /\ Frame(key) \in Message
      /\ Frame(key).holder = message.holder
      /\ Frame(key).isInitialized
      /\ Frame(key).isSendingMessage = message.isSendingMessage
      /\ Frame(key).content = {[file |-> call.file, key |-> key]}
  BY <1>a, FrameFields DEF IInv, TypeOK
<1>1. TypeOK'
  BY <1>b, <1>c DEF IInv, TypeOK, Message, PrepareMessage, Prepare, AfterEmbed,
     programVars, diskVars, callVars
<1>2. InitializedOnce'
  BY DEF IInv, InitializedOnce, PrepareMessage, Prepare
<1>3. OneVideo'
  BY <1>c DEF IInv, OneVideo, PrepareMessage, Prepare
<1>4. InCall'
  BY CallFields, <1>b, <1>c DEF IInv, InCall, PrepareMessage, Prepare,
     AfterEmbed, callVars
<1>5. Prepared'
  BY CallFields, <1>b, <1>c DEF IInv, Prepared, Request, InCall, PrepareMessage,
     Prepare, AfterEmbed, callVars
<1>6. (FirstVideo /\ OneMessageAProcess)'
  BY <1>a DEF IInv, FirstVideo, OneMessageAProcess, PrepareMessage, Prepare,
     programVars
<1>7. (SuccessCarriesRequest /\ DontEmbedCarriesNothing)'
  BY <1>a DEF SuccessCarriesRequest, DontEmbedCarriesNothing, Finished,
     PrepareMessage, Prepare, AfterEmbed, callVars
<1>8. UnfinishedMessageBlocks'
  BY <1>c DEF UnfinishedMessageBlocks, PrepareMessage, Prepare
<1>9. CapacityIsOfDemuxed'
  BY DEF IInv, CapacityIsOfDemuxed, PrepareMessage, Prepare
<1>10. (OutputsKept /\ StreamCarriesRequest)'
  BY <1>b DEF IInv, OutputsKept, StreamCarriesRequest, PrepareMessage, Prepare,
     AfterEmbed, diskVars
<1> QED
  BY <1>1, <1>2, <1>3, <1>4, <1>5, <1>6, <1>7, <1>8, <1>9, <1>10 DEF IInv

LEMMA GetInfoCrashesStep ==
  ASSUME ApiAssumption, IInv, GetInfoCrashes
  PROVE  IInv'
<1>1. TypeOK'
  BY DEF IInv, TypeOK, GetInfoCrashes, objectVars, programVars, diskVars,
     callVars
<1>2. InitializedOnce'
  BY DEF IInv, InitializedOnce, GetInfoCrashes, objectVars, diskVars
<1>3. OneVideo'
  BY DEF IInv, OneVideo, GetInfoCrashes, objectVars
<1>4. InCall'
  BY DEF InCall, GetInfoCrashes
<1>5. Prepared'
  BY DEF Prepared, GetInfoCrashes
<1>6. (FirstVideo /\ OneMessageAProcess)'
  BY DEF FirstVideo, OneMessageAProcess, GetInfoCrashes
<1>7. (SuccessCarriesRequest /\ DontEmbedCarriesNothing)'
  BY DEF SuccessCarriesRequest, DontEmbedCarriesNothing, Finished,
     GetInfoCrashes
<1>8. UnfinishedMessageBlocks'
  BY DEF UnfinishedMessageBlocks, GetInfoCrashes
<1>9. CapacityIsOfDemuxed'
  BY DEF CapacityIsOfDemuxed, GetInfoCrashes, objectVars
<1>10. (OutputsKept /\ StreamCarriesRequest)'
  BY DEF IInv, OutputsKept, StreamCarriesRequest, GetInfoCrashes, diskVars
<1> QED
  BY <1>1, <1>2, <1>3, <1>4, <1>5, <1>6, <1>7, <1>8, <1>9, <1>10 DEF IInv

LEMMA GetInfoStep ==
  ASSUME ApiAssumption, IInv, GetInfo
  PROVE  IInv'
<1>a. \/ CountedReads = 0
      \/ /\ initialized
         /\ \E v \in demuxed : v \in Video /\ CountedReads = Counted[v]
  BY CountedReadsIs DEF IInv
<1>b. CountedReads \in Nat /\ Estimate(CountedReads) \in Nat
  BY <1>a, EstimateIsNat DEF ApiAssumption
<1>c. CountedReads = 0 => Estimate(CountedReads) = 0
  BY EstimateIsNat
<1>d. output = {}
  BY DEF IInv, InCall, GetInfo
<1>1. TypeOK'
  BY <1>b DEF IInv, TypeOK, GetInfo, programVars, diskVars, callVars
<1>2. InitializedOnce'
  BY <1>a, <1>c DEF IInv, InitializedOnce, GetInfo, diskVars
<1>3. OneVideo'
  BY DEF IInv, OneVideo, GetInfo
<1>4. InCall'
  BY DEF InCall, GetInfo
<1>5. Prepared'
  BY DEF Prepared, GetInfo
<1>6. (FirstVideo /\ OneMessageAProcess)'
  BY <1>d DEF IInv, FirstVideo, OneMessageAProcess, GetInfo, programVars
<1>7. (SuccessCarriesRequest /\ DontEmbedCarriesNothing)'
  BY DEF IInv, SuccessCarriesRequest, DontEmbedCarriesNothing, Finished, InCall,
     GetInfo, callVars
<1>8. UnfinishedMessageBlocks'
  BY DEF IInv, UnfinishedMessageBlocks, InCall, GetInfo
<1>9. CapacityIsOfDemuxed'
  BY <1>a, <1>c DEF IInv, CapacityIsOfDemuxed, GetInfo
<1>10. (OutputsKept /\ StreamCarriesRequest)'
  BY DEF IInv, OutputsKept, StreamCarriesRequest, GetInfo, diskVars
<1> QED
  BY <1>1, <1>2, <1>3, <1>4, <1>5, <1>6, <1>7, <1>8, <1>9, <1>10 DEF IInv

LEMMA EncodeRefusedStep ==
  ASSUME ApiAssumption, IInv, EncodeRefused
  PROVE  IInv'
<1>a. /\ call \in Calls /\ call.name = "Embed" /\ message \in Message
      /\ message.isInitialized /\ ~message.isSendingMessage /\ message.content = Request
      /\ output = {} /\ result = 0 /\ initialized
  BY DEF IInv, InCall, Prepared, InitializedOnce, TypeOK, Message, EncodeRefused, Encodes
<1>b. /\ call.video \in Video /\ call.file \in File /\ call.key \in Key
      /\ call.path \in Path /\ call.doEmbedding \in BOOLEAN
  BY <1>a, CallFields
<1>c. /\ Armed \in Message
      /\ Armed.holder = message.holder
      /\ Armed.content = message.content
      /\ Armed.isSendingMessage <=> call.doEmbedding
  BY <1>a, ArmedFields
<1>d. Files \in Seq(Video)
  BY <1>b, FilesFields DEF IInv, TypeOK
<1>1. TypeOK'
  BY <1>c, <1>d DEF IInv, TypeOK, Message, EncodeRefused, diskVars, callVars
<1>2. InitializedOnce'
  BY DEF IInv, InitializedOnce, EncodeRefused
<1>3. OneVideo'
  BY <1>c DEF IInv, OneVideo, EncodeRefused
<1>4. InCall'
  BY DEF InCall, EncodeRefused
<1>5. Prepared'
  BY DEF Prepared, EncodeRefused
<1>6. (FirstVideo /\ OneMessageAProcess)'
  BY DEF FirstVideo, OneMessageAProcess, EncodeRefused
<1>7. (SuccessCarriesRequest /\ DontEmbedCarriesNothing)'
  BY DEF SuccessCarriesRequest, DontEmbedCarriesNothing, Finished, EncodeRefused
<1>8. UnfinishedMessageBlocks'
  BY DEF UnfinishedMessageBlocks, EncodeRefused
<1>9. CapacityIsOfDemuxed'
  BY DEF IInv, CapacityIsOfDemuxed, EncodeRefused
<1>10. (OutputsKept /\ StreamCarriesRequest)'
  BY DEF IInv, OutputsKept, StreamCarriesRequest, EncodeRefused, diskVars
<1> QED
  BY <1>1, <1>2, <1>3, <1>4, <1>5, <1>6, <1>7, <1>8, <1>9, <1>10 DEF IInv

LEMMA EncodeCrashesStep ==
  ASSUME ApiAssumption, IInv, EncodeCrashes
  PROVE  IInv'
<1>a. /\ call \in Calls /\ call.name = "Embed" /\ message \in Message
      /\ message.isInitialized /\ ~message.isSendingMessage /\ message.content = Request
      /\ output = {} /\ result = 0 /\ initialized
  BY DEF IInv, InCall, Prepared, InitializedOnce, TypeOK, Message, EncodeCrashes, Encodes
<1>b. /\ call.video \in Video /\ call.file \in File /\ call.key \in Key
      /\ call.path \in Path /\ call.doEmbedding \in BOOLEAN
  BY <1>a, CallFields
<1>c. /\ Armed \in Message
      /\ Armed.holder = message.holder
      /\ Armed.content = message.content
      /\ Armed.isSendingMessage <=> call.doEmbedding
  BY <1>a, ArmedFields
<1>d. Files \in Seq(Video) /\ Head(Files) \in Video
  BY <1>b, FilesFields DEF IInv, TypeOK
<1>1. TypeOK'
  BY <1>b, <1>c, <1>d DEF IInv, TypeOK, Message, EncodeCrashes, Encodes,
     EncodingStops, DescribesFirst, callVars
<1>2. InitializedOnce'
  BY DEF IInv, InitializedOnce, EncodeCrashes, Encodes
<1>3. OneVideo'
  BY <1>c DEF IInv, OneVideo, EncodeCrashes, Encodes, EncodingStops
<1>4. InCall'
  BY DEF InCall, EncodeCrashes
<1>5. Prepared'
  BY DEF Prepared, EncodeCrashes
<1>6. (FirstVideo /\ OneMessageAProcess)'
  BY DEF FirstVideo, OneMessageAProcess, EncodeCrashes
<1>7. (SuccessCarriesRequest /\ DontEmbedCarriesNothing)'
  BY DEF SuccessCarriesRequest, DontEmbedCarriesNothing, Finished, EncodeCrashes
<1>8. UnfinishedMessageBlocks'
  BY DEF UnfinishedMessageBlocks, EncodeCrashes
<1>9. CapacityIsOfDemuxed'
  BY DEF IInv, CapacityIsOfDemuxed, EncodeCrashes, Encodes
<1>10. (OutputsKept /\ StreamCarriesRequest)'
  BY DEF IInv, OutputsKept, StreamCarriesRequest, EncodeCrashes, Encodes,
     EncodingStops
<1> QED
  BY <1>1, <1>2, <1>3, <1>4, <1>5, <1>6, <1>7, <1>8, <1>9, <1>10 DEF IInv

LEMMA EncodeAudioStep ==
  ASSUME ApiAssumption, IInv, EncodeAudio
  PROVE  IInv'
<1>a. /\ call \in Calls /\ call.name = "Embed" /\ message \in Message
      /\ message.isInitialized /\ ~message.isSendingMessage /\ message.content = Request
      /\ output = {} /\ result = 0 /\ initialized
  BY DEF IInv, InCall, Prepared, InitializedOnce, TypeOK, Message, EncodeAudio, Encodes
<1>b. /\ call.video \in Video /\ call.file \in File /\ call.key \in Key
      /\ call.path \in Path /\ call.doEmbedding \in BOOLEAN
  BY <1>a, CallFields
<1>c. /\ Armed \in Message
      /\ Armed.holder = message.holder
      /\ Armed.content = message.content
      /\ Armed.isSendingMessage <=> call.doEmbedding
  BY <1>a, ArmedFields
<1>d. Files \in Seq(Video) /\ Head(Files) \in Video
  BY <1>b, FilesFields DEF IInv, TypeOK
<1>1. TypeOK'
  BY <1>b, <1>c, <1>d DEF IInv, TypeOK, Message, EncodeAudio, Encodes,
     EncodingEnds, DescribesFirst, EncodingResult, callVars
<1>2. InitializedOnce'
  BY DEF IInv, InitializedOnce, EncodeAudio, Encodes
<1>3. OneVideo'
  BY <1>c DEF IInv, OneVideo, EncodeAudio, Encodes
<1>4. InCall'
  BY DEF InCall, EncodeAudio, EncodingEnds
<1>5. Prepared'
  BY DEF Prepared, EncodeAudio, EncodingEnds
<1>6. (FirstVideo /\ OneMessageAProcess)'
  BY DEF FirstVideo, OneMessageAProcess, EncodeAudio, Encodes
<1>7. (SuccessCarriesRequest /\ DontEmbedCarriesNothing)'
  BY <1>c DEF SuccessCarriesRequest, DontEmbedCarriesNothing, EncodeAudio,
     Encodes, EncodingEnds, EncodingResult, callVars
<1>8. UnfinishedMessageBlocks'
  BY DEF UnfinishedMessageBlocks, EncodeAudio, EncodingEnds, EncodingResult
<1>9. CapacityIsOfDemuxed'
  BY DEF IInv, CapacityIsOfDemuxed, EncodeAudio, Encodes
<1>10. (OutputsKept /\ StreamCarriesRequest)'
  BY DEF IInv, OutputsKept, StreamCarriesRequest, EncodeAudio, Encodes,
     EncodingEnds
<1> QED
  BY <1>1, <1>2, <1>3, <1>4, <1>5, <1>6, <1>7, <1>8, <1>9, <1>10 DEF IInv

LEMMA EncodeFirstStep ==
  ASSUME ApiAssumption, IInv, EncodeFirst
  PROVE  IInv'
<1>a. /\ call \in Calls /\ call.name = "Embed" /\ message \in Message
      /\ message.isInitialized /\ ~message.isSendingMessage /\ message.content = Request
      /\ output = {} /\ result = 0 /\ initialized
  BY DEF IInv, InCall, Prepared, InitializedOnce, TypeOK, Message, EncodeFirst, Encodes
<1>b. /\ call.video \in Video /\ call.file \in File /\ call.key \in Key
      /\ call.path \in Path /\ call.doEmbedding \in BOOLEAN
  BY <1>a, CallFields
<1>c. /\ Armed \in Message
      /\ Armed.holder = message.holder
      /\ Armed.content = message.content
      /\ Armed.isSendingMessage <=> call.doEmbedding
  BY <1>a, ArmedFields
<1>d. Files \in Seq(Video) /\ Head(Files) \in Video
  BY <1>b, FilesFields DEF IInv, TypeOK
<1> DEFINE e == [Embedded(Armed) EXCEPT !.holder = "X"]
<1>e. /\ e \in Message
      /\ e.holder = "X"
      /\ e.content = message.content
      /\ e.isSendingMessage
           <=> call.doEmbedding /\ ~(Armed.length < CarriersIn[call.video])
  BY <1>c, EmbeddedFields
<1>f. message' = e
  BY DEF EncodeFirst
<1> HIDE DEF e
<1>g. /\ ~call.doEmbedding => Carried(Armed) = {}
      /\ call.doEmbedding /\ Armed.length < CarriersIn[call.video]
           => Carried(Armed) = Request
      /\ Carried(Armed) \in {{}, Request}
  BY <1>a, <1>b, <1>c DEF Carried, ApiAssumption, Message
<1>1. TypeOK'
  BY <1>a, <1>b, <1>d, <1>e, <1>f, <1>g DEF IInv, TypeOK, Message, EncodeFirst,
     Encodes, EncodingEnds, DescribesFirst, EncodingResult, callVars
<1>2. InitializedOnce'
  BY DEF IInv, InitializedOnce, EncodeFirst, Encodes
<1>3. OneVideo'
  BY DEF IInv, OneVideo, EncodeFirst, Encodes
<1>4. InCall'
  BY DEF InCall, EncodeFirst, EncodingEnds
<1>5. Prepared'
  BY DEF Prepared, EncodeFirst, EncodingEnds
<1>6. (FirstVideo /\ OneMessageAProcess)'
  <2>1. initializedMessage' = TRUE /\ inputs' = Files
    BY DEF EncodeFirst, Encodes
  <2>2. Videos(inputs) = {}
    BY DEF IInv, FirstVideo, EncodeFirst, Encodes
  <2>3. \E i : Videos(Files) = {i}
    BY <1>b, <2>2, OneMore DEF IInv, TypeOK, EncodeFirst, PicksNew
  <2>4. Cardinality(Videos(Files)) = 1
    BY <2>3, FS_Singleton
  <2> QED
    BY <2>1, <2>4 DEF FirstVideo, OneMessageAProcess
<1>7. (SuccessCarriesRequest /\ DontEmbedCarriesNothing)'
  <2>1. call' = call /\ output' = Carried(Armed) /\ stage' = "idle"
    BY DEF EncodeFirst, Encodes, EncodingEnds, callVars
  <2>2. result' = EncodingResult(e)
    BY Zenon, <1>f DEF EncodeFirst, EncodingEnds
  <2>3. result' = 0 /\ call.doEmbedding => output' = Request
    BY <1>e, <1>g, <2>1, <2>2 DEF EncodingResult
  <2> QED
    BY <1>g, <2>1, <2>3 DEF SuccessCarriesRequest, DontEmbedCarriesNothing, Finished, Request
<1>8. UnfinishedMessageBlocks'
  BY DEF UnfinishedMessageBlocks, EncodeFirst, EncodingEnds, EncodingResult
<1>9. CapacityIsOfDemuxed'
  BY DEF IInv, CapacityIsOfDemuxed, EncodeFirst, Encodes
<1>10. (OutputsKept /\ StreamCarriesRequest)'
  BY DEF IInv, OutputsKept, StreamCarriesRequest, EncodeFirst, Encodes,
     EncodingEnds
<1> QED
  BY <1>1, <1>2, <1>3, <1>4, <1>5, <1>6, <1>7, <1>8, <1>9, <1>10 DEF IInv

LEMMA EncodeLaterStep ==
  ASSUME ApiAssumption, IInv, EncodeLater
  PROVE  IInv'
<1>a. /\ call \in Calls /\ call.name = "Embed" /\ message \in Message
      /\ message.isInitialized /\ ~message.isSendingMessage /\ message.content = Request
      /\ output = {} /\ result = 0 /\ initialized
  BY DEF IInv, InCall, Prepared, InitializedOnce, TypeOK, Message, EncodeLater, Encodes
<1>b. /\ call.video \in Video /\ call.file \in File /\ call.key \in Key
      /\ call.path \in Path /\ call.doEmbedding \in BOOLEAN
  BY <1>a, CallFields
<1>c. /\ Armed \in Message
      /\ Armed.holder = message.holder
      /\ Armed.content = message.content
      /\ Armed.isSendingMessage <=> call.doEmbedding
  BY <1>a, ArmedFields
<1>d. Files \in Seq(Video) /\ Head(Files) \in Video
  BY <1>b, FilesFields DEF IInv, TypeOK
<1>1. TypeOK'
  BY <1>b, <1>c, <1>d DEF IInv, TypeOK, Message, EncodeLater, Encodes,
     EncodingEnds, DescribesFirst, EncodingResult, callVars
<1>2. InitializedOnce'
  BY DEF IInv, InitializedOnce, EncodeLater, Encodes
<1>3. OneVideo'
  BY <1>c DEF IInv, OneVideo, EncodeLater, Encodes
<1>4. InCall'
  BY DEF InCall, EncodeLater, EncodingEnds
<1>5. Prepared'
  BY DEF Prepared, EncodeLater, EncodingEnds
<1>6. (FirstVideo /\ OneMessageAProcess)'
  BY DEF FirstVideo, OneMessageAProcess, EncodeLater
<1>7. (SuccessCarriesRequest /\ DontEmbedCarriesNothing)'
  BY <1>c DEF SuccessCarriesRequest, DontEmbedCarriesNothing, EncodeLater,
     Encodes, EncodingEnds, EncodingResult, callVars
<1>8. UnfinishedMessageBlocks'
  BY DEF UnfinishedMessageBlocks, EncodeLater, EncodingEnds, EncodingResult
<1>9. CapacityIsOfDemuxed'
  BY DEF IInv, CapacityIsOfDemuxed, EncodeLater, Encodes
<1>10. (OutputsKept /\ StreamCarriesRequest)'
  BY DEF IInv, OutputsKept, StreamCarriesRequest, EncodeLater, Encodes,
     EncodingEnds
<1> QED
  BY <1>1, <1>2, <1>3, <1>4, <1>5, <1>6, <1>7, <1>8, <1>9, <1>10 DEF IInv

LEMMA EncodeOldStep ==
  ASSUME ApiAssumption, IInv, EncodeOld
  PROVE  IInv'
<1>a. /\ call \in Calls /\ call.name = "Embed" /\ message \in Message
      /\ message.isInitialized /\ ~message.isSendingMessage /\ message.content = Request
      /\ output = {} /\ result = 0 /\ initialized
  BY DEF IInv, InCall, Prepared, InitializedOnce, TypeOK, Message, EncodeOld, Encodes
<1>b. /\ call.video \in Video /\ call.file \in File /\ call.key \in Key
      /\ call.path \in Path /\ call.doEmbedding \in BOOLEAN
  BY <1>a, CallFields
<1>c. /\ Armed \in Message
      /\ Armed.holder = message.holder
      /\ Armed.content = message.content
      /\ Armed.isSendingMessage <=> call.doEmbedding
  BY <1>a, ArmedFields
<1>d. Files \in Seq(Video) /\ Head(Files) \in Video
  BY <1>b, FilesFields DEF IInv, TypeOK
<1>1. TypeOK'
  BY <1>b, <1>c, <1>d DEF IInv, TypeOK, Message, EncodeOld, Encodes,
     EncodingStops, EncodingEnds, DescribesFirst, EncodingResult, callVars
<1>2. InitializedOnce'
  BY DEF IInv, InitializedOnce, EncodeOld, Encodes
<1>3. OneVideo'
  BY <1>c DEF IInv, OneVideo, EncodeOld, Encodes, EncodingStops
<1>4. InCall'
  BY DEF InCall, EncodeOld, EncodingEnds
<1>5. Prepared'
  BY DEF Prepared, EncodeOld, EncodingEnds
<1>6. (FirstVideo /\ OneMessageAProcess)'
  <2>1. Videos(inputs) # {}
    BY <1>b, OnlyOne DEF IInv, TypeOK, EncodeOld
  <2>2. initializedMessage
    BY <2>1 DEF IInv, FirstVideo, EncodeOld, Encodes
  <2> QED
    BY <2>2 DEF FirstVideo, OneMessageAProcess, EncodeOld, EncodingStops
<1>7. (SuccessCarriesRequest /\ DontEmbedCarriesNothing)'
  BY <1>c DEF SuccessCarriesRequest, DontEmbedCarriesNothing, Finished,
     EncodeOld, Encodes, EncodingEnds, EncodingResult, callVars
<1>8. UnfinishedMessageBlocks'
  BY DEF UnfinishedMessageBlocks, EncodeOld, EncodingEnds, EncodingResult
<1>9. CapacityIsOfDemuxed'
  BY DEF IInv, CapacityIsOfDemuxed, EncodeOld, Encodes
<1>10. (OutputsKept /\ StreamCarriesRequest)'
  BY DEF IInv, OutputsKept, StreamCarriesRequest, EncodeOld, Encodes,
     EncodingStops, EncodingEnds
<1> QED
  BY <1>1, <1>2, <1>3, <1>4, <1>5, <1>6, <1>7, <1>8, <1>9, <1>10 DEF IInv

LEMMA StreamingDiesStep ==
  ASSUME ApiAssumption, IInv, StreamingDies
  PROVE  IInv'
<1>1. TypeOK'
  BY DEF IInv, TypeOK, StreamingDies, objectVars, programVars, diskVars,
     callVars
<1>2. InitializedOnce'
  BY DEF IInv, InitializedOnce, StreamingDies, objectVars, diskVars
<1>3. OneVideo'
  BY DEF IInv, OneVideo, StreamingDies, objectVars
<1>4. InCall'
  BY DEF InCall, StreamingDies
<1>5. Prepared'
  BY DEF Prepared, StreamingDies
<1>6. (FirstVideo /\ OneMessageAProcess)'
  BY DEF FirstVideo, OneMessageAProcess, StreamingDies
<1>7. (SuccessCarriesRequest /\ DontEmbedCarriesNothing)'
  BY DEF SuccessCarriesRequest, DontEmbedCarriesNothing, Finished, StreamingDies
<1>8. UnfinishedMessageBlocks'
  BY DEF UnfinishedMessageBlocks, StreamingDies
<1>9. CapacityIsOfDemuxed'
  BY DEF IInv, CapacityIsOfDemuxed, StreamingDies, objectVars
<1>10. (OutputsKept /\ StreamCarriesRequest)'
  BY DEF IInv, OutputsKept, StreamCarriesRequest, StreamingDies, diskVars
<1> QED
  BY <1>1, <1>2, <1>3, <1>4, <1>5, <1>6, <1>7, <1>8, <1>9, <1>10 DEF IInv

LEMMA StartStreamingStep ==
  ASSUME ApiAssumption, IInv, StartStreaming
  PROVE  IInv'
<1>1. TypeOK'
  BY DEF IInv, TypeOK, StartStreaming, programVars, diskVars, callVars
<1>2. InitializedOnce'
  BY DEF InitializedOnce, StartStreaming
<1>3. OneVideo'
  BY DEF IInv, OneVideo, StartStreaming
<1>4. InCall'
  BY DEF IInv, InCall, StartStreaming, callVars
<1>5. Prepared'
  BY DEF IInv, Prepared, Request, StartStreaming, callVars
<1>6. (FirstVideo /\ OneMessageAProcess)'
  BY DEF IInv, FirstVideo, OneMessageAProcess, StartStreaming, programVars
<1>7. (SuccessCarriesRequest /\ DontEmbedCarriesNothing)'
  BY DEF SuccessCarriesRequest, DontEmbedCarriesNothing, Finished,
     StartStreaming
<1>8. UnfinishedMessageBlocks'
  BY DEF UnfinishedMessageBlocks, StartStreaming
<1>9. CapacityIsOfDemuxed'
  BY DEF IInv, CapacityIsOfDemuxed, OneVideo, StartStreaming
<1>10. (OutputsKept /\ StreamCarriesRequest)'
  BY DEF IInv, OutputsKept, StreamCarriesRequest, OneVideo, Prepared, Request,
     StartStreaming, diskVars, callVars
<1> QED
  BY <1>1, <1>2, <1>3, <1>4, <1>5, <1>6, <1>7, <1>8, <1>9, <1>10 DEF IInv

LEMMA StutterStep ==
  ASSUME IInv, UNCHANGED vars
  PROVE  IInv'
<1>1. (TypeOK /\ InitializedOnce /\ OneVideo /\ InCall /\ Prepared)'
  BY DEF IInv, TypeOK, InitializedOnce, OneVideo, InCall, Prepared, Request,
         vars, objectVars, programVars, diskVars, callVars
<1>2. (FirstVideo /\ SuccessCarriesRequest /\ DontEmbedCarriesNothing
         /\ UnfinishedMessageBlocks)'
  BY DEF IInv, FirstVideo, SuccessCarriesRequest, DontEmbedCarriesNothing,
         UnfinishedMessageBlocks, Finished,
         vars, objectVars, programVars, diskVars, callVars
<1>3. (CapacityIsOfDemuxed /\ OneMessageAProcess /\ OutputsKept
         /\ StreamCarriesRequest)'
  BY DEF IInv, CapacityIsOfDemuxed, OneMessageAProcess, OutputsKept,
         StreamCarriesRequest, vars, objectVars, programVars, diskVars, callVars
<1> QED
  BY <1>1, <1>2, <1>3 DEF IInv

-----------------------------------------------------------------------------
(* The theorems *)

LEMMA InitHolds ==
  ASSUME ApiAssumption, Init
  PROVE  IInv
<1>1. /\ Fresh("P") \in Message
      /\ ~Fresh("P").isSendingMessage
  BY FreshFields
<1>2. << >> \in Seq(Video) /\ Videos(<< >>) = {}
  BY DEF Videos
<1>3. TypeOK
  <2>1. initialized \in BOOLEAN /\ named \in BOOLEAN
    BY DEF Init, ApiAssumption
  <2>2. capacity \in Nat \cup {Unknown} /\ calls \in 0 .. MaxCalls
    BY DEF Init, ApiAssumption
  <2>3. message \in Message /\ inputs \in Seq(Video)
    BY <1>1, <1>2 DEF Init
  <2>4. call \in Calls \cup {NoCall}
    BY DEF Init
  <2> QED
    BY <2>1, <2>2, <2>3, <2>4 DEF Init, TypeOK, Message
<1>4. InitializedOnce /\ OneVideo /\ InCall /\ Prepared
  BY <1>1 DEF Init, InitializedOnce, OneVideo, InCall, Prepared
<1>5. FirstVideo /\ SuccessCarriesRequest /\ DontEmbedCarriesNothing
  BY <1>2 DEF Init, FirstVideo, SuccessCarriesRequest, DontEmbedCarriesNothing,
              Finished, NoCall
<1>6. UnfinishedMessageBlocks /\ CapacityIsOfDemuxed /\ OneMessageAProcess
  BY <1>1 DEF Init, UnfinishedMessageBlocks, CapacityIsOfDemuxed, OneMessageAProcess
<1>7. OutputsKept /\ StreamCarriesRequest
  BY DEF Init, OutputsKept, StreamCarriesRequest
<1> QED
  BY <1>3, <1>4, <1>5, <1>6, <1>7 DEF IInv

LEMMA NextPreserves ==
  ASSUME ApiAssumption, IInv, Next
  PROVE  IInv'
<1>1. CASE BeginEmbed
  BY <1>1, BeginEmbedStep
<1>2. CASE BeginInfo
  BY <1>2, BeginInfoStep
<1>3. CASE BeginStreaming
  BY <1>3, BeginStreamingStep
<1>4. CASE Extract
  BY <1>4, ExtractStep
<1>5. CASE OpenAgain
  BY <1>5, OpenAgainStep
<1>6. CASE OpenMissing
  BY <1>6, OpenMissingStep
<1>7. CASE OpenAudio
  BY <1>7, OpenAudioStep
<1>8. CASE OpenLeftOver
  BY <1>8, OpenLeftOverStep
<1>9. CASE Open
  BY <1>9, OpenStep
<1>10. CASE AlreadySending
  BY <1>10, AlreadySendingStep
<1>11. CASE PrepareMessage
  BY <1>11, PrepareMessageStep
<1>12. CASE GetInfoCrashes
  BY <1>12, GetInfoCrashesStep
<1>13. CASE GetInfo
  BY <1>13, GetInfoStep
<1>14. CASE EncodeRefused
  BY <1>14, EncodeRefusedStep
<1>15. CASE EncodeCrashes
  BY <1>15, EncodeCrashesStep
<1>16. CASE EncodeAudio
  BY <1>16, EncodeAudioStep
<1>17. CASE EncodeFirst
  BY <1>17, EncodeFirstStep
<1>18. CASE EncodeLater
  BY <1>18, EncodeLaterStep
<1>19. CASE EncodeOld
  BY <1>19, EncodeOldStep
<1>20. CASE StreamingDies
  BY <1>20, StreamingDiesStep
<1>21. CASE StartStreaming
  BY <1>21, StartStreamingStep
<1> QED
  BY <1>1, <1>2, <1>3, <1>4, <1>5, <1>6, <1>7, <1>8, <1>9, <1>10, <1>11, <1>12,
     <1>13, <1>14, <1>15, <1>16, <1>17, <1>18, <1>19, <1>20, <1>21 DEF Next

LEMMA InvariantHolds == Spec => []IInv
<1>1. Init => IInv
  BY ApiAssumption, InitHolds
<1>2. IInv /\ [Next]_vars => IInv'
  BY ApiAssumption, NextPreserves, StutterStep
<1> QED
  BY <1>1, <1>2, PTL DEF Spec

\* Every variable keeps its type, for any number of calls.
THEOREM ApiTypeCorrect == Spec => []TypeOK
<1>1. IInv => TypeOK
  BY DEF IInv
<1> QED
  BY <1>1, InvariantHolds, PTL

\* However many calls came before and whatever they left in the shared records,
\* an Embed that reports success has written its own file under its own key.
THEOREM SuccessTheorem == Spec => []SuccessCarriesRequest
<1>1. IInv => SuccessCarriesRequest
  BY DEF IInv
<1> QED
  BY <1>1, InvariantHolds, PTL

\* An Embed told not to embed writes no message, of this or of an earlier call.
THEOREM DontEmbedTheorem == Spec => []DontEmbedCarriesNothing
<1>1. IInv => DontEmbedCarriesNothing
  BY DEF IInv
<1> QED
  BY <1>1, InvariantHolds, PTL

\* Once a message did not fit, no later call reports success.
THEOREM UnfinishedTheorem == Spec => []UnfinishedMessageBlocks
<1>1. IInv => UnfinishedMessageBlocks
  BY DEF IInv
<1> QED
  BY <1>1, InvariantHolds, PTL

\* A capacity other than 0 was counted on the video the demuxer still has open.
THEOREM CapacityTheorem == Spec => []CapacityIsOfDemuxed
<1>1. IInv => CapacityIsOfDemuxed
  BY DEF IInv
<1> QED
  BY <1>1, InvariantHolds, PTL

\* At most one output of a process carries a message: that of the first video.
THEOREM OneMessageTheorem == Spec => []OneMessageAProcess
<1>1. IInv => OneMessageAProcess
  BY DEF IInv
<1> QED
  BY <1>1, InvariantHolds, PTL

\* No call removes what an earlier encoding of the process has written.
THEOREM OutputsKeptTheorem == Spec => []OutputsKept
<1>1. IInv => OutputsKept
  BY DEF IInv
<1> QED
  BY <1>1, InvariantHolds, PTL

\* What is streamed after a successful initEmbedding is the message of that call,
\* in a record that the encoder reads.
THEOREM StreamTheorem == Spec => []StreamCarriesRequest
<1>1. IInv => StreamCarriesRequest
  BY DEF IInv
<1> QED
  BY <1>1, InvariantHolds, PTL
=============================================================================
