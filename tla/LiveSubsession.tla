--------------------------- MODULE LiveSubsession ---------------------------
(***************************************************************************)
(* The RTSP subsession that serves the stream                              *)
(* (Private/clsLiveServerMediaSubsession.cpp on live555's                  *)
(* OnDemandServerMediaSubsession), with its clients: each asks for the     *)
(* description, sets the stream up, plays it and tears it down again.      *)
(*                                                                         *)
(* The server is one thread with one event loop.  To make the description  *)
(* the handler of a DESCRIBE plays a dummy source into a dummy sink and    *)
(* runs an event loop of its own until the sink has seen the parameter     *)
(* sets; in that loop further requests are handled, whose handlers may run *)
(* loops of their own: only the innermost can return.                      *)
(*                                                                         *)
(* All sources share the encoder, the demuxer and the message, so what one *)
(* of them reads no other will ever deliver.                               *)
(***************************************************************************)
EXTENDS StreamSource

CONSTANTS
  Client,
  Live,        \* the source of the stream that all clients share
  NoClient,
  SetupFrom    \* what a client may have done before its SETUP

\* A client's own source is the dummy source its DESCRIBE creates.
ASSUME SubsessionAssumption ==
  /\ Source = Client \cup {Live} /\ Live \notin Client
  /\ Listener = Client
  /\ NoClient \notin Client
  /\ SetupFrom \subseteq {"new", "described"}

VARIABLES
  pc,               \* what each client has done
  loops,            \* the clients whose DESCRIBE runs an event loop, innermost last
  fSDPLines,        \* the description has been made
  fAuxSDPLine,      \* the parameter line has been found
  fDoneFlag,
  fDummySink,       \* the client whose dummy sink is to find the line
  dummyPlaying,     \* the client whose dummy sink reads its source
  parameterSets,    \* what the framer of that source has saved
  polling,          \* checkForAuxSDPLine is scheduled
  fAreCurrentlyPlaying

describeVars == << loops, fSDPLines, fAuxSDPLine, fDoneFlag, fDummySink,
                   dummyPlaying, parameterSets, polling >>
liveVars == << streamVars, pc, describeVars, fAreCurrentlyPlaying >>

\* The clients the stream counts (its referenceCount), and those it is sent to.
Users == {c \in Client : pc[c] \in {"ready", "playing"}}
Players == {c \in Client : pc[c] = "playing"}

LiveInit ==
  /\ StreamInit
  /\ pc = [c \in Client |-> "new"]
  /\ loops = << >>
  /\ fSDPLines = FALSE
  /\ fAuxSDPLine = FALSE
  /\ fDoneFlag = FALSE
  /\ fDummySink = NoClient
  /\ dummyPlaying = NoClient
  /\ parameterSets = {}
  /\ polling = FALSE
  /\ fAreCurrentlyPlaying = FALSE

\* Once fDoneFlag is set, the inner loops return before another request is
\* handled: they look at it after every step.
Listening == loops = << >> \/ ~fDoneFlag

-----------------------------------------------------------------------------
(* The event loop: sinks that read their source *)

\* Mutant: every unit is taken for a parameter set.
SavedAlways(unit) == {unit.kind}

\* The framer keeps a copy of the parameter sets that pass.
SavedOf(unit) == {unit.kind} \cap {"SPS", "PPS"}

ReadDummy(c) ==
  /\ dummyPlaying = c
  /\ doGetNextFrame(c, {})
  /\ parameterSets' = parameterSets \cup SavedOf(delivered')
  /\ UNCHANGED << open, pc, loops, fSDPLines, fAuxSDPLine, fDoneFlag, fDummySink,
                  dummyPlaying, polling, fAreCurrentlyPlaying >>

ReadLive ==
  /\ fAreCurrentlyPlaying
  /\ doGetNextFrame(Live, Players)
  /\ UNCHANGED << open, pc, describeVars, fAreCurrentlyPlaying >>

-----------------------------------------------------------------------------
(* DESCRIBE *)

DescribeCached(c) ==
  /\ Listening
  /\ pc[c] = "new"
  /\ fSDPLines
  /\ pc' = [pc EXCEPT ![c] = "described"]
  /\ UNCHANGED << streamVars, describeVars, fAreCurrentlyPlaying >>

\* sdpLines makes a dummy source and sink, and getAuxSDPLine enters its loop.
EnterLoop(c) ==
  /\ Listening
  /\ pc[c] = "new"
  /\ ~fSDPLines
  /\ pc' = [pc EXCEPT ![c] = "describing"]
  /\ loops' = Append(loops, c)
  /\ UNCHANGED << fSDPLines, fAuxSDPLine, fDoneFlag, fAreCurrentlyPlaying >>

\* startPlaying reads the first unit at once, and the first look for the line
\* finds none, as it takes two units.
DescribeFirst(c) ==
  /\ EnterLoop(c)
  /\ fDummySink = NoClient
  /\ fDummySink' = c
  /\ dummyPlaying' = c
  /\ polling' = TRUE
  /\ open' = open \cup {c}
  /\ doGetNextFrame(c, {})
  /\ parameterSets' = SavedOf(delivered')

\* Mutant: the sink of the second client takes the place of the first.
DescribeNestedTakesOver(c) ==
  /\ EnterLoop(c)
  /\ fDummySink # NoClient
  /\ fDummySink' = c
  /\ OpenSource(c)
  /\ UNCHANGED << encoderVars, packet, messageVars, delivered, listenerVars,
                  dummyPlaying, parameterSets, polling >>

\* Another dummy sink is at work already; this one is never played.
DescribeNested(c) ==
  /\ EnterLoop(c)
  /\ fDummySink # NoClient
  /\ OpenSource(c)
  /\ UNCHANGED << encoderVars, packet, messageVars, delivered, listenerVars,
                  fDummySink, dummyPlaying, parameterSets, polling >>

\* The dummy sink knows its line when both parameter sets have passed its own
\* framer.
LineIsKnown == fDummySink = dummyPlaying /\ {"SPS", "PPS"} \subseteq parameterSets

\* A look that finds nothing only schedules the next one.
CheckForAuxSDPLine ==
  /\ polling
  /\ LineIsKnown
  /\ fAuxSDPLine' = TRUE
  /\ fDummySink' = NoClient
  /\ fDoneFlag' = TRUE
  /\ polling' = FALSE
  /\ UNCHANGED << streamVars, pc, loops, fSDPLines, dummyPlaying, parameterSets,
                  fAreCurrentlyPlaying >>

\* Mutant: the dummy sink is not closed.
DummyStays(c) == dummyPlaying

DummyWithout(c) == IF dummyPlaying = c THEN NoClient ELSE dummyPlaying

\* The innermost loop ends: its handler writes the description, closes its own
\* sink and source, and answers.
LeaveLoop(c) ==
  /\ loops # << >>
  /\ c = Last(loops)
  /\ fDoneFlag
  /\ loops' = Front(loops)
  /\ fSDPLines' = TRUE
  /\ dummyPlaying' = DummyWithout(c)
  /\ CloseSource(c)
  /\ pc' = [pc EXCEPT ![c] = "described"]
  /\ UNCHANGED << encoderVars, packet, messageVars, delivered, listenerVars,
                  fAuxSDPLine, fDoneFlag, fDummySink, parameterSets, polling,
                  fAreCurrentlyPlaying >>

-----------------------------------------------------------------------------
(* SETUP, PLAY and TEARDOWN; a PAUSE does nothing *)

\* The stream is made for the first client and shared by the others.  The server
\* does not ask for a DESCRIBE before the SETUP: whether there is one is up to
\* the clients.
Setup(c) ==
  /\ Listening
  /\ pc[c] \in SetupFrom
  /\ pc' = [pc EXCEPT ![c] = "ready"]
  /\ Attach(c)
  /\ IF Users = {} THEN OpenSource(Live) ELSE UNCHANGED << open, frameNumber >>
  /\ UNCHANGED << encoderVars, packet, messageVars, delivered, describeVars,
                  fAreCurrentlyPlaying >>

\* The first PLAY starts the sink, which reads its first unit at once.
Play(c) ==
  /\ Listening
  /\ pc[c] = "ready"
  /\ pc' = [pc EXCEPT ![c] = "playing"]
  /\ fAreCurrentlyPlaying' = TRUE
  /\ IF fAreCurrentlyPlaying
     THEN UNCHANGED streamVars
     ELSE doGetNextFrame(Live, {c}) /\ UNCHANGED open
  /\ UNCHANGED describeVars

\* Mutants: the count never comes down to 0; whoever leaves ends the stream.
NeverLast(c) == FALSE
AlwaysLast(c) == TRUE

IsLastUser(c) == Users = {c}

\* TEARDOWN, or the end of a client that has not been heard of for a while.
Teardown(c) ==
  /\ Listening
  /\ c \in Users
  /\ pc' = [pc EXCEPT ![c] = "new"]
  /\ IF IsLastUser(c)
     THEN CloseSource(Live) /\ fAreCurrentlyPlaying' = FALSE
     ELSE UNCHANGED << open, frameNumber, fAreCurrentlyPlaying >>
  /\ UNCHANGED << encoderVars, packet, messageVars, delivered, listenerVars,
                  describeVars >>

Request(c) ==
  \/ DescribeCached(c)
  \/ DescribeFirst(c)
  \/ DescribeNested(c)
  \/ Setup(c)
  \/ Play(c)
  \/ Teardown(c)

LiveNext ==
  \/ \E c \in Client : Request(c) \/ ReadDummy(c) \/ LeaveLoop(c)
  \/ CheckForAuxSDPLine
  \/ ReadLive

\* The delayed tasks and the loops go on; no client has to do anything.
LiveFairness ==
  /\ WF_liveVars(ReadLive)
  /\ WF_liveVars(\E c \in Client : ReadDummy(c))
  /\ WF_liveVars(CheckForAuxSDPLine)
  /\ WF_liveVars(\E c \in Client : LeaveLoop(c))

LiveSpec == LiveInit /\ [][LiveNext]_liveVars /\ LiveFairness

-----------------------------------------------------------------------------
(* Properties *)

\* Every variable has its type (clsLiveServerMediaSubsession.h).
LiveTypeOK ==
  /\ StreamTypeOK
  /\ pc \in [Client -> {"new", "describing", "described", "ready", "playing"}]
  /\ loops \in Seq(Client)
  /\ {fSDPLines, fAuxSDPLine, fDoneFlag, polling, fAreCurrentlyPlaying} \subseteq BOOLEAN
  /\ {fDummySink, dummyPlaying} \subseteq Client \cup {NoClient}
  /\ parameterSets \subseteq {"SPS", "PPS"}

\* The dummy source of a description and the stream never take units from the
\* shared encoder in turns, however the requests of the clients interleave:
\* either would be left with a part of them (getAuxSDPLine, startPlaying).
OneReader == ~(dummyPlaying # NoClient /\ fAreCurrentlyPlaying)

\* The sources that exist are those in use: one for each description that is
\* being made, and the stream's from the first SETUP to the last TEARDOWN.
SourcesInUse ==
  open = Range(loops) \cup (IF Users = {} THEN {} ELSE {Live})

\* A client that plays is served by a sink that runs, whoever else has left
\* (OnDemandServerMediaSubsession::deleteStream).
PlayersAreServed == Players # {} => fAreCurrentlyPlaying /\ Live \in open

(***************************************************************************)
(* No unit of the stream is taken by a description that is being made, nor *)
(* lost or repeated when clients come and go: who plays and is in the      *)
(* middle of the message goes on with its next bit, unless the message is  *)
(* complete or begins again (getAuxSDPLine, OnDemandServerMediaSubsession).*)
(***************************************************************************)
PlayersKeepInStep ==
  [][\A c \in Players : heard'[c] < heard[c] =>
       \/ heard[c] = length
       \/ Completes(heard[c], delivered'.bits)
       \/ 1 \in Range(delivered'.bits)]_liveVars

\* The loop of getAuxSDPLine ends, for the client that plays the dummy sink and
\* for all that have asked meanwhile: every DESCRIBE is answered.
DescriptionAnswered ==
  \A c \in Client : pc[c] = "describing" ~> pc[c] = "described"

\* Who plays the stream, from the beginning or in the middle of it, receives the
\* whole message in one piece, if only it keeps playing.
PlayerReceivesAll ==
  \A c \in Client : pc[c] = "playing" ~> (complete[c] \/ pc[c] # "playing")
=============================================================================
