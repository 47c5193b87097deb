--------------------------- MODULE CarrierChannel ---------------------------
(***************************************************************************)
(* What an encoder promises about the message it is given: every carrier   *)
(* of the video takes one answer of messageReadBit, in the order of the    *)
(* answers, and holds the bit that was answered.  HiddenChannel builds the *)
(* library's calls on this step; MacroblockCoder is shown to implement it. *)
(***************************************************************************)
EXTENDS MessageReader

VARIABLE video     \* the bits its carriers hold, in the decoder's order

channelVars == << messageVars, video >>

\* Where the answer is NoBit the mode stays what the encoder preferred.
EncodeBit ==
  \E bit \in Bit \cup {NoBit} :
    /\ messageReadBit(bit)
    /\ \E carried \in (IF bit = NoBit THEN Bit ELSE {bit}) :
         video' = Append(video, carried)

\* An encoder begins with any message, armed or not, or with a dry run.
ChannelInit ==
  /\ body \in Seq(Bit)
  /\ cursor = 0
  /\ isInitialized \in BOOLEAN
  /\ isSendingMessage \in BOOLEAN
  /\ isSendingMessage => isInitialized
  /\ gettingCapacity \in BOOLEAN
  /\ gettingCapacity => ~isSendingMessage
  /\ numberOfEmbededBits = 0
  /\ video = << >>

ChannelSpec == ChannelInit /\ [][EncodeBit]_channelVars
=============================================================================
