------------------------ MODULE LiveSubsessionProofs ------------------------
(***************************************************************************)
(* For any number of clients: the sources that exist are those in use and  *)
(* who plays is served (LiveInv); if no client asks for a SETUP without a  *)
(* DESCRIBE, a dummy source never shares the encoder with the stream       *)
(* (OrderInv).  What a source delivers does not matter for that.  That it  *)
(* is what was encoded, and that players stay in step with it, follows     *)
(* from the two and the steps of doGetNextFrame, which StreamSourceProofs  *)
(* states for any set of listeners.                                        *)
(***************************************************************************)
EXTENDS LiveSubsession, StreamSourceProofs

Distinct(s) == \A i, j \in 1 .. Len(s) : s[i] = s[j] => i = j

\* The types the argument needs.
LiveTypes ==
  /\ pc \in [Client -> {"new", "describing", "described", "ready", "playing"}]
  /\ loops \in Seq(Client)
  /\ fDoneFlag \in BOOLEAN
  /\ fSDPLines \in BOOLEAN

\* The loops are those of the descriptions that are being made, each once.
LoopsInv ==
  /\ Distinct(loops)
  /\ \A c \in Client : c \in Range(loops) <=> pc[c] = "describing"

\* If clients ask for the description first: while a loop runs nobody has set up
\* the stream, and once it has been made no loop handles another request.
OrderInv ==
  /\ loops # << >> => \A c \in Client : pc[c] \notin {"ready", "playing"}
  /\ fSDPLines /\ loops # << >> => fDoneFlag
  /\ \A c \in Client : pc[c] \in {"described", "ready", "playing"} => fSDPLines

DummyInv == dummyPlaying # NoClient => dummyPlaying \in Range(loops)

PlayingInv == fAreCurrentlyPlaying => \E c \in Client : pc[c] \in {"ready", "playing"}

LiveInv ==
  /\ LiveTypes
  /\ LoopsInv
  /\ DummyInv
  /\ PlayingInv
  /\ SourcesInUse
  /\ PlayersAreServed

-----------------------------------------------------------------------------
(* Sequences *)

LEMMA RangeOfAppend ==
  ASSUME NEW S, NEW s \in Seq(S), NEW e \in S
  PROVE  /\ Append(s, e) \in Seq(S)
         /\ Range(Append(s, e)) = Range(s) \cup {e}
         /\ Append(s, e) # << >>
<1>1. Len(Append(s, e)) = Len(s) + 1 /\ DOMAIN Append(s, e) = 1 .. Len(s) + 1
  OBVIOUS
<1>2. DOMAIN s = 1 .. Len(s) /\ Len(s) \in Nat
  OBVIOUS
<1>3. \A i \in 1 .. Len(s) : Append(s, e)[i] = s[i]
  OBVIOUS
<1>4. Append(s, e)[Len(s) + 1] = e
  OBVIOUS
<1>5. Range(Append(s, e)) \subseteq Range(s) \cup {e}
  <2>1. SUFFICES ASSUME NEW i \in 1 .. Len(s) + 1
                 PROVE  Append(s, e)[i] \in Range(s) \cup {e}
    BY <1>1 DEF Range
  <2>2. CASE i \in 1 .. Len(s)
    BY <2>2, <1>2, <1>3 DEF Range
  <2>3. CASE i = Len(s) + 1
    BY <2>3, <1>4
  <2>4. QED
    BY <2>2, <2>3, <1>2
<1>6. Range(s) \cup {e} \subseteq Range(Append(s, e))
  <2>1. ASSUME NEW i \in 1 .. Len(s) PROVE s[i] \in Range(Append(s, e))
    <3>1. i \in DOMAIN Append(s, e)
      BY <1>1, <1>2
    <3>2. QED
      BY <3>1, <1>3 DEF Range
  <2>2. e \in Range(Append(s, e))
    <3>1. Len(s) + 1 \in DOMAIN Append(s, e)
      BY <1>1, <1>2
    <3>2. QED
      BY <3>1, <1>4 DEF Range
  <2>3. QED
    BY <2>1, <2>2, <1>2 DEF Range
<1>7. Append(s, e) \in Seq(S) /\ Append(s, e) # << >>
  BY <1>1, <1>2
<1>8. QED
  BY <1>5, <1>6, <1>7

LEMMA DistinctAppend ==
  ASSUME NEW S, NEW s \in Seq(S), NEW e \in S, Distinct(s), e \notin Range(s)
  PROVE  Distinct(Append(s, e))
<1>1. Len(Append(s, e)) = Len(s) + 1 /\ Len(s) \in Nat /\ DOMAIN s = 1 .. Len(s)
  OBVIOUS
<1>2. \A i \in 1 .. Len(s) : Append(s, e)[i] = s[i] /\ s[i] # e
  BY <1>1 DEF Range
<1>3. Append(s, e)[Len(s) + 1] = e
  OBVIOUS
<1>4. SUFFICES ASSUME NEW i \in 1 .. Len(s) + 1, NEW j \in 1 .. Len(s) + 1,
                      Append(s, e)[i] = Append(s, e)[j]
               PROVE  i = j
  BY <1>1 DEF Distinct
<1>5. CASE i \in 1 .. Len(s) /\ j \in 1 .. Len(s)
  BY <1>5, <1>2, <1>4 DEF Distinct
<1>6. CASE i \in 1 .. Len(s) /\ j = Len(s) + 1
  BY <1>6, <1>2, <1>3, <1>4
<1>7. CASE i = Len(s) + 1 /\ j \in 1 .. Len(s)
  BY <1>7, <1>2, <1>3, <1>4
<1>8. QED
  BY <1>1, <1>5, <1>6, <1>7

LEMMA WithoutLast ==
  ASSUME NEW S, NEW s \in Seq(S), s # << >>, Distinct(s)
  PROVE  /\ Front(s) \in Seq(S)
         /\ Last(s) \in S
         /\ Last(s) \in Range(s)
         /\ Distinct(Front(s))
         /\ Range(Front(s)) = Range(s) \ {Last(s)}
<1>1. Len(s) \in Nat \ {0} /\ DOMAIN s = 1 .. Len(s)
  OBVIOUS
<1>2. Front(s) = SubSeq(s, 1, Len(s) - 1) /\ Last(s) = s[Len(s)]
  BY DEF Front, Last
<1>3. /\ Front(s) \in Seq(S)
      /\ Len(Front(s)) = Len(s) - 1
      /\ DOMAIN Front(s) = 1 .. Len(s) - 1
      /\ \A i \in 1 .. Len(s) - 1 : Front(s)[i] = s[i]
  BY <1>1, <1>2
<1>4. Last(s) \in S /\ Last(s) \in Range(s)
  BY <1>1, <1>2 DEF Range
<1>5. Distinct(Front(s))
  BY <1>1, <1>3 DEF Distinct
<1>6. ASSUME NEW i \in 1 .. Len(s) - 1 PROVE s[i] \in Range(s) /\ s[i] # Last(s)
  BY <1>1, <1>2 DEF Range, Distinct
<1>7. Range(Front(s)) \subseteq Range(s) \ {Last(s)}
  BY <1>3, <1>6 DEF Range
<1>8. ASSUME NEW i \in 1 .. Len(s), s[i] # Last(s) PROVE s[i] \in Range(Front(s))
  <2>1. i \in 1 .. Len(s) - 1
    BY <1>1, <1>2, <1>8
  <2>2. QED
    BY <2>1, <1>3 DEF Range
<1>9. Range(s) \ {Last(s)} \subseteq Range(Front(s))
  BY <1>8, <1>1 DEF Range
<1>10. QED
  BY <1>3, <1>4, <1>5, <1>7, <1>9

-----------------------------------------------------------------------------
(* The invariant *)

LEMMA LiveInit_Inv == LiveInit => LiveInv
<1>1. SUFFICES ASSUME LiveInit PROVE LiveInv
  OBVIOUS
<1>2. /\ pc = [c \in Client |-> "new"] /\ loops = << >> /\ open = {}
      /\ fDoneFlag = FALSE /\ fSDPLines = FALSE
      /\ dummyPlaying = NoClient /\ fAreCurrentlyPlaying = FALSE
  BY <1>1 DEF LiveInit, StreamInit
<1>3. Range(loops) = {}
  BY <1>2 DEF Range
<1>4. Users = {} /\ Players = {}
  BY <1>2 DEF Users, Players
<1>5. LiveTypes
  <2>1. loops \in Seq(Client)
    BY <1>2
  <2>2. pc \in [Client -> {"new", "describing", "described", "ready", "playing"}]
    BY <1>2
  <2>3. QED
    BY <2>1, <2>2, <1>2 DEF LiveTypes
<1>6. LoopsInv
  <2>1. Distinct(loops)
    BY <1>2 DEF Distinct
  <2>2. QED
    BY <2>1, <1>2, <1>3 DEF LoopsInv
<1>7. DummyInv /\ PlayingInv
  BY <1>2 DEF DummyInv, PlayingInv
<1>8. SourcesInUse /\ PlayersAreServed
  BY <1>2, <1>3, <1>4 DEF SourcesInUse, PlayersAreServed
<1>9. QED
  BY <1>5, <1>6, <1>7, <1>8 DEF LiveInv

\* Steps that leave the clients and the loops alone.
LEMMA QuietStep ==
  ASSUME LiveInv, UNCHANGED << open, pc, loops, fSDPLines, dummyPlaying,
                               fAreCurrentlyPlaying >>,
         fDoneFlag' \in BOOLEAN
  PROVE  LiveInv'
<1>1. LiveTypes'
  BY DEF LiveInv, LiveTypes
<1>2. LoopsInv'
  BY DEF LiveInv, LoopsInv, Distinct, Range
<1>3. DummyInv'
  BY DEF LiveInv, DummyInv, Range
<1>4. PlayingInv'
  BY DEF LiveInv, PlayingInv
<1>5. SourcesInUse'
  BY DEF LiveInv, SourcesInUse, Users, Range
<1>6. PlayersAreServed'
  BY DEF LiveInv, PlayersAreServed, Players
<1>7. QED
  BY <1>1, <1>2, <1>3, <1>4, <1>5, <1>6 DEF LiveInv

LEMMA StreamUnchanged ==
  ASSUME UNCHANGED streamVars
  PROVE  UNCHANGED open
BY DEF streamVars

\* The loops are those of clients, so no loop is the stream's.
LEMMA LoopsOfClients ==
  ASSUME LiveInv
  PROVE  Range(loops) \subseteq Client /\ Live \notin Range(loops)
BY SubsessionAssumption DEF LiveInv, LiveTypes, Range

LEMMA DescribeCached_Inv ==
  ASSUME LiveInv, NEW c \in Client, DescribeCached(c)
  PROVE  LiveInv'
<1>1. /\ pc[c] = "new" /\ fSDPLines
      /\ pc' = [pc EXCEPT ![c] = "described"]
      /\ UNCHANGED << loops, fSDPLines, fDoneFlag, dummyPlaying,
                      fAreCurrentlyPlaying, open >>
  BY StreamUnchanged DEF DescribeCached, describeVars
<1>2. LiveTypes'
  BY <1>1 DEF LiveInv, LiveTypes
<1>3. /\ pc'[c] = "described"
      /\ \A d \in Client : d # c => pc'[d] = pc[d]
  BY <1>1 DEF LiveInv, LiveTypes
<1>4. Range(loops)' = Range(loops) /\ Distinct(loops)' = Distinct(loops)
  BY <1>1 DEF Range, Distinct
<1>5. LoopsInv'
  BY <1>1, <1>3, <1>4 DEF LiveInv, LoopsInv
<1>6. DummyInv'
  BY <1>1, <1>4 DEF LiveInv, DummyInv
<1>7. PlayingInv'
  BY <1>1, <1>3 DEF LiveInv, PlayingInv
<1>8. Users' = Users /\ Players' = Players
  BY <1>1, <1>3 DEF Users, Players
<1>9. SourcesInUse' /\ PlayersAreServed'
  BY <1>1, <1>4, <1>8 DEF LiveInv, SourcesInUse, PlayersAreServed
<1>10. QED
  BY <1>2, <1>5, <1>6, <1>7, <1>9 DEF LiveInv

\* A description that is begun adds a loop and a source.
LEMMA EnterLoop_Inv ==
  ASSUME LiveInv, NEW c \in Client, EnterLoop(c), open' = open \cup {c},
         dummyPlaying' \in {dummyPlaying, c}
  PROVE  LiveInv'
<1>1. /\ pc[c] = "new" /\ ~fSDPLines
      /\ pc' = [pc EXCEPT ![c] = "describing"]
      /\ loops' = Append(loops, c)
      /\ UNCHANGED << fSDPLines, fDoneFlag, fAreCurrentlyPlaying >>
  BY DEF EnterLoop
<1>2. loops \in Seq(Client) /\ c \notin Range(loops) /\ Distinct(loops)
  BY <1>1 DEF LiveInv, LiveTypes, LoopsInv
<1>3. /\ loops' \in Seq(Client) /\ loops' # << >>
      /\ Range(loops') = Range(loops) \cup {c}
      /\ Distinct(loops')
  BY <1>1, <1>2, RangeOfAppend, DistinctAppend
<1>4. LiveTypes'
  BY <1>1, <1>3 DEF LiveInv, LiveTypes
<1>5. /\ pc'[c] = "describing"
      /\ \A d \in Client : d # c => pc'[d] = pc[d]
  BY <1>1 DEF LiveInv, LiveTypes
<1>6. LoopsInv'
  BY <1>3, <1>5 DEF LiveInv, LoopsInv
<1>7. DummyInv'
  BY <1>3 DEF LiveInv, DummyInv
<1>8. Users' = Users /\ Players' = Players
  BY <1>1, <1>5 DEF Users, Players
<1>9. PlayingInv'
  BY <1>1, <1>5 DEF LiveInv, PlayingInv
<1>10. SourcesInUse'
  BY <1>3, <1>8 DEF LiveInv, SourcesInUse
<1>11. PlayersAreServed'
  BY <1>1, <1>8 DEF LiveInv, PlayersAreServed
<1>12. QED
  BY <1>4, <1>6, <1>7, <1>9, <1>10, <1>11 DEF LiveInv

LEMMA LeaveLoop_Inv ==
  ASSUME LiveInv, NEW c \in Client, LeaveLoop(c)
  PROVE  LiveInv'
<1>1. /\ loops # << >> /\ c = Last(loops) /\ fDoneFlag
      /\ loops' = Front(loops) /\ fSDPLines' = TRUE
      /\ dummyPlaying' = DummyWithout(c)
      /\ open' = open \ {c}
      /\ pc' = [pc EXCEPT ![c] = "described"]
      /\ UNCHANGED << fDoneFlag, fAreCurrentlyPlaying >>
  BY DEF LeaveLoop, CloseSource
<1>2. loops \in Seq(Client) /\ Distinct(loops)
  BY DEF LiveInv, LiveTypes, LoopsInv
<1>3. /\ loops' \in Seq(Client)
      /\ Range(loops') = Range(loops) \ {c}
      /\ Distinct(loops')
      /\ c \in Range(loops)
  BY <1>1, <1>2, WithoutLast
<1>4. LiveTypes'
  BY <1>1, <1>3 DEF LiveInv, LiveTypes
<1>5. /\ pc'[c] = "described" /\ pc[c] = "describing"
      /\ \A d \in Client : d # c => pc'[d] = pc[d]
  BY <1>1, <1>3 DEF LiveInv, LiveTypes, LoopsInv
<1>6. LoopsInv'
  BY <1>3, <1>5 DEF LiveInv, LoopsInv
<1>7. DummyInv'
  BY <1>1, <1>3 DEF LiveInv, DummyInv, DummyWithout
<1>8. Users' = Users /\ Players' = Players
  BY <1>1, <1>5 DEF Users, Players
<1>9. PlayingInv'
  BY <1>1, <1>5 DEF LiveInv, PlayingInv
<1>10. c # Live
  BY SubsessionAssumption
<1>11. SourcesInUse'
  BY <1>1, <1>3, <1>8, <1>10 DEF LiveInv, SourcesInUse
<1>12. PlayersAreServed'
  BY <1>1, <1>8, <1>10 DEF LiveInv, PlayersAreServed
<1>13. QED
  BY <1>4, <1>6, <1>7, <1>9, <1>11, <1>12 DEF LiveInv

LEMMA Setup_Inv ==
  ASSUME LiveInv, NEW c \in Client, Setup(c)
  PROVE  LiveInv'
<1>1. /\ pc[c] \in {"new", "described"}
      /\ pc' = [pc EXCEPT ![c] = "ready"]
      /\ UNCHANGED << loops, fSDPLines, fDoneFlag, dummyPlaying,
                      fAreCurrentlyPlaying >>
      /\ open' = IF Users = {} THEN open \cup {Live} ELSE open
  BY SubsessionAssumption DEF Setup, describeVars, OpenSource
<1>2. Range(loops)' = Range(loops) /\ Distinct(loops)' = Distinct(loops)
  BY <1>1 DEF Distinct, Range
<1>3. LiveTypes'
  BY <1>1 DEF LiveInv, LiveTypes
<1>4. /\ pc'[c] = "ready"
      /\ \A d \in Client : d # c => pc'[d] = pc[d]
  BY <1>1 DEF LiveInv, LiveTypes
<1>5. LoopsInv'
  BY <1>1, <1>2, <1>4 DEF LiveInv, LoopsInv
<1>6. DummyInv'
  BY <1>1, <1>2 DEF LiveInv, DummyInv
<1>7. PlayingInv'
  BY <1>4 DEF PlayingInv
<1>8. Users' # {} /\ Players' = Players
  BY <1>1, <1>4 DEF Users, Players
<1>9. SourcesInUse'
  BY <1>1, <1>2, <1>8 DEF LiveInv, SourcesInUse
<1>10. PlayersAreServed'
  BY <1>1, <1>8 DEF LiveInv, PlayersAreServed
<1>11. QED
  BY <1>3, <1>5, <1>6, <1>7, <1>9, <1>10 DEF LiveInv

LEMMA Play_Inv ==
  ASSUME LiveInv, NEW c \in Client, Play(c)
  PROVE  LiveInv'
<1>1. /\ pc[c] = "ready"
      /\ pc' = [pc EXCEPT ![c] = "playing"]
      /\ fAreCurrentlyPlaying' = TRUE
      /\ UNCHANGED << loops, fSDPLines, fDoneFlag, dummyPlaying, open >>
  BY StreamUnchanged DEF Play, describeVars
<1>2. Range(loops)' = Range(loops) /\ Distinct(loops)' = Distinct(loops)
  BY <1>1 DEF Distinct, Range
<1>3. LiveTypes'
  BY <1>1 DEF LiveInv, LiveTypes
<1>4. /\ pc'[c] = "playing"
      /\ \A d \in Client : d # c => pc'[d] = pc[d]
  BY <1>1 DEF LiveInv, LiveTypes
<1>5. LoopsInv'
  BY <1>1, <1>2, <1>4 DEF LiveInv, LoopsInv
<1>6. DummyInv'
  BY <1>1, <1>2 DEF LiveInv, DummyInv
<1>7. PlayingInv'
  BY <1>4 DEF PlayingInv
<1>8. Users # {} /\ Users' # {}
  BY <1>1, <1>4 DEF Users
<1>9. SourcesInUse'
  BY <1>1, <1>2, <1>8 DEF LiveInv, SourcesInUse
<1>10. Live \in open
  BY <1>8 DEF LiveInv, SourcesInUse
<1>11. PlayersAreServed'
  BY <1>1, <1>10 DEF PlayersAreServed
<1>12. QED
  BY <1>3, <1>5, <1>6, <1>7, <1>9, <1>11 DEF LiveInv

LEMMA Teardown_Inv ==
  ASSUME LiveInv, NEW c \in Client, Teardown(c)
  PROVE  LiveInv'
<1>1. /\ c \in Users
      /\ pc' = [pc EXCEPT ![c] = "new"]
      /\ UNCHANGED << loops, fSDPLines, fDoneFlag, dummyPlaying >>
      /\ IF Users = {c}
         THEN open' = open \ {Live} /\ fAreCurrentlyPlaying' = FALSE
         ELSE UNCHANGED << open, fAreCurrentlyPlaying >>
  BY DEF Teardown, describeVars, CloseSource, IsLastUser
<1>2. pc[c] \in {"ready", "playing"}
  BY <1>1 DEF Users
<1>3. Range(loops)' = Range(loops) /\ Distinct(loops)' = Distinct(loops)
  BY <1>1 DEF Distinct, Range
<1>4. LiveTypes'
  BY <1>1 DEF LiveInv, LiveTypes
<1>5. /\ pc'[c] = "new"
      /\ \A d \in Client : d # c => pc'[d] = pc[d]
  BY <1>1 DEF LiveInv, LiveTypes
<1>6. LoopsInv'
  BY <1>1, <1>2, <1>3, <1>5 DEF LiveInv, LoopsInv
<1>7. DummyInv'
  BY <1>1, <1>3 DEF LiveInv, DummyInv
<1>8. Users' = Users \ {c} /\ Players' = Players \ {c} /\ Players \subseteq Users
  BY <1>5 DEF Users, Players
<1>9. PlayingInv'
  <2>1. CASE Users = {c}
    BY <2>1, <1>1 DEF PlayingInv
  <2>2. CASE Users # {c}
    <3>1. PICK d \in Users : d # c
      BY <2>2, <1>1
    <3>2. QED
      BY <3>1, <1>5 DEF PlayingInv, Users
  <2>3. QED
    BY <2>1, <2>2
<1>10. SourcesInUse'
  <2>1. open = Range(loops) \cup {Live} /\ Live \notin Range(loops)
    BY <1>1, LoopsOfClients DEF LiveInv, SourcesInUse
  <2>2. QED
    BY <1>1, <1>3, <1>8, <2>1 DEF SourcesInUse
<1>11. PlayersAreServed'
  BY <1>1, <1>8 DEF LiveInv, PlayersAreServed
<1>12. QED
  BY <1>4, <1>6, <1>7, <1>9, <1>10, <1>11 DEF LiveInv

LEMMA LiveStep_Inv == LiveInv /\ [LiveNext]_liveVars => LiveInv'
<1>1. SUFFICES ASSUME LiveInv, [LiveNext]_liveVars PROVE LiveInv'
  OBVIOUS
<1>2. fDoneFlag \in BOOLEAN
  BY <1>1 DEF LiveInv, LiveTypes
<1>3. ASSUME NEW c \in Client, DescribeCached(c) PROVE LiveInv'
  BY <1>1, <1>3, DescribeCached_Inv
<1>4. ASSUME NEW c \in Client, DescribeFirst(c) PROVE LiveInv'
  <2>1. EnterLoop(c) /\ open' = open \cup {c} /\ dummyPlaying' = c
    BY <1>4 DEF DescribeFirst
  <2>2. QED
    BY <1>1, <2>1, EnterLoop_Inv
<1>5. ASSUME NEW c \in Client, DescribeNested(c) PROVE LiveInv'
  <2>1. EnterLoop(c) /\ open' = open \cup {c} /\ dummyPlaying' = dummyPlaying
    BY <1>5 DEF DescribeNested, OpenSource
  <2>2. QED
    BY <1>1, <2>1, EnterLoop_Inv
<1>6. ASSUME NEW c \in Client, Setup(c) PROVE LiveInv'
  BY <1>1, <1>6, Setup_Inv
<1>7. ASSUME NEW c \in Client, Play(c) PROVE LiveInv'
  BY <1>1, <1>7, Play_Inv
<1>8. ASSUME NEW c \in Client, Teardown(c) PROVE LiveInv'
  BY <1>1, <1>8, Teardown_Inv
<1>9. ASSUME NEW c \in Client, ReadDummy(c) PROVE LiveInv'
  <2>1. UNCHANGED << open, pc, loops, fSDPLines, dummyPlaying,
                     fAreCurrentlyPlaying, fDoneFlag >>
    BY <1>9 DEF ReadDummy
  <2>2. QED
    BY <1>1, <1>2, <2>1, QuietStep
<1>10. ASSUME NEW c \in Client, LeaveLoop(c) PROVE LiveInv'
  BY <1>1, <1>10, LeaveLoop_Inv
<1>11. CASE CheckForAuxSDPLine
  <2>1. /\ UNCHANGED << open, pc, loops, fSDPLines, dummyPlaying,
                        fAreCurrentlyPlaying >>
        /\ fDoneFlag' = TRUE
    BY <1>11, StreamUnchanged DEF CheckForAuxSDPLine
  <2>2. QED
    BY <1>1, <2>1, QuietStep
<1>12. CASE ReadLive
  <2>1. UNCHANGED << open, pc, loops, fSDPLines, dummyPlaying,
                     fAreCurrentlyPlaying, fDoneFlag >>
    BY <1>12 DEF ReadLive, describeVars
  <2>2. QED
    BY <1>1, <1>2, <2>1, QuietStep
<1>13. CASE UNCHANGED liveVars
  <2>1. UNCHANGED << open, pc, loops, fSDPLines, dummyPlaying,
                     fAreCurrentlyPlaying, fDoneFlag >>
    BY <1>13, StreamUnchanged DEF liveVars, describeVars
  <2>2. QED
    BY <1>1, <1>2, <2>1, QuietStep
<1>14. QED
  BY <1>1, <1>3, <1>4, <1>5, <1>6, <1>7, <1>8, <1>9, <1>10, <1>11, <1>12, <1>13
     DEF LiveNext, Request

THEOREM LiveInvariant == LiveSpec => []LiveInv
BY LiveInit_Inv, LiveStep_Inv, PTL DEF LiveSpec

\* Sources that exist are in use, and none in use is closed: the server neither
\* loses a dummy source nor closes the stream under a client that has set it
\* up, in whatever order clients come and go (OnDemandServerMediaSubsession).
THEOREM SourcesInUseTheorem == LiveSpec => []SourcesInUse
<1>1. LiveInv => SourcesInUse
  BY DEF LiveInv
<1>2. QED
  BY <1>1, LiveInvariant, PTL

\* Who plays is served by a sink that runs, whoever else has torn down.
THEOREM PlayersAreServedTheorem == LiveSpec => []PlayersAreServed
<1>1. LiveInv => PlayersAreServed
  BY DEF LiveInv
<1>2. QED
  BY <1>1, LiveInvariant, PTL

-----------------------------------------------------------------------------
(* Clients that ask for the description first *)

\* A request of such a client is handled in the main loop, or while the description
\* is made for somebody else; the latter only if it does not exist yet.
LEMMA AskedInMainLoop ==
  ASSUME OrderInv, Listening, NEW c \in Client,
         pc[c] \in {"described", "ready", "playing"}
  PROVE  loops = << >> /\ fSDPLines
BY DEF OrderInv, Listening

LEMMA OrderStep ==
  ASSUME SetupFrom \subseteq {"described"}, LiveInv, OrderInv, [LiveNext]_liveVars
  PROVE  OrderInv'
<1>1. /\ pc \in [Client -> {"new", "describing", "described", "ready", "playing"}]
      /\ loops \in Seq(Client)
  BY DEF LiveInv, LiveTypes
<1>2. ASSUME NEW c \in Client, DescribeCached(c)
      PROVE  OrderInv'
  <2>1. /\ fSDPLines /\ pc' = [pc EXCEPT ![c] = "described"]
        /\ UNCHANGED << loops, fSDPLines, fDoneFlag >>
    BY <1>2 DEF DescribeCached, describeVars
  <2> QED
    BY <1>1, <2>1 DEF OrderInv
<1>3. ASSUME NEW c \in Client, DescribeFirst(c) \/ DescribeNested(c)
      PROVE  OrderInv'
  <2>1. /\ ~fSDPLines /\ pc' = [pc EXCEPT ![c] = "describing"]
        /\ UNCHANGED << fSDPLines, fDoneFlag >>
    BY <1>3 DEF DescribeFirst, DescribeNested, EnterLoop
  <2>2. \A d \in Client : pc'[d] \notin {"described", "ready", "playing"}
    BY <1>1, <2>1 DEF OrderInv
  <2> QED
    BY <2>1, <2>2 DEF OrderInv
<1>4. ASSUME NEW c \in Client, Setup(c) \/ Play(c) \/ Teardown(c)
      PROVE  OrderInv'
  <2>1. /\ Listening /\ pc[c] \in {"described", "ready", "playing"}
        /\ UNCHANGED << loops, fSDPLines, fDoneFlag >>
    BY <1>4 DEF Setup, Play, Teardown, Users, describeVars
  <2>2. loops = << >> /\ fSDPLines
    BY <2>1, AskedInMainLoop
  <2> QED
    BY <2>1, <2>2 DEF OrderInv
<1>5. ASSUME NEW c \in Client, LeaveLoop(c)
      PROVE  OrderInv'
  <2>1. /\ loops # << >> /\ fDoneFlag /\ fDoneFlag' /\ fSDPLines'
        /\ pc' = [pc EXCEPT ![c] = "described"]
    BY <1>5 DEF LeaveLoop
  <2>2. \A d \in Client : pc'[d] \notin {"ready", "playing"}
    BY <1>1, <2>1 DEF OrderInv
  <2> QED
    BY <2>1, <2>2 DEF OrderInv
<1>6. CASE (\E c \in Client : ReadDummy(c)) \/ CheckForAuxSDPLine \/ ReadLive
             \/ UNCHANGED liveVars
  <2>1. UNCHANGED << pc, loops, fSDPLines >> /\ (fDoneFlag => fDoneFlag')
    BY <1>6 DEF ReadDummy, CheckForAuxSDPLine, ReadLive, liveVars, describeVars
  <2> QED
    BY <2>1 DEF OrderInv
<1> QED
  BY <1>2, <1>3, <1>4, <1>5, <1>6 DEF LiveNext, Request

THEOREM Ordered ==
  ASSUME SetupFrom \subseteq {"described"}
  PROVE  LiveSpec => []OrderInv
<1>1. LiveInit => OrderInv
  BY DEF LiveInit, OrderInv
<1>2. LiveInv /\ OrderInv /\ [LiveNext]_liveVars => OrderInv'
  BY OrderStep
<1> QED
  BY <1>1, <1>2, LiveInvariant, PTL DEF LiveSpec

\* If no client asks for a SETUP without a DESCRIBE, a description and the stream
\* never read the shared encoder in turns: a dummy source plays only while a
\* description is being made, and then nobody has set up the stream
\* (getAuxSDPLine, StreamState::startPlaying).
THEOREM OneReaderTheorem ==
  ASSUME SetupFrom \subseteq {"described"}
  PROVE  LiveSpec => []OneReader
<1>1. ASSUME LiveInv, OrderInv PROVE OneReader
  <2>1. SUFFICES ASSUME dummyPlaying # NoClient, fAreCurrentlyPlaying PROVE FALSE
    BY DEF OneReader
  <2>2. dummyPlaying \in Range(loops)
    BY <1>1, <2>1 DEF LiveInv, DummyInv
  <2>3. loops # << >>
    BY <2>2 DEF Range
  <2>4. QED
    BY <1>1, <2>1, <2>3 DEF LiveInv, OrderInv, PlayingInv
<1>2. QED
  BY <1>1, LiveInvariant, Ordered, PTL

-----------------------------------------------------------------------------
(* Types *)

\* The variables of the subsession itself.
SubsessionTypes ==
  /\ pc \in [Client -> {"new", "describing", "described", "ready", "playing"}]
  /\ loops \in Seq(Client)
  /\ fSDPLines \in BOOLEAN /\ fAuxSDPLine \in BOOLEAN /\ fDoneFlag \in BOOLEAN
  /\ polling \in BOOLEAN /\ fAreCurrentlyPlaying \in BOOLEAN
  /\ fDummySink \in Client \cup {NoClient}
  /\ dummyPlaying \in Client \cup {NoClient}
  /\ parameterSets \subseteq {"SPS", "PPS"}

LEMMA LiveTypeParts == LiveTypeOK <=> StreamTypeOK /\ SubsessionTypes
<1>1. {fSDPLines, fAuxSDPLine, fDoneFlag, polling, fAreCurrentlyPlaying} \subseteq BOOLEAN
        <=> /\ fSDPLines \in BOOLEAN /\ fAuxSDPLine \in BOOLEAN /\ fDoneFlag \in BOOLEAN
            /\ polling \in BOOLEAN /\ fAreCurrentlyPlaying \in BOOLEAN
  BY Zenon
<1>2. {fDummySink, dummyPlaying} \subseteq Client \cup {NoClient}
        <=> fDummySink \in Client \cup {NoClient} /\ dummyPlaying \in Client \cup {NoClient}
  BY Zenon
<1> QED
  BY <1>1, <1>2, Zenon DEF LiveTypeOK, SubsessionTypes

\* What a step does to the stream: it is read, sources come and go, a listener
\* begins to listen.
LEMMA StreamReadTypes ==
  ASSUME StreamTypeOK, NEW s \in Source, NEW listeners, doGetNextFrame(s, listeners),
         open' = open \/ open' = open \cup {s}
  PROVE  StreamTypeOK'
<1>1. open' \subseteq Source
  BY DEF StreamTypeOK
<1> QED
  BY <1>1, GetNextFrameTypes

LEMMA StreamQuietTypes ==
  ASSUME StreamTypeOK, UNCHANGED << encoderVars, packet, messageVars, delivered >>,
         open' \subseteq Source, frameNumber' \in [Source -> 0 .. UINT_MAX], ListenersOK'
  PROVE  StreamTypeOK'
BY DEF StreamTypeOK, ListenersOK, encoderVars, messageVars

LEMMA StreamSourceTypes ==
  ASSUME StreamTypeOK, NEW s \in Source, OpenSource(s) \/ CloseSource(s),
         UNCHANGED << encoderVars, packet, messageVars, delivered, listenerVars >>
  PROVE  StreamTypeOK'
<1>1. ListenersOK'
  BY DEF StreamTypeOK, ListenersOK, listenerVars
<1> QED
  BY <1>1, OpenTypes, StreamQuietTypes

LEMMA StreamTypesOfLiveStep ==
  ASSUME StreamTypeOK, [LiveNext]_liveVars
  PROVE  StreamTypeOK'
<1>1. Client \subseteq Source /\ Live \in Source
  BY SubsessionAssumption
<1>2. ASSUME UNCHANGED streamVars
      PROVE  StreamTypeOK'
  BY <1>2 DEF streamVars, encoderVars, messageVars, listenerVars, StreamTypeOK
<1>3. ASSUME NEW c \in Client, Request(c)
      PROVE  StreamTypeOK'
  <2>1. CASE DescribeCached(c)
    BY <1>2, <2>1 DEF DescribeCached
  <2>2. CASE DescribeFirst(c)
    BY <1>1, <2>2, StreamReadTypes DEF DescribeFirst
  <2>3. CASE DescribeNested(c)
    BY <1>1, <2>3, StreamSourceTypes DEF DescribeNested
  <2>4. CASE Setup(c)
    <3>1. /\ Attach(c) /\ UNCHANGED << encoderVars, packet, messageVars, delivered >>
          /\ OpenSource(Live) \/ UNCHANGED << open, frameNumber >>
      BY <2>4 DEF Setup
    <3>2. open' \subseteq Source /\ frameNumber' \in [Source -> 0 .. UINT_MAX]
      BY <1>1, <3>1, OpenTypes DEF StreamTypeOK
    <3> QED
      BY <3>1, <3>2, AttachTypes, StreamQuietTypes
  <2>5. CASE Play(c)
    <3>1. UNCHANGED streamVars \/ (doGetNextFrame(Live, {c}) /\ open' = open)
      BY <2>5 DEF Play
    <3> QED
      BY <1>1, <1>2, <3>1, StreamReadTypes
  <2>6. CASE Teardown(c)
    <3>1. /\ UNCHANGED << encoderVars, packet, messageVars, delivered, listenerVars >>
          /\ CloseSource(Live) \/ UNCHANGED << open, frameNumber >>
      BY <2>6 DEF Teardown
    <3>2. CASE CloseSource(Live)
      BY <1>1, <3>1, <3>2, StreamSourceTypes
    <3>3. CASE UNCHANGED << open, frameNumber >>
      BY <1>2, <3>1, <3>3 DEF streamVars
    <3> QED
      BY <3>1, <3>2, <3>3
  <2> QED
    BY <1>3, <2>1, <2>2, <2>3, <2>4, <2>5, <2>6 DEF Request
<1>4. ASSUME NEW c \in Client, ReadDummy(c)
      PROVE  StreamTypeOK'
  BY <1>1, <1>4, StreamReadTypes DEF ReadDummy
<1>5. ASSUME NEW c \in Client, LeaveLoop(c)
      PROVE  StreamTypeOK'
  BY <1>1, <1>5, StreamSourceTypes DEF LeaveLoop
<1>6. CASE CheckForAuxSDPLine
  BY <1>2, <1>6 DEF CheckForAuxSDPLine
<1>7. CASE ReadLive
  BY <1>1, <1>7, StreamReadTypes DEF ReadLive
<1>8. CASE UNCHANGED liveVars
  BY <1>2, <1>8 DEF liveVars
<1> QED
  BY <1>3, <1>4, <1>5, <1>6, <1>7, <1>8 DEF LiveNext

LEMMA SubsessionTypesStep ==
  ASSUME SubsessionTypes, [LiveNext]_liveVars
  PROVE  SubsessionTypes'
<1>1. ASSUME NEW c \in Client, DescribeCached(c) PROVE SubsessionTypes'
  BY <1>1 DEF DescribeCached, describeVars, SubsessionTypes
<1>2. ASSUME NEW c \in Client, EnterLoop(c)
      PROVE  /\ pc' \in [Client -> {"new", "describing", "described", "ready", "playing"}]
             /\ loops' \in Seq(Client)
  BY <1>2 DEF EnterLoop, SubsessionTypes
<1>3. ASSUME NEW c \in Client, DescribeFirst(c) PROVE SubsessionTypes'
  <2>1. /\ EnterLoop(c) /\ fDummySink' = c /\ dummyPlaying' = c /\ polling' = TRUE
        /\ parameterSets' \subseteq {"SPS", "PPS"}
    BY <1>3 DEF DescribeFirst, SavedOf
  <2> QED
    BY <1>2, <2>1 DEF EnterLoop, SubsessionTypes
<1>4. ASSUME NEW c \in Client, DescribeNested(c) PROVE SubsessionTypes'
  <2>1. EnterLoop(c) /\ UNCHANGED << fDummySink, dummyPlaying, parameterSets, polling >>
    BY <1>4 DEF DescribeNested
  <2> QED
    BY <1>2, <2>1 DEF EnterLoop, SubsessionTypes
<1>5. ASSUME NEW c \in Client, Setup(c) PROVE SubsessionTypes'
  BY <1>5 DEF Setup, describeVars, SubsessionTypes
<1>6. ASSUME NEW c \in Client, Play(c) PROVE SubsessionTypes'
  BY <1>6 DEF Play, describeVars, SubsessionTypes
<1>7. ASSUME NEW c \in Client, Teardown(c) PROVE SubsessionTypes'
  <2>1. /\ pc' = [pc EXCEPT ![c] = "new"] /\ UNCHANGED describeVars
        /\ fAreCurrentlyPlaying' = FALSE \/ UNCHANGED fAreCurrentlyPlaying
    BY <1>7 DEF Teardown
  <2> QED
    BY <2>1 DEF describeVars, SubsessionTypes
<1>8. ASSUME NEW c \in Client, ReadDummy(c) PROVE SubsessionTypes'
  <2>1. parameterSets' \subseteq {"SPS", "PPS"}
    BY <1>8 DEF ReadDummy, SavedOf, SubsessionTypes
  <2> QED
    BY <1>8, <2>1 DEF ReadDummy, SubsessionTypes
<1>9. ASSUME NEW c \in Client, LeaveLoop(c) PROVE SubsessionTypes'
  <2>1. /\ loops # << >> /\ loops' = Front(loops) /\ fSDPLines' = TRUE
        /\ dummyPlaying' = DummyWithout(c)
        /\ pc' = [pc EXCEPT ![c] = "described"]
        /\ UNCHANGED << fAuxSDPLine, fDoneFlag, fDummySink, parameterSets, polling,
                        fAreCurrentlyPlaying >>
    BY <1>9 DEF LeaveLoop
  <2>2. loops' \in Seq(Client)
    <3>1. loops \in Seq(Client) /\ Len(loops) - 1 \in 0 .. Len(loops)
      BY <2>1 DEF SubsessionTypes
    <3> QED
      BY <2>1, <3>1, PrefixType DEF Front
  <2>3. dummyPlaying' \in Client \cup {NoClient}
    BY <2>1 DEF DummyWithout, SubsessionTypes
  <2> QED
    BY <2>1, <2>2, <2>3 DEF SubsessionTypes
<1>10. CASE CheckForAuxSDPLine
  BY <1>10 DEF CheckForAuxSDPLine, SubsessionTypes
<1>11. CASE ReadLive
  BY <1>11 DEF ReadLive, describeVars, SubsessionTypes
<1>12. CASE UNCHANGED liveVars
  BY <1>12 DEF liveVars, describeVars, SubsessionTypes
<1> QED
  BY <1>1, <1>3, <1>4, <1>5, <1>6, <1>7, <1>8, <1>9, <1>10, <1>11, <1>12
     DEF LiveNext, Request

LEMMA SubsessionTypesInit == LiveInit => SubsessionTypes
<1> SUFFICES ASSUME LiveInit PROVE SubsessionTypes
  OBVIOUS
<1>1. /\ pc \in [Client -> {"new", "describing", "described", "ready", "playing"}]
      /\ loops \in Seq(Client) /\ parameterSets \subseteq {"SPS", "PPS"}
  BY DEF LiveInit
<1>2. /\ fSDPLines \in BOOLEAN /\ fAuxSDPLine \in BOOLEAN /\ fDoneFlag \in BOOLEAN
      /\ polling \in BOOLEAN /\ fAreCurrentlyPlaying \in BOOLEAN
      /\ fDummySink \in Client \cup {NoClient}
      /\ dummyPlaying \in Client \cup {NoClient}
  BY DEF LiveInit
<1> QED
  BY <1>1, <1>2 DEF SubsessionTypes

\* The subsession and the stream under it keep their types, for any number of
\* clients and loops within loops (clsLiveServerMediaSubsession.h).
THEOREM LiveTypeCorrect == LiveSpec => []LiveTypeOK
<1>1. LiveInit => LiveTypeOK
  BY StreamTypeInit, SubsessionTypesInit, LiveTypeParts DEF LiveInit
<1>2. LiveTypeOK /\ [LiveNext]_liveVars => LiveTypeOK'
  <2> SUFFICES ASSUME LiveTypeOK, [LiveNext]_liveVars PROVE LiveTypeOK'
    OBVIOUS
  <2>1. StreamTypeOK /\ SubsessionTypes
    BY LiveTypeParts
  <2>2. StreamTypeOK' /\ SubsessionTypes'
    BY <2>1, StreamTypesOfLiveStep, SubsessionTypesStep
  <2>3. (StreamTypeOK /\ SubsessionTypes)' => LiveTypeOK'
    BY LiveTypeParts, PTL
  <2> QED
    BY <2>2, <2>3
<1> QED
  BY <1>1, <1>2, PTL DEF LiveSpec

-----------------------------------------------------------------------------
(* The units *)

LEMMA UnitsStep ==
  ASSUME MessageInv, QueueInv, [LiveNext]_liveVars
  PROVE  MessageInv' /\ QueueInv'
<1>1. Client \subseteq Source /\ Live \in Source
  BY SubsessionAssumption
<1>2. ASSUME UNCHANGED << output_queue, delivered, packet, cursor, isSendingMessage >>
      PROVE  MessageInv' /\ QueueInv'
  BY <1>2 DEF MessageInv, QueueInv
<1>3. ASSUME UNCHANGED << encoderVars, packet, messageVars, delivered >>
      PROVE  MessageInv' /\ QueueInv'
  BY <1>2, <1>3 DEF encoderVars, messageVars
<1>4. ASSUME UNCHANGED streamVars
      PROVE  MessageInv' /\ QueueInv'
  BY <1>3, <1>4 DEF streamVars
<1>5. ASSUME NEW c \in Client, Request(c)
      PROVE  MessageInv' /\ QueueInv'
  <2>1. CASE DescribeCached(c)
    BY <1>4, <2>1 DEF DescribeCached
  <2>2. CASE DescribeFirst(c)
    BY <1>1, <2>2, GetNextFrameStep DEF DescribeFirst
  <2>3. CASE DescribeNested(c)
    BY <1>3, <2>3 DEF DescribeNested
  <2>4. CASE Setup(c)
    BY <1>3, <2>4 DEF Setup
  <2>5. CASE Play(c)
    <3>1. UNCHANGED streamVars \/ doGetNextFrame(Live, {c})
      BY <2>5 DEF Play
    <3> QED
      BY <1>1, <1>4, <3>1, GetNextFrameStep
  <2>6. CASE Teardown(c)
    BY <1>3, <2>6 DEF Teardown
  <2> QED
    BY <1>5, <2>1, <2>2, <2>3, <2>4, <2>5, <2>6 DEF Request
<1>6. ASSUME NEW c \in Client, ReadDummy(c)
      PROVE  MessageInv' /\ QueueInv'
  BY <1>1, <1>6, GetNextFrameStep DEF ReadDummy
<1>7. ASSUME NEW c \in Client, LeaveLoop(c)
      PROVE  MessageInv' /\ QueueInv'
  BY <1>3, <1>7 DEF LeaveLoop
<1>8. CASE CheckForAuxSDPLine
  BY <1>4, <1>8 DEF CheckForAuxSDPLine
<1>9. CASE ReadLive
  BY <1>1, <1>9, GetNextFrameStep DEF ReadLive
<1>10. CASE UNCHANGED liveVars
  BY <1>4, <1>10 DEF liveVars
<1> QED
  BY <1>5, <1>6, <1>7, <1>8, <1>9, <1>10 DEF LiveNext

\* However the dummy sources of descriptions and the stream take units from the
\* one encoder, none is written over while it waits and none is handed on that
\* was, if no capacity run went before (getAuxSDPLine, doGetNextFrame).
THEOREM LiveUnitsIntact ==
  ASSUME Measured \subseteq {FALSE}
  PROVE  LiveSpec => [](UnitsIntact /\ StoredUnitsAreDelivered)
<1>1. LiveInit => MessageInv /\ QueueInv
  BY StreamInit_Inv DEF LiveInit
<1>2. MessageInv /\ QueueInv /\ [LiveNext]_liveVars => MessageInv' /\ QueueInv'
  BY UnitsStep
<1>3. QueueInv => UnitsIntact /\ StoredUnitsAreDelivered
  BY InvImpliesIntact
<1> QED
  BY <1>1, <1>2, <1>3, PTL DEF LiveSpec

-----------------------------------------------------------------------------
(* The players *)

\* Who has set up and does not play yet has heard nothing.
ReadyInv == \A c \in Client : pc[c] = "ready" => heard[c] = 0

\* The stream's users are in step with the encoder, as a single listener is.
UsersInStep == \E W \in SUBSET Listener : W = Users /\ QueueInStep(W)

\* What PlayersKeepInStep asks of a step.
PlayersContinue ==
  \A c \in Players : heard'[c] < heard[c] =>
    \/ heard[c] = length
    \/ Completes(heard[c], delivered'.bits)
    \/ 1 \in Range(delivered'.bits)

LEMMA HeardByListeners ==
  ASSUME NEW s, NEW listeners, doGetNextFrame(s, listeners)
  PROVE  \A l \in Listener : l \notin listeners => heard'[l] = heard[l]
<1>1. ASSUME NEW u, deliverFrame(u, listeners)
      PROVE  \A l \in Listener : l \notin listeners => heard'[l] = heard[l]
  BY <1>1 DEF deliverFrame
<1>2. ASSUME NEW picture, NEW since, NEW at, NEW sending,
             encodeFrame(picture, since, at, sending, listeners)
      PROVE  \A l \in Listener : l \notin listeners => heard'[l] = heard[l]
  BY <1>1, <1>2 DEF encodeFrame
<1> QED
  BY <1>1, <1>2 DEF doGetNextFrame, FromQueue, WhitePicture, BeginVideo, NextPicture,
                    EndOfVideo

\* Nothing is read, and who is a user afterwards was one, or begins.
LEMMA QuietInStep ==
  ASSUME StreamTypeOK, UsersInStep, encoderVars' = encoderVars, messageVars' = messageVars,
         Listener = Client,
         \A c \in Client : pc'[c] \in {"ready", "playing"} =>
           heard'[c] = 0 \/ (c \in Users /\ heard'[c] = heard[c])
  PROVE  UsersInStep'
<1>1. PICK W \in SUBSET Listener : W = Users /\ QueueInStep(W)
  BY DEF UsersInStep
<1>2. PICK V \in SUBSET Listener : V = {c \in Client : pc'[c] \in {"ready", "playing"}}
  OBVIOUS
<1>3. \A l \in V : heard'[l] = 0 \/ (l \in W /\ heard'[l] = heard[l])
  BY <1>1, <1>2
<1>4. QueueInStep(V)'
  BY <1>1, <1>3, SameInStep
<1>5. V = Users'
  BY <1>2 DEF Users
<1> QED
  BY <1>4, <1>5 DEF UsersInStep

\* A unit is read for the players, who are users; the other users have just set up.
LEMMA ReadInStep ==
  ASSUME UnitsFit, StreamTypeOK, ReadyInv, UsersInStep, Listener = Client,
         NEW s, NEW listeners, listeners \subseteq Users,
         \A c \in Users \ listeners : pc[c] = "ready",
         Users' = Users, doGetNextFrame(s, listeners)
  PROVE  PlayersContinue /\ UsersInStep'
<1>1. PICK W \in SUBSET Listener : W = Users /\ QueueInStep(W)
  BY DEF UsersInStep
<1>2. Served(listeners, W)
  BY <1>1 DEF Served, ReadyInv, Users
<1>3. Continues /\ QueueInStep(W)'
  BY <1>1, <1>2, GetNextFrameInStep
<1>4. PlayersContinue
  BY <1>3 DEF Continues, PlayersContinue, Players
<1>5. W = Users'
  BY <1>1
<1> QED
  BY <1>3, <1>4, <1>5 DEF UsersInStep

LEMMA PlayersStep ==
  ASSUME UnitsFit, LiveInv, OrderInv, StreamTypeOK, ReadyInv, UsersInStep,
         [LiveNext]_liveVars
  PROVE  PlayersContinue /\ ReadyInv' /\ UsersInStep'
<1>1. /\ Listener = Client /\ NoClient \notin Client
      /\ pc \in [Client -> {"new", "describing", "described", "ready", "playing"}]
      /\ heard \in [Client -> 0 .. length]
  BY SubsessionAssumption DEF LiveInv, LiveTypes, StreamTypeOK
\* Whatever does not read: a player keeps what it has heard.
<1>2. ASSUME encoderVars' = encoderVars, messageVars' = messageVars,
             \A c \in Client : pc'[c] \in {"ready", "playing"} =>
               heard'[c] = 0 \/ (c \in Users /\ heard'[c] = heard[c]),
             \A c \in Client : pc'[c] = "ready" => heard'[c] = 0,
             \A c \in Players : heard'[c] = heard[c]
      PROVE  PlayersContinue /\ ReadyInv' /\ UsersInStep'
  <2>1. UsersInStep'
    BY <1>1, <1>2, QuietInStep
  <2>2. ReadyInv'
    BY <1>2 DEF ReadyInv
  <2>3. ASSUME NEW c \in Players PROVE ~(heard'[c] < heard[c])
    <3>1. heard[c] \in 0 .. length /\ length \in Nat /\ heard'[c] = heard[c]
      BY <1>1, <1>2, <2>3, StreamAssumption DEF Players
    <3> QED
      BY <3>1
  <2> QED
    BY <2>1, <2>2, <2>3 DEF PlayersContinue
<1>3. ASSUME pc' = pc, UNCHANGED streamVars
      PROVE  PlayersContinue /\ ReadyInv' /\ UsersInStep'
  BY <1>2, <1>3 DEF streamVars, listenerVars, ReadyInv, Users
\* Before the description is made nobody uses the stream, so a dummy sink that reads
\* takes nothing from a player.
<1>4. ASSUME Users = {}, Users' = {}, NEW s, doGetNextFrame(s, {})
      PROVE  PlayersContinue /\ ReadyInv' /\ UsersInStep'
  <2>1. PlayersContinue /\ UsersInStep'
    BY <1>1, <1>4, ReadInStep
  <2>2. ReadyInv'
    BY <1>4 DEF ReadyInv, Users
  <2> QED
    BY <2>1, <2>2
<1>5. ASSUME NEW c \in Client, DescribeCached(c)
      PROVE  PlayersContinue /\ ReadyInv' /\ UsersInStep'
  <2>1. pc[c] = "new" /\ pc' = [pc EXCEPT ![c] = "described"] /\ UNCHANGED streamVars
    BY <1>5 DEF DescribeCached
  <2> QED
    BY <1>1, <1>2, <2>1 DEF streamVars, listenerVars, ReadyInv, Users
<1>6. ASSUME NEW c \in Client, DescribeFirst(c)
      PROVE  PlayersContinue /\ ReadyInv' /\ UsersInStep'
  <2>1. /\ ~fSDPLines /\ pc[c] = "new" /\ pc' = [pc EXCEPT ![c] = "describing"]
        /\ doGetNextFrame(c, {})
    BY <1>6 DEF DescribeFirst, EnterLoop
  <2>2. Users = {}
    BY <2>1 DEF OrderInv, Users
  <2>3. Users' = {}
    BY <1>1, <2>1, <2>2 DEF Users
  <2> QED
    BY <1>4, <2>1, <2>2, <2>3
<1>7. ASSUME NEW c \in Client, DescribeNested(c)
      PROVE  PlayersContinue /\ ReadyInv' /\ UsersInStep'
  <2>1. /\ pc[c] = "new" /\ pc' = [pc EXCEPT ![c] = "describing"]
        /\ UNCHANGED << encoderVars, messageVars, listenerVars >>
    BY <1>7 DEF DescribeNested, EnterLoop
  <2> QED
    BY <1>1, <1>2, <2>1 DEF listenerVars, ReadyInv, Users
<1>8. ASSUME NEW c \in Client, Setup(c)
      PROVE  PlayersContinue /\ ReadyInv' /\ UsersInStep'
  <2>1. /\ pc[c] \in {"new", "described"} /\ pc' = [pc EXCEPT ![c] = "ready"]
        /\ heard' = [heard EXCEPT ![c] = 0]
        /\ UNCHANGED << encoderVars, messageVars >>
    BY <1>8, SubsessionAssumption DEF Setup, Attach
  <2>2. heard'[c] = 0 /\ \A d \in Client : d # c => heard'[d] = heard[d] /\ pc'[d] = pc[d]
    BY <1>1, <2>1
  <2>3. c \notin Players
    BY <2>1 DEF Players
  <2>4. \A d \in Players : heard'[d] = heard[d]
    BY <2>2, <2>3 DEF Players
  <2> QED
    BY <1>2, <2>1, <2>2, <2>4 DEF ReadyInv, Users
<1>9. ASSUME NEW c \in Client, Play(c)
      PROVE  PlayersContinue /\ ReadyInv' /\ UsersInStep'
  <2>1. pc[c] = "ready" /\ pc' = [pc EXCEPT ![c] = "playing"]
    BY <1>9 DEF Play
  <2>2. CASE fAreCurrentlyPlaying
    <3>1. UNCHANGED streamVars
      BY <1>9, <2>2 DEF Play
    <3> QED
      BY <1>1, <1>2, <2>1, <3>1 DEF streamVars, listenerVars, ReadyInv, Users
  <2>3. CASE ~fAreCurrentlyPlaying
    <3>1. doGetNextFrame(Live, {c})
      BY <1>9, <2>3 DEF Play
    <3>2. \A d \in Users : pc[d] = "ready"
      BY <1>1, <2>3 DEF LiveInv, PlayersAreServed, Players, Users
    <3>3. c \in Users /\ Users' = Users
      BY <1>1, <2>1 DEF Users
    <3>4. PlayersContinue /\ UsersInStep'
      BY <1>1, <3>1, <3>2, <3>3, ReadInStep
    <3>5. ReadyInv'
      <4>1. \A d \in Client : d # c => heard'[d] = heard[d] /\ pc'[d] = pc[d]
        BY <1>1, <2>1, <3>1, HeardByListeners
      <4>2. pc'[c] = "playing"
        BY <1>1, <2>1
      <4> QED
        BY <4>1, <4>2 DEF ReadyInv
    <3> QED
      BY <3>4, <3>5
  <2> QED
    BY <2>2, <2>3
<1>10. ASSUME NEW c \in Client, Teardown(c)
      PROVE  PlayersContinue /\ ReadyInv' /\ UsersInStep'
  <2>1. /\ pc' = [pc EXCEPT ![c] = "new"]
        /\ UNCHANGED << encoderVars, messageVars, listenerVars >>
    BY <1>10 DEF Teardown
  <2> QED
    BY <1>1, <1>2, <2>1 DEF listenerVars, ReadyInv, Users
<1>11. ASSUME NEW c \in Client, ReadDummy(c)
      PROVE  PlayersContinue /\ ReadyInv' /\ UsersInStep'
  <2>1. dummyPlaying = c /\ doGetNextFrame(c, {}) /\ pc' = pc
    BY <1>11 DEF ReadDummy
  <2>2. loops # << >>
    <3>1. c \in Range(loops)
      BY <1>1, <2>1 DEF LiveInv, DummyInv
    <3> QED
      BY <3>1 DEF Range
  <2>3. Users = {} /\ Users' = {}
    BY <2>1, <2>2 DEF OrderInv, Users
  <2> QED
    BY <1>4, <2>1, <2>3
<1>12. ASSUME NEW c \in Client, LeaveLoop(c)
      PROVE  PlayersContinue /\ ReadyInv' /\ UsersInStep'
  <2>1. /\ pc' = [pc EXCEPT ![c] = "described"]
        /\ UNCHANGED << encoderVars, messageVars, listenerVars >>
    BY <1>12 DEF LeaveLoop
  <2> QED
    BY <1>1, <1>2, <2>1 DEF listenerVars, ReadyInv, Users
<1>13. CASE CheckForAuxSDPLine
  BY <1>3, <1>13 DEF CheckForAuxSDPLine
<1>14. CASE ReadLive
  <2>1. doGetNextFrame(Live, Players) /\ pc' = pc
    BY <1>14 DEF ReadLive
  <2>2. /\ Players \subseteq Users /\ Users' = Users
        /\ \A c \in Users \ Players : pc[c] = "ready"
    BY <2>1 DEF Players, Users
  <2>3. PlayersContinue /\ UsersInStep'
    BY <1>1, <2>1, <2>2, ReadInStep
  <2>4. ReadyInv'
    <3>1. \A c \in Client : pc[c] = "ready" => c \notin Players /\ heard'[c] = heard[c]
      BY <1>1, <2>1, HeardByListeners DEF Players
    <3> QED
      BY <2>1, <3>1 DEF ReadyInv
  <2> QED
    BY <2>3, <2>4
<1>15. CASE UNCHANGED liveVars
  BY <1>3, <1>15 DEF liveVars
<1> QED
  BY <1>5, <1>6, <1>7, <1>8, <1>9, <1>10, <1>11, <1>12, <1>13, <1>14, <1>15
     DEF LiveNext, Request

\* For any number of clients in any order of requests but a SETUP without a DESCRIBE,
\* if every unit fits into the buffer of the framer: no description takes a unit
\* away from who plays, and nobody who comes or goes makes a player lose a bit in the
\* middle of the message (getAuxSDPLine, OnDemandServerMediaSubsession, doGetNextFrame).
THEOREM PlayersKeepInStepTheorem ==
  ASSUME UnitsFit, SetupFrom \subseteq {"described"}
  PROVE  LiveSpec => PlayersKeepInStep
<1>1. LiveInit => ReadyInv /\ UsersInStep
  <2> SUFFICES ASSUME LiveInit PROVE ReadyInv /\ UsersInStep
    OBVIOUS
  <2>1. \A c \in Client : pc[c] = "new"
    BY DEF LiveInit
  <2>2. {} \in SUBSET Listener /\ {} = Users /\ QueueInStep({})
    BY <2>1, QueueInStepInit DEF LiveInit, Users
  <2> QED
    BY <2>1, <2>2 DEF ReadyInv, UsersInStep
<1>2. LiveTypeOK => StreamTypeOK
  BY DEF LiveTypeOK
<1>3. LiveInv /\ OrderInv /\ LiveTypeOK /\ ReadyInv /\ UsersInStep /\ [LiveNext]_liveVars
        => ReadyInv' /\ UsersInStep'
  BY <1>2, PlayersStep
<1>4. LiveInv /\ OrderInv /\ LiveTypeOK /\ ReadyInv /\ UsersInStep /\ [LiveNext]_liveVars
        => [\A c \in Players : heard'[c] < heard[c] =>
              \/ heard[c] = length
              \/ Completes(heard[c], delivered'.bits)
              \/ 1 \in Range(delivered'.bits)]_liveVars
  BY <1>2, PlayersStep DEF PlayersContinue
<1> QED
  BY <1>1, <1>3, <1>4, LiveInvariant, Ordered, LiveTypeCorrect, PTL DEF LiveSpec, PlayersKeepInStep
=============================================================================
