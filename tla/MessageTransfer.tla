-------------------------- MODULE MessageTransfer --------------------------
(***************************************************************************)
(* What Embed and Extract promise to their callers, without a word of      *)
(* bits, carriers or sections: a file goes into one video whole or not at  *)
(* all, a reported success means whole, and whoever has the key gets out   *)
(* what went in or, when the end of the video goes unnoticed, nothing, any *)
(* number of times.  Without the key, or from a video into which nothing   *)
(* was put, anything may come out.                                         *)
(***************************************************************************)
CONSTANTS
  Key,
  File,
  Promised     \* the files that are certain to come out again

VARIABLES
  key, source, doEmbedding,   \* what Embed is called with
  sealed,                     \* Embed has written the video
  hidden,                     \* what is in it: at most the file
  success,                    \* what Embed returned
  extractKey,                 \* what Extract is called with
  lastChecked,                \* it looks at what it has once the video is over
  extracting,
  received                    \* what it wrote

transferVars == << key, source, doEmbedding, sealed, hidden, success, extractKey,
                   lastChecked, extracting, received >>

TransferInit ==
  /\ key \in Key
  /\ source \in File
  /\ doEmbedding \in BOOLEAN
  /\ sealed = FALSE
  /\ hidden = {}
  /\ success = FALSE
  /\ extractKey = key
  /\ lastChecked = TRUE
  /\ extracting = FALSE
  /\ received = {}

Embed ==
  /\ ~sealed
  /\ sealed' = TRUE
  /\ hidden' \in IF doEmbedding THEN {{}, {source}} ELSE {{}}
  /\ success' \in BOOLEAN
  /\ success' /\ doEmbedding => hidden' = {source}
  /\ UNCHANGED << key, source, doEmbedding, extractKey, lastChecked, extracting,
                  received >>

BeginExtract ==
  /\ sealed
  /\ ~extracting
  /\ extracting' = TRUE
  /\ extractKey' \in Key
  /\ lastChecked' \in BOOLEAN
  /\ received' = {}
  /\ UNCHANGED << key, source, doEmbedding, sealed, hidden, success >>

EndExtract ==
  /\ extracting
  /\ extracting' = FALSE
  /\ doEmbedding /\ extractKey = key =>
       /\ received' \subseteq hidden
       /\ source \in Promised /\ lastChecked => received' = hidden
  /\ UNCHANGED << key, source, doEmbedding, sealed, hidden, success, extractKey,
                  lastChecked >>

TransferNext == Embed \/ BeginExtract \/ EndExtract

TransferSpec == TransferInit /\ [][TransferNext]_transferVars
=============================================================================
