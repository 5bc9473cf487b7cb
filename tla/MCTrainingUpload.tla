-------------------------- MODULE MCTrainingUpload --------------------------
(***************************************************************************)
(* Small instances of TrainingUpload for TLC.                              *)
(***************************************************************************)
EXTENDS TrainingUpload, TLC

(* Room before the warning, and between it and the end.                      *)
ShortWindow == [start |-> 1, warning |-> 2, end |-> 4]

(* A tick before the warning and a tick after it, for liveness.              *)
ShortestWindow == [start |-> 1, warning |-> 2, end |-> 3]

Requests == Permutations(Upload)
=============================================================================
