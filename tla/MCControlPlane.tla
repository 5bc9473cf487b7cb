--------------------------- MODULE MCControlPlane ---------------------------
(***************************************************************************)
(* Small instances of ControlPlane for TLC.                                *)
(***************************************************************************)
EXTENDS ControlPlane, TLC

CONSTANTS j1, j2, s1, s2, g1, g2

Order(start, end, count) == [start |-> start, end |-> end, count |-> count, servers |-> Server]

(* Overlapping by one tick: they need different GPUs.                        *)
Overlapping == [j \in Job |-> IF j = j1 THEN Order(1, 3, 1) ELSE Order(2, 3, 1)]

(* One long job.                                                             *)
Single == [j \in Job |-> Order(2, 4, 1)]

(* The GPUs of a server are alike.                                           *)
Alike == Permutations(GPU)
=============================================================================
