----------------------------- MODULE MCSnapshot -----------------------------
(***************************************************************************)
(* A small instance of Snapshot for TLC.                                   *)
(***************************************************************************)
EXTENDS Snapshot, TLC

CONSTANTS p1, p2, t1, t2, t3

(* Two goroutines of one control plane, and one of another.                  *)
TwoAndOne == [t \in Thread |-> IF t = t3 THEN p2 ELSE p1]

Goroutines == Permutations({t1, t2})

(* What the tables say of jobs, and whether they trust an inventory, which
   one of them does.                                                         *)
Tables == {tables \in [jobs : {"none", "booked", "running"}, trusted : BOOLEAN] :
             tables.trusted => tables.jobs = "booked"}
NoTables == [jobs |-> "none", trusted |-> FALSE]
Distrust == [c \in Tables |-> [c EXCEPT !.trusted = FALSE]]
=============================================================================
