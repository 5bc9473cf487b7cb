----------------------------- MODULE MCPlanner ------------------------------
(***************************************************************************)
(* A small instance of Planner for TLC: two servers, one with two GPUs, of *)
(* which one is larger; a job that takes two GPUs, and two small ones that *)
(* the policy tells apart only by age.                                     *)
(***************************************************************************)
EXTENDS Planner

CONSTANTS j1, j2, j3, s1, s2, g1, g2, g3

Order(start, end, count) == [start |-> start, end |-> end, count |-> count, servers |-> Server]
Windows == [j \in Job |-> CASE j = j1 -> Order(6, 8, 1) [] j = j2 -> Order(7, 9, 2)
                            [] OTHER -> Order(7, 8, 1)]
Applicants == [j \in Job |->
  CASE j = j1 -> [id |-> 1, created |-> 3, necessity |-> 2, importance |-> "NORMAL", count |-> 1]
    [] j = j2 -> [id |-> 2, created |-> 5, necessity |-> 2, importance |-> "IMPORTANT", count |-> 2]
    [] OTHER  -> [id |-> 3, created |-> 1, necessity |-> 2, importance |-> "NORMAL", count |-> 1]]

Small == [j \in Job |-> IF j = j1 THEN 2 ELSE 1]
Sizes == [g \in GPU |-> IF g = g2 THEN 3 ELSE 2]
Models == [j \in Job |-> IF j = j3 THEN {g1, g3} ELSE GPU]
Names == [x \in Server \cup GPU |-> CASE x \in {s1, g1} -> 1 [] x \in {s2, g2} -> 2 [] OTHER -> 3]
Racks == [g \in GPU |-> IF g = g3 THEN s2 ELSE s1]
=============================================================================
