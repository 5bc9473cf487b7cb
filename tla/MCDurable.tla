----------------------------- MODULE MCDurable ------------------------------
(***************************************************************************)
(* A small instance of Durable for TLC: one job for the two controllers to *)
(* race on, while writes fail and the process restarts.                    *)
(***************************************************************************)
EXTENDS Durable

CONSTANTS j1, s1, g1

Single == [j \in Job |-> [start |-> 2, end |-> 4, count |-> 1, servers |-> Server]]
=============================================================================
