---------------------------- MODULE MCEnrollment ----------------------------
(***************************************************************************)
(* A small instance of Enrollment for TLC.                                 *)
(***************************************************************************)
EXTENDS Enrollment

CONSTANTS s1, s2, m1, m2

(* One agent whose loops compete for registration, one that competes with it
   for enrollments.                                                          *)
TwoAndOne == [m \in Machine |-> IF m = m1 THEN {"HEARTBEAT", "COMMANDS"} ELSE {"HEARTBEAT"}]

(* The same enrollment by mistake, and a change of mind.                     *)
Contested == [m \in Machine |-> IF m = m1 THEN {s1} ELSE {s1, s2}]

(* Requests nobody waits for, of the machine that has competing loops.        *)
OneLate == [m \in Machine |-> IF m = m1 THEN 1 ELSE 0]
=============================================================================
