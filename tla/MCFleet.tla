------------------------------ MODULE MCFleet ------------------------------
(***************************************************************************)
(* Small instances of Fleet for TLC.                                       *)
(***************************************************************************)
EXTENDS Fleet, TLC

CONSTANTS j1, j2, s1, g1

Order(start, end) == [start |-> start, end |-> end, count |-> 1, servers |-> Server]

(* One job that may run for two ticks.                                       *)
Brief == [j \in Job |-> Order(1, 3)]

(* Back to back on one GPU: the first job may overrun into the second.       *)
BackToBack == [j \in Job |-> IF j = j1 THEN Order(1, 2) ELSE Order(2, 3)]

(* One exit code: who holds a GPU does not depend on how a container ended.  *)
NormalExits == \A j \in Job : docker[j] # "exited1"

(* Nobody stops the second job: nothing waits for its GPU.                   *)
SecondUnstopped == commands[StopOf(j2, 1)].status = "NONE"
=============================================================================
