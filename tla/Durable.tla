------------------------------ MODULE Durable -------------------------------
(***************************************************************************)
(* The control plane on its durable store (internal/store/durable).  Every *)
(* repository call that changes something is a transaction: the snapshot   *)
(* is on disk before the call returns, or the change is undone in memory   *)
(* and the call fails.  Module Snapshot shows that the store keeps that    *)
(* promise while no earlier process is left that still writes (action      *)
(* LateWrite of AtomicStore, left out here); it is used as follows: a      *)
(* committed call is an action of ControlPlane, and a failed one leaves    *)
(* the tables alone.                                                       *)
(*                                                                         *)
(* What is new to the control plane is what failure does to its volatile   *)
(* state: a controller pass ends at its first error, and a process that    *)
(* dies takes both passes with it and comes back from the file.            *)
(***************************************************************************)
EXTENDS ControlPlane

VARIABLE
  proven  \* history: servers whose inventory was complete since the start

durableVars == <<vars, proven>>

DurableInit == Init /\ proven = {}

------------------------------------------------------------------------------
(* A transaction that committed is a step of the control plane.  A complete
   report proves the inventory of its server until something revokes it.     *)
Proving ==
  proven' = {s \in Server : /\ servers'[s].fresh # 0
                            /\ (s \in proven \/ servers'[s].version # servers[s].version)}
Committed == Next /\ Proving

(* A transaction of a pass fails: the pass returns its error and leaves the
   jobs it had not reached to the next tick.                                 *)
AbandonPass(t) ==
  /\ ~Idle(t)
  /\ sweep' = [sweep EXCEPT ![t] = [j \in Job |-> Handled]]
  /\ UNCHANGED <<now, servers, jobs, commands, proven>>

(* Open, after a crash or a shutdown: tables from the file; nothing it says
   of a server's connection or inventory is believed.                        *)
Reopened_Trusting(server) == server
Reopened(server) ==
  [server EXCEPT !.status = IF @ = "NONE" THEN @ ELSE "OFFLINE", !.fresh = 0]
Restart ==
  /\ servers' = [s \in Server |-> Reopened(servers[s])]
  /\ sweep' = [t \in Ticker |-> [j \in Job |-> Handled]]
  /\ proven' = {}
  /\ UNCHANGED <<now, jobs, commands>>

DurableNext ==
  \/ Committed
  \/ \E t \in Ticker : AbandonPass(t)
  \/ Restart

DurableSpec == DurableInit /\ [][DurableNext]_durableVars

(* Time passes, and the disk and the process work long enough, again and
   again, for each call of a pass to get through: the loops of
   cmd/aiwm-server start a new pass at every tick, whatever became of the
   last one.                                                                 *)
LoopsRecover ==
  /\ WF_durableVars(Tick /\ Proving)
  /\ \A t \in Ticker \ {"MANUAL"} :
       /\ SF_durableVars(ListJobs(t) /\ Proving)
       /\ \A j \in Job : SF_durableVars(HandleJob(t, j) /\ Proving)
FairDurableSpec == DurableSpec /\ LoopsRecover

------------------------------------------------------------------------------
(* Properties.                                                               *)

(* The type invariant of ControlPlane, and the history.                      *)
DurableTypeOK == TypeOK /\ proven \subseteq Server

(* Nothing is dispatched, and no START handed out, on the word of an
   inventory from before the last start of the control plane: what ran on
   the server meanwhile is unknown (Open, CommitAssignment, LeaseCommands).  *)
DispatchOnProof ==
  [][\A j \in Job :
       LET start == StartOf(j)
       IN (\/ jobs'[j].dispatched /\ ~jobs[j].dispatched
           \/ commands'[start].status = "DELIVERED" /\ commands'[start] # commands[start])
            => jobs'[j].server \in proven]_durableVars
=============================================================================
