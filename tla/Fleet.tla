------------------------------- MODULE Fleet -------------------------------
(***************************************************************************)
(* The control plane with the real agents (internal/agent) in place of     *)
(* arbitrary ones, each beside a Docker engine, over a network that loses  *)
(* requests, loses answers and delivers requests late.                     *)
(*                                                                         *)
(* An agent runs a start-up phase and then three loops.  The command loop  *)
(* takes a poll's commands one at a time through execute, remember,        *)
(* acknowledge; the inventory loop lists the containers, stamps the report *)
(* and sends it; the two interleave.  The agent may die between any two of *)
(* these steps; its identity, its sequence number and the results it       *)
(* remembered are on disk, and containers outlive it.                      *)
(*                                                                         *)
(* Left out: containers nobody manages and unreadable GPUs (module         *)
(* ControlPlane has every report), and draining.  The report an agent      *)
(* sends after each command is one of those it may send at any time.       *)
(***************************************************************************)
EXTENDS ControlPlane

CONSTANT
  MaxCommandHistory  \* how many results an agent remembers

ASSUME HistoryAssumption == MaxCommandHistory \in Nat \ {0}

(* The reports of these agents are among those of module ControlPlane: they
   find GPUs in order, and may be of any age when they arrive.               *)
ASSUME ReportAssumption ==
  /\ "OK" \in Conditions
  /\ MaxTime <= ReportDelay + 1

VARIABLES
  agents,       \* each agent: its process and its state file
  docker,       \* the managed container of each job
  lateReports,  \* reports the sender gave up on that may still arrive
  lateAcks      \* acknowledgements likewise

fleetVars == <<agents, docker, lateReports, lateAcks>>
allVars == <<vars, fleetVars>>

Resting == [cmd |-> NONE, stage |-> "IDLE", ok |-> FALSE]
NoScan == [stage |-> "IDLE", mode |-> "OBSERVE", observedAt |-> 0,
           containers |-> [j \in Job |-> "none"]]

(* What the command loop is doing, and the report being made.                *)
Doing == [cmd : Command \cup {NONE}, ok : BOOLEAN,
          stage : {"IDLE", "CREATED", "RESTART", "DONE", "ACK"}]
Scan == [stage : {"IDLE", "LISTED", "SENT"}, mode : Mode, observedAt : Time,
         containers : [Job -> ContainerState]]

(* enrolled, known and seq are the state file.  An agent that finds no identity
   there starts as NEW and becomes REGISTERED; one that does starts as LOADED
   and is RENEWED; the first report accepted makes either RUNNING.           *)
Agent == [phase : {"DOWN", "NEW", "LOADED", "REGISTERED", "RENEWED", "RUNNING"},
          enrolled : BOOLEAN,
          known : [Command -> {"NONE", "OK", "FAILED"}], seq : 0..MaxSeq,
          batch : SUBSET Command, doing : Doing, scan : Scan]
NewAgent == [phase |-> "DOWN", enrolled |-> FALSE, known |-> [c \in Command |-> "NONE"],
             seq |-> 0, batch |-> {}, doing |-> Resting, scan |-> NoScan]

FleetInit ==
  /\ Init
  /\ agents = [s \in Server |-> NewAgent]
  /\ docker = [j \in Job |-> "none"]
  /\ lateReports = {}
  /\ lateAcks = {}

------------------------------------------------------------------------------
(* The process: start, death, registration, heartbeat.                       *)

Boot(s) ==
  /\ agents[s].phase = "DOWN"
  /\ agents' = [agents EXCEPT ![s].phase = IF agents[s].enrolled THEN "LOADED" ELSE "NEW"]
  /\ UNCHANGED <<vars, docker, lateReports, lateAcks>>

(* A crash, a shutdown, or a state file that cannot be written.              *)
Crash_KeepBatch(s) ==
  /\ agents[s].phase # "DOWN"
  /\ agents' = [agents EXCEPT ![s].phase = "DOWN"]
  /\ UNCHANGED <<vars, docker, lateReports, lateAcks>>
Crash(s) ==
  /\ agents[s].phase # "DOWN"
  /\ agents' = [agents EXCEPT ![s] = [@ EXCEPT !.phase = "DOWN", !.batch = {},
                                              !.doing = Resting, !.scan = NoScan]]
  /\ UNCHANGED <<vars, docker, lateReports, lateAcks>>

(* ensureRegistered, at start-up: also an agent with an identity registers,
   and again before each report until one is accepted.  Without an answer it
   tries again.                                                              *)
EnsureRegistered(s, mode, answered) ==
  /\ agents[s].phase \in {"NEW", "LOADED"}
  /\ Register(s, mode)
  /\ agents' = IF answered
               THEN [agents EXCEPT ![s].enrolled = TRUE,
                                   ![s].phase = IF @ = "NEW" THEN "REGISTERED" ELSE "RENEWED"]
               ELSE agents
  /\ UNCHANGED <<docker, lateReports, lateAcks>>

(* ensureRegistered, later: a loop whose token is refused registers again, and
   if it was about to send a report, sends it then.  Why a token is refused is
   the matter of module Enrollment.                                          *)
Renew(s, mode) ==
  /\ agents[s].phase \in {"REGISTERED", "RENEWED", "RUNNING"}
  /\ Register(s, mode)
  /\ UNCHANGED fleetVars

(* What a report that was refused, or not answered, means for the start-up.  *)
TryAgain(phase) == IF phase = "RENEWED" THEN "LOADED" ELSE phase

HeartbeatLoop(s) ==
  /\ agents[s].phase = "RUNNING"
  /\ servers[s].seen # now
  /\ Heartbeat(s)
  /\ UNCHANGED fleetVars

------------------------------------------------------------------------------
(* Inventory: one report at a time (inventoryMu), made in three steps.       *)

(* reportInventory takes the next sequence number and lists the containers.  *)
Listing(s, mode) ==
  [j \in Job |-> IF DockerValid(mode) /\ jobs[j].server = s THEN docker[j] ELSE "none"]
ListContainers(s, mode) ==
  /\ agents[s].phase \in {"REGISTERED", "RENEWED", "RUNNING"}
  /\ agents[s].scan.stage = "IDLE"
  /\ agents[s].seq < MaxSeq
  /\ agents' = [agents EXCEPT ![s].seq = @ + 1,
                              ![s].scan = [stage |-> "LISTED", mode |-> mode, observedAt |-> 0,
                                           containers |-> Listing(s, mode)]]
  /\ UNCHANGED <<vars, docker, lateReports, lateAcks>>

(* Snapshot stamps ObservedAt last, after everything was read.               *)
StampReport(s) ==
  /\ agents[s].scan.stage = "LISTED"
  /\ agents' = [agents EXCEPT ![s].scan.stage = "SENT", ![s].scan.observedAt = now]
  /\ UNCHANGED <<vars, docker, lateReports, lateAcks>>

ReportOf(s) ==
  LET scan == agents[s].scan
  IN [seq |-> agents[s].seq, observedAt |-> scan.observedAt, mode |-> scan.mode,
      containers |-> scan.containers, gpus |-> [g \in GPU |-> "OK"]]

Refused(s, rep) ==
  \/ rep.seq <= servers[s].version
  \/ GPUValid(rep.mode) /\ Conflicting(s, rep)

(* The report arrives; the first success ends the start-up phase.            *)
DeliverReport(s, answered) ==
  LET accepted == answered /\ ~Refused(s, ReportOf(s))
  IN /\ agents[s].scan.stage = "SENT"
     /\ \/ ReplaceInventory(s, ReportOf(s))
        \/ Refused(s, ReportOf(s)) /\ UNCHANGED vars
     /\ agents' = [agents EXCEPT ![s].scan = NoScan,
                                 ![s].phase = IF accepted THEN "RUNNING" ELSE TryAgain(@)]
     /\ UNCHANGED <<docker, lateReports, lateAcks>>

(* The sender's timeout: the report is lost, or still on its way.            *)
GiveUpReport(s, lost) ==
  /\ agents[s].scan.stage = "SENT"
  /\ agents' = [agents EXCEPT ![s].scan = NoScan, ![s].phase = TryAgain(@)]
  /\ lateReports' = IF lost THEN lateReports ELSE lateReports \cup {<<s, ReportOf(s)>>}
  /\ UNCHANGED <<vars, docker, lateAcks>>

(* A report that a renewal overtook counts if it was let in before that
   (AuthenticateAgent); here it always may.                                  *)
LateReport(m) ==
  /\ \/ ReplaceInventory(m[1], m[2])
     \/ Refused(m[1], m[2]) /\ UNCHANGED vars
  /\ lateReports' = lateReports \ {m}
  /\ UNCHANGED <<agents, docker, lateAcks>>

------------------------------------------------------------------------------
(* Commands.                                                                 *)

(* pollAndExecute: the next poll comes after the last batch is done with.    *)
Poll_Unleased(s, answered) ==
  /\ agents[s].phase = "RUNNING"
  /\ agents[s].batch = {} /\ agents[s].doing = Resting
  /\ servers[s].status # "NONE"
  /\ agents' = [agents EXCEPT ![s].batch = IF answered THEN {c \in Command : Leasable(s, c)}
                                           ELSE {}]
  /\ UNCHANGED <<vars, docker, lateReports, lateAcks>>
Poll(s, answered) ==
  /\ agents[s].phase = "RUNNING"
  /\ agents[s].batch = {} /\ agents[s].doing = Resting
  /\ LeaseCommands(s)
  /\ agents' = [agents EXCEPT ![s].batch = IF answered THEN {c \in Command : Leasable(s, c)}
                                           ELSE {}]
  /\ UNCHANGED <<docker, lateReports, lateAcks>>

(* The command loop moves command c to the given stage.                      *)
Turn(s, c, stage, ok) ==
  agents' = [agents EXCEPT ![s].batch = @ \ {c},
                           ![s].doing = [cmd |-> c, stage |-> stage, ok |-> ok]]

Idling(s) == agents[s].doing = Resting
Fresh(s, c) == c \in agents[s].batch /\ Idling(s) /\ agents[s].known[c] = "NONE"

(* A command it remembers is answered again, not executed again.             *)
Recall(s, c) ==
  /\ c \in agents[s].batch /\ Idling(s)
  /\ agents[s].known[c] # "NONE"
  /\ Turn(s, c, "ACK", agents[s].known[c] = "OK")
  /\ UNCHANGED <<vars, docker, lateReports, lateAcks>>

(* Execute START, before anything is created: a GPU in use, an image that
   cannot be pulled, an engine that does not answer.                         *)
GPUsAvailable_Unchecked(s, j) == TRUE
GPUsAvailable(s, j) ==
  \A k \in Job \ {j} :
    (docker[k] = "active" /\ jobs[k].server = s) => jobs[k].gpus \cap jobs[j].gpus = {}

RefuseStart(s, c) ==
  /\ c \in Starts /\ Fresh(s, c)
  /\ Turn(s, c, "DONE", FALSE)
  /\ UNCHANGED <<vars, docker, lateReports, lateAcks>>

(* StartManagedContainer looks for the container of the job first.  One that
   was created is started; one in any other state was launched before.       *)
LaunchedBefore_Running(state) == state = "active"
LaunchedBefore_Any(state) == state # "none"
LaunchedBefore(state) == state \in {"active", "exited0", "exited1"}

CreateContainer(s, c) ==
  LET j == JobOf(c)
  IN /\ c \in Starts /\ Fresh(s, c)
     /\ GPUsAvailable(s, j)
     /\ \/ LaunchedBefore(docker[j]) /\ Turn(s, c, "DONE", TRUE) /\ UNCHANGED docker
        \/ docker[j] = "created" /\ Turn(s, c, "RESTART", FALSE) /\ UNCHANGED docker
        \/ /\ docker[j] # "created" /\ ~LaunchedBefore(docker[j])
           /\ docker' = [docker EXCEPT ![j] = "created"]
           /\ Turn(s, c, "CREATED", FALSE)
     /\ UNCHANGED <<vars, lateReports, lateAcks>>

(* ContainerStart.  If it fails, a container created for this command is
   removed, if that works; one found in state created is left.  A call that
   fails may have started the container.                                     *)
LaunchContainer(s) ==
  LET doing == agents[s].doing
      failed == IF doing.stage = "CREATED" THEN {"none", "created", "active"}
                ELSE {"created", "active"}
  IN /\ doing.stage \in {"CREATED", "RESTART"}
     /\ \/ /\ docker' = [docker EXCEPT ![JobOf(doing.cmd)] = "active"]
           /\ Turn(s, doing.cmd, "DONE", TRUE)
        \/ /\ \E left \in failed : docker' = [docker EXCEPT ![JobOf(doing.cmd)] = left]
           /\ Turn(s, doing.cmd, "DONE", FALSE)
     /\ UNCHANGED <<vars, lateReports, lateAcks>>

(* StopManagedJob: an active container is stopped; without one there is
   nothing to do.  The last STOP the bound MaxStops allows does not fail.    *)
StopContainer(s, c) ==
  LET j == JobOf(c)
  IN /\ c \in Stops /\ Fresh(s, c)
     /\ \/ /\ docker[j] = "active"
           /\ \E code \in {"exited0", "exited1"} : docker' = [docker EXCEPT ![j] = code]
           /\ Turn(s, c, "DONE", TRUE)
        \/ docker[j] # "active" /\ Turn(s, c, "DONE", TRUE) /\ UNCHANGED docker
        \/ c[3] < MaxStops /\ Turn(s, c, "DONE", FALSE) /\ UNCHANGED docker
     /\ UNCHANGED <<vars, lateReports, lateAcks>>

(* The result is on disk before it is acknowledged.  Beyond the limit, the
   result that the wall clock takes for the oldest is forgotten: one of the
   others, unless the clock was set back meanwhile.                          *)
Evicted(memory, new) ==
  LET others == {c \in Command \ {new} : memory[c] # "NONE"}
  IN IF Cardinality(others) < MaxCommandHistory THEN {memory}
     ELSE {[memory EXCEPT ![c] = "NONE"] : c \in others}
Remember(s) ==
  LET doing == agents[s].doing
      memory == [agents[s].known EXCEPT ![doing.cmd] = IF doing.ok THEN "OK" ELSE "FAILED"]
  IN /\ doing.stage = "DONE"
     /\ \E known \in Evicted(memory, doing.cmd) :
          agents' = [agents EXCEPT ![s].doing.stage = "ACK", ![s].known = known]
     /\ UNCHANGED <<vars, docker, lateReports, lateAcks>>

(* An acknowledgement arrives; only the first one counts.  A tick is coarser
   than the real clock: where the code compares the time of an observation
   with that of an acknowledgement, the two are kept in the order in which
   they were read.                                                           *)
NoTie ==
  /\ \A s \in Server : agents[s].scan.stage = "SENT" => agents[s].scan.observedAt < now
  /\ \A m \in lateReports : m[2].observedAt < now
Arrives(c, ok) ==
  \/ commands[c].status = "DELIVERED" /\ NoTie /\ AckCommand(c, ok)
  \/ commands[c].status # "DELIVERED" /\ UNCHANGED vars

Acknowledge(s) ==
  LET doing == agents[s].doing
  IN /\ doing.stage = "ACK"
     /\ Arrives(doing.cmd, doing.ok)
     /\ agents' = [agents EXCEPT ![s].doing = Resting]
     /\ UNCHANGED <<docker, lateReports, lateAcks>>

(* No answer: the rest of the batch is dropped, to be polled again after its
   lease.  The acknowledgement arrived, is lost, or is still on its way.     *)
GiveUpAck(s) ==
  LET doing == agents[s].doing
  IN /\ doing.stage = "ACK"
     /\ \/ Arrives(doing.cmd, doing.ok) /\ UNCHANGED lateAcks
        \/ UNCHANGED <<vars, lateAcks>>
        \/ UNCHANGED vars /\ lateAcks' = lateAcks \cup {<<doing.cmd, doing.ok>>}
     /\ agents' = [agents EXCEPT ![s].doing = Resting, ![s].batch = {}]
     /\ UNCHANGED <<docker, lateReports>>

LateAck(m) ==
  /\ Arrives(m[1], m[2])
  /\ lateAcks' = lateAcks \ {m}
  /\ UNCHANGED <<agents, docker, lateReports>>

(* A container ends by itself.                                               *)
Exit(j) ==
  /\ docker[j] = "active"
  /\ \E code \in {"exited0", "exited1"} : docker' = [docker EXCEPT ![j] = code]
  /\ UNCHANGED <<vars, agents, lateReports, lateAcks>>

------------------------------------------------------------------------------
ProcessStep(s) ==
  \/ Boot(s) \/ Crash(s) \/ HeartbeatLoop(s)
  \/ \E mode \in Modes, answered \in BOOLEAN : EnsureRegistered(s, mode, answered)
  \/ \E mode \in Modes : Renew(s, mode)

InventoryStep(s) ==
  \/ \E mode \in Modes : ListContainers(s, mode)
  \/ StampReport(s)
  \/ \E answered \in BOOLEAN : DeliverReport(s, answered)
  \/ \E lost \in BOOLEAN : GiveUpReport(s, lost)

CommandStep(s) ==
  \/ \E answered \in BOOLEAN : Poll(s, answered)
  \/ \E c \in Command : \/ Recall(s, c) \/ RefuseStart(s, c)
                        \/ CreateContainer(s, c) \/ StopContainer(s, c)
  \/ LaunchContainer(s) \/ Remember(s) \/ Acknowledge(s) \/ GiveUpAck(s)

FleetNext ==
  \/ \E s \in Server : ProcessStep(s) \/ InventoryStep(s) \/ CommandStep(s)
  \/ \E m \in lateReports : LateReport(m)
  \/ \E m \in lateAcks : LateAck(m)
  \/ \E j \in Job : Exit(j)
  \/ /\ Tick \/ ControllerStep \/ (\E j \in Job : CreateJob(j) \/ StopJob(j))
     /\ UNCHANGED fleetVars

FleetSpec == FleetInit /\ [][FleetNext]_allVars

(* Real agents, however they die and whatever the network does to their
   messages, do nothing that the agents of module ControlPlane could not do:
   what is checked and proved there holds here (agent_protocol.go).          *)
ImplementsControlPlane == Spec

------------------------------------------------------------------------------
(* Properties.                                                               *)

(* The state files, the Docker engines and the messages keep their shape;
   nothing but the state file outlives the process of an agent, and only a
   registered one gets past its start-up (Run).                              *)
FleetTypeOK ==
  /\ agents \in [Server -> Agent]
  /\ \A s \in Server :
       /\ agents[s].phase = "DOWN" =>
            agents[s].batch = {} /\ agents[s].doing = Resting /\ agents[s].scan = NoScan
       /\ agents[s].phase \notin {"DOWN", "NEW"} => agents[s].enrolled
  /\ docker \in [Job -> ContainerState]
  /\ \A m \in lateReports : m[1] \in Server /\ m[2].seq \in 1..MaxSeq
  /\ \A m \in lateAcks : m[1] \in Command /\ m[2] \in BOOLEAN

(* Two containers never run on one GPU, whatever the control plane believes:
   the agent looks again before it launches (GPUsAvailable).                 *)
NoSharedGPU ==
  \A j, k \in Job :
    (j # k /\ docker[j] = "active" /\ docker[k] = "active" /\ jobs[j].server = jobs[k].server)
      => jobs[j].gpus \cap jobs[k].gpus = {}

(* A job runs at most once: however often its START is delivered, and
   wherever the agent died, a container that ended is not launched again
   (StartManagedContainer, remember).                                        *)
RunsOnce ==
  [][\A j \in Job : docker[j] \in {"exited0", "exited1"} => docker'[j] = docker[j]]_allVars

(* A START that succeeded means that the container of its job was launched,
   also when an earlier agent process died on the way or found it created;
   the control plane takes its absence for its end (StartManagedContainer,
   reconcileObservedLocked).                                                 *)
StartMeansRan ==
  \A j \in Job : commands[StartOf(j)].status = "SUCCEEDED" => docker[j] \notin {"none", "created"}

(* After a STOP succeeded nothing of the job runs, and nothing of it will:
   no launch is under way and no START of it is waiting anywhere
   (LeaseCommands, startDeliverableLocked, the serial executor).             *)
StoppedStays ==
  \A j \in Job, n \in 1..MaxStops : commands[StopOf(j, n)].status = "SUCCEEDED" =>
    /\ docker[j] # "active"
    /\ \A s \in Server : /\ ~(agents[s].doing.cmd = StartOf(j)
                              /\ agents[s].doing.stage \in {"CREATED", "RESTART"})
                         /\ StartOf(j) \in agents[s].batch
                              => agents[s].known[StartOf(j)] # "NONE"

(* docs/SYSTEM_DESIGN.md, O2: a job is failed as missing only after its
   START was acknowledged and by an inventory that is new enough.  The code
   dates an inventory after it listed the containers, so a listing older than
   the launch passes for one newer than its acknowledgement, and the job is
   failed while it runs (Snapshot, reconcileObservedLocked).                 *)
MissingIsGone ==
  \A j \in Job : (jobs[j].status = "FAILED" /\ jobs[j].why = "SYSTEM_ERROR")
                    => docker[j] # "active"
=============================================================================
