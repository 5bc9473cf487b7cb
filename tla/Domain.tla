------------------------------- MODULE Domain -------------------------------
(***************************************************************************)
(* The vocabulary of the control plane (package internal/domain): job,     *)
(* server, GPU and command states, the requested time window of a job, and *)
(* the pure predicates that the store, the planner and the controllers all *)
(* share.  Nothing here has state.                                         *)
(*                                                                         *)
(* Time is a natural number.  0 is Go's zero time.Time ("never"); the      *)
(* clock of every specification starts at 1.                               *)
(***************************************************************************)
EXTENDS Naturals, FiniteSets

CONSTANTS
  Job,      \* job identifiers
  Server,   \* registered machines (server and agent identifiers coincide)
  GPU,      \* GPU UUIDs
  NONE,     \* absence of a server or of an owner
  Request   \* the immutable part of each job, fixed when it is admitted

(***************************************************************************)
(* A request names its half-open window [start, end), the number of GPUs   *)
(* and the servers its organisation and server selector allow.  Admission  *)
(* (application/validation.go) only accepts a positive duration and a      *)
(* positive GPU count.                                                     *)
(***************************************************************************)
ASSUME DomainAssumption ==
  /\ NONE \notin Job \cup Server
  /\ Request \in [Job -> [start : Nat \ {0}, end : Nat, count : Nat \ {0},
                          servers : SUBSET Server]]
  /\ \A j \in Job : Request[j].start < Request[j].end
  /\ IsFiniteSet(GPU)

Time == Nat

JobStatus == {"NONE", "QUEUED", "ASSIGNED", "STARTING", "RUNNING", "STOPPING",
              "STOPPED", "SUCCEEDED", "FAILED", "CANCELLED"}
ReservationState == {"NONE", "PLANNED", "RESERVED", "ALLOCATED", "RELEASED"}
TerminationReason == {"NONE", "USER_CANCELLED", "TIME_LIMIT", "EXECUTION_ERROR",
                      "SYSTEM_ERROR", "COMPLETED"}
CommandStatus == {"NONE", "PENDING", "DELIVERED", "SUCCEEDED", "FAILED"}
ServerStatus == {"NONE", "ONLINE", "DRAINING", "OFFLINE"}
\* "ABSENT": the last accepted inventory of the server did not list this UUID.
GPUState == {"ABSENT", "FREE", "RESERVED", "ALLOCATED", "LEGACY", "UNKNOWN", "UNHEALTHY"}
\* platform.Capabilities, reduced to what the store tells apart.
\* "FULL" is ManagedExecutionReady; "OBSERVE" reads both sources but cannot execute.
Mode == {"FULL", "OBSERVE", "NO_DOCKER", "NO_GPU"}
\* Docker state of the managed container of a job; "exited0" is exit code 0.
ContainerState == {"none", "created", "active", "exited0", "exited1"}

Terminal(status) == status \in {"STOPPED", "SUCCEEDED", "FAILED", "CANCELLED"}

------------------------------------------------------------------------------
(* Windows.  All requested windows are valid (see DomainAssumption).         *)

Contains(j, at) == Request[j].start <= at /\ at < Request[j].end
Expired(j, at) == at >= Request[j].end
Overlaps(j, k) == /\ Request[j].start < Request[k].end
                  /\ Request[k].start < Request[j].end

------------------------------------------------------------------------------
(* Records.  A job's assignment is server, gpus, resv and dispatched; the job
   has none when server = NONE.  dispatched says that the assignment names a
   START command (CommandID # ""): the job is past planning.                 *)

JobRecord == [status : JobStatus, server : Server \cup {NONE}, gpus : SUBSET GPU,
              resv : ReservationState, dispatched : BOOLEAN, why : TerminationReason]
GPUView == [state : GPUState, owner : Job \cup {NONE}]
CommandRecord == [status : CommandStatus, lease : Time, done : Time]
ServerRecord == [status : ServerStatus, drained : BOOLEAN, seen : Time, fresh : Time,
                 version : Nat, caps : Mode, gpus : [GPU -> GPUView],
                 active : SUBSET Job, legacy : SUBSET GPU]

Unborn == [status |-> "NONE", server |-> NONE, gpus |-> {}, resv |-> "NONE",
           dispatched |-> FALSE, why |-> "NONE"]
NoCommand == [status |-> "NONE", lease |-> 0, done |-> 0]
Unregistered ==
  [status |-> "NONE", drained |-> FALSE, seen |-> 0, fresh |-> 0, version |-> 0,
   caps |-> "OBSERVE", gpus |-> [g \in GPU |-> [state |-> "ABSENT", owner |-> NONE]],
   active |-> {}, legacy |-> {}]

(* Job.Replannable: queued, or a future reservation that nothing has started. *)
Replannable_Undispatched(job, j, at) ==
  job.status = "QUEUED" \/ (job.status = "ASSIGNED" /\ ~job.dispatched)
Replannable(job, j, at) ==
  \/ job.status = "QUEUED"
  \/ /\ job.status = "ASSIGNED"
     /\ job.resv = "PLANNED"
     /\ ~job.dispatched
     /\ Request[j].start > at

(* Server.Schedulable: connected, not drained, with a complete recent inventory. *)
SchedulableWithin(server, at, offlineAfter) ==
  /\ server.caps = "FULL"
  /\ server.status = "ONLINE"
  /\ ~server.drained
  /\ server.fresh # 0
  /\ at <= server.seen + offlineAfter
  /\ at <= server.fresh + offlineAfter

(* A job that still holds its booking: not finished and not released.        *)
Holds(job, s, g) ==
  /\ job.server = s
  /\ g \in job.gpus
  /\ ~Terminal(job.status)
  /\ job.resv # "RELEASED"
=============================================================================
