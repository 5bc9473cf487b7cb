---------------------------- MODULE ControlPlane ----------------------------
(***************************************************************************)
(* The control plane: the runtime repository (internal/store/memory, one   *)
(* mutex, so every repository call is one step) under the HTTP handlers    *)
(* and the two background controllers of internal/application that drive   *)
(* it.  Agents are the environment here: they send any heartbeat,          *)
(* inventory report, poll and acknowledgement the protocol lets them send. *)
(* Module Fleet replaces them by real agents over a lossy network.         *)
(*                                                                         *)
(* A controller pass (processReservations) lists the jobs in one step and  *)
(* then handles them one repository call at a time, so it always acts on a *)
(* copy that may be stale; the scheduler's pass and the reconciler's pass  *)
(* run at the same time as each other and as user requests.                *)
(***************************************************************************)
EXTENDS Calendar

CONSTANTS
  Ticker,        \* who runs controller passes: the loops "SCHEDULER" and "RECONCILER",
                 \* an administrator's POST scheduler/run-once "MANUAL", or some of them
  Scopes,        \* the sets of jobs a manual run may be restricted to (one organisation's)
  CommandLease,  \* how long a delivered command stays leased
  SubmitGrace,   \* how late a job may be submitted after its start
  ReportDelay,   \* how old an observation may be when its report arrives
  Suspendable,   \* jobs whose organisation may be disabled
  MaxTime,       \* bound: the clock stops here
  MaxStops,      \* bound: STOP commands per job
  MaxSeq,        \* bound: inventory sequence numbers
  Modes,         \* bound: the capability modes reports may carry
  Conditions     \* bound: what reports may say of a GPU

ASSUME ControlPlaneAssumption ==
  /\ Ticker \subseteq {"SCHEDULER", "RECONCILER", "MANUAL"}
  /\ Scopes \subseteq SUBSET Job
  /\ {CommandLease, SubmitGrace, ReportDelay} \subseteq Nat
  /\ Suspendable \subseteq Job
  /\ {MaxTime, MaxStops, MaxSeq} \subseteq Nat
  /\ Modes \subseteq Mode
  /\ Conditions \subseteq Condition \cup {"LEGACY", "STRAY"}

VARIABLES
  now,       \* the control plane's clock
  servers,   \* server table
  jobs,      \* job table
  commands,  \* command table; a command never requested has status "NONE"
  sweep      \* the jobs each controller pass has listed and not yet handled

vars == <<now, servers, jobs, commands, sweep>>

StartOf(j) == <<"START", j, 1>>
StopOf(j, n) == <<"STOP", j, n>>
Starts == {"START"} \X Job \X {1}
Stops == {"STOP"} \X Job \X (1..MaxStops)
Command == Starts \cup Stops
JobOf(c) == c[2]

(* What a controller pass remembers of a job it listed: as much as decides
   what it will do.  "HELD" is any other status that is not terminal.        *)
Snapshot == [kind : {"NONE", "QUEUED", "PLANNED", "HELD"},
             server : Server \cup {NONE}, gpus : SUBSET GPU]
SnapshotOf_Booked(job) ==
  [kind |-> IF job.server = NONE \/ Terminal(job.status) THEN "NONE"
            ELSE IF job.resv = "PLANNED" THEN "PLANNED" ELSE "HELD",
   server |-> job.server, gpus |-> job.gpus]
SnapshotOf(job) ==
  LET snapshot(kind) == [kind |-> kind, server |-> NONE, gpus |-> {}]
  IN CASE job.status = "NONE" \/ Terminal(job.status) -> snapshot("NONE")
       [] job.status = "QUEUED" -> snapshot("QUEUED")
       [] job.status = "ASSIGNED" /\ job.resv = "PLANNED" ->
            [kind |-> "PLANNED", server |-> job.server, gpus |-> job.gpus]
       [] OTHER -> snapshot("HELD")
Handled == SnapshotOf(Unborn)

Init ==
  /\ now = 1
  /\ servers = [s \in Server |-> Unregistered]
  /\ jobs = [j \in Job |-> Unborn]
  /\ commands = [c \in Command |-> NoCommand]
  /\ sweep = [t \in Ticker |-> [j \in Job |-> Handled]]

------------------------------------------------------------------------------
(* Job transitions.                                                          *)

(* transitionLocked: a terminal state is final; the first reason is kept.    *)
Transition(job, status, reason) ==
  IF Terminal(job.status) THEN job
  ELSE [job EXCEPT !.status = status,
                   !.why = IF status = "SUCCEEDED" \/ @ = "NONE" THEN reason ELSE @]

(* The job's half of releaseLocked.                                          *)
Released_StateOnly(job) == job
Released(job) == IF job.server = NONE THEN job ELSE [job EXCEPT !.resv = "RELEASED"]

(* The server's half of releaseLocked: GPUs are derived again from the jobs. *)
ReleaseOn_NextReport(table, s) == UNCHANGED servers
ReleaseOn(table, s) ==
  servers' = [servers EXCEPT ![s].gpus = Renormalize(table, s, servers[s])]

------------------------------------------------------------------------------
(* Agent calls: registration, liveness and inventory.                        *)

ConnectedStatus(drained) == IF drained THEN "DRAINING" ELSE "ONLINE"

(* RegisterAgent / UpsertServer: a known machine keeps its identity, drain
   flag and last inventory, but must prove itself again with a fresh report. *)
Register(s, mode) ==
  /\ servers' = [servers EXCEPT ![s] =
       [@ EXCEPT !.status = ConnectedStatus(servers[s].drained),
                 !.seen = now, !.fresh = 0, !.version = 0, !.caps = mode]]
  /\ UNCHANGED <<now, jobs, commands, sweep>>

(* Heartbeat: after an outage, connectivity alone does not restore trust in
   the inventory.                                                            *)
Heartbeat(s) ==
  /\ servers[s].status # "NONE"
  /\ LET outage == servers[s].status = "OFFLINE" \/ now > servers[s].seen + OfflineAfter
     IN servers' = [servers EXCEPT ![s].fresh = IF outage THEN 0 ELSE @,
                                   ![s].seen = now,
                                   ![s].status = ConnectedStatus(servers[s].drained)]
  /\ UNCHANGED <<now, jobs, commands, sweep>>

(* A STOP of job j that succeeded no later than the observation.             *)
StopConfirmed(j, observedAt) ==
  \E c \in Stops : /\ JobOf(c) = j
                   /\ commands[c].status = "SUCCEEDED"
                   /\ observedAt >= commands[c].done

(***************************************************************************)
(* reconcileObservedLocked for one job: a complete inventory is the actual *)
(* state of every dispatched job of that server.                           *)
(***************************************************************************)
Exited(job, code) ==
  LET final == IF job.status = "STOPPING" \/ job.why = "TIME_LIMIT" THEN "STOPPED"
               ELSE IF code = "exited0" THEN "SUCCEEDED" ELSE "FAILED"
  IN Released([job EXCEPT !.status = final,
                          !.why = CASE final = "FAILED" -> "EXECUTION_ERROR"
                                    [] final = "SUCCEEDED" -> "COMPLETED"
                                    [] final = "STOPPED" -> @])

Missing(job) ==
  IF job.status = "STOPPING" THEN Released([job EXCEPT !.status = "STOPPED"])
  ELSE Released(Transition(job, "FAILED", "SYSTEM_ERROR"))

(* Absence counts only if observed after the START was acknowledged, or
   after a STOP was.                                                         *)
AbsenceProven(j, observedAt) ==
  \/ /\ commands[StartOf(j)].status = "SUCCEEDED"
     /\ observedAt >= commands[StartOf(j)].done
  \/ jobs[j].status = "STOPPING" /\ StopConfirmed(j, observedAt)

Reconcilable_Finished(job, s) == job.server = s /\ job.dispatched
Reconcilable(job, s) == job.server = s /\ job.dispatched /\ ~Terminal(job.status)

Reconciled(s, j, rep) ==
  LET job == jobs[j]
      seen == rep.containers[j]
  IN IF ~Reconcilable(job, s) THEN job
     ELSE IF seen = "active"
       THEN [job EXCEPT !.resv = "ALLOCATED",
                        !.status = IF @ \in {"ASSIGNED", "STARTING"} THEN "RUNNING" ELSE @]
     ELSE IF seen \in {"exited0", "exited1"} THEN Exited(job, seen)
     ELSE IF /\ seen = "none"
             /\ job.status \in {"RUNNING", "STOPPING", "STARTING"}
             /\ AbsenceProven(j, rep.observedAt)
       THEN Missing(job)
     ELSE job

(***************************************************************************)
(* Reports.  A managed container exists only if the START of its job was   *)
(* delivered to that server; an agent may watch any later state of it.     *)
(***************************************************************************)
Launched(s, j) ==
  /\ jobs[j].server = s
  /\ commands[StartOf(j)].status \in {"DELIVERED", "SUCCEEDED", "FAILED"}
  /\ jobs[j].status # "CANCELLED"

Reports(s) ==
  {rep \in [seq : 1..MaxSeq, observedAt : 0..now, mode : Modes,
            containers : [Job -> ContainerState], gpus : [GPU -> Conditions]] :
     /\ now <= rep.observedAt + ReportDelay
     /\ \A j \in Job : rep.containers[j] # "none" => Launched(s, j)}

DockerValid(mode) == mode \in {"FULL", "OBSERVE", "NO_GPU"}
GPUValid(mode) == mode \in {"FULL", "OBSERVE", "NO_DOCKER"}
ActiveIn(rep) == {j \in Job : rep.containers[j] = "active"}
Reported(rep, condition) == {g \in GPU : rep.gpus[g] = condition}
ConditionsIn(rep) ==
  [g \in GPU |-> IF rep.gpus[g] \in {"LEGACY", "STRAY"} THEN "OK" ELSE rep.gpus[g]]

(* A GPU UUID belongs to the first server that reported it.                  *)
Conflicting_Connected(s, rep) ==
  \E other \in Server \ {s}, g \in GPU :
    /\ servers[other].status # "OFFLINE"
    /\ servers[other].gpus[g].state # "ABSENT" /\ rep.gpus[g] # "ABSENT"
Conflicting(s, rep) ==
  \E other \in Server \ {s}, g \in GPU :
    servers[other].gpus[g].state # "ABSENT" /\ rep.gpus[g] # "ABSENT"

(***************************************************************************)
(* ReplaceInventory.  Each source that could be read replaces what was     *)
(* known of it; jobs are reconciled, and the inventory trusted, only when  *)
(* both could.  A stale or conflicting report is refused as a whole.       *)
(***************************************************************************)
ReplaceInventory(s, rep) ==
  LET complete == DockerValid(rep.mode) /\ GPUValid(rep.mode)
      active == IF DockerValid(rep.mode) THEN ActiveIn(rep) ELSE servers[s].active
      legacy == IF DockerValid(rep.mode) THEN Reported(rep, "LEGACY") ELSE servers[s].legacy
      reconciled == [j \in Job |-> IF complete THEN Reconciled(s, j, rep) ELSE jobs[j]]
      gpus == IF GPUValid(rep.mode)
              THEN Normalize(reconciled, s, ConditionsIn(rep), Reported(rep, "STRAY"),
                             active, legacy)
              ELSE servers[s].gpus
  IN /\ servers[s].status # "NONE"
     /\ rep.seq > servers[s].version
     /\ ~(GPUValid(rep.mode) /\ Conflicting(s, rep))
     /\ jobs' = reconciled
     /\ servers' = [servers EXCEPT ![s] =
          [status |-> ConnectedStatus(@.drained), drained |-> @.drained,
           seen |-> now, fresh |-> IF complete THEN now ELSE 0,
           version |-> rep.seq, caps |-> rep.mode,
           gpus |-> gpus, active |-> active, legacy |-> legacy]]
     /\ UNCHANGED <<now, commands, sweep>>

------------------------------------------------------------------------------
(* Operators and the clock.                                                  *)

SetServerDrained(s, drained) ==
  /\ servers[s].status # "NONE"
  /\ servers' = [servers EXCEPT
       ![s].drained = drained,
       ![s].status = IF @ = "OFFLINE" THEN @ ELSE ConnectedStatus(drained)]
  /\ UNCHANGED <<now, jobs, commands, sweep>>

Tick ==
  /\ now < MaxTime
  /\ now' = now + 1
  /\ UNCHANGED <<servers, jobs, commands, sweep>>

------------------------------------------------------------------------------
(* User requests.                                                            *)

CreateJob(j) ==
  /\ jobs[j].status = "NONE"
  /\ ~Expired(j, now)
  /\ now <= Request[j].start + SubmitGrace
  /\ jobs' = [jobs EXCEPT ![j].status = "QUEUED"]
  /\ UNCHANGED <<now, servers, commands, sweep>>

(* Why a stop is requested: the first reason given is kept.                  *)
StopReason(j) ==
  IF jobs[j].why # "NONE" THEN jobs[j].why
  ELSE IF Expired(j, now) THEN "TIME_LIMIT" ELSE "USER_CANCELLED"

(* What is still running can be stopped; finished or stopping jobs are left. *)
Stoppable_Confirmed(job) == job.status \in {"QUEUED", "ASSIGNED", "RUNNING"}
Stoppable(job) == job.status \notin {"NONE", "STOPPING"} /\ ~Terminal(job.status)

CancelQueued(j) ==
  /\ jobs[j].status = "QUEUED"
  /\ jobs' = [jobs EXCEPT ![j] = Transition([@ EXCEPT !.why = StopReason(j)],
                                            "CANCELLED", "USER_CANCELLED")]
  /\ UNCHANGED <<servers, commands>>

(* A booking, or a START that no agent has been handed: nothing can run.     *)
CancelUndelivered(j) ==
  LET cancelled == [jobs EXCEPT ![j] =
        Released(Transition([@ EXCEPT !.why = StopReason(j)], "CANCELLED", "USER_CANCELLED"))]
  IN /\ Stoppable(jobs[j])
     /\ jobs[j].server # NONE
     /\ jobs[j].dispatched => commands[StartOf(j)].status = "PENDING"
     /\ commands' = IF jobs[j].dispatched
                    THEN [commands EXCEPT ![StartOf(j)] = [@ EXCEPT !.status = "FAILED",
                                                                    !.done = now]]
                    ELSE commands
     /\ jobs' = cancelled
     /\ ReleaseOn(cancelled, jobs[j].server)

(* The agent may have launched it: only the agent can stop it.               *)
StopDelivered(j) ==
  /\ Stoppable(jobs[j])
  /\ jobs[j].dispatched
  /\ commands[StartOf(j)].status # "PENDING"
  /\ \E n \in 1..MaxStops :
       /\ \A m \in 1..MaxStops : commands[StopOf(j, m)].status = "NONE" <=> m >= n
       /\ commands' = [commands EXCEPT ![StopOf(j, n)].status = "PENDING"]
  /\ jobs' = [jobs EXCEPT ![j] = [@ EXCEPT !.why = StopReason(j), !.status = "STOPPING"]]
  /\ UNCHANGED servers

NothingToStop(j) ==
  /\ ~Stoppable(jobs[j])
  /\ UNCHANGED <<servers, jobs, commands>>

RequestStop(j) ==
  CancelQueued(j) \/ CancelUndelivered(j) \/ StopDelivered(j) \/ NothingToStop(j)

StopJob(j) ==
  /\ Stoppable(jobs[j])
  /\ RequestStop(j)
  /\ UNCHANGED <<now, sweep>>

------------------------------------------------------------------------------
(* Commands: polled, executed elsewhere, acknowledged.                       *)

(* startDeliverableLocked: everything is checked again when the agent polls. *)
StartDeliverable(s, j) ==
  /\ Schedulable(servers[s], now)
  /\ ~Terminal(jobs[j].status)
  /\ jobs[j].dispatched
  /\ Contains(j, now)
  /\ \A g \in jobs[j].gpus : /\ servers[s].gpus[g].state \in {"RESERVED", "ALLOCATED"}
                             /\ servers[s].gpus[g].owner = j

(* STOP never overtakes a START that could still be handed out.              *)
HeldBack_PendingOnly(j) == commands[StartOf(j)].status = "PENDING"
HeldBack(j) ==
  \/ commands[StartOf(j)].status = "PENDING"
  \/ commands[StartOf(j)].status = "DELIVERED" /\ ~Expired(j, now)

Leasable(s, c) ==
  LET j == JobOf(c)
  IN /\ jobs[j].server = s
     /\ IF c \in Starts THEN StartDeliverable(s, j) ELSE ~HeldBack(j)
     /\ \/ commands[c].status = "PENDING"
        \/ commands[c].status = "DELIVERED" /\ commands[c].lease < now

(* LeaseCommands: a poll takes every command that can be handed out; one
   whose lease ran out unacknowledged is handed out again.                   *)
LeaseCommands(s) ==
  LET eligible == {c \in Command : Leasable(s, c)}
  IN /\ servers[s].status # "NONE"
     /\ eligible # {}
     /\ commands' = [c \in Command |->
          IF c \in eligible
          THEN [commands[c] EXCEPT !.status = "DELIVERED", !.lease = now + CommandLease]
          ELSE commands[c]]
     /\ UNCHANGED <<now, servers, jobs, sweep>>

Acked(c, ok) ==
  commands' = [commands EXCEPT ![c] =
    [status |-> IF ok THEN "SUCCEEDED" ELSE "FAILED", lease |-> 0, done |-> now]]

(* applyAckLocked: what the first acknowledgement of a command does.         *)
AckStart(j, ok) ==
  IF Terminal(jobs[j].status) THEN UNCHANGED <<jobs, servers>>
  ELSE IF ok
    THEN /\ jobs' = [jobs EXCEPT ![j].status = IF @ = "ASSIGNED" THEN "STARTING" ELSE @]
         /\ UNCHANGED servers
  ELSE IF jobs[j].status \in {"ASSIGNED", "STARTING", "STOPPING"}
    THEN LET failed == [jobs EXCEPT ![j] =
               Released([@ EXCEPT !.status = "FAILED", !.why = "EXECUTION_ERROR"])]
         IN jobs' = failed /\ ReleaseOn(failed, jobs[j].server)
  ELSE UNCHANGED <<jobs, servers>>

AckStop_Ignored(j, ok) == UNCHANGED <<jobs, servers>>
AckStop(j, ok) ==
  /\ jobs' = IF ~ok /\ jobs[j].status = "STOPPING"
             THEN [jobs EXCEPT ![j].status = "RUNNING"] ELSE jobs
  /\ UNCHANGED servers

(* AckCommand.  An agent only acknowledges what a poll handed it.  The last
   STOP the bound MaxStops allows does not fail.                             *)
AckCommand(c, ok) ==
  /\ commands[c].status = "DELIVERED"
  /\ (c \in Stops /\ ~ok) => c[3] < MaxStops
  /\ Acked(c, ok)
  /\ IF c \in Starts THEN AckStart(JobOf(c), ok) ELSE AckStop(JobOf(c), ok)
  /\ UNCHANGED <<now, sweep>>

------------------------------------------------------------------------------
(* The controllers.                                                          *)

Idle(t) == \A j \in Job : sweep[t][j] = Handled

(* MarkStaleServers, before the reconciler's pass.                           *)
MarkStaleServers ==
  LET stale == {s \in Server : /\ servers[s].status \notin {"NONE", "OFFLINE"}
                               /\ servers[s].seen + OfflineAfter < now}
  IN /\ "RECONCILER" \in Ticker /\ Idle("RECONCILER")
     /\ stale # {}
     /\ servers' = [s \in Server |-> IF s \in stale THEN [servers[s] EXCEPT !.status = "OFFLINE"]
                                     ELSE servers[s]]
     /\ UNCHANGED <<now, jobs, commands, sweep>>

(* scopedJobs: the loops see every job, a manual run may see one organisation's. *)
Scope(t) == IF t = "MANUAL" THEN Scopes ELSE {Job}

(* ReplanReservations, between the two passes of ScheduleOnce.  Its time is
   read before the store's lock is taken, so it may be a tick old.           *)
Replanned(visible, at) ==
  LET candidates == {j \in visible : Replannable(jobs[j], j, at)}
  IN \E suspended \in SUBSET Suspendable,
        rank \in Rankings(candidates),
        plan \in [candidates -> Placement \cup {NoPlacement}] :
          /\ IsPlan(plan, rank, jobs, servers, suspended, at)
          /\ jobs' = Book(jobs, plan, candidates)
Replan(at) ==
  /\ at \in {now - 1, now}
  /\ \E t \in Ticker \ {"RECONCILER"} :
       Idle(t) /\ \E visible \in Scope(t) : Replanned(visible, at)
  /\ UNCHANGED <<now, servers, commands, sweep>>

(* processReservations: the pass copies the job table ...                    *)
ListJobs(t) ==
  /\ Idle(t)
  /\ \E visible \in Scope(t) :
       sweep' = [sweep EXCEPT ![t] =
                   [j \in Job |-> IF j \in visible THEN SnapshotOf(jobs[j]) ELSE Handled]]
  /\ sweep'[t] # sweep[t]
  /\ UNCHANGED <<now, servers, jobs, commands>>

(* ... and handles each job it copied.  SetJobStatus(FAILED): the copy said
   QUEUED, and only a job that still is may expire this way.                 *)
ExpireQueued_Unguarded(j) ==
  /\ jobs' = [jobs EXCEPT ![j] = Released(Transition(@, "FAILED", "SYSTEM_ERROR"))]
  /\ UNCHANGED <<servers, commands>>
ExpireQueued(j) ==
  /\ jobs' = [jobs EXCEPT ![j] = IF @.status = "QUEUED"
                                 THEN Released(Transition(@, "FAILED", "SYSTEM_ERROR")) ELSE @]
  /\ UNCHANGED <<servers, commands>>

Allocatable_Reserved(view) == view.state \in {"FREE", "RESERVED"}
Allocatable(view) == view.state = "FREE"

(* What CommitAssignment requires of the job as it is now.                   *)
CommitAllowed_PlacementOnly(j, snap) ==
  /\ Contains(j, now)
  /\ jobs[j].server = snap.server /\ jobs[j].gpus = snap.gpus
  /\ Schedulable(servers[snap.server], now)
  /\ \A g \in snap.gpus : Allocatable(servers[snap.server].gpus[g])
CommitAllowed(j, snap) ==
  /\ jobs[j].status = "ASSIGNED" /\ jobs[j].resv = "PLANNED" /\ ~jobs[j].dispatched
  /\ Contains(j, now)
  /\ jobs[j].server = snap.server /\ jobs[j].gpus = snap.gpus
  /\ Schedulable(servers[snap.server], now)
  /\ \A g \in snap.gpus : Allocatable(servers[snap.server].gpus[g])

CommitAssignment(j, snap) ==
  /\ CommitAllowed(j, snap)
  /\ servers' = [servers EXCEPT ![snap.server].gpus =
       [g \in GPU |-> IF g \in snap.gpus THEN [state |-> "RESERVED", owner |-> j] ELSE @[g]]]
  /\ jobs' = [jobs EXCEPT ![j] = [@ EXCEPT !.status = "STARTING", !.resv = "RESERVED",
                                           !.dispatched = TRUE]]
  /\ commands' = [commands EXCEPT ![StartOf(j)].status = "PENDING"]

(* The commit was refused: SetJobStatus(ASSIGNED) notes why, if the job is
   still only booked; otherwise it leaves the job alone.                     *)
NoteWaiting_Unguarded(job) == Transition(job, "ASSIGNED", "NONE")
NoteWaiting(job) ==
  IF job.status = "ASSIGNED" /\ ~job.dispatched THEN Transition(job, "ASSIGNED", "NONE") ELSE job
KeepWaiting(j, snap) ==
  /\ ~CommitAllowed(j, snap)
  /\ jobs' = [jobs EXCEPT ![j] = NoteWaiting(@)]
  /\ UNCHANGED <<servers, commands>>

HandleJob(t, j) ==
  LET snap == sweep[t][j]
      due == snap.kind = "PLANNED" /\ Contains(j, now)
  IN /\ snap.kind # "NONE"
     /\ sweep' = [sweep EXCEPT ![t][j] = Handled]
     /\ UNCHANGED now
     /\ \/ Expired(j, now) /\ snap.kind = "QUEUED" /\ ExpireQueued(j)
        \/ Expired(j, now) /\ snap.kind # "QUEUED" /\ RequestStop(j)
        \/ due /\ CommitAssignment(j, snap)
        \/ due /\ KeepWaiting(j, snap)
        \/ /\ ~Expired(j, now) /\ (due => j \in Suspendable)
           /\ UNCHANGED <<servers, jobs, commands>>

------------------------------------------------------------------------------
AgentStep ==
  \/ \E s \in Server : \/ \E mode \in Modes : Register(s, mode)
                       \/ Heartbeat(s)
                       \/ LeaseCommands(s)
  \/ \E c \in Command, ok \in BOOLEAN : AckCommand(c, ok)
  \/ \E s \in Server : \E rep \in Reports(s) : ReplaceInventory(s, rep)

UserStep ==
  \/ \E j \in Job : CreateJob(j) \/ StopJob(j)
  \/ \E s \in Server, drained \in BOOLEAN : SetServerDrained(s, drained)

ControllerStep ==
  \/ MarkStaleServers
  \/ \E at \in {now - 1, now} : Replan(at)
  \/ \E t \in Ticker : ListJobs(t) \/ (\E j \in Job : HandleJob(t, j))

Next == Tick \/ UserStep \/ ControllerStep \/ AgentStep

Spec == Init /\ [][Next]_vars

(* The loops of cmd/aiwm-server run for ever and time passes; what agents and
   users do is up to them.                                                   *)
ControllersRun ==
  /\ WF_vars(Tick)
  /\ \A t \in Ticker \ {"MANUAL"} : /\ WF_vars(ListJobs(t))
                                    /\ \A j \in Job : WF_vars(HandleJob(t, j))
FairSpec == Spec /\ ControllersRun

------------------------------------------------------------------------------
(* Properties.                                                               *)

(* Every variable keeps the shape of the tables of the memory store; a job
   without a server has no assignment at all (a nil *Assignment).            *)
TypeOK ==
  /\ now \in Time
  /\ servers \in [Server -> ServerRecord]
  /\ jobs \in [Job -> JobRecord]
  /\ \A j \in Job : jobs[j].server = NONE =>
       jobs[j].gpus = {} /\ jobs[j].resv = "NONE" /\ ~jobs[j].dispatched
  /\ commands \in [Command -> CommandRecord]
  /\ sweep \in [Ticker -> [Job -> Snapshot]]

(* A job that execution may touch: dispatched to an agent, not finished.     *)
InFlight(j) == jobs[j].dispatched /\ ~Terminal(jobs[j].status)

(* The abstract view of a job: what it holds, and whether it is over.        *)
PoolPhase ==
  [j \in Job |-> IF Terminal(jobs[j].status) THEN "DONE"
                 ELSE IF jobs[j].dispatched THEN "HOLDING" ELSE "WAITING"]
PoolHeld == [j \in Job |-> IF InFlight(j) THEN {jobs[j].server} \X jobs[j].gpus ELSE {}]
PoolSuits == [j \in Job |-> {{p.server} \X p.gpus : p \in Candidates(j)}]
Pool == INSTANCE GpuPool WITH Suits <- PoolSuits, phase <- PoolPhase, held <- PoolHeld

(* To its users the control plane is a pool of GPUs: each dispatched job got
   as many as it asked for on one of its servers, none of them anyone else's,
   keeps them unchanged until it finishes, and never comes back (CommitAssignment, releaseLocked,
   transitionLocked).                                                        *)
ImplementsPool == Pool!PoolSpec

(* Two jobs in flight on one server never share a GPU, whatever copy of the
   job table the two controllers acted on and however long an earlier job
   overruns its window (CommitAssignment, releaseLocked, normalizeGPUState). *)
ExclusiveGPU ==
  \A j, k \in Job :
    (j # k /\ InFlight(j) /\ InFlight(k) /\ jobs[j].server = jobs[k].server)
      => jobs[j].gpus \cap jobs[k].gpus = {}

(* No inventory, release or commit ever shows a GPU of a job in flight as
   FREE, so nothing else can be given it (normalizeGPUState).                *)
InFlightNotFree ==
  \A j \in Job : InFlight(j) =>
    \A g \in jobs[j].gpus : servers[jobs[j].server].gpus[g].state # "FREE"

(* The calendar never books one GPU twice for overlapping windows, past,
   present and future bookings included (CalendarServers, planReservations). *)
NoDoubleBooking ==
  \A j, k \in Job, s \in Server, g \in GPU :
    (j # k /\ Holds(jobs[j], s, g) /\ Holds(jobs[k], s, g)) => ~Overlaps(j, k)

(* Releasing is part of finishing: no finished job leaves a GPU RESERVED in
   its name, however it finished (releaseLocked).                            *)
ReservationsLive ==
  \A s \in Server, g \in GPU :
    LET view == servers[s].gpus[g]
    IN view.state = "RESERVED" =>
         view.owner # NONE /\ InFlight(view.owner) /\ Holds(jobs[view.owner], s, g)

(* While the inventory of a server is trusted, the GPU of a container last
   seen active is never FREE, even when its job is already finished
   (normalizeGPUState, releaseLocked).                                       *)
ActiveProtected ==
  \A s \in Server : servers[s].fresh # 0 =>
    \A j \in servers[s].active :
      (jobs[j].dispatched /\ jobs[j].server = s)
        => \A g \in jobs[j].gpus : servers[s].gpus[g].state # "FREE"

(* A GPU is listed by one server at a time: a report that claims a GPU known
   elsewhere is refused, also when it arrives while the other server is
   offline or registers again (ReplaceInventory).                            *)
OneHome ==
  \A s, r \in Server, g \in GPU :
    (s # r /\ servers[s].gpus[g].state # "ABSENT") => servers[r].gpus[g].state = "ABSENT"

(* A job with an assignment is finished exactly when the assignment is
   released: no path finishes a job and keeps its booking, or the reverse.   *)
ReleasedWhenFinished ==
  \A j \in Job : jobs[j].server # NONE =>
    (Terminal(jobs[j].status) <=> jobs[j].resv = "RELEASED")

(* A job is waiting for a STOP exactly while it is STOPPING: leaving STOPPING
   alive means every STOP failed, so the next RequestStop can issue another
   (RequestStop, applyAckLocked).                                            *)
StopBookkeeping ==
  \A j \in Job : ~Terminal(jobs[j].status) =>
    (jobs[j].status = "STOPPING"
       <=> \E n \in 1..MaxStops : commands[StopOf(j, n)].status \notin {"NONE", "FAILED"})

(* A finished job leaves no START that an agent could still be handed: the
   expiry of a queued job, which may act on a stale copy, never finishes a
   job whose START is waiting (SetJobStatus).                                *)
NoDanglingStart ==
  \A j \in Job : Terminal(jobs[j].status) => commands[StartOf(j)].status # "PENDING"

(* Finished is final, for every late acknowledgement, report, stop or sweep
   (transitionLocked).                                                       *)
TerminalForever ==
  [][\A j \in Job : Terminal(jobs[j].status) => jobs'[j] = jobs[j]]_vars

(* A dispatched job is never planned again: it keeps its placement and never
   goes back to QUEUED or ASSIGNED, so its START is issued once
   (SetJobStatus, ReplanReservations, CommitAssignment).                     *)
NoRedispatch ==
  [][\A j \in Job : jobs[j].dispatched =>
       /\ jobs'[j].dispatched
       /\ <<jobs'[j].server, jobs'[j].gpus>> = <<jobs[j].server, jobs[j].gpus>>
       /\ jobs'[j].status \notin {"QUEUED", "ASSIGNED"}]_vars

(* A reservation that has begun keeps its GPUs, until it is dispatched or
   over: a plan made from now on, with a clock at most one tick old, leaves it
   alone from the tick after its start on.  domain/reservation.go:32 promises
   it of the tick of the start too, but ScheduleOnce reads the clock before it
   waits for the store's lock, and Replannable goes by that reading.         *)
Unmoved(j) ==
  /\ jobs'[j].status # "QUEUED"
  /\ <<jobs'[j].server, jobs'[j].gpus>> = <<jobs[j].server, jobs[j].gpus>>
FrozenOncePast ==
  [][\A j \in Job : (jobs[j].status = "ASSIGNED" /\ Request[j].start < now) => Unmoved(j)]_vars

(* After a STOP was handed to the agent its START never is again, so the
   agent's serial executor sees STOP last (LeaseCommands,
   startDeliverableLocked).                                                  *)
StopIsLast ==
  [][\A j \in Job, n \in 1..MaxStops :
       commands'[StopOf(j, n)].status \notin {"NONE", "PENDING"}
         => \/ commands'[StartOf(j)] = commands[StartOf(j)]
            \/ commands'[StartOf(j)].status \in {"SUCCEEDED", "FAILED"}]_vars

(* Every admitted job is eventually dispatched or finished: an unplaced
   booking does not wait for ever, and neither does one whose server never
   becomes safe (processReservations).                                       *)
AdmittedSettles ==
  \A j \in Job : jobs[j].status = "QUEUED" ~> (jobs[j].dispatched \/ Terminal(jobs[j].status))

(* Every dispatched job is eventually finished or asked to stop, also when
   earlier STOPs failed (processReservations, RequestStop).                  *)
OverdueStopped ==
  \A j \in Job : jobs[j].dispatched ~> (Terminal(jobs[j].status) \/ jobs[j].status = "STOPPING")
=============================================================================
