# A verification of the AIWM control plane and its agents

This directory models the Go control plane of the platform
(`AIWM-Docker-GPU-Scheduler-with-Agent/aiwm-docker-control-plane`) in TLA+, checks the
models with TLC on small instances and proves the most important properties with TLAPS for
instances of any size. Paths below are relative to `.../aiwm-docker-control-plane/internal`
unless they say otherwise; `docs/SYSTEM_DESIGN.md` and `docs/DOMAIN_MODEL.md` are in the repository's
top-level `docs`, `docs/agent-protocol.md` is the control plane's.

## 1. The system

Users submit jobs: a container image, a number of GPUs and a time window `[start, end)`. The
control plane books GPUs of registered servers for the windows, dispatches each job when its
window opens, and stops it when the window closes. An agent on each server polls for commands,
runs containers through the Docker engine and reports what it observes.

| component | state | operations | talks to |
|---|---|---|---|
| domain vocabulary (`domain/`) | none | window overlap, `Replannable`, `Schedulable` | everything |
| runtime repository (`store/memory`) | servers with their GPUs, jobs with their assignment, commands; one mutex | register, heartbeat, report, drain, create, stop, replan, commit, lease, acknowledge | called by everything below |
| calendar and planner (`domain/reservation.go`, `application/planning.go`, `store/memory/planning.go`) | none | which GPUs are free for a window; a plan for all replannable jobs | runs inside `ReplanReservations` |
| GPU accounting (`store/memory/accounting.go`) | none | state and owner of each GPU from report, containers and jobs | runs inside every report and release |
| controllers (`application/planning.go`, `controlplane.go`, `cmd/aiwm-server`) | a copy of the job table | scheduler loop: handle jobs, replan, handle jobs; reconciler loop: mark stale servers, handle jobs | repository, one call per job |
| command protocol (`LeaseCommands`, `AckCommand`) | leases | poll, redeliver, acknowledge | agents |
| agent (`agent/runner.go`, `executor.go`, `inventory.go`) | identity, inventory sequence, processed commands (on disk); the current batch and report (in memory) | start-up; heartbeat, inventory and command loops | control plane by HTTP, Docker, NVML |
| Docker adapter (`agent/dockerengine`) | containers (in the engine) | list, create, start, stop | agent |
| durable store (`store/durable`) | a snapshot file | roll back or commit each mutation, restore | wraps the repository |
| training (`application/training.go`, `store/memory/training.go`) | checkpoint and upload state per job | sessions, uploads, checkpoint requests, recovery | jobs, object store |
| enrollment, identity, tenancy (`application/identity.go`, `store/postgres`) | users, sessions, tokens, organisations | bind a machine, log in, scope | repository, PostgreSQL |
| policy and scoring (`policy/`, `application/scheduler.go`) | none | order jobs; filter, score and select servers and GPUs | planner |
| capability catalog | static | models that satisfy a request | submission |
| HTTP API, console, simulator, scripts | none of their own | | |

What makes it hard:

* **Stale copies.** Both loops list the jobs, then call the repository once per job. Between
  listing and handling, the other loop, a user or an agent may have changed the job. Only the
  checks inside each repository call protect it.
* **Two truths.** The job table says what should be, reports say what is. A report may be
  partial, late or read while something was being launched; a container may outlive its job.
* **Overrun.** A job whose STOP nobody answers keeps its GPU after its window, when the next
  booking of that GPU is due.
* **Redelivery.** Commands are leased and handed out again; polls, acknowledgements and reports
  can be lost, unanswered or late; agents die between any two steps.
* **Optimistic writes.** Uploads and controller passes write back the whole training state as they
  copied it, under a revision; an upload may finish long after its lease ended.
* **Failing commits.** Each mutation is done in memory, then written to a file. The write may fail, a
  pass ends at its first error, and the process may die between any two steps. After a restart
  what the file says of the machines is old.
* **Two databases.** A machine is bound to a server in PostgreSQL and entered in the runtime store by
  separate commits; tokens are renewed by loops that compete.
* **Calendar arithmetic.** Half-open windows, bookings that touch, replanning of everything that
  has not started.

What makes each part correct is the list of properties in section 4; `PROJECT.json` lists the
hazards of the code line by line, with the properties that cover each.

## 2. Modules

| module | models | status |
|---|---|---|
| `Domain` | package `domain`: states, records, windows | complete for the modelled parts |
| `Calendar` | `normalizeGPUState`, `CalendarServers`, `placementMatches`, `planReservations` as operators on the tables | complete, scoring left open |
| `ControlPlane` | repository, controllers, manual runs and command protocol; agents are an arbitrary environment | complete |
| `GpuPool` | abstract: jobs acquire suitable GPUs once and return them; `ControlPlane` implements it | complete |
| `PolicyOrder`, `Planner` | one planning pass with the order and the choices the code makes: `policy/engine.go`, `application/scheduler.go`, the store's second check | complete |
| `AtomicStore`, `Snapshot` | abstract: a store whose calls take effect at once or not at all, and what a process that was shut down may still do to it; the durable store that implements it: lock, mutex, snapshot file, crashes, shutdowns | complete, but for power failures |
| `Durable` | `ControlPlane` on that store: failed calls, passes cut short, restarts with distrusted inventories | complete |
| `Fleet` | real agents and Docker engines over a lossy network; implements `ControlPlane` | complete |
| `Enrollment` | enrollments, the two commits of a registration, tokens, competing loops of agents | organisations, users and sessions left out |
| `TrainingUpload` | the outputs of one training job: uploads, checkpoint requests, recovery, crashes | complete; continuation of a job left out |
| `ControlPlaneProofs`, `StoreProofs` | theorems about `ControlPlane`; that it implements `GpuPool` | section 5 |
| `FleetProofs`, `DurableProofs`, `SnapshotProofs`, `EnrollmentProofs`, `PlannerProofs`, `TrainingProofs` | theorems about the module each is named after | section 5 |
| `MCControlPlane`, `MCDurable`, `MCFleet`, `MCEnrollment`, `MCSnapshot`, `MCPlanner`, `MCTrainingUpload` | instances for TLC | |

`Fleet` and `Durable` each EXTEND `ControlPlane`, which EXTENDS `Calendar`, which EXTENDS `Domain`;
`Planner` EXTENDS `Calendar` and `PolicyOrder`. Three refinements are checked, and proved:

* `ControlPlane` implements `GpuPool`: `PoolPhase` (waiting, holding, done) and `PoolHeld` (the GPUs of
  a job in flight) are the mapping. `Durable` inherits it.
* `Snapshot` implements `AtomicStore`: `View` (memory of the process that serves, before the transaction
  under way), `Behind` (what a closed process left on disk without the other's knowledge), `Leaving`
  and `Promised` (a call not yet renamed is still waiting) are the mapping.
* `Fleet` implements `ControlPlane`: its real agents do nothing the arbitrary ones might not.

The layers fit as follows. `Snapshot` says what a repository call is: atomic, or failed without
effect. `Durable` uses just that: a committed call is an action of `ControlPlane`. It models one
control plane after another, each when the one before is over: the late writes of a process that was
shut down (`LateWrite` of `AtomicStore`, finding 3) are not in it. `Planner` opens up
one action of `ControlPlane`, `Replan`: its property `Greedy` is the condition `Calendar!IsPlan` that
`ControlPlane` puts on a plan, except that `ControlPlane` takes memory and capability for
sufficient. `Enrollment` explains which calls reach `ControlPlane` at all. `TrainingUpload` stands
alone: the job it belongs to is its environment.

### How state and actions correspond to the code

A repository method holds the store's mutex, so it is one action: `ReplaceInventory`,
`CommitAssignment`, `RequestStop`, `LeaseCommands`, `AckCommand` and so on keep the source's
names. A method's early return is a guard or a disjunct; what it calls (release, renormalise,
reconcile) is part of the same action.

* `jobs[j]`: `status`, plus the assignment (`server`, `gpus`, `resv`, and `dispatched`, which is
  `CommandID != ""`). No assignment is `server = NONE`. `why` is the termination reason.
* `servers[s]`: `seen` is `LastHeartbeatAt`, `fresh` is `InventoryReceivedAt` (0 is the zero
  time), `version` is `InventoryVersion`, `gpus` the GPU views, `active` and `legacy` what the last
  container list said.
* `commands`: START of a job is `<<"START", j, 1>>`, its n-th STOP is `<<"STOP", j, n>>`; `done` is
  `CompletedAt`.
* `sweep[t][j]`: what the pass of loop `t` copied of job `j` and has not handled yet. `ListJobs`
  copies, `HandleJob` handles one job with the clock of that moment. The scheduler's second
  pass and the reconciler's pass are passes like the first; all loops interleave at will. The loop
  `MANUAL` is `POST /scheduler/run-once`: an administrator may limit it to one organisation, so that
  it sees and replans only the jobs of a set in `Scopes`, while the others keep their bookings.

`Durable` adds to these:

* `Committed` is any step of `ControlPlane`; `AbandonPass` is a call of a pass that failed;
  `Restart` is the death of the process, or its shutdown, and `Open`: the passes are gone, every
  registered server is OFFLINE with no inventory (`Reopened`).
* `proven` is a history variable: the servers whose complete inventory came in since the start.

In `Snapshot`:

* `procs[p]` is a control plane: its tables `core`, the copy `before` that a transaction restores,
  the `mutex`. `lock` is the flock, `file` the snapshot. The tables are arbitrary values.
* `calls[t]` is one repository call: `Mutate` runs the memory store's method under the mutex,
  `WriteTemporary`, `Rename` and `SaveFails` are the steps of `saveSnapshot`, `Reject` a method that
  refuses. `Die` may happen at every step. `Close` is main's deferred Close: it gives up the lock
  whatever calls are under way, and these go on, as do the loops that make them, until the process is
  over (`Die`).

In `Fleet`:

* `agents[s]`: the phase of the process, the state file (`enrolled`, `known`, `seq`), the polled
  batch, the command being executed and the report being made. A command goes through create,
  launch, remember, acknowledge; a report through list, stamp, deliver. An agent with an identity
  registers again before each report until one is accepted (`LOADED`, `RENEWED`); later any loop
  whose token is refused does (`Renew`), and a refused report is then sent again.
  `MaxCommandHistory` bounds what it remembers (`Evicted`).
* `docker[j]` is the managed container of a job; `lateReports` and `lateAcks` hold the requests
  whose sender gave up.

In `Enrollment`:

* `enrollments` and `ownership` are the PostgreSQL tables, `rows` and `machines` the runtime
  store's server table and its index by machine.
* A registration is `EnsureRegistered` (sent), `Bind` (first commit), `Upsert` (second commit, a new
  token), `Answered`. A heartbeat, report, poll or acknowledgement is a `Call`, which is served or
  refused by its token. `GiveUp` and `StopHost` leave requests under way that may still be handled.

In `Planner`:

* `Consider` is one turn of the loop in `planReservations`, for the job that the policy puts first.
  `Hosts` is `filter`, `Score` the four strategies, `Wins` and `Tighter` the two sorts, `Commit` is the
  second half of `ReplanReservations`, which checks everything again (`Accepted`) and commits all or
  nothing. `NextPass` is the next tick with nothing changed.
* Coefficients are kept in tenths and the score in thousandths, as the code rounds it; scores of
  placements are exact fractions.

In `TrainingUpload` the store is touched by one repository call per action, and what a handler or a
pass carries between two calls is its copy of the training state:

* `training` is the stored `TrainingState` (`upload`, `kind`, `since` are the lease, `latest` and
  `final` the published objects); `job` is the status and the time of the first STOPPING or final
  event, all that `trainingDeadline` reads.
* `uploads[u]` is one `SaveTrainingOutput`: `Begin` reads the job and checks, `TakeLease` stores the
  lease, `PutReturned` is the end of the streaming with the second look at the job, `Publish` stores
  the outcome. `passes[t]` is `processReservations` for this job: `ListJob`, `RecoverUpload`,
  `RequestCheckpoint`. `Accepts` and `Stored` are `UpdateTraining`.
* `Crash` ends every handler and pass; the stored state survives.

### Abstractions

* In `ControlPlane` the order of jobs within a pass is any order (the code sorts random
  identifiers). Which feasible placement is chosen, and in which order jobs are planned, is any:
  whatever policy and scoring do, the properties hold. A job goes unplaced only if nothing is
  feasible. `Planner` has the real order and choice.
* In `ControlPlane` GPUs of a server are alike: matching of model and memory and organisation
  are the set `Request[j].servers`. `Planner` has memory and models of GPUs. Labels of servers are
  left out: new jobs have no selector, and jobs from before the allocation form, which may have
  one, have no valid window and are never planned. `Suspendable` are the jobs whose organisation
  may look disabled at a read.
* Time is a tick. Agent and control-plane clocks agree (the code compares `ObservedAt` with
  `CompletedAt`; `docs/SYSTEM_DESIGN.md` O5 documents that skew is not handled). In `Fleet` an
  acknowledgement and a report stamp are never in the same tick in the wrong order (`NoTie`).
* `Replan` may use a clock that is one tick old, since it reads it before taking the lock.
* In `ControlPlane` a report may show the container of a job only if its START was handed out
  (`Launched`). `Fleet` discharges that: real agents report nothing else (proved: `ReportAllowed`).
* Left out because nothing in the modelled configuration reaches them: the untimed legacy commit
  path, the `limit` of a poll, `ErrNotFound` paths, a report with neither source readable, the
  allocation preview (it only reads). An empty poll changes nothing and is no step.
* In `Planner` the sizing plan and the quota are constants, as `DevelopmentFacts` is; identifiers are
  numbers, whose order stands for that of the strings.
* In `Snapshot` a power failure, after which an unsynced directory may show the old file again, is
  not modelled.
* In `Enrollment` an enrollment is named by the server identifier it allocates, and a token is
  only known to be the current one or not. What a served call does is `ControlPlane`'s matter.
* In `TrainingUpload`: validation of kind, step and size, credentials, and the step number are left
  out; an object is the upload that stored it. A handler's write may fail for any reason; a failed
  write of a pass is not modelled. Every upload is of one job, started at most once per request.
* In `Fleet`: external containers and unreadable GPUs (the run `inventory` has every report),
  draining. A report that a renewal of the token overtook may always still arrive. The report
  after each command is one of those an agent may make at any time. A failed ContainerStart may
  have started the container.

## 3. Bounds

Constants `MaxTime`, `MaxStops` (STOP commands per job), `MaxSeq` (inventory sequence),
`MaxCommandHistory` and `MaxLate` (requests given up, still handled) bound the counters, always in
guards. `ReportDelay` bounds the age of a report when it arrives; in `Fleet` it bounds nothing
(`ReportAssumption`), since messages of real agents may be of any age. The last STOP that `MaxStops` allows does not fail, so that the bound never keeps a
controller from asking again. `CHECK_DEADLOCK FALSE` stands where the bounded clock lets a
behaviour end. `Modes` and `Conditions` select what reports may carry.

Two jobs suffice for every property about exclusion (each is about a pair), one job and two loops
for races on one record, one job and one administrator, whose manual runs do the work of the scheduler, beside the reconciler.
Windows are placed so that the interesting moments exist: back to back on one GPU (overrun),
overlapping by one tick (calendar), one tick before the start (replanning), one after the end
(expiry). In `races` the clock runs to the end of the window and the second STOP is there because
the first may fail.

In `lossy` an agent remembers one command only, fewer than the two of a job, so that it forgets one
in every life of a job; in `shared` it remembers all. `shared` explores only behaviours in which no container
exits with an error (`NormalExits`): a job that ended either way gives its GPU back, and `lossy` has both
exit codes. Nor is the second job stopped there (`SecondUnstopped`), since no third one waits for its GPU.

`placement` needs enough room for the choices to differ: a server with two GPUs of which one is
larger, one with a single GPU, a job that takes two, one that fits only some models, and one too
large for a GPU that is in use. Passes run before all windows, at the start of the first, and
when the first has ended (`Times`); each GPU is in use or not (`Usage`). Two jobs of one class differ in
age by more than one week and straddle the cap of the waiting coefficient, for `Fifo`.

`enrollment`: two machines and two enrollments, one of them wanted by both, make every conflict of
binding; two loops on one machine make every race of renewals; one request given up may still be
handled beside the one in use. The clock passes the end of an enrollment.

`snapshot`: two processes on one file, two goroutines of the first: each pair of writers, in one
process and in two. Three values of the job tables tell the old, the new and a third one apart; one of them
comes with a trusted inventory too, which a restart distrusts. The goroutines of one process are
interchangeable.

For training outputs, two uploads make every pair of writers, with one pass (the second loop runs
the same code); the loss in finding 2 needs three uploads (one that published, one that died, one
that takes over). `UploadTimeout` is longer than `Grace` in `outputs`, so that a STOP can make a
stream late before its lease ends, and `MaxTime` leaves room for the last lease to expire.

## 4. Runs

| run | instance | properties | shows |
|---|---|---|---|
| `races` | `Durable`, 1 job, both loops fair, 2 STOPs, late reports, failed writes, restarts | `ReleasedWhenFinished`, `StopBookkeeping`, `NoDanglingStart`, `TerminalForever`, `NoRedispatch`, `StopIsLast`, `DispatchOnProof`, `AdmittedSettles`, `OverdueStopped` | one job's life under every interleaving and failure; nothing waits for ever, overdue jobs are stopped, nothing starts on an old inventory |
| `inventory` | every mode and GPU condition, manual runs beside the reconciler | `ActiveProtected`, `InFlightNotFree` | no used or held GPU is shown FREE |
| `calendar` | 2 overlapping jobs, 2 GPUs | `TypeOK`, `NoDoubleBooking`, `ReservationsLive`, `FrozenOncePast`, `ImplementsPool` | no double booking under any replanning; bookings that have begun stay; refinement of the pool |
| `placement` | `Planner`, 3 jobs, 2 servers, 3 GPUs, all strategies | `Agreed`, `Greedy`, `Fifo`, `Settled` | planner and store agree, no job is left out without a reason, order within a class is age, plans do not wander |
| `snapshot` | `Snapshot`, 2 processes, 3 goroutines | `RivalHasClosed`, `MemoryIsSaved`, `ImplementsStore` | the durable store is an atomic one, through failed saves and crashes, but for what a process writes after it closed the store |
| `enrollment` | `Enrollment`, 2 machines, 2 enrollments, fair hosts | `SameOwner`, `BoundIsAccepted`, `NeverLockedOut` | both databases agree; a bound machine always gets back in |
| `lossy` | `Fleet`, 1 agent, 1 job | `FleetTypeOK`, `StartMeansRan`, `StoppedStays`, `RunsOnce`, `ImplementsControlPlane` | crashes, message loss and forgotten results: at most one run per job, silence after STOP, refinement |
| `shared` | `Fleet`, 2 jobs back to back, 1 GPU | `ExclusiveGPU`, `NoSharedGPU` | overrun and late answers never give a GPU to two jobs, nor two containers to a GPU, even when the table is wrong |
| `outputs` | `TrainingUpload`, 2 uploads, 1 fair pass | `TypeOK`, `FailedMeansNone`, `OnlyHolderPublishes`, `PublishedInTime`, `ArtifactFinal`, `AskedWhileRunning`, `LeasesEnd` | late, replaced and recovered uploads, stops and crashes: outputs only grow better, and no dead upload holds its lease for ever |
| `missing` | `Fleet`, 1 job | `MissingIsGone` | violated: finding 1 |
| `prior` | `TrainingUpload`, 3 uploads | `PriorCheckpointKept` | violated: finding 2 |
| `shutdown` | `Snapshot`, 2 processes, 3 goroutines | `OneWriter` | violated: finding 3 |

Every property has a mutant in `PROJECT.json`: a plausible bug (`Op_Variant` beside `Op`) under
which TLC finds the property violated.

**Fairness** is used in three runs.

* `races` (`LoopsRecover`): weak fairness of the clock, strong fairness of each loop's listing and of
  each job's handling. `cmd/aiwm-server` runs both loops on tickers for ever, and a pass handles
  every job it listed, unless a write fails or the process dies: strong fairness says that each
  call gets through now and then. Nothing is assumed of agents or users, so the two liveness
  properties promise only what the controllers can do alone: they ask for a STOP, they do not obtain
  it. Weak fairness would not do, since a failed write before each turn of a job disables it.
* `outputs`: the same of the clock and the passes, with strong fairness of `RecoverUpload`: a control
  plane that dies again and again in mid-pass recovers nothing. No upload has to finish.
* `enrollment` (`SteadyHosts`): the loops of one agent keep trying (weak fairness), and each kind of
  message gets through now and then (strong fairness of each step of a request, and of a call that
  carries the current token). The last one assumes that loops which renew the token against each
  other, or late registrations, do not outrun every call for ever: timers of different length see to
  that, no code does. The property is about an agent that stays up with an enrollment bound to it
  and not revoked; the enrollment may have expired.

### Findings

1. `MissingIsGone`. `Snapshot` (`agent/inventory.go:146`) stamps a report after it listed the
   containers. If the command loop launches and acknowledges in between, the report omits the
   container but counts as newer than the acknowledgement: the job is FAILED as missing, its GPU
   is shown FREE, and its container runs on with nobody to stop it. `docs/SYSTEM_DESIGN.md` O2
   says that missing needs an inventory that is new enough. Stamping before listing would do.
   The run `shared` shows that the agent's own check still keeps a second container off that GPU.
2. `PriorCheckpointKept`. `docs/DOMAIN_MODEL.md:9` says that SAVING means the application is sending a
   checkpoint, and that a failed replacement leaves the one before it AVAILABLE.
   `SaveTrainingOutput` (`application/training.go:208`) takes over a lease that ran out but resets only
   the status of its own kind. If an artifact upload takes over the lease of a dead checkpoint
   upload before a pass recovers it, the checkpoint status stays SAVING until the application
   sends a checkpoint unasked: meanwhile the earlier one is not AVAILABLE, so the job cannot be
   continued (`Resumable`), and no other is asked for.
3. `OneWriter`. `docs/ALGORITHMS.md:1115` says that the mutex and the lock make the control plane the
   one writer of its file. But `main` (`cmd/aiwm-server/main.go:57`) closes the store, and so gives up the
   lock, without the mutex: it has waited for handlers at most 10 s and for the controller loops not at
   all. Until the process is over (the other deferred calls run in between) a loop may still save,
   while the next process has read the file and serves. What the old one writes is found by the
   next restart, unless the new one writes again, and so either process's answered calls may be lost.
   What remains true is `RivalHasClosed`, the condition in `MemoryIsSaved`, and `AtomicStore`.

Two more divergences have no run of their own.

* `domain/reservation.go:32`, `docs/ALGORITHMS.md:114` and `docs/SYSTEM_DESIGN.md:328` say that a
  reservation whose start has arrived is not replanned. `ScheduleOnce` (`application/controlplane.go:286`)
  reads the clock before it waits for the store's lock, and the second check in the store uses that
  reading too, so that a reservation which falls due in between may still be moved or lost: with
  `<=` for `<`, `FrozenOncePast` is violated. As it stands it says that the reservation is safe from the
  tick after its start on, the clock in use being at most one tick old.
* `docs/agent-protocol.md:13` says that only the inventory confirms RUNNING. `applyAckLocked`
  (`store/memory/lifecycle.go:117`) sets a job RUNNING when a STOP fails, also if no container of it was
  ever seen. `docs/SYSTEM_DESIGN.md` O2 admits it. `ControlPlane` does what the code does.

## 5. Proofs

All theorems hold for constants of any size (GPUs finite) that satisfy the named assumptions of the
modules that declare them.

### The control plane

`ControlPlaneProofs` and `StoreProofs`, from the assumptions in `Domain`, `Calendar` and
`ControlPlane`:

| theorem | statement |
|---|---|
| `Consistent` | `Spec => [](Inv /\ Issued)`, the inductive invariant |
| `TypeCorrect`, `ReleasedExactly` | `[]TypeOK`, `[]ReleasedWhenFinished` |
| `Exclusive`, `NeverShownFree`, `NoLeakedReservation` | `[]ExclusiveGPU`, `[]InFlightNotFree`, `[]ReservationsLive` |
| `FinishedIsFinal`, `DispatchedOnce` | `TerminalForever`, `NoRedispatch` |
| `CalendarApart`, `ReservationFrozen` | `[]NoDoubleBooking`, `FrozenOncePast` |
| `SingleHome` | `[]OneHome`: a GPU UUID is listed by one server at a time |
| `RunningProtected` | `[]ActiveProtected` |
| `CommandsFit` | `[]Ordered`, the inductive invariant of commands |
| `StopsCounted`, `NothingDangles`, `StopsLast` | `[]StopBookkeeping`, `[]NoDanglingStart`, `StopIsLast` |
| `BookedInFull` | `[]Sized`: a booking has the number of GPUs asked for, on a permitted server |
| `Refinement` | `Spec => ImplementsPool`, the refinement of `GpuPool` |

The argument. `ExclusiveGPU` alone is not inductive: a commit takes FREE GPUs, so one has to know
that no GPU of a job in flight is FREE (`InFlightNotFree`); a release re-derives GPUs from the jobs,
so one has to know that only jobs in flight reserve (`ReservationsLive`); and both need to know
which assignment goes with which status (`Shaped`). `Inv` is the conjunction of these with `TypeOK`.
`NormalizeSound` says that deriving a server's GPUs from a shaped job table can break none of it, and
`AgreementStep` reduces every action to one of three kinds: it leaves jobs in flight and GPUs
alone, or derives the GPUs of the server again, or is the commit. `Issued` (a START exists only
for a dispatched job) is what keeps `CommitAssignment` the only source of STARTs.

The action properties follow from one lemma per action, `Moves`: what no step does to a job. The
calendar theorem needs no more than that planning places each job where it does not collide with
what was placed before it, in the plan's order, and that nothing else makes a booking.

The refinement. A step in which no job becomes dispatched maps to `Finish` of the jobs that became
terminal, perhaps none: `Moves` says that it changes nothing else of a job in flight. A step that
dispatches a job is its commit, and maps to `Acquire`: the booking suits the job because planning
made it (`Sized`), and it meets no GPU in use because `ExclusiveGPU` holds after the step.

Commands. `StopBookkeeping`, `NoDanglingStart` and `StopIsLast` rest on one invariant, `Orders`: which
commands a job has in each status, that at most one STOP is under way, and that a STOP was handed
out only when the START no longer could be. Each action either leaves the commands of a job alone
(`KeepsOrders`) or has a lemma of its own. Inventory: `NextChanges` says that GPUs of a server change in one
of two ways, by a report or by being derived again, and `ListedBefore` that only a report lists a
GPU, one that `Conflicting` let through; the rest of `SingleHome` and `RunningProtected` is about `Normalize`.

### The fleet

`FleetProofs`, for any number of jobs, machines, GPUs, ticks and late messages, and any memory of an agent, from
the assumptions above, `HistoryAssumption` (an agent remembers at least one result) and `ReportAssumption` (the
reports of these agents are not excluded by the bounds of `ControlPlane` on reports):

| theorem | statement |
|---|---|
| `FleetConsistent` | `FleetSpec => []FleetInv`, the inductive invariant |
| `FleetRefines` | `FleetSpec => ImplementsControlPlane`, the refinement |
| `FleetTyped` | `[]FleetTypeOK` |
| `NeverShared` | `[]NoSharedGPU`: no two containers on one GPU, whatever the table says |
| `StartsRan`, `StopsStay` | `[]StartMeansRan`, `[]StoppedStays` |
| `OneRun` | `RunsOnce` |

None of the safety properties is inductive alone, for each is a statement about what agents will still do. `FleetInv`
adds to the invariants of `ControlPlane` what the commands held, the containers and the messages may presuppose:

* `HeldOK`: a command an agent has taken was handed out, is for a job of its server, and if it is a
  START, no STOP of that job was ever handed out. This is what a poll gives (`PollGives`: a
  START is deliverable only while no STOP of its job was handed out, by `Orders`). It lasts because an agent has one
  command loop: a STOP is handed out only by a poll, and that agent polls when its batch is empty
  (`AssignedKept`, `PollInv`).
* `LaunchOK`: between create and launch, the container exists and no other runs on its GPUs. The check
  of the GPUs and the launch are two steps, but only the loop that made the check launches on that
  server.
* `DockerOK`, `SightOK`: containers exist, and reports under way show them, only where a START was
  handed out. This is `Launched`, the condition of `ControlPlane` on reports.
* `ClaimOK`: whoever says that a command succeeded (the table, a state file, a late acknowledgement) is
  right about the container, and stays so: a job that had its STOP is not launched again
  (`LaunchUnclaimed`).

Most steps add nothing to the sets these speak of (`Held`, `Launching`, `Sighted`, `Claimed`), and one lemma each
(`AgentQuiet`, `ServerQuiet`) shows that they keep the invariant. The rest is about the steps that add: `Poll`,
`CreateContainer`, `LaunchContainer`, `StopContainer`, `Remember`, `ListContainers`. Of the control plane it needs what its
steps do to commands (`Committed`) and that a job whose START was handed out keeps its server and is not
dispatched elsewhere (`NextSpares`, `LaunchedKept`). That a container which ended never runs again is
then `RunsOnce`: Docker has no step from an exited container to an active one but a launch, and `LaunchOK`
says that a launch is of a created one.

By `FleetRefines` every theorem about `ControlPlane` holds of the fleet: `ExclusiveGPU`, which the run `shared`
checks, is one of them.

### The durable store

`SnapshotProofs`, from `StoreAssumption`, for any number of processes and goroutines, and shutdowns that wait for nobody:

| theorem | statement |
|---|---|
| `Consistent` | `Spec => []Inv` |
| `SingleWriter`, `NothingLost` | `[]RivalHasClosed`, `MemoryIsSaved` |
| `StoreRefinement` | `Spec => ImplementsStore`, the refinement of `AtomicStore` |

The invariant says who may be in a transaction: the holder of the mutex of its process, and that the
process which is up holds the lock (`Locked`, `Silent`). So two transactions at once are of two processes, at most
one of which is up. That memory and disk agree is not an invariant, since a closed process may
rename; it is a matter of steps: all but that one keep what the serving process would restore in agreement with the file, but
for the distrusted inventory (`SavedStep`), because a call changes `Kept` and the file at its `Rename` only (`CallKept`).

A `Rename` is the moment at which a call takes effect; a crash before it is a crash before the call. Of a
process that is up it is a `Write` of `AtomicStore`, which supersedes whatever was left behind its back; of a
closed one a `LateWrite`. `GivenUp` says what the next process finds: what is served, or what was written behind its
back. `Untrusted` is idempotent, which is why any number of restarts loses no more than the first.

`DurableProofs`: `DurableConsistent` (`DurableSpec => []DurableInv`) and `DurableTypes`, and that the properties of
`ControlPlane` above, all but `FrozenOncePast`, hold of `Durable` too, which does not implement it (a
restart is no step of `ControlPlane`): `DurableExclusive`, `DurableCommands`, `DurableInventory`, `DurableSteps`, `DurablePool`. A step of
`Committed` is a step of `Next`; the other two leave the tables of jobs and commands and all GPU views
alone (`TablesKept`), so nothing they are about can break. `DispatchProven` is `DispatchOnProof`; it needs that only
servers proven since the start have a trusted inventory (`Trusted`), and that every path to a dispatch or
a START asks for one (`DispatchTrusted`).

### Enrollment

`EnrollmentProofs`, from `EnrollmentAssumption`: `Consistent` (`Spec => []Inv`), `OneOwner` (`[]SameOwner`),
`BoundAccepted` (`[]BoundIsAccepted`) and `SameIdentity` (a machine keeps the server it first became). Neither
property is inductive: a registration is bound in one step and entered in another, and in between
other registrations, of the same machine too, may be. `Owned` says what PostgreSQL knows of every
identity given out so far, in requests and on disks, and that ownership is one to one; `Copied` that the
runtime store knows nothing else. Then a bound registration and the index of machines must name the same server.

### Planning

`PlannerProofs`, from the assumptions in `PolicyOrder` and `Planner`:

| theorem | statement |
|---|---|
| `StrictTotalOrder` | `Before` is irreflexive, transitive and total on jobs with different identifiers |
| `FragmentationPrefers` | the score of `fragmentation-aware` prefers a host in use to an empty one, then one it fills, whatever the numbers of GPUs |
| `PassConsistent` | `Spec => []PlanInv` |
| `NeverRefused`, `LeavesOutForReason`, `FirstComeFirst` | `[]Agreed`, `[]Greedy`, `[]Fifo` |
| `NoWandering` | `Settled` |

The jobs considered so far are closed under `Ahead`, because the order is total and each turn takes
the first of the rest. Hence the bookings the planner sees at the turn of a job are those
the store sees when it checks that entry (`TurnSeesPrior`), and the store accepts what the planner
decided (`DecidedAccepted`). For `Settled`, decisions are unique (`DecidesOne`: ties are broken by
identifiers), so a pass over a table that is what its own bookings make of it (`SettledBy`) decides the
same again, job by job (`Repeats`). A pass at a later time is not covered: a week more of waiting, or
a booking that has become fixed, may change the order and with it the plan.

### Training outputs

`TrainingProofs`, for any number of uploads and passes, any window and any timeout, from
`UploadAssumption`:

| theorem | statement |
|---|---|
| `CopiesCurrent` | `Spec => []Inv`, the inductive invariant |
| `OutputsTyped`, `FallsBack` | `[]TypeOK`, `[]FailedMeansNone` |
| `HolderPublishes`, `InTimeOrNever` | `OnlyHolderPublishes`, `PublishedInTime` |
| `ArtifactKept`, `AskedInTime` | `ArtifactFinal`, `AskedWhileRunning` |

None of them is inductive: each depends on what handlers and passes hold when they write. Every
write raises the revision, so a copy is either too old to be stored (`HandlerStale`, `PassStale`) or was
taken from the state as it is. `Inv` says of the copies that can still be stored how they differ from it
(`Current`: by stage of the handler), and needs `LeaseOpen`, that an artifact lease means no
artifact yet, for the recovery. A STOP moves the deadline, but never into the past (`JobMovesInv`,
which is where `Grace` has to be positive). Each action's lemma gives `Inv'` and `Writes`, what a step does to
the stored state; the theorems are its conjuncts.

### What is only model-checked

The liveness properties `AdmittedSettles`, `OverdueStopped`, `NeverLockedOut` and `LeasesEnd`: they need fairness and
ENABLED, which are outside the prover's reach. Every other property of a passing run is proved. The three
properties of section 4's findings are violated and so have no theorem. `OneHome` is proved but checked by no
run.

## 6. Plan

Written: `Domain`, `Calendar`, `ControlPlane`, `GpuPool`, `Fleet`, `TrainingUpload`, `Snapshot` with `AtomicStore`, `Durable`,
`Enrollment`, `PolicyOrder`, `Planner`, and the proofs of section 5. What is left, in this order:

1. `InventoryCollector`: how processes and devices are attributed to containers
   (`agent/inventory.go`); today its result is any condition of a GPU.
2. Liveness of the composed system under fair agents (STOPPING leads to finished), and where the
   container left in state created stops it.
3. `TrainingUpload` on the durable store: passes that end at a failed write, and the continuation of a
   job from a checkpoint.
4. `Planner` with a clock that moves between passes: which changes of plan the passing of time causes.

## 7. Not modelled

* HTTP routing, decoding and encoding, sessions, passwords and users: each handler that changes the
  modelled state calls one operation of the application. Of the HTTP layer only the scope of manual
  runs and the authentication of agents matter to the models.
* Validation of requests, the questionnaire behind the levels of necessity, texts of reasons, the
  preview of an allocation, list and detail views: no state.
* The capability catalog (static data), the object-store client and configuration (input and output).
* The simulator and the scheduler benchmark (test equipment), the console (a stateless client),
  deployment scripts.
* PostgreSQL, NVML, Docker and the network are external: a transaction commits or does not, a report
  may say what a report can say, a call may fail or be lost.
* Power failures of the control plane's host, and clocks that disagree.
