----------------------------- MODULE FleetProofs -----------------------------
(***************************************************************************)
(* What holds of the control plane with its real agents, for any number of *)
(* jobs, machines, GPUs and ticks, however the agents die and whatever the *)
(* network does to their messages.                                         *)
(*                                                                         *)
(* The inductive invariant speaks of four sets that the steps of an agent  *)
(* mostly shrink: the commands it has taken and not yet put away (Held),   *)
(* the jobs it is launching (Launching), the containers its reports show   *)
(* (Sighted), and the commands of which someone says, or will say, that    *)
(* they succeeded (Claimed).  Most steps keep each of the sets, so they    *)
(* keep the invariant; the rest of the argument is about the few steps     *)
(* that add to one of them.  That every step is one of module ControlPlane *)
(* follows, and with it all that is proved there.                          *)
(***************************************************************************)
EXTENDS Fleet, StoreProofs

------------------------------------------------------------------------------
(* The invariant.                                                            *)

(* A poll has returned this command at least once.                           *)
HandedOut(c) == commands[c].status \in {"DELIVERED", "SUCCEEDED", "FAILED"}

StopHanded(j) == \E n \in 1..MaxStops : HandedOut(StopOf(j, n))

(* The commands an agent has taken, the jobs it is launching, and the commands
   it says, or will say, succeeded.                                          *)
Held(agent) ==
  {c \in Command : c \in agent.batch \/ (agent.doing.stage # "IDLE" /\ agent.doing.cmd = c)}
Launching(agent) ==
  {j \in Job : agent.doing.stage \in {"CREATED", "RESTART"} /\ agent.doing.cmd = StartOf(j)}
Claims(agent) ==
  {c \in Command : \/ agent.known[c] = "OK"
                   \/ /\ agent.doing.cmd = c /\ agent.doing.ok
                      /\ agent.doing.stage \in {"DONE", "ACK"}}

(* The containers that reports of s under way or to be made show.            *)
Sighted(s) ==
  {j \in Job : \/ agents[s].scan.containers[j] # "none"
               \/ \E m \in lateReports : m[1] = s /\ m[2].containers[j] # "none"}

(* The commands that succeeded, as far as anyone says.                       *)
Claimed ==
  {c \in Command : \/ commands[c].status = "SUCCEEDED"
                   \/ <<c, TRUE>> \in lateAcks
                   \/ \E s \in Server : c \in Claims(agents[s])}

(* What success of a command says of the container.                          *)
Fulfilled(c) ==
  IF c \in Starts THEN docker[JobOf(c)] \in {"active", "exited0", "exited1"}
  ELSE docker[JobOf(c)] # "active"

(* What an agent may take for granted of a command it has taken.             *)
Assigned(s, c) ==
  /\ HandedOut(c)
  /\ jobs[JobOf(c)].server = s
  /\ c \in Starts => Launched(s, JobOf(c)) /\ ~StopHanded(JobOf(c))

FleetReport == [seq : 1..MaxSeq, observedAt : 1..now, mode : Modes,
                containers : [Job -> ContainerState], gpus : {[g \in GPU |-> "OK"]}]

(* FleetTypeOK, with the states an agent can really be in.                   *)
AgentOK(agent) ==
  /\ agent \in Agent
  /\ agent.phase = "DOWN" => agent.batch = {} /\ agent.doing = Resting /\ agent.scan = NoScan
  /\ agent.phase \notin {"DOWN", "NEW"} => agent.enrolled
  /\ IF agent.doing.stage = "IDLE" THEN agent.doing = Resting ELSE agent.doing.cmd \in Command
  /\ agent.doing.stage \in {"CREATED", "RESTART"} => agent.doing.cmd \in Starts
  /\ agent.scan.stage # "IDLE" =>
       agent.enrolled /\ agent.seq \in 1..MaxSeq /\ agent.scan.mode \in Modes
  /\ agent.scan.stage = "SENT" => agent.scan.observedAt \in 1..now

Clock == now \in 1..MaxTime \/ now = 1

Shape ==
  /\ agents \in [Server -> Agent] /\ \A s \in Server : AgentOK(agents[s])
  /\ docker \in [Job -> ContainerState]
  /\ lateReports \subseteq Server \X FleetReport
  /\ lateAcks \subseteq Command \X BOOLEAN

HeldOK == \A s \in Server : \A c \in Held(agents[s]) : Assigned(s, c)

(* A container to be launched is created, and the GPUs of its job are free.  *)
LaunchOK ==
  \A s \in Server : \A j \in Launching(agents[s]) : docker[j] = "created" /\ GPUsAvailable(s, j)

(* Containers exist, and are reported, only where a START brought them.      *)
DockerOK == \A j \in Job : docker[j] # "none" => Launched(jobs[j].server, j)
SightOK == \A s \in Server : \A j \in Sighted(s) : Launched(s, j)

ClaimOK == \A c \in Claimed : HandedOut(c) /\ Fulfilled(c)

FleetInv ==
  /\ Inv /\ Ordered
  /\ Clock /\ Shape
  /\ HeldOK /\ LaunchOK /\ DockerOK /\ SightOK /\ ClaimOK /\ NoSharedGPU

------------------------------------------------------------------------------
(* What the steps of the control plane do to commands and launched jobs.     *)

LEMMA CommandParts ==
  ASSUME NEW c \in Command
  PROVE  /\ JobOf(c) \in Job
         /\ c \in Starts => c = StartOf(JobOf(c)) /\ c \notin Stops
         /\ c \notin Starts => c \in Stops /\ \E n \in 1..MaxStops : c = StopOf(JobOf(c), n)
BY DEF Command, Starts, Stops, JobOf, StartOf, StopOf

LEMMA CommandOf ==
  ASSUME NEW j \in Job
  PROVE  /\ StartOf(j) \in Command /\ StartOf(j) \in Starts /\ JobOf(StartOf(j)) = j
         /\ \A n \in 1..MaxStops : /\ StopOf(j, n) \in Command /\ StopOf(j, n) \in Stops
                                   /\ StopOf(j, n) \notin Starts /\ JobOf(StopOf(j, n)) = j
BY DEF Command, Starts, Stops, JobOf, StartOf, StopOf

(* The first time a STOP is handed out, or a success is acknowledged.        *)
NewStop == \E c \in Stops : HandedOut(c)' /\ ~HandedOut(c)
NewSuccess(c) == commands'[c].status = "SUCCEEDED" /\ commands[c].status # "SUCCEEDED"

(* What becomes of a command in one step of the control plane: it is issued,
   cancelled before it was handed out, handed out, or acknowledged.          *)
LEMMA StopRequested ==
  ASSUME Inv, Ordered, NEW j \in Job, RequestStop(j), NEW c \in Command
  PROVE  /\ HandedOut(c) => commands'[c] = commands[c]
         /\ ~NewSuccess(c)
         /\ c \in Stops => (HandedOut(c)' => HandedOut(c))
<1>0. commands \in [Command -> CommandRecord] /\ commands[c] \in CommandRecord
  BY DEF Inv, TypeOK
<1>1. CASE CancelQueued(j) \/ NothingToStop(j)
  BY <1>1 DEF CancelQueued, NothingToStop, NewSuccess, HandedOut
<1>2. CASE CancelUndelivered(j)
  <2>1. \/ commands' = commands
        \/ /\ commands[StartOf(j)].status = "PENDING"
           /\ commands' = [commands EXCEPT ![StartOf(j)] = [@ EXCEPT !.status = "FAILED", !.done = now]]
    BY <1>2 DEF CancelUndelivered
  <2> QED
    BY <1>0, <2>1, CommandOf DEF HandedOut, NewSuccess, CommandRecord, Starts, Stops
<1>3. CASE StopDelivered(j)
  <2>1. PICK n \in 1..MaxStops :
          /\ \A m \in 1..MaxStops : commands[StopOf(j, m)].status = "NONE" <=> m >= n
          /\ commands' = [commands EXCEPT ![StopOf(j, n)].status = "PENDING"]
    BY <1>3 DEF StopDelivered
  <2>2. commands[StopOf(j, n)].status = "NONE"
    BY <2>1, ControlPlaneAssumption
  <2> QED
    BY <1>0, <2>1, <2>2, CommandOf DEF HandedOut, NewSuccess, CommandRecord
<1> QED
  BY <1>1, <1>2, <1>3 DEF RequestStop

LEMMA Committed ==
  ASSUME Inv, Ordered, NEW j \in Job, NEW snap, CommitAssignment(j, snap), NEW c \in Command
  PROVE  /\ HandedOut(c) => commands'[c] = commands[c]
         /\ ~NewSuccess(c)
         /\ c \in Stops => (HandedOut(c)' => HandedOut(c))
<1>0. commands \in [Command -> CommandRecord] /\ commands[c] \in CommandRecord
  BY DEF Inv, TypeOK
<1>1. commands[StartOf(j)].status = "NONE"
  BY DEF CommitAssignment, CommitAllowed, Ordered, Issued
<1>2. commands' = [commands EXCEPT ![StartOf(j)].status = "PENDING"]
  BY DEF CommitAssignment
<1> QED
  BY <1>0, <1>1, <1>2, CommandOf DEF HandedOut, NewSuccess, CommandRecord, Starts, Stops

(* Steps of users and controllers, and of agents that only report.           *)
Routine ==
  \/ Tick \/ ControllerStep \/ \E j \in Job : CreateJob(j) \/ StopJob(j)
  \/ \E s \in Server : \/ \E mode \in Modes : Register(s, mode)
                       \/ Heartbeat(s)
                       \/ \E rep \in Reports(s) : ReplaceInventory(s, rep)
  \/ UNCHANGED vars

LEMMA RoutineCommands ==
  ASSUME Inv, Ordered, Routine, NEW c \in Command
  PROVE  /\ HandedOut(c) => commands'[c] = commands[c]
         /\ ~NewSuccess(c)
         /\ c \in Stops => (HandedOut(c)' => HandedOut(c))
<1>1. CASE UNCHANGED commands
  BY <1>1 DEF HandedOut, NewSuccess
<1>2. CASE \E j \in Job : StopJob(j)
  BY <1>2, StopRequested DEF StopJob
<1>3. ASSUME NEW t \in Ticker, NEW j \in Job, HandleJob(t, j)
      PROVE  \/ RequestStop(j) \/ CommitAssignment(j, sweep[t][j]) \/ UNCHANGED commands
  BY <1>3 DEF HandleJob, ExpireQueued, KeepWaiting
<1>4. CASE ControllerStep
  BY <1>1, <1>3, <1>4, StopRequested, Committed DEF ControllerStep, MarkStaleServers, Replan, ListJobs
<1> QED
  BY <1>1, <1>2, <1>4 DEF Routine, Tick, CreateJob, Register, Heartbeat, ReplaceInventory, vars

LEMMA RoutineNext == Routine => [Next]_vars
BY DEF Routine, Next, AgentStep, UserStep

LEMMA LeaseHands ==
  ASSUME Inv, NEW s \in Server, LeaseCommands(s), NEW c \in Command
  PROVE  /\ Leasable(s, c) => HandedOut(c)'
         /\ ~Leasable(s, c) => commands'[c] = commands[c]
         /\ ~NewSuccess(c)
         /\ HandedOut(c) => HandedOut(c)'
<1>1. commands[c] \in CommandRecord
  BY DEF Inv, TypeOK
<1> QED
  BY <1>1 DEF LeaseCommands, HandedOut, NewSuccess, CommandRecord

LEMMA AckSettles ==
  ASSUME Inv, NEW d \in Command, NEW ok \in BOOLEAN, AckCommand(d, ok), NEW c \in Command
  PROVE  /\ HandedOut(c) <=> HandedOut(c)'
         /\ NewSuccess(c) => c = d /\ ok
<1>1. commands \in [Command -> CommandRecord]
  BY DEF Inv, TypeOK
<1> QED
  BY <1>1 DEF AckCommand, Acked, HandedOut, NewSuccess

(* A command that was handed out stays so, and a job that may have been
   launched stays so and where it is.                                        *)
LEMMA HandedKept ==
  ASSUME Inv, Ordered, [Next]_vars, NEW c \in Command, HandedOut(c)
  PROVE  HandedOut(c)'
<1>1. CASE Routine
  BY <1>1, RoutineCommands DEF HandedOut
<1>2. CASE \E s \in Server : LeaseCommands(s)
  BY <1>2, LeaseHands
<1>3. CASE \E d \in Command, ok \in BOOLEAN : AckCommand(d, ok)
  BY <1>3, AckSettles
<1>4. CASE \E s \in Server, drained \in BOOLEAN : SetServerDrained(s, drained)
  BY <1>4 DEF SetServerDrained, HandedOut
<1> QED
  BY <1>1, <1>2, <1>3, <1>4 DEF Next, AgentStep, UserStep, Routine

(* A job whose START was handed out is cancelled by no step.                 *)
LEMMA StopSpares ==
  ASSUME Inv, Ordered, NEW k \in Job, RequestStop(k), NEW j \in Job, HandedOut(StartOf(j)),
         jobs[j].status # "CANCELLED"
  PROVE  jobs'[j].status # "CANCELLED"
<1>0. jobs \in [Job -> JobRecord] /\ ShapedJob(jobs[k])
  BY DEF Inv, TypeOK, Shaped
<1>1. jobs[j].dispatched /\ commands[StartOf(j)].status # "PENDING"
  BY DEF Ordered, Issued, HandedOut
<1>2. CASE CancelQueued(k)
  <2>1. ~jobs[k].dispatched
    BY <1>0, <1>2 DEF CancelQueued, ShapedJob
  <2> QED
    BY <1>0, <1>1, <1>2, <2>1 DEF CancelQueued
<1>3. CASE CancelUndelivered(k)
  <2>1. k # j
    BY <1>1, <1>3 DEF CancelUndelivered
  <2> QED
    BY <1>0, <1>3, <2>1 DEF CancelUndelivered
<1>4. CASE StopDelivered(k) \/ NothingToStop(k)
  BY <1>0, <1>4 DEF StopDelivered, NothingToStop, JobRecord
<1> QED
  BY <1>2, <1>3, <1>4 DEF RequestStop

LEMMA ReportSpares ==
  ASSUME Inv, NEW s \in Server, NEW rep, ReplaceInventory(s, rep), NEW j \in Job,
         jobs[j].status # "CANCELLED"
  PROVE  jobs'[j].status # "CANCELLED"
<1>1. jobs[j] \in JobRecord /\ jobs'[j] \in {jobs[j], Reconciled(s, j, rep)}
  BY DEF Inv, TypeOK, ReplaceInventory
<1>2. Reconciled(s, j, rep).status # "CANCELLED"
  <2>1. CASE Reconciled(s, j, rep) = Exited(jobs[j], rep.containers[j])
    BY <1>1, <2>1 DEF Exited, Released, JobRecord
  <2>2. CASE Reconciled(s, j, rep) = Missing(jobs[j])
    BY <1>1, <2>2 DEF Missing, Transition, Released, JobRecord, Terminal
  <2>3. CASE Reconciled(s, j, rep) =
               [jobs[j] EXCEPT !.resv = "ALLOCATED",
                               !.status = IF @ \in {"ASSIGNED", "STARTING"} THEN "RUNNING" ELSE @]
    BY <1>1, <2>3 DEF JobRecord
  <2> QED
    BY <2>1, <2>2, <2>3 DEF Reconciled
<1> QED
  BY <1>1, <1>2

LEMMA AckSpares ==
  ASSUME Inv, NEW c \in Command, NEW ok \in BOOLEAN, AckCommand(c, ok), NEW j \in Job,
         jobs[j].status # "CANCELLED"
  PROVE  jobs'[j].status # "CANCELLED"
<1>1. jobs \in [Job -> JobRecord] /\ JobOf(c) \in Job
  BY CommandParts DEF Inv, TypeOK
<1>2. \/ jobs' = jobs
      \/ \E status \in {"STARTING", "RUNNING", jobs[JobOf(c)].status} :
           jobs' = [jobs EXCEPT ![JobOf(c)] = [jobs[JobOf(c)] EXCEPT !.status = status]]
      \/ jobs' = [jobs EXCEPT ![JobOf(c)] =
           Released([jobs[JobOf(c)] EXCEPT !.status = "FAILED", !.why = "EXECUTION_ERROR"])]
  BY <1>1 DEF AckCommand, AckStart, AckStop
<1> QED
  BY <1>1, <1>2 DEF Released, JobRecord

LEMMA HandleSpares ==
  ASSUME Inv, Ordered, NEW t \in Ticker, NEW k \in Job, HandleJob(t, k), NEW j \in Job,
         HandedOut(StartOf(j)), jobs[j].status # "CANCELLED"
  PROVE  jobs'[j].status # "CANCELLED"
<1>0. jobs \in [Job -> JobRecord]
  BY DEF Inv, TypeOK
<1>1. CASE RequestStop(k)
  BY <1>1, StopSpares
<1>2. CASE ExpireQueued(k)
  BY <1>0, <1>2 DEF ExpireQueued, Released, Transition, JobRecord, Terminal
<1>3. CASE CommitAssignment(k, sweep[t][k])
  BY <1>0, <1>3 DEF CommitAssignment, JobRecord
<1>4. CASE KeepWaiting(k, sweep[t][k])
  BY <1>0, <1>4 DEF KeepWaiting, NoteWaiting, Transition, JobRecord
<1> QED
  BY <1>1, <1>2, <1>3, <1>4 DEF HandleJob

LEMMA NextSpares ==
  ASSUME Inv, Ordered, [Next]_vars, NEW j \in Job, HandedOut(StartOf(j)),
         jobs[j].status # "CANCELLED"
  PROVE  jobs'[j].status # "CANCELLED"
<1>0. jobs \in [Job -> JobRecord] /\ jobs[j].dispatched /\ ShapedJob(jobs[j])
  BY DEF Inv, TypeOK, Shaped, Ordered, Issued, HandedOut
<1>1. CASE UNCHANGED jobs
  BY <1>1
<1>2. CASE AgentStep
  BY <1>1, <1>2, ReportSpares, AckSpares DEF AgentStep, Register, Heartbeat, LeaseCommands
<1>3. CASE UserStep
  <2>1. ASSUME NEW k \in Job, CreateJob(k) PROVE jobs'[j].status # "CANCELLED"
    BY <1>0, <2>1 DEF CreateJob, JobRecord
  <2> QED
    BY <1>1, <1>3, <2>1, StopSpares DEF UserStep, StopJob, SetServerDrained
<1>4. ASSUME NEW at, Replan(at) PROVE jobs'[j].status # "CANCELLED"
  <2>1. ~Replannable(jobs[j], j, at)
    BY <1>0, DomainAssumption DEF Replannable, ShapedJob
  <2> QED
    BY <1>4, <2>1, SomePlanned DEF Replanned, Book
<1>5. CASE ControllerStep
  BY <1>1, <1>4, <1>5, HandleSpares DEF ControllerStep, MarkStaleServers, ListJobs
<1> QED
  BY <1>1, <1>2, <1>3, <1>5 DEF Next, Tick, vars

LEMMA LaunchedKept ==
  ASSUME Inv, Inv', Ordered, [Next]_vars, NEW s \in Server, NEW j \in Job, Launched(s, j)
  PROVE  Launched(s, j)' /\ jobs'[j].gpus = jobs[j].gpus
<1>1. HandedOut(StartOf(j)) /\ jobs[j].dispatched
  BY DEF Launched, HandedOut, Ordered, Issued
<1>2. HandedOut(StartOf(j))'
  BY <1>1, HandedKept, CommandOf
<1>3. jobs'[j].server = jobs[j].server /\ jobs'[j].gpus = jobs[j].gpus
  BY <1>1, DispatchedNext
<1>4. jobs'[j].status # "CANCELLED"
  BY <1>1, NextSpares DEF Launched
<1> QED
  BY <1>2, <1>3, <1>4 DEF Launched, HandedOut, StartOf

------------------------------------------------------------------------------
(* Each part of the invariant in a step that adds to none of the sets, or in
   which what it adds is as the invariant says.                              *)

(* What an agent may take for granted stays so: a STOP of the job reaches
   only the agent that has its START, and not before it put that away.       *)
LEMMA AssignedKept ==
  ASSUME FleetInv, Inv', [Next]_vars, NEW s \in Server, NEW c \in Command, Assigned(s, c),
         c \in Starts => ~StopHanded(JobOf(c))'
  PROVE  Assigned(s, c)'
<1>1. HandedOut(c)'
  BY HandedKept DEF FleetInv, Assigned
<1>2. jobs[JobOf(c)].dispatched
  <2>1. CASE c \in Starts
    BY <2>1, CommandParts DEF Assigned, HandedOut, FleetInv, Ordered, Issued
  <2>2. CASE c \notin Starts
    <3>1. PICK n \in 1..MaxStops : c = StopOf(JobOf(c), n)
      BY <2>2, CommandParts
    <3>2. StopStatus(JobOf(c), n) # "NONE"
      BY <3>1 DEF Assigned, HandedOut, StopStatus
    <3>3. StartStatus(JobOf(c)) # "NONE"
      BY <3>2, CommandParts DEF FleetInv, Ordered, Orders
    <3> QED
      BY <3>3, CommandParts DEF FleetInv, Ordered, Issued, StartStatus
  <2> QED
    BY <2>1, <2>2
<1>3. jobs'[JobOf(c)].server = s
  BY <1>2, CommandParts, DispatchedNext DEF FleetInv, Assigned
<1>4. c \in Starts => Launched(s, JobOf(c))'
  BY CommandParts, LaunchedKept DEF FleetInv, Assigned
<1> QED
  BY <1>1, <1>3, <1>4 DEF Assigned, JobOf

LEMMA KeepHeld ==
  ASSUME FleetInv, Inv', [Next]_vars, ~NewStop,
         \A s \in Server : Held(agents'[s]) \subseteq Held(agents[s])
  PROVE  HeldOK'
<1> SUFFICES ASSUME NEW s \in Server, NEW c \in Command, c \in Held(agents'[s])
             PROVE  Assigned(s, c)'
  BY DEF HeldOK, Held
<1>1. Assigned(s, c)
  BY DEF FleetInv, HeldOK
<1>2. c \in Starts => ~StopHanded(JobOf(c))'
  BY <1>1, CommandParts, CommandOf DEF Assigned, StopHanded, NewStop, StopOf
<1> QED
  BY <1>1, <1>2, AssignedKept

LEMMA KeepDocker ==
  ASSUME FleetInv, Inv', [Next]_vars, \A j \in Job : docker'[j] # "none" => docker[j] # "none"
  PROVE  DockerOK'
<1> SUFFICES ASSUME NEW j \in Job, docker[j] # "none"
             PROVE  Launched(jobs[j].server, j)'
  BY DEF DockerOK, Launched, StartOf
<1>1. Launched(jobs[j].server, j) /\ jobs[j].dispatched
  BY DEF FleetInv, DockerOK, Launched, Ordered, Issued
<1>2. PICK s \in Server : s = jobs[j].server
  BY <1>1 DEF FleetInv, Inv, Shaped, ShapedJob, TypeOK, JobRecord
<1>3. Launched(s, j)
  BY <1>1, <1>2
<1>4. Launched(s, j)'
  BY <1>3, LaunchedKept DEF FleetInv
<1> QED
  BY <1>4 DEF Launched, StartOf

LEMMA KeepSight ==
  ASSUME FleetInv, Inv', [Next]_vars,
         \A s \in Server : \A j \in Sighted(s)' : j \in Sighted(s) \/ Launched(s, j)
  PROVE  SightOK'
BY LaunchedKept DEF FleetInv, SightOK, Sighted

LEMMA KeepClaims ==
  ASSUME FleetInv, [Next]_vars,
         \A c \in Claimed' : \/ c \in Claimed /\ (Fulfilled(c) => Fulfilled(c)')
                             \/ HandedOut(c) /\ Fulfilled(c)'
  PROVE  ClaimOK'
BY HandedKept DEF FleetInv, ClaimOK, Claimed

(* Only a launch makes a container active.                                   *)
NothingLaunched == \A j \in Job : docker'[j] = "active" => docker[j] = "active"

LEMMA ActiveStays ==
  ASSUME FleetInv, Inv', [Next]_vars, NEW j \in Job, docker[j] # "none"
  PROVE  jobs'[j].server = jobs[j].server /\ jobs'[j].gpus = jobs[j].gpus
<1>1. jobs[j].dispatched
  BY DEF FleetInv, DockerOK, Launched, Ordered, Issued
<1> QED
  BY <1>1, DispatchedNext DEF FleetInv

LEMMA KeepApart ==
  ASSUME FleetInv, Inv', [Next]_vars, NothingLaunched
  PROVE  NoSharedGPU'
BY ActiveStays DEF FleetInv, NoSharedGPU, NothingLaunched

LEMMA KeepFree ==
  ASSUME FleetInv, Inv', [Next]_vars, NothingLaunched,
         NEW s \in Server, NEW j \in Job, Launched(s, j), GPUsAvailable(s, j)
  PROVE  GPUsAvailable(s, j)'
BY ActiveStays, LaunchedKept DEF FleetInv, GPUsAvailable, NothingLaunched

LEMMA KeepLaunch ==
  ASSUME FleetInv, Inv', [Next]_vars, NothingLaunched,
         \A s \in Server : \A j \in Launching(agents'[s]) :
            /\ docker'[j] = "created" /\ StartOf(j) \in Held(agents[s])
            /\ j \in Launching(agents[s]) \/ GPUsAvailable(s, j)
  PROVE  LaunchOK'
<1> SUFFICES ASSUME NEW s \in Server, NEW j \in Launching(agents'[s])
             PROVE  docker'[j] = "created" /\ GPUsAvailable(s, j)'
  BY DEF LaunchOK, Launching, StartOf
<1>1. j \in Job /\ Launched(s, j)
  BY CommandOf DEF Launching, FleetInv, HeldOK, Assigned
<1>2. GPUsAvailable(s, j)
  BY DEF FleetInv, LaunchOK
<1> QED
  BY <1>1, <1>2, KeepFree

------------------------------------------------------------------------------
(* Steps of one agent that leave the containers alone.                       *)

LEMMA ClockNext ==
  ASSUME Clock, [Next]_vars
  PROVE  Clock' /\ now \in Nat \ {0} /\ now' \in Nat \ {0} /\ now <= now'
<1>1. MaxTime \in Nat
  BY ControlPlaneAssumption
<1>2. now' = now \/ (now < MaxTime /\ now' = now + 1)
  BY DEF Next, Tick, AgentStep, UserStep, ControllerStep, Register, Heartbeat, ReplaceInventory,
         LeaseCommands, AckCommand, CreateJob, StopJob, SetServerDrained, MarkStaleServers, Replan,
         ListJobs, HandleJob, vars
<1> QED
  BY <1>1, <1>2 DEF Clock

LEMMA ReportsAge ==
  ASSUME Clock, [Next]_vars
  PROVE  /\ Server \X FleetReport \subseteq Server \X FleetReport'
         /\ \A agent : AgentOK(agent) => AgentOK(agent)'
<1>1. 1..now \subseteq 1..now'
  BY ClockNext
<1> QED
  BY <1>1 DEF FleetReport, AgentOK

LEMMA KeepShape ==
  ASSUME FleetInv, [Next]_vars, docker' \in [Job -> ContainerState],
         NEW s \in Server, NEW a, agents' = [agents EXCEPT ![s] = a], AgentOK(a),
         lateReports' \subseteq Server \X FleetReport, lateAcks' \subseteq Command \X BOOLEAN
  PROVE  Shape'
<1>1. /\ agents' \in [Server -> Agent]
      /\ \A r \in Server : AgentOK(agents'[r])
  BY DEF FleetInv, Shape, AgentOK
<1>2. \A r \in Server : AgentOK(agents[r])'
  BY <1>1, ReportsAge DEF FleetInv, AgentOK
<1>3. lateReports' \subseteq Server \X FleetReport'
  BY ReportsAge DEF FleetInv
<1> QED
  BY <1>1, <1>2, <1>3 DEF Shape

LEMMA NextStrong ==
  ASSUME FleetInv, [Next]_vars
  PROVE  Inv' /\ Ordered' /\ Clock'
BY NextInv, OrderedNext, ClockNext DEF FleetInv, Ordered

(* One step of agent s beside a step of the control plane that hands out no
   STOP: it takes no command, may begin to launch a container that is created,
   and may say of a command it has taken that it succeeded.                  *)
LEMMA AgentQuiet ==
  ASSUME FleetInv, [Next]_vars, ~NewStop, docker' = docker,
         NEW s \in Server, NEW a, agents' = [agents EXCEPT ![s] = a], AgentOK(a),
         Held(a) \subseteq Held(agents[s]),
         \A j \in Launching(a) : \/ j \in Launching(agents[s])
                                 \/ docker[j] = "created" /\ GPUsAvailable(s, j),
         \A j \in Job : a.scan.containers[j] # "none" => j \in Sighted(s) \/ Launched(s, j),
         \A c \in Claims(a) : c \in Claims(agents[s]) \/ (HandedOut(c) /\ Fulfilled(c)),
         /\ lateReports' \subseteq Server \X FleetReport
         /\ \A m \in lateReports' : m \in lateReports \/ (m[1] = s /\ m[2] = ReportOf(s)),
         /\ lateAcks' \subseteq Command \X BOOLEAN
         /\ \A c \in Command : <<c, TRUE>> \in lateAcks' => c \in Claimed,
         \A c \in Command : NewSuccess(c) => c \in Claimed
  PROVE  FleetInv'
<1>1. Inv' /\ Ordered' /\ Clock'
  BY NextStrong
<1>2. Shape'
  BY KeepShape DEF FleetInv, Shape
<1>3. agents'[s] = a /\ \A r \in Server \ {s} : agents'[r] = agents[r]
  BY DEF FleetInv, Shape
<1>4. HeldOK'
  BY <1>1, <1>3, KeepHeld
<1>5. LaunchOK'
  <2>1. \A r \in Server : \A j \in Launching(agents'[r]) : StartOf(j) \in Held(a) \cup Held(agents[r])
    BY <1>3, CommandOf DEF Launching, Held
  <2> QED
    BY <1>1, <1>3, <2>1, KeepLaunch DEF FleetInv, LaunchOK, NothingLaunched, Launching, Held
<1>6. DockerOK'
  BY <1>1, KeepDocker
<1>7. SightOK'
  <2>1. ASSUME NEW r \in Server, NEW j \in Job, j \in Sighted(r)'
        PROVE  j \in Sighted(r) \/ Launched(r, j)
    BY <1>3, <2>1 DEF Sighted, ReportOf
  <2> QED
    BY <1>1, <2>1, KeepSight DEF Sighted
<1>8. ClaimOK'
  <2>1. ASSUME NEW c \in Claimed' PROVE c \in Claimed \/ (HandedOut(c) /\ Fulfilled(c))
    <3>1. CASE commands'[c].status = "SUCCEEDED" \/ <<c, TRUE>> \in lateAcks'
      BY <2>1, <3>1 DEF Claimed, NewSuccess
    <3>2. ASSUME NEW r \in Server, c \in Claims(agents'[r])
          PROVE  c \in Claimed \/ (HandedOut(c) /\ Fulfilled(c))
      BY <1>3, <3>2 DEF Claimed, Claims
    <3> QED
      BY <2>1, <3>1, <3>2 DEF Claimed, Claims
  <2> QED
    BY <2>1, KeepClaims DEF Fulfilled, JobOf
<1>9. NoSharedGPU'
  BY <1>1, KeepApart DEF NothingLaunched
<1> QED
  BY <1>1, <1>2, <1>4, <1>5, <1>6, <1>7, <1>8, <1>9 DEF FleetInv

(* The same for a step after which no more messages are under way.           *)
LEMMA AgentSilent ==
  ASSUME FleetInv, [Next]_vars, ~NewStop, docker' = docker,
         NEW s \in Server, NEW a, agents' = [agents EXCEPT ![s] = a], AgentOK(a),
         Held(a) \subseteq Held(agents[s]),
         \A j \in Launching(a) : \/ j \in Launching(agents[s])
                                 \/ docker[j] = "created" /\ GPUsAvailable(s, j),
         \A j \in Job : a.scan.containers[j] # "none" => j \in Sighted(s) \/ Launched(s, j),
         \A c \in Claims(a) : c \in Claims(agents[s]) \/ (HandedOut(c) /\ Fulfilled(c)),
         lateReports' \subseteq lateReports, lateAcks' \subseteq lateAcks,
         \A c \in Command : NewSuccess(c) => c \in Claimed
  PROVE  FleetInv'
<1>1. /\ lateReports' \subseteq Server \X FleetReport
      /\ \A m \in lateReports' : m \in lateReports
      /\ lateAcks' \subseteq Command \X BOOLEAN
      /\ \A c \in Command : <<c, TRUE>> \in lateAcks' => c \in Claimed
  BY DEF FleetInv, Shape, Claimed
<1> QED
  BY <1>1, AgentQuiet

(* The control plane's part of such a step.                                  *)
LEMMA RoutineKeeps ==
  ASSUME FleetInv, Routine
  PROVE  [Next]_vars /\ ~NewStop /\ \A c \in Command : ~NewSuccess(c)
<1>1. \A c \in Command : ~NewSuccess(c) /\ (c \in Stops => (HandedOut(c)' => HandedOut(c)))
  BY RoutineCommands DEF FleetInv
<1>2. Stops \subseteq Command
  BY DEF Command
<1> QED
  BY <1>1, <1>2, RoutineNext DEF NewStop

LEMMA ArrivesKeeps ==
  ASSUME FleetInv, NEW d \in Command, NEW ok \in BOOLEAN, Arrives(d, ok)
  PROVE  [Next]_vars /\ ~NewStop /\ \A c \in Command : NewSuccess(c) => c = d /\ ok
<1>1. CASE UNCHANGED vars
  BY <1>1, RoutineKeeps DEF Routine
<1>2. CASE AckCommand(d, ok)
  <2>1. [Next]_vars
    BY <1>2 DEF Next, AgentStep
  <2>2. \A c \in Command : (HandedOut(c) <=> HandedOut(c)') /\ (NewSuccess(c) => c = d /\ ok)
    BY <1>2, AckSettles DEF FleetInv
  <2> QED
    BY <2>1, <2>2 DEF NewStop, Command
<1> QED
  BY <1>1, <1>2 DEF Arrives

LEMMA ReportAllowed ==
  ASSUME FleetInv, NEW s \in Server, NEW rep \in FleetReport,
         \A j \in Job : rep.containers[j] # "none" => j \in Sighted(s)
  PROVE  rep \in Reports(s)
<1>1. \A j \in Job : rep.containers[j] # "none" => Launched(s, j)
  BY DEF FleetInv, SightOK
<1>2. now <= rep.observedAt + ReportDelay /\ rep.observedAt \in 0..now
  BY ReportAssumption, ControlPlaneAssumption DEF FleetInv, Clock, FleetReport
<1>3. rep.gpus \in [GPU -> Conditions]
  BY ReportAssumption DEF FleetReport
<1> QED
  BY <1>1, <1>2, <1>3 DEF Reports, FleetReport

LEMMA SentReport ==
  ASSUME FleetInv, NEW s \in Server, agents[s].scan.stage = "SENT"
  PROVE  /\ ReportOf(s) \in FleetReport
         /\ \A j \in Job : ReportOf(s).containers[j] # "none" => j \in Sighted(s)
BY DEF FleetInv, Shape, AgentOK, Agent, Scan, ReportOf, FleetReport, Sighted

LEMMA AgentIsOK ==
  ASSUME FleetInv, NEW s \in Server
  PROVE  agents[s] \in Agent /\ AgentOK(agents[s])
BY DEF FleetInv, Shape

LEMMA AtRest == Resting \in Doing /\ NoScan \in Scan
BY DEF Resting, NoScan, Doing, Scan, Mode, Time, ContainerState

------------------------------------------------------------------------------
(* The process and its reports.                                              *)

LEMMA BootInv ==
  ASSUME FleetInv, NEW s \in Server, Boot(s)
  PROVE  FleetInv'
<1> DEFINE a == [agents[s] EXCEPT !.phase = IF agents[s].enrolled THEN "LOADED" ELSE "NEW"]
<1>1. agents' = [agents EXCEPT ![s] = a] /\ Routine
  BY DEF Boot, Routine
<1>2. AgentOK(a)
  BY AgentIsOK DEF AgentOK, Agent, Boot
<1>3. /\ Held(a) = Held(agents[s]) /\ Launching(a) = Launching(agents[s])
      /\ Claims(a) = Claims(agents[s])
      /\ \A j \in Job : a.scan.containers[j] # "none" => j \in Sighted(s)
  BY AgentIsOK DEF Agent, Held, Launching, Claims, Sighted
<1> HIDE DEF a
<1> QED
  BY <1>1, <1>2, <1>3, RoutineKeeps, AgentSilent DEF Boot

LEMMA CrashInv ==
  ASSUME FleetInv, NEW s \in Server, Crash(s)
  PROVE  FleetInv'
<1> DEFINE a == [agents[s] EXCEPT !.phase = "DOWN", !.batch = {}, !.doing = Resting, !.scan = NoScan]
<1>1. agents' = [agents EXCEPT ![s] = a] /\ Routine
  BY DEF Crash, Routine
<1>2. AgentOK(a)
  <2>1. Resting.stage = "IDLE" /\ NoScan.stage = "IDLE"
    BY DEF Resting, NoScan
  <2>2. a \in Agent
    BY AgentIsOK, AtRest DEF Agent
  <2>3. a.phase = "DOWN" /\ a.batch = {} /\ a.doing = Resting /\ a.scan = NoScan
    BY AgentIsOK DEF Agent
  <2> HIDE DEF a
  <2> QED
    BY <2>1, <2>2, <2>3 DEF AgentOK
<1>3. /\ Held(a) = {} /\ Launching(a) = {} /\ Claims(a) \subseteq Claims(agents[s])
      /\ \A j \in Job : a.scan.containers[j] = "none"
  BY AgentIsOK DEF Agent, Held, Launching, Claims, Resting, NoScan
<1> HIDE DEF a
<1> QED
  BY <1>1, <1>2, <1>3, RoutineKeeps, AgentSilent DEF Crash

(* A step that changes only how far the process and its report got.          *)
LEMMA ProcessQuiet ==
  ASSUME FleetInv, Routine, docker' = docker, NEW s \in Server, NEW a,
         agents' = [agents EXCEPT ![s] = a], AgentOK(a),
         a.batch = agents[s].batch, a.doing = agents[s].doing, a.known = agents[s].known,
         \A j \in Job : a.scan.containers[j] # "none" => j \in Sighted(s) \/ Launched(s, j),
         lateReports' \subseteq Server \X FleetReport,
         \A m \in lateReports' : m \in lateReports \/ (m[1] = s /\ m[2] = ReportOf(s)),
         lateAcks' = lateAcks
  PROVE  FleetInv'
<1>1. /\ Held(a) = Held(agents[s]) /\ Launching(a) = Launching(agents[s])
      /\ Claims(a) = Claims(agents[s])
  BY DEF Held, Launching, Claims
<1>2. /\ lateAcks' \subseteq Command \X BOOLEAN
      /\ \A c \in Command : <<c, TRUE>> \in lateAcks' => c \in Claimed
  BY DEF FleetInv, Shape, Claimed
<1> QED
  BY <1>1, <1>2, RoutineKeeps, AgentQuiet

LEMMA EnsureRegisteredInv ==
  ASSUME FleetInv, NEW s \in Server, NEW mode \in Modes, NEW answered \in BOOLEAN,
         EnsureRegistered(s, mode, answered)
  PROVE  FleetInv'
<1> DEFINE a == IF answered
                THEN [agents[s] EXCEPT !.enrolled = TRUE,
                        !.phase = IF @ = "NEW" THEN "REGISTERED" ELSE "RENEWED"]
                ELSE agents[s]
<1>1. agents' = [agents EXCEPT ![s] = a] /\ Routine
  BY DEF EnsureRegistered, Routine, FleetInv, Shape
<1>2. AgentOK(a)
  <2>1. agents[s] \in Agent /\ AgentOK(agents[s]) /\ agents[s].phase \in {"NEW", "LOADED"}
    BY AgentIsOK DEF EnsureRegistered
  <2>2. CASE ~answered
    BY <2>1, <2>2
  <2>3. CASE answered
    <3>1. /\ a \in Agent /\ a.enrolled /\ a.phase \in {"REGISTERED", "RENEWED"}
          /\ a.known = agents[s].known /\ a.seq = agents[s].seq /\ a.scan = agents[s].scan
          /\ a.batch = agents[s].batch /\ a.doing = agents[s].doing
      BY <2>1, <2>3 DEF Agent
    <3> HIDE DEF a
    <3> QED
      BY <2>1, <3>1 DEF AgentOK
  <2> QED
    BY <2>2, <2>3
<1>3. /\ a.batch = agents[s].batch /\ a.doing = agents[s].doing /\ a.known = agents[s].known
      /\ \A j \in Job : a.scan.containers[j] # "none" => j \in Sighted(s)
  BY AgentIsOK DEF Agent, Sighted
<1> HIDE DEF a
<1> QED
  BY <1>1, <1>2, <1>3, ProcessQuiet DEF EnsureRegistered, FleetInv, Shape

LEMMA ListContainersInv ==
  ASSUME FleetInv, NEW s \in Server, NEW mode \in Modes, ListContainers(s, mode)
  PROVE  FleetInv'
<1> DEFINE scan == [stage |-> "LISTED", mode |-> mode, observedAt |-> 0,
                    containers |-> Listing(s, mode)]
           a == [agents[s] EXCEPT !.seq = @ + 1, !.scan = scan]
<1>1. agents' = [agents EXCEPT ![s] = a] /\ Routine
  BY DEF ListContainers, Routine
<1>2. scan \in Scan /\ scan.stage = "LISTED" /\ scan.mode \in Modes
  BY ControlPlaneAssumption DEF Scan, Listing, Time, FleetInv, Shape, ContainerState
<1>3. \A j \in Job : scan.containers[j] # "none" => Launched(s, j)
  BY DEF Listing, FleetInv, DockerOK
<1>4. /\ a.batch = agents[s].batch /\ a.doing = agents[s].doing /\ a.known = agents[s].known
      /\ a.phase = agents[s].phase /\ a.phase \notin {"DOWN", "NEW"} /\ a.enrolled
      /\ a.scan = scan /\ a.seq \in 1..MaxSeq /\ a \in Agent
  <2> HIDE DEF scan
  <2>1. agents[s] \in Agent /\ AgentOK(agents[s])
    BY AgentIsOK
  <2>2. agents[s].phase \notin {"DOWN", "NEW", "LOADED"} /\ agents[s].enrolled
    BY <2>1 DEF AgentOK, ListContainers
  <2>3. agents[s].seq + 1 \in 1..MaxSeq /\ agents[s].seq + 1 \in 0..MaxSeq
    BY <2>1, ControlPlaneAssumption DEF Agent, ListContainers
  <2>4. a \in Agent
    BY <1>2, <2>1, <2>3 DEF Agent
  <2> QED
    BY <2>1, <2>2, <2>3, <2>4 DEF Agent
<1> HIDE DEF a, scan
<1>5. AgentOK(a)
  BY <1>2, <1>4, AgentIsOK DEF AgentOK
<1> QED
  BY <1>1, <1>3, <1>4, <1>5, ProcessQuiet DEF ListContainers, FleetInv, Shape

LEMMA StampReportInv ==
  ASSUME FleetInv, NEW s \in Server, StampReport(s)
  PROVE  FleetInv'
<1> DEFINE scan == [agents[s].scan EXCEPT !.stage = "SENT", !.observedAt = now]
           a == [agents[s] EXCEPT !.scan = scan]
<1>1. agents' = [agents EXCEPT ![s] = a] /\ Routine
  BY DEF StampReport, Routine
<1>2. /\ scan \in Scan /\ scan.stage = "SENT" /\ scan.mode = agents[s].scan.mode
      /\ scan.observedAt \in 1..now /\ scan.containers = agents[s].scan.containers
  <2>1. agents[s].scan \in Scan
    BY AgentIsOK DEF Agent
  <2>2. now \in Nat \ {0}
    BY ControlPlaneAssumption DEF FleetInv, Clock
  <2>3. now \in 1..now /\ now \in Time
    BY <2>2 DEF Time
  <2> QED
    BY <2>1, <2>3 DEF Scan
<1>3. /\ a.batch = agents[s].batch /\ a.doing = agents[s].doing /\ a.known = agents[s].known
      /\ a.phase = agents[s].phase /\ a.enrolled = agents[s].enrolled
      /\ a.scan = scan /\ a.seq = agents[s].seq /\ a \in Agent
  <2> HIDE DEF scan
  <2> QED
    BY <1>2, AgentIsOK DEF Agent
<1> HIDE DEF a, scan
<1>4. agents[s].phase # "DOWN" /\ agents[s].scan.stage = "LISTED"
  BY AgentIsOK DEF AgentOK, StampReport, NoScan
<1>5. AgentOK(a)
  BY <1>2, <1>3, <1>4, AgentIsOK DEF AgentOK
<1>6. \A j \in Job : a.scan.containers[j] # "none" => j \in Sighted(s)
  BY <1>2, <1>3 DEF Sighted
<1> QED
  BY <1>1, <1>3, <1>5, <1>6, ProcessQuiet DEF StampReport, FleetInv, Shape

(* The report is done with: it arrived, or the sender gave up.               *)
LEMMA ReportDone ==
  ASSUME FleetInv, NEW s \in Server, agents[s].scan.stage = "SENT", Routine, docker' = docker,
         NEW phase \in {agents[s].phase, TryAgain(agents[s].phase), "RUNNING"},
         agents' = [agents EXCEPT ![s] = [agents[s] EXCEPT !.scan = NoScan, !.phase = phase]],
         lateReports' \subseteq lateReports \cup {<<s, ReportOf(s)>>}, lateAcks' = lateAcks
  PROVE  FleetInv'
<1> DEFINE a == [agents[s] EXCEPT !.scan = NoScan, !.phase = phase]
<1>1. /\ agents[s] \in Agent /\ AgentOK(agents[s])
      /\ agents[s].phase # "DOWN" /\ agents[s].enrolled
  BY AgentIsOK DEF AgentOK, NoScan
<1>2. phase \in {"NEW", "LOADED", "REGISTERED", "RENEWED", "RUNNING"}
  BY <1>1 DEF Agent, TryAgain
<1>3. /\ a.batch = agents[s].batch /\ a.doing = agents[s].doing /\ a.known = agents[s].known
      /\ a.phase = phase /\ a.enrolled = agents[s].enrolled
      /\ a.scan = NoScan /\ a.seq = agents[s].seq /\ a \in Agent
  BY <1>1, <1>2, AtRest DEF Agent
<1>4. agents' = [agents EXCEPT ![s] = a]
  OBVIOUS
<1> HIDE DEF a
<1>5. AgentOK(a)
  BY <1>1, <1>2, <1>3 DEF AgentOK, NoScan
<1>6. \A j \in Job : a.scan.containers[j] = "none"
  BY <1>3 DEF NoScan
<1>7. /\ lateReports' \subseteq Server \X FleetReport
      /\ \A m \in lateReports' : m \in lateReports \/ (m[1] = s /\ m[2] = ReportOf(s))
  BY SentReport DEF FleetInv, Shape
<1> QED
  BY <1>3, <1>4, <1>5, <1>6, <1>7, ProcessQuiet

LEMMA DeliverReportInv ==
  ASSUME FleetInv, NEW s \in Server, NEW answered \in BOOLEAN, DeliverReport(s, answered)
  PROVE  FleetInv' /\ Routine
<1>1. agents[s].scan.stage = "SENT"
  BY DEF DeliverReport
<1>2. Routine
  <2>1. ReportOf(s) \in Reports(s)
    BY <1>1, SentReport, ReportAllowed
  <2> QED
    BY <2>1 DEF DeliverReport, Routine
<1>3. PICK phase \in {agents[s].phase, TryAgain(agents[s].phase), "RUNNING"} :
        agents' = [agents EXCEPT ![s] = [agents[s] EXCEPT !.scan = NoScan, !.phase = phase]]
  BY AgentIsOK DEF DeliverReport, FleetInv, Shape, Agent
<1> QED
  BY <1>1, <1>2, <1>3, ReportDone DEF DeliverReport

LEMMA GiveUpReportInv ==
  ASSUME FleetInv, NEW s \in Server, NEW lost \in BOOLEAN, GiveUpReport(s, lost)
  PROVE  FleetInv'
<1>1. agents' = [agents EXCEPT ![s] =
                   [agents[s] EXCEPT !.scan = NoScan, !.phase = TryAgain(agents[s].phase)]]
  BY AgentIsOK DEF GiveUpReport, FleetInv, Shape, Agent
<1> QED
  BY <1>1, ReportDone DEF GiveUpReport, Routine

(* Steps that no agent takes: only messages arrive.                          *)
LEMMA ServerQuiet ==
  ASSUME FleetInv, [Next]_vars, ~NewStop, docker' = docker, agents' = agents,
         lateReports' \subseteq lateReports, lateAcks' \subseteq lateAcks,
         \A c \in Command : NewSuccess(c) => c \in Claimed
  PROVE  FleetInv'
<1>1. Inv' /\ Ordered' /\ Clock'
  BY NextStrong
<1>2. Shape'
  BY ReportsAge DEF FleetInv, Shape, AgentOK
<1>3. Claimed' \subseteq Claimed
  BY DEF Claimed, NewSuccess
<1>4. HeldOK'
  BY <1>1, KeepHeld
<1>5. DockerOK' /\ NoSharedGPU'
  BY <1>1, KeepDocker, KeepApart DEF NothingLaunched
<1>6. SightOK'
  BY <1>1, KeepSight DEF Sighted
<1>7. ClaimOK'
  BY <1>3, KeepClaims DEF Fulfilled, JobOf
<1>8. LaunchOK'
  <2>1. \A r \in Server : \A j \in Launching(agents[r]) : docker[j] = "created" /\ StartOf(j) \in Held(agents[r])
    BY CommandOf DEF Launching, Held, FleetInv, LaunchOK
  <2> QED
    BY <1>1, <2>1, KeepLaunch DEF NothingLaunched
<1> QED
  BY <1>1, <1>2, <1>4, <1>5, <1>6, <1>7, <1>8 DEF FleetInv

LEMMA LateReportInv ==
  ASSUME FleetInv, NEW m \in lateReports, LateReport(m)
  PROVE  FleetInv' /\ Routine
<1>1. m[1] \in Server /\ m[2] \in FleetReport /\ m = <<m[1], m[2]>>
  BY DEF FleetInv, Shape
<1>2. \A j \in Job : m[2].containers[j] # "none" => j \in Sighted(m[1])
  BY <1>1 DEF Sighted
<1>3. m[2] \in Reports(m[1])
  BY <1>1, <1>2, ReportAllowed
<1>4. Routine
  BY <1>1, <1>3 DEF LateReport, Routine
<1> QED
  BY <1>4, RoutineKeeps, ServerQuiet DEF LateReport

------------------------------------------------------------------------------
(* The command loop.                                                         *)

(* The command loop turns to command c, which it has taken.                  *)
LEMMA TurnTo ==
  ASSUME FleetInv, NEW s \in Server, NEW c \in Command, c \in Held(agents[s]), NEW ok \in BOOLEAN,
         NEW stage \in {"CREATED", "RESTART", "DONE", "ACK"}, Turn(s, c, stage, ok),
         stage \in {"CREATED", "RESTART"} => c \in Starts
  PROVE  /\ agents' = [agents EXCEPT ![s] = agents'[s]]
         /\ AgentOK(agents'[s])
         /\ Held(agents'[s]) \subseteq Held(agents[s])
         /\ \A j \in Launching(agents'[s]) : stage \in {"CREATED", "RESTART"} /\ j = JobOf(c)
         /\ \A d \in Claims(agents'[s]) :
              d \in Claims(agents[s]) \/ (d = c /\ ok /\ stage \in {"DONE", "ACK"})
         /\ agents'[s].scan = agents[s].scan
<1> DEFINE doing == [cmd |-> c, stage |-> stage, ok |-> ok]
           a == [agents[s] EXCEPT !.batch = @ \ {c}, !.doing = doing]
<1>1. agents[s] \in Agent /\ AgentOK(agents[s]) /\ agents \in [Server -> Agent]
  BY AgentIsOK DEF FleetInv, Shape
<1>2. agents' = [agents EXCEPT ![s] = a] /\ agents'[s] = a
  BY <1>1 DEF Turn
<1>3. doing \in Doing /\ doing.cmd = c /\ doing.stage = stage /\ doing.ok = ok
  BY DEF Doing
<1> HIDE DEF doing
<1>4. /\ a \in Agent /\ a.phase = agents[s].phase /\ a.enrolled = agents[s].enrolled
      /\ a.known = agents[s].known /\ a.seq = agents[s].seq /\ a.scan = agents[s].scan
      /\ a.batch = agents[s].batch \ {c} /\ a.doing = doing
  BY <1>1, <1>3 DEF Agent
<1> HIDE DEF a
<1>5. agents[s].phase # "DOWN"
  BY <1>1 DEF AgentOK, Held, Resting
<1>6. AgentOK(a)
  BY <1>1, <1>3, <1>4, <1>5 DEF AgentOK
<1>7. Held(a) \subseteq Held(agents[s])
  BY <1>3, <1>4 DEF Held
<1>8. \A j \in Launching(a) : stage \in {"CREATED", "RESTART"} /\ j = JobOf(c)
  BY <1>3, <1>4, CommandOf DEF Launching
<1>9. \A d \in Claims(a) : d \in Claims(agents[s]) \/ (d = c /\ ok /\ stage \in {"DONE", "ACK"})
  BY <1>3, <1>4 DEF Claims
<1> QED
  BY <1>2, <1>4, <1>6, <1>7, <1>8, <1>9

(* The agent does to the container of a job what command c asks for.         *)
LEMMA TurnInv ==
  ASSUME FleetInv, NEW s \in Server, NEW c \in Command, c \in Held(agents[s]), NEW ok \in BOOLEAN,
         NEW stage \in {"CREATED", "RESTART", "DONE", "ACK"}, Turn(s, c, stage, ok),
         NEW state \in ContainerState, docker' = [docker EXCEPT ![JobOf(c)] = state],
         UNCHANGED <<vars, lateReports, lateAcks>>,
         stage \in {"CREATED", "RESTART"} =>
           c \in Starts /\ state = "created" /\ GPUsAvailable(s, JobOf(c)),
         state # "none" => docker[JobOf(c)] # "none" \/ c \in Starts,
         state = "active" => docker[JobOf(c)] = "active" \/ GPUsAvailable(s, JobOf(c)),
         ok /\ stage \in {"DONE", "ACK"} => c \in Claimed \/ Fulfilled(c)',
         \A d \in Claimed : JobOf(d) = JobOf(c) => Fulfilled(d)'
  PROVE  FleetInv'
<1> DEFINE j == JobOf(c)
<1>1. Routine /\ [Next]_vars /\ ~NewStop /\ Inv' /\ Ordered' /\ Clock'
  BY RoutineKeeps, NextStrong DEF Routine
<1>2. /\ agents' = [agents EXCEPT ![s] = agents'[s]] /\ AgentOK(agents'[s])
      /\ Held(agents'[s]) \subseteq Held(agents[s])
      /\ \A k \in Launching(agents'[s]) : stage \in {"CREATED", "RESTART"} /\ k = j
      /\ \A d \in Claims(agents'[s]) :
           d \in Claims(agents[s]) \/ (d = c /\ ok /\ stage \in {"DONE", "ACK"})
      /\ agents'[s].scan = agents[s].scan
  BY TurnTo
<1>3. j \in Job /\ Assigned(s, c) /\ jobs[j].server = s /\ (c \in Starts => Launched(s, j))
  BY CommandParts DEF FleetInv, HeldOK, Assigned
<1>4. docker \in [Job -> ContainerState] /\ docker'[j] = state
      /\ \A k \in Job \ {j} : docker'[k] = docker[k]
  BY <1>3 DEF FleetInv, Shape
<1>5. agents \in [Server -> Agent] /\ \A r \in Server \ {s} : agents'[r] = agents[r]
  BY <1>2 DEF FleetInv, Shape
<1> HIDE DEF j
<1>6. Shape'
  <2>1. docker' \in [Job -> ContainerState]
    BY <1>4
  <2>2. lateReports' \subseteq Server \X FleetReport /\ lateAcks' \subseteq Command \X BOOLEAN
    BY DEF FleetInv, Shape
  <2> DEFINE a == agents'[s]
  <2>3. agents' = [agents EXCEPT ![s] = a] /\ AgentOK(a)
    BY <1>2
  <2> HIDE DEF a
  <2> QED
    BY <1>1, <2>1, <2>2, <2>3, KeepShape
<1>7. HeldOK'
  BY <1>1, <1>2, <1>5, KeepHeld
<1>8. SightOK'
  BY <1>1, <1>2, <1>5, KeepSight DEF Sighted
<1>9. DockerOK'
  BY <1>3, <1>4 DEF DockerOK, FleetInv, Launched, vars, j
<1>10. ClaimOK'
  <2>1. ASSUME NEW d \in Claimed' PROVE d \in Claimed \/ (HandedOut(d) /\ Fulfilled(d)')
    <3>1. CASE d \in Claimed
      BY <3>1
    <3>2. CASE d \notin Claimed
      <4>1. d = c /\ ok /\ stage \in {"DONE", "ACK"}
        BY <1>2, <1>5, <2>1, <3>2 DEF Claimed, Claims, vars
      <4> QED
        BY <1>3, <3>2, <4>1 DEF Assigned
    <3> QED
      BY <3>1, <3>2
  <2>2. ASSUME NEW d \in Claimed, Fulfilled(d) PROVE Fulfilled(d)'
    <3>1. CASE JobOf(d) = j
      BY <3>1 DEF j
    <3>2. CASE JobOf(d) # j
      BY <1>4, <2>2, <3>2, CommandParts DEF Fulfilled, JobOf, Claimed
    <3> QED
      BY <3>1, <3>2
  <2> QED
    BY <1>1, <2>1, <2>2, KeepClaims
<1>11. NoSharedGPU'
  BY <1>3, <1>4 DEF NoSharedGPU, FleetInv, GPUsAvailable, vars, j
<1>12. LaunchOK'
  <2> SUFFICES ASSUME NEW r \in Server, NEW k \in Launching(agents'[r])
               PROVE  docker'[k] = "created" /\ GPUsAvailable(r, k)'
    BY DEF LaunchOK, Launching, StartOf
  <2>1. CASE r = s
    <3>1. k = j /\ docker'[k] = "created" /\ GPUsAvailable(s, j)
      BY <1>2, <1>4, <2>1 DEF j
    <3> QED
      BY <1>3, <1>4, <2>1, <3>1 DEF GPUsAvailable, vars
  <2>2. CASE r # s
    <3>1. k \in Job /\ k \in Launching(agents[r]) /\ StartOf(k) \in Held(agents[r])
      BY <1>5, <2>2, CommandOf DEF Launching, Held
    <3>2. jobs[k].server = r /\ docker[k] = "created" /\ GPUsAvailable(r, k)
      BY <3>1, CommandOf DEF FleetInv, HeldOK, LaunchOK, Assigned
    <3> QED
      BY <1>3, <1>4, <2>2, <3>1, <3>2 DEF GPUsAvailable, vars
  <2> QED
    BY <2>1, <2>2
<1> QED
  BY <1>1, <1>6, <1>7, <1>8, <1>9, <1>10, <1>11, <1>12 DEF FleetInv

(* The same when nothing happens to the container.                           *)
LEMMA TurnOnly ==
  ASSUME FleetInv, NEW s \in Server, NEW c \in Command, c \in Held(agents[s]), NEW ok \in BOOLEAN,
         NEW stage \in {"CREATED", "RESTART", "DONE", "ACK"}, Turn(s, c, stage, ok),
         UNCHANGED <<vars, docker, lateReports, lateAcks>>,
         stage \in {"CREATED", "RESTART"} =>
           c \in Starts /\ docker[JobOf(c)] = "created" /\ GPUsAvailable(s, JobOf(c)),
         ok /\ stage \in {"DONE", "ACK"} => c \in Claimed \/ Fulfilled(c)'
  PROVE  FleetInv'
<1>1. PICK state \in ContainerState :
        /\ docker' = [docker EXCEPT ![JobOf(c)] = state]
        /\ state # "none" => docker[JobOf(c)] # "none"
        /\ state = "active" => docker[JobOf(c)] = "active"
        /\ docker[JobOf(c)] = "created" => state = "created"
  BY CommandParts DEF FleetInv, Shape
<1>2. \A d \in Claimed : JobOf(d) = JobOf(c) => Fulfilled(d)'
  BY DEF FleetInv, ClaimOK, Fulfilled, JobOf
<1>3. UNCHANGED <<vars, lateReports, lateAcks>>
  OBVIOUS
<1>4. stage \in {"CREATED", "RESTART"} =>
        c \in Starts /\ state = "created" /\ GPUsAvailable(s, JobOf(c))
  BY <1>1
<1>5. /\ state # "none" => docker[JobOf(c)] # "none" \/ c \in Starts
      /\ state = "active" => docker[JobOf(c)] = "active" \/ GPUsAvailable(s, JobOf(c))
  BY <1>1
<1>6. docker' = [docker EXCEPT ![JobOf(c)] = state]
  BY <1>1
<1> QED
  BY <1>2, <1>3, <1>4, <1>5, <1>6, TurnInv, Zenon

LEMMA FreshHeld ==
  ASSUME NEW s, NEW c \in Command, c \in agents[s].batch
  PROVE  c \in Held(agents[s])
BY DEF Held

LEMMA RecallInv ==
  ASSUME FleetInv, NEW s \in Server, NEW c \in Command, Recall(s, c)
  PROVE  FleetInv'
<1>1. c \in Held(agents[s]) /\ UNCHANGED <<vars, docker, lateReports, lateAcks>>
  BY FreshHeld DEF Recall
<1>2. CASE agents[s].known[c] = "OK"
  <2>1. Turn(s, c, "ACK", TRUE)
    BY <1>2 DEF Recall
  <2>2. c \in Claimed
    BY <1>2 DEF Claimed, Claims
  <2> QED
    BY <1>1, <2>1, <2>2, TurnOnly
<1>3. CASE agents[s].known[c] # "OK"
  <2>1. Turn(s, c, "ACK", FALSE)
    BY <1>3 DEF Recall
  <2> QED
    BY <1>1, <2>1, TurnOnly
<1> QED
  BY <1>2, <1>3

LEMMA RefuseStartInv ==
  ASSUME FleetInv, NEW s \in Server, NEW c \in Command, RefuseStart(s, c)
  PROVE  FleetInv'
<1>1. /\ c \in Held(agents[s]) /\ Turn(s, c, "DONE", FALSE)
      /\ UNCHANGED <<vars, docker, lateReports, lateAcks>>
  BY FreshHeld DEF RefuseStart, Fresh
<1> QED
  BY <1>1, TurnOnly

LEMMA CreateContainerInv ==
  ASSUME FleetInv, NEW s \in Server, NEW c \in Command, CreateContainer(s, c)
  PROVE  FleetInv'
<1> DEFINE j == JobOf(c)
<1>1. /\ c \in Held(agents[s]) /\ c \in Starts /\ GPUsAvailable(s, j)
      /\ UNCHANGED <<vars, lateReports, lateAcks>>
  BY FreshHeld DEF CreateContainer, Fresh
<1>2. j \in Job /\ docker \in [Job -> ContainerState]
  BY CommandParts DEF FleetInv, Shape
<1>3. CASE LaunchedBefore(docker[j]) /\ Turn(s, c, "DONE", TRUE) /\ docker' = docker
  <2>1. Fulfilled(c)'
    BY <1>1, <1>3 DEF Fulfilled, LaunchedBefore, JobOf
  <2> QED
    BY <1>1, <1>3, <2>1, TurnOnly
<1>4. CASE docker[j] = "created" /\ Turn(s, c, "RESTART", FALSE) /\ docker' = docker
  BY <1>1, <1>4, TurnOnly
<1>5. CASE /\ docker[j] = "none" /\ docker' = [docker EXCEPT ![j] = "created"]
           /\ Turn(s, c, "CREATED", FALSE)
  <2>1. ASSUME NEW d \in Claimed, JobOf(d) = j PROVE Fulfilled(d)'
    <3>1. docker'[j] = "created" /\ d \in Command
      BY <1>2, <1>5 DEF Claimed
    <3>2. d \notin Starts
      BY <1>5, <2>1 DEF FleetInv, ClaimOK, Fulfilled
    <3> QED
      BY <2>1, <3>1, <3>2 DEF Fulfilled, JobOf
  <2>2. "created" \in ContainerState
    BY DEF ContainerState
  <2> QED
    BY <1>1, <1>5, <2>1, <2>2, TurnInv
<1>6. docker[j] # "created" /\ ~LaunchedBefore(docker[j]) => docker[j] = "none"
  BY <1>2 DEF LaunchedBefore, ContainerState
<1> QED
  BY <1>3, <1>4, <1>5, <1>6 DEF CreateContainer

(* While an agent launches the container of a job, nobody says of a command of
   the job that it succeeded.                                                *)
LEMMA LaunchUnclaimed ==
  ASSUME FleetInv, NEW s \in Server, NEW j \in Launching(agents[s]), NEW d \in Claimed
  PROVE  JobOf(d) # j
<1> SUFFICES ASSUME JobOf(d) = j PROVE FALSE
  OBVIOUS
<1>1. d \in Command /\ HandedOut(d) /\ Fulfilled(d)
  BY DEF Claimed, FleetInv, ClaimOK
<1>2. j \in Job /\ docker[j] = "created" /\ Assigned(s, StartOf(j))
  BY CommandOf DEF FleetInv, LaunchOK, HeldOK, Held, Launching
<1>3. d \notin Starts
  BY <1>1, <1>2 DEF Fulfilled
<1>4. \E n \in 1..MaxStops : d = StopOf(j, n)
  BY <1>1, <1>3, CommandParts
<1>5. StopHanded(j)
  BY <1>1, <1>4 DEF StopHanded
<1> QED
  BY <1>2, <1>5, CommandOf DEF Assigned

LEMMA LaunchContainerInv ==
  ASSUME FleetInv, NEW s \in Server, LaunchContainer(s)
  PROVE  FleetInv'
<1>1. agents[s].doing.stage \in {"CREATED", "RESTART"}
  BY DEF LaunchContainer
<1>2. PICK c \in Starts : c = agents[s].doing.cmd
  BY <1>1, AgentIsOK DEF AgentOK
<1> DEFINE j == JobOf(c)
<1>3. c \in Command /\ c \in Held(agents[s]) /\ j \in Launching(agents[s])
  BY <1>1, <1>2, CommandParts DEF Held, Launching, Command
<1>4. GPUsAvailable(s, j) /\ j \in Job /\ docker \in [Job -> ContainerState]
  BY <1>3, CommandParts DEF FleetInv, LaunchOK, Shape
<1>5. \A d \in Claimed : JobOf(d) # j
  BY <1>3, LaunchUnclaimed
<1>6. PICK ok \in BOOLEAN, state \in {"none", "created", "active"} :
        /\ ok => state = "active"
        /\ docker' = [docker EXCEPT ![j] = state] /\ Turn(s, c, "DONE", ok)
        /\ UNCHANGED <<vars, lateReports, lateAcks>>
  BY <1>2 DEF LaunchContainer
<1>7. ok => Fulfilled(c)'
  BY <1>4, <1>6 DEF Fulfilled, JobOf
<1>8. state \in ContainerState
  BY DEF ContainerState
<1> QED
  BY <1>3, <1>4, <1>5, <1>6, <1>7, <1>8, TurnInv

LEMMA StopContainerInv ==
  ASSUME FleetInv, NEW s \in Server, NEW c \in Command, StopContainer(s, c)
  PROVE  FleetInv'
<1> DEFINE j == JobOf(c)
<1>1. /\ c \in Held(agents[s]) /\ c \notin Starts /\ j \in Job /\ docker \in [Job -> ContainerState]
      /\ UNCHANGED <<vars, lateReports, lateAcks>>
  BY FreshHeld, CommandParts DEF StopContainer, Fresh, FleetInv, Shape
<1>2. PICK ok \in BOOLEAN, state \in ContainerState :
        /\ Turn(s, c, "DONE", ok) /\ docker' = [docker EXCEPT ![j] = state]
        /\ \/ state = docker[j] /\ (ok => state # "active")
           \/ docker[j] = "active" /\ state \in {"exited0", "exited1"}
  <2>1. docker[j] \in ContainerState /\ docker = [docker EXCEPT ![j] = docker[j]]
    BY <1>1
  <2>2. {"exited0", "exited1"} \subseteq ContainerState
    BY DEF ContainerState
  <2> QED
    BY <2>1, <2>2 DEF StopContainer
<1>3. ok => Fulfilled(c)'
  BY <1>1, <1>2 DEF Fulfilled, JobOf
<1>4. ASSUME NEW d \in Claimed, JobOf(d) = j PROVE Fulfilled(d)'
  <2>1. Fulfilled(d) /\ docker'[j] = state
    BY <1>1, <1>2 DEF FleetInv, ClaimOK
  <2> QED
    BY <1>2, <1>4, <2>1 DEF Fulfilled, JobOf
<1> QED
  BY <1>1, <1>2, <1>3, <1>4, TurnInv

(* A container ends by itself: nothing that was taken for granted changes.   *)
LEMMA ExitInv ==
  ASSUME FleetInv, NEW j \in Job, Exit(j)
  PROVE  FleetInv'
<1>1. Routine /\ [Next]_vars /\ ~NewStop /\ Inv' /\ Ordered' /\ Clock'
  BY RoutineKeeps, NextStrong DEF Routine, Exit
<1>2. PICK code \in {"exited0", "exited1"} :
        docker[j] = "active" /\ docker' = [docker EXCEPT ![j] = code]
  BY DEF Exit
<1>3. /\ docker \in [Job -> ContainerState] /\ docker' \in [Job -> ContainerState]
      /\ docker'[j] = code /\ \A k \in Job \ {j} : docker'[k] = docker[k]
      /\ agents' = agents /\ lateReports' = lateReports /\ lateAcks' = lateAcks
      /\ jobs' = jobs /\ commands' = commands
  BY <1>2 DEF FleetInv, Shape, ContainerState, Exit, vars
<1>4. Shape'
  BY <1>1, <1>3, ReportsAge DEF FleetInv, Shape, AgentOK
<1>5. HeldOK' /\ SightOK'
  BY <1>1, <1>3, KeepHeld, KeepSight DEF Sighted
<1>6. NothingLaunched
  BY <1>3 DEF NothingLaunched
<1>7. DockerOK' /\ NoSharedGPU'
  BY <1>1, <1>2, <1>3, <1>6, KeepDocker, KeepApart
<1>8. ClaimOK'
  <2>1. Claimed' \subseteq Claimed
    BY <1>3 DEF Claimed
  <2>2. ASSUME NEW d \in Claimed, Fulfilled(d) PROVE Fulfilled(d)'
    BY <1>2, <1>3, <2>2, CommandParts DEF Fulfilled, JobOf, Claimed
  <2> QED
    BY <1>1, <2>1, <2>2, KeepClaims
<1>9. LaunchOK'
  <2>1. ASSUME NEW r \in Server, NEW k \in Launching(agents[r])
        PROVE  docker'[k] = "created" /\ StartOf(k) \in Held(agents[r])
    BY <1>2, <1>3, CommandOf DEF Launching, Held, FleetInv, LaunchOK
  <2> QED
    BY <1>1, <1>3, <1>6, <2>1, KeepLaunch
<1> QED
  BY <1>1, <1>4, <1>5, <1>7, <1>8, <1>9 DEF FleetInv

LEMMA RememberInv ==
  ASSUME FleetInv, NEW s \in Server, Remember(s)
  PROVE  FleetInv'
<1> DEFINE doing == [agents[s].doing EXCEPT !.stage = "ACK"]
           result == IF agents[s].doing.ok THEN "OK" ELSE "FAILED"
           memory == [agents[s].known EXCEPT ![agents[s].doing.cmd] = result]
<1>1. /\ agents[s] \in Agent /\ AgentOK(agents[s]) /\ agents \in [Server -> Agent]
      /\ agents[s].doing.stage = "DONE" /\ agents[s].doing \in Doing
      /\ agents[s].doing.cmd \in Command
      /\ agents[s].known \in [Command -> {"NONE", "OK", "FAILED"}]
  BY AgentIsOK DEF Remember, FleetInv, Shape, Agent, AgentOK
<1>2. PICK known \in Evicted(memory, agents[s].doing.cmd) :
        agents' = [agents EXCEPT ![s].doing.stage = "ACK", ![s].known = known]
  BY DEF Remember
<1> DEFINE a == [agents[s] EXCEPT !.doing = doing, !.known = known]
<1>3. agents' = [agents EXCEPT ![s] = a]
  BY <1>1, <1>2 DEF Agent
<1>4. /\ doing \in Doing /\ doing.stage = "ACK" /\ doing.cmd = agents[s].doing.cmd
      /\ doing.ok = agents[s].doing.ok
  BY <1>1 DEF Doing
<1>5. /\ known \in [Command -> {"NONE", "OK", "FAILED"}]
      /\ \A c \in Command : known[c] \in {"NONE", memory[c]}
  <2>1. memory \in [Command -> {"NONE", "OK", "FAILED"}]
    BY <1>1
  <2> HIDE DEF memory
  <2> QED
    BY <2>1, <1>2 DEF Evicted
<1>6. \A c \in Command : known[c] = "OK" => c \in Claims(agents[s])
  BY <1>1, <1>5 DEF Claims
<1> HIDE DEF doing, memory
<1>7. /\ a \in Agent /\ a.phase = agents[s].phase /\ a.enrolled = agents[s].enrolled
      /\ a.known = known /\ a.seq = agents[s].seq /\ a.scan = agents[s].scan
      /\ a.batch = agents[s].batch /\ a.doing = doing
  BY <1>1, <1>4, <1>5 DEF Agent
<1> HIDE DEF a
<1>8. agents[s].phase # "DOWN"
  BY <1>1 DEF AgentOK, Resting
<1>9. AgentOK(a)
  BY <1>1, <1>4, <1>7, <1>8 DEF AgentOK
<1>10. /\ Held(a) \subseteq Held(agents[s]) /\ Launching(a) = {}
       /\ \A j \in Job : a.scan.containers[j] # "none" => j \in Sighted(s)
  BY <1>1, <1>4, <1>7 DEF Held, Launching, Sighted
<1>11. Claims(a) \subseteq Claims(agents[s])
  BY <1>1, <1>4, <1>6, <1>7 DEF Claims
<1>12. Routine /\ docker' = docker /\ lateReports' = lateReports /\ lateAcks' = lateAcks
  BY DEF Remember, Routine
<1> QED
  BY <1>3, <1>9, <1>10, <1>11, <1>12, RoutineKeeps, AgentSilent

(* The command is put away, and its acknowledgement sent.                    *)
LEMMA PutAway ==
  ASSUME FleetInv, NEW s \in Server, agents[s].doing.stage = "ACK", docker' = docker,
         NEW batch \in {agents[s].batch, {}},
         agents' = [agents EXCEPT ![s] = [agents[s] EXCEPT !.doing = Resting, !.batch = batch]],
         [Next]_vars, ~NewStop,
         \A c \in Command : NewSuccess(c) => c = agents[s].doing.cmd /\ agents[s].doing.ok,
         lateReports' = lateReports,
         lateAcks' \subseteq lateAcks \cup {<<agents[s].doing.cmd, agents[s].doing.ok>>}
  PROVE  FleetInv'
<1> DEFINE a == [agents[s] EXCEPT !.doing = Resting, !.batch = batch]
<1>1. /\ agents[s] \in Agent /\ AgentOK(agents[s]) /\ agents[s].doing.cmd \in Command
      /\ agents[s].doing.ok \in BOOLEAN
  BY AgentIsOK DEF AgentOK, Agent, Doing
<1>2. agents' = [agents EXCEPT ![s] = a]
  OBVIOUS
<1>3. /\ a \in Agent /\ a.phase = agents[s].phase /\ a.enrolled = agents[s].enrolled
      /\ a.known = agents[s].known /\ a.seq = agents[s].seq /\ a.scan = agents[s].scan
      /\ a.batch = batch /\ a.doing = Resting
  BY <1>1, AtRest DEF Agent
<1> HIDE DEF a
<1>4. AgentOK(a)
  BY <1>1, <1>3 DEF AgentOK, Resting
<1>5. /\ Held(a) \subseteq Held(agents[s]) /\ Launching(a) = {}
      /\ Claims(a) \subseteq Claims(agents[s])
      /\ \A j \in Job : a.scan.containers[j] # "none" => j \in Sighted(s)
  BY <1>3 DEF Held, Launching, Claims, Sighted, Resting
<1>6. agents[s].doing.ok => agents[s].doing.cmd \in Claimed
  BY <1>1 DEF Claimed, Claims
<1>7. /\ lateAcks' \subseteq Command \X BOOLEAN
      /\ \A c \in Command : <<c, TRUE>> \in lateAcks' => c \in Claimed
  <2>1. lateAcks \subseteq Command \X BOOLEAN
    BY DEF FleetInv, Shape
  <2>2. ASSUME NEW c \in Command, <<c, TRUE>> \in lateAcks' PROVE c \in Claimed
    <3>1. CASE <<c, TRUE>> \in lateAcks
      BY <3>1 DEF Claimed
    <3>2. CASE <<c, TRUE>> = <<agents[s].doing.cmd, agents[s].doing.ok>>
      BY <1>6, <3>2
    <3> QED
      BY <2>2, <3>1, <3>2
  <2>3. <<agents[s].doing.cmd, agents[s].doing.ok>> \in Command \X BOOLEAN
    BY <1>1
  <2>4. lateAcks' \subseteq Command \X BOOLEAN
    BY <2>1, <2>3
  <2> QED
    BY <2>2, <2>4
<1>8. lateReports' \subseteq Server \X FleetReport /\ \A m \in lateReports' : m \in lateReports
  BY DEF FleetInv, Shape
<1> QED
  BY <1>2, <1>4, <1>5, <1>6, <1>7, <1>8, AgentQuiet

(* What an agent, or a message, says of a command is about a real command.   *)
LEMMA DoingCommand ==
  ASSUME FleetInv, NEW s \in Server, agents[s].doing.stage = "ACK"
  PROVE  agents[s].doing.cmd \in Command /\ agents[s].doing.ok \in BOOLEAN
BY AgentIsOK DEF AgentOK, Agent, Doing

LEMMA AcknowledgeInv ==
  ASSUME FleetInv, NEW s \in Server, Acknowledge(s)
  PROVE  FleetInv' /\ [Next]_vars
<1> DEFINE doing == agents[s].doing
<1>1. /\ doing.stage = "ACK" /\ Arrives(doing.cmd, doing.ok)
      /\ docker' = docker /\ lateReports' = lateReports /\ lateAcks' = lateAcks
  BY DEF Acknowledge
<1>2. /\ [Next]_vars /\ ~NewStop
      /\ \A c \in Command : NewSuccess(c) => c = doing.cmd /\ doing.ok
  BY <1>1, DoingCommand, ArrivesKeeps
<1>3. agents' = [agents EXCEPT ![s] =
                   [agents[s] EXCEPT !.doing = Resting, !.batch = agents[s].batch]]
  BY AgentIsOK DEF Acknowledge, Agent, FleetInv, Shape
<1> QED
  BY <1>1, <1>2, <1>3, PutAway

LEMMA GiveUpAckInv ==
  ASSUME FleetInv, NEW s \in Server, GiveUpAck(s)
  PROVE  FleetInv' /\ [Next]_vars
<1> DEFINE doing == agents[s].doing
<1>1. /\ doing.stage = "ACK" /\ docker' = docker /\ lateReports' = lateReports
      /\ lateAcks' \subseteq lateAcks \cup {<<doing.cmd, doing.ok>>}
      /\ Arrives(doing.cmd, doing.ok) \/ UNCHANGED vars
  BY DEF GiveUpAck
<1>2. /\ [Next]_vars /\ ~NewStop
      /\ \A c \in Command : NewSuccess(c) => c = doing.cmd /\ doing.ok
  BY <1>1, DoingCommand, ArrivesKeeps, RoutineKeeps DEF Routine
<1>3. agents' = [agents EXCEPT ![s] = [agents[s] EXCEPT !.doing = Resting, !.batch = {}]]
  BY AgentIsOK DEF GiveUpAck, Agent, FleetInv, Shape
<1> QED
  BY <1>1, <1>2, <1>3, PutAway

LEMMA LateAckInv ==
  ASSUME FleetInv, NEW m \in lateAcks, LateAck(m)
  PROVE  FleetInv' /\ [Next]_vars
<1>1. m[1] \in Command /\ m[2] \in BOOLEAN /\ m = <<m[1], m[2]>>
  BY DEF FleetInv, Shape
<1>2. m[2] => m[1] \in Claimed
  BY <1>1 DEF Claimed
<1>3. [Next]_vars /\ ~NewStop /\ \A c \in Command : NewSuccess(c) => c = m[1] /\ m[2]
  BY <1>1, ArrivesKeeps DEF LateAck
<1> QED
  BY <1>2, <1>3, ServerQuiet DEF LateAck

(* A poll hands the agent commands of its own jobs only, and a START only if
   no STOP of the job was ever handed out.                                   *)
LEMMA PollGives ==
  ASSUME FleetInv, NEW s \in Server, LeaseCommands(s), NEW c \in Command, Leasable(s, c)
  PROVE  Assigned(s, c)'
<1> DEFINE j == JobOf(c)
<1>1. [Next]_vars /\ Ordered' /\ j \in Job
  BY CommandParts, NextStrong DEF Next, AgentStep
<1>2. HandedOut(c)' /\ jobs' = jobs /\ now' = now /\ jobs[j].server = s
  BY LeaseHands DEF FleetInv, LeaseCommands, Leasable
<1>3. ASSUME c \in Starts PROVE Launched(s, j)' /\ ~StopHanded(j)'
  <2>1. c = StartOf(j) /\ StartDeliverable(s, j)
    BY <1>3, CommandParts DEF Leasable
  <2>2. Launched(s, j)'
    BY <1>2, <2>1 DEF Launched, HandedOut, StartOf, StartDeliverable, Terminal
  <2>3. StartStatus(j)' = "DELIVERED"
    <3>1. commands[c] \in CommandRecord
      BY DEF FleetInv, Inv, TypeOK
    <3> QED
      BY <2>1, <3>1 DEF LeaseCommands, StartStatus, StartOf, CommandRecord
  <2>4. ~Expired(j, now)'
    BY <1>1, <1>2, <2>1, DomainAssumption
    DEF StartDeliverable, Contains, Expired, FleetInv, Inv, TypeOK, Time
  <2>5. ASSUME NEW n \in 1..MaxStops, HandedOut(StopOf(j, n))' PROVE FALSE
    <3>1. StopStatus(j, n)' \notin {"NONE", "PENDING"}
      BY <2>5 DEF HandedOut, StopStatus, StopOf
    <3> QED
      BY <1>1, <2>3, <2>4, <3>1 DEF Ordered, Orders
  <2> QED
    BY <2>2, <2>5 DEF StopHanded, StopOf
<1> QED
  BY <1>2, <1>3 DEF Assigned, JobOf

LEMMA PollSpares ==
  ASSUME FleetInv, NEW s \in Server, LeaseCommands(s), NEW c \in Command,
         NEW r \in Server \ {s}, Assigned(r, c)
  PROVE  Assigned(r, c)'
<1> DEFINE j == JobOf(c)
<1>1. [Next]_vars /\ Inv' /\ j \in Job
  BY CommandParts, NextStrong DEF Next, AgentStep
<1>2. ASSUME NEW n \in 1..MaxStops, HandedOut(StopOf(j, n))' PROVE HandedOut(StopOf(j, n))
  <2>1. StopOf(j, n) \in Command /\ JobOf(StopOf(j, n)) = j
    BY <1>1, CommandOf
  <2>2. ~Leasable(s, StopOf(j, n))
    BY <2>1 DEF Leasable, Assigned
  <2> QED
    BY <1>2, <2>1, <2>2, LeaseHands DEF HandedOut, FleetInv
<1>3. c \in Starts => ~StopHanded(j)'
  BY <1>2 DEF Assigned, StopHanded, StopOf
<1> QED
  BY <1>1, <1>3, AssignedKept

LEMMA PollInv ==
  ASSUME FleetInv, NEW s \in Server, NEW answered \in BOOLEAN, Poll(s, answered)
  PROVE  FleetInv' /\ [Next]_vars
<1> DEFINE batch == IF answered THEN {c \in Command : Leasable(s, c)} ELSE {}
           a == [agents[s] EXCEPT !.batch = batch]
<1>1. /\ LeaseCommands(s) /\ agents[s].phase = "RUNNING" /\ agents[s].doing = Resting
      /\ docker' = docker /\ lateReports' = lateReports /\ lateAcks' = lateAcks
      /\ jobs' = jobs
  BY DEF Poll, LeaseCommands
<1>2. [Next]_vars /\ Inv' /\ Ordered' /\ Clock'
  BY <1>1, NextStrong DEF Next, AgentStep
<1>3. agents[s] \in Agent /\ AgentOK(agents[s]) /\ agents \in [Server -> Agent]
  BY AgentIsOK DEF FleetInv, Shape
<1>4. agents' = [agents EXCEPT ![s] = a]
  BY DEF Poll
<1>5. /\ a \in Agent /\ a.phase = agents[s].phase /\ a.enrolled = agents[s].enrolled
      /\ a.known = agents[s].known /\ a.seq = agents[s].seq /\ a.scan = agents[s].scan
      /\ a.batch = batch /\ a.doing = Resting
  BY <1>1, <1>3 DEF Agent
<1> HIDE DEF a
<1>6. AgentOK(a)
  BY <1>1, <1>3, <1>5 DEF AgentOK, Resting
<1>7. Shape'
  BY <1>1, <1>2, <1>4, <1>6, KeepShape DEF FleetInv, Shape
<1>8. agents'[s] = a /\ \A r \in Server \ {s} : agents'[r] = agents[r]
  BY <1>3, <1>4
<1>9. HeldOK'
  <2> SUFFICES ASSUME NEW r \in Server, NEW c \in Command, c \in Held(agents'[r])
               PROVE  Assigned(r, c)'
    BY DEF HeldOK, Held
  <2>1. CASE r = s
    <3>1. Leasable(s, c)
      BY <1>5, <1>8, <2>1 DEF Held, Resting
    <3> QED
      BY <1>1, <2>1, <3>1, PollGives
  <2>2. CASE r # s
    <3>1. Assigned(r, c)
      BY <1>8, <2>2 DEF FleetInv, HeldOK
    <3> QED
      BY <1>1, <2>2, <3>1, PollSpares
  <2> QED
    BY <2>1, <2>2
<1>10. LaunchOK'
  BY <1>1, <1>5, <1>8 DEF FleetInv, LaunchOK, Launching, Resting, GPUsAvailable, StartOf
<1>11. DockerOK' /\ NoSharedGPU'
  BY <1>1, <1>2, KeepDocker, KeepApart DEF NothingLaunched
<1>12. SightOK'
  BY <1>1, <1>2, <1>5, <1>8, KeepSight DEF Sighted
<1>13. ClaimOK'
  <2>1. \A c \in Command : ~NewSuccess(c)
    BY <1>1, LeaseHands DEF FleetInv
  <2>2. \A r \in Server : Claims(agents'[r]) \subseteq Claims(agents[r])
    BY <1>5, <1>8 DEF Claims, Resting
  <2>3. Claimed' \subseteq Claimed
    <3> SUFFICES ASSUME NEW c \in Claimed' PROVE c \in Claimed
      OBVIOUS
    <3>1. CASE commands'[c].status = "SUCCEEDED"
      BY <2>1, <3>1 DEF Claimed, NewSuccess
    <3>2. CASE <<c, TRUE>> \in lateAcks'
      BY <1>1, <3>2 DEF Claimed
    <3>3. CASE \E r \in Server : c \in Claims(agents'[r])
      BY <2>2, <3>3 DEF Claimed
    <3> QED
      BY <3>1, <3>2, <3>3 DEF Claimed, Claims
  <2> QED
    BY <1>1, <1>2, <2>3, KeepClaims DEF Fulfilled, JobOf
<1> QED
  BY <1>2, <1>7, <1>9, <1>10, <1>11, <1>12, <1>13 DEF FleetInv

------------------------------------------------------------------------------
(* Every step of the system keeps the invariant, and is a step of module
   ControlPlane.                                                             *)

LEMMA RoutineInv ==
  ASSUME FleetInv, Routine, UNCHANGED fleetVars
  PROVE  FleetInv'
BY RoutineKeeps, ServerQuiet DEF fleetVars

LEMMA ProcessInv ==
  ASSUME FleetInv, NEW s \in Server, ProcessStep(s)
  PROVE  FleetInv' /\ [Next]_vars
<1>1. CASE Boot(s) \/ Crash(s)
  BY <1>1, BootInv, CrashInv DEF Boot, Crash, vars
<1>2. CASE HeartbeatLoop(s)
  BY <1>2, RoutineInv, RoutineNext DEF HeartbeatLoop, Routine
<1>3. ASSUME NEW mode \in Modes, NEW answered \in BOOLEAN, EnsureRegistered(s, mode, answered)
      PROVE  FleetInv' /\ [Next]_vars
  BY <1>3, EnsureRegisteredInv, RoutineNext DEF EnsureRegistered, Routine
<1>4. ASSUME NEW mode \in Modes, Renew(s, mode) PROVE FleetInv' /\ [Next]_vars
  BY <1>4, RoutineInv, RoutineNext DEF Renew, Routine
<1> QED
  BY <1>1, <1>2, <1>3, <1>4 DEF ProcessStep

LEMMA InventoryInv ==
  ASSUME FleetInv, NEW s \in Server, InventoryStep(s)
  PROVE  FleetInv' /\ [Next]_vars
<1>1. ASSUME NEW mode \in Modes, ListContainers(s, mode) PROVE FleetInv' /\ [Next]_vars
  BY <1>1, ListContainersInv DEF ListContainers, vars
<1>2. CASE StampReport(s)
  BY <1>2, StampReportInv DEF StampReport, vars
<1>3. ASSUME NEW answered \in BOOLEAN, DeliverReport(s, answered) PROVE FleetInv' /\ [Next]_vars
  BY <1>3, DeliverReportInv, RoutineNext
<1>4. ASSUME NEW lost \in BOOLEAN, GiveUpReport(s, lost) PROVE FleetInv' /\ [Next]_vars
  BY <1>4, GiveUpReportInv DEF GiveUpReport, vars
<1> QED
  BY <1>1, <1>2, <1>3, <1>4 DEF InventoryStep

LEMMA CommandInv ==
  ASSUME FleetInv, NEW s \in Server, CommandStep(s)
  PROVE  FleetInv' /\ [Next]_vars
<1>1. ASSUME NEW answered \in BOOLEAN, Poll(s, answered) PROVE FleetInv' /\ [Next]_vars
  BY <1>1, PollInv
<1>2. ASSUME NEW c \in Command,
             Recall(s, c) \/ RefuseStart(s, c) \/ CreateContainer(s, c) \/ StopContainer(s, c)
      PROVE  FleetInv' /\ [Next]_vars
  BY <1>2, RecallInv, RefuseStartInv, CreateContainerInv, StopContainerInv
  DEF Recall, RefuseStart, CreateContainer, StopContainer, vars
<1>3. CASE LaunchContainer(s) \/ Remember(s)
  BY <1>3, LaunchContainerInv, RememberInv DEF LaunchContainer, Remember, vars
<1>4. CASE Acknowledge(s) \/ GiveUpAck(s)
  BY <1>4, AcknowledgeInv, GiveUpAckInv
<1> QED
  BY <1>1, <1>2, <1>3, <1>4 DEF CommandStep

LEMMA FleetNextInv ==
  ASSUME FleetInv, [FleetNext]_allVars
  PROVE  FleetInv' /\ [Next]_vars
<1>1. CASE \E s \in Server : ProcessStep(s) \/ InventoryStep(s) \/ CommandStep(s)
  BY <1>1, ProcessInv, InventoryInv, CommandInv
<1>2. CASE \E m \in lateReports : LateReport(m)
  BY <1>2, LateReportInv, RoutineNext
<1>3. CASE \E m \in lateAcks : LateAck(m)
  BY <1>3, LateAckInv
<1>4. CASE \E j \in Job : Exit(j)
  BY <1>4, ExitInv DEF Exit, vars
<1>5. CASE /\ Tick \/ ControllerStep \/ (\E j \in Job : CreateJob(j) \/ StopJob(j))
           /\ UNCHANGED fleetVars
  BY <1>5, RoutineInv, RoutineNext DEF Routine
<1>6. CASE UNCHANGED allVars
  BY <1>6, RoutineInv, RoutineNext DEF Routine, allVars
<1> QED
  BY <1>1, <1>2, <1>3, <1>4, <1>5, <1>6 DEF FleetNext

LEMMA FleetInitInv == FleetInit => FleetInv
<1> SUFFICES ASSUME FleetInit PROVE FleetInv
  OBVIOUS
<1>1. Inv /\ Ordered /\ Clock
  BY InitInv, OrderedInit DEF FleetInit, Init, Clock
<1>2. NewAgent \in Agent /\ AgentOK(NewAgent)
  <2>1. NewAgent \in Agent
    BY AtRest, ControlPlaneAssumption DEF NewAgent, Agent
  <2> QED
    BY <2>1 DEF NewAgent, AgentOK, Resting, NoScan
<1>3. /\ agents \in [Server -> Agent] /\ \A s \in Server : agents[s] = NewAgent
      /\ docker \in [Job -> ContainerState] /\ \A j \in Job : docker[j] = "none"
      /\ lateReports = {} /\ lateAcks = {}
  BY <1>2 DEF FleetInit, ContainerState
<1>4. Shape
  BY <1>2, <1>3 DEF Shape
<1>5. Held(NewAgent) = {} /\ Launching(NewAgent) = {} /\ Claims(NewAgent) = {}
  BY DEF Held, Launching, Claims, NewAgent, Resting
<1>6. \A j \in Job : NewAgent.scan.containers[j] = "none"
  BY DEF NewAgent, NoScan
<1>7. \A c \in Command : commands[c].status = "NONE"
  BY DEF FleetInit, Init, NoCommand
<1>8. HeldOK /\ LaunchOK
  BY <1>3, <1>5 DEF HeldOK, LaunchOK
<1>9. DockerOK /\ NoSharedGPU
  BY <1>3 DEF DockerOK, NoSharedGPU
<1>10. SightOK
  BY <1>3, <1>6 DEF SightOK, Sighted
<1>11. ClaimOK
  BY <1>3, <1>5, <1>7 DEF ClaimOK, Claimed
<1> QED
  BY <1>1, <1>4, <1>8, <1>9, <1>10, <1>11 DEF FleetInv

------------------------------------------------------------------------------
(* The theorems.                                                             *)

(* What agents, containers and messages say never contradicts the tables of
   the control plane: the inductive invariant of the whole system.           *)
THEOREM FleetConsistent == FleetSpec => []FleetInv
<1>1. FleetInv /\ [FleetNext]_allVars => FleetInv'
  BY FleetNextInv
<1> QED
  BY <1>1, FleetInitInv, PTL DEF FleetSpec

(* The agents of internal/agent, however they die and whatever the network
   does, are agents as module ControlPlane supposes them: a report of theirs,
   however late, shows only containers whose START was handed out there, and
   they acknowledge only what a poll gave them.                              *)
THEOREM FleetRefines == FleetSpec => ImplementsControlPlane
<1>1. FleetInit => Init
  BY DEF FleetInit
<1>2. FleetInv /\ [FleetNext]_allVars => [Next]_vars
  BY FleetNextInv
<1> QED
  BY <1>1, <1>2, FleetConsistent, PTL DEF FleetSpec, ImplementsControlPlane, Spec

(* State files, engines and messages keep their shape, and nothing but the
   state file outlives an agent process.                                     *)
THEOREM FleetTyped == FleetSpec => []FleetTypeOK
<1>1. FleetInv => FleetTypeOK
  <2> SUFFICES ASSUME FleetInv PROVE FleetTypeOK
    OBVIOUS
  <2>1. Shape
    BY DEF FleetInv
  <2>2. \A s \in Server :
           /\ agents[s].phase = "DOWN" =>
                agents[s].batch = {} /\ agents[s].doing = Resting /\ agents[s].scan = NoScan
           /\ agents[s].phase \notin {"DOWN", "NEW"} => agents[s].enrolled
    BY <2>1 DEF Shape, AgentOK
  <2>3. \A m \in lateReports : m[1] \in Server /\ m[2].seq \in 1..MaxSeq
    BY <2>1 DEF Shape, FleetReport
  <2>4. \A m \in lateAcks : m[1] \in Command /\ m[2] \in BOOLEAN
    BY <2>1 DEF Shape
  <2> QED
    BY <2>1, <2>2, <2>3, <2>4 DEF Shape, FleetTypeOK
<1> QED
  BY <1>1, FleetConsistent, PTL

(* Two containers never run on one GPU: no crash, stale listing or late
   message defeats the agent's last look (GPUsAvailable).                    *)
THEOREM NeverShared == FleetSpec => []NoSharedGPU
<1>1. FleetInv => NoSharedGPU
  BY DEF FleetInv
<1> QED
  BY <1>1, FleetConsistent, PTL

(* A START that succeeded launched a container, whichever agent process
   answered and from which memory (StartManagedContainer, Remember).         *)
THEOREM StartsRan == FleetSpec => []StartMeansRan
<1>1. FleetInv => StartMeansRan
  <2> SUFFICES ASSUME FleetInv, NEW j \in Job, commands[StartOf(j)].status = "SUCCEEDED"
               PROVE  docker[j] \notin {"none", "created"}
    BY DEF StartMeansRan
  <2>1. StartOf(j) \in Claimed
    BY CommandOf DEF Claimed
  <2> QED
    BY <2>1, CommandOf DEF FleetInv, ClaimOK, Fulfilled
<1> QED
  BY <1>1, FleetConsistent, PTL

(* After a STOP succeeded nothing of the job runs or will: no agent, batch or
   half-done launch anywhere still holds its START.                          *)
THEOREM StopsStay == FleetSpec => []StoppedStays
<1>1. FleetInv => StoppedStays
  <2> SUFFICES ASSUME FleetInv, NEW j \in Job, NEW n \in 1..MaxStops,
                      commands[StopOf(j, n)].status = "SUCCEEDED"
               PROVE  docker[j] # "active" /\ \A s \in Server : StartOf(j) \notin Held(agents[s])
    BY CommandOf DEF StoppedStays, Held
  <2>1. StopOf(j, n) \in Claimed
    BY CommandOf DEF Claimed
  <2>2. StopHanded(j) /\ docker[j] # "active"
    BY <2>1, CommandOf DEF FleetInv, ClaimOK, Fulfilled, StopHanded
  <2>3. ASSUME NEW s \in Server, StartOf(j) \in Held(agents[s]) PROVE FALSE
    BY <2>2, <2>3, CommandOf DEF FleetInv, HeldOK, Assigned
  <2> QED
    BY <2>2, <2>3
<1> QED
  BY <1>1, FleetConsistent, PTL

(* A container that ended never runs again.                                  *)
LEMMA EndedStays ==
  ASSUME FleetInv, [FleetNext]_allVars, NEW j \in Job, docker[j] \in {"exited0", "exited1"}
  PROVE  docker'[j] = docker[j]
<1>1. docker \in [Job -> ContainerState]
  BY DEF FleetInv, Shape
<1>2. CASE docker' = docker
  BY <1>2
<1>3. ASSUME NEW s \in Server, LaunchContainer(s) PROVE docker'[j] = docker[j]
  <2>1. agents[s].doing.stage \in {"CREATED", "RESTART"}
    BY <1>3 DEF LaunchContainer
  <2>2. PICK c \in Starts : c = agents[s].doing.cmd
    BY <2>1, AgentIsOK DEF AgentOK
  <2>3. JobOf(c) \in Launching(agents[s])
    BY <2>1, <2>2, CommandParts DEF Launching, Command
  <2>4. JobOf(c) # j
    BY <2>3 DEF FleetInv, LaunchOK
  <2> QED
    BY <1>1, <1>3, <2>2, <2>4 DEF LaunchContainer
<1>4. ASSUME NEW s \in Server, NEW c \in Command, CreateContainer(s, c) \/ StopContainer(s, c)
      PROVE  docker'[j] = docker[j]
  BY <1>1, <1>4 DEF CreateContainer, StopContainer, LaunchedBefore
<1>5. ASSUME NEW k \in Job, Exit(k) PROVE docker'[j] = docker[j]
  BY <1>1, <1>5 DEF Exit
<1>6. ASSUME NEW s \in Server, ProcessStep(s) \/ InventoryStep(s) PROVE docker' = docker
  BY <1>6 DEF ProcessStep, InventoryStep, Boot, Crash, HeartbeatLoop, EnsureRegistered, Renew,
              ListContainers, StampReport, DeliverReport, GiveUpReport, fleetVars
<1>7. ASSUME NEW s \in Server, CommandStep(s) PROVE docker'[j] = docker[j]
  BY <1>2, <1>3, <1>4, <1>7
  DEF CommandStep, Poll, Recall, RefuseStart, Remember, Acknowledge, GiveUpAck
<1> QED
  BY <1>2, <1>5, <1>6, <1>7 DEF FleetNext, LateReport, LateAck, fleetVars, allVars

(* A job runs at most once, however often its START is delivered and wherever
   its agent died.                                                           *)
THEOREM OneRun == FleetSpec => RunsOnce
<1> DEFINE Ended == \A j \in Job : docker[j] \in {"exited0", "exited1"} => docker'[j] = docker[j]
<1>1. FleetInv /\ [FleetNext]_allVars => [Ended]_allVars
  BY EndedStays
<1> QED
  BY <1>1, FleetConsistent, PTL DEF FleetSpec, RunsOnce
=============================================================================
