----------------------------- MODULE StoreProofs -----------------------------
(***************************************************************************)
(* Three more things the memory store keeps right for any number of jobs,  *)
(* servers and GPUs: what it knows of the GPUs of each server (first       *)
(* part), which commands go with which job status (second part), and that  *)
(* to its users it is the pool of GPUs of module GpuPool (third part).     *)
(***************************************************************************)
EXTENDS ControlPlaneProofs

------------------------------------------------------------------------------
(* What a step may do to the record of a server.                             *)

(* Its GPUs, and what was last seen running there, stay; trust in that may
   be lost.                                                                  *)
KeepsGpus(s) ==
  /\ servers'[s].gpus = servers[s].gpus /\ servers'[s].active = servers[s].active
  /\ servers'[s].fresh \in {0, servers[s].fresh}

(* A job of the server was finished: its GPUs are derived again.             *)
Rederives(s) ==
  /\ servers'[s].gpus = Renormalize(jobs', s, servers[s])
  /\ servers'[s].active = servers[s].active /\ servers'[s].fresh = servers[s].fresh

Reserves(s) == \E j \in Job, snap \in Snapshot : CommitAssignment(j, snap) /\ snap.server = s

Replaces(s) == \E rep \in Reports(s) : ReplaceInventory(s, rep)

Changes(s) == KeepsGpus(s) \/ Rederives(s) \/ Reserves(s) \/ Replaces(s)

(* Releasing a job derives the GPUs of its server again, and of no other.    *)
LEMMA ReleaseChanges ==
  ASSUME Inv, NEW table, jobs' = table, NEW r \in Server, ReleaseOn(table, r), NEW s \in Server
  PROVE  KeepsGpus(s) \/ Rederives(s)
<1>1. servers[s] \in ServerRecord /\ servers[r] \in ServerRecord
  BY DEF Inv, TypeOK
<1>2. CASE s = r
  BY <1>1, <1>2 DEF ReleaseOn, Rederives, Inv, TypeOK, ServerRecord
<1>3. CASE s # r
  BY <1>1, <1>3 DEF ReleaseOn, KeepsGpus, Inv, TypeOK, ServerRecord
<1> QED
  BY <1>2, <1>3

LEMMA UnchangedChanges ==
  ASSUME UNCHANGED servers, NEW s \in Server
  PROVE  KeepsGpus(s)
BY DEF KeepsGpus

LEMMA RequestStopChanges ==
  ASSUME Inv, NEW j \in Job, RequestStop(j), NEW s \in Server
  PROVE  KeepsGpus(s) \/ Rederives(s)
<1>1. CASE CancelUndelivered(j)
  <2>1. jobs[j].server \in Server
    BY <1>1 DEF CancelUndelivered, Inv, TypeOK, JobRecord
  <2> QED
    BY <1>1, <2>1, ReleaseChanges DEF CancelUndelivered
<1>2. CASE CancelQueued(j) \/ StopDelivered(j) \/ NothingToStop(j)
  BY <1>2, UnchangedChanges DEF CancelQueued, StopDelivered, NothingToStop
<1> QED
  BY <1>1, <1>2 DEF RequestStop

LEMMA AckChanges ==
  ASSUME Inv, NEW c \in Command, NEW ok \in BOOLEAN, AckCommand(c, ok), NEW s \in Server
  PROVE  KeepsGpus(s) \/ Rederives(s)
<1> DEFINE j == JobOf(c)
           failed == [jobs EXCEPT ![j] = Released([@ EXCEPT !.status = "FAILED", !.why = "EXECUTION_ERROR"])]
<1>1. CASE UNCHANGED servers
  BY <1>1, UnchangedChanges
<1>2. CASE jobs' = failed /\ ReleaseOn(failed, jobs[j].server)
  <2>1. CASE jobs[j].server \in Server
    BY <1>2, <2>1, ReleaseChanges
  <2>2. CASE jobs[j].server \notin Server
    BY <1>2, <2>2 DEF ReleaseOn, KeepsGpus, Inv, TypeOK
  <2> QED
    BY <2>1, <2>2
<1> QED
  BY <1>1, <1>2 DEF AckCommand, AckStart, AckStop

LEMMA NextChanges ==
  ASSUME Inv, [Next]_vars, NEW s \in Server
  PROVE  Changes(s)
<1>0. servers \in [Server -> ServerRecord] /\ servers[s] \in ServerRecord
  BY DEF Inv, TypeOK
<1>1. CASE Tick \/ UNCHANGED vars
  BY <1>1, UnchangedChanges DEF Tick, vars, Changes
<1>2. CASE AgentStep
  <2>1. ASSUME NEW r \in Server, NEW mode \in Modes, Register(r, mode) PROVE KeepsGpus(s)
    BY <1>0, <2>1 DEF Register, KeepsGpus, ServerRecord
  <2>2. ASSUME NEW r \in Server, Heartbeat(r) PROVE KeepsGpus(s)
    BY <1>0, <2>2 DEF Heartbeat, KeepsGpus, ServerRecord
  <2>3. ASSUME NEW r \in Server, NEW rep \in Reports(r), ReplaceInventory(r, rep)
        PROVE  KeepsGpus(s) \/ Replaces(s)
    <3>1. CASE r = s
      BY <2>3, <3>1 DEF Replaces
    <3>2. CASE r # s
      BY <1>0, <2>3, <3>2 DEF ReplaceInventory, KeepsGpus
    <3> QED
      BY <3>1, <3>2
  <2>4. ASSUME NEW r \in Server, LeaseCommands(r) PROVE KeepsGpus(s)
    BY <2>4, UnchangedChanges DEF LeaseCommands
  <2> QED
    BY <1>2, <2>1, <2>2, <2>3, <2>4, AckChanges DEF AgentStep, Changes
<1>3. CASE UserStep
  <2>1. ASSUME NEW r \in Server, NEW drained \in BOOLEAN, SetServerDrained(r, drained)
        PROVE  KeepsGpus(s)
    BY <1>0, <2>1 DEF SetServerDrained, KeepsGpus, ServerRecord
  <2> QED
    BY <1>3, <2>1, UnchangedChanges, RequestStopChanges DEF UserStep, CreateJob, StopJob, Changes
<1>4. CASE ControllerStep
  <2>1. CASE MarkStaleServers
    BY <1>0, <2>1 DEF MarkStaleServers, KeepsGpus, ServerRecord, Changes
  <2>2. ASSUME NEW t \in Ticker, NEW j \in Job, HandleJob(t, j) PROVE Changes(s)
    <3>1. CASE CommitAssignment(j, sweep[t][j])
      <4>1. sweep[t][j] \in Snapshot
        BY DEF Inv, TypeOK
      <4>2. CASE sweep[t][j].server = s
        BY <3>1, <4>1, <4>2 DEF Reserves, Changes
      <4>3. CASE sweep[t][j].server # s
        BY <1>0, <3>1, <4>3 DEF CommitAssignment, KeepsGpus, Changes
      <4> QED
        BY <4>2, <4>3
    <3>2. CASE ~CommitAssignment(j, sweep[t][j])
      BY <2>2, <3>2, UnchangedChanges, RequestStopChanges
      DEF HandleJob, ExpireQueued, KeepWaiting, Changes
    <3> QED
      BY <3>1, <3>2
  <2> QED
    BY <1>4, <2>1, <2>2, UnchangedChanges DEF ControllerStep, Replan, ListJobs, Changes
<1> QED
  BY <1>1, <1>2, <1>3, <1>4 DEF Next

------------------------------------------------------------------------------
(* One home for each GPU.                                                    *)

(* Deriving the state of a GPU never lists or drops it, and never frees one
   that a container still uses.                                              *)
LEMMA NormalizeKeeps ==
  ASSUME NEW table, NEW s, NEW condition, NEW stray, NEW active, NEW legacy, NEW g \in GPU
  PROVE  LET view == Normalize(table, s, condition, stray, active, legacy)[g]
         IN /\ view.state = "ABSENT" <=> condition[g] = "ABSENT"
            /\ ManagedBy(table, active, s, g) # {} => view.state # "FREE"
<1> DEFINE managed == ManagedBy(table, active, s, g)
           reserved == ReservedBy(table, s, g)
           view == Normalize(table, s, condition, stray, active, legacy)[g]
<1>1. view.state =
        IF condition[g] \in {"ABSENT", "UNHEALTHY"} THEN condition[g]
        ELSE IF g \in legacy THEN "LEGACY"
        ELSE IF g \in stray \/ \E i, k \in managed : i # k THEN "UNKNOWN"
        ELSE IF managed # {} THEN "ALLOCATED"
        ELSE IF condition[g] = "UNKNOWN" THEN "UNKNOWN"
        ELSE IF reserved # {} THEN "RESERVED"
        ELSE "FREE"
  <2> HIDE DEF managed, reserved
  <2>1. view =
    LET unowned(state) == [state |-> state, owner |-> NONE]
        owned(state, owners) == [state |-> state, owner |-> CHOOSE j \in owners : TRUE]
    IN IF condition[g] \in {"ABSENT", "UNHEALTHY"} THEN unowned(condition[g])
       ELSE IF g \in legacy THEN unowned("LEGACY")
       ELSE IF g \in stray \/ \E i, k \in managed : i # k THEN unowned("UNKNOWN")
       ELSE IF managed # {} THEN owned("ALLOCATED", managed)
       ELSE IF condition[g] = "UNKNOWN" THEN unowned("UNKNOWN")
       ELSE IF reserved # {} THEN owned("RESERVED", reserved)
       ELSE unowned("FREE")
    BY DEF Normalize, managed, reserved
  <2> HIDE DEF view
  <2> QED
    BY <2>1
<1> HIDE DEF managed, view
<1>2. /\ view.state = "ABSENT" <=> condition[g] = "ABSENT"
      /\ managed # {} => view.state # "FREE"
  BY <1>1
<1> QED
  BY <1>2 DEF managed, view

(* Only an accepted report that could read the GPUs adds one to a server, and
   it lists no GPU of another server (ReplaceInventory).                     *)
LEMMA ListedBefore ==
  ASSUME Inv, NEW s \in Server, Changes(s), NEW g \in GPU,
         servers[s].gpus[g].state = "ABSENT", servers'[s].gpus[g].state # "ABSENT"
  PROVE  /\ \E rep \in Reports(s) : ReplaceInventory(s, rep)
         /\ \A r \in Server \ {s} : /\ servers'[r] = servers[r]
                                    /\ servers[r].gpus[g].state = "ABSENT"
<1>1. CASE KeepsGpus(s)
  BY <1>1 DEF KeepsGpus
<1>2. CASE Rederives(s)
  <2> DEFINE condition == [h \in GPU |-> StoredCondition(servers[s].gpus[h])]
  <2>1. condition[g] = "ABSENT"
    BY DEF StoredCondition
  <2>2. servers'[s].gpus = Normalize(jobs', s, condition, {}, servers[s].active, servers[s].legacy)
    BY <1>2 DEF Rederives, Renormalize
  <2> HIDE DEF condition
  <2>3. servers'[s].gpus[g].state = "ABSENT"
    BY <2>1, <2>2, NormalizeKeeps
  <2> QED
    BY <2>3
<1>3. CASE Reserves(s)
  <2>1. PICK j \in Job, snap \in Snapshot : CommitAssignment(j, snap) /\ snap.server = s
    BY <1>3 DEF Reserves
  <2>2. servers[s] \in ServerRecord /\ servers[s].gpus \in [GPU -> GPUView]
    BY DEF Inv, TypeOK, ServerRecord
  <2>3. servers'[s].gpus = [h \in GPU |-> IF h \in snap.gpus THEN [state |-> "RESERVED", owner |-> j]
                                           ELSE servers[s].gpus[h]]
    BY <2>1, <2>2 DEF CommitAssignment, Inv, TypeOK, ServerRecord
  <2>4. g \in snap.gpus => servers[s].gpus[g].state = "FREE"
    BY <2>1 DEF CommitAssignment, CommitAllowed, Allocatable
  <2> QED
    BY <2>3, <2>4
<1>4. ASSUME NEW rep \in Reports(s), ReplaceInventory(s, rep)
      PROVE  \A r \in Server \ {s} : /\ servers'[r] = servers[r]
                                     /\ servers[r].gpus[g].state = "ABSENT"
  <2>1. \A r \in Server \ {s} : servers'[r] = servers[r]
    BY <1>4 DEF ReplaceInventory, Inv, TypeOK
  <2> DEFINE gpus == servers'[s].gpus
  <2>2. GPUValid(rep.mode) /\ gpus[g].state # "ABSENT" => rep.gpus[g] # "ABSENT"
    <3>1. SUFFICES ASSUME GPUValid(rep.mode)
                   PROVE  gpus[g].state = "ABSENT" <=> ConditionsIn(rep)[g] = "ABSENT"
      BY DEF ConditionsIn
    <3>2. PICK table, active, legacy :
            gpus = Normalize(table, s, ConditionsIn(rep), Reported(rep, "STRAY"), active, legacy)
      BY <1>4, <3>1 DEF ReplaceInventory, Inv, TypeOK
    <3> QED
      BY <3>2, NormalizeKeeps
  <2>3. ~GPUValid(rep.mode) => gpus = servers[s].gpus
    BY <1>4 DEF ReplaceInventory, Inv, TypeOK
  <2>4. GPUValid(rep.mode) => ~Conflicting(s, rep)
    BY <1>4 DEF ReplaceInventory
  <2> QED
    BY <2>1, <2>2, <2>3, <2>4 DEF Conflicting
<1> QED
  BY <1>1, <1>2, <1>3, <1>4 DEF Changes, Replaces

LEMMA OneHomeNext ==
  ASSUME Inv, OneHome, [Next]_vars
  PROVE  OneHome'
<1> SUFFICES ASSUME NEW s \in Server, NEW r \in Server, NEW g \in GPU, s # r,
                    servers'[s].gpus[g].state # "ABSENT", servers'[r].gpus[g].state # "ABSENT"
             PROVE  FALSE
  BY DEF OneHome
<1>1. Changes(s) /\ Changes(r)
  BY NextChanges
<1>2. CASE servers[s].gpus[g].state = "ABSENT"
  BY <1>1, <1>2, ListedBefore
<1>3. CASE servers[r].gpus[g].state = "ABSENT"
  BY <1>1, <1>3, ListedBefore
<1> QED
  BY <1>2, <1>3 DEF OneHome

LEMMA OneHomeInit == Init => OneHome
BY DEF Init, Unregistered, OneHome

(* A GPU is listed by one server at a time, however reports, outages and
   registrations of any number of servers interleave (ReplaceInventory).     *)
THEOREM SingleHome == Spec => []OneHome
<1>1. Inv /\ Issued /\ OneHome /\ [Next]_vars => OneHome'
  BY OneHomeNext
<1> QED
  BY <1>1, OneHomeInit, Consistent, PTL DEF Spec

------------------------------------------------------------------------------
(* GPUs of containers that were seen to run.                                 *)

(* The GPU of an active container of a dispatched job is never derived FREE. *)
LEMMA ActiveNotFree ==
  ASSUME NEW table, NEW s, NEW condition, NEW stray, NEW active, NEW legacy,
         NEW j \in active, table[j].dispatched, table[j].server = s, NEW g \in GPU, g \in table[j].gpus
  PROVE  Normalize(table, s, condition, stray, active, legacy)[g].state # "FREE"
<1>1. j \in ManagedBy(table, active, s, g)
  BY DEF ManagedBy
<1> QED
  BY <1>1, NormalizeKeeps

LEMMA ActiveNext ==
  ASSUME Inv, Inv', ActiveProtected, [Next]_vars
  PROVE  ActiveProtected'
<1> SUFFICES ASSUME NEW s \in Server, servers'[s].fresh # 0, NEW j \in servers'[s].active,
                    jobs'[j].dispatched, jobs'[j].server = s, NEW g \in jobs'[j].gpus
             PROVE  servers'[s].gpus[g].state # "FREE"
  BY DEF ActiveProtected
<1>1. servers[s] \in ServerRecord /\ servers'[s] \in ServerRecord
  BY DEF Inv, TypeOK
<1>2. j \in Job
  BY <1>1 DEF ServerRecord
<1>3. jobs'[j] \in JobRecord /\ g \in GPU
  BY <1>2 DEF Inv, TypeOK, JobRecord
<1>4. Moves(j)
  BY <1>2, NextMoves
<1>5. CASE KeepsGpus(s)
  <2>1. CASE jobs[j].dispatched
    BY <1>4, <1>5, <2>1 DEF KeepsGpus, Moves, ActiveProtected
  <2>2. CASE ~jobs[j].dispatched
    <3>1. PICK snap \in Snapshot : CommitAssignment(j, snap)
      BY <1>4, <2>2 DEF Moves, Dispatches
    <3>2. jobs'[j].gpus = snap.gpus /\ jobs'[j].server = snap.server
      <4>1. jobs \in [Job -> JobRecord] /\ jobs[j].server = snap.server /\ jobs[j].gpus = snap.gpus
        BY <3>1 DEF CommitAssignment, CommitAllowed, Inv, TypeOK
      <4>2. jobs' = [jobs EXCEPT ![j] = [@ EXCEPT !.status = "STARTING", !.resv = "RESERVED",
                                                  !.dispatched = TRUE]]
        BY <3>1 DEF CommitAssignment
      <4> QED
        BY <1>2, <4>1, <4>2 DEF JobRecord
    <3>3. servers' = [servers EXCEPT ![s].gpus =
            [h \in GPU |-> IF h \in snap.gpus THEN [state |-> "RESERVED", owner |-> j] ELSE @[h]]]
      BY <3>1, <3>2 DEF CommitAssignment
    <3>4. servers'[s].gpus =
            [h \in GPU |-> IF h \in snap.gpus THEN [state |-> "RESERVED", owner |-> j]
                           ELSE servers[s].gpus[h]]
      BY <1>1, <3>3 DEF Inv, TypeOK, ServerRecord
    <3>5. servers'[s].gpus[g] = [state |-> "RESERVED", owner |-> j]
      BY <1>3, <3>2, <3>4
    <3> QED
      BY <3>5
  <2> QED
    BY <2>1, <2>2
<1>6. CASE Rederives(s)
  <2>1. PICK condition, legacy :
          servers'[s].gpus = Normalize(jobs', s, condition, {}, servers'[s].active, legacy)
    BY <1>6 DEF Rederives, Renormalize
  <2> QED
    BY <1>3, <2>1, ActiveNotFree
<1>7. CASE Reserves(s)
  <2>1. PICK k \in Job, snap \in Snapshot : CommitAssignment(k, snap) /\ snap.server = s
    BY <1>7 DEF Reserves
  <2>2. /\ servers'[s].gpus = [h \in GPU |-> IF h \in snap.gpus THEN [state |-> "RESERVED", owner |-> k]
                                              ELSE servers[s].gpus[h]]
        /\ servers'[s].active = servers[s].active /\ servers'[s].fresh = servers[s].fresh
    BY <1>1, <2>1 DEF CommitAssignment, Inv, TypeOK, ServerRecord
  <2>3. CASE j = k
    BY <1>2, <1>3, <2>1, <2>2, <2>3 DEF CommitAssignment, CommitAllowed, Inv, TypeOK, JobRecord
  <2>4. CASE j # k
    <3>1. jobs'[j] = jobs[j]
      BY <2>1, <2>4 DEF CommitAssignment, Inv, TypeOK
    <3> QED
      BY <1>3, <2>2, <3>1 DEF ActiveProtected
  <2> QED
    BY <2>3, <2>4
<1>8. ASSUME NEW rep \in Reports(s), ReplaceInventory(s, rep)
      PROVE  servers'[s].gpus[g].state # "FREE"
  <2>1. DockerValid(rep.mode) /\ GPUValid(rep.mode)
    BY <1>8 DEF ReplaceInventory, Inv, TypeOK
  <2>2. PICK condition, stray, legacy :
          servers'[s].gpus = Normalize(jobs', s, condition, stray, servers'[s].active, legacy)
    BY <1>8, <2>1 DEF ReplaceInventory, Inv, TypeOK
  <2> QED
    BY <1>3, <2>2, ActiveNotFree
<1>9. Changes(s)
  BY NextChanges
<1> QED
  BY <1>5, <1>6, <1>7, <1>8, <1>9 DEF Changes, Replaces

LEMMA ActiveInit == Init => ActiveProtected
BY DEF Init, Unregistered, ActiveProtected

(* What an inventory that is still trusted saw running keeps its GPUs, also
   when its job is finished meanwhile (normalizeGPUState, releaseLocked).    *)
THEOREM RunningProtected == Spec => []ActiveProtected
<1>1. Inv /\ Issued /\ Inv' /\ ActiveProtected /\ [Next]_vars => ActiveProtected'
  BY ActiveNext
<1> QED
  BY <1>1, ActiveInit, Consistent, PTL DEF Spec

------------------------------------------------------------------------------
(* Commands and job statuses.                                                *)

StartStatus(j) == commands[StartOf(j)].status
StopStatus(j, n) == commands[StopOf(j, n)].status
Live(j, n) == StopStatus(j, n) \notin {"NONE", "FAILED"}

(* Which commands a job has in each status.  At most one STOP is under way;
   it was handed out only when the START no longer could be.                 *)
Orders(j) ==
  /\ jobs[j].dispatched => StartStatus(j) # "NONE"
  /\ StartStatus(j) = "PENDING" => jobs[j].status = "STARTING"
  /\ ~Terminal(jobs[j].status) =>
       /\ jobs[j].status = "STOPPING" <=> \E n \in 1..MaxStops : Live(j, n)
       /\ \A n, m \in 1..MaxStops : Live(j, n) /\ Live(j, m) => n = m
  /\ \A n \in 1..MaxStops :
       /\ StopStatus(j, n) # "NONE" => StartStatus(j) \notin {"NONE", "PENDING"}
       /\ StopStatus(j, n) \notin {"NONE", "PENDING"} =>
            StartStatus(j) \in {"SUCCEEDED", "FAILED"} \/ Expired(j, now)

Ordered == Issued /\ \A j \in Job : Orders(j)

(* The command table keeps what it says of job j.                            *)
KeepsCommands(j) ==
  /\ commands'[StartOf(j)] = commands[StartOf(j)]
  /\ \A n \in 1..MaxStops : commands'[StopOf(j, n)] = commands[StopOf(j, n)]

(* Time only moves on, so a window that is over stays over.                  *)
LEMMA ExpiredForever ==
  ASSUME TypeOK, now' \in {now, now + 1}, NEW j \in Job, Expired(j, now)
  PROVE  Expired(j, now)'
BY DomainAssumption DEF TypeOK, Time, Expired

(* What becomes of a job whose commands stay: it may finish unless its START
   is still to be handed out, or move on among the statuses before STOPPING. *)
Proceeds(j) ==
  LET old == jobs[j].status
      new == jobs'[j].status
  IN \/ new = old
     \/ Terminal(new) /\ StartStatus(j) # "PENDING"
     \/ /\ ~Terminal(old) /\ ~Terminal(new)
        /\ old # "STOPPING" /\ new # "STOPPING"
        /\ StartStatus(j) # "PENDING"

LEMMA KeepsOrders ==
  ASSUME TypeOK, NEW j \in Job, Orders(j), KeepsCommands(j), Proceeds(j),
         now' \in {now, now + 1}, jobs'[j].dispatched = jobs[j].dispatched
  PROVE  Orders(j)'
<1>1. /\ StartStatus(j)' = StartStatus(j)
      /\ \A n \in 1..MaxStops : StopStatus(j, n)' = StopStatus(j, n) /\ (Live(j, n)' <=> Live(j, n))
  BY DEF KeepsCommands, StartStatus, StopStatus, Live, StartOf, StopOf
<1>2. Expired(j, now) => Expired(j, now)'
  BY ExpiredForever
<1>3. (StartStatus(j) = "PENDING" => jobs'[j].status = "STARTING")
  BY DEF Orders, Proceeds
<1>4. ~Terminal(jobs'[j].status) =>
        /\ ~Terminal(jobs[j].status)
        /\ jobs'[j].status = "STOPPING" <=> jobs[j].status = "STOPPING"
  BY DEF Proceeds
<1> QED
  BY <1>1, <1>2, <1>3, <1>4 DEF Orders

LEMMA UnchangedOrders ==
  ASSUME TypeOK, NEW j \in Job, Orders(j), jobs'[j] = jobs[j], UNCHANGED commands,
         now' \in {now, now + 1}
  PROVE  Orders(j)'
BY KeepsOrders DEF KeepsCommands, Proceeds

(* RequestStop cancels what cannot have been launched, and issues a STOP only
   while none is under way.                                                  *)
LEMMA RequestStopOrders ==
  ASSUME Inv, Ordered, NEW k \in Job, RequestStop(k), now' = now, NEW j \in Job
  PROVE  Orders(j)'
<1>0. /\ jobs \in [Job -> JobRecord] /\ commands \in [Command -> CommandRecord]
      /\ jobs[k] \in JobRecord /\ ShapedJob(jobs[k]) /\ TypeOK /\ Orders(j)
  BY DEF Inv, TypeOK, Shaped, Ordered
<1>1. CASE j # k
  <2>1. jobs'[j] = jobs[j]
    BY <1>0, <1>1 DEF RequestStop, CancelQueued, CancelUndelivered, StopDelivered, NothingToStop
  <2>2. KeepsCommands(j)
    <3>1. /\ StartOf(j) # StartOf(k)
          /\ \A n, m \in 1..MaxStops : /\ StopOf(j, n) # StartOf(k)
                                       /\ StopOf(j, n) # StopOf(k, m)
                                       /\ StartOf(j) # StopOf(k, m)
      BY <1>1 DEF StartOf, StopOf
    <3>2. CASE CancelQueued(k) \/ NothingToStop(k)
      BY <3>2 DEF CancelQueued, NothingToStop, KeepsCommands
    <3>3. CASE CancelUndelivered(k)
      BY <1>0, <3>1, <3>3, StartIsCommand DEF CancelUndelivered, KeepsCommands
    <3>4. CASE StopDelivered(k)
      BY <1>0, <3>1, <3>4, StartIsCommand DEF StopDelivered, KeepsCommands
    <3> QED
      BY <3>2, <3>3, <3>4 DEF RequestStop
  <2> QED
    BY <1>0, <2>1, <2>2, KeepsOrders DEF Proceeds
<1>2. CASE j = k /\ CancelQueued(k)
  <2>1. jobs'[j].dispatched = jobs[j].dispatched /\ jobs'[j].status = "CANCELLED"
    BY <1>0, <1>2 DEF CancelQueued, Transition, JobRecord, Terminal
  <2>2. StartStatus(j) # "PENDING"
    BY <1>0, <1>2 DEF CancelQueued, Orders
  <2>3. KeepsCommands(j)
    BY <1>2 DEF CancelQueued, KeepsCommands
  <2> QED
    BY <1>0, <2>1, <2>2, <2>3, KeepsOrders DEF Proceeds, Terminal
<1>3. CASE j = k /\ CancelUndelivered(k)
  <2>1. jobs'[j].dispatched = jobs[j].dispatched /\ Terminal(jobs'[j].status)
    BY <1>0, <1>3 DEF CancelUndelivered, Stoppable, Released, Transition, JobRecord, Terminal
  <2>2. CASE jobs[j].dispatched
    <3>1. StartStatus(j) = "PENDING" /\ StartStatus(j)' = "FAILED"
      BY <1>0, <1>3, <2>2, StartIsCommand DEF CancelUndelivered, StartStatus, CommandRecord
    <3>2. \A n \in 1..MaxStops : StopStatus(j, n)' = StopStatus(j, n)
      BY <1>0, <1>3, <2>2, StartIsCommand DEF CancelUndelivered, StopStatus
    <3> QED
      BY <1>0, <2>1, <3>1, <3>2 DEF Orders
  <2>3. CASE ~jobs[j].dispatched
    <3>1. KeepsCommands(j)
      BY <1>3, <2>3 DEF CancelUndelivered, KeepsCommands
    <3>2. StartStatus(j) # "PENDING"
      BY <2>3 DEF Ordered, Issued, StartStatus
    <3> QED
      BY <1>0, <2>1, <3>1, <3>2, KeepsOrders DEF Proceeds
  <2> QED
    BY <2>2, <2>3
<1>4. CASE j = k /\ StopDelivered(k)
  <2>1. PICK n \in 1..MaxStops :
          /\ \A m \in 1..MaxStops : commands[StopOf(k, m)].status = "NONE" <=> m >= n
          /\ commands' = [commands EXCEPT ![StopOf(k, n)].status = "PENDING"]
    BY <1>4 DEF StopDelivered
  <2>2. jobs'[j].dispatched /\ jobs[j].dispatched /\ jobs'[j].status = "STOPPING"
    BY <1>0, <1>4 DEF StopDelivered, JobRecord
  <2>3. StartStatus(j)' = StartStatus(j) /\ StartStatus(j) \notin {"NONE", "PENDING"}
    BY <1>0, <1>4, <2>1, <2>2, StartIsCommand DEF StopDelivered, StartStatus, Orders
  <2>4. /\ StopStatus(j, n)' = "PENDING" /\ StopStatus(j, n) = "NONE"
        /\ \A m \in (1..MaxStops) \ {n} : StopStatus(j, m)' = StopStatus(j, m)
    <3>1. \A m \in 1..MaxStops : StopOf(k, m) \in Command /\ (StopOf(k, m) = StopOf(k, n) => m = n)
      BY StartIsCommand DEF StopOf
    <3>2. commands[StopOf(k, n)] \in CommandRecord
      BY <1>0, <3>1
    <3>3. n >= n
      BY ControlPlaneAssumption
    <3> QED
      BY <1>0, <1>4, <2>1, <3>1, <3>2, <3>3 DEF StopStatus, CommandRecord
  <2>5. \A m \in 1..MaxStops : ~Live(j, m)
    BY <1>0, <1>4 DEF StopDelivered, Stoppable, Orders
  <2>6. \A m \in 1..MaxStops : Live(j, m)' <=> m = n
    BY <2>4, <2>5 DEF Live
  <2> QED
    BY <1>0, <2>2, <2>3, <2>4, <2>6 DEF Orders
<1>5. CASE j = k /\ NothingToStop(k)
  BY <1>0, <1>5, UnchangedOrders DEF NothingToStop
<1> QED
  BY <1>1, <1>2, <1>3, <1>4, <1>5 DEF RequestStop

(* A report settles only jobs whose container can exist, so whose START was
   handed out (Launched, AbsenceProven).                                     *)
LEMMA ReplaceInventoryOrders ==
  ASSUME Inv, Ordered, NEW s \in Server, NEW rep \in Reports(s), ReplaceInventory(s, rep), NEW j \in Job
  PROVE  Orders(j)'
<1>0. /\ jobs[j] \in JobRecord /\ ShapedJob(jobs[j]) /\ TypeOK /\ Orders(j)
      /\ rep.containers[j] \in ContainerState
  BY DEF Inv, TypeOK, Shaped, Ordered, Reports
<1>1. UNCHANGED <<now, commands>> /\ jobs'[j] \in {jobs[j], Reconciled(s, j, rep)}
  BY DEF ReplaceInventory
<1>2. jobs'[j].dispatched = jobs[j].dispatched
  BY <1>0, <1>1 DEF Reconciled, Reconcilable, Exited, Missing, Released, Transition, JobRecord
<1>3. Proceeds(j)
  <2>1. CASE jobs'[j] = jobs[j]
    BY <2>1 DEF Proceeds
  <2>2. CASE jobs'[j] = Reconciled(s, j, rep) /\ jobs'[j] # jobs[j]
    <3>1. Reconcilable(jobs[j], s)
      BY <2>2 DEF Reconciled
    <3>2. StartStatus(j) # "PENDING"
      <4>1. CASE rep.containers[j] # "none"
        BY <4>1 DEF Reports, Launched, StartStatus
      <4>2. CASE rep.containers[j] = "none"
        <5>1. AbsenceProven(j, rep.observedAt)
          BY <2>2, <4>2 DEF Reconciled
        <5> QED
          BY <1>0, <5>1 DEF AbsenceProven, StartStatus, Orders
      <4> QED
        BY <4>1, <4>2
    <3>3. CASE rep.containers[j] = "active"
      <4>1. jobs'[j].status = IF jobs[j].status \in {"ASSIGNED", "STARTING"} THEN "RUNNING"
                              ELSE jobs[j].status
        BY <1>0, <2>2, <3>1, <3>3 DEF Reconciled, JobRecord
      <4> QED
        BY <3>2, <4>1 DEF Proceeds, Terminal
    <3>4. CASE rep.containers[j] \in {"exited0", "exited1"}
      <4>1. jobs'[j] = Exited(jobs[j], rep.containers[j])
        BY <2>2, <3>1, <3>4 DEF Reconciled
      <4>2. Terminal(jobs'[j].status)
        BY <1>0, <4>1 DEF Exited, Released, Terminal, JobRecord
      <4> QED
        BY <3>2, <4>2 DEF Proceeds
    <3>5. CASE rep.containers[j] \in {"none", "created"}
      <4>1. jobs'[j] = Missing(jobs[j])
        BY <2>2, <3>1, <3>5 DEF Reconciled
      <4>2. Terminal(jobs'[j].status)
        BY <1>0, <4>1, <3>1 DEF Missing, Transition, Released, Terminal, JobRecord, Reconcilable
      <4> QED
        BY <3>2, <4>2 DEF Proceeds
    <3> QED
      BY <1>0, <3>3, <3>4, <3>5 DEF ContainerState
  <2> QED
    BY <1>1, <2>1, <2>2
<1> QED
  BY <1>0, <1>1, <1>2, <1>3, KeepsOrders DEF KeepsCommands

(* A poll hands out a STOP only when the START is settled, or can no longer be
   handed out because the window is over (LeaseCommands).                    *)
LEMMA LeaseOrders ==
  ASSUME Inv, Ordered, NEW s \in Server, LeaseCommands(s), NEW j \in Job
  PROVE  /\ Orders(j)'
         /\ \A n \in 1..MaxStops : StopStatus(j, n)' \notin {"NONE", "PENDING"} =>
              \/ commands'[StartOf(j)] = commands[StartOf(j)]
              \/ StartStatus(j)' \in {"SUCCEEDED", "FAILED"}
<1>0. Orders(j) /\ TypeOK /\ UNCHANGED <<now, jobs>>
  BY DEF Ordered, Inv, LeaseCommands
<1>1. ASSUME NEW c \in Command
      PROVE  \/ ~Leasable(s, c) /\ commands'[c] = commands[c]
             \/ /\ Leasable(s, c) /\ commands[c].status \in {"PENDING", "DELIVERED"}
                /\ commands'[c].status = "DELIVERED"
  <2>1. commands[c] \in CommandRecord
    BY DEF Inv, TypeOK
  <2> QED
    BY <2>1 DEF LeaseCommands, Leasable, CommandRecord
<1>2. /\ StartOf(j) \in Command /\ StartOf(j) \in Starts /\ JobOf(StartOf(j)) = j
      /\ \A n \in 1..MaxStops : /\ StopOf(j, n) \in Command /\ StopOf(j, n) \notin Starts
                                /\ JobOf(StopOf(j, n)) = j
  BY DEF StartOf, StopOf, Command, Starts, Stops, JobOf
<1>3. Leasable(s, StartOf(j)) => ~Expired(j, now) /\ ~Terminal(jobs[j].status)
  BY <1>2, DomainAssumption DEF Leasable, StartDeliverable, Contains, Expired, TypeOK, Inv, Time
<1>4. ASSUME NEW n \in 1..MaxStops, Leasable(s, StopOf(j, n))
      PROVE  /\ StartStatus(j) # "PENDING"
             /\ StartStatus(j) = "DELIVERED" => Expired(j, now)
  BY <1>2, <1>4 DEF Leasable, HeldBack, StartStatus
<1>5. \A n \in 1..MaxStops :
        \/ StopStatus(j, n)' = StopStatus(j, n)
        \/ /\ Leasable(s, StopOf(j, n)) /\ StopStatus(j, n)' = "DELIVERED"
           /\ StopStatus(j, n) \in {"PENDING", "DELIVERED"}
  BY <1>1, <1>2 DEF StopStatus
<1>6. \/ commands'[StartOf(j)] = commands[StartOf(j)]
      \/ /\ Leasable(s, StartOf(j)) /\ StartStatus(j)' = "DELIVERED"
         /\ StartStatus(j) \in {"PENDING", "DELIVERED"}
  BY <1>1, <1>2 DEF StartStatus
<1>7. StartStatus(j)' = StartStatus(j) \/ (Leasable(s, StartOf(j)) /\ StartStatus(j)' = "DELIVERED"
                                            /\ StartStatus(j) \in {"PENDING", "DELIVERED"})
  BY <1>6 DEF StartStatus, StartOf
<1>8. \A n \in 1..MaxStops : Live(j, n)' <=> Live(j, n)
  BY <1>5 DEF Live
<1>9. StartStatus(j) \in {"NONE", "PENDING", "DELIVERED", "SUCCEEDED", "FAILED"}
  BY <1>2 DEF Inv, TypeOK, CommandRecord, CommandStatus, StartStatus
<1>10. \A n \in 1..MaxStops :
         /\ StopStatus(j, n)' # "NONE" => StartStatus(j)' \notin {"NONE", "PENDING"}
         /\ StopStatus(j, n)' \notin {"NONE", "PENDING"} =>
              /\ StartStatus(j)' \in {"SUCCEEDED", "FAILED"} \/ Expired(j, now)
              /\ ~Leasable(s, StartOf(j)) \/ StartStatus(j) \in {"SUCCEEDED", "FAILED"}
  BY <1>0, <1>3, <1>4, <1>5, <1>7, <1>9 DEF Orders
<1>11. Expired(j, now)' <=> Expired(j, now)
  BY <1>0 DEF Expired
<1>12. StartStatus(j)' = "PENDING" => StartStatus(j) = "PENDING"
  BY <1>7
<1>13. StartStatus(j) # "NONE" => StartStatus(j)' # "NONE"
  BY <1>7
<1>14. Orders(j)'
  BY <1>0, <1>8, <1>10, <1>11, <1>12, <1>13 DEF Orders
<1> QED
  BY <1>6, <1>7, <1>10, <1>14

(* The acknowledgement of a START settles it; that of a STOP that failed
   takes the job out of STOPPING, and no other STOP is under way
   (applyAckLocked).                                                         *)
LEMMA AckOrders ==
  ASSUME Inv, Ordered, NEW c \in Command, NEW ok \in BOOLEAN, AckCommand(c, ok), NEW j \in Job
  PROVE  Orders(j)'
<1> DEFINE k == JobOf(c)
           final == IF ok THEN "SUCCEEDED" ELSE "FAILED"
<1>0. /\ jobs \in [Job -> JobRecord] /\ commands \in [Command -> CommandRecord]
      /\ jobs[j] \in JobRecord /\ ShapedJob(jobs[j]) /\ TypeOK /\ Orders(j) /\ k \in Job /\ now' = now
  BY DEF Inv, TypeOK, Shaped, Ordered, AckCommand, JobOf, Command, Starts, Stops
<1>1. /\ commands[c].status = "DELIVERED" /\ commands'[c].status = final
      /\ \A d \in Command \ {c} : commands'[d] = commands[d]
  BY <1>0 DEF AckCommand, Acked
<1>2. Expired(j, now)' <=> Expired(j, now)
  BY <1>0 DEF Expired
<1>3. CASE k # j
  <2>1. jobs'[j] = jobs[j]
    BY <1>0, <1>3 DEF AckCommand, AckStart, AckStop
  <2>2. KeepsCommands(j)
    BY <1>1, <1>3, StartIsCommand DEF KeepsCommands, StartOf, StopOf, JobOf
  <2> QED
    BY <1>0, <2>1, <2>2, KeepsOrders DEF Proceeds
<1>4. CASE k = j /\ c \in Starts
  <2>1. c = StartOf(j)
    BY <1>4 DEF Starts, StartOf, JobOf
  <2>2. StartStatus(j) = "DELIVERED" /\ StartStatus(j)' = final
    BY <1>1, <2>1 DEF StartStatus, StartOf
  <2>3. \A n \in 1..MaxStops : StopStatus(j, n)' = StopStatus(j, n)
    BY <1>1, <2>1, StartIsCommand DEF StopStatus, StopOf
  <2>4. /\ jobs'[j].dispatched = jobs[j].dispatched
        /\ \/ jobs'[j].status = jobs[j].status
           \/ jobs[j].status = "ASSIGNED" /\ jobs'[j].status = "STARTING"
           \/ Terminal(jobs'[j].status)
    <3>1. AckStart(j, ok)
      BY <1>4 DEF AckCommand
    <3>2. \/ jobs'[j] = jobs[j]
          \/ jobs'[j] = [jobs[j] EXCEPT !.status = IF @ = "ASSIGNED" THEN "STARTING" ELSE @]
          \/ jobs'[j] = Released([jobs[j] EXCEPT !.status = "FAILED", !.why = "EXECUTION_ERROR"])
      BY <1>0, <3>1 DEF AckStart
    <3> QED
      BY <1>0, <3>2 DEF Released, JobRecord, Terminal
  <2>5. \A n \in 1..MaxStops : Live(j, n)' <=> Live(j, n)
    BY <2>3 DEF Live
  <2>6. Terminal(jobs[j].status) => jobs'[j].status = jobs[j].status
    BY <1>0, <1>4 DEF AckCommand, AckStart, Terminal
  <2>7. ~Terminal("STARTING") /\ ~Terminal("ASSIGNED")
    BY DEF Terminal
  <2>8. ~Terminal(jobs'[j].status) =>
          /\ ~Terminal(jobs[j].status)
          /\ jobs'[j].status = "STOPPING" <=> jobs[j].status = "STOPPING"
    BY <2>4, <2>6, <2>7
  <2>9. StartStatus(j)' \in {"SUCCEEDED", "FAILED"}
    BY <2>2
  <2> QED
    BY <1>0, <2>2, <2>3, <2>4, <2>5, <2>8, <2>9 DEF Orders
<1>5. CASE k = j /\ c \in Stops
  <2>1. PICK n \in 1..MaxStops : c = StopOf(j, n)
    BY <1>5 DEF Stops, StopOf, JobOf
  <2>2. StartStatus(j)' = StartStatus(j)
    BY <1>1, <2>1, StartIsCommand DEF StartStatus, StartOf
  <2>3. /\ StopStatus(j, n) = "DELIVERED" /\ StopStatus(j, n)' = final
        /\ \A m \in (1..MaxStops) \ {n} : StopStatus(j, m)' = StopStatus(j, m)
    BY <1>1, <2>1, StartIsCommand DEF StopStatus, StopOf
  <2>4. jobs'[j].dispatched = jobs[j].dispatched
        /\ jobs'[j].status = IF ~ok /\ jobs[j].status = "STOPPING" THEN "RUNNING" ELSE jobs[j].status
    BY <1>0, <1>5, StartIsCommand, <2>1 DEF AckCommand, AckStop, JobRecord, Starts, StopOf
  <2>5. Live(j, n) /\ (Live(j, n)' <=> ok)
    BY <2>3 DEF Live
  <2>6. \A m \in (1..MaxStops) \ {n} : Live(j, m)' <=> Live(j, m)
    BY <2>3 DEF Live
  <2>7. ~Terminal(jobs'[j].status) =>
          /\ jobs'[j].status = "STOPPING" <=> \E m \in 1..MaxStops : Live(j, m)'
          /\ \A m, i \in 1..MaxStops : Live(j, m)' /\ Live(j, i)' => m = i
    <3> SUFFICES ASSUME ~Terminal(jobs'[j].status)
                 PROVE  /\ jobs'[j].status = "STOPPING" <=> \E m \in 1..MaxStops : Live(j, m)'
                        /\ \A m, i \in 1..MaxStops : Live(j, m)' /\ Live(j, i)' => m = i
      OBVIOUS
    <3>1. ~Terminal(jobs[j].status)
      BY <2>4 DEF Terminal
    <3>2. jobs[j].status = "STOPPING" /\ \A m \in 1..MaxStops : Live(j, m) => m = n
      BY <1>0, <2>5, <3>1 DEF Orders
    <3> QED
      BY <2>4, <2>5, <2>6, <3>2
  <2>8. StartStatus(j) = "PENDING" => jobs'[j].status = "STARTING"
    BY <1>0, <2>4 DEF Orders
  <2>9. \A m \in 1..MaxStops :
          /\ StopStatus(j, m)' # "NONE" => StopStatus(j, m) # "NONE"
          /\ StopStatus(j, m)' \notin {"NONE", "PENDING"} => StopStatus(j, m) \notin {"NONE", "PENDING"}
    BY <2>3
  <2> QED
    BY <1>0, <1>2, <2>2, <2>4, <2>7, <2>8, <2>9 DEF Orders
<1> QED
  BY <1>3, <1>4, <1>5 DEF Command

(* Planning concerns jobs that have no command.                              *)
LEMMA ReplanOrders ==
  ASSUME Inv, Ordered, NEW at, Replan(at), NEW j \in Job
  PROVE  Orders(j)'
<1>0. /\ jobs[j] \in JobRecord /\ ShapedJob(jobs[j]) /\ TypeOK /\ Orders(j)
      /\ UNCHANGED <<now, commands>>
  BY DEF Inv, TypeOK, Shaped, Ordered, Replan
<1>v. PICK visible \in SUBSET Job : Replanned(visible, at)
  BY SomePlanned
<1> DEFINE candidates == {i \in visible : Replannable(jobs[i], i, at)}
<1>1. PICK plan \in [candidates -> Placement \cup {NoPlacement}] : jobs' = Book(jobs, plan, candidates)
  BY <1>v DEF Replanned
<1>2. CASE j \notin candidates
  BY <1>0, <1>1, <1>2, UnchangedOrders DEF Book
<1>3. CASE j \in candidates
  <2>1. jobs'[j] = Unbook(jobs[j]) \/ jobs'[j] = Booked(jobs[j], plan[j])
    BY <1>1, <1>3 DEF Book
  <2>2. jobs'[j].dispatched = jobs[j].dispatched /\ jobs'[j].status \in {"QUEUED", "ASSIGNED"}
    BY <1>0, <2>1 DEF Unbook, Booked, JobRecord
  <2>3. jobs[j].status \in {"QUEUED", "ASSIGNED"}
    BY <1>3 DEF Replannable
  <2>4. Proceeds(j)
    BY <1>0, <2>2, <2>3 DEF Orders, Proceeds, Terminal
  <2> QED
    BY <1>0, <2>2, <2>4, KeepsOrders DEF KeepsCommands
<1> QED
  BY <1>2, <1>3

(* Only the commit issues a START, and only for a job that never had one; the
   expiry of a queued job and a note on a waiting one leave others alone
   (SetJobStatus).                                                           *)
LEMMA HandleJobOrders ==
  ASSUME Inv, Ordered, NEW t \in Ticker, NEW k \in Job, HandleJob(t, k), NEW j \in Job
  PROVE  Orders(j)'
<1> DEFINE snap == sweep[t][k]
<1>0. /\ jobs \in [Job -> JobRecord] /\ commands \in [Command -> CommandRecord]
      /\ jobs[k] \in JobRecord /\ ShapedJob(jobs[k]) /\ TypeOK /\ Orders(j) /\ Orders(k) /\ now' = now
  BY DEF Inv, TypeOK, Shaped, Ordered, HandleJob
<1>1. CASE RequestStop(k)
  BY <1>0, <1>1, RequestStopOrders
<1>2. CASE UNCHANGED <<servers, jobs, commands>>
  BY <1>0, <1>2, UnchangedOrders
<1>3. CASE ExpireQueued(k)
  <2>1. CASE j # k \/ jobs[k].status # "QUEUED"
    <3>1. jobs'[j] = jobs[j] /\ UNCHANGED commands
      BY <1>0, <1>3, <2>1 DEF ExpireQueued
    <3> QED
      BY <1>0, <3>1, UnchangedOrders
  <2>2. CASE j = k /\ jobs[k].status = "QUEUED"
    <3>1. jobs'[j].dispatched = jobs[j].dispatched /\ jobs'[j].status = "FAILED" /\ UNCHANGED commands
      BY <1>0, <1>3, <2>2 DEF ExpireQueued, Released, Transition, JobRecord, Terminal
    <3>2. Proceeds(j)
      BY <1>0, <2>2, <3>1 DEF Orders, Proceeds, Terminal
    <3> QED
      BY <1>0, <3>1, <3>2, KeepsOrders DEF KeepsCommands
  <2> QED
    BY <2>1, <2>2
<1>4. CASE KeepWaiting(k, snap)
  <2>1. jobs'[j].status = jobs[j].status /\ jobs'[j].dispatched = jobs[j].dispatched
    BY <1>0, <1>4 DEF KeepWaiting, NoteWaiting, Transition, JobRecord, Terminal
  <2> QED
    BY <1>0, <1>4, <2>1, KeepsOrders DEF KeepWaiting, KeepsCommands, Proceeds
<1>5. CASE CommitAssignment(k, snap)
  <2>1. CASE j # k
    <3>1. jobs'[j] = jobs[j] /\ KeepsCommands(j)
      BY <1>0, <1>5, <2>1, StartIsCommand DEF CommitAssignment, KeepsCommands
    <3> QED
      BY <1>0, <3>1, KeepsOrders DEF Proceeds
  <2>2. CASE j = k
    <3>1. ~jobs[j].dispatched /\ jobs'[j].status = "STARTING"
      BY <1>0, <1>5, <2>2 DEF CommitAssignment, CommitAllowed, JobRecord
    <3>2. StartStatus(j) = "NONE"
      BY <3>1 DEF Ordered, Issued, StartStatus
    <3>3. /\ StartStatus(j)' = "PENDING"
          /\ \A n \in 1..MaxStops : StopStatus(j, n)' = StopStatus(j, n)
      <4>1. commands[StartOf(j)] \in CommandRecord /\ StartOf(j) \in Command
        BY <1>0, StartIsCommand
      <4> QED
        BY <1>0, <1>5, <2>2, <4>1, StartIsCommand
        DEF CommitAssignment, StartStatus, StopStatus, CommandRecord
    <3>4. \A n \in 1..MaxStops : StopStatus(j, n)' = "NONE" /\ ~Live(j, n)'
      BY <1>0, <3>2, <3>3 DEF Orders, Live
    <3> QED
      BY <3>1, <3>3, <3>4 DEF Orders
  <2> QED
    BY <2>1, <2>2
<1> QED
  BY <1>1, <1>2, <1>3, <1>4, <1>5 DEF HandleJob

LEMMA NextOrders ==
  ASSUME Inv, Ordered, [Next]_vars, NEW j \in Job
  PROVE  Orders(j)'
<1>0. Orders(j) /\ TypeOK /\ jobs[j] \in JobRecord /\ ShapedJob(jobs[j])
  BY DEF Ordered, Inv, TypeOK, Shaped
<1>1. CASE UNCHANGED <<jobs, commands>> /\ now' \in {now, now + 1}
  BY <1>0, <1>1, UnchangedOrders
<1>2. CASE AgentStep
  BY <1>1, <1>2, ReplaceInventoryOrders, LeaseOrders, AckOrders DEF AgentStep, Register, Heartbeat
<1>3. ASSUME NEW k \in Job, CreateJob(k) PROVE Orders(j)'
  <2>1. jobs'[j].dispatched = jobs[j].dispatched /\ UNCHANGED <<now, commands>>
        /\ \/ jobs'[j] = jobs[j]
           \/ jobs[j].status = "NONE" /\ jobs'[j].status = "QUEUED"
    BY <1>0, <1>3 DEF CreateJob, Inv, TypeOK, JobRecord
  <2>2. Proceeds(j)
    BY <1>0, <2>1 DEF Orders, Proceeds, Terminal
  <2> QED
    BY <1>0, <2>1, <2>2, KeepsOrders DEF KeepsCommands
<1>4. CASE UserStep
  BY <1>1, <1>3, <1>4, RequestStopOrders DEF UserStep, StopJob, SetServerDrained
<1>5. CASE ControllerStep
  BY <1>1, <1>5, ReplanOrders, HandleJobOrders DEF ControllerStep, MarkStaleServers, ListJobs
<1> QED
  BY <1>1, <1>2, <1>4, <1>5 DEF Next, Tick, vars

LEMMA OrderedInit == Init => Ordered
<1> SUFFICES ASSUME Init PROVE Ordered
  OBVIOUS
<1>1. \A j \in Job : jobs[j].status = "NONE" /\ ~jobs[j].dispatched /\ StartStatus(j) = "NONE"
  BY StartIsCommand DEF Init, Unborn, NoCommand, StartStatus
<1>2. \A j \in Job, n \in 1..MaxStops : StopStatus(j, n) = "NONE"
  BY StartIsCommand DEF Init, NoCommand, StopStatus
<1> QED
  BY <1>1, <1>2, IssuedInit DEF Ordered, Orders, Live

LEMMA OrderedNext ==
  ASSUME Inv, Ordered, [Next]_vars
  PROVE  Ordered'
BY NextOrders, IssuedNext DEF Ordered

(* In every state the commands of a job fit its status.                      *)
THEOREM CommandsFit == Spec => []Ordered
<1>1. Inv /\ Issued /\ Ordered /\ [Next]_vars => Ordered'
  BY OrderedNext
<1> QED
  BY <1>1, OrderedInit, Consistent, PTL DEF Spec

LEMMA OrderedStops == Ordered => StopBookkeeping
BY DEF Ordered, Orders, StopBookkeeping, Live, StopStatus, StopOf

LEMMA OrderedStarts == Ordered => NoDanglingStart
<1>1. ~Terminal("STARTING")
  BY DEF Terminal
<1> QED
  BY <1>1 DEF Ordered, Orders, NoDanglingStart, StartStatus, StartOf

(* A job is STOPPING exactly while a STOP of it is under way, however many
   STOPs failed before (RequestStop, applyAckLocked).                        *)
THEOREM StopsCounted == Spec => []StopBookkeeping
BY CommandsFit, OrderedStops, PTL

(* A finished job never has a START waiting for an agent, whatever stale
   copies the controllers acted on (SetJobStatus, RequestStop).              *)
THEOREM NothingDangles == Spec => []NoDanglingStart
BY CommandsFit, OrderedStarts, PTL

(* A START changes after a STOP was handed out only by being settled.        *)
LEMMA NextStops ==
  ASSUME Inv, Ordered, Ordered', [Next]_vars, NEW j \in Job, NEW n \in 1..MaxStops,
         StopStatus(j, n)' \notin {"NONE", "PENDING"}
  PROVE  \/ commands'[StartOf(j)] = commands[StartOf(j)]
         \/ StartStatus(j)' \in {"SUCCEEDED", "FAILED"}
<1>0. commands \in [Command -> CommandRecord] /\ StartOf(j) \in Command
  BY StartIsCommand DEF Inv, TypeOK
<1>1. ASSUME NEW c \in Command, NEW ok \in BOOLEAN, AckCommand(c, ok)
      PROVE  \/ commands'[StartOf(j)] = commands[StartOf(j)]
             \/ StartStatus(j)' \in {"SUCCEEDED", "FAILED"}
  BY <1>0, <1>1 DEF AckCommand, Acked, StartStatus, StartOf
<1>2. ASSUME NEW k \in Job, RequestStop(k)
      PROVE  \/ commands'[StartOf(j)] = commands[StartOf(j)]
             \/ StartStatus(j)' \in {"SUCCEEDED", "FAILED"}
  <2>1. CASE CancelUndelivered(k)
    BY <1>0, <2>1, StartIsCommand DEF CancelUndelivered, StartStatus, StartOf, CommandRecord
  <2>2. CASE StopDelivered(k)
    BY <1>0, <2>2, StartIsCommand DEF StopDelivered
  <2> QED
    BY <1>2, <2>1, <2>2 DEF RequestStop, CancelQueued, NothingToStop
<1>3. ASSUME NEW t \in Ticker, NEW k \in Job, CommitAssignment(k, sweep[t][k])
      PROVE  commands'[StartOf(j)] = commands[StartOf(j)]
  <2>1. CASE k # j
    BY <1>0, <1>3, <2>1, StartIsCommand DEF CommitAssignment
  <2>2. CASE k = j
    <3>1. StartStatus(j)' = "PENDING"
      BY <1>0, <1>3, <2>2 DEF CommitAssignment, StartStatus, StartOf, CommandRecord
    <3> QED
      BY <3>1 DEF Ordered, Orders
  <2> QED
    BY <2>1, <2>2
<1>4. CASE AgentStep
  BY <1>1, <1>4, LeaseOrders DEF AgentStep, Register, Heartbeat, ReplaceInventory
<1>5. CASE UserStep
  BY <1>2, <1>5 DEF UserStep, CreateJob, StopJob, SetServerDrained
<1>6. CASE ControllerStep
  BY <1>2, <1>3, <1>6 DEF ControllerStep, MarkStaleServers, Replan, ListJobs, HandleJob,
       ExpireQueued, KeepWaiting
<1> QED
  BY <1>4, <1>5, <1>6 DEF Next, Tick, vars

(* No START is handed out after a STOP of its job was, under any leases,
   losses and repeated polls (LeaseCommands).                                *)
THEOREM StopsLast == Spec => StopIsLast
<1> DEFINE Last == \A j \in Job, n \in 1..MaxStops :
       commands'[StopOf(j, n)].status \notin {"NONE", "PENDING"}
         => \/ commands'[StartOf(j)] = commands[StartOf(j)]
            \/ commands'[StartOf(j)].status \in {"SUCCEEDED", "FAILED"}
<1>1. Inv /\ Ordered /\ Ordered' /\ [Next]_vars => [Last]_vars
  BY NextStops DEF StartStatus, StopStatus, StartOf, StopOf
<1>2. Inv /\ Issued => Inv
  OBVIOUS
<1> QED
  BY <1>1, <1>2, Consistent, CommandsFit, PTL DEF Spec, StopIsLast

------------------------------------------------------------------------------
(***************************************************************************)
(* The control plane implements GpuPool.  A step that dispatches nothing   *)
(* can only finish jobs, since nothing moves a dispatched job (NextMoves); *)
(* a step that dispatches is the commit of one job, which takes GPUs that  *)
(* no job in flight holds.                                                 *)
(***************************************************************************)

(* A booking has as many GPUs as the job asked for, on a server it may use.  *)
Sized == \A j \in Job : jobs[j].server # NONE =>
           /\ Cardinality(jobs[j].gpus) = Request[j].count
           /\ jobs[j].server \in Server \cap Request[j].servers

(* Planning books only feasible placements, and those have the right size
   (placementMatches).                                                       *)
LEMMA PlannedSized ==
  ASSUME Inv, Sized, NEW at, Replan(at)
  PROVE  Sized'
<1>v. PICK visible \in SUBSET Job : Replanned(visible, at)
  BY SomePlanned
<1> DEFINE candidates == {j \in visible : Replannable(jobs[j], j, at)}
<1>1. PICK suspended \in SUBSET Suspendable, rank \in Rankings(candidates),
           plan \in [candidates -> Placement \cup {NoPlacement}] :
        /\ IsPlan(plan, rank, jobs, servers, suspended, at)
        /\ jobs' = Book(jobs, plan, candidates)
  BY <1>v DEF Replanned
<1> SUFFICES ASSUME NEW j \in Job, jobs'[j].server # NONE
             PROVE  /\ Cardinality(jobs'[j].gpus) = Request[j].count
                    /\ jobs'[j].server \in Server \cap Request[j].servers
  BY DEF Sized
<1>2. jobs[j] \in JobRecord
  BY DEF Inv, TypeOK
<1>3. CASE j \notin candidates
  BY <1>1, <1>3 DEF Book, Sized
<1>4. CASE j \in candidates
  <2>1. plan[j] = NoPlacement => jobs'[j] = Unbook(jobs[j])
    BY <1>1, <1>4 DEF Book
  <2>2. plan[j] # NoPlacement
    BY <1>2, <2>1 DEF Unbook, JobRecord
  <2>3. jobs'[j] = Booked(jobs[j], plan[j]) /\ plan[j] \in Placement
    BY <1>1, <1>4, <2>2 DEF Book
  <2>4. Cardinality(plan[j].gpus) = Request[j].count /\ plan[j].server \in Request[j].servers
    BY <1>1, <1>4, <2>2 DEF IsPlan, Feasible
  <2>5. jobs'[j].gpus = plan[j].gpus /\ jobs'[j].server = plan[j].server
    BY <1>2, <2>3 DEF Booked, JobRecord
  <2> QED
    BY <2>3, <2>4, <2>5 DEF Placement
<1> QED
  BY <1>3, <1>4

(* Only planning chooses GPUs, so bookings keep their size.                  *)
LEMMA SizedNext ==
  ASSUME Inv, Sized, [Next]_vars
  PROVE  Sized'
<1>1. CASE Planning
  BY <1>1, PlannedSized DEF Planning
<1>2. CASE ~Planning
  BY <1>2, NextMoves DEF Moves, Sized
<1> QED
  BY <1>1, <1>2

LEMMA SizedInit == Init => Sized
BY DEF Init, Sized, Unborn

(* Every job with an assignment has the number of GPUs it asked for, on a
   server its organisation and selector allow (placementMatches).            *)
THEOREM BookedInFull == Spec => []Sized
<1>1. Inv /\ Issued /\ Sized /\ [Next]_vars => Sized'
  BY SizedNext
<1> QED
  BY <1>1, SizedInit, Consistent, PTL DEF Spec

(* A step that dispatches no job finishes some jobs, perhaps none.           *)
LEMMA FinishStep ==
  ASSUME Inv, Inv', [Next]_vars, \A j \in Job : jobs'[j].dispatched => jobs[j].dispatched
  PROVE  Pool!Finish({j \in Job : Terminal(jobs'[j].status) /\ ~Terminal(jobs[j].status)})
<1> DEFINE finished == {j \in Job : Terminal(jobs'[j].status) /\ ~Terminal(jobs[j].status)}
<1>1. ASSUME NEW j \in Job
      PROVE  /\ Terminal(jobs[j].status) => jobs'[j] = jobs[j]
             /\ jobs[j].dispatched => /\ jobs'[j].server = jobs[j].server
                                      /\ jobs'[j].gpus = jobs[j].gpus
             /\ jobs'[j].dispatched <=> jobs[j].dispatched
  <2>1. Moves(j)
    BY NextMoves
  <2>2. jobs[j] \in JobRecord
    BY DEF Inv, TypeOK
  <2>3. jobs'[j] \in JobRecord
    BY DEF Inv, TypeOK
  <2> QED
    BY <2>1, <2>2, <2>3 DEF Moves, JobRecord
<1>2. \A j \in finished : PoolPhase[j] # "DONE"
  BY DEF PoolPhase
<1>3. PoolPhase' = [j \in Job |-> IF j \in finished THEN "DONE" ELSE PoolPhase[j]]
  BY <1>1 DEF PoolPhase
<1>4. PoolHeld' = [j \in Job |-> IF j \in finished THEN {} ELSE PoolHeld[j]]
  BY <1>1 DEF PoolHeld, InFlight
<1> QED
  BY <1>2, <1>3, <1>4 DEF Pool!Finish

(* The commit of a job acquires the GPUs of its booking: as many as it asked
   for, and none that a job in flight holds (CommitAssignment).              *)
LEMMA AcquireStep ==
  ASSUME Inv, Inv', Sized, NEW j \in Job, NEW snap \in Snapshot, CommitAssignment(j, snap)
  PROVE  \E slots \in PoolSuits[j] : Pool!Acquire(j, slots)
<1> DEFINE slots == {jobs[j].server} \X jobs[j].gpus
<1>1. /\ jobs[j] \in JobRecord
      /\ ~jobs[j].dispatched /\ jobs[j].status = "ASSIGNED" /\ jobs[j].server # NONE
      /\ jobs[j].server \in Server
  BY DEF CommitAssignment, CommitAllowed, Inv, TypeOK, Shaped, ShapedJob, Sized
<1>2. /\ \A k \in Job \ {j} : jobs'[k] = jobs[k]
      /\ jobs'[j] = [jobs[j] EXCEPT !.status = "STARTING", !.resv = "RESERVED",
                                    !.dispatched = TRUE]
  BY DEF CommitAssignment, Inv, TypeOK
<1>3. /\ jobs'[j].status = "STARTING" /\ jobs'[j].dispatched
      /\ jobs'[j].server = jobs[j].server /\ jobs'[j].gpus = jobs[j].gpus
  BY <1>1, <1>2 DEF JobRecord
<1>4. slots \in PoolSuits[j]
  <2> DEFINE p == [server |-> jobs[j].server, gpus |-> jobs[j].gpus]
  <2>1. p \in Candidates(j)
    BY <1>1 DEF Candidates, Placement, Sized, JobRecord
  <2> QED
    BY <2>1 DEF PoolSuits
<1>5. ASSUME NEW k \in Job
      PROVE  PoolHeld[k] \cap slots = {}
  <2>1. CASE ~InFlight(k)
    BY <2>1 DEF PoolHeld
  <2>2. CASE InFlight(k)
    <3>1. k # j /\ jobs'[k] = jobs[k]
      BY <1>1, <1>2, <2>2 DEF InFlight
    <3>2. InFlight(j)' /\ InFlight(k)'
      BY <1>3, <2>2, <3>1 DEF InFlight, Terminal
    <3>3. jobs[k].server = jobs[j].server => jobs[k].gpus \cap jobs[j].gpus = {}
      BY <1>3, <3>1, <3>2 DEF Inv, Agreement, ExclusiveGPU
    <3>4. PoolHeld[k] = {jobs[k].server} \X jobs[k].gpus
      BY <2>2 DEF PoolHeld
    <3> QED
      BY <3>3, <3>4
  <2> QED
    BY <2>1, <2>2
<1>6. PoolPhase[j] = "WAITING"
  BY <1>1 DEF PoolPhase, Terminal
<1>7. PoolPhase' = [PoolPhase EXCEPT ![j] = "HOLDING"]
  BY <1>2, <1>3 DEF PoolPhase, Terminal
<1>8. PoolHeld' = [PoolHeld EXCEPT ![j] = slots]
  BY <1>2, <1>3 DEF PoolHeld, InFlight, Terminal
<1>9. Pool!Acquire(j, slots)
  <2> HIDE DEF slots
  <2> QED
    BY <1>4, <1>5, <1>6, <1>7, <1>8, Zenon DEF Pool!Acquire
<1> QED
  BY <1>4, <1>9

LEMMA PoolStep ==
  ASSUME Inv, Inv', Sized, [Next]_vars
  PROVE  Pool!PoolNext
<1>1. CASE \E j \in Job : jobs'[j].dispatched /\ ~jobs[j].dispatched
  <2>1. PICK j \in Job : jobs'[j].dispatched /\ ~jobs[j].dispatched
    BY <1>1
  <2>2. PICK snap \in Snapshot : CommitAssignment(j, snap)
    BY <2>1, NextMoves DEF Moves, Dispatches
  <2> QED
    BY <2>2, AcquireStep DEF Pool!PoolNext
<1>2. CASE \A j \in Job : jobs'[j].dispatched => jobs[j].dispatched
  BY <1>2, FinishStep DEF Pool!PoolNext
<1> QED
  BY <1>1, <1>2 DEF Inv, TypeOK, JobRecord

LEMMA PoolStart == Init => Pool!PoolInit
BY DEF Init, Unborn, Terminal, PoolPhase, PoolHeld, InFlight, Pool!PoolInit

(* The control plane is a pool of GPUs: each job gets what it asked for once,
   all at once, from nobody, and gives it back when it finishes
   (CommitAssignment, releaseLocked, transitionLocked).                      *)
THEOREM Refinement == Spec => ImplementsPool
<1>1. Inv /\ Inv' /\ Sized /\ [Next]_vars => [Pool!PoolNext]_(Pool!poolVars)
  BY PoolStep
<1> QED
  BY <1>1, PoolStart, Consistent, BookedInFull, PTL DEF Spec, ImplementsPool, Pool!PoolSpec
=============================================================================
