------------------------- MODULE ControlPlaneProofs -------------------------
(***************************************************************************)
(* What holds of the control plane for any number of jobs, servers, GPUs   *)
(* and ticks.  The argument has three layers:                              *)
(*                                                                         *)
(*   1. types, and the shape of one job record (Shaped): which assignment  *)
(*      goes with which status;                                            *)
(*   2. what a re-derived GPU table says of a shaped job table             *)
(*      (NormalizeSound);                                                  *)
(*   3. the GPU table and the job table agree (Agreement): every step      *)
(*      either leaves both alone, re-derives the GPUs of the server it     *)
(*      changed a job of, or commits a job to FREE GPUs.                   *)
(***************************************************************************)
EXTENDS ControlPlane, TLAPS

(* The assignment a job carries in each status.                              *)
ShapedJob(job) ==
  /\ job.server = NONE => job.gpus = {} /\ job.resv = "NONE" /\ ~job.dispatched
  /\ job.status \in {"NONE", "QUEUED"} => job.server = NONE
  /\ job.status = "ASSIGNED" => job.server # NONE /\ job.resv = "PLANNED" /\ ~job.dispatched
  /\ job.status \in {"STARTING", "RUNNING", "STOPPING"} =>
       job.server # NONE /\ job.resv \in {"RESERVED", "ALLOCATED"} /\ job.dispatched
  /\ (Terminal(job.status) /\ job.server # NONE) => job.resv = "RELEASED"

Shaped == \A j \in Job : ShapedJob(jobs[j])

(* The GPU tables and the job table agree.                                   *)
Agreement == InFlightNotFree /\ ReservationsLive /\ ExclusiveGPU

Inv == TypeOK /\ Shaped /\ Agreement

(* A START exists only for a dispatched job.                                 *)
Issued == \A j \in Job : commands[StartOf(j)].status # "NONE" => jobs[j].dispatched

------------------------------------------------------------------------------
(* One job.                                                                  *)

(* The value that stands for a nil assignment or owner is no server and no
   job.                                                                      *)
LEMMA NoneIsNoServer == NONE \notin Server /\ NONE \notin Job
BY DomainAssumption

(* A transition of a job in flight keeps its assignment; finishing it needs
   the release.                                                              *)
LEMMA ReleasedShaped ==
  ASSUME NEW job \in JobRecord, Terminal(job.status), 
         job.server = NONE => job.gpus = {} /\ job.resv = "NONE" /\ ~job.dispatched
  PROVE  /\ Released(job) \in JobRecord
         /\ ShapedJob(Released(job))
         /\ Released(job).status = job.status
BY DEF JobRecord, Released, ShapedJob, Terminal, JobStatus, ReservationState

(* Whatever a report says of a job's container (reconcileObservedLocked),
   the job keeps an assignment that fits its status.                         *)
LEMMA ReconciledShaped ==
  ASSUME TypeOK, NEW s \in Server, NEW j \in Job, ShapedJob(jobs[j]),
         NEW rep, rep.containers[j] \in ContainerState
  PROVE  /\ Reconciled(s, j, rep) \in JobRecord
         /\ ShapedJob(Reconciled(s, j, rep))
<1> DEFINE job == jobs[j]
<1>0. job \in JobRecord
  BY DEF TypeOK
<1>1. CASE ~Reconcilable(job, s)
  BY <1>1, <1>0 DEF Reconciled
<1>2. CASE Reconcilable(job, s) /\ rep.containers[j] = "active"
  <2>1. Reconciled(s, j, rep) =
          [job EXCEPT !.resv = "ALLOCATED",
                      !.status = IF @ \in {"ASSIGNED", "STARTING"} THEN "RUNNING" ELSE @]
    BY <1>2 DEF Reconciled
  <2>2. job.status \in {"STARTING", "RUNNING", "STOPPING"} /\ job.server # NONE
    BY <1>0, <1>2, NoneIsNoServer DEF Reconcilable, ShapedJob, JobRecord, JobStatus, Terminal
  <2> QED
    BY <2>1, <2>2, <1>0, <1>2
    DEF Reconcilable, ShapedJob, JobRecord, JobStatus, Terminal, ReservationState
<1>3. CASE Reconcilable(job, s) /\ rep.containers[j] \in {"exited0", "exited1"}
  <2>1. Reconciled(s, j, rep) = Exited(job, rep.containers[j])
    BY <1>3 DEF Reconciled
  <2>2. \A final, why : final \in {"STOPPED", "SUCCEEDED", "FAILED"} /\ why \in TerminationReason =>
          LET done == [job EXCEPT !.status = final, !.why = why]
          IN /\ done \in JobRecord /\ Terminal(done.status) /\ done.server # NONE
    BY <1>0, <1>3, NoneIsNoServer DEF JobRecord, JobStatus, Terminal, Reconcilable
  <2> DEFINE final == IF job.status = "STOPPING" \/ job.why = "TIME_LIMIT" THEN "STOPPED"
                      ELSE IF rep.containers[j] = "exited0" THEN "SUCCEEDED" ELSE "FAILED"
             why == CASE final = "FAILED" -> "EXECUTION_ERROR"
                      [] final = "SUCCEEDED" -> "COMPLETED"
                      [] final = "STOPPED" -> job.why
  <2>3. final \in {"STOPPED", "SUCCEEDED", "FAILED"} /\ why \in TerminationReason
    BY <1>0 DEF JobRecord, TerminationReason
  <2>4. Exited(job, rep.containers[j]) = Released([job EXCEPT !.status = final, !.why = why])
    BY DEF Exited
  <2> HIDE DEF final, why
  <2> QED
    BY <2>1, <2>2, <2>3, <2>4, ReleasedShaped
<1>4. CASE Reconcilable(job, s) /\ rep.containers[j] \in {"none", "created"}
  <2>1. Reconciled(s, j, rep) \in {job, Missing(job)}
    BY <1>4 DEF Reconciled
  <2>2. Missing(job) \in JobRecord /\ ShapedJob(Missing(job))
    <3>1. job.server # NONE /\ ~Terminal(job.status)
      BY <1>4, NoneIsNoServer DEF Reconcilable
    <3>2. CASE job.status = "STOPPING"
      BY <3>1, <3>2, <1>0, ReleasedShaped DEF Missing, JobRecord, JobStatus, Terminal
    <3>3. CASE job.status # "STOPPING"
      <4>1. /\ Transition(job, "FAILED", "SYSTEM_ERROR") \in JobRecord
            /\ Transition(job, "FAILED", "SYSTEM_ERROR").status = "FAILED"
            /\ Transition(job, "FAILED", "SYSTEM_ERROR").server = job.server
        BY <3>1, <1>0 DEF Transition, JobRecord, JobStatus, TerminationReason
      <4> QED
        BY <4>1, <3>1, <3>3, ReleasedShaped DEF Missing, Terminal
    <3> QED
      BY <3>2, <3>3
  <2> QED
    BY <2>1, <2>2, <1>0
<1> QED
  BY <1>1, <1>2, <1>3, <1>4 DEF ContainerState

------------------------------------------------------------------------------
(* A re-derived GPU table.                                                   *)

(* Whatever a report says, re-deriving the GPUs of a server from a shaped job
   table never shows a GPU of a job in flight as FREE, and reserves only for
   jobs in flight.                                                           *)
LEMMA NormalizeSound ==
  ASSUME NEW table \in [Job -> JobRecord], \A j \in Job : ShapedJob(table[j]),
         NEW s \in Server, NEW condition, NEW stray, NEW legacy, NEW active \in SUBSET Job
  PROVE  LET gpus == Normalize(table, s, condition, stray, active, legacy)
         IN /\ gpus \in [GPU -> GPUView]
            /\ \A j \in Job : \A g \in table[j].gpus :
                 (table[j].dispatched /\ ~Terminal(table[j].status) /\ table[j].server = s)
                   => gpus[g].state # "FREE"
            /\ \A g \in GPU : gpus[g].state = "RESERVED" =>
                 /\ gpus[g].owner \in Job
                 /\ table[gpus[g].owner].dispatched
                 /\ Holds(table[gpus[g].owner], s, g)
<1> DEFINE gpus == Normalize(table, s, condition, stray, active, legacy)
           reserved(g) == ReservedBy(table, s, g)
           managed(g) == ManagedBy(table, active, s, g)
<1>1. \A g \in GPU : reserved(g) \subseteq Job /\ managed(g) \subseteq Job
  BY DEF ReservedBy, ManagedBy
<1>2. ASSUME NEW S \in SUBSET Job, S # {}
      PROVE  (CHOOSE j \in S : TRUE) \in S
  BY <1>2
<1>3. ASSUME NEW g \in GPU
      PROVE  \/ \E state \in {"ABSENT", "UNHEALTHY", "LEGACY", "UNKNOWN"} :
                  gpus[g] = [state |-> state, owner |-> NONE]
             \/ /\ gpus[g] = [state |-> "ALLOCATED", owner |-> CHOOSE j \in managed(g) : TRUE]
                /\ managed(g) # {}
             \/ /\ gpus[g] = [state |-> "RESERVED", owner |-> CHOOSE j \in reserved(g) : TRUE]
                /\ reserved(g) # {}
             \/ gpus[g] = [state |-> "FREE", owner |-> NONE] /\ reserved(g) = {}
  BY DEF Normalize
<1>4. gpus = [g \in GPU |-> gpus[g]]
  BY DEF Normalize
<1> HIDE DEF gpus, reserved, managed
<1>5. ASSUME NEW g \in GPU
      PROVE  /\ gpus[g] \in GPUView
             /\ gpus[g].state = "RESERVED" => gpus[g].owner \in reserved(g)
             /\ reserved(g) # {} => gpus[g].state # "FREE"
  <2>1. CASE \E state \in {"ABSENT", "UNHEALTHY", "LEGACY", "UNKNOWN"} :
               gpus[g] = [state |-> state, owner |-> NONE]
    BY <2>1 DEF GPUView, GPUState
  <2>2. CASE /\ gpus[g] = [state |-> "ALLOCATED", owner |-> CHOOSE j \in managed(g) : TRUE]
             /\ managed(g) # {}
    <3>1. (CHOOSE j \in managed(g) : TRUE) \in Job
      BY <1>1, <1>2, <2>2
    <3> QED
      BY <3>1, <2>2 DEF GPUView, GPUState
  <2>3. CASE /\ gpus[g] = [state |-> "RESERVED", owner |-> CHOOSE j \in reserved(g) : TRUE]
             /\ reserved(g) # {}
    <3>1. (CHOOSE j \in reserved(g) : TRUE) \in reserved(g)
      BY <1>1, <1>2, <2>3
    <3> QED
      BY <3>1, <2>3, <1>1 DEF GPUView, GPUState
  <2>4. CASE gpus[g] = [state |-> "FREE", owner |-> NONE] /\ reserved(g) = {}
    BY <2>4 DEF GPUView, GPUState
  <2> QED
    BY <1>3, <2>1, <2>2, <2>3, <2>4
<1>6. gpus \in [GPU -> GPUView]
  BY <1>4, <1>5
<1>7. ASSUME NEW j \in Job, NEW g \in table[j].gpus, table[j].dispatched,
             ~Terminal(table[j].status), table[j].server = s
      PROVE  gpus[g].state # "FREE"
  <2>1. g \in GPU /\ table[j].resv # "PLANNED"
    BY <1>7, NoneIsNoServer DEF JobRecord, ShapedJob, JobStatus, Terminal
  <2>2. j \in reserved(g)
    BY <1>7, <2>1 DEF ReservedBy, reserved
  <2> QED
    BY <1>5, <2>1, <2>2
<1>8. ASSUME NEW g \in GPU, gpus[g].state = "RESERVED"
      PROVE  /\ gpus[g].owner \in Job
             /\ table[gpus[g].owner].dispatched
             /\ Holds(table[gpus[g].owner], s, g)
  <2>1. gpus[g].owner \in reserved(g)
    BY <1>5, <1>8
  <2> QED
    BY <2>1, NoneIsNoServer
    DEF reserved, ReservedBy, Holds, ShapedJob, JobRecord, JobStatus, Terminal
<1> QED
  BY <1>6, <1>7, <1>8 DEF gpus

------------------------------------------------------------------------------
(* What a step may do to the two tables, other than commit a job.            *)

KeepsFlight ==
  \A j \in Job : InFlight(j)' =>
    /\ InFlight(j)
    /\ jobs'[j].server = jobs[j].server
    /\ jobs'[j].gpus = jobs[j].gpus

(* The GPUs of s are left alone, and then no job on s leaves flight, or they
   are derived again from the new job table.                                 *)
KeepsServer(s) ==
  /\ servers'[s].gpus = servers[s].gpus
  /\ \A j \in Job : (jobs[j].server = s /\ InFlight(j)) => InFlight(j)'
DerivesServer(s) ==
  \E condition, stray, active, legacy :
    /\ active \subseteq Job
    /\ servers'[s].gpus = Normalize(jobs', s, condition, stray, active, legacy)

(* A step that keeps the jobs in flight, and leaves or re-derives the GPUs
   of each server, keeps the two tables in agreement.                        *)
LEMMA AgreementStep ==
  ASSUME Inv, TypeOK', Shaped', KeepsFlight,
         \A s \in Server : KeepsServer(s) \/ DerivesServer(s)
  PROVE  Agreement'
<1>1. jobs' \in [Job -> JobRecord] /\ (\A j \in Job : ShapedJob(jobs'[j]))
  BY DEF TypeOK, Shaped
<1>2. ASSUME NEW s \in Server, DerivesServer(s)
      PROVE  /\ \A j \in Job : \A g \in jobs'[j].gpus :
                  (InFlight(j)' /\ jobs'[j].server = s) => servers'[s].gpus[g].state # "FREE"
             /\ \A g \in GPU : servers'[s].gpus[g].state = "RESERVED" =>
                  \E k \in Job : /\ servers'[s].gpus[g].owner = k
                                 /\ InFlight(k)'
                                 /\ Holds(jobs'[k], s, g)
  <2>1. PICK condition, stray, active, legacy :
          /\ active \in SUBSET Job
          /\ servers'[s].gpus = Normalize(jobs', s, condition, stray, active, legacy)
    BY <1>2 DEF DerivesServer
  <2> QED
    BY <2>1, <1>1, NormalizeSound DEF InFlight, Holds
<1>3. ASSUME NEW j \in Job, InFlight(j)'
      PROVE  jobs'[j].server \in Server /\ jobs'[j].resv # "RELEASED"
  BY <1>1, <1>3 DEF InFlight, ShapedJob, JobRecord, JobStatus, Terminal
<1>4. InFlightNotFree'
  <2> SUFFICES ASSUME NEW j \in Job, InFlight(j)', NEW g \in jobs'[j].gpus
               PROVE  servers'[jobs'[j].server].gpus[g].state # "FREE"
    BY DEF InFlightNotFree
  <2>1. CASE KeepsServer(jobs'[j].server)
    BY <2>1 DEF KeepsServer, KeepsFlight, Inv, Agreement, InFlightNotFree
  <2>2. CASE DerivesServer(jobs'[j].server)
    BY <2>2, <1>2, <1>3
  <2> QED
    BY <2>1, <2>2, <1>3
<1>5. ReservationsLive'
  <2>1. ASSUME NEW s \in Server, NEW g \in GPU, servers'[s].gpus[g].state = "RESERVED"
        PROVE  \E k \in Job : /\ servers'[s].gpus[g].owner = k
                              /\ InFlight(k)'
                              /\ Holds(jobs'[k], s, g)
    <3>1. CASE KeepsServer(s)
      <4>1. servers'[s].gpus[g] = servers[s].gpus[g]
        BY <3>1 DEF KeepsServer
      <4>2. PICK k : k = servers[s].gpus[g].owner
        OBVIOUS
      <4>3. k # NONE /\ InFlight(k) /\ Holds(jobs[k], s, g)
        BY <2>1, <4>1, <4>2 DEF Inv, Agreement, ReservationsLive
      <4>4. k \in Job
        BY <4>2, <4>3 DEF Inv, TypeOK, ServerRecord, GPUView
      <4>5. InFlight(k)'
        BY <3>1, <4>3, <4>4 DEF KeepsServer, Holds
      <4>6. Holds(jobs'[k], s, g)
        BY <4>3, <4>4, <4>5, <1>3 DEF KeepsFlight, Holds, InFlight
      <4> QED
        BY <4>1, <4>2, <4>4, <4>5, <4>6
    <3>2. CASE DerivesServer(s)
      BY <3>2, <2>1, <1>2
    <3> QED
      BY <3>1, <3>2
  <2> QED
    BY <2>1, NoneIsNoServer DEF ReservationsLive, InFlight
<1>6. ExclusiveGPU'
  BY DEF ExclusiveGPU, KeepsFlight, Inv, Agreement
<1> QED
  BY <1>4, <1>5, <1>6 DEF Agreement

(* Steps that leave the jobs and every GPU alone.                            *)
LEMMA QuietStep ==
  ASSUME Inv, TypeOK', UNCHANGED jobs,
         \A s \in Server : servers'[s].gpus = servers[s].gpus
  PROVE  Inv'
<1>1. Shaped'
  BY DEF Shaped, Inv
<1>2. KeepsFlight /\ \A s \in Server : KeepsServer(s)
  BY DEF KeepsFlight, KeepsServer, InFlight
<1> QED
  BY <1>1, <1>2, AgreementStep DEF Inv

(* Steps that edit one job and leave it in, or out of, flight.               *)
Flies(job) == job.dispatched /\ ~Terminal(job.status)

(* An edit of one job that is in flight neither before nor after leaves
   every GPU right.                                                          *)
LEMMA EditStep ==
  ASSUME Inv, NEW j \in Job, NEW job \in JobRecord, ShapedJob(job),
         jobs' = [jobs EXCEPT ![j] = job], UNCHANGED <<now, servers>>,
         commands' \in [Command -> CommandRecord], sweep' \in [Ticker -> [Job -> Snapshot]],
         Flies(job) <=> Flies(jobs[j]),
         Flies(job) => job.server = jobs[j].server /\ job.gpus = jobs[j].gpus
  PROVE  Inv'
<1>1. TypeOK'
  BY DEF Inv, TypeOK, ShapedJob
<1>2. Shaped'
  BY DEF Inv, TypeOK, Shaped
<1>3. KeepsFlight
  BY DEF KeepsFlight, InFlight, Flies, Inv, TypeOK
<1>4. \A s \in Server : KeepsServer(s)
  BY DEF KeepsServer, InFlight, Flies, Inv, TypeOK
<1> QED
  BY <1>1, <1>2, <1>3, <1>4, AgreementStep DEF Inv

(* Steps that finish one job and derive the GPUs of its server again.        *)
LEMMA ReleaseStep ==
  ASSUME Inv, NEW j \in Job, jobs[j].server # NONE,
         NEW job \in JobRecord, ShapedJob(job), Terminal(job.status),
         jobs' = [jobs EXCEPT ![j] = job], ReleaseOn(jobs', jobs[j].server), now' = now,
         commands' \in [Command -> CommandRecord], sweep' \in [Ticker -> [Job -> Snapshot]]
  PROVE  Inv'
<1> DEFINE s == jobs[j].server
<1>1. jobs' \in [Job -> JobRecord] /\ \A k \in Job : ShapedJob(jobs'[k])
  BY DEF Inv, TypeOK, Shaped
<1>2. s \in Server
  BY DEF Inv, TypeOK, JobRecord
<1>3. PICK condition, active, legacy :
        /\ active \subseteq Job
        /\ servers' = [servers EXCEPT ![s].gpus = Normalize(jobs', s, condition, {}, active, legacy)]
  <2>1. servers[s].active \subseteq Job
    BY <1>2 DEF Inv, TypeOK, ServerRecord
  <2> QED
    BY <2>1 DEF ReleaseOn, Renormalize
<1>4. Normalize(jobs', s, condition, {}, active, legacy) \in [GPU -> GPUView]
  BY <1>1, <1>2, <1>3, NormalizeSound
<1>5. servers' \in [Server -> ServerRecord]
  <2> DEFINE gpus == Normalize(jobs', s, condition, {}, active, legacy)
  <2>1. servers[s] \in ServerRecord /\ servers \in [Server -> ServerRecord]
    BY <1>2 DEF Inv, TypeOK
  <2> HIDE DEF gpus
  <2>2. [servers[s] EXCEPT !.gpus = gpus] \in ServerRecord
    BY <1>4, <2>1 DEF ServerRecord, gpus
  <2>3. servers' = [servers EXCEPT ![s] = [servers[s] EXCEPT !.gpus = gpus]]
    BY <1>2, <1>3, <2>1 DEF gpus
  <2> HIDE DEF s
  <2>4. \A server \in ServerRecord : [servers EXCEPT ![s] = server] \in [Server -> ServerRecord]
    BY <1>2, <2>1
  <2> QED
    BY <2>2, <2>3, <2>4
<1>6. TypeOK' /\ Shaped'
  BY <1>1, <1>5 DEF Inv, TypeOK, Shaped, ShapedJob
<1>7. KeepsFlight
  BY DEF KeepsFlight, InFlight, Inv, TypeOK
<1>8. ASSUME NEW r \in Server PROVE KeepsServer(r) \/ DerivesServer(r)
  <2>1. CASE r = s
    <3>1. servers \in [Server -> ServerRecord] /\ servers[s] \in ServerRecord
      BY <1>2 DEF Inv, TypeOK
    <3>2. servers'[s].gpus = Normalize(jobs', s, condition, {}, active, legacy)
      BY <1>2, <1>3, <3>1 DEF ServerRecord
    <3> QED
      BY <2>1, <1>3, <3>2 DEF DerivesServer
  <2>2. CASE r # s
    BY <2>2, <1>3 DEF KeepsServer, InFlight, Inv, TypeOK
  <2> QED
    BY <2>1, <2>2
<1> QED
  BY <1>6, <1>7, <1>8, AgreementStep DEF Inv

------------------------------------------------------------------------------
(* The actions.                                                              *)

(* The empty store (New) is consistent.                                      *)
LEMMA InitInv == Init => Inv
<1> SUFFICES ASSUME Init PROVE Inv
  OBVIOUS
<1>1. Unborn \in JobRecord /\ ShapedJob(Unborn) /\ ~Unborn.dispatched /\ Unborn.server = NONE
  BY NoneIsNoServer DEF Unborn, JobRecord, JobStatus, ReservationState, TerminationReason, ShapedJob, Terminal
<1>2. Unregistered \in ServerRecord /\ \A g \in GPU : Unregistered.gpus[g].state = "ABSENT"
  BY DEF Unregistered, ServerRecord, ServerStatus, Mode, GPUView, GPUState, Time
<1>3. NoCommand \in CommandRecord
  BY DEF NoCommand, CommandRecord, CommandStatus, Time
<1>4. Handled \in Snapshot
  BY DEF Handled, SnapshotOf, Snapshot, Unborn
<1>5. TypeOK
  BY <1>1, <1>2, <1>3, <1>4 DEF Init, TypeOK, Time, ShapedJob
<1>6. Shaped
  BY <1>1 DEF Init, Shaped
<1>7. Agreement
  BY <1>1, <1>2 DEF Init, Agreement, InFlightNotFree, ReservationsLive, ExclusiveGPU, InFlight
<1> QED
  BY <1>5, <1>6, <1>7 DEF Inv

(* Registration (UpsertServer) changes no job and no GPU.                    *)
LEMMA RegisterInv ==
  ASSUME Inv, NEW s \in Server, NEW mode \in Modes, Register(s, mode)
  PROVE  Inv'
<1>0. servers[s] \in ServerRecord /\ now \in Nat /\ mode \in Mode
  BY ControlPlaneAssumption DEF Inv, TypeOK, Time
<1>1. TypeOK'
  <2>1. [servers[s] EXCEPT !.status = ConnectedStatus(servers[s].drained),
                           !.seen = now, !.fresh = 0, !.version = 0, !.caps = mode]
          \in ServerRecord
    BY <1>0 DEF ServerRecord, ServerStatus, ConnectedStatus, Time
  <2> QED
    BY <2>1 DEF Inv, TypeOK, Register
<1>2. \A r \in Server : servers'[r].gpus = servers[r].gpus
  BY DEF Register, Inv, TypeOK, ServerRecord
<1> QED
  BY <1>1, <1>2, QuietStep DEF Register

(* A heartbeat changes no job and no GPU.                                    *)
LEMMA HeartbeatInv ==
  ASSUME Inv, NEW s \in Server, Heartbeat(s)
  PROVE  Inv'
<1>0. servers[s] \in ServerRecord /\ now \in Nat
  BY DEF Inv, TypeOK, Time
<1>1. TypeOK'
  <2>1. ASSUME NEW fresh \in Nat
        PROVE  [servers[s] EXCEPT !.fresh = fresh, !.seen = now,
                                  !.status = ConnectedStatus(servers[s].drained)] \in ServerRecord
    BY <1>0 DEF ServerRecord, ServerStatus, ConnectedStatus, Time
  <2> DEFINE fresh == IF servers[s].status = "OFFLINE" \/ now > servers[s].seen + OfflineAfter
                      THEN 0 ELSE servers[s].fresh
  <2>2. fresh \in Nat
    BY <1>0 DEF ServerRecord, Time
  <2>3. servers' = [servers EXCEPT ![s] =
          [servers[s] EXCEPT !.fresh = fresh, !.seen = now,
                             !.status = ConnectedStatus(servers[s].drained)]]
    BY DEF Heartbeat, Inv, TypeOK
  <2> HIDE DEF fresh
  <2>4. servers' \in [Server -> ServerRecord]
    BY <2>1, <2>2, <2>3 DEF Inv, TypeOK
  <2> QED
    BY <2>4 DEF Inv, TypeOK, Heartbeat
<1>2. \A r \in Server : servers'[r].gpus = servers[r].gpus
  BY DEF Heartbeat, Inv, TypeOK, ServerRecord
<1> QED
  BY <1>1, <1>2, QuietStep DEF Heartbeat

(* Draining a server (SetServerDrained) changes no job and no GPU.           *)
LEMMA DrainInv ==
  ASSUME Inv, NEW s \in Server, NEW drained \in BOOLEAN, SetServerDrained(s, drained)
  PROVE  Inv'
<1>0. servers[s] \in ServerRecord
  BY DEF Inv, TypeOK
<1>1. TypeOK'
  <2>1. ASSUME NEW status \in ServerStatus
        PROVE  [servers[s] EXCEPT !.drained = drained, !.status = status] \in ServerRecord
    BY <1>0 DEF ServerRecord
  <2> DEFINE status == IF servers[s].status = "OFFLINE" THEN "OFFLINE" ELSE ConnectedStatus(drained)
  <2>2. status \in ServerStatus
    BY DEF ServerStatus, ConnectedStatus
  <2>3. servers' = [servers EXCEPT ![s] =
          [servers[s] EXCEPT !.drained = drained, !.status = status]]
    BY DEF SetServerDrained, Inv, TypeOK
  <2> HIDE DEF status
  <2>4. servers' \in [Server -> ServerRecord]
    BY <2>1, <2>2, <2>3 DEF Inv, TypeOK
  <2> QED
    BY <2>4 DEF Inv, TypeOK, SetServerDrained
<1>2. \A r \in Server : servers'[r].gpus = servers[r].gpus
  BY DEF SetServerDrained, Inv, TypeOK, ServerRecord
<1> QED
  BY <1>1, <1>2, QuietStep DEF SetServerDrained

(* Marking servers offline (MarkStaleServers) changes no job and no GPU.     *)
LEMMA MarkStaleInv ==
  ASSUME Inv, MarkStaleServers
  PROVE  Inv'
<1>1. TypeOK'
  <2>1. \A s \in Server : /\ servers[s] \in ServerRecord
                          /\ [servers[s] EXCEPT !.status = "OFFLINE"] \in ServerRecord
    BY DEF Inv, TypeOK, ServerRecord, ServerStatus
  <2>2. servers' \in [Server -> ServerRecord]
    BY <2>1 DEF MarkStaleServers
  <2> QED
    BY <2>2 DEF Inv, TypeOK, MarkStaleServers
<1>2. \A r \in Server : servers'[r].gpus = servers[r].gpus
  BY DEF MarkStaleServers, Inv, TypeOK, ServerRecord
<1> QED
  BY <1>1, <1>2, QuietStep DEF MarkStaleServers

(* Time changes no table.                                                    *)
LEMMA TickInv ==
  ASSUME Inv, Tick
  PROVE  Inv'
<1>1. TypeOK'
  BY DEF Inv, TypeOK, Tick, Time
<1> QED
  BY <1>1, QuietStep DEF Tick

(* Handing out commands (LeaseCommands) changes no job and no GPU.           *)
LEMMA LeaseInv ==
  ASSUME Inv, NEW s \in Server, LeaseCommands(s)
  PROVE  Inv'
<1>0. now \in Nat /\ CommandLease \in Nat
  BY ControlPlaneAssumption DEF Inv, TypeOK, Time
<1>1. commands' \in [Command -> CommandRecord]
  <2>1. ASSUME NEW c \in Command
        PROVE  /\ commands[c] \in CommandRecord
               /\ [commands[c] EXCEPT !.status = "DELIVERED", !.lease = now + CommandLease]
                    \in CommandRecord
    <3>1. commands[c] \in CommandRecord
      BY DEF Inv, TypeOK
    <3>2. now + CommandLease \in Nat
      BY <1>0
    <3>3. [commands[c] EXCEPT !.status = "DELIVERED", !.lease = now + CommandLease]
            \in CommandRecord
      BY <3>1, <3>2 DEF CommandRecord, CommandStatus, Time
    <3> QED
      BY <3>1, <3>3
  <2> QED
    BY <2>1 DEF LeaseCommands
<1>2. TypeOK'
  BY <1>1 DEF Inv, TypeOK, LeaseCommands
<1> QED
  BY <1>2, QuietStep DEF LeaseCommands

(* What a controller pass copies of a job (processReservations) is a
   snapshot.                                                                 *)
LEMMA SnapshotType ==
  ASSUME NEW job \in JobRecord
  PROVE  SnapshotOf(job) \in Snapshot
BY DEF SnapshotOf, Snapshot, JobRecord

(* Copying the job table (ListJobs) changes no table.                        *)
LEMMA ListJobsInv ==
  ASSUME Inv, NEW t \in Ticker, ListJobs(t)
  PROVE  Inv'
<1>1. PICK visible \in Scope(t) :
        sweep' = [sweep EXCEPT ![t] =
                    [j \in Job |-> IF j \in visible THEN SnapshotOf(jobs[j]) ELSE Handled]]
  BY DEF ListJobs
<1>2. \A j \in Job : SnapshotOf(jobs[j]) \in Snapshot /\ Handled \in Snapshot
  BY SnapshotType DEF Inv, TypeOK, Handled, SnapshotOf, Snapshot, Unborn
<1>3. TypeOK'
  BY <1>1, <1>2 DEF Inv, TypeOK, ListJobs
<1> QED
  BY <1>3, QuietStep DEF ListJobs

(* A created job is queued without an assignment (prepareJob).               *)
LEMMA CreateJobInv ==
  ASSUME Inv, NEW j \in Job, CreateJob(j)
  PROVE  Inv'
<1> DEFINE job == [jobs[j] EXCEPT !.status = "QUEUED"]
<1>1. job \in JobRecord /\ ShapedJob(job) /\ ~Flies(job) /\ ~Flies(jobs[j])
  BY DEF Inv, TypeOK, Shaped, ShapedJob, CreateJob, JobRecord, JobStatus, Terminal, Flies
<1>2. jobs' = [jobs EXCEPT ![j] = job]
  BY DEF CreateJob
<1> HIDE DEF job
<1> QED
  BY <1>1, <1>2, EditStep DEF CreateJob, Inv, TypeOK

(* An accepted report (ReplaceInventory) reconciles the jobs of its server
   and derives its GPUs again, so the tables agree after it; a refused one
   changes nothing.                                                          *)
LEMMA ReplaceInventoryInv ==
  ASSUME Inv, NEW s \in Server, NEW rep \in Reports(s), ReplaceInventory(s, rep)
  PROVE  Inv'
<1> DEFINE complete == DockerValid(rep.mode) /\ GPUValid(rep.mode)
           active == IF DockerValid(rep.mode) THEN ActiveIn(rep) ELSE servers[s].active
           legacy == IF DockerValid(rep.mode) THEN Reported(rep, "LEGACY") ELSE servers[s].legacy
           reconciled == [j \in Job |-> IF complete THEN Reconciled(s, j, rep) ELSE jobs[j]]
           derived == Normalize(reconciled, s, ConditionsIn(rep), Reported(rep, "STRAY"),
                                active, legacy)
           gpus == IF GPUValid(rep.mode) THEN derived ELSE servers[s].gpus
           server == [status |-> ConnectedStatus(servers[s].drained), drained |-> servers[s].drained,
                      seen |-> now, fresh |-> IF complete THEN now ELSE 0,
                      version |-> rep.seq, caps |-> rep.mode,
                      gpus |-> gpus, active |-> active, legacy |-> legacy]
<1>1. /\ jobs' = reconciled
      /\ servers' = [servers EXCEPT ![s] = server]
      /\ UNCHANGED <<now, commands, sweep>>
  BY DEF ReplaceInventory
<1>2. /\ rep.seq \in Nat /\ rep.mode \in Mode
      /\ \A j \in Job : rep.containers[j] \in ContainerState
  BY ControlPlaneAssumption DEF Reports
<1>3. servers[s] \in ServerRecord /\ now \in Nat
  BY DEF Inv, TypeOK, Time
<1>4. \A j \in Job : reconciled[j] \in JobRecord /\ ShapedJob(reconciled[j])
  BY <1>2, ReconciledShaped DEF Inv, Shaped, TypeOK
<1>5. active \subseteq Job /\ legacy \subseteq GPU
  BY <1>3 DEF ServerRecord, ActiveIn, Reported
<1>6. reconciled \in [Job -> JobRecord]
  BY <1>4
<1>7. ~complete => reconciled = jobs
  BY DEF Inv, TypeOK
<1>8. \A j \in Job : /\ reconciled[j].server = jobs[j].server
                     /\ reconciled[j].gpus = jobs[j].gpus
                     /\ reconciled[j].dispatched = jobs[j].dispatched
                     /\ Terminal(jobs[j].status) => reconciled[j] = jobs[j]
                     /\ jobs[j].server # s => reconciled[j] = jobs[j]
  <2> SUFFICES ASSUME NEW j \in Job
               PROVE  LET new == Reconciled(s, j, rep) IN
                      /\ new.server = jobs[j].server
                      /\ new.gpus = jobs[j].gpus
                      /\ new.dispatched = jobs[j].dispatched
                      /\ Terminal(jobs[j].status) => new = jobs[j]
                      /\ jobs[j].server # s => new = jobs[j]
    OBVIOUS
  <2>1. jobs[j] \in JobRecord
    BY DEF Inv, TypeOK
  <2> QED
    BY <2>1 DEF Reconciled, Reconcilable, Exited, Missing, Released, Transition, JobRecord
<1>9. derived \in [GPU -> GPUView]
  BY <1>4, <1>5, <1>6, NormalizeSound
<1>10. gpus \in [GPU -> GPUView]
  BY <1>3, <1>9 DEF ServerRecord
<1> HIDE DEF derived, active, legacy, reconciled
<1>11. server \in ServerRecord
  BY <1>2, <1>3, <1>5, <1>10 DEF ServerRecord, ServerStatus, ConnectedStatus, Time
<1>12. server.gpus = gpus
  OBVIOUS
<1> HIDE DEF gpus, server
<1>13. servers' \in [Server -> ServerRecord]
  BY <1>1, <1>11 DEF Inv, TypeOK
<1>14. TypeOK' /\ Shaped'
  BY <1>1, <1>4, <1>6, <1>13 DEF Inv, TypeOK, Shaped, ShapedJob
<1>15. KeepsFlight
  BY <1>1, <1>8 DEF KeepsFlight, InFlight, Terminal
<1>16. ASSUME NEW r \in Server PROVE KeepsServer(r) \/ DerivesServer(r)
  <2>1. CASE r # s
    <3>1. servers'[r].gpus = servers[r].gpus
      BY <2>1, <1>1 DEF Inv, TypeOK
    <3>2. \A j \in Job : jobs[j].server = r => jobs'[j] = jobs[j]
      BY <2>1, <1>1, <1>8
    <3> QED
      BY <3>1, <3>2 DEF KeepsServer, InFlight
  <2>2. CASE r = s /\ GPUValid(rep.mode)
    <3>1. servers'[r].gpus = derived
      BY <2>2, <1>1, <1>12 DEF gpus, Inv, TypeOK
    <3> QED
      BY <3>1, <2>2, <1>1, <1>5 DEF DerivesServer, derived
  <2>3. CASE r = s /\ ~GPUValid(rep.mode)
    <3>1. servers'[r].gpus = servers[r].gpus
      BY <2>3, <1>1, <1>12 DEF gpus, Inv, TypeOK
    <3> QED
      BY <3>1, <2>3, <1>1, <1>7 DEF KeepsServer, InFlight
  <2> QED
    BY <2>1, <2>2, <2>3
<1> QED
  BY <1>14, <1>15, <1>16, AgreementStep DEF Inv

(* RequestStop, by a user or by a controller that found the window over.     *)
LEMMA ReasonType ==
  ASSUME Inv, NEW j \in Job
  PROVE  StopReason(j) \in TerminationReason
BY DEF Inv, TypeOK, JobRecord, StopReason, TerminationReason

(* A stop (RequestStop), by a user or by a controller that found the window
   over, cancels with release or only asks the agent.                        *)
LEMMA RequestStopInv ==
  ASSUME Inv, NEW j \in Job, RequestStop(j), now' = now,
         sweep' \in [Ticker -> [Job -> Snapshot]]
  PROVE  Inv'
<1> DEFINE explained == [jobs[j] EXCEPT !.why = StopReason(j)]
           cancelled == Transition(explained, "CANCELLED", "USER_CANCELLED")
<1>0. jobs[j] \in JobRecord /\ ShapedJob(jobs[j]) /\ StopReason(j) \in TerminationReason
  BY ReasonType DEF Inv, TypeOK, Shaped
<1>1. commands' \in [Command -> CommandRecord] /\ commands \in [Command -> CommandRecord]
  <2>1. ASSUME NEW c \in Command, NEW status \in CommandStatus
        PROVE  /\ [commands[c] EXCEPT !.status = status] \in CommandRecord
               /\ [commands[c] EXCEPT !.status = status, !.done = now] \in CommandRecord
    <3>1. commands[c] \in CommandRecord /\ now \in Time
      BY DEF Inv, TypeOK
    <3> QED
      BY <3>1 DEF CommandRecord
  <2>2. commands \in [Command -> CommandRecord]
    BY DEF Inv, TypeOK
  <2>3. {"PENDING", "FAILED"} \subseteq CommandStatus
    BY DEF CommandStatus
  <2>4. \/ commands' = commands
        \/ commands' = [commands EXCEPT ![StartOf(j)] =
             [commands[StartOf(j)] EXCEPT !.status = "FAILED", !.done = now]]
        \/ \E n \in 1..MaxStops : commands' = [commands EXCEPT ![StopOf(j, n)] =
             [commands[StopOf(j, n)] EXCEPT !.status = "PENDING"]]
    BY DEF RequestStop, CancelQueued, CancelUndelivered, StopDelivered, NothingToStop, Inv, TypeOK
  <2>5. StartOf(j) \in Command /\ \A n \in 1..MaxStops : StopOf(j, n) \in Command
    BY DEF StartOf, StopOf, Command, Starts, Stops
  <2>6. ASSUME NEW c \in Command, NEW command \in CommandRecord,
               commands' = [commands EXCEPT ![c] = command]
        PROVE  commands' \in [Command -> CommandRecord]
    BY <2>2, <2>6
  <2>7. CASE commands' = [commands EXCEPT ![StartOf(j)] =
               [commands[StartOf(j)] EXCEPT !.status = "FAILED", !.done = now]]
    BY <2>1, <2>2, <2>3, <2>5, <2>6, <2>7
  <2>8. ASSUME NEW n \in 1..MaxStops,
               commands' = [commands EXCEPT ![StopOf(j, n)] =
                 [commands[StopOf(j, n)] EXCEPT !.status = "PENDING"]]
        PROVE  commands' \in [Command -> CommandRecord]
    BY <2>1, <2>3, <2>5, <2>6, <2>8
  <2> QED
    BY <2>2, <2>4, <2>7, <2>8
<1>2. ~Terminal(jobs[j].status) =>
        /\ cancelled \in JobRecord
        /\ cancelled.status = "CANCELLED"
        /\ <<cancelled.server, cancelled.gpus, cancelled.resv, cancelled.dispatched>>
             = <<jobs[j].server, jobs[j].gpus, jobs[j].resv, jobs[j].dispatched>>
  BY <1>0 DEF Transition, JobRecord, JobStatus, TerminationReason
<1>3. CASE CancelQueued(j)
  <2>1. jobs[j].server = NONE /\ ~Terminal(jobs[j].status)
    BY <1>3, <1>0 DEF CancelQueued, ShapedJob, Terminal
  <2>2. jobs' = [jobs EXCEPT ![j] = cancelled]
    BY <1>3 DEF CancelQueued
  <2>3. ShapedJob(cancelled) /\ ~Flies(cancelled) /\ ~Flies(jobs[j])
    BY <1>0, <1>2, <2>1 DEF ShapedJob, Flies, Terminal
  <2> HIDE DEF cancelled
  <2> QED
    BY <1>1, <1>2, <1>3, <2>1, <2>2, <2>3, EditStep DEF CancelQueued
<1>4. CASE CancelUndelivered(j)
  <2>1. jobs[j].server # NONE /\ ~Terminal(jobs[j].status)
    BY <1>4 DEF CancelUndelivered, Stoppable
  <2>2. jobs' = [jobs EXCEPT ![j] = Released(cancelled)] /\ ReleaseOn(jobs', jobs[j].server)
    BY <1>4 DEF CancelUndelivered
  <2>3. /\ Released(cancelled) \in JobRecord /\ ShapedJob(Released(cancelled))
        /\ Terminal(Released(cancelled).status)
    <3> HIDE DEF cancelled
    <3> QED
      BY <1>2, <2>1, ReleasedShaped DEF Terminal
  <2> HIDE DEF cancelled
  <2> QED
    BY <1>1, <2>1, <2>2, <2>3, ReleaseStep
<1>5. CASE StopDelivered(j)
  <2> DEFINE stopping == [jobs[j] EXCEPT !.why = StopReason(j), !.status = "STOPPING"]
  <2>1. jobs[j].status \in {"STARTING", "RUNNING"}
    BY <1>0, <1>5 DEF StopDelivered, Stoppable, ShapedJob, JobRecord, JobStatus, Terminal
  <2>2. /\ stopping \in JobRecord /\ ShapedJob(stopping)
        /\ Flies(stopping) /\ Flies(jobs[j])
        /\ stopping.server = jobs[j].server /\ stopping.gpus = jobs[j].gpus
    BY <1>0, <2>1 DEF JobRecord, JobStatus, ShapedJob, Flies, Terminal
  <2>3. jobs' = [jobs EXCEPT ![j] = stopping] /\ servers' = servers
    BY <1>5 DEF StopDelivered
  <2> HIDE DEF stopping
  <2> QED
    BY <1>1, <2>2, <2>3, EditStep
<1>6. CASE NothingToStop(j)
  <2>1. TypeOK'
    BY <1>1, <1>6 DEF NothingToStop, Inv, TypeOK
  <2> QED
    BY <1>6, <2>1, QuietStep DEF NothingToStop
<1> QED
  BY <1>3, <1>4, <1>5, <1>6 DEF RequestStop

(* An acknowledgement (applyAckLocked) keeps the tables in agreement; a
   failed START releases in the same step.                                   *)
LEMMA AckCommandInv ==
  ASSUME Inv, Issued, NEW c \in Command, NEW ok \in BOOLEAN, AckCommand(c, ok)
  PROVE  Inv'
<1> DEFINE j == JobOf(c)
<1>0. j \in Job /\ (c \in Starts => c = StartOf(j))
  BY DEF Command, Starts, Stops, JobOf, StartOf
<1>1. jobs[j] \in JobRecord /\ ShapedJob(jobs[j]) /\ jobs \in [Job -> JobRecord]
  BY <1>0 DEF Inv, TypeOK, Shaped
<1>2. commands' \in [Command -> CommandRecord]
  <2>1. now \in Time /\ commands \in [Command -> CommandRecord]
    BY DEF Inv, TypeOK
  <2>2. [status |-> IF ok THEN "SUCCEEDED" ELSE "FAILED", lease |-> 0, done |-> now]
          \in CommandRecord
    BY <2>1 DEF CommandRecord, CommandStatus, Time
  <2> QED
    BY <2>1, <2>2 DEF AckCommand, Acked
<1>3. now' = now /\ sweep' = sweep /\ sweep' \in [Ticker -> [Job -> Snapshot]]
  BY DEF AckCommand, Inv, TypeOK
<1>4. CASE UNCHANGED <<jobs, servers>>
  <2>1. TypeOK'
    BY <1>2, <1>3, <1>4 DEF Inv, TypeOK
  <2> QED
    BY <2>1, <1>4, QuietStep
<1>5. CASE c \in Starts /\ ~UNCHANGED <<jobs, servers>>
  <2>1. AckStart(j, ok) /\ commands[StartOf(j)].status = "DELIVERED"
    BY <1>0, <1>5 DEF AckCommand
  <2>2. jobs[j].dispatched /\ jobs[j].status # "ASSIGNED" /\ ~Terminal(jobs[j].status)
    BY <2>1, <1>0, <1>1, <1>5 DEF Issued, ShapedJob, AckStart
  <2>3. jobs[j].server # NONE
    BY <2>2, <1>1 DEF ShapedJob
  <2>4. ~ok
    <3> SUFFICES ASSUME ok PROVE UNCHANGED <<jobs, servers>>
      BY <1>5
    <3>1. servers' = servers /\ jobs' = [jobs EXCEPT ![j].status = @]
      BY <2>1, <2>2 DEF AckStart
    <3>2. jobs' = jobs
      BY <3>1, <1>1, <1>0 DEF JobRecord
    <3> QED
      BY <3>1, <3>2
  <2> DEFINE failed == [jobs[j] EXCEPT !.status = "FAILED", !.why = "EXECUTION_ERROR"]
  <2>5. failed \in JobRecord /\ Terminal(failed.status) /\ failed.server # NONE
    BY <1>1, <2>3 DEF JobRecord, JobStatus, TerminationReason, Terminal
  <2>6. jobs' = [jobs EXCEPT ![j] = Released(failed)] /\ ReleaseOn(jobs', jobs[j].server)
    BY <2>1, <2>2, <2>4, <1>5 DEF AckStart
  <2> HIDE DEF failed
  <2>7. /\ Released(failed) \in JobRecord /\ ShapedJob(Released(failed))
        /\ Terminal(Released(failed).status)
    BY <2>5, ReleasedShaped
  <2> QED
    BY <1>0, <1>2, <1>3, <2>3, <2>6, <2>7, ReleaseStep
<1>6. CASE c \notin Starts
  <2> DEFINE running == [jobs[j] EXCEPT !.status = "RUNNING"]
  <2>1. CASE jobs' = jobs
    BY <2>1, <1>4, <1>6 DEF AckCommand, AckStop
  <2>2. CASE jobs[j].status = "STOPPING" /\ jobs' = [jobs EXCEPT ![j] = running]
    <3>1. /\ running \in JobRecord /\ ShapedJob(running)
          /\ Flies(running) /\ Flies(jobs[j])
          /\ running.server = jobs[j].server /\ running.gpus = jobs[j].gpus
      BY <1>1, <2>2 DEF JobRecord, JobStatus, ShapedJob, Flies, Terminal
    <3>2. servers' = servers
      BY <1>6 DEF AckCommand, AckStop
    <3> HIDE DEF running
    <3> QED
      BY <1>0, <1>2, <1>3, <2>2, <3>1, <3>2, EditStep
  <2> QED
    BY <2>1, <2>2, <1>6 DEF AckCommand, AckStop
<1> QED
  BY <1>4, <1>5, <1>6

(* Planning leaves each candidate queued and unassigned, or booked and not
   dispatched (ReplanReservations).                                          *)
LEMMA BookedShaped ==
  ASSUME NEW job \in JobRecord, ~job.dispatched, NEW p \in Placement
  PROVE  Booked(job, p) \in JobRecord /\ ShapedJob(Booked(job, p)) /\ ~Flies(Booked(job, p))
<1>1. p.server \in Server /\ p.gpus \in SUBSET GPU /\ p.server # NONE
  BY NoneIsNoServer DEF Placement
<1>2. Booked(job, p) \in JobRecord
  BY <1>1 DEF Booked, JobRecord, JobStatus, ReservationState
<1>3. /\ Booked(job, p).status = "ASSIGNED" /\ Booked(job, p).server # NONE
      /\ Booked(job, p).resv = "PLANNED" /\ ~Booked(job, p).dispatched
  BY <1>1 DEF Booked, JobRecord
<1> QED
  BY <1>2, <1>3 DEF ShapedJob, Flies, Terminal

(* Every scheduler run plans some set of jobs (scopedJobs).                  *)
LEMMA SomePlanned ==
  ASSUME NEW at, Replan(at)
  PROVE  \E visible \in SUBSET Job : Replanned(visible, at)
  BY ControlPlaneAssumption DEF Replan, Scope

(* Planning touches no job in flight and no GPU.                             *)
LEMMA ReplanInv ==
  ASSUME Inv, NEW at, Replan(at)
  PROVE  Inv'
<1>v. PICK visible \in SUBSET Job : Replanned(visible, at)
  BY SomePlanned
<1> DEFINE candidates == {j \in visible : Replannable(jobs[j], j, at)}
<1>1. PICK rank \in Rankings(candidates), plan \in [candidates -> Placement \cup {NoPlacement}] :
        jobs' = Book(jobs, plan, candidates)
  BY <1>v DEF Replanned
<1>2. ASSUME NEW j \in Job
      PROVE  /\ jobs'[j] \in JobRecord /\ ShapedJob(jobs'[j])
             /\ \/ jobs'[j] = jobs[j]
                \/ ~Flies(jobs[j]) /\ ~Flies(jobs'[j])
  <2>0. jobs[j] \in JobRecord /\ ShapedJob(jobs[j])
    BY DEF Inv, TypeOK, Shaped
  <2>1. CASE j \notin candidates
    BY <1>1, <2>0, <2>1 DEF Book
  <2>2. CASE j \in candidates
    <3>1. ~jobs[j].dispatched
      BY <2>0, <2>2 DEF Replannable, ShapedJob
    <3>2. \/ jobs'[j] = Unbook(jobs[j])
          \/ plan[j] \in Placement /\ jobs'[j] = Booked(jobs[j], plan[j])
      BY <1>1, <2>2 DEF Book
    <3>3. CASE jobs'[j] = Unbook(jobs[j])
      BY <2>0, <3>1, <3>3
      DEF Unbook, JobRecord, JobStatus, ReservationState, ShapedJob, Flies, Terminal
    <3>4. CASE plan[j] \in Placement /\ jobs'[j] = Booked(jobs[j], plan[j])
      BY <2>0, <3>1, <3>4, BookedShaped DEF Flies
    <3> QED
      BY <3>2, <3>3, <3>4
  <2> QED
    BY <2>1, <2>2
<1>3. jobs' \in [Job -> JobRecord]
  BY <1>1, <1>2 DEF Book
<1>4. TypeOK' /\ Shaped'
  BY <1>2, <1>3 DEF Replan, Inv, TypeOK, Shaped, ShapedJob
<1>5. KeepsFlight
  BY <1>2 DEF KeepsFlight, InFlight, Flies
<1>6. \A s \in Server : KeepsServer(s)
  BY <1>2 DEF KeepsServer, InFlight, Flies, Replan
<1> QED
  BY <1>4, <1>5, <1>6, AgreementStep DEF Inv

(* The steps of a controller pass.                                           *)
LEMMA ExpireQueuedInv ==
  ASSUME Inv, NEW j \in Job, ExpireQueued(j), now' = now,
         sweep' \in [Ticker -> [Job -> Snapshot]]
  PROVE  Inv'
<1> DEFINE expired == Released(Transition(jobs[j], "FAILED", "SYSTEM_ERROR"))
           job == IF jobs[j].status = "QUEUED" THEN expired ELSE jobs[j]
<1>0. jobs[j] \in JobRecord /\ ShapedJob(jobs[j])
  BY DEF Inv, TypeOK, Shaped
<1>1. /\ job \in JobRecord /\ ShapedJob(job)
      /\ Flies(job) <=> Flies(jobs[j])
      /\ job.server = jobs[j].server /\ job.gpus = jobs[j].gpus
  <2>1. CASE jobs[j].status # "QUEUED"
    BY <2>1, <1>0
  <2>2. CASE jobs[j].status = "QUEUED"
    <3>1. /\ jobs[j].server = NONE /\ ~jobs[j].dispatched
          /\ jobs[j].gpus = {} /\ jobs[j].resv = "NONE"
      BY <1>0, <2>2 DEF ShapedJob
    <3>2. job = Transition(jobs[j], "FAILED", "SYSTEM_ERROR")
      <4>1. Transition(jobs[j], "FAILED", "SYSTEM_ERROR").server = NONE
        BY <1>0, <2>2, <3>1 DEF Transition, JobRecord, Terminal
      <4> QED
        BY <2>2, <4>1 DEF Released
    <3>3. \E why \in TerminationReason : job = [jobs[j] EXCEPT !.status = "FAILED", !.why = why]
      BY <1>0, <2>2, <3>2 DEF Transition, JobRecord, TerminationReason, Terminal
    <3>4. job.status = "FAILED" /\ job.server = NONE /\ ~job.dispatched
          /\ job.gpus = {} /\ job.resv = "NONE" /\ job \in JobRecord
      <4> HIDE DEF job
      <4> QED
        BY <1>0, <3>1, <3>3 DEF JobRecord, JobStatus
    <3> HIDE DEF job
    <3> QED
      BY <3>1, <3>4, <2>2 DEF ShapedJob, Flies, Terminal
  <2> QED
    BY <2>1, <2>2
<1>2. jobs' = [jobs EXCEPT ![j] = job] /\ UNCHANGED <<servers, commands>>
  BY DEF ExpireQueued
<1>3. commands' \in [Command -> CommandRecord]
  BY <1>2 DEF Inv, TypeOK
<1> HIDE DEF job
<1> QED
  BY <1>1, <1>2, <1>3, EditStep

(* A refused commit changes at most the note on a booking (SetJobStatus).    *)
LEMMA KeepWaitingInv ==
  ASSUME Inv, NEW j \in Job, NEW snap, KeepWaiting(j, snap), now' = now,
         sweep' \in [Ticker -> [Job -> Snapshot]]
  PROVE  Inv'
<1> DEFINE job == NoteWaiting(jobs[j])
<1>0. jobs[j] \in JobRecord /\ ShapedJob(jobs[j])
  BY DEF Inv, TypeOK, Shaped
<1>1. /\ job \in JobRecord /\ ShapedJob(job)
      /\ Flies(job) <=> Flies(jobs[j])
      /\ job.server = jobs[j].server /\ job.gpus = jobs[j].gpus
  BY <1>0 DEF NoteWaiting, Transition, JobRecord, JobStatus, TerminationReason, ShapedJob, Flies, Terminal
<1>2. jobs' = [jobs EXCEPT ![j] = job] /\ UNCHANGED <<servers, commands>>
  BY DEF KeepWaiting
<1>3. commands' \in [Command -> CommandRecord]
  BY <1>2 DEF Inv, TypeOK
<1> HIDE DEF job
<1> QED
  BY <1>1, <1>2, <1>3, EditStep

(* CommitAssignment takes only FREE GPUs, which by Agreement no job in
   flight holds, and reserves exactly those.                                 *)
LEMMA CommitInv ==
  ASSUME Inv, NEW j \in Job, NEW snap \in Snapshot, CommitAssignment(j, snap), now' = now,
         sweep' \in [Ticker -> [Job -> Snapshot]]
  PROVE  Inv'
<1> DEFINE s == snap.server
           started == [jobs[j] EXCEPT !.status = "STARTING", !.resv = "RESERVED",
                                      !.dispatched = TRUE]
           view(g) == IF g \in snap.gpus THEN [state |-> "RESERVED", owner |-> j]
                      ELSE servers[s].gpus[g]
<1>0. jobs[j] \in JobRecord /\ ShapedJob(jobs[j]) /\ ~InFlight(j)
  BY DEF Inv, TypeOK, Shaped, CommitAssignment, CommitAllowed, InFlight
<1>1. s \in Server /\ jobs[j].server = s /\ jobs[j].gpus = snap.gpus
  BY <1>0 DEF CommitAssignment, CommitAllowed, ShapedJob, JobRecord
<1>2. /\ started \in JobRecord /\ ShapedJob(started) /\ Flies(started)
      /\ started.server = s /\ started.gpus = snap.gpus /\ started.resv = "RESERVED"
  BY <1>0, <1>1, NoneIsNoServer
  DEF JobRecord, JobStatus, ReservationState, ShapedJob, Flies, Terminal
<1>3. jobs' = [jobs EXCEPT ![j] = started]
  BY DEF CommitAssignment
<1> HIDE DEF started
<1>4. servers[s] \in ServerRecord
  BY <1>1 DEF Inv, TypeOK
<1>5. \A g \in GPU : view(g) \in GPUView
  BY <1>4 DEF ServerRecord, GPUView, GPUState
<1>6. servers' = [servers EXCEPT ![s] = [servers[s] EXCEPT !.gpus = [g \in GPU |-> view(g)]]]
  BY <1>1, <1>4 DEF CommitAssignment, Inv, TypeOK
<1>7. \A g \in GPU : /\ g \in snap.gpus => servers[s].gpus[g].state = "FREE"
                     /\ g \in snap.gpus => view(g) = [state |-> "RESERVED", owner |-> j]
                     /\ g \notin snap.gpus => view(g) = servers[s].gpus[g]
  BY DEF CommitAssignment, CommitAllowed, Allocatable
<1> HIDE DEF view
<1>8. [servers[s] EXCEPT !.gpus = [g \in GPU |-> view(g)]] \in ServerRecord
  BY <1>4, <1>5 DEF ServerRecord
<1>9. servers' \in [Server -> ServerRecord]
  BY <1>1, <1>6, <1>8 DEF Inv, TypeOK
<1>10. commands' \in [Command -> CommandRecord]
  <2>1. StartOf(j) \in Command /\ commands \in [Command -> CommandRecord]
    BY DEF StartOf, Command, Starts, Inv, TypeOK
  <2>2. commands[StartOf(j)] \in CommandRecord
    BY <2>1
  <2>3. [commands[StartOf(j)] EXCEPT !.status = "PENDING"] \in CommandRecord
    BY <2>2 DEF CommandRecord, CommandStatus
  <2>4. commands' = [commands EXCEPT ![StartOf(j)] = [commands[StartOf(j)] EXCEPT !.status = "PENDING"]]
    BY <2>1 DEF CommitAssignment
  <2> QED
    BY <2>1, <2>3, <2>4
<1>11. jobs \in [Job -> JobRecord]
  BY DEF Inv, TypeOK
<1>12. TypeOK'
  BY <1>2, <1>3, <1>9, <1>10 DEF Inv, TypeOK, ShapedJob
<1>13. Shaped'
  BY <1>2, <1>3, <1>11 DEF Inv, Shaped
<1>14. \A k \in Job : /\ k # j => jobs'[k] = jobs[k]
                      /\ InFlight(k)' => k = j \/ InFlight(k)
                      /\ k # j /\ InFlight(k) => InFlight(k)'
  BY <1>3, <1>11 DEF InFlight
<1>15. jobs'[j] = started
  BY <1>3, <1>11
<1>16. \A r \in Server, g \in GPU :
         /\ r # s \/ g \notin snap.gpus => servers'[r].gpus[g] = servers[r].gpus[g]
         /\ g \in snap.gpus => servers'[s].gpus[g] = [state |-> "RESERVED", owner |-> j]
  BY <1>1, <1>4, <1>6, <1>7 DEF Inv, TypeOK, ServerRecord
<1>17. InFlightNotFree'
  <2> SUFFICES ASSUME NEW k \in Job, InFlight(k)', NEW g \in jobs'[k].gpus
               PROVE  servers'[jobs'[k].server].gpus[g].state # "FREE"
    BY DEF InFlightNotFree
  <2>1. jobs'[k] \in JobRecord /\ ShapedJob(jobs'[k])
    BY <1>12, <1>13 DEF TypeOK, Shaped
  <2>2. jobs'[k].server \in Server /\ g \in GPU
    BY <2>1 DEF ShapedJob, JobRecord, InFlight
  <2>3. CASE k = j
    BY <2>3, <2>2, <1>2, <1>15, <1>16
  <2>4. CASE k # j
    <3>1. servers[jobs[k].server].gpus[g].state # "FREE"
      BY <2>4, <1>14 DEF Inv, Agreement, InFlightNotFree
    <3> QED
      BY <3>1, <2>2, <2>4, <1>14, <1>16
  <2> QED
    BY <2>3, <2>4
<1>18. ReservationsLive'
  <2>1. ASSUME NEW r \in Server, NEW g \in GPU, servers'[r].gpus[g].state = "RESERVED"
        PROVE  \E k \in Job : /\ servers'[r].gpus[g].owner = k
                              /\ InFlight(k)'
                              /\ Holds(jobs'[k], r, g)
    <3>1. CASE r = s /\ g \in snap.gpus
      BY <3>1, <1>2, <1>15, <1>16 DEF Holds, Flies, InFlight
    <3>2. CASE ~(r = s /\ g \in snap.gpus)
      <4>1. servers'[r].gpus[g] = servers[r].gpus[g]
        BY <3>2, <1>16
      <4>2. PICK k : k = servers[r].gpus[g].owner
        OBVIOUS
      <4>3. k # NONE /\ InFlight(k) /\ Holds(jobs[k], r, g)
        BY <2>1, <4>1, <4>2 DEF Inv, Agreement, ReservationsLive
      <4>4. k \in Job
        BY <4>2, <4>3 DEF Inv, TypeOK, ServerRecord, GPUView
      <4> QED
        BY <4>1, <4>2, <4>3, <4>4, <1>0, <1>14
    <3> QED
      BY <3>1, <3>2
  <2> QED
    BY <2>1, NoneIsNoServer DEF ReservationsLive, InFlight
<1>19. ExclusiveGPU'
  <2>1. \A k \in Job : (k # j /\ InFlight(k) /\ jobs[k].server = s) => jobs[k].gpus \cap snap.gpus = {}
    <3> SUFFICES ASSUME NEW k \in Job, k # j, InFlight(k), jobs[k].server = s,
                        NEW g \in jobs[k].gpus, g \in snap.gpus
                 PROVE  FALSE
      OBVIOUS
    <3>1. g \in GPU
      BY DEF Inv, TypeOK, JobRecord
    <3> QED
      BY <3>1, <1>7 DEF Inv, Agreement, InFlightNotFree
  <2>2. \A k, l \in Job : (k # l /\ InFlight(k) /\ InFlight(l) /\ jobs[k].server = jobs[l].server)
                           => jobs[k].gpus \cap jobs[l].gpus = {}
    BY DEF Inv, Agreement, ExclusiveGPU
  <2> SUFFICES ASSUME NEW k \in Job, NEW l \in Job, k # l, InFlight(k)', InFlight(l)',
                      jobs'[k].server = jobs'[l].server
               PROVE  jobs'[k].gpus \cap jobs'[l].gpus = {}
    BY DEF ExclusiveGPU
  <2> QED
    BY <2>1, <2>2, <1>2, <1>14, <1>15
<1> QED
  BY <1>12, <1>13, <1>17, <1>18, <1>19 DEF Inv, Agreement

(* Handling one job of a pass (processReservations) keeps the tables in
   agreement, however stale the copy it acts on.                             *)
LEMMA HandleJobInv ==
  ASSUME Inv, NEW t \in Ticker, NEW j \in Job, HandleJob(t, j)
  PROVE  Inv'
<1> DEFINE snap == sweep[t][j]
<1>1. sweep \in [Ticker -> [Job -> Snapshot]] /\ snap \in Snapshot
  BY DEF Inv, TypeOK
<1>2. Handled \in Snapshot
  BY DEF Handled, SnapshotOf, Snapshot, Unborn
<1>3. sweep' \in [Ticker -> [Job -> Snapshot]] /\ now' = now
  BY <1>1, <1>2 DEF HandleJob
<1>4. CASE ExpireQueued(j)
  BY <1>3, <1>4, ExpireQueuedInv
<1>5. CASE RequestStop(j)
  BY <1>3, <1>5, RequestStopInv
<1>6. CASE CommitAssignment(j, snap)
  BY <1>1, <1>3, <1>6, CommitInv
<1>7. CASE KeepWaiting(j, snap)
  BY <1>3, <1>7, KeepWaitingInv
<1>8. CASE UNCHANGED <<servers, jobs, commands>>
  <2>1. TypeOK'
    BY <1>3, <1>8 DEF Inv, TypeOK
  <2> QED
    BY <1>8, <2>1, QuietStep
<1> QED
  BY <1>4, <1>5, <1>6, <1>7, <1>8 DEF HandleJob

(* A user's stop (StopJob) is a RequestStop.                                 *)
LEMMA StopJobInv ==
  ASSUME Inv, NEW j \in Job, StopJob(j)
  PROVE  Inv'
BY RequestStopInv DEF StopJob, Inv, TypeOK

(* Every step keeps the tables in agreement.                                 *)
LEMMA NextInv ==
  ASSUME Inv, Issued, [Next]_vars
  PROVE  Inv'
<1>1. CASE Tick
  BY <1>1, TickInv
<1>2. CASE AgentStep
  <2>1. ASSUME NEW s \in Server, NEW mode \in Modes, Register(s, mode) PROVE Inv'
    BY <2>1, RegisterInv
  <2>2. ASSUME NEW s \in Server, Heartbeat(s) PROVE Inv'
    BY <2>2, HeartbeatInv
  <2>3. ASSUME NEW s \in Server, NEW rep \in Reports(s), ReplaceInventory(s, rep) PROVE Inv'
    BY <2>3, ReplaceInventoryInv
  <2>4. ASSUME NEW s \in Server, LeaseCommands(s) PROVE Inv'
    BY <2>4, LeaseInv
  <2>5. ASSUME NEW c \in Command, NEW ok \in BOOLEAN, AckCommand(c, ok) PROVE Inv'
    BY <2>5, AckCommandInv
  <2> QED
    BY <1>2, <2>1, <2>2, <2>3, <2>4, <2>5 DEF AgentStep
<1>3. CASE UserStep
  BY <1>3, CreateJobInv, StopJobInv, DrainInv DEF UserStep
<1>4. CASE ControllerStep
  BY <1>4, MarkStaleInv, ReplanInv, ListJobsInv, HandleJobInv DEF ControllerStep
<1>5. CASE UNCHANGED vars
  <2>1. TypeOK' /\ UNCHANGED <<servers, jobs>>
    BY <1>5 DEF Inv, TypeOK, vars
  <2> QED
    BY <2>1, QuietStep
<1> QED
  BY <1>1, <1>2, <1>3, <1>4, <1>5 DEF Next

------------------------------------------------------------------------------
(* What a step may not do to a job.                                          *)

Planning == \E at : Replan(at)

Dispatches(j) == \E snap \in Snapshot : CommitAssignment(j, snap)

Moves(j) ==
  /\ jobs[j].dispatched => jobs'[j].dispatched
  /\ (jobs[j].dispatched \/ ~Planning) =>
       jobs'[j].server = jobs[j].server /\ jobs'[j].gpus = jobs[j].gpus
  /\ Terminal(jobs[j].status) => jobs'[j] = jobs[j]
  /\ (commands'[StartOf(j)].status # "NONE" /\ commands[StartOf(j)].status = "NONE")
       => jobs'[j].dispatched
  /\ (jobs'[j].dispatched /\ ~jobs[j].dispatched) => Dispatches(j)

(* START and STOP commands of jobs are distinct members of the command
   table.                                                                    *)
LEMMA StartIsCommand ==
  ASSUME NEW j \in Job
  PROVE  /\ StartOf(j) \in Command
         /\ \A k \in Job, n \in 1..MaxStops : StopOf(k, n) # StartOf(j) /\ StopOf(k, n) \in Command
         /\ \A k \in Job : StartOf(k) = StartOf(j) => k = j
BY DEF StartOf, StopOf, Command, Starts, Stops

(* A step that leaves jobs and commands alone moves nothing.                 *)
LEMMA UnchangedMoves ==
  ASSUME UNCHANGED <<jobs, commands>>, NEW j \in Job
  PROVE  Moves(j)
BY DEF Moves

(* RequestStop finishes or stops a job but never moves it, revives it or
   issues a START.                                                           *)
LEMMA RequestStopMoves ==
  ASSUME Inv, NEW k \in Job, RequestStop(k), NEW j \in Job
  PROVE  Moves(j)
<1>0. jobs \in [Job -> JobRecord] /\ commands \in [Command -> CommandRecord] /\ ShapedJob(jobs[k])
  BY DEF Inv, TypeOK, Shaped
<1>1. CASE CancelQueued(k)
  <2>1. /\ \A i \in Job : i # k => jobs'[i] = jobs[i]
        /\ commands' = commands /\ ~Terminal(jobs[k].status)
    BY <1>0, <1>1 DEF CancelQueued, Terminal
  <2>2. /\ jobs'[k].dispatched = jobs[k].dispatched
        /\ jobs'[k].server = jobs[k].server /\ jobs'[k].gpus = jobs[k].gpus
    <3>1. jobs[k] \in JobRecord
      BY <1>0
    <3> QED
      BY <1>0, <1>1, <3>1 DEF CancelQueued, Transition, JobRecord
  <2> QED
    BY <2>1, <2>2 DEF Moves
<1>2. CASE CancelUndelivered(k)
  <2>1. ~Terminal(jobs[k].status)
    BY <1>2 DEF CancelUndelivered, Stoppable
  <2>2. \A i \in Job : i # k => jobs'[i] = jobs[i]
    BY <1>0, <1>2 DEF CancelUndelivered
  <2>3. /\ jobs'[k].dispatched = jobs[k].dispatched
        /\ jobs'[k].server = jobs[k].server /\ jobs'[k].gpus = jobs[k].gpus
    <3>1. jobs[k] \in JobRecord
      BY <1>0
    <3> QED
      BY <1>0, <1>2, <3>1 DEF CancelUndelivered, Released, Transition, JobRecord
  <2>4. commands[StartOf(j)].status = "NONE" => commands'[StartOf(j)].status = "NONE"
    BY <1>0, <1>2, StartIsCommand DEF CancelUndelivered
  <2> QED
    BY <2>1, <2>2, <2>3, <2>4 DEF Moves
<1>3. CASE StopDelivered(k)
  <2>1. ~Terminal(jobs[k].status)
    BY <1>3 DEF StopDelivered, Stoppable
  <2>2. /\ \A i \in Job : i # k => jobs'[i] = jobs[i]
        /\ jobs'[k].dispatched = jobs[k].dispatched
        /\ jobs'[k].server = jobs[k].server /\ jobs'[k].gpus = jobs[k].gpus
    <3>1. jobs[k] \in JobRecord
      BY <1>0
    <3> QED
      BY <1>0, <1>3, <3>1 DEF StopDelivered, JobRecord
  <2>3. commands'[StartOf(j)] = commands[StartOf(j)]
    BY <1>0, <1>3, StartIsCommand DEF StopDelivered
  <2> QED
    BY <2>1, <2>2, <2>3 DEF Moves
<1>4. CASE NothingToStop(k)
  BY <1>4, UnchangedMoves DEF NothingToStop
<1> QED
  BY <1>1, <1>2, <1>3, <1>4 DEF RequestStop

(* A report never moves a job, revives it or issues a START
   (reconcileObservedLocked).                                                *)
LEMMA ReplaceInventoryMoves ==
  ASSUME Inv, NEW s \in Server, NEW rep, ReplaceInventory(s, rep), NEW j \in Job
  PROVE  Moves(j)
<1>1. jobs'[j] \in {jobs[j], Reconciled(s, j, rep)} /\ commands' = commands
  BY DEF ReplaceInventory
<1>2. jobs[j] \in JobRecord
  BY DEF Inv, TypeOK
<1>3. LET new == Reconciled(s, j, rep) IN
        /\ new.server = jobs[j].server
        /\ new.gpus = jobs[j].gpus
        /\ new.dispatched = jobs[j].dispatched
        /\ Terminal(jobs[j].status) => new = jobs[j]
  BY <1>2 DEF Reconciled, Reconcilable, Exited, Missing, Released, Transition, JobRecord
<1> QED
  BY <1>1, <1>3 DEF Moves

(* A poll hands out only commands that were issued (LeaseCommands).          *)
LEMMA LeaseMoves ==
  ASSUME Inv, NEW s \in Server, LeaseCommands(s), NEW j \in Job
  PROVE  Moves(j)
<1>1. commands[StartOf(j)].status = "NONE" => ~Leasable(s, StartOf(j))
  BY DEF Leasable
<1>2. commands[StartOf(j)].status = "NONE" => commands'[StartOf(j)] = commands[StartOf(j)]
  BY <1>1, StartIsCommand DEF LeaseCommands
<1> QED
  BY <1>2 DEF LeaseCommands, Moves

(* An acknowledgement never moves a job, revives it or issues a START
   (AckCommand).                                                             *)
LEMMA AckMoves ==
  ASSUME Inv, NEW c \in Command, NEW ok \in BOOLEAN, AckCommand(c, ok), NEW j \in Job
  PROVE  Moves(j)
<1> DEFINE k == JobOf(c)
<1>0. jobs \in [Job -> JobRecord] /\ commands \in [Command -> CommandRecord] /\ k \in Job
  BY DEF Inv, TypeOK, Command, Starts, Stops, JobOf
<1>1. commands[StartOf(j)].status = "NONE" => commands'[StartOf(j)].status = "NONE"
  BY <1>0, StartIsCommand DEF AckCommand, Acked
<1>2. CASE jobs' = jobs
  BY <1>1, <1>2 DEF Moves
<1>3. CASE jobs' # jobs
  <2>1. ~Terminal(jobs[k].status)
    BY <1>3 DEF AckCommand, AckStart, AckStop, Terminal
  <2>2. jobs[k] \in JobRecord
    BY <1>0
  <2>3. /\ \A i \in Job : i # k => jobs'[i] = jobs[i]
        /\ jobs'[k].dispatched = jobs[k].dispatched
        /\ jobs'[k].server = jobs[k].server /\ jobs'[k].gpus = jobs[k].gpus
    <3>1. \/ \E status : jobs' = [jobs EXCEPT ![k] = [jobs[k] EXCEPT !.status = status]]
          \/ jobs' = [jobs EXCEPT ![k] =
               Released([jobs[k] EXCEPT !.status = "FAILED", !.why = "EXECUTION_ERROR"])]
      BY <1>0, <1>3 DEF AckCommand, AckStart, AckStop
    <3>2. \E job : /\ jobs' = [jobs EXCEPT ![k] = job] /\ job.dispatched = jobs[k].dispatched
                   /\ job.server = jobs[k].server /\ job.gpus = jobs[k].gpus
      BY <2>2, <3>1 DEF Released, JobRecord
    <3> QED
      BY <1>0, <3>2
  <2> QED
    BY <1>1, <2>1, <2>3 DEF Moves
<1> QED
  BY <1>2, <1>3

(* Planning moves only jobs that are not dispatched (ReplanReservations).    *)
LEMMA ReplanMoves ==
  ASSUME Inv, NEW at, Replan(at), NEW j \in Job
  PROVE  Moves(j)
<1>v. PICK visible \in SUBSET Job : Replanned(visible, at)
  BY SomePlanned
<1> DEFINE candidates == {i \in visible : Replannable(jobs[i], i, at)}
<1>1. PICK rank \in Rankings(candidates), plan \in [candidates -> Placement \cup {NoPlacement}] :
        jobs' = Book(jobs, plan, candidates)
  BY <1>v DEF Replanned
<1>2. j \notin candidates => jobs'[j] = jobs[j]
  BY <1>1 DEF Book
<1>3. j \in candidates => ~jobs[j].dispatched /\ ~Terminal(jobs[j].status)
  BY DEF Replannable, Terminal, Inv, Shaped, ShapedJob
<1>4. j \in candidates => ~jobs'[j].dispatched
  <2> SUFFICES ASSUME j \in candidates PROVE ~jobs'[j].dispatched
    OBVIOUS
  <2>1. jobs[j] \in JobRecord
    BY DEF Inv, TypeOK
  <2>2. jobs'[j] = Unbook(jobs[j]) \/ jobs'[j] = Booked(jobs[j], plan[j])
    BY <1>1 DEF Book
  <2> QED
    BY <1>3, <2>1, <2>2 DEF Unbook, Booked, JobRecord
<1> QED
  BY <1>2, <1>3, <1>4 DEF Replan, Moves, Planning

(* A controller handling a stale copy never moves a dispatched job, never
   revives a finished one, and issues a START only with the dispatch
   (CommitAssignment, SetJobStatus).                                         *)
LEMMA HandleJobMoves ==
  ASSUME Inv, NEW t \in Ticker, NEW k \in Job, HandleJob(t, k), NEW j \in Job
  PROVE  Moves(j)
<1> DEFINE snap == sweep[t][k]
<1>0. /\ jobs \in [Job -> JobRecord] /\ commands \in [Command -> CommandRecord]
      /\ jobs[k] \in JobRecord /\ ShapedJob(jobs[k])
  BY DEF Inv, TypeOK, Shaped
<1>1. CASE ExpireQueued(k)
  BY <1>0, <1>1 DEF ExpireQueued, Released, Transition, Moves, ShapedJob, JobRecord, Terminal
<1>2. CASE RequestStop(k)
  BY <1>2, RequestStopMoves
<1>3. CASE CommitAssignment(k, snap)
  <2>1. ~jobs[k].dispatched /\ ~Terminal(jobs[k].status)
    BY <1>3 DEF CommitAssignment, CommitAllowed, Terminal
  <2>2. /\ jobs'[k].dispatched /\ \A i \in Job : i # k => jobs'[i] = jobs[i]
        /\ jobs'[k].server = jobs[k].server /\ jobs'[k].gpus = jobs[k].gpus
    BY <1>0, <1>3 DEF CommitAssignment, JobRecord
  <2>3. j # k => commands'[StartOf(j)] = commands[StartOf(j)]
    BY <1>0, <1>3, StartIsCommand DEF CommitAssignment
  <2>4. Dispatches(k)
    BY <1>3 DEF Dispatches, Inv, TypeOK
  <2> QED
    BY <2>1, <2>2, <2>3, <2>4 DEF Moves
<1>4. CASE KeepWaiting(k, snap)
  BY <1>0, <1>4 DEF KeepWaiting, NoteWaiting, Transition, Moves, ShapedJob, JobRecord, Terminal
<1>5. CASE UNCHANGED <<servers, jobs, commands>>
  BY <1>5, UnchangedMoves
<1> QED
  BY <1>1, <1>2, <1>3, <1>4, <1>5 DEF HandleJob

(* No step of the system does what Moves forbids.                            *)
LEMMA NextMoves ==
  ASSUME Inv, [Next]_vars, NEW j \in Job
  PROVE  Moves(j)
<1>1. CASE Tick \/ MarkStaleServers \/ UNCHANGED vars
  BY <1>1, UnchangedMoves DEF Tick, MarkStaleServers, vars
<1>2. CASE AgentStep
  BY <1>2, UnchangedMoves, ReplaceInventoryMoves, LeaseMoves, AckMoves
  DEF AgentStep, Register, Heartbeat
<1>3. CASE UserStep
  <2>1. ASSUME NEW k \in Job, CreateJob(k) PROVE Moves(j)
    <3>1. ~jobs[k].dispatched /\ ~Terminal(jobs[k].status) /\ commands' = commands
      BY <2>1 DEF CreateJob, Inv, Shaped, ShapedJob, Terminal
    <3>2. /\ \A i \in Job : i # k => jobs'[i] = jobs[i]
          /\ jobs'[k].server = jobs[k].server /\ jobs'[k].gpus = jobs[k].gpus
          /\ jobs'[k].dispatched = jobs[k].dispatched
      BY <2>1 DEF CreateJob, Inv, TypeOK, JobRecord
    <3> QED
      BY <3>1, <3>2 DEF Moves
  <2> QED
    BY <1>3, <2>1, UnchangedMoves, RequestStopMoves DEF UserStep, StopJob, SetServerDrained
<1>4. CASE ControllerStep /\ ~MarkStaleServers
  BY <1>4, UnchangedMoves, ReplanMoves, HandleJobMoves DEF ControllerStep, ListJobs
<1> QED
  BY <1>1, <1>2, <1>3, <1>4 DEF Next

------------------------------------------------------------------------------
(* The calendar.                                                             *)

(* Overlap of windows is symmetric, as TimeWindow.Overlaps is.               *)
LEMMA OverlapsSymmetric ==
  ASSUME NEW j \in Job, NEW k \in Job, Overlaps(j, k)
  PROVE  Overlaps(k, j)
BY DEF Overlaps

(* Only planning gives out bookings.                                         *)
LEMMA HeldBefore ==
  ASSUME Inv, Issued, [Next]_vars, ~Planning, NEW j \in Job, NEW s \in Server, NEW g,
         Holds(jobs'[j], s, g)
  PROVE  Holds(jobs[j], s, g)
<1>1. jobs[j] \in JobRecord /\ ShapedJob(jobs[j])
  BY DEF Inv, TypeOK, Shaped
<1>2. Moves(j)
  BY NextMoves
<1>3. ~Terminal(jobs[j].status)
  BY <1>2 DEF Moves, Holds
<1>4. jobs[j].resv # "RELEASED"
  BY <1>1, <1>3 DEF ShapedJob, JobRecord, JobStatus, Terminal
<1> QED
  BY <1>2, <1>3, <1>4 DEF Holds, Moves

(* Planning books a job only where nothing that overlaps it is booked, be it
   a booking that cannot move or one made earlier in the same pass.          *)
LEMMA PlannedApart ==
  ASSUME Inv, NoDoubleBooking, NEW at, Replan(at)
  PROVE  NoDoubleBooking'
<1>v. PICK visible \in SUBSET Job : Replanned(visible, at)
  BY SomePlanned
<1> DEFINE candidates == {j \in visible : Replannable(jobs[j], j, at)}
<1>1. PICK suspended \in SUBSET Suspendable, rank \in Rankings(candidates),
           plan \in [candidates -> Placement \cup {NoPlacement}] :
        /\ IsPlan(plan, rank, jobs, servers, suspended, at)
        /\ jobs' = Book(jobs, plan, candidates)
  BY <1>v DEF Replanned
<1> DEFINE earlier(j) == {k \in candidates : rank[k] < rank[j]}
           book(j) == Book(jobs, plan, earlier(j))
<1> HIDE DEF candidates
<1>2. candidates \subseteq Job /\ DOMAIN plan = candidates
  BY DEF candidates
<1>3. ASSUME NEW j \in candidates, NEW s \in Server, NEW g, Holds(jobs'[j], s, g)
      PROVE  /\ plan[j].server = s /\ g \in plan[j].gpus
             /\ \A k \in Job \ {j} : ~(Holds(book(j)[k], s, g) /\ Overlaps(j, k))
  <2>1. plan[j] # NoPlacement
    <3>1. jobs[j] \in JobRecord
      BY <1>2 DEF Inv, TypeOK
    <3>2. Unbook(jobs[j]).server = NONE
      BY <3>1 DEF Unbook, JobRecord
    <3>3. plan[j] = NoPlacement => jobs'[j] = Unbook(jobs[j])
      BY <1>1, <1>2 DEF Book
    <3> QED
      BY <1>3, <3>2, <3>3, NoneIsNoServer DEF Holds
  <2>2. jobs'[j] = Booked(jobs[j], plan[j])
    BY <1>1, <1>2, <2>1 DEF Book
  <2>3. plan[j].server = s /\ g \in plan[j].gpus
    BY <1>2, <1>3, <2>2 DEF Booked, Holds, Inv, TypeOK, JobRecord
  <2>4. Feasible(j, plan[j], book(j), servers, at)
    BY <1>1, <1>2, <2>1 DEF IsPlan
  <2> QED
    BY <2>3, <2>4 DEF Feasible, Unbooked
<1>4. ASSUME NEW j \in Job, j \notin candidates
      PROVE  jobs'[j] = jobs[j] /\ \A k \in Job : book(k)[j] = jobs[j]
  BY <1>1, <1>2, <1>4 DEF Book
<1>5. ASSUME NEW j \in candidates, NEW k \in candidates, rank[k] < rank[j]
      PROVE  book(j)[k] = jobs'[k]
  BY <1>1, <1>2, <1>5 DEF Book
<1>6. \A j, k \in candidates : j # k => rank[j] < rank[k] \/ rank[k] < rank[j]
  BY <1>1 DEF Rankings
<1> HIDE DEF book, earlier
<1> SUFFICES ASSUME NEW j \in Job, NEW k \in Job, NEW s \in Server, NEW g \in GPU, j # k,
                    Holds(jobs'[j], s, g), Holds(jobs'[k], s, g), Overlaps(j, k)
             PROVE  FALSE
  BY DEF NoDoubleBooking
<1>7. CASE j \notin candidates /\ k \notin candidates
  BY <1>4, <1>7 DEF NoDoubleBooking
<1>8. CASE j \in candidates /\ (k \in candidates => rank[k] < rank[j])
  BY <1>3, <1>4, <1>5, <1>8
<1>9. CASE k \in candidates /\ (j \in candidates => rank[j] < rank[k])
  BY <1>3, <1>4, <1>5, <1>9, OverlapsSymmetric
<1> QED
  BY <1>6, <1>7, <1>8, <1>9

------------------------------------------------------------------------------
(* The theorems.                                                             *)

(* The empty store holds no START.                                           *)
LEMMA IssuedInit == Init => Issued
BY StartIsCommand DEF Init, Issued, NoCommand

(* Only the commit that dispatches a job issues its START
   (CommitAssignment).                                                       *)
LEMMA IssuedNext ==
  ASSUME Inv, Issued, [Next]_vars
  PROVE  Issued'
<1> SUFFICES ASSUME NEW j \in Job, commands'[StartOf(j)].status # "NONE"
             PROVE  jobs'[j].dispatched
  BY DEF Issued, StartOf
<1> QED
  BY NextMoves DEF Moves, Issued

(* The tables of the store always have their shape, and they agree with each
   other: the inductive invariant of the control plane.                      *)
THEOREM Consistent == Spec => [](Inv /\ Issued)
<1>1. Init => Inv /\ Issued
  BY InitInv, IssuedInit
<1>2. Inv /\ Issued /\ [Next]_vars => (Inv /\ Issued)'
  BY NextInv, IssuedNext
<1> QED
  BY <1>1, <1>2, PTL DEF Spec

(* Every step of every handler keeps the shape of the store's tables, for
   any number of jobs, servers, GPUs and any bounds.                         *)
THEOREM TypeCorrect == Spec => []TypeOK
<1>1. Inv => TypeOK
  BY DEF Inv
<1> QED
  BY <1>1, Consistent, PTL

(* Whatever the two controllers remembered, no GPU of a server is ever given
   to two jobs in flight.                                                    *)
THEOREM Exclusive == Spec => []ExclusiveGPU
<1>1. Inv => ExclusiveGPU
  BY DEF Inv, Agreement
<1> QED
  BY <1>1, Consistent, PTL

(* No report, release or commit ever shows a GPU of a job in flight as FREE
   (normalizeGPUState).                                                      *)
THEOREM NeverShownFree == Spec => []InFlightNotFree
<1>1. Inv => InFlightNotFree
  BY DEF Inv, Agreement
<1> QED
  BY <1>1, Consistent, PTL

(* A GPU is RESERVED only for a job in flight that holds it: every way a job
   can finish gives its reservations back in the same step.                  *)
THEOREM NoLeakedReservation == Spec => []ReservationsLive
<1>1. Inv => ReservationsLive
  BY DEF Inv, Agreement
<1> QED
  BY <1>1, Consistent, PTL

LEMMA ShapedReleased == Inv => ReleasedWhenFinished
<1> SUFFICES ASSUME Inv, NEW j \in Job, jobs[j].server # NONE
             PROVE  Terminal(jobs[j].status) <=> jobs[j].resv = "RELEASED"
  BY DEF ReleasedWhenFinished
<1>1. jobs[j] \in JobRecord /\ ShapedJob(jobs[j])
  BY DEF Inv, TypeOK, Shaped
<1> QED
  BY <1>1 DEF ShapedJob, JobRecord, JobStatus, Terminal

(* A job with an assignment is finished exactly when the assignment is
   released (releaseLocked).                                                 *)
THEOREM ReleasedExactly == Spec => []ReleasedWhenFinished
BY ShapedReleased, Consistent, PTL

(* Finished is final.                                                        *)
THEOREM FinishedIsFinal == Spec => TerminalForever
<1>1. Inv /\ [Next]_vars => [\A j \in Job : Terminal(jobs[j].status) => jobs'[j] = jobs[j]]_vars
  BY NextMoves DEF Moves
<1>2. Inv /\ Issued => Inv
  OBVIOUS
<1> QED
  BY <1>1, <1>2, Consistent, PTL DEF Spec, TerminalForever

(* No step plans or commits a dispatched job again.                          *)
LEMMA DispatchedNext ==
  ASSUME Inv, Inv', [Next]_vars, NEW j \in Job, jobs[j].dispatched
  PROVE  /\ jobs'[j].dispatched
         /\ <<jobs'[j].server, jobs'[j].gpus>> = <<jobs[j].server, jobs[j].gpus>>
         /\ jobs'[j].status \notin {"QUEUED", "ASSIGNED"}
<1>1. Moves(j)
  BY NextMoves
<1>2. ShapedJob(jobs'[j])
  BY DEF Inv, Shaped
<1> QED
  BY <1>1, <1>2 DEF Moves, ShapedJob

(* A dispatched job is never planned or committed again.                     *)
THEOREM DispatchedOnce == Spec => NoRedispatch
<1> DEFINE Kept == \A j \in Job : jobs[j].dispatched =>
              /\ jobs'[j].dispatched
              /\ <<jobs'[j].server, jobs'[j].gpus>> = <<jobs[j].server, jobs[j].gpus>>
              /\ jobs'[j].status \notin {"QUEUED", "ASSIGNED"}
<1>1. Inv /\ Inv' /\ [Next]_vars => [Kept]_vars
  BY DispatchedNext
<1>2. Inv /\ Issued => Inv
  OBVIOUS
<1> QED
  BY <1>1, <1>2, Consistent, PTL DEF Spec, NoRedispatch

(* No step books a GPU twice.                                                *)
LEMMA CalendarNext ==
  ASSUME Inv, Issued, NoDoubleBooking, [Next]_vars
  PROVE  NoDoubleBooking'
<1>1. CASE Planning
  BY <1>1, PlannedApart DEF Planning
<1>2. CASE ~Planning
  BY <1>2, HeldBefore DEF NoDoubleBooking
<1> QED
  BY <1>1, <1>2

LEMMA CalendarInit == Init => NoDoubleBooking
<1>1. \A j \in Job, s \in Server, g \in GPU : Init => ~Holds(jobs[j], s, g)
  BY DEF Init, Holds, Unborn
<1> QED
  BY <1>1 DEF NoDoubleBooking

(* No GPU is ever booked twice for overlapping windows, in any order of
   planning, cancellation, dispatch and overrun.                             *)
THEOREM CalendarApart == Spec => []NoDoubleBooking
<1>1. Inv /\ Issued /\ NoDoubleBooking /\ [Next]_vars => NoDoubleBooking'
  BY CalendarNext
<1> QED
  BY <1>1, CalendarInit, Consistent, PTL DEF Spec

(* No step moves a reservation whose start has passed.                       *)
LEMMA FrozenNext ==
  ASSUME Inv, Inv', [Next]_vars, NEW j \in Job, jobs[j].status = "ASSIGNED", Request[j].start < now
  PROVE  Unmoved(j)
<1> USE DEF Unmoved
<1>1. ShapedJob(jobs[j]) /\ ShapedJob(jobs'[j]) /\ Moves(j)
  BY NextMoves DEF Inv, Shaped
<1>2. CASE ~Planning
  BY <1>1, <1>2 DEF Moves, ShapedJob
<1>3. ASSUME NEW at, Replan(at) PROVE jobs'[j] = jobs[j]
  <2>1. at >= Request[j].start
    BY <1>3, DomainAssumption DEF Replan, Inv, TypeOK, Time
  <2>2. ~Replannable(jobs[j], j, at)
    BY <2>1, <1>3, DomainAssumption DEF Replannable, Replan, Inv, TypeOK, Time
  <2> QED
    BY <2>2, <1>3, SomePlanned DEF Replanned, Book
<1> QED
  BY <1>1, <1>2, <1>3 DEF Planning, ShapedJob

(* Planning never moves a reservation from the tick after its start on.      *)
THEOREM ReservationFrozen == Spec => FrozenOncePast
<1> DEFINE Kept == \A j \in Job :
              (jobs[j].status = "ASSIGNED" /\ Request[j].start < now) => Unmoved(j)
<1>1. Inv /\ Inv' /\ [Next]_vars => [Kept]_vars
  BY FrozenNext
<1>2. Inv /\ Issued => Inv
  OBVIOUS
<1> QED
  BY <1>1, <1>2, Consistent, PTL DEF Spec, FrozenOncePast
=============================================================================
