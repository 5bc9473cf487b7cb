---------------------------- MODULE DurableProofs ----------------------------
(***************************************************************************)
(* The control plane keeps its promises across failed transactions and     *)
(* restarts, for any number of jobs, servers and GPUs.  A pass that is     *)
(* given up and a restart write no job, no command and no GPU, so the      *)
(* invariants proved of ControlPlane survive them; what is new is that     *)
(* trust in an inventory is always younger than the process.               *)
(***************************************************************************)
EXTENDS Durable, StoreProofs

(* Trust in an inventory was earned since the start.                         *)
Trusted == \A s \in Server : servers[s].fresh # 0 => s \in proven

DurableInv == Inv /\ Ordered /\ proven \subseteq Server /\ Trusted

(* What neither a failed transaction nor a restart touches.                  *)
TablesKept ==
  /\ UNCHANGED <<now, jobs, commands>>
  /\ \A s \in Server : /\ servers'[s].gpus = servers[s].gpus
                       /\ servers'[s].active = servers[s].active

------------------------------------------------------------------------------
(* The new steps.                                                            *)

LEMMA HandledType == [j \in Job |-> Handled] \in [Job -> Snapshot]
<1>1. Unborn \in JobRecord
  BY DEF Unborn, JobRecord, JobStatus, ReservationState, TerminationReason
<1> QED
  BY <1>1, SnapshotType DEF Handled

LEMMA KeptOrdered ==
  ASSUME Inv, Ordered, TablesKept
  PROVE  Ordered'
<1>1. TypeOK /\ \A j \in Job : Orders(j)
  BY DEF Inv, Ordered
<1>2. \A j \in Job : Orders(j)'
  BY <1>1, UnchangedOrders DEF TablesKept
<1> QED
  BY <1>2 DEF Ordered, Issued, TablesKept

LEMMA AbandonPassInv ==
  ASSUME Inv, Ordered, NEW t \in Ticker, AbandonPass(t)
  PROVE  Inv' /\ Ordered' /\ TablesKept
<1>1. TypeOK'
  BY HandledType DEF Inv, TypeOK, AbandonPass
<1>2. TablesKept
  BY DEF AbandonPass, TablesKept
<1> QED
  BY <1>1, <1>2, QuietStep, KeptOrdered DEF TablesKept

(* A restart believes nothing about connections and inventories (Open).      *)
LEMMA ReopenedType ==
  ASSUME NEW server \in ServerRecord
  PROVE  /\ Reopened(server) \in ServerRecord
         /\ Reopened(server).gpus = server.gpus /\ Reopened(server).active = server.active
         /\ Reopened(server).fresh = 0
BY DEF Reopened, ServerRecord, ServerStatus, Time

LEMMA RestartInv ==
  ASSUME Inv, Ordered, Restart
  PROVE  Inv' /\ Ordered' /\ TablesKept
<1>1. servers \in [Server -> ServerRecord]
  BY DEF Inv, TypeOK
<1>2. servers' \in [Server -> ServerRecord] /\ TablesKept
  BY <1>1, ReopenedType DEF Restart, TablesKept
<1>3. TypeOK'
  BY <1>2, HandledType DEF Inv, TypeOK, Restart
<1> QED
  BY <1>2, <1>3, QuietStep, KeptOrdered DEF TablesKept

LEMMA DurableNextInv ==
  ASSUME Inv, Ordered, [DurableNext]_durableVars
  PROVE  Inv' /\ Ordered' /\ ([Next]_vars \/ TablesKept)
<1>1. CASE Committed \/ UNCHANGED durableVars
  <2>1. [Next]_vars
    BY <1>1 DEF Committed, durableVars
  <2> QED
    BY <2>1, NextInv, OrderedNext DEF Ordered
<1>2. ASSUME NEW t \in Ticker, AbandonPass(t) PROVE Inv' /\ Ordered' /\ TablesKept
  BY <1>2, AbandonPassInv
<1>3. CASE Restart
  BY <1>3, RestartInv
<1> QED
  BY <1>1, <1>2, <1>3 DEF DurableNext

------------------------------------------------------------------------------
(* Trust.                                                                    *)

(* A server that is trusted was so before, or has just sent a report.        *)
LEMMA TrustedNext ==
  ASSUME Inv, Trusted, [DurableNext]_durableVars
  PROVE  Trusted'
<1> SUFFICES ASSUME NEW s \in Server, servers'[s].fresh # 0
             PROVE  s \in proven'
  BY DEF Trusted
<1>0. servers[s] \in ServerRecord
  BY DEF Inv, TypeOK
<1>1. CASE Committed
  <2>1. servers[s].fresh # 0 \/ servers'[s].version # servers[s].version
    <3>1. CASE KeepsGpus(s) \/ Rederives(s)
      BY <3>1 DEF KeepsGpus, Rederives
    <3>2. CASE Reserves(s)
      BY <1>0, <3>2 DEF Reserves, CommitAssignment, Inv, TypeOK, ServerRecord
    <3>3. ASSUME NEW rep \in Reports(s), ReplaceInventory(s, rep)
          PROVE  servers'[s].version # servers[s].version
      <4>1. servers'[s].version = rep.seq /\ rep.seq > servers[s].version
        BY <3>3 DEF ReplaceInventory, Inv, TypeOK
      <4>2. rep.seq \in Nat /\ servers[s].version \in Nat
        BY <1>0, ControlPlaneAssumption DEF Reports, ServerRecord
      <4> QED
        BY <4>1, <4>2
    <3>4. Changes(s)
      BY <1>1, NextChanges DEF Committed
    <3> QED
      BY <3>1, <3>2, <3>3, <3>4 DEF Changes, Replaces
  <2> QED
    BY <1>1, <2>1 DEF Committed, Proving, Trusted
<1>2. CASE \E t \in Ticker : AbandonPass(t)
  BY <1>2 DEF AbandonPass, Trusted
<1>3. CASE Restart
  BY <1>0, <1>3, ReopenedType DEF Restart
<1>4. CASE UNCHANGED durableVars
  BY <1>4 DEF durableVars, vars, Trusted
<1> QED
  BY <1>1, <1>2, <1>3, <1>4 DEF DurableNext

(* Commits and polls rely on trust.                                          *)
LEMMA DispatchTrusted ==
  ASSUME Inv, Trusted, [DurableNext]_durableVars, NEW j \in Job,
         \/ jobs'[j].dispatched /\ ~jobs[j].dispatched
         \/ commands'[StartOf(j)].status = "DELIVERED" /\ commands'[StartOf(j)] # commands[StartOf(j)]
  PROVE  jobs'[j].server \in proven
<1>0. jobs \in [Job -> JobRecord] /\ commands \in [Command -> CommandRecord] /\ StartOf(j) \in Command
  BY StartIsCommand DEF Inv, TypeOK
<1>1. [Next]_vars
  BY DEF DurableNext, Committed, AbandonPass, Restart, durableVars
<1>2. CASE jobs'[j].dispatched /\ ~jobs[j].dispatched
  <2>1. PICK snap \in Snapshot : CommitAssignment(j, snap)
    BY <1>1, <1>2, NextMoves DEF Moves, Dispatches
  <2>2. jobs'[j].server = snap.server /\ servers[snap.server].fresh # 0
    BY <1>0, <2>1 DEF CommitAssignment, CommitAllowed, Schedulable, SchedulableWithin, JobRecord
  <2>3. snap.server \in Server
    BY <1>0, <2>1 DEF CommitAssignment, CommitAllowed, JobRecord, Inv, Shaped, ShapedJob
  <2> QED
    BY <2>2, <2>3 DEF Trusted
<1>3. CASE commands'[StartOf(j)].status = "DELIVERED" /\ commands'[StartOf(j)] # commands[StartOf(j)]
  <2>1. PICK s \in Server : LeaseCommands(s)
    <3>1. ASSUME NEW k \in Job, RequestStop(k) PROVE FALSE
      <4>1. CASE CancelUndelivered(k)
        BY <1>0, <1>3, <4>1 DEF CancelUndelivered, CommandRecord
      <4>2. CASE StopDelivered(k)
        BY <1>0, <1>3, <4>2, StartIsCommand DEF StopDelivered
      <4> QED
        BY <1>3, <3>1, <4>1, <4>2 DEF RequestStop, CancelQueued, NothingToStop
    <3>2. ASSUME NEW k \in Job, NEW snap, CommitAssignment(k, snap) PROVE FALSE
      BY <1>0, <1>3, <3>2 DEF CommitAssignment, CommandRecord
    <3>3. ASSUME NEW c \in Command, NEW ok \in BOOLEAN, AckCommand(c, ok) PROVE FALSE
      BY <1>0, <1>3, <3>3 DEF AckCommand, Acked
    <3>4. ~UNCHANGED commands
      BY <1>3
    <3>5. ~UserStep /\ ~ControllerStep
      BY <3>1, <3>2, <3>4 DEF UserStep, CreateJob, StopJob, SetServerDrained, ControllerStep,
         MarkStaleServers, Replan, ListJobs, HandleJob, ExpireQueued, KeepWaiting
    <3> QED
      BY <1>1, <3>3, <3>4, <3>5 DEF Next, AgentStep, Tick, vars, Register, Heartbeat, ReplaceInventory
  <2>2. Leasable(s, StartOf(j)) /\ jobs' = jobs
    BY <1>0, <1>3, <2>1 DEF LeaseCommands
  <2>3. jobs[j].server = s /\ Schedulable(servers[s], now)
    BY <2>2 DEF Leasable, StartDeliverable, StartOf, Starts, JobOf
  <2> QED
    BY <2>2, <2>3 DEF Trusted, Schedulable, SchedulableWithin
<1> QED
  BY <1>2, <1>3

------------------------------------------------------------------------------
(* The theorems.                                                             *)

(* Failures and restarts included, the tables agree, and only inventories of
   this process are trusted: the inductive invariant of the durable control
   plane.                                                                    *)
THEOREM DurableConsistent == DurableSpec => []DurableInv
<1>1. DurableInit => DurableInv
  BY InitInv, OrderedInit DEF DurableInit, DurableInv, Trusted, Init, Unregistered
<1>2. DurableInv /\ [DurableNext]_durableVars => DurableInv'
  <2> SUFFICES ASSUME DurableInv, [DurableNext]_durableVars PROVE DurableInv'
    OBVIOUS
  <2>1. proven' \subseteq Server
    BY DEF DurableInv, DurableNext, Committed, Proving, AbandonPass, Restart, durableVars
  <2> QED
    BY <2>1, DurableNextInv, TrustedNext DEF DurableInv
<1> QED
  BY <1>1, <1>2, PTL DEF DurableSpec

(* The tables keep their shape, and every name in the history is a server.   *)
THEOREM DurableTypes == DurableSpec => []DurableTypeOK
<1>1. DurableInv => DurableTypeOK
  BY DEF DurableInv, Inv, DurableTypeOK
<1> QED
  BY <1>1, DurableConsistent, PTL

(* Nothing is dispatched, and no START handed out, on an inventory from
   before the last start (Open, CommitAssignment, LeaseCommands).            *)
THEOREM DispatchProven == DurableSpec => DispatchOnProof
<1> DEFINE OnProof == \A j \in Job :
       LET start == StartOf(j)
       IN (\/ jobs'[j].dispatched /\ ~jobs[j].dispatched
           \/ commands'[start].status = "DELIVERED" /\ commands'[start] # commands[start])
            => jobs'[j].server \in proven
<1>1. DurableInv /\ [DurableNext]_durableVars => [OnProof]_durableVars
  BY DispatchTrusted DEF DurableInv
<1> QED
  BY <1>1, DurableConsistent, PTL DEF DurableSpec, DispatchOnProof

(* No two jobs in flight share a GPU, none of theirs is shown FREE, and
   finishing and releasing stay one thing, when transactions fail and the
   control plane restarts.                                                   *)
THEOREM DurableExclusive ==
  DurableSpec => [](ExclusiveGPU /\ InFlightNotFree /\ ReservationsLive /\ ReleasedWhenFinished)
<1>1. Inv => ExclusiveGPU /\ InFlightNotFree /\ ReservationsLive /\ ReleasedWhenFinished
  <2>1. Inv => ExclusiveGPU /\ InFlightNotFree /\ ReservationsLive
    BY DEF Inv, Agreement
  <2>2. Inv => ReleasedWhenFinished
    BY ShapedReleased
  <2> QED
    BY <2>1, <2>2
<1>2. DurableInv => Inv
  BY DEF DurableInv
<1> QED
  BY <1>1, <1>2, DurableConsistent, PTL

(* The bookkeeping of commands survives as well: an interrupted pass neither
   loses nor repeats a START or a STOP.                                      *)
THEOREM DurableCommands == DurableSpec => [](StopBookkeeping /\ NoDanglingStart)
<1>1. DurableInv => StopBookkeeping /\ NoDanglingStart
  BY OrderedStops, OrderedStarts DEF DurableInv
<1> QED
  BY <1>1, DurableConsistent, PTL

(* And so do the calendar, the home of each GPU and the protection of what
   was seen to run.                                                          *)
THEOREM DurableInventory == DurableSpec => [](NoDoubleBooking /\ OneHome /\ ActiveProtected)
<1> DEFINE Kept == NoDoubleBooking /\ OneHome /\ ActiveProtected
<1>1. DurableInit => Kept
  BY CalendarInit, OneHomeInit, ActiveInit DEF DurableInit
<1>2. DurableInv /\ DurableInv' /\ Kept /\ [DurableNext]_durableVars => Kept'
  <2> SUFFICES ASSUME DurableInv, DurableInv', Kept, [DurableNext]_durableVars PROVE Kept'
    OBVIOUS
  <2>1. Inv /\ Inv' /\ Issued
    BY DEF DurableInv, Ordered
  <2>2. CASE [Next]_vars
    BY <2>1, <2>2, CalendarNext, OneHomeNext, ActiveNext
  <2>3. CASE TablesKept /\ \A s \in Server : servers'[s].fresh \in {0, servers[s].fresh}
    BY <2>3 DEF TablesKept, NoDoubleBooking, OneHome, ActiveProtected
  <2>4. [Next]_vars \/ (TablesKept /\ \A s \in Server : servers'[s].fresh \in {0, servers[s].fresh})
    <3>1. CASE Restart
      BY <2>1, <3>1, RestartInv, ReopenedType DEF DurableInv, Restart, Inv, TypeOK
    <3>2. ASSUME NEW t \in Ticker, AbandonPass(t)
          PROVE  TablesKept /\ \A s \in Server : servers'[s].fresh \in {0, servers[s].fresh}
      BY <3>2 DEF AbandonPass, TablesKept
    <3> QED
      BY <3>1, <3>2 DEF DurableNext, Committed, durableVars
  <2> QED
    BY <2>2, <2>3, <2>4
<1> QED
  BY <1>1, <1>2, DurableConsistent, PTL DEF DurableSpec

(* Across failures and restarts finished is final, a dispatched job is never
   dispatched again, and no START follows a STOP.                            *)
THEOREM DurableSteps == DurableSpec => TerminalForever /\ NoRedispatch /\ StopIsLast
<1> DEFINE Final == \A j \in Job : Terminal(jobs[j].status) => jobs'[j] = jobs[j]
           Once == \A j \in Job : jobs[j].dispatched =>
              /\ jobs'[j].dispatched
              /\ <<jobs'[j].server, jobs'[j].gpus>> = <<jobs[j].server, jobs[j].gpus>>
              /\ jobs'[j].status \notin {"QUEUED", "ASSIGNED"}
           Last == \A j \in Job, n \in 1..MaxStops :
              commands'[StopOf(j, n)].status \notin {"NONE", "PENDING"}
                => \/ commands'[StartOf(j)] = commands[StartOf(j)]
                   \/ commands'[StartOf(j)].status \in {"SUCCEEDED", "FAILED"}
<1>1. DurableInv /\ DurableInv' /\ [DurableNext]_durableVars => Final /\ Once /\ Last
  <2> SUFFICES ASSUME DurableInv, DurableInv', [DurableNext]_durableVars PROVE Final /\ Once /\ Last
    OBVIOUS
  <2>1. Inv /\ Inv' /\ Ordered /\ Ordered'
    BY DEF DurableInv
  <2>2. CASE [Next]_vars
    <3>1. Final
      BY <2>1, <2>2, NextMoves DEF Moves
    <3>2. Once
      BY <2>1, <2>2, DispatchedNext
    <3>3. Last
      BY <2>1, <2>2, NextStops DEF StartStatus, StopStatus, StartOf, StopOf
    <3> QED
      BY <3>1, <3>2, <3>3
  <2>3. CASE TablesKept
    BY <2>1, <2>3 DEF TablesKept, Inv, Shaped, ShapedJob
  <2> QED
    BY <2>1, <2>2, <2>3, DurableNextInv
<1>2. DurableInv /\ DurableInv' /\ [DurableNext]_durableVars => [Final]_vars /\ [Once]_vars /\ [Last]_vars
  BY <1>1
<1> QED
  BY <1>2, DurableConsistent, PTL DEF DurableSpec, TerminalForever, NoRedispatch, StopIsLast

(* To its users the control plane on its durable store is still the same pool
   of GPUs: a failed transaction or a restart is no step of the pool.        *)
THEOREM DurablePool == DurableSpec => ImplementsPool
<1>1. DurableInit => Sized /\ Pool!PoolInit
  BY SizedInit, PoolStart DEF DurableInit
<1>2. ASSUME DurableInv, DurableInv', Sized, [DurableNext]_durableVars
      PROVE  Sized' /\ [Pool!PoolNext]_(Pool!poolVars)
  <2>1. Inv /\ Inv' /\ Ordered
    BY <1>2 DEF DurableInv
  <2>2. CASE [Next]_vars
    BY <1>2, <2>1, <2>2, SizedNext, PoolStep
  <2>3. CASE TablesKept
    BY <1>2, <2>3 DEF TablesKept, Sized, Pool!poolVars, PoolPhase, PoolHeld, InFlight
  <2> QED
    BY <1>2, <2>1, <2>2, <2>3, DurableNextInv
<1> QED
  BY <1>1, <1>2, DurableConsistent, PTL DEF DurableSpec, ImplementsPool, Pool!PoolSpec
=============================================================================
