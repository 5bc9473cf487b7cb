------------------------------ MODULE Planner -------------------------------
(***************************************************************************)
(* One planning pass in detail: ScheduleOnce's ReplanReservations, with    *)
(* the policy that orders the jobs (internal/policy), the scheduler that   *)
(* chooses servers and GPUs (application/scheduler.go) and the store that  *)
(* checks the whole plan again before it commits any of it.  Module        *)
(* ControlPlane has the same pass as one step that may take the jobs in    *)
(* any order and choose any feasible placement (Calendar!IsPlan); here     *)
(* they are the ones the code takes and chooses.                           *)
(*                                                                         *)
(* The store's lock is held throughout, so the snapshot does not change    *)
(* during a pass.  The steps of a pass are steps of its loops, and the     *)
(* next pass starts from what this one committed.                          *)
(***************************************************************************)
EXTENDS Calendar, PolicyOrder

CONSTANTS
  Intent,      \* the policy's view of each job
  MinVRAM,     \* memory each job asks for, per GPU
  Total,       \* memory of each GPU
  Fits,        \* the GPUs each job may run on: model, FP8 (CapabilityMatches)
  Number,      \* the order of server identifiers and of GPU UUIDs
  Home,        \* the server each GPU is in
  Suspendable, \* jobs whose organisation may be disabled
  Times,       \* bound: the times of a pass
  Usage,       \* bound: how much memory of a GPU may be in use
  Conditions   \* bound: what the last report may say of a GPU

ASSUME PlannerAssumption ==
  /\ Intent \in [Job -> Applicant]
  /\ \A j, k \in Job : Intent[j].id = Intent[k].id => j = k
  /\ \A j \in Job : Intent[j].count = Request[j].count
  /\ MinVRAM \in [Job -> Nat] /\ Total \in [GPU -> Nat]
  /\ Fits \in [Job -> SUBSET GPU]
  /\ Number \in [Server \cup GPU -> Nat]
  /\ \A x, y \in Server : Number[x] = Number[y] => x = y
  /\ \A x, y \in GPU : Number[x] = Number[y] => x = y
  /\ Home \in [GPU -> Server]
  /\ Suspendable \subseteq Job
  /\ Times \subseteq Nat /\ Usage \subseteq Nat
  /\ Conditions \subseteq {"OK", "UNKNOWN", "UNHEALTHY"}

VARIABLES
  at,         \* the time of the pass
  jobs,       \* the job table
  servers,    \* the server table
  used,       \* memory in use on each GPU, as last reported
  suspended,  \* jobs whose organisation is disabled
  strategy,   \* AIWM_SCHEDULER_STRATEGY
  plan,       \* the placement of each movable job, once it was considered
  considered, \* the jobs this pass has considered
  phase,      \* "PLANNING", then "COMMITTED" or "CONFLICT"
  steady      \* history: this pass may move the jobs the last one moved

snapshot == <<at, servers, used, suspended, strategy>>
vars == <<snapshot, jobs, plan, considered, phase, steady>>

Strategy == {"first-fit", "best-fit", "bin-pack", "fragmentation-aware"}

Movable == {j \in Job : Replannable(jobs[j], j, at)}
Ahead(j, k) == Before(Intent[j], Intent[k], at)

------------------------------------------------------------------------------
(* The snapshots a pass may find: jobs not submitted, queued, booked for later
   or holding their GPUs, booked apart; and GPUs as accounting derives them.  *)
Queued == [Unborn EXCEPT !.status = "QUEUED"]
Running(p) == [Booked(Queued, p) EXCEPT !.status = "RUNNING", !.resv = "ALLOCATED", !.dispatched = TRUE]
Places(j) == {p \in Candidates(j) : \A g \in p.gpus : Home[g] = p.server}
Rows(j) == {Unborn, Queued} \cup {Booked(Queued, p) : p \in Places(j)}
                            \cup {Running(p) : p \in Places(j)}
Apart(table) ==
  \A j, k \in Job : j # k /\ Overlaps(j, k) =>
    \A s \in Server, g \in GPU : ~(Holds(table[j], s, g) /\ Holds(table[k], s, g))

Reported(s, table, condition, status) ==
  [Unregistered EXCEPT
     !.status = status, !.seen = at, !.fresh = at, !.version = 1, !.caps = "FULL",
     !.gpus = Normalize(table, s, [g \in GPU |-> IF Home[g] = s THEN condition[g] ELSE "ABSENT"],
                        {}, {}, {})]

Init ==
  /\ at \in Times
  /\ jobs \in {table \in [Job -> UNION {Rows(j) : j \in Job}] :
                 /\ \A j \in Job : table[j] \in Rows(j)
                 /\ \A j \in Job : table[j].dispatched => Request[j].start <= at
                 /\ Apart(table)}
  /\ \E condition \in [GPU -> Conditions], status \in [Server -> {"ONLINE", "OFFLINE"}] :
       servers = [s \in Server |-> Reported(s, jobs, condition, status[s])]
  /\ used \in [GPU -> Usage]
  /\ suspended \in SUBSET Suspendable
  /\ strategy \in Strategy
  /\ plan = [j \in Movable |-> NoPlacement]
  /\ considered = {}
  /\ phase = "PLANNING"
  /\ steady = FALSE

------------------------------------------------------------------------------
(***************************************************************************)
(* The calendar as a job sees it, given a table of bookings.               *)
(***************************************************************************)
(* A GPU on which the projection of CalendarServers is worked out at all.    *)
Adequate(j, g) == g \in Fits[j] /\ Total[g] >= MinVRAM[j]

ProjectedFree(j, s, g, book) ==
  FreeInTime(j, s, g, book, servers[s], at) /\ Unbooked(j, s, g, book)

(* AvailableMemoryMiB: a GPU that is to be given back counts as empty.       *)
Available(s, g) ==
  IF servers[s].gpus[g].state # "FREE" THEN Total[g]
  ELSE IF used[g] > Total[g] THEN 0 ELSE Total[g] - used[g]

Matches(j, s, g, book) ==
  Adequate(j, g) /\ ProjectedFree(j, s, g, book) /\ Available(s, g) >= MinVRAM[j]
Matching_CapabilityOnly(j, s, book) ==
  {g \in GPU : Adequate(j, g) /\ ProjectedFree(j, s, g, book)}
Matching(j, s, book) == {g \in GPU : Matches(j, s, g, book)}

(* filter: servers of the organisation, connected, with enough GPUs that match. *)
Hosts_SkipExact(j, book) ==
  {s \in Request[j].servers : /\ Schedulable(servers[s], at)
                              /\ Cardinality(Matching(j, s, book)) > Request[j].count}
Hosts(j, book) ==
  {s \in Request[j].servers : /\ Schedulable(servers[s], at)
                              /\ Cardinality(Matching(j, s, book)) >= Request[j].count}

------------------------------------------------------------------------------
(***************************************************************************)
(* Scoring.  The lower score wins; it is a fraction, compared exactly.     *)
(***************************************************************************)
(* Fragmentation keeps empty hosts empty first, then fills hosts up; n GPUs,
   free of them free, taken wanted.                                          *)
Fragmentation(n, free, taken) ==
  LET rest == free - taken
  IN [num |-> (IF free = n THEN 2 * (n + 1) ELSE 0) + (IF rest > 0 THEN n + 1 ELSE 0) + rest,
      den |-> n + 1]
Lower(x, y) == x.num * y.den < y.num * x.den

Score(j, s, book) ==
  LET n == Cardinality({g \in GPU : servers[s].gpus[g].state # "ABSENT"})
      free == Cardinality({g \in GPU : IF Adequate(j, g) THEN ProjectedFree(j, s, g, book)
                                       ELSE servers[s].gpus[g].state = "FREE"})
      taken == Request[j].count
  IN CASE strategy = "best-fit" -> [num |-> Cardinality(Matching(j, s, book)) - taken, den |-> 1]
       [] strategy = "bin-pack" -> [num |-> 10 * (free - taken) - (n - free), den |-> 1]
       [] strategy = "fragmentation-aware" -> Fragmentation(n, free, taken)
       [] OTHER -> [num |-> 0, den |-> 1]

(* selectCandidate and matchingGPUs: the best server, and on it the GPUs with
   the least memory that will do; identifiers break ties.                    *)
Wins(j, s, book) ==
  \A t \in Hosts(j, book) \ {s} :
    \/ Lower(Score(j, s, book), Score(j, t, book))
    \/ ~Lower(Score(j, t, book), Score(j, s, book)) /\ Number[s] < Number[t]
Tighter(s, g, h) ==
  \/ Available(s, g) < Available(s, h)
  \/ Available(s, g) = Available(s, h) /\ Number[g] < Number[h]
Selects(j, p, book) ==
  /\ p.server \in Hosts(j, book) /\ Wins(j, p.server, book)
  /\ p.gpus \in SUBSET Matching(j, p.server, book)
  /\ Cardinality(p.gpus) = Request[j].count
  /\ \A g \in p.gpus, h \in Matching(j, p.server, book) \ p.gpus : Tighter(p.server, g, h)

------------------------------------------------------------------------------
(* The loops of planReservations.  Jobs it may not move keep their bookings,
   and so does every job placed before this one.                             *)
Bookings_Kept ==
  [k \in Job |-> IF k \in Movable \ considered THEN jobs[k] ELSE Book(jobs, plan, considered)[k]]
Bookings == Book(jobs, plan, considered)

Decides(j, p, book) ==
  IF Expired(j, at) \/ j \in suspended \/ Hosts(j, book) = {}
  THEN p = NoPlacement
  ELSE Selects(j, p, book)

Consider(j) ==
  /\ phase = "PLANNING"
  /\ j \in Movable \ considered
  /\ \A k \in (Movable \ considered) \ {j} : Ahead(j, k)
  /\ \E p \in Placement \cup {NoPlacement} :
       Decides(j, p, Bookings) /\ plan' = [plan EXCEPT ![j] = p]
  /\ considered' = considered \cup {j}
  /\ UNCHANGED <<snapshot, jobs, phase, steady>>

(* ReplanReservations checks each placement again, against what cannot move
   and the entries before it.                                                *)
Prior(j) == Book(jobs, plan, {k \in Movable : Ahead(k, j)})
Accepted(j) ==
  /\ ~Expired(j, at)
  /\ plan[j].server \in Request[j].servers
  /\ Schedulable(servers[plan[j].server], at)
  /\ Cardinality(plan[j].gpus) = Request[j].count
  /\ \A g \in plan[j].gpus : Matches(j, plan[j].server, g, Prior(j))

(* All of the plan is committed, or nothing.                                 *)
Commit ==
  /\ phase = "PLANNING" /\ considered = Movable
  /\ IF \A j \in Movable : plan[j] # NoPlacement => Accepted(j)
     THEN phase' = "COMMITTED" /\ jobs' = Book(jobs, plan, Movable)
     ELSE phase' = "CONFLICT" /\ UNCHANGED jobs
  /\ UNCHANGED <<snapshot, plan, considered, steady>>

(* The next pass, before anything else has changed.                          *)
NextPass ==
  /\ phase # "PLANNING"
  /\ phase' = "PLANNING" /\ considered' = {} /\ plan' = [j \in Movable |-> NoPlacement]
  /\ steady' = (phase = "COMMITTED" /\ Movable = considered)
  /\ UNCHANGED <<snapshot, jobs>>

Next ==
  \/ \E j \in Job : Consider(j)
  \/ Commit
  \/ NextPass

Spec == Init /\ [][Next]_vars

------------------------------------------------------------------------------
(* Properties.                                                               *)

(* The planner and the store agree: a plan is never refused when it is
   checked again, which would leave every job unplanned at every tick
   (planReservations, ReplanReservations).                                   *)
Agreed == phase # "CONFLICT"

(* The plan is one Calendar!IsPlan allows, taken in the policy's order: what
   it books is feasible, and it leaves a job out only when the window is over,
   the organisation suspended, or every feasible placement short of memory or
   capability on some GPU (planReservations, Scheduler.Plan).                *)
Greedy ==
  phase = "PLANNING" =>
    \A j \in considered :
      IF plan[j] # NoPlacement
      THEN /\ ~Expired(j, at) /\ j \notin suspended
           /\ Feasible(j, plan[j], Prior(j), servers, at)
      ELSE \/ Expired(j, at) \/ j \in suspended
           \/ \A p \in Candidates(j) :
                Feasible(j, p, Prior(j), servers, at) =>
                  \E g \in p.gpus : ~Adequate(j, g) \/ Available(p.server, g) < MinVRAM[j]

(* Planning again changes nothing when it may move the same jobs and nothing
   else has changed: no reservation wanders from tick to tick
   (planReservations leaves the old bookings of movable jobs out).           *)
Settled == [][steady => UNCHANGED jobs]_vars

(* Among jobs the policy has no reason to tell apart, the one that has waited
   longer goes first, for ever: neither the cap on waiting nor the rounding of
   weeks turns the order round (WaitingCoefficient, Before).                 *)
SameClass(a, b) ==
  a.necessity = b.necessity /\ a.importance = b.importance /\ a.count = b.count
Fifo ==
  \A j, k \in Job :
    SameClass(Intent[j], Intent[k]) /\ Intent[j].created < Intent[k].created => Ahead(j, k)
=============================================================================
