------------------------------ MODULE Calendar ------------------------------
(***************************************************************************)
(* The two derivations every allocation decision rests on, as functions of *)
(* the job and server tables:                                              *)
(*                                                                         *)
(*   Normalize - the present: the state and owner of each GPU, from what   *)
(*               the agent observed and from the active reservations;      *)
(*   Feasible  - the future: whether a job can be booked on given GPUs for *)
(*               its window, projecting the calendar onto the inventory.   *)
(*                                                                         *)
(* Operators named Op_Something are deliberately broken variants of Op:    *)
(* each is a plausible bug, and the properties are tested against them.    *)
(***************************************************************************)
EXTENDS Domain

CONSTANT OfflineAfter   \* how long a heartbeat or an inventory stays fresh

ASSUME CalendarAssumption == OfflineAfter \in Nat

Schedulable(server, at) == SchedulableWithin(server, at, OfflineAfter)

------------------------------------------------------------------------------
(* What a report says of a GPU before owners are derived.  A stored view
   keeps only that much: a release re-derives the rest from the jobs.        *)
Condition == {"ABSENT", "UNHEALTHY", "UNKNOWN", "OK"}
StoredCondition(view) ==
  IF view.state \in {"ABSENT", "UNHEALTHY", "UNKNOWN"} THEN view.state ELSE "OK"

(* Jobs whose active managed container is entitled to GPU g of server s.
   The job may be finished: a container that still runs keeps its GPUs.      *)
ManagedBy_LiveOnly(jobs, active, s, g) ==
  {j \in active : /\ jobs[j].dispatched /\ jobs[j].server = s /\ g \in jobs[j].gpus
                  /\ ~Terminal(jobs[j].status)}
ManagedBy(jobs, active, s, g) ==
  {j \in active : jobs[j].dispatched /\ jobs[j].server = s /\ g \in jobs[j].gpus}

(* Jobs that reserve GPU g of server s, observed or not.  A future booking
   (PLANNED) reserves nothing yet.                                           *)
ReservedBy_NotObserved(jobs, s, g) ==
  {j \in Job : jobs[j].server = s /\ g \in jobs[j].gpus /\ jobs[j].resv = "RESERVED"}
ReservedBy(jobs, s, g) ==
  {j \in Job : /\ jobs[j].server = s
               /\ g \in jobs[j].gpus
               /\ ~Terminal(jobs[j].status)
               /\ jobs[j].resv # "PLANNED"}

(***************************************************************************)
(* normalizeGPUState.  Precedence: health, then external containers, then  *)
(* consumers nobody explains, then the one observed managed container,     *)
(* then a sticky unknown, then the reservation.  What is left is FREE.     *)
(***************************************************************************)
Normalize(jobs, s, condition, stray, active, legacy) ==
  [g \in GPU |->
    LET managed == ManagedBy(jobs, active, s, g)
        reserved == ReservedBy(jobs, s, g)
        unowned(state) == [state |-> state, owner |-> NONE]
        owned(state, owners) == [state |-> state, owner |-> CHOOSE j \in owners : TRUE]
    IN IF condition[g] \in {"ABSENT", "UNHEALTHY"} THEN unowned(condition[g])
       ELSE IF g \in legacy THEN unowned("LEGACY")
       ELSE IF g \in stray \/ \E i, k \in managed : i # k THEN unowned("UNKNOWN")
       ELSE IF managed # {} THEN owned("ALLOCATED", managed)
       ELSE IF condition[g] = "UNKNOWN" THEN unowned("UNKNOWN")
       ELSE IF reserved # {} THEN owned("RESERVED", reserved)
       ELSE unowned("FREE")]

(* The re-derivation a release makes, with no new report of processes.       *)
Renormalize(jobs, s, server) ==
  Normalize(jobs, s, [g \in GPU |-> StoredCondition(server.gpus[g])], {},
            server.active, server.legacy)

------------------------------------------------------------------------------
(***************************************************************************)
(* CalendarServers and placementMatches.  A GPU is projected free for job  *)
(* j when it is FREE now, or when j starts later and the live booking of   *)
(* its present owner ends by then, and when no other live booking of it    *)
(* overlaps the window of j.                                               *)
(***************************************************************************)
FreeInTime(j, s, g, book, server, at) ==
  LET view == server.gpus[g]
  IN \/ view.state = "FREE"
     \/ /\ view.state \in {"RESERVED", "ALLOCATED"}
        /\ Request[j].start > at
        /\ view.owner # NONE
        /\ book[view.owner].server = s
        /\ g \in book[view.owner].gpus
        /\ ~Terminal(book[view.owner].status)
        /\ Request[view.owner].end <= Request[j].start

Unbooked_Started(j, s, g, book) ==
  \A k \in Job \ {j} : ~(Holds(book[k], s, g) /\ book[k].resv # "PLANNED" /\ Overlaps(j, k))
Unbooked(j, s, g, book) ==
  \A k \in Job \ {j} : ~(Holds(book[k], s, g) /\ Overlaps(j, k))

Feasible(j, p, book, servers, at) ==
  /\ p.server \in Request[j].servers
  /\ Schedulable(servers[p.server], at)
  /\ Cardinality(p.gpus) = Request[j].count
  /\ \A g \in p.gpus : /\ FreeInTime(j, p.server, g, book, servers[p.server], at)
                       /\ Unbooked(j, p.server, g, book)

Placement == [server : Server, gpus : SUBSET GPU]
NoPlacement == [server |-> NONE, gpus |-> {}]

(* The placements worth trying: the right servers, the right number of GPUs. *)
Candidates(j) ==
  {p \in Placement : p.server \in Request[j].servers /\ Cardinality(p.gpus) = Request[j].count}

Booked(job, p) ==
  [job EXCEPT !.status = "ASSIGNED", !.server = p.server, !.gpus = p.gpus, !.resv = "PLANNED"]
Unbook_KeepGPUs(job) ==
  [job EXCEPT !.status = "QUEUED", !.server = NONE, !.resv = "NONE"]
Unbook(job) ==
  [job EXCEPT !.status = "QUEUED", !.server = NONE, !.gpus = {}, !.resv = "NONE"]

(***************************************************************************)
(* planReservations, as ReplanReservations revalidates it.  Every          *)
(* replannable job is taken in some order (the policy's; here any) and     *)
(* gets a feasible placement (the scheduler's choice; here any) against    *)
(* what cannot move and what was placed before it; it goes without one     *)
(* only if its window is over, its organisation is suspended, or nothing   *)
(* is feasible.                                                            *)
(***************************************************************************)
Book(jobs, plan, placed) ==
  [k \in Job |-> IF k \notin DOMAIN plan THEN jobs[k]
                 ELSE IF k \in placed /\ plan[k] # NoPlacement
                      THEN Booked(jobs[k], plan[k])
                      ELSE Unbook(jobs[k])]

IsPlan(plan, rank, jobs, servers, suspended, at) ==
  \A j \in DOMAIN plan :
    LET book == Book(jobs, plan, {k \in DOMAIN plan : rank[k] < rank[j]})
        open == ~Expired(j, at) /\ j \notin suspended
    IN IF plan[j] # NoPlacement
       THEN open /\ Feasible(j, plan[j], book, servers, at)
       ELSE open => \A p \in Candidates(j) : ~Feasible(j, p, book, servers, at)

Rankings(S) == {r \in [S -> 1..Cardinality(S)] : \A x, y \in S : r[x] = r[y] => x = y}
=============================================================================
