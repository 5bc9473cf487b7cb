--------------------------- MODULE PlannerProofs ---------------------------
(***************************************************************************)
(* Proofs about the planner, for any number of jobs, servers and GPUs:     *)
(* the policy's order is a strict total order that never lets a younger    *)
(* job of a class pass an older one; the store never refuses a plan; a     *)
(* plan leaves out only what cannot be placed; and planning again changes  *)
(* nothing.                                                                *)
(***************************************************************************)
EXTENDS Planner, FiniteSetTheorems, TLAPS

------------------------------------------------------------------------------
(* The order.                                                                *)

LEMMA WaitingRange ==
  ASSUME NEW created \in Nat, NEW t \in Nat
  PROVE  WaitingCoefficient(created, t) \in 10..14
<1>1. (t - created) \div Week \in Int
  BY PolicyAssumption
<1> QED
  BY <1>1 DEF WaitingCoefficient

LEMMA ScoreIsNumber ==
  ASSUME NEW a \in Applicant, NEW t \in Nat
  PROVE  AuxiliaryScore(a, t) \in Nat
<1>1. WaitingCoefficient(a.created, t) \in Nat
  BY WaitingRange DEF Applicant
<1>2. ImportanceCoefficient(a.importance) \in Nat
  BY DEF ImportanceCoefficient
<1>3. (IF WithinQuota(a) THEN 10 ELSE 8) \in Nat
  OBVIOUS
<1> DEFINE x == ImportanceCoefficient(a.importance)
           y == IF WithinQuota(a) THEN 10 ELSE 8
           z == WaitingCoefficient(a.created, t)
<1>4. x * y * z \in Nat
  <2> HIDE DEF x, y, z
  <2>1. x \in Nat /\ y \in Nat /\ z \in Nat
    BY <1>1, <1>2, <1>3 DEF x, y, z
  <2> QED
    BY <2>1
<1> QED
  BY <1>4 DEF AuxiliaryScore

(* Two jobs are never equal in rank, none precedes itself, and the order is
   transitive (Before).                                                      *)
THEOREM StrictTotalOrder ==
  ASSUME NEW a \in Applicant, NEW b \in Applicant, NEW c \in Applicant, NEW t \in Nat
  PROVE  /\ ~Before(a, a, t)
         /\ a.id # b.id => Before(a, b, t) \/ Before(b, a, t)
         /\ Before(a, b, t) => ~Before(b, a, t)
         /\ Before(a, b, t) /\ Before(b, c, t) => Before(a, c, t)
<1>1. /\ AuxiliaryScore(a, t) \in Nat /\ AuxiliaryScore(b, t) \in Nat
      /\ AuxiliaryScore(c, t) \in Nat
  BY ScoreIsNumber
<1>2. /\ {a.necessity, b.necessity, c.necessity} \subseteq Nat
      /\ {a.created, b.created, c.created} \subseteq Nat
      /\ {a.id, b.id, c.id} \subseteq Nat
  BY DEF Applicant
<1> QED
  BY <1>1, <1>2 DEF Before

(* A longer wait is never worth less.                                        *)
LEMMA WaitingGrows ==
  ASSUME NEW x \in Nat, NEW y \in Nat, x <= y, NEW t \in Nat
  PROVE  WaitingCoefficient(y, t) <= WaitingCoefficient(x, t)
<1>1. Week \in Nat \ {0}
  BY PolicyAssumption
<1>2. t - y <= t - x /\ t - x \in Int /\ t - y \in Int
  OBVIOUS
<1>3. \A m, n \in Int, w \in Nat \ {0} : m <= n => m \div w <= n \div w
  OBVIOUS
<1>4. (t - y) \div Week <= (t - x) \div Week
  BY <1>1, <1>2, <1>3
<1>5. (t - y) \div Week \in Int /\ (t - x) \div Week \in Int
  BY <1>1
<1> QED
  BY <1>4, <1>5 DEF WaitingCoefficient

LEMMA ClassByAge ==
  ASSUME NEW a \in Applicant, NEW b \in Applicant, NEW t \in Nat,
         SameClass(a, b), a.created < b.created
  PROVE  Before(a, b, t)
<1>1. /\ a.created \in Nat /\ b.created \in Nat /\ a.created <= b.created
      /\ a.necessity \in Nat
  BY DEF Applicant
<1>2. AutoEligible(a) <=> AutoEligible(b)
  BY DEF SameClass, AutoEligible, WithinQuota
<1>3. a.necessity = b.necessity
  BY DEF SameClass
<1> DEFINE x == ImportanceCoefficient(a.importance)
           y == IF WithinQuota(a) THEN 10 ELSE 8
           v == WaitingCoefficient(a.created, t)
           w == WaitingCoefficient(b.created, t)
<1>4. /\ AuxiliaryScore(a, t) = x * y * v /\ AuxiliaryScore(b, t) = x * y * w
  BY DEF AuxiliaryScore, SameClass, WithinQuota
<1>5. x \in 8..14 /\ y \in 8..10 /\ v \in 10..14 /\ w \in 10..14 /\ w <= v
  BY <1>1, WaitingGrows, WaitingRange DEF ImportanceCoefficient
<1>6. x * y * v \in Nat /\ x * y * w \in Nat /\ x * y * v >= x * y * w
  <2> HIDE DEF x, y, v, w
  <2>1. x * y \in Nat
    BY <1>5
  <2>2. \A m, n, p \in Nat : n <= p => m * n \in Nat /\ m * p \in Nat /\ m * n <= m * p
    OBVIOUS
  <2>3. v \in Nat /\ w \in Nat /\ w <= v
    BY <1>5
  <2> QED
    BY <2>1, <2>2, <2>3
<1>7. \/ AuxiliaryScore(a, t) > AuxiliaryScore(b, t)
      \/ AuxiliaryScore(a, t) = AuxiliaryScore(b, t)
  <2> HIDE DEF x, y, v, w
  <2> QED
    BY <1>4, <1>6
<1> QED
  BY <1>2, <1>3, <1>7 DEF Before

(* Fractions on two sides of a whole number are compared as they should be.  *)
LEMMA CrossProduct ==
  ASSUME NEW a \in Nat, NEW b \in Nat, NEW c \in Nat \ {0}, NEW d \in Nat \ {0}, NEW k \in Nat,
         a < k * c, b >= k * d
  PROVE  a * d < b * c
<1>1. a * d < (k * c) * d
  BY ONLY a \in Nat, k * c \in Nat, d \in Nat \ {0}, a < k * c
<1>2. (k * d) * c <= b * c
  BY ONLY b \in Nat, k * d \in Nat, c \in Nat \ {0}, b >= k * d
<1>3. (k * c) * d = (k * d) * c
  OBVIOUS
<1>4. a * d \in Nat /\ (k * c) * d \in Nat /\ b * c \in Nat
  OBVIOUS
<1> QED
  BY <1>1, <1>2, <1>3, <1>4

(* Fragmentation-aware scoring puts every host that is partly used before
   every host that is empty, and among those alike a host the job fills
   before one it leaves partly free, whatever the sizes of the hosts
   (fragmentationScore, "bounded terms").                                    *)
THEOREM FragmentationPrefers ==
  ASSUME NEW m \in Nat, NEW x \in 0..m, NEW n \in Nat, NEW y \in 0..n,
         NEW taken \in Nat \ {0}, taken <= x, taken <= y
  PROVE  /\ x < m /\ y = n => Lower(Fragmentation(m, x, taken), Fragmentation(n, y, taken))
         /\ (x = m <=> y = n) /\ x = taken /\ y > taken =>
              Lower(Fragmentation(m, x, taken), Fragmentation(n, y, taken))
<1> DEFINE r == x - taken
           s == y - taken
<1>1. /\ r \in Nat /\ r <= m /\ s \in Nat /\ s <= n
      /\ m + 1 \in Nat \ {0} /\ n + 1 \in Nat \ {0}
  OBVIOUS
<1>2. ASSUME x < m, y = n
      PROVE  Lower(Fragmentation(m, x, taken), Fragmentation(n, y, taken))
  <2>1. Fragmentation(m, x, taken).num < 2 * (m + 1)
    BY <1>2 DEF Fragmentation
  <2>2. Fragmentation(n, y, taken).num >= 2 * (n + 1)
    BY <1>2 DEF Fragmentation
  <2>3. Fragmentation(m, x, taken).num \in Nat /\ Fragmentation(n, y, taken).num \in Nat
    BY DEF Fragmentation
  <2>4. Fragmentation(m, x, taken).den = m + 1 /\ Fragmentation(n, y, taken).den = n + 1
    BY DEF Fragmentation
  <2> QED
    BY <1>1, <2>1, <2>2, <2>3, <2>4, CrossProduct DEF Lower
<1>3. ASSUME x = m <=> y = n, x = taken, y > taken
      PROVE  Lower(Fragmentation(m, x, taken), Fragmentation(n, y, taken))
  <2> DEFINE k == IF y = n THEN 3 ELSE 1
  <2>1. Fragmentation(m, x, taken).num < k * (m + 1)
    BY <1>3 DEF Fragmentation
  <2>2. Fragmentation(n, y, taken).num >= k * (n + 1)
    BY <1>3 DEF Fragmentation
  <2>3. Fragmentation(m, x, taken).num \in Nat /\ Fragmentation(n, y, taken).num \in Nat
    BY DEF Fragmentation
  <2>4. Fragmentation(m, x, taken).den = m + 1 /\ Fragmentation(n, y, taken).den = n + 1
    BY DEF Fragmentation
  <2>5. k \in Nat
    OBVIOUS
  <2> HIDE DEF k
  <2> QED
    BY <1>1, <2>1, <2>2, <2>3, <2>4, <2>5, CrossProduct DEF Lower
<1> QED
  BY <1>2, <1>3

------------------------------------------------------------------------------
(* What a pass decides for a job is unique.                                  *)

Typed ==
  /\ at \in Nat
  /\ used \in [GPU -> Nat]
  /\ jobs \in [Job -> JobRecord]

LEMMA AvailableType ==
  ASSUME Typed, NEW s \in Server, NEW g \in GPU
  PROVE  Available(s, g) \in Int
BY PlannerAssumption DEF Typed, Available

LEMMA FiniteGpus ==
  ASSUME NEW S \in SUBSET GPU
  PROVE  IsFiniteSet(S) /\ Cardinality(S) \in Nat
BY DomainAssumption, FS_Subset, FS_CardinalityType

LEMMA ScoreType ==
  ASSUME NEW j \in Job, NEW s \in Server, NEW book
  PROVE  Score(j, s, book).num \in Int /\ Score(j, s, book).den \in Int
<1> DEFINE n == Cardinality({g \in GPU : servers[s].gpus[g].state # "ABSENT"})
           free == Cardinality({g \in GPU : IF Adequate(j, g) THEN ProjectedFree(j, s, g, book)
                                            ELSE servers[s].gpus[g].state = "FREE"})
           fit == Cardinality(Matching(j, s, book))
<1>1. n \in Nat /\ free \in Nat
  BY FiniteGpus
<1>2. fit \in Nat
  BY FiniteGpus DEF Matching
<1>3. Request[j].count \in Nat
  BY DomainAssumption
<1>4. /\ Fragmentation(n, free, Request[j].count).num \in Int
      /\ Fragmentation(n, free, Request[j].count).den \in Int
  <2> HIDE DEF n, free
  <2> QED
    BY <1>1, <1>3 DEF Fragmentation
<1>5. Score(j, s, book) =
        CASE strategy = "best-fit" -> [num |-> fit - Request[j].count, den |-> 1]
          [] strategy = "bin-pack" ->
               [num |-> 10 * (free - Request[j].count) - (n - free), den |-> 1]
          [] strategy = "fragmentation-aware" -> Fragmentation(n, free, Request[j].count)
          [] OTHER -> [num |-> 0, den |-> 1]
  BY DEF Score
<1> HIDE DEF n, free, fit
<1> QED
  BY <1>1, <1>2, <1>3, <1>4, <1>5

LEMMA SelectsOneServer ==
  ASSUME NEW j \in Job, NEW p \in Placement, NEW q \in Placement, NEW book,
         Selects(j, p, book), Selects(j, q, book)
  PROVE  p.server = q.server
<1> SUFFICES ASSUME p.server # q.server PROVE FALSE
  OBVIOUS
<1>1. p.server \in Server /\ q.server \in Server
  BY DEF Placement
<1>2. p.server \in Hosts(j, book) /\ q.server \in Hosts(j, book)
  BY DEF Selects
<1>3. Wins(j, p.server, book) /\ Wins(j, q.server, book)
  BY DEF Selects
<1> DEFINE x == Score(j, p.server, book)
           y == Score(j, q.server, book)
<1>4. \/ Lower(x, y)
      \/ ~Lower(y, x) /\ Number[p.server] < Number[q.server]
  BY <1>2, <1>3 DEF Wins
<1>5. \/ Lower(y, x)
      \/ ~Lower(x, y) /\ Number[q.server] < Number[p.server]
  BY <1>2, <1>3 DEF Wins
<1>6. ~(Lower(x, y) /\ Lower(y, x))
  <2>1. x.num \in Int /\ x.den \in Int /\ y.num \in Int /\ y.den \in Int
    BY <1>1, ScoreType
  <2> HIDE DEF x, y
  <2>2. x.num * y.den \in Int /\ y.num * x.den \in Int
    BY <2>1
  <2> QED
    BY <2>2 DEF Lower
<1>7. Number[p.server] \in Nat /\ Number[q.server] \in Nat
  BY <1>1, PlannerAssumption
<1> HIDE DEF x, y
<1> QED
  BY <1>4, <1>5, <1>6, <1>7

LEMMA SelectsOne ==
  ASSUME Typed, NEW j \in Job, NEW p \in Placement, NEW q \in Placement, NEW book,
         Selects(j, p, book), Selects(j, q, book)
  PROVE  p = q
<1>1. p.server = q.server
  BY SelectsOneServer
<1>2. p.gpus = q.gpus
  <2> SUFFICES ASSUME p.gpus # q.gpus PROVE FALSE
    OBVIOUS
  <2>1. /\ p.gpus \in SUBSET GPU /\ q.gpus \in SUBSET GPU
        /\ IsFiniteSet(p.gpus) /\ IsFiniteSet(q.gpus)
    BY FiniteGpus DEF Placement
  <2>2. Cardinality(p.gpus) = Cardinality(q.gpus)
    BY DEF Selects
  <2>3. PICK g \in p.gpus : g \notin q.gpus
    BY <2>1, <2>2, FS_Subset
  <2>4. PICK h \in q.gpus : h \notin p.gpus
    BY <2>1, <2>2, FS_Subset
  <2>5. Tighter(p.server, g, h) /\ Tighter(p.server, h, g)
    BY <1>1, <2>3, <2>4 DEF Selects
  <2>6. g \in GPU /\ h \in GPU /\ p.server \in Server
    BY <2>1 DEF Placement
  <2>7. /\ Available(p.server, g) \in Int /\ Available(p.server, h) \in Int
        /\ Number[g] \in Nat /\ Number[h] \in Nat
    BY <2>6, AvailableType, PlannerAssumption
  <2> QED
    BY <2>5, <2>7 DEF Tighter
<1> QED
  BY <1>1, <1>2 DEF Placement

(* The decision is a function of the job and of the bookings it sees.        *)
LEMMA DecidesOne ==
  ASSUME Typed, NEW j \in Job, NEW book,
         NEW p \in Placement \cup {NoPlacement}, NEW q \in Placement \cup {NoPlacement},
         Decides(j, p, book), Decides(j, q, book)
  PROVE  p = q
<1>1. ASSUME NEW r \in Placement \cup {NoPlacement}, Selects(j, r, book)
      PROVE  r \in Placement
  <2>1. r.server \in Server
    BY <1>1, DomainAssumption DEF Selects, Hosts
  <2> QED
    BY <2>1, DomainAssumption DEF NoPlacement
<1> QED
  BY <1>1, SelectsOne DEF Decides

------------------------------------------------------------------------------
(* The state of a pass: every decision taken so far is the one its job gets
   given those that go before it.                                            *)

Outcome == Placement \cup {NoPlacement}

PassInv ==
  phase = "PLANNING" =>
    /\ plan \in [Movable -> Outcome]
    /\ considered \subseteq Movable
    /\ \A j \in considered, k \in Movable : Ahead(k, j) => k \in considered
    /\ \A j \in considered : \A book : book = Prior(j) => Decides(j, plan[j], book)

PlanInv == Typed /\ PassInv /\ Agreed

(* While nothing changes, neither do decisions.                              *)
LEMMA SameDecision ==
  ASSUME UNCHANGED snapshot, NEW j, NEW p, NEW book
  PROVE  Decides(j, p, book)' <=> Decides(j, p, book)
BY DEF snapshot, Decides, Selects, Hosts, Matching, Matches, Adequate, ProjectedFree, Available,
       Wins, Score, Lower, Fragmentation, Tighter

LEMMA AheadOrder ==
  ASSUME Typed, NEW j \in Job, NEW k \in Job
  PROVE  /\ ~Ahead(j, j)
         /\ j # k => Ahead(j, k) \/ Ahead(k, j)
         /\ Ahead(j, k) => ~Ahead(k, j)
<1>1. Intent[j] \in Applicant /\ Intent[k] \in Applicant
  BY PlannerAssumption
<1>2. j # k => Intent[j].id # Intent[k].id
  BY PlannerAssumption
<1> QED
  BY <1>1, <1>2, StrictTotalOrder DEF Ahead, Typed

(* A decision on a job does not change the bookings others were decided by.  *)
LEMMA BookUntouched ==
  ASSUME NEW table, NEW old, NEW new, NEW S, DOMAIN old = DOMAIN new,
         \A k \in S \cap DOMAIN old : new[k] = old[k]
  PROVE  Book(table, new, S) = Book(table, old, S)
BY DEF Book

LEMMA TypedInit == Init => Typed
<1> SUFFICES ASSUME Init PROVE Typed
  OBVIOUS
<1>1. at \in Nat /\ used \in [GPU -> Nat]
  BY PlannerAssumption DEF Init
<1>2. ASSUME NEW j \in Job, NEW p \in Places(j)
      PROVE  Booked(Queued, p) \in JobRecord /\ Running(p) \in JobRecord
  <2>1. p \in Placement
    BY DEF Places, Candidates
  <2> QED
    BY <2>1 DEF Booked, Queued, Running, Unborn, JobRecord, Placement, JobStatus,
                ReservationState, TerminationReason
<1>3. Unborn \in JobRecord /\ Queued \in JobRecord
  BY DEF Queued, Unborn, JobRecord, JobStatus, ReservationState, TerminationReason
<1>4. \A j \in Job : Rows(j) \subseteq JobRecord
  BY <1>2, <1>3 DEF Rows
<1>5. /\ jobs \in [Job -> UNION {Rows(j) : j \in Job}]
      /\ \A j \in Job : jobs[j] \in Rows(j)
  BY DEF Init
<1>6. jobs \in [Job -> JobRecord]
  BY <1>4, <1>5
<1> QED
  BY <1>1, <1>6 DEF Typed

LEMMA PlanInit == Init => PlanInv
<1> SUFFICES ASSUME Init PROVE PlanInv
  OBVIOUS
<1>1. PassInv
  BY DEF Init, PassInv, Outcome
<1> QED
  BY <1>1, TypedInit DEF PlanInv, Agreed, Init

LEMMA BookedTyped ==
  ASSUME NEW row \in JobRecord, NEW p \in Outcome
  PROVE  /\ p # NoPlacement => Booked(row, p) \in JobRecord
         /\ Unbook(row) \in JobRecord
BY DEF Outcome, Placement, Booked, Unbook, JobRecord, JobStatus, ReservationState

LEMMA TypedStep ==
  ASSUME PlanInv, [Next]_vars
  PROVE  Typed'
<1>1. CASE Commit
  <2>1. plan \in [Movable -> Outcome]
    BY <1>1 DEF Commit, PlanInv, PassInv
  <2>2. Book(jobs, plan, Movable) \in [Job -> JobRecord]
    BY <2>1, BookedTyped DEF Book, PlanInv, Typed, Movable
  <2> QED
    BY <1>1, <2>2 DEF Commit, snapshot, PlanInv, Typed
<1>2. CASE UNCHANGED jobs /\ UNCHANGED snapshot
  BY <1>2 DEF snapshot, PlanInv, Typed
<1> QED
  BY <1>1, <1>2 DEF Next, Consider, NextPass, vars

(* A job's turn: it sees the bookings of the jobs ahead of it.               *)
LEMMA TurnSeesPrior ==
  ASSUME PlanInv, NEW j \in Job, Consider(j)
  PROVE  /\ considered = {k \in Movable : Ahead(k, j)}
         /\ Bookings = Prior(j)
<1>1. /\ considered \subseteq Movable /\ Movable \subseteq Job /\ Typed
      /\ \A i \in considered, k \in Movable : Ahead(k, i) => k \in considered
      /\ j \in Movable \ considered
      /\ \A k \in (Movable \ considered) \ {j} : Ahead(j, k)
  BY DEF PlanInv, PassInv, Consider, Movable
<1>2. ASSUME NEW k \in Movable PROVE k \in considered <=> Ahead(k, j)
  BY <1>1, <1>2, AheadOrder
<1>3. considered = {k \in Movable : Ahead(k, j)}
  BY <1>1, <1>2
<1> QED
  BY <1>3 DEF Bookings, Prior

LEMMA ConsiderInv ==
  ASSUME PlanInv, NEW j \in Job, Consider(j)
  PROVE  PassInv'
<1> DEFINE before(i) == {k \in Movable : Ahead(k, i)}
<1>1. /\ plan \in [Movable -> Outcome]
      /\ considered \subseteq Movable
      /\ \A i \in considered, k \in Movable : Ahead(k, i) => k \in considered
      /\ \A i \in considered : \A book : book = Prior(i) => Decides(i, plan[i], book)
  BY DEF PlanInv, PassInv, Consider
<1>2. PICK p \in Outcome : Decides(j, p, Bookings) /\ plan' = [plan EXCEPT ![j] = p]
  BY DEF Consider, Outcome
<1>3. /\ considered' = considered \cup {j} /\ UNCHANGED <<snapshot, jobs>>
      /\ j \in Movable /\ j \notin considered
  BY DEF Consider
<1>4. /\ Movable' = Movable
      /\ \A i, k \in Job : Ahead(i, k)' <=> Ahead(i, k)
  BY <1>3 DEF Movable, Ahead, snapshot
<1>5. considered = before(j) /\ Bookings = Prior(j)
  BY TurnSeesPrior
<1>6. Movable \subseteq Job
  BY DEF Movable
<1>7. plan' \in [Movable -> Outcome] /\ DOMAIN plan' = DOMAIN plan
  BY <1>1, <1>2
<1>8. ASSUME NEW i \in considered' PROVE Prior(i)' = Prior(i)
  <2>1. before(i)' = before(i) /\ i \in Movable
    BY <1>1, <1>3, <1>4, <1>6
  <2>2. j \notin before(i)
    BY <1>1, <1>3, <1>6, AheadOrder DEF PlanInv
  <2>3. \A k \in before(i) \cap DOMAIN plan : plan'[k] = plan[k]
    BY <1>1, <1>2, <2>2
  <2>4. Book(jobs, plan', before(i)) = Book(jobs, plan, before(i))
    BY <1>7, <2>3, BookUntouched
  <2>5. Prior(i)' = Book(jobs, plan', before(i))
    BY <1>3, <2>1 DEF Prior, Book
  <2> QED
    BY <2>4, <2>5 DEF Prior
<1>9. ASSUME NEW i \in considered', NEW book, book = Prior(i)'
      PROVE  Decides(i, plan'[i], book)
  <2>1. book = Prior(i)
    BY <1>8, <1>9
  <2>2. CASE i = j
    BY <1>1, <1>2, <1>3, <1>5, <2>1, <2>2
  <2>3. CASE i # j
    BY <1>1, <1>2, <1>3, <2>1, <2>3
  <2> QED
    BY <2>2, <2>3
<1>10. ASSUME NEW i \in considered', NEW book, book = Prior(i)'
       PROVE  Decides(i, plan[i], book)'
  BY <1>3, <1>9, <1>10, SameDecision
<1>11. \A i \in considered', k \in Movable' : Ahead(k, i)' => k \in considered'
  BY <1>1, <1>3, <1>4, <1>5, <1>6
<1> QED
  BY <1>1, <1>3, <1>4, <1>7, <1>10, <1>11 DEF PassInv

(* A decision against the bookings ahead is what the store accepts.          *)
LEMMA DecidedAccepted ==
  ASSUME NEW j \in Job, Decides(j, plan[j], Prior(j)), plan[j] # NoPlacement
  PROVE  Accepted(j)
BY DEF Decides, Selects, Hosts, Matching, Accepted

LEMMA CommitAgrees ==
  ASSUME PlanInv, Commit
  PROVE  phase' = "COMMITTED" /\ jobs' = Book(jobs, plan, Movable)
<1>1. \A j \in Movable : Decides(j, plan[j], Prior(j))
  BY DEF PlanInv, PassInv, Commit
<1>2. \A j \in Movable : plan[j] # NoPlacement => Accepted(j)
  BY <1>1, DecidedAccepted DEF Movable
<1> QED
  BY <1>2 DEF Commit

LEMMA PlanNext == PlanInv /\ [Next]_vars => PlanInv'
<1> SUFFICES ASSUME PlanInv, [Next]_vars PROVE PlanInv'
  OBVIOUS
<1>1. CASE \E j \in Job : Consider(j)
  <2>1. PICK j \in Job : Consider(j)
    BY <1>1
  <2>2. Agreed'
    BY <2>1 DEF Consider, PlanInv, Agreed
  <2> QED
    BY <2>1, <2>2, ConsiderInv, TypedStep DEF PlanInv
<1>2. CASE Commit
  <2>1. phase' = "COMMITTED"
    BY <1>2, CommitAgrees
  <2> QED
    BY <2>1, TypedStep DEF PlanInv, PassInv, Agreed
<1>3. CASE NextPass
  <2>1. Movable' = Movable
    BY <1>3 DEF NextPass, Movable, snapshot
  <2>2. PassInv'
    BY <1>3, <2>1 DEF NextPass, PassInv, Outcome
  <2> QED
    BY <1>3, <2>2, TypedStep DEF NextPass, PlanInv, Agreed
<1>4. CASE UNCHANGED vars
  <2>1. UNCHANGED snapshot /\ UNCHANGED <<jobs, plan, considered, phase>>
    BY <1>4 DEF vars
  <2>2. /\ Movable' = Movable
        /\ \A i, k \in Job : Ahead(i, k)' <=> Ahead(i, k)
        /\ Agreed'
    BY <2>1 DEF Movable, Ahead, snapshot, PlanInv, Agreed
  <2>3. \A i \in Job : Prior(i)' = Prior(i)
    BY <2>1, <2>2 DEF Prior, Book, Movable
  <2>4. ASSUME phase = "PLANNING", NEW i \in considered, NEW book, book = Prior(i)'
        PROVE  Decides(i, plan[i], book)'
    <3>1. i \in Job
      BY <2>4 DEF PlanInv, PassInv, Movable
    <3>2. Decides(i, plan[i], book)
      BY <2>3, <2>4, <3>1 DEF PlanInv, PassInv
    <3>3. \A q : Decides(i, q, book)' <=> Decides(i, q, book)
      BY <2>1, SameDecision
    <3> QED
      BY <2>1, <3>2, <3>3
  <2>5. PassInv'
    BY <2>1, <2>2, <2>4 DEF PlanInv, PassInv, Movable
  <2> QED
    BY <2>2, <2>5, TypedStep DEF PlanInv
<1> QED
  BY <1>1, <1>2, <1>3, <1>4 DEF Next

(* Every decision of a pass is the planner's, given those before it.         *)
THEOREM PassConsistent == Spec => []PlanInv
<1>1. Init => PlanInv
  BY PlanInit
<1>2. PlanInv /\ [Next]_vars => PlanInv'
  BY PlanNext
<1> QED
  BY <1>1, <1>2, PTL DEF Spec

(* The store never refuses a plan when it checks it again
   (planReservations, ReplanReservations).                                   *)
THEOREM NeverRefused == Spec => []Agreed
<1>1. PlanInv => Agreed
  BY DEF PlanInv
<1> QED
  BY <1>1, PassConsistent, PTL

(* A server with a feasible placement on suitable GPUs is among the hosts.   *)
LEMMA EnoughGpus ==
  ASSUME NEW j \in Job, NEW book, NEW p \in Candidates(j),
         Feasible(j, p, book, servers, at),
         \A g \in p.gpus : Adequate(j, g) /\ ~(Available(p.server, g) < MinVRAM[j]),
         Typed
  PROVE  p.server \in Hosts(j, book)
<1>1. p.server \in Server /\ p.gpus \in SUBSET GPU
  BY DEF Candidates, Placement
<1>2. MinVRAM[j] \in Nat
  BY PlannerAssumption
<1>3. \A g \in p.gpus : Available(p.server, g) \in Int
  BY <1>1, AvailableType
<1>4. p.gpus \subseteq Matching(j, p.server, book)
  BY <1>1, <1>2, <1>3 DEF Matching, Matches, ProjectedFree, Feasible
<1>5. Matching(j, p.server, book) \in SUBSET GPU
  BY DEF Matching
<1>6. Cardinality(p.gpus) <= Cardinality(Matching(j, p.server, book))
  BY <1>4, <1>5, FiniteGpus, FS_Subset
<1>7. Cardinality(Matching(j, p.server, book)) >= Request[j].count
  BY <1>6 DEF Feasible
<1> QED
  BY <1>7 DEF Feasible, Hosts

LEMMA DecidedGreedy ==
  ASSUME PlanInv
  PROVE  Greedy
<1> SUFFICES ASSUME phase = "PLANNING", NEW j \in considered
             PROVE  IF plan[j] # NoPlacement
                    THEN /\ ~Expired(j, at) /\ j \notin suspended
                         /\ Feasible(j, plan[j], Prior(j), servers, at)
                    ELSE \/ Expired(j, at) \/ j \in suspended
                         \/ \A p \in Candidates(j) :
                              Feasible(j, p, Prior(j), servers, at) =>
                                \E g \in p.gpus :
                                  ~Adequate(j, g) \/ Available(p.server, g) < MinVRAM[j]
  BY DEF Greedy
<1>1. j \in Job /\ Decides(j, plan[j], Prior(j)) /\ Typed
  BY DEF PlanInv, PassInv, Movable
<1>2. CASE plan[j] # NoPlacement
  BY <1>1, <1>2
     DEF Decides, Selects, Hosts, Matching, Matches, ProjectedFree, Feasible
<1>3. CASE plan[j] = NoPlacement
  <2> SUFFICES ASSUME ~Expired(j, at), j \notin suspended, NEW p \in Candidates(j),
                      Feasible(j, p, Prior(j), servers, at),
                      \A g \in p.gpus : Adequate(j, g) /\ ~(Available(p.server, g) < MinVRAM[j])
               PROVE  FALSE
    BY <1>3
  <2>1. p.server \in Hosts(j, Prior(j))
    BY <1>1, EnoughGpus
  <2>2. plan[j].server \in Server
    BY <1>1, <2>1, DomainAssumption DEF Decides, Selects, Hosts
  <2> QED
    BY <1>3, <2>2, DomainAssumption DEF NoPlacement
<1> QED
  BY <1>2, <1>3

(* A plan is one the abstract calendar allows, taken in the policy's order:
   a job is left out only for a reason (planReservations, Scheduler.Plan).   *)
THEOREM LeavesOutForReason == Spec => []Greedy
BY PassConsistent, DecidedGreedy, PTL

(* First come, first served among jobs of one class (WaitingCoefficient).    *)
THEOREM FirstComeFirst == Spec => []Fifo
<1>1. PlanInv => Fifo
  BY ClassByAge, PlannerAssumption DEF PlanInv, Typed, Fifo, Ahead
<1> QED
  BY <1>1, PassConsistent, PTL

------------------------------------------------------------------------------
(* Planning again.  A table is settled when it is what its own bookings, each
   decided given those ahead, make of it.                                    *)

SettledBy(old) ==
  /\ jobs = Book(jobs, old, Movable)
  /\ \A j \in Movable : \A book :
       book = Book(jobs, old, {k \in Movable : Ahead(k, j)}) => Decides(j, old[j], book)

(* A pass that may move the jobs the last one moved repeats its decisions.   *)
Repeats ==
  steady \/ (phase = "COMMITTED" /\ Movable = considered) =>
    \E old \in [Movable -> Outcome] :
      SettledBy(old) /\ (phase = "PLANNING" => \A k \in considered : plan[k] = old[k])

LEMMA Rebook ==
  ASSUME NEW table \in [Job -> JobRecord], NEW M \in SUBSET Job, NEW S \in SUBSET M,
         NEW new \in [M -> Outcome]
  PROVE  Book(Book(table, new, M), new, S) = Book(table, new, S)
<1>1. ASSUME NEW row \in JobRecord, NEW p \in Placement
      PROVE  /\ Booked(Booked(row, p), p) = Booked(row, p)
             /\ Unbook(Booked(row, p)) = Unbook(row)
             /\ Unbook(Unbook(row)) = Unbook(row)
  BY DEF Booked, Unbook, JobRecord, Placement
<1>2. \A k \in M : new[k] # NoPlacement => new[k] \in Placement
  BY DEF Outcome
<1>3. \A k \in M : Unbook(Unbook(table[k])) = Unbook(table[k])
  BY DEF Unbook, JobRecord
<1>4. ASSUME NEW k \in Job
      PROVE  Book(Book(table, new, M), new, S)[k] = Book(table, new, S)[k]
  <2>1. CASE k \notin M
    BY <2>1 DEF Book
  <2>2. CASE k \in M /\ new[k] = NoPlacement
    BY <1>3, <2>2 DEF Book
  <2>3. CASE k \in M /\ new[k] # NoPlacement
    BY <1>1, <1>2, <2>3 DEF Book
  <2> QED
    BY <2>1, <2>2, <2>3
<1> QED
  BY <1>4 DEF Book

LEMMA SettledKept ==
  ASSUME UNCHANGED <<snapshot, jobs>>, NEW old, SettledBy(old)
  PROVE  SettledBy(old)'
<1>1. /\ Movable' = Movable
      /\ \A i, k \in Job : Ahead(i, k)' <=> Ahead(i, k)
  BY DEF Movable, Ahead, snapshot
<1>2. ASSUME NEW j \in Movable,
             NEW book, book = Book(jobs, old, {k \in Movable : Ahead(k, j)})'
      PROVE  Decides(j, old[j], book)'
  <2>1. book = Book(jobs, old, {k \in Movable : Ahead(k, j)})
    BY <1>1, <1>2 DEF Book, Movable
  <2>2. Decides(j, old[j], book)
    BY <2>1 DEF SettledBy
  <2> QED
    BY <2>2, SameDecision
<1>3. jobs' = Book(jobs', old, Movable')
  BY <1>1 DEF SettledBy
<1> QED
  BY <1>1, <1>2, <1>3 DEF SettledBy

LEMMA ConsiderRepeats ==
  ASSUME PlanInv, Repeats, NEW j \in Job, Consider(j)
  PROVE  Repeats'
<1>1. /\ phase = "PLANNING" /\ phase' = "PLANNING" /\ UNCHANGED <<snapshot, jobs, steady>>
      /\ j \in Movable \ considered /\ considered' = considered \cup {j}
  BY DEF Consider
<1>2. Movable' = Movable
  BY <1>1 DEF Movable, snapshot
<1> SUFFICES ASSUME steady
             PROVE  \E old \in [Movable -> Outcome] :
                      SettledBy(old)' /\ \A k \in considered' : plan'[k] = old[k]
  BY <1>1, <1>2 DEF Repeats
<1>3. PICK old \in [Movable -> Outcome] :
        SettledBy(old) /\ \A k \in considered : plan[k] = old[k]
  BY <1>1 DEF Repeats
<1>4. PICK p \in Outcome : Decides(j, p, Bookings) /\ plan' = [plan EXCEPT ![j] = p]
  BY DEF Consider, Outcome
<1>5. plan \in [Movable -> Outcome] /\ considered \subseteq Movable /\ Typed
  BY <1>1 DEF PlanInv, PassInv
<1>6. p = old[j]
  <2>1. considered = {k \in Movable : Ahead(k, j)}
    BY TurnSeesPrior
  <2>2. Bookings = Book(jobs, old, considered)
    BY <1>3, <1>5, BookUntouched DEF Bookings
  <2>3. Decides(j, old[j], Bookings)
    BY <1>1, <1>3, <2>1, <2>2 DEF SettledBy
  <2>4. p \in Placement \cup {NoPlacement} /\ old[j] \in Placement \cup {NoPlacement}
    BY <1>1 DEF Outcome
  <2> QED
    BY <1>4, <1>5, <2>3, <2>4, DecidesOne
<1>7. \A k \in considered' : plan'[k] = old[k]
  BY <1>1, <1>3, <1>4, <1>5, <1>6
<1>8. SettledBy(old)'
  BY <1>1, <1>3, SettledKept
<1> QED
  BY <1>7, <1>8

(* A steady pass commits the table it started from.                          *)
LEMMA SteadyCommit ==
  ASSUME PlanInv, Repeats, Commit, steady
  PROVE  UNCHANGED jobs
<1>1. phase = "PLANNING" /\ considered = Movable /\ plan \in [Movable -> Outcome]
  BY DEF Commit, PlanInv, PassInv
<1>2. PICK old \in [Movable -> Outcome] :
        SettledBy(old) /\ \A k \in considered : plan[k] = old[k]
  BY <1>1 DEF Repeats
<1>3. plan = old
  BY <1>1, <1>2
<1> QED
  BY <1>2, <1>3, CommitAgrees DEF SettledBy

LEMMA CommitRepeats ==
  ASSUME PlanInv, Repeats, Commit
  PROVE  Repeats'
<1>1. /\ phase = "PLANNING" /\ considered = Movable /\ plan \in [Movable -> Outcome] /\ Typed
      /\ \A j \in considered : \A book : book = Prior(j) => Decides(j, plan[j], book)
  BY DEF Commit, PlanInv, PassInv
<1>2. /\ phase' = "COMMITTED" /\ jobs' = Book(jobs, plan, Movable)
      /\ UNCHANGED <<snapshot, plan, considered, steady>>
  BY CommitAgrees DEF Commit
<1>3. CASE steady
  <2>1. UNCHANGED jobs
    BY <1>3, SteadyCommit
  <2>2. Movable' = Movable
    BY <1>2, <2>1 DEF Movable, snapshot
  <2>3. PICK old \in [Movable -> Outcome] : SettledBy(old)
    BY <1>1, <1>3 DEF Repeats
  <2>4. SettledBy(old)'
    BY <1>2, <2>1, <2>3, SettledKept
  <2> QED
    BY <1>2, <2>2, <2>4 DEF Repeats
<1>4. CASE ~steady /\ Movable' = Movable
  <2>1. /\ jobs \in [Job -> JobRecord] /\ Movable \in SUBSET Job
        /\ \A i, k \in Job : Ahead(i, k)' <=> Ahead(i, k)
    BY <1>1, <1>2 DEF Typed, Movable, Ahead, snapshot
  <2>2. \A S \in SUBSET Movable : Book(jobs', plan, S) = Book(jobs, plan, S)
    BY <1>1, <1>2, <2>1, Rebook
  <2>3. jobs' = Book(jobs', plan, Movable)
    BY <1>2, <2>2
  <2>4. ASSUME NEW new, new = plan
        PROVE  SettledBy(new)'
    <3>1. ASSUME NEW j \in Movable,
                 NEW book, book = Book(jobs', new, {k \in Movable' : Ahead(k, j)'})
          PROVE  Decides(j, new[j], book)'
      <4>1. {k \in Movable' : Ahead(k, j)'} = {k \in Movable : Ahead(k, j)}
        BY <1>4, <2>1
      <4>2. Decides(j, new[j], book)
        BY <1>1, <2>2, <2>4, <3>1, <4>1 DEF Prior
      <4> QED
        BY <4>2, <1>2, SameDecision
    <3> QED
      BY <1>4, <2>3, <2>4, <3>1 DEF SettledBy
  <2> QED
    BY <1>1, <1>2, <1>4, <2>4 DEF Repeats
<1>5. CASE ~steady /\ Movable' # Movable
  BY <1>1, <1>2, <1>5 DEF Repeats
<1> QED
  BY <1>3, <1>4, <1>5

LEMMA RepeatsNext == PlanInv /\ Repeats /\ [Next]_vars => Repeats'
<1> SUFFICES ASSUME PlanInv, Repeats, [Next]_vars PROVE Repeats'
  OBVIOUS
<1>1. CASE \E j \in Job : Consider(j)
  BY <1>1, ConsiderRepeats
<1>2. CASE Commit
  BY <1>2, CommitRepeats
<1>3. CASE NextPass
  <2>1. /\ phase' = "PLANNING" /\ considered' = {} /\ UNCHANGED <<snapshot, jobs>>
        /\ steady' = (phase = "COMMITTED" /\ Movable = considered)
    BY <1>3 DEF NextPass
  <2>2. Movable' = Movable
    BY <2>1 DEF Movable, snapshot
  <2>3. ASSUME steady'
        PROVE  \E old \in [Movable -> Outcome] : SettledBy(old)'
    BY <2>1, <2>3, SettledKept DEF Repeats
  <2> QED
    BY <2>1, <2>2, <2>3 DEF Repeats
<1>4. CASE UNCHANGED vars
  <2>1. UNCHANGED <<snapshot, jobs>> /\ UNCHANGED <<plan, considered, phase, steady>>
    BY <1>4 DEF vars
  <2>2. Movable' = Movable
    BY <2>1 DEF Movable, snapshot
  <2>3. \A old : SettledBy(old) => SettledBy(old)'
    BY <2>1, SettledKept
  <2> QED
    BY <2>1, <2>2, <2>3 DEF Repeats
<1> QED
  BY <1>1, <1>2, <1>3, <1>4 DEF Next

(* No reservation wanders: planning again, when nothing else changed and the
   same jobs may move, commits the same table (planReservations).            *)
THEOREM NoWandering == Spec => Settled
<1>1. Init => Repeats
  BY DEF Init, Repeats
<1>2. PlanInv /\ Repeats /\ [Next]_vars => [steady => UNCHANGED jobs]_vars
  BY SteadyCommit DEF Next, Consider, NextPass, vars
<1> QED
  BY <1>1, <1>2, RepeatsNext, PassConsistent, PTL DEF Spec, Settled
=============================================================================
